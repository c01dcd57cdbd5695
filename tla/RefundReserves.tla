---------------------------- MODULE RefundReserves ----------------------------
(***************************************************************************)
(* The rest of ahjoor-refund: merchants' reserves, store credit, what      *)
(* merchants and the admin set, and the pause.                             *)
(***************************************************************************)
EXTENDS RefundRequests

requestVars == <<refund, queue, purse, refunded, scoreVars>>

-----------------------------------------------------------------------------
(* The reserve drawn on approval.                                           *)

RequiredReserve(m) == Bps(reserve[m].volume, cfg.reserveRatio)

DepositReserve(m, t, x) ==
  /\ ~paused /\ x > 0 /\ Ask(Self, t)
  /\ held' = [held EXCEPT ![t] = @ + x]
  /\ reserve' = [reserve EXCEPT ![m].kept = @ + x,
       ![m].flagged = @ /\ reserve[m].kept + x < RequiredReserve(m)]
  /\ UNCHANGED <<paused, cfg, made, requestVars, credit, terms>>

(* withdraw_reserve: in any token the contract holds enough of.             *)
WithdrawReserve(m, t, x) ==
  /\ ~paused /\ x > 0
  /\ reserve[m].kept - x >= RequiredReserve(m)
  /\ x <= held[t]
  /\ held' = [held EXCEPT ![t] = @ - x]
  /\ reserve' = [reserve EXCEPT ![m].kept = @ - x]
  /\ UNCHANGED <<settingVars, requestVars, credit, terms>>

CheckReserveCompliance(m) ==
  /\ reserve' = [reserve EXCEPT ![m].flagged = reserve[m].kept < RequiredReserve(m)]
  /\ UNCHANGED <<settingVars, requestVars, held, credit, terms>>

(* record_payment_volume: by anyone; of a flagged merchant it is undone.    *)
RecordPaymentVolume(m, x) ==
  /\ ~paused /\ x > 0 /\ ~reserve[m].flagged
  /\ reserve' = [reserve EXCEPT ![m].volume = @ + x]
  /\ UNCHANGED <<settingVars, requestVars, held, credit, terms>>

-----------------------------------------------------------------------------
(* The reserve payments are made conditional on.                            *)

MinimumReserve(m) == Bps(reserve[m].volume, cfg.minReserve)

(* check_merchant_reserve, which the payments contract asks.                *)
ReserveSuffices(m) == reserve[m].waived > now \/ reserve[m].balance >= MinimumReserve(m)

DepositMerchantReserve(m, x) ==
  /\ ~paused /\ x > 0
  /\ held' = [held EXCEPT ![ReserveToken] = @ + x]
  /\ reserve' = [reserve EXCEPT ![m].balance = @ + x]
  /\ UNCHANGED <<settingVars, requestVars, credit, terms>>

WithdrawMerchantReserve(m, x) ==
  /\ ~paused /\ x > 0 /\ x <= reserve[m].balance
  /\ reserve[m].balance - x >= MinimumReserve(m)
  /\ x <= held[ReserveToken]
  /\ held' = [held EXCEPT ![ReserveToken] = @ - x]
  /\ reserve' = [reserve EXCEPT ![m].balance = @ - x]
  /\ UNCHANGED <<settingVars, requestVars, credit, terms>>

WaiveReserveRequirement(m, until) ==
  /\ ~paused
  /\ reserve' = [reserve EXCEPT ![m].waived = until]
  /\ UNCHANGED <<settingVars, requestVars, held, credit, terms>>

-----------------------------------------------------------------------------
(* Store credit.                                                            *)

ApplyStoreCredit(c, m, x) ==
  /\ ~paused /\ x > 0
  /\ credit[m][c].some /\ now <= credit[m][c].until /\ credit[m][c].amount > 0
  /\ credit' = [credit EXCEPT ![m][c].amount = @ - Least(x, @)]
  /\ UNCHANGED <<settingVars, requestVars, held, reserve, terms>>

ExtendStoreCreditExpiry(m, c, until) ==
  /\ ~paused /\ credit[m][c].some /\ ~credit[m][c].extended
  /\ until > credit[m][c].until
  /\ credit' = [credit EXCEPT ![m][c].until = until, ![m][c].extended = TRUE]
  /\ UNCHANGED <<settingVars, requestVars, held, reserve, terms>>

-----------------------------------------------------------------------------
(* Terms of a merchant.                                                     *)

SetTerms(m, field, value) ==
  /\ terms' = [terms EXCEPT ![m][field] = value]
  /\ UNCHANGED <<settingVars, requestVars, held, reserve, credit>>

AddDelegate(m, a) ==
  LET d == terms[m].delegates IN
  ~paused /\ Cardinality(d) < 5 /\ a \notin d /\ SetTerms(m, "delegates", d \cup {a})
RemoveDelegate(m, a) ==
  LET d == terms[m].delegates IN
  ~paused /\ a \in d /\ SetTerms(m, "delegates", d \ {a})
SetAutoApproveThreshold(m, x) == ~paused /\ x >= 0 /\ SetTerms(m, "threshold", x)
PublishRefundPolicy(m, policy) == ~paused /\ policy.bps <= 10000 /\ SetTerms(m, "policy", policy)

(* By the admin.                                                            *)
AddToAutoApprove(m) == ~terms[m].whitelisted /\ SetTerms(m, "whitelisted", TRUE)
RemoveFromAutoApprove(m) == terms[m].whitelisted /\ SetTerms(m, "whitelisted", FALSE)
SetMerchantAutoApproveExempt(m, exempt) == ~paused /\ SetTerms(m, "exempt", exempt)

-----------------------------------------------------------------------------
(* The admin.                                                               *)

ResetFraudScore(c) ==
  /\ fraud[c].score > 0
  /\ fraud' = [fraud EXCEPT ![c] = [score |-> 0, at |-> now]]
  /\ UNCHANGED <<settingVars, refund, queue, purse, refunded, abuse, asked, held, shopVars>>

(* flag_refund_abuse: the elevated denial, twenty points; a rejected refund *)
(* can be flagged any number of times.                                      *)
FlagRefundAbuse(r) ==
  /\ refund[r].status = "Rejected"
  /\ NoteDenial(Customer(r), 20)
  /\ UNCHANGED <<settingVars, refund, queue, purse, refunded, fraud, asked, held, shopVars>>

ResetCustomerAbuseScore(c) ==
  /\ abuse' = [abuse EXCEPT ![c] = NoAbuse]
  /\ UNCHANGED <<settingVars, refund, queue, purse, refunded, fraud, asked, held, shopVars>>

WaiveCooldown(c) ==
  /\ asked' = [asked EXCEPT ![c] = 0]
  /\ UNCHANGED <<settingVars, refund, queue, purse, refunded, fraud, abuse, held, shopVars>>

(* The setters of windows, fees, tiers, thresholds, reviewers and policies: *)
(* each changes its part of the settings, within its range.                 *)
Change(c) ==
  /\ c.feeBps <= 200 /\ c.bonus <= 10000 /\ c.reserveRatio <= 10000
  /\ cfg' = c
  /\ UNCHANGED <<suspended, paused, made, requestVars, held, shopVars>>

SetPaused(p) ==
  /\ paused # p /\ paused' = p
  /\ UNCHANGED <<suspended, cfg, made, requestVars, held, shopVars>>

=============================================================================
