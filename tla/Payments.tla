------------------------------- MODULE Payments -------------------------------
(***************************************************************************)
(* The ahjoor-payments contract: the entry points of its modules as one    *)
(* next-state relation, grouped by what they are about, and the properties *)
(* that hold over any order of calls.                                      *)
(***************************************************************************)
EXTENDS PaymentsRecurring

CONSTANTS
  OraclePrices,   \* prices the oracle may answer, per hundred
  Splits,         \* recipient shares a creation may name
  NoCode          \* a creation without a voucher

vars == <<baseVars, disputeVars, shopVars, recurringVars>>

-----------------------------------------------------------------------------
(* Entry points that leave the dispute, shop and recurring records alone.   *)

PlainCreation ==
  \E c \in Customers, m \in Merchants, t \in Token, x \in Prices :
    \/ CreatePayment(c, m, t, x, 0, 0, <<>>, 0, FALSE)
    \/ CreatePaymentsBatch(c, m, t, <<x, x>>)

ScheduledCreation ==
  \E c \in Customers, m \in Merchants, t \in Token, x \in Prices, d \in Terms :
    CreatePayment(c, m, t, x, now + d, 0, <<>>, 0, FALSE)
OwnTermsCreation ==
  \E c \in Customers, m \in Merchants, t \in Token, x \in Prices, d \in Terms, s \in Splits :
    CreatePayment(c, m, t, x, 0, d, s, 0, TRUE)
CoolingCreation ==
  \E c \in Customers, m \in Merchants, t \in Token, x \in Prices, d \in Terms :
    CreatePayment(c, m, t, x, 0, 0, <<>>, d, FALSE)
OracleCreation ==
  \E c \in Customers, m \in Merchants, t \in Token, x \in Prices, r \in OraclePrices :
    CreatePaymentMultiToken(c, m, t, x, r)
Authorization ==
  \E c \in Customers, m \in Merchants, t \in Token, x \in Prices, d \in Terms :
    AuthorizePayment(c, m, t, x, now + d)

Completion ==
  \E p \in Ids : \/ \E r \in OraclePrices : CompletePayment(p, r)
                 \/ \E x \in Prices : CompletePaymentWithTip(p, pay[p].rate, x)

ScheduleEnd == \E p \in Ids : ExecuteScheduledPayment(p) \/ CancelScheduledPayment(p)
AuthorizationEnd == \E p \in Ids : CapturePayment(p) \/ VoidAuthorization(p)
Expiry == \/ \E p \in Ids : ExpirePayment(p)
          \/ \E ps \in SUBSET Ids : BulkExpirePayments(ps)
Extension == \E p \in Ids, d \in Terms : ExtendPaymentExpiry(p, d)
Refunding == \E p \in Ids, x \in Prices : PartialRefund(p, x)
Redemption == \E p \in Ids, n \in Prices : RedeemPoints(p, n)

LifecycleNext ==
  \/ PlainCreation \/ ScheduledCreation \/ OwnTermsCreation \/ CoolingCreation
  \/ OracleCreation \/ Authorization \/ Completion \/ ScheduleEnd \/ AuthorizationEnd
  \/ Expiry \/ Extension \/ Refunding \/ Redemption

-----------------------------------------------------------------------------
(* Entry points that leave the shop and recurring records alone.            *)

Disputing == \E p \in Ids : DisputePayment(p) \/ CheckEscalation(p)
Resolution == \E p \in Ids, toMerchant \in BOOLEAN : ResolveDispute(p, toMerchant)
EvidenceNext ==
  \E p \in Ids :
    \/ \E side \in {"customer", "merchant"} : SubmitDisputeEvidence(p, side)
    \/ CloseEvidenceWindow(p)
    \/ \E toMerchant \in BOOLEAN : ResolveDisputeWithEvidence(p, toMerchant)
DaoNext ==
  \/ \E p \in Ids : EscalateToDao(p)
  \/ \E k \in DOMAIN cases :
       \/ \E v \in Members, forMerchant \in BOOLEAN : DaoVote(k, v, forMerchant)
       \/ ExecuteDaoVerdict(k)
CoolingNext == \E p \in Ids : CancelDuringCoolingOff(p)
SettlementNext ==
  \E m \in Merchants, ps \in SeqOf(Ids, MaxBatch) : ps # <<>> /\ SettleMerchantPayments(m, ps)

DisputeNext ==
  Disputing \/ Resolution \/ EvidenceNext \/ DaoNext \/ CoolingNext \/ SettlementNext

-----------------------------------------------------------------------------
(* Entry points that leave the recurring records alone.                     *)

StandingNext ==
  \E m \in Merchants :
    \/ ApproveMerchant(m) \/ RevokeMerchant(m) \/ BanMerchant(m) \/ ReinstateMerchant(m)
    \/ \E d \in Terms : SuspendMerchant(m, d)
    \/ SubmitAppeal(m) \/ ApproveAppeal(m) \/ RejectAppeal(m) \/ CompleteReinstatement(m)
GateNext ==
  \/ \E m \in Merchants, c \in Customers :
       BlockCustomer(m, c) \/ UnblockCustomer(m, c) \/ RequestUnblock(m, c)
  \/ \E r \in Ids, approved \in BOOLEAN : ResolveUnblockRequest(r, approved)
  \/ \E m \in Merchants : RevokeMerchantKyb(m) \/ \E d \in Terms : SetMerchantKyb(m, now + d)
CollateralNext ==
  \E m \in Merchants, x \in Prices : DepositCollateral(m, x) \/ WithdrawCollateral(m, x)
MultisigNext ==
  \/ \E m \in Merchants, s \in SUBSET Signers, k \in 1..2, x \in Prices, d \in Terms :
       SetMultisigPolicy(m, s, k, x, d)
  \/ \E p \in Ids : ExpirePendingApproval(p) \/ \E s \in Signers : ApprovePayment(p, s)
VoucherNext ==
  \E m \in Merchants, code \in Codes :
    \/ \E x \in Prices, d \in Terms :
         \/ IssueVoucher(m, code, "Fixed", x, 1, now + d)
         \/ IssueVoucher(m, code, "Percentage", Least(x, 100), 0, 0)
    \/ RevokeVoucher(m, code)
VoucherCreation ==
  \E c \in Customers, m \in Merchants, t \in Token, x \in Prices, code \in Codes \cup {NoCode} :
    CreatePaymentWithVoucher(c, m, t, x, code)
QueueNext ==
  \E m \in Merchants :
    \/ \E n \in 1..MaxBatch : ProcessWithdrawalQueue(m, n)
    \/ \E p \in Ids : PrioritizeWithdrawal(m, p)
LimitNext ==
  \E m \in Merchants, x \in Prices, d \in Terms :
    \/ SetMerchantVolumeCap(m, x, d) \/ SetMerchantVolumeCap(m, 0, 0)
    \/ SetWithdrawalWindow(d, x) \/ SetWithdrawalLimit(m, d, x)
    \/ OverrideWithdrawalLimit(m, x)
SpendLimitNext ==
  \E m \in Merchants, c \in Customers, x \in Prices, d \in Terms :
    \/ SetCustomerSpendLimit(m, c, x, d) \/ RemoveCustomerSpendLimit(m, c)
    \/ SetDefaultSpendLimit(m, x, d)
    \/ SetBuyerTier(m, c, "VIP") \/ SetTierSpendingLimit(m, "VIP", x, d)
PreferenceNext == \E m \in Merchants, t \in Token : SetPreferredToken(m, t)
ReferralNext ==
  \E m \in Merchants :
    \/ \E by \in Merchants : RegisterReferral(by, m)
    \/ \E t \in Token : ClaimReferralCommission(m, t)
SettingsNext ==
  \E x \in Prices, d \in Terms :
    \/ UpdateFee(x) \/ UpdateFeeTiers(<<[min |-> x, bps |-> d]>>)
    \/ SetDisputeTimeout(d) \/ SetPaymentTimeout(d) \/ SetPaymentExpiryBounds(1, d)
    \/ UpdateExtensionConfig(d, d) \/ UpdateRateLimitConfig(d, d)
    \/ SetMerchantOpenMode(FALSE) \/ SetMinCollateral(x) \/ SetKybEnforcement(TRUE)
    \/ SetAppealRejectionCooldown(d) \/ SetMaxCoolingOffLedgers(d)
    \/ SetEvidenceWindowLedgers(d) \/ SetMaxEvidenceSubmissions(d)
    \/ ConfigureLoyalty(x, x, 1, d) \/ SetReferralConfig(x, d)
    \/ SetMaxBatchSize(d) \/ SetMaxTipBps(x) \/ ConfigureDao(d, d)
PauseNext == PauseContract \/ ResumeContract

MerchantNext ==
  \/ StandingNext \/ GateNext \/ CollateralNext \/ MultisigNext \/ VoucherNext
  \/ VoucherCreation \/ QueueNext \/ LimitNext \/ SpendLimitNext \/ PreferenceNext
  \/ ReferralNext \/ SettingsNext \/ PauseNext

-----------------------------------------------------------------------------
(* Entry points about what repeats.                                         *)

SubscriptionNext ==
  \E s \in Subs :
    \/ \E c \in Customers, m \in Merchants, x \in Prices, d \in Terms, trial \in {0, 1}, max \in {0, 2} :
         CreateSubscription(s, c, m, x, d, max, trial)
    \/ ChargeSubscription(s) \/ CancelSubscription(s)
    \/ PauseSubscription(s) \/ ResumeSubscription(s)
    \/ PauseSubscriptionV2(s) \/ ResumeSubscriptionV2(s) \/ AdminResumeSubscription(s)
PlanNext ==
  \E k \in Plans :
    \/ \E m \in Merchants, x \in Prices, d \in Terms, a \in BOOLEAN : SetSubscriptionPlan(k, m, x, d, a)
    \/ \E s \in Subs : ChangeSubscriptionPlan(s, k)
InvoiceNext ==
  \E i \in Invoices :
    \/ \E c \in Customers, m \in Merchants, x \in Prices, d \in Terms, max \in {0, 2} :
         CreateRecurringInvoice(i, c, m, x, d, max)
    \/ \E t \in Token : TriggerInvoiceCycle(i, t)
    \/ CancelRecurringInvoice(i)
DebitNext ==
  \/ \E base, most \in Terms, n \in 1..3 : SetRetryConfig(base, most, n)
  \/ \E d \in Debits, ok \in BOOLEAN :
       \/ \E c \in Customers, m \in Merchants, i \in Invoices \cup {"None"} :
            InitiateAllowedPayment(d, c, m, i, ok)
       \/ RetryFailedDebit(d, ok) \/ TriggerEarlyRetry(d, ok)
ScheduleNext ==
  \E k \in Schedules :
    \/ \E c \in Customers, m \in Merchants, x \in Prices, d \in Terms, max \in {0, 2} :
         CreateRecurringPayment(k, c, m, x, d, max)
    \/ ExecuteRecurring(k) \/ CancelRecurringPayment(k)
ConsentNext ==
  \E k \in Consents :
    \/ \E m \in Merchants, c \in Customers, d \in Terms : CreateConsentRecord(k, m, c, now + d)
    \/ SignConsent(k) \/ RevokeConsent(k)

RecurringNext ==
  SubscriptionNext \/ PlanNext \/ InvoiceNext \/ DebitNext \/ ScheduleNext \/ ConsentNext

-----------------------------------------------------------------------------

Init == BaseInit /\ DisputesInit /\ MerchantsInit /\ RecurringInit

Next ==
  \/ (Tick \/ LifecycleNext) /\ UNCHANGED <<disputeVars, shopVars, recurringVars>>
  \/ DisputeNext /\ UNCHANGED <<shopVars, recurringVars>>
  \/ MerchantNext /\ UNCHANGED recurringVars
  \/ RecurringNext

Spec == Init /\ [][Next]_vars

-----------------------------------------------------------------------------
(* What holds of every reachable state.                                     *)

(* The queue of a merchant lists each payout of its payments once, with the *)
(* net amount that was paid, however entries are prioritised, processed and *)
(* joined by later completions, cancellations and verdicts.                 *)
QueueListsPayouts ==
  \A m \in Merchants : \A i \in DOMAIN queue[m] :
    LET p == queue[m][i][1] IN
    /\ pay[p].merchant = m /\ pay[p].amount = queue[m][i][2]
    /\ \A j \in DOMAIN queue[m] : queue[m][j][1] = p => i = j

(* Nobody is charged more often than agreed.  An invoice charges in two     *)
(* ways: its trigger makes a payment, and the retry of a failed debit that  *)
(* names it transfers.  While it runs, the cycles counted are these charges *)
(* exactly, and they stay within its maximum; no cycle is ever counted that *)
(* was not charged, and the trigger makes no payment beyond the maximum.    *)
(* Its next due date is never earlier than the intervals counted.  A        *)
(* payment schedule and a subscription, which transfer where they count,    *)
(* keep to their maximum, a subscription after its trial.                   *)
(*   The code leaves two charges out of an invoice's count, and so does     *)
(* this: a debit that succeeds at once (9388), and a retry that succeeds    *)
(* after the invoice has ended or was cancelled (9710).  Nor does it ask    *)
(* that a debit is of the customer and the amount of the invoice it names.  *)
CyclesWithin(r) ==
  /\ r.max > 0 => r.count <= r.max
  /\ r.active => (r.max > 0 => r.count < r.max)
  /\ r.nextDue >= r.count * r.interval
Retried(i) ==             \* a debit paid at once has no next retry
  {d \in Debits : debits[d].invoice = i /\ debits[d].status = "Succeeded" /\ debits[d].next # 0}
Triggered(i) == Cardinality(invoices[i].payments)
Charges(i) == Triggered(i) + Cardinality(Retried(i))
ChargedAsAgreed ==
  /\ \A i \in Invoices :
       /\ CyclesWithin(invoices[i])
       /\ Triggered(i) <= invoices[i].count /\ invoices[i].count <= Charges(i)
       /\ invoices[i].active => Charges(i) = invoices[i].count
  /\ \A k \in Schedules : CyclesWithin(schedules[k])
  /\ \A s \in Subs :
       /\ subs[s].max > 0 => subs[s].count <= subs[s].max
       /\ subs[s].count > 0 => subs[s].last >= subs[s].trialEnds /\ subs[s].last <= now

-----------------------------------------------------------------------------
(* What a step may never do.                                                *)

(* A verdict of the mediators reached, or may still reach, the payment      *)
(* whatever its status has become.                                          *)
Mediated(p) == \E k \in DOMAIN cases : cases[k].payment = p /\ cases[k].executed

(* A payment is paid out of its own tokens: what leaves the contract for it *)
(* never exceeds what came in for it, but in the ways the code leaves open: *)
(* the cancellation of what was already distributed, a path that pays the   *)
(* full amount after a partial refund, a payment recorded in another token  *)
(* than the one paid, an amount raised to the loyalty floor, a verdict of   *)
(* the mediators for a payment that had ended, and an id listed twice in a  *)
(* settlement.                                                              *)
PaidFromOwnPurse ==
  [][\A p \in Ids : purse'[p] < purse[p] /\ purse'[p] < 0 =>
       \/ pay[p].status = "CoolingOff"
       \/ pay[p].refunded > 0
       \/ pay[p].rate # 0
       \/ pay[p].amount <= cfg.floor
       \/ Mediated(p) \/ Mediated(p)'
       \/ pay[p].status = "Completed" /\ ~pay[p].settled /\ purse[p] >= pay[p].amount]_vars

(* A dispute holds the tokens: while a payment is disputed they move only   *)
(* together with the end of the dispute or by a partial refund of the       *)
(* admin, and the dispute ends only by a ruling, which resolves or removes  *)
(* its record, or, before it has escalated, by the admin's refund of all    *)
(* that is left or the admin's expiry.                                      *)
Ruled(p) == dispute'[p] = NoDispute \/ dispute'[p].resolved
RefundedMore(p) == pay'[p].refunded > pay[p].refunded
DisputeHolds ==
  [][\A p \in Ids : pay[p].status \in Contested =>
       /\ purse'[p] # purse[p] => pay'[p].status \notin Contested \/ RefundedMore(p)
       /\ pay'[p].status \notin Contested =>
            \/ Ruled(p)
            \/ /\ pay[p].status = "Disputed"
               /\ pay'[p].status = "Expired" \/ RefundedMore(p)
       /\ pay[p].status = "EscalatedDispute" /\ ~Ruled(p) =>
            pay'[p] = pay[p] /\ purse'[p] = purse[p]]_vars

(* A payment that has ended stays ended, but for a mediation case that was  *)
(* opened while it was disputed and is executed later.                      *)
ClosedIsFinal ==
  [][\A p \in Ids : pay[p].status \in Closed /\ pay'[p].status # pay[p].status =>
       Mediated(p)']_vars

(* No entry point takes a payment in for a merchant that is banned, or      *)
(* suspended with time left, whichever of the six ways it is created by.    *)
NoPaymentForBarred ==
  [][\A p \in Ids : pay[p].status = "None" /\ pay'[p].status # "None" =>
       LET s == standing[pay'[p].merchant] IN
       s.status = "Active" \/ (s.status = "Suspended" /\ now > s.until)]_vars

=============================================================================
