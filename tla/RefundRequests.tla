---------------------------- MODULE RefundRequests ----------------------------
(***************************************************************************)
(* The life of a refund in ahjoor-refund: requested with a deposit,        *)
(* approved, rejected, countered, escalated, appealed, and ended by the    *)
(* admin, the merchant's delegates, the customer or, once a window is      *)
(* over, by anyone.                                                        *)
(***************************************************************************)
EXTENDS RefundBase

scoreVars == <<fraud, abuse, asked>>
shopVars == <<reserve, credit, terms>>
settingVars == <<paused, cfg, made, suspended>>

-----------------------------------------------------------------------------
(* Requests.                                                                *)

(* The first tier whose age covers the payment caps the refund; without     *)
(* tiers the payment does.  Zero when no tier matches.                      *)
TierCap(p) ==
  LET covering == {i \in DOMAIN cfg.tiers : now - Payment[p].made <= cfg.tiers[i].age} IN
  IF cfg.tiers = <<>> THEN Payment[p].amount
  ELSE IF covering = {} THEN 0
  ELSE Bps(Payment[p].amount, cfg.tiers[Min(covering)].bps)

(* refund_policy_for and enforce_refund_policy: the merchant's policy, else *)
(* the global one; tags are left out.                                       *)
PolicyFor(m) == IF terms[m].policy = NoPolicy THEN cfg.policy ELSE terms[m].policy
WithinPolicy(p, x) ==
  LET policy == PolicyFor(Payment[p].merchant) IN
  /\ now - Payment[p].made <= policy.window
  /\ x <= Bps(Payment[p].amount, policy.bps)

AutoApproved(m, c, x) ==
  \/ terms[m].whitelisted
  \/ terms[m].threshold > 0 /\ x <= terms[m].threshold /\ fraud[c].score < cfg.fraudCap

MayRequest(c) ==
  /\ ~paused
  /\ cfg.cooldown = 0 \/ asked[c] = 0 \/ now - asked[c] >= cfg.cooldown
  /\ ~FraudBlocked(c) /\ ~AbuseBlocked(c)

NewRefund(c, p, x, auto) ==
  [NoRefund EXCEPT !.status = IF auto THEN "Approved" ELSE "Requested",
     !.customer = c, !.merchant = Payment[p].merchant, !.payment = p,
     !.token = Payment[p].token, !.amount = x, !.requested = now,
     !.evidenceUntil = IF auto THEN 0 ELSE now + cfg.response,
     !.primaryUntil = IF auto THEN 0 ELSE now + cfg.primary,
     !.autoUntil = IF auto THEN 0 ELSE now + cfg.autoSpan]

(* request_refund.  What other open requests ask of the same payment is not *)
(* counted; the caller need not be the payment's customer.                  *)
RequestRefund(c, p, asks) ==
  LET t == Payment[p].token
      x == IF cfg.tiers = <<>> THEN asks ELSE Least(asks, TierCap(p) - refunded[p])
      auto == AutoApproved(Payment[p].merchant, c, x) IN
  /\ MayRequest(c) /\ asks > 0 /\ made < MaxRefunds
  /\ x \in Nat \ {0} /\ x + refunded[p] <= Payment[p].amount
  /\ WithinPolicy(p, x)
  /\ Ask(Self, t)
  /\ refund' = [refund EXCEPT ![made] = NewRefund(c, p, x, auto)]
  /\ made' = made + 1
  /\ held' = [held EXCEPT ![t] = @ + x]
  /\ purse' = [purse EXCEPT ![made] = x]
  /\ queue' = IF auto THEN queue ELSE Append(queue, made)
  /\ asked' = [asked EXCEPT ![c] = IF cfg.cooldown > 0 THEN now ELSE @]
  /\ NoteRequest(c)
  /\ UNCHANGED <<paused, cfg, refunded, fraud, shopVars>>

(* merchant_refund: from the merchant straight to the payment's customer.   *)
MerchantRefund(m, p, x) ==
  /\ ~paused /\ x > 0 /\ made < MaxRefunds
  /\ Payment[p].merchant = m
  /\ x <= Payment[p].amount - refunded[p]
  /\ Ask(Self, Payment[p].token)
  /\ refund' = [refund EXCEPT ![made] =
       [NoRefund EXCEPT !.status = "Processed", !.customer = Payment[p].customer,
          !.merchant = m, !.payment = p, !.token = Payment[p].token, !.amount = x,
          !.requested = now]]
  /\ made' = made + 1
  /\ refunded' = [refunded EXCEPT ![p] = @ + x]
  /\ UNCHANGED <<paused, cfg, queue, held, purse, scoreVars, shopVars>>

(* register_cross_contract_refund: a record of what another contract paid.  *)
RegisterCrossContractRefund(c, m, t, x) ==
  /\ ~paused /\ x > 0 /\ cfg.origin /\ made < MaxRefunds
  /\ refund' = [refund EXCEPT ![made] =
       [NoRefund EXCEPT !.status = "CrossContractRefunded", !.customer = c,
          !.merchant = m, !.token = t, !.amount = x, !.requested = now]]
  /\ made' = made + 1
  /\ UNCHANGED <<suspended, paused, cfg, queue, held, purse, refunded, scoreVars, shopVars>>

-----------------------------------------------------------------------------
(* Review by the admin or a delegate.                                       *)

EvidenceWindowOpen(r) ==
  refund[r].status = "Requested" /\ now < refund[r].evidenceUntil

(* Mutant of DrawReserve: the reserve is paid and not reduced.              *)
DrawReserveUnsaved(r) ==
  LET m == Merchant(r)  t == refund[r].token  x == Least(reserve[m].kept, refund[r].amount) IN
  /\ x <= held[t]
  /\ held' = [held EXCEPT ![t] = @ - x]
  /\ reserve' = reserve

(* Whatever token the merchant's reserve was deposited in, it is paid out   *)
(* in the refund's.                                                         *)
DrawReserve(r) ==
  LET m == Merchant(r)  t == refund[r].token  x == Least(reserve[m].kept, refund[r].amount) IN
  /\ x <= held[t]
  /\ held' = [held EXCEPT ![t] = @ - x]
  /\ reserve' = [reserve EXCEPT ![m].kept = @ - x]

(* approve_refund: the customer gets the merchant's reserve now and the     *)
(* deposit back when the refund is processed.                               *)
ApproveRefund(a, r) ==
  /\ In(r, Reviewed) /\ Adjudicator(a, r) /\ ~EvidenceWindowOpen(r)
  /\ Finish(r, "Approved")
  /\ DrawReserve(r)
  /\ Dequeue(r)
  /\ LowerFraud(Customer(r))
  /\ UNCHANGED <<settingVars, purse, refunded, abuse, asked, credit, terms>>

(* reject_refund: the deposit stays in the contract.                        *)
RejectRefund(a, r) ==
  /\ In(r, {"Requested"}) /\ Adjudicator(a, r)
  /\ Reject(r)
  /\ Dequeue(r)
  /\ RaiseFraud(Customer(r)) /\ NoteDenial(Customer(r), 10)
  /\ UNCHANGED <<settingVars, held, purse, refunded, asked, shopVars>>

(* batch_approve_refunds and batch_reject_refunds, of the refunds in the    *)
(* batch that are still requested: no evidence window, no reserve, no abuse *)
(* score.  Each refund of a batch is handled as if it were alone.           *)
BatchApprove(r) ==
  /\ In(r, {"Requested"})
  /\ Finish(r, "Approved")
  /\ Dequeue(r)
  /\ LowerFraud(Customer(r))
  /\ UNCHANGED <<settingVars, held, purse, refunded, abuse, asked, shopVars>>

BatchReject(r) ==
  /\ In(r, {"Requested"})
  /\ Reject(r)
  /\ Dequeue(r)
  /\ RaiseFraud(Customer(r))
  /\ UNCHANGED <<settingVars, held, purse, refunded, abuse, asked, shopVars>>

(* process_refund; bulk_process_refunds repeats it.                         *)
ProcessRefund(r) ==
  /\ In(r, {"Approved"})
  /\ GiveNetOfFee(r)
  /\ CountRefunded(r)
  /\ Finish(r, "Processed")
  /\ UNCHANGED <<settingVars, queue, scoreVars, shopVars>>

(* approve_refund_as_voucher: the deposit goes to the merchant, who owes    *)
(* the customer a credit; the evidence window is not waited for.            *)
ApproveRefundAsVoucher(a, r, x, until) ==
  LET m == Merchant(r)  c == Customer(r) IN
  /\ In(r, Reviewed) /\ Adjudicator(a, r)
  /\ x > 0 /\ x <= refund[r].amount + Bps(refund[r].amount, cfg.bonus)
  /\ until > now
  /\ Give(r, refund[r].amount)
  /\ Finish(r, "Processed")
  /\ Dequeue(r)
  /\ credit' = [credit EXCEPT ![m][c] =
       [some |-> TRUE, amount |-> @.amount + x, until |-> Greatest(@.until, until),
        extended |-> @.extended]]
  /\ UNCHANGED <<settingVars, refunded, scoreVars, reserve, terms>>

-----------------------------------------------------------------------------
(* Evidence and escalation.                                                 *)

(* submit_refund_evidence; a late call panics, which undoes the expiry it   *)
(* would record.                                                            *)
SubmitRefundEvidence(r) ==
  /\ In(r, Reviewed)
  /\ refund[r].evidenceUntil > 0 => now <= refund[r].evidenceUntil
  /\ Finish(r, "EvidenceSubmitted")
  /\ UNCHANGED <<settingVars, queue, held, purse, refunded, scoreVars, shopVars>>

(* Mutant of EscalateToSenior: the senior's deadline is not set.            *)
EscalateUndated(r) ==
  /\ In(r, Reviewed) /\ cfg.senior
  /\ refund[r].primaryUntil # 0 /\ now >= refund[r].primaryUntil
  /\ Finish(r, "EscalatedToSenior")
  /\ UNCHANGED <<settingVars, queue, held, purse, refunded, scoreVars, shopVars>>

(* escalate_to_senior: by anyone once the primary review is late.           *)
EscalateToSenior(r) ==
  /\ In(r, Reviewed) /\ cfg.senior
  /\ refund[r].primaryUntil # 0 /\ now >= refund[r].primaryUntil
  /\ refund' = [refund EXCEPT ![r].status = "EscalatedToSenior",
                              ![r].seniorUntil = now + cfg.seniorSpan]
  /\ UNCHANGED <<settingVars, queue, held, purse, refunded, scoreVars, shopVars>>

ResolveEscalated(r, approved) ==
  /\ In(r, {"EscalatedToSenior"}) /\ cfg.senior
  /\ IF approved
     THEN GiveNetOfFee(r) /\ CountRefunded(r) /\ Finish(r, "Processed")
     ELSE Give(r, refund[r].amount) /\ Reject(r) /\ refunded' = refunded
  /\ Dequeue(r)
  /\ UNCHANGED <<settingVars, scoreVars, shopVars>>

TriggerSeniorAutoApprove(r) ==
  /\ In(r, {"EscalatedToSenior"}) /\ cfg.missApproves
  /\ refund[r].seniorUntil # 0 /\ now >= refund[r].seniorUntil
  /\ GiveNetOfFee(r) /\ CountRefunded(r) /\ Finish(r, "Processed")
  /\ Dequeue(r)
  /\ UNCHANGED <<settingVars, scoreVars, shopVars>>

-----------------------------------------------------------------------------
(* Counter-offers.                                                          *)

(* Mutant of CounterOfferRefund: the countered refund leaves the queue.      *)
CounterOfferDequeuing(r, x) ==
  /\ In(r, {"Requested"}) /\ x > 0 /\ x <= refund[r].amount
  /\ refund[r].offer = NoOffer
  /\ refund' = [refund EXCEPT ![r].status = "CounterOffered",
                  ![r].offer = [amount |-> x, until |-> now + cfg.offerLife]]
  /\ Dequeue(r)
  /\ UNCHANGED <<settingVars, held, purse, refunded, scoreVars, shopVars>>

CounterOfferRefund(r, x) ==
  /\ In(r, {"Requested"}) /\ x > 0 /\ x <= refund[r].amount
  /\ refund[r].offer = NoOffer
  /\ refund' = [refund EXCEPT ![r].status = "CounterOffered",
                  ![r].offer = [amount |-> x, until |-> now + cfg.offerLife]]
  /\ UNCHANGED <<settingVars, queue, held, purse, refunded, scoreVars, shopVars>>

(* accept_counter_offer in time: what the offer falls short of the deposit  *)
(* stays in the contract, and the refund in the queue.                      *)
AcceptCounterOffer(r) ==
  /\ In(r, {"CounterOffered"}) /\ now <= refund[r].offer.until
  /\ Give(r, refund[r].offer.amount)
  /\ refund' = [refund EXCEPT ![r].status = "Processed", ![r].offer = NoOffer]
  /\ UNCHANGED <<settingVars, queue, refunded, scoreVars, shopVars>>

(* accept_counter_offer too late escalates instead and keeps the offer.     *)
AcceptLateOffer(r) ==
  /\ In(r, {"CounterOffered"}) /\ now > refund[r].offer.until
  /\ Finish(r, "UnderAppeal")
  /\ UNCHANGED <<settingVars, queue, held, purse, refunded, scoreVars, shopVars>>

Escalate(r) ==
  /\ refund' = [refund EXCEPT ![r].status = "UnderAppeal", ![r].offer = NoOffer]
  /\ UNCHANGED <<settingVars, queue, held, purse, refunded, scoreVars, shopVars>>
RejectCounterOffer(r) == In(r, {"CounterOffered"}) /\ Escalate(r)
CheckCounterOfferExpiry(r) ==
  In(r, {"CounterOffered"}) /\ now > refund[r].offer.until /\ Escalate(r)

(* settle_expired_counter_offer: the deposit back either way, accepted or   *)
(* rejected by the setting.                                                 *)
SettleExpiredCounterOffer(r) ==
  /\ In(r, {"CounterOffered"}) /\ now > refund[r].offer.until
  /\ Give(r, refund[r].amount)
  /\ refund' = [refund EXCEPT ![r] =
       IF cfg.offerAccept THEN [@ EXCEPT !.status = "Processed", !.offer = NoOffer]
       ELSE [@ EXCEPT !.status = "Rejected", !.rejected = now, !.offer = NoOffer]]
  /\ Dequeue(r)
  /\ UNCHANGED <<settingVars, refunded, scoreVars, shopVars>>

-----------------------------------------------------------------------------
(* The customer's calls, and what anyone may call once a window is over.    *)

(* Mutant of CancelRefundRequest: the refund keeps its status.              *)
CancelUnmarked(r) ==
  /\ In(r, {"Requested"})
  /\ Give(r, refund[r].amount) /\ refund' = refund
  /\ Dequeue(r)
  /\ UNCHANGED <<settingVars, refunded, scoreVars, shopVars>>

CancelRefundRequest(r) ==
  /\ In(r, {"Requested"})
  /\ Give(r, refund[r].amount) /\ Finish(r, "Cancelled")
  /\ Dequeue(r)
  /\ IF now > refund[r].requested + cfg.disputeWindow
     THEN RaiseFraud(Customer(r)) ELSE fraud' = fraud
  /\ UNCHANGED <<settingVars, refunded, abuse, asked, shopVars>>

AutoCancelExpiredRequest(r) ==
  /\ In(r, {"Requested"}) /\ now >= refund[r].requested + cfg.cancelWindow
  /\ Give(r, refund[r].amount) /\ Finish(r, "Cancelled")
  /\ Dequeue(r)
  /\ UNCHANGED <<settingVars, refunded, scoreVars, shopVars>>

(* auto_reject_stale_refund gives the deposit back, and the rejection can   *)
(* still be appealed.                                                       *)
AutoRejectStaleRefund(r) ==
  /\ In(r, {"Requested"})
  /\ now >= refund[r].requested + cfg.autoReject + refund[r].extension
  /\ Give(r, refund[r].amount) /\ Reject(r)
  /\ Dequeue(r)
  /\ RaiseFraud(Customer(r))
  /\ UNCHANGED <<settingVars, refunded, abuse, asked, shopVars>>

ExtendRefundDeadline(r, span) ==
  /\ refund[r].status = "Requested" /\ refund[r].extension + span <= MaxExtensions
  /\ refund' = [refund EXCEPT ![r].extension = @ + span]
  /\ UNCHANGED <<settingVars, queue, held, purse, refunded, scoreVars, shopVars>>

(* auto_approve_refund pays, but neither counts the refund against the      *)
(* payment nor takes it off the queue.                                      *)
AutoApproveRefund(r) ==
  /\ In(r, {"Requested"}) /\ now >= refund[r].requested + cfg.disputeWindow
  /\ GiveNetOfFee(r) /\ Finish(r, "Processed")
  /\ UNCHANGED <<settingVars, queue, refunded, scoreVars, shopVars>>

(* trigger_auto_approval: approved and processed in one call; the deadline  *)
(* is due at once while no response deadline is configured.                 *)
TriggerAutoApproval(r) ==
  /\ In(r, {"Requested"}) /\ ~terms[Merchant(r)].exempt /\ now >= refund[r].autoUntil
  /\ GiveNetOfFee(r) /\ CountRefunded(r) /\ Finish(r, "Processed")
  /\ UNCHANGED <<settingVars, queue, scoreVars, shopVars>>

RequestReviewExtension(r) ==
  /\ ~paused /\ refund[r].status # "None" /\ ~refund[r].extended
  /\ refund' = [refund EXCEPT ![r].extended = TRUE, ![r].autoUntil = @ + cfg.extensionSpan]
  /\ UNCHANGED <<settingVars, queue, held, purse, refunded, scoreVars, shopVars>>

AppealRefund(r) ==
  /\ In(r, {"Rejected"}) /\ now <= refund[r].rejected + cfg.appealWindow
  /\ Finish(r, "UnderAppeal")
  /\ UNCHANGED <<settingVars, queue, held, purse, refunded, scoreVars, shopVars>>

(* resolve_appeal: either answer pays, and a second rejection can be        *)
(* appealed again.                                                          *)
ResolveAppeal(r, approve) ==
  /\ In(r, {"UnderAppeal"})
  /\ IF approve
     THEN GiveNetOfFee(r) /\ CountRefunded(r) /\ Finish(r, "Processed")
     ELSE Give(r, refund[r].amount) /\ Reject(r) /\ refunded' = refunded
  /\ UNCHANGED <<settingVars, queue, scoreVars, shopVars>>

=============================================================================
