--------------------------- MODULE PaymentsDisputes ---------------------------
(***************************************************************************)
(* Disputed payments of ahjoor-payments: the admin's resolution, evidence, *)
(* the escalation after a timeout, mediation by the DAO, the cooling-off   *)
(* period after completion, and the settlement of what was released.       *)
(***************************************************************************)
EXTENDS PaymentsLifecycle

CONSTANTS
  Members,      \* DataKey3::DaoMembers, the mediators
  MaxCases,     \* bound: mediation cases opened
  MaxBatch      \* bound: ids in one settlement

ASSUME CasesAssumption == MaxCases \in Nat /\ MaxBatch \in Nat

VARIABLES
  dispute,      \* DataKey::Dispute in temporary storage
  evidence,     \* DataKey2::DisputeEvidence
  cases,        \* DataKey3::DaoMediationCase and DaoMediationVote, in order
  withdrawals,  \* DataKey2::MerchantWithdrawalWindow
  limits,       \* MerchantWithdrawalLimit, else WithdrawalWindowSeconds and Cap
  settlements   \* DataKey3::MerchantSettlementVolume

caseVars == <<dispute, evidence, cases>>
settleVars == <<withdrawals, limits, settlements>>
disputeVars == <<caseVars, settleVars>>

NoDispute == [createdAt |-> Never, resolved |-> FALSE]
NoEvidence == [closesAt |-> Never, customer |-> 0, merchant |-> 0]

-----------------------------------------------------------------------------

DisputePayment(p) ==
  /\ In(p, {"Pending", "Authorized"})
  /\ Finish(p, "Disputed")
  /\ dispute' = [dispute EXCEPT ![p] = [createdAt |-> now, resolved |-> FALSE]]
  /\ UNCHANGED <<tokenVars, points, evidence, cases, settleVars>> /\ OnlyPayments

Released(p) == pay' = [pay EXCEPT ![p].status = "Completed", ![p].settled = FALSE]

(* Collateral in Usdc is slashed by what the customer gets back; nobody is  *)
(* credited with it.                                                        *)
Slash(p) ==
  LET m == pay[p].merchant IN
  IF pay[p].token # Usdc THEN collateral
  ELSE [collateral EXCEPT ![m] = @ - Least(Owed(p), @)]

(* resolve_dispute.  Released tokens stay until the merchant's settlement.  *)
ResolveDispute(p, toMerchant) ==
  /\ In(p, Contested)
  /\ dispute' = IF dispute[p] = NoDispute THEN dispute
                ELSE [dispute EXCEPT ![p].resolved = TRUE]
  /\ \/ toMerchant /\ Released(p) /\ UNCHANGED <<tokenVars, collateral, points>>
     \/ /\ ~toMerchant
        /\ Give(p, Owed(p)) /\ Finish(p, "Refunded")
        /\ collateral' = Slash(p)
        /\ points' = ReversePoints(pay[p].customer,
             pay[p].amount - Least(pay[p].refunded, pay[p].amount), pay[p].amount)
  /\ UNCHANGED <<clockVars, counter, standing, payoutVars, gateVars, referral,
                 commission, evidence, cases, settleVars>>

(* check_escalation: anyone, once the dispute is older than the timeout.    *)
CheckEscalation(p) ==
  /\ pay[p].status = "Disputed"
  /\ dispute[p] # NoDispute /\ ~dispute[p].resolved
  /\ now - dispute[p].createdAt > cfg.disputeTimeout
  /\ Finish(p, "EscalatedDispute")
  /\ UNCHANGED <<tokenVars, points, disputeVars>> /\ OnlyPayments

(* submit_dispute_evidence: the first submission opens the window.          *)
SubmitDisputeEvidence(p, side) ==
  LET r == IF evidence[p] = NoEvidence
           THEN [closesAt |-> now + cfg.evidenceWindow, customer |-> 0, merchant |-> 0]
           ELSE evidence[p] IN
  /\ In(p, {"Disputed"})
  /\ now < r.closesAt
  /\ r[side] < cfg.maxEvidence
  /\ evidence' = [evidence EXCEPT ![p] = [r EXCEPT ![side] = @ + 1]]
  /\ UNCHANGED <<baseVars, dispute, cases, settleVars>>

CloseEvidenceWindow(p) ==
  /\ ~paused /\ evidence[p] # NoEvidence
  /\ evidence' = [evidence EXCEPT ![p].closesAt = now]
  /\ UNCHANGED <<baseVars, dispute, cases, settleVars>>

ResolveDisputeWithEvidence(p, toMerchant) ==
  evidence[p] # NoEvidence /\ ResolveDispute(p, toMerchant)

-----------------------------------------------------------------------------
(* The mediation DAO.                                                       *)

(* escalate_to_dao: a payment may have any number of cases.                 *)
EscalateToDao(p) ==
  /\ In(p, {"Disputed"})
  /\ Members # {} /\ Len(cases) < MaxCases
  /\ cases' = Append(cases, [payment |-> p, closesAt |-> now + cfg.voteWindow,
                             for |-> {}, against |-> {}, executed |-> FALSE])
  /\ UNCHANGED <<baseVars, dispute, evidence, settleVars>>

DaoVote(k, voter, forMerchant) ==
  LET side == IF forMerchant THEN cases[k].for ELSE cases[k].against IN
  /\ ~paused /\ ~cases[k].executed /\ now <= cases[k].closesAt
  /\ voter \notin cases[k].for \cup cases[k].against
  /\ cases' = IF forMerchant THEN [cases EXCEPT ![k].for = @ \cup {voter}]
              ELSE [cases EXCEPT ![k].against = @ \cup {voter}]
  /\ UNCHANGED <<baseVars, dispute, evidence, settleVars>>

MerchantWins(k) == Cardinality(cases[k].for) > Cardinality(cases[k].against)

(* execute_dao_verdict: whatever has become of the payment meanwhile.       *)
ExecuteDaoVerdict(k) ==
  LET p == cases[k].payment IN
  /\ ~paused /\ ~cases[k].executed /\ now > cases[k].closesAt
  /\ Cardinality(cases[k].for) + Cardinality(cases[k].against) >= cfg.minVotes
  /\ \/ MerchantWins(k) /\ Released(p) /\ UNCHANGED tokenVars
     \/ /\ ~MerchantWins(k)
        /\ Give(p, Owed(p)) /\ Finish(p, "Refunded")
  /\ cases' = [cases EXCEPT ![k].executed = TRUE]
  /\ dispute' = [dispute EXCEPT ![p] = NoDispute]
  /\ UNCHANGED <<points, evidence, settleVars>> /\ OnlyPayments

-----------------------------------------------------------------------------
(* cancel_during_cooling_off: the net amount, which the merchant already    *)
(* has, is given to the customer as well.  Nothing else ends the period.    *)
CancelDuringCoolingOff(p) ==
  /\ In(p, {"CoolingOff"})
  /\ now < pay[p].coolingUntil
  /\ Give(p, pay[p].amount)
  /\ pay' = [pay EXCEPT ![p].status = "CancelledInCoolingOff", ![p].refunded = pay[p].amount]
  /\ UNCHANGED <<points, disputeVars>> /\ OnlyPayments

-----------------------------------------------------------------------------
(* Settlement.                                                              *)

(* check_and_update_withdrawal_rate_limit.                                  *)
LimitOf(m) == IF limits.own[m] # NoLimit THEN limits.own[m] ELSE limits.global
Withdrawal(m) ==
  LET w == withdrawals[m] IN
  IF w.start = Never \/ now >= w.start + LimitOf(m).window
  THEN [start |-> now, withdrawn |-> 0] ELSE w
WithinLimit(m, x) ==
  LimitOf(m) # NoLimit => Withdrawal(m).withdrawn + x <= LimitOf(m).amount
CountWithdrawn(m, x) ==
  IF LimitOf(m) = NoLimit THEN withdrawals
  ELSE [withdrawals EXCEPT ![m] = [Withdrawal(m) EXCEPT !.withdrawn = @ + x]]

SettlementVolume(m) ==
  IF settlements[m].start # Never /\ now - settlements[m].start < cfg.settlementWindow
  THEN settlements[m] ELSE [start |-> now, volume |-> 0]

(* settle_merchant_payments: ids are checked one by one before any of them  *)
(* is marked, so an id listed twice is paid twice.                          *)
SettleMerchantPayments(m, ps) ==
  LET t == pay[ps[1]].token
      total == FoldSeq(LAMBDA p, sum : sum + pay[p].amount, 0, ps)
      v == SettlementVolume(m)
      fee == Bps(total, FeeBpsFor(v.volume + total))
      times(p) == Cardinality({i \in DOMAIN ps : ps[i] = p}) IN
  /\ ~paused
  /\ \A i \in DOMAIN ps :
       /\ pay[ps[i]].status = "Completed" /\ ~pay[ps[i]].settled
       /\ pay[ps[i]].merchant = m /\ pay[ps[i]].token = t
  /\ WithinLimit(m, total - fee)
  /\ total <= held[t]
  /\ held' = [held EXCEPT ![t] = @ - total]
  /\ purse' = [p \in Ids |-> IF times(p) > 0 THEN purse[p] - times(p) * pay[p].amount
                             ELSE purse[p]]
  /\ pay' = [p \in Ids |-> IF times(p) > 0 THEN [pay[p] EXCEPT !.settled = TRUE] ELSE pay[p]]
  /\ withdrawals' = CountWithdrawn(m, total - fee)
  /\ settlements' = [settlements EXCEPT ![m] = [v EXCEPT !.volume = @ + total]]
  /\ UNCHANGED <<points, caseVars, limits>> /\ OnlyPayments

-----------------------------------------------------------------------------

DisputesInit ==
  /\ dispute = [p \in Ids |-> NoDispute]
  /\ evidence = [p \in Ids |-> NoEvidence]
  /\ cases = <<>>
  /\ withdrawals = [m \in Merchants |-> [start |-> Never, withdrawn |-> 0]]
  /\ limits = [own |-> [m \in Merchants |-> NoLimit], global |-> NoLimit]
  /\ settlements = [m \in Merchants |-> [start |-> Never, volume |-> 0]]

=============================================================================
