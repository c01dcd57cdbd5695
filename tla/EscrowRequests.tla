----------------------------- MODULE EscrowRequests -----------------------------
(***************************************************************************)
(* Partial releases the seller asks for: request_partial_release and its   *)
(* answers.                                                                *)
(***************************************************************************)
EXTENDS EscrowLedger

CONSTANTS
  MaxRequests,      \* bound: requests of one escrow
  ResponseWindow    \* PartialReleaseResponseDeadline

VARIABLES
  request,     \* DataKey::PendingPartialRelease
  requestNo    \* DataKey::PartialReleaseCounter

requestVars == <<request, requestNo>>

NoPartial == [id |-> 0, amount |-> 0, deadline |-> 0]

RequestsInit ==
  /\ InitBase
  /\ request = [e \in Ids |-> NoPartial]
  /\ requestNo = [e \in Ids |-> 0]

-----------------------------------------------------------------------------

RequestPartialRelease(e, x) ==
  /\ ~paused
  /\ escrow[e].status = "Active"
  /\ Within(e, x)
  /\ request[e] = NoPartial
  /\ requestNo[e] < MaxRequests
  /\ requestNo' = [requestNo EXCEPT ![e] = @ + 1]
  /\ request' = [request EXCEPT ![e] =
       [id |-> requestNo[e] + 1, amount |-> x, deadline |-> now + ResponseWindow]]
  /\ UNCHANGED vars

(* Mutant of ApprovePartialRelease: the amount is not reduced.              *)
ApproveUnreduced(e, id) ==
  /\ ~paused
  /\ request[e] # NoPartial /\ request[e].id = id
  /\ paid' = Pay(e, 0, request[e].amount)
  /\ request' = [request EXCEPT ![e] = NoPartial]
  /\ UNCHANGED <<clockVars, escrowVars, releaseVars, renewalVars,
                 disputeVars, inspectVars, agreeVars, accruedFees, received,
                 requestNo>>

(* The buyer's approval looks neither at the status nor at the amount the   *)
(* escrow has by now.                                                       *)
ApprovePartialRelease(e, id) ==
  /\ ~paused
  /\ request[e] # NoPartial /\ request[e].id = id
  /\ paid' = Pay(e, 0, request[e].amount)
  /\ escrow' = [escrow EXCEPT ![e].amount = @ - request[e].amount]
  /\ request' = [request EXCEPT ![e] = NoPartial]
  /\ UNCHANGED <<clockVars, nextId, terms, receipt, approvals, releaseVars,
                 renewalVars, disputeVars, inspectVars, agreeVars, accruedFees,
                 received, requestNo>>

RejectPartialRelease(e, id) ==
  /\ ~paused
  /\ request[e] # NoPartial /\ request[e].id = id
  /\ request' = [request EXCEPT ![e] = NoPartial]
  /\ UNCHANGED <<vars, requestNo>>

(* Mutant of EscalatePartialRelease: the request stays behind.              *)
EscalateKeepingRequest(e) ==
  /\ ~paused
  /\ request[e] # NoPartial
  /\ now >= request[e].deadline
  /\ escrow' = [escrow EXCEPT ![e].status = "Disputed"]
  /\ dispute' = [dispute EXCEPT ![e] = [state |-> "Open", createdAt |-> now,
                                        amount |-> escrow[e].amount]]
  /\ UNCHANGED <<clockVars, nextId, terms, receipt, approvals, releaseVars,
                 renewalVars, disputeStart, verdict, flagged, arbiterTimeouts,
                 inspectVars, agreeVars, moneyVars, requestVars>>

(* The seller makes an unanswered request a dispute of the whole amount,    *)
(* whatever became of the escrow since; no start of it is recorded for the  *)
(* arbiter's timeout.                                                       *)
EscalatePartialRelease(e) ==
  /\ ~paused
  /\ request[e] # NoPartial
  /\ now >= request[e].deadline
  /\ escrow' = [escrow EXCEPT ![e].status = "Disputed"]
  /\ dispute' = [dispute EXCEPT ![e] = [state |-> "Open", createdAt |-> now,
                                        amount |-> escrow[e].amount]]
  /\ request' = [request EXCEPT ![e] = NoPartial]
  /\ UNCHANGED <<clockVars, nextId, terms, receipt, approvals, releaseVars,
                 renewalVars, disputeStart, verdict, flagged, arbiterTimeouts,
                 inspectVars, agreeVars, moneyVars, requestNo>>

-----------------------------------------------------------------------------

RequestNext ==
  \E e \in Created :
    \/ \E x \in Amounts : RequestPartialRelease(e, x)
    \/ \E id \in 1 .. MaxRequests : ApprovePartialRelease(e, id)
    \/ \E id \in 1 .. MaxRequests : RejectPartialRelease(e, id)
    \/ EscalatePartialRelease(e)

-----------------------------------------------------------------------------
(* A promise of the documents that late answers break.                      *)

(* "Disputes freeze the escrow, preventing unilateral fund movement by      *)
(* either party." (readMe.md): during a dispute the buyer alone pays        *)
(* nothing out.                                                             *)
DisputeStopsBuyer ==
  [][\A e \in Ids : escrow[e].status \in InDispute =>
       \A id \in 1 .. MaxRequests : ~ApprovePartialRelease(e, id)]_<<vars, requestVars>>

=============================================================================
