---------------------------- MODULE EscrowMilestones ----------------------------
(***************************************************************************)
(* Escrows paid in milestones: fixed amounts the buyer or the arbiter      *)
(* approves, and proportional stages the seller submits first.             *)
(***************************************************************************)
EXTENDS EscrowRequests

CONSTANTS
  Schedules,   \* lists of milestone amounts the buyers ask for
  Shares       \* lists of basis points the buyers ask for

VARIABLES
  milestones,  \* DataKey::EscrowMilestones
  stages       \* DataKey2::EscrowMilestonesV2

planVars == <<milestones, stages>>

(* The amounts of a list of milestones, tranches or steps.                  *)
Worths(list) == [i \in DOMAIN list |-> list[i].amount]

ASSUME SchedulesAssumption ==
  /\ \A list \in Schedules : list # <<>> /\ list \in Seq(Nat \ {0})
  /\ \A list \in Shares : list \in Seq(Nat \ {0})

MilestonesInit ==
  /\ RequestsInit
  /\ milestones = [e \in Ids |-> <<>>]
  /\ stages = [e \in Ids |-> <<>>]

-----------------------------------------------------------------------------
(* Creation, which does not ask whether the contract is paused.             *)

(* What the creators that only take parties, amount and deadline leave out  *)
(* of their request.                                                        *)
NoOptions(r) ==
  /\ r.buyers = {} /\ r.inspector = NoAddr /\ r.inactivity = 0
  /\ r.disputeTimeout = 0 /\ r.defaultWinner = "Default" /\ r.arbiterFee = Unset
  /\ r.collateralBps = 0 /\ ~r.oracle
  /\ ~r.autoRenew /\ r.renewalCount = 0 /\ r.maxRenewals = Unset

CreateMilestoneEscrow(r, list) ==
  /\ NoOptions(r) /\ r.lockUntil = 0
  /\ r.amount = SumOf(list, DOMAIN list)
  /\ CreateCore(r, "Active")
  /\ milestones' = [milestones EXCEPT ![nextId] =
       [i \in DOMAIN list |-> [amount |-> list[i], status |-> "Pending"]]]
  /\ UNCHANGED stages

CreateBpsMilestoneEscrow(r, list) ==
  /\ NoOptions(r) /\ r.lockUntil = 0
  /\ SumOf(list, DOMAIN list) = AllBps
  /\ CreateCore(r, "Active")
  /\ stages' = [stages EXCEPT ![nextId] =
       [i \in DOMAIN list |-> [bps |-> list[i], status |-> "Pending"]]]
  /\ UNCHANGED milestones

-----------------------------------------------------------------------------
(* Fixed amounts.                                                           *)

Approved(plan) == {i \in DOMAIN plan : plan[i].status = "Approved"}

(* Mutant of ApproveMilestone: released with the first approval.            *)
ApproveMilestoneReleasing(e, caller, i) ==
  /\ escrow[e].status \notin Terminal
  /\ caller \in {escrow[e].buyer, terms[e].arbiter}
  /\ i \in DOMAIN milestones[e] /\ milestones[e][i].status = "Pending"
  /\ milestones' = [milestones EXCEPT ![e][i].status = "Approved"]
  /\ paid' = Pay(e, 0, milestones[e][i].amount)
  /\ escrow' = [escrow EXCEPT ![e].status = "Released"]
  /\ UNCHANGED <<clockVars, nextId, terms, receipt, approvals, releaseVars,
                 renewalVars, disputeVars, inspectVars, agreeVars, accruedFees,
                 received, stages>>

(* Whatever the escrow waits for, as long as it has not ended; its amount   *)
(* is not reduced.  The last milestone ends an escrow that is active.       *)
ApproveMilestone(e, caller, i) ==
  /\ escrow[e].status \notin Terminal
  /\ caller \in {escrow[e].buyer, terms[e].arbiter}
  /\ i \in DOMAIN milestones[e] /\ milestones[e][i].status = "Pending"
  /\ milestones' = [milestones EXCEPT ![e][i].status = "Approved"]
  /\ paid' = Pay(e, 0, milestones[e][i].amount)
  /\ LET done == Approved(milestones[e]) \cup {i} = DOMAIN milestones[e]
                 /\ escrow[e].status = "Active"
     IN  /\ escrow' = IF done THEN Released(e) ELSE escrow
         /\ receipt' = IF done THEN [receipt EXCEPT ![e] = NoAddr] ELSE receipt
  /\ UNCHANGED <<clockVars, nextId, terms, approvals, releaseVars, renewalVars,
                 disputeVars, inspectVars, agreeVars, accruedFees, received,
                 stages>>

-----------------------------------------------------------------------------
(* Proportional stages.                                                     *)

StageStep(e, i, from, to) ==
  /\ escrow[e].status = "Active"
  /\ i \in DOMAIN stages[e] /\ stages[e][i].status \in from
  /\ stages' = [stages EXCEPT ![e][i].status = to]
  /\ UNCHANGED milestones

SubmitMilestone(e, i) ==
  /\ StageStep(e, i, {"Pending", "Rejected"}, "Submitted")
  /\ UNCHANGED vars

RejectMilestone(e, i) ==
  /\ StageStep(e, i, {"Submitted"}, "Rejected")
  /\ UNCHANGED vars

StageShare(e, i) == Bps(escrow[e].amount, stages[e][i].bps)

(* Mutant of StageAmount: the last stage is rounded like the others.        *)
StageAmountRounded(e, i) == StageShare(e, i)

(* The last stage of the list takes what the approved ones left.            *)
StageAmount(e, i) ==
  IF i = Len(stages[e])
  THEN escrow[e].amount -
         SumOf([j \in DOMAIN stages[e] |-> StageShare(e, j)], Approved(stages[e]) \ {i})
  ELSE StageShare(e, i)

(* The escrow ends when no stage is pending or submitted: a rejected one    *)
(* counts as settled.                                                       *)
ApproveProportionalMilestone(e, caller, i) ==
  /\ caller \in {escrow[e].buyer, terms[e].arbiter}
  /\ escrow[e].status = "Active"
  /\ i \in DOMAIN stages[e] /\ stages[e][i].status = "Submitted"
  /\ paid' = Pay(e, 0, StageAmount(e, i))
  /\ stages' = [stages EXCEPT ![e][i].status = "Approved"]
  /\ escrow' = IF \A j \in DOMAIN stages[e] \ {i} :
                     stages[e][j].status \in {"Approved", "Rejected"}
               THEN Released(e) ELSE escrow
  /\ UNCHANGED <<clockVars, nextId, terms, receipt, approvals, releaseVars,
                 renewalVars, disputeVars, inspectVars, agreeVars, accruedFees,
                 received, milestones>>

-----------------------------------------------------------------------------

MilestoneStep ==
  \E e \in Created :
    \/ \E i \in DOMAIN milestones[e], caller \in Addr : ApproveMilestone(e, caller, i)
    \/ \E i \in DOMAIN stages[e] :
         \/ SubmitMilestone(e, i)
         \/ RejectMilestone(e, i)
         \/ \E caller \in Addr : ApproveProportionalMilestone(e, caller, i)

MilestoneNext ==
  \/ \E r \in Requests, list \in Schedules : CreateMilestoneEscrow(r, list)
  \/ \E r \in Requests, list \in Shares : CreateBpsMilestoneEscrow(r, list)
  \/ MilestoneStep

-----------------------------------------------------------------------------

(* Milestones alone: beside them the plain entry points are called, but of  *)
(* these only disputes change what an escrow with milestones or stages      *)
(* holds or is to hold.                                                     *)
Spared(e) == UNCHANGED <<escrow[e].amount, received[e], paid[e]>>

PlanNext ==
  \/ MilestoneNext
  \/ /\ Next /\ UNCHANGED planVars
     /\ \/ DisputeNext
        \/ \A e \in Ids : milestones[e] # <<>> \/ stages[e] # <<>> => Spared(e)

PlanSpec ==
  MilestonesInit
    /\ [][PlanNext /\ UNCHANGED requestVars]_<<vars, requestVars, planVars>>

(* When milestones alone move tokens, what an escrow has paid is the sum of *)
(* its approved milestones, and the approval that ends it has paid all of   *)
(* its deposit: the automatic release leaves nothing behind and takes       *)
(* nothing from another escrow.                                             *)
MilestonesAddUp ==
  \A e \in Ids : milestones[e] # <<>> /\ dispute[e].state = "None" =>
    /\ paid[e].seller =
         SumOf(Worths(milestones[e]), Approved(milestones[e]))
    /\ escrow[e].status = "Released" => paid[e].seller = received[e]

(* Stages never pay out less than the deposit when every one of them is     *)
(* approved, in whatever order and however often resubmitted: rounding      *)
(* leaves nothing behind.                                                   *)
StagesLeaveNothing ==
  \A e \in Ids : stages[e] # <<>> /\ Approved(stages[e]) = DOMAIN stages[e] =>
    paid[e].seller >= received[e]

-----------------------------------------------------------------------------
(* A promise of a comment the stages do not keep.                           *)

(* "The final milestone releases any rounding remainder." (lib.rs,          *)
(* approve_proportional_milestone): the stages pay the deposit, no more.    *)
StagesPayDeposit ==
  \A e \in Ids : stages[e] # <<>> => paid[e].seller <= received[e]

=============================================================================
