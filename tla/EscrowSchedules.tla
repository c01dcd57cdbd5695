---------------------------- MODULE EscrowSchedules ----------------------------
(***************************************************************************)
(* Escrows paid by the clock: release schedules, claimed in order or       *)
(* tranche by tranche, and time-locked escrows.  Claims move tranches and  *)
(* leave the amount of the escrow as it is.                                *)
(***************************************************************************)
EXTENDS EscrowMilestones

CONSTANT Tranches   \* schedules the buyers ask for: lists of unlock times and amounts

VARIABLES
  schedule,   \* DataKey2::ReleaseSchedule
  reached,    \* DataKey2::ReleasedIndex
  timelock    \* DataKey::TimeLockData

claimVars == <<schedule, reached, timelock>>

NoLock == [unlockAt |-> 0, beneficiary |-> NoAddr, claimed |-> FALSE]

ASSUME TranchesAssumption ==
  \A list \in Tranches :
    list # <<>> /\ list \in Seq([unlockAt: Nat, amount: Nat \ {0}])

SchedulesInit ==
  /\ MilestonesInit
  /\ schedule = [e \in Ids |-> <<>>]
  /\ reached = [e \in Ids |-> 0]
  /\ timelock = [e \in Ids |-> NoLock]

TrancheSum(e, S) == SumOf(Worths(schedule[e]), S)
Claimed(e) == {i \in DOMAIN schedule[e] : schedule[e][i].claimed}

-----------------------------------------------------------------------------
(* Release schedules.                                                       *)

CreateEscrowWithSchedule(r, list) ==
  /\ ~paused
  /\ \A i \in DOMAIN list : list[i].unlockAt > now
  /\ NoOptions(r) /\ r.lockUntil = 0
  /\ r.amount = SumOf(Worths(list), DOMAIN list)
  /\ CreateCore(r, "Active")
  /\ schedule' = [schedule EXCEPT ![nextId] =
       [i \in DOMAIN list |-> [unlockAt |-> list[i].unlockAt,
                               amount |-> list[i].amount, claimed |-> FALSE]]]
  /\ reached' = [reached EXCEPT ![nextId] = 0]
  /\ UNCHANGED timelock

(* The tranches S of e go to the seller, who has now reached n of them; the *)
(* escrow ends if `last`.                                                   *)
Claim(e, S, n, last) ==
  /\ ~paused
  /\ escrow[e].status \in Open
  /\ schedule' = [schedule EXCEPT ![e] =
       [i \in DOMAIN schedule[e] |->
          [schedule[e][i] EXCEPT !.claimed = @ \/ i \in S]]]
  /\ reached' = [reached EXCEPT ![e] = n]
  /\ paid' = Pay(e, 0, TrancheSum(e, S))
  /\ escrow' = [escrow EXCEPT ![e].status =
       IF last THEN "Released" ELSE "PartiallyReleased"]
  /\ receipt' = IF last THEN [receipt EXCEPT ![e] = NoAddr] ELSE receipt
  /\ UNCHANGED <<clockVars, nextId, terms, approvals, releaseVars, renewalVars,
                 disputeVars, inspectVars, agreeVars, accruedFees, received,
                 timelock>>

(* The list is walked from the index reached up to the first tranche that   *)
(* is still locked.                                                         *)
Walked(e) ==
  {n \in DOMAIN schedule[e] :
     n > reached[e] /\ \A i \in reached[e] + 1 .. n : schedule[e][i].unlockAt <= now}

(* Ends the escrow at the end of the list, whatever an earlier claim by     *)
(* index left before the index reached.                                     *)
ClaimScheduledRelease(e) ==
  LET S == Walked(e) \ Claimed(e)
      n == reached[e] + Cardinality(Walked(e))
  IN  S # {} /\ Claim(e, S, n, n = Len(schedule[e]))

(* Out of order, the index becomes the number of tranches claimed.          *)
ClaimScheduledTranche(e, i) ==
  LET n == Cardinality(Claimed(e) \cup {i})
  IN  /\ i \in DOMAIN schedule[e] \ Claimed(e)
      /\ schedule[e][i].unlockAt <= now
      /\ Claim(e, {i}, n, n = Len(schedule[e]))

-----------------------------------------------------------------------------
(* Time locks.                                                              *)

CreateTimelockedEscrow(r) ==
  /\ ~paused
  /\ r.lockUntil > now
  /\ NoOptions(r)
  /\ CreateCore(r, "Active")
  /\ timelock' = [timelock EXCEPT ![nextId] =
       [unlockAt |-> r.lockUntil, beneficiary |-> r.seller, claimed |-> FALSE]]
  /\ UNCHANGED <<schedule, reached>>

(* Neither end of a time lock burns the receipt.                            *)
TimelockOver(e, status, b, s) ==
  /\ ~paused
  /\ timelock[e] # NoLock /\ ~timelock[e].claimed
  /\ escrow[e].status = "Active"
  /\ Settle(e, status, b, s)
  /\ UNCHANGED <<receipt, disputeVars, agreeVars, schedule, reached>>

(* Pays the beneficiary named at creation, whoever is the seller by now.    *)
ClaimTimelocked(e) ==
  /\ now >= timelock[e].unlockAt
  /\ TimelockOver(e, "Released", 0, escrow[e].amount)
  /\ timelock' = [timelock EXCEPT ![e].claimed = TRUE]

CancelTimelocked(e) ==
  /\ now < timelock[e].unlockAt
  /\ TimelockOver(e, "Refunded", escrow[e].amount, 0)
  /\ UNCHANGED timelock

-----------------------------------------------------------------------------

ClaimStep ==
  \E e \in Created :
    \/ ClaimScheduledRelease(e)
    \/ \E i \in DOMAIN schedule[e] : ClaimScheduledTranche(e, i)
    \/ ClaimTimelocked(e)
    \/ CancelTimelocked(e)

ScheduleNext ==
  \/ \E r \in Requests, list \in Tranches : CreateEscrowWithSchedule(r, list)
  \/ \E r \in Requests : CreateTimelockedEscrow(r)
  \/ ClaimStep

=============================================================================
