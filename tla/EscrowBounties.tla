---------------------------- MODULE EscrowBounties ----------------------------
(***************************************************************************)
(* Bounties: escrows without a seller until a solver claims them, paid as  *)
(* a whole for a submission or milestone by milestone.  The contract is    *)
(* the placeholder of the seller and the arbiter, NoAddr here: it calls    *)
(* nothing.  A submission is known by the solver who made it.              *)
(***************************************************************************)
EXTENDS EscrowApprovals

CONSTANTS
  Plans,      \* milestone bounties the buyers ask for: lists of amounts and verifiers
  MaxRejections   \* DataKey2::MaxBountyRejectionRounds

VARIABLES
  bounty,     \* DataKey2::BountyData; no fees of a verdict are disbursed (EscrowDisputes)
  steps       \* DataKey2::BountyMilestones

bountyVars == <<bounty, steps>>

NoBounty == [claimBy |-> 0, submitBy |-> 0, submission |-> NoAddr,
             rejections |-> 0, disbursed |-> 0]

ASSUME BountiesAssumption ==
  /\ MaxRejections \in Nat
  /\ \A plan \in Plans : plan # <<>> /\ plan \in Seq([amount: Nat \ {0}, verifier: Addr])

BountiesInit ==
  /\ ApprovalsInit
  /\ bounty = [e \in Ids |-> NoBounty]
  /\ steps = [e \in Ids |-> <<>>]

Bounties == {e \in Ids : bounty[e] # NoBounty}

-----------------------------------------------------------------------------
(* Creation.                                                                *)

(* A bounty takes the counter's new value as its id; every other creator    *)
(* takes the old one, so the escrow created next has the same id.           *)
BountyId == nextId + 1

StoreBounty(buyer, amount, claimBy, submitBy) ==
  /\ ~paused
  /\ amount > 0
  /\ now < claimBy /\ claimBy < submitBy
  /\ BountyId \in Ids
  /\ nextId' = nextId + 1
  /\ escrow' = [escrow EXCEPT ![BountyId] =
       [NoEscrow EXCEPT !.status = "BountyUnclaimed", !.buyer = buyer,
                        !.amount = amount, !.original = amount,
                        !.createdAt = now, !.deadline = submitBy]]
  /\ terms' = [terms EXCEPT ![BountyId] = [NoTerms EXCEPT !.arbiter = NoAddr]]
  /\ received' = [received EXCEPT ![BountyId] = @ + amount]
  /\ bounty' = [bounty EXCEPT ![BountyId] =
       [NoBounty EXCEPT !.claimBy = claimBy, !.submitBy = submitBy]]
  /\ UNCHANGED <<clockVars, receipt, approvals, releaseVars, renewalVars,
                 disputeVars, inspectVars, agreeVars, accruedFees, paid>>

CreateBounty(buyer, amount, claimBy, submitBy) ==
  /\ StoreBounty(buyer, amount, claimBy, submitBy)
  /\ UNCHANGED steps

CreateMilestoneBounty(buyer, plan, claimBy, submitBy) ==
  /\ StoreBounty(buyer, SumOf(Worths(plan), DOMAIN plan), claimBy, submitBy)
  /\ steps' = [steps EXCEPT ![BountyId] =
       [i \in DOMAIN plan |-> [amount |-> plan[i].amount,
                               verifier |-> plan[i].verifier,
                               status |-> "Pending"]]]

-----------------------------------------------------------------------------
(* A bounty as a whole.                                                     *)

(* Anyone, the buyer included: no list of solvers is asked.                 *)
ClaimBounty(e, solver) ==
  /\ ~paused
  /\ escrow[e].status = "BountyUnclaimed"
  /\ now <= bounty[e].claimBy
  /\ Rewrite(e, [escrow[e] EXCEPT !.status = "BountyClaimed", !.seller = solver])
  /\ UNCHANGED <<inspectVars, agreeVars, bountyVars>>

SubmitBountyWork(e) ==
  /\ ~paused
  /\ escrow[e].status = "BountyClaimed"
  /\ now <= bounty[e].submitBy
  /\ bounty' = [bounty EXCEPT ![e].submission = escrow[e].seller]
  /\ UNCHANGED <<vars, steps>>

(* The whole amount, whatever the milestones were paid already.             *)
ApproveBountySubmission(e) ==
  /\ ~paused
  /\ escrow[e].status = "BountyClaimed"
  /\ bounty[e].submission # NoAddr
  /\ Settle(e, "Released", 0, escrow[e].amount)
  /\ UNCHANGED <<receipt, disputeVars, agreeVars, bountyVars>>

(* Mutant of Unassigned: the submission stays on record.                    *)
UnassignedSubmitted(e) == [bounty[e] EXCEPT !.rejections = @ + 1]

Unassigned(e) ==
  [bounty[e] EXCEPT !.submission = NoAddr, !.rejections = @ + 1]

(* Asks for no submission, and leaves the milestones as they are.           *)
RejectBountySubmission(e) ==
  /\ ~paused
  /\ escrow[e].status = "BountyClaimed"
  /\ bounty[e].rejections < MaxRejections
  /\ Rewrite(e, [escrow[e] EXCEPT !.status = "BountyUnclaimed", !.seller = NoAddr])
  /\ bounty' = [bounty EXCEPT ![e] = Unassigned(e)]
  /\ UNCHANGED <<inspectVars, agreeVars, steps>>

(* What its milestones left; less than nothing counts as nothing.           *)
Undisbursed(e) ==
  IF bounty[e].disbursed < escrow[e].amount
  THEN escrow[e].amount - bounty[e].disbursed ELSE 0

(* A claimed bounty too, once the time to claim it is over.                 *)
CancelBounty(e) ==
  /\ ~paused
  /\ \/ escrow[e].status = "BountyUnclaimed"
     \/ escrow[e].status = "BountyClaimed" /\ now > bounty[e].claimBy
  /\ Settle(e, "Refunded", Undisbursed(e), 0)
  /\ UNCHANGED <<receipt, disputeVars, agreeVars, bountyVars>>

-----------------------------------------------------------------------------
(* Its milestones.                                                          *)

PaidSteps(e) == {i \in DOMAIN steps[e] : steps[e][i].status = "Paid"}

SubmitBountyMilestone(e, i) ==
  /\ ~paused
  /\ escrow[e].status = "BountyClaimed"
  /\ now <= escrow[e].deadline
  /\ 1 .. i - 1 \subseteq PaidSteps(e)
  /\ steps[e][i].status = "Pending"
  /\ steps' = [steps EXCEPT ![e][i].status = "Submitted"]
  /\ UNCHANGED <<vars, bounty>>

(* Pays the solver of the moment, whoever submitted.                        *)
VerifyBountyMilestone(e, i) ==
  /\ ~paused
  /\ escrow[e].status = "BountyClaimed"
  /\ steps[e][i].status = "Submitted"
  /\ steps' = [steps EXCEPT ![e][i].status = "Paid"]
  /\ paid' = Pay(e, 0, steps[e][i].amount)
  /\ bounty' = [bounty EXCEPT ![e].disbursed = @ + steps[e][i].amount]
  /\ escrow' = IF PaidSteps(e) \cup {i} = DOMAIN steps[e] THEN Released(e) ELSE escrow
  /\ UNCHANGED <<clockVars, nextId, terms, receipt, approvals, releaseVars,
                 renewalVars, disputeVars, inspectVars, agreeVars, accruedFees,
                 received>>

ReplaceBountyVerifier(e, i, verifier) ==
  /\ ~paused
  /\ steps[e][i].status = "Pending"
  /\ steps' = [steps EXCEPT ![e][i].verifier = verifier]
  /\ UNCHANGED <<vars, bounty>>

-----------------------------------------------------------------------------

BountyCreation ==
  \E buyer \in Addr, claimBy, submitBy \in Times :
    \/ \E x \in Amounts : CreateBounty(buyer, x, claimBy, submitBy)
    \/ \E plan \in Plans : CreateMilestoneBounty(buyer, plan, claimBy, submitBy)

BountyStep ==
  \E e \in Bounties :
    \/ \E solver \in Addr : ClaimBounty(e, solver)
    \/ SubmitBountyWork(e)
    \/ ApproveBountySubmission(e)
    \/ RejectBountySubmission(e)
    \/ CancelBounty(e)
    \/ \E i \in DOMAIN steps[e] :
         \/ SubmitBountyMilestone(e, i)
         \/ VerifyBountyMilestone(e, i)
         \/ \E verifier \in Addr : ReplaceBountyVerifier(e, i, verifier)

BountyNext == BountyCreation \/ BountyStep

(* A bounty whose id no other creator has reached yet: the calls that ask   *)
(* only that an escrow has not ended work on it as well.                    *)
BountyTermsNext ==
  \E e \in Bounties \ Created :
    \/ \E caller \in Addr, d \in Times : ProposeDeadlineExtension(e, caller, d)
    \/ \E caller \in Addr : AcceptDeadlineExtension(e, caller)
    \/ \E caller \in Addr, x \in Amounts \cup {Unset}, d \in Times \cup {Unset} :
         ProposeAmendment(e, caller, x, d)
    \/ \E caller \in Addr, n \in 0 .. MaxRounds : SignAmendment(e, caller, n)
    \/ \E n \in 0 .. MaxRounds : ApplyAmendment(e, n)

-----------------------------------------------------------------------------

(* The work on record is the work of the solver an approval would pay, over *)
(* any number of rejections and new claims: no solver is paid for what      *)
(* somebody else submitted, and an unclaimed bounty has nothing to approve. *)
SubmissionIsSolvers ==
  \A e \in Ids :
    /\ escrow[e].status = "BountyClaimed" =>
         escrow[e].seller \in Addr /\ bounty[e].submission \in {NoAddr, escrow[e].seller}
    /\ escrow[e].status = "BountyUnclaimed" =>
         escrow[e].seller = NoAddr /\ bounty[e].submission = NoAddr

(* "Allow cancellation anytime if unclaimed" (lib.rs, cancel_bounty): an    *)
(* unclaimed bounty stays one until it is claimed or cancelled.             *)
UnclaimedStaysOpen ==
  [][\A e \in Ids : escrow[e].status = "BountyUnclaimed" =>
       escrow'[e].status \in {"BountyUnclaimed", "BountyClaimed", "Refunded"}]_vars

=============================================================================
