------------------------------- MODULE EscrowWhole -------------------------------
(***************************************************************************)
(* The whole escrow contract, as far as it is modelled: its parts composed *)
(* over one token balance, and what no part of it does to another.         *)
(***************************************************************************)
EXTENDS EscrowBounties

optionVars == <<healthVars, panelVars>>
allVars == <<vars, requestVars, planVars, claimVars, optionVars, bountyVars>>

(* The receipt of an escrow with fixed milestones, or with a request that   *)
(* is pending, is not handed on.                                            *)
ReceiptStays ==
  \A e \in Created :
    milestones[e] # <<>> \/ request[e] # NoPartial =>
      receipt'[e] \in {receipt[e], NoAddr}

FullNext ==
  /\ \/ (Next \/ BountyTermsNext)
        /\ UNCHANGED <<requestVars, planVars, claimVars, optionVars, bountyVars>>
     \/ RequestNext /\ UNCHANGED <<planVars, claimVars, optionVars, bountyVars>>
     \/ MilestoneNext /\ UNCHANGED <<requestVars, claimVars, optionVars, bountyVars>>
     \/ ScheduleNext /\ UNCHANGED <<requestVars, planVars, optionVars, bountyVars>>
     \/ ApprovalNext /\ UNCHANGED <<requestVars, planVars, claimVars, bountyVars>>
     \/ BountyNext /\ UNCHANGED <<requestVars, planVars, claimVars, optionVars>>
  /\ TokenAllows /\ ReceiptStays

FullSpec == BountiesInit /\ [][FullNext]_allVars

-----------------------------------------------------------------------------
(* What the contract owes over an escrow that has not ended: its amount,    *)
(* less what claims by schedule and verified milestones took without        *)
(* reducing it.                                                             *)

Unended == Live \cup {"UnderCollateralized", "BountyUnclaimed", "BountyClaimed"}

Due(e) ==
  IF escrow[e].status \in Unended
  THEN escrow[e].amount - TrancheSum(e, Claimed(e))
       - (IF escrow[e].status = "BountyClaimed" \/ escrow[e].status = "BountyUnclaimed"
          THEN bounty[e].disbursed ELSE 0)
  ELSE 0

(* The escrow's own deposits cover exactly what it owes.                    *)
Balanced(e) == Held(e) = Due(e) + collateral[e] /\ Due(e) >= 0

-----------------------------------------------------------------------------
(* The steps that pay out of one feature's books without looking at         *)
(* another's.                                                               *)

(* The answer to a request that outlived its escrow, or its amount.         *)
LateAnswer(e) ==
  /\ request[e] # NoPartial /\ request'[e] = NoPartial
  /\ escrow[e].status \in Terminal \/ request[e].amount > escrow[e].amount

(* A tranche is claimed of an escrow whose amount other calls changed, or   *)
(* other calls pay after one was; or the claim in order ends the escrow     *)
(* past a tranche that a claim by index made it jump over.                  *)
TranchesMixed(e) ==
  /\ schedule[e] # <<>>
  /\ IF schedule'[e] = schedule[e]
     THEN Claimed(e) # {}
     ELSE \/ escrow[e].amount # TrancheSum(e, DOMAIN schedule[e])
          \/ escrow'[e].status = "Released" /\ Claimed(e)' # DOMAIN schedule[e]

(* A bounty is approved as a whole or its amount amended when a milestone   *)
(* was paid already, or a milestone is paid when its amount was amended.    *)
BountyMixed(e) ==
  /\ steps[e] # <<>>
  /\ IF steps'[e] = steps[e]
     THEN /\ bounty[e].disbursed > 0
          /\ escrow'[e].status = "Released" \/ escrow'[e].amount # escrow[e].amount
     ELSE escrow[e].amount # SumOf(Worths(steps[e]), DOMAIN steps[e])

(* An escrow is created under the id of a bounty.                           *)
IdTaken(e) == bounty[e] # NoBounty /\ nextId = e /\ nextId' = e + 1

(* Without milestones, only these steps leave an escrow paid from another   *)
(* one's deposits, or owing more or less than it holds.  Every other entry  *)
(* point keeps a balanced escrow balanced: releases, claims in time,        *)
(* disputes, cancellations, approvals, collateral, bounties.                *)
OnlyKnownStepsUnbalance ==
  [][\A e \in Ids :
       Balanced(e) /\ ~Balanced(e)' /\ milestones[e] = <<>> /\ stages[e] = <<>> =>
         LateAnswer(e) \/ TranchesMixed(e) \/ BountyMixed(e) \/ IdTaken(e)]_allVars

=============================================================================
