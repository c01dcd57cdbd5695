---------------------------- MODULE EscrowDisputes ----------------------------
(***************************************************************************)
(* Disputes of the ahjoor-escrow contract: raising one, the arbiter's      *)
(* verdict, its cooling-off window, and the timeout that ends a dispute    *)
(* whose arbiter stays silent (docs/escrow-dispute-flow.md).               *)
(***************************************************************************)
EXTENDS EscrowLifecycle

-----------------------------------------------------------------------------
(* The undisputed part goes to the seller at once; the rest is held.        *)
DisputeEscrow(e, caller, x) ==
  /\ ~paused
  /\ escrow[e].status \in Open
  /\ caller \in Party(e)
  /\ Within(e, x)
  /\ lastBuyerAction' = TouchedBy(e, caller)
  /\ paid' = Pay(e, 0, escrow[e].amount - x)
  /\ escrow' = [escrow EXCEPT ![e] = Holding(e, x,
       IF x < escrow[e].amount THEN "PartiallyDisputed" ELSE "Disputed")]
  /\ dispute' = [dispute EXCEPT ![e] =
                   [state |-> "Open", createdAt |-> now, amount |-> x]]
  /\ disputeStart' = [disputeStart EXCEPT ![e] = now]
  /\ UNCHANGED <<clockVars, nextId, terms, receipt, approvals, collateral, veto,
                 condition, waivers, renewalVars, verdict, flagged,
                 arbiterTimeouts, inspectVars, agreeVars, accruedFees, received>>

-----------------------------------------------------------------------------
(* Verdicts: execute_verdict.                                               *)

(* Mutant of ArbiterFee: the default fee comes on top of the override.      *)
ArbiterFeeTwice(e) ==
  Bps(escrow[e].amount, config.arbiterFee + (IF terms[e].arbiterFee = Unset
                                             THEN 0 ELSE terms[e].arbiterFee))

ArbiterFee(e) ==
  Bps(escrow[e].amount, IF terms[e].arbiterFee = Unset THEN config.arbiterFee
                        ELSE terms[e].arbiterFee)
ProtocolFee(e) == Bps(escrow[e].amount, config.protocolFee)
(* Mutant of Distributable: the protocol fee is accrued and distributed too. *)
DistributableGross(e) == escrow[e].amount - ArbiterFee(e)

Distributable(e) == escrow[e].amount - ProtocolFee(e) - ArbiterFee(e)
BuyerShare(e, percent) == (Distributable(e) * percent) \div 100

(* Collateral the buyer's side receives: a share of it when the verdict     *)
(* favours the buyer at all.                                                *)
Forfeit(e, percent) ==
  IF percent > 0 THEN Bps(collateral[e], terms[e].forfeitBps) ELSE 0

VerdictStatus(percent) ==
  CASE percent = 100 -> "Refunded" [] percent = 0 -> "Released"
    [] OTHER -> "Resolved"

(* The first ruling of an inspector counts as correct, and so does every    *)
(* later one.                                                               *)
ScoreRuling(insp) ==
  IF insp = NoAddr THEN inspectorScore
  ELSE [inspectorScore EXCEPT ![insp] =
          [total |-> @.total + 1,
           correct |-> IF @.total = 0 THEN 1 ELSE @.correct + 1]]

(* Fees first, then the split, then the seller's collateral.  The protocol  *)
(* fee stays in the contract, owed to the admin; the receipt is left alone. *)
(* Left out: the fees are also added to what a bounty's record says was     *)
(* disbursed (2863, 2885) when one is left under the id.  No bounty can be  *)
(* disputed, so that is the record of a bounty whose id an escrow has taken *)
(* since; only cancel_bounty computes with it, of an open bounty.           *)
ExecuteVerdict(e, percent) ==
  /\ Distributable(e) >= 0
  /\ accruedFees' = accruedFees + ProtocolFee(e)
  /\ paid' = [paid EXCEPT ![e] = [paid[e] EXCEPT
       !.arbiter = @ + ArbiterFee(e),
       !.fee = @ + ProtocolFee(e),
       !.buyer = @ + BuyerShare(e, percent) + Forfeit(e, percent),
       !.seller = @ + (Distributable(e) - BuyerShare(e, percent))
                    + (collateral[e] - Forfeit(e, percent))]]
  /\ collateral' = [collateral EXCEPT ![e] = 0]
  /\ escrow' = [escrow EXCEPT ![e].status = VerdictStatus(percent)]
  /\ dispute' = IF dispute[e].state = "None" THEN dispute
                ELSE [dispute EXCEPT ![e].state = "Resolved"]
  /\ inspectorScore' = ScoreRuling(escrow[e].inspector)
  /\ UNCHANGED <<clockVars, nextId, terms, receipt, approvals, lastBuyerAction,
                 veto, condition, waivers, renewalVars, disputeStart, flagged,
                 arbiterTimeouts, inspectorVote, appealed, agreeVars, received>>

(* Without a cooling-off window the verdict is carried out at once.         *)
ResolveDispute(e, percent) ==
  /\ ~paused
  /\ escrow[e].status \in InDispute
  /\ percent <= 100
  /\ config.cooloff = 0
  /\ ExecuteVerdict(e, percent)
  /\ UNCHANGED verdict

(* Mutant of RecordVerdict: the verdict is not saved.                       *)
RecordVerdictUnsaved(e, percent) ==
  /\ ~paused
  /\ escrow[e].status \in InDispute
  /\ percent <= 100
  /\ config.cooloff > 0
  /\ escrow' = [escrow EXCEPT ![e].status = "CoolingOff"]
  /\ UNCHANGED <<clockVars, nextId, terms, receipt, approvals, releaseVars,
                 renewalVars, disputeVars, inspectVars, agreeVars, moneyVars>>

(* With one, it is recorded and nothing moves yet.                          *)
RecordVerdict(e, percent) ==
  /\ ~paused
  /\ escrow[e].status \in InDispute
  /\ percent <= 100
  /\ config.cooloff > 0
  /\ verdict' = [verdict EXCEPT ![e] = [percent |-> percent, recordedAt |-> now]]
  /\ escrow' = [escrow EXCEPT ![e].status = "CoolingOff"]
  /\ UNCHANGED <<clockVars, nextId, terms, receipt, approvals, releaseVars,
                 renewalVars, dispute, disputeStart, flagged, arbiterTimeouts,
                 inspectVars, agreeVars, moneyVars>>

(* The window is the one configured when it is asked about, not the one     *)
(* configured when the verdict was recorded.                                *)
CoolingOffUntil(e) == verdict[e].recordedAt + config.cooloff

FlagResolutionError(e, caller) ==
  /\ ~paused
  /\ escrow[e].status = "CoolingOff"
  /\ verdict[e] # NoVerdict
  /\ caller \in Party(e)
  /\ now <= CoolingOffUntil(e)
  /\ ~flagged[e]
  /\ flagged' = [flagged EXCEPT ![e] = TRUE]
  /\ UNCHANGED <<clockVars, escrowVars, releaseVars, renewalVars, dispute,
                 disputeStart, verdict, arbiterTimeouts, inspectVars, agreeVars,
                 moneyVars>>

(* Mutants of FinalizeResolution: at the last moment of the window, and     *)
(* without removing the verdict.                                            *)
FinalizeTooSoon(e) ==
  /\ ~paused
  /\ escrow[e].status = "CoolingOff"
  /\ verdict[e] # NoVerdict
  /\ now >= CoolingOffUntil(e)
  /\ ~flagged[e]
  /\ verdict' = [verdict EXCEPT ![e] = NoVerdict]
  /\ ExecuteVerdict(e, verdict[e].percent)

FinalizeKeepingVerdict(e) ==
  /\ ~paused
  /\ escrow[e].status = "CoolingOff"
  /\ verdict[e] # NoVerdict
  /\ now > CoolingOffUntil(e)
  /\ ~flagged[e]
  /\ ExecuteVerdict(e, verdict[e].percent)
  /\ UNCHANGED verdict

FinalizeResolution(e) ==
  /\ ~paused
  /\ escrow[e].status = "CoolingOff"
  /\ verdict[e] # NoVerdict
  /\ now > CoolingOffUntil(e)
  /\ ~flagged[e]
  /\ verdict' = [verdict EXCEPT ![e] = NoVerdict]
  /\ ExecuteVerdict(e, verdict[e].percent)

ClearResolutionFlag(e) ==
  /\ ~paused
  /\ flagged[e]
  /\ flagged' = [flagged EXCEPT ![e] = FALSE]
  /\ UNCHANGED <<clockVars, escrowVars, releaseVars, renewalVars, dispute,
                 disputeStart, verdict, arbiterTimeouts, inspectVars, agreeVars,
                 moneyVars>>

-----------------------------------------------------------------------------
(* The arbiter's silence.                                                   *)

EffectiveTimeout(e) ==
  IF terms[e].disputeTimeout > 0 THEN terms[e].disputeTimeout ELSE config.timeout

DefaultWinner(e) ==
  IF terms[e].defaultWinner = "Default" THEN config.winner
  ELSE terms[e].defaultWinner

(* Mutant of EnforceDisputeTimeout: a partial dispute is forgotten.         *)
EnforceFullDisputeTimeout(e) ==
  /\ ~paused
  /\ dispute[e].state = "Open"
  /\ escrow[e].status = "Disputed"
  /\ disputeStart[e] # Never
  /\ now - disputeStart[e] >= EffectiveTimeout(e)
  /\ arbiterTimeouts' = [arbiterTimeouts EXCEPT ![terms[e].arbiter] = @ + 1]
  /\ Settle(e, "Released", 0, escrow[e].amount)
  /\ receipt' = [receipt EXCEPT ![e] = NoAddr]
  /\ dispute' = [dispute EXCEPT ![e].state = "Resolved"]
  /\ UNCHANGED <<disputeStart, verdict, flagged, agreeVars>>

(* Anyone, from the deadline on: the whole amount goes to the default       *)
(* winner.  A dispute whose start was never recorded cannot be ended so.    *)
EnforceDisputeTimeout(e) ==
  /\ ~paused
  /\ dispute[e].state = "Open"
  /\ escrow[e].status \in InDispute
  /\ disputeStart[e] # Never
  /\ now - disputeStart[e] >= EffectiveTimeout(e)
  /\ arbiterTimeouts' = [arbiterTimeouts EXCEPT ![terms[e].arbiter] = @ + 1]
  /\ \/ /\ DefaultWinner(e) = "Seller"
        /\ Settle(e, "Released", 0, escrow[e].amount)
     \/ /\ DefaultWinner(e) = "Buyer"
        /\ Settle(e, "Refunded", escrow[e].amount, 0)
  /\ receipt' = [receipt EXCEPT ![e] = NoAddr]
  /\ dispute' = [dispute EXCEPT ![e].state = "Resolved"]
  /\ UNCHANGED <<disputeStart, verdict, flagged, agreeVars>>

-----------------------------------------------------------------------------
(* Admin settings the dispute handlers read, and the fees they accrue.      *)

ConfigSet(field, value) ==
  /\ config' = [config EXCEPT ![field] = value]
  /\ UNCHANGED <<now, paused, escrowVars, releaseVars, renewalVars, disputeVars,
                 inspectVars, agreeVars, moneyVars>>

SetResolutionCooloff(seconds) == ~paused /\ ConfigSet("cooloff", seconds)
UpdateDefaultDisputeTimeout(seconds) == seconds > 0 /\ ConfigSet("timeout", seconds)
SetDefaultDisputeWinner(winner) == ConfigSet("winner", winner)

WithdrawFees(x) ==
  /\ 0 < x /\ x <= accruedFees
  /\ accruedFees' = accruedFees - x
  /\ UNCHANGED <<clockVars, escrowVars, releaseVars, renewalVars, disputeVars,
                 inspectVars, agreeVars, received, paid>>

PauseContract ==
  /\ ~paused /\ paused' = TRUE
  /\ UNCHANGED <<now, config, escrowVars, releaseVars, renewalVars, disputeVars,
                 inspectVars, agreeVars, moneyVars>>

ResumeContract ==
  /\ paused /\ paused' = FALSE
  /\ UNCHANGED <<now, config, escrowVars, releaseVars, renewalVars, disputeVars,
                 inspectVars, agreeVars, moneyVars>>

=============================================================================
