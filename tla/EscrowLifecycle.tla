---------------------------- MODULE EscrowLifecycle ----------------------------
(***************************************************************************)
(* Creating, releasing, renewing and expiring an escrow: the entry points  *)
(* that fund an escrow and the ones that pay it out without a dispute.     *)
(***************************************************************************)
EXTENDS EscrowBase

-----------------------------------------------------------------------------
(* Creation.                                                                *)

(* The EscrowExtensions of a request; collateral is due only when asked.    *)
TermsOf(r) ==
  [arbiter |-> r.arbiter, buyers |-> r.buyers, lockUntil |-> r.lockUntil,
   inactivity |-> r.inactivity, disputeTimeout |-> r.disputeTimeout,
   defaultWinner |-> r.defaultWinner, arbiterFee |-> r.arbiterFee,
   forfeitBps |-> IF r.collateralBps > 0 THEN r.forfeitBps ELSE 0,
   collateral |-> Bps(r.amount, r.collateralBps),
   collateralDeadline |-> IF r.collateralBps > 0
                          THEN now + r.collateralWindow ELSE 0,
   maxRenewals |-> r.maxRenewals, interval |-> r.interval,
   renewalCount |-> r.renewalCount, carryOver |-> r.carryOver,
   oracle |-> r.oracle]

(* Pulls the amount from the buyers' side, stores the escrow under the next *)
(* id and mints its receipt to the seller.  Bound: MaxEscrows ids.          *)
Store(r, status) ==
  /\ nextId < MaxEscrows
  /\ nextId' = nextId + 1
  /\ escrow' = [escrow EXCEPT ![nextId] =
       [status |-> status, buyer |-> r.buyer, seller |-> r.seller,
        amount |-> r.amount, original |-> r.amount, createdAt |-> now,
        deadline |-> r.deadline, inspector |-> r.inspector,
        autoRenew |-> r.autoRenew, renewalsRemaining |-> r.renewalCount,
        renewalsCompleted |-> 0, acknowledged |-> TRUE]]
  /\ terms' = [terms EXCEPT ![nextId] = TermsOf(r)]
  /\ receipt' = [receipt EXCEPT ![nextId] = r.seller]
  /\ lastBuyerAction' = IF r.inactivity > 0
                        THEN [lastBuyerAction EXCEPT ![nextId] = now]
                        ELSE lastBuyerAction
  /\ received' = [received EXCEPT ![nextId] = @ + r.amount]
  /\ UNCHANGED <<clockVars, approvals, collateral, veto, condition, waivers,
                 renewalVars, disputeVars, inspectVars, agreeVars,
                 accruedFees, paid>>

(* create_escrow_core, under every creator that only fills a request; most  *)
(* of them ask first that the contract is not paused.                       *)
CreateCore(r, status) ==
  /\ r.amount > 0
  /\ r.deadline > now
  /\ r.deadline > r.lockUntil
  /\ r.arbiterFee <= 1000
  /\ Store(r, status)

CreateEscrow(r) ==
  /\ ~paused
  /\ r.buyers = {} /\ r.collateralBps = 0 /\ r.inspector = NoAddr
  /\ CreateCore(r, "Active")

(* An inspector's accuracy counts only above the admin's value threshold,   *)
(* and an inspector without rulings passes.                                 *)
InspectorScoreOk(insp, amount) ==
  LET score == inspectorScore[insp]
  IN  config.scoreThreshold # 0 /\ amount > config.scoreThreshold
        /\ config.minScore # 0 /\ score.total # 0 =>
        (score.correct * AllBps) \div score.total >= config.minScore

CreateEscrowWithInspector(r) ==
  /\ ~paused
  /\ r.buyers = {} /\ r.collateralBps = 0 /\ r.inspector # NoAddr
  /\ InspectorScoreOk(r.inspector, r.amount)
  /\ CreateCore(r, "Active")

(* The escrow waits for the seller's collateral before it is open.          *)
CreateMultiSellerEscrow(r) ==
  /\ ~paused
  /\ r.buyers = {} /\ r.collateralBps > 0 /\ r.inspector = NoAddr
  /\ r.forfeitBps <= AllBps
  /\ CreateCore(r, "AwaitingCollateral")

(* The listed buyers fund the escrow together, each a positive share; the   *)
(* request carries their total.                                             *)
CreateMultiBuyerEscrow(r) ==
  /\ ~paused
  /\ r.buyer \in r.buyers
  /\ r.amount >= Cardinality(r.buyers)
  /\ r.deadline > now
  /\ r.lockUntil = 0 /\ r.arbiterFee = Unset /\ r.collateralBps = 0
  /\ r.inspector = NoAddr /\ r.inactivity = 0 /\ ~r.autoRenew
  /\ r.renewalCount = 0 /\ r.maxRenewals = Unset /\ ~r.oracle
  /\ Store(r, "Active")

DepositCollateral(e) ==
  /\ ~paused
  /\ escrow[e].status = "AwaitingCollateral"
  /\ now <= terms[e].collateralDeadline
  /\ collateral' = [collateral EXCEPT ![e] = terms[e].collateral]
  /\ escrow' = [escrow EXCEPT ![e].status = "Active"]
  /\ received' = [received EXCEPT ![e] = @ + terms[e].collateral]
  /\ UNCHANGED <<clockVars, nextId, terms, receipt, approvals, lastBuyerAction,
                 veto, condition, waivers, renewalVars, disputeVars,
                 inspectVars, agreeVars, accruedFees, paid>>

-----------------------------------------------------------------------------
(* Renewal on release: try_auto_renew, called with the escrow as it was     *)
(* before the release.                                                      *)

(* Mutant of RenewalDue: one cycle too many.                                *)
RenewalDueOnceMore(e) ==
  IF terms[e].maxRenewals # Unset
  THEN ~renewalCancelled[e] /\ escrow[e].renewalsCompleted <= terms[e].maxRenewals
  ELSE /\ escrow[e].autoRenew
       /\ terms[e].renewalCount # 0 => escrow[e].renewalsRemaining # 0

RenewalDue(e) ==
  IF terms[e].maxRenewals # Unset
  THEN ~renewalCancelled[e] /\ escrow[e].renewalsCompleted < terms[e].maxRenewals
  ELSE /\ escrow[e].autoRenew
       /\ terms[e].renewalCount # 0 => escrow[e].renewalsRemaining # 0

Released(e) == [escrow EXCEPT ![e].status = "Released"]

(* The successor's record: deadline, renewals remaining and completed given. *)
Successor(e, deadline, remaining, completed) ==
  [escrow[e] EXCEPT !.status = "Active", !.createdAt = now,
                    !.deadline = deadline, !.renewalsRemaining = remaining,
                    !.renewalsCompleted = completed, !.acknowledged = FALSE]

(* Both renewal paths store the successor under the next id with the amount *)
(* the source held, pulled from the buyer, and carry the release condition  *)
(* over if the policy says so; waivers of the old term are dropped.         *)
Renew(e, successor, timers) ==
  /\ nextId < MaxEscrows
  /\ nextId' = nextId + 1
  /\ escrow' = [Released(e) EXCEPT ![nextId] = successor]
  /\ terms' = [terms EXCEPT ![nextId] = [terms[e] EXCEPT
                 !.collateral = 0, !.collateralDeadline = 0]]
  /\ lastBuyerAction' = IF terms[e].inactivity > 0
                        THEN [timers EXCEPT ![nextId] = now] ELSE timers
  /\ received' = [received EXCEPT ![nextId] = @ + escrow[e].amount]
  /\ condition' = [condition EXCEPT ![nextId] = condition[e] /\ terms[e].carryOver]
  /\ waivers' = [waivers EXCEPT ![e] = {}]

RenewConfigured(e, timers) ==
  /\ terms[e].maxRenewals # Unset
  /\ Renew(e, Successor(e, now + terms[e].interval * 5,
                        IF escrow[e].renewalsRemaining > 0
                        THEN escrow[e].renewalsRemaining - 1 ELSE 0,
                        escrow[e].renewalsCompleted + 1), timers)
  /\ history' = [history EXCEPT ![chainRoot[e]] = Append(@, nextId)]
  /\ chainRoot' = [chainRoot EXCEPT ![nextId] = chainRoot[e]]
  /\ UNCHANGED <<renewalsLeft, renewalCancelled>>

(* Mutant of RenewLegacy: the allowance is not checked.                     *)
RenewLegacyUnchecked(e, timers) ==
  /\ terms[e].maxRenewals = Unset
  /\ escrow[e].deadline > escrow[e].createdAt
  /\ Renew(e, Successor(e, now + (escrow[e].deadline - escrow[e].createdAt),
                        IF terms[e].renewalCount = 0
                        THEN 0 ELSE escrow[e].renewalsRemaining - 1, 0), timers)
  /\ renewalsLeft' = [renewalsLeft EXCEPT ![nextId] = renewalsLeft[e] - 1]
  /\ UNCHANGED <<renewalCancelled, chainRoot, history>>

(* The older path panics, and with it the release, when the buyer's         *)
(* allowance of renewals is used up or the term had no duration.            *)
RenewLegacy(e, timers) ==
  /\ terms[e].maxRenewals = Unset
  /\ renewalsLeft[e] > 0
  /\ escrow[e].deadline > escrow[e].createdAt
  /\ Renew(e, Successor(e, now + (escrow[e].deadline - escrow[e].createdAt),
                        IF terms[e].renewalCount = 0
                        THEN 0 ELSE escrow[e].renewalsRemaining - 1, 0), timers)
  /\ renewalsLeft' = [renewalsLeft EXCEPT ![nextId] = renewalsLeft[e] - 1]
  /\ UNCHANGED <<renewalCancelled, chainRoot, history>>

(* No successor: none is due, or the buyer's token allowance no longer      *)
(* covers it, which the AutoRenewConfig path reports and lets pass.         *)
ReleaseOnly(e, timers) ==
  /\ RenewalDue(e) => terms[e].maxRenewals # Unset
  /\ escrow' = Released(e)
  /\ lastBuyerAction' = timers
  /\ UNCHANGED <<nextId, terms, condition, waivers, renewalVars, received>>

SetRenewalAllowance(e, n) ==
  /\ ~paused /\ Exists(e)
  /\ escrow[e].autoRenew
  /\ renewalsLeft' = [renewalsLeft EXCEPT ![e] = n]
  /\ UNCHANGED <<clockVars, escrowVars, releaseVars, renewalCancelled, chainRoot,
                 history, disputeVars, inspectVars, agreeVars, moneyVars>>

CancelAutoRenew(e) ==
  /\ ~paused /\ Exists(e)
  /\ escrow' = [escrow EXCEPT ![e] =
       [escrow[e] EXCEPT !.autoRenew = FALSE, !.renewalsRemaining = 0]]
  /\ renewalsLeft' = [renewalsLeft EXCEPT ![e] = 0]
  /\ UNCHANGED <<clockVars, nextId, terms, receipt, approvals, releaseVars,
                 renewalCancelled, chainRoot, history, disputeVars, inspectVars,
                 agreeVars, moneyVars>>

CancelAutoRenewal(e) ==
  /\ ~paused /\ Exists(e)
  /\ terms[e].maxRenewals # Unset
  /\ renewalCancelled' = [renewalCancelled EXCEPT ![e] = TRUE]
  /\ UNCHANGED <<clockVars, escrowVars, releaseVars, renewalsLeft, chainRoot,
                 history, disputeVars, inspectVars, agreeVars, moneyVars>>

-----------------------------------------------------------------------------
(* Release.                                                                 *)

(* An earlier buyer of a multi-buyer escrow approves; nothing moves until   *)
(* the last of them does.                                                   *)
ApproveMultiBuyerRelease(e, caller) ==
  /\ ~paused
  /\ escrow[e].status \in Open
  /\ caller \in terms[e].buyers \ approvals[e]
  /\ approvals[e] \cup {caller} # terms[e].buyers
  /\ approvals' = [approvals EXCEPT ![e] = @ \cup {caller}]
  /\ UNCHANGED <<clockVars, nextId, escrow, terms, receipt, releaseVars,
                 renewalVars, disputeVars, inspectVars, agreeVars, moneyVars>>

(* The caller may release: the last buyer to approve, or else the buyer or  *)
(* the arbiter of a single-buyer escrow.                                    *)
MayRelease(e, caller) ==
  IF terms[e].buyers # {}
  THEN terms[e].buyers \ approvals[e] = {caller}
  ELSE caller \in {escrow[e].buyer, terms[e].arbiter}

Vetoed(e) == veto[e] # Never /\ now < veto[e] + config.vetoCooldown

ReleaseEscrow(e, caller) ==
  /\ ~paused
  /\ escrow[e].status \in Open
  /\ MayRelease(e, caller)
  /\ ~Vetoed(e)
  /\ Unlocked(e)
  /\ approvals' = [approvals EXCEPT ![e] = IF terms[e].buyers = {} THEN @
                                           ELSE @ \cup {caller}]
  /\ paid' = Pay(e, 0, escrow[e].amount + collateral[e])
  /\ collateral' = [collateral EXCEPT ![e] = 0]
  /\ receipt' = [receipt EXCEPT ![e] = NoAddr]
  /\ \/ ReleaseOnly(e, TouchedBy(e, caller))
     \/ RenewalDue(e) /\ RenewConfigured(e, TouchedBy(e, caller))
     \/ RenewalDue(e) /\ RenewLegacy(e, TouchedBy(e, caller))
  /\ UNCHANGED <<clockVars, veto, disputeVars, inspectVars, agreeVars,
                 accruedFees>>

PartialRelease(e, caller, x) ==
  /\ ~paused
  /\ escrow[e].status \in Open
  /\ caller \in {escrow[e].buyer, terms[e].arbiter}
  /\ Unlocked(e)
  /\ Within(e, x)
  /\ paid' = Pay(e, 0, x)
  /\ escrow' = [escrow EXCEPT ![e] = Holding(e, escrow[e].amount - x,
       IF x = escrow[e].amount THEN "Released" ELSE "PartiallyReleased")]
  /\ UNCHANGED <<clockVars, nextId, terms, receipt, approvals, releaseVars,
                 renewalVars, disputeVars, inspectVars, agreeVars, accruedFees,
                 received>>

(* Mutant of Settle: the new status is not saved.                           *)
SettleUnsaved(e, status, b, s) ==
  /\ paid' = Pay(e, b, s)
  /\ UNCHANGED <<clockVars, nextId, escrow, terms, approvals, releaseVars,
                 renewalVars, inspectVars, accruedFees, received>>

(* The whole amount goes to one side and the escrow ends.                   *)
Settle(e, status, b, s) ==
  /\ escrow' = [escrow EXCEPT ![e].status = status]
  /\ paid' = Pay(e, b, s)
  /\ UNCHANGED <<clockVars, nextId, terms, approvals, releaseVars, renewalVars,
                 inspectVars, accruedFees, received>>

(* Mutant of AutoReleaseExpired: on the deadline already.                   *)
AutoReleaseTooSoon(e) ==
  /\ ~paused
  /\ escrow[e].status \in Open
  /\ now >= escrow[e].deadline
  /\ Unlocked(e)
  /\ Settle(e, "Refunded", escrow[e].amount, 0)
  /\ receipt' = [receipt EXCEPT ![e] = NoAddr]
  /\ UNCHANGED <<disputeVars, agreeVars>>

AutoReleaseExpired(e) ==
  /\ ~paused
  /\ escrow[e].status \in Open
  /\ now > escrow[e].deadline
  /\ Unlocked(e)
  /\ Settle(e, "Refunded", escrow[e].amount, 0)
  /\ receipt' = [receipt EXCEPT ![e] = NoAddr]
  /\ UNCHANGED <<disputeVars, agreeVars>>

ClaimInactivityRelease(e) ==
  /\ ~paused
  /\ terms[e].inactivity > 0
  /\ escrow[e].status \in Open
  /\ now - (IF lastBuyerAction[e] = Never THEN escrow[e].createdAt
            ELSE lastBuyerAction[e]) >= terms[e].inactivity
  /\ Settle(e, "Released", 0, escrow[e].amount)
  /\ UNCHANGED <<receipt, disputeVars, agreeVars>>

(* Anyone, once the oracle's price meets the condition; which price it      *)
(* reports, and when, is the oracle's choice.                               *)
CheckAndReleaseEscrow(e) ==
  /\ ~paused
  /\ escrow[e].status \in Open
  /\ terms[e].oracle
  /\ Settle(e, "Released", 0, escrow[e].amount)
  /\ UNCHANGED <<receipt, disputeVars, agreeVars>>

-----------------------------------------------------------------------------
(* Release conditions, receipts and metadata.                               *)

SetConditionalRelease(e) ==
  /\ ~paused
  /\ escrow[e].status = "Active"
  /\ condition' = [condition EXCEPT ![e] = TRUE]
  /\ UNCHANGED <<clockVars, escrowVars, collateral, lastBuyerAction, veto, waivers,
                 renewalVars, disputeVars, inspectVars, agreeVars, moneyVars>>

(* The oracle's condition holds, and the caller may release.                *)
TriggerConditionalRelease(e, caller) == condition[e] /\ ReleaseEscrow(e, caller)

WaiveReleaseCondition(e, caller) ==
  /\ ~paused
  /\ caller \in Party(e)
  /\ condition[e]
  /\ LET signed == waivers[e] \cup {IF caller = escrow[e].buyer THEN "buyer" ELSE "seller"}
         both   == signed = {"buyer", "seller"}
     IN  /\ condition' = [condition EXCEPT ![e] = ~both]
         /\ waivers' = [waivers EXCEPT ![e] = IF both THEN {} ELSE signed]
  /\ UNCHANGED <<clockVars, escrowVars, collateral, lastBuyerAction, veto, renewalVars,
                 disputeVars, inspectVars, agreeVars, moneyVars>>

TransferEscrowReceipt(e, holder) ==
  /\ ~paused
  /\ receipt[e] # NoAddr
  /\ receipt' = [receipt EXCEPT ![e] = holder]
  /\ UNCHANGED <<clockVars, nextId, escrow, terms, approvals, releaseVars,
                 renewalVars, disputeVars, inspectVars, agreeVars, moneyVars>>

(* Only the buyer's activity matters of a metadata update.                  *)
UpdateMetadata(e, caller) ==
  /\ Exists(e)
  /\ caller \in Party(e)
  /\ lastBuyerAction' = TouchedBy(e, caller)
  /\ UNCHANGED <<clockVars, escrowVars, collateral, veto, condition, waivers,
                 renewalVars, disputeVars, inspectVars, agreeVars, moneyVars>>

=============================================================================
