------------------------------- MODULE MCEscrow -------------------------------
(***************************************************************************)
(* Instances of Escrow for TLC.  A behaviour has a focus: the request its   *)
(* first escrow is created from and the groups of entry points called on    *)
(* it.  A run explores several foci; amounts are around 100 so that the     *)
(* basis points of fees and splits do not vanish.                           *)
(***************************************************************************)
EXTENDS EscrowWhole, TLC

CONSTANTS
  buyer, seller, arbiter, other,
  Foci              \* the foci of the run

VARIABLE focus      \* chosen once

MCAddr == {buyer, seller, arbiter, other}

Plain ==
  [buyer |-> buyer, buyers |-> {}, seller |-> seller, arbiter |-> arbiter,
   amount |-> 100, deadline |-> 2, lockUntil |-> 0, inactivity |-> 0,
   disputeTimeout |-> 0, defaultWinner |-> "Default", arbiterFee |-> Unset,
   collateralBps |-> 0, forfeitBps |-> 0, collateralWindow |-> 0,
   inspector |-> NoAddr, autoRenew |-> FALSE, renewalCount |-> 0,
   maxRenewals |-> Unset, interval |-> 0, carryOver |-> FALSE,
   oracle |-> FALSE]

Locked      == [Plain EXCEPT !.lockUntil = 1, !.inactivity = 1]
OwnTerms    == [Plain EXCEPT !.disputeTimeout = 1, !.defaultWinner = "Buyer",
                             !.arbiterFee = 1000]
Secured     == [Plain EXCEPT !.collateralBps = 2000, !.forfeitBps = 5000,
                             !.collateralWindow = 1]
Pooled      == [Plain EXCEPT !.buyers = {buyer, other}]
Priced      == [Plain EXCEPT !.oracle = TRUE]
Inspected   == [Plain EXCEPT !.inspector = other]
RenewOnce   == [Plain EXCEPT !.autoRenew = TRUE, !.renewalCount = 1]
RenewAlways == [Plain EXCEPT !.autoRenew = TRUE, !.inactivity = 2]
RenewSet    == [Plain EXCEPT !.autoRenew = TRUE, !.maxRenewals = 1,
                             !.interval = 1, !.carryOver = TRUE]
Odd         == [Plain EXCEPT !.amount = 101]
Locking     == [Plain EXCEPT !.lockUntil = 1]
Short       == [Plain EXCEPT !.deadline = 1]
OneParty    == [Plain EXCEPT !.seller = buyer]

RequestsOf ==
  [disputes      |-> {OwnTerms, Secured, Locked},
   releases      |-> {Locked, Pooled, Priced, Secured},
   cancellations |-> {Plain, Secured, Inspected},
   renewals      |-> {RenewOnce, RenewAlways, RenewSet},
   amendments    |-> {Plain, OneParty},
   parties       |-> {Plain, Inspected},
   deadlines     |-> {Plain, OwnTerms},
   requests      |-> {Plain},
   answers       |-> {Plain},
   milestones    |-> {Plain},
   stages        |-> {Odd},
   schedules     |-> {Short},
   timelocks     |-> {Locking},
   options       |-> {Secured},
   bounties      |-> {Plain}]

AllRequests == UNION {RequestsOf[f] : f \in DOMAIN RequestsOf}

Settings ==
  [cooloff |-> 1, timeout |-> 2, winner |-> "Seller", arbiterFee |-> 200,
   protocolFee |-> 100, penalty |-> 500, cancelWindow |-> 1,
   feeRecipient |-> TRUE, vetoCooldown |-> 2, amendmentExpiry |-> 1,
   extensionWindow |-> 1, topUpMultiplier |-> 2, transferWindow |-> 1,
   scoreThreshold |-> 0, minScore |-> 0]

MoneyFoci == {"disputes", "releases", "cancellations", "amendments"}
TermsFoci == {"renewals", "amendments", "parties"}
PartsFoci == {"requests", "milestones", "stages", "schedules", "timelocks",
              "options", "bounties"}
LiveFoci  == {"deadlines", "answers"}
ReleaseFocus == {"releases"}
BountyFocus  == {"bounties"}
RequestFocus == {"requests"}
StageFocus   == {"stages"}
AnswerFocus  == {"answers"}
Parts   == {40, 100}
Changes == {0, 40, 120}
Soon    == {0, 1}
Later   == {1, 3}
Verdicts == {0, 30, 100}
Split    == {30}
Halves   == {<<40, 60>>}
Uneven   == {<<3333, 6667>>}
Thirds   == {<<[unlockAt |-> 1, amount |-> 30], [unlockAt |-> 1, amount |-> 30],
               [unlockAt |-> 2, amount |-> 40]>>}
Minimum == {5000}
Approving == {<<buyer, other>>, <<other, other>>}
Staged  == {<<[amount |-> 40, verifier |-> other], [amount |-> 60, verifier |-> other]>>}

-----------------------------------------------------------------------------

MCVars == <<allVars, focus>>
extraVars == <<claimVars, optionVars, bountyVars>>

(* Escrows that are to share the contract's tokens with another one.        *)
Sharing == {"requests", "schedules"}

(* One escrow is created and the others are its successors, unless two      *)
(* escrows are to share the contract's tokens; beside bounties any number.  *)
FirstEscrow ==
  /\ focus \notin {"milestones", "stages", "timelocks"}
  /\ nextId = 0 \/ focus = "bounties" \/ (focus \in Sharing /\ nextId < 2)
  /\ \E r \in RequestsOf[focus] : Creation(r)

(* The foci that never touch requests and milestones.                       *)
PlainNext ==
  \/ focus = "disputes" /\ (ReleaseNext \/ DisputeNext \/ AdminNext)
  \/ focus = "releases" /\ (ReleaseNext \/ ConditionNext \/ VetoNext)
  \/ focus = "cancellations" /\
       (CancellationNext \/ ReleaseNext \/ DisputeNext \/ InspectionNext)
  \/ focus = "renewals" /\ (ReleaseNext \/ RenewalNext)
  \/ focus = "amendments" /\
       \/ AmendmentNext
       \/ \E e \in Created :
            \/ \E caller \in Addr, x \in Amounts : DisputeEscrow(e, caller, x)
            \/ RecordVerdict(e, 30) \/ FinalizeResolution(e)
  \/ focus = "parties" /\ (PartyNext \/ InspectionNext \/ CancellationNext)
  \/ focus = "deadlines" /\
       \/ DisputeNext \/ CancellationNext \/ PartyNext
       \/ \E e \in Created, caller \in Addr : ReleaseEscrow(e, caller)

(* What is called beside requests, milestones and the other parts.          *)
BesideNext ==
  \/ focus = "requests" /\ (ReleaseNext \/ DisputeNext \/ CancellationNext)
  \/ focus = "answers" /\
       \E e \in Created :
         EnforceDisputeTimeout(e) \/ TransferEscrowReceipt(e, other)
  \/ focus = "milestones" /\ DisputeNext
  \/ focus \in {"schedules", "timelocks", "options"} /\ (ReleaseNext \/ DisputeNext)
  \/ focus = "bounties" /\
       \E e \in Bounties :
         \/ ProposeAmendment(e, buyer, 40, Unset)
         \/ \E caller \in Addr : SignAmendment(e, caller, 0)

PlannedNext ==
  \/ \E r \in RequestsOf[focus] :
       /\ nextId < 2
       /\ \/ focus = "milestones" /\ \E list \in Schedules : CreateMilestoneEscrow(r, list)
          \/ focus = "stages" /\ \E list \in Shares : CreateBpsMilestoneEscrow(r, list)
  \/ MilestoneStep

TimedNext ==
  \/ \E r \in RequestsOf[focus] :
       /\ nextId < 2
       /\ \/ focus = "schedules" /\ \E list \in Tranches : CreateEscrowWithSchedule(r, list)
          \/ focus = "timelocks" /\ CreateTimelockedEscrow(r)
  \/ ClaimStep

OfferedNext ==
  \/ focus = "bounties" /\ Bounties = {} /\
       \/ CreateBounty(buyer, 100, 1, 2)
       \/ \E plan \in Plans : CreateMilestoneBounty(buyer, plan, 1, 2)
  \/ BountyStep

PartsNext ==
  /\ \/ BesideNext /\ UNCHANGED <<requestVars, planVars, extraVars>>
     \/ focus \in {"requests", "answers"} /\ RequestNext
        /\ UNCHANGED <<planVars, extraVars>>
     \/ PlannedNext /\ UNCHANGED <<requestVars, extraVars>>
     \/ TimedNext /\ UNCHANGED <<requestVars, planVars, optionVars, bountyVars>>
     \/ focus = "options" /\ ApprovalNext
        /\ UNCHANGED <<requestVars, planVars, claimVars, bountyVars>>
     \/ OfferedNext /\ UNCHANGED <<requestVars, planVars, claimVars, optionVars>>
  /\ TokenAllows /\ ReceiptStays

(* Bound: with two escrows or many calls, fewer steps of the clock.         *)
LastTick ==
  CASE focus \in {"requests", "milestones", "stages"} -> 1
    [] focus = "schedules" -> 2
    [] OTHER -> MaxTime

MCNext ==
  /\ \/ ((Tick /\ now < LastTick) \/ FirstEscrow \/ PlainNext)
        /\ UNCHANGED <<requestVars, planVars, extraVars>>
     \/ PartsNext
  /\ UNCHANGED focus

MCInit == BountiesInit /\ focus \in Foci

MCSpec == MCInit /\ [][MCNext]_MCVars

-----------------------------------------------------------------------------
(* Liveness.  Time passes, and what anyone may call once a deadline is over *)
(* is called by somebody who wants the tokens back.  Nothing is assumed of  *)
(* the buyer, the arbiter or the admin, and of the seller only that an      *)
(* unanswered request is escalated.                                         *)

Kept == <<requestVars, planVars, extraVars, focus>>

LiveSpec ==
  /\ MCSpec
  /\ WF_MCVars(Tick /\ UNCHANGED Kept)
  /\ \A e \in Ids :
       /\ WF_MCVars(EnforceDisputeTimeout(e) /\ UNCHANGED Kept)
       /\ WF_MCVars(FinalizeResolution(e) /\ UNCHANGED Kept)
       /\ WF_MCVars(ExpireCancellation(e) /\ UNCHANGED Kept)
       /\ WF_MCVars(ExpireSellerTransferVeto(e) /\ UNCHANGED Kept)
       /\ WF_MCVars(EscalatePartialRelease(e) /\ UNCHANGED <<planVars, extraVars, focus>>)

(* An unresponsive arbiter cannot lock the tokens: a dispute ends once its  *)
(* timeout is over (as far as the bounded clock reaches), if its start was  *)
(* recorded.                                                                *)
DisputeEnds ==
  \A e \in Ids :
    escrow[e].status \in InDispute /\ disputeStart[e] # Never
      /\ disputeStart[e] + EffectiveTimeout(e) <= MaxTime
      ~> escrow[e].status \notin InDispute

(* A recorded verdict is carried out after its window, unless a party flags *)
(* it.                                                                      *)
VerdictCarriedOut ==
  \A e \in Ids :
    escrow[e].status = "CoolingOff"
      /\ verdict[e].recordedAt + config.cooloff < MaxTime
      ~> escrow[e].status \in Terminal \/ flagged[e]

(* A cancellation nobody answers does not hold the escrow for ever.         *)
CancellationEnds ==
  \A e \in Ids :
    escrow[e].status = "CancellationPending"
      /\ cancellation[e].expiresAt < MaxTime
      ~> escrow[e].status # "CancellationPending"

(* Nor does a transfer of the seller's role the buyer never decides on.     *)
SellerTransferEnds ==
  \A e \in Ids :
    escrow[e].status = "AwaitingBuyerVetoDecision"
      /\ transfer[e].vetoDeadline < MaxTime
      ~> escrow[e].status # "AwaitingBuyerVetoDecision"

(* A request does not stay pending for ever: past its response window it    *)
(* is answered, or the seller makes it a dispute.                           *)
RequestAnswered ==
  \A e \in Ids : request[e] # NoPartial /\ request[e].deadline <= MaxTime
    ~> request[e] = NoPartial

(* "After the configured timeout (default 7 days), anyone can call          *)
(* `enforce_dispute_timeout(escrow_id)` to release funds to the             *)
(* pre-configured default winner." (readMe.md): a dispute ends even when    *)
(* the arbiter never rules.                                                 *)
EscalationEnds ==
  \A e \in Ids : dispute[e].state = "Open" /\ dispute[e].createdAt + config.timeout <= MaxTime
    ~> dispute[e].state = "Resolved"

=============================================================================
