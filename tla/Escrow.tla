-------------------------------- MODULE Escrow --------------------------------
(***************************************************************************)
(* The ahjoor-escrow contract: any account calls any modelled entry point  *)
(* at any time, in any order.  The next-state relation is given by group   *)
(* of entry points, so that a run may exercise some groups in depth.       *)
(* The entry points of EscrowRequests, EscrowMilestones, EscrowSchedules,  *)
(* EscrowApprovals and EscrowBounties join them in EscrowWhole.            *)
(***************************************************************************)
EXTENDS EscrowNegotiation

Created == 0 .. nextId - 1

Creation(r) ==
  \/ CreateEscrow(r) \/ CreateEscrowWithInspector(r)
  \/ CreateMultiSellerEscrow(r) \/ CreateMultiBuyerEscrow(r)

CreationNext == \E r \in Requests : Creation(r)

ReleaseNext ==
  \E e \in Created :
    \/ DepositCollateral(e)
    \/ \E caller \in Addr : ApproveMultiBuyerRelease(e, caller)
    \/ \E caller \in Addr : ReleaseEscrow(e, caller)
    \/ \E caller \in Addr, x \in Amounts : PartialRelease(e, caller, x)
    \/ AutoReleaseExpired(e)
    \/ ClaimInactivityRelease(e)
    \/ CheckAndReleaseEscrow(e)

RenewalNext ==
  \E e \in Created :
    \/ \E n \in 0 .. MaxEscrows : SetRenewalAllowance(e, n)
    \/ CancelAutoRenew(e)
    \/ CancelAutoRenewal(e)

ConditionNext ==
  \E e \in Created :
    \/ SetConditionalRelease(e)
    \/ \E caller \in Addr : TriggerConditionalRelease(e, caller)
    \/ \E caller \in Addr : WaiveReleaseCondition(e, caller)
    \/ \E holder \in Addr : TransferEscrowReceipt(e, holder)
    \/ \E caller \in Addr : UpdateMetadata(e, caller)

DisputeNext ==
  \E e \in Created :
    \/ \E caller \in Addr, x \in Amounts : DisputeEscrow(e, caller, x)
    \/ \E percent \in Percents : ResolveDispute(e, percent)
    \/ \E percent \in Percents : RecordVerdict(e, percent)
    \/ \E caller \in Addr : FlagResolutionError(e, caller)
    \/ FinalizeResolution(e)
    \/ ClearResolutionFlag(e)
    \/ EnforceDisputeTimeout(e)

CancellationNext ==
  \E e \in Created :
    \/ \E caller \in Addr : RequestCancellation(e, caller)
    \/ \E caller \in Addr : AcceptCancellation(e, caller)
    \/ \E caller \in Addr : RejectCancellation(e, caller)
    \/ AcceptExpiredCancellation(e)
    \/ ExpireCancellation(e)

AmendmentNext ==
  \E e \in Created :
    \/ \E caller \in Addr, d \in Times : ProposeDeadlineExtension(e, caller, d)
    \/ \E caller \in Addr : AcceptDeadlineExtension(e, caller)
    \/ \E caller \in Addr, x \in Amounts \cup {Unset}, d \in Times \cup {Unset} :
         ProposeAmendment(e, caller, x, d)
    \/ \E caller \in Addr, n \in 0 .. MaxRounds : SignAmendment(e, caller, n)
    \/ \E n \in 0 .. MaxRounds : ApplyAmendment(e, n)
    \/ \E x \in Amounts : TopUpEscrow(e, x)
    \/ AcknowledgeTopup(e)

VetoNext ==
  \/ \E e \in Created : RaiseSellerVeto(e) \/ AdminOverrideVeto(e)
  \/ \E seconds \in Times : SetVetoCooldownSeconds(seconds)

PartyNext ==
  \E e \in Created :
    \/ \E newBuyer \in Addr : TransferBuyerRole(e, newBuyer)
    \/ \E newSeller \in Addr : TransferSellerRole(e, newSeller)
    \/ ApproveSellerTransfer(e)
    \/ ExpireSellerTransferVeto(e)
    \/ VetoSellerTransfer(e)

InspectionNext ==
  \E e \in Created :
    \/ SellerMarkComplete(e)
    \/ \E approved \in BOOLEAN : SubmitInspectionReport(e, approved)
    \/ \E caller, insp \in Addr : ReplaceInspector(e, caller, insp)
    \/ AppealInspectorRuling(e)

AdminNext ==
  \/ \E seconds \in Times : SetResolutionCooloff(seconds)
  \/ \E seconds \in Times : UpdateDefaultDisputeTimeout(seconds)
  \/ \E winner \in Winner : SetDefaultDisputeWinner(winner)
  \/ \E x \in Amounts : WithdrawFees(x)
  \/ PauseContract \/ ResumeContract

Next ==
  \/ Tick \/ CreationNext \/ ReleaseNext \/ RenewalNext \/ ConditionNext
  \/ DisputeNext \/ CancellationNext \/ AmendmentNext \/ VetoNext \/ PartyNext
  \/ InspectionNext \/ AdminNext

Spec == InitBase /\ [][Next]_vars

-----------------------------------------------------------------------------
(* Every key holds a value its handlers write.                              *)

PaidRecord == [buyer: Int, seller: Int, arbiter: Int, fee: Int, penalty: Int]
Signed == SUBSET {"buyer", "seller"}

ClockType == now \in 0 .. MaxTime /\ paused \in BOOLEAN /\ config \in Config

EscrowType ==
  /\ nextId \in 0 .. MaxEscrows
  /\ escrow \in [Ids -> EscrowRecord]
  /\ terms \in [Ids -> Terms]
  /\ receipt \in [Ids -> Addr \cup {NoAddr}]
  /\ approvals \in [Ids -> SUBSET Addr]

ReleaseType ==
  /\ collateral \in [Ids -> Nat]
  /\ lastBuyerAction \in [Ids -> Int]
  /\ veto \in [Ids -> Int]
  /\ condition \in [Ids -> BOOLEAN]
  /\ waivers \in [Ids -> Signed]

RenewalType ==
  /\ renewalsLeft \in [Ids -> Nat]
  /\ renewalCancelled \in [Ids -> BOOLEAN]
  /\ chainRoot \in [Ids -> Ids]
  /\ history \in [Ids -> Seq(Ids)]

DisputeRecord == [state: {"None", "Open", "Resolved"}, createdAt: Nat, amount: Int]

DisputeType ==
  /\ dispute \in [Ids -> DisputeRecord]
  /\ disputeStart \in [Ids -> Int]
  /\ verdict \in [Ids -> [percent: Int, recordedAt: Nat]]
  /\ flagged \in [Ids -> BOOLEAN]
  /\ arbiterTimeouts \in [Addr -> Nat]

InspectType ==
  /\ inspectorScore \in [Addr -> [total: Nat, correct: Nat]]
  /\ inspectorVote \in [Ids -> [inspector: Addr \cup {NoAddr}, signed: Signed]]
  /\ appealed \in [Ids -> BOOLEAN]

Amendment ==
  [nonce: Int, proposer: Addr \cup {NoAddr}, amount: Int, deadline: Int,
   expiresAt: Nat, signed: Signed]

AgreeType ==
  /\ cancellation \in [Ids -> [initiator: Addr \cup {NoAddr}, expiresAt: Nat]]
  /\ extension \in [Ids -> [proposer: Addr \cup {NoAddr}, deadline: Nat,
                            proposedAt: Nat]]
  /\ amendment \in [Ids -> Amendment]
  /\ nonce \in [Ids -> Nat]
  /\ transfer \in [Ids -> [newSeller: Addr \cup {NoAddr}, vetoDeadline: Nat]]

MoneyType ==
  /\ accruedFees \in Int
  /\ received \in [Ids -> Int]
  /\ paid \in [Ids -> PaidRecord]

TypeOK ==
  /\ ClockType /\ EscrowType /\ ReleaseType /\ RenewalType
  /\ DisputeType /\ InspectType /\ AgreeType /\ MoneyType

-----------------------------------------------------------------------------
(* What the contract promises, as invariants.                               *)

Frozen == InDispute \cup {"CoolingOff"}

TotalPaid(e) ==
  paid[e].buyer + paid[e].seller + paid[e].arbiter + paid[e].fee + paid[e].penalty

(* What the contract still owes the parties of e: the amount of an escrow   *)
(* that has not ended, and the seller's collateral.                         *)
Owed(e) ==
  (IF escrow[e].status \in Live THEN escrow[e].amount ELSE 0) + collateral[e]

(* Every escrow is backed by its own deposits: what came in for it and has  *)
(* not been paid out is exactly what the contract still owes its parties,   *)
(* so no escrow is ever paid from another one's tokens, whatever order of   *)
(* partial releases, disputes, amendments, top-ups, renewals and verdicts   *)
(* led here.                                                                *)
Backed == \A e \in Ids : received[e] - TotalPaid(e) = Owed(e)

(* An escrow that has not ended still holds a positive amount, and no       *)
(* recipient was ever paid a negative one: a release, a refund and a        *)
(* verdict always have something to move, and fees never exceed it.         *)
NothingNegative ==
  \A e \in Ids :
    /\ escrow[e].status \in Live => escrow[e].amount > 0
    /\ \A side \in DOMAIN paid[e] : paid[e][side] >= 0

(* An escrow waiting for somebody has the record its ways out read: a       *)
(* dispute its open record and its start, a cooling-off verdict, a pending  *)
(* cancellation whose initiator is still a party, a proposed transfer, an   *)
(* inspector.  Without it every exit panics and the escrow is stuck.        *)
WaitingIsRecorded ==
  \A e \in Ids :
    /\ escrow[e].status \in InDispute =>
         dispute[e].state = "Open" /\ disputeStart[e] # Never
    /\ escrow[e].status = "CoolingOff" <=> verdict[e] # NoVerdict
    /\ dispute[e].state = "Open" => escrow[e].status \in Frozen
    /\ escrow[e].status = "CancellationPending" =>
         cancellation[e] # NoRequest /\ cancellation[e].initiator \in Party(e)
    /\ cancellation[e] # NoRequest => escrow[e].status = "CancellationPending"
    /\ escrow[e].status = "AwaitingBuyerVetoDecision" => transfer[e] # NoTransfer
    /\ escrow[e].status = "AwaitingInspection" => escrow[e].inspector # NoAddr

(* A renewal chain never outgrows the cycles its creation allowed, and its  *)
(* history lists the successors in the order they were created: the next    *)
(* renewal starts from the last escrow of the chain only.                   *)
RenewalChainBounded ==
  \A r \in Ids :
    /\ history[r] # <<>> => Len(history[r]) <= terms[r].maxRenewals
    /\ \A i \in 1 .. Len(history[r]) :
         /\ escrow[history[r][i]].renewalsCompleted = i
         /\ chainRoot[history[r][i]] = r
         /\ i < Len(history[r]) => escrow[history[r][i]].status \in Terminal

(* Over its whole life an escrow pays the arbiter and the protocol within   *)
(* their caps, 10% and 2% of all that was paid in: no order of partial      *)
(* releases, disputes and settings lets a verdict be charged for twice.     *)
FeesCapped ==
  \A e \in Ids :
    /\ paid[e].arbiter * 10 <= received[e]
    /\ paid[e].fee * 50 <= received[e]

-----------------------------------------------------------------------------
(* What a step may never do.                                                *)

(* An escrow that has ended stays ended: no later call pays anything out of *)
(* it, takes anything in for it, or gives it another status.                *)
TerminalIsFinal ==
  [][\A e \in Ids : escrow[e].status \in Terminal =>
       /\ escrow'[e].status = escrow[e].status
       /\ paid'[e] = paid[e] /\ received'[e] = received[e]]_vars

(* A dispute freezes the escrow (readMe.md, Dispute & Arbitration): until   *)
(* it is resolved, tokens leave it only by an amendment both parties have   *)
(* signed, and it never becomes open again.                                 *)
DisputeFreezes ==
  [][\A e \in Ids : escrow[e].status \in Frozen =>
       /\ escrow'[e].status \in Frozen \/
          (escrow'[e].status \in Terminal /\ dispute'[e].state = "Resolved")
       /\ paid'[e] # paid[e] /\ escrow'[e].status \in Frozen =>
            amendment[e] # NoAmendment /\ amendment'[e] = NoAmendment]_vars

(* A verdict under a cooling-off window is carried out as recorded, after   *)
(* the window, and not while a flag is up.                                  *)
VerdictCoolsOff ==
  [][\A e \in Ids :
       escrow[e].status = "CoolingOff" /\ escrow'[e].status # "CoolingOff" =>
         /\ now > CoolingOffUntil(e)
         /\ ~flagged[e] /\ ~paused
         /\ escrow'[e].status = VerdictStatus(verdict[e].percent)]_vars

(* Buyers get tokens back only on grounds the seller could foresee: a       *)
(* ruling or a timeout of a dispute, a cancellation accepted in its window, *)
(* an expired deadline, an amendment the seller signed, or the seller's own *)
(* request to hand the escrow over.  No call of the buyers alone, in any    *)
(* order, refunds them earlier.                                             *)
RefundHasGrounds ==
  [][\A e \in Ids : paid'[e].buyer > paid[e].buyer =>
       \/ escrow[e].status \in Frozen /\ dispute'[e].state = "Resolved"
       \/ /\ escrow[e].status = "CancellationPending"
          /\ now <= cancellation[e].expiresAt
       \/ escrow[e].status \in Open /\ now > escrow[e].deadline
       \/ amendment[e] # NoAmendment /\ amendment'[e] = NoAmendment
       \/ escrow[e].status = "AwaitingBuyerVetoDecision"]_vars

(* While an escrow waits for its collateral, a cancellation's answer, a     *)
(* veto decision or its inspection, or has failed it, the seller is paid    *)
(* nothing.                                                                 *)
SellerWaits ==
  [][\A e \in Ids : paid'[e].seller > paid[e].seller =>
       escrow[e].status \notin {"AwaitingCollateral", "CancellationPending",
                               "AwaitingBuyerVetoDecision", "AwaitingInspection",
                               "InspectionFailed"}]_vars

(* An amendment is carried out once: the amount of an escrow changes by a   *)
(* proposal only (outside the open and inspected states a top-up or a       *)
(* release needs), and that proposal is gone after it.                      *)
AmendedOnce ==
  [][\A e \in Ids :
       /\ escrow'[e].status = escrow[e].status
       /\ escrow[e].status \in Live \ (Open \cup {"AwaitingInspection"})
       /\ escrow'[e].amount # escrow[e].amount
       => /\ escrow'[e].amount = amendment[e].amount
          /\ amendment'[e] = NoAmendment /\ nonce[e] > amendment[e].nonce]_vars

-----------------------------------------------------------------------------
(* The contract implements the custody of EscrowCustody.                    *)

Phase(e) ==
  CASE escrow[e].status = "None" -> "unborn"
    [] escrow[e].status \in Terminal -> "ended"
    [] escrow[e].status \in Frozen -> "frozen"
    [] OTHER -> "open"

Phases == [e \in Ids |-> Phase(e)]
Purses == [e \in Ids |-> received[e] - TotalPaid(e)]

Custody == INSTANCE EscrowCustody WITH
  Purse <- Ids, phase <- Phases, held <- Purses

(* Every entry point is a move of one purse, or of a purse and the one that *)
(* succeeds it, that EscrowCustody allows.                                  *)
ImplementsCustody == Custody!CustodySpec

-----------------------------------------------------------------------------
(* Promises of comments that the code does not keep.                        *)

(* "Admin overrides an active seller veto, allowing fund release to         *)
(* proceed" (lib.rs, admin_override_veto): once the admin has overridden an *)
(* active veto, the release is no longer blocked.                           *)
OverrideLiftsVeto ==
  [][\A e \in Ids : AdminOverrideVeto(e) /\ Vetoed(e) => ~Vetoed(e)']_vars

=============================================================================
