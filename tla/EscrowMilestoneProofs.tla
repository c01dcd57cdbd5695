------------------------- MODULE EscrowMilestoneProofs -------------------------
(***************************************************************************)
(* Milestones and stages, for every value of the constants: as long as     *)
(* they alone move the tokens of an escrow that has them, what it has paid *)
(* is the sum of its approved milestones, and stages leave nothing behind. *)
(***************************************************************************)
EXTENDS EscrowRecordProofs, EscrowMilestones, SumFacts, SequenceTheorems

(* A dispute is on file of a frozen escrow and of an ended one only.        *)
Disputed(e) ==
  dispute[e].state # "None" => escrow[e].status \in Frozen \cup Terminal

(* What the plain entry points keep of every escrow, with or without        *)
(* milestones.                                                              *)
BaseInv ==
  /\ TypeOK /\ Records /\ Funds /\ NothingNegative /\ Files
  /\ \A e \in Ids : Disputed(e)

(* A milestone is pending until it is approved; a stage is submitted first, *)
(* and may be rejected and submitted again.                                 *)
Milestone == [amount: Nat \ {0}, status: {"Pending", "Approved"}]
Stage == [bps: Nat, status: {"Pending", "Submitted", "Rejected", "Approved"}]

PlanType == milestones \in [Ids -> Seq(Milestone)] /\ stages \in [Ids -> Seq(Stage)]

(* Undisputed, the milestones were paid in and the approved ones paid out;  *)
(* the escrow ends with the last of them.                                   *)
MilestoneBook(e) ==
  milestones[e] # <<>> /\ dispute[e].state = "None" =>
    /\ received[e] = SumOf(Worths(milestones[e]), DOMAIN milestones[e])
    /\ paid[e].seller = SumOf(Worths(milestones[e]), Approved(milestones[e]))
    /\ escrow[e].status = "Released" =>
         Approved(milestones[e]) = DOMAIN milestones[e]

(* The shares of the stages.                                                *)
ShareList(e) == [j \in DOMAIN stages[e] |-> StageShare(e, j)]

(* Undisputed, the approved stages were paid their shares, and all of the   *)
(* deposit once the last of the list is among them.                         *)
StagePaid(e) ==
  /\ escrow[e].amount = received[e]
  /\ IF Len(stages[e]) \in Approved(stages[e])
     THEN paid[e].seller >= received[e]
     ELSE paid[e].seller >= SumOf(ShareList(e), Approved(stages[e]))

StageBook(e) ==
  stages[e] # <<>> =>
    IF Approved(stages[e]) = DOMAIN stages[e]
    THEN escrow[e].status \in Terminal /\ paid[e].seller >= received[e]
    ELSE dispute[e].state = "None" => StagePaid(e)

PlanBooks ==
  \A e \in Ids :
    /\ milestones[e] = <<>> \/ stages[e] = <<>>
    /\ e >= nextId => milestones[e] = <<>> /\ stages[e] = <<>>
    /\ MilestoneBook(e) /\ StageBook(e)

PlanInv == BaseInv /\ PlanType /\ PlanBooks

-----------------------------------------------------------------------------
(* The plain entry points keep what does not concern the milestones.        *)

LEMMA QuietDispute ==
  ASSUME Next, ~DisputeNext
  PROVE  dispute' = dispute
<1>1. CASE Tick
  BY <1>1, Zenon DEF Tick, disputeVars
<1>2. CASE CreationNext
  <2>1. \A r : CreateEscrow(r) => dispute' = dispute
    BY Zenon DEF CreateEscrow, CreateCore, Store, disputeVars
  <2>2. \A r : CreateEscrowWithInspector(r) => dispute' = dispute
    BY Zenon DEF CreateEscrowWithInspector, CreateCore, Store, disputeVars
  <2>3. \A r : CreateMultiSellerEscrow(r) => dispute' = dispute
    BY Zenon DEF CreateMultiSellerEscrow, CreateCore, Store, disputeVars
  <2>4. \A r : CreateMultiBuyerEscrow(r) => dispute' = dispute
    BY Zenon DEF CreateMultiBuyerEscrow, Store, disputeVars
  <2>. QED
    BY <1>2, <2>1, <2>2, <2>3, <2>4, Zenon DEF CreationNext, Creation
<1>3. CASE AdminNext
  BY <1>3, Zenon DEF AdminNext, SetResolutionCooloff, UpdateDefaultDisputeTimeout,
     SetDefaultDisputeWinner, ConfigSet, WithdrawFees, PauseContract, ResumeContract, disputeVars
<1>4. CASE VetoNext
  BY <1>4, Zenon DEF VetoNext, RaiseSellerVeto, AdminOverrideVeto, SetVetoCooldownSeconds, StampVeto,
     ConfigSet, disputeVars
<1>5. CASE ReleaseNext
  <2>1. \A e : DepositCollateral(e) => dispute' = dispute
    BY Zenon DEF DepositCollateral, disputeVars
  <2>2. \A e, c : ApproveMultiBuyerRelease(e, c) => dispute' = dispute
    BY Zenon DEF ApproveMultiBuyerRelease, disputeVars
  <2>3. \A e, c : ReleaseEscrow(e, c) => dispute' = dispute
    BY Zenon DEF ReleaseEscrow, disputeVars
  <2>4. \A e, c, x : PartialRelease(e, c, x) => dispute' = dispute
    BY Zenon DEF PartialRelease, disputeVars
  <2>5. \A e : AutoReleaseExpired(e) => dispute' = dispute
    BY Zenon DEF AutoReleaseExpired, disputeVars
  <2>6. \A e : ClaimInactivityRelease(e) => dispute' = dispute
    BY Zenon DEF ClaimInactivityRelease, disputeVars
  <2>7. \A e : CheckAndReleaseEscrow(e) => dispute' = dispute
    BY Zenon DEF CheckAndReleaseEscrow, disputeVars
  <2>. QED
    BY <1>5, <2>1, <2>2, <2>3, <2>4, <2>5, <2>6, <2>7, Zenon DEF ReleaseNext
<1>6. CASE RenewalNext
  BY <1>6, Zenon DEF RenewalNext, SetRenewalAllowance, CancelAutoRenew, CancelAutoRenewal, disputeVars
<1>7. CASE ConditionNext
  <2>1. \A e : SetConditionalRelease(e) => dispute' = dispute
    BY Zenon DEF SetConditionalRelease, disputeVars
  <2>2. \A e, c : TriggerConditionalRelease(e, c) => dispute' = dispute
    BY Zenon DEF TriggerConditionalRelease, ReleaseEscrow, disputeVars
  <2>3. \A e, c : WaiveReleaseCondition(e, c) => dispute' = dispute
    BY Zenon DEF WaiveReleaseCondition, disputeVars
  <2>4. \A e, c : TransferEscrowReceipt(e, c) => dispute' = dispute
    BY Zenon DEF TransferEscrowReceipt, disputeVars
  <2>5. \A e, c : UpdateMetadata(e, c) => dispute' = dispute
    BY Zenon DEF UpdateMetadata, disputeVars
  <2>. QED
    BY <1>7, <2>1, <2>2, <2>3, <2>4, <2>5, Zenon DEF ConditionNext
<1>8. CASE CancellationNext
  <2>1. \A e, c : RequestCancellation(e, c) => dispute' = dispute
    BY Zenon DEF RequestCancellation, Rewrite, disputeVars
  <2>2. \A e, c : AcceptCancellation(e, c) => dispute' = dispute
    BY Zenon DEF AcceptCancellation, disputeVars
  <2>3. \A e : Reopen(e) => dispute' = dispute
    BY Zenon DEF Reopen, Rewrite, disputeVars
  <2>. QED
    BY <1>8, <2>1, <2>2, <2>3, Zenon DEF CancellationNext, AcceptExpiredCancellation,
       RejectCancellation, ExpireCancellation
<1>9. CASE PartyNext
  <2>1. \A e, b : TransferBuyerRole(e, b) => dispute' = dispute
    BY Zenon DEF TransferBuyerRole, Rewrite, disputeVars
  <2>2. \A e, s : TransferSellerRole(e, s) => dispute' = dispute
    BY Zenon DEF TransferSellerRole, Rewrite, disputeVars
  <2>3. \A e : ConcludeSellerTransfer(e) => dispute' = dispute
    BY Zenon DEF ConcludeSellerTransfer, Rewrite, disputeVars
  <2>4. \A e : VetoSellerTransfer(e) => dispute' = dispute
    BY Zenon DEF VetoSellerTransfer, disputeVars
  <2>. QED
    BY <1>9, <2>1, <2>2, <2>3, <2>4, Zenon DEF PartyNext, ApproveSellerTransfer, ExpireSellerTransferVeto
<1>10. CASE InspectionNext
  <2>1. \A e : SellerMarkComplete(e) => dispute' = dispute
    BY Zenon DEF SellerMarkComplete, Rewrite, disputeVars
  <2>2. \A e, a : SubmitInspectionReport(e, a) => dispute' = dispute
    BY Zenon DEF SubmitInspectionReport, Rewrite, disputeVars
  <2>3. \A e, c, i : ReplaceInspector(e, c, i) => dispute' = dispute
    BY Zenon DEF ReplaceInspector, Rewrite, disputeVars
  <2>4. \A e : AppealInspectorRuling(e) => dispute' = dispute
    BY Zenon DEF AppealInspectorRuling, disputeVars
  <2>. QED
    BY <1>10, <2>1, <2>2, <2>3, <2>4, Zenon DEF InspectionNext
<1>11. CASE AmendmentNext
  <2>1. \A e, c, d : ProposeDeadlineExtension(e, c, d) => dispute' = dispute
    BY Zenon DEF ProposeDeadlineExtension, disputeVars
  <2>2. \A e, c : AcceptDeadlineExtension(e, c) => dispute' = dispute
    BY Zenon DEF AcceptDeadlineExtension, Rewrite, disputeVars
  <2>3. \A e, c, x, d : ProposeAmendment(e, c, x, d) => dispute' = dispute
    BY Zenon DEF ProposeAmendment, disputeVars
  <2>4. \A e, c, n : SignAmendment(e, c, n) => dispute' = dispute
    BY Zenon DEF SignAmendment, Amend, disputeVars
  <2>5. \A e, n : ApplyAmendment(e, n) => dispute' = dispute
    BY Zenon DEF ApplyAmendment, Amend, disputeVars
  <2>6. \A e, x : TopUpEscrow(e, x) => dispute' = dispute
    BY Zenon DEF TopUpEscrow, disputeVars
  <2>7. \A e : AcknowledgeTopup(e) => dispute' = dispute
    BY Zenon DEF AcknowledgeTopup, Rewrite, disputeVars
  <2>. QED
    BY <1>11, <2>1, <2>2, <2>3, <2>4, <2>5, <2>6, <2>7, Zenon DEF AmendmentNext
<1>. QED
  BY <1>1, <1>2, <1>3, <1>4, <1>5, <1>6, <1>7, <1>8, <1>9, <1>10, <1>11 DEF Next

(* The calls around a dispute touch one escrow, and leave a dispute on file *)
(* if they touch it at all.                                                 *)
Rules(f) ==
  /\ dispute'[f].state # "None" /\ escrow'[f].status \in Frozen \cup Terminal

LEMMA DisputeOnOne ==
  ASSUME TypeOK, Files, DisputeNext
  PROVE  \E f \in Ids :
           /\ \A e \in Ids : e # f => dispute'[e] = dispute[e] /\ escrow'[e] = escrow[e]
                                      /\ paid'[e] = paid[e] /\ received'[e] = received[e]
           /\ Rules(f) \/ UNCHANGED <<dispute, escrow, paid, received>>
<1>1. PICK f \in Created :
        \/ \E caller \in Addr, x \in Amounts : DisputeEscrow(f, caller, x)
        \/ \E percent \in Percents : ResolveDispute(f, percent)
        \/ \E percent \in Percents : RecordVerdict(f, percent)
        \/ \E caller \in Addr : FlagResolutionError(f, caller)
        \/ FinalizeResolution(f)
        \/ ClearResolutionFlag(f)
        \/ EnforceDisputeTimeout(f)
  BY DEF DisputeNext
<1>2. f \in Ids /\ Waits(f) /\ DOMAIN dispute = Ids /\ DOMAIN escrow = Ids /\ DOMAIN paid = Ids
      /\ escrow[f] \in EscrowRecord /\ dispute[f] \in DisputeRecord
  BY CreatedIds DEF TypeOK, Files, EscrowType, DisputeType, MoneyType
<1>. DEFINE Elsewhere == \A e \in Ids : e # f => dispute'[e] = dispute[e] /\ escrow'[e] = escrow[e]
                                      /\ paid'[e] = paid[e] /\ received'[e] = received[e]
<1>3. ASSUME NEW caller \in Addr, NEW x \in Amounts, DisputeEscrow(f, caller, x)
      PROVE  Elsewhere /\ Rules(f)
  <2>1. Elsewhere /\ dispute'[f].state = "Open"
        /\ escrow'[f].status \in {"PartiallyDisputed", "Disputed"}
    BY <1>2, <1>3 DEF DisputeEscrow, Pay, Holding, EscrowRecord
  <2>. QED
    BY <2>1, KindsOfStatus DEF Rules
<1>4. ASSUME NEW percent, ExecuteVerdict(f, percent), dispute[f].state = "Open"
      PROVE  Elsewhere /\ Rules(f)
  <2>1. Elsewhere /\ dispute'[f].state = "Resolved" /\ escrow'[f].status = VerdictStatus(percent)
    BY <1>2, <1>4 DEF ExecuteVerdict, EscrowRecord, DisputeRecord
  <2>2. VerdictStatus(percent) \in Terminal
    BY KindsOfStatus DEF VerdictStatus
  <2>. QED
    BY <2>1, <2>2 DEF Rules
<1>5. ASSUME NEW percent \in Percents, ResolveDispute(f, percent)
      PROVE  Elsewhere /\ Rules(f)
  BY <1>2, <1>4, <1>5, KindsOfStatus DEF ResolveDispute, Waits
<1>6. ASSUME NEW percent \in Percents, RecordVerdict(f, percent)
      PROVE  Elsewhere /\ Rules(f)
  <2>1. UNCHANGED <<dispute, paid, received>> /\ dispute[f].state = "Open"
    BY <1>2, <1>6, KindsOfStatus DEF RecordVerdict, Waits, moneyVars
  <2>2. escrow' = [escrow EXCEPT ![f].status = "CoolingOff"]
    BY <1>6 DEF RecordVerdict
  <2>3. Elsewhere /\ escrow'[f].status = "CoolingOff"
    BY <1>2, <2>1, <2>2 DEF EscrowRecord
  <2>. QED
    BY <2>1, <2>3, KindsOfStatus DEF Rules
<1>7. ASSUME \/ \E caller \in Addr : FlagResolutionError(f, caller)
             \/ ClearResolutionFlag(f)
      PROVE  UNCHANGED <<dispute, escrow, paid, received>>
  BY <1>7 DEF FlagResolutionError, ClearResolutionFlag, escrowVars, moneyVars
<1>8. ASSUME FinalizeResolution(f)
      PROVE  Elsewhere /\ Rules(f)
  BY <1>2, <1>4, <1>8, KindsOfStatus DEF FinalizeResolution, Waits
<1>9. ASSUME EnforceDisputeTimeout(f)
      PROVE  Elsewhere /\ Rules(f)
  <2>1. dispute' = [dispute EXCEPT ![f].state = "Resolved"]
    BY <1>9 DEF EnforceDisputeTimeout
  <2>2. PICK status \in {"Released", "Refunded"} : \E b, s : Settle(f, status, b, s)
    BY <1>9 DEF EnforceDisputeTimeout
  <2>3. Elsewhere /\ dispute'[f].state = "Resolved" /\ escrow'[f].status = status
    BY <1>2, <2>1, <2>2 DEF Settle, Pay, EscrowRecord, DisputeRecord
  <2>. QED
    BY <2>3, KindsOfStatus DEF Rules
<1>10. (Elsewhere /\ Rules(f)) \/ UNCHANGED <<dispute, escrow, paid, received>>
  BY <1>1, <1>3, <1>5, <1>6, <1>7, <1>8, <1>9
<1>. QED
  BY <1>2, <1>10

LEMMA NextShaped ==
  ASSUME BaseInv, [Next]_vars
  PROVE  Shaped /\ Records'
BY CreationShaped, ReleaseNextShaped, RenewalNextShaped, ConditionNextShaped,
   DisputeNextShaped, CancellationNextShaped, AmendmentNextShaped, VetoNextShaped,
   PartyNextShaped, InspectionNextShaped, AdminNextShaped, TickShaped
   DEF BaseInv, Next

LEMMA ShapedBase ==
  ASSUME BaseInv, TypeOK', Records', Shaped, Lawful,
         \A e \in Ids : dispute'[e] = dispute[e] \/ Rules(e)
  PROVE  BaseInv'
<1>1. Funds' /\ NothingNegative'
  BY ShapedFunds, ShapedNothingNegative DEF BaseInv
<1>2. Files'
  BY DEF Lawful, Law, Files
<1>3. ASSUME NEW e \in Ids
      PROVE  Disputed(e)'
  <2>1. CASE Rules(e)
    BY <2>1 DEF Rules, Disputed
  <2>2. CASE dispute'[e] = dispute[e] /\ dispute[e].state # "None"
    <3>1. escrow[e].status \in Frozen \cup Terminal
      BY <2>2 DEF BaseInv, Disputed
    <3>2. CASE escrow[e].status \in Frozen
      BY <3>2 DEF Lawful, Law, Freezes, Disputed
    <3>3. CASE escrow[e].status \in Terminal
      BY <3>3, ShapedFinal DEF BaseInv, Disputed
    <3>. QED
      BY <3>1, <3>2, <3>3
  <2>. QED
    BY <2>1, <2>2 DEF Disputed
<1>. QED
  BY <1>1, <1>2, <1>3 DEF BaseInv

LEMMA NextBase ==
  ASSUME BaseInv, [Next]_vars
  PROVE  BaseInv' /\ Shaped
<1>1. Shaped /\ Records'
  BY NextShaped
<1>2. TypeOK' /\ Lawful
  BY StepType, StepLawful DEF BaseInv
<1>3. \A e \in Ids : dispute'[e] = dispute[e] \/ Rules(e)
  <2>1. CASE UNCHANGED vars
    BY <2>1 DEF vars, disputeVars
  <2>2. CASE Next /\ ~DisputeNext
    BY <2>2, QuietDispute
  <2>3. CASE DisputeNext
    BY <2>3, DisputeOnOne DEF BaseInv
  <2>. QED
    BY <2>1, <2>2, <2>3
<1>. QED
  BY <1>1, <1>2, <1>3, ShapedBase

-----------------------------------------------------------------------------
(* Steps that leave a plan as it is.                                        *)

(* What a step leaves of e so that its books stay right: once disputed they *)
(* promise little; undisputed, nothing moved and it was not released; an    *)
(* ended one pays no more.                                                  *)
Undisturbed(e) ==
  /\ milestones'[e] = milestones[e] /\ stages'[e] = stages[e]
  /\ \/ dispute'[e].state # "None"
     \/ /\ dispute'[e] = dispute[e] /\ escrow'[e].amount = escrow[e].amount
        /\ received'[e] = received[e] /\ paid'[e] = paid[e]
        /\ escrow'[e].status = "Released" => escrow[e].status = "Released"
  /\ escrow[e].status \in Terminal =>
       /\ escrow'[e].status \in Terminal
       /\ received'[e] = received[e] /\ paid'[e] = paid[e]

LEMMA UndisturbedBooks ==
  ASSUME NEW e \in Ids, MilestoneBook(e), StageBook(e), Undisturbed(e)
  PROVE  MilestoneBook(e)' /\ StageBook(e)'
<1>1. MilestoneBook(e)'
  BY DEF MilestoneBook, Undisturbed
<1>2. escrow'[e].amount = escrow[e].amount => ShareList(e)' = ShareList(e)
  BY DEF Undisturbed, ShareList, StageShare
<1>3. StageBook(e)'
  BY <1>2 DEF StageBook, StagePaid, Undisturbed
<1>. QED
  BY <1>1, <1>3

(* Nothing is released without being paid.                                  *)
LEMMA UnpaidUnreleased ==
  ASSUME BaseInv, BaseInv', Shaped, NEW e \in Ids, e < nextId, Spared(e),
         escrow'[e].status = "Released"
  PROVE  escrow[e].status = "Released"
<1>1. SUFFICES ASSUME Moves(e) PROVE FALSE
  <2>1. Moves(e) \/ Born(e) \/ Kept(e)
    BY DEF Shaped, Quiet, MovesOnly, BornOnly, Renewed, Born
  <2>2. ~ Born(e)
    BY DEF Born, BaseInv, TypeOK, EscrowType
  <2>. QED
    BY <2>1, <2>2 DEF Kept
<1>. DEFINE out == TotalPaid(e)
            outNext == TotalPaid(e)'
            owed == Owed(e)
            owedNext == Owed(e)'
<1>2. received[e] \in Int /\ out \in Int /\ collateral[e] \in Nat /\ escrow[e].amount \in Int
      /\ collateral'[e] \in Nat
  BY PaidFields, OwedType, OwedTypeNext DEF BaseInv, TypeOK
<1>3. received'[e] = received[e] /\ outNext = out
  BY DEF Spared, TotalPaid
<1>4. owed = escrow[e].amount + collateral[e] /\ escrow[e].amount > 0
  BY <1>1 DEF Moves, Owed, BaseInv, NothingNegative
<1>5. owedNext = 0 + collateral'[e] /\ collateral'[e] <= collateral[e]
  BY <1>1, KindsOfStatus DEF Moves, Owed
<1>6. received'[e] - outNext - owedNext = received[e] - out - owed
  BY <1>1 DEF Moves
<1>. HIDE DEF out, outNext, owed, owedNext
<1>. QED
  BY <1>2, <1>3, <1>4, <1>5, <1>6

(* Beside the milestones only disputes touch what their books are about.    *)
LEMMA NextUndisturbed ==
  ASSUME BaseInv, BaseInv', Shaped, Next, UNCHANGED planVars, NEW e \in Ids, e < nextId,
         DisputeNext \/ Spared(e)
  PROVE  Undisturbed(e)
<1>1. milestones'[e] = milestones[e] /\ stages'[e] = stages[e]
  BY DEF planVars
<1>2. escrow[e].status \in Terminal =>
        /\ escrow'[e].status \in Terminal
        /\ received'[e] = received[e] /\ paid'[e] = paid[e]
  BY ShapedFinal DEF BaseInv
<1>3. CASE DisputeNext
  BY <1>1, <1>2, <1>3, DisputeOnOne DEF BaseInv, Rules, Undisturbed
<1>4. CASE ~DisputeNext
  <2>1. Spared(e) /\ dispute' = dispute
    BY <1>4, QuietDispute
  <2>2. escrow'[e].status = "Released" => escrow[e].status = "Released"
    BY <2>1, UnpaidUnreleased
  <2>. QED
    BY <1>1, <1>2, <2>1, <2>2 DEF Undisturbed, Spared
<1>. QED
  BY <1>3, <1>4

LEMMA NextPlan ==
  ASSUME PlanInv, Next, UNCHANGED planVars,
         DisputeNext \/ \A e \in Ids : milestones[e] # <<>> \/ stages[e] # <<>> => Spared(e)
  PROVE  PlanInv'
<1>1. BaseInv' /\ Shaped
  BY NextBase DEF PlanInv
<1>2. PlanType'
  BY DEF PlanInv, PlanType, planVars
<1>3. ASSUME NEW e \in Ids
      PROVE  /\ milestones'[e] = <<>> \/ stages'[e] = <<>>
             /\ e >= nextId' => milestones'[e] = <<>> /\ stages'[e] = <<>>
             /\ MilestoneBook(e)' /\ StageBook(e)'
  <2>1. milestones'[e] = milestones[e] /\ stages'[e] = stages[e]
    BY DEF planVars
  <2>2. nextId' \in {nextId, nextId + 1} /\ nextId \in Nat /\ e \in Int
    <3>1. nextId \in Nat
      BY CreatedIds DEF PlanInv, BaseInv, TypeOK
    <3>. QED
      BY <1>1, <3>1, BoundsAssumption
         DEF Shaped, Quiet, MovesOnly, BornOnly, Renewed, Born, Ids
  <2>3. e >= nextId' => milestones'[e] = <<>> /\ stages'[e] = <<>>
    BY <2>1, <2>2 DEF PlanInv, PlanBooks
  <2>4. CASE milestones[e] = <<>> /\ stages[e] = <<>>
    BY <2>1, <2>3, <2>4 DEF MilestoneBook, StageBook
  <2>5. CASE milestones[e] # <<>> \/ stages[e] # <<>>
    <3>1. e < nextId
      BY <2>2, <2>5 DEF PlanInv, PlanBooks
    <3>2. Undisturbed(e)
      BY <1>1, <2>5, <3>1, NextUndisturbed DEF PlanInv
    <3>. QED
      BY <2>1, <2>3, <3>2, UndisturbedBooks DEF PlanInv, PlanBooks
  <2>. QED
    BY <2>4, <2>5
<1>. QED
  BY <1>1, <1>2, <1>3 DEF PlanInv, PlanBooks

-----------------------------------------------------------------------------
(* Lists of milestones and stages.                                          *)

LEMMA MilestoneMarked ==
  ASSUME NEW list \in Seq(Milestone), NEW i \in DOMAIN list, NEW marked,
         marked = [list EXCEPT ![i].status = "Approved"]
  PROVE  /\ marked \in Seq(Milestone) /\ DOMAIN marked = DOMAIN list /\ marked # <<>>
         /\ Worths(marked) = Worths(list)
         /\ Approved(marked) = Approved(list) \cup {i}
<1>1. DOMAIN list = 1 .. Len(list) /\ \A j \in DOMAIN list : list[j] \in Milestone
  OBVIOUS
<1>2. marked[i] = [list[i] EXCEPT !.status = "Approved"] /\ DOMAIN marked = DOMAIN list
      /\ \A j \in DOMAIN list : j # i => marked[j] = list[j]
  BY <1>1
<1>3. marked[i] \in Milestone /\ marked[i].status = "Approved" /\ marked[i].amount = list[i].amount
  BY <1>1, <1>2 DEF Milestone
<1>4. marked \in Seq(Milestone)
  BY <1>3, ExceptSeq
<1>5. Worths(marked) = Worths(list)
  BY <1>2, <1>3 DEF Worths
<1>. QED
  BY <1>1, <1>2, <1>3, <1>4, <1>5 DEF Approved

Rates(list) == [j \in DOMAIN list |-> list[j].bps]

Marks(list, i, to, marked) ==
  /\ marked \in Seq(Stage) /\ DOMAIN marked = DOMAIN list /\ Len(marked) = Len(list)
  /\ Rates(marked) = Rates(list)
  /\ to = "Approved" => Approved(marked) = Approved(list) \cup {i}
  /\ to # "Approved" => Approved(marked) = Approved(list) \ {i}

LEMMA StageMarked ==
  ASSUME NEW list \in Seq(Stage), NEW i \in DOMAIN list,
         NEW to \in {"Submitted", "Rejected", "Approved"}, NEW marked,
         marked = [list EXCEPT ![i].status = to]
  PROVE  Marks(list, i, to, marked)
<1>1. DOMAIN list = 1 .. Len(list) /\ \A j \in DOMAIN list : list[j] \in Stage
  OBVIOUS
<1>2. marked[i] = [list[i] EXCEPT !.status = to] /\ DOMAIN marked = DOMAIN list
      /\ \A j \in DOMAIN list : j # i => marked[j] = list[j]
  BY <1>1
<1>3. marked[i] \in Stage /\ marked[i].status = to /\ marked[i].bps = list[i].bps
  BY <1>1, <1>2 DEF Stage
<1>4. marked \in Seq(Stage) /\ Len(marked) = Len(list)
  BY <1>2, <1>3, ExceptSeq
<1>. QED
  BY <1>1, <1>2, <1>3, <1>4 DEF Approved, Rates, Marks

LEMMA StageSharesType ==
  ASSUME PlanInv, NEW e \in Ids, escrow[e].status \in Live
  PROVE  /\ escrow[e].amount \in Nat /\ IsFiniteSet(DOMAIN stages[e])
         /\ IsFiniteSet(Approved(stages[e])) /\ Approved(stages[e]) \subseteq DOMAIN stages[e]
         /\ \A j \in DOMAIN stages[e] :
              ShareList(e)[j] = StageShare(e, j) /\ StageShare(e, j) \in Nat
<1>1. escrow[e].amount \in Nat
  <2>1. escrow[e].amount \in Int
    BY OwedType DEF PlanInv, BaseInv
  <2>2. escrow[e].amount > 0
    BY DEF PlanInv, BaseInv, NothingNegative
  <2>. QED
    BY <2>1, <2>2
<1>2. DOMAIN stages[e] = 1 .. Len(stages[e]) /\ Len(stages[e]) \in Nat
      /\ \A j \in DOMAIN stages[e] : stages[e][j].bps \in Nat
  <2>1. stages[e] \in Seq(Stage)
    BY DEF PlanInv, PlanType
  <2>2. \A st \in Stage : st.bps \in Nat
    BY DEF Stage
  <2>. QED
    BY <2>1, <2>2
<1>3. IsFiniteSet(DOMAIN stages[e])
  BY <1>2, FS_Interval
<1>4. IsFiniteSet(Approved(stages[e])) /\ Approved(stages[e]) \subseteq DOMAIN stages[e]
  BY <1>3, FS_Subset DEF Approved
<1>. QED
  BY <1>1, <1>2, <1>3, <1>4, BpsType DEF ShareList, StageShare

-----------------------------------------------------------------------------
(* What a payment out of a plan does to the escrow.                         *)

LEMMA PlanPays ==
  ASSUME BaseInv, NEW e \in Created, NEW x \in Int, paid[e].seller + x >= 0,
         paid' = Pay(e, 0, x),
         \/ escrow' = escrow
         \/ escrow[e].status = "Active" /\ escrow' = Released(e),
         receipt' = receipt \/ receipt' = [receipt EXCEPT ![e] = NoAddr],
         UNCHANGED <<clockVars, nextId, terms, approvals, releaseVars, renewalVars,
                     disputeVars, inspectVars, agreeVars, accruedFees, received>>
  PROVE  /\ BaseInv' /\ e \in Ids
         /\ paid'[e].seller = paid[e].seller + x
         /\ \A f \in Ids : f # e => paid'[f] = paid[f] /\ escrow'[f] = escrow[f]
         /\ escrow'[e].amount = escrow[e].amount
         /\ escrow' = escrow \/ escrow'[e].status = "Released"
<1>1. e \in Ids /\ e < nextId /\ nextId \in Nat
  BY CreatedIds DEF BaseInv, TypeOK, Created
<1>2. /\ paid'[e].buyer = paid[e].buyer /\ paid'[e].seller = paid[e].seller + x
      /\ paid'[e].arbiter = paid[e].arbiter /\ paid'[e].fee = paid[e].fee
      /\ paid'[e].penalty = paid[e].penalty
      /\ \A f \in Ids : f # e => paid'[f] = paid[f]
  BY <1>1 DEF Pay, BaseInv, TypeOK, MoneyType, PaidRecord
<1>3. /\ \A f \in Ids : f # e => escrow'[f] = escrow[f]
      /\ escrow'[e].amount = escrow[e].amount /\ escrow'[e].inspector = escrow[e].inspector
      /\ \/ escrow' = escrow
         \/ escrow'[e].status = "Released" /\ escrow[e].status = "Active"
  BY <1>1 DEF Released, BaseInv, TypeOK, EscrowType, EscrowRecord
<1>4. TypeOK'
  <2>1. escrow' \in [Ids -> EscrowRecord]
    BY <1>1, StatusType, StatusNames DEF Released, BaseInv, TypeOK, EscrowType
  <2>2. EscrowType'
    BY <2>1 DEF BaseInv, TypeOK, EscrowType
  <2>3. MoneyType'
    <3>1. MoneyType /\ 0 \in Int
      BY DEF BaseInv, TypeOK
    <3>2. paid' \in [Ids -> PaidRecord]
      BY <1>1, <3>1, PayType
    <3>. QED
      BY <3>1, <3>2 DEF MoneyType
  <2>. QED
    BY <2>2, <2>3, Frames DEF BaseInv, TypeOK
<1>5. Records'
  BY RecordsFrame DEF BaseInv, agreeVars, disputeVars
<1>6. Funds'
  BY <1>1, <1>2, <1>3, KindsOfStatus DEF BaseInv, Funds, Untouched, releaseVars
<1>7. NothingNegative'
  <2>1. ASSUME NEW f \in Ids
        PROVE  /\ (escrow[f].status \in Live => escrow[f].amount > 0)'
               /\ (\A side \in DOMAIN paid[f] : paid[f][side] >= 0)'
    <3>1. (escrow[f].status \in Live => escrow[f].amount > 0)'
      BY <1>3, KindsOfStatus DEF BaseInv, NothingNegative
    <3>2. CASE f # e
      BY <1>2, <3>1, <3>2 DEF BaseInv, NothingNegative
    <3>3. CASE f = e
      <4>1. DOMAIN paid[e] = {"buyer", "seller", "arbiter", "fee", "penalty"}
            /\ DOMAIN paid'[e] = {"buyer", "seller", "arbiter", "fee", "penalty"}
        BY <1>1, <1>4 DEF BaseInv, TypeOK, MoneyType, PaidRecord
      <4>2. \A side \in DOMAIN paid'[e] : paid'[e][side] >= 0
        BY <1>1, <1>2, <4>1 DEF BaseInv, NothingNegative
      <4>. QED
        BY <3>1, <3>3, <4>2
    <3>. QED
      BY <3>2, <3>3
  <2>. QED
    BY <2>1 DEF NothingNegative
<1>8. Files'
  <2>1. ASSUME NEW f \in Ids
        PROVE  Waits(f)'
    <3>1. SameFiles(f) /\ Waits(f)
      BY FilesFrame DEF BaseInv, Files
    <3>2. CASE escrow'[f] = escrow[f]
      BY <3>1, <3>2 DEF Waits, SameFiles, Party
    <3>3. CASE escrow'[f].status = "Released" /\ escrow[f].status = "Active"
      <4>1. Calm(escrow[f].status) /\ Calm(escrow'[f].status)
        BY <3>3, CalmKinds, KindsOfStatus
      <4>. QED
        BY <3>1, <3>3, <4>1, CalmWaits
    <3>. QED
      BY <1>3, <3>2, <3>3
  <2>. QED
    BY <2>1 DEF Files
<1>9. \A f \in Ids : Disputed(f)'
  BY <1>3, KindsOfStatus DEF BaseInv, Disputed, disputeVars
<1>. QED
  BY <1>1, <1>2, <1>3, <1>4, <1>5, <1>6, <1>7, <1>8, <1>9 DEF BaseInv

(* The plans of the other escrows are not disturbed.                        *)
LEMMA OthersBooks ==
  ASSUME PlanInv, NEW e \in Ids, BaseInv', PlanType', nextId' = nextId, dispute' = dispute,
         received' = received, e < nextId,
         \A f \in Ids : f # e =>
           /\ milestones'[f] = milestones[f] /\ stages'[f] = stages[f]
           /\ paid'[f] = paid[f] /\ escrow'[f] = escrow[f],
         milestones'[e] = <<>> \/ stages'[e] = <<>>, MilestoneBook(e)', StageBook(e)'
  PROVE  PlanInv'
<1>1. ASSUME NEW f \in Ids
      PROVE  /\ milestones'[f] = <<>> \/ stages'[f] = <<>>
             /\ f >= nextId' => milestones'[f] = <<>> /\ stages'[f] = <<>>
             /\ MilestoneBook(f)' /\ StageBook(f)'
  <2>1. CASE f = e
    BY <2>1 DEF BaseInv, TypeOK, EscrowType, Ids
  <2>2. CASE f # e
    BY <2>2, UndisturbedBooks DEF PlanInv, PlanBooks, Undisturbed
  <2>. QED
    BY <2>1, <2>2
<1>. QED
  BY <1>1 DEF PlanInv, PlanBooks

-----------------------------------------------------------------------------
(* The steps of the milestones.                                             *)

LEMMA ApproveMilestonePlan ==
  ASSUME PlanInv, NEW e \in Created, NEW caller, NEW i \in DOMAIN milestones[e],
         ApproveMilestone(e, caller, i)
  PROVE  PlanInv'
<1>. DEFINE plan == milestones[e]
            plan2 == milestones'[e]
            x == plan[i].amount
<1>1. e \in Ids /\ e < nextId
  BY CreatedIds DEF PlanInv, BaseInv, TypeOK, Created
<1>2. plan \in Seq(Milestone) /\ plan[i] \in Milestone /\ plan # <<>>
  BY <1>1 DEF PlanInv, PlanType
<1>3. plan2 = [plan EXCEPT ![i].status = "Approved"]
      /\ \A f \in Ids : f # e => milestones'[f] = milestones[f]
  BY <1>1 DEF ApproveMilestone, PlanInv, PlanType
<1>4. /\ plan2 \in Seq(Milestone) /\ DOMAIN plan2 = DOMAIN plan /\ plan2 # <<>>
      /\ Worths(plan2) = Worths(plan)
      /\ Approved(plan2) = Approved(plan) \cup {i}
  <2>1. plan \in Seq(Milestone) /\ i \in DOMAIN plan
        /\ plan2 = [plan EXCEPT ![i].status = "Approved"]
    BY <1>2, <1>3
  <2>. HIDE DEF plan, plan2, x
  <2>. QED
    BY <2>1, MilestoneMarked, Zenon
<1>5. x \in Nat /\ paid[e].seller \in Int /\ paid[e].seller >= 0 /\ paid[e].seller + x >= 0
  <2>1. x \in Nat
    BY <1>2 DEF Milestone
  <2>2. paid[e].seller \in Int /\ paid[e].seller >= 0
    <3>1. MoneyType /\ NothingNegative
      BY DEF PlanInv, BaseInv, TypeOK
    <3>2. "seller" \in DOMAIN paid[e]
      BY <1>1, <3>1 DEF MoneyType, PaidRecord
    <3>. QED
      BY <1>1, <3>1, <3>2, PaidFields DEF NothingNegative
  <2>. HIDE DEF x
  <2>. QED
    BY <2>1, <2>2
<1>6. /\ BaseInv' /\ paid'[e].seller = paid[e].seller + x
      /\ \A f \in Ids : f # e => paid'[f] = paid[f] /\ escrow'[f] = escrow[f]
      /\ escrow' = escrow \/ escrow'[e].status = "Released"
  <2>1. /\ paid' = Pay(e, 0, x)
        /\ \/ escrow' = escrow
           \/ escrow[e].status = "Active" /\ escrow' = Released(e)
        /\ receipt' = receipt \/ receipt' = [receipt EXCEPT ![e] = NoAddr]
        /\ UNCHANGED <<clockVars, nextId, terms, approvals, releaseVars, renewalVars,
                      disputeVars, inspectVars, agreeVars, accruedFees, received>>
    BY DEF ApproveMilestone
  <2>. HIDE DEF x
  <2>. QED
    BY <1>5, <2>1, PlanPays DEF PlanInv
<1>7. UNCHANGED <<nextId, dispute, received, stages>>
  BY DEF ApproveMilestone, disputeVars
<1>8. PlanType'
  BY <1>1, <1>3, <1>4, <1>7 DEF PlanInv, PlanType, ApproveMilestone
<1>9. IsFiniteSet(DOMAIN plan) /\ Integral(Worths(plan), DOMAIN plan)
  <2>. HIDE DEF plan
  <2>1. DOMAIN plan = 1 .. Len(plan) /\ Len(plan) \in Nat /\ \A j \in DOMAIN plan : plan[j] \in Milestone
    BY <1>2
  <2>2. IsFiniteSet(DOMAIN plan)
    BY <2>1, FS_Interval
  <2>3. \A j \in DOMAIN plan : Worths(plan)[j] = plan[j].amount
    BY DEF Worths
  <2>4. \A j \in DOMAIN plan : plan[j].amount \in Int
    BY <2>1 DEF Milestone
  <2>. QED
    BY <2>2, <2>3, <2>4 DEF Integral
<1>10. i \notin Approved(plan) /\ Approved(plan) \subseteq DOMAIN plan /\ i \in DOMAIN plan
  BY DEF ApproveMilestone, Approved
<1>11. SumOf(Worths(plan2), DOMAIN plan2) = SumOf(Worths(plan), DOMAIN plan)
  <2>. HIDE DEF plan, plan2
  <2>. QED
    BY <1>4, <1>9, SumSame
<1>12. /\ SumOf(Worths(plan2), Approved(plan2)) = x + SumOf(Worths(plan), Approved(plan))
       /\ SumOf(Worths(plan), Approved(plan)) \in Int
  <2>. DEFINE A == Approved(plan)
              B == Approved(plan) \cup {i}
              w == Worths(plan)
              v == Worths(plan2)
  <2>1. IsFiniteSet(A) /\ IsFiniteSet(B) /\ A \subseteq DOMAIN plan /\ B \subseteq DOMAIN plan
    BY <1>9, <1>10, FS_Subset
  <2>2. Integral(w, A) /\ Integral(w, B) /\ \A j \in B : w[j] = v[j]
    BY <1>4, <1>9, <2>1 DEF Integral
  <2>3. w[i] = x /\ B \ {i} = A /\ i \in B
    BY <1>10 DEF Worths
  <2>4. Approved(plan2) = B
    BY <1>4
  <2>. HIDE DEF A, B, w, v, x
  <2>5. SumOf(w, B) = w[i] + SumOf(w, B \ {i}) /\ SumOf(w, A) \in Int
    BY <2>1, <2>2, <2>3, SumWithout, SumType
  <2>6. SumOf(w, B) = SumOf(v, B)
    BY <2>1, <2>2, SumSame
  <2>7. SumOf(v, B) = x + SumOf(w, A)
    BY <2>3, <2>5, <2>6
  <2>. QED
    BY <2>4, <2>5, <2>7 DEF A, w, v
<1>13. escrow'[e].status = "Released" => Approved(plan2) = DOMAIN plan2
  BY <1>1, <1>4 DEF ApproveMilestone, Terminal
<1>14. MilestoneBook(e)'
  <2>1. ASSUME dispute[e].state = "None"
        PROVE  /\ received[e] = SumOf(Worths(plan), DOMAIN plan)
               /\ paid[e].seller = SumOf(Worths(plan), Approved(plan))
    BY <1>1, <1>2, <2>1 DEF PlanInv, PlanBooks, MilestoneBook
  <2>2. ASSUME dispute'[e].state = "None"
        PROVE  /\ received'[e] = SumOf(Worths(plan2), DOMAIN plan2)
               /\ paid'[e].seller = SumOf(Worths(plan2), Approved(plan2))
    <3>1. dispute[e].state = "None"
      BY <1>7, <2>2
    <3>2. received'[e] = SumOf(Worths(plan2), DOMAIN plan2)
      BY <1>7, <1>11, <2>1, <3>1
    <3>. DEFINE old == SumOf(Worths(plan), Approved(plan))
                new == SumOf(Worths(plan2), Approved(plan2))
    <3>3. paid[e].seller = old /\ new = x + old /\ old \in Int
      BY <1>12, <2>1, <3>1
    <3>. HIDE DEF old, new, x, plan, plan2
    <3>4. paid'[e].seller = new
      BY <1>5, <1>6, <3>3
    <3>. QED
      BY <3>2, <3>4 DEF new
  <2>. QED
    BY <2>2, <1>13 DEF MilestoneBook
<1>15. stages[e] = <<>> /\ stages'[e] = <<>> /\ StageBook(e)'
  BY <1>1, <1>2, <1>7 DEF PlanInv, PlanBooks, StageBook
<1>. QED
  BY <1>1, <1>3, <1>6, <1>7, <1>8, <1>14, <1>15, OthersBooks

(* A stage handed in or turned down: nothing moves.                         *)
LEMMA StageStepPlan ==
  ASSUME PlanInv, NEW e \in Created, NEW i \in DOMAIN stages[e], NEW from,
         NEW to \in {"Submitted", "Rejected"},
         from \subseteq {"Pending", "Rejected", "Submitted"},
         StageStep(e, i, from, to), UNCHANGED vars
  PROVE  PlanInv'
<1>. DEFINE plan == stages[e]
            plan2 == stages'[e]
<1>1. e \in Ids /\ e < nextId
  BY CreatedIds DEF PlanInv, BaseInv, TypeOK, Created
<1>2. plan \in Seq(Stage) /\ plan # <<>> /\ i \in DOMAIN plan
  BY <1>1 DEF PlanInv, PlanType
<1>3. plan2 = [plan EXCEPT ![i].status = to] /\ milestones' = milestones
      /\ \A f \in Ids : f # e => stages'[f] = stages[f]
  BY <1>1 DEF StageStep, PlanInv, PlanType
<1>4. plan[i].status # "Approved" /\ escrow[e].status = "Active"
  BY DEF StageStep
<1>5. /\ plan2 \in Seq(Stage) /\ DOMAIN plan2 = DOMAIN plan /\ Len(plan2) = Len(plan)
      /\ Rates(plan2) = Rates(plan)
      /\ Approved(plan2) = Approved(plan)
  <2>1. i \notin Approved(plan)
    BY <1>4 DEF Approved
  <2>2. /\ plan \in Seq(Stage) /\ i \in DOMAIN plan
        /\ to \in {"Submitted", "Rejected", "Approved"} /\ to # "Approved"
        /\ plan2 = [plan EXCEPT ![i].status = to]
    BY <1>2, <1>3
  <2>. HIDE DEF plan, plan2
  <2>3. Marks(plan, i, to, plan2)
    BY <2>2, StageMarked, Zenon
  <2>. QED
    BY <2>1, <2>2, <2>3 DEF Marks
<1>6. BaseInv'
  <2>1. [Next]_vars
    OBVIOUS
  <2>. QED
    BY <2>1, NextBase DEF PlanInv
<1>7. UNCHANGED <<nextId, dispute, received, paid, escrow>>
  BY DEF vars, escrowVars, disputeVars, moneyVars
<1>8. PlanType'
  BY <1>1, <1>3, <1>5 DEF PlanInv, PlanType, StageStep
<1>9. milestones'[e] = <<>> /\ MilestoneBook(e)'
  BY <1>1, <1>2, <1>3 DEF PlanInv, PlanBooks, MilestoneBook
<1>10. ShareList(e)' = ShareList(e)
  <2>1. \A j \in DOMAIN plan : plan2[j].bps = plan[j].bps
    BY <1>5 DEF Rates
  <2>. QED
    BY <1>5, <1>7, <2>1 DEF ShareList, StageShare
<1>11. StageBook(e)'
  <2>1. StageBook(e)
    BY <1>1 DEF PlanInv, PlanBooks
  <2>. QED
    BY <1>2, <1>5, <1>7, <1>10, <2>1 DEF StageBook, StagePaid
<1>. QED
  BY <1>1, <1>3, <1>6, <1>7, <1>8, <1>9, <1>11, OthersBooks

(* An approved stage is paid its share, the last of the list what the       *)
(* approved ones left.                                                      *)
LEMMA ApproveProportionalPlan ==
  ASSUME PlanInv, NEW e \in Created, NEW caller, NEW i \in DOMAIN stages[e],
         ApproveProportionalMilestone(e, caller, i)
  PROVE  PlanInv'
<1>. DEFINE plan == stages[e]
            plan2 == stages'[e]
            x == StageAmount(e, i)
            old == paid[e].seller
            A == Approved(plan)
            B == Approved(plan) \cup {i}
            F == ShareList(e)
            last == Len(plan)
<1>1. e \in Ids /\ e < nextId
  BY CreatedIds DEF PlanInv, BaseInv, TypeOK, Created
<1>2. plan \in Seq(Stage) /\ plan # <<>> /\ i \in DOMAIN plan
  BY <1>1 DEF PlanInv, PlanType
<1>3. plan2 = [plan EXCEPT ![i].status = "Approved"]
      /\ \A f \in Ids : f # e => stages'[f] = stages[f]
  BY <1>1 DEF ApproveProportionalMilestone, PlanInv, PlanType
<1>4. /\ plan[i].status = "Submitted" /\ escrow[e].status = "Active"
      /\ i \notin A
  BY DEF ApproveProportionalMilestone, Approved
<1>5. /\ plan2 \in Seq(Stage) /\ DOMAIN plan2 = DOMAIN plan /\ Len(plan2) = last
      /\ Rates(plan2) = Rates(plan)
      /\ Approved(plan2) = B
  <2>. DEFINE to == "Approved"
  <2>1. /\ plan \in Seq(Stage) /\ i \in DOMAIN plan
        /\ to \in {"Submitted", "Rejected", "Approved"}
        /\ plan2 = [plan EXCEPT ![i].status = to]
    BY <1>2, <1>3
  <2>. HIDE DEF plan, plan2, x, old, F, to
  <2>2. Marks(plan, i, to, plan2)
    BY <2>1, StageMarked, Zenon
  <2>. QED
    BY <2>2 DEF to, Marks
<1>6. dispute[e].state = "None"
  BY <1>1, <1>4, KindsOfStatus DEF PlanInv, BaseInv, Disputed
<1>7. StagePaid(e)
  <2>1. A # DOMAIN plan
    BY <1>2, <1>4
  <2>. QED
    BY <1>1, <1>2, <1>6, <2>1 DEF PlanInv, PlanBooks, StageBook
<1>8. /\ escrow[e].amount \in Nat /\ IsFiniteSet(DOMAIN plan) /\ IsFiniteSet(A)
      /\ A \subseteq DOMAIN plan
      /\ \A j \in DOMAIN plan : F[j] = StageShare(e, j) /\ F[j] \in Nat
  BY <1>1, <1>4, StageSharesType, KindsOfStatus
<1>9. old \in Int /\ escrow[e].amount = received[e]
      /\ IF last \in A THEN old >= received[e] ELSE old >= SumOf(F, A)
  BY <1>1, <1>7, PaidFields DEF StagePaid, PlanInv, BaseInv, TypeOK
<1>10. Integral(F, A) /\ Integral(F, B) /\ IsFiniteSet(B) /\ B \subseteq DOMAIN plan
       /\ B \ {i} = A /\ i \in B
  <2>1. B \subseteq DOMAIN plan
    BY <1>2, <1>8
  <2>. QED
    BY <1>2, <1>4, <1>8, <2>1, FS_Subset DEF Integral
<1>11. SumOf(F, A) \in Int /\ SumOf(F, B) = F[i] + SumOf(F, A)
  <2>. HIDE DEF F, A, B
  <2>. QED
    BY <1>8, <1>10, SumType, SumWithout
<1>12. x = IF i = last THEN escrow[e].amount - SumOf(F, A) ELSE F[i]
  <2>1. A \ {i} = A
    BY <1>4
  <2>2. F = [j \in DOMAIN stages[e] |-> StageShare(e, j)]
    BY DEF ShareList
  <2>3. F[i] = StageShare(e, i)
    BY <1>2, <1>8
  <2>. QED
    BY <2>1, <2>2, <2>3 DEF StageAmount
<1>13. /\ x \in Int /\ (i = last => old + x >= received[e])
       /\ (last \in A => i # last /\ old + x >= received[e])
       /\ (last \notin B => old + x >= SumOf(F, B))
       /\ old + x >= 0
  <2>1. F[i] \in Nat /\ escrow[e].amount \in Nat /\ (i = last => last \notin A)
        /\ (i = last \/ last \in A \/ last \notin B)
    BY <1>2, <1>4, <1>8
  <2>2. SumOf(F, A) \in Nat
    <3>1. \A j \in A : F[j] \in Nat
      BY <1>8
    <3>. HIDE DEF F, A
    <3>. QED
      BY <1>8, <3>1, SumNatural
  <2>3. last \notin B => last \notin A /\ i # last
    OBVIOUS
  <2>. DEFINE sumA == SumOf(F, A)
              sumB == SumOf(F, B)
              am == escrow[e].amount
              re == received[e]
              fi == F[i]
  <2>4. /\ x = IF i = last THEN am - sumA ELSE fi
        /\ old \in Int /\ am = re /\ am \in Nat /\ sumA \in Nat /\ fi \in Nat
        /\ sumB = fi + sumA
        /\ IF last \in A THEN old >= re ELSE old >= sumA
    BY <1>9, <1>11, <1>12, <2>1, <2>2
  <2>. HIDE DEF x, old, sumA, sumB, am, re, fi, A, B, F, last
  <2>5. /\ x \in Int /\ (i = last => old + x >= re)
        /\ (last \in A => i # last /\ old + x >= re)
        /\ (last \notin B => old + x >= sumB)
        /\ old + x >= 0
    BY <2>1, <2>3, <2>4
  <2>. QED
    BY <2>5 DEF re, sumB
<1>14. /\ BaseInv' /\ paid'[e].seller = old + x
       /\ \A f \in Ids : f # e => paid'[f] = paid[f] /\ escrow'[f] = escrow[f]
       /\ escrow'[e].amount = escrow[e].amount
       /\ escrow' = escrow \/ escrow'[e].status = "Released"
  <2>1. /\ paid' = Pay(e, 0, x)
        /\ \/ escrow' = escrow
           \/ escrow[e].status = "Active" /\ escrow' = Released(e)
        /\ receipt' = receipt \/ receipt' = [receipt EXCEPT ![e] = NoAddr]
        /\ UNCHANGED <<clockVars, nextId, terms, approvals, releaseVars, renewalVars,
                      disputeVars, inspectVars, agreeVars, accruedFees, received>>
    BY <1>4 DEF ApproveProportionalMilestone
  <2>. HIDE DEF x
  <2>. QED
    BY <1>13, <2>1, PlanPays DEF PlanInv
<1>15. UNCHANGED <<nextId, dispute, received, milestones>>
  BY DEF ApproveProportionalMilestone, disputeVars
<1>16. PlanType'
  BY <1>1, <1>3, <1>5, <1>15 DEF PlanInv, PlanType, ApproveProportionalMilestone
<1>17. milestones'[e] = <<>> /\ MilestoneBook(e)'
  BY <1>1, <1>2, <1>15 DEF PlanInv, PlanBooks, MilestoneBook
<1>18. ShareList(e)' = F
  <2>1. \A j \in DOMAIN plan : plan2[j].bps = plan[j].bps
    BY <1>5 DEF Rates
  <2>. QED
    BY <1>5, <1>14, <2>1 DEF ShareList, StageShare
<1>19. StageBook(e)'
  <2>1. CASE B = DOMAIN plan
    <3>1. escrow'[e].status = "Released"
      <4>1. \A j \in DOMAIN plan \ {i} : plan[j].status = "Approved"
        BY <2>1 DEF Approved
      <4>2. escrow' = Released(e)
        BY <4>1 DEF ApproveProportionalMilestone
      <4>. QED
        BY <1>1, <4>2 DEF Released, PlanInv, BaseInv, TypeOK, EscrowType, EscrowRecord
    <3>2. last \in DOMAIN plan
      BY <1>2
    <3>3. i = last \/ last \in A
      BY <2>1, <3>2
    <3>4. paid'[e].seller >= received'[e]
      <4>. HIDE DEF x, old, A, last
      <4>. QED
        BY <1>13, <1>14, <1>15, <3>3
    <3>. QED
      BY <1>5, <2>1, <3>1, <3>4, KindsOfStatus DEF StageBook
  <2>2. CASE B # DOMAIN plan
    <3>1. escrow'[e].amount = received'[e]
      BY <1>9, <1>14, <1>15
    <3>2. IF last \in B THEN paid'[e].seller >= received'[e] ELSE paid'[e].seller >= SumOf(F, B)
      <4>1. last \in B => i = last \/ last \in A
        OBVIOUS
      <4>. HIDE DEF x, old, A, B, F, last
      <4>. QED
        BY <1>13, <1>14, <1>15, <4>1
    <3>3. StagePaid(e)'
      BY <1>5, <1>18, <3>1, <3>2 DEF StagePaid
    <3>. QED
      BY <1>5, <2>2, <3>3 DEF StageBook
  <2>. QED
    BY <2>1, <2>2
<1>. QED
  BY <1>1, <1>3, <1>14, <1>15, <1>16, <1>17, <1>19, OthersBooks

-----------------------------------------------------------------------------
(* Creation.                                                                *)

LEMMA CreatePlanned ==
  ASSUME PlanInv, NEW r \in Requests, NoOptions(r), CreateCore(r, "Active")
  PROVE  /\ BaseInv' /\ nextId \in Ids /\ nextId' = nextId + 1
         /\ UNCHANGED dispute
         /\ escrow'[nextId].status = "Active" /\ escrow'[nextId].amount = r.amount
         /\ received'[nextId] = r.amount /\ paid'[nextId].seller = 0
         /\ \A f \in Ids : f # nextId => Kept(f)
<1>1. r \in Request /\ r.amount > 0 /\ r.arbiterFee <= 1000 /\ r.collateralBps = 0
      /\ Store(r, "Active")
  BY InputAssumption DEF NoOptions, CreateCore
<1>2. TypeOK' /\ BornOnly(nextId)
  BY <1>1, StoreType, StoreBorn, StatusNames DEF PlanInv, BaseInv
<1>3. Records'
  BY <1>1, RecordsFrame DEF PlanInv, BaseInv, Store, agreeVars, disputeVars
<1>4. Lawful
  BY <1>1, StoreLawful DEF PlanInv, BaseInv
<1>5. UNCHANGED dispute
  BY <1>1 DEF Store, disputeVars
<1>6. BaseInv'
  BY <1>2, <1>3, <1>4, <1>5, ShapedBase DEF Shaped, PlanInv
<1>7. nextId \in Ids /\ nextId' = nextId + 1 /\ received'[nextId] = escrow'[nextId].amount
      /\ \A f \in Ids : f # nextId => Kept(f)
  BY <1>2 DEF BornOnly, Born
<1>8. escrow'[nextId].status = "Active" /\ escrow'[nextId].amount = r.amount
  BY <1>1, <1>7 DEF Store, PlanInv, BaseInv, TypeOK, EscrowType
<1>9. paid'[nextId].seller = 0
  <2>1. nextId >= nextId
    BY CreatedIds DEF PlanInv, BaseInv, TypeOK
  <2>2. paid'[nextId] = NothingPaid
    BY <1>2, <1>7, <2>1 DEF BornOnly, Born, PlanInv, BaseInv, Funds, Untouched
  <2>. QED
    BY <2>2 DEF NothingPaid
<1>. QED
  BY <1>5, <1>6, <1>7, <1>8, <1>9

(* What is left to show of a creator: the books of the new escrow.          *)
LEMMA CreatedBooks ==
  ASSUME PlanInv, BaseInv', PlanType', nextId \in Ids, nextId' = nextId + 1, UNCHANGED dispute,
         \A f \in Ids : f # nextId =>
           Kept(f) /\ milestones'[f] = milestones[f] /\ stages'[f] = stages[f],
         NEW q, q = nextId, milestones'[q] = <<>> \/ stages'[q] = <<>>,
         MilestoneBook(q)', StageBook(q)'
  PROVE  PlanInv'
<1>1. nextId \in Nat /\ \A f \in Ids : f \in Int
  BY CreatedIds, BoundsAssumption DEF PlanInv, BaseInv, TypeOK, Ids
<1>2. ASSUME NEW f \in Ids
      PROVE  /\ milestones'[f] = <<>> \/ stages'[f] = <<>>
             /\ f >= nextId' => milestones'[f] = <<>> /\ stages'[f] = <<>>
             /\ MilestoneBook(f)' /\ StageBook(f)'
  <2>1. CASE f = q
    BY <1>1, <2>1
  <2>2. CASE f # q
    <3>1. Undisturbed(f)
      BY <2>2 DEF Undisturbed, Kept
    <3>2. f >= nextId' => f >= nextId
      BY <1>1
    <3>. QED
      BY <2>2, <3>1, <3>2, UndisturbedBooks DEF PlanInv, PlanBooks
  <2>. QED
    BY <2>1, <2>2
<1>. QED
  BY <1>2 DEF PlanInv, PlanBooks

LEMMA CreateMilestonePlan ==
  ASSUME PlanInv, NEW r \in Requests, NEW asked \in Schedules, CreateMilestoneEscrow(r, asked)
  PROVE  PlanInv'
<1>. DEFINE plan == [i \in DOMAIN asked |-> [amount |-> asked[i], status |-> "Pending"]]
<1>1. PICK q \in Ids : q = nextId
  BY CreatePlanned DEF CreateMilestoneEscrow
<1>2. /\ BaseInv' /\ nextId' = nextId + 1 /\ UNCHANGED dispute
      /\ escrow'[q].status = "Active"
      /\ received'[q] = r.amount /\ paid'[q].seller = 0
      /\ \A f \in Ids : f # q => Kept(f)
  BY <1>1, CreatePlanned DEF CreateMilestoneEscrow
<1>3. asked \in Seq(Nat \ {0}) /\ r.amount = SumOf(asked, DOMAIN asked)
  BY SchedulesAssumption DEF CreateMilestoneEscrow
<1>4. /\ milestones'[q] = plan /\ stages' = stages
      /\ milestones' = [milestones EXCEPT ![q] = plan]
      /\ \A f \in Ids : f # q => milestones'[f] = milestones[f]
  BY <1>1 DEF CreateMilestoneEscrow, PlanInv, PlanType
<1>5. DOMAIN asked = 1 .. Len(asked) /\ Len(asked) \in Nat
      /\ \A i \in DOMAIN asked : asked[i] \in Nat \ {0}
  BY <1>3
<1>6. plan \in Seq(Milestone)
  <2>1. \A i \in 1 .. Len(asked) : [amount |-> asked[i], status |-> "Pending"] \in Milestone
    BY <1>5 DEF Milestone
  <2>. QED
    BY <1>5, <2>1
<1>7. DOMAIN plan = DOMAIN asked /\ Approved(plan) = {}
      /\ \A i \in DOMAIN plan : Worths(plan)[i] = asked[i]
  BY DEF Approved, Worths
<1>8. SumOf(Worths(plan), DOMAIN plan) = SumOf(asked, DOMAIN asked)
  <2>1. IsFiniteSet(DOMAIN plan)
    BY <1>5, FS_Interval
  <2>. HIDE DEF plan
  <2>. QED
    BY <1>7, <2>1, SumSame
<1>9. SumOf(Worths(plan), Approved(plan)) = 0
  <2>. DEFINE w == Worths(plan)
  <2>1. SumOf(w, {}) = 0
    BY SumOfNone
  <2>2. Approved(plan) = {}
    BY <1>7
  <2>. HIDE DEF w, plan
  <2>3. SumOf(w, Approved(plan)) = 0
    BY <2>1, <2>2, Zenon
  <2>. QED
    BY <2>3 DEF w
<1>. HIDE DEF plan
<1>10. PlanType'
  BY <1>4, <1>6 DEF PlanInv, PlanType
<1>11. MilestoneBook(q)'
  BY <1>2, <1>3, <1>4, <1>8, <1>9 DEF MilestoneBook
<1>12. stages'[q] = <<>> /\ StageBook(q)'
  <2>1. q >= nextId
    BY <1>1, CreatedIds DEF PlanInv, BaseInv, TypeOK
  <2>. QED
    BY <1>4, <2>1 DEF PlanInv, PlanBooks, StageBook
<1>. QED
  BY <1>1, <1>2, <1>4, <1>10, <1>11, <1>12, CreatedBooks

LEMMA CreateBpsMilestonePlan ==
  ASSUME PlanInv, NEW r \in Requests, NEW asked \in Shares, CreateBpsMilestoneEscrow(r, asked)
  PROVE  PlanInv'
<1>. DEFINE plan == [i \in DOMAIN asked |-> [bps |-> asked[i], status |-> "Pending"]]
<1>1. PICK q \in Ids : q = nextId
  BY CreatePlanned DEF CreateBpsMilestoneEscrow
<1>2. /\ BaseInv' /\ nextId' = nextId + 1 /\ UNCHANGED dispute
      /\ escrow'[q].amount = r.amount
      /\ received'[q] = r.amount /\ paid'[q].seller = 0
      /\ \A f \in Ids : f # q => Kept(f)
  BY <1>1, CreatePlanned DEF CreateBpsMilestoneEscrow
<1>3. asked \in Seq(Nat \ {0})
  BY SchedulesAssumption
<1>4. /\ stages'[q] = plan /\ milestones' = milestones
      /\ stages' = [stages EXCEPT ![q] = plan]
      /\ \A f \in Ids : f # q => stages'[f] = stages[f]
  BY <1>1 DEF CreateBpsMilestoneEscrow, PlanInv, PlanType
<1>5. DOMAIN asked = 1 .. Len(asked) /\ Len(asked) \in Nat
      /\ \A i \in DOMAIN asked : asked[i] \in Nat \ {0}
  BY <1>3
<1>6. plan \in Seq(Stage) /\ Len(plan) = Len(asked)
  <2>1. \A i \in 1 .. Len(asked) : [bps |-> asked[i], status |-> "Pending"] \in Stage
    BY <1>5 DEF Stage
  <2>. QED
    BY <1>5, <2>1
<1>7. DOMAIN plan = DOMAIN asked /\ Approved(plan) = {}
  BY DEF Approved
<1>. HIDE DEF plan
<1>8. PlanType'
  BY <1>4, <1>6 DEF PlanInv, PlanType
<1>9. StagePaid(q)'
  <2>. DEFINE F == ShareList(q)'
  <2>1. SumOf(F, {}) = 0
    BY SumOfNone
  <2>2. Approved(stages'[q]) = {}
    BY <1>4, <1>7
  <2>. HIDE DEF F
  <2>3. SumOf(F, Approved(stages'[q])) = 0
    BY <2>1, <2>2, Zenon
  <2>4. paid'[q].seller >= SumOf(F, Approved(stages'[q]))
    BY <1>2, <2>3
  <2>5. Len(stages'[q]) \notin Approved(stages'[q]) /\ escrow'[q].amount = received'[q]
    BY <1>2, <2>2
  <2>6. paid'[q].seller >= SumOf(ShareList(q)', Approved(stages'[q]))
    BY <2>4 DEF F
  <2>. QED
    BY <2>5, <2>6 DEF StagePaid
<1>10. StageBook(q)'
  <2>1. stages'[q] # <<>> => Approved(stages'[q]) # DOMAIN stages'[q]
    <3>1. plan # <<>> => DOMAIN plan # {}
      <4>1. DOMAIN plan = 1 .. Len(plan) /\ Len(plan) \in Nat
        BY <1>6
      <4>2. Len(plan) = 0 => plan = <<>>
        BY <1>6, EmptySeq
      <4>. QED
        BY <4>1, <4>2
    <3>. QED
      BY <1>4, <1>7, <3>1
  <2>. QED
    BY <1>9, <2>1 DEF StageBook
<1>11. milestones'[q] = <<>> /\ MilestoneBook(q)'
  <2>1. q >= nextId
    BY <1>1, CreatedIds DEF PlanInv, BaseInv, TypeOK
  <2>. QED
    BY <1>4, <2>1 DEF PlanInv, PlanBooks, MilestoneBook
<1>. QED
  BY <1>1, <1>2, <1>4, <1>8, <1>10, <1>11, CreatedBooks

-----------------------------------------------------------------------------
(* The invariant of the books, and the theorems.                            *)

LEMMA InitPlan == MilestonesInit => PlanInv
<1> SUFFICES ASSUME MilestonesInit
             PROVE  PlanInv
  OBVIOUS
<1>1. InitBase
  BY DEF MilestonesInit, RequestsInit
<1>2. BaseInv
  <2>1. TypeOK /\ Records /\ Funds /\ NothingNegative /\ Files
    BY <1>1, InitRecord DEF RecordInv, MoneyInv
  <2>2. \A e \in Ids : dispute[e].state = "None"
    BY <1>1 DEF InitBase, NoDispute
  <2>. QED
    BY <2>1, <2>2 DEF BaseInv, Disputed
<1>3. \A e \in Ids : milestones[e] = <<>> /\ stages[e] = <<>>
  BY DEF MilestonesInit
<1>4. PlanType
  BY DEF MilestonesInit, PlanType
<1>. QED
  BY <1>2, <1>3, <1>4 DEF PlanInv, PlanBooks, MilestoneBook, StageBook

LEMMA StepPlan ==
  ASSUME PlanInv, [PlanNext /\ UNCHANGED requestVars]_<<vars, requestVars, planVars>>
  PROVE  PlanInv'
<1>1. CASE UNCHANGED <<vars, requestVars, planVars>>
  <2>1. [Next]_vars
    BY <1>1
  <2>2. BaseInv'
    BY <2>1, NextBase DEF PlanInv
  <2>3. /\ UNCHANGED <<dispute, escrow, received, paid, nextId, milestones, stages>>
    BY <1>1 DEF vars, planVars, escrowVars, disputeVars, moneyVars
  <2>4. \A e \in Ids : Undisturbed(e)
    BY <2>3 DEF Undisturbed
  <2>. QED
    BY <2>2, <2>3, <2>4, UndisturbedBooks DEF PlanInv, PlanType, PlanBooks
<1>2. CASE MilestoneStep
  <2>1. ASSUME NEW e \in Created, NEW i \in DOMAIN milestones[e], NEW caller \in Addr,
               ApproveMilestone(e, caller, i)
        PROVE  PlanInv'
    BY <2>1, ApproveMilestonePlan
  <2>2. ASSUME NEW e \in Created, NEW i \in DOMAIN stages[e], SubmitMilestone(e, i)
        PROVE  PlanInv'
    <3>. DEFINE from == {"Pending", "Rejected"}
                to == "Submitted"
    <3>1. from \subseteq {"Pending", "Rejected", "Submitted"} /\ to \in {"Submitted", "Rejected"}
      OBVIOUS
    <3>2. StageStep(e, i, from, to) /\ UNCHANGED vars
      BY <2>2 DEF SubmitMilestone
    <3>. HIDE DEF from, to
    <3>. QED
      BY <3>1, <3>2, StageStepPlan
  <2>3. ASSUME NEW e \in Created, NEW i \in DOMAIN stages[e], RejectMilestone(e, i)
        PROVE  PlanInv'
    <3>. DEFINE from == {"Submitted"}
                to == "Rejected"
    <3>1. from \subseteq {"Pending", "Rejected", "Submitted"} /\ to \in {"Submitted", "Rejected"}
      OBVIOUS
    <3>2. StageStep(e, i, from, to) /\ UNCHANGED vars
      BY <2>3 DEF RejectMilestone
    <3>. HIDE DEF from, to
    <3>. QED
      BY <3>1, <3>2, StageStepPlan
  <2>4. ASSUME NEW e \in Created, NEW i \in DOMAIN stages[e], NEW caller \in Addr,
               ApproveProportionalMilestone(e, caller, i)
        PROVE  PlanInv'
    BY <2>4, ApproveProportionalPlan
  <2>. QED
    BY <1>2, <2>1, <2>2, <2>3, <2>4 DEF MilestoneStep
<1>3. CASE PlanNext /\ ~MilestoneStep
  BY <1>3, NextPlan, CreateMilestonePlan, CreateBpsMilestonePlan DEF PlanNext, MilestoneNext
<1>. QED
  BY <1>1, <1>2, <1>3

LEMMA PlanCorrect == PlanSpec => []PlanInv
<1>1. MilestonesInit => PlanInv
  BY InitPlan
<1>2. PlanInv /\ [PlanNext /\ UNCHANGED requestVars]_<<vars, requestVars, planVars>> => PlanInv'
  BY StepPlan
<1>. QED
  BY <1>1, <1>2, PTL DEF PlanSpec

(* As long as milestones alone move the tokens of the escrows that have     *)
(* them, an undisputed escrow has paid the sum of its approved milestones,  *)
(* and approve_milestone has paid all of the deposit when it ends it.       *)
THEOREM MilestonesAddUpAlways == PlanSpec => []MilestonesAddUp
<1>1. PlanInv => MilestonesAddUp
  BY DEF PlanInv, PlanBooks, MilestoneBook, MilestonesAddUp
<1>. QED
  BY <1>1, PlanCorrect, PTL

(* And stages approved in whatever order, however often rejected and        *)
(* submitted again, pay the deposit in full once all of them are approved:  *)
(* rounding of approve_proportional_milestone leaves nothing behind.        *)
THEOREM StagesLeaveNothingAlways == PlanSpec => []StagesLeaveNothing
<1>1. PlanInv => StagesLeaveNothing
  BY DEF PlanInv, PlanBooks, StageBook, StagesLeaveNothing
<1>. QED
  BY <1>1, PlanCorrect, PTL

=============================================================================
