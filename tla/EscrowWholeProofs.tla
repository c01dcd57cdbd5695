--------------------------- MODULE EscrowWholeProofs ---------------------------
(***************************************************************************)
(* The whole escrow contract, for every value of the constants: the work   *)
(* on record of a bounty is its solver's, and an escrow without milestones *)
(* that its own deposits cover stays covered but for four known steps.     *)
(*                                                                         *)
(* Of all the entry points only the bounties' own make an escrow a bounty, *)
(* and only they change who works on one (Apart, shown group by group):    *)
(* escrows and bounties share ids, and most calls look at nothing but the  *)
(* status.  Then the bounties' own entry points are gone through.          *)
(*                                                                         *)
(* For the balance, every step is shown to be lawful for every escrow:     *)
(* either what was received, paid and owed move together (Even), or        *)
(* tranches are claimed alone (Claims), or the step is a known one. The    *)
(* sums of the claimed tranches are then related by the lemmas of SumFacts.*)
(***************************************************************************)
EXTENDS EscrowWhole, SumFacts

Bountied == {"BountyUnclaimed", "BountyClaimed"}

(* The records the argument reads.  In the whole contract an escrow may be  *)
(* paid from another one's deposit, so no invariant of the amounts is used. *)
Entry(r) == {"status", "seller"} \subseteq DOMAIN r

Filed ==
  /\ nextId \in 0 .. MaxEscrows
  /\ DOMAIN escrow = Ids /\ \A f \in Ids : Entry(escrow[f])

BountyFiled == DOMAIN bounty = Ids /\ \A f \in Ids : "submission" \in DOMAIN bounty[f]

SolversInv == Filed /\ BountyFiled /\ SubmissionIsSolvers

(* A record that r may be replaced by: no bounty, or one as it was.         *)
Fits(r, s) ==
  Entry(s) /\ (s.status \in Bountied => s.status = r.status /\ s.seller = r.seller)

(* A step that makes no bounty and hands none over.                         *)
Apart == Filed' /\ \A f \in Ids : Fits(escrow[f], escrow'[f])

-----------------------------------------------------------------------------
(* Steps of this kind, by what they write.                                  *)

LEMMA CreatedIds ==
  ASSUME Filed, NEW e \in Created
  PROVE  e \in Ids
BY BoundsAssumption DEF Filed, Created, Ids

LEMMA KindsApart ==
  /\ (Terminal \cup Live \cup {"None", "UnderCollateralized"}) \cap Bountied = {}
  /\ \A e, percent : VerdictStatus(percent) \notin Bountied
BY DEF Terminal, Live, Open, InDispute, Bountied, VerdictStatus

LEMMA UntouchedApart ==
  ASSUME Filed, UNCHANGED <<nextId, escrow>>
  PROVE  Apart
BY DEF Filed, Apart, Fits

LEMMA RecordApart ==
  ASSUME Filed, NEW e \in Ids, NEW r, Fits(escrow[e], r),
         escrow' = [escrow EXCEPT ![e] = r], UNCHANGED nextId
  PROVE  Apart
<1>1. DOMAIN escrow' = Ids /\ escrow'[e] = r /\ \A f \in Ids : f # e => escrow'[f] = escrow[f]
  BY DEF Filed
<1>2. \A f \in Ids : Fits(escrow[f], escrow'[f])
  BY <1>1 DEF Filed, Fits
<1>. QED
  BY <1>1, <1>2 DEF Filed, Apart, Fits

LEMMA StatusFits ==
  ASSUME NEW r, Entry(r), NEW status, status \notin Bountied
  PROVE  Fits(r, [r EXCEPT !.status = status])
BY DEF Entry, Fits

LEMMA StatusApart ==
  ASSUME Filed, NEW e \in Ids, NEW status, status \notin Bountied,
         escrow' = [escrow EXCEPT ![e].status = status], UNCHANGED nextId
  PROVE  Apart
<1>. DEFINE r == [escrow[e] EXCEPT !.status = status]
<1>1. escrow' = [escrow EXCEPT ![e] = r]
  OBVIOUS
<1>2. Fits(escrow[e], r)
  BY StatusFits DEF Filed
<1>. HIDE DEF r
<1>. QED
  BY <1>1, <1>2, RecordApart

LEMMA SettleApart ==
  ASSUME Filed, NEW e \in Ids, NEW status, status \notin Bountied, NEW b, NEW s,
         Settle(e, status, b, s)
  PROVE  Apart
BY StatusApart DEF Settle

LEMMA RewriteApart ==
  ASSUME Filed, NEW e \in Ids, NEW r, Fits(escrow[e], r), Rewrite(e, r)
  PROVE  Apart
BY RecordApart DEF Rewrite

LEMMA RestatedApart ==
  ASSUME Filed, NEW e \in Ids, NEW status, status \notin Bountied,
         Rewrite(e, WithStatus(e, status))
  PROVE  Apart
<1>1. Fits(escrow[e], WithStatus(e, status))
  BY StatusFits DEF Filed, WithStatus
<1>. QED
  BY <1>1, RewriteApart

(* A new escrow is none of the bounties, even when it takes the id of one.  *)
LEMMA StoreApart ==
  ASSUME Filed, NEW r, NEW status, status \notin Bountied, Store(r, status)
  PROVE  Apart
<1>1. nextId \in Ids /\ nextId' \in 0 .. MaxEscrows
  BY BoundsAssumption DEF Store, Filed, Ids
<1>. DEFINE new == [status |-> status, buyer |-> r.buyer, seller |-> r.seller,
        amount |-> r.amount, original |-> r.amount, createdAt |-> now,
        deadline |-> r.deadline, inspector |-> r.inspector,
        autoRenew |-> r.autoRenew, renewalsRemaining |-> r.renewalCount,
        renewalsCompleted |-> 0, acknowledged |-> TRUE]
<1>2. escrow' = [escrow EXCEPT ![nextId] = new]
  BY DEF Store
<1>3. Entry(new) /\ new.status \notin Bountied
  BY DEF Entry
<1>. HIDE DEF new
<1>4. DOMAIN escrow' = Ids /\ \A f \in Ids : escrow'[f] = new \/ escrow'[f] = escrow[f]
  BY <1>2 DEF Filed
<1>. QED
  BY <1>1, <1>3, <1>4 DEF Filed, Apart, Fits

LEMMA CoreApart ==
  ASSUME Filed, NEW r, CreateCore(r, "Active")
  PROVE  Apart
<1>. DEFINE active == "Active"
<1>1. active \notin Bountied /\ Store(r, active)
  BY DEF Bountied, CreateCore
<1>. HIDE DEF active
<1>. QED
  BY <1>1, StoreApart

-----------------------------------------------------------------------------
(* The entry points of Escrow.                                              *)

LEMMA CreationApart ==
  ASSUME Filed, CreationNext
  PROVE  Apart
<1>1. PICK r \in Requests : Creation(r)
  BY DEF CreationNext
<1>2. PICK status \in {"Active", "AwaitingCollateral"} : Store(r, status)
  BY <1>1 DEF Creation, CreateEscrow, CreateEscrowWithInspector, CreateMultiSellerEscrow,
              CreateMultiBuyerEscrow, CreateCore
<1>3. status \notin Bountied
  BY <1>2 DEF Bountied
<1>. QED
  BY <1>2, <1>3, StoreApart

LEMMA RenewApart ==
  ASSUME Filed, NEW e \in Ids, NEW deadline, NEW remaining, NEW completed, NEW timers,
         Renew(e, Successor(e, deadline, remaining, completed), timers)
  PROVE  Apart
<1>. DEFINE next == Successor(e, deadline, remaining, completed)
            old == [escrow[e] EXCEPT !.status = "Released"]
<1>1. nextId' \in 0 .. MaxEscrows
  BY BoundsAssumption DEF Renew, Filed
<1>2. Entry(escrow[e])
  BY DEF Filed
<1>3. Entry(next) /\ next.status \notin Bountied
  BY <1>2 DEF Successor, Entry, Bountied
<1>4. Entry(old) /\ old.status \notin Bountied
  BY <1>2 DEF Entry, Bountied
<1>5. escrow' = [[escrow EXCEPT ![e] = old] EXCEPT ![nextId] = next]
  BY DEF Renew, Released
<1>. HIDE DEF next, old
<1>6. /\ DOMAIN escrow' = Ids
      /\ \A f \in Ids : escrow'[f] \in {next, old} \/ escrow'[f] = escrow[f]
  BY <1>5 DEF Filed
<1>. QED
  BY <1>1, <1>3, <1>4, <1>6 DEF Filed, Apart, Fits

LEMMA ReleaseEscrowApart ==
  ASSUME Filed, NEW e \in Ids, NEW caller, ReleaseEscrow(e, caller)
  PROVE  Apart
<1>. DEFINE timers == TouchedBy(e, caller)
<1>1. CASE ReleaseOnly(e, timers)
  <2>. DEFINE status == "Released"
  <2>1. status \notin Bountied /\ escrow' = [escrow EXCEPT ![e].status = status]
    BY <1>1 DEF ReleaseOnly, Released, Bountied
  <2>2. UNCHANGED nextId
    BY <1>1 DEF ReleaseOnly
  <2>. HIDE DEF status
  <2>. QED
    BY <2>1, <2>2, StatusApart
<1>2. CASE RenewConfigured(e, timers)
  BY <1>2, RenewApart DEF RenewConfigured
<1>3. CASE RenewLegacy(e, timers)
  BY <1>3, RenewApart DEF RenewLegacy
<1>. QED
  BY <1>1, <1>2, <1>3 DEF ReleaseEscrow

LEMMA HoldingApart ==
  ASSUME Filed, NEW e \in Ids, NEW x, NEW status, status \notin Bountied,
         escrow' = [escrow EXCEPT ![e] = Holding(e, x, status)], UNCHANGED nextId
  PROVE  Apart
<1>1. Fits(escrow[e], Holding(e, x, status))
  BY DEF Holding, Fits, Filed, Entry
<1>. QED
  BY <1>1, RecordApart

LEMMA ReleaseApart ==
  ASSUME Filed, ReleaseNext
  PROVE  Apart
<1>1. PICK e \in Created :
        \/ DepositCollateral(e)
        \/ \E caller \in Addr : ApproveMultiBuyerRelease(e, caller)
        \/ \E caller \in Addr : ReleaseEscrow(e, caller)
        \/ \E caller \in Addr, x \in Amounts : PartialRelease(e, caller, x)
        \/ AutoReleaseExpired(e)
        \/ ClaimInactivityRelease(e)
        \/ CheckAndReleaseEscrow(e)
  BY DEF ReleaseNext
<1>2. e \in Ids
  BY CreatedIds
<1>3. CASE DepositCollateral(e)
  <2>1. PICK status \in {"Active"} : escrow' = [escrow EXCEPT ![e].status = status]
    BY <1>3 DEF DepositCollateral
  <2>. QED
    BY <1>2, <1>3, <2>1, StatusApart DEF DepositCollateral, Bountied
<1>4. CASE \E caller \in Addr : ApproveMultiBuyerRelease(e, caller)
  BY <1>4, UntouchedApart DEF ApproveMultiBuyerRelease
<1>5. CASE \E caller \in Addr : ReleaseEscrow(e, caller)
  BY <1>2, <1>5, ReleaseEscrowApart
<1>6. ASSUME NEW caller \in Addr, NEW x \in Amounts, PartialRelease(e, caller, x)
      PROVE  Apart
  <2>1. PICK status \in {"Released", "PartiallyReleased"} :
          escrow' = [escrow EXCEPT ![e] = Holding(e, escrow[e].amount - x, status)]
    BY <1>6 DEF PartialRelease
  <2>2. status \notin Bountied /\ UNCHANGED nextId
    BY <1>6, <2>1 DEF PartialRelease, Bountied
  <2>. QED
    BY <1>2, <2>1, <2>2, HoldingApart
<1>7. CASE AutoReleaseExpired(e) \/ ClaimInactivityRelease(e) \/ CheckAndReleaseEscrow(e)
  <2>1. PICK status \in Terminal : \E b, s : Settle(e, status, b, s)
    BY <1>7 DEF AutoReleaseExpired, ClaimInactivityRelease, CheckAndReleaseEscrow, Terminal
  <2>. QED
    BY <1>2, <2>1, SettleApart, KindsApart
<1>. QED
  BY <1>1, <1>3, <1>4, <1>5, <1>6, <1>7

LEMMA RenewalApart ==
  ASSUME Filed, RenewalNext
  PROVE  Apart
<1>1. PICK e \in Created :
        \/ \E n \in 0 .. MaxEscrows : SetRenewalAllowance(e, n)
        \/ CancelAutoRenew(e)
        \/ CancelAutoRenewal(e)
  BY DEF RenewalNext
<1>2. e \in Ids
  BY CreatedIds
<1>3. CASE (\E n \in 0 .. MaxEscrows : SetRenewalAllowance(e, n)) \/ CancelAutoRenewal(e)
  BY <1>3, UntouchedApart DEF SetRenewalAllowance, CancelAutoRenewal, escrowVars
<1>4. CASE CancelAutoRenew(e)
  <2>. DEFINE r == [escrow[e] EXCEPT !.autoRenew = FALSE, !.renewalsRemaining = 0]
  <2>1. Fits(escrow[e], r)
    BY <1>2 DEF Filed, Entry, Fits
  <2>2. escrow' = [escrow EXCEPT ![e] = r] /\ UNCHANGED nextId
    BY <1>4 DEF CancelAutoRenew
  <2>. HIDE DEF r
  <2>. QED
    BY <1>2, <2>1, <2>2, RecordApart
<1>. QED
  BY <1>1, <1>3, <1>4

LEMMA ConditionApart ==
  ASSUME Filed, ConditionNext
  PROVE  Apart
<1>1. PICK e \in Created :
        \/ SetConditionalRelease(e)
        \/ \E caller \in Addr : TriggerConditionalRelease(e, caller)
        \/ \E caller \in Addr : WaiveReleaseCondition(e, caller)
        \/ \E holder \in Addr : TransferEscrowReceipt(e, holder)
        \/ \E caller \in Addr : UpdateMetadata(e, caller)
  BY DEF ConditionNext
<1>2. e \in Ids
  BY CreatedIds
<1>3. CASE \E caller \in Addr : TriggerConditionalRelease(e, caller)
  BY <1>2, <1>3, ReleaseEscrowApart DEF TriggerConditionalRelease
<1>4. CASE \/ SetConditionalRelease(e)
           \/ \E caller \in Addr : WaiveReleaseCondition(e, caller)
           \/ \E holder \in Addr : TransferEscrowReceipt(e, holder)
           \/ \E caller \in Addr : UpdateMetadata(e, caller)
  BY <1>4, UntouchedApart DEF SetConditionalRelease, WaiveReleaseCondition,
     TransferEscrowReceipt, UpdateMetadata, escrowVars
<1>. QED
  BY <1>1, <1>3, <1>4

LEMMA DisputeApart ==
  ASSUME Filed, DisputeNext
  PROVE  Apart
<1>1. PICK e \in Created :
        \/ \E caller \in Addr, x \in Amounts : DisputeEscrow(e, caller, x)
        \/ \E percent \in Percents : ResolveDispute(e, percent)
        \/ \E percent \in Percents : RecordVerdict(e, percent)
        \/ \E caller \in Addr : FlagResolutionError(e, caller)
        \/ FinalizeResolution(e)
        \/ ClearResolutionFlag(e)
        \/ EnforceDisputeTimeout(e)
  BY DEF DisputeNext
<1>2. e \in Ids
  BY CreatedIds
<1>3. ASSUME NEW caller \in Addr, NEW x \in Amounts, DisputeEscrow(e, caller, x)
      PROVE  Apart
  <2>1. PICK status \in InDispute : escrow' = [escrow EXCEPT ![e] = Holding(e, x, status)]
    BY <1>3 DEF DisputeEscrow, InDispute
  <2>2. status \notin Bountied /\ UNCHANGED nextId
    BY <1>3, <2>1 DEF DisputeEscrow, InDispute, Bountied
  <2>. QED
    BY <1>2, <2>1, <2>2, HoldingApart
<1>4. CASE (\E percent \in Percents : ResolveDispute(e, percent)) \/ FinalizeResolution(e)
  <2>1. PICK percent : ExecuteVerdict(e, percent)
    BY <1>4 DEF ResolveDispute, FinalizeResolution
  <2>. QED
    BY <1>2, <2>1, StatusApart, KindsApart DEF ExecuteVerdict
<1>5. CASE \E percent \in Percents : RecordVerdict(e, percent)
  <2>1. PICK status \in {"CoolingOff"} : escrow' = [escrow EXCEPT ![e].status = status]
    BY <1>5 DEF RecordVerdict
  <2>. QED
    BY <1>2, <1>5, <2>1, StatusApart DEF RecordVerdict, Bountied
<1>6. CASE (\E caller \in Addr : FlagResolutionError(e, caller)) \/ ClearResolutionFlag(e)
  BY <1>6, UntouchedApart DEF FlagResolutionError, ClearResolutionFlag, escrowVars
<1>7. CASE EnforceDisputeTimeout(e)
  <2>1. PICK status \in Terminal : \E b, s : Settle(e, status, b, s)
    BY <1>7 DEF EnforceDisputeTimeout, Terminal
  <2>. QED
    BY <1>2, <2>1, SettleApart, KindsApart
<1>. QED
  BY <1>1, <1>3, <1>4, <1>5, <1>6, <1>7

LEMMA CancellationApart ==
  ASSUME Filed, CancellationNext
  PROVE  Apart
<1>1. PICK e \in Created :
        \/ \E caller \in Addr : RequestCancellation(e, caller)
        \/ \E caller \in Addr : AcceptCancellation(e, caller)
        \/ \E caller \in Addr : RejectCancellation(e, caller)
        \/ AcceptExpiredCancellation(e)
        \/ ExpireCancellation(e)
  BY DEF CancellationNext
<1>2. e \in Ids
  BY CreatedIds
<1>3. CASE \E caller \in Addr : AcceptCancellation(e, caller)
  <2>1. PICK status \in {"Refunded"} : escrow' = [escrow EXCEPT ![e].status = status]
    BY <1>3 DEF AcceptCancellation
  <2>. QED
    BY <1>2, <1>3, <2>1, StatusApart DEF AcceptCancellation, Bountied
<1>4. CASE \/ \E caller \in Addr : RequestCancellation(e, caller) \/ RejectCancellation(e, caller)
           \/ AcceptExpiredCancellation(e) \/ ExpireCancellation(e)
  <2>1. PICK status \in {"CancellationPending", "Active"} : Rewrite(e, WithStatus(e, status))
    BY <1>4 DEF RequestCancellation, RejectCancellation, AcceptExpiredCancellation,
                ExpireCancellation, Reopen
  <2>2. status \notin Bountied
    BY <2>1 DEF Bountied
  <2>. QED
    BY <1>2, <2>1, <2>2, RestatedApart
<1>. QED
  BY <1>1, <1>3, <1>4

(* The calls about terms ask only that e has not ended, and e may be a      *)
(* bounty.                                                                  *)
LEMMA AmendApart ==
  ASSUME Filed, NEW e \in Ids, Amend(e)
  PROVE  Apart
<1>. DEFINE a == amendment[e]
            change == IF a.amount = Unset THEN 0 ELSE a.amount - escrow[e].amount
            r == [escrow[e] EXCEPT !.amount = @ + change,
                              !.deadline = IF a.deadline = Unset THEN @ ELSE a.deadline]
<1>1. Fits(escrow[e], r)
  BY DEF Filed, Entry, Fits
<1>2. escrow' = [escrow EXCEPT ![e] = r] /\ UNCHANGED nextId
  BY DEF Amend
<1>. HIDE DEF r
<1>. QED
  BY <1>1, <1>2, RecordApart

LEMMA TermsApart ==
  ASSUME Filed, NEW e \in Ids,
         \/ \E caller \in Addr, d \in Times : ProposeDeadlineExtension(e, caller, d)
         \/ \E caller \in Addr : AcceptDeadlineExtension(e, caller)
         \/ \E caller \in Addr, x \in Amounts \cup {Unset}, d \in Times \cup {Unset} :
              ProposeAmendment(e, caller, x, d)
         \/ \E caller \in Addr, n \in 0 .. MaxRounds : SignAmendment(e, caller, n)
         \/ \E n \in 0 .. MaxRounds : ApplyAmendment(e, n)
  PROVE  Apart
<1>1. CASE \/ \E caller \in Addr, d \in Times : ProposeDeadlineExtension(e, caller, d)
           \/ \E caller \in Addr, x \in Amounts \cup {Unset}, d \in Times \cup {Unset} :
                ProposeAmendment(e, caller, x, d)
  BY <1>1, UntouchedApart DEF ProposeDeadlineExtension, ProposeAmendment, escrowVars
<1>2. CASE \E caller \in Addr : AcceptDeadlineExtension(e, caller)
  <2>. DEFINE r == [escrow[e] EXCEPT !.deadline = extension[e].deadline]
  <2>1. Fits(escrow[e], r)
    BY DEF Filed, Entry, Fits
  <2>2. Rewrite(e, r)
    BY <1>2 DEF AcceptDeadlineExtension
  <2>. HIDE DEF r
  <2>. QED
    BY <2>1, <2>2, RewriteApart
<1>3. ASSUME NEW caller \in Addr, NEW n \in 0 .. MaxRounds, SignAmendment(e, caller, n)
      PROVE  Apart
  <2>1. Amend(e) \/ UNCHANGED escrowVars
    BY <1>3 DEF SignAmendment
  <2>. QED
    BY <2>1, AmendApart, UntouchedApart DEF escrowVars
<1>4. CASE \E n \in 0 .. MaxRounds : ApplyAmendment(e, n)
  BY <1>4, AmendApart DEF ApplyAmendment
<1>. QED
  BY <1>1, <1>2, <1>3, <1>4

LEMMA AmendmentApart ==
  ASSUME Filed, AmendmentNext
  PROVE  Apart
<1>1. PICK e \in Created :
        \/ \/ \E caller \in Addr, d \in Times : ProposeDeadlineExtension(e, caller, d)
           \/ \E caller \in Addr : AcceptDeadlineExtension(e, caller)
           \/ \E caller \in Addr, x \in Amounts \cup {Unset}, d \in Times \cup {Unset} :
                ProposeAmendment(e, caller, x, d)
           \/ \E caller \in Addr, n \in 0 .. MaxRounds : SignAmendment(e, caller, n)
           \/ \E n \in 0 .. MaxRounds : ApplyAmendment(e, n)
        \/ \E x \in Amounts : TopUpEscrow(e, x)
        \/ AcknowledgeTopup(e)
  BY DEF AmendmentNext
<1>2. e \in Ids
  BY CreatedIds
<1>3. ASSUME NEW x \in Amounts, TopUpEscrow(e, x)
      PROVE  Apart
  <2>. DEFINE r == [escrow[e] EXCEPT !.amount = @ + x, !.acknowledged = FALSE]
  <2>1. Fits(escrow[e], r)
    BY <1>2 DEF Filed, Entry, Fits
  <2>2. escrow' = [escrow EXCEPT ![e] = r] /\ UNCHANGED nextId
    BY <1>3 DEF TopUpEscrow
  <2>. HIDE DEF r
  <2>. QED
    BY <1>2, <2>1, <2>2, RecordApart
<1>4. CASE AcknowledgeTopup(e)
  <2>. DEFINE r == [escrow[e] EXCEPT !.acknowledged = TRUE]
  <2>1. Fits(escrow[e], r)
    BY <1>2 DEF Filed, Entry, Fits
  <2>2. Rewrite(e, r)
    BY <1>4 DEF AcknowledgeTopup
  <2>. HIDE DEF r
  <2>. QED
    BY <1>2, <2>1, <2>2, RewriteApart
<1>. QED
  BY <1>1, <1>2, <1>3, <1>4, TermsApart

LEMMA PartyApart ==
  ASSUME Filed, PartyNext
  PROVE  Apart
<1>1. PICK e \in Created :
        \/ \E newBuyer \in Addr : TransferBuyerRole(e, newBuyer)
        \/ \E newSeller \in Addr : TransferSellerRole(e, newSeller)
        \/ ApproveSellerTransfer(e)
        \/ ExpireSellerTransferVeto(e)
        \/ VetoSellerTransfer(e)
  BY DEF PartyNext
<1>2. e \in Ids
  BY CreatedIds
<1>3. ASSUME NEW newBuyer \in Addr, TransferBuyerRole(e, newBuyer)
      PROVE  Apart
  <2>. DEFINE r == [escrow[e] EXCEPT !.buyer = newBuyer]
  <2>1. Fits(escrow[e], r)
    BY <1>2 DEF Filed, Entry, Fits
  <2>2. Rewrite(e, r)
    BY <1>3 DEF TransferBuyerRole
  <2>. HIDE DEF r
  <2>. QED
    BY <1>2, <2>1, <2>2, RewriteApart
<1>4. CASE \E newSeller \in Addr : TransferSellerRole(e, newSeller)
  <2>1. PICK status \in {"AwaitingBuyerVetoDecision"} : Rewrite(e, WithStatus(e, status))
    BY <1>4 DEF TransferSellerRole
  <2>2. status \notin Bountied
    BY <2>1 DEF Bountied
  <2>. QED
    BY <1>2, <2>1, <2>2, RestatedApart
<1>5. CASE ApproveSellerTransfer(e) \/ ExpireSellerTransferVeto(e)
  <2>. DEFINE r == [escrow[e] EXCEPT !.status = "Active", !.seller = transfer[e].newSeller]
  <2>1. Fits(escrow[e], r)
    BY <1>2 DEF Filed, Entry, Fits, Bountied
  <2>2. Rewrite(e, r)
    BY <1>5 DEF ApproveSellerTransfer, ExpireSellerTransferVeto, ConcludeSellerTransfer
  <2>. HIDE DEF r
  <2>. QED
    BY <1>2, <2>1, <2>2, RewriteApart
<1>6. CASE VetoSellerTransfer(e)
  <2>1. PICK status \in Terminal : \E b, s : Settle(e, status, b, s)
    BY <1>6 DEF VetoSellerTransfer, Terminal
  <2>. QED
    BY <1>2, <2>1, SettleApart, KindsApart
<1>. QED
  BY <1>1, <1>3, <1>4, <1>5, <1>6

LEMMA InspectionApart ==
  ASSUME Filed, InspectionNext
  PROVE  Apart
<1>1. PICK e \in Created :
        \/ SellerMarkComplete(e)
        \/ \E approved \in BOOLEAN : SubmitInspectionReport(e, approved)
        \/ \E caller, insp \in Addr : ReplaceInspector(e, caller, insp)
        \/ AppealInspectorRuling(e)
  BY DEF InspectionNext
<1>2. e \in Ids
  BY CreatedIds
<1>3. CASE SellerMarkComplete(e) \/ \E approved \in BOOLEAN : SubmitInspectionReport(e, approved)
  <2>1. PICK status \in {"AwaitingInspection", "InspectionPassed", "InspectionFailed"} :
          Rewrite(e, WithStatus(e, status))
    BY <1>3 DEF SellerMarkComplete, SubmitInspectionReport
  <2>2. status \notin Bountied
    BY <2>1 DEF Bountied
  <2>. QED
    BY <1>2, <2>1, <2>2, RestatedApart
<1>4. ASSUME NEW caller \in Addr, NEW insp \in Addr, ReplaceInspector(e, caller, insp)
      PROVE  Apart
  <2>. DEFINE r == [escrow[e] EXCEPT !.inspector = insp,
                 !.status = IF @ \in {"AwaitingInspection", "InspectionFailed"}
                            THEN "Active" ELSE @]
  <2>1. Fits(escrow[e], r)
    BY <1>2 DEF Filed, Entry, Fits, Bountied
  <2>2. Rewrite(e, r) \/ UNCHANGED escrowVars
    BY <1>4 DEF ReplaceInspector
  <2>. HIDE DEF r
  <2>. QED
    BY <1>2, <2>1, <2>2, RewriteApart, UntouchedApart DEF escrowVars
<1>5. CASE AppealInspectorRuling(e)
  BY <1>5, UntouchedApart DEF AppealInspectorRuling, escrowVars
<1>. QED
  BY <1>1, <1>3, <1>4, <1>5

LEMMA OtherApart ==
  ASSUME Filed, Tick \/ VetoNext \/ AdminNext
  PROVE  Apart
<1>1. UNCHANGED escrowVars
  BY DEF Tick, VetoNext, AdminNext, RaiseSellerVeto, AdminOverrideVeto, StampVeto,
     SetVetoCooldownSeconds, SetResolutionCooloff, UpdateDefaultDisputeTimeout,
     SetDefaultDisputeWinner, ConfigSet, WithdrawFees, PauseContract, ResumeContract
<1>. QED
  BY <1>1, UntouchedApart DEF escrowVars

LEMMA NextApart ==
  ASSUME Filed, Next
  PROVE  Apart
BY CreationApart, ReleaseApart, RenewalApart, ConditionApart, DisputeApart,
   CancellationApart, AmendmentApart, PartyApart, InspectionApart, OtherApart DEF Next

-----------------------------------------------------------------------------
(* The entry points of its other parts.                                     *)

LEMMA RequestApart ==
  ASSUME Filed, RequestNext
  PROVE  Apart
<1>1. PICK e \in Created :
        \/ \E x \in Amounts : RequestPartialRelease(e, x)
        \/ \E id \in 1 .. MaxRequests : ApprovePartialRelease(e, id)
        \/ \E id \in 1 .. MaxRequests : RejectPartialRelease(e, id)
        \/ EscalatePartialRelease(e)
  BY DEF RequestNext
<1>2. e \in Ids
  BY CreatedIds
<1>3. CASE \/ \E x \in Amounts : RequestPartialRelease(e, x)
           \/ \E id \in 1 .. MaxRequests : RejectPartialRelease(e, id)
  BY <1>3, UntouchedApart DEF RequestPartialRelease, RejectPartialRelease, vars, escrowVars
<1>4. CASE \E id \in 1 .. MaxRequests : ApprovePartialRelease(e, id)
  <2>. DEFINE r == [escrow[e] EXCEPT !.amount = @ - request[e].amount]
  <2>1. Fits(escrow[e], r)
    BY <1>2 DEF Filed, Entry, Fits
  <2>2. escrow' = [escrow EXCEPT ![e] = r] /\ UNCHANGED nextId
    BY <1>4 DEF ApprovePartialRelease
  <2>. HIDE DEF r
  <2>. QED
    BY <1>2, <2>1, <2>2, RecordApart
<1>5. CASE EscalatePartialRelease(e)
  <2>1. PICK status \in {"Disputed"} : escrow' = [escrow EXCEPT ![e].status = status]
    BY <1>5 DEF EscalatePartialRelease
  <2>. QED
    BY <1>2, <1>5, <2>1, StatusApart DEF EscalatePartialRelease, Bountied
<1>. QED
  BY <1>1, <1>3, <1>4, <1>5

(* The end of an escrow by its last part, or no end.                        *)
LEMMA EndedApart ==
  ASSUME Filed, NEW e \in Ids, escrow' = Released(e) \/ escrow' = escrow, UNCHANGED nextId
  PROVE  Apart
<1>. DEFINE status == "Released"
<1>1. status \notin Bountied
  BY DEF Bountied
<1>2. escrow' = [escrow EXCEPT ![e].status = status] \/ escrow' = escrow
  BY DEF Released
<1>. HIDE DEF status
<1>. QED
  BY <1>1, <1>2, StatusApart, UntouchedApart

LEMMA MilestoneApart ==
  ASSUME Filed, MilestoneNext
  PROVE  Apart
<1>1. CASE \E r \in Requests, list \in Schedules : CreateMilestoneEscrow(r, list)
  BY <1>1, CoreApart DEF CreateMilestoneEscrow
<1>2. CASE \E r \in Requests, list \in Shares : CreateBpsMilestoneEscrow(r, list)
  BY <1>2, CoreApart DEF CreateBpsMilestoneEscrow
<1>3. CASE MilestoneStep
  <2>1. PICK e \in Created :
          \/ \E i \in DOMAIN milestones[e], caller \in Addr : ApproveMilestone(e, caller, i)
          \/ \E i \in DOMAIN stages[e] :
               \/ SubmitMilestone(e, i)
               \/ RejectMilestone(e, i)
               \/ \E caller \in Addr : ApproveProportionalMilestone(e, caller, i)
    BY <1>3 DEF MilestoneStep
  <2>2. e \in Ids
    BY CreatedIds
  <2>3. /\ escrow' = Released(e) \/ escrow' = escrow
        /\ UNCHANGED nextId
    BY <2>1 DEF ApproveMilestone, ApproveProportionalMilestone, SubmitMilestone,
                RejectMilestone, vars, escrowVars
  <2>. QED
    BY <2>2, <2>3, EndedApart
<1>. QED
  BY <1>1, <1>2, <1>3 DEF MilestoneNext

LEMMA ScheduleApart ==
  ASSUME Filed, ScheduleNext
  PROVE  Apart
<1>1. CASE \/ \E r \in Requests, list \in Tranches : CreateEscrowWithSchedule(r, list)
           \/ \E r \in Requests : CreateTimelockedEscrow(r)
  BY <1>1, CoreApart DEF CreateEscrowWithSchedule, CreateTimelockedEscrow
<1>2. CASE ClaimStep
  <2>1. PICK e \in Created :
          \/ ClaimScheduledRelease(e)
          \/ \E i \in DOMAIN schedule[e] : ClaimScheduledTranche(e, i)
          \/ ClaimTimelocked(e)
          \/ CancelTimelocked(e)
    BY <1>2 DEF ClaimStep
  <2>2. e \in Ids
    BY CreatedIds
  <2>3. ASSUME NEW S, NEW n, NEW last, Claim(e, S, n, last)
        PROVE  Apart
    <3>1. PICK status \in {"Released", "PartiallyReleased"} :
            escrow' = [escrow EXCEPT ![e].status = status]
      BY <2>3 DEF Claim
    <3>2. status \notin Bountied /\ UNCHANGED nextId
      BY <2>3, <3>1 DEF Claim, Bountied
    <3>. QED
      BY <2>2, <3>1, <3>2, StatusApart
  <2>4. CASE ClaimScheduledRelease(e) \/ \E i \in DOMAIN schedule[e] : ClaimScheduledTranche(e, i)
    BY <2>3, <2>4 DEF ClaimScheduledRelease, ClaimScheduledTranche
  <2>5. CASE ClaimTimelocked(e) \/ CancelTimelocked(e)
    <3>1. PICK status \in Terminal : \E b, s : Settle(e, status, b, s)
      BY <2>5 DEF ClaimTimelocked, CancelTimelocked, TimelockOver, Terminal
    <3>. QED
      BY <2>2, <3>1, SettleApart, KindsApart
  <2>. QED
    BY <2>1, <2>4, <2>5
<1>. QED
  BY <1>1, <1>2 DEF ScheduleNext

LEMMA ApprovalApart ==
  ASSUME Filed, ApprovalNext
  PROVE  Apart
<1>1. PICK e \in Created :
        \/ \E ratio \in Ratios : SetCollateralHealthConfig(e, ratio)
        \/ CheckCollateralHealth(e)
        \/ \E x \in Amounts : TopUpCollateral(e, x)
        \/ \E list \in Panels : \E n \in DOMAIN list : SetMultipartyApproval(e, list, n)
        \/ \E approver \in Addr : ApproveRelease(e, approver)
  BY DEF ApprovalNext
<1>2. e \in Ids
  BY CreatedIds
<1>3. CASE \/ \E ratio \in Ratios : SetCollateralHealthConfig(e, ratio)
           \/ \E list \in Panels : \E n \in DOMAIN list : SetMultipartyApproval(e, list, n)
  BY <1>3, UntouchedApart DEF SetCollateralHealthConfig, SetMultipartyApproval, vars, escrowVars
<1>4. CASE CheckCollateralHealth(e)
  <2>1. PICK status \in {"UnderCollateralized", "Active"} : Rewrite(e, WithStatus(e, status))
    BY <1>4 DEF CheckCollateralHealth
  <2>2. status \notin Bountied
    BY <2>1 DEF Bountied
  <2>. QED
    BY <1>2, <2>1, <2>2, RestatedApart
<1>5. CASE \E x \in Amounts : TopUpCollateral(e, x)
  <2>1. PICK status \in {"Active"} :
          escrow' = [escrow EXCEPT ![e].status = status] \/ escrow' = escrow
    BY <1>5 DEF TopUpCollateral
  <2>2. status \notin Bountied /\ UNCHANGED nextId
    BY <1>5, <2>1 DEF TopUpCollateral, Bountied
  <2>. QED
    BY <1>2, <2>1, <2>2, StatusApart, UntouchedApart
<1>6. CASE \E approver \in Addr : ApproveRelease(e, approver)
  <2>1. /\ escrow' = Released(e) \/ escrow' = escrow
        /\ UNCHANGED nextId
    BY <1>6 DEF ApproveRelease, vars, escrowVars
  <2>. QED
    BY <1>2, <2>1, EndedApart
<1>. QED
  BY <1>1, <1>3, <1>4, <1>5, <1>6

-----------------------------------------------------------------------------
(* The entry points of bounties.                                            *)

LEMMA ApartSolvers ==
  ASSUME SolversInv, Apart, UNCHANGED bounty
  PROVE  SolversInv'
<1>1. ASSUME NEW f \in Ids, escrow'[f].status \in Bountied
      PROVE  escrow'[f].status = escrow[f].status /\ escrow'[f].seller = escrow[f].seller
  BY <1>1 DEF Apart, Fits
<1>2. SubmissionIsSolvers'
  BY <1>1 DEF SolversInv, SubmissionIsSolvers, Bountied
<1>. QED
  BY <1>2 DEF SolversInv, BountyFiled, Apart

(* What the invariant says of one id, of its two records r and b.           *)
Solved(r, b) ==
  /\ r.status = "BountyClaimed" => r.seller \in Addr /\ b.submission \in {NoAddr, r.seller}
  /\ r.status = "BountyUnclaimed" => r.seller = NoAddr /\ b.submission = NoAddr

(* g is f but for its value at e, which is r.                               *)
Puts(f, g, e, r) ==
  DOMAIN g = DOMAIN f /\ g[e] = r /\ \A x \in DOMAIN f : x # e => g[x] = f[x]

LEMMA PutsAt ==
  ASSUME NEW f, NEW e \in DOMAIN f, NEW r
  PROVE  Puts(f, [f EXCEPT ![e] = r], e, r) /\ Puts(f, f, e, f[e])
BY DEF Puts

LEMMA OneSolved ==
  ASSUME SolversInv, NEW e \in Ids, NEW r, NEW b, Entry(r), "submission" \in DOMAIN b,
         Solved(r, b), nextId' \in 0 .. MaxEscrows,
         Puts(escrow, escrow', e, r), Puts(bounty, bounty', e, b)
  PROVE  SolversInv'
<1>1. /\ DOMAIN escrow' = Ids /\ escrow'[e] = r /\ \A f \in Ids : f # e => escrow'[f] = escrow[f]
      /\ DOMAIN bounty' = Ids /\ bounty'[e] = b /\ \A f \in Ids : f # e => bounty'[f] = bounty[f]
  BY DEF SolversInv, Filed, BountyFiled, Puts
<1>2. \A f \in Ids : Solved(escrow[f], bounty[f])
  BY DEF SolversInv, SubmissionIsSolvers, Solved
<1>3. \A f \in Ids : Solved(escrow'[f], bounty'[f])
  BY <1>1, <1>2
<1>4. SubmissionIsSolvers'
  BY <1>3 DEF SubmissionIsSolvers, Solved
<1>. QED
  BY <1>1, <1>4 DEF SolversInv, Filed, BountyFiled

(* A bounty starts without a solver and without work, whoever had its id.   *)
LEMMA BountyBorn ==
  ASSUME SolversInv, NEW buyer, NEW amount, NEW claimBy, NEW submitBy,
         StoreBounty(buyer, amount, claimBy, submitBy)
  PROVE  SolversInv'
<1>. DEFINE r == [NoEscrow EXCEPT !.status = "BountyUnclaimed", !.buyer = buyer,
                        !.amount = amount, !.original = amount,
                        !.createdAt = now, !.deadline = submitBy]
            b == [NoBounty EXCEPT !.claimBy = claimBy, !.submitBy = submitBy]
<1>1. Entry(r) /\ "submission" \in DOMAIN b /\ Solved(r, b)
  BY DEF Entry, Solved, NoEscrow, NoBounty
<1>2. escrow' = [escrow EXCEPT ![BountyId] = r] /\ bounty' = [bounty EXCEPT ![BountyId] = b]
  BY DEF StoreBounty
<1>. HIDE DEF r, b
<1>3. BountyId \in Ids
  BY DEF StoreBounty
<1>4. nextId' \in 0 .. MaxEscrows
  BY <1>3, BoundsAssumption DEF StoreBounty, BountyId, Ids, SolversInv, Filed
<1>5. PICK q \in Ids : q = BountyId
  BY <1>3
<1>6. Puts(escrow, escrow', q, r) /\ Puts(bounty, bounty', q, b)
  BY <1>2, <1>5, PutsAt DEF SolversInv, Filed, BountyFiled
<1>. QED
  BY <1>1, <1>4, <1>5, <1>6, OneSolved

LEMMA BountyStepSolvers ==
  ASSUME SolversInv, BountyStep
  PROVE  SolversInv'
<1>1. PICK e \in Ids :
        \/ \E solver \in Addr : ClaimBounty(e, solver)
        \/ SubmitBountyWork(e)
        \/ ApproveBountySubmission(e)
        \/ RejectBountySubmission(e)
        \/ CancelBounty(e)
        \/ \E i \in DOMAIN steps[e] :
             \/ SubmitBountyMilestone(e, i)
             \/ VerifyBountyMilestone(e, i)
             \/ \E verifier \in Addr : ReplaceBountyVerifier(e, i, verifier)
  BY DEF BountyStep, Bounties
<1>2. /\ Filed /\ Entry(escrow[e]) /\ "submission" \in DOMAIN bounty[e]
      /\ Solved(escrow[e], bounty[e])
      /\ nextId \in 0 .. MaxEscrows
      /\ e \in DOMAIN escrow /\ e \in DOMAIN bounty
  BY DEF SolversInv, Filed, BountyFiled, SubmissionIsSolvers, Solved
<1>3. ASSUME NEW solver \in Addr, ClaimBounty(e, solver)
      PROVE  SolversInv'
  <2>. DEFINE r == [escrow[e] EXCEPT !.status = "BountyClaimed", !.seller = solver]
  <2>1. bounty[e].submission = NoAddr
    BY <1>2, <1>3 DEF ClaimBounty, Solved
  <2>2. Entry(r) /\ Solved(r, bounty[e])
    BY <1>2, <2>1 DEF Entry, Solved
  <2>3. escrow' = [escrow EXCEPT ![e] = r] /\ UNCHANGED <<nextId, bounty>>
    BY <1>3 DEF ClaimBounty, Rewrite, bountyVars
  <2>. HIDE DEF r
  <2>4. Puts(escrow, escrow', e, r) /\ Puts(bounty, bounty', e, bounty[e])
    BY <1>2, <2>3, PutsAt
  <2>. QED
    BY <1>2, <2>2, <2>3, <2>4, OneSolved
<1>4. CASE SubmitBountyWork(e)
  <2>. DEFINE b == [bounty[e] EXCEPT !.submission = escrow[e].seller]
  <2>1. "submission" \in DOMAIN b /\ Solved(escrow[e], b)
    BY <1>2, <1>4 DEF SubmitBountyWork, Solved
  <2>2. bounty' = [bounty EXCEPT ![e] = b] /\ UNCHANGED <<nextId, escrow>>
    BY <1>4 DEF SubmitBountyWork, vars, escrowVars
  <2>. HIDE DEF b
  <2>3. Puts(escrow, escrow', e, escrow[e]) /\ Puts(bounty, bounty', e, b)
    BY <1>2, <2>2, PutsAt
  <2>. QED
    BY <1>2, <2>1, <2>2, <2>3, OneSolved
<1>5. CASE RejectBountySubmission(e)
  <2>. DEFINE r == [escrow[e] EXCEPT !.status = "BountyUnclaimed", !.seller = NoAddr]
              b == Unassigned(e)
  <2>1. Entry(r) /\ "submission" \in DOMAIN b /\ Solved(r, b)
    BY <1>2 DEF Entry, Solved, Unassigned
  <2>2. /\ escrow' = [escrow EXCEPT ![e] = r] /\ bounty' = [bounty EXCEPT ![e] = b]
        /\ UNCHANGED nextId
    BY <1>5 DEF RejectBountySubmission, Rewrite
  <2>. HIDE DEF r, b
  <2>3. Puts(escrow, escrow', e, r) /\ Puts(bounty, bounty', e, b)
    BY <1>2, <2>2, PutsAt
  <2>. QED
    BY <1>2, <2>1, <2>2, <2>3, OneSolved
<1>6. CASE ApproveBountySubmission(e) \/ CancelBounty(e)
  <2>1. PICK status \in Terminal : \E b, s : Settle(e, status, b, s)
    BY <1>6 DEF ApproveBountySubmission, CancelBounty, Terminal
  <2>2. Apart
    BY <1>2, <2>1, SettleApart, KindsApart
  <2>. QED
    BY <1>6, <2>2, ApartSolvers DEF ApproveBountySubmission, CancelBounty, bountyVars
<1>7. ASSUME NEW i \in DOMAIN steps[e], VerifyBountyMilestone(e, i)
      PROVE  SolversInv'
  <2>. DEFINE b == [bounty[e] EXCEPT !.disbursed = @ + steps[e][i].amount]
              old == [escrow[e] EXCEPT !.status = "Released"]
  <2>1. "submission" \in DOMAIN b /\ b.submission = bounty[e].submission
    BY <1>2
  <2>2. \A r \in {escrow[e], old} : Entry(r) /\ Solved(r, b)
    BY <1>2, <2>1 DEF Entry, Solved
  <2>3. bounty' = [bounty EXCEPT ![e] = b] /\ UNCHANGED nextId
    BY <1>7 DEF VerifyBountyMilestone
  <2>4. escrow' = [escrow EXCEPT ![e] = old] \/ escrow' = escrow
    BY <1>7 DEF VerifyBountyMilestone, Released
  <2>. HIDE DEF old, b
  <2>5. PICK r \in {escrow[e], old} : Puts(escrow, escrow', e, r)
    BY <1>2, <2>4, PutsAt
  <2>6. Puts(bounty, bounty', e, b)
    BY <1>2, <2>3, PutsAt
  <2>. QED
    BY <1>2, <2>1, <2>2, <2>3, <2>5, <2>6, OneSolved
<1>8. ASSUME NEW i \in DOMAIN steps[e],
             SubmitBountyMilestone(e, i)
               \/ \E verifier \in Addr : ReplaceBountyVerifier(e, i, verifier)
      PROVE  SolversInv'
  <2>1. UNCHANGED <<nextId, escrow, bounty>>
    BY <1>8 DEF SubmitBountyMilestone, ReplaceBountyVerifier, vars, escrowVars
  <2>. QED
    BY <1>2, <2>1, UntouchedApart, ApartSolvers
<1>. QED
  BY <1>1, <1>3, <1>4, <1>5, <1>6, <1>7, <1>8

LEMMA BountyNextSolvers ==
  ASSUME SolversInv, BountyNext
  PROVE  SolversInv'
<1>1. CASE BountyCreation
  <2>1. \E buyer, amount, claimBy, submitBy : StoreBounty(buyer, amount, claimBy, submitBy)
    BY <1>1 DEF BountyCreation, CreateBounty, CreateMilestoneBounty
  <2>. QED
    BY <2>1, BountyBorn
<1>. QED
  BY <1>1, BountyStepSolvers DEF BountyNext

LEMMA BountyTermsApart ==
  ASSUME Filed, BountyTermsNext
  PROVE  Apart
<1>1. \E e \in Bounties :
        \/ \E caller \in Addr, d \in Times : ProposeDeadlineExtension(e, caller, d)
        \/ \E caller \in Addr : AcceptDeadlineExtension(e, caller)
        \/ \E caller \in Addr, x \in Amounts \cup {Unset}, d \in Times \cup {Unset} :
             ProposeAmendment(e, caller, x, d)
        \/ \E caller \in Addr, n \in 0 .. MaxRounds : SignAmendment(e, caller, n)
        \/ \E n \in 0 .. MaxRounds : ApplyAmendment(e, n)
  BY DEF BountyTermsNext
<1>. QED
  BY <1>1, TermsApart DEF Bounties

-----------------------------------------------------------------------------

LEMMA InitSolvers == BountiesInit => SolversInv
<1>. SUFFICES ASSUME BountiesInit PROVE SolversInv
  OBVIOUS
<1>1. InitBase /\ bounty = [e \in Ids |-> NoBounty]
  BY DEF BountiesInit, ApprovalsInit, SchedulesInit, MilestonesInit, RequestsInit
<1>2. nextId = 0 /\ escrow = [e \in Ids |-> NoEscrow]
  BY <1>1 DEF InitBase
<1>3. Entry(NoEscrow) /\ NoEscrow.status = "None" /\ "submission" \in DOMAIN NoBounty
  BY DEF Entry, NoEscrow, NoBounty
<1>4. 0 \in 0 .. MaxEscrows
  BY BoundsAssumption
<1>. QED
  BY <1>1, <1>2, <1>3, <1>4 DEF SolversInv, Filed, BountyFiled, SubmissionIsSolvers

LEMMA StepSolvers == SolversInv /\ [FullNext]_allVars => SolversInv'
<1>. SUFFICES ASSUME SolversInv, [FullNext]_allVars PROVE SolversInv'
  OBVIOUS
<1>1. Filed
  BY DEF SolversInv
<1>2. CASE (Next \/ BountyTermsNext \/ RequestNext \/ MilestoneNext \/ ScheduleNext
              \/ ApprovalNext) /\ UNCHANGED bountyVars
  <2>1. Apart
    BY <1>1, <1>2, NextApart, BountyTermsApart, RequestApart, MilestoneApart, ScheduleApart,
       ApprovalApart
  <2>. QED
    BY <1>2, <2>1, ApartSolvers DEF bountyVars
<1>3. CASE BountyNext
  BY <1>3, BountyNextSolvers
<1>4. CASE UNCHANGED allVars
  <2>1. UNCHANGED <<nextId, escrow, bounty>>
    BY <1>4 DEF allVars, vars, escrowVars, bountyVars
  <2>. QED
    BY <1>1, <2>1, UntouchedApart, ApartSolvers
<1>. QED
  BY <1>2, <1>3, <1>4 DEF FullNext

(* The work on record of a bounty is that of the solver an approval would   *)
(* pay, whatever the other entry points of the contract do in between       *)
(* (submit_bounty_work, reject_bounty_submission, approve_bounty_submission *)
(* of lib.rs).                                                              *)
THEOREM SubmissionIsSolversAlways == FullSpec => []SubmissionIsSolvers
<1>1. SolversInv => SubmissionIsSolvers
  BY DEF SolversInv
<1>. QED
  BY <1>1, InitSolvers, StepSolvers, PTL DEF FullSpec

-----------------------------------------------------------------------------
Standing == Live \cup {"UnderCollateralized"}
Kinds == Standing \cup Bountied \cup Terminal \cup {"None"}

(* What is owed over e when no tranche of it was claimed.                   *)
Own(e) ==
  IF escrow[e].status \in Standing THEN escrow[e].amount
  ELSE IF escrow[e].status \in Bountied THEN escrow[e].amount - bounty[e].disbursed
  ELSE 0

-----------------------------------------------------------------------------
(* The records the argument reads.  In the whole contract an escrow may be  *)
(* paid from another one's deposit, so the amounts are only integers.       *)

Account(r) ==
  /\ {"status", "buyer", "seller", "amount"} \subseteq DOMAIN r
  /\ r.status \in Kinds /\ r.amount \in Int

TermsEntry(t) ==
  /\ {"arbiterFee", "forfeitBps", "collateral"} \subseteq DOMAIN t
  /\ t.arbiterFee \in Int /\ t.forfeitBps \in Int /\ t.collateral \in Int

Proposal(a) == "amount" \in DOMAIN a /\ a.amount \in Int /\ (a.amount = Unset \/ a.amount > 0)

Offer(b) == {"claimBy", "disbursed"} \subseteq DOMAIN b /\ b.disbursed \in Int

(* A list of amounts, each with a flag or a status.                         *)
Listed(list, field) ==
  /\ IsFiniteSet(DOMAIN list)
  /\ \A i \in DOMAIN list :
       {"amount", field} \subseteq DOMAIN list[i] /\ list[i].amount \in Nat \ {0}

Shapes ==
  /\ now \in Nat /\ config \in Config /\ nextId \in 0 .. MaxEscrows
  /\ DOMAIN escrow = Ids /\ DOMAIN terms = Ids /\ DOMAIN collateral = Ids
  /\ DOMAIN received = Ids /\ DOMAIN paid = Ids /\ DOMAIN amendment = Ids
  /\ DOMAIN verdict = Ids /\ DOMAIN request = Ids /\ DOMAIN schedule = Ids
  /\ DOMAIN bounty = Ids /\ DOMAIN steps = Ids

Typed(f) ==
  /\ Account(escrow[f]) /\ TermsEntry(terms[f]) /\ Proposal(amendment[f])
  /\ collateral[f] \in Int /\ received[f] \in Int /\ paid[f] \in PaidRecord
  /\ verdict[f].percent \in Int /\ request[f].amount \in Int
  /\ Offer(bounty[f]) /\ Listed(schedule[f], "claimed") /\ Listed(steps[f], "status")

(* What an id has before its record, and a bounty before its id is reached  *)
(* by the counter.                                                          *)
Reached(f) ==
  /\ escrow[f].status = "None" =>
       /\ escrow[f].buyer = NoAddr /\ escrow[f].seller = NoAddr
       /\ amendment[f] = NoAmendment /\ request[f] = NoPartial
  /\ escrow[f].status = "AwaitingCollateral" => collateral[f] = 0
  /\ escrow[f].status \in Bountied => request[f] = NoPartial
  /\ f >= nextId => collateral[f] = 0 /\ request[f] = NoPartial /\ schedule[f] = <<>>
  /\ f >= nextId /\ bounty[f].claimBy = 0 => escrow[f].status = "None"
  /\ f > nextId => bounty[f].claimBy = 0 /\ steps[f] = <<>>

Counted(f) == bounty[f].disbursed = SumOf(Worths(steps[f]), PaidSteps(f))

Books(f) == Typed(f) /\ Reached(f) /\ Counted(f)

Ledgers == Shapes /\ \A f \in Ids : Books(f)

-----------------------------------------------------------------------------
(* The law of a step.                                                       *)

(* The escrow's own deposits cover what it owes after the step if they did  *)
(* before, tranches apart.                                                  *)
Even(f) ==
  /\ Own(f) >= 0 =>
       /\ Own(f)' >= 0
       /\ Held(f)' - Own(f)' - collateral'[f] = Held(f) - Own(f) - collateral[f]
  /\ schedule'[f] = schedule[f] \/ (Claimed(f) = {} /\ Claimed(f)' = {})

(* Tranches of f are claimed.                                               *)
Claims(f) ==
  /\ escrow[f].status \in Standing /\ escrow'[f].status \in Standing \cup {"Released"}
  /\ escrow'[f].amount = escrow[f].amount
  /\ received'[f] = received[f] /\ collateral'[f] = collateral[f]
  /\ Worths(schedule'[f]) = Worths(schedule[f])
  /\ \E S \in SUBSET (DOMAIN schedule[f] \ Claimed(f)) :
       /\ S # {} /\ Claimed(f)' = Claimed(f) \cup S
       /\ TotalPaid(f)' = TotalPaid(f) + TrancheSum(f, S)

Known(f) ==
  LateAnswer(f) \/ BountyMixed(f) \/ IdTaken(f) \/ milestones[f] # <<>> \/ stages[f] # <<>>

Law(f) == Books(f)' /\ (Even(f) \/ Claims(f) \/ Known(f))

Lawful == Shapes' /\ \A f \in Ids : Law(f)

-----------------------------------------------------------------------------
(* A step writes the records of a few escrows.                              *)

(* h is g but for its values in X.                                          *)
Put(g, h, X) == DOMAIN h = DOMAIN g /\ \A x \in DOMAIN g : x \notin X => h[x] = g[x]

LEMMA PutAt ==
  ASSUME NEW g, NEW e, NEW r, NEW X, e \in X
  PROVE  Put(g, g, X) /\ Put(g, [g EXCEPT ![e] = r], X)
BY DEF Put

Frames(X) ==
  /\ now' \in Nat /\ config' \in Config /\ nextId' \in 0 .. MaxEscrows /\ nextId' >= nextId
  /\ Put(escrow, escrow', X) /\ Put(terms, terms', X) /\ Put(collateral, collateral', X)
  /\ Put(received, received', X) /\ Put(paid, paid', X) /\ Put(amendment, amendment', X)
  /\ Put(verdict, verdict', X) /\ Put(request, request', X) /\ Put(schedule, schedule', X)
  /\ Put(bounty, bounty', X) /\ Put(steps, steps', X)

Same(f) ==
  /\ escrow'[f] = escrow[f] /\ terms'[f] = terms[f] /\ collateral'[f] = collateral[f]
  /\ received'[f] = received[f] /\ paid'[f] = paid[f] /\ amendment'[f] = amendment[f]
  /\ verdict'[f] = verdict[f] /\ request'[f] = request[f] /\ schedule'[f] = schedule[f]
  /\ bounty'[f] = bounty[f] /\ steps'[f] = steps[f]

LEMMA FramesSame ==
  ASSUME Shapes, NEW X, Frames(X)
  PROVE  Shapes' /\ \A f \in Ids : f \notin X => Same(f)
BY DEF Shapes, Frames, Put, Same

LEMMA OwnType ==
  ASSUME Ledgers, NEW f \in Ids
  PROVE  Own(f) \in Int /\ TotalPaid(f) \in Int /\ Held(f) \in Int
<1>1. TotalPaid(f) \in Int
  BY DEF Ledgers, Books, Typed, PaidRecord, TotalPaid
<1>. QED
  BY <1>1 DEF Ledgers, Books, Typed, Account, Offer, Own, Held

LEMMA IdType == \A f \in Ids : f \in Int
BY BoundsAssumption DEF Ids

LEMMA SameLaw ==
  ASSUME Ledgers, NEW f \in Ids, Same(f), nextId' \in Int, nextId' >= nextId
  PROVE  Law(f)
<1>1. Typed(f)'
  BY DEF Ledgers, Books, Typed, Same
<1>2. Reached(f)'
  <2>1. (f >= nextId' => f >= nextId) /\ (f > nextId' => f > nextId)
    BY IdType DEF Ledgers, Shapes
  <2>. QED
    BY <2>1 DEF Ledgers, Books, Reached, Same
<1>3. Counted(f)'
  BY DEF Ledgers, Books, Counted, PaidSteps, Same
<1>4. Even(f)
  <2>1. Own(f)' = Own(f) /\ Held(f)' = Held(f) /\ collateral'[f] = collateral[f]
    BY DEF Own, Held, TotalPaid, Same
  <2>. QED
    BY <2>1 DEF Even, Same
<1>. QED
  BY <1>1, <1>2, <1>3, <1>4 DEF Law, Books

LEMMA FramesLawful ==
  ASSUME Ledgers, NEW X, Frames(X), \A f \in Ids \cap X : Law(f)
  PROVE  Lawful
<1>1. Shapes' /\ \A f \in Ids : f \notin X => Same(f)
  BY FramesSame DEF Ledgers
<1>2. nextId' \in Int /\ nextId' >= nextId
  BY DEF Frames
<1>3. \A f \in Ids : f \notin X => Law(f)
  BY <1>1, <1>2, SameLaw
<1>. QED
  BY <1>1, <1>3 DEF Lawful

Untouched ==
  UNCHANGED <<nextId, escrow, terms, collateral, received, paid, amendment, verdict, request,
              schedule, bounty, steps>>

LEMMA UntouchedLawful ==
  ASSUME Ledgers, now' \in Nat, config' \in Config, Untouched
  PROVE  Lawful
<1>1. PICK X : X = {}
  OBVIOUS
<1>2. Frames(X)
  BY DEF Ledgers, Shapes, Untouched, Frames, Put
<1>. QED
  BY <1>1, <1>2, FramesLawful

-----------------------------------------------------------------------------
(* The law at e, from what the step takes in for e (q), pays out (p) and    *)
(* leaves as collateral.                                                    *)

Moves(e, q, p) ==
  /\ received'[e] = received[e] + q
  /\ TotalPaid(e)' = TotalPaid(e) + p
  /\ Own(e) >= 0 =>
       Own(e)' >= 0 /\ Own(e)' = Own(e) + q - p - (collateral'[e] - collateral[e])

LEMMA MovesEven ==
  ASSUME Ledgers, NEW e \in Ids, NEW q \in Int, NEW p \in Int, Moves(e, q, p),
         collateral'[e] \in Int, schedule'[e] = schedule[e]
  PROVE  Even(e)
<1>1. Own(e) \in Int /\ TotalPaid(e) \in Int /\ received[e] \in Int /\ collateral[e] \in Int
  BY OwnType DEF Ledgers, Books, Typed
<1>. DEFINE o == Own(e)'
            h == Held(e)'
            t == TotalPaid(e)'
<1>2. Held(e) = received[e] - TotalPaid(e) /\ h = received'[e] - t
  BY DEF Held
<1>3. o = Own(e)' /\ h = Held(e)' /\ t = TotalPaid(e)'
  OBVIOUS
<1>. HIDE DEF o, h, t
<1>4. CASE Own(e) >= 0
  <2>1. o >= 0 /\ o = Own(e) + q - p - (collateral'[e] - collateral[e])
    BY <1>3, <1>4 DEF Moves
  <2>2. received'[e] = received[e] + q /\ t = TotalPaid(e) + p
    BY <1>3 DEF Moves
  <2>3. h - o - collateral'[e] = Held(e) - Own(e) - collateral[e]
    BY <1>1, <1>2, <2>1, <2>2
  <2>. QED
    BY <1>3, <2>1, <2>3 DEF Even
<1>. QED
  BY <1>4 DEF Even

(* A call that looks at nothing but the core's records.                     *)
Beside(e) ==
  /\ request'[e] = request[e] /\ schedule'[e] = schedule[e]
  /\ bounty'[e] = bounty[e] /\ steps'[e] = steps[e]

(* The new records of e are sound, and the status is one the core gives.    *)
Writes(e) ==
  /\ nextId' \in Int /\ nextId' >= nextId
  /\ escrow[e].status # "None"
  /\ \/ escrow'[e].status = escrow[e].status
     \/ e < nextId /\ escrow'[e].status \in (Standing \ {"AwaitingCollateral"}) \cup Terminal
  /\ Account(escrow'[e]) /\ TermsEntry(terms'[e]) /\ Proposal(amendment'[e])
  /\ received'[e] \in Int /\ paid'[e] \in PaidRecord /\ verdict'[e].percent \in Int
  /\ collateral'[e] \in Int
  /\ \/ collateral'[e] = collateral[e]
     \/ e < nextId /\ escrow'[e].status # "AwaitingCollateral"

LEMMA WriteBooks ==
  ASSUME Ledgers, NEW e \in Ids, Writes(e), Beside(e)
  PROVE  Books(e)'
<1>1. Books(e) /\ e \in Int /\ nextId \in Int
  BY IdType DEF Ledgers, Shapes
<1>2. Typed(e)'
  BY <1>1 DEF Books, Typed, Writes, Beside
<1>3. Counted(e)'
  BY <1>1 DEF Books, Counted, PaidSteps, Beside
<1>4. Reached(e)'
  <2>1. /\ escrow[e].status # "None" /\ escrow'[e].status # "None"
        /\ escrow'[e].status \in Bountied => escrow[e].status \in Bountied
    BY DEF Writes, Bountied, Standing, Live, Open, InDispute, Terminal
  <2>2. escrow'[e].status = "AwaitingCollateral" => collateral'[e] = 0
    BY <1>1 DEF Books, Reached, Writes, Terminal
  <2>3. e >= nextId => collateral'[e] = collateral[e]
    BY <1>1 DEF Writes
  <2>4. (e >= nextId' => e >= nextId) /\ (e > nextId' => e > nextId)
    BY <1>1 DEF Writes
  <2>. QED
    BY <1>1, <2>1, <2>2, <2>3, <2>4 DEF Books, Reached, Beside
<1>. QED
  BY <1>2, <1>3, <1>4 DEF Books

LEMMA WriteLaw ==
  ASSUME Ledgers, NEW e \in Ids, Writes(e), Beside(e),
         NEW q \in Int, NEW p \in Int, Moves(e, q, p)
  PROVE  Law(e)
<1>1. Books(e)'
  BY WriteBooks
<1>2. Even(e)
  BY MovesEven DEF Writes, Beside
<1>. QED
  BY <1>1, <1>2 DEF Law

LEMMA PayAt ==
  ASSUME Ledgers, NEW e \in Ids, NEW b \in Int, NEW s \in Int, paid' = Pay(e, b, s)
  PROVE  /\ paid'[e] \in PaidRecord /\ TotalPaid(e)' = TotalPaid(e) + b + s
         /\ \A X : e \in X => Put(paid, paid', X)
<1>1. paid[e] \in PaidRecord /\ DOMAIN paid = Ids
  BY DEF Ledgers, Shapes, Books, Typed
<1>. DEFINE r == paid[e]
            n == [r EXCEPT !.buyer = @ + b, !.seller = @ + s]
<1>2. r.buyer \in Int /\ r.seller \in Int /\ r.arbiter \in Int /\ r.fee \in Int /\ r.penalty \in Int
  BY <1>1 DEF PaidRecord
<1>3. r.buyer + b \in Int /\ r.seller + s \in Int
  BY <1>2
<1>4. /\ n \in PaidRecord
      /\ n.buyer = r.buyer + b /\ n.seller = r.seller + s
      /\ n.arbiter = r.arbiter /\ n.fee = r.fee /\ n.penalty = r.penalty
  BY <1>1, <1>3 DEF PaidRecord
<1>5. paid'[e] = n
  BY <1>1 DEF Pay
<1>. HIDE DEF n
<1>6. TotalPaid(e)' = TotalPaid(e) + b + s
  BY <1>2, <1>4, <1>5 DEF TotalPaid
<1>. QED
  BY <1>4, <1>5, <1>6 DEF Pay, Put

LEMMA OneLawful ==
  ASSUME Ledgers, NEW e \in Ids, Frames({e}), Law(e)
  PROVE  Lawful
<1>1. PICK X : X = {e}
  OBVIOUS
<1>. QED
  BY <1>1, FramesLawful

LEMMA StandingKinds ==
  /\ Standing \cup Terminal \subseteq Kinds
  /\ Terminal \cap (Standing \cup Bountied) = {} /\ Standing \cap Bountied = {}
  /\ "None" \notin Standing \cup Terminal \cup Bountied
  /\ "AwaitingCollateral" \in Standing
  /\ Open \cup InDispute \subseteq Standing \ {"AwaitingCollateral"}
  /\ \A percent : VerdictStatus(percent) \in Terminal
BY DEF Standing, Terminal, Bountied, Live, Open, InDispute, Kinds, VerdictStatus

(* The records that a call of the core leaves alone.                        *)
Alone == UNCHANGED <<request, schedule, bounty, steps>>

LEMMA AloneBeside == Alone => \A e : Beside(e)
BY DEF Alone, Beside

LEMMA CreatedOnes ==
  ASSUME Ledgers, NEW e \in Created
  PROVE  e \in Ids /\ e < nextId /\ e \in Int
BY BoundsAssumption DEF Ledgers, Shapes, Created, Ids

(* A step that rewrites the record of e, amount and standing apart.         *)
LEMMA KeptLawful ==
  ASSUME Ledgers, NEW e \in Ids, NEW r, Account(r), r.amount = escrow[e].amount,
         \/ r.status = escrow[e].status /\ r.status # "None"
         \/ /\ e < nextId /\ escrow[e].status \in Standing
            /\ r.status \in Standing \ {"AwaitingCollateral"},
         escrow'[e] = r, Put(escrow, escrow', {e}),
         UNCHANGED <<now, config, nextId, terms, collateral, received, paid>>, Alone,
         Put(verdict, verdict', {e}), verdict'[e].percent \in Int,
         Put(amendment, amendment', {e}), Proposal(amendment'[e])
  PROVE  Lawful
<1>1. escrow'[e] = r /\ Put(escrow, escrow', {e})
  OBVIOUS
<1>2. Beside(e)
  BY AloneBeside
<1>3. Writes(e)
  BY <1>1, StandingKinds DEF Ledgers, Shapes, Books, Typed, Writes
<1>4. Moves(e, 0, 0)
  <2>1. Own(e)' = Own(e)
    BY <1>1, <1>2, StandingKinds DEF Own, Beside
  <2>2. TotalPaid(e)' = TotalPaid(e)
    BY DEF TotalPaid
  <2>. QED
    BY <2>1, <2>2, OwnType DEF Moves, Ledgers, Books, Typed
<1>5. Law(e)
  BY <1>2, <1>3, <1>4, WriteLaw
<1>6. Frames({e})
  BY <1>1 DEF Frames, Put, Alone, Ledgers, Shapes
<1>. QED
  BY <1>5, <1>6, OneLawful

LEMMA RestateLawful ==
  ASSUME Ledgers, NEW e \in Ids, NEW r, Account(r), r.amount = escrow[e].amount,
         \/ r.status = escrow[e].status /\ r.status # "None"
         \/ /\ e < nextId /\ escrow[e].status \in Standing
            /\ r.status \in Standing \ {"AwaitingCollateral"},
         escrow' = [escrow EXCEPT ![e] = r],
         UNCHANGED <<now, config, nextId, terms, collateral, received, paid>>, Alone,
         Put(verdict, verdict', {e}), verdict'[e].percent \in Int,
         Put(amendment, amendment', {e}), Proposal(amendment'[e])
  PROVE  Lawful
<1>1. escrow'[e] = r /\ Put(escrow, escrow', {e})
  BY DEF Ledgers, Shapes, Put
<1>. QED
  BY <1>1, KeptLawful

(* A step that pays p out of e, and ends e with it or leaves the rest.      *)
LEMMA PaysLawful ==
  ASSUME Ledgers, NEW e \in Ids, e < nextId, NEW r, Account(r), escrow[e].status \in Standing,
         escrow' = [escrow EXCEPT ![e] = r],
         UNCHANGED <<now, config, nextId, terms, amendment, received>>, Alone,
         Put(verdict, verdict', {e}), verdict'[e].percent \in Int,
         Put(collateral, collateral', {e}), collateral'[e] \in Int,
         NEW p \in Int, Put(paid, paid', {e}), paid'[e] \in PaidRecord,
         TotalPaid(e)' = TotalPaid(e) + p,
         \/ r.status \in Terminal /\ p = escrow[e].amount + collateral[e] - collateral'[e]
         \/ /\ r.status \in Standing \ {"AwaitingCollateral"} /\ collateral'[e] = collateral[e]
            /\ r.amount = escrow[e].amount - p /\ r.amount >= 0
  PROVE  Lawful
<1>1. escrow'[e] = r /\ Put(escrow, escrow', {e})
  BY DEF Ledgers, Shapes, Put
<1>2. Beside(e)
  BY AloneBeside
<1>3. Writes(e)
  BY <1>1, StandingKinds DEF Ledgers, Shapes, Books, Typed, Writes
<1>4. Moves(e, 0, p)
  <2>1. Own(e) = escrow[e].amount /\ Own(e)' = IF r.status \in Terminal THEN 0 ELSE r.amount
    BY <1>1, StandingKinds DEF Own
  <2>2. escrow[e].amount \in Int /\ collateral[e] \in Int /\ received[e] \in Int
    BY DEF Ledgers, Books, Typed, Account
  <2>. QED
    BY <2>1, <2>2, StandingKinds DEF Moves, Account
<1>5. Law(e)
  BY <1>2, <1>3, <1>4, WriteLaw
<1>6. Frames({e})
  BY <1>1 DEF Frames, Put, Alone, Ledgers, Shapes
<1>. QED
  BY <1>5, <1>6, OneLawful

LEMMA SettleLawful ==
  ASSUME Ledgers, NEW e \in Ids, e < nextId, escrow[e].status \in Standing,
         NEW status \in Terminal, NEW b \in Int, NEW s \in Int, b + s = escrow[e].amount,
         Settle(e, status, b, s), Alone, UNCHANGED <<verdict, amendment>>
  PROVE  Lawful
<1>. DEFINE r == [escrow[e] EXCEPT !.status = status]
<1>1. Account(r) /\ r.status = status
  BY StandingKinds DEF Ledgers, Books, Typed, Account
<1>2. escrow' = [escrow EXCEPT ![e] = r]
  BY DEF Settle
<1>. HIDE DEF r
<1>3. UNCHANGED <<now, config, nextId, terms, amendment, received, verdict, collateral>>
  BY DEF Settle, clockVars, releaseVars
<1>4. paid' = Pay(e, b, s)
  BY DEF Settle
<1>5. /\ paid'[e] \in PaidRecord /\ TotalPaid(e)' = TotalPaid(e) + b + s
      /\ Put(paid, paid', {e})
  BY <1>4, PayAt
<1>6. PICK p \in Int : p = b + s
  OBVIOUS
<1>7. /\ TotalPaid(e)' = TotalPaid(e) + p
      /\ p = escrow[e].amount + collateral[e] - collateral'[e]
      /\ collateral'[e] \in Int /\ verdict'[e].percent \in Int
  BY <1>3, <1>5, <1>6, OwnType DEF Ledgers, Books, Typed, Account
<1>8. Put(verdict, verdict', {e}) /\ Put(collateral, collateral', {e})
  BY <1>3 DEF Put
<1>. QED
  BY <1>1, <1>2, <1>3, <1>5, <1>7, <1>8, PaysLawful

-----------------------------------------------------------------------------
(* A record is stored under the counter's id, n.                            *)

LEMMA UnclaimedNone ==
  ASSUME NEW n, schedule[n] = <<>>
  PROVE  Claimed(n) = {}
BY DEF Claimed

Born(n, a) ==
  /\ n = nextId /\ nextId' = n + 1
  /\ Account(escrow'[n]) /\ escrow'[n].status \in {"Active", "AwaitingCollateral"}
  /\ escrow'[n].amount = a /\ a >= 0
  /\ TermsEntry(terms'[n])
  /\ received'[n] = received[n] + a /\ paid'[n] = paid[n] /\ collateral'[n] = collateral[n]
  /\ amendment'[n] = amendment[n] /\ verdict'[n] = verdict[n]
  /\ request'[n] = request[n] /\ bounty'[n] = bounty[n] /\ steps'[n] = steps[n]
  /\ Listed(schedule'[n], "claimed") /\ Claimed(n)' = {}

LEMMA BornLaw ==
  ASSUME Ledgers, NEW n \in Ids, NEW a \in Int, Born(n, a)
  PROVE  Law(n)
<1>1. Books(n) /\ n \in Int
  BY IdType DEF Ledgers
<1>2. collateral[n] = 0 /\ request[n] = NoPartial /\ schedule[n] = <<>>
  BY <1>1 DEF Born, Books, Reached
<1>3. /\ escrow'[n].status \in Standing /\ escrow'[n].status # "None"
      /\ escrow'[n].status \notin Bountied
  BY DEF Born, Standing, Live, Open, Bountied
<1>4. Books(n)'
  <2>1. Typed(n)'
    BY <1>1 DEF Books, Typed, Born
  <2>2. Counted(n)'
    BY <1>1 DEF Books, Counted, PaidSteps, Born
  <2>3. Reached(n)'
    BY <1>1, <1>2, <1>3 DEF Reached, Born
  <2>. QED
    BY <2>1, <2>2, <2>3 DEF Books
<1>5. CASE bounty[n].claimBy # 0
  <2>1. bounty[n] # NoBounty
    BY <1>5 DEF NoBounty
  <2>. QED
    BY <1>4, <2>1 DEF Law, Known, IdTaken, Born
<1>6. CASE bounty[n].claimBy = 0
  <2>1. Own(n) = 0 /\ Own(n)' = a
    <3>1. escrow[n].status = "None"
      BY <1>1, <1>6 DEF Books, Reached, Born
    <3>. QED
      BY <3>1, <1>3, StandingKinds DEF Own, Born
  <2>2. Held(n)' = Held(n) + a
    <3>1. TotalPaid(n)' = TotalPaid(n)
      BY DEF TotalPaid, Born
    <3>. QED
      BY <1>1, <3>1, OwnType DEF Held, Books, Typed, Born
  <2>3. Claimed(n) = {}
    BY <1>2, UnclaimedNone
  <2>4. Held(n) \in Int
    BY OwnType
  <2>5. collateral'[n] = 0
    BY <1>2 DEF Born
  <2>. DEFINE h == Held(n)'
              o == Own(n)'
  <2>6. h = Held(n) + a /\ o = a
    BY <2>1, <2>2
  <2>. HIDE DEF h, o
  <2>7. o >= 0 /\ h - o - collateral'[n] = Held(n) - Own(n) - collateral[n]
    BY <1>2, <2>1, <2>4, <2>5, <2>6 DEF Born
  <2>8. Even(n)
    BY <2>3, <2>7 DEF Even, Born, h, o
  <2>. QED
    BY <1>4, <2>8 DEF Law
<1>. QED
  BY <1>5, <1>6

LEMMA TermsOfEntry ==
  ASSUME NEW r \in Requests, now \in Nat
  PROVE  TermsEntry(TermsOf(r))
<1>1. r \in Request
  BY InputAssumption
<1>2. Bps(r.amount, r.collateralBps) \in Int
  BY <1>1 DEF Request, Bps, AllBps
<1>. QED
  BY <1>1, <1>2 DEF Request, TermsOf, TermsEntry, Unset

(* The creators that store a request, with a schedule or without.           *)
LEMMA StoreLawful ==
  ASSUME Ledgers, NEW r \in Requests, NEW status \in {"Active", "AwaitingCollateral"},
         r.amount >= 0, Store(r, status),
         UNCHANGED <<request, bounty, steps>>,
         NEW n, n = nextId, Put(schedule, schedule', {n}),
         Listed(schedule'[n], "claimed"), Claimed(n)' = {}
  PROVE  Lawful
<1>1. r \in Request /\ Shapes
  BY InputAssumption DEF Ledgers
<1>2. n \in Ids /\ n \in Int /\ nextId' = n + 1 /\ n + 1 \in 0 .. MaxEscrows
  BY <1>1, BoundsAssumption DEF Store, Ids, Shapes
<1>. DEFINE s == [status |-> status, buyer |-> r.buyer, seller |-> r.seller,
        amount |-> r.amount, original |-> r.amount, createdAt |-> now,
        deadline |-> r.deadline, inspector |-> r.inspector,
        autoRenew |-> r.autoRenew, renewalsRemaining |-> r.renewalCount,
        renewalsCompleted |-> 0, acknowledged |-> TRUE]
<1>3. escrow' = [escrow EXCEPT ![n] = s]
  BY DEF Store
<1>4. Account(s) /\ s.status = status /\ s.amount = r.amount
  BY <1>1 DEF Account, Request, Kinds, Standing, Live, Open
<1>. HIDE DEF s
<1>5. escrow'[n] = s /\ Put(escrow, escrow', {n})
  BY <1>1, <1>2, <1>3 DEF Shapes, Put
<1>6. terms'[n] = TermsOf(r) /\ Put(terms, terms', {n})
  BY <1>1, <1>2 DEF Store, Shapes, Put
<1>7. received'[n] = received[n] + r.amount /\ Put(received, received', {n})
  BY <1>1, <1>2 DEF Store, Shapes, Put
<1>8. UNCHANGED <<now, config, collateral, paid, verdict, amendment>>
  BY DEF Store, clockVars, disputeVars, agreeVars
<1>9. Frames({n})
  BY <1>1, <1>2, <1>5, <1>6, <1>7, <1>8 DEF Frames, Put, Shapes
<1>10. TermsEntry(TermsOf(r))
  BY <1>1, TermsOfEntry DEF Shapes
<1>11. PICK a \in Int : a = r.amount
  BY <1>1 DEF Request
<1>12. Born(n, a)
  BY <1>2, <1>4, <1>5, <1>6, <1>7, <1>8, <1>10, <1>11 DEF Born
<1>. QED
  BY <1>2, <1>9, <1>11, <1>12, BornLaw, OneLawful

LEMMA PlainStoreLawful ==
  ASSUME Ledgers, NEW r \in Requests, NEW status \in {"Active", "AwaitingCollateral"},
         r.amount >= 0, Store(r, status), Alone
  PROVE  Lawful
<1>1. PICK n : n = nextId
  OBVIOUS
<1>2. n \in Ids
  BY <1>1, BoundsAssumption DEF Ledgers, Shapes, Ids, Store
<1>3. schedule[n] = <<>> /\ Listed(schedule[n], "claimed")
  BY <1>1, <1>2, IdType DEF Ledgers, Books, Reached, Typed
<1>4. Claimed(n)' = {}
  BY <1>3 DEF Claimed, Alone
<1>5. /\ UNCHANGED <<request, bounty, steps>> /\ Put(schedule, schedule', {n})
      /\ Listed(schedule'[n], "claimed")
  BY <1>3 DEF Alone, Put
<1>. QED
  BY <1>1, <1>4, <1>5, StoreLawful

LEMMA CreationLawful ==
  ASSUME Ledgers, CreationNext, Alone
  PROVE  Lawful
<1>1. PICK r \in Requests : Creation(r)
  BY DEF CreationNext
<1>2. PICK status \in {"Active", "AwaitingCollateral"} : Store(r, status)
  BY <1>1 DEF Creation, CreateEscrow, CreateEscrowWithInspector, CreateMultiSellerEscrow,
              CreateMultiBuyerEscrow, CreateCore
<1>3. r.amount >= 0
  <2>1. r \in Request
    BY InputAssumption
  <2>2. CASE r.amount > 0
    BY <2>1, <2>2 DEF Request
  <2>3. CASE CreateMultiBuyerEscrow(r)
    <3>1. r.buyers \in SUBSET Addr /\ r.amount \in Int
      BY <2>1 DEF Request
    <3>2. IsFiniteSet(r.buyers)
      BY <3>1, BoundsAssumption, FS_Subset
    <3>3. PICK c \in Nat : c = Cardinality(r.buyers)
      BY <3>2, FS_CardinalityType
    <3>4. r.amount >= c
      BY <2>3, <3>3 DEF CreateMultiBuyerEscrow
    <3>. QED
      BY <3>1, <3>4
  <2>. QED
    BY <1>1, <2>2, <2>3 DEF Creation, CreateEscrow, CreateEscrowWithInspector,
                            CreateMultiSellerEscrow, CreateCore
<1>. QED
  BY <1>2, <1>3, PlainStoreLawful

-----------------------------------------------------------------------------
(* A release, and the successor it may store.                               *)

LEMMA RenewLawful ==
  ASSUME Ledgers, NEW e \in Created, escrow[e].status \in Open,
         paid' = Pay(e, 0, escrow[e].amount + collateral[e]),
         collateral' = [collateral EXCEPT ![e] = 0],
         NEW s, Account(s), s.status = "Active", s.amount = escrow[e].amount,
         NEW timers, Renew(e, s, timers),
         UNCHANGED <<now, config, verdict, amendment>>, Alone,
         \A f \in Ids : received'[f] >= received[f]
  PROVE  Lawful
<1>1. e \in Ids /\ e < nextId /\ e \in Int /\ Shapes /\ Books(e)
  BY CreatedOnes DEF Ledgers
<1>2. PICK n : n = nextId
  OBVIOUS
<1>3. n \in Ids /\ n \in Int /\ n # e /\ nextId' = n + 1 /\ n + 1 \in 0 .. MaxEscrows
  BY <1>1, <1>2, BoundsAssumption DEF Renew, Ids, Shapes
<1>4. PICK a \in Int : a = escrow[e].amount
  BY <1>1 DEF Books, Typed, Account
<1>5. PICK p \in Int : p = escrow[e].amount + collateral[e]
  BY <1>1, <1>4 DEF Books, Typed
<1>6. /\ paid'[e] \in PaidRecord /\ TotalPaid(e)' = TotalPaid(e) + p
      /\ Put(paid, paid', {e})
  <2>1. TotalPaid(e)' = TotalPaid(e) + 0 + p /\ paid'[e] \in PaidRecord /\ Put(paid, paid', {e})
    <3>1. e \in Ids /\ paid' = Pay(e, 0, p)
      BY <1>1, <1>5, Zenon
    <3>. QED
      BY <3>1, PayAt
  <2>. QED
    BY <1>1, <2>1, OwnType
<1>7. escrow' = [[escrow EXCEPT ![e].status = "Released"] EXCEPT ![n] = s]
  BY <1>2 DEF Renew, Released
<1>. DEFINE r == [escrow[e] EXCEPT !.status = "Released"]
<1>8. escrow'[e] = r /\ escrow'[n] = s /\ Put(escrow, escrow', {e, n})
  BY <1>1, <1>3, <1>7 DEF Shapes, Put
<1>9. Account(r) /\ r.status = "Released" /\ r.amount = a
  BY <1>1, <1>4 DEF Books, Typed, Account, Kinds, Terminal
<1>. HIDE DEF r
<1>10. /\ terms'[e] = terms[e] /\ Put(terms, terms', {e, n})
       /\ terms'[n] = [terms[e] EXCEPT !.collateral = 0, !.collateralDeadline = 0]
  BY <1>1, <1>2, <1>3 DEF Renew, Shapes, Put
<1>11. TermsEntry(terms'[n])
  BY <1>1, <1>10 DEF Books, Typed, TermsEntry
<1>12. received'[e] = received[e] /\ received'[n] = received[n] + a /\ Put(received, received', {e, n})
  BY <1>1, <1>2, <1>3, <1>4 DEF Renew, Shapes, Put
<1>13. collateral'[e] = 0 /\ collateral'[n] = collateral[n] /\ Put(collateral, collateral', {e, n})
  BY <1>1, <1>3 DEF Shapes, Put
<1>14. paid'[n] = paid[n] /\ Put(paid, paid', {e, n})
  BY <1>1, <1>3, <1>6 DEF Shapes, Put
<1>15. Frames({e, n})
  BY <1>1, <1>2, <1>3, <1>8, <1>10, <1>12, <1>13, <1>14 DEF Frames, Put, Shapes, Alone
<1>16. Law(e)
  <2>1. Beside(e)
    BY AloneBeside
  <2>2. escrow[e].status \in Standing /\ escrow[e].status # "None"
    BY StandingKinds
  <2>3. Writes(e)
    <3>1. escrow'[e].status \in (Standing \ {"AwaitingCollateral"}) \cup Terminal
          /\ escrow'[e].status # "AwaitingCollateral"
      BY <1>8, <1>9 DEF Terminal
    <3>2. received'[e] \in Int /\ collateral'[e] \in Int
      BY <1>1, <1>12, <1>13 DEF Books, Typed
    <3>3. nextId' \in Int /\ nextId' >= nextId
      BY <1>2, <1>3
    <3>. QED
      BY <1>1, <1>6, <1>8, <1>9, <1>10, <2>2, <3>1, <3>2, <3>3 DEF Books, Typed, Writes
  <2>4. Moves(e, 0, p)
    <3>1. Own(e) = a /\ Own(e)' = 0
      BY <1>4, <1>8, <1>9, <2>2 DEF Own, Standing, Live, Open, InDispute, Bountied
    <3>2. collateral[e] \in Int /\ received[e] \in Int
      BY <1>1 DEF Books, Typed
    <3>. QED
      BY <1>4, <1>5, <1>6, <1>12, <1>13, <3>1, <3>2 DEF Moves
  <2>. QED
    BY <1>1, <2>1, <2>3, <2>4, WriteLaw
<1>17. Law(n)
  <2>1. a >= 0
    <3>1. received[n] \in Int /\ received'[n] >= received[n]
      BY <1>3 DEF Ledgers, Books, Typed
    <3>. QED
      BY <1>12, <3>1
  <2>2. schedule[n] = <<>> /\ Listed(schedule[n], "claimed")
    BY <1>2, <1>3 DEF Ledgers, Books, Reached, Typed
  <2>3. Claimed(n)' = {}
    BY <2>2 DEF Claimed, Alone
  <2>4. Born(n, a)
    BY <1>2, <1>3, <1>4, <1>8, <1>11, <1>12, <1>13, <1>14, <2>1, <2>2, <2>3 DEF Born, Alone
  <2>. QED
    BY <1>3, <2>4, BornLaw
<1>18. PICK X : X = {e, n}
  OBVIOUS
<1>. QED
  BY <1>15, <1>16, <1>17, <1>18, FramesLawful

LEMMA SuccessorAccount ==
  ASSUME NEW e, Account(escrow[e]), NEW d, NEW k, NEW c
  PROVE  /\ Account(Successor(e, d, k, c)) /\ Successor(e, d, k, c).status = "Active"
         /\ Successor(e, d, k, c).amount = escrow[e].amount
BY DEF Account, Successor, Kinds, Standing, Live, Open

LEMMA ReleaseEscrowLawful ==
  ASSUME Ledgers, NEW e \in Created, NEW caller, ReleaseEscrow(e, caller), Alone,
         \A f \in Ids : received'[f] >= received[f]
  PROVE  Lawful
<1>1. e \in Ids /\ e < nextId /\ Books(e) /\ Shapes
  BY CreatedOnes DEF Ledgers
<1>2. escrow[e].status \in Open /\ UNCHANGED <<now, config, verdict, amendment>>
      /\ paid' = Pay(e, 0, escrow[e].amount + collateral[e])
      /\ collateral' = [collateral EXCEPT ![e] = 0]
  BY DEF ReleaseEscrow, clockVars, disputeVars, agreeVars
<1>3. PICK timers : timers = TouchedBy(e, caller)
  OBVIOUS
<1>4. CASE RenewConfigured(e, timers) \/ RenewLegacy(e, timers)
  <2>1. PICK d, k, c : Renew(e, Successor(e, d, k, c), timers)
    BY <1>4 DEF RenewConfigured, RenewLegacy
  <2>2. PICK s : s = Successor(e, d, k, c)
    OBVIOUS
  <2>3. Account(s) /\ s.status = "Active" /\ s.amount = escrow[e].amount
    BY <1>1, <2>2, SuccessorAccount DEF Books, Typed
  <2>4. Renew(e, s, timers)
    BY <2>1, <2>2
  <2>. QED
    BY <1>2, <2>3, <2>4, RenewLawful
<1>5. CASE ReleaseOnly(e, timers)
  <2>. DEFINE r == [escrow[e] EXCEPT !.status = "Released"]
  <2>1. escrow' = [escrow EXCEPT ![e] = r]
    BY <1>5 DEF ReleaseOnly, Released
  <2>2. Account(r) /\ r.status \in Terminal
    BY <1>1 DEF Books, Typed, Account, Kinds, Terminal
  <2>. HIDE DEF r
  <2>3. PICK p \in Int : p = escrow[e].amount + collateral[e]
    BY <1>1 DEF Books, Typed, Account
  <2>4. /\ paid'[e] \in PaidRecord /\ TotalPaid(e)' = TotalPaid(e) + 0 + p
        /\ Put(paid, paid', {e})
    BY <1>1, <1>2, <2>3, PayAt
  <2>5. TotalPaid(e)' = TotalPaid(e) + p
    BY <1>1, <2>4, OwnType
  <2>6. UNCHANGED <<nextId, terms, received>>
    BY <1>5 DEF ReleaseOnly
  <2>7. collateral'[e] = 0 /\ Put(collateral, collateral', {e}) /\ Put(verdict, verdict', {e})
        /\ verdict'[e].percent \in Int
    BY <1>1, <1>2 DEF Shapes, Put, Books, Typed
  <2>8. p = escrow[e].amount + collateral[e] - collateral'[e] /\ collateral'[e] \in Int
    BY <1>1, <2>3, <2>7 DEF Books, Typed, Account
  <2>9. escrow[e].status \in Standing
    BY <1>2, StandingKinds
  <2>. QED
    BY <1>1, <1>2, <2>1, <2>2, <2>4, <2>5, <2>6, <2>7, <2>8, <2>9, PaysLawful
<1>. QED
  BY <1>3, <1>4, <1>5 DEF ReleaseEscrow

-----------------------------------------------------------------------------
(* The core's entry points, group by group.                                 *)

LEMMA QuietLawful ==
  ASSUME Ledgers, Alone,
         UNCHANGED <<now, config, nextId, escrow, terms, collateral, received, paid,
                     amendment, verdict>>
  PROVE  Lawful
BY UntouchedLawful DEF Ledgers, Shapes, Untouched, Alone

LEMMA DepositLawful ==
  ASSUME Ledgers, NEW e \in Created, DepositCollateral(e), Alone
  PROVE  Lawful
<1>1. e \in Ids /\ e < nextId /\ Books(e) /\ Shapes
  BY CreatedOnes DEF Ledgers
<1>. DEFINE r == [escrow[e] EXCEPT !.status = "Active"]
<1>2. Account(r) /\ r.status = "Active" /\ r.amount = escrow[e].amount
  BY <1>1 DEF Books, Typed, Account, Kinds, Standing, Live, Open
<1>3. escrow'[e] = r /\ Put(escrow, escrow', {e})
  BY <1>1 DEF DepositCollateral, Shapes, Put
<1>. HIDE DEF r
<1>4. PICK c \in Int : c = terms[e].collateral
  BY <1>1 DEF Books, Typed, TermsEntry
<1>5. /\ collateral[e] = 0 /\ collateral'[e] = c /\ Put(collateral, collateral', {e})
      /\ received'[e] = received[e] + c /\ Put(received, received', {e})
      /\ escrow[e].status = "AwaitingCollateral"
  BY <1>1, <1>4 DEF DepositCollateral, Books, Reached, Shapes, Put
<1>6. UNCHANGED <<now, config, nextId, terms, paid, verdict, amendment>>
  BY DEF DepositCollateral, clockVars, disputeVars, agreeVars
<1>7. Beside(e)
  BY AloneBeside
<1>8. r.status \in Standing \ {"AwaitingCollateral"} /\ escrow[e].status \in Standing
  BY <1>2, <1>5, StandingKinds DEF Open
<1>9. Writes(e)
  <2>1. escrow'[e].status # "AwaitingCollateral" /\ received'[e] \in Int /\ escrow[e].status # "None"
    BY <1>1, <1>2, <1>3, <1>5 DEF Books, Typed
  <2>. QED
    BY <1>1, <1>2, <1>3, <1>5, <1>6, <1>8, <2>1 DEF Books, Typed, Writes, Shapes
<1>10. Moves(e, c, 0)
  <2>1. Own(e) = escrow[e].amount /\ Own(e)' = escrow[e].amount
    BY <1>2, <1>3, <1>8 DEF Own
  <2>2. TotalPaid(e)' = TotalPaid(e)
    BY <1>6 DEF TotalPaid
  <2>. QED
    BY <1>1, <1>5, <2>1, <2>2, OwnType DEF Moves, Books, Typed, Account
<1>11. Law(e)
  BY <1>1, <1>7, <1>9, <1>10, WriteLaw
<1>12. Frames({e})
  BY <1>1, <1>3, <1>5, <1>6 DEF Frames, Put, Alone, Shapes
<1>. QED
  BY <1>1, <1>11, <1>12, OneLawful

(* A call that moves x of the amount to the seller, and leaves the rest in  *)
(* another status.                                                          *)
LEMMA HoldingLawful ==
  ASSUME Ledgers, NEW e \in Created, escrow[e].status \in Open, Alone,
         NEW x \in Int, x <= escrow[e].amount, NEW rest \in Int, rest = escrow[e].amount - x,
         NEW status, \/ status \in Terminal /\ rest = 0
                     \/ status \in Standing \ {"AwaitingCollateral"},
         paid' = Pay(e, 0, x), escrow' = [escrow EXCEPT ![e] = Holding(e, rest, status)],
         UNCHANGED <<now, config, nextId, terms, collateral, amendment, verdict, received>>
  PROVE  Lawful
<1>1. e \in Ids /\ e < nextId /\ Books(e) /\ escrow[e].status \in Standing
  BY CreatedOnes, StandingKinds DEF Ledgers
<1>2. PICK r : r = Holding(e, rest, status)
  OBVIOUS
<1>3. Account(r) /\ r.status = status /\ r.amount = rest
  BY <1>1, <1>2, StandingKinds DEF Books, Typed, Account, Holding
<1>4. escrow' = [escrow EXCEPT ![e] = r]
  BY <1>2
<1>5. paid'[e] \in PaidRecord /\ TotalPaid(e)' = TotalPaid(e) + 0 + x /\ Put(paid, paid', {e})
  BY <1>1, PayAt
<1>6. TotalPaid(e)' = TotalPaid(e) + x
  BY <1>1, <1>5, OwnType
<1>7. /\ collateral'[e] \in Int /\ verdict'[e].percent \in Int /\ collateral'[e] = collateral[e]
      /\ Put(collateral, collateral', {e}) /\ Put(verdict, verdict', {e})
  BY <1>1 DEF Books, Typed, Put
<1>8. \/ r.status \in Terminal /\ x = escrow[e].amount + collateral[e] - collateral'[e]
      \/ r.status \in Standing \ {"AwaitingCollateral"} /\ r.amount = escrow[e].amount - x /\ r.amount >= 0
  <2>1. escrow[e].amount \in Int /\ collateral[e] \in Int
    BY <1>1 DEF Books, Typed, Account
  <2>2. rest >= 0 /\ (rest = 0 => x = escrow[e].amount)
    BY <2>1
  <2>3. escrow[e].amount + collateral[e] - collateral'[e] = escrow[e].amount
    BY <1>7, <2>1
  <2>4. (status \in Terminal /\ rest = 0) \/ status \in Standing \ {"AwaitingCollateral"}
    OBVIOUS
  <2>. QED
    BY <1>3, <2>2, <2>3, <2>4
<1>. QED
  BY <1>1, <1>3, <1>4, <1>5, <1>6, <1>7, <1>8, PaysLawful

(* The whole amount to one side.                                            *)
LEMMA EndsLawful ==
  ASSUME Ledgers, NEW e \in Created, escrow[e].status \in Standing,
         NEW status \in Terminal,
         Settle(e, status, escrow[e].amount, 0) \/ Settle(e, status, 0, escrow[e].amount),
         Alone, UNCHANGED <<verdict, amendment>>
  PROVE  Lawful
<1>1. e \in Ids /\ e < nextId /\ escrow[e].amount \in Int
  BY CreatedOnes DEF Ledgers, Books, Typed, Account
<1>2. PICK b \in Int, s \in Int : b + s = escrow[e].amount /\ Settle(e, status, b, s)
  <2>1. 0 \in Int /\ escrow[e].amount + 0 = escrow[e].amount /\ 0 + escrow[e].amount = escrow[e].amount
    BY <1>1
  <2>. QED
    BY <1>1, <2>1, Zenon
<1>. QED
  BY <1>1, <1>2, SettleLawful

LEMMA ReleaseNextLawful ==
  ASSUME Ledgers, ReleaseNext, Alone, \A f \in Ids : received'[f] >= received[f]
  PROVE  Lawful
<1>1. PICK e \in Created :
        \/ DepositCollateral(e)
        \/ \E caller \in Addr : ApproveMultiBuyerRelease(e, caller)
        \/ \E caller \in Addr : ReleaseEscrow(e, caller)
        \/ \E caller \in Addr, x \in Amounts : PartialRelease(e, caller, x)
        \/ AutoReleaseExpired(e)
        \/ ClaimInactivityRelease(e)
        \/ CheckAndReleaseEscrow(e)
  BY DEF ReleaseNext
<1>2. CASE \E caller \in Addr : ApproveMultiBuyerRelease(e, caller)
  BY <1>2, QuietLawful DEF ApproveMultiBuyerRelease, clockVars, releaseVars, moneyVars,
                           agreeVars, disputeVars
<1>3. ASSUME NEW caller \in Addr, NEW x \in Amounts, PartialRelease(e, caller, x)
      PROVE  Lawful
  <2>1. x \in Int /\ x <= escrow[e].amount /\ escrow[e].status \in Open
    BY <1>3, InputAssumption DEF PartialRelease, Within
  <2>2. PICK rest \in Int : rest = escrow[e].amount - x
    BY <2>1, CreatedOnes DEF Ledgers, Books, Typed, Account
  <2>3. PICK status : status = IF x = escrow[e].amount THEN "Released" ELSE "PartiallyReleased"
    OBVIOUS
  <2>4. \/ status \in Terminal /\ rest = 0
        \/ status \in Standing \ {"AwaitingCollateral"}
    BY <2>1, <2>2, <2>3 DEF Terminal, Standing, Live, Open
  <2>5. escrow' = [escrow EXCEPT ![e] = Holding(e, rest, status)]
    BY <1>3, <2>2, <2>3 DEF PartialRelease
  <2>6. /\ paid' = Pay(e, 0, x)
        /\ UNCHANGED <<now, config, nextId, terms, collateral, amendment, verdict, received>>
    BY <1>3 DEF PartialRelease, clockVars, releaseVars, disputeVars, agreeVars
  <2>. QED
    BY <2>1, <2>2, <2>4, <2>5, <2>6, HoldingLawful
<1>4. CASE AutoReleaseExpired(e) \/ ClaimInactivityRelease(e) \/ CheckAndReleaseEscrow(e)
  <2>1. PICK status \in {"Refunded", "Released"} :
          Settle(e, status, escrow[e].amount, 0) \/ Settle(e, status, 0, escrow[e].amount)
    BY <1>4 DEF AutoReleaseExpired, ClaimInactivityRelease, CheckAndReleaseEscrow
  <2>2. escrow[e].status \in Standing /\ UNCHANGED <<verdict, amendment>>
    BY <1>4, StandingKinds DEF AutoReleaseExpired, ClaimInactivityRelease,
          CheckAndReleaseEscrow, disputeVars, agreeVars
  <2>. QED
    BY <2>1, <2>2, EndsLawful DEF Terminal
<1>. QED
  BY <1>1, <1>2, <1>3, <1>4, DepositLawful, ReleaseEscrowLawful

LEMMA RenewalNextLawful ==
  ASSUME Ledgers, RenewalNext, Alone
  PROVE  Lawful
<1>1. PICK e \in Created :
        \/ \E n \in 0 .. MaxEscrows : SetRenewalAllowance(e, n)
        \/ CancelAutoRenew(e)
        \/ CancelAutoRenewal(e)
  BY DEF RenewalNext
<1>2. CASE CancelAutoRenew(e)
  <2>. DEFINE r == [escrow[e] EXCEPT !.autoRenew = FALSE, !.renewalsRemaining = 0]
  <2>1. e \in Ids /\ Books(e)
    BY CreatedOnes DEF Ledgers
  <2>2. Account(r) /\ r.amount = escrow[e].amount /\ r.status = escrow[e].status /\ r.status # "None"
    BY <1>2, <2>1 DEF Books, Typed, Account, CancelAutoRenew, Exists
  <2>3. escrow' = [escrow EXCEPT ![e] = r]
    BY <1>2 DEF CancelAutoRenew
  <2>. HIDE DEF r
  <2>4. UNCHANGED <<now, config, nextId, terms, collateral, received, paid, verdict, amendment>>
    BY <1>2 DEF CancelAutoRenew, clockVars, releaseVars, moneyVars, disputeVars, agreeVars
  <2>5. /\ Put(verdict, verdict', {e}) /\ verdict'[e].percent \in Int
        /\ Put(amendment, amendment', {e}) /\ Proposal(amendment'[e])
    BY <2>1, <2>4 DEF Put, Books, Typed
  <2>. QED
    BY <2>1, <2>2, <2>3, <2>4, <2>5, RestateLawful
<1>3. CASE (\E n \in 0 .. MaxEscrows : SetRenewalAllowance(e, n)) \/ CancelAutoRenewal(e)
  BY <1>3, QuietLawful DEF SetRenewalAllowance, CancelAutoRenewal, clockVars, escrowVars,
        releaseVars, moneyVars, disputeVars, agreeVars
<1>. QED
  BY <1>1, <1>2, <1>3

LEMMA ConditionNextLawful ==
  ASSUME Ledgers, ConditionNext, Alone, \A f \in Ids : received'[f] >= received[f]
  PROVE  Lawful
<1>1. PICK e \in Created :
        \/ SetConditionalRelease(e)
        \/ \E caller \in Addr : TriggerConditionalRelease(e, caller)
        \/ \E caller \in Addr : WaiveReleaseCondition(e, caller)
        \/ \E holder \in Addr : TransferEscrowReceipt(e, holder)
        \/ \E caller \in Addr : UpdateMetadata(e, caller)
  BY DEF ConditionNext
<1>2. CASE \E caller \in Addr : TriggerConditionalRelease(e, caller)
  BY <1>2, ReleaseEscrowLawful DEF TriggerConditionalRelease
<1>3. CASE \/ SetConditionalRelease(e)
           \/ \E caller \in Addr : WaiveReleaseCondition(e, caller)
           \/ \E holder \in Addr : TransferEscrowReceipt(e, holder)
           \/ \E caller \in Addr : UpdateMetadata(e, caller)
  BY <1>3, QuietLawful DEF SetConditionalRelease, WaiveReleaseCondition, TransferEscrowReceipt,
        UpdateMetadata, clockVars, escrowVars, releaseVars, moneyVars, disputeVars, agreeVars
<1>. QED
  BY <1>1, <1>2, <1>3

LEMMA VerdictLawful ==
  ASSUME Ledgers, NEW e \in Created, escrow[e].status \in Standing, NEW percent \in Int,
         ExecuteVerdict(e, percent), Alone,
         Put(verdict, verdict', {e}), verdict'[e].percent \in Int
  PROVE  Lawful
<1>1. e \in Ids /\ e < nextId /\ Books(e) /\ Shapes
  BY CreatedOnes DEF Ledgers
<1>2. PICK status \in Terminal : status = VerdictStatus(percent)
  BY StandingKinds
<1>. DEFINE r == [escrow[e] EXCEPT !.status = status]
<1>3. Account(r) /\ r.status \in Terminal
  BY <1>1, StandingKinds DEF Books, Typed, Account
<1>4. escrow' = [escrow EXCEPT ![e] = r]
  BY <1>2 DEF ExecuteVerdict
<1>. HIDE DEF r
<1>5. PICK a \in Int, c \in Int : a = escrow[e].amount /\ c = collateral[e]
  BY <1>1 DEF Books, Typed, Account
<1>6. PICK fee \in Int, share \in Int, forfeit \in Int, own \in Int :
        /\ fee = ProtocolFee(e) /\ own = ArbiterFee(e)
        /\ share = BuyerShare(e, percent) /\ forfeit = Forfeit(e, percent)
        /\ Distributable(e) = a - fee - own
  <2>1. ProtocolFee(e) \in Int /\ ArbiterFee(e) \in Int
    <3>1. config.protocolFee \in Int /\ config.arbiterFee \in Int /\ terms[e].arbiterFee \in Int
      BY <1>1 DEF Shapes, Config, Books, Typed, TermsEntry
    <3>. QED
      BY <1>5, <3>1 DEF ProtocolFee, ArbiterFee, Bps, AllBps
  <2>2. Distributable(e) = a - ProtocolFee(e) - ArbiterFee(e)
    BY <1>5 DEF Distributable
  <2>3. Distributable(e) \in Int
    BY <1>5, <2>1, <2>2
  <2>4. BuyerShare(e, percent) \in Int
    BY <2>3 DEF BuyerShare
  <2>5. Forfeit(e, percent) \in Int
    BY <1>1 DEF Forfeit, Bps, AllBps, Books, Typed, TermsEntry
  <2>. QED
    BY <2>1, <2>2, <2>4, <2>5
<1>7. PICK u \in Int, v \in Int :
        u = share + forfeit /\ v = (a - fee - own - share) + (c - forfeit)
  BY <1>5, <1>6
<1>. DEFINE old == paid[e]
            new == [old EXCEPT !.arbiter = @ + own, !.fee = @ + fee,
                               !.buyer = @ + u, !.seller = @ + v]
<1>8. old \in PaidRecord /\ old.buyer \in Int /\ old.seller \in Int /\ old.arbiter \in Int
      /\ old.fee \in Int /\ old.penalty \in Int
  BY <1>1 DEF Books, Typed, PaidRecord
<1>9. old.buyer + u \in Int /\ old.seller + v \in Int /\ old.arbiter + own \in Int /\ old.fee + fee \in Int
  BY <1>6, <1>7, <1>8
<1>10. new \in PaidRecord /\ new.buyer = old.buyer + u /\ new.seller = old.seller + v
       /\ new.arbiter = old.arbiter + own /\ new.fee = old.fee + fee /\ new.penalty = old.penalty
  BY <1>8, <1>9 DEF PaidRecord
<1>11. paid'[e] = new /\ Put(paid, paid', {e})
  <2>1. paid' = [paid EXCEPT ![e] = [paid[e] EXCEPT
          !.arbiter = @ + ArbiterFee(e),
          !.fee = @ + ProtocolFee(e),
          !.buyer = @ + BuyerShare(e, percent) + Forfeit(e, percent),
          !.seller = @ + (Distributable(e) - BuyerShare(e, percent))
                       + (collateral[e] - Forfeit(e, percent))]]
    BY DEF ExecuteVerdict
  <2>2. paid' = [paid EXCEPT ![e] = [paid[e] EXCEPT
          !.arbiter = @ + own, !.fee = @ + fee,
          !.buyer = @ + share + forfeit,
          !.seller = @ + (a - fee - own - share) + (c - forfeit)]]
    BY <1>5, <1>6, <2>1
  <2>3. old.buyer + share + forfeit = old.buyer + u
        /\ old.seller + (a - fee - own - share) + (c - forfeit) = old.seller + v
    BY <1>5, <1>6, <1>7, <1>8
  <2>4. paid' = [paid EXCEPT ![e] = new]
    BY <2>2, <2>3
  <2>. HIDE DEF new
  <2>. QED
    BY <1>1, <2>4 DEF Shapes, Put
<1>12. PICK p \in Int : p = a + c
  BY <1>5
<1>. HIDE DEF new
<1>13. TotalPaid(e)' = TotalPaid(e) + p
  BY <1>5, <1>6, <1>7, <1>8, <1>10, <1>11, <1>12 DEF TotalPaid
<1>14. collateral'[e] = 0 /\ Put(collateral, collateral', {e})
  BY <1>1 DEF ExecuteVerdict, Shapes, Put
<1>15. UNCHANGED <<now, config, nextId, terms, amendment, received>>
  BY DEF ExecuteVerdict, clockVars, agreeVars
<1>16. p = escrow[e].amount + collateral[e] - collateral'[e] /\ collateral'[e] \in Int
  BY <1>5, <1>12, <1>14
<1>. QED
  BY <1>1, <1>3, <1>4, <1>10, <1>11, <1>13, <1>14, <1>15, <1>16, PaysLawful

(* A call that only gives e another status, or another party.               *)
LEMMA RewriteLawful ==
  ASSUME Ledgers, NEW e \in Ids, NEW r, Rewrite(e, r), Account(r), r.amount = escrow[e].amount,
         \/ r.status = escrow[e].status /\ r.status # "None"
         \/ /\ e < nextId /\ escrow[e].status \in Standing
            /\ r.status \in Standing \ {"AwaitingCollateral"},
         UNCHANGED amendment, Alone
  PROVE  Lawful
<1>1. Books(e)
  BY DEF Ledgers
<1>2. /\ escrow' = [escrow EXCEPT ![e] = r]
      /\ UNCHANGED <<now, config, nextId, terms, collateral, received, paid, verdict>>
  BY DEF Rewrite, clockVars, releaseVars, disputeVars, moneyVars
<1>3. /\ Put(verdict, verdict', {e}) /\ verdict'[e].percent \in Int
      /\ Put(amendment, amendment', {e}) /\ Proposal(amendment'[e])
  BY <1>1, <1>2 DEF Put, Books, Typed
<1>. QED
  BY <1>2, <1>3, RestateLawful

LEMMA StatusLawful ==
  ASSUME Ledgers, NEW e \in Created, escrow[e].status \in Standing,
         NEW status \in Standing \ {"AwaitingCollateral"}, Rewrite(e, WithStatus(e, status)),
         UNCHANGED amendment, Alone
  PROVE  Lawful
<1>1. e \in Ids /\ e < nextId
  BY CreatedOnes
<1>2. PICK r : r = WithStatus(e, status)
  OBVIOUS
<1>3. Account(r) /\ r.status = status /\ r.amount = escrow[e].amount
  BY <1>1, <1>2, StandingKinds DEF Ledgers, Books, Typed, Account, WithStatus
<1>4. Rewrite(e, r)
  BY <1>2
<1>. QED
  BY <1>1, <1>3, <1>4, RewriteLawful

LEMMA DisputeNextLawful ==
  ASSUME Ledgers, DisputeNext, Alone
  PROVE  Lawful
<1>1. PICK e \in Created :
        \/ \E caller \in Addr, x \in Amounts : DisputeEscrow(e, caller, x)
        \/ \E percent \in Percents : ResolveDispute(e, percent)
        \/ \E percent \in Percents : RecordVerdict(e, percent)
        \/ \E caller \in Addr : FlagResolutionError(e, caller)
        \/ FinalizeResolution(e)
        \/ ClearResolutionFlag(e)
        \/ EnforceDisputeTimeout(e)
  BY DEF DisputeNext
<1>2. e \in Ids /\ e < nextId /\ Books(e) /\ Shapes
  BY CreatedOnes DEF Ledgers
<1>3. ASSUME NEW caller \in Addr, NEW x \in Amounts, DisputeEscrow(e, caller, x)
      PROVE  Lawful
  <2>1. /\ x \in Int /\ x > 0 /\ escrow[e].status \in Open /\ escrow[e].amount \in Int
    BY <1>2, <1>3, InputAssumption DEF DisputeEscrow, Within, Books, Typed, Account
  <2>2. PICK y \in Int : y = escrow[e].amount - x
    BY <2>1
  <2>3. PICK status : status = IF x < escrow[e].amount THEN "PartiallyDisputed" ELSE "Disputed"
    OBVIOUS
  <2>4. status \in Standing \ {"AwaitingCollateral"}
    BY <2>3 DEF Standing, Live, InDispute
  <2>5. y <= escrow[e].amount /\ x = escrow[e].amount - y
    BY <2>1, <2>2
  <2>6. paid' = Pay(e, 0, y) /\ escrow' = [escrow EXCEPT ![e] = Holding(e, x, status)]
    BY <1>3, <2>2, <2>3, Zenon DEF DisputeEscrow
  <2>7. UNCHANGED <<now, config, nextId, terms, collateral, amendment, verdict, received>>
    BY <1>3 DEF DisputeEscrow, clockVars, agreeVars
  <2>. QED
    BY <2>1, <2>2, <2>4, <2>5, <2>6, <2>7, HoldingLawful
<1>4. ASSUME NEW percent \in Percents, ResolveDispute(e, percent)
      PROVE  Lawful
  <2>1. percent \in Int /\ escrow[e].status \in Standing /\ ExecuteVerdict(e, percent)
    BY <1>4, InputAssumption, StandingKinds DEF ResolveDispute
  <2>2. Put(verdict, verdict', {e}) /\ verdict'[e].percent \in Int
    BY <1>2, <1>4 DEF ResolveDispute, Put, Books, Typed
  <2>. QED
    BY <2>1, <2>2, VerdictLawful
<1>5. ASSUME NEW percent \in Percents, RecordVerdict(e, percent)
      PROVE  Lawful
  <2>. DEFINE r == [escrow[e] EXCEPT !.status = "CoolingOff"]
  <2>1. Account(r) /\ r.status = "CoolingOff" /\ r.amount = escrow[e].amount
    BY <1>2 DEF Books, Typed, Account, Kinds, Standing, Live
  <2>2. escrow' = [escrow EXCEPT ![e] = r]
    BY <1>5 DEF RecordVerdict
  <2>. HIDE DEF r
  <2>3. escrow[e].status \in Standing /\ r.status \in Standing \ {"AwaitingCollateral"}
    BY <1>5, <2>1, StandingKinds DEF RecordVerdict, Standing, Live
  <2>4. UNCHANGED <<now, config, nextId, terms, collateral, received, paid, amendment>>
    BY <1>5 DEF RecordVerdict, clockVars, releaseVars, agreeVars, moneyVars
  <2>5. Put(verdict, verdict', {e}) /\ verdict'[e].percent \in Int
    BY <1>2, <1>5, InputAssumption DEF RecordVerdict, Put, Shapes
  <2>6. Put(amendment, amendment', {e}) /\ Proposal(amendment'[e])
    BY <1>2, <2>4 DEF Put, Books, Typed
  <2>. QED
    BY <1>2, <2>1, <2>2, <2>3, <2>4, <2>5, <2>6, RestateLawful
<1>6. CASE FinalizeResolution(e)
  <2>1. PICK percent \in Int : percent = verdict[e].percent
    BY <1>2 DEF Books, Typed
  <2>2. escrow[e].status \in Standing
    BY <1>6 DEF FinalizeResolution, Standing, Live
  <2>3. ExecuteVerdict(e, percent)
    BY <1>6, <2>1, Zenon DEF FinalizeResolution
  <2>4. Put(verdict, verdict', {e}) /\ verdict'[e].percent \in Int
    BY <1>2, <1>6 DEF FinalizeResolution, Put, Shapes, NoVerdict, Unset
  <2>. QED
    BY <2>2, <2>3, <2>4, VerdictLawful
<1>7. CASE EnforceDisputeTimeout(e)
  <2>1. PICK status \in {"Refunded", "Released"} :
          Settle(e, status, escrow[e].amount, 0) \/ Settle(e, status, 0, escrow[e].amount)
    BY <1>7 DEF EnforceDisputeTimeout
  <2>2. escrow[e].status \in Standing /\ UNCHANGED <<verdict, amendment>>
    BY <1>7, StandingKinds DEF EnforceDisputeTimeout, agreeVars
  <2>. QED
    BY <2>1, <2>2, EndsLawful DEF Terminal
<1>8. CASE (\E caller \in Addr : FlagResolutionError(e, caller)) \/ ClearResolutionFlag(e)
  BY <1>8, QuietLawful DEF FlagResolutionError, ClearResolutionFlag, clockVars, escrowVars,
        releaseVars, moneyVars, agreeVars
<1>. QED
  BY <1>1, <1>3, <1>4, <1>5, <1>6, <1>7, <1>8

LEMMA CancellationNextLawful ==
  ASSUME Ledgers, CancellationNext, Alone
  PROVE  Lawful
<1>1. PICK e \in Created :
        \/ \E caller \in Addr : RequestCancellation(e, caller)
        \/ \E caller \in Addr : AcceptCancellation(e, caller)
        \/ \E caller \in Addr : RejectCancellation(e, caller)
        \/ AcceptExpiredCancellation(e)
        \/ ExpireCancellation(e)
  BY DEF CancellationNext
<1>2. e \in Ids /\ e < nextId /\ Books(e) /\ Shapes
  BY CreatedOnes DEF Ledgers
<1>3. CASE \/ \E caller \in Addr : RequestCancellation(e, caller) \/ RejectCancellation(e, caller)
           \/ AcceptExpiredCancellation(e) \/ ExpireCancellation(e)
  <2>1. PICK status \in {"CancellationPending", "Active"} :
          Rewrite(e, WithStatus(e, status)) /\ UNCHANGED amendment
    BY <1>3 DEF RequestCancellation, RejectCancellation, AcceptExpiredCancellation,
                ExpireCancellation, Reopen
  <2>2. escrow[e].status \in Open \cup {"CancellationPending"}
    BY <1>3 DEF RequestCancellation, RejectCancellation, AcceptExpiredCancellation,
                ExpireCancellation, CancellationOpen
  <2>3. escrow[e].status \in Standing /\ status \in Standing \ {"AwaitingCollateral"}
    BY <2>1, <2>2 DEF Standing, Live, Open
  <2>. QED
    BY <2>1, <2>3, StatusLawful
<1>4. ASSUME NEW caller \in Addr, AcceptCancellation(e, caller)
      PROVE  Lawful
  <2>. DEFINE r == [escrow[e] EXCEPT !.status = "Refunded"]
  <2>1. Account(r) /\ r.status \in Terminal
    BY <1>2 DEF Books, Typed, Account, Kinds, Terminal
  <2>2. escrow' = [escrow EXCEPT ![e] = r]
    BY <1>4 DEF AcceptCancellation
  <2>. HIDE DEF r
  <2>3. PICK a \in Int : a = escrow[e].amount
    BY <1>2 DEF Books, Typed, Account
  <2>4. PICK b \in Int, k \in Int : b = Refund(e) /\ k = Penalty(e) /\ b + k = a
    <3>1. config.penalty \in Int
      BY <1>2 DEF Shapes, Config
    <3>2. Penalty(e) \in Int
      BY <2>3, <3>1 DEF Penalty, Bps, AllBps
    <3>3. Refund(e) = a - Penalty(e)
      BY <2>3 DEF Refund
    <3>. QED
      BY <2>3, <3>2, <3>3
  <2>. DEFINE old == paid[e]
              new == [old EXCEPT !.buyer = @ + b, !.penalty = @ + k]
  <2>5. old \in PaidRecord /\ old.buyer \in Int /\ old.seller \in Int /\ old.arbiter \in Int
        /\ old.fee \in Int /\ old.penalty \in Int
    BY <1>2 DEF Books, Typed, PaidRecord
  <2>6. old.buyer + b \in Int /\ old.penalty + k \in Int
    BY <2>5
  <2>7. new \in PaidRecord /\ new.buyer = old.buyer + b /\ new.seller = old.seller
        /\ new.arbiter = old.arbiter /\ new.fee = old.fee /\ new.penalty = old.penalty + k
    BY <2>5, <2>6 DEF PaidRecord
  <2>8. paid'[e] = new /\ Put(paid, paid', {e})
    BY <1>2, <1>4, <2>4 DEF AcceptCancellation, Shapes, Put
  <2>. HIDE DEF new
  <2>9. TotalPaid(e)' = TotalPaid(e) + a
    BY <2>4, <2>5, <2>7, <2>8 DEF TotalPaid
  <2>10. UNCHANGED <<now, config, nextId, terms, amendment, received, collateral, verdict>>
    BY <1>4 DEF AcceptCancellation, clockVars, releaseVars, disputeVars
  <2>11. /\ collateral'[e] \in Int /\ verdict'[e].percent \in Int
         /\ Put(collateral, collateral', {e}) /\ Put(verdict, verdict', {e})
         /\ a = escrow[e].amount + collateral[e] - collateral'[e]
    BY <1>2, <2>3, <2>10 DEF Books, Typed, Put
  <2>12. escrow[e].status \in Standing
    BY <1>4 DEF AcceptCancellation, CancellationOpen, Standing, Live
  <2>. QED
    BY <1>2, <2>1, <2>2, <2>7, <2>8, <2>9, <2>10, <2>11, <2>12, PaysLawful
<1>. QED
  BY <1>1, <1>3, <1>4

LEMMA VetoNextLawful ==
  ASSUME Ledgers, VetoNext, Alone
  PROVE  Lawful
<1>1. CASE \E e \in Created : RaiseSellerVeto(e) \/ AdminOverrideVeto(e)
  BY <1>1, QuietLawful DEF RaiseSellerVeto, AdminOverrideVeto, StampVeto, clockVars, escrowVars,
        moneyVars, disputeVars, agreeVars
<1>2. ASSUME NEW seconds \in Times, SetVetoCooldownSeconds(seconds)
      PROVE  Lawful
  <2>1. config' \in Config
    BY <1>2, InputAssumption DEF Ledgers, Shapes, SetVetoCooldownSeconds, ConfigSet, Config
  <2>. QED
    BY <1>2, <2>1, UntouchedLawful DEF SetVetoCooldownSeconds, ConfigSet, Ledgers, Shapes,
          escrowVars, releaseVars, moneyVars, disputeVars, agreeVars, Untouched, Alone
<1>. QED
  BY <1>1, <1>2 DEF VetoNext

LEMMA AdminNextLawful ==
  ASSUME Ledgers, AdminNext, Alone
  PROVE  Lawful
<1>1. CASE (\E x \in Amounts : WithdrawFees(x)) \/ PauseContract \/ ResumeContract
  BY <1>1, QuietLawful DEF WithdrawFees, PauseContract, ResumeContract, clockVars, escrowVars,
        releaseVars, moneyVars, disputeVars, agreeVars
<1>2. CASE \/ \E seconds \in Times : SetResolutionCooloff(seconds)
           \/ \E seconds \in Times : UpdateDefaultDisputeTimeout(seconds)
           \/ \E winner \in Winner : SetDefaultDisputeWinner(winner)
  <2>1. config' \in Config
    BY <1>2, InputAssumption DEF Ledgers, Shapes, SetResolutionCooloff,
          UpdateDefaultDisputeTimeout, SetDefaultDisputeWinner, ConfigSet, Config
  <2>. QED
    BY <1>2, <2>1, UntouchedLawful DEF SetResolutionCooloff,
          UpdateDefaultDisputeTimeout, SetDefaultDisputeWinner, ConfigSet, Ledgers, Shapes,
          escrowVars, releaseVars, moneyVars, disputeVars, agreeVars, Untouched, Alone
<1>. QED
  BY <1>1, <1>2 DEF AdminNext

-----------------------------------------------------------------------------
(* An amendment is carried out in any status that is not terminal: of a     *)
(* bounty as well.                                                          *)

LEMMA WorthsOf ==
  ASSUME NEW list, NEW field, Listed(list, field)
  PROVE  /\ DOMAIN Worths(list) = DOMAIN list
         /\ \A i \in DOMAIN list : Worths(list)[i] = list[i].amount /\ Worths(list)[i] \in Nat \ {0}
         /\ \A S \in SUBSET DOMAIN list :
              IsFiniteSet(S) /\ Integral(Worths(list), S) /\ \A i \in S : Worths(list)[i] \in Nat
<1>1. /\ DOMAIN Worths(list) = DOMAIN list
      /\ \A i \in DOMAIN list : Worths(list)[i] = list[i].amount /\ Worths(list)[i] \in Nat \ {0}
  BY DEF Worths, Listed
<1>2. ASSUME NEW S \in SUBSET DOMAIN list PROVE IsFiniteSet(S)
  BY FS_Subset DEF Listed
<1>. QED
  BY <1>1, <1>2 DEF Integral

LEMMA DisbursedNatural ==
  ASSUME NEW e, Books(e)
  PROVE  bounty[e].disbursed \in Nat /\ (steps[e] = <<>> => bounty[e].disbursed = 0)
<1>1. Listed(steps[e], "status") /\ PaidSteps(e) \in SUBSET DOMAIN steps[e]
  BY DEF Books, Typed, PaidSteps
<1>. DEFINE f == Worths(steps[e])
            S == PaidSteps(e)
<1>2. IsFiniteSet(S) /\ \A i \in S : f[i] \in Nat
  BY <1>1, WorthsOf
<1>3. bounty[e].disbursed = SumOf(f, S)
  BY DEF Books, Counted
<1>4. steps[e] = <<>> => S = {}
  BY DEF PaidSteps
<1>. HIDE DEF f, S
<1>5. SumOf(f, S) \in Nat
  BY <1>2, SumNatural
<1>6. S = {} => SumOf(f, S) = 0
  BY SumOfNone, Zenon
<1>. QED
  BY <1>3, <1>4, <1>5, <1>6

LEMMA AmendLawful ==
  ASSUME Ledgers, NEW e \in Ids, escrow[e].status # "None", Amend(e), Alone
  PROVE  Lawful
<1>1. Books(e) /\ Shapes
  BY DEF Ledgers
<1>2. PICK a \in Int, m \in Int : a = escrow[e].amount /\ m = amendment[e].amount
  BY <1>1 DEF Books, Typed, Account, Proposal
<1>3. PICK change \in Int : change = IF m = Unset THEN 0 ELSE m - a
  BY <1>2
<1>4. PICK q \in Int, p \in Int :
        /\ q = (IF change > 0 THEN change ELSE 0) /\ p = (IF change < 0 THEN -change ELSE 0)
        /\ q - p = change
  BY <1>3
<1>5. /\ received' = [received EXCEPT ![e] = @ + q] /\ paid' = Pay(e, p, 0)
      /\ amendment' = [amendment EXCEPT ![e] = NoAmendment]
      /\ UNCHANGED <<now, config, nextId, terms, collateral, verdict>>
      /\ escrow[e].status \notin Terminal
  BY <1>2, <1>3, <1>4 DEF Amend, clockVars, releaseVars, disputeVars
<1>6. PICK d : escrow' = [escrow EXCEPT ![e] = [escrow[e] EXCEPT !.amount = @ + change, !.deadline = d]]
  BY <1>2, <1>3 DEF Amend
<1>. DEFINE r == [escrow[e] EXCEPT !.amount = @ + change, !.deadline = d]
<1>7. a + change \in Int
  OBVIOUS
<1>8. Account(r) /\ r.status = escrow[e].status /\ r.amount = a + change
  BY <1>1, <1>2, <1>7 DEF Books, Typed, Account
<1>. HIDE DEF r
<1>9. escrow'[e] = r /\ Put(escrow, escrow', {e})
  BY <1>1, <1>6 DEF Shapes, Put, r
<1>10. received'[e] = received[e] + q /\ Put(received, received', {e})
       /\ amendment'[e] = NoAmendment /\ Put(amendment, amendment', {e})
  BY <1>1, <1>5 DEF Shapes, Put
<1>11. paid'[e] \in PaidRecord /\ TotalPaid(e)' = TotalPaid(e) + p + 0 /\ Put(paid, paid', {e})
  BY <1>5, PayAt
<1>12. TotalPaid(e)' = TotalPaid(e) + p
  BY <1>11, OwnType
<1>13. Beside(e)
  BY AloneBeside
<1>14. Writes(e)
  <2>1. Proposal(amendment'[e])
    BY <1>10 DEF Proposal, NoAmendment, Unset
  <2>2. received'[e] \in Int /\ nextId' \in Int /\ nextId' >= nextId
    BY <1>1, <1>5, <1>10 DEF Shapes, Books, Typed
  <2>. QED
    BY <1>1, <1>5, <1>8, <1>9, <1>11, <2>1, <2>2 DEF Books, Typed, Writes
<1>15. Frames({e})
  BY <1>1, <1>5, <1>9, <1>10, <1>11 DEF Frames, Put, Alone, Shapes
<1>16. change = 0 \/ a + change > 0
  BY <1>1, <1>2, <1>3 DEF Books, Typed, Proposal
<1>17. CASE Own(e)' >= 0 \/ Own(e) < 0
  <2>1. Own(e)' = Own(e) + change
    <3>1. escrow[e].status \in Standing \cup Bountied
      BY <1>1, <1>5 DEF Books, Typed, Account, Kinds
    <3>2. escrow'[e].status = escrow[e].status /\ escrow'[e].amount = a + change /\ bounty'[e] = bounty[e]
      BY <1>8, <1>9, <1>13 DEF Beside
    <3>3. bounty[e].disbursed \in Int
      BY <1>1 DEF Books, Typed, Offer
    <3>4. CASE escrow[e].status \in Standing
      BY <1>2, <3>2, <3>4 DEF Own
    <3>5. CASE escrow[e].status \notin Standing
      <4>1. Own(e) = escrow[e].amount - bounty[e].disbursed
        BY <3>1, <3>5 DEF Own
      <4>2. Own(e)' = escrow'[e].amount - bounty'[e].disbursed
        BY <3>1, <3>2, <3>5 DEF Own
      <4>. DEFINE o == Own(e)'
      <4>3. PICK y \in Int : y = bounty[e].disbursed
        BY <3>3
      <4>4. bounty'[e].disbursed = y /\ escrow'[e].amount = a + change
        BY <3>2, <4>3
      <4>5. o = escrow'[e].amount - bounty'[e].disbursed
        BY <4>2
      <4>. HIDE DEF o
      <4>6. o = Own(e) + change
        BY <1>2, <4>1, <4>3, <4>4, <4>5
      <4>. QED
        BY <4>6 DEF o
    <3>. QED
      BY <3>4, <3>5
  <2>2. collateral'[e] = collateral[e] /\ collateral[e] \in Int /\ Own(e) \in Int
    BY <1>1, <1>5, OwnType DEF Books, Typed
  <2>. DEFINE o == Own(e)'
  <2>3. o = Own(e) + change /\ (o >= 0 \/ Own(e) < 0)
    BY <1>17, <2>1
  <2>. HIDE DEF o
  <2>4. Own(e) >= 0 => o >= 0 /\ o = Own(e) + q - p - (collateral'[e] - collateral[e])
    BY <1>4, <2>2, <2>3
  <2>5. Moves(e, q, p)
    BY <1>10, <1>12, <2>4 DEF Moves, o
  <2>6. Law(e)
    BY <1>13, <1>14, <2>5, WriteLaw
  <2>. QED
    BY <1>15, <2>6, OneLawful
<1>18. CASE Own(e) >= 0 /\ ~(Own(e)' >= 0)
  <2>1. escrow'[e].status = escrow[e].status /\ escrow'[e].amount = a + change /\ bounty'[e] = bounty[e]
    BY <1>8, <1>9, <1>13 DEF Beside
  <2>2. change # 0
    <3>1. ASSUME change = 0 PROVE FALSE
      <4>1. Own(e)' = Own(e)
        BY <1>2, <2>1, <3>1 DEF Own
      <4>. QED
        BY <1>18, <4>1
    <3>. QED
      BY <3>1
  <2>3. bounty[e].disbursed > 0 /\ steps[e] # <<>>
    <3>1. bounty[e].disbursed \in Nat /\ (steps[e] = <<>> => bounty[e].disbursed = 0)
      BY <1>1, DisbursedNatural
    <3>2. ASSUME bounty[e].disbursed = 0 PROVE FALSE
      <4>1. Own(e)' = a + change \/ Own(e)' = a + change - 0 \/ Own(e)' = 0
        BY <2>1, <3>2 DEF Own
      <4>. QED
        BY <1>16, <1>18, <2>2, <4>1
    <3>. QED
      BY <3>1, <3>2
  <2>4. escrow'[e].amount # escrow[e].amount /\ steps'[e] = steps[e]
    BY <1>2, <1>13, <2>1, <2>2 DEF Beside
  <2>5. BountyMixed(e)
    BY <2>3, <2>4 DEF BountyMixed
  <2>6. Law(e)
    BY <1>13, <1>14, <2>5, WriteBooks DEF Law, Known
  <2>. QED
    BY <1>15, <2>6, OneLawful
<1>19. Own(e) \in Int
  BY OwnType
<1>. QED
  BY <1>17, <1>18, <1>19

(* What two parties agree on, of an escrow or of a bounty.                  *)
Agreed(e) ==
  \/ \E caller \in Addr, d \in Times : ProposeDeadlineExtension(e, caller, d)
  \/ \E caller \in Addr : AcceptDeadlineExtension(e, caller)
  \/ \E caller \in Addr, x \in Amounts \cup {Unset}, d \in Times \cup {Unset} :
       ProposeAmendment(e, caller, x, d)
  \/ \E caller \in Addr, n \in 0 .. MaxRounds : SignAmendment(e, caller, n)
  \/ \E n \in 0 .. MaxRounds : ApplyAmendment(e, n)

LEMMA PartyBorn ==
  ASSUME Ledgers, NEW e \in Ids, NEW caller \in Addr, caller \in Party(e)
  PROVE  escrow[e].status # "None"
BY BoundsAssumption DEF Ledgers, Books, Reached, Party

LEMMA ProposedLawful ==
  ASSUME Ledgers, NEW e \in Ids, escrow[e].status # "None", Alone,
         UNCHANGED <<now, config, nextId, escrow, terms, collateral, received, paid, verdict>>,
         Put(amendment, amendment', {e}), Proposal(amendment'[e])
  PROVE  Lawful
<1>1. PICK r : r = escrow[e]
  OBVIOUS
<1>2. Account(r) /\ r.amount = escrow[e].amount /\ r.status = escrow[e].status /\ r.status # "None"
  BY <1>1 DEF Ledgers, Books, Typed
<1>3. escrow'[e] = r /\ Put(escrow, escrow', {e}) /\ Put(verdict, verdict', {e})
  BY <1>1 DEF Put
<1>4. verdict'[e].percent \in Int
  BY DEF Ledgers, Books, Typed
<1>. QED
  BY <1>2, <1>3, <1>4, KeptLawful

LEMMA AgreedLawful ==
  ASSUME Ledgers, NEW e \in Ids, Agreed(e), Alone
  PROVE  Lawful
<1>1. Books(e) /\ Shapes
  BY DEF Ledgers
<1>2. ASSUME NEW caller \in Addr, NEW d \in Times, ProposeDeadlineExtension(e, caller, d)
      PROVE  Lawful
  BY <1>2, QuietLawful DEF ProposeDeadlineExtension, clockVars, escrowVars, releaseVars,
                           disputeVars, moneyVars
<1>3. ASSUME NEW caller \in Addr, AcceptDeadlineExtension(e, caller)
      PROVE  Lawful
  <2>. DEFINE r == [escrow[e] EXCEPT !.deadline = extension[e].deadline]
  <2>1. escrow[e].status # "None"
    BY <1>3, PartyBorn DEF AcceptDeadlineExtension, MayExtend
  <2>2. Account(r) /\ r.amount = escrow[e].amount /\ r.status = escrow[e].status /\ r.status # "None"
    BY <1>1, <2>1 DEF Books, Typed, Account
  <2>3. Rewrite(e, r) /\ UNCHANGED amendment
    BY <1>3 DEF AcceptDeadlineExtension
  <2>. HIDE DEF r
  <2>. QED
    BY <2>2, <2>3, RewriteLawful
<1>4. ASSUME NEW caller \in Addr, NEW x \in Amounts \cup {Unset}, NEW d \in Times \cup {Unset},
             ProposeAmendment(e, caller, x, d)
      PROVE  Lawful
  <2>1. escrow[e].status # "None"
    BY <1>4, PartyBorn DEF ProposeAmendment
  <2>2. PICK n : amendment' = [amendment EXCEPT ![e] = n] /\ Proposal(n)
    <3>. DEFINE n == [nonce |-> nonce[e], proposer |-> caller, amount |-> x,
                      deadline |-> d, expiresAt |-> now + config.amendmentExpiry,
                      signed |-> SidesOf(e, caller)]
    <3>1. amendment' = [amendment EXCEPT ![e] = n]
      BY <1>4 DEF ProposeAmendment
    <3>2. x \in Int /\ (x = Unset \/ x > 0)
      BY <1>4, InputAssumption DEF ProposeAmendment, Unset
    <3>3. Proposal(n)
      BY <3>2 DEF Proposal
    <3>. QED
      BY <3>1, <3>3
  <2>3. Put(amendment, amendment', {e}) /\ amendment'[e] = n
    BY <1>1, <2>2 DEF Shapes, Put
  <2>4. UNCHANGED <<now, config, nextId, escrow, terms, collateral, received, paid, verdict>>
    BY <1>4 DEF ProposeAmendment, clockVars, escrowVars, releaseVars, disputeVars, moneyVars
  <2>. QED
    BY <2>1, <2>2, <2>3, <2>4, ProposedLawful
<1>5. ASSUME NEW caller \in Addr, NEW n \in 0 .. MaxRounds, SignAmendment(e, caller, n)
      PROVE  Lawful
  <2>1. escrow[e].status # "None"
    BY <1>5, PartyBorn DEF SignAmendment
  <2>2. CASE Amend(e)
    BY <2>1, <2>2, AmendLawful
  <2>3. CASE ~Amend(e)
    <3>1. PICK signed : amendment' = [amendment EXCEPT ![e].signed = signed]
      BY <1>5, <2>3 DEF SignAmendment
    <3>2. UNCHANGED <<now, config, nextId, escrow, terms, collateral, received, paid, verdict>>
      BY <1>5, <2>3 DEF SignAmendment, clockVars, escrowVars, releaseVars, disputeVars, moneyVars
    <3>3. Put(amendment, amendment', {e}) /\ Proposal(amendment'[e])
      BY <1>1, <3>1 DEF Shapes, Put, Books, Typed, Proposal
    <3>. QED
      BY <2>1, <3>2, <3>3, ProposedLawful
  <2>. QED
    BY <2>2, <2>3
<1>6. ASSUME NEW n \in 0 .. MaxRounds, ApplyAmendment(e, n)
      PROVE  Lawful
  <2>1. escrow[e].status # "None" /\ Amend(e)
    BY <1>1, <1>6 DEF ApplyAmendment, Pending, Books, Reached
  <2>. QED
    BY <2>1, AmendLawful
<1>. QED
  BY <1>2, <1>3, <1>4, <1>5, <1>6 DEF Agreed

LEMMA TopUpLawful ==
  ASSUME Ledgers, NEW e \in Ids, NEW x \in Int, TopUpEscrow(e, x), Alone
  PROVE  Lawful
<1>1. Books(e) /\ Shapes
  BY DEF Ledgers
<1>2. PICK a \in Int : a = escrow[e].amount
  BY <1>1 DEF Books, Typed, Account
<1>. DEFINE r == [escrow[e] EXCEPT !.amount = @ + x, !.acknowledged = FALSE]
<1>3. a + x \in Int /\ x > 0 /\ escrow[e].status \in Standing /\ escrow[e].status # "None"
  BY DEF TopUpEscrow, Standing, Live, Open
<1>4. Account(r) /\ r.status = escrow[e].status /\ r.amount = a + x
  BY <1>1, <1>2, <1>3 DEF Books, Typed, Account
<1>5. escrow' = [escrow EXCEPT ![e] = r]
  BY DEF TopUpEscrow
<1>. HIDE DEF r
<1>6. escrow'[e] = r /\ Put(escrow, escrow', {e})
  BY <1>1, <1>5 DEF Shapes, Put
<1>7. received'[e] = received[e] + x /\ Put(received, received', {e})
  BY <1>1 DEF TopUpEscrow, Shapes, Put
<1>8. UNCHANGED <<now, config, nextId, terms, collateral, paid, amendment, verdict>>
  BY DEF TopUpEscrow, clockVars, releaseVars, disputeVars, agreeVars
<1>9. Beside(e)
  BY AloneBeside
<1>10. Writes(e)
  <2>1. received'[e] \in Int /\ nextId' \in Int /\ nextId' >= nextId
    BY <1>1, <1>7, <1>8 DEF Shapes, Books, Typed
  <2>. QED
    BY <1>1, <1>3, <1>4, <1>6, <1>8, <2>1 DEF Books, Typed, Writes
<1>11. Moves(e, x, 0)
  <2>1. Own(e) = a /\ Own(e)' = a + x
    <3>1. Own(e) = escrow[e].amount
      BY <1>3 DEF Own
    <3>2. Own(e)' = escrow'[e].amount
      BY <1>3, <1>4, <1>6 DEF Own
    <3>. QED
      BY <1>2, <1>4, <1>6, <3>1, <3>2
  <2>2. TotalPaid(e)' = TotalPaid(e)
    BY <1>8 DEF TotalPaid
  <2>. DEFINE o == Own(e)'
              t == TotalPaid(e)'
  <2>3. o = a + x /\ t = TotalPaid(e)
    BY <2>1, <2>2
  <2>. HIDE DEF o, t
  <2>4. collateral'[e] = collateral[e] /\ collateral[e] \in Int /\ TotalPaid(e) \in Int
    BY <1>1, <1>8, OwnType DEF Books, Typed
  <2>5. t = TotalPaid(e) + 0
        /\ (Own(e) >= 0 => o >= 0 /\ o = Own(e) + x - 0 - (collateral'[e] - collateral[e]))
    BY <1>3, <2>1, <2>3, <2>4
  <2>. QED
    BY <1>7, <2>5 DEF Moves, o, t
<1>12. Law(e)
  BY <1>9, <1>10, <1>11, WriteLaw
<1>13. Frames({e})
  BY <1>1, <1>6, <1>7, <1>8 DEF Frames, Put, Alone, Shapes
<1>. QED
  BY <1>12, <1>13, OneLawful

(* A call that rewrites the record of e, amount and standing apart.         *)
LEMMA RecordLawful ==
  ASSUME Ledgers, NEW e \in Created, NEW r, Rewrite(e, r),
         {"status", "amount"} \subseteq DOMAIN r,
         DOMAIN escrow[e] \subseteq DOMAIN r, r.amount = escrow[e].amount,
         \/ r.status = escrow[e].status /\ r.status # "None"
         \/ escrow[e].status \in Standing /\ r.status \in Standing \ {"AwaitingCollateral"},
         UNCHANGED amendment, Alone
  PROVE  Lawful
<1>1. e \in Ids /\ e < nextId
  BY CreatedOnes
<1>2. Account(r)
  BY <1>1, StandingKinds DEF Ledgers, Books, Typed, Account
<1>. QED
  BY <1>1, <1>2, RewriteLawful

LEMMA AmendmentNextLawful ==
  ASSUME Ledgers, AmendmentNext, Alone
  PROVE  Lawful
<1>1. PICK e \in Created :
        Agreed(e) \/ (\E x \in Amounts : TopUpEscrow(e, x)) \/ AcknowledgeTopup(e)
  BY DEF AmendmentNext, Agreed
<1>2. e \in Ids /\ Books(e)
  BY CreatedOnes DEF Ledgers
<1>3. CASE AcknowledgeTopup(e)
  <2>1. PICK r : r = [escrow[e] EXCEPT !.acknowledged = TRUE]
    OBVIOUS
  <2>2. DOMAIN r = DOMAIN escrow[e] /\ r.amount = escrow[e].amount /\ r.status = escrow[e].status
        /\ r.status # "None" /\ Rewrite(e, r) /\ UNCHANGED amendment
    BY <1>2, <1>3, <2>1 DEF Books, Typed, Account, AcknowledgeTopup, Exists, agreeVars
  <2>3. {"status", "amount"} \subseteq DOMAIN r
    BY <1>2, <2>2 DEF Books, Typed, Account
  <2>. QED
    BY <2>2, <2>3, RecordLawful
<1>4. Amounts \subseteq Int
  BY InputAssumption
<1>. QED
  BY <1>1, <1>2, <1>3, <1>4, AgreedLawful, TopUpLawful

LEMMA PartyNextLawful ==
  ASSUME Ledgers, PartyNext, Alone
  PROVE  Lawful
<1>1. PICK e \in Created :
        \/ \E newBuyer \in Addr : TransferBuyerRole(e, newBuyer)
        \/ \E newSeller \in Addr : TransferSellerRole(e, newSeller)
        \/ ConcludeSellerTransfer(e)
        \/ VetoSellerTransfer(e)
  BY DEF PartyNext, ApproveSellerTransfer, ExpireSellerTransferVeto
<1>2. e \in Ids /\ Books(e) /\ {"status", "amount"} \subseteq DOMAIN escrow[e]
  BY CreatedOnes DEF Ledgers, Books, Typed, Account
<1>3. CASE VetoSellerTransfer(e)
  <2>1. escrow[e].status \in Standing /\ Settle(e, "Refunded", escrow[e].amount, 0)
        /\ UNCHANGED <<verdict, amendment>>
    BY <1>3 DEF VetoSellerTransfer, Standing, Live, disputeVars, agreeVars
  <2>2. PICK status \in Terminal : status = "Refunded"
    BY DEF Terminal
  <2>. QED
    BY <2>1, <2>2, EndsLawful
<1>4. CASE ~VetoSellerTransfer(e)
  <2>1. PICK r : /\ DOMAIN r = DOMAIN escrow[e] /\ r.amount = escrow[e].amount
                 /\ r.status \in {"Active", "AwaitingBuyerVetoDecision"}
                 /\ Rewrite(e, r)
    <3>1. CASE \E newBuyer \in Addr : TransferBuyerRole(e, newBuyer)
      BY <1>2, <3>1 DEF TransferBuyerRole
    <3>2. CASE \E newSeller \in Addr : TransferSellerRole(e, newSeller)
      BY <1>2, <3>2 DEF TransferSellerRole, WithStatus
    <3>3. CASE ConcludeSellerTransfer(e)
      BY <1>2, <3>3 DEF ConcludeSellerTransfer
    <3>. QED
      BY <1>1, <1>4, <3>1, <3>2, <3>3
  <2>2. escrow[e].status \in {"Active", "AwaitingBuyerVetoDecision"} /\ UNCHANGED amendment
    BY <1>1, <1>4 DEF TransferBuyerRole, TransferSellerRole, ConcludeSellerTransfer, agreeVars
  <2>3. escrow[e].status \in Standing /\ r.status \in Standing \ {"AwaitingCollateral"}
    BY <2>1, <2>2 DEF Standing, Live, Open
  <2>. QED
    BY <1>2, <2>1, <2>2, <2>3, RecordLawful
<1>. QED
  BY <1>3, <1>4

LEMMA InspectionNextLawful ==
  ASSUME Ledgers, InspectionNext, Alone
  PROVE  Lawful
<1>1. PICK e \in Created :
        \/ SellerMarkComplete(e)
        \/ \E approved \in BOOLEAN : SubmitInspectionReport(e, approved)
        \/ \E caller, insp \in Addr : ReplaceInspector(e, caller, insp)
        \/ AppealInspectorRuling(e)
  BY DEF InspectionNext
<1>2. e \in Ids /\ Books(e) /\ {"status", "amount"} \subseteq DOMAIN escrow[e]
  BY CreatedOnes DEF Ledgers, Books, Typed, Account
<1>3. CASE SellerMarkComplete(e) \/ \E approved \in BOOLEAN : SubmitInspectionReport(e, approved)
  <2>1. PICK status \in {"AwaitingInspection", "InspectionPassed", "InspectionFailed"} :
          Rewrite(e, WithStatus(e, status)) /\ UNCHANGED amendment
    BY <1>3 DEF SellerMarkComplete, SubmitInspectionReport, agreeVars
  <2>2. escrow[e].status \in Standing /\ status \in Standing \ {"AwaitingCollateral"}
    BY <1>3 DEF SellerMarkComplete, SubmitInspectionReport, Standing, Live, Open
  <2>. QED
    BY <2>1, <2>2, StatusLawful
<1>4. ASSUME NEW caller \in Addr, NEW insp \in Addr, ReplaceInspector(e, caller, insp)
      PROVE  Lawful
  <2>1. escrow[e].status # "None" /\ UNCHANGED amendment
    BY <1>2, <1>4, PartyBorn DEF ReplaceInspector, agreeVars
  <2>. DEFINE r == [escrow[e] EXCEPT !.inspector = insp,
                      !.status = IF @ \in {"AwaitingInspection", "InspectionFailed"}
                                 THEN "Active" ELSE @]
  <2>2. CASE Rewrite(e, r)
    <3>1. DOMAIN r = DOMAIN escrow[e] /\ r.amount = escrow[e].amount
          /\ r.status = IF escrow[e].status \in {"AwaitingInspection", "InspectionFailed"}
                        THEN "Active" ELSE escrow[e].status
      BY <1>2
    <3>. HIDE DEF r
    <3>2. \/ r.status = escrow[e].status /\ r.status # "None"
          \/ escrow[e].status \in Standing /\ r.status \in Standing \ {"AwaitingCollateral"}
      BY <2>1, <3>1 DEF Standing, Live, Open
    <3>. QED
      BY <1>2, <2>1, <2>2, <3>1, <3>2, RecordLawful
  <2>3. CASE ~Rewrite(e, r)
    <3>1. UNCHANGED <<clockVars, escrowVars, releaseVars, disputeVars, moneyVars>>
      BY <1>4, <2>3 DEF ReplaceInspector
    <3>. QED
      BY <2>1, <3>1, QuietLawful DEF clockVars, escrowVars, releaseVars, disputeVars, moneyVars
  <2>. QED
    BY <2>2, <2>3
<1>5. CASE AppealInspectorRuling(e)
  BY <1>5, QuietLawful DEF AppealInspectorRuling, clockVars, escrowVars, releaseVars,
                           disputeVars, agreeVars, moneyVars
<1>. QED
  BY <1>1, <1>3, <1>4, <1>5

LEMMA NextLawful ==
  ASSUME Ledgers, Next, Alone, \A f \in Ids : received'[f] >= received[f]
  PROVE  Lawful
<1>1. CASE Tick
  <2>1. now' \in Nat
    BY <1>1 DEF Tick, Ledgers, Shapes
  <2>. QED
    BY <1>1, <2>1, UntouchedLawful DEF Tick, Ledgers, Shapes, Untouched, Alone, escrowVars,
          releaseVars, disputeVars, agreeVars, moneyVars
<1>. QED
  BY <1>1, CreationLawful, ReleaseNextLawful, RenewalNextLawful, ConditionNextLawful,
     DisputeNextLawful, CancellationNextLawful, AmendmentNextLawful, VetoNextLawful,
     PartyNextLawful, InspectionNextLawful, AdminNextLawful DEF Next

LEMMA BountyTermsLawful ==
  ASSUME Ledgers, BountyTermsNext, Alone
  PROVE  Lawful
<1>1. PICK e \in Ids : Agreed(e)
  BY DEF BountyTermsNext, Bounties, Agreed
<1>. QED
  BY <1>1, AgreedLawful

-----------------------------------------------------------------------------
(* Requests for a partial release.                                          *)

LEMMA AskLawful ==
  ASSUME Ledgers, NEW e \in Created, escrow[e].status \notin Bountied, escrow[e].status # "None",
         NEW r, Account(r), escrow'[e] = r, Put(escrow, escrow', {e}),
         r.status = escrow[e].status \/ r.status = "Disputed",
         Put(paid, paid', {e}), paid'[e] \in PaidRecord,
         Put(request, request', {e}), request'[e].amount \in Int,
         UNCHANGED <<now, config, nextId, terms, collateral, received, amendment, verdict,
                     schedule, bounty, steps>>,
         LateAnswer(e) \/ \E p \in Int : Moves(e, 0, p)
  PROVE  Lawful
<1>1. e \in Ids /\ e < nextId /\ e \in Int /\ Books(e) /\ Shapes
  BY CreatedOnes DEF Ledgers
<1>2. Frames({e})
  BY <1>1 DEF Frames, Put, Shapes
<1>3. Typed(e)'
  BY <1>1 DEF Books, Typed
<1>4. Counted(e)'
  BY <1>1 DEF Books, Counted, PaidSteps
<1>5. Reached(e)'
  <2>1. ~(e >= nextId') /\ ~(e > nextId')
    BY <1>1 DEF Shapes
  <2>2. r.status # "None" /\ r.status \notin Bountied
        /\ (r.status = "AwaitingCollateral" => escrow[e].status = "AwaitingCollateral")
    BY DEF Bountied
  <2>. QED
    BY <1>1, <2>1, <2>2 DEF Books, Reached
<1>6. Even(e) \/ LateAnswer(e)
  <2>1. schedule'[e] = schedule[e] /\ collateral'[e] \in Int /\ 0 \in Int
    BY <1>1 DEF Books, Typed
  <2>. QED
    BY <1>1, <2>1, MovesEven
<1>7. Law(e)
  BY <1>3, <1>4, <1>5, <1>6 DEF Law, Books, Known
<1>. QED
  BY <1>1, <1>2, <1>7, OneLawful

(* Nothing moves.                                                           *)
LEMMA StillMoves ==
  ASSUME Ledgers, NEW e \in Ids, UNCHANGED <<collateral, received, paid, bounty>>,
         \/ escrow'[e] = escrow[e]
         \/ /\ escrow'[e].amount = escrow[e].amount
            /\ escrow[e].status \in Standing /\ escrow'[e].status \in Standing
  PROVE  Moves(e, 0, 0)
<1>1. Own(e)' = Own(e)
  BY DEF Own
<1>2. TotalPaid(e)' = TotalPaid(e)
  BY DEF TotalPaid
<1>3. received[e] \in Int /\ collateral[e] \in Int /\ Own(e) \in Int /\ TotalPaid(e) \in Int
  BY OwnType DEF Ledgers, Books, Typed
<1>. QED
  BY <1>1, <1>2, <1>3 DEF Moves

LEMMA RequestNextLawful ==
  ASSUME Ledgers, RequestNext, UNCHANGED <<schedule, bounty, steps>>
  PROVE  Lawful
<1>1. PICK e \in Created :
        \/ \E x \in Amounts : RequestPartialRelease(e, x)
        \/ \E id \in 1 .. MaxRequests : ApprovePartialRelease(e, id)
        \/ \E id \in 1 .. MaxRequests : RejectPartialRelease(e, id)
        \/ EscalatePartialRelease(e)
  BY DEF RequestNext
<1>2. e \in Ids /\ e < nextId /\ e \in Int /\ Books(e) /\ Shapes
  BY CreatedOnes DEF Ledgers
<1>3. PICK r0 : r0 = escrow[e]
  OBVIOUS
<1>4. CASE (\E x \in Amounts : RequestPartialRelease(e, x))
           \/ \E id \in 1 .. MaxRequests : RejectPartialRelease(e, id)
  <2>1. UNCHANGED vars
    BY <1>4 DEF RequestPartialRelease, RejectPartialRelease
  <2>2. UNCHANGED <<now, config, nextId, escrow, terms, collateral, received, paid, amendment, verdict>>
    BY <2>1 DEF vars, clockVars, escrowVars, releaseVars, disputeVars, agreeVars, moneyVars
  <2>3. escrow[e].status \notin Bountied /\ escrow[e].status # "None"
    BY <1>2, <1>4 DEF RequestPartialRelease, RejectPartialRelease, Books, Reached, Bountied
  <2>4. Put(request, request', {e}) /\ request'[e].amount \in Int
    BY <1>2, <1>4, InputAssumption DEF RequestPartialRelease, RejectPartialRelease, Shapes, Put,
                                       NoPartial
  <2>5. Moves(e, 0, 0) /\ 0 \in Int
    BY <1>2, <2>2, StillMoves
  <2>6. Put(escrow, escrow', {e}) /\ Put(paid, paid', {e}) /\ escrow'[e] = r0 /\ Account(r0)
        /\ paid'[e] \in PaidRecord /\ r0.status = escrow[e].status
    BY <1>2, <1>3, <2>2 DEF Put, Books, Typed
  <2>. QED
    BY <2>2, <2>3, <2>4, <2>5, <2>6, AskLawful
<1>5. ASSUME NEW id \in 1 .. MaxRequests, ApprovePartialRelease(e, id)
      PROVE  Lawful
  <2>1. PICK a \in Int, x \in Int : a = escrow[e].amount /\ x = request[e].amount
    BY <1>2 DEF Books, Typed, Account
  <2>2. request[e] # NoPartial /\ escrow[e].status \notin Bountied /\ escrow[e].status # "None"
    BY <1>2, <1>5 DEF ApprovePartialRelease, Books, Reached
  <2>. DEFINE r == [escrow[e] EXCEPT !.amount = @ - x]
  <2>3. a - x \in Int
    BY <2>1
  <2>4. Account(r) /\ r.status = escrow[e].status /\ r.amount = a - x
    BY <1>2, <2>1, <2>3 DEF Books, Typed, Account
  <2>5. escrow' = [escrow EXCEPT ![e] = r]
    BY <1>5, <2>1 DEF ApprovePartialRelease
  <2>. HIDE DEF r
  <2>6. escrow'[e] = r /\ Put(escrow, escrow', {e})
    BY <1>2, <2>5 DEF Shapes, Put
  <2>7. request' = [request EXCEPT ![e] = NoPartial] /\ paid' = Pay(e, 0, x)
        /\ UNCHANGED <<now, config, nextId, terms, collateral, received, amendment, verdict>>
    BY <1>5, <2>1 DEF ApprovePartialRelease, clockVars, releaseVars, disputeVars, agreeVars
  <2>8. request'[e] = NoPartial /\ Put(request, request', {e}) /\ request'[e].amount \in Int
    BY <1>2, <2>7 DEF Shapes, Put, NoPartial
  <2>9. paid'[e] \in PaidRecord /\ TotalPaid(e)' = TotalPaid(e) + 0 + x /\ Put(paid, paid', {e})
    <3>1. paid' = Pay(e, 0, x) /\ e \in Ids
      BY <1>2, <2>7
    <3>. QED
      BY <3>1, PayAt
  <2>10. TotalPaid(e)' = TotalPaid(e) + x
    BY <1>2, <2>9, OwnType
  <2>11. LateAnswer(e) \/ \E p \in Int : Moves(e, 0, p)
    <3>1. CASE escrow[e].status \in Terminal \/ x > a
      BY <2>1, <2>2, <2>8, <3>1 DEF LateAnswer
    <3>2. CASE escrow[e].status \notin Terminal /\ a - x >= 0
      <4>1. escrow[e].status \in Standing
        BY <1>2, <2>2, <3>2 DEF Books, Typed, Account, Kinds
      <4>2. Own(e) = a
        BY <2>1, <4>1 DEF Own
      <4>3. Own(e)' = a - x
        BY <2>4, <2>6, <4>1 DEF Own
      <4>4. received'[e] = received[e] + 0 /\ collateral'[e] = collateral[e] /\ collateral[e] \in Int
        BY <1>2, <2>7 DEF Books, Typed
      <4>. DEFINE o == Own(e)'
      <4>5. o = a - x
        BY <4>3
      <4>. HIDE DEF o
      <4>6. Own(e) >= 0 => o >= 0 /\ o = Own(e) + 0 - x - (collateral'[e] - collateral[e])
        BY <3>2, <4>2, <4>4, <4>5
      <4>. QED
        BY <2>10, <4>4, <4>6 DEF Moves, o
    <3>3. escrow[e].status \in Terminal \/ x > a \/ (escrow[e].status \notin Terminal /\ a - x >= 0)
      OBVIOUS
    <3>. QED
      BY <3>1, <3>2, <3>3
  <2>. QED
    BY <2>2, <2>4, <2>6, <2>7, <2>8, <2>9, <2>11, AskLawful
<1>6. CASE EscalatePartialRelease(e)
  <2>1. request[e] # NoPartial /\ escrow[e].status \notin Bountied /\ escrow[e].status # "None"
    BY <1>2, <1>6 DEF EscalatePartialRelease, Books, Reached
  <2>. DEFINE r == [escrow[e] EXCEPT !.status = "Disputed"]
  <2>2. Account(r) /\ r.status = "Disputed" /\ r.amount = escrow[e].amount
    BY <1>2 DEF Books, Typed, Account, Kinds, Standing, Live, InDispute
  <2>3. escrow' = [escrow EXCEPT ![e] = r]
    BY <1>6 DEF EscalatePartialRelease
  <2>. HIDE DEF r
  <2>4. escrow'[e] = r /\ Put(escrow, escrow', {e})
    BY <1>2, <2>3 DEF Shapes, Put
  <2>5. request' = [request EXCEPT ![e] = NoPartial]
        /\ UNCHANGED <<now, config, nextId, terms, collateral, received, amendment, verdict, paid>>
    BY <1>6 DEF EscalatePartialRelease, clockVars, releaseVars, agreeVars, moneyVars
  <2>6. request'[e] = NoPartial /\ Put(request, request', {e}) /\ request'[e].amount \in Int
    BY <1>2, <2>5 DEF Shapes, Put, NoPartial
  <2>7. paid'[e] \in PaidRecord /\ Put(paid, paid', {e})
    BY <1>2, <2>5 DEF Books, Typed, Put
  <2>8. CASE escrow[e].status \in Terminal
    <3>1. LateAnswer(e)
      BY <2>1, <2>6, <2>8 DEF LateAnswer
    <3>. QED
      BY <2>1, <2>2, <2>4, <2>5, <2>6, <2>7, <3>1, AskLawful
  <2>9. CASE escrow[e].status \notin Terminal
    <3>1. escrow[e].status \in Standing
      BY <1>2, <2>1, <2>9 DEF Books, Typed, Account, Kinds
    <3>2. escrow'[e].status \in Standing /\ escrow'[e].amount = escrow[e].amount
      BY <2>2, <2>4 DEF Standing, Live, InDispute
    <3>3. Moves(e, 0, 0) /\ 0 \in Int
      BY <1>2, <2>5, <3>1, <3>2, StillMoves
    <3>. QED
      BY <2>1, <2>2, <2>4, <2>5, <2>6, <2>7, <3>3, AskLawful
  <2>. QED
    BY <2>8, <2>9
<1>. QED
  BY <1>1, <1>4, <1>5, <1>6

-----------------------------------------------------------------------------
(* Milestones and stages.  What the steps of an escrow that has them leave  *)
(* behind is not bound; its records are.                                    *)

Planned ==
  /\ DOMAIN milestones = Ids /\ DOMAIN stages = Ids
  /\ \A f \in Ids :
       /\ IsFiniteSet(DOMAIN stages[f])
       /\ \A i \in DOMAIN milestones[f] : milestones[f][i].amount \in Int
       /\ \A i \in DOMAIN stages[f] : stages[f][i].bps \in Int

LEMMA ListDomain ==
  ASSUME NEW T, NEW list \in Seq(T)
  PROVE  IsFiniteSet(DOMAIN list) /\ \A i \in DOMAIN list : list[i] \in T
<1>1. Len(list) \in Nat /\ DOMAIN list = 1 .. Len(list)
  OBVIOUS
<1>. QED
  BY <1>1, FS_Interval

LEMMA StageAmountType ==
  ASSUME Ledgers, Planned, NEW e \in Ids, NEW i \in DOMAIN stages[e]
  PROVE  StageAmount(e, i) \in Int
<1>1. PICK a \in Int : a = escrow[e].amount
  BY DEF Ledgers, Books, Typed, Account
<1>2. \A j \in DOMAIN stages[e] : StageShare(e, j) \in Int
  BY <1>1 DEF Planned, StageShare, Bps, AllBps
<1>. DEFINE f == [j \in DOMAIN stages[e] |-> StageShare(e, j)]
            S == Approved(stages[e]) \ {i}
<1>3. IsFiniteSet(S)
  <2>1. S \subseteq DOMAIN stages[e]
    BY DEF Approved
  <2>. QED
    BY <2>1, FS_Subset DEF Planned
<1>4. Integral(f, S)
  BY <1>2 DEF Integral, Approved
<1>. HIDE DEF f, S
<1>5. SumOf(f, S) \in Int
  BY <1>3, <1>4, SumType
<1>6. a - SumOf(f, S) \in Int
  BY <1>1, <1>5
<1>7. StageAmount(e, i) = a - SumOf(f, S) \/ StageAmount(e, i) = StageShare(e, i)
  BY <1>1 DEF StageAmount, f, S
<1>. QED
  BY <1>2, <1>6, <1>7

LEMMA PlanStepLawful ==
  ASSUME Ledgers, NEW e \in Created, Known(e),
         NEW x \in Int, paid' = Pay(e, 0, x),
         escrow' = escrow \/ (escrow' = Released(e) /\ escrow[e].status = "Active"),
         UNCHANGED <<now, config, nextId, terms, collateral, received, amendment, verdict>>, Alone
  PROVE  Lawful
<1>1. e \in Ids /\ e < nextId /\ e \in Int /\ Books(e) /\ Shapes
  BY CreatedOnes DEF Ledgers
<1>2. 0 \in Int
  OBVIOUS
<1>3. paid'[e] \in PaidRecord /\ Put(paid, paid', {e})
  BY <1>1, <1>2, PayAt
<1>4. /\ Put(escrow, escrow', {e}) /\ Account(escrow'[e])
      /\ \/ escrow'[e] = escrow[e]
         \/ escrow'[e].status = "Released"
  BY <1>1 DEF Released, Shapes, Put, Books, Typed, Account, Kinds, Terminal
<1>5. Frames({e})
  BY <1>1, <1>3, <1>4 DEF Frames, Put, Shapes, Alone
<1>6. Typed(e)' /\ Counted(e)'
  BY <1>1, <1>3, <1>4 DEF Books, Typed, Counted, PaidSteps, Alone
<1>7. Reached(e)'
  <2>1. ~(e >= nextId') /\ ~(e > nextId')
    BY <1>1 DEF Shapes
  <2>. QED
    BY <1>1, <1>4, <2>1 DEF Books, Reached, Alone, Bountied
<1>. QED
  BY <1>1, <1>5, <1>6, <1>7, OneLawful DEF Law, Books

LEMMA MilestoneNextLawful ==
  ASSUME Ledgers, Planned, MilestoneNext, Alone
  PROVE  Lawful
<1>1. ASSUME NEW r \in Requests, CreateCore(r, "Active")
      PROVE  Lawful
  <2>1. r.amount >= 0
    <3>1. r \in Request
      BY InputAssumption
    <3>. QED
      BY <1>1, <3>1 DEF CreateCore, Request
  <2>2. Store(r, "Active") /\ "Active" \in {"Active", "AwaitingCollateral"}
    BY <1>1 DEF CreateCore
  <2>. QED
    BY <2>1, <2>2, PlainStoreLawful
<1>2. CASE MilestoneStep
  <2>1. PICK e \in Created :
          \/ \E i \in DOMAIN milestones[e], caller \in Addr : ApproveMilestone(e, caller, i)
          \/ \E i \in DOMAIN stages[e] :
               \/ SubmitMilestone(e, i) \/ RejectMilestone(e, i)
               \/ \E caller \in Addr : ApproveProportionalMilestone(e, caller, i)
    BY <1>2 DEF MilestoneStep
  <2>2. e \in Ids
    BY CreatedOnes
  <2>3. ASSUME NEW i \in DOMAIN milestones[e], NEW caller \in Addr, ApproveMilestone(e, caller, i)
        PROVE  Lawful
    <3>1. PICK x \in Int : x = milestones[e][i].amount
      BY <2>2 DEF Planned
    <3>2. /\ paid' = Pay(e, 0, x)
          /\ escrow' = escrow \/ (escrow' = Released(e) /\ escrow[e].status = "Active")
      BY <2>3, <3>1 DEF ApproveMilestone
    <3>3. UNCHANGED <<now, config, nextId, terms, collateral, received, amendment, verdict>>
      BY <2>3 DEF ApproveMilestone, clockVars, releaseVars, disputeVars, agreeVars
    <3>4. Known(e)
      <4>1. milestones[e] # <<>>
        OBVIOUS
      <4>. QED
        BY <4>1 DEF Known
    <3>. QED
      BY <3>2, <3>3, <3>4, PlanStepLawful
  <2>4. ASSUME NEW i \in DOMAIN stages[e], NEW caller \in Addr, ApproveProportionalMilestone(e, caller, i)
        PROVE  Lawful
    <3>1. PICK x \in Int : x = StageAmount(e, i)
      BY <2>2, StageAmountType
    <3>2. /\ paid' = Pay(e, 0, x)
          /\ escrow' = escrow \/ (escrow' = Released(e) /\ escrow[e].status = "Active")
      BY <2>4, <3>1 DEF ApproveProportionalMilestone
    <3>3. UNCHANGED <<now, config, nextId, terms, collateral, received, amendment, verdict>>
      BY <2>4 DEF ApproveProportionalMilestone, clockVars, releaseVars, disputeVars, agreeVars
    <3>4. Known(e)
      <4>1. stages[e] # <<>>
        OBVIOUS
      <4>. QED
        BY <4>1 DEF Known
    <3>. QED
      BY <3>2, <3>3, <3>4, PlanStepLawful
  <2>5. ASSUME NEW i \in DOMAIN stages[e], SubmitMilestone(e, i) \/ RejectMilestone(e, i)
        PROVE  Lawful
    <3>1. UNCHANGED vars
      BY <2>5 DEF SubmitMilestone, RejectMilestone
    <3>. QED
      BY <3>1, QuietLawful DEF vars, clockVars, escrowVars, releaseVars, disputeVars, agreeVars,
                               moneyVars
  <2>. QED
    BY <2>1, <2>3, <2>4, <2>5
<1>. QED
  BY <1>1, <1>2 DEF MilestoneNext, CreateMilestoneEscrow, CreateBpsMilestoneEscrow

LEMMA MilestoneNextPlanned ==
  ASSUME Planned, MilestoneNext
  PROVE  Planned'
<1>1. ASSUME NEW r \in Requests, NEW list \in Schedules, CreateMilestoneEscrow(r, list)
      PROVE  Planned'
  <2>1. list \in Seq(Nat \ {0})
    BY SchedulesAssumption
  <2>2. \A i \in DOMAIN list : list[i] \in Int
    BY <2>1, ListDomain
  <2>. QED
    BY <1>1, <2>2 DEF CreateMilestoneEscrow, Planned
<1>2. ASSUME NEW r \in Requests, NEW list \in Shares, CreateBpsMilestoneEscrow(r, list)
      PROVE  Planned'
  <2>1. list \in Seq(Nat \ {0})
    BY SchedulesAssumption
  <2>2. IsFiniteSet(DOMAIN list) /\ \A i \in DOMAIN list : list[i] \in Int
    BY <2>1, ListDomain
  <2>3. PICK n : stages' = [stages EXCEPT ![nextId] = n] /\ DOMAIN n = DOMAIN list
                 /\ \A i \in DOMAIN list : n[i].bps \in Int
    <3>. DEFINE n == [i \in DOMAIN list |-> [bps |-> list[i], status |-> "Pending"]]
    <3>1. stages' = [stages EXCEPT ![nextId] = n]
      BY <1>2 DEF CreateBpsMilestoneEscrow
    <3>2. DOMAIN n = DOMAIN list /\ \A i \in DOMAIN list : n[i].bps \in Int
      BY <2>2
    <3>. QED
      BY <3>1, <3>2
  <2>4. milestones' = milestones
    BY <1>2 DEF CreateBpsMilestoneEscrow
  <2>. QED
    BY <2>2, <2>3, <2>4 DEF Planned
<1>3. CASE MilestoneStep
  <2>1. PICK e \in Created :
          \/ \E i \in DOMAIN milestones[e], caller \in Addr : ApproveMilestone(e, caller, i)
          \/ \E i \in DOMAIN stages[e] :
               \/ SubmitMilestone(e, i) \/ RejectMilestone(e, i)
               \/ \E caller \in Addr : ApproveProportionalMilestone(e, caller, i)
    BY <1>3 DEF MilestoneStep
  <2>2. \/ stages' = stages /\ \E i : milestones' = [milestones EXCEPT ![e][i].status = "Approved"]
        \/ milestones' = milestones /\ \E i, to : stages' = [stages EXCEPT ![e][i].status = to]
    BY <2>1 DEF ApproveMilestone, SubmitMilestone, RejectMilestone, StageStep,
                ApproveProportionalMilestone
  <2>4. ASSUME NEW i, milestones' = [milestones EXCEPT ![e][i].status = "Approved"],
               stages' = stages
        PROVE  Planned'
    <3>1. \A f \in Ids : \A j \in DOMAIN milestones'[f] :
            j \in DOMAIN milestones[f] /\ milestones'[f][j].amount = milestones[f][j].amount
      BY <2>4 DEF Planned
    <3>. QED
      BY <2>4, <3>1 DEF Planned
  <2>5. ASSUME NEW i, NEW to, stages' = [stages EXCEPT ![e][i].status = to],
               milestones' = milestones
        PROVE  Planned'
    <3>1. \A f \in Ids : /\ DOMAIN stages'[f] = DOMAIN stages[f]
                         /\ \A j \in DOMAIN stages[f] : stages'[f][j].bps = stages[f][j].bps
      BY <2>5 DEF Planned
    <3>. QED
      BY <2>5, <3>1 DEF Planned
  <2>. QED
    BY <2>2, <2>4, <2>5
<1>. QED
  BY <1>1, <1>2, <1>3 DEF MilestoneNext

-----------------------------------------------------------------------------
(* Schedules and time locks.                                                *)

LEMMA ScheduledStoreLawful ==
  ASSUME Ledgers, NEW r \in Requests, NEW list \in Tranches, CreateEscrowWithSchedule(r, list),
         UNCHANGED <<request, bounty, steps>>
  PROVE  Lawful
<1>1. PICK n : n = nextId
  OBVIOUS
<1>2. r.amount >= 0 /\ Store(r, "Active") /\ "Active" \in {"Active", "AwaitingCollateral"}
  <2>1. r \in Request
    BY InputAssumption
  <2>. QED
    BY <2>1 DEF CreateEscrowWithSchedule, CreateCore, Request
<1>3. n \in Ids
  BY <1>1, <1>2, BoundsAssumption DEF Ledgers, Shapes, Ids, Store
<1>. DEFINE new == [i \in DOMAIN list |-> [unlockAt |-> list[i].unlockAt,
                                         amount |-> list[i].amount, claimed |-> FALSE]]
<1>4. schedule' = [schedule EXCEPT ![n] = new]
  BY <1>1 DEF CreateEscrowWithSchedule
<1>5. IsFiniteSet(DOMAIN list) /\ \A i \in DOMAIN list : list[i] \in [unlockAt: Nat, amount: Nat \ {0}]
  <2>1. list \in Seq([unlockAt: Nat, amount: Nat \ {0}])
    BY TranchesAssumption
  <2>. QED
    BY <2>1, ListDomain
<1>6. Listed(new, "claimed") /\ \A i \in DOMAIN new : ~new[i].claimed
  BY <1>5 DEF Listed
<1>. HIDE DEF new
<1>7. schedule'[n] = new /\ Put(schedule, schedule', {n})
  BY <1>3, <1>4 DEF Ledgers, Shapes, Put
<1>8. Claimed(n)' = {}
  BY <1>6, <1>7 DEF Claimed
<1>. QED
  BY <1>1, <1>2, <1>6, <1>7, <1>8, StoreLawful

LEMMA ClaimLawful ==
  ASSUME Ledgers, NEW e \in Created, NEW S \in SUBSET (DOMAIN schedule[e] \ Claimed(e)), S # {},
         NEW n, NEW last \in BOOLEAN, Claim(e, S, n, last),
         UNCHANGED <<request, bounty, steps>>
  PROVE  Lawful
<1>1. e \in Ids /\ e < nextId /\ e \in Int /\ Books(e) /\ Shapes
  BY CreatedOnes DEF Ledgers
<1>. DEFINE new == [i \in DOMAIN schedule[e] |->
                    [schedule[e][i] EXCEPT !.claimed = @ \/ i \in S]]
            r == [escrow[e] EXCEPT !.status = IF last THEN "Released" ELSE "PartiallyReleased"]
<1>2. schedule' = [schedule EXCEPT ![e] = new] /\ escrow' = [escrow EXCEPT ![e] = r]
  <2>1. schedule' = [schedule EXCEPT ![e] = new]
    BY DEF Claim
  <2>2. escrow' = [escrow EXCEPT ![e] = r]
    BY DEF Claim
  <2>. QED
    BY <2>1, <2>2
<1>3. Listed(schedule[e], "claimed")
  BY <1>1 DEF Books, Typed
<1>4. /\ DOMAIN new = DOMAIN schedule[e]
      /\ \A i \in DOMAIN schedule[e] :
           /\ DOMAIN new[i] = DOMAIN schedule[e][i] /\ new[i].amount = schedule[e][i].amount
           /\ new[i].claimed <=> (schedule[e][i].claimed \/ i \in S)
  BY <1>3 DEF Listed
<1>5. /\ Account(r) /\ r.amount = escrow[e].amount
      /\ r.status \in {"Released", "PartiallyReleased"}
  BY <1>1 DEF Books, Typed, Account, Kinds, Terminal, Standing, Live, Open
<1>. HIDE DEF new, r
<1>6. schedule'[e] = new /\ Put(schedule, schedule', {e})
      /\ escrow'[e] = r /\ Put(escrow, escrow', {e})
  BY <1>1, <1>2 DEF Shapes, Put
<1>7. Listed(schedule'[e], "claimed")
  BY <1>3, <1>4, <1>6 DEF Listed
<1>8. Worths(schedule'[e]) = Worths(schedule[e])
  BY <1>4, <1>6 DEF Worths
<1>9. Claimed(e)' = Claimed(e) \cup S
  BY <1>4, <1>6 DEF Claimed
<1>10. PICK x \in Int : x = TrancheSum(e, S)
  <2>1. S \in SUBSET DOMAIN schedule[e]
    OBVIOUS
  <2>2. IsFiniteSet(S) /\ Integral(Worths(schedule[e]), S)
    BY <1>3, <2>1, WorthsOf
  <2>3. SumOf(Worths(schedule[e]), S) \in Int
    BY <2>2, SumType
  <2>. QED
    BY <2>3 DEF TrancheSum
<1>11. paid'[e] \in PaidRecord /\ TotalPaid(e)' = TotalPaid(e) + 0 + x /\ Put(paid, paid', {e})
  <2>1. paid' = Pay(e, 0, x) /\ e \in Ids
    BY <1>1, <1>10 DEF Claim
  <2>. QED
    BY <2>1, PayAt
<1>12. TotalPaid(e)' = TotalPaid(e) + TrancheSum(e, S)
  BY <1>1, <1>10, <1>11, OwnType
<1>13. /\ UNCHANGED <<now, config, nextId, terms, collateral, received, amendment, verdict>>
       /\ escrow[e].status \in Open
  BY DEF Claim, clockVars, releaseVars, disputeVars, agreeVars
<1>14. Claims(e)
  <2>1. escrow[e].status \in Standing /\ escrow'[e].status \in Standing \cup {"Released"}
        /\ escrow'[e].amount = escrow[e].amount
    BY <1>5, <1>6, <1>13 DEF Standing, Live, Open
  <2>. QED
    BY <1>8, <1>9, <1>12, <1>13, <2>1 DEF Claims
<1>15. Frames({e})
  BY <1>1, <1>6, <1>11, <1>13 DEF Frames, Put, Shapes
<1>16. Typed(e)'
  BY <1>1, <1>5, <1>6, <1>7, <1>11, <1>13 DEF Books, Typed
<1>17. Counted(e)'
  BY <1>1 DEF Books, Counted, PaidSteps
<1>18. Reached(e)'
  <2>1. ~(e >= nextId') /\ ~(e > nextId')
    BY <1>1, <1>13 DEF Shapes
  <2>. QED
    BY <1>5, <1>6, <2>1 DEF Reached, Bountied
<1>. QED
  BY <1>1, <1>14, <1>15, <1>16, <1>17, <1>18, OneLawful DEF Law, Books

LEMMA ScheduleNextLawful ==
  ASSUME Ledgers, ScheduleNext, UNCHANGED <<request, bounty, steps>>
  PROVE  Lawful
<1>1. ASSUME NEW r \in Requests, CreateTimelockedEscrow(r)
      PROVE  Lawful
  <2>1. r.amount >= 0 /\ Store(r, "Active") /\ "Active" \in {"Active", "AwaitingCollateral"}
    <3>1. r \in Request
      BY InputAssumption
    <3>. QED
      BY <1>1, <3>1 DEF CreateTimelockedEscrow, CreateCore, Request
  <2>2. Alone
    BY <1>1 DEF CreateTimelockedEscrow, Alone
  <2>. QED
    BY <2>1, <2>2, PlainStoreLawful
<1>2. CASE ClaimStep
  <2>1. PICK e \in Created :
          \/ ClaimScheduledRelease(e)
          \/ \E i \in DOMAIN schedule[e] : ClaimScheduledTranche(e, i)
          \/ ClaimTimelocked(e)
          \/ CancelTimelocked(e)
    BY <1>2 DEF ClaimStep
  <2>2. CASE ClaimScheduledRelease(e)
    <3>1. PICK S, n, last : /\ S = Walked(e) \ Claimed(e) /\ S # {}
                            /\ last \in BOOLEAN /\ Claim(e, S, n, last)
      BY <2>2 DEF ClaimScheduledRelease
    <3>2. S \in SUBSET (DOMAIN schedule[e] \ Claimed(e))
      BY <3>1 DEF Walked
    <3>. QED
      BY <3>1, <3>2, ClaimLawful
  <2>3. ASSUME NEW i \in DOMAIN schedule[e], ClaimScheduledTranche(e, i)
        PROVE  Lawful
    <3>1. PICK S, n, last : /\ S = {i} /\ last \in BOOLEAN /\ Claim(e, S, n, last)
      BY <2>3 DEF ClaimScheduledTranche
    <3>2. S \in SUBSET (DOMAIN schedule[e] \ Claimed(e)) /\ S # {}
      BY <2>3, <3>1 DEF ClaimScheduledTranche
    <3>. QED
      BY <3>1, <3>2, ClaimLawful
  <2>4. CASE ClaimTimelocked(e) \/ CancelTimelocked(e)
    <3>1. PICK status \in Terminal :
            Settle(e, status, escrow[e].amount, 0) \/ Settle(e, status, 0, escrow[e].amount)
      BY <2>4 DEF ClaimTimelocked, CancelTimelocked, TimelockOver, Terminal
    <3>2. escrow[e].status \in Standing /\ UNCHANGED <<verdict, amendment>>
      BY <2>4 DEF ClaimTimelocked, CancelTimelocked, TimelockOver, disputeVars, agreeVars,
                  Standing, Live, Open
    <3>3. Alone
      BY <2>4 DEF ClaimTimelocked, CancelTimelocked, TimelockOver, Alone
    <3>. QED
      BY <3>1, <3>2, <3>3, EndsLawful
  <2>. QED
    BY <2>1, <2>2, <2>3, <2>4
<1>. QED
  BY <1>1, <1>2, ScheduledStoreLawful DEF ScheduleNext

-----------------------------------------------------------------------------
(* The options of an open escrow.                                           *)

LEMMA TopUpCollateralLawful ==
  ASSUME Ledgers, NEW e \in Created, NEW x \in Int, TopUpCollateral(e, x), Alone
  PROVE  Lawful
<1>1. e \in Ids /\ e < nextId /\ e \in Int /\ Books(e) /\ Shapes
  BY CreatedOnes DEF Ledgers
<1>2. PICK total \in Int : total = collateral[e] + x
  BY <1>1 DEF Books, Typed
<1>3. /\ collateral' = [collateral EXCEPT ![e] = total]
      /\ terms' = [terms EXCEPT ![e].collateral = total]
      /\ received' = [received EXCEPT ![e] = @ + x]
      /\ escrow' = escrow \/ (escrow[e].status = "UnderCollateralized"
                              /\ escrow' = [escrow EXCEPT ![e].status = "Active"])
      /\ escrow[e].status \in Open \cup {"UnderCollateralized"}
      /\ UNCHANGED <<now, config, nextId, paid, verdict, amendment>>
  BY <1>2 DEF TopUpCollateral, clockVars, disputeVars, agreeVars
<1>4. collateral'[e] = total /\ Put(collateral, collateral', {e})
      /\ received'[e] = received[e] + x /\ Put(received, received', {e})
  BY <1>1, <1>3 DEF Shapes, Put
<1>5. Put(terms, terms', {e}) /\ TermsEntry(terms'[e])
  BY <1>1, <1>3 DEF Shapes, Put, Books, Typed, TermsEntry
<1>6. /\ Put(escrow, escrow', {e}) /\ Account(escrow'[e])
      /\ escrow'[e].amount = escrow[e].amount
      /\ escrow'[e].status \in Standing \ {"AwaitingCollateral"} /\ escrow[e].status \in Standing
  <2>1. CASE escrow' = escrow
    BY <1>1, <1>3, <2>1, StandingKinds DEF Put, Books, Typed, Standing, Open
  <2>2. CASE escrow' = [escrow EXCEPT ![e].status = "Active"]
    BY <1>1, <1>3, <2>2, StandingKinds DEF Shapes, Put, Books, Typed, Account, Standing, Open
  <2>. QED
    BY <1>3, <2>1, <2>2
<1>7. Beside(e)
  BY AloneBeside
<1>8. Writes(e)
  <2>1. received'[e] \in Int /\ collateral'[e] \in Int /\ nextId' \in Int /\ nextId' >= nextId
    BY <1>1, <1>3, <1>4 DEF Shapes, Books, Typed
  <2>2. escrow[e].status # "None" /\ escrow'[e].status # "AwaitingCollateral"
    BY <1>6, StandingKinds
  <2>. QED
    BY <1>1, <1>3, <1>5, <1>6, <2>1, <2>2 DEF Books, Typed, Writes
<1>9. Moves(e, x, 0)
  <2>1. Own(e) = escrow[e].amount /\ Own(e)' = escrow[e].amount
    BY <1>6 DEF Own
  <2>2. TotalPaid(e)' = TotalPaid(e)
    BY <1>3 DEF TotalPaid
  <2>. DEFINE o == Own(e)'
              t == TotalPaid(e)'
  <2>3. o = Own(e) /\ t = TotalPaid(e)
    BY <2>1, <2>2
  <2>. HIDE DEF o, t
  <2>4. Own(e) \in Int /\ TotalPaid(e) \in Int /\ collateral[e] \in Int
    BY <1>1, OwnType DEF Books, Typed
  <2>5. t = TotalPaid(e) + 0
        /\ (Own(e) >= 0 => o >= 0 /\ o = Own(e) + x - 0 - (collateral'[e] - collateral[e]))
    BY <1>2, <1>4, <2>3, <2>4
  <2>. QED
    BY <1>4, <2>5 DEF Moves, o, t
<1>10. Law(e)
  BY <1>1, <1>7, <1>8, <1>9, WriteLaw
<1>11. Frames({e})
  BY <1>1, <1>3, <1>4, <1>5, <1>6 DEF Frames, Put, Alone, Shapes
<1>. QED
  BY <1>1, <1>10, <1>11, OneLawful

LEMMA ApproveReleaseLawful ==
  ASSUME Ledgers, NEW e \in Created, NEW approver, ApproveRelease(e, approver), Alone
  PROVE  Lawful
<1>1. e \in Ids /\ e < nextId /\ e \in Int /\ Books(e) /\ Shapes
  BY CreatedOnes DEF Ledgers
<1>2. CASE UNCHANGED vars
  BY <1>2, QuietLawful DEF vars, clockVars, escrowVars, releaseVars, disputeVars, agreeVars, moneyVars
<1>3. CASE ~UNCHANGED vars
  <2>1. PICK p \in Int : p = escrow[e].amount + collateral[e]
    BY <1>1 DEF Books, Typed, Account
  <2>2. /\ paid' = Pay(e, 0, p) /\ collateral' = [collateral EXCEPT ![e] = 0]
        /\ escrow' = Released(e)
        /\ UNCHANGED <<now, config, nextId, terms, received, verdict, amendment>>
    BY <1>3, <2>1 DEF ApproveRelease, clockVars, disputeVars, agreeVars
  <2>. DEFINE r == [escrow[e] EXCEPT !.status = "Released"]
  <2>3. escrow' = [escrow EXCEPT ![e] = r]
    BY <2>2 DEF Released
  <2>4. Account(r) /\ r.status \in Terminal
    BY <1>1 DEF Books, Typed, Account, Kinds, Terminal
  <2>. HIDE DEF r
  <2>5. paid'[e] \in PaidRecord /\ TotalPaid(e)' = TotalPaid(e) + 0 + p /\ Put(paid, paid', {e})
    <3>1. paid' = Pay(e, 0, p) /\ e \in Ids
      BY <1>1, <2>2
    <3>. QED
      BY <3>1, PayAt
  <2>6. TotalPaid(e)' = TotalPaid(e) + p
    BY <1>1, <2>5, OwnType
  <2>7. /\ collateral'[e] = 0 /\ Put(collateral, collateral', {e}) /\ Put(verdict, verdict', {e})
        /\ verdict'[e].percent \in Int
    BY <1>1, <2>2 DEF Shapes, Put, Books, Typed
  <2>8. p = escrow[e].amount + collateral[e] - collateral'[e] /\ collateral'[e] \in Int
    BY <1>1, <2>1, <2>7 DEF Books, Typed, Account
  <2>9. escrow[e].status \in Standing
    BY StandingKinds DEF ApproveRelease
  <2>. QED
    BY <1>1, <2>2, <2>3, <2>4, <2>5, <2>6, <2>7, <2>8, <2>9, PaysLawful
<1>. QED
  BY <1>2, <1>3

LEMMA ApprovalNextLawful ==
  ASSUME Ledgers, ApprovalNext, Alone
  PROVE  Lawful
<1>1. PICK e \in Created :
        \/ \E ratio \in Ratios : SetCollateralHealthConfig(e, ratio)
        \/ CheckCollateralHealth(e)
        \/ \E x \in Amounts : TopUpCollateral(e, x)
        \/ \E list \in Panels : \E n \in DOMAIN list : SetMultipartyApproval(e, list, n)
        \/ \E approver \in Addr : ApproveRelease(e, approver)
  BY DEF ApprovalNext
<1>2. CASE \/ \E ratio \in Ratios : SetCollateralHealthConfig(e, ratio)
           \/ \E list \in Panels : \E n \in DOMAIN list : SetMultipartyApproval(e, list, n)
  <2>1. UNCHANGED vars
    BY <1>2 DEF SetCollateralHealthConfig, SetMultipartyApproval
  <2>. QED
    BY <2>1, QuietLawful DEF vars, clockVars, escrowVars, releaseVars, disputeVars, agreeVars, moneyVars
<1>3. CASE CheckCollateralHealth(e)
  <2>1. PICK status \in {"UnderCollateralized", "Active"} :
          /\ Rewrite(e, WithStatus(e, status)) /\ UNCHANGED amendment
          /\ escrow[e].status \in Open \cup {"UnderCollateralized"}
    BY <1>3 DEF CheckCollateralHealth, agreeVars
  <2>2. escrow[e].status \in Standing /\ status \in Standing \ {"AwaitingCollateral"}
    BY <2>1 DEF Standing, Live, Open
  <2>. QED
    BY <2>1, <2>2, StatusLawful
<1>4. Amounts \subseteq Int
  BY InputAssumption
<1>. QED
  BY <1>1, <1>2, <1>3, <1>4, TopUpCollateralLawful, ApproveReleaseLawful

-----------------------------------------------------------------------------
(* Bounties.                                                                *)

LEMMA BountyBornLawful ==
  ASSUME Ledgers, NEW buyer \in Addr, NEW amount \in Int, NEW claimBy \in Nat, NEW submitBy \in Nat,
         StoreBounty(buyer, amount, claimBy, submitBy),
         NEW b, b = nextId + 1, Put(steps, steps', {b}), Listed(steps'[b], "status"),
         \A i \in DOMAIN steps'[b] : steps'[b][i].status # "Paid",
         UNCHANGED <<request, schedule>>
  PROVE  Lawful
<1>1. Shapes /\ nextId \in Int /\ b \in Ids /\ b \in Int /\ b > nextId /\ b >= nextId /\ nextId' = b
  BY IdType DEF StoreBounty, BountyId, Ledgers, Shapes
<1>2. /\ Books(b)
      /\ bounty[b].claimBy = 0 /\ collateral[b] = 0 /\ request[b] = NoPartial
      /\ schedule[b] = <<>> /\ escrow[b].status = "None"
  BY <1>1 DEF Ledgers, Books, Reached
<1>. DEFINE r == [NoEscrow EXCEPT !.status = "BountyUnclaimed", !.buyer = buyer,
                    !.amount = amount, !.original = amount,
                    !.createdAt = now, !.deadline = submitBy]
            o == [NoBounty EXCEPT !.claimBy = claimBy, !.submitBy = submitBy]
            t == [NoTerms EXCEPT !.arbiter = NoAddr]
<1>3. escrow' = [escrow EXCEPT ![b] = r] /\ bounty' = [bounty EXCEPT ![b] = o]
      /\ terms' = [terms EXCEPT ![b] = t]
  BY DEF StoreBounty, BountyId
<1>4. Account(r) /\ r.status = "BountyUnclaimed" /\ r.amount = amount
  BY DEF Account, NoEscrow, Kinds, Bountied
<1>5. Offer(o) /\ o.claimBy = claimBy /\ o.disbursed = 0
  BY DEF Offer, NoBounty
<1>6. TermsEntry(t)
  BY DEF TermsEntry, NoTerms, Unset
<1>. HIDE DEF r, o, t
<1>7. /\ escrow'[b] = r /\ Put(escrow, escrow', {b}) /\ bounty'[b] = o /\ Put(bounty, bounty', {b})
      /\ terms'[b] = t /\ Put(terms, terms', {b})
  BY <1>1, <1>3 DEF Shapes, Put
<1>8. received'[b] = received[b] + amount /\ Put(received, received', {b}) /\ amount > 0 /\ now < claimBy
  BY <1>1 DEF StoreBounty, BountyId, Shapes, Put
<1>9. UNCHANGED <<now, config, collateral, paid, verdict, amendment>>
  BY DEF StoreBounty, clockVars, releaseVars, disputeVars, agreeVars
<1>10. Frames({b})
  <2>1. nextId' \in 0 .. MaxEscrows /\ nextId' >= nextId
    BY <1>1, BoundsAssumption DEF Ids
  <2>. QED
    BY <1>1, <1>7, <1>8, <1>9, <2>1 DEF Frames, Put, Shapes
<1>11. Typed(b)'
  BY <1>2, <1>4, <1>5, <1>6, <1>7, <1>8, <1>9 DEF Books, Typed
<1>12. Counted(b)'
  <2>1. PaidSteps(b)' = {}
    BY DEF PaidSteps
  <2>2. PICK u, f : u = PaidSteps(b)' /\ f = Worths(steps'[b])
    OBVIOUS
  <2>3. SumOf(f, u) = 0
    <3>1. u = {}
      BY <2>1, <2>2
    <3>. QED
      BY <3>1, SumOfNone, Zenon
  <2>4. SumOf(Worths(steps'[b]), PaidSteps(b)') = 0
    BY <2>2, <2>3, Zenon
  <2>. QED
    BY <1>5, <1>7, <2>4 DEF Counted
<1>13. Reached(b)'
  <2>1. claimBy # 0 /\ ~(b > nextId')
    BY <1>1, <1>8 DEF Shapes
  <2>. QED
    BY <1>2, <1>4, <1>5, <1>7, <1>9, <2>1 DEF Reached, Bountied
<1>14. Moves(b, amount, 0)
  <2>1. Own(b) = 0
    BY <1>2, StandingKinds DEF Own
  <2>2. Own(b)' = amount
    BY <1>4, <1>5, <1>7, StandingKinds DEF Own, Bountied
  <2>3. TotalPaid(b)' = TotalPaid(b)
    BY <1>9 DEF TotalPaid
  <2>. DEFINE w == Own(b)'
              p == TotalPaid(b)'
  <2>4. w = amount /\ p = TotalPaid(b)
    BY <2>2, <2>3
  <2>. HIDE DEF w, p
  <2>5. TotalPaid(b) \in Int /\ collateral'[b] = 0
    BY <1>1, <1>2, <1>9, OwnType
  <2>6. p = TotalPaid(b) + 0 /\ w >= 0 /\ w = Own(b) + amount - 0 - (collateral'[b] - collateral[b])
    BY <1>2, <1>8, <2>1, <2>4, <2>5
  <2>. QED
    BY <1>8, <2>6 DEF Moves, w, p
<1>15. Even(b)
  <2>1. collateral'[b] \in Int /\ schedule'[b] = schedule[b] /\ 0 \in Int
    BY <1>2, <1>9
  <2>. QED
    BY <1>1, <1>14, <2>1, MovesEven
<1>. QED
  BY <1>1, <1>10, <1>11, <1>12, <1>13, <1>15, OneLawful DEF Law, Books

LEMMA BountyCreationLawful ==
  ASSUME Ledgers, BountyCreation, UNCHANGED <<request, schedule>>
  PROVE  Lawful
<1>1. PICK b : b = nextId + 1
  OBVIOUS
<1>2. PICK buyer \in Addr, claimBy \in Times, submitBy \in Times :
        \/ \E x \in Amounts : CreateBounty(buyer, x, claimBy, submitBy)
        \/ \E plan \in Plans : CreateMilestoneBounty(buyer, plan, claimBy, submitBy)
  BY DEF BountyCreation
<1>3. claimBy \in Nat /\ submitBy \in Nat
  BY InputAssumption
<1>4. ASSUME NEW x \in Amounts, CreateBounty(buyer, x, claimBy, submitBy)
      PROVE  Lawful
  <2>1. x \in Int /\ StoreBounty(buyer, x, claimBy, submitBy) /\ steps' = steps
    BY <1>4, InputAssumption DEF CreateBounty
  <2>2. b \in Ids /\ b > nextId
    BY <1>1, <2>1 DEF StoreBounty, BountyId, Ledgers, Shapes
  <2>3. steps[b] = <<>> /\ Listed(steps[b], "status")
    BY <2>2 DEF Ledgers, Books, Reached, Typed
  <2>4. Put(steps, steps', {b}) /\ Listed(steps'[b], "status")
        /\ \A i \in DOMAIN steps'[b] : steps'[b][i].status # "Paid"
    BY <2>1, <2>3 DEF Put
  <2>. QED
    BY <1>1, <1>3, <2>1, <2>4, BountyBornLawful
<1>5. ASSUME NEW plan \in Plans, CreateMilestoneBounty(buyer, plan, claimBy, submitBy)
      PROVE  Lawful
  <2>1. /\ IsFiniteSet(DOMAIN plan)
        /\ \A i \in DOMAIN plan : plan[i] \in [amount: Nat \ {0}, verifier: Addr]
    <3>1. plan \in Seq([amount: Nat \ {0}, verifier: Addr])
      BY BountiesAssumption
    <3>. QED
      BY <3>1, ListDomain
  <2>2. PICK x \in Int : x = SumOf(Worths(plan), DOMAIN plan)
    <3>1. \A i \in DOMAIN plan : Worths(plan)[i] \in Int
      BY <2>1 DEF Worths
    <3>. QED
      BY <2>1, <3>1, SumType DEF Integral
  <2>. DEFINE new == [i \in DOMAIN plan |-> [amount |-> plan[i].amount,
                        verifier |-> plan[i].verifier, status |-> "Pending"]]
  <2>3. StoreBounty(buyer, x, claimBy, submitBy) /\ steps' = [steps EXCEPT ![b] = new]
    BY <1>1, <1>5, <2>2 DEF CreateMilestoneBounty, BountyId
  <2>4. Listed(new, "status") /\ \A i \in DOMAIN new : new[i].status # "Paid"
    BY <2>1 DEF Listed
  <2>. HIDE DEF new
  <2>5. b \in Ids
    BY <1>1, <2>3 DEF StoreBounty, BountyId
  <2>6. steps'[b] = new /\ Put(steps, steps', {b})
    BY <2>3, <2>5 DEF Ledgers, Shapes, Put
  <2>. QED
    BY <1>1, <1>3, <2>3, <2>4, <2>6, BountyBornLawful
<1>. QED
  BY <1>2, <1>4, <1>5

LEMMA BountyLawful ==
  ASSUME Ledgers, NEW e \in Ids, NEW r, Account(r), escrow'[e] = r, Put(escrow, escrow', {e}),
         \/ r = escrow[e]
         \/ escrow[e].status \in Bountied /\ r.status \in Bountied \cup Terminal,
         Put(paid, paid', {e}), paid'[e] \in PaidRecord,
         Put(bounty, bounty', {e}), Offer(bounty'[e]), bounty'[e].claimBy = bounty[e].claimBy,
         Put(steps, steps', {e}), Listed(steps'[e], "status"), steps[e] = <<>> => steps'[e] = <<>>,
         Counted(e)',
         UNCHANGED <<now, config, nextId, terms, collateral, received, amendment, verdict,
                     request, schedule>>,
         BountyMixed(e) \/ \E p \in Int : Moves(e, 0, p)
  PROVE  Lawful
<1>1. Books(e) /\ Shapes
  BY DEF Ledgers
<1>2. Frames({e})
  BY <1>1 DEF Frames, Put, Shapes
<1>3. Typed(e)'
  BY <1>1 DEF Books, Typed
<1>4. Reached(e)'
  <2>1. r.status \in Bountied \cup Terminal => r.status # "None" /\ r.status # "AwaitingCollateral"
    BY DEF Bountied, Terminal
  <2>2. escrow[e].status \in Bountied => escrow[e].status # "None"
    BY DEF Bountied
  <2>. QED
    BY <1>1, <2>1, <2>2 DEF Books, Reached
<1>5. Even(e) \/ BountyMixed(e)
  <2>1. schedule'[e] = schedule[e] /\ collateral'[e] \in Int /\ 0 \in Int
    BY <1>1 DEF Books, Typed
  <2>. QED
    BY <2>1, MovesEven
<1>. QED
  BY <1>2, <1>3, <1>4, <1>5, OneLawful DEF Law, Books, Known

LEMMA CountedSame ==
  ASSUME NEW e, Counted(e), bounty'[e].disbursed = bounty[e].disbursed,
         Worths(steps'[e]) = Worths(steps[e]), PaidSteps(e)' = PaidSteps(e)
  PROVE  Counted(e)'
BY DEF Counted

(* What a call over a bounty leaves alone.                                  *)
BountyRest == UNCHANGED <<now, config, nextId, terms, collateral, received, amendment, verdict>>

LEMMA BountyTurnLawful ==
  ASSUME Ledgers, NEW e \in Ids, NEW r, Account(r), escrow'[e] = r, Put(escrow, escrow', {e}),
         \/ r = escrow[e]
         \/ /\ escrow[e].status \in Bountied /\ r.status \in Bountied
            /\ r.amount = escrow[e].amount,
         Put(bounty, bounty', {e}), Offer(bounty'[e]), bounty'[e].claimBy = bounty[e].claimBy,
         bounty'[e].disbursed = bounty[e].disbursed,
         Put(steps, steps', {e}), Listed(steps'[e], "status"), steps[e] = <<>> => steps'[e] = <<>>,
         Worths(steps'[e]) = Worths(steps[e]), PaidSteps(e)' = PaidSteps(e),
         BountyRest, UNCHANGED <<paid, request, schedule>>
  PROVE  Lawful
<1>1. Books(e) /\ Shapes
  BY DEF Ledgers
<1>2. Counted(e)'
  BY <1>1, CountedSame DEF Books
<1>3. Moves(e, 0, 0)
  <2>1. Own(e)' = Own(e)
    BY StandingKinds DEF Own
  <2>2. TotalPaid(e)' = TotalPaid(e)
    BY DEF TotalPaid
  <2>3. received[e] \in Int /\ collateral[e] \in Int /\ Own(e) \in Int /\ TotalPaid(e) \in Int
    BY <1>1, OwnType DEF Books, Typed
  <2>. QED
    BY <2>1, <2>2, <2>3 DEF Moves, BountyRest
<1>4. Put(paid, paid', {e}) /\ paid'[e] \in PaidRecord /\ 0 \in Int
  BY <1>1 DEF Put, Books, Typed
<1>. QED
  BY <1>2, <1>3, <1>4, BountyLawful DEF BountyRest

LEMMA BountyEndLawful ==
  ASSUME Ledgers, NEW e \in Ids, escrow[e].status \in Bountied, NEW status \in Terminal,
         NEW b \in Int, NEW s \in Int, Settle(e, status, b, s),
         UNCHANGED <<amendment, verdict, request, schedule, bounty, steps>>,
         \/ Own(e) >= 0 => b + s = Own(e)
         \/ status = "Released" /\ bounty[e].disbursed > 0
  PROVE  Lawful
<1>1. Books(e) /\ Shapes
  BY DEF Ledgers
<1>. DEFINE r == [escrow[e] EXCEPT !.status = status]
<1>2. Account(r) /\ r.status = status
  BY <1>1, StandingKinds DEF Books, Typed, Account
<1>3. escrow' = [escrow EXCEPT ![e] = r] /\ paid' = Pay(e, b, s)
      /\ UNCHANGED <<now, config, nextId, terms, collateral, received>>
  BY DEF Settle, clockVars, releaseVars
<1>. HIDE DEF r
<1>4. escrow'[e] = r /\ Put(escrow, escrow', {e})
  BY <1>1, <1>3 DEF Shapes, Put
<1>5. paid'[e] \in PaidRecord /\ TotalPaid(e)' = TotalPaid(e) + b + s /\ Put(paid, paid', {e})
  BY <1>3, PayAt
<1>6. Put(bounty, bounty', {e}) /\ Offer(bounty'[e]) /\ bounty'[e].claimBy = bounty[e].claimBy
      /\ Put(steps, steps', {e}) /\ Listed(steps'[e], "status") /\ steps'[e] = steps[e]
  BY <1>1 DEF Put, Books, Typed
<1>7. Counted(e)'
  BY <1>1 DEF Books, Counted, PaidSteps
<1>8. BountyMixed(e) \/ \E p \in Int : Moves(e, 0, p)
  <2>1. CASE Own(e) >= 0 => b + s = Own(e)
    <3>1. PICK p \in Int : p = b + s
      OBVIOUS
    <3>2. Own(e)' = 0
      BY <1>2, <1>4, StandingKinds DEF Own
    <3>3. TotalPaid(e)' = TotalPaid(e) + p
      BY <1>5, <3>1, OwnType
    <3>4. received[e] \in Int /\ collateral[e] \in Int /\ Own(e) \in Int
      BY <1>1, OwnType DEF Books, Typed
    <3>. DEFINE o == Own(e)'
    <3>5. o = 0
      BY <3>2
    <3>. HIDE DEF o
    <3>6. /\ received'[e] = received[e] + 0
          /\ Own(e) >= 0 => o >= 0 /\ o = Own(e) + 0 - p - (collateral'[e] - collateral[e])
      BY <1>3, <2>1, <3>1, <3>4, <3>5
    <3>7. Moves(e, 0, p)
      BY <3>3, <3>6 DEF Moves, o
    <3>. QED
      BY <3>7
  <2>2. CASE status = "Released" /\ bounty[e].disbursed > 0
    <3>1. steps[e] # <<>>
      BY <1>1, <2>2, DisbursedNatural
    <3>. QED
      BY <1>2, <1>4, <2>2, <3>1 DEF BountyMixed
  <2>. QED
    BY <2>1, <2>2
<1>9. r.status \in Bountied \cup Terminal
  BY <1>2
<1>. QED
  BY <1>2, <1>3, <1>4, <1>5, <1>6, <1>7, <1>8, <1>9, BountyLawful

LEMMA VerifyLawful ==
  ASSUME Ledgers, NEW e \in Ids, NEW i \in DOMAIN steps[e], VerifyBountyMilestone(e, i),
         UNCHANGED <<request, schedule>>
  PROVE  Lawful
<1>1. Books(e) /\ Shapes /\ Listed(steps[e], "status") /\ escrow[e].status = "BountyClaimed"
  BY DEF Ledgers, Books, Typed, VerifyBountyMilestone
<1>. DEFINE f == Worths(steps[e])
            P == PaidSteps(e)
            R == P \cup {i}
            T == DOMAIN steps[e] \ R
            D == DOMAIN steps[e]
<1>2. P \in SUBSET D /\ R \in SUBSET D /\ T \in SUBSET D /\ i \notin P /\ D = R \cup T /\ R \cap T = {}
      /\ P = R \ {i}
  BY DEF PaidSteps, VerifyBountyMilestone
<1>3. PICK x \in Nat : x = steps[e][i].amount /\ x = f[i]
  BY <1>1, WorthsOf
<1>. DEFINE new == [steps[e] EXCEPT ![i].status = "Paid"]
<1>4. steps' = [steps EXCEPT ![e] = new]
  BY DEF VerifyBountyMilestone
<1>5. /\ DOMAIN new = D
      /\ \A j \in D : /\ DOMAIN new[j] = DOMAIN steps[e][j] /\ new[j].amount = steps[e][j].amount
                      /\ new[j].status = IF j = i THEN "Paid" ELSE steps[e][j].status
  BY <1>1 DEF Listed
<1>. HIDE DEF new
<1>6. steps'[e] = new /\ Put(steps, steps', {e})
  BY <1>1, <1>4 DEF Shapes, Put
<1>7. Listed(steps'[e], "status") /\ Worths(steps'[e]) = f /\ PaidSteps(e)' = R
  <2>1. Listed(steps'[e], "status")
    BY <1>1, <1>5, <1>6 DEF Listed
  <2>2. Worths(steps'[e]) = f
    BY <1>5, <1>6 DEF Worths
  <2>3. PaidSteps(e)' = R
    BY <1>5, <1>6 DEF PaidSteps
  <2>. QED
    BY <2>1, <2>2, <2>3
<1>8. steps'[e] # steps[e] /\ steps[e] # <<>>
  <2>1. new[i].status = "Paid" /\ steps[e][i].status = "Submitted"
    BY <1>5 DEF VerifyBountyMilestone
  <2>. QED
    BY <1>6, <2>1
<1>9. PICK d \in Int, a \in Int : d = bounty[e].disbursed /\ a = escrow[e].amount
  BY <1>1 DEF Books, Typed, Offer, Account
<1>. DEFINE o == [bounty[e] EXCEPT !.disbursed = @ + x]
<1>10. bounty' = [bounty EXCEPT ![e] = o] /\ paid' = Pay(e, 0, x)
  BY <1>3 DEF VerifyBountyMilestone
<1>11. d + x \in Int
  OBVIOUS
<1>12. Offer(o) /\ o.claimBy = bounty[e].claimBy /\ o.disbursed = d + x
  BY <1>1, <1>9, <1>11 DEF Books, Typed, Offer
<1>. HIDE DEF o
<1>13. bounty'[e] = o /\ Put(bounty, bounty', {e})
  BY <1>1, <1>10 DEF Shapes, Put
<1>14. paid'[e] \in PaidRecord /\ TotalPaid(e)' = TotalPaid(e) + 0 + x /\ Put(paid, paid', {e})
  <2>1. paid' = Pay(e, 0, x) /\ e \in Ids /\ 0 \in Int /\ x \in Int
    BY <1>10
  <2>. QED
    BY <2>1, PayAt
<1>15. TotalPaid(e)' = TotalPaid(e) + x
  BY <1>14, OwnType
<1>16. UNCHANGED <<now, config, nextId, terms, collateral, received, amendment, verdict>>
  BY DEF VerifyBountyMilestone, clockVars, releaseVars, disputeVars, agreeVars
<1>17. /\ Put(escrow, escrow', {e}) /\ Account(escrow'[e]) /\ escrow'[e].amount = a
       /\ escrow'[e].status = IF R = D THEN "Released" ELSE "BountyClaimed"
  <2>1. CASE R = D
    BY <1>1, <1>9, <2>1 DEF VerifyBountyMilestone, Released, Shapes, Put, Books, Typed, Account,
                            Kinds, Terminal
  <2>2. CASE R # D
    BY <1>1, <1>9, <2>2 DEF VerifyBountyMilestone, Put, Books, Typed
  <2>. QED
    BY <2>1, <2>2
<1>18. /\ IsFiniteSet(P) /\ IsFiniteSet(R) /\ IsFiniteSet(T)
       /\ Integral(f, P) /\ Integral(f, R) /\ Integral(f, T) /\ \A j \in T : f[j] \in Nat
  BY <1>1, <1>2, WorthsOf
<1>19. d = SumOf(f, P)
  BY <1>1, <1>9 DEF Books, Counted
<1>20. i \in R
  OBVIOUS
<1>. HIDE DEF f, P, R, T, D
<1>21. SumOf(f, R) = x + d
  BY <1>2, <1>3, <1>18, <1>19, <1>20, SumWithout
<1>22. SumOf(f, D) = SumOf(f, R) + SumOf(f, T)
  BY <1>2, <1>18, SumTogether
<1>23. SumOf(f, T) \in Nat
  BY <1>18, SumNatural
<1>24. R = D => SumOf(f, T) = 0
  <2>1. ASSUME R = D PROVE T = {}
    BY <2>1 DEF T, D
  <2>2. T = {} => SumOf(f, T) = 0
    BY SumOfNone, Zenon
  <2>. QED
    BY <2>1, <2>2
<1>25. Counted(e)'
  <2>1. SumOf(Worths(steps'[e]), PaidSteps(e)') = SumOf(f, R)
    BY <1>7, Zenon
  <2>. QED
    BY <1>12, <1>13, <1>21, <2>1 DEF Counted
<1>26. BountyMixed(e) \/ \E p \in Int : Moves(e, 0, p)
  <2>1. CASE a # SumOf(f, D)
    BY <1>8, <1>9, <2>1 DEF BountyMixed, f, D
  <2>2. CASE a = SumOf(f, D)
    <3>1. Own(e) = a - d
      BY <1>1, <1>9, StandingKinds DEF Own, Bountied
    <3>2. Own(e)' = IF R = D THEN 0 ELSE a - (d + x)
      <4>1. CASE R = D
        BY <1>17, <4>1, StandingKinds DEF Own, Terminal
      <4>2. CASE R # D
        BY <1>12, <1>13, <1>17, <4>2, StandingKinds DEF Own, Bountied
      <4>. QED
        BY <4>1, <4>2
    <3>. DEFINE w == Own(e)'
    <3>3. w = IF R = D THEN 0 ELSE a - (d + x)
      BY <3>2
    <3>. HIDE DEF w
    <3>4. PICK z \in Nat : z = SumOf(f, T)
      BY <1>23
    <3>5. a = x + d + z /\ (R = D => z = 0)
      BY <1>21, <1>22, <1>24, <2>2, <3>4
    <3>6. received[e] \in Int /\ collateral[e] \in Int
      BY <1>1 DEF Books, Typed
    <3>7. /\ received'[e] = received[e] + 0
          /\ w >= 0 /\ w = Own(e) + 0 - x - (collateral'[e] - collateral[e])
      BY <1>16, <3>1, <3>3, <3>5, <3>6
    <3>8. Moves(e, 0, x)
      BY <1>15, <3>7 DEF Moves, w
    <3>. QED
      BY <3>8
  <2>. QED
    BY <2>1, <2>2
<1>27. PICK r : r = escrow'[e]
  OBVIOUS
<1>28. escrow[e].status \in Bountied /\ r.status \in Bountied \cup Terminal /\ Account(r)
  BY <1>1, <1>17, <1>27 DEF Bountied, Terminal
<1>. QED
  BY <1>7, <1>8, <1>12, <1>13, <1>6, <1>14, <1>16, <1>17, <1>25, <1>26, <1>27, <1>28, BountyLawful

LEMMA StepChangedLawful ==
  ASSUME Ledgers, NEW e \in Ids, NEW i \in DOMAIN steps[e], steps[e][i].status = "Pending",
         NEW to, to.status # "Paid", to.amount = steps[e][i].amount,
         {"amount", "status"} \subseteq DOMAIN to,
         steps' = [steps EXCEPT ![e][i] = to],
         BountyRest, UNCHANGED <<escrow, paid, bounty, request, schedule>>
  PROVE  Lawful
<1>1. Books(e) /\ Shapes /\ Listed(steps[e], "status")
  BY DEF Ledgers, Books, Typed
<1>. DEFINE new == [steps[e] EXCEPT ![i] = to]
<1>2. steps'[e] = new /\ Put(steps, steps', {e})
  BY <1>1 DEF Shapes, Put
<1>3. /\ DOMAIN new = DOMAIN steps[e]
      /\ \A j \in DOMAIN steps[e] : new[j] = IF j = i THEN to ELSE steps[e][j]
  OBVIOUS
<1>. HIDE DEF new
<1>4. Listed(steps'[e], "status") /\ Worths(steps'[e]) = Worths(steps[e])
  BY <1>1, <1>2, <1>3 DEF Listed, Worths
<1>5. PaidSteps(e)' = PaidSteps(e)
  BY <1>2, <1>3 DEF PaidSteps
<1>6. /\ escrow'[e] = escrow[e] /\ Put(escrow, escrow', {e}) /\ Account(escrow[e])
      /\ Put(bounty, bounty', {e}) /\ Offer(bounty'[e]) /\ steps[e] # <<>>
  BY <1>1 DEF Put, Books, Typed
<1>. QED
  BY <1>2, <1>4, <1>5, <1>6, BountyTurnLawful

LEMMA BountyStepLawful ==
  ASSUME Ledgers, BountyStep, UNCHANGED <<request, schedule>>
  PROVE  Lawful
<1>1. PICK e \in Ids :
        \/ \E solver \in Addr : ClaimBounty(e, solver)
        \/ SubmitBountyWork(e)
        \/ ApproveBountySubmission(e)
        \/ RejectBountySubmission(e)
        \/ CancelBounty(e)
        \/ \E i \in DOMAIN steps[e] :
             \/ SubmitBountyMilestone(e, i)
             \/ VerifyBountyMilestone(e, i)
             \/ \E verifier \in Addr : ReplaceBountyVerifier(e, i, verifier)
  BY DEF BountyStep, Bounties
<1>2. Books(e) /\ Shapes
  BY DEF Ledgers
<1>3. CASE (\E solver \in Addr : ClaimBounty(e, solver)) \/ SubmitBountyWork(e)
           \/ RejectBountySubmission(e)
  <2>1. PICK r : /\ Account(r) /\ escrow'[e] = r /\ Put(escrow, escrow', {e})
                 /\ escrow[e].status \in Bountied /\ r.status \in Bountied
                 /\ r.amount = escrow[e].amount
                 /\ BountyRest /\ UNCHANGED paid
    <3>1. CASE SubmitBountyWork(e)
      <4>1. UNCHANGED vars /\ escrow[e].status = "BountyClaimed"
        BY <3>1 DEF SubmitBountyWork
      <4>2. Account(escrow[e]) /\ escrow'[e] = escrow[e] /\ Put(escrow, escrow', {e})
            /\ BountyRest /\ UNCHANGED paid
        BY <1>2, <4>1 DEF Books, Typed, Put, BountyRest, vars, clockVars, escrowVars, releaseVars,
              disputeVars, agreeVars, moneyVars
      <4>. QED
        BY <4>1, <4>2 DEF Bountied
    <3>2. ASSUME NEW solver \in Addr, ClaimBounty(e, solver)
          PROVE  \E r : /\ Account(r) /\ escrow'[e] = r /\ Put(escrow, escrow', {e})
                        /\ escrow[e].status \in Bountied /\ r.status \in Bountied
                        /\ r.amount = escrow[e].amount
                        /\ BountyRest /\ UNCHANGED paid
      <4>. DEFINE r == [escrow[e] EXCEPT !.status = "BountyClaimed", !.seller = solver]
      <4>1. Account(r) /\ r.status \in Bountied /\ r.amount = escrow[e].amount
        BY <1>2 DEF Books, Typed, Account, Kinds, Bountied
      <4>2. Rewrite(e, r) /\ UNCHANGED amendment /\ escrow[e].status \in Bountied
        BY <3>2 DEF ClaimBounty, Bountied, agreeVars
      <4>. HIDE DEF r
      <4>3. escrow'[e] = r /\ Put(escrow, escrow', {e}) /\ BountyRest /\ UNCHANGED paid
        BY <1>2, <4>2 DEF Rewrite, Shapes, Put, BountyRest, clockVars, releaseVars, disputeVars,
                          moneyVars
      <4>. QED
        BY <4>1, <4>2, <4>3
    <3>3. ASSUME RejectBountySubmission(e)
          PROVE  \E r : /\ Account(r) /\ escrow'[e] = r /\ Put(escrow, escrow', {e})
                        /\ escrow[e].status \in Bountied /\ r.status \in Bountied
                        /\ r.amount = escrow[e].amount
                        /\ BountyRest /\ UNCHANGED paid
      <4>. DEFINE r == [escrow[e] EXCEPT !.status = "BountyUnclaimed", !.seller = NoAddr]
      <4>1. Account(r) /\ r.status \in Bountied /\ r.amount = escrow[e].amount
        BY <1>2 DEF Books, Typed, Account, Kinds, Bountied
      <4>2. Rewrite(e, r) /\ UNCHANGED amendment /\ escrow[e].status \in Bountied
        BY <3>3 DEF RejectBountySubmission, Bountied, agreeVars
      <4>. HIDE DEF r
      <4>3. escrow'[e] = r /\ Put(escrow, escrow', {e}) /\ BountyRest /\ UNCHANGED paid
        BY <1>2, <4>2 DEF Rewrite, Shapes, Put, BountyRest, clockVars, releaseVars, disputeVars,
                          moneyVars
      <4>. QED
        BY <4>1, <4>2, <4>3
    <3>. QED
      BY <1>3, <3>1, <3>2, <3>3
  <2>2. /\ Put(bounty, bounty', {e}) /\ Offer(bounty'[e])
        /\ bounty'[e].claimBy = bounty[e].claimBy /\ bounty'[e].disbursed = bounty[e].disbursed
    <3>1. CASE bounty' = bounty
      BY <1>2, <3>1 DEF Put, Books, Typed
    <3>2. CASE SubmitBountyWork(e)
      BY <1>2, <3>2 DEF SubmitBountyWork, Shapes, Put, Books, Typed, Offer
    <3>3. CASE RejectBountySubmission(e)
      BY <1>2, <3>3 DEF RejectBountySubmission, Unassigned, Shapes, Put, Books, Typed, Offer
    <3>. QED
      BY <1>3, <3>1, <3>2, <3>3 DEF ClaimBounty, bountyVars
  <2>3. steps' = steps
    BY <1>3 DEF ClaimBounty, SubmitBountyWork, RejectBountySubmission, bountyVars
  <2>4. Put(steps, steps', {e}) /\ Listed(steps'[e], "status") /\ steps'[e] = steps[e]
    BY <1>2, <2>3 DEF Put, Books, Typed
  <2>5. Worths(steps'[e]) = Worths(steps[e]) /\ PaidSteps(e)' = PaidSteps(e)
    BY <2>3 DEF PaidSteps
  <2>. QED
    BY <2>1, <2>2, <2>4, <2>5, BountyTurnLawful
<1>4. PICK a \in Int, d \in Nat : a = escrow[e].amount /\ d = bounty[e].disbursed
  BY <1>2, DisbursedNatural DEF Books, Typed, Account
<1>5. CASE ApproveBountySubmission(e)
  <2>1. Settle(e, "Released", 0, a) /\ escrow[e].status \in Bountied
        /\ UNCHANGED <<amendment, verdict, bounty, steps>>
    BY <1>4, <1>5 DEF ApproveBountySubmission, Bountied, disputeVars, agreeVars, bountyVars
  <2>2. PICK status \in Terminal, b \in Int : status = "Released" /\ b = 0
    BY DEF Terminal
  <2>3. Settle(e, status, b, a)
    BY <2>1, <2>2, Zenon
  <2>4. d = 0 => b + a = Own(e)
    BY <1>4, <2>1, <2>2, StandingKinds DEF Own
  <2>. QED
    BY <1>4, <2>1, <2>2, <2>3, <2>4, BountyEndLawful
<1>6. CASE CancelBounty(e)
  <2>1. PICK b \in Int : b = Undisbursed(e) /\ b = IF d < a THEN a - d ELSE 0
    BY <1>4 DEF Undisbursed
  <2>2. PICK status \in Terminal, s \in Int : status = "Refunded" /\ s = 0
    BY DEF Terminal
  <2>3. Settle(e, "Refunded", Undisbursed(e), 0) /\ escrow[e].status \in Bountied
        /\ UNCHANGED <<amendment, verdict, bounty, steps>>
    BY <1>6 DEF CancelBounty, Bountied, disputeVars, agreeVars, bountyVars
  <2>4. Settle(e, status, b, s)
    BY <2>1, <2>2, <2>3, Zenon
  <2>5. Own(e) >= 0 => b + s = Own(e)
    <3>1. Own(e) = a - d
      BY <1>4, <2>3, StandingKinds DEF Own
    <3>. QED
      BY <2>1, <2>2, <3>1
  <2>. QED
    BY <2>3, <2>4, <2>5, BountyEndLawful
<1>7. ASSUME NEW i \in DOMAIN steps[e],
             SubmitBountyMilestone(e, i)
             \/ \E verifier \in Addr : ReplaceBountyVerifier(e, i, verifier)
      PROVE  Lawful
  <2>1. UNCHANGED <<vars, bounty>> /\ steps[e][i].status = "Pending"
    BY <1>7 DEF SubmitBountyMilestone, ReplaceBountyVerifier
  <2>2. BountyRest /\ UNCHANGED <<escrow, paid, bounty>>
    BY <2>1 DEF BountyRest, vars, clockVars, escrowVars, releaseVars, disputeVars, agreeVars,
                moneyVars
  <2>3. {"amount", "status"} \subseteq DOMAIN steps[e][i]
    BY <1>2 DEF Books, Typed, Listed
  <2>4. PICK to : /\ to.status # "Paid" /\ to.amount = steps[e][i].amount
                  /\ {"amount", "status"} \subseteq DOMAIN to
                  /\ steps' = [steps EXCEPT ![e][i] = to]
    <3>1. CASE SubmitBountyMilestone(e, i)
      <4>. DEFINE to == [steps[e][i] EXCEPT !.status = "Submitted"]
      <4>1. to.status # "Paid" /\ to.amount = steps[e][i].amount /\ DOMAIN to = DOMAIN steps[e][i]
        BY <2>3
      <4>2. steps' = [steps EXCEPT ![e][i] = to]
        BY <3>1 DEF SubmitBountyMilestone
      <4>. QED
        BY <2>3, <4>1, <4>2
    <3>2. ASSUME NEW verifier \in Addr, ReplaceBountyVerifier(e, i, verifier)
          PROVE  \E to : /\ to.status # "Paid" /\ to.amount = steps[e][i].amount
                         /\ {"amount", "status"} \subseteq DOMAIN to
                         /\ steps' = [steps EXCEPT ![e][i] = to]
      <4>. DEFINE to == [steps[e][i] EXCEPT !.verifier = verifier]
      <4>1. to.status # "Paid" /\ to.amount = steps[e][i].amount /\ DOMAIN to = DOMAIN steps[e][i]
        BY <2>1, <2>3
      <4>2. steps' = [steps EXCEPT ![e][i] = to]
        BY <3>2 DEF ReplaceBountyVerifier
      <4>. QED
        BY <2>3, <4>1, <4>2
    <3>. QED
      BY <1>7, <3>1, <3>2
  <2>. QED
    BY <2>1, <2>2, <2>4, StepChangedLawful
<1>. QED
  BY <1>1, <1>3, <1>5, <1>6, <1>7, VerifyLawful

-----------------------------------------------------------------------------
(* The books are kept.                                                      *)

LEMMA InitLedgers == BountiesInit => Ledgers /\ Planned
<1> SUFFICES ASSUME BountiesInit PROVE Ledgers /\ Planned
  OBVIOUS
<1>. USE DEF BountiesInit, ApprovalsInit, SchedulesInit, MilestonesInit, RequestsInit, InitBase
<1>1. Shapes
  BY BoundsAssumption, InputAssumption DEF Shapes
<1>2. ASSUME NEW f \in Ids
      PROVE  Books(f)
  <2>1. IsFiniteSet(DOMAIN <<>>)
    <3>1. DOMAIN <<>> = {}
      OBVIOUS
    <3>. QED
      BY <3>1, FS_EmptySet
  <2>2. Typed(f)
    BY <2>1 DEF Typed, Account, NoEscrow, Kinds, TermsEntry, NoTerms, Unset, Proposal, NoAmendment,
                PaidRecord, NothingPaid, NoVerdict, NoPartial, Offer, NoBounty, Listed
  <2>3. Reached(f)
    BY DEF Reached, NoEscrow, NoBounty, Bountied
  <2>4. Counted(f)
    <3>1. PICK u, g : u = PaidSteps(f) /\ g = Worths(steps[f])
      OBVIOUS
    <3>2. u = {}
      BY <3>1 DEF PaidSteps
    <3>3. SumOf(g, u) = 0
      BY <3>2, SumOfNone, Zenon
    <3>4. SumOf(Worths(steps[f]), PaidSteps(f)) = 0
      BY <3>1, <3>3, Zenon
    <3>5. bounty[f].disbursed = 0
      BY DEF NoBounty
    <3>. QED
      BY <3>4, <3>5 DEF Counted
  <2>. QED
    BY <2>2, <2>3, <2>4 DEF Books
<1>3. Planned
  <2>1. IsFiniteSet(DOMAIN <<>>)
    <3>1. DOMAIN <<>> = {}
      OBVIOUS
    <3>. QED
      BY <3>1, FS_EmptySet
  <2>. QED
    BY <2>1 DEF Planned
<1>. QED
  BY <1>1, <1>2, <1>3 DEF Ledgers

LEMMA StepLawful ==
  ASSUME Ledgers, Planned, [FullNext]_allVars
  PROVE  Lawful /\ Planned'
<1>1. CASE UNCHANGED allVars
  <2>1. Untouched /\ UNCHANGED <<now, config, milestones, stages>>
    BY <1>1, Zenon DEF allVars, vars, clockVars, escrowVars, releaseVars, disputeVars, agreeVars,
          moneyVars, requestVars, planVars, claimVars, bountyVars, Untouched
  <2>2. now' \in Nat /\ config' \in Config
    BY <2>1 DEF Ledgers, Shapes
  <2>. QED
    BY <2>1, <2>2, UntouchedLawful DEF Planned
<1>2. CASE FullNext
  <2>1. \A f \in Ids : received'[f] >= received[f]
    BY <1>2 DEF FullNext, TokenAllows
  <2>2. CASE (Next \/ BountyTermsNext)
              /\ UNCHANGED <<requestVars, planVars, claimVars, optionVars, bountyVars>>
    <3>1. Alone /\ UNCHANGED planVars
      BY <2>2 DEF Alone, requestVars, claimVars, bountyVars
    <3>. QED
      BY <2>1, <2>2, <3>1, NextLawful, BountyTermsLawful DEF Planned, planVars
  <2>3. CASE RequestNext /\ UNCHANGED <<planVars, claimVars, optionVars, bountyVars>>
    <3>1. UNCHANGED <<schedule, bounty, steps, planVars>>
      BY <2>3 DEF claimVars, bountyVars
    <3>. QED
      BY <2>3, <3>1, RequestNextLawful DEF Planned, planVars
  <2>4. CASE MilestoneNext /\ UNCHANGED <<requestVars, claimVars, optionVars, bountyVars>>
    <3>1. Alone
      BY <2>4 DEF Alone, requestVars, claimVars, bountyVars
    <3>. QED
      BY <2>4, <3>1, MilestoneNextLawful, MilestoneNextPlanned
  <2>5. CASE ScheduleNext /\ UNCHANGED <<requestVars, planVars, optionVars, bountyVars>>
    <3>1. UNCHANGED <<request, bounty, steps, planVars>>
      BY <2>5 DEF requestVars, bountyVars
    <3>. QED
      BY <2>5, <3>1, ScheduleNextLawful DEF Planned, planVars
  <2>6. CASE ApprovalNext /\ UNCHANGED <<requestVars, planVars, claimVars, bountyVars>>
    <3>1. Alone /\ UNCHANGED planVars
      BY <2>6 DEF Alone, requestVars, claimVars, bountyVars
    <3>. QED
      BY <2>6, <3>1, ApprovalNextLawful DEF Planned, planVars
  <2>7. CASE BountyNext /\ UNCHANGED <<requestVars, planVars, claimVars, optionVars>>
    <3>1. UNCHANGED <<request, schedule, planVars>>
      BY <2>7 DEF requestVars, claimVars
    <3>. QED
      BY <2>7, <3>1, BountyCreationLawful, BountyStepLawful DEF BountyNext, Planned, planVars
  <2>. QED
    BY <1>2, <2>2, <2>3, <2>4, <2>5, <2>6, <2>7, Zenon DEF FullNext
<1>. QED
  BY <1>1, <1>2

LEMMA StepLedgers == Ledgers /\ Planned /\ [FullNext]_allVars => Ledgers' /\ Planned'
BY StepLawful DEF Lawful, Law, Ledgers

-----------------------------------------------------------------------------
(* From the law of a step to the property.                                  *)

Figures(f) ==
  /\ Own(f) \in Int /\ Held(f) \in Int /\ collateral[f] \in Int /\ escrow[f].amount \in Int
  /\ TrancheSum(f, Claimed(f)) \in Int
  /\ Claimed(f) = {} => Due(f) = Own(f)
  /\ escrow[f].status \in Standing => Due(f) = escrow[f].amount - TrancheSum(f, Claimed(f))
  /\ escrow[f].status \in Terminal => Due(f) = 0

LEMMA FiguresHold == Ledgers => \A f \in Ids : Figures(f)
<1> SUFFICES ASSUME Ledgers, NEW f \in Ids PROVE Figures(f)
  OBVIOUS
<1>1. Books(f)
  BY DEF Ledgers
<1>2. Own(f) \in Int /\ Held(f) \in Int
  BY OwnType
<1>3. PICK a \in Int, d \in Int : a = escrow[f].amount /\ d = bounty[f].disbursed
  BY <1>1 DEF Books, Typed, Account, Offer
<1>4. PICK t \in Int : t = TrancheSum(f, Claimed(f)) /\ (Claimed(f) = {} => t = 0)
  <2>1. Listed(schedule[f], "claimed") /\ Claimed(f) \in SUBSET DOMAIN schedule[f]
    BY <1>1 DEF Books, Typed, Claimed
  <2>2. IsFiniteSet(Claimed(f)) /\ Integral(Worths(schedule[f]), Claimed(f))
    BY <2>1, WorthsOf
  <2>3. TrancheSum(f, Claimed(f)) \in Int
    BY <2>2, SumType DEF TrancheSum
  <2>4. ASSUME Claimed(f) = {} PROVE TrancheSum(f, Claimed(f)) = 0
    BY <2>4, SumOfNone, Zenon DEF TrancheSum
  <2>. QED
    BY <2>3, <2>4
<1>5. CASE escrow[f].status \in Standing
  <2>1. Due(f) = a - t - 0
    BY <1>3, <1>4, <1>5 DEF Due, Unended, Standing, Live, Open, InDispute
  <2>2. Own(f) = a /\ escrow[f].status \notin Terminal
    BY <1>3, <1>5, StandingKinds DEF Own
  <2>. QED
    BY <1>1, <1>2, <1>3, <1>4, <1>5, <2>1, <2>2 DEF Figures, Books, Typed
<1>6. CASE escrow[f].status \in Bountied
  <2>1. Due(f) = a - t - d
    BY <1>3, <1>4, <1>6 DEF Due, Unended, Bountied
  <2>2. Own(f) = a - d /\ escrow[f].status \notin Terminal \cup Standing
    BY <1>3, <1>6, StandingKinds DEF Own
  <2>. QED
    BY <1>1, <1>2, <1>3, <1>4, <1>6, <2>1, <2>2 DEF Figures, Books, Typed
<1>7. CASE escrow[f].status \in Terminal \cup {"None"}
  <2>1. Due(f) = 0
    BY <1>7 DEF Due, Unended, Terminal, Live, Open, InDispute
  <2>2. Own(f) = 0 /\ escrow[f].status \notin Standing
    BY <1>7, StandingKinds DEF Own
  <2>. QED
    BY <1>1, <1>2, <1>3, <1>4, <2>1, <2>2 DEF Figures, Books, Typed
<1>. QED
  BY <1>1, <1>5, <1>6, <1>7 DEF Books, Typed, Account, Kinds

LEMMA FiguresNext == Ledgers' => (\A f \in Ids : Figures(f))'
BY FiguresHold, PTL

LEMMA EvenBalanced ==
  ASSUME NEW f \in Ids, Figures(f), Figures(f)', Even(f), Balanced(f)
  PROVE  Balanced(f)' \/ TranchesMixed(f)
<1>1. CASE schedule'[f] = schedule[f] /\ Claimed(f) # {}
  BY <1>1 DEF TranchesMixed, Claimed
<1>2. CASE Claimed(f) = {} /\ Claimed(f)' = {}
  <2>. DEFINE o == Own(f)'
              h == Held(f)'
              u == Due(f)'
              c == collateral[f]'
  <2>1. o \in Int /\ h \in Int /\ c \in Int /\ u = o
    BY <1>2 DEF Figures
  <2>2. Own(f) \in Int /\ Held(f) \in Int /\ collateral[f] \in Int
        /\ Held(f) = Own(f) + collateral[f] /\ Own(f) >= 0
    BY <1>2 DEF Figures, Balanced
  <2>3. o >= 0 /\ h - o - c = Held(f) - Own(f) - collateral[f]
    BY <2>2 DEF Even
  <2>. HIDE DEF o, h, u, c
  <2>4. h = u + c /\ u >= 0
    BY <2>1, <2>2, <2>3
  <2>. QED
    BY <2>4 DEF Balanced, h, u, c
<1>3. schedule'[f] = schedule[f] => Claimed(f)' = Claimed(f)
  BY DEF Claimed
<1>. QED
  BY <1>1, <1>2, <1>3 DEF Even

LEMMA ClaimsBalanced ==
  ASSUME NEW f \in Ids, Listed(schedule[f], "claimed"), Listed(schedule'[f], "claimed"),
         TotalPaid(f) \in Int, received[f] \in Int,
         Figures(f), Figures(f)', Claims(f), Balanced(f)
  PROVE  Balanced(f)' \/ TranchesMixed(f)
<1>1. PICK S \in SUBSET (DOMAIN schedule[f] \ Claimed(f)) :
        /\ S # {} /\ Claimed(f)' = Claimed(f) \cup S
        /\ TotalPaid(f)' = TotalPaid(f) + TrancheSum(f, S)
  BY DEF Claims
<1>2. PICK w, C, D : w = Worths(schedule[f]) /\ C = Claimed(f) /\ D = DOMAIN schedule[f]
  OBVIOUS
<1>3. C \in SUBSET D /\ S \in SUBSET D /\ C \cup S \in SUBSET D /\ D \ (C \cup S) \in SUBSET D
      /\ D \in SUBSET D /\ C \cap S = {}
  BY <1>2 DEF Claimed
<1>4. \A X \in SUBSET D : IsFiniteSet(X) /\ Integral(w, X) /\ \A i \in X : w[i] \in Nat
  BY <1>2, WorthsOf
<1>5. PICK c \in Int, s \in Int, rest \in Nat :
        /\ c = SumOf(w, C) /\ s = SumOf(w, S) /\ rest = SumOf(w, D \ (C \cup S))
        /\ SumOf(w, C \cup S) = c + s /\ SumOf(w, D) = c + s + rest
        /\ (C \cup S = D => rest = 0)
  <2>1. SumOf(w, C) \in Int /\ SumOf(w, S) \in Int
    BY <1>3, <1>4, SumType
  <2>2. PICK R : R = D \ (C \cup S)
    OBVIOUS
  <2>3. SumOf(w, R) \in Nat
    BY <1>3, <1>4, <2>2, SumNatural
  <2>4. SumOf(w, C \cup S) = SumOf(w, C) + SumOf(w, S)
    BY <1>3, <1>4, SumTogether
  <2>5. SumOf(w, (C \cup S) \cup R) = SumOf(w, C \cup S) + SumOf(w, R)
    BY <1>3, <1>4, <2>2, SumTogether
  <2>6. (C \cup S) \cup R = D
    BY <1>3, <2>2
  <2>7. ASSUME C \cup S = D PROVE SumOf(w, R) = 0
    <3>1. R = {}
      BY <2>2, <2>7
    <3>. QED
      BY <3>1, SumOfNone, Zenon
  <2>. QED
    BY <2>1, <2>2, <2>3, <2>4, <2>5, <2>6, <2>7
<1>6. schedule'[f] # schedule[f] /\ schedule[f] # <<>>
  <2>1. S # {} /\ (schedule'[f] = schedule[f] => Claimed(f)' = Claimed(f)) /\ C \cap S = {}
    BY <1>1, <1>3 DEF Claimed
  <2>2. schedule[f] = <<>> => S = {}
    OBVIOUS
  <2>. QED
    BY <1>1, <1>2, <2>1, <2>2
<1>7. TrancheSum(f, C) = c /\ TrancheSum(f, S) = s /\ TrancheSum(f, D) = c + s + rest
  BY <1>2, <1>5 DEF TrancheSum
<1>8. (TrancheSum(f, Claimed(f)))' = c + s
  <2>1. (TrancheSum(f, Claimed(f)))' = SumOf(Worths(schedule'[f]), Claimed(f)')
    BY DEF TrancheSum
  <2>2. Worths(schedule'[f]) = w /\ Claimed(f)' = C \cup S
    BY <1>1, <1>2 DEF Claims
  <2>3. SumOf(Worths(schedule'[f]), Claimed(f)') = SumOf(w, C \cup S)
    BY <2>2, Zenon
  <2>. QED
    BY <1>5, <2>1, <2>3
<1>9. SUFFICES ASSUME ~TranchesMixed(f) PROVE Balanced(f)'
  OBVIOUS
<1>10. PICK a \in Int, k \in Int, q \in Int, p \in Int :
         /\ a = escrow[f].amount /\ k = collateral[f] /\ q = received[f] /\ p = TotalPaid(f)
  BY DEF Figures
<1>11. a = c + s + rest
  BY <1>2, <1>6, <1>7, <1>10, <1>9 DEF TranchesMixed
<1>12. escrow'[f].status = "Released" => C \cup S = D
  BY <1>1, <1>2, <1>6, <1>9 DEF TranchesMixed
<1>. DEFINE h == Held(f)'
            u == Due(f)'
            g == TotalPaid(f)'
<1>13. h = q - g /\ g = p + s /\ collateral[f]' = k
  BY <1>1, <1>2, <1>7, <1>10 DEF Claims, Held
<1>14. q - p = (a - c) + k
  <2>1. escrow[f].status \in Standing /\ TrancheSum(f, Claimed(f)) = c
    BY <1>2, <1>7 DEF Claims
  <2>2. Due(f) = a - c
    BY <1>10, <2>1 DEF Figures
  <2>3. Held(f) = q - p
    BY <1>10 DEF Held
  <2>. QED
    BY <1>10, <2>2, <2>3 DEF Balanced
<1>15. CASE escrow'[f].status \in Standing
  <2>1. u = escrow'[f].amount - (TrancheSum(f, Claimed(f)))'
    BY <1>15 DEF Figures
  <2>2. u = a - (c + s)
    BY <1>8, <1>10, <2>1 DEF Claims
  <2>. HIDE DEF u, h, g
  <2>3. h = u + k /\ u >= 0
    BY <1>11, <1>13, <1>14, <2>2
  <2>. QED
    BY <1>13, <2>3 DEF Balanced, h, u
<1>16. CASE escrow'[f].status = "Released"
  <2>1. u = 0
    BY <1>16 DEF Figures, Terminal
  <2>2. rest = 0
    BY <1>5, <1>12, <1>16
  <2>. HIDE DEF u, h, g
  <2>3. h = u + k /\ u >= 0
    BY <1>11, <1>13, <1>14, <2>1, <2>2
  <2>. QED
    BY <1>13, <2>3 DEF Balanced, h, u
<1>. QED
  BY <1>15, <1>16 DEF Claims

LEMMA StepKnown ==
  ASSUME Ledgers, Planned, [FullNext]_allVars, NEW f \in Ids,
         Balanced(f), milestones[f] = <<>>, stages[f] = <<>>
  PROVE  Balanced(f)' \/ LateAnswer(f) \/ TranchesMixed(f) \/ BountyMixed(f) \/ IdTaken(f)
<1>1. Lawful /\ Ledgers'
  BY StepLawful, StepLedgers
<1>2. Figures(f)
  BY FiguresHold
<1>3. Figures(f)'
  BY <1>1, FiguresNext
<1>4. Law(f)
  BY <1>1 DEF Lawful
<1>5. Books(f) /\ Books(f)'
  BY <1>4 DEF Ledgers, Law
<1>6. CASE Even(f)
  BY <1>2, <1>3, <1>6, EvenBalanced
<1>7. CASE Claims(f)
  <2>1. Listed(schedule[f], "claimed") /\ Listed(schedule'[f], "claimed") /\ received[f] \in Int
    BY <1>5 DEF Books, Typed
  <2>2. TotalPaid(f) \in Int
    BY OwnType
  <2>. QED
    BY <1>2, <1>3, <1>7, <2>1, <2>2, ClaimsBalanced
<1>8. CASE Known(f)
  BY <1>8 DEF Known
<1>. QED
  BY <1>4, <1>6, <1>7, <1>8 DEF Law

(* Whatever the parameters and in whatever order the features of the        *)
(* contract are used: an escrow without milestones that its own deposits    *)
(* cover stays covered, but for the answer to a request that outlived its   *)
(* escrow, tranches mixed with other payments, a bounty mixed with its      *)
(* milestones, and a creation under a bounty's id.                          *)
THEOREM OnlyKnownStepsUnbalanceAlways == FullSpec => OnlyKnownStepsUnbalance
<1>1. BountiesInit => Ledgers /\ Planned
  BY InitLedgers
<1>2. Ledgers /\ Planned /\ [FullNext]_allVars => Ledgers' /\ Planned'
  BY StepLedgers
<1>3. Ledgers /\ Planned /\ [FullNext]_allVars =>
        [\A e \in Ids :
           Balanced(e) /\ ~Balanced(e)' /\ milestones[e] = <<>> /\ stages[e] = <<>> =>
             LateAnswer(e) \/ TranchesMixed(e) \/ BountyMixed(e) \/ IdTaken(e)]_allVars
  BY StepKnown
<1>. QED
  BY <1>1, <1>2, <1>3, PTL DEF FullSpec, OnlyKnownStepsUnbalance

=============================================================================
