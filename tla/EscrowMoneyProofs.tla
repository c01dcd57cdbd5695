--------------------------- MODULE EscrowMoneyProofs ---------------------------
(***************************************************************************)
(* The types and the money of the escrow contract, for every value of the  *)
(* constants.                                                              *)
(*                                                                         *)
(* First the types: whatever is called, in whatever order, every storage   *)
(* key holds a value its readers can use.  TypeOK is inductive as it       *)
(* stands.  The proof goes by groups of entry points, and within a group   *)
(* by entry point; of each, only the groups of variables it writes need    *)
(* work.                                                                   *)
(*                                                                         *)
(* Then the money: every escrow stays backed by its own deposits, nobody   *)
(* is paid a negative amount, an escrow that has ended stays ended, and    *)
(* every entry point is a move the custody of EscrowCustody allows.  Each  *)
(* entry point is first shown to have one of four shapes: it moves no      *)
(* money (Quiet), moves one escrow's (Moves), creates one (Born), or ends  *)
(* one and creates its successor (Renewed).  What is to be proved of the   *)
(* contract is then proved of the four shapes.                             *)
(***************************************************************************)
EXTENDS Escrow, FiniteSetTheorems, TLAPS

-----------------------------------------------------------------------------
(* Facts about the types.                                                   *)

(* A group of variables a step leaves alone keeps its type.                 *)
LEMMA Frames ==
  /\ ClockType /\ UNCHANGED clockVars => ClockType'
  /\ EscrowType /\ UNCHANGED escrowVars => EscrowType'
  /\ ReleaseType /\ UNCHANGED releaseVars => ReleaseType'
  /\ RenewalType /\ UNCHANGED renewalVars => RenewalType'
  /\ DisputeType /\ UNCHANGED disputeVars => DisputeType'
  /\ InspectType /\ UNCHANGED inspectVars => InspectType'
  /\ AgreeType /\ UNCHANGED agreeVars => AgreeType'
  /\ MoneyType /\ UNCHANGED moneyVars => MoneyType'
<1>1. ClockType /\ UNCHANGED clockVars => ClockType'
  BY DEF ClockType, clockVars
<1>2. EscrowType /\ UNCHANGED escrowVars => EscrowType'
  BY DEF EscrowType, escrowVars
<1>3. ReleaseType /\ UNCHANGED releaseVars => ReleaseType'
  BY DEF ReleaseType, releaseVars
<1>4. RenewalType /\ UNCHANGED renewalVars => RenewalType'
  BY DEF RenewalType, renewalVars
<1>5. DisputeType /\ UNCHANGED disputeVars => DisputeType'
  BY DEF DisputeType, disputeVars
<1>6. InspectType /\ UNCHANGED inspectVars => InspectType'
  BY DEF InspectType, inspectVars
<1>7. AgreeType /\ UNCHANGED agreeVars => AgreeType'
  BY DEF AgreeType, agreeVars
<1>8. MoneyType /\ UNCHANGED moneyVars => MoneyType'
  BY DEF MoneyType, moneyVars
<1>9. QED
  BY <1>1, <1>2, <1>3, <1>4, <1>5, <1>6, <1>7, <1>8

LEMMA AllBpsType == AllBps \in Nat /\ AllBps > 0
BY DEF AllBps

(* A share of a natural amount is one, and within the amount up to AllBps.  *)
LEMMA BpsType ==
  ASSUME NEW a \in Nat, NEW b \in Nat
  PROVE  Bps(a, b) \in Nat
<1>1. a * b \in Nat
  OBVIOUS
<1>2. QED
  BY <1>1, AllBpsType DEF Bps

LEMMA BpsInt ==
  ASSUME NEW a \in Int, NEW b \in Int
  PROVE  Bps(a, b) \in Int
<1>1. a * b \in Int
  OBVIOUS
<1>2. QED
  BY <1>1, AllBpsType DEF Bps

(* The ids that are used, and the next one while there is one.              *)
LEMMA CreatedIds ==
  ASSUME EscrowType
  PROVE  /\ Created \subseteq Ids
         /\ nextId < MaxEscrows => nextId \in Ids
         /\ nextId \in Nat
BY BoundsAssumption DEF EscrowType, Created, Ids

LEMMA StatusNames ==
  /\ Open \subseteq Status /\ InDispute \subseteq Status
  /\ Terminal \subseteq Status /\ Live \subseteq Status
  /\ {"Active", "PartiallyReleased", "InspectionPassed", "Released", "Resolved",
      "Refunded", "Disputed", "PartiallyDisputed", "CoolingOff",
      "CancellationPending", "AwaitingCollateral", "AwaitingBuyerVetoDecision",
      "AwaitingInspection", "InspectionFailed", "None"} \subseteq Status
BY DEF Status, Live, Open, InDispute, Terminal

LEMMA RecordFields ==
  ASSUME NEW r \in EscrowRecord
  PROVE  /\ r.status \in Status /\ r.buyer \in Addr \cup {NoAddr}
         /\ r.seller \in Addr \cup {NoAddr} /\ r.amount \in Int
         /\ r.original \in Nat /\ r.createdAt \in Nat /\ r.deadline \in Nat
         /\ r.inspector \in Addr \cup {NoAddr} /\ r.autoRenew \in BOOLEAN
         /\ r.renewalsRemaining \in Nat /\ r.renewalsCompleted \in Nat
BY DEF EscrowRecord

LEMMA TermsFields ==
  ASSUME NEW t \in Terms
  PROVE  /\ t.arbiter \in Addr /\ t.buyers \subseteq Addr
         /\ t.inactivity \in Nat /\ t.disputeTimeout \in Nat
         /\ t.arbiterFee \in Int /\ t.forfeitBps \in Nat /\ t.forfeitBps <= AllBps
         /\ t.collateral \in Nat /\ t.maxRenewals \in Int /\ t.interval \in Nat
         /\ t.renewalCount \in Nat /\ t.lockUntil \in Nat
         /\ t.carryOver \in BOOLEAN
<1>1. /\ t.arbiter \in Addr /\ t.buyers \subseteq Addr
      /\ t.inactivity \in Nat /\ t.disputeTimeout \in Nat
      /\ t.arbiterFee \in 0 .. 1000 \cup {Unset} /\ t.forfeitBps \in 0 .. AllBps
      /\ t.collateral \in Nat /\ t.maxRenewals \in Nat \cup {Unset}
      /\ t.interval \in Nat /\ t.renewalCount \in Nat /\ t.lockUntil \in Nat
      /\ t.carryOver \in BOOLEAN
  BY DEF Terms
<1>2. t.arbiterFee \in Int /\ t.forfeitBps \in Nat /\ t.forfeitBps <= AllBps
  <2> DEFINE fee == t.arbiterFee
             bps == t.forfeitBps
  <2>1. fee \in 0 .. 1000 \cup {-1} /\ bps \in 0 .. AllBps
    BY <1>1 DEF Unset
  <2> HIDE DEF fee, bps
  <2>2. fee \in Int /\ bps \in Nat /\ bps <= AllBps
    BY <2>1, AllBpsType
  <2>3. QED
    BY <2>2 DEF fee, bps
<1>3. t.maxRenewals \in Int
  BY <1>1 DEF Unset
<1>4. QED
  BY <1>1, <1>2, <1>3

LEMMA UnsecuredType ==
  ASSUME NEW t \in Terms
  PROVE  [t EXCEPT !.collateral = 0, !.collateralDeadline = 0] \in Terms
<1>1. [t EXCEPT !.collateral = 0] \in Terms
  BY DEF Terms
<1>2. \A u \in Terms : [u EXCEPT !.collateralDeadline = 0] \in Terms
  BY DEF Terms
<1>3. QED
  BY <1>1, <1>2

LEMMA ConfigFields ==
  ASSUME ClockType
  PROVE  /\ now \in Nat /\ config \in Config
         /\ config.arbiterFee \in Nat /\ config.protocolFee \in Nat
         /\ config.penalty \in Nat /\ config.penalty <= AllBps
         /\ config.cancelWindow \in Nat /\ config.amendmentExpiry \in Nat
         /\ config.transferWindow \in Nat
<1>1. /\ config.arbiterFee \in 0 .. 1000 /\ config.protocolFee \in 0 .. 200
      /\ config.penalty \in 0 .. AllBps /\ config.cancelWindow \in Nat
      /\ config.amendmentExpiry \in Nat /\ config.transferWindow \in Nat
  BY DEF ClockType, Config
<1>2. now \in Nat /\ config \in Config
  BY BoundsAssumption DEF ClockType
<1>3. config.penalty \in Nat /\ config.penalty <= AllBps
  <2>1. config.penalty \in 0 .. AllBps
    BY <1>1
  <2>2. QED
    BY <2>1, AllBpsType
<1>4. config.arbiterFee \in Nat /\ config.protocolFee \in Nat
  <2> DEFINE arb == config.arbiterFee
             pro == config.protocolFee
  <2>1. arb \in 0 .. 1000 /\ pro \in 0 .. 200
    BY <1>1
  <2> HIDE DEF arb, pro
  <2>2. arb \in Nat /\ pro \in Nat
    BY <2>1
  <2>3. QED
    BY <2>2 DEF arb, pro
<1>5. QED
  BY <1>1, <1>2, <1>3, <1>4

(* The updates of a record the handlers make.                               *)
LEMMA HoldingType ==
  ASSUME EscrowType, NEW e \in Ids, NEW x \in Int, NEW status \in Status
  PROVE  Holding(e, x, status) \in EscrowRecord
<1>1. \A r \in EscrowRecord : [r EXCEPT !.amount = x] \in EscrowRecord
  BY DEF EscrowRecord
<1>2. \A r \in EscrowRecord : [r EXCEPT !.status = status] \in EscrowRecord
  BY DEF EscrowRecord
<1>3. escrow[e] \in EscrowRecord
  BY DEF EscrowType
<1>4. [[escrow[e] EXCEPT !.amount = x] EXCEPT !.status = status] \in EscrowRecord
  BY <1>1, <1>2, <1>3
<1>5. QED
  BY <1>4 DEF Holding

LEMMA StatusType ==
  ASSUME EscrowType, NEW e \in Ids, NEW status \in Status
  PROVE  /\ WithStatus(e, status) \in EscrowRecord
         /\ [escrow EXCEPT ![e].status = status] \in [Ids -> EscrowRecord]
BY DEF EscrowType, EscrowRecord, WithStatus

LEMMA PayType ==
  ASSUME MoneyType, NEW e \in Ids, NEW b \in Int, NEW s \in Int
  PROVE  Pay(e, b, s) \in [Ids -> PaidRecord]
<1>1. paid[e] \in PaidRecord
  BY DEF MoneyType
<1>2. paid[e].buyer + b \in Int /\ paid[e].seller + s \in Int
  BY <1>1 DEF PaidRecord
<1>3. [paid[e] EXCEPT !.buyer = @ + b, !.seller = @ + s] \in PaidRecord
  BY <1>1, <1>2 DEF PaidRecord
<1>4. QED
  BY <1>3 DEF MoneyType, Pay

LEMMA TouchedType ==
  ASSUME ClockType, ReleaseType, NEW e \in Ids, NEW caller
  PROVE  TouchedBy(e, caller) \in [Ids -> Int]
BY BoundsAssumption DEF ClockType, ReleaseType, TouchedBy

-----------------------------------------------------------------------------
LEMMA InitType == InitBase => TypeOK
<1> SUFFICES ASSUME InitBase PROVE TypeOK
  OBVIOUS
<1>1. ClockType
  <2>1. now \in 0 .. MaxTime
    BY BoundsAssumption DEF InitBase
  <2>2. paused \in BOOLEAN /\ config \in Config
    BY InputAssumption, Zenon DEF InitBase
  <2>3. QED
    BY <2>1, <2>2 DEF ClockType
<1>2. NoEscrow \in EscrowRecord
  BY DEF EscrowRecord, NoEscrow, Status, Live, Open, InDispute, Terminal
<1>3. NoTerms \in Terms
  <2>1. (CHOOSE a \in Addr : TRUE) \in Addr
    BY BoundsAssumption
  <2>2. 0 \in 0 .. AllBps
    BY AllBpsType
  <2>3. QED
    BY <2>1, <2>2 DEF Terms, NoTerms, Unset
<1>4. EscrowType
  BY <1>2, <1>3, BoundsAssumption DEF InitBase, EscrowType, Ids
<1>5. ReleaseType
  BY DEF InitBase, ReleaseType, Signed, Never
<1>6. RenewalType
  BY DEF InitBase, RenewalType
<1>7. DisputeType
  BY DEF InitBase, DisputeType, NoDispute, DisputeRecord, Never, NoVerdict, Unset
<1>8. InspectType
  BY DEF InitBase, InspectType, NoVote, Signed
<1>9. AgreeType
  BY DEF InitBase, AgreeType, NoRequest, NoProposal, NoAmendment, Amendment,
         NoTransfer, Signed, Unset
<1>10. MoneyType
  BY DEF InitBase, MoneyType, PaidRecord, NothingPaid
<1>11. QED
  BY <1>1, <1>4, <1>5, <1>6, <1>7, <1>8, <1>9, <1>10 DEF TypeOK

(* Stuttering, and time.                                                    *)
LEMMA StutterType == TypeOK /\ UNCHANGED vars => TypeOK'
BY Frames DEF TypeOK, vars

LEMMA TickType == TypeOK /\ Tick => TypeOK'
<1> SUFFICES ASSUME TypeOK, Tick PROVE TypeOK'
  OBVIOUS
<1>1. ClockType'
  BY BoundsAssumption DEF TypeOK, ClockType, Tick
<1>2. QED
  BY <1>1, Frames DEF TypeOK, Tick

-----------------------------------------------------------------------------
(* Creation.                                                                *)

LEMMA TermsOfType ==
  ASSUME ClockType, NEW r \in Request, r.amount > 0,
         r.arbiterFee <= 1000, r.collateralBps > 0 => r.forfeitBps <= AllBps
  PROVE  TermsOf(r) \in Terms
<1>1. now \in Nat
  BY ConfigFields
<1>2. /\ r.arbiter \in Addr /\ r.buyers \in SUBSET Addr /\ r.lockUntil \in Nat
      /\ r.inactivity \in Nat /\ r.disputeTimeout \in Nat
      /\ r.defaultWinner \in Winner \cup {"Default"}
      /\ r.arbiterFee \in Nat \cup {Unset} /\ r.maxRenewals \in Nat \cup {Unset}
      /\ r.interval \in Nat /\ r.renewalCount \in Nat
      /\ r.carryOver \in BOOLEAN /\ r.oracle \in BOOLEAN
      /\ r.collateralBps \in Nat /\ r.forfeitBps \in Nat
      /\ r.collateralWindow \in Nat /\ r.amount \in Int
  BY DEF Request
<1>3. r.arbiterFee \in 0 .. 1000 \cup {Unset}
  <2>1. r.arbiterFee \in Nat \cup {Unset}
    BY <1>2
  <2>2. QED
    BY <2>1 DEF Unset
<1>4. (IF r.collateralBps > 0 THEN r.forfeitBps ELSE 0) \in 0 .. AllBps
  BY <1>2, AllBpsType
<1>5. Bps(r.amount, r.collateralBps) \in Nat
  <2>1. r.amount \in Nat
    BY <1>2
  <2>2. QED
    BY <2>1, <1>2, BpsType
<1>6. (IF r.collateralBps > 0 THEN now + r.collateralWindow ELSE 0) \in Nat
  BY <1>1, <1>2
<1>7. QED
  BY <1>2, <1>3, <1>4, <1>5, <1>6 DEF TermsOf, Terms

(* Every creator stores the request in the same way.                        *)
LEMMA StoreType ==
  ASSUME TypeOK, NEW r \in Request, NEW status \in Status, Store(r, status),
         r.amount > 0, r.arbiterFee <= 1000,
         r.collateralBps > 0 => r.forfeitBps <= AllBps
  PROVE  TypeOK'
<1>1. /\ nextId \in Ids /\ nextId \in Nat
  BY CreatedIds DEF Store, TypeOK
<1>2. EscrowType'
  <2>1. TermsOf(r) \in Terms
    BY TermsOfType DEF TypeOK
  <2>2. terms' \in [Ids -> Terms]
    BY <1>1, <2>1 DEF Store, TypeOK, EscrowType
  <2> DEFINE record ==
       [status |-> status, buyer |-> r.buyer, seller |-> r.seller,
        amount |-> r.amount, original |-> r.amount, createdAt |-> now,
        deadline |-> r.deadline, inspector |-> r.inspector,
        autoRenew |-> r.autoRenew, renewalsRemaining |-> r.renewalCount,
        renewalsCompleted |-> 0, acknowledged |-> TRUE]
  <2>3. /\ r.buyer \in Addr /\ r.seller \in Addr /\ r.amount \in Int
        /\ r.deadline \in Nat /\ r.inspector \in Addr \cup {NoAddr}
        /\ r.autoRenew \in BOOLEAN /\ r.renewalCount \in Nat
    BY DEF Request
  <2>4. r.amount \in Nat /\ now \in Nat
    BY <2>3, ConfigFields DEF TypeOK
  <2>5. record \in EscrowRecord
    BY <2>3, <2>4 DEF EscrowRecord
  <2>6. escrow' = [escrow EXCEPT ![nextId] = record]
    BY DEF Store
  <2>7. escrow' \in [Ids -> EscrowRecord]
    <3> HIDE DEF record
    <3>1. QED
      BY <2>5, <2>6, <1>1 DEF TypeOK, EscrowType
  <2>8. receipt' \in [Ids -> Addr \cup {NoAddr}]
    BY <1>1, <2>3 DEF Store, TypeOK, EscrowType
  <2>9. nextId' \in 0 .. MaxEscrows /\ approvals' \in [Ids -> SUBSET Addr]
    BY <1>1, BoundsAssumption DEF Store, TypeOK, EscrowType
  <2>10. QED
    BY <2>2, <2>7, <2>8, <2>9 DEF EscrowType
<1>3. ReleaseType'
  <2>1. now \in Int
    BY ConfigFields DEF TypeOK
  <2>2. lastBuyerAction' \in [Ids -> Int]
    BY <1>1, <2>1 DEF Store, TypeOK, ReleaseType
  <2>3. QED
    BY <2>2 DEF Store, TypeOK, ReleaseType
<1>4. MoneyType'
  <2>1. r.amount \in Int
    BY DEF Request
  <2>2. QED
    BY <1>1, <2>1 DEF Store, TypeOK, MoneyType
<1>5. QED
  BY <1>2, <1>3, <1>4, Frames DEF Store, TypeOK

LEMMA CreationNextType == TypeOK /\ CreationNext => TypeOK'
<1> SUFFICES ASSUME TypeOK, NEW r \in Requests, Creation(r)
             PROVE  TypeOK'
  BY DEF CreationNext
<1>1. r \in Request
  BY InputAssumption
<1>2. CASE CreateEscrow(r)
  BY <1>1, <1>2, StoreType, StatusNames DEF CreateEscrow, CreateCore
<1>3. CASE CreateEscrowWithInspector(r)
  BY <1>1, <1>3, StoreType, StatusNames DEF CreateEscrowWithInspector, CreateCore
<1>4. CASE CreateMultiSellerEscrow(r)
  BY <1>1, <1>4, StoreType, StatusNames DEF CreateMultiSellerEscrow, CreateCore
<1>5. CASE CreateMultiBuyerEscrow(r)
  <2>1. r.buyers \subseteq Addr /\ r.amount \in Int
    BY <1>1 DEF Request
  <2>2. IsFiniteSet(r.buyers) /\ r.buyers # {}
    BY <2>1, <1>5, FS_Subset, BoundsAssumption DEF CreateMultiBuyerEscrow
  <2>3. Cardinality(r.buyers) \in Nat /\ Cardinality(r.buyers) # 0
    BY <2>2, FS_CardinalityType, FS_EmptySet
  <2>4. r.amount > 0
    BY <2>1, <2>3, <1>5 DEF CreateMultiBuyerEscrow
  <2>5. r.arbiterFee <= 1000 /\ (r.collateralBps > 0 => r.forfeitBps <= AllBps)
    BY <1>5 DEF CreateMultiBuyerEscrow, Unset
  <2>6. QED
    BY <1>1, <1>5, <2>4, <2>5, StoreType, StatusNames DEF CreateMultiBuyerEscrow
<1>6. QED
  BY <1>2, <1>3, <1>4, <1>5 DEF Creation

-----------------------------------------------------------------------------
(* Release and renewal.                                                     *)

(* The whole amount to one side, and an end status.                         *)
LEMMA SettleType ==
  ASSUME TypeOK, NEW e \in Ids, NEW status \in Status,
         NEW b \in Int, NEW s \in Int, Settle(e, status, b, s)
  PROVE  /\ escrow' \in [Ids -> EscrowRecord] /\ terms' \in [Ids -> Terms]
         /\ nextId' \in 0 .. MaxEscrows /\ approvals' \in [Ids -> SUBSET Addr]
         /\ ReleaseType' /\ RenewalType' /\ InspectType' /\ MoneyType'
<1>1. escrow' \in [Ids -> EscrowRecord]
  BY StatusType DEF Settle, TypeOK
<1>2. paid' \in [Ids -> PaidRecord]
  BY PayType DEF Settle, TypeOK
<1>3. QED
  BY <1>1, <1>2, Frames DEF Settle, TypeOK, EscrowType, MoneyType

LEMMA SettledWithReceiptType ==
  ASSUME TypeOK, NEW e \in Ids, NEW status \in Status,
         NEW b \in Int, NEW s \in Int, Settle(e, status, b, s),
         receipt' = [receipt EXCEPT ![e] = NoAddr] \/ UNCHANGED receipt
  PROVE  /\ EscrowType'
         /\ ReleaseType' /\ RenewalType' /\ InspectType' /\ MoneyType'
<1>1. receipt' \in [Ids -> Addr \cup {NoAddr}]
  BY DEF TypeOK, EscrowType
<1>2. QED
  BY <1>1, SettleType DEF EscrowType

(* A release, with or without a successor.                                  *)
LEMMA ReleaseOnlyType ==
  ASSUME TypeOK, NEW e \in Ids, NEW timers \in [Ids -> Int],
         ReleaseOnly(e, timers)
  PROVE  /\ escrow' \in [Ids -> EscrowRecord] /\ terms' \in [Ids -> Terms]
         /\ nextId' \in 0 .. MaxEscrows /\ RenewalType'
         /\ lastBuyerAction' \in [Ids -> Int] /\ condition' \in [Ids -> BOOLEAN]
         /\ waivers' \in [Ids -> Signed] /\ received' \in [Ids -> Int]
<1>1. escrow' \in [Ids -> EscrowRecord]
  BY StatusType, StatusNames DEF ReleaseOnly, Released, TypeOK
<1>2. QED
  BY <1>1, Frames DEF ReleaseOnly, TypeOK, EscrowType, ReleaseType, MoneyType

LEMMA SuccessorType ==
  ASSUME EscrowType, ClockType, NEW e \in Ids, NEW deadline \in Nat,
         NEW remaining \in Nat, NEW completed \in Nat
  PROVE  Successor(e, deadline, remaining, completed) \in EscrowRecord
<1>1. escrow[e] \in EscrowRecord /\ "Active" \in Status /\ now \in Nat
  BY ConfigFields, StatusNames DEF EscrowType
<1>2. QED
  BY <1>1 DEF EscrowRecord, Successor

LEMMA RenewType ==
  ASSUME TypeOK, NEW e \in Ids, NEW timers \in [Ids -> Int],
         NEW successor \in EscrowRecord, Renew(e, successor, timers)
  PROVE  /\ escrow' \in [Ids -> EscrowRecord] /\ terms' \in [Ids -> Terms]
         /\ nextId' \in 0 .. MaxEscrows /\ nextId \in Ids
         /\ lastBuyerAction' \in [Ids -> Int] /\ condition' \in [Ids -> BOOLEAN]
         /\ waivers' \in [Ids -> Signed] /\ received' \in [Ids -> Int]
<1>1. nextId \in Ids /\ nextId \in Nat
  BY CreatedIds DEF Renew, TypeOK
<1>2. escrow' \in [Ids -> EscrowRecord]
  <2>1. Released(e) \in [Ids -> EscrowRecord]
    BY StatusType, StatusNames DEF Released, TypeOK
  <2>2. QED
    BY <1>1, <2>1 DEF Renew
<1>3. terms' \in [Ids -> Terms]
  <2>1. terms[e] \in Terms
    BY DEF TypeOK, EscrowType
  <2>2. [terms[e] EXCEPT !.collateral = 0, !.collateralDeadline = 0] \in Terms
    BY <2>1, UnsecuredType
  <2>3. QED
    BY <1>1, <2>2 DEF Renew, TypeOK, EscrowType
<1>4. nextId' \in 0 .. MaxEscrows
  BY <1>1, BoundsAssumption DEF Renew
<1>5. lastBuyerAction' \in [Ids -> Int]
  <2>1. now \in Int
    BY ConfigFields DEF TypeOK
  <2>2. QED
    BY <1>1, <2>1 DEF Renew
<1>6. condition' \in [Ids -> BOOLEAN]
  BY <1>1 DEF Renew, TypeOK, ReleaseType
<1>7. waivers' \in [Ids -> Signed]
  BY DEF Renew, TypeOK, ReleaseType, Signed
<1>8. received' \in [Ids -> Int]
  <2>1. escrow[e].amount \in Int
    BY RecordFields DEF TypeOK, EscrowType
  <2>2. QED
    BY <1>1, <2>1 DEF Renew, TypeOK, MoneyType
<1>9. QED
  BY <1>1, <1>2, <1>3, <1>4, <1>5, <1>6, <1>7, <1>8

LEMMA RenewConfiguredType ==
  ASSUME TypeOK, NEW e \in Ids, NEW timers \in [Ids -> Int],
         RenewConfigured(e, timers)
  PROVE  /\ escrow' \in [Ids -> EscrowRecord] /\ terms' \in [Ids -> Terms]
         /\ nextId' \in 0 .. MaxEscrows /\ RenewalType'
         /\ lastBuyerAction' \in [Ids -> Int] /\ condition' \in [Ids -> BOOLEAN]
         /\ waivers' \in [Ids -> Signed] /\ received' \in [Ids -> Int]
<1> DEFINE remaining == IF escrow[e].renewalsRemaining > 0
                        THEN escrow[e].renewalsRemaining - 1 ELSE 0
           deadline == now + terms[e].interval * 5
           successor == Successor(e, deadline, remaining,
                                  escrow[e].renewalsCompleted + 1)
<1>1. /\ escrow[e].renewalsRemaining \in Nat /\ escrow[e].renewalsCompleted \in Nat
      /\ terms[e].interval \in Nat /\ now \in Nat
  BY RecordFields, TermsFields, ConfigFields DEF TypeOK, EscrowType
<1>2. remaining \in Nat /\ deadline \in Nat /\ escrow[e].renewalsCompleted + 1 \in Nat
  BY <1>1
<1>3. successor \in EscrowRecord
  <2> HIDE DEF remaining, deadline
  <2>1. QED
    BY <1>2, SuccessorType DEF TypeOK
<1>4. Renew(e, successor, timers)
  BY DEF RenewConfigured
<1>5. RenewalType'
  <2>1. nextId \in Ids
    BY CreatedIds DEF Renew, RenewConfigured, TypeOK
  <2>2. chainRoot' \in [Ids -> Ids]
    BY <2>1 DEF RenewConfigured, TypeOK, RenewalType
  <2>3. history' \in [Ids -> Seq(Ids)]
    <3>1. chainRoot[e] \in Ids /\ history[chainRoot[e]] \in Seq(Ids)
      BY DEF TypeOK, RenewalType
    <3>2. Append(history[chainRoot[e]], nextId) \in Seq(Ids)
      BY <2>1, <3>1
    <3>3. QED
      BY <3>1, <3>2 DEF RenewConfigured, TypeOK, RenewalType
  <2>4. QED
    BY <2>2, <2>3 DEF RenewConfigured, TypeOK, RenewalType
<1>6. QED
  <2> HIDE DEF successor
  <2>1. QED
    BY <1>3, <1>4, <1>5, RenewType

(* A renewal is due only while cycles remain, so none is counted twice.     *)
LEMMA RenewLegacyType ==
  ASSUME TypeOK, NEW e \in Ids, NEW timers \in [Ids -> Int],
         RenewalDue(e), RenewLegacy(e, timers)
  PROVE  /\ escrow' \in [Ids -> EscrowRecord] /\ terms' \in [Ids -> Terms]
         /\ nextId' \in 0 .. MaxEscrows /\ RenewalType'
         /\ lastBuyerAction' \in [Ids -> Int] /\ condition' \in [Ids -> BOOLEAN]
         /\ waivers' \in [Ids -> Signed] /\ received' \in [Ids -> Int]
<1> DEFINE remaining == IF terms[e].renewalCount = 0
                        THEN 0 ELSE escrow[e].renewalsRemaining - 1
           deadline == now + (escrow[e].deadline - escrow[e].createdAt)
           successor == Successor(e, deadline, remaining, 0)
<1>1. /\ escrow[e].renewalsRemaining \in Nat /\ escrow[e].deadline \in Nat
      /\ escrow[e].createdAt \in Nat /\ terms[e].renewalCount \in Nat /\ now \in Nat
  BY RecordFields, TermsFields, ConfigFields DEF TypeOK, EscrowType
<1>2. remaining \in Nat
  BY <1>1 DEF RenewLegacy, RenewalDue
<1>3. deadline \in Nat
  BY <1>1 DEF RenewLegacy
<1>4. successor \in EscrowRecord
  <2> HIDE DEF remaining, deadline
  <2>1. QED
    BY <1>2, <1>3, SuccessorType DEF TypeOK
<1>5. Renew(e, successor, timers)
  BY DEF RenewLegacy
<1>6. RenewalType'
  <2>1. nextId \in Ids
    BY CreatedIds DEF Renew, RenewLegacy, TypeOK
  <2>2. renewalsLeft[e] \in Nat
    BY DEF TypeOK, RenewalType
  <2>3. QED
    BY <2>1, <2>2 DEF RenewLegacy, TypeOK, RenewalType
<1>7. QED
  <2> HIDE DEF successor
  <2>1. QED
    BY <1>4, <1>5, <1>6, RenewType

LEMMA ReleaseEscrowType ==
  ASSUME TypeOK, NEW e \in Ids, NEW caller \in Addr, ReleaseEscrow(e, caller)
  PROVE  TypeOK'
<1> DEFINE timers == TouchedBy(e, caller)
<1>1. timers \in [Ids -> Int]
  BY TouchedType DEF TypeOK
<1> HIDE DEF timers
<1>2. /\ escrow' \in [Ids -> EscrowRecord] /\ terms' \in [Ids -> Terms]
      /\ nextId' \in 0 .. MaxEscrows /\ RenewalType'
      /\ lastBuyerAction' \in [Ids -> Int] /\ condition' \in [Ids -> BOOLEAN]
      /\ waivers' \in [Ids -> Signed] /\ received' \in [Ids -> Int]
  <2>1. CASE ReleaseOnly(e, timers)
    BY <2>1, <1>1, ReleaseOnlyType
  <2>2. CASE RenewConfigured(e, timers)
    BY <2>2, <1>1, RenewConfiguredType
  <2>3. CASE RenewalDue(e) /\ RenewLegacy(e, timers)
    BY <2>3, <1>1, RenewLegacyType
  <2>4. QED
    BY <2>1, <2>2, <2>3 DEF ReleaseEscrow, timers
<1>3. EscrowType'
  <2>1. receipt' \in [Ids -> Addr \cup {NoAddr}] /\ approvals' \in [Ids -> SUBSET Addr]
    BY DEF ReleaseEscrow, TypeOK, EscrowType
  <2>2. QED
    BY <1>2, <2>1 DEF EscrowType
<1>4. ReleaseType'
  BY <1>2 DEF ReleaseEscrow, TypeOK, ReleaseType
<1>5. MoneyType'
  <2>1. escrow[e].amount \in Int /\ collateral[e] \in Int
    BY RecordFields DEF TypeOK, EscrowType, ReleaseType
  <2>2. 0 \in Int /\ escrow[e].amount + collateral[e] \in Int
    BY <2>1
  <2>3. paid' = Pay(e, 0, escrow[e].amount + collateral[e])
    BY DEF ReleaseEscrow
  <2>4. paid' \in [Ids -> PaidRecord]
    BY <2>2, <2>3, PayType DEF TypeOK
  <2>5. QED
    BY <1>2, <2>4 DEF ReleaseEscrow, TypeOK, MoneyType
<1>6. QED
  BY <1>2, <1>3, <1>4, <1>5, Frames DEF ReleaseEscrow, TypeOK

LEMMA PartialReleaseType ==
  ASSUME TypeOK, NEW e \in Ids, NEW caller \in Addr, NEW x \in Int,
         PartialRelease(e, caller, x)
  PROVE  TypeOK'
<1>1. EscrowType'
  <2>1. escrow[e].amount - x \in Int
    BY RecordFields DEF TypeOK, EscrowType
  <2>2. (IF x = escrow[e].amount THEN "Released" ELSE "PartiallyReleased") \in Status
    BY StatusNames
  <2>3. Holding(e, escrow[e].amount - x,
          IF x = escrow[e].amount THEN "Released" ELSE "PartiallyReleased")
          \in EscrowRecord
    BY <2>1, <2>2, HoldingType DEF TypeOK
  <2>4. QED
    BY <2>3 DEF PartialRelease, TypeOK, EscrowType
<1>2. MoneyType'
  <2>1. paid' \in [Ids -> PaidRecord]
    BY PayType DEF PartialRelease, TypeOK
  <2>2. QED
    BY <2>1 DEF PartialRelease, TypeOK, MoneyType
<1>3. QED
  BY <1>1, <1>2, Frames DEF PartialRelease, TypeOK

LEMMA ReleaseNextType == TypeOK /\ ReleaseNext => TypeOK'
<1> SUFFICES ASSUME TypeOK, NEW e \in Created,
        \/ DepositCollateral(e)
        \/ \E caller \in Addr : ApproveMultiBuyerRelease(e, caller)
        \/ \E caller \in Addr : ReleaseEscrow(e, caller)
        \/ \E caller \in Addr, x \in Amounts : PartialRelease(e, caller, x)
        \/ AutoReleaseExpired(e)
        \/ ClaimInactivityRelease(e)
        \/ CheckAndReleaseEscrow(e)
             PROVE  TypeOK'
  BY DEF ReleaseNext
<1>1. e \in Ids
  BY CreatedIds DEF TypeOK
<1>2. escrow[e].amount \in Int /\ 0 \in Int
  BY <1>1, RecordFields DEF TypeOK, EscrowType
<1>3. CASE DepositCollateral(e)
  <2>1. terms[e].collateral \in Nat
    BY <1>1, TermsFields DEF TypeOK, EscrowType
  <2>2. EscrowType'
    <3>1. escrow' \in [Ids -> EscrowRecord]
      BY <1>1, <1>3, StatusType, StatusNames DEF DepositCollateral, TypeOK
    <3>2. QED
      BY <1>3, <3>1 DEF DepositCollateral, TypeOK, EscrowType
  <2>3. ReleaseType'
    BY <1>1, <1>3, <2>1 DEF DepositCollateral, TypeOK, ReleaseType
  <2>4. MoneyType'
    BY <1>1, <1>3, <2>1 DEF DepositCollateral, TypeOK, MoneyType
  <2>5. QED
    BY <1>3, <2>2, <2>3, <2>4, Frames DEF DepositCollateral, TypeOK
<1>4. ASSUME NEW caller \in Addr, ApproveMultiBuyerRelease(e, caller)
      PROVE  TypeOK'
  <2>1. EscrowType'
    BY <1>1, <1>4 DEF ApproveMultiBuyerRelease, TypeOK, EscrowType
  <2>2. QED
    BY <1>4, <2>1, Frames DEF ApproveMultiBuyerRelease, TypeOK
<1>5. ASSUME NEW caller \in Addr, ReleaseEscrow(e, caller)
      PROVE  TypeOK'
  BY <1>1, <1>5, ReleaseEscrowType
<1>6. ASSUME NEW caller \in Addr, NEW x \in Amounts, PartialRelease(e, caller, x)
      PROVE  TypeOK'
  BY <1>1, <1>6, PartialReleaseType, InputAssumption
<1>7. CASE AutoReleaseExpired(e)
  BY <1>1, <1>2, <1>7, SettledWithReceiptType, StatusNames, Frames
     DEF AutoReleaseExpired, TypeOK, Settle
<1>8. CASE ClaimInactivityRelease(e)
  BY <1>1, <1>2, <1>8, SettledWithReceiptType, StatusNames, Frames
     DEF ClaimInactivityRelease, TypeOK, Settle
<1>9. CASE CheckAndReleaseEscrow(e)
  BY <1>1, <1>2, <1>9, SettledWithReceiptType, StatusNames, Frames
     DEF CheckAndReleaseEscrow, TypeOK, Settle
<1>10. QED
  BY <1>3, <1>4, <1>5, <1>6, <1>7, <1>8, <1>9

LEMMA RenewalNextType == TypeOK /\ RenewalNext => TypeOK'
<1> SUFFICES ASSUME TypeOK, NEW e \in Created,
        \/ \E n \in 0 .. MaxEscrows : SetRenewalAllowance(e, n)
        \/ CancelAutoRenew(e)
        \/ CancelAutoRenewal(e)
             PROVE  TypeOK'
  BY DEF RenewalNext
<1>1. e \in Ids
  BY CreatedIds DEF TypeOK
<1>2. ASSUME NEW n \in 0 .. MaxEscrows, SetRenewalAllowance(e, n)
      PROVE  TypeOK'
  <2>1. n \in Nat
    OBVIOUS
  <2>2. RenewalType'
    BY <1>1, <1>2, <2>1 DEF SetRenewalAllowance, TypeOK, RenewalType
  <2>3. QED
    BY <1>2, <2>2, Frames DEF SetRenewalAllowance, TypeOK
<1>3. CASE CancelAutoRenew(e)
  <2>1. [escrow[e] EXCEPT !.autoRenew = FALSE, !.renewalsRemaining = 0] \in EscrowRecord
    <3>1. escrow[e] \in EscrowRecord
      BY <1>1 DEF TypeOK, EscrowType
    <3>2. QED
      BY <3>1 DEF EscrowRecord
  <2>2. EscrowType'
    BY <1>1, <1>3, <2>1 DEF CancelAutoRenew, TypeOK, EscrowType
  <2>3. RenewalType'
    BY <1>1, <1>3 DEF CancelAutoRenew, TypeOK, RenewalType
  <2>4. QED
    BY <1>3, <2>2, <2>3, Frames DEF CancelAutoRenew, TypeOK
<1>4. CASE CancelAutoRenewal(e)
  <2>1. RenewalType'
    BY <1>1, <1>4 DEF CancelAutoRenewal, TypeOK, RenewalType
  <2>2. QED
    BY <1>4, <2>1, Frames DEF CancelAutoRenewal, TypeOK
<1>5. QED
  BY <1>2, <1>3, <1>4

LEMMA ConditionNextType == TypeOK /\ ConditionNext => TypeOK'
<1> SUFFICES ASSUME TypeOK, NEW e \in Created,
        \/ SetConditionalRelease(e)
        \/ \E caller \in Addr : TriggerConditionalRelease(e, caller)
        \/ \E caller \in Addr : WaiveReleaseCondition(e, caller)
        \/ \E holder \in Addr : TransferEscrowReceipt(e, holder)
        \/ \E caller \in Addr : UpdateMetadata(e, caller)
             PROVE  TypeOK'
  BY DEF ConditionNext
<1>1. e \in Ids
  BY CreatedIds DEF TypeOK
<1>2. CASE SetConditionalRelease(e)
  <2>1. ReleaseType'
    BY <1>1, <1>2 DEF SetConditionalRelease, TypeOK, ReleaseType
  <2>2. QED
    BY <1>2, <2>1, Frames DEF SetConditionalRelease, TypeOK
<1>3. ASSUME NEW caller \in Addr, TriggerConditionalRelease(e, caller)
      PROVE  TypeOK'
  BY <1>1, <1>3, ReleaseEscrowType DEF TriggerConditionalRelease
<1>4. ASSUME NEW caller \in Addr, WaiveReleaseCondition(e, caller)
      PROVE  TypeOK'
  <2>1. condition' \in [Ids -> BOOLEAN]
    BY <1>1, <1>4 DEF WaiveReleaseCondition, TypeOK, ReleaseType
  <2>2. waivers' \in [Ids -> Signed]
    BY <1>1, <1>4 DEF WaiveReleaseCondition, TypeOK, ReleaseType, Signed
  <2>3. ReleaseType'
    BY <1>4, <2>1, <2>2 DEF WaiveReleaseCondition, TypeOK, ReleaseType
  <2>4. QED
    BY <1>4, <2>3, Frames DEF WaiveReleaseCondition, TypeOK
<1>5. ASSUME NEW holder \in Addr, TransferEscrowReceipt(e, holder)
      PROVE  TypeOK'
  <2>1. EscrowType'
    BY <1>1, <1>5 DEF TransferEscrowReceipt, TypeOK, EscrowType
  <2>2. QED
    BY <1>5, <2>1, Frames DEF TransferEscrowReceipt, TypeOK
<1>6. ASSUME NEW caller \in Addr, UpdateMetadata(e, caller)
      PROVE  TypeOK'
  <2>1. lastBuyerAction' \in [Ids -> Int]
    BY <1>1, <1>6, TouchedType DEF UpdateMetadata, TypeOK
  <2>2. ReleaseType'
    BY <1>6, <2>1 DEF UpdateMetadata, TypeOK, ReleaseType
  <2>3. QED
    BY <1>6, <2>2, Frames DEF UpdateMetadata, TypeOK
<1>7. QED
  BY <1>2, <1>3, <1>4, <1>5, <1>6

-----------------------------------------------------------------------------
(* Disputes.                                                                *)

LEMMA DisputeEscrowType ==
  ASSUME TypeOK, NEW e \in Ids, NEW caller \in Addr, NEW x \in Int,
         DisputeEscrow(e, caller, x)
  PROVE  TypeOK'
<1>1. escrow[e].amount \in Int /\ now \in Nat
  BY RecordFields, ConfigFields DEF TypeOK, EscrowType
<1>2. EscrowType'
  <2>1. (IF x < escrow[e].amount THEN "PartiallyDisputed" ELSE "Disputed") \in Status
    BY StatusNames
  <2>2. Holding(e, x, IF x < escrow[e].amount THEN "PartiallyDisputed" ELSE "Disputed")
          \in EscrowRecord
    BY <2>1, HoldingType DEF TypeOK
  <2>3. QED
    BY <2>2 DEF DisputeEscrow, TypeOK, EscrowType
<1>3. ReleaseType'
  <2>1. lastBuyerAction' \in [Ids -> Int]
    BY TouchedType DEF DisputeEscrow, TypeOK
  <2>2. QED
    BY <2>1 DEF DisputeEscrow, TypeOK, ReleaseType
<1>4. DisputeType'
  <2>1. [state |-> "Open", createdAt |-> now, amount |-> x] \in DisputeRecord
    BY <1>1 DEF DisputeRecord
  <2>2. QED
    BY <1>1, <2>1 DEF DisputeEscrow, TypeOK, DisputeType
<1>5. MoneyType'
  <2>1. 0 \in Int /\ escrow[e].amount - x \in Int
    BY <1>1
  <2>2. paid' = Pay(e, 0, escrow[e].amount - x)
    BY DEF DisputeEscrow
  <2>3. paid' \in [Ids -> PaidRecord]
    BY <2>1, <2>2, PayType DEF TypeOK
  <2>4. QED
    BY <2>3 DEF DisputeEscrow, TypeOK, MoneyType
<1>6. QED
  BY <1>2, <1>3, <1>4, <1>5, Frames DEF DisputeEscrow, TypeOK

(* What a verdict distributes.                                              *)
LEMMA SharesType ==
  ASSUME TypeOK, NEW e \in Ids, NEW percent \in Int
  PROVE  /\ ArbiterFee(e) \in Int /\ ProtocolFee(e) \in Int
         /\ Distributable(e) \in Int /\ BuyerShare(e, percent) \in Int
         /\ Forfeit(e, percent) \in Int
<1>1. /\ escrow[e].amount \in Int /\ terms[e].arbiterFee \in Int
      /\ config.arbiterFee \in Int /\ config.protocolFee \in Int
      /\ collateral[e] \in Int /\ terms[e].forfeitBps \in Int
  BY RecordFields, TermsFields, ConfigFields DEF TypeOK, EscrowType, ReleaseType
<1>2. ArbiterFee(e) \in Int /\ ProtocolFee(e) \in Int
  BY <1>1, BpsInt DEF ArbiterFee, ProtocolFee
<1>3. Distributable(e) \in Int
  BY <1>1, <1>2 DEF Distributable
<1>4. BuyerShare(e, percent) \in Int
  <2>1. Distributable(e) * percent \in Int
    BY <1>3
  <2>2. QED
    BY <2>1 DEF BuyerShare
<1>5. Forfeit(e, percent) \in Int
  <2>1. Bps(collateral[e], terms[e].forfeitBps) \in Int
    BY <1>1, BpsInt
  <2>2. QED
    BY <2>1 DEF Forfeit
<1>6. QED
  BY <1>2, <1>3, <1>4, <1>5

LEMMA ExecuteVerdictType ==
  ASSUME TypeOK, NEW e \in Ids, NEW percent \in Int,
         ExecuteVerdict(e, percent), verdict' \in [Ids -> [percent: Int, recordedAt: Nat]]
  PROVE  TypeOK'
<1>1. EscrowType'
  <2>1. VerdictStatus(percent) \in Status
    BY StatusNames DEF VerdictStatus
  <2>2. escrow' \in [Ids -> EscrowRecord]
    BY <2>1, StatusType DEF ExecuteVerdict, TypeOK
  <2>3. QED
    BY <2>2 DEF ExecuteVerdict, TypeOK, EscrowType
<1>2. ReleaseType'
  BY DEF ExecuteVerdict, TypeOK, ReleaseType
<1>3. DisputeType'
  <2>1. dispute' \in [Ids -> DisputeRecord]
    <3>1. \A d \in DisputeRecord : [d EXCEPT !.state = "Resolved"] \in DisputeRecord
      BY DEF DisputeRecord
    <3>2. dispute \in [Ids -> DisputeRecord]
      BY DEF TypeOK, DisputeType
    <3>3. QED
      BY <3>1, <3>2 DEF ExecuteVerdict
  <2>2. QED
    BY <2>1 DEF ExecuteVerdict, TypeOK, DisputeType
<1>4. InspectType'
  <2>1. escrow[e].inspector \in Addr \cup {NoAddr}
    BY RecordFields DEF TypeOK, EscrowType
  <2>2. CASE escrow[e].inspector = NoAddr
    BY <2>2 DEF ExecuteVerdict, ScoreRuling, TypeOK, InspectType
  <2>3. CASE escrow[e].inspector # NoAddr
    <3> DEFINE insp == escrow[e].inspector
               score == inspectorScore[insp]
               ruled == [total |-> score.total + 1,
                         correct |-> IF score.total = 0 THEN 1 ELSE score.correct + 1]
    <3>1. insp \in Addr
      BY <2>1, <2>3
    <3>2. score \in [total: Nat, correct: Nat]
      BY <3>1 DEF TypeOK, InspectType
    <3>3. ruled \in [total: Nat, correct: Nat]
      BY <3>2
    <3>4. inspectorScore' = [inspectorScore EXCEPT ![insp] = ruled]
      BY <2>3 DEF ExecuteVerdict, ScoreRuling
    <3>5. inspectorScore' \in [Addr -> [total: Nat, correct: Nat]]
      <4> HIDE DEF ruled, insp
      <4>1. QED
        BY <3>1, <3>3, <3>4 DEF TypeOK, InspectType
    <3>6. QED
      BY <3>5 DEF ExecuteVerdict, TypeOK, InspectType
  <2>4. QED
    BY <2>2, <2>3
<1>5. MoneyType'
  <2> DEFINE a == ArbiterFee(e)
             f == ProtocolFee(e)
             b == BuyerShare(e, percent) + Forfeit(e, percent)
             s == (Distributable(e) - BuyerShare(e, percent))
                    + (collateral[e] - Forfeit(e, percent))
  <2>1. collateral[e] \in Int /\ accruedFees \in Int /\ paid[e] \in PaidRecord
    BY DEF TypeOK, ReleaseType, MoneyType
  <2>2. a \in Int /\ f \in Int /\ b \in Int /\ s \in Int
    BY <2>1, SharesType
  <2>3. /\ paid[e].arbiter + a \in Int /\ paid[e].fee + f \in Int
        /\ paid[e].buyer + BuyerShare(e, percent) + Forfeit(e, percent) \in Int
        /\ paid[e].seller + (Distributable(e) - BuyerShare(e, percent))
             + (collateral[e] - Forfeit(e, percent)) \in Int
    BY <2>1, SharesType DEF PaidRecord
  <2>4. [paid[e] EXCEPT
           !.arbiter = @ + ArbiterFee(e),
           !.fee = @ + ProtocolFee(e),
           !.buyer = @ + BuyerShare(e, percent) + Forfeit(e, percent),
           !.seller = @ + (Distributable(e) - BuyerShare(e, percent))
                        + (collateral[e] - Forfeit(e, percent))] \in PaidRecord
    BY <2>1, <2>3 DEF PaidRecord
  <2>5. paid' \in [Ids -> PaidRecord]
    BY <2>4 DEF ExecuteVerdict, TypeOK, MoneyType
  <2>6. accruedFees' \in Int
    BY <2>1, <2>2 DEF ExecuteVerdict
  <2>7. QED
    BY <2>5, <2>6 DEF ExecuteVerdict, TypeOK, MoneyType
<1>6. QED
  BY <1>1, <1>2, <1>3, <1>4, <1>5, Frames DEF ExecuteVerdict, TypeOK

LEMMA DisputeNextType == TypeOK /\ DisputeNext => TypeOK'
<1> SUFFICES ASSUME TypeOK, NEW e \in Created,
        \/ \E caller \in Addr, x \in Amounts : DisputeEscrow(e, caller, x)
        \/ \E percent \in Percents : ResolveDispute(e, percent)
        \/ \E percent \in Percents : RecordVerdict(e, percent)
        \/ \E caller \in Addr : FlagResolutionError(e, caller)
        \/ FinalizeResolution(e)
        \/ ClearResolutionFlag(e)
        \/ EnforceDisputeTimeout(e)
             PROVE  TypeOK'
  BY DEF DisputeNext
<1>1. e \in Ids
  BY CreatedIds DEF TypeOK
<1>2. ASSUME NEW caller \in Addr, NEW x \in Amounts, DisputeEscrow(e, caller, x)
      PROVE  TypeOK'
  BY <1>1, <1>2, DisputeEscrowType, InputAssumption
<1>3. ASSUME NEW percent \in Percents, ResolveDispute(e, percent)
      PROVE  TypeOK'
  <2>1. percent \in Int
    BY InputAssumption
  <2>2. verdict' \in [Ids -> [percent: Int, recordedAt: Nat]]
    BY <1>3 DEF ResolveDispute, TypeOK, DisputeType
  <2>3. QED
    BY <1>1, <1>3, <2>1, <2>2, ExecuteVerdictType DEF ResolveDispute
<1>4. ASSUME NEW percent \in Percents, RecordVerdict(e, percent)
      PROVE  TypeOK'
  <2>1. percent \in Int /\ now \in Nat
    BY InputAssumption, ConfigFields DEF TypeOK
  <2>2. EscrowType'
    <3>1. escrow' \in [Ids -> EscrowRecord]
      BY <1>1, <1>4, StatusType, StatusNames DEF RecordVerdict, TypeOK
    <3>2. QED
      BY <1>4, <3>1 DEF RecordVerdict, TypeOK, EscrowType
  <2>3. DisputeType'
    BY <1>1, <1>4, <2>1 DEF RecordVerdict, TypeOK, DisputeType
  <2>4. QED
    BY <1>4, <2>2, <2>3, Frames DEF RecordVerdict, TypeOK
<1>5. ASSUME NEW caller \in Addr, FlagResolutionError(e, caller)
      PROVE  TypeOK'
  <2>1. DisputeType'
    BY <1>1, <1>5 DEF FlagResolutionError, TypeOK, DisputeType
  <2>2. QED
    BY <1>5, <2>1, Frames DEF FlagResolutionError, TypeOK
<1>6. CASE FinalizeResolution(e)
  <2>1. verdict[e].percent \in Int
    BY <1>1 DEF TypeOK, DisputeType
  <2>2. NoVerdict \in [percent: Int, recordedAt: Nat]
    BY DEF NoVerdict, Unset
  <2>3. verdict' \in [Ids -> [percent: Int, recordedAt: Nat]]
    BY <1>1, <1>6, <2>2 DEF FinalizeResolution, TypeOK, DisputeType
  <2>4. QED
    BY <1>1, <1>6, <2>1, <2>3, ExecuteVerdictType DEF FinalizeResolution
<1>7. CASE ClearResolutionFlag(e)
  <2>1. DisputeType'
    BY <1>1, <1>7 DEF ClearResolutionFlag, TypeOK, DisputeType
  <2>2. QED
    BY <1>7, <2>1, Frames DEF ClearResolutionFlag, TypeOK
<1>8. CASE EnforceDisputeTimeout(e)
  <2>1. escrow[e].amount \in Int /\ 0 \in Int /\ terms[e].arbiter \in Addr
    BY <1>1, RecordFields, TermsFields DEF TypeOK, EscrowType
  <2>2. EscrowType' /\ ReleaseType' /\ RenewalType' /\ InspectType' /\ MoneyType'
    BY <1>1, <1>8, <2>1, SettledWithReceiptType, StatusNames
       DEF EnforceDisputeTimeout
  <2>3. DisputeType'
    <3>1. arbiterTimeouts' \in [Addr -> Nat]
      BY <1>8, <2>1 DEF EnforceDisputeTimeout, TypeOK, DisputeType
    <3>2. dispute' \in [Ids -> DisputeRecord]
      BY <1>1, <1>8 DEF EnforceDisputeTimeout, TypeOK, DisputeType, DisputeRecord
    <3>3. QED
      BY <1>8, <3>1, <3>2 DEF EnforceDisputeTimeout, TypeOK, DisputeType
  <2>4. ClockType' /\ AgreeType'
    BY <1>8, Frames DEF EnforceDisputeTimeout, Settle, TypeOK
  <2>5. QED
    BY <2>2, <2>3, <2>4 DEF TypeOK
<1>9. QED
  BY <1>2, <1>3, <1>4, <1>5, <1>6, <1>7, <1>8

-----------------------------------------------------------------------------
(* What the parties agree on.                                               *)

(* A step that rewrites one record leaves the other groups alone.           *)
LEMMA RewriteType ==
  ASSUME TypeOK, NEW e \in Ids, NEW record \in EscrowRecord, Rewrite(e, record)
  PROVE  /\ ClockType' /\ EscrowType' /\ ReleaseType' /\ RenewalType'
         /\ DisputeType' /\ MoneyType'
<1>1. EscrowType'
  BY DEF Rewrite, TypeOK, EscrowType
<1>2. QED
  BY <1>1, Frames DEF Rewrite, TypeOK

LEMMA ReopenType ==
  ASSUME TypeOK, NEW e \in Ids, Reopen(e)
  PROVE  TypeOK'
<1>1. AgreeType'
  BY DEF Reopen, TypeOK, AgreeType, NoRequest
<1>2. WithStatus(e, "Active") \in EscrowRecord
  BY StatusType, StatusNames DEF TypeOK
<1>3. QED
  BY <1>1, <1>2, RewriteType, Frames DEF Reopen, TypeOK

LEMMA AcceptCancellationType ==
  ASSUME TypeOK, NEW e \in Ids, NEW caller \in Addr, AcceptCancellation(e, caller)
  PROVE  TypeOK'
<1>1. EscrowType'
  <2>1. escrow' \in [Ids -> EscrowRecord]
    BY StatusType, StatusNames DEF AcceptCancellation, TypeOK
  <2>2. QED
    BY <2>1 DEF AcceptCancellation, TypeOK, EscrowType
<1>2. AgreeType'
  BY DEF AcceptCancellation, TypeOK, AgreeType, NoRequest
<1>3. MoneyType'
  <2>1. escrow[e].amount \in Int /\ config.penalty \in Int /\ paid[e] \in PaidRecord
    BY RecordFields, ConfigFields DEF TypeOK, EscrowType, MoneyType
  <2>2. Penalty(e) \in Int
    <3>1. Bps(escrow[e].amount, config.penalty) \in Int
      BY <2>1, BpsInt
    <3>2. QED
      BY <3>1 DEF Penalty
  <2>3. Refund(e) \in Int
    BY <2>1, <2>2 DEF Refund
  <2>4. paid[e].buyer + Refund(e) \in Int /\ paid[e].penalty + Penalty(e) \in Int
    BY <2>1, <2>2, <2>3 DEF PaidRecord
  <2>5. [paid[e] EXCEPT !.buyer = @ + Refund(e), !.penalty = @ + Penalty(e)]
          \in PaidRecord
    BY <2>1, <2>4 DEF PaidRecord
  <2>6. QED
    BY <2>5 DEF AcceptCancellation, TypeOK, MoneyType
<1>4. QED
  BY <1>1, <1>2, <1>3, Frames DEF AcceptCancellation, TypeOK

LEMMA CancellationNextType == TypeOK /\ CancellationNext => TypeOK'
<1> SUFFICES ASSUME TypeOK, NEW e \in Created,
        \/ \E caller \in Addr : RequestCancellation(e, caller)
        \/ \E caller \in Addr : AcceptCancellation(e, caller)
        \/ \E caller \in Addr : RejectCancellation(e, caller)
        \/ AcceptExpiredCancellation(e)
        \/ ExpireCancellation(e)
             PROVE  TypeOK'
  BY DEF CancellationNext
<1>1. e \in Ids
  BY CreatedIds DEF TypeOK
<1>2. ASSUME NEW caller \in Addr, RequestCancellation(e, caller)
      PROVE  TypeOK'
  <2>1. now + config.cancelWindow \in Nat
    BY ConfigFields DEF TypeOK
  <2>2. AgreeType'
    BY <1>1, <1>2, <2>1 DEF RequestCancellation, TypeOK, AgreeType
  <2>3. WithStatus(e, "CancellationPending") \in EscrowRecord
    BY <1>1, StatusType, StatusNames DEF TypeOK
  <2>4. QED
    BY <1>1, <1>2, <2>2, <2>3, RewriteType, Frames DEF RequestCancellation, TypeOK
<1>3. ASSUME NEW caller \in Addr, AcceptCancellation(e, caller)
      PROVE  TypeOK'
  BY <1>1, <1>3, AcceptCancellationType
<1>4. ASSUME NEW caller \in Addr, RejectCancellation(e, caller)
      PROVE  TypeOK'
  BY <1>1, <1>4, ReopenType DEF RejectCancellation
<1>5. CASE AcceptExpiredCancellation(e)
  BY <1>1, <1>5, ReopenType DEF AcceptExpiredCancellation
<1>6. CASE ExpireCancellation(e)
  BY <1>1, <1>6, ReopenType DEF ExpireCancellation
<1>7. QED
  BY <1>2, <1>3, <1>4, <1>5, <1>6

LEMMA AmendType ==
  ASSUME TypeOK, NEW e \in Ids, Amend(e)
  PROVE  TypeOK'
<1> DEFINE a == amendment[e]
           change == IF a.amount = Unset THEN 0 ELSE a.amount - escrow[e].amount
           deadline == IF a.deadline = Unset THEN escrow[e].deadline ELSE a.deadline
<1>1. /\ escrow[e] \in EscrowRecord /\ escrow[e].amount \in Int
      /\ escrow[e].deadline \in Nat /\ now \in Nat /\ received[e] \in Int
  BY RecordFields, ConfigFields DEF TypeOK, EscrowType, MoneyType
<1>2. a.amount \in Int /\ a.deadline \in Int
  BY DEF TypeOK, AgreeType, Amendment
<1>3. change \in Int
  BY <1>1, <1>2
<1>4. deadline \in Nat
  BY <1>1, <1>2 DEF Amend
<1>5. escrow[e].amount + change \in Int
  BY <1>1, <1>3
<1> HIDE DEF change
<1>6. EscrowType'
  <2>1. [escrow[e] EXCEPT !.amount = @ + change, !.deadline = deadline] \in EscrowRecord
    <3> HIDE DEF deadline
    <3>1. QED
      BY <1>1, <1>4, <1>5 DEF EscrowRecord
  <2>2. escrow' = [escrow EXCEPT ![e] =
          [escrow[e] EXCEPT !.amount = @ + change, !.deadline = deadline]]
    BY DEF Amend, change
  <2>3. QED
    <3> HIDE DEF deadline
    <3>1. QED
      BY <2>1, <2>2 DEF Amend, TypeOK, EscrowType
<1>7. MoneyType'
  <2>1. received' \in [Ids -> Int]
    <3>1. received[e] + (IF change > 0 THEN change ELSE 0) \in Int
      BY <1>1, <1>3
    <3>2. received' = [received EXCEPT ![e] = @ + (IF change > 0 THEN change ELSE 0)]
      BY DEF Amend, change
    <3>3. QED
      BY <3>1, <3>2 DEF TypeOK, MoneyType
  <2>2. paid' \in [Ids -> PaidRecord]
    <3>1. (IF change < 0 THEN -change ELSE 0) \in Int /\ 0 \in Int
      BY <1>3
    <3>2. paid' = Pay(e, IF change < 0 THEN -change ELSE 0, 0)
      BY DEF Amend, change
    <3>3. QED
      BY <3>1, <3>2, PayType DEF TypeOK
  <2>3. QED
    BY <2>1, <2>2 DEF Amend, TypeOK, MoneyType
<1>8. AgreeType'
  <2>1. NoAmendment \in Amendment
    BY DEF NoAmendment, Amendment, Signed, Unset
  <2>2. QED
    BY <2>1 DEF Amend, TypeOK, AgreeType
<1>9. QED
  BY <1>6, <1>7, <1>8, Frames DEF Amend, TypeOK

LEMMA SignAmendmentType ==
  ASSUME TypeOK, NEW e \in Ids, NEW caller \in Addr, NEW n, SignAmendment(e, caller, n)
  PROVE  TypeOK'
<1> DEFINE signed == amendment[e].signed
                \cup {IF caller = escrow[e].buyer THEN "buyer" ELSE "seller"}
<1>1. CASE signed = {"buyer", "seller"} /\ Amend(e)
  BY <1>1, AmendType
<1>2. CASE ~(signed = {"buyer", "seller"} /\ Amend(e))
  <2>1. /\ amendment' = [amendment EXCEPT ![e].signed = signed]
        /\ UNCHANGED <<clockVars, escrowVars, releaseVars, renewalVars,
                       disputeVars, inspectVars, cancellation, extension,
                       nonce, transfer, moneyVars>>
    BY <1>2 DEF SignAmendment
  <2>2. amendment[e] \in Amendment
    BY DEF TypeOK, AgreeType
  <2>3. signed \in Signed
    BY <2>2 DEF Amendment, Signed
  <2> HIDE DEF signed
  <2>4. amendment' \in [Ids -> Amendment]
    BY <2>1, <2>2, <2>3 DEF TypeOK, AgreeType, Amendment
  <2>5. AgreeType'
    BY <2>1, <2>4 DEF TypeOK, AgreeType
  <2>6. QED
    BY <2>1, <2>5, Frames DEF TypeOK
<1>3. QED
  BY <1>1, <1>2

LEMMA AmendmentNextType == TypeOK /\ AmendmentNext => TypeOK'
<1> SUFFICES ASSUME TypeOK, NEW e \in Created,
        \/ \E caller \in Addr, d \in Times : ProposeDeadlineExtension(e, caller, d)
        \/ \E caller \in Addr : AcceptDeadlineExtension(e, caller)
        \/ \E caller \in Addr, x \in Amounts \cup {Unset}, d \in Times \cup {Unset} :
             ProposeAmendment(e, caller, x, d)
        \/ \E caller \in Addr, n \in 0 .. MaxRounds : SignAmendment(e, caller, n)
        \/ \E n \in 0 .. MaxRounds : ApplyAmendment(e, n)
        \/ \E x \in Amounts : TopUpEscrow(e, x)
        \/ AcknowledgeTopup(e)
             PROVE  TypeOK'
  BY DEF AmendmentNext
<1>1. e \in Ids
  BY CreatedIds DEF TypeOK
<1>2. /\ now \in Nat /\ escrow[e] \in EscrowRecord /\ escrow[e].amount \in Int
      /\ received[e] \in Int
  BY <1>1, ConfigFields, RecordFields DEF TypeOK, EscrowType, MoneyType
<1>3. ASSUME NEW caller \in Addr, NEW d \in Times, ProposeDeadlineExtension(e, caller, d)
      PROVE  TypeOK'
  <2>1. d \in Nat
    BY InputAssumption
  <2>2. AgreeType'
    BY <1>1, <1>2, <1>3, <2>1 DEF ProposeDeadlineExtension, TypeOK, AgreeType
  <2>3. QED
    BY <1>3, <2>2, Frames DEF ProposeDeadlineExtension, TypeOK
<1>4. ASSUME NEW caller \in Addr, AcceptDeadlineExtension(e, caller)
      PROVE  TypeOK'
  <2>1. extension[e].deadline \in Nat
    BY <1>1 DEF TypeOK, AgreeType
  <2>2. [escrow[e] EXCEPT !.deadline = extension[e].deadline] \in EscrowRecord
    BY <1>2, <2>1 DEF EscrowRecord
  <2>3. AgreeType'
    BY <1>1, <1>4 DEF AcceptDeadlineExtension, TypeOK, AgreeType, NoProposal
  <2>4. QED
    BY <1>1, <1>4, <2>2, <2>3, RewriteType, Frames DEF AcceptDeadlineExtension, TypeOK
<1>5. ASSUME NEW caller \in Addr, NEW x \in Amounts \cup {Unset},
             NEW d \in Times \cup {Unset}, ProposeAmendment(e, caller, x, d)
      PROVE  TypeOK'
  <2>1. x \in Int /\ d \in Int
    BY InputAssumption DEF Unset
  <2>2. SidesOf(e, caller) \in Signed
    BY DEF SidesOf, Signed
  <2>3. nonce[e] \in Nat /\ now + config.amendmentExpiry \in Nat
    BY <1>1, ConfigFields DEF TypeOK, AgreeType
  <2>4. [nonce |-> nonce[e], proposer |-> caller, amount |-> x,
         deadline |-> d, expiresAt |-> now + config.amendmentExpiry,
         signed |-> SidesOf(e, caller)] \in Amendment
    BY <2>1, <2>2, <2>3 DEF Amendment
  <2>5. amendment' \in [Ids -> Amendment]
    BY <1>1, <1>5, <2>4 DEF ProposeAmendment, TypeOK, AgreeType
  <2>6. nonce' \in [Ids -> Nat]
    BY <1>1, <1>5, <2>3 DEF ProposeAmendment, TypeOK, AgreeType
  <2>7. AgreeType'
    BY <1>5, <2>5, <2>6 DEF ProposeAmendment, TypeOK, AgreeType
  <2>8. QED
    BY <1>5, <2>7, Frames DEF ProposeAmendment, TypeOK
<1>6. ASSUME NEW caller \in Addr, NEW n \in 0 .. MaxRounds, SignAmendment(e, caller, n)
      PROVE  TypeOK'
  BY <1>1, <1>6, SignAmendmentType
<1>7. ASSUME NEW n \in 0 .. MaxRounds, ApplyAmendment(e, n)
      PROVE  TypeOK'
  BY <1>1, <1>7, AmendType DEF ApplyAmendment
<1>8. ASSUME NEW x \in Amounts, TopUpEscrow(e, x)
      PROVE  TypeOK'
  <2>1. x \in Int /\ escrow[e].amount + x \in Int /\ received[e] + x \in Int
    BY <1>2, InputAssumption
  <2>2. [escrow[e] EXCEPT !.amount = @ + x, !.acknowledged = FALSE] \in EscrowRecord
    BY <1>2, <2>1 DEF EscrowRecord
  <2>3. EscrowType'
    BY <1>1, <1>8, <2>2 DEF TopUpEscrow, TypeOK, EscrowType
  <2>4. MoneyType'
    BY <1>1, <1>8, <2>1 DEF TopUpEscrow, TypeOK, MoneyType
  <2>5. QED
    BY <1>8, <2>3, <2>4, Frames DEF TopUpEscrow, TypeOK
<1>9. CASE AcknowledgeTopup(e)
  <2>1. [escrow[e] EXCEPT !.acknowledged = TRUE] \in EscrowRecord
    BY <1>2 DEF EscrowRecord
  <2>2. QED
    BY <1>1, <1>9, <2>1, RewriteType, Frames DEF AcknowledgeTopup, TypeOK
<1>10. QED
  BY <1>3, <1>4, <1>5, <1>6, <1>7, <1>8, <1>9

-----------------------------------------------------------------------------
(* Vetoes, settings, parties and inspections.                               *)

LEMMA StampVetoType ==
  ASSUME TypeOK, NEW e \in Ids, StampVeto(e)
  PROVE  TypeOK'
<1>1. now \in Int
  BY ConfigFields DEF TypeOK
<1>2. ReleaseType'
  BY <1>1 DEF StampVeto, TypeOK, ReleaseType
<1>3. QED
  BY <1>2, Frames DEF StampVeto, TypeOK

LEMMA ConfigSetType ==
  ASSUME TypeOK, NEW field, NEW value, ConfigSet(field, value),
         [config EXCEPT ![field] = value] \in Config
  PROVE  TypeOK'
<1>1. ClockType'
  BY DEF ConfigSet, TypeOK, ClockType
<1>2. QED
  BY <1>1, Frames DEF ConfigSet, TypeOK

LEMMA VetoNextType == TypeOK /\ VetoNext => TypeOK'
<1> SUFFICES ASSUME TypeOK, VetoNext PROVE TypeOK'
  OBVIOUS
<1>1. ASSUME NEW e \in Created, RaiseSellerVeto(e) \/ AdminOverrideVeto(e)
      PROVE  TypeOK'
  BY <1>1, CreatedIds, StampVetoType DEF RaiseSellerVeto, AdminOverrideVeto, TypeOK
<1>2. ASSUME NEW seconds \in Times, SetVetoCooldownSeconds(seconds)
      PROVE  TypeOK'
  <2>1. seconds \in Nat /\ config \in Config
    BY InputAssumption, ConfigFields DEF TypeOK
  <2>2. [config EXCEPT !["vetoCooldown"] = seconds] \in Config
    BY <2>1 DEF Config
  <2>3. QED
    BY <1>2, <2>2, ConfigSetType DEF SetVetoCooldownSeconds
<1>3. QED
  BY <1>1, <1>2 DEF VetoNext

LEMMA AdminNextType == TypeOK /\ AdminNext => TypeOK'
<1> SUFFICES ASSUME TypeOK, AdminNext PROVE TypeOK'
  OBVIOUS
<1>1. config \in Config /\ Times \subseteq Nat /\ Amounts \subseteq Int
  BY InputAssumption, ConfigFields DEF TypeOK
<1>2. ASSUME NEW seconds \in Times, SetResolutionCooloff(seconds)
      PROVE  TypeOK'
  <2>1. [config EXCEPT !["cooloff"] = seconds] \in Config
    BY <1>1 DEF Config
  <2>2. QED
    BY <1>2, <2>1, ConfigSetType DEF SetResolutionCooloff
<1>3. ASSUME NEW seconds \in Times, UpdateDefaultDisputeTimeout(seconds)
      PROVE  TypeOK'
  <2>1. seconds \in Nat \ {0}
    BY <1>1, <1>3 DEF UpdateDefaultDisputeTimeout
  <2>2. [config EXCEPT !["timeout"] = seconds] \in Config
    BY <1>1, <2>1 DEF Config
  <2>3. QED
    BY <1>3, <2>2, ConfigSetType DEF UpdateDefaultDisputeTimeout
<1>4. ASSUME NEW winner \in Winner, SetDefaultDisputeWinner(winner)
      PROVE  TypeOK'
  <2>1. [config EXCEPT !["winner"] = winner] \in Config
    BY <1>1 DEF Config
  <2>2. QED
    BY <1>4, <2>1, ConfigSetType DEF SetDefaultDisputeWinner
<1>5. ASSUME NEW x \in Amounts, WithdrawFees(x)
      PROVE  TypeOK'
  <2>1. MoneyType'
    <3>1. x \in Int /\ accruedFees \in Int
      BY <1>1 DEF TypeOK, MoneyType
    <3>2. QED
      BY <1>5, <3>1 DEF WithdrawFees, TypeOK, MoneyType
  <2>2. QED
    BY <1>5, <2>1, Frames DEF WithdrawFees, TypeOK
<1>6. CASE PauseContract \/ ResumeContract
  <2>1. paused' \in BOOLEAN
    BY <1>6, Zenon DEF PauseContract, ResumeContract
  <2>2. ClockType'
    BY <1>6, <2>1 DEF PauseContract, ResumeContract, TypeOK, ClockType
  <2>3. QED
    BY <1>6, <2>2, Frames DEF PauseContract, ResumeContract, TypeOK
<1>7. QED
  BY <1>2, <1>3, <1>4, <1>5, <1>6 DEF AdminNext

LEMMA ConcludeSellerTransferType ==
  ASSUME TypeOK, NEW e \in Ids, ConcludeSellerTransfer(e)
  PROVE  TypeOK'
<1>1. /\ escrow[e] \in EscrowRecord /\ transfer[e].newSeller \in Addr \cup {NoAddr}
      /\ "Active" \in Status
  BY StatusNames DEF TypeOK, EscrowType, AgreeType
<1>2. [escrow[e] EXCEPT !.status = "Active", !.seller = transfer[e].newSeller]
        \in EscrowRecord
  BY <1>1 DEF EscrowRecord
<1>3. QED
  BY <1>2, RewriteType, Frames DEF ConcludeSellerTransfer, TypeOK

LEMMA PartyNextType == TypeOK /\ PartyNext => TypeOK'
<1> SUFFICES ASSUME TypeOK, NEW e \in Created,
        \/ \E newBuyer \in Addr : TransferBuyerRole(e, newBuyer)
        \/ \E newSeller \in Addr : TransferSellerRole(e, newSeller)
        \/ ApproveSellerTransfer(e)
        \/ ExpireSellerTransferVeto(e)
        \/ VetoSellerTransfer(e)
             PROVE  TypeOK'
  BY DEF PartyNext
<1>1. e \in Ids
  BY CreatedIds DEF TypeOK
<1>2. escrow[e] \in EscrowRecord
  BY <1>1 DEF TypeOK, EscrowType
<1>3. ASSUME NEW newBuyer \in Addr, TransferBuyerRole(e, newBuyer)
      PROVE  TypeOK'
  <2>1. [escrow[e] EXCEPT !.buyer = newBuyer] \in EscrowRecord
    BY <1>2 DEF EscrowRecord
  <2>2. QED
    BY <1>1, <1>3, <2>1, RewriteType, Frames DEF TransferBuyerRole, TypeOK
<1>4. ASSUME NEW newSeller \in Addr, TransferSellerRole(e, newSeller)
      PROVE  TypeOK'
  <2>1. now + config.transferWindow \in Nat
    BY ConfigFields DEF TypeOK
  <2>2. AgreeType'
    BY <1>1, <1>4, <2>1 DEF TransferSellerRole, TypeOK, AgreeType
  <2>3. WithStatus(e, "AwaitingBuyerVetoDecision") \in EscrowRecord
    BY <1>1, StatusType, StatusNames DEF TypeOK
  <2>4. QED
    BY <1>1, <1>4, <2>2, <2>3, RewriteType, Frames DEF TransferSellerRole, TypeOK
<1>5. CASE ApproveSellerTransfer(e) \/ ExpireSellerTransferVeto(e)
  BY <1>1, <1>5, ConcludeSellerTransferType
     DEF ApproveSellerTransfer, ExpireSellerTransferVeto
<1>6. CASE VetoSellerTransfer(e)
  <2>1. escrow[e].amount \in Int /\ 0 \in Int
    BY <1>2, RecordFields
  <2>2. QED
    BY <1>1, <1>6, <2>1, SettledWithReceiptType, StatusNames, Frames
       DEF VetoSellerTransfer, TypeOK, Settle
<1>7. QED
  BY <1>3, <1>4, <1>5, <1>6

LEMMA ReplaceInspectorType ==
  ASSUME TypeOK, NEW e \in Ids, NEW caller \in Addr, NEW insp \in Addr,
         ReplaceInspector(e, caller, insp)
  PROVE  TypeOK'
<1> DEFINE earlier == IF inspectorVote[e].inspector = insp
                      THEN inspectorVote[e].signed ELSE {}
           signed == earlier \cup {IF caller = escrow[e].buyer THEN "buyer" ELSE "seller"}
           old == escrow[e].inspector
           status == IF escrow[e].status \in {"AwaitingInspection", "InspectionFailed"}
                     THEN "Active" ELSE escrow[e].status
           record == [escrow[e] EXCEPT !.inspector = insp, !.status = status]
<1>1. escrow[e] \in EscrowRecord /\ status \in Status /\ old \in Addr \cup {NoAddr}
  BY StatusNames, RecordFields DEF TypeOK, EscrowType
<1>2. old \in Addr
  BY <1>1 DEF ReplaceInspector
<1>3. CASE signed = {"buyer", "seller"}
  <2>1. record \in EscrowRecord
    <3> HIDE DEF status
    <3>1. QED
      BY <1>1 DEF EscrowRecord
  <2>2. /\ Rewrite(e, record)
        /\ inspectorVote' = [inspectorVote EXCEPT ![e] = NoVote]
        /\ inspectorScore' = [inspectorScore EXCEPT ![old].total = @ + 1]
        /\ UNCHANGED <<appealed, agreeVars>>
    BY <1>3 DEF ReplaceInspector
  <2>3. InspectType'
    <3>1. inspectorScore' \in [Addr -> [total: Nat, correct: Nat]]
      BY <1>2, <2>2 DEF TypeOK, InspectType
    <3>2. inspectorVote' \in [Ids -> [inspector: Addr \cup {NoAddr}, signed: Signed]]
      BY <2>2 DEF TypeOK, InspectType, NoVote, Signed
    <3>3. QED
      BY <2>2, <3>1, <3>2 DEF TypeOK, InspectType
  <2>4. QED
    <3> HIDE DEF record
    <3>1. QED
      BY <2>1, <2>2, <2>3, RewriteType, Frames DEF TypeOK
<1>4. CASE signed # {"buyer", "seller"}
  <2>1. /\ inspectorVote' = [inspectorVote EXCEPT ![e] =
                               [inspector |-> insp, signed |-> signed]]
        /\ UNCHANGED <<clockVars, escrowVars, releaseVars, renewalVars,
                       disputeVars, inspectorScore, moneyVars, appealed, agreeVars>>
    BY <1>4 DEF ReplaceInspector
  <2>2. signed \in Signed
    BY DEF TypeOK, InspectType, Signed
  <2>3. InspectType'
    <3> HIDE DEF signed
    <3>1. QED
      BY <2>1, <2>2 DEF TypeOK, InspectType
  <2>4. QED
    BY <2>1, <2>3, Frames DEF TypeOK
<1>5. QED
  BY <1>3, <1>4

LEMMA AppealType ==
  ASSUME TypeOK, NEW e \in Ids, AppealInspectorRuling(e)
  PROVE  TypeOK'
<1> DEFINE insp == escrow[e].inspector
           score == IF inspectorScore[insp].total = 0 THEN [total |-> 1, correct |-> 1]
                    ELSE inspectorScore[insp]
           lost == [score EXCEPT !.correct = IF @ > 0 THEN @ - 1 ELSE 0]
<1>1. insp \in Addr
  BY RecordFields DEF TypeOK, EscrowType, AppealInspectorRuling
<1>2. score \in [total: Nat, correct: Nat]
  BY <1>1 DEF TypeOK, InspectType
<1>3. lost \in [total: Nat, correct: Nat]
  <2> HIDE DEF score
  <2>1. (IF score.correct > 0 THEN score.correct - 1 ELSE 0) \in Nat
    BY <1>2
  <2>2. QED
    BY <1>2, <2>1
<1>4. /\ inspectorScore' = [inspectorScore EXCEPT ![insp] = lost]
      /\ appealed' = [appealed EXCEPT ![e] = TRUE]
      /\ UNCHANGED <<clockVars, escrowVars, releaseVars, renewalVars,
                     disputeVars, inspectorVote, agreeVars, moneyVars>>
  BY DEF AppealInspectorRuling
<1>5. InspectType'
  <2> HIDE DEF lost, insp
  <2>1. QED
    BY <1>1, <1>3, <1>4 DEF TypeOK, InspectType
<1>6. QED
  BY <1>4, <1>5, Frames DEF TypeOK

LEMMA InspectionNextType == TypeOK /\ InspectionNext => TypeOK'
<1> SUFFICES ASSUME TypeOK, NEW e \in Created,
        \/ SellerMarkComplete(e)
        \/ \E approved \in BOOLEAN : SubmitInspectionReport(e, approved)
        \/ \E caller, insp \in Addr : ReplaceInspector(e, caller, insp)
        \/ AppealInspectorRuling(e)
             PROVE  TypeOK'
  BY DEF InspectionNext
<1>1. e \in Ids
  BY CreatedIds DEF TypeOK
<1>2. CASE SellerMarkComplete(e)
  <2>1. WithStatus(e, "AwaitingInspection") \in EscrowRecord
    BY <1>1, StatusType, StatusNames DEF TypeOK
  <2>2. QED
    BY <1>1, <1>2, <2>1, RewriteType, Frames DEF SellerMarkComplete, TypeOK
<1>3. ASSUME NEW approved \in BOOLEAN, SubmitInspectionReport(e, approved)
      PROVE  TypeOK'
  <2> DEFINE status == IF approved THEN "InspectionPassed" ELSE "InspectionFailed"
  <2>1. status \in Status
    BY StatusNames
  <2>2. Rewrite(e, WithStatus(e, status)) /\ UNCHANGED <<inspectVars, agreeVars>>
    BY <1>3 DEF SubmitInspectionReport
  <2> HIDE DEF status
  <2>3. WithStatus(e, status) \in EscrowRecord
    BY <1>1, <2>1, StatusType DEF TypeOK
  <2>4. QED
    BY <1>1, <2>2, <2>3, RewriteType, Frames DEF TypeOK
<1>4. ASSUME NEW caller \in Addr, NEW insp \in Addr, ReplaceInspector(e, caller, insp)
      PROVE  TypeOK'
  BY <1>1, <1>4, ReplaceInspectorType
<1>5. CASE AppealInspectorRuling(e)
  BY <1>1, <1>5, AppealType
<1>6. QED
  BY <1>2, <1>3, <1>4, <1>5

-----------------------------------------------------------------------------
(* Every storage key always holds a value its readers can use: a status is  *)
(* one of EscrowStatus, no renewal allowance or counter of cycles runs      *)
(* below zero, and no share in basis points exceeds the whole.              *)
LEMMA StepType == TypeOK /\ [Next]_vars => TypeOK'
<1> SUFFICES ASSUME TypeOK, [Next]_vars PROVE TypeOK'
  OBVIOUS
<1>1. CASE UNCHANGED vars
  BY <1>1, StutterType
<1>2. CASE Tick
  BY <1>2, TickType
<1>3. CASE CreationNext
  BY <1>3, CreationNextType
<1>4. CASE ReleaseNext
  BY <1>4, ReleaseNextType
<1>5. CASE RenewalNext
  BY <1>5, RenewalNextType
<1>6. CASE ConditionNext
  BY <1>6, ConditionNextType
<1>7. CASE DisputeNext
  BY <1>7, DisputeNextType
<1>8. CASE CancellationNext
  BY <1>8, CancellationNextType
<1>9. CASE AmendmentNext
  BY <1>9, AmendmentNextType
<1>10. CASE VetoNext
  BY <1>10, VetoNextType
<1>11. CASE PartyNext
  BY <1>11, PartyNextType
<1>12. CASE InspectionNext
  BY <1>12, InspectionNextType
<1>13. CASE AdminNext
  BY <1>13, AdminNextType
<1>14. QED
  BY <1>1, <1>2, <1>3, <1>4, <1>5, <1>6, <1>7, <1>8, <1>9, <1>10, <1>11,
     <1>12, <1>13 DEF Next

(* Type correctness is an invariant of the whole contract.                  *)
THEOREM TypeCorrect == Spec => []TypeOK
<1>1. InitBase => TypeOK
  BY InitType
<1>2. TypeOK /\ [Next]_vars => TypeOK'
  BY StepType
<1>3. QED
  BY <1>1, <1>2, PTL DEF Spec

-----------------------------------------------------------------------------
(* The money.                                                               *)


(* The strengthening that makes Backed and NothingNegative inductive: ids   *)
(* above the counter are untouched, collateral is held only once it is      *)
(* deposited, and what is recorded for later is a positive amount and a     *)
(* percentage.                                                              *)
Untouched(e) ==
  /\ e >= nextId => /\ escrow[e].status = "None" /\ received[e] = 0
                    /\ collateral[e] = 0 /\ paid[e] = NothingPaid
  /\ e < nextId => escrow[e].status # "None"
  /\ escrow[e].status = "AwaitingCollateral" => collateral[e] = 0

Recorded(e) ==
  /\ amendment[e] # NoAmendment => amendment[e].amount = Unset \/ amendment[e].amount > 0
  /\ verdict[e] # NoVerdict => verdict[e].percent \in 0 .. 100

Records == \A e \in Ids : Recorded(e)
Funds   == \A e \in Ids : Untouched(e)

MoneyInv == TypeOK /\ Records /\ Funds /\ Backed /\ NothingNegative

-----------------------------------------------------------------------------
(* The shapes of a step.                                                    *)

Kept(e) ==
  /\ escrow'[e].status = escrow[e].status /\ escrow'[e].amount = escrow[e].amount
  /\ collateral'[e] = collateral[e]
  /\ received'[e] = received[e] /\ paid'[e] = paid[e]

Quiet == nextId' = nextId /\ \A e \in Ids : Kept(e)

NotLess(e) ==
  /\ paid'[e].buyer >= paid[e].buyer /\ paid'[e].seller >= paid[e].seller
  /\ paid'[e].arbiter >= paid[e].arbiter /\ paid'[e].fee >= paid[e].fee
  /\ paid'[e].penalty >= paid[e].penalty

Moves(e) ==
  /\ escrow[e].status \in Live
  /\ escrow'[e].status \in Live \cup Terminal
  /\ escrow'[e].status \in Live => escrow'[e].amount > 0
  /\ escrow'[e].status = "AwaitingCollateral" => collateral'[e] = 0
  /\ escrow[e].status \in Frozen => escrow'[e].status \in Frozen \cup Terminal
  /\ escrow[e].status \notin Frozen /\ escrow'[e].status \in Frozen =>
       Owed(e)' <= Owed(e)
  /\ escrow'[e].status \in Terminal => collateral'[e] <= collateral[e]
  /\ received'[e] - TotalPaid(e)' - Owed(e)' = received[e] - TotalPaid(e) - Owed(e)
  /\ NotLess(e)

MovesOnly(e) ==
  /\ Moves(e)
  /\ nextId' = nextId
  /\ \A f \in Ids : f # e => Kept(f)

Born(q) ==
  /\ q = nextId /\ q \in Ids
  /\ nextId' = nextId + 1
  /\ escrow'[q].status \in Live \ Frozen
  /\ escrow'[q].amount > 0
  /\ received'[q] = escrow'[q].amount
  /\ paid'[q] = paid[q] /\ collateral'[q] = collateral[q]

BornOnly(q) ==
  /\ Born(q)
  /\ \A f \in Ids : f # q => Kept(f)

Renewed(e, q) ==
  /\ Born(q)
  /\ Moves(e)
  /\ e # q /\ escrow[e].status \notin Frozen
  /\ escrow'[e].status \in Terminal /\ collateral'[e] = 0
  /\ \A f \in Ids : f \notin {e, q} => Kept(f)

Shaped ==
  \/ Quiet
  \/ \E e \in Ids : MovesOnly(e)
  \/ BornOnly(nextId)
  \/ \E e \in Ids : Renewed(e, nextId)

-----------------------------------------------------------------------------
(* What the shapes preserve.                                                *)

LEMMA PaidFields ==
  ASSUME MoneyType, NEW e \in Ids
  PROVE  /\ paid[e].buyer \in Int /\ paid[e].seller \in Int /\ paid[e].arbiter \in Int
         /\ paid[e].fee \in Int /\ paid[e].penalty \in Int
         /\ TotalPaid(e) \in Int /\ received[e] \in Int
<1>1. /\ paid[e].buyer \in Int /\ paid[e].seller \in Int /\ paid[e].arbiter \in Int
      /\ paid[e].fee \in Int /\ paid[e].penalty \in Int /\ received[e] \in Int
  BY DEF MoneyType, PaidRecord
<1>2. QED
  BY <1>1 DEF TotalPaid

LEMMA PaidFieldsNext ==
  ASSUME MoneyType', NEW e \in Ids
  PROVE  /\ paid'[e].buyer \in Int /\ paid'[e].seller \in Int /\ paid'[e].arbiter \in Int
         /\ paid'[e].fee \in Int /\ paid'[e].penalty \in Int
         /\ TotalPaid(e)' \in Int /\ received'[e] \in Int
<1>1. /\ paid'[e].buyer \in Int /\ paid'[e].seller \in Int /\ paid'[e].arbiter \in Int
      /\ paid'[e].fee \in Int /\ paid'[e].penalty \in Int /\ received'[e] \in Int
  BY DEF MoneyType, PaidRecord
<1>2. QED
  BY <1>1 DEF TotalPaid

LEMMA OwedType ==
  ASSUME TypeOK, NEW e \in Ids
  PROVE  Owed(e) \in Int /\ collateral[e] \in Nat /\ escrow[e].amount \in Int
<1>1. collateral[e] \in Nat /\ escrow[e].amount \in Int
  BY RecordFields DEF TypeOK, EscrowType, ReleaseType
<1>2. QED
  BY <1>1 DEF Owed

LEMMA OwedTypeNext ==
  ASSUME TypeOK', NEW e \in Ids
  PROVE  Owed(e)' \in Int /\ collateral'[e] \in Nat /\ escrow'[e].amount \in Int
<1>1. collateral'[e] \in Nat /\ escrow'[e].amount \in Int
  BY RecordFields DEF TypeOK, EscrowType, ReleaseType
<1>2. QED
  BY <1>1 DEF Owed

(* An escrow a step leaves alone stays as well accounted for as it was.     *)
LEMMA KeptBacked ==
  ASSUME NEW e \in Ids, Kept(e)
  PROVE  /\ Owed(e)' = Owed(e) /\ TotalPaid(e)' = TotalPaid(e)
         /\ received'[e] = received[e]
BY DEF Kept, TotalPaid, Owed

LEMMA KeptUntouched ==
  ASSUME NEW e \in Ids, Kept(e), Untouched(e),
         (e < nextId)' <=> e < nextId, (e >= nextId)' <=> e >= nextId
  PROVE  Untouched(e)'
BY DEF Kept, Untouched

LEMMA MovesBacked ==
  ASSUME TypeOK, TypeOK', NEW e \in Ids, Moves(e),
         received[e] - TotalPaid(e) = Owed(e)
  PROVE  received'[e] - TotalPaid(e)' = Owed(e)'
<1>1. /\ received[e] \in Int /\ TotalPaid(e) \in Int /\ Owed(e) \in Int
  BY PaidFields, OwedType DEF TypeOK
<1>2. /\ received'[e] \in Int /\ TotalPaid(e)' \in Int /\ Owed(e)' \in Int
  BY PaidFieldsNext, OwedTypeNext DEF TypeOK
<1>3. received'[e] - TotalPaid(e)' - Owed(e)' = received[e] - TotalPaid(e) - Owed(e)
  BY DEF Moves
<1>4. QED
  BY <1>1, <1>2, <1>3

(* A new escrow is backed by what its buyers paid in.                       *)
LEMMA BornBacked ==
  ASSUME TypeOK, TypeOK', Funds, NEW q \in Ids, Born(q)
  PROVE  /\ received'[q] - TotalPaid(q)' = Owed(q)'
         /\ received[q] - TotalPaid(q) = 0
         /\ escrow[q].status = "None" /\ collateral'[q] = 0
         /\ paid'[q] = NothingPaid /\ Owed(q)' > 0
<1>1. /\ escrow[q].status = "None" /\ received[q] = 0 /\ collateral[q] = 0
      /\ paid[q] = NothingPaid
  BY DEF Funds, Untouched, Born, Ids
<1>2. collateral'[q] = 0 /\ paid'[q] = NothingPaid /\ received'[q] = escrow'[q].amount
  BY <1>1 DEF Born
<1>3. TotalPaid(q) = 0 /\ TotalPaid(q)' = 0
  BY <1>1, <1>2 DEF TotalPaid, NothingPaid
<1>4. Owed(q)' = escrow'[q].amount
  <2>1. escrow'[q].amount \in Int
    BY OwedTypeNext
  <2>2. QED
    BY <1>2, <2>1 DEF Born, Owed
<1>5. escrow'[q].amount \in Int /\ escrow'[q].amount > 0
  BY OwedTypeNext DEF Born
<1>6. QED
  BY <1>1, <1>2, <1>3, <1>4, <1>5

LEMMA ShapedBacked ==
  ASSUME TypeOK, TypeOK', Funds, Backed, Shaped
  PROVE  Backed'
<1> SUFFICES ASSUME NEW f \in Ids
             PROVE  received'[f] - TotalPaid(f)' = Owed(f)'
  BY DEF Backed
<1>1. received[f] - TotalPaid(f) = Owed(f)
  BY DEF Backed
<1>2. CASE Kept(f)
  BY <1>1, <1>2, KeptBacked
<1>3. CASE Moves(f)
  BY <1>1, <1>3, MovesBacked
<1>4. CASE Born(f)
  BY <1>4, BornBacked
<1>5. QED
  BY <1>2, <1>3, <1>4 DEF Shaped, Quiet, MovesOnly, BornOnly, Renewed, Born

LEMMA ShapedFunds ==
  ASSUME TypeOK, TypeOK', Funds, Shaped
  PROVE  Funds'
<1> SUFFICES ASSUME NEW f \in Ids
             PROVE  Untouched(f)'
  BY DEF Funds
<1>1. /\ Untouched(f) /\ nextId \in Nat /\ nextId' \in Nat /\ f \in Int
      /\ "None" \notin Live \cup Terminal /\ "AwaitingCollateral" \notin Terminal
  BY BoundsAssumption DEF Funds, TypeOK, EscrowType, Ids, Live, Terminal, Open, InDispute
<1>2. CASE Kept(f) /\ nextId' = nextId
  BY <1>1, <1>2, KeptUntouched
<1>3. CASE Kept(f) /\ nextId' = nextId + 1 /\ f # nextId
  <2>1. (f < nextId' <=> f < nextId) /\ (f >= nextId' <=> f >= nextId)
    BY <1>1, <1>3
  <2>2. QED
    BY <1>1, <1>3, <2>1, KeptUntouched
<1>4. CASE Moves(f) /\ nextId' \in {nextId, nextId + 1}
  <2>1. f < nextId /\ f < nextId'
    BY <1>1, <1>4 DEF Moves, Untouched
  <2>2. QED
    BY <1>1, <1>4, <2>1 DEF Moves, Untouched
<1>5. CASE Born(f)
  <2>1. f < nextId'
    BY <1>1, <1>5 DEF Born
  <2>2. collateral'[f] = 0
    BY <1>5, BornBacked
  <2>3. QED
    BY <1>1, <1>5, <2>1, <2>2 DEF Born, Untouched
<1>6. QED
  BY <1>2, <1>3, <1>4, <1>5 DEF Shaped, Quiet, MovesOnly, BornOnly, Renewed, Born

LEMMA ShapedNothingNegative ==
  ASSUME TypeOK, TypeOK', Funds, NothingNegative, Shaped
  PROVE  NothingNegative'
<1> DEFINE Fine(f) ==
      /\ paid[f].buyer >= 0 /\ paid[f].seller >= 0 /\ paid[f].arbiter >= 0
      /\ paid[f].fee >= 0 /\ paid[f].penalty >= 0
<1>1. SUFFICES ASSUME NEW f \in Ids
               PROVE  /\ escrow'[f].status \in Live => escrow'[f].amount > 0
                      /\ Fine(f)'
  BY DEF NothingNegative, TypeOK, MoneyType, PaidRecord
<1>2. Fine(f) /\ (escrow[f].status \in Live => escrow[f].amount > 0)
  BY DEF NothingNegative, TypeOK, MoneyType, PaidRecord
<1>3. CASE Kept(f)
  BY <1>2, <1>3 DEF Kept
<1>4. CASE Moves(f)
  <2>1. /\ paid[f].buyer \in Int /\ paid[f].seller \in Int /\ paid[f].arbiter \in Int
        /\ paid[f].fee \in Int /\ paid[f].penalty \in Int
        /\ paid'[f].buyer \in Int /\ paid'[f].seller \in Int /\ paid'[f].arbiter \in Int
        /\ paid'[f].fee \in Int /\ paid'[f].penalty \in Int
    BY PaidFields, PaidFieldsNext DEF TypeOK
  <2>2. QED
    BY <1>2, <1>4, <2>1 DEF Moves, NotLess
<1>5. CASE Born(f)
  BY <1>5, BornBacked DEF Born, NothingPaid
<1>6. QED
  BY <1>3, <1>4, <1>5 DEF Shaped, Quiet, MovesOnly, BornOnly, Renewed, Born

(* No shape moves an escrow that has ended.                                 *)
LEMMA ShapedFinal ==
  ASSUME Funds, Shaped, NEW f \in Ids, escrow[f].status \in Terminal
  PROVE  /\ escrow'[f].status = escrow[f].status
         /\ paid'[f] = paid[f] /\ received'[f] = received[f]
<1>1. escrow[f].status \notin Live /\ escrow[f].status # "None"
  BY DEF Terminal, Live, Open, InDispute
<1>2. ~ Moves(f)
  BY <1>1 DEF Moves
<1>3. ~ Born(f)
  BY <1>1 DEF Born, Funds, Untouched, Ids
<1>4. Kept(f)
  BY <1>2, <1>3 DEF Shaped, Quiet, MovesOnly, BornOnly, Renewed
<1>5. QED
  BY <1>4 DEF Kept

-----------------------------------------------------------------------------
(* Building blocks of the entry points.                                     *)

LEMMA QuietFrame ==
  ASSUME UNCHANGED <<nextId, escrow, collateral, received, paid>>
  PROVE  Quiet
BY DEF Quiet, Kept

LEMMA RecordsFrame ==
  ASSUME Records, UNCHANGED <<amendment, verdict>>
  PROVE  Records'
BY DEF Records, Recorded

(* What a step does to the escrow it is called on, given pointwise.         *)
LEMMA KindsOfStatus ==
  /\ Open \subseteq Live \ (Frozen \cup {"AwaitingCollateral"})
  /\ InDispute \subseteq Live /\ InDispute \subseteq Frozen
  /\ Frozen \subseteq Live /\ "AwaitingCollateral" \notin Frozen
  /\ {"CancellationPending", "AwaitingBuyerVetoDecision", "AwaitingInspection",
      "InspectionFailed", "Active", "InspectionPassed", "PartiallyReleased"}
       \subseteq Live \ (Frozen \cup {"AwaitingCollateral"})
  /\ "AwaitingCollateral" \in Live
  /\ "CoolingOff" \in Frozen
  /\ {"Disputed", "PartiallyDisputed"} = InDispute
  /\ Terminal \cap Live = {} /\ "None" \notin Live \cup Terminal
  /\ {"Released", "Refunded", "Resolved"} = Terminal
BY DEF Live, Open, InDispute, Terminal, Frozen

(* The totals after Pay.                                                    *)
LEMMA PaidOut ==
  ASSUME MoneyType, NEW e \in Ids, NEW b \in Int, NEW s \in Int,
         b >= 0, s >= 0, paid' = Pay(e, b, s)
  PROVE  /\ TotalPaid(e)' = TotalPaid(e) + b + s
         /\ NotLess(e)
         /\ \A f \in Ids : f # e => paid'[f] = paid[f]
<1>1. /\ paid'[e] = [paid[e] EXCEPT !.buyer = paid[e].buyer + b,
                                   !.seller = paid[e].seller + s]
      /\ \A f \in Ids : f # e => paid'[f] = paid[f]
  BY DEF Pay, MoneyType
<1>2. /\ paid'[e].buyer = paid[e].buyer + b /\ paid'[e].seller = paid[e].seller + s
      /\ paid'[e].arbiter = paid[e].arbiter /\ paid'[e].fee = paid[e].fee
      /\ paid'[e].penalty = paid[e].penalty
  BY <1>1 DEF MoneyType, PaidRecord
<1>3. QED
  BY <1>1, <1>2, PaidFields DEF NotLess, TotalPaid

(* The record of e is rewritten and nothing moves.                          *)
LEMMA RewriteFrame ==
  ASSUME NEW e, NEW r, Rewrite(e, r)
  PROVE  /\ escrow' = [escrow EXCEPT ![e] = r]
         /\ UNCHANGED <<nextId, collateral, received, paid, verdict>>
BY DEF Rewrite, releaseVars, moneyVars, disputeVars

LEMMA StatusMoves ==
  ASSUME TypeOK, NothingNegative, NEW e \in Ids, NEW r,
         escrow' = [escrow EXCEPT ![e] = r],
         UNCHANGED <<nextId, collateral, received, paid>>,
         r.amount = escrow[e].amount,
         escrow[e].status \in Live, r.status \in Live \ {"AwaitingCollateral"},
         escrow[e].status \in Frozen => r.status \in Frozen
  PROVE  MovesOnly(e)
<1>1. escrow'[e] = r /\ \A f \in Ids : f # e => escrow'[f] = escrow[f]
  BY DEF TypeOK, EscrowType
<1>2. Owed(e)' = Owed(e) /\ TotalPaid(e)' = TotalPaid(e)
  BY <1>1 DEF Owed, TotalPaid
<1>3. NotLess(e)
  BY <1>1, PaidFields DEF TypeOK, NotLess
<1>4. r.amount > 0
  BY DEF NothingNegative
<1>5. Owed(e)' <= Owed(e)
  BY <1>2, OwedType
<1>6. Moves(e)
  BY <1>1, <1>2, <1>3, <1>4, <1>5, KindsOfStatus DEF Moves
<1>7. QED
  BY <1>1, <1>6 DEF MovesOnly, Kept

LEMMA RecordQuiet ==
  ASSUME TypeOK, NEW e \in Ids, NEW r,
         escrow' = [escrow EXCEPT ![e] = r],
         UNCHANGED <<nextId, collateral, received, paid>>,
         r.amount = escrow[e].amount, r.status = escrow[e].status
  PROVE  Quiet
<1>1. escrow'[e] = r /\ \A f \in Ids : f # e => escrow'[f] = escrow[f]
  BY DEF TypeOK, EscrowType
<1>2. QED
  BY <1>1 DEF Quiet, Kept

(* Settling pays exactly the amount the escrow held, and ends it.           *)
LEMMA SettleMoves ==
  ASSUME TypeOK, NothingNegative, NEW e \in Ids, escrow[e].status \in Live,
         NEW status \in Terminal, NEW b \in Int, NEW s \in Int, b >= 0, s >= 0,
         b + s = escrow[e].amount, Settle(e, status, b, s)
  PROVE  MovesOnly(e)
<1>1. /\ escrow'[e].status = status
      /\ \A f \in Ids : f # e => escrow'[f] = escrow[f]
      /\ paid' = Pay(e, b, s)
      /\ UNCHANGED <<nextId, collateral, received>>
  BY DEF Settle, TypeOK, EscrowType, EscrowRecord, releaseVars
<1>2. /\ TotalPaid(e)' = TotalPaid(e) + b + s /\ NotLess(e)
      /\ \A f \in Ids : f # e => paid'[f] = paid[f]
  BY <1>1, PaidOut DEF TypeOK
<1>3. Owed(e)' = collateral[e] /\ Owed(e) = escrow[e].amount + collateral[e]
  BY <1>1, KindsOfStatus, OwedType DEF Owed
<1>4. /\ received[e] \in Int /\ TotalPaid(e) \in Int /\ collateral[e] \in Int
      /\ escrow[e].amount \in Int
  BY PaidFields, OwedType DEF TypeOK
<1>5. received'[e] - TotalPaid(e)' - Owed(e)' = received[e] - TotalPaid(e) - Owed(e)
  BY <1>1, <1>2, <1>3, <1>4
<1>6. collateral'[e] <= collateral[e]
  BY <1>1, <1>4
<1>7. Moves(e)
  BY <1>1, <1>2, <1>5, <1>6, KindsOfStatus DEF Moves
<1>8. QED
  BY <1>1, <1>2, <1>7 DEF MovesOnly, Kept

LEMMA BpsBound ==
  ASSUME NEW a \in Nat, NEW b \in Nat, b <= AllBps
  PROVE  Bps(a, b) \in Int /\ 0 <= Bps(a, b) /\ Bps(a, b) <= a
<1>1. a * b <= a * AllBps /\ 0 <= a * b /\ a * b \in Int
  BY AllBpsType
<1>2. \A x \in Int, y \in Int : 0 <= x /\ x <= y * AllBps =>
        0 <= x \div AllBps /\ x \div AllBps <= y /\ x \div AllBps \in Int
  BY DEF AllBps
<1>3. QED
  BY <1>1, <1>2 DEF Bps

LEMMA PercentBound ==
  ASSUME NEW d \in Nat, NEW p \in 0 .. 100
  PROVE  (d * p) \div 100 \in Int /\ 0 <= (d * p) \div 100 /\ (d * p) \div 100 <= d
<1>1. d * p <= d * 100 /\ 0 <= d * p /\ d * p \in Int
  OBVIOUS
<1>2. \A x \in Int, y \in Int : 0 <= x /\ x <= y * 100 =>
        0 <= x \div 100 /\ x \div 100 <= y /\ x \div 100 \in Int
  OBVIOUS
<1>3. QED
  BY <1>1, <1>2

-----------------------------------------------------------------------------
(* Creation.                                                                *)

LEMMA StoreBorn ==
  ASSUME TypeOK, Funds, NEW r \in Request, r.amount > 0,
         NEW status \in {"Active", "AwaitingCollateral"}, Store(r, status)
  PROVE  BornOnly(nextId)
<1>1. nextId \in Ids
  BY CreatedIds DEF Store, TypeOK
<1>2. /\ escrow'[nextId].status = status /\ escrow'[nextId].amount = r.amount
      /\ \A f \in Ids : f # nextId => escrow'[f] = escrow[f]
  BY <1>1 DEF Store, TypeOK, EscrowType
<1>3. /\ received'[nextId] = r.amount
      /\ \A f \in Ids : f # nextId => received'[f] = received[f]
  <2>1. r.amount \in Int /\ received[nextId] = 0
    BY <1>1 DEF Request, Funds, Untouched, Ids
  <2>2. QED
    BY <1>1, <2>1 DEF Store, TypeOK, MoneyType
<1>4. nextId' = nextId + 1 /\ paid' = paid /\ collateral' = collateral
  BY DEF Store
<1>5. Born(nextId)
  BY <1>1, <1>2, <1>3, <1>4, KindsOfStatus DEF Born
<1>6. QED
  BY <1>2, <1>3, <1>4, <1>5 DEF BornOnly, Kept

LEMMA CreationShaped ==
  ASSUME TypeOK, Funds, Records, CreationNext
  PROVE  Shaped /\ Records'
<1>1. PICK r \in Requests : Creation(r)
  BY DEF CreationNext
<1>2. r \in Request /\ r.amount \in Int /\ r.buyers \subseteq Addr
  BY InputAssumption DEF Request
<1>3. ASSUME NEW status \in {"Active", "AwaitingCollateral"}, CreateCore(r, status)
      PROVE  Shaped
  <2>1. BornOnly(nextId)
    BY <1>2, <1>3, StoreBorn DEF CreateCore
  <2>2. QED
    BY <2>1 DEF Shaped
<1>4. ASSUME CreateMultiBuyerEscrow(r)
      PROVE  Shaped
  <2>1. IsFiniteSet(r.buyers) /\ r.buyers # {}
    BY <1>2, <1>4, FS_Subset, BoundsAssumption DEF CreateMultiBuyerEscrow
  <2>2. Cardinality(r.buyers) \in Nat /\ Cardinality(r.buyers) # 0
    BY <2>1, FS_CardinalityType, FS_EmptySet
  <2>3. r.amount > 0
    BY <1>2, <2>2, <1>4 DEF CreateMultiBuyerEscrow
  <2>4. BornOnly(nextId)
    BY <1>2, <1>4, <2>3, StoreBorn DEF CreateMultiBuyerEscrow
  <2>5. QED
    BY <2>4 DEF Shaped
<1>5. Shaped
  BY <1>1, <1>3, <1>4 DEF Creation, CreateEscrow, CreateEscrowWithInspector,
                          CreateMultiSellerEscrow
<1>6. UNCHANGED <<amendment, verdict>>
  BY <1>1 DEF Creation, CreateEscrow, CreateEscrowWithInspector, CreateCore, Store,
              CreateMultiSellerEscrow, CreateMultiBuyerEscrow, agreeVars, disputeVars
<1>7. QED
  BY <1>5, <1>6, RecordsFrame

-----------------------------------------------------------------------------
(* Release and renewal.                                                     *)

(* What a release does to the escrow it ends, with or without a successor.  *)
LEMMA ReleaseMoves ==
  ASSUME TypeOK, Funds, NothingNegative, NEW e \in Ids, NEW caller \in Addr,
         ReleaseEscrow(e, caller),
         escrow'[e].status = "Released", received'[e] = received[e]
  PROVE  /\ Moves(e) /\ escrow[e].status \notin Frozen /\ collateral'[e] = 0
         /\ e < nextId
         /\ \A f \in Ids : f # e => paid'[f] = paid[f] /\ collateral'[f] = collateral[f]
<1>1. /\ escrow[e].amount \in Int /\ collateral[e] \in Nat /\ received[e] \in Int
      /\ TotalPaid(e) \in Int
  BY OwedType, PaidFields DEF TypeOK
<1>2. /\ collateral'[e] = 0
      /\ \A f \in Ids : f # e => collateral'[f] = collateral[f]
  BY DEF ReleaseEscrow, TypeOK, ReleaseType
<1>3. escrow[e].status \in Live \ Frozen
  BY KindsOfStatus DEF ReleaseEscrow
<1>4. escrow[e].amount > 0
  BY <1>3 DEF NothingNegative
<1>5. /\ escrow[e].amount + collateral[e] \in Int /\ 0 \in Int
      /\ escrow[e].amount + collateral[e] >= 0
  BY <1>1, <1>4
<1>6. paid' = Pay(e, 0, escrow[e].amount + collateral[e])
  BY DEF ReleaseEscrow
<1>7. /\ TotalPaid(e)' = TotalPaid(e) + 0 + (escrow[e].amount + collateral[e])
      /\ NotLess(e)
      /\ \A f \in Ids : f # e => paid'[f] = paid[f]
  BY <1>5, <1>6, PaidOut DEF TypeOK
<1>8. Owed(e)' = 0 /\ Owed(e) = escrow[e].amount + collateral[e]
  BY <1>1, <1>2, <1>3, KindsOfStatus DEF Owed
<1>9. received'[e] - TotalPaid(e)' - Owed(e)' = received[e] - TotalPaid(e) - Owed(e)
  BY <1>1, <1>7, <1>8
<1>10. collateral'[e] <= collateral[e]
  BY <1>1, <1>2
<1>11. Moves(e)
  BY <1>2, <1>3, <1>7, <1>9, <1>10, KindsOfStatus DEF Moves
<1>12. e < nextId
  <2>1. escrow[e].status # "None" /\ ~(e >= nextId)
    BY <1>3, KindsOfStatus DEF Funds, Untouched
  <2>2. e \in Int /\ nextId \in Int
    BY DEF Ids, TypeOK, EscrowType
  <2>3. QED
    BY <2>1, <2>2
<1>13. QED
  BY <1>2, <1>3, <1>7, <1>11, <1>12

(* The successor's record, timers and release condition are the renewal's   *)
(* own; what matters here is that it holds what the source held.            *)
LEMMA RenewShape ==
  ASSUME TypeOK, Funds, NothingNegative, NEW e \in Ids, NEW caller \in Addr,
         ReleaseEscrow(e, caller), NEW successor, NEW timers,
         Renew(e, successor, timers),
         successor.status = "Active", successor.amount = escrow[e].amount
  PROVE  Renewed(e, nextId)
<1>1. nextId \in Ids /\ nextId \in Int
  BY CreatedIds DEF Renew, TypeOK
<1>2. e < nextId
  <2>1. escrow[e].status # "None" /\ ~(e >= nextId)
    BY KindsOfStatus DEF Funds, Untouched, ReleaseEscrow
  <2>2. QED
    BY <1>1, <2>1 DEF Ids
<1>3. e # nextId
  BY <1>1, <1>2 DEF Ids
<1>4. /\ escrow'[e].status = "Released" /\ escrow'[nextId] = successor
      /\ \A f \in Ids : f \notin {e, nextId} => escrow'[f] = escrow[f]
  BY <1>1, <1>3 DEF Renew, Released, TypeOK, EscrowType, EscrowRecord
<1>5. /\ received'[nextId] = escrow[e].amount
      /\ \A f \in Ids : f # nextId => received'[f] = received[f]
  <2>1. escrow[e].amount \in Int /\ received[nextId] = 0
    BY <1>1 DEF TypeOK, EscrowType, EscrowRecord, Funds, Untouched, Ids
  <2>2. QED
    BY <1>1, <2>1 DEF Renew, TypeOK, MoneyType
<1>6. /\ Moves(e) /\ escrow[e].status \notin Frozen /\ collateral'[e] = 0
      /\ \A f \in Ids : f # e => paid'[f] = paid[f] /\ collateral'[f] = collateral[f]
  BY <1>3, <1>4, <1>5, ReleaseMoves
<1>7. escrow[e].amount > 0
  BY KindsOfStatus DEF NothingNegative, ReleaseEscrow
<1>8. Born(nextId)
  BY <1>1, <1>3, <1>4, <1>5, <1>6, <1>7, KindsOfStatus DEF Born, Renew
<1>9. \A f \in Ids : f \notin {e, nextId} => Kept(f)
  BY <1>4, <1>5, <1>6 DEF Kept
<1>10. QED
  BY <1>3, <1>4, <1>6, <1>8, <1>9, KindsOfStatus DEF Renewed

LEMMA ReleaseEscrowShaped ==
  ASSUME TypeOK, Funds, NothingNegative, NEW e \in Ids, NEW caller \in Addr,
         ReleaseEscrow(e, caller)
  PROVE  Shaped
<1> DEFINE timers == TouchedBy(e, caller)
<1>1. CASE ReleaseOnly(e, timers)
  <2>1. /\ escrow'[e].status = "Released" /\ received' = received /\ nextId' = nextId
        /\ \A f \in Ids : f # e => escrow'[f] = escrow[f]
    BY <1>1 DEF ReleaseOnly, Released, TypeOK, EscrowType, EscrowRecord
  <2>2. MovesOnly(e)
    BY <2>1, ReleaseMoves DEF MovesOnly, Kept
  <2>3. QED
    BY <2>2 DEF Shaped
<1>2. ASSUME NEW deadline, NEW remaining, NEW completed,
             Renew(e, Successor(e, deadline, remaining, completed), timers)
      PROVE  Shaped
  <2>1. escrow[e] \in EscrowRecord
    BY DEF TypeOK, EscrowType
  <2>2. /\ Successor(e, deadline, remaining, completed).status = "Active"
        /\ Successor(e, deadline, remaining, completed).amount = escrow[e].amount
    BY <2>1 DEF Successor, EscrowRecord
  <2>3. QED
    BY <1>2, <2>2, RenewShape DEF Shaped
<1>3. CASE RenewConfigured(e, timers)
  BY <1>2, <1>3 DEF RenewConfigured
<1>4. CASE RenewLegacy(e, timers)
  BY <1>2, <1>4 DEF RenewLegacy
<1>5. QED
  BY <1>1, <1>3, <1>4 DEF ReleaseEscrow

LEMMA ReleaseNextShaped ==
  ASSUME TypeOK, Funds, NothingNegative, Records, ReleaseNext
  PROVE  Shaped /\ Records'
<1>1. PICK e \in Created :
        \/ DepositCollateral(e)
        \/ \E caller \in Addr : ApproveMultiBuyerRelease(e, caller)
        \/ \E caller \in Addr : ReleaseEscrow(e, caller)
        \/ \E caller \in Addr, x \in Amounts : PartialRelease(e, caller, x)
        \/ AutoReleaseExpired(e)
        \/ ClaimInactivityRelease(e)
        \/ CheckAndReleaseEscrow(e)
  BY DEF ReleaseNext
<1>2. /\ e \in Ids /\ escrow[e] \in EscrowRecord /\ escrow[e].amount \in Int
      /\ collateral[e] \in Nat /\ received[e] \in Int /\ TotalPaid(e) \in Int
  BY CreatedIds, PaidFields, OwedType DEF TypeOK, EscrowType
<1>3. escrow[e].status \in Live => escrow[e].amount > 0
  BY <1>2 DEF NothingNegative
<1>4. ASSUME DepositCollateral(e)
      PROVE  Shaped
  <2>1. terms[e].collateral \in Nat
    BY <1>2, TermsFields DEF TypeOK, EscrowType
  <2>2. /\ escrow'[e].status = "Active" /\ escrow'[e].amount = escrow[e].amount
        /\ \A f \in Ids : f # e => escrow'[f] = escrow[f]
    BY <1>2, <1>4 DEF DepositCollateral, TypeOK, EscrowType, EscrowRecord
  <2>3. /\ collateral'[e] = terms[e].collateral
        /\ received'[e] = received[e] + terms[e].collateral
        /\ \A f \in Ids : f # e => /\ collateral'[f] = collateral[f]
                                   /\ received'[f] = received[f]
        /\ paid' = paid /\ nextId' = nextId
    BY <1>2, <1>4 DEF DepositCollateral, TypeOK, ReleaseType, MoneyType
  <2>4. escrow[e].status = "AwaitingCollateral" /\ collateral[e] = 0
    BY <1>2, <1>4 DEF DepositCollateral, Funds, Untouched
  <2>5. /\ Owed(e) = escrow[e].amount + 0
        /\ Owed(e)' = escrow[e].amount + terms[e].collateral
        /\ TotalPaid(e)' = TotalPaid(e)
    BY <2>2, <2>3, <2>4, KindsOfStatus DEF Owed, TotalPaid
  <2>6. received'[e] - TotalPaid(e)' - Owed(e)' = received[e] - TotalPaid(e) - Owed(e)
    BY <1>2, <2>1, <2>3, <2>5
  <2>7. NotLess(e)
    BY <1>2, <2>3, PaidFields DEF TypeOK, NotLess
  <2>8. Moves(e)
    BY <1>3, <2>2, <2>4, <2>6, <2>7, KindsOfStatus DEF Moves
  <2>9. QED
    BY <1>2, <2>2, <2>3, <2>8 DEF Shaped, MovesOnly, Kept
<1>5. ASSUME NEW caller \in Addr, ApproveMultiBuyerRelease(e, caller)
      PROVE  Shaped
  BY <1>5, QuietFrame DEF ApproveMultiBuyerRelease, releaseVars, moneyVars, Shaped
<1>6. ASSUME NEW caller \in Addr, ReleaseEscrow(e, caller)
      PROVE  Shaped
  BY <1>2, <1>6, ReleaseEscrowShaped
<1>7. ASSUME NEW caller \in Addr, NEW x \in Amounts, PartialRelease(e, caller, x)
      PROVE  Shaped
  <2> DEFINE status == IF x = escrow[e].amount THEN "Released" ELSE "PartiallyReleased"
  <2>1. x \in Int /\ 0 < x /\ x <= escrow[e].amount /\ 0 \in Int
    BY <1>7, InputAssumption DEF PartialRelease, Within
  <2>2. /\ escrow'[e].status = status /\ escrow'[e].amount = escrow[e].amount - x
        /\ \A f \in Ids : f # e => escrow'[f] = escrow[f]
    BY <1>2, <1>7 DEF PartialRelease, Holding, TypeOK, EscrowType, EscrowRecord
  <2>3. paid' = Pay(e, 0, x) /\ UNCHANGED <<nextId, collateral, received>>
    BY <1>7 DEF PartialRelease, releaseVars
  <2>4. /\ TotalPaid(e)' = TotalPaid(e) + 0 + x /\ NotLess(e)
        /\ \A f \in Ids : f # e => paid'[f] = paid[f]
    BY <1>2, <2>1, <2>3, PaidOut DEF TypeOK
  <2>5. escrow[e].status \in Live \ Frozen
    BY <1>7, KindsOfStatus DEF PartialRelease
  <2>6. /\ Owed(e) = escrow[e].amount + collateral[e]
        /\ Owed(e)' = (escrow[e].amount - x) + collateral[e]
    <3>1. CASE x = escrow[e].amount
      <4>1. escrow'[e].status \notin Live
        BY <2>2, <3>1, KindsOfStatus
      <4>2. QED
        BY <1>2, <2>3, <2>5, <3>1, <4>1 DEF Owed
    <3>2. CASE x # escrow[e].amount
      <4>1. escrow'[e].status \in Live
        BY <2>2, <3>2, KindsOfStatus
      <4>2. QED
        BY <1>2, <2>2, <2>3, <2>5, <4>1 DEF Owed
    <3>3. QED
      BY <3>1, <3>2
  <2>7. received'[e] - TotalPaid(e)' - Owed(e)' = received[e] - TotalPaid(e) - Owed(e)
    BY <1>2, <2>1, <2>3, <2>4, <2>6
  <2>8. escrow'[e].status \in Live => escrow'[e].amount > 0
    BY <1>2, <2>1, <2>2, KindsOfStatus
  <2>9. collateral'[e] <= collateral[e]
    BY <1>2, <2>3
  <2>10. Moves(e)
    BY <2>2, <2>4, <2>5, <2>7, <2>8, <2>9, KindsOfStatus DEF Moves
  <2>11. QED
    BY <1>2, <2>2, <2>3, <2>4, <2>10 DEF Shaped, MovesOnly, Kept
<1>8. ASSUME \/ AutoReleaseExpired(e)
             \/ ClaimInactivityRelease(e)
             \/ CheckAndReleaseEscrow(e)
      PROVE  Shaped
  <2>1. escrow[e].status \in Live
    BY <1>8, KindsOfStatus
       DEF AutoReleaseExpired, ClaimInactivityRelease, CheckAndReleaseEscrow
  <2>2. /\ escrow[e].amount + 0 = escrow[e].amount /\ 0 + escrow[e].amount = escrow[e].amount
        /\ escrow[e].amount >= 0 /\ 0 \in Int /\ 0 >= 0
    BY <1>2, <1>3, <2>1
  <2>3. \/ Settle(e, "Refunded", escrow[e].amount, 0)
        \/ Settle(e, "Released", 0, escrow[e].amount)
    BY <1>8 DEF AutoReleaseExpired, ClaimInactivityRelease, CheckAndReleaseEscrow
  <2>4. MovesOnly(e)
    BY <1>2, <2>1, <2>2, <2>3, SettleMoves, KindsOfStatus
  <2>5. QED
    BY <1>2, <2>4 DEF Shaped
<1>9. UNCHANGED <<amendment, verdict>>
  BY <1>1 DEF DepositCollateral, ApproveMultiBuyerRelease, ReleaseEscrow, PartialRelease,
              AutoReleaseExpired, ClaimInactivityRelease, CheckAndReleaseEscrow,
              agreeVars, disputeVars
<1>10. QED
  BY <1>1, <1>4, <1>5, <1>6, <1>7, <1>8, <1>9, RecordsFrame

LEMMA RenewalNextShaped ==
  ASSUME TypeOK, Records, RenewalNext
  PROVE  Shaped /\ Records'
<1>1. PICK e \in Created :
        \/ \E n \in 0 .. MaxEscrows : SetRenewalAllowance(e, n)
        \/ CancelAutoRenew(e)
        \/ CancelAutoRenewal(e)
  BY DEF RenewalNext
<1>2. e \in Ids /\ escrow[e] \in EscrowRecord
  BY CreatedIds DEF TypeOK, EscrowType
<1>3. Quiet
  <2>1. ASSUME NEW n, SetRenewalAllowance(e, n)
        PROVE  Quiet
    BY <2>1, QuietFrame DEF SetRenewalAllowance, escrowVars, releaseVars, moneyVars
  <2>2. CASE CancelAutoRenew(e)
    <3>1. /\ escrow' = [escrow EXCEPT ![e] =
                [escrow[e] EXCEPT !.autoRenew = FALSE, !.renewalsRemaining = 0]]
          /\ UNCHANGED <<nextId, collateral, received, paid>>
      BY <2>2 DEF CancelAutoRenew, releaseVars, moneyVars
    <3>2. /\ [escrow[e] EXCEPT !.autoRenew = FALSE, !.renewalsRemaining = 0].amount
                = escrow[e].amount
          /\ [escrow[e] EXCEPT !.autoRenew = FALSE, !.renewalsRemaining = 0].status
                = escrow[e].status
      BY <1>2 DEF EscrowRecord
    <3>3. QED
      BY <1>2, <3>1, <3>2, RecordQuiet
  <2>3. CASE CancelAutoRenewal(e)
    BY <2>3, QuietFrame DEF CancelAutoRenewal, escrowVars, releaseVars, moneyVars
  <2>4. QED
    BY <1>1, <2>1, <2>2, <2>3
<1>4. UNCHANGED <<amendment, verdict>>
  BY <1>1 DEF SetRenewalAllowance, CancelAutoRenew, CancelAutoRenewal, agreeVars,
              disputeVars
<1>5. QED
  BY <1>3, <1>4, RecordsFrame DEF Shaped

LEMMA ConditionNextShaped ==
  ASSUME TypeOK, Funds, NothingNegative, Records, ConditionNext
  PROVE  Shaped /\ Records'
<1>1. PICK e \in Created :
        \/ SetConditionalRelease(e)
        \/ \E caller \in Addr : TriggerConditionalRelease(e, caller)
        \/ \E caller \in Addr : WaiveReleaseCondition(e, caller)
        \/ \E holder \in Addr : TransferEscrowReceipt(e, holder)
        \/ \E caller \in Addr : UpdateMetadata(e, caller)
  BY DEF ConditionNext
<1>2. e \in Ids
  BY CreatedIds DEF TypeOK
<1>3. ASSUME NEW caller \in Addr, TriggerConditionalRelease(e, caller)
      PROVE  Shaped /\ UNCHANGED <<amendment, verdict>>
  <2>1. ReleaseEscrow(e, caller)
    BY <1>3 DEF TriggerConditionalRelease
  <2>2. QED
    BY <1>2, <2>1, ReleaseEscrowShaped DEF ReleaseEscrow, agreeVars, disputeVars
<1>4. ASSUME \/ SetConditionalRelease(e)
             \/ \E caller \in Addr : WaiveReleaseCondition(e, caller)
             \/ \E holder \in Addr : TransferEscrowReceipt(e, holder)
             \/ \E caller \in Addr : UpdateMetadata(e, caller)
      PROVE  Shaped /\ UNCHANGED <<amendment, verdict>>
  <2>1. UNCHANGED <<nextId, escrow, collateral, received, paid, amendment, verdict>>
    BY <1>4 DEF SetConditionalRelease, WaiveReleaseCondition, TransferEscrowReceipt,
                UpdateMetadata, escrowVars, releaseVars, moneyVars, agreeVars, disputeVars
  <2>2. QED
    BY <2>1, QuietFrame DEF Shaped
<1>5. QED
  BY <1>1, <1>3, <1>4, RecordsFrame

-----------------------------------------------------------------------------
(* Disputes.                                                                *)

(* The undisputed part leaves, the rest stays.                              *)
LEMMA DisputeEscrowShaped ==
  ASSUME TypeOK, NEW e \in Ids, NEW caller \in Addr, NEW x \in Int,
         DisputeEscrow(e, caller, x)
  PROVE  MovesOnly(e)
<1> DEFINE status == IF x < escrow[e].amount THEN "PartiallyDisputed" ELSE "Disputed"
<1>1. /\ escrow[e].amount \in Int /\ collateral[e] \in Nat /\ received[e] \in Int
      /\ TotalPaid(e) \in Int
  BY PaidFields, OwedType DEF TypeOK
<1>2. /\ 0 < x /\ x <= escrow[e].amount /\ 0 \in Int
      /\ escrow[e].amount - x \in Int /\ escrow[e].amount - x >= 0
  BY <1>1 DEF DisputeEscrow, Within
<1>3. /\ escrow'[e].status = status /\ escrow'[e].amount = x
      /\ \A f \in Ids : f # e => escrow'[f] = escrow[f]
  BY DEF DisputeEscrow, Holding, TypeOK, EscrowType, EscrowRecord
<1>4. /\ paid' = Pay(e, 0, escrow[e].amount - x)
      /\ UNCHANGED <<nextId, collateral, received>>
  BY DEF DisputeEscrow
<1>5. /\ TotalPaid(e)' = TotalPaid(e) + 0 + (escrow[e].amount - x) /\ NotLess(e)
      /\ \A f \in Ids : f # e => paid'[f] = paid[f]
  BY <1>2, <1>4, PaidOut DEF TypeOK
<1>6. escrow[e].status \in Live \ Frozen /\ escrow'[e].status \in InDispute
  BY <1>3, KindsOfStatus DEF DisputeEscrow
<1>7. /\ Owed(e) = escrow[e].amount + collateral[e]
      /\ Owed(e)' = x + collateral[e]
  BY <1>3, <1>4, <1>6, KindsOfStatus DEF Owed
<1>8. /\ received'[e] - TotalPaid(e)' - Owed(e)' = received[e] - TotalPaid(e) - Owed(e)
      /\ Owed(e)' <= Owed(e)
  BY <1>1, <1>2, <1>4, <1>5, <1>7
<1>9. Moves(e)
  BY <1>2, <1>3, <1>5, <1>6, <1>8, KindsOfStatus DEF Moves
<1>10. QED
  BY <1>3, <1>4, <1>5, <1>9 DEF MovesOnly, Kept

(* What a verdict hands out is what the escrow held, no share below zero.   *)
LEMMA VerdictShares ==
  ASSUME TypeOK, NEW e \in Ids, NEW percent \in 0 .. 100,
         escrow[e].amount > 0, Distributable(e) >= 0
  PROVE  /\ ArbiterFee(e) \in Nat /\ ProtocolFee(e) \in Nat
         /\ BuyerShare(e, percent) \in Int /\ Forfeit(e, percent) \in Int
         /\ 0 <= BuyerShare(e, percent) /\ BuyerShare(e, percent) <= Distributable(e)
         /\ 0 <= Forfeit(e, percent) /\ Forfeit(e, percent) <= collateral[e]
         /\ Distributable(e) \in Int
         /\ Distributable(e) = escrow[e].amount - ProtocolFee(e) - ArbiterFee(e)
<1>1. /\ escrow[e].amount \in Nat /\ collateral[e] \in Nat
      /\ config.arbiterFee \in Nat /\ config.protocolFee \in Nat
      /\ terms[e].forfeitBps \in Nat /\ terms[e].forfeitBps <= AllBps
  BY OwedType, TermsFields, ConfigFields DEF TypeOK, EscrowType
<1>2. (IF terms[e].arbiterFee = Unset THEN config.arbiterFee
       ELSE terms[e].arbiterFee) \in Nat
  <2> DEFINE fee == terms[e].arbiterFee
  <2>1. fee \in 0 .. 1000 \cup {Unset}
    <3>1. \A t \in Terms : t.arbiterFee \in 0 .. 1000 \cup {Unset}
      BY DEF Terms
    <3>2. terms[e] \in Terms
      BY DEF TypeOK, EscrowType
    <3>3. QED
      BY <3>1, <3>2
  <2> HIDE DEF fee
  <2>2. fee # Unset => fee \in Nat
    BY <2>1
  <2>3. QED
    BY <1>1, <2>2 DEF fee
<1>3. ArbiterFee(e) \in Nat /\ ProtocolFee(e) \in Nat
  BY <1>1, <1>2, BpsType DEF ArbiterFee, ProtocolFee
<1>4. Distributable(e) \in Nat
  BY <1>1, <1>3 DEF Distributable
<1>5. /\ BuyerShare(e, percent) \in Int
      /\ 0 <= BuyerShare(e, percent) /\ BuyerShare(e, percent) <= Distributable(e)
  <2> DEFINE d == Distributable(e)
  <2>1. /\ (d * percent) \div 100 \in Int /\ 0 <= (d * percent) \div 100
        /\ (d * percent) \div 100 <= d
    <3> HIDE DEF d
    <3>1. d \in Nat
      BY <1>4 DEF d
    <3>2. QED
      BY <3>1, PercentBound
  <2>2. QED
    BY <2>1 DEF BuyerShare
<1>6. /\ Forfeit(e, percent) \in Int
      /\ 0 <= Forfeit(e, percent) /\ Forfeit(e, percent) <= collateral[e]
  <2>1. /\ Bps(collateral[e], terms[e].forfeitBps) \in Int
        /\ 0 <= Bps(collateral[e], terms[e].forfeitBps)
        /\ Bps(collateral[e], terms[e].forfeitBps) <= collateral[e]
    BY <1>1, BpsBound
  <2>2. QED
    BY <1>1, <2>1 DEF Forfeit
<1>7. QED
  BY <1>3, <1>4, <1>5, <1>6 DEF Distributable

LEMMA ExecuteVerdictMoves ==
  ASSUME TypeOK, NothingNegative, NEW e \in Ids, NEW percent \in 0 .. 100,
         escrow[e].status \in Live, ExecuteVerdict(e, percent)
  PROVE  MovesOnly(e)
<1> DEFINE a == ArbiterFee(e)
           p == ProtocolFee(e)
           d == Distributable(e)
           b == BuyerShare(e, percent)
           f == Forfeit(e, percent)
<1>1. /\ escrow[e].amount \in Int /\ collateral[e] \in Nat /\ received[e] \in Int
      /\ TotalPaid(e) \in Int
  BY PaidFields, OwedType DEF TypeOK
<1>2. escrow[e].amount > 0
  BY DEF NothingNegative
<1>3. /\ a \in Nat /\ p \in Nat /\ b \in Int /\ f \in Int /\ d \in Int
      /\ 0 <= b /\ b <= d /\ 0 <= f /\ f <= collateral[e]
      /\ d = escrow[e].amount - p - a
  BY <1>2, VerdictShares DEF ExecuteVerdict
<1>4. paid' = [paid EXCEPT ![e] = [paid[e] EXCEPT
        !.arbiter = @ + a, !.fee = @ + p, !.buyer = @ + b + f,
        !.seller = @ + (d - b) + (collateral[e] - f)]]
  BY DEF ExecuteVerdict
<1>5. VerdictStatus(percent) \in Terminal
  BY KindsOfStatus DEF VerdictStatus
<1>6. /\ escrow'[e].status \in Terminal
      /\ \A g \in Ids : g # e => escrow'[g] = escrow[g]
  BY <1>5 DEF ExecuteVerdict, TypeOK, EscrowType, EscrowRecord
<1>7. /\ collateral'[e] = 0 /\ \A g \in Ids : g # e => collateral'[g] = collateral[g]
      /\ UNCHANGED <<nextId, received>>
  BY DEF ExecuteVerdict, TypeOK, ReleaseType
<1>8. /\ Owed(e) = escrow[e].amount + collateral[e] /\ Owed(e)' = 0
      /\ collateral'[e] <= collateral[e]
  BY <1>1, <1>6, <1>7, KindsOfStatus DEF Owed
<1> HIDE DEF a, p, d, b, f
<1>9. /\ paid'[e].arbiter = paid[e].arbiter + a /\ paid'[e].fee = paid[e].fee + p
      /\ paid'[e].buyer = paid[e].buyer + b + f
      /\ paid'[e].seller = paid[e].seller + (d - b) + (collateral[e] - f)
      /\ paid'[e].penalty = paid[e].penalty
      /\ \A g \in Ids : g # e => paid'[g] = paid[g]
  BY <1>4 DEF TypeOK, MoneyType, PaidRecord
<1>10. /\ paid[e].buyer \in Int /\ paid[e].seller \in Int /\ paid[e].arbiter \in Int
       /\ paid[e].fee \in Int /\ paid[e].penalty \in Int
  BY PaidFields DEF TypeOK
<1>11. NotLess(e)
  BY <1>1, <1>3, <1>9, <1>10 DEF NotLess
<1>12. TotalPaid(e)' = TotalPaid(e) + escrow[e].amount + collateral[e]
  BY <1>1, <1>3, <1>9, <1>10 DEF TotalPaid
<1>13. received'[e] - TotalPaid(e)' - Owed(e)' = received[e] - TotalPaid(e) - Owed(e)
  BY <1>1, <1>7, <1>8, <1>12
<1>14. Moves(e)
  BY <1>6, <1>8, <1>11, <1>13, KindsOfStatus DEF Moves
<1>15. QED
  BY <1>6, <1>7, <1>9, <1>14 DEF MovesOnly, Kept

LEMMA DisputeNextShaped ==
  ASSUME TypeOK, NothingNegative, Records, DisputeNext
  PROVE  Shaped /\ Records'
<1>1. PICK e \in Created :
        \/ \E caller \in Addr, x \in Amounts : DisputeEscrow(e, caller, x)
        \/ \E percent \in Percents : ResolveDispute(e, percent)
        \/ \E percent \in Percents : RecordVerdict(e, percent)
        \/ \E caller \in Addr : FlagResolutionError(e, caller)
        \/ FinalizeResolution(e)
        \/ ClearResolutionFlag(e)
        \/ EnforceDisputeTimeout(e)
  BY DEF DisputeNext
<1>2. e \in Ids /\ escrow[e] \in EscrowRecord /\ escrow[e].amount \in Int
  BY CreatedIds, OwedType DEF TypeOK, EscrowType
<1>3. escrow[e].status \in Live => escrow[e].amount > 0
  BY <1>2 DEF NothingNegative
<1>4. ASSUME NEW caller \in Addr, NEW x \in Amounts, DisputeEscrow(e, caller, x)
      PROVE  Shaped /\ Records'
  <2>1. MovesOnly(e)
    BY <1>2, <1>4, DisputeEscrowShaped, InputAssumption
  <2>2. UNCHANGED <<amendment, verdict>>
    BY <1>4 DEF DisputeEscrow, agreeVars
  <2>3. QED
    BY <1>2, <2>1, <2>2, RecordsFrame DEF Shaped
<1>5. ASSUME NEW percent \in Percents, ResolveDispute(e, percent)
      PROVE  Shaped /\ Records'
  <2>1. percent \in 0 .. 100 /\ escrow[e].status \in Live
    BY <1>5, InputAssumption, KindsOfStatus DEF ResolveDispute
  <2>2. MovesOnly(e)
    BY <1>2, <1>5, <2>1, ExecuteVerdictMoves DEF ResolveDispute
  <2>3. UNCHANGED <<amendment, verdict>>
    BY <1>5 DEF ResolveDispute, ExecuteVerdict, agreeVars
  <2>4. QED
    BY <1>2, <2>2, <2>3, RecordsFrame DEF Shaped
<1>6. ASSUME NEW percent \in Percents, RecordVerdict(e, percent)
      PROVE  Shaped /\ Records'
  <2>1. percent \in 0 .. 100 /\ escrow[e].status \in InDispute
    BY <1>6, InputAssumption DEF RecordVerdict
  <2>2. /\ escrow' = [escrow EXCEPT ![e] = [escrow[e] EXCEPT !.status = "CoolingOff"]]
        /\ UNCHANGED <<nextId, collateral, received, paid>>
    BY <1>6 DEF RecordVerdict, releaseVars, moneyVars
  <2>3. /\ [escrow[e] EXCEPT !.status = "CoolingOff"].status = "CoolingOff"
        /\ [escrow[e] EXCEPT !.status = "CoolingOff"].amount = escrow[e].amount
    BY <1>2 DEF EscrowRecord
  <2>4. MovesOnly(e)
    BY <1>2, <2>1, <2>2, <2>3, StatusMoves, KindsOfStatus
  <2>5. Records'
    BY <1>2, <1>6, <2>1 DEF RecordVerdict, agreeVars, Records, Recorded, TypeOK,
                            DisputeType, NoVerdict
  <2>6. QED
    BY <1>2, <2>4, <2>5 DEF Shaped
<1>7. ASSUME \/ \E caller \in Addr : FlagResolutionError(e, caller)
             \/ ClearResolutionFlag(e)
      PROVE  Shaped /\ Records'
  <2>1. UNCHANGED <<nextId, escrow, collateral, received, paid, amendment, verdict>>
    BY <1>7 DEF FlagResolutionError, ClearResolutionFlag, escrowVars, releaseVars,
                moneyVars, agreeVars
  <2>2. QED
    BY <2>1, QuietFrame, RecordsFrame DEF Shaped
<1>8. ASSUME FinalizeResolution(e)
      PROVE  Shaped /\ Records'
  <2>1. escrow[e].status \in Live /\ verdict[e].percent \in 0 .. 100
    BY <1>2, <1>8, KindsOfStatus DEF FinalizeResolution, Records, Recorded
  <2>2. MovesOnly(e)
    BY <1>2, <1>8, <2>1, ExecuteVerdictMoves DEF FinalizeResolution
  <2>3. Records'
    BY <1>2, <1>8 DEF FinalizeResolution, ExecuteVerdict, agreeVars, Records, Recorded,
                      TypeOK, DisputeType, NoVerdict
  <2>4. QED
    BY <1>2, <2>2, <2>3 DEF Shaped
<1>9. ASSUME EnforceDisputeTimeout(e)
      PROVE  Shaped /\ Records'
  <2>1. escrow[e].status \in Live
    BY <1>9, KindsOfStatus DEF EnforceDisputeTimeout
  <2>2. /\ escrow[e].amount + 0 = escrow[e].amount /\ 0 + escrow[e].amount = escrow[e].amount
        /\ escrow[e].amount >= 0 /\ 0 \in Int /\ 0 >= 0
    BY <1>2, <1>3, <2>1
  <2>3. \/ Settle(e, "Refunded", escrow[e].amount, 0)
        \/ Settle(e, "Released", 0, escrow[e].amount)
    BY <1>9 DEF EnforceDisputeTimeout
  <2>4. MovesOnly(e)
    BY <1>2, <2>1, <2>2, <2>3, SettleMoves, KindsOfStatus
  <2>5. UNCHANGED <<amendment, verdict>>
    BY <1>9 DEF EnforceDisputeTimeout, agreeVars
  <2>6. QED
    BY <1>2, <2>4, <2>5, RecordsFrame DEF Shaped
<1>10. QED
  BY <1>1, <1>4, <1>5, <1>6, <1>7, <1>8, <1>9

-----------------------------------------------------------------------------
(* Cancellations.                                                           *)

(* A rewrite that gives e an ordinary live status.                          *)
LEMMA RewriteMoves ==
  ASSUME TypeOK, NothingNegative, NEW e \in Ids, NEW r, Rewrite(e, r),
         r.amount = escrow[e].amount, escrow[e].status \in Live \ Frozen,
         r.status \in Live \ (Frozen \cup {"AwaitingCollateral"})
  PROVE  Shaped
<1>1. MovesOnly(e)
  BY RewriteFrame, StatusMoves
<1>2. QED
  BY <1>1 DEF Shaped

LEMMA WithStatusFields ==
  ASSUME TypeOK, NEW e \in Ids, NEW status
  PROVE  /\ WithStatus(e, status).status = status
         /\ WithStatus(e, status).amount = escrow[e].amount
<1>1. escrow[e] \in EscrowRecord
  BY DEF TypeOK, EscrowType
<1>2. QED
  BY <1>1 DEF WithStatus, EscrowRecord

LEMMA ReopenShaped ==
  ASSUME TypeOK, NothingNegative, NEW e \in Ids, CancellationOpen(e), Reopen(e)
  PROVE  Shaped /\ UNCHANGED <<amendment, verdict>>
<1>1. Rewrite(e, WithStatus(e, "Active")) /\ UNCHANGED amendment
  BY DEF Reopen
<1>2. escrow[e].status \in Live \ Frozen
  BY KindsOfStatus DEF CancellationOpen
<1>3. Shaped
  BY <1>1, <1>2, WithStatusFields, RewriteMoves, KindsOfStatus
<1>4. QED
  BY <1>1, <1>3, RewriteFrame

(* The refund and the penalty add up to the amount.                         *)
LEMMA AcceptCancellationMoves ==
  ASSUME TypeOK, NothingNegative, NEW e \in Ids, NEW caller \in Addr,
         AcceptCancellation(e, caller)
  PROVE  MovesOnly(e)
<1> DEFINE p == Penalty(e)
           r == Refund(e)
<1>1. /\ escrow[e].amount \in Int /\ collateral[e] \in Nat /\ received[e] \in Int
      /\ TotalPaid(e) \in Int
  BY PaidFields, OwedType DEF TypeOK
<1>2. escrow[e].status \in Live \ Frozen
  BY KindsOfStatus DEF AcceptCancellation, CancellationOpen
<1>3. escrow[e].amount > 0
  BY <1>2 DEF NothingNegative
<1>4. p \in Int /\ 0 <= p /\ p <= escrow[e].amount
  <2>1. /\ escrow[e].amount \in Nat /\ config.penalty \in Nat
        /\ config.penalty <= AllBps
    BY <1>1, <1>3, ConfigFields DEF TypeOK
  <2>2. /\ Bps(escrow[e].amount, config.penalty) \in Int
        /\ 0 <= Bps(escrow[e].amount, config.penalty)
        /\ Bps(escrow[e].amount, config.penalty) <= escrow[e].amount
    BY <2>1, BpsBound
  <2>3. QED
    BY <2>1, <2>2 DEF Penalty
<1>5. r \in Int /\ 0 <= r /\ r + p = escrow[e].amount
  <2>1. r = escrow[e].amount - p
    BY DEF Refund
  <2> HIDE DEF r, p
  <2>2. QED
    BY <1>1, <1>4, <2>1
<1>6. paid' = [paid EXCEPT ![e] = [paid[e] EXCEPT !.buyer = @ + r, !.penalty = @ + p]]
  BY DEF AcceptCancellation
<1>7. /\ escrow'[e].status = "Refunded"
      /\ \A f \in Ids : f # e => escrow'[f] = escrow[f]
  BY DEF AcceptCancellation, TypeOK, EscrowType, EscrowRecord
<1>8. UNCHANGED <<nextId, received, collateral>>
  BY DEF AcceptCancellation, releaseVars
<1>9. Owed(e) = escrow[e].amount + collateral[e] /\ Owed(e)' = collateral[e]
  BY <1>1, <1>2, <1>7, <1>8, KindsOfStatus DEF Owed
<1> HIDE DEF p, r
<1>10. /\ paid'[e].buyer = paid[e].buyer + r /\ paid'[e].penalty = paid[e].penalty + p
       /\ paid'[e].seller = paid[e].seller /\ paid'[e].arbiter = paid[e].arbiter
       /\ paid'[e].fee = paid[e].fee
       /\ \A f \in Ids : f # e => paid'[f] = paid[f]
  BY <1>6 DEF TypeOK, MoneyType, PaidRecord
<1>11. /\ paid[e].buyer \in Int /\ paid[e].seller \in Int /\ paid[e].arbiter \in Int
       /\ paid[e].fee \in Int /\ paid[e].penalty \in Int
  BY PaidFields DEF TypeOK
<1>12. NotLess(e)
  BY <1>4, <1>5, <1>10, <1>11 DEF NotLess
<1>13. TotalPaid(e)' = TotalPaid(e) + escrow[e].amount
  BY <1>1, <1>4, <1>5, <1>10, <1>11 DEF TotalPaid
<1>14. /\ received'[e] - TotalPaid(e)' - Owed(e)' = received[e] - TotalPaid(e) - Owed(e)
       /\ collateral'[e] <= collateral[e]
  BY <1>1, <1>8, <1>9, <1>13
<1>15. Moves(e)
  BY <1>2, <1>7, <1>12, <1>14, KindsOfStatus DEF Moves
<1>16. QED
  BY <1>7, <1>8, <1>10, <1>15 DEF MovesOnly, Kept

LEMMA CancellationNextShaped ==
  ASSUME TypeOK, NothingNegative, Records, CancellationNext
  PROVE  Shaped /\ Records'
<1>1. PICK e \in Created :
        \/ \E caller \in Addr : RequestCancellation(e, caller)
        \/ \E caller \in Addr : AcceptCancellation(e, caller)
        \/ \E caller \in Addr : RejectCancellation(e, caller)
        \/ AcceptExpiredCancellation(e)
        \/ ExpireCancellation(e)
  BY DEF CancellationNext
<1>2. e \in Ids
  BY CreatedIds DEF TypeOK
<1>3. ASSUME NEW caller \in Addr, RequestCancellation(e, caller)
      PROVE  Shaped /\ UNCHANGED <<amendment, verdict>>
  <2>1. /\ Rewrite(e, WithStatus(e, "CancellationPending")) /\ UNCHANGED amendment
        /\ escrow[e].status \in Live \ Frozen
    BY <1>3, KindsOfStatus DEF RequestCancellation
  <2>2. Shaped
    BY <1>2, <2>1, WithStatusFields, RewriteMoves, KindsOfStatus
  <2>3. QED
    BY <2>1, <2>2, RewriteFrame
<1>4. ASSUME NEW caller \in Addr, AcceptCancellation(e, caller)
      PROVE  Shaped /\ UNCHANGED <<amendment, verdict>>
  BY <1>2, <1>4, AcceptCancellationMoves DEF Shaped, AcceptCancellation, disputeVars
<1>5. ASSUME \/ \E caller \in Addr : RejectCancellation(e, caller)
             \/ AcceptExpiredCancellation(e)
             \/ ExpireCancellation(e)
      PROVE  Shaped /\ UNCHANGED <<amendment, verdict>>
  BY <1>2, <1>5, ReopenShaped
     DEF RejectCancellation, AcceptExpiredCancellation, ExpireCancellation
<1>6. QED
  BY <1>1, <1>3, <1>4, <1>5, RecordsFrame

-----------------------------------------------------------------------------
(* Amendments and top-ups.                                                  *)

(* What is added to the amount comes in, what is taken off it goes out.     *)
LEMMA AmendMoves ==
  ASSUME TypeOK, Funds, NothingNegative, Records, NEW e \in Ids,
         escrow[e].status # "None", Amend(e)
  PROVE  MovesOnly(e)
<1> DEFINE a == amendment[e].amount
           change == IF a = Unset THEN 0 ELSE a - escrow[e].amount
           in  == IF change > 0 THEN change ELSE 0
           out == IF change < 0 THEN -change ELSE 0
<1>1. /\ escrow[e] \in EscrowRecord /\ escrow[e].amount \in Int
      /\ collateral[e] \in Nat /\ received[e] \in Int /\ TotalPaid(e) \in Int
  BY PaidFields, OwedType DEF TypeOK, EscrowType
<1>2. escrow[e].status \in Live
  BY <1>1, RecordFields DEF Amend, Status
<1>3. escrow[e].amount > 0
  BY <1>2 DEF NothingNegative
<1>4. a \in Int /\ (a = Unset \/ a > 0)
  BY DEF TypeOK, AgreeType, Amendment, Records, Recorded, NoAmendment
<1>5. /\ change \in Int /\ escrow[e].amount + change > 0
  BY <1>1, <1>3, <1>4
<1>6. /\ escrow' = [escrow EXCEPT ![e] =
           [escrow[e] EXCEPT !.amount = @ + change, !.deadline =
              IF amendment[e].deadline = Unset THEN @ ELSE amendment[e].deadline]]
      /\ received' = [received EXCEPT ![e] = @ + in]
      /\ paid' = Pay(e, out, 0)
      /\ UNCHANGED <<nextId, collateral>>
  BY DEF Amend, releaseVars
<1> HIDE DEF change
<1>7. /\ in \in Int /\ out \in Int /\ out >= 0 /\ 0 \in Int /\ 0 >= 0
      /\ in - out = change
  BY <1>5
<1> HIDE DEF in, out
<1>8. /\ escrow'[e].status = escrow[e].status
      /\ escrow'[e].amount = escrow[e].amount + change
      /\ \A f \in Ids : f # e => escrow'[f] = escrow[f]
  BY <1>1, <1>6 DEF TypeOK, EscrowType, EscrowRecord
<1>9. /\ received'[e] = received[e] + in
      /\ \A f \in Ids : f # e => received'[f] = received[f]
  BY <1>6 DEF TypeOK, MoneyType
<1>10. /\ TotalPaid(e)' = TotalPaid(e) + out + 0 /\ NotLess(e)
       /\ \A f \in Ids : f # e => paid'[f] = paid[f]
  BY <1>6, <1>7, PaidOut DEF TypeOK
<1>11. /\ Owed(e) = escrow[e].amount + collateral[e]
       /\ Owed(e)' = escrow[e].amount + change + collateral[e]
  BY <1>2, <1>6, <1>8 DEF Owed
<1>12. received'[e] - TotalPaid(e)' - Owed(e)' = received[e] - TotalPaid(e) - Owed(e)
  BY <1>1, <1>5, <1>7, <1>9, <1>10, <1>11
<1>13. escrow'[e].status = "AwaitingCollateral" => collateral'[e] = 0
  BY <1>6, <1>8 DEF Funds, Untouched
<1>14. Moves(e)
  BY <1>2, <1>5, <1>8, <1>10, <1>12, <1>13, KindsOfStatus DEF Moves
<1>15. QED
  BY <1>6, <1>8, <1>9, <1>10, <1>14 DEF MovesOnly, Kept

(* Carried out or not, a proposal left behind is one that was there.        *)
LEMMA AmendRecords ==
  ASSUME TypeOK, Records, NEW e \in Ids, Amend(e)
  PROVE  Records'
BY DEF Amend, disputeVars, Records, Recorded, TypeOK, AgreeType

LEMMA SignAmendmentShaped ==
  ASSUME TypeOK, Funds, NothingNegative, Records, NEW e \in Ids,
         escrow[e].status # "None", NEW caller \in Addr, NEW n,
         SignAmendment(e, caller, n)
  PROVE  Shaped /\ Records'
<1> DEFINE signed == amendment[e].signed
                \cup {IF caller = escrow[e].buyer THEN "buyer" ELSE "seller"}
<1>1. CASE signed = {"buyer", "seller"} /\ Amend(e)
  BY <1>1, AmendMoves, AmendRecords DEF Shaped
<1>2. CASE ~(signed = {"buyer", "seller"} /\ Amend(e))
  <2>1. /\ amendment' = [amendment EXCEPT ![e].signed = signed]
        /\ UNCHANGED <<nextId, escrow, collateral, received, paid, verdict>>
        /\ amendment[e] # NoAmendment
    BY <1>2 DEF SignAmendment, Pending, escrowVars, releaseVars, moneyVars, disputeVars
  <2> HIDE DEF signed
  <2>2. amendment'[e].amount = amendment[e].amount
    BY <2>1 DEF TypeOK, AgreeType, Amendment
  <2>3. \A f \in Ids : f # e => amendment'[f] = amendment[f]
    BY <2>1 DEF TypeOK, AgreeType
  <2>4. Records'
    BY <2>1, <2>2, <2>3 DEF Records, Recorded
  <2>5. QED
    BY <2>1, <2>4, QuietFrame DEF Shaped
<1>3. QED
  BY <1>1, <1>2

LEMMA TopUpMoves ==
  ASSUME TypeOK, Funds, NothingNegative, NEW e \in Ids, NEW x \in Int, TopUpEscrow(e, x)
  PROVE  MovesOnly(e)
<1>1. /\ escrow[e].amount \in Int /\ collateral[e] \in Nat /\ received[e] \in Int
      /\ TotalPaid(e) \in Int
  BY PaidFields, OwedType DEF TypeOK
<1>2. escrow[e].status \in Live \ (Frozen \cup {"AwaitingCollateral"}) /\ x > 0
  BY KindsOfStatus DEF TopUpEscrow
<1>3. escrow[e].amount > 0
  BY <1>2 DEF NothingNegative
<1>4. /\ escrow'[e].status = escrow[e].status /\ escrow'[e].amount = escrow[e].amount + x
      /\ \A f \in Ids : f # e => escrow'[f] = escrow[f]
  BY DEF TopUpEscrow, TypeOK, EscrowType, EscrowRecord
<1>5. /\ received'[e] = received[e] + x
      /\ \A f \in Ids : f # e => received'[f] = received[f]
      /\ UNCHANGED <<nextId, collateral, paid>>
  BY DEF TopUpEscrow, TypeOK, MoneyType, releaseVars
<1>6. /\ Owed(e) = escrow[e].amount + collateral[e]
      /\ Owed(e)' = escrow[e].amount + x + collateral[e]
      /\ TotalPaid(e)' = TotalPaid(e)
  BY <1>2, <1>4, <1>5 DEF Owed, TotalPaid
<1>7. received'[e] - TotalPaid(e)' - Owed(e)' = received[e] - TotalPaid(e) - Owed(e)
  BY <1>1, <1>5, <1>6
<1>8. NotLess(e) /\ escrow'[e].amount > 0
  BY <1>1, <1>2, <1>3, <1>4, <1>5, PaidFields DEF TypeOK, NotLess
<1>9. Moves(e)
  BY <1>2, <1>4, <1>7, <1>8, KindsOfStatus DEF Moves
<1>10. QED
  BY <1>4, <1>5, <1>9 DEF MovesOnly, Kept

LEMMA AmendmentNextShaped ==
  ASSUME TypeOK, Funds, NothingNegative, Records, AmendmentNext
  PROVE  Shaped /\ Records'
<1>1. PICK e \in Created :
        \/ \E caller \in Addr, d \in Times : ProposeDeadlineExtension(e, caller, d)
        \/ \E caller \in Addr : AcceptDeadlineExtension(e, caller)
        \/ \E caller \in Addr, x \in Amounts \cup {Unset}, d \in Times \cup {Unset} :
             ProposeAmendment(e, caller, x, d)
        \/ \E caller \in Addr, n \in 0 .. MaxRounds : SignAmendment(e, caller, n)
        \/ \E n \in 0 .. MaxRounds : ApplyAmendment(e, n)
        \/ \E x \in Amounts : TopUpEscrow(e, x)
        \/ AcknowledgeTopup(e)
  BY DEF AmendmentNext
<1>2. /\ e \in Ids /\ escrow[e] \in EscrowRecord
      /\ escrow[e].status # "None"
  <2>1. e \in Ids /\ e < nextId
    BY <1>1, CreatedIds DEF TypeOK, Created
  <2>2. QED
    BY <2>1 DEF TypeOK, EscrowType, Funds, Untouched
<1>3. ASSUME NEW caller \in Addr, NEW d \in Times, ProposeDeadlineExtension(e, caller, d)
      PROVE  Shaped /\ Records'
  <2>1. UNCHANGED <<nextId, escrow, collateral, received, paid, amendment, verdict>>
    BY <1>3 DEF ProposeDeadlineExtension, escrowVars, releaseVars, moneyVars, disputeVars
  <2>2. QED
    BY <2>1, QuietFrame, RecordsFrame DEF Shaped
<1>4. ASSUME \/ \E caller \in Addr : AcceptDeadlineExtension(e, caller)
             \/ AcknowledgeTopup(e)
      PROVE  Shaped /\ Records'
  <2>1. /\ \/ Rewrite(e, [escrow[e] EXCEPT !.deadline = extension[e].deadline])
           \/ Rewrite(e, [escrow[e] EXCEPT !.acknowledged = TRUE])
        /\ UNCHANGED amendment
    BY <1>4 DEF AcceptDeadlineExtension, AcknowledgeTopup, agreeVars
  <2>2. /\ [escrow[e] EXCEPT !.deadline = extension[e].deadline].amount = escrow[e].amount
        /\ [escrow[e] EXCEPT !.deadline = extension[e].deadline].status = escrow[e].status
        /\ [escrow[e] EXCEPT !.acknowledged = TRUE].amount = escrow[e].amount
        /\ [escrow[e] EXCEPT !.acknowledged = TRUE].status = escrow[e].status
    BY <1>2 DEF EscrowRecord
  <2>3. PICK r : /\ Rewrite(e, r)
                 /\ r.amount = escrow[e].amount /\ r.status = escrow[e].status
    BY <2>1, <2>2
  <2>4. Quiet /\ UNCHANGED verdict
    BY <1>2, <2>3, RewriteFrame, RecordQuiet
  <2>5. QED
    BY <2>1, <2>4, RecordsFrame DEF Shaped
<1>5. ASSUME NEW caller \in Addr, NEW x \in Amounts \cup {Unset},
             NEW d \in Times \cup {Unset}, ProposeAmendment(e, caller, x, d)
      PROVE  Shaped /\ Records'
  <2>1. UNCHANGED <<nextId, escrow, collateral, received, paid, verdict>>
    BY <1>5 DEF ProposeAmendment, escrowVars, releaseVars, moneyVars, disputeVars
  <2>2. /\ amendment'[e].amount = x
        /\ \A f \in Ids : f # e => amendment'[f] = amendment[f]
    BY <1>2, <1>5 DEF ProposeAmendment, TypeOK, AgreeType
  <2>3. x = Unset \/ x > 0
    BY <1>5 DEF ProposeAmendment
  <2>4. Records'
    BY <2>1, <2>2, <2>3 DEF Records, Recorded
  <2>5. QED
    BY <2>1, <2>4, QuietFrame DEF Shaped
<1>6. ASSUME NEW caller \in Addr, NEW n \in 0 .. MaxRounds, SignAmendment(e, caller, n)
      PROVE  Shaped /\ Records'
  BY <1>2, <1>6, SignAmendmentShaped
<1>7. ASSUME NEW n \in 0 .. MaxRounds, ApplyAmendment(e, n)
      PROVE  Shaped /\ Records'
  BY <1>2, <1>7, AmendMoves, AmendRecords DEF ApplyAmendment, Shaped
<1>8. ASSUME NEW x \in Amounts, TopUpEscrow(e, x)
      PROVE  Shaped /\ Records'
  <2>1. MovesOnly(e)
    BY <1>2, <1>8, TopUpMoves, InputAssumption
  <2>2. UNCHANGED <<amendment, verdict>>
    BY <1>8 DEF TopUpEscrow, agreeVars, disputeVars
  <2>3. QED
    BY <1>2, <2>1, <2>2, RecordsFrame DEF Shaped
<1>9. QED
  BY <1>1, <1>3, <1>4, <1>5, <1>6, <1>7, <1>8

-----------------------------------------------------------------------------
(* Vetoes, changes of party, inspection, and the admin.                     *)

LEMMA VetoNextShaped ==
  ASSUME Records, VetoNext
  PROVE  Shaped /\ Records'
<1>1. UNCHANGED <<nextId, escrow, collateral, received, paid, amendment, verdict>>
  BY DEF VetoNext, RaiseSellerVeto, AdminOverrideVeto, StampVeto, SetVetoCooldownSeconds,
         ConfigSet, escrowVars, releaseVars, moneyVars, disputeVars, agreeVars
<1>2. QED
  BY <1>1, QuietFrame, RecordsFrame DEF Shaped

LEMMA PartyNextShaped ==
  ASSUME TypeOK, NothingNegative, Records, PartyNext
  PROVE  Shaped /\ Records'
<1>1. PICK e \in Created :
        \/ \E newBuyer \in Addr : TransferBuyerRole(e, newBuyer)
        \/ \E newSeller \in Addr : TransferSellerRole(e, newSeller)
        \/ ApproveSellerTransfer(e)
        \/ ExpireSellerTransferVeto(e)
        \/ VetoSellerTransfer(e)
  BY DEF PartyNext
<1>2. e \in Ids /\ escrow[e] \in EscrowRecord /\ escrow[e].amount \in Int
  BY CreatedIds, OwedType DEF TypeOK, EscrowType
<1>3. ASSUME NEW newBuyer \in Addr, TransferBuyerRole(e, newBuyer)
      PROVE  Shaped /\ UNCHANGED <<amendment, verdict>>
  <2>1. /\ Rewrite(e, [escrow[e] EXCEPT !.buyer = newBuyer]) /\ UNCHANGED amendment
    BY <1>3 DEF TransferBuyerRole, agreeVars
  <2>2. /\ [escrow[e] EXCEPT !.buyer = newBuyer].amount = escrow[e].amount
        /\ [escrow[e] EXCEPT !.buyer = newBuyer].status = escrow[e].status
    BY <1>2 DEF EscrowRecord
  <2>3. QED
    BY <1>2, <2>1, <2>2, RewriteFrame, RecordQuiet DEF Shaped
<1>4. ASSUME NEW newSeller \in Addr, TransferSellerRole(e, newSeller)
      PROVE  Shaped /\ UNCHANGED <<amendment, verdict>>
  <2>1. /\ Rewrite(e, WithStatus(e, "AwaitingBuyerVetoDecision")) /\ UNCHANGED amendment
        /\ escrow[e].status \in Live \ Frozen
    BY <1>4, KindsOfStatus DEF TransferSellerRole
  <2>2. Shaped
    BY <1>2, <2>1, WithStatusFields, RewriteMoves, KindsOfStatus
  <2>3. QED
    BY <2>1, <2>2, RewriteFrame
<1>5. ASSUME ApproveSellerTransfer(e) \/ ExpireSellerTransferVeto(e)
      PROVE  Shaped /\ UNCHANGED <<amendment, verdict>>
  <2> DEFINE r == [escrow[e] EXCEPT !.status = "Active", !.seller = transfer[e].newSeller]
  <2>1. /\ Rewrite(e, r) /\ UNCHANGED amendment /\ escrow[e].status \in Live \ Frozen
    BY <1>5, KindsOfStatus
       DEF ApproveSellerTransfer, ExpireSellerTransferVeto, ConcludeSellerTransfer,
           agreeVars
  <2>2. r.amount = escrow[e].amount /\ r.status = "Active"
    BY <1>2 DEF EscrowRecord
  <2> HIDE DEF r
  <2>3. Shaped
    BY <1>2, <2>1, <2>2, RewriteMoves, KindsOfStatus
  <2>4. QED
    BY <2>1, <2>3, RewriteFrame
<1>6. ASSUME VetoSellerTransfer(e)
      PROVE  Shaped /\ UNCHANGED <<amendment, verdict>>
  <2>1. escrow[e].status \in Live /\ Settle(e, "Refunded", escrow[e].amount, 0)
    BY <1>6, KindsOfStatus DEF VetoSellerTransfer
  <2>2. /\ escrow[e].amount + 0 = escrow[e].amount /\ escrow[e].amount >= 0
        /\ 0 \in Int /\ 0 >= 0
    BY <1>2, <2>1 DEF NothingNegative
  <2>3. MovesOnly(e)
    BY <1>2, <2>1, <2>2, SettleMoves, KindsOfStatus
  <2>4. QED
    BY <1>2, <1>6, <2>3 DEF Shaped, VetoSellerTransfer, agreeVars, disputeVars
<1>7. QED
  BY <1>1, <1>3, <1>4, <1>5, <1>6, RecordsFrame

LEMMA ReplaceInspectorShaped ==
  ASSUME TypeOK, NothingNegative, NEW e \in Ids, NEW caller, NEW insp,
         ReplaceInspector(e, caller, insp)
  PROVE  Shaped /\ UNCHANGED <<amendment, verdict>>
<1> DEFINE status == IF escrow[e].status \in {"AwaitingInspection", "InspectionFailed"}
                     THEN "Active" ELSE escrow[e].status
           r == [escrow[e] EXCEPT !.inspector = insp, !.status = status]
<1>1. r.amount = escrow[e].amount /\ r.status = status
  BY DEF TypeOK, EscrowType, EscrowRecord
<1>2. UNCHANGED amendment
  BY DEF ReplaceInspector, agreeVars
<1>3. \/ Rewrite(e, r)
      \/ UNCHANGED <<nextId, escrow, collateral, received, paid, verdict>>
  BY DEF ReplaceInspector, escrowVars, releaseVars, disputeVars, moneyVars
<1> HIDE DEF r
<1>4. CASE Rewrite(e, r) /\ status = escrow[e].status
  BY <1>1, <1>2, <1>4, RewriteFrame, RecordQuiet DEF Shaped
<1>5. CASE Rewrite(e, r) /\ status # escrow[e].status
  <2>1. status = "Active" /\ escrow[e].status \in Live \ Frozen
    BY <1>5, KindsOfStatus
  <2>2. Shaped
    BY <1>1, <1>5, <2>1, RewriteMoves, KindsOfStatus
  <2>3. QED
    BY <1>2, <1>5, <2>2, RewriteFrame
<1>6. CASE UNCHANGED <<nextId, escrow, collateral, received, paid, verdict>>
  BY <1>2, <1>6, QuietFrame DEF Shaped
<1>7. QED
  BY <1>3, <1>4, <1>5, <1>6

LEMMA InspectionNextShaped ==
  ASSUME TypeOK, NothingNegative, Records, InspectionNext
  PROVE  Shaped /\ Records'
<1>1. PICK e \in Created :
        \/ SellerMarkComplete(e)
        \/ \E approved \in BOOLEAN : SubmitInspectionReport(e, approved)
        \/ \E caller, insp \in Addr : ReplaceInspector(e, caller, insp)
        \/ AppealInspectorRuling(e)
  BY DEF InspectionNext
<1>2. e \in Ids
  BY CreatedIds DEF TypeOK
<1>3. ASSUME \/ SellerMarkComplete(e)
             \/ \E approved \in BOOLEAN : SubmitInspectionReport(e, approved)
      PROVE  Shaped /\ UNCHANGED <<amendment, verdict>>
  <2>1. PICK status \in {"AwaitingInspection", "InspectionPassed", "InspectionFailed"} :
          Rewrite(e, WithStatus(e, status))
    BY <1>3 DEF SellerMarkComplete, SubmitInspectionReport
  <2>2. UNCHANGED amendment /\ escrow[e].status \in Live \ Frozen
    BY <1>3, KindsOfStatus DEF SellerMarkComplete, SubmitInspectionReport, agreeVars
  <2>3. Shaped
    BY <1>2, <2>1, <2>2, WithStatusFields, RewriteMoves, KindsOfStatus
  <2>4. QED
    BY <2>1, <2>2, <2>3, RewriteFrame
<1>4. ASSUME NEW caller \in Addr, NEW insp \in Addr, ReplaceInspector(e, caller, insp)
      PROVE  Shaped /\ UNCHANGED <<amendment, verdict>>
  BY <1>2, <1>4, ReplaceInspectorShaped
<1>5. ASSUME AppealInspectorRuling(e)
      PROVE  Shaped /\ UNCHANGED <<amendment, verdict>>
  BY <1>5, QuietFrame DEF AppealInspectorRuling, Shaped, escrowVars, releaseVars,
                          moneyVars, disputeVars, agreeVars
<1>6. QED
  BY <1>1, <1>3, <1>4, <1>5, RecordsFrame

LEMMA AdminNextShaped ==
  ASSUME Records, AdminNext
  PROVE  Shaped /\ Records'
<1>1. UNCHANGED <<nextId, escrow, collateral, received, paid, amendment, verdict>>
  BY DEF AdminNext, SetResolutionCooloff, UpdateDefaultDisputeTimeout,
         SetDefaultDisputeWinner, ConfigSet, WithdrawFees, PauseContract, ResumeContract,
         escrowVars, releaseVars, moneyVars, disputeVars, agreeVars
<1>2. QED
  BY <1>1, QuietFrame, RecordsFrame DEF Shaped

LEMMA TickShaped ==
  ASSUME Records, Tick \/ UNCHANGED vars
  PROVE  Shaped /\ Records'
<1>1. UNCHANGED <<nextId, escrow, collateral, received, paid, amendment, verdict>>
  BY DEF Tick, vars, clockVars, escrowVars, releaseVars, moneyVars, disputeVars, agreeVars
<1>2. QED
  BY <1>1, QuietFrame, RecordsFrame DEF Shaped

-----------------------------------------------------------------------------
(* The invariant and what follows from it.                                  *)

LEMMA StepShaped ==
  ASSUME MoneyInv, [Next]_vars
  PROVE  Shaped /\ Records'
BY CreationShaped, ReleaseNextShaped, RenewalNextShaped, ConditionNextShaped,
   DisputeNextShaped, CancellationNextShaped, AmendmentNextShaped, VetoNextShaped,
   PartyNextShaped, InspectionNextShaped, AdminNextShaped, TickShaped
   DEF MoneyInv, Next

LEMMA InitMoney == InitBase => MoneyInv
<1> SUFFICES ASSUME InitBase
             PROVE  MoneyInv
  OBVIOUS
<1>1. TypeOK
  BY InitType
<1>2. Records
  BY DEF InitBase, Records, Recorded
<1>3. \A e \in Ids : /\ escrow[e] = NoEscrow /\ received[e] = 0 /\ collateral[e] = 0
                    /\ paid[e] = NothingPaid /\ ~(e < nextId)
  BY BoundsAssumption DEF InitBase, Ids
<1>4. "None" \notin Live /\ NoEscrow.status = "None"
  BY KindsOfStatus DEF NoEscrow
<1>5. Funds
  BY <1>3, <1>4 DEF Funds, Untouched
<1>6. Backed
  <2>1. \A e \in Ids : TotalPaid(e) = 0 /\ Owed(e) = 0
    BY <1>3, <1>4 DEF TotalPaid, Owed, NothingPaid
  <2>2. QED
    BY <1>3, <2>1 DEF Backed
<1>7. NothingNegative
  BY <1>3, <1>4 DEF NothingNegative, NothingPaid
<1>8. QED
  BY <1>1, <1>2, <1>5, <1>6, <1>7 DEF MoneyInv

LEMMA StepMoney ==
  ASSUME MoneyInv, [Next]_vars
  PROVE  MoneyInv'
<1>1. TypeOK'
  BY StepType DEF MoneyInv
<1>2. Shaped /\ Records'
  BY StepShaped
<1>3. Funds'
  BY <1>1, <1>2, ShapedFunds DEF MoneyInv
<1>4. Backed'
  BY <1>1, <1>2, ShapedBacked DEF MoneyInv
<1>5. NothingNegative'
  BY <1>1, <1>2, ShapedNothingNegative DEF MoneyInv
<1>6. QED
  BY <1>1, <1>2, <1>3, <1>4, <1>5 DEF MoneyInv

LEMMA MoneyCorrect == Spec => []MoneyInv
<1>1. InitBase => MoneyInv
  BY InitMoney
<1>2. MoneyInv /\ [Next]_vars => MoneyInv'
  BY StepMoney
<1>3. QED
  BY <1>1, <1>2, PTL DEF Spec

(* Every escrow is backed by its own deposits, whatever is called, by whom, *)
(* in whatever order, for any amounts and settings: the contract can always *)
(* pay what it owes the parties of an escrow without touching another one.  *)
THEOREM BackedAlways == Spec => []Backed
<1>1. MoneyInv => Backed
  BY DEF MoneyInv
<1>2. QED
  BY <1>1, MoneyCorrect, PTL

(* An escrow that has not ended holds a positive amount, and no recipient   *)
(* is ever paid a negative one: fees, forfeits, penalties and splits never  *)
(* take more than there is.                                                 *)
THEOREM NothingNegativeAlways == Spec => []NothingNegative
<1>1. MoneyInv => NothingNegative
  BY DEF MoneyInv
<1>2. QED
  BY <1>1, MoneyCorrect, PTL

(* An escrow that has ended stays ended: none of the entry points pays from *)
(* it, pays into it, or gives it another status again.                      *)
THEOREM TerminalStaysFinal == Spec => TerminalIsFinal
<1> DEFINE Final == \A e \in Ids : escrow[e].status \in Terminal =>
                      /\ escrow'[e].status = escrow[e].status
                      /\ paid'[e] = paid[e] /\ received'[e] = received[e]
<1>1. MoneyInv /\ [Next]_vars => [Final]_vars
  <2>1. SUFFICES ASSUME MoneyInv, [Next]_vars
                 PROVE  Final
    OBVIOUS
  <2>2. Shaped
    BY <2>1, StepShaped
  <2>3. QED
    BY <2>1, <2>2, ShapedFinal DEF MoneyInv
<1>2. QED
  BY <1>1, MoneyCorrect, PTL DEF Spec, TerminalIsFinal

-----------------------------------------------------------------------------
(* The contract implements EscrowCustody.                                   *)

LEMMA PurseFunctions ==
  /\ Phases = [f \in Ids |-> Phases[f]] /\ Phases' = [f \in Ids |-> Phases'[f]]
  /\ Purses = [f \in Ids |-> Purses[f]] /\ Purses' = [f \in Ids |-> Purses'[f]]
BY DEF Phases, Phase, Purses, TotalPaid

LEMMA PurseValues ==
  ASSUME NEW e \in Ids
  PROVE  /\ Purses[e] = received[e] - TotalPaid(e)
         /\ Purses'[e] = received'[e] - TotalPaid(e)'
BY DEF Purses, TotalPaid

LEMMA KeptPurse ==
  ASSUME NEW f \in Ids, Kept(f)
  PROVE  Phases'[f] = Phases[f] /\ Purses'[f] = Purses[f]
BY DEF Kept, Phases, Phase, Purses, TotalPaid

LEMMA OnePurse ==
  ASSUME NEW e \in Ids, \A f \in Ids : f # e => Kept(f)
  PROVE  /\ Phases' = [Phases EXCEPT ![e] = Phases'[e]]
         /\ Purses' = [Purses EXCEPT ![e] = Purses'[e]]
<1>1. \A f \in Ids : f # e => Phases'[f] = Phases[f] /\ Purses'[f] = Purses[f]
  BY KeptPurse
<1>2. QED
  BY <1>1, PurseFunctions

(* The phase of a purse, and what is in it: exactly what is owed.           *)
LEMMA PurseIs ==
  ASSUME MoneyInv, NEW e \in Ids
  PROVE  /\ Purses[e] = Owed(e) /\ Purses[e] \in Int
         /\ escrow[e].status = "None" => Phases[e] = "unborn"
         /\ escrow[e].status \in Terminal => Phases[e] = "ended"
         /\ escrow[e].status \in Frozen => Phases[e] = "frozen"
         /\ escrow[e].status \in Live \ Frozen => Phases[e] = "open"
         /\ escrow[e].status \in Live => Purses[e] > collateral[e]
         /\ escrow[e].status \notin Live => Purses[e] = collateral[e]
         /\ collateral[e] \in Nat
<1>1. Purses[e] = Owed(e) /\ Owed(e) \in Int /\ collateral[e] \in Nat
      /\ escrow[e].amount \in Int
  BY OwedType, PurseValues DEF MoneyInv, Backed
<1>2. /\ escrow[e].status = "None" => Phases[e] = "unborn"
      /\ escrow[e].status \in Terminal => Phases[e] = "ended"
      /\ escrow[e].status \in Frozen => Phases[e] = "frozen"
      /\ escrow[e].status \in Live \ Frozen => Phases[e] = "open"
  BY KindsOfStatus DEF Phases, Phase
<1>3. escrow[e].status \in Live => Owed(e) > collateral[e]
  BY <1>1 DEF MoneyInv, NothingNegative, Owed
<1>4. escrow[e].status \notin Live => Owed(e) = collateral[e]
  BY <1>1 DEF Owed
<1>5. QED
  BY <1>1, <1>2, <1>3, <1>4

LEMMA PurseIsNext ==
  ASSUME MoneyInv', NEW e \in Ids
  PROVE  /\ Purses'[e] = Owed(e)' /\ Purses'[e] \in Int
         /\ escrow'[e].status = "None" => Phases'[e] = "unborn"
         /\ escrow'[e].status \in Terminal => Phases'[e] = "ended"
         /\ escrow'[e].status \in Frozen => Phases'[e] = "frozen"
         /\ escrow'[e].status \in Live \ Frozen => Phases'[e] = "open"
         /\ escrow'[e].status \in Live => Purses'[e] > collateral'[e]
         /\ escrow'[e].status \notin Live => Purses'[e] = collateral'[e]
         /\ collateral'[e] \in Nat
<1>1. Purses'[e] = Owed(e)' /\ Owed(e)' \in Int /\ collateral'[e] \in Nat
      /\ escrow'[e].amount \in Int
  BY OwedTypeNext, PurseValues DEF MoneyInv, Backed
<1>2. /\ escrow'[e].status = "None" => Phases'[e] = "unborn"
      /\ escrow'[e].status \in Terminal => Phases'[e] = "ended"
      /\ escrow'[e].status \in Frozen => Phases'[e] = "frozen"
      /\ escrow'[e].status \in Live \ Frozen => Phases'[e] = "open"
  BY KindsOfStatus DEF Phases, Phase
<1>3. escrow'[e].status \in Live => Owed(e)' > collateral'[e]
  BY <1>1 DEF MoneyInv, NothingNegative, Owed
<1>4. escrow'[e].status \notin Live => Owed(e)' = collateral'[e]
  BY <1>1 DEF Owed
<1>5. QED
  BY <1>1, <1>2, <1>3, <1>4

LEMMA QuietCustody ==
  ASSUME Quiet
  PROVE  UNCHANGED Custody!custodyVars
<1>1. \A f \in Ids : Phases'[f] = Phases[f] /\ Purses'[f] = Purses[f]
  BY KeptPurse DEF Quiet
<1>2. Phases' = Phases /\ Purses' = Purses
  BY <1>1, PurseFunctions
<1>3. QED
  BY <1>2 DEF Custody!custodyVars

(* A call on one escrow ends its purse, freezes it, or moves tokens into or *)
(* out of it.                                                               *)
LEMMA MovesCustody ==
  ASSUME MoneyInv, MoneyInv', NEW e \in Ids, MovesOnly(e)
  PROVE  Custody!CustodyNext \/ UNCHANGED Custody!custodyVars
<1>1. /\ Phases' = [Phases EXCEPT ![e] = Phases'[e]]
      /\ Purses' = [Purses EXCEPT ![e] = Purses'[e]]
  BY OnePurse DEF MovesOnly
<1>2. /\ Purses[e] \in Int /\ Purses'[e] \in Int
      /\ Purses[e] > collateral[e] /\ collateral[e] \in Nat /\ collateral'[e] \in Nat
      /\ Phases[e] = (IF escrow[e].status \in Frozen THEN "frozen" ELSE "open")
  BY PurseIs, PurseIsNext, KindsOfStatus DEF MovesOnly, Moves
<1>3. CASE escrow'[e].status \in Terminal
  <2>1. Purses'[e] = collateral'[e] /\ Phases'[e] = "ended"
    BY <1>3, PurseIsNext, KindsOfStatus
  <2>2. 0 <= Purses'[e] /\ Purses'[e] < Purses[e]
    BY <1>2, <1>3, <2>1 DEF MovesOnly, Moves
  <2>3. Custody!End(e)
    BY <1>1, <1>2, <2>1, <2>2 DEF Custody!End, Custody!Become
  <2>4. QED
    BY <2>3 DEF Custody!CustodyNext
<1>4. CASE escrow'[e].status \in Live
  <2>1. Purses'[e] > 0
    BY <1>2, <1>4, PurseIsNext
  <2>2. CASE Phases'[e] = Phases[e]
    <3>1. CASE Purses'[e] > Purses[e]
      <4>1. Custody!Deposit(e)
        BY <1>1, <1>2, <2>2, <3>1 DEF Custody!Deposit, Custody!Become
      <4>2. QED
        BY <4>1 DEF Custody!CustodyNext
    <3>2. CASE Purses'[e] < Purses[e]
      <4>1. Custody!PayOut(e)
        BY <1>1, <1>2, <2>1, <2>2, <3>2 DEF Custody!PayOut, Custody!Become
      <4>2. QED
        BY <4>1 DEF Custody!CustodyNext
    <3>3. CASE Purses'[e] = Purses[e]
      BY <1>1, <2>2, <3>3, PurseFunctions DEF Custody!custodyVars
    <3>4. QED
      BY <1>2, <3>1, <3>2, <3>3
  <2>3. CASE Phases'[e] # Phases[e]
    <3>1. Phases[e] = "open" /\ Phases'[e] = "frozen"
      BY <1>2, <1>4, <2>3, PurseIsNext, KindsOfStatus DEF MovesOnly, Moves
    <3>2. escrow[e].status \notin Frozen /\ escrow'[e].status \in Frozen
      BY <1>2, <1>4, <3>1, PurseIsNext
    <3>3. Purses'[e] <= Purses[e]
      BY <3>2, PurseIs, PurseIsNext DEF MovesOnly, Moves
    <3>4. Custody!Freeze(e)
      BY <1>1, <2>1, <3>1, <3>3 DEF Custody!Freeze, Custody!Become
    <3>5. QED
      BY <3>4 DEF Custody!CustodyNext
  <2>4. QED
    BY <2>2, <2>3
<1>5. QED
  BY <1>3, <1>4 DEF MovesOnly, Moves

LEMMA BornCustody ==
  ASSUME MoneyInv, MoneyInv', BornOnly(nextId)
  PROVE  Custody!CustodyNext
<1>1. nextId \in Ids /\ escrow[nextId].status = "None"
      /\ escrow'[nextId].status \in Live \ Frozen
  BY BornBacked DEF MoneyInv, BornOnly, Born
<1>2. /\ Phases' = [Phases EXCEPT ![nextId] = Phases'[nextId]]
      /\ Purses' = [Purses EXCEPT ![nextId] = Purses'[nextId]]
  BY <1>1, OnePurse DEF BornOnly
<1>3. Phases[nextId] = "unborn" /\ Phases'[nextId] = "open" /\ Purses'[nextId] > 0
  BY <1>1, PurseIs, PurseIsNext
<1>4. Custody!Fund(nextId)
  BY <1>2, <1>3 DEF Custody!Fund, Custody!Become
<1>5. QED
  BY <1>1, <1>4 DEF Custody!CustodyNext

LEMMA RenewedCustody ==
  ASSUME MoneyInv, MoneyInv', NEW e \in Ids, Renewed(e, nextId)
  PROVE  Custody!CustodyNext
<1>1. /\ nextId \in Ids /\ escrow[nextId].status = "None" /\ e # nextId
      /\ escrow'[nextId].status \in Live \ Frozen
      /\ escrow[e].status \in Live \ Frozen /\ escrow'[e].status \in Terminal
      /\ collateral'[e] = 0
  BY BornBacked DEF MoneyInv, Renewed, Born, Moves
<1>2. \A f \in Ids : f \notin {e, nextId} => Phases'[f] = Phases[f] /\ Purses'[f] = Purses[f]
  BY KeptPurse DEF Renewed
<1>3. /\ Phases[e] = "open" /\ Phases'[e] = "ended" /\ Purses'[e] = 0
      /\ Phases[nextId] = "unborn" /\ Phases'[nextId] = "open" /\ Purses'[nextId] > 0
  BY <1>1, PurseIs, PurseIsNext, KindsOfStatus
<1>4. /\ Phases' = [Phases EXCEPT ![e] = "ended", ![nextId] = "open"]
      /\ Purses' = [Purses EXCEPT ![e] = 0, ![nextId] = Purses'[nextId]]
  BY <1>1, <1>2, <1>3, PurseFunctions
<1>5. Custody!RenewPurse(e, nextId)
  BY <1>3, <1>4 DEF Custody!RenewPurse
<1>6. QED
  BY <1>1, <1>5 DEF Custody!CustodyNext

(* The contract is a custodian: every call of every entry point funds,      *)
(* freezes, pays out of or ends one purse, or ends one and funds its        *)
(* successor, the way EscrowCustody allows, or leaves all of them alone.    *)
THEOREM ContractImplementsCustody == Spec => ImplementsCustody
<1>1. InitBase => Custody!CustodyInit
  <2> SUFFICES ASSUME InitBase
               PROVE  Custody!CustodyInit
    OBVIOUS
  <2>1. MoneyInv
    BY InitMoney
  <2>2. \A e \in Ids : escrow[e].status = "None" /\ collateral[e] = 0
    BY DEF InitBase, NoEscrow
  <2>3. \A e \in Ids : Phases[e] = "unborn" /\ Purses[e] = 0
    BY <2>1, <2>2, PurseIs, KindsOfStatus
  <2>4. Phases = [e \in Ids |-> "unborn"] /\ Purses = [e \in Ids |-> 0]
    BY <2>3, PurseFunctions
  <2>5. QED
    BY <2>4 DEF Custody!CustodyInit
<1>2. MoneyInv /\ [Next]_vars => [Custody!CustodyNext]_(Custody!custodyVars)
  <2> SUFFICES ASSUME MoneyInv, [Next]_vars
               PROVE  Custody!CustodyNext \/ UNCHANGED Custody!custodyVars
    OBVIOUS
  <2>1. MoneyInv' /\ Shaped
    BY StepMoney, StepShaped
  <2>2. QED
    BY <2>1, QuietCustody, MovesCustody, BornCustody, RenewedCustody DEF Shaped
<1>3. QED
  BY <1>1, <1>2, MoneyCorrect, PTL DEF Spec, ImplementsCustody, Custody!CustodySpec

=============================================================================
