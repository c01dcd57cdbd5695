--------------------------- MODULE EscrowRecordProofs ---------------------------
(***************************************************************************)
(* What is on file about an escrow, for every value of the constants: an   *)
(* escrow that waits for somebody has the record its ways out read, a      *)
(* dispute freezes it, a verdict under a cooling-off window is carried out *)
(* as recorded, refunds have grounds, the seller waits, an amendment is    *)
(* carried out once, and the fees of a verdict stay within their caps.     *)
(*                                                                         *)
(* All of them are consequences of one law for each step and each escrow,  *)
(* Law(f).  An escrow a step does not touch obeys it (SameLaw); for the    *)
(* escrow a call is made on it is shown entry point by entry point.        *)
(*                                                                         *)
(* The second half is about the records that name each other: the chains   *)
(* of renewals.                                                            *)
(***************************************************************************)
EXTENDS EscrowMoneyProofs

(* The strengthening that makes WaitingIsRecorded inductive: an open        *)
(* dispute and a frozen status go together, in cooling-off too, and a       *)
(* pending proposal carries a nonce that is used up.                        *)
Waits(e) ==
  /\ escrow[e].status \in Frozen <=> dispute[e].state = "Open"
  /\ escrow[e].status \in InDispute => disputeStart[e] # Never
  /\ escrow[e].status = "CoolingOff" <=> verdict[e] # NoVerdict
  /\ escrow[e].status = "CancellationPending" <=> cancellation[e] # NoRequest
  /\ escrow[e].status = "CancellationPending" => cancellation[e].initiator \in Party(e)
  /\ escrow[e].status = "AwaitingBuyerVetoDecision" => transfer[e] # NoTransfer
  /\ escrow[e].status = "AwaitingInspection" => escrow[e].inspector # NoAddr
  /\ nonce[e] > amendment[e].nonce

Files == \A e \in Ids : Waits(e)

(* Nobody has been paid a fee out of an escrow that has not ended, and what *)
(* was charged at its end is within the caps.                               *)
Charged(e) ==
  /\ escrow[e].status \notin Terminal => paid[e].arbiter = 0 /\ paid[e].fee = 0
  /\ paid[e].arbiter * 10 <= received[e] /\ paid[e].fee * 50 <= received[e]

RecordInv == MoneyInv /\ Files /\ \A e \in Ids : Charged(e)

-----------------------------------------------------------------------------
(* The law of a step.                                                       *)

Freezes(f) ==
  escrow[f].status \in Frozen =>
    /\ escrow'[f].status \in Frozen \/
       (escrow'[f].status \in Terminal /\ dispute'[f].state = "Resolved")
    /\ paid'[f] # paid[f] /\ escrow'[f].status \in Frozen =>
         amendment[f] # NoAmendment /\ amendment'[f] = NoAmendment

CoolsOff(f) ==
  escrow[f].status = "CoolingOff" /\ escrow'[f].status # "CoolingOff" =>
    /\ now > CoolingOffUntil(f)
    /\ ~flagged[f] /\ ~paused
    /\ escrow'[f].status = VerdictStatus(verdict[f].percent)

Grounds(f) ==
  paid'[f].buyer > paid[f].buyer =>
    \/ escrow[f].status \in Frozen /\ dispute'[f].state = "Resolved"
    \/ /\ escrow[f].status = "CancellationPending"
       /\ now <= cancellation[f].expiresAt
    \/ escrow[f].status \in Open /\ now > escrow[f].deadline
    \/ amendment[f] # NoAmendment /\ amendment'[f] = NoAmendment
    \/ escrow[f].status = "AwaitingBuyerVetoDecision"

SellerStays(f) ==
  paid'[f].seller > paid[f].seller =>
    escrow[f].status \notin {"AwaitingCollateral", "CancellationPending",
                            "AwaitingBuyerVetoDecision", "AwaitingInspection",
                            "InspectionFailed"}

Amends(f) ==
  /\ escrow'[f].status = escrow[f].status
  /\ escrow[f].status \in Live \ (Open \cup {"AwaitingInspection"})
  /\ escrow'[f].amount # escrow[f].amount
  => /\ escrow'[f].amount = amendment[f].amount
     /\ amendment'[f] = NoAmendment /\ nonce[f] > amendment[f].nonce

(* Fees are paid by a verdict only, in the step that ends the escrow.       *)
SameFees(f) == paid'[f].arbiter = paid[f].arbiter /\ paid'[f].fee = paid[f].fee

ChargesOnce(f) ==
  \/ SameFees(f)
  \/ /\ escrow[f].status \in Frozen /\ escrow'[f].status \in Terminal
     /\ paid'[f].arbiter = paid[f].arbiter + ArbiterFee(f)
     /\ paid'[f].fee = paid[f].fee + ProtocolFee(f)
     /\ received'[f] = received[f]

Law(f) ==
  /\ Waits(f)'
  /\ Freezes(f) /\ CoolsOff(f) /\ Grounds(f) /\ SellerStays(f) /\ Amends(f)
  /\ ChargesOnce(f)

Lawful == \A f \in Ids : Law(f)

(* What is on file about f stays, and all that the law reads of it does.    *)
SameFiles(f) ==
  /\ dispute'[f] = dispute[f] /\ disputeStart'[f] = disputeStart[f]
  /\ verdict'[f] = verdict[f] /\ cancellation'[f] = cancellation[f]
  /\ transfer'[f] = transfer[f]
  /\ amendment'[f] = amendment[f] /\ nonce'[f] = nonce[f]

Same(f) == SameFiles(f) /\ escrow'[f] = escrow[f] /\ paid'[f] = paid[f]

Others(e) == \A f \in Ids : f # e => Same(f)

-----------------------------------------------------------------------------
(* Steps that keep the law.                                                 *)

LEMMA FilesFrame ==
  ASSUME UNCHANGED <<disputeVars, agreeVars>>
  PROVE  \A f \in Ids : SameFiles(f)
BY DEF disputeVars, agreeVars, SameFiles

(* No token moves out of f, and no frozen escrow thaws.                     *)
LEMMA UnpaidLaw ==
  ASSUME TypeOK, NEW f \in Ids, Waits(f)', paid'[f] = paid[f],
         escrow[f].status \in Frozen => escrow'[f].status \in Frozen,
         escrow[f].status = "CoolingOff" => escrow'[f].status = "CoolingOff",
         escrow'[f].status = escrow[f].status
           /\ escrow[f].status \notin Open \cup {"AwaitingInspection"} =>
             escrow'[f].amount = escrow[f].amount
  PROVE  Law(f)
<1>1. paid[f].buyer \in Int /\ paid[f].seller \in Int
  BY PaidFields DEF TypeOK
<1>2. ~(paid'[f].buyer > paid[f].buyer) /\ ~(paid'[f].seller > paid[f].seller)
  BY <1>1
<1>3. Freezes(f) /\ CoolsOff(f) /\ Amends(f) /\ ChargesOnce(f)
  BY DEF Freezes, CoolsOff, Amends, ChargesOnce, SameFees
<1>4. Grounds(f) /\ SellerStays(f)
  BY <1>2 DEF Grounds, SellerStays
<1>5. QED
  BY <1>3, <1>4 DEF Law

(* An open escrow pays its seller.                                          *)
LEMMA OpenPaysLaw ==
  ASSUME TypeOK, NEW f \in Ids, Waits(f)', escrow[f].status \in Open,
         paid'[f].buyer = paid[f].buyer, SameFees(f)
  PROVE  Law(f)
<1>1. ~(paid'[f].buyer > paid[f].buyer)
  BY PaidFields DEF TypeOK
<1>2. /\ escrow[f].status \notin Frozen /\ escrow[f].status # "CoolingOff"
      /\ escrow[f].status \notin {"AwaitingCollateral", "CancellationPending",
                            "AwaitingBuyerVetoDecision", "AwaitingInspection",
                            "InspectionFailed"}
  BY DEF Open, Frozen, InDispute
<1>3. QED
  BY <1>1, <1>2 DEF Law, Freezes, CoolsOff, Grounds, SellerStays, Amends, ChargesOnce

LEMMA SameLaw ==
  ASSUME TypeOK, NEW f \in Ids, Waits(f), Same(f)
  PROVE  Law(f)
<1>1. Waits(f)'
  BY DEF Waits, Same, SameFiles, Party
<1>2. QED
  BY <1>1, UnpaidLaw DEF Same

LEMMA OneLawful ==
  ASSUME TypeOK, Files, NEW e \in Ids, Law(e), Others(e)
  PROVE  Lawful
BY SameLaw DEF Lawful, Others, Files

LEMMA SameLawful ==
  ASSUME TypeOK, Files, UNCHANGED <<escrow, paid>>, UNCHANGED <<disputeVars, agreeVars>>
  PROVE  Lawful
BY FilesFrame, SameLaw DEF Same, Lawful, Files

(* A status that asks for no record, or for one that is there.              *)
Calm(status) == status \notin Frozen \cup {"CancellationPending"}

LEMMA CalmWaits ==
  ASSUME NEW f \in Ids, Waits(f), SameFiles(f),
         Calm(escrow[f].status), Calm(escrow'[f].status),
         escrow'[f].status = "AwaitingBuyerVetoDecision" => transfer[f] # NoTransfer,
         escrow'[f].status = "AwaitingInspection" => escrow'[f].inspector # NoAddr
  PROVE  Waits(f)'
BY KindsOfStatus DEF Waits, SameFiles, Calm, Frozen

LEMMA CalmKinds ==
  /\ \A s \in Open \cup Terminal : Calm(s) /\ s \notin {"AwaitingBuyerVetoDecision",
                                                       "AwaitingInspection"}
  /\ \A s \in {"None", "AwaitingCollateral", "AwaitingBuyerVetoDecision",
               "AwaitingInspection", "InspectionFailed", "Active",
               "InspectionPassed", "PartiallyReleased"} : Calm(s)
  /\ {"Active", "InspectionPassed", "PartiallyReleased"} = Open
BY DEF Calm, Open, Terminal, Frozen, InDispute

(* The fields of the ledger after Pay.                                      *)
LEMMA PaidTo ==
  ASSUME MoneyType, NEW e \in Ids, NEW b \in Int, NEW s \in Int, paid' = Pay(e, b, s)
  PROVE  /\ paid'[e].buyer = paid[e].buyer + b /\ paid'[e].seller = paid[e].seller + s
         /\ SameFees(e)
         /\ \A f \in Ids : f # e => paid'[f] = paid[f]
<1>1. /\ paid'[e] = [paid[e] EXCEPT !.buyer = paid[e].buyer + b,
                                   !.seller = paid[e].seller + s]
      /\ \A f \in Ids : f # e => paid'[f] = paid[f]
  BY DEF Pay, MoneyType
<1>2. QED
  BY <1>1 DEF MoneyType, PaidRecord, SameFees

-----------------------------------------------------------------------------
(* Creation and release.                                                    *)

(* A new escrow begins in a status that asks for no record, under an id     *)
(* nothing is on file about.                                                *)
LEMMA BornWaits ==
  ASSUME Funds, Files, NEW q \in Ids, q >= nextId, SameFiles(q),
         escrow'[q].status \in {"Active", "AwaitingCollateral"}
  PROVE  Waits(q)'
<1>1. escrow[q].status = "None"
  BY DEF Funds, Untouched
<1>2. Calm(escrow[q].status) /\ Calm(escrow'[q].status)
  BY <1>1, CalmKinds
<1>3. QED
  BY <1>2, CalmWaits DEF Files

LEMMA StoreLawful ==
  ASSUME TypeOK, Funds, Files, NEW r, NEW status \in {"Active", "AwaitingCollateral"},
         Store(r, status)
  PROVE  Lawful
<1>1. PICK q \in Ids : q = nextId /\ q >= nextId
  BY CreatedIds DEF Store, TypeOK
<1>2. /\ escrow'[q].status = status
      /\ \A f \in Ids : f # q => escrow'[f] = escrow[f]
  BY <1>1 DEF Store, TypeOK, EscrowType
<1>3. UNCHANGED <<disputeVars, agreeVars>> /\ paid' = paid
  BY DEF Store
<1>4. Others(q) /\ SameFiles(q)
  BY <1>2, <1>3, FilesFrame DEF Others, Same
<1>5. Waits(q)'
  BY <1>1, <1>2, <1>4, BornWaits
<1>6. escrow[q].status = "None"
  BY <1>1 DEF Funds, Untouched
<1>7. Law(q)
  BY <1>2, <1>3, <1>5, <1>6, UnpaidLaw, KindsOfStatus DEF Frozen, InDispute
<1>8. QED
  BY <1>4, <1>7, OneLawful

LEMMA CreationLawful ==
  ASSUME TypeOK, Funds, Files, CreationNext
  PROVE  Lawful
<1>1. PICK r \in Requests : Creation(r)
  BY DEF CreationNext
<1>2. Store(r, "Active") \/ Store(r, "AwaitingCollateral")
  BY <1>1 DEF Creation, CreateEscrow, CreateEscrowWithInspector, CreateCore,
              CreateMultiSellerEscrow, CreateMultiBuyerEscrow
<1>3. QED
  BY <1>2, StoreLawful

(* An open escrow that ends or stays open, and has paid its seller only.    *)
LEMMA OpenLaw ==
  ASSUME TypeOK, NEW e \in Ids, Waits(e), SameFiles(e), escrow[e].status \in Open,
         escrow'[e].status \in Open \cup Terminal,
         paid'[e].buyer = paid[e].buyer, SameFees(e)
  PROVE  Law(e)
<1>1. Waits(e)'
  BY CalmWaits, CalmKinds
<1>2. QED
  BY <1>1, OpenPaysLaw

(* Settle on an escrow that is not frozen: what is paid to the buyers needs *)
(* its grounds.                                                             *)
LEMMA SettleAt ==
  ASSUME TypeOK, NEW e \in Ids, NEW status, NEW b \in Int, NEW s \in Int,
         Settle(e, status, b, s)
  PROVE  /\ escrow'[e].status = status
         /\ \A f \in Ids : f # e => escrow'[f] = escrow[f] /\ paid'[f] = paid[f]
         /\ paid'[e].buyer = paid[e].buyer + b /\ paid'[e].seller = paid[e].seller + s
         /\ SameFees(e)
<1>1. /\ escrow'[e].status = status
      /\ \A f \in Ids : f # e => escrow'[f] = escrow[f]
      /\ paid' = Pay(e, b, s)
  BY DEF Settle, TypeOK, EscrowType, EscrowRecord
<1>2. QED
  BY <1>1, PaidTo DEF TypeOK

(* The release itself, and the successor a renewal creates.                 *)
LEMMA ReleaseEscrowLawful ==
  ASSUME TypeOK, Funds, Files, NEW e \in Ids, NEW caller, ReleaseEscrow(e, caller)
  PROVE  Lawful
<1> DEFINE timers == TouchedBy(e, caller)
<1>1. /\ escrow[e] \in EscrowRecord /\ escrow[e].amount \in Int
      /\ collateral[e] \in Nat /\ escrow[e].amount + collateral[e] \in Int /\ 0 \in Int
  BY OwedType DEF TypeOK, EscrowType
<1>2. /\ paid' = Pay(e, 0, escrow[e].amount + collateral[e])
      /\ UNCHANGED <<disputeVars, agreeVars>> /\ escrow[e].status \in Open
  BY DEF ReleaseEscrow
<1>3. /\ paid'[e].buyer = paid[e].buyer + 0 /\ SameFees(e)
      /\ \A f \in Ids : f # e => paid'[f] = paid[f]
  BY <1>1, <1>2, PaidTo DEF TypeOK
<1>4. paid'[e].buyer = paid[e].buyer
  BY <1>3, PaidFields DEF TypeOK
<1>5. \A f \in Ids : SameFiles(f)
  BY <1>2, FilesFrame
<1>6. ASSUME escrow'[e].status = "Released"
      PROVE  Law(e)
  BY <1>2, <1>3, <1>4, <1>5, <1>6, OpenLaw, KindsOfStatus DEF Files
<1>7. CASE ReleaseOnly(e, timers)
  <2>1. /\ escrow'[e].status = "Released"
        /\ \A f \in Ids : f # e => escrow'[f] = escrow[f]
    BY <1>1, <1>7 DEF ReleaseOnly, Released, TypeOK, EscrowType, EscrowRecord
  <2>2. QED
    BY <1>3, <1>5, <1>6, <2>1, OneLawful DEF Others, Same
<1>8. ASSUME NEW deadline, NEW remaining, NEW completed,
             Renew(e, Successor(e, deadline, remaining, completed), timers)
      PROVE  Lawful
  <2>1. PICK q \in Ids : q = nextId /\ q >= nextId
    BY <1>8, CreatedIds DEF Renew, TypeOK
  <2>2. escrow[q].status = "None" /\ e # q
    BY <1>2, <2>1, KindsOfStatus DEF Funds, Untouched
  <2>3. Successor(e, deadline, remaining, completed).status = "Active"
    BY <1>1 DEF Successor, EscrowRecord
  <2>4. /\ escrow'[e].status = "Released" /\ escrow'[q].status = "Active"
        /\ \A f \in Ids : f \notin {e, q} => escrow'[f] = escrow[f]
    BY <1>1, <1>8, <2>1, <2>2, <2>3 DEF Renew, Released, TypeOK, EscrowType, EscrowRecord
  <2>5. Law(q)
    BY <1>3, <1>5, <2>1, <2>2, <2>4, BornWaits, UnpaidLaw, KindsOfStatus
       DEF Frozen, InDispute
  <2>6. \A f \in Ids : f \notin {e, q} => Law(f)
    BY <1>3, <1>5, <2>4, SameLaw DEF Same, Files
  <2>7. QED
    BY <1>6, <2>4, <2>5, <2>6 DEF Lawful
<1>9. CASE RenewConfigured(e, timers)
  BY <1>8, <1>9 DEF RenewConfigured
<1>10. CASE RenewLegacy(e, timers)
  BY <1>8, <1>10 DEF RenewLegacy
<1>11. QED
  BY <1>7, <1>9, <1>10 DEF ReleaseEscrow

(* A settlement from an open escrow, which pays its buyers only when the    *)
(* deadline is over.                                                        *)
LEMMA SettleOpenLawful ==
  ASSUME TypeOK, Files, NEW e \in Ids, escrow[e].status \in Open,
         UNCHANGED <<disputeVars, agreeVars>>,
         \/ Settle(e, "Released", 0, escrow[e].amount)
         \/ now > escrow[e].deadline /\ Settle(e, "Refunded", escrow[e].amount, 0)
  PROVE  Lawful
<1>1. escrow[e].amount \in Int /\ 0 \in Int /\ Waits(e)
  BY OwedType DEF Files
<1>2. PICK status \in Terminal :
        /\ escrow'[e].status = status
        /\ \A f \in Ids : f # e => escrow'[f] = escrow[f] /\ paid'[f] = paid[f]
        /\ SameFees(e)
        /\ \/ paid'[e].buyer = paid[e].buyer + 0
           \/ now > escrow[e].deadline /\ paid'[e].seller = paid[e].seller + 0
  BY <1>1, SettleAt, KindsOfStatus
<1>3. \A f \in Ids : SameFiles(f)
  BY FilesFrame
<1>4. Others(e)
  BY <1>2, <1>3 DEF Others, Same
<1>5. Waits(e)'
  BY <1>1, <1>2, <1>3, CalmWaits, CalmKinds
<1>6. paid[e].buyer \in Int /\ paid[e].seller \in Int
  BY PaidFields DEF TypeOK
<1>7. CASE paid'[e].buyer = paid[e].buyer + 0
  <2>1. paid'[e].buyer = paid[e].buyer
    BY <1>6, <1>7
  <2>2. QED
    BY <1>2, <1>4, <1>5, <2>1, OpenPaysLaw, OneLawful
<1>8. CASE now > escrow[e].deadline /\ paid'[e].seller = paid[e].seller + 0
  <2>1. ~(paid'[e].seller > paid[e].seller)
    BY <1>6, <1>8
  <2>2. escrow[e].status \notin Frozen /\ escrow[e].status # "CoolingOff"
    BY KindsOfStatus
  <2>3. Freezes(e) /\ CoolsOff(e) /\ Grounds(e) /\ SellerStays(e) /\ Amends(e)
    BY <1>8, <2>1, <2>2 DEF Freezes, CoolsOff, Grounds, SellerStays, Amends
  <2>4. Law(e)
    BY <1>2, <1>5, <2>3 DEF Law, ChargesOnce
  <2>5. QED
    BY <1>4, <2>4, OneLawful
<1>9. QED
  BY <1>2, <1>7, <1>8

LEMMA ReleaseNextLawful ==
  ASSUME TypeOK, Funds, Files, ReleaseNext
  PROVE  Lawful
<1>1. PICK e \in Created :
        \/ DepositCollateral(e)
        \/ \E caller \in Addr : ApproveMultiBuyerRelease(e, caller)
        \/ \E caller \in Addr : ReleaseEscrow(e, caller)
        \/ \E caller \in Addr, x \in Amounts : PartialRelease(e, caller, x)
        \/ AutoReleaseExpired(e)
        \/ ClaimInactivityRelease(e)
        \/ CheckAndReleaseEscrow(e)
  BY DEF ReleaseNext
<1>2. e \in Ids /\ Waits(e) /\ escrow[e] \in EscrowRecord
  BY CreatedIds DEF TypeOK, Files, EscrowType
<1>3. ASSUME DepositCollateral(e)
      PROVE  Lawful
  <2>1. /\ escrow'[e].status = "Active" /\ escrow[e].status = "AwaitingCollateral"
        /\ \A f \in Ids : f # e => escrow'[f] = escrow[f]
        /\ paid' = paid /\ UNCHANGED <<disputeVars, agreeVars>>
    BY <1>2, <1>3 DEF DepositCollateral, TypeOK, EscrowType, EscrowRecord
  <2>2. Others(e) /\ SameFiles(e)
    BY <1>2, <2>1, FilesFrame DEF Others, Same
  <2>3. Waits(e)'
    BY <1>2, <2>1, <2>2, CalmWaits, CalmKinds
  <2>4. Law(e)
    BY <1>2, <2>1, <2>3, UnpaidLaw, KindsOfStatus
  <2>5. QED
    BY <1>2, <2>2, <2>4, OneLawful
<1>4. ASSUME NEW caller \in Addr, ApproveMultiBuyerRelease(e, caller)
      PROVE  Lawful
  BY <1>4, SameLawful DEF ApproveMultiBuyerRelease, moneyVars
<1>5. ASSUME NEW caller \in Addr, ReleaseEscrow(e, caller)
      PROVE  Lawful
  BY <1>2, <1>5, ReleaseEscrowLawful
<1>6. ASSUME NEW caller \in Addr, NEW x \in Amounts, PartialRelease(e, caller, x)
      PROVE  Lawful
  <2>1. /\ escrow'[e].status \in {"Released", "PartiallyReleased"}
        /\ \A f \in Ids : f # e => escrow'[f] = escrow[f]
    BY <1>2, <1>6 DEF PartialRelease, Holding, TypeOK, EscrowType, EscrowRecord
  <2>2. /\ paid' = Pay(e, 0, x) /\ UNCHANGED <<disputeVars, agreeVars>>
        /\ x \in Int /\ 0 \in Int /\ escrow[e].status \in Open
    BY <1>6, InputAssumption DEF PartialRelease
  <2>3. /\ paid'[e].buyer = paid[e].buyer + 0 /\ SameFees(e)
        /\ \A f \in Ids : f # e => paid'[f] = paid[f]
    BY <1>2, <2>2, PaidTo DEF TypeOK
  <2>4. paid'[e].buyer = paid[e].buyer
    BY <1>2, <2>3, PaidFields DEF TypeOK
  <2>5. Others(e) /\ SameFiles(e)
    BY <1>2, <2>1, <2>2, <2>3, FilesFrame DEF Others, Same
  <2>6. escrow'[e].status \in Open \cup Terminal
    BY <2>1 DEF Open, Terminal
  <2>7. QED
    BY <1>2, <2>2, <2>3, <2>4, <2>5, <2>6, OpenLaw, OneLawful
<1>7. ASSUME \/ AutoReleaseExpired(e)
             \/ ClaimInactivityRelease(e)
             \/ CheckAndReleaseEscrow(e)
      PROVE  Lawful
  BY <1>2, <1>7, SettleOpenLawful
     DEF AutoReleaseExpired, ClaimInactivityRelease, CheckAndReleaseEscrow
<1>8. QED
  BY <1>1, <1>3, <1>4, <1>5, <1>6, <1>7

-----------------------------------------------------------------------------
(* Renewal settings, release conditions, receipts.                          *)

(* The record of e is rewritten, its status and all the law reads kept.     *)
LEMMA RewrittenLawful ==
  ASSUME TypeOK, Files, NEW e \in Ids, NEW r,
         escrow' = [escrow EXCEPT ![e] = r], paid' = paid,
         UNCHANGED <<disputeVars, agreeVars>>,
         r.amount = escrow[e].amount, r.status = escrow[e].status,
         r.buyer = escrow[e].buyer, r.seller = escrow[e].seller,
         r.inspector = escrow[e].inspector
  PROVE  Lawful
<1>1. escrow'[e] = r /\ \A f \in Ids : f # e => escrow'[f] = escrow[f]
  BY DEF TypeOK, EscrowType
<1>2. \A f \in Ids : SameFiles(f)
  BY FilesFrame
<1>3. Waits(e)'
  BY <1>1, <1>2 DEF Waits, SameFiles, Party, Files
<1>4. Law(e)
  BY <1>1, <1>3, UnpaidLaw
<1>5. QED
  BY <1>1, <1>2, <1>4, OneLawful DEF Others, Same

LEMMA RenewalNextLawful ==
  ASSUME TypeOK, Files, RenewalNext
  PROVE  Lawful
<1>1. PICK e \in Created :
        \/ \E n \in 0 .. MaxEscrows : SetRenewalAllowance(e, n)
        \/ CancelAutoRenew(e)
        \/ CancelAutoRenewal(e)
  BY DEF RenewalNext
<1>2. e \in Ids /\ escrow[e] \in EscrowRecord
  BY CreatedIds DEF TypeOK, EscrowType
<1>3. ASSUME (\E n \in 0 .. MaxEscrows : SetRenewalAllowance(e, n)) \/ CancelAutoRenewal(e)
      PROVE  Lawful
  BY <1>3, SameLawful DEF SetRenewalAllowance, CancelAutoRenewal, escrowVars, moneyVars
<1>4. ASSUME CancelAutoRenew(e)
      PROVE  Lawful
  <2> DEFINE r == [escrow[e] EXCEPT !.autoRenew = FALSE, !.renewalsRemaining = 0]
  <2>1. /\ escrow' = [escrow EXCEPT ![e] = r] /\ paid' = paid
        /\ UNCHANGED <<disputeVars, agreeVars>>
    BY <1>4 DEF CancelAutoRenew, moneyVars
  <2>2. /\ r.amount = escrow[e].amount /\ r.status = escrow[e].status
        /\ r.buyer = escrow[e].buyer /\ r.seller = escrow[e].seller
        /\ r.inspector = escrow[e].inspector
    BY <1>2 DEF EscrowRecord
  <2> HIDE DEF r
  <2>3. QED
    BY <1>2, <2>1, <2>2, RewrittenLawful
<1>5. QED
  BY <1>1, <1>3, <1>4

LEMMA ConditionNextLawful ==
  ASSUME TypeOK, Funds, Files, ConditionNext
  PROVE  Lawful
<1>1. PICK e \in Created :
        \/ SetConditionalRelease(e)
        \/ \E caller \in Addr : TriggerConditionalRelease(e, caller)
        \/ \E caller \in Addr : WaiveReleaseCondition(e, caller)
        \/ \E holder \in Addr : TransferEscrowReceipt(e, holder)
        \/ \E caller \in Addr : UpdateMetadata(e, caller)
  BY DEF ConditionNext
<1>2. e \in Ids
  BY CreatedIds DEF TypeOK
<1>3. ASSUME NEW caller \in Addr, TriggerConditionalRelease(e, caller)
      PROVE  Lawful
  BY <1>2, <1>3, ReleaseEscrowLawful DEF TriggerConditionalRelease
<1>4. ASSUME \/ SetConditionalRelease(e)
             \/ \E caller \in Addr : WaiveReleaseCondition(e, caller)
             \/ \E holder \in Addr : TransferEscrowReceipt(e, holder)
             \/ \E caller \in Addr : UpdateMetadata(e, caller)
      PROVE  Lawful
  BY <1>4, SameLawful DEF SetConditionalRelease, WaiveReleaseCondition,
     TransferEscrowReceipt, UpdateMetadata, escrowVars, moneyVars
<1>5. QED
  BY <1>1, <1>3, <1>4

-----------------------------------------------------------------------------
(* Disputes and verdicts.                                                   *)

LEMMA DisputeEscrowLawful ==
  ASSUME TypeOK, Files, NEW e \in Ids, NEW caller, NEW x \in Int,
         DisputeEscrow(e, caller, x)
  PROVE  Lawful
<1>1. /\ escrow[e] \in EscrowRecord /\ escrow[e].amount - x \in Int /\ 0 \in Int
      /\ escrow[e].status \in Open /\ Waits(e) /\ now \in Nat
  BY OwedType DEF TypeOK, EscrowType, Files, DisputeEscrow, ClockType
<1>2. /\ escrow'[e].status \in InDispute
      /\ \A f \in Ids : f # e => escrow'[f] = escrow[f]
  BY <1>1 DEF DisputeEscrow, Holding, TypeOK, EscrowType, EscrowRecord, InDispute
<1>3. paid' = Pay(e, 0, escrow[e].amount - x) /\ UNCHANGED <<verdict, agreeVars>>
  BY DEF DisputeEscrow
<1>4. /\ paid'[e].buyer = paid[e].buyer + 0 /\ SameFees(e)
      /\ \A f \in Ids : f # e => paid'[f] = paid[f]
  BY <1>1, <1>3, PaidTo DEF TypeOK
<1>5. paid'[e].buyer = paid[e].buyer
  BY <1>4, PaidFields DEF TypeOK
<1>6. /\ dispute'[e].state = "Open" /\ disputeStart'[e] = now
      /\ \A f \in Ids : f # e =>
           dispute'[f] = dispute[f] /\ disputeStart'[f] = disputeStart[f]
  BY DEF DisputeEscrow, TypeOK, DisputeType
<1>7. Others(e)
  BY <1>2, <1>3, <1>4, <1>6 DEF Others, Same, SameFiles, agreeVars
<1>8. Waits(e)'
  <2>1. /\ escrow'[e].status \in Frozen /\ disputeStart'[e] # Never
        /\ verdict'[e] = NoVerdict /\ cancellation'[e] = NoRequest
        /\ nonce'[e] > amendment'[e].nonce
    BY <1>1, <1>2, <1>3, <1>6, KindsOfStatus DEF Waits, agreeVars, Never, Open, Frozen
  <2>2. escrow'[e].status \notin {"CoolingOff", "CancellationPending",
                                 "AwaitingBuyerVetoDecision", "AwaitingInspection"}
    BY <1>2 DEF InDispute
  <2>3. QED
    BY <1>2, <1>6, <2>1, <2>2 DEF Waits
<1>9. Law(e)
  BY <1>1, <1>4, <1>5, <1>8, OpenPaysLaw
<1>10. QED
  BY <1>7, <1>9, OneLawful

(* What executing a verdict does to the escrow, and to its dispute.         *)
LEMMA VerdictAt ==
  ASSUME TypeOK, NEW e \in Ids, NEW percent, ExecuteVerdict(e, percent)
  PROVE  /\ escrow'[e].status = VerdictStatus(percent)
         /\ escrow'[e].status \in Terminal
         /\ \A f \in Ids : f # e =>
              escrow'[f] = escrow[f] /\ paid'[f] = paid[f] /\ dispute'[f] = dispute[f]
         /\ dispute[e].state = "Open" => dispute'[e].state = "Resolved"
         /\ paid'[e].arbiter = paid[e].arbiter + ArbiterFee(e)
         /\ paid'[e].fee = paid[e].fee + ProtocolFee(e)
         /\ UNCHANGED <<disputeStart, agreeVars, received>>
<1>1. VerdictStatus(percent) \in Terminal
  BY KindsOfStatus DEF VerdictStatus
<1>2. /\ escrow'[e].status = VerdictStatus(percent)
      /\ \A f \in Ids : f # e => escrow'[f] = escrow[f]
  BY DEF ExecuteVerdict, TypeOK, EscrowType, EscrowRecord
<1>3. /\ \A f \in Ids : f # e => dispute'[f] = dispute[f]
      /\ dispute[e].state = "Open" => dispute'[e].state = "Resolved"
  BY DEF ExecuteVerdict, TypeOK, DisputeType, DisputeRecord
<1> DEFINE a == ArbiterFee(e)
           p == ProtocolFee(e)
           b == BuyerShare(e, percent) + Forfeit(e, percent)
           s == (Distributable(e) - BuyerShare(e, percent))
                  + (collateral[e] - Forfeit(e, percent))
<1>4. \E x, y : paid' = [paid EXCEPT ![e] = [paid[e] EXCEPT
        !.arbiter = @ + a, !.fee = @ + p, !.buyer = x, !.seller = y]]
  BY DEF ExecuteVerdict
<1> HIDE DEF a, p, b, s
<1>5. /\ paid'[e].arbiter = paid[e].arbiter + a /\ paid'[e].fee = paid[e].fee + p
      /\ \A f \in Ids : f # e => paid'[f] = paid[f]
  BY <1>4 DEF TypeOK, MoneyType, PaidRecord
<1>6. UNCHANGED <<disputeStart, agreeVars, received>>
  BY DEF ExecuteVerdict
<1>7. QED
  BY <1>1, <1>2, <1>3, <1>5, <1>6 DEF a, p

(* A verdict carried out at once, or when its window is over.               *)
LEMMA ExecuteVerdictLawful ==
  ASSUME TypeOK, Files, NEW e \in Ids, NEW percent, ExecuteVerdict(e, percent),
         escrow[e].status \in Frozen, verdict'[e] = NoVerdict,
         \A f \in Ids : f # e => verdict'[f] = verdict[f],
         escrow[e].status = "CoolingOff" =>
           /\ now > CoolingOffUntil(e) /\ ~flagged[e] /\ ~paused
           /\ percent = verdict[e].percent
  PROVE  Lawful
<1>1. Waits(e) /\ dispute[e].state = "Open"
  BY DEF Files, Waits
<1>2. /\ escrow'[e].status = VerdictStatus(percent) /\ escrow'[e].status \in Terminal
      /\ dispute'[e].state = "Resolved"
      /\ paid'[e].arbiter = paid[e].arbiter + ArbiterFee(e)
      /\ paid'[e].fee = paid[e].fee + ProtocolFee(e)
      /\ UNCHANGED <<disputeStart, agreeVars, received>>
      /\ \A f \in Ids : f # e =>
           escrow'[f] = escrow[f] /\ paid'[f] = paid[f] /\ dispute'[f] = dispute[f]
  BY <1>1, VerdictAt
<1>3. Others(e)
  BY <1>2 DEF Others, Same, SameFiles, agreeVars
<1>4. /\ escrow'[e].status \notin Frozen
      /\ escrow'[e].status \notin InDispute \cup {"CoolingOff", "CancellationPending",
                                 "AwaitingBuyerVetoDecision", "AwaitingInspection"}
  BY <1>2 DEF Terminal, Frozen, InDispute
<1>5. cancellation'[e] = NoRequest /\ nonce'[e] > amendment'[e].nonce
  BY <1>1, <1>2 DEF Waits, agreeVars, Frozen, InDispute
<1>6. Waits(e)'
  BY <1>2, <1>4, <1>5 DEF Waits
<1>7. Freezes(e) /\ CoolsOff(e) /\ Grounds(e) /\ Amends(e)
  BY <1>2, <1>4 DEF Freezes, CoolsOff, Grounds, Amends
<1>8. SellerStays(e) /\ ChargesOnce(e)
  BY <1>2 DEF SellerStays, ChargesOnce, Frozen, InDispute
<1>9. QED
  BY <1>3, <1>6, <1>7, <1>8, OneLawful DEF Law

LEMMA RecordVerdictLawful ==
  ASSUME TypeOK, Files, NEW e \in Ids, NEW percent \in Nat, RecordVerdict(e, percent)
  PROVE  Lawful
<1>1. /\ escrow[e].status \in InDispute /\ Waits(e) /\ paid' = paid
      /\ UNCHANGED <<dispute, disputeStart, agreeVars>>
  BY DEF RecordVerdict, Files, moneyVars
<1>2. /\ escrow'[e].status = "CoolingOff" /\ escrow'[e].inspector = escrow[e].inspector
      /\ \A f \in Ids : f # e => escrow'[f] = escrow[f]
  BY DEF RecordVerdict, TypeOK, EscrowType, EscrowRecord
<1>3. /\ verdict'[e].percent = percent
      /\ \A f \in Ids : f # e => verdict'[f] = verdict[f]
  BY DEF RecordVerdict, TypeOK, DisputeType
<1>4. verdict'[e] # NoVerdict
  BY <1>3 DEF NoVerdict, Unset
<1>5. Others(e)
  BY <1>1, <1>2, <1>3 DEF Others, Same, SameFiles, agreeVars
<1>6. /\ escrow[e].status \in Frozen /\ escrow[e].status # "CoolingOff"
      /\ escrow[e].status # "CancellationPending"
  BY <1>1 DEF Frozen, InDispute
<1>7. /\ escrow'[e].status \in Frozen
      /\ escrow'[e].status \notin InDispute \cup {"CancellationPending",
                                 "AwaitingBuyerVetoDecision", "AwaitingInspection"}
  BY <1>2 DEF Frozen, InDispute
<1>8. Waits(e)'
  BY <1>1, <1>2, <1>4, <1>6, <1>7 DEF Waits, agreeVars
<1>9. Law(e)
  BY <1>1, <1>2, <1>6, <1>7, <1>8, UnpaidLaw
<1>10. QED
  BY <1>5, <1>9, OneLawful

(* The arbiter's silence ends the dispute for the default winner.           *)
LEMMA EnforceDisputeTimeoutLawful ==
  ASSUME TypeOK, Files, NEW e \in Ids, EnforceDisputeTimeout(e)
  PROVE  Lawful
<1>1. /\ escrow[e].status \in InDispute /\ Waits(e) /\ escrow[e].amount \in Int
      /\ 0 \in Int /\ UNCHANGED <<disputeStart, verdict, agreeVars>>
  BY OwedType DEF EnforceDisputeTimeout, Files
<1>2. \/ Settle(e, "Released", 0, escrow[e].amount)
      \/ Settle(e, "Refunded", escrow[e].amount, 0)
  BY DEF EnforceDisputeTimeout
<1>3. /\ escrow'[e].status \in Terminal /\ SameFees(e)
      /\ \A f \in Ids : f # e => escrow'[f] = escrow[f] /\ paid'[f] = paid[f]
  BY <1>1, <1>2, SettleAt, KindsOfStatus
<1>4. /\ dispute'[e].state = "Resolved"
      /\ \A f \in Ids : f # e => dispute'[f] = dispute[f]
  BY DEF EnforceDisputeTimeout, TypeOK, DisputeType, DisputeRecord
<1>5. Others(e)
  BY <1>1, <1>3, <1>4 DEF Others, Same, SameFiles, agreeVars
<1>6. /\ escrow[e].status \in Frozen /\ escrow[e].status # "CoolingOff"
      /\ escrow[e].status # "CancellationPending"
  BY <1>1 DEF Frozen, InDispute
<1>7. /\ escrow'[e].status \notin Frozen
      /\ escrow'[e].status \notin InDispute \cup {"CoolingOff", "CancellationPending",
                                 "AwaitingBuyerVetoDecision", "AwaitingInspection"}
  BY <1>3 DEF Terminal, Frozen, InDispute
<1>8. Waits(e)'
  BY <1>1, <1>4, <1>6, <1>7 DEF Waits, agreeVars
<1>9. Freezes(e) /\ CoolsOff(e) /\ Grounds(e) /\ Amends(e) /\ ChargesOnce(e)
  BY <1>3, <1>4, <1>6, <1>7 DEF Freezes, CoolsOff, Grounds, Amends, ChargesOnce
<1>10. SellerStays(e)
  BY <1>1 DEF SellerStays, InDispute
<1>11. QED
  BY <1>5, <1>8, <1>9, <1>10, OneLawful DEF Law

LEMMA DisputeNextLawful ==
  ASSUME TypeOK, Files, DisputeNext
  PROVE  Lawful
<1>1. PICK e \in Created :
        \/ \E caller \in Addr, x \in Amounts : DisputeEscrow(e, caller, x)
        \/ \E percent \in Percents : ResolveDispute(e, percent)
        \/ \E percent \in Percents : RecordVerdict(e, percent)
        \/ \E caller \in Addr : FlagResolutionError(e, caller)
        \/ FinalizeResolution(e)
        \/ ClearResolutionFlag(e)
        \/ EnforceDisputeTimeout(e)
  BY DEF DisputeNext
<1>2. e \in Ids /\ Waits(e)
  BY CreatedIds DEF TypeOK, Files
<1>3. ASSUME NEW caller \in Addr, NEW x \in Amounts, DisputeEscrow(e, caller, x)
      PROVE  Lawful
  BY <1>2, <1>3, DisputeEscrowLawful, InputAssumption
<1>4. ASSUME NEW percent \in Percents, ResolveDispute(e, percent)
      PROVE  Lawful
  <2>1. /\ escrow[e].status \in InDispute /\ UNCHANGED verdict
        /\ ExecuteVerdict(e, percent)
    BY <1>4 DEF ResolveDispute
  <2>2. /\ escrow[e].status \in Frozen /\ escrow[e].status # "CoolingOff"
        /\ verdict[e] = NoVerdict
    BY <1>2, <2>1 DEF Waits, Frozen, InDispute
  <2>3. QED
    BY <1>2, <2>1, <2>2, ExecuteVerdictLawful
<1>5. ASSUME NEW percent \in Percents, RecordVerdict(e, percent)
      PROVE  Lawful
  BY <1>2, <1>5, RecordVerdictLawful, InputAssumption
<1>6. ASSUME \/ \E caller \in Addr : FlagResolutionError(e, caller)
             \/ ClearResolutionFlag(e)
      PROVE  Lawful
  <2>1. UNCHANGED <<escrow, paid, dispute, disputeStart, verdict, agreeVars>>
    BY <1>6 DEF FlagResolutionError, ClearResolutionFlag, escrowVars, moneyVars
  <2>2. \A f \in Ids : Same(f)
    BY <2>1 DEF Same, SameFiles, agreeVars
  <2>3. QED
    BY <2>2, SameLaw DEF Lawful, Files
<1>7. ASSUME FinalizeResolution(e)
      PROVE  Lawful
  <2>1. /\ escrow[e].status = "CoolingOff" /\ ExecuteVerdict(e, verdict[e].percent)
        /\ now > CoolingOffUntil(e) /\ ~flagged[e] /\ ~paused
    BY <1>7 DEF FinalizeResolution
  <2>2. /\ verdict'[e] = NoVerdict
        /\ \A f \in Ids : f # e => verdict'[f] = verdict[f]
    BY <1>2, <1>7 DEF FinalizeResolution, TypeOK, DisputeType
  <2>3. QED
    BY <1>2, <2>1, <2>2, ExecuteVerdictLawful, KindsOfStatus
<1>8. ASSUME EnforceDisputeTimeout(e)
      PROVE  Lawful
  BY <1>2, <1>8, EnforceDisputeTimeoutLawful
<1>9. QED
  BY <1>1, <1>3, <1>4, <1>5, <1>6, <1>7, <1>8

-----------------------------------------------------------------------------
(* Cancellations.                                                           *)

(* Rewrite leaves the records of a dispute alone, and pays nobody.          *)
LEMMA RewriteAt ==
  ASSUME TypeOK, NEW e \in Ids, NEW r, Rewrite(e, r)
  PROVE  /\ escrow'[e] = r /\ \A f \in Ids : f # e => escrow'[f] = escrow[f]
         /\ escrow' = [escrow EXCEPT ![e] = r]
         /\ UNCHANGED <<dispute, disputeStart, verdict, paid>> /\ UNCHANGED disputeVars
BY DEF Rewrite, TypeOK, EscrowType, disputeVars, moneyVars

LEMMA StatusFields ==
  ASSUME TypeOK, NEW e \in Ids, NEW status
  PROVE  /\ WithStatus(e, status).status = status
         /\ WithStatus(e, status).amount = escrow[e].amount
         /\ WithStatus(e, status).buyer = escrow[e].buyer
         /\ WithStatus(e, status).seller = escrow[e].seller
         /\ WithStatus(e, status).inspector = escrow[e].inspector
<1>1. escrow[e] \in EscrowRecord
  BY DEF TypeOK, EscrowType
<1>2. QED
  BY <1>1 DEF WithStatus, EscrowRecord

LEMMA RequestCancellationLawful ==
  ASSUME TypeOK, Files, NEW e \in Ids, NEW caller \in Addr, RequestCancellation(e, caller)
  PROVE  Lawful
<1>1. /\ Rewrite(e, WithStatus(e, "CancellationPending")) /\ caller \in Party(e)
      /\ escrow[e].status \in Open /\ Waits(e)
      /\ UNCHANGED <<transfer, amendment, nonce>>
  BY DEF RequestCancellation, Files
<1>2. /\ escrow'[e].status = "CancellationPending"
      /\ escrow'[e].buyer = escrow[e].buyer /\ escrow'[e].seller = escrow[e].seller
      /\ \A f \in Ids : f # e => escrow'[f] = escrow[f]
      /\ UNCHANGED <<dispute, disputeStart, verdict, paid>>
  BY <1>1, RewriteAt, StatusFields
<1>3. /\ cancellation'[e].initiator = caller
      /\ \A f \in Ids : f # e => cancellation'[f] = cancellation[f]
  BY DEF RequestCancellation, TypeOK, AgreeType
<1>4. cancellation'[e] # NoRequest /\ cancellation'[e].initiator \in Party(e)'
  BY <1>1, <1>2, <1>3, BoundsAssumption DEF NoRequest, Party
<1>5. Others(e)
  BY <1>1, <1>2, <1>3 DEF Others, Same, SameFiles
<1>6. escrow[e].status \notin Frozen /\ escrow'[e].status \notin Frozen
  BY <1>1, <1>2 DEF Open, Frozen, InDispute
<1>7. Waits(e)'
  BY <1>1, <1>2, <1>4, <1>6 DEF Waits, Frozen
<1>8. Law(e)
  BY <1>1, <1>2, <1>6, <1>7, UnpaidLaw DEF Frozen
<1>9. QED
  BY <1>5, <1>8, OneLawful

(* A cancellation answered: the request is gone, and so is the wait.        *)
LEMMA AnsweredWaits ==
  ASSUME NEW e \in Ids, Waits(e), CancellationOpen(e),
         escrow'[e].status \in {"Active", "Refunded"}, cancellation'[e] = NoRequest,
         UNCHANGED <<dispute, disputeStart, verdict, amendment, nonce>>
  PROVE  Waits(e)'
<1>1. /\ escrow[e].status \notin Frozen /\ escrow'[e].status \notin Frozen
      /\ escrow[e].status # "CoolingOff"
      /\ escrow'[e].status \notin InDispute \cup {"CoolingOff", "CancellationPending",
                                 "AwaitingBuyerVetoDecision", "AwaitingInspection"}
  BY DEF CancellationOpen, Frozen, InDispute
<1>2. QED
  BY <1>1 DEF Waits

LEMMA ReopenLawful ==
  ASSUME TypeOK, Files, NEW e \in Ids, CancellationOpen(e), Reopen(e)
  PROVE  Lawful
<1>1. /\ Rewrite(e, WithStatus(e, "Active")) /\ Waits(e)
      /\ escrow[e].status = "CancellationPending"
      /\ UNCHANGED <<transfer, amendment, nonce>>
  BY DEF Reopen, Files, CancellationOpen
<1>2. /\ escrow'[e].status = "Active"
      /\ \A f \in Ids : f # e => escrow'[f] = escrow[f]
      /\ UNCHANGED <<dispute, disputeStart, verdict, paid>>
  BY <1>1, RewriteAt, StatusFields
<1>3. /\ cancellation'[e] = NoRequest
      /\ \A f \in Ids : f # e => cancellation'[f] = cancellation[f]
  BY DEF Reopen, TypeOK, AgreeType
<1>4. Others(e)
  BY <1>1, <1>2, <1>3 DEF Others, Same, SameFiles
<1>5. Waits(e)'
  BY <1>1, <1>2, <1>3, AnsweredWaits
<1>6. Law(e)
  BY <1>1, <1>2, <1>5, UnpaidLaw, KindsOfStatus DEF Frozen, InDispute
<1>7. QED
  BY <1>4, <1>6, OneLawful

LEMMA AcceptCancellationLawful ==
  ASSUME TypeOK, Files, NEW e \in Ids, NEW caller, AcceptCancellation(e, caller)
  PROVE  Lawful
<1>1. /\ CancellationOpen(e) /\ now <= cancellation[e].expiresAt /\ Waits(e)
      /\ escrow[e].status = "CancellationPending"
      /\ UNCHANGED <<dispute, disputeStart, verdict, transfer, amendment, nonce>>
  BY DEF AcceptCancellation, CancellationOpen, disputeVars, Files
<1>2. /\ escrow'[e].status = "Refunded"
      /\ \A f \in Ids : f # e => escrow'[f] = escrow[f]
  BY DEF AcceptCancellation, TypeOK, EscrowType, EscrowRecord
<1>3. /\ cancellation'[e] = NoRequest
      /\ \A f \in Ids : f # e => cancellation'[f] = cancellation[f]
  BY DEF AcceptCancellation, TypeOK, AgreeType
<1>4. /\ SameFees(e) /\ paid'[e].seller = paid[e].seller
      /\ \A f \in Ids : f # e => paid'[f] = paid[f]
  <2>1. \E x, y : paid' = [paid EXCEPT ![e] =
          [paid[e] EXCEPT !.buyer = x, !.penalty = y]]
    BY DEF AcceptCancellation
  <2>2. QED
    BY <2>1 DEF TypeOK, MoneyType, PaidRecord, SameFees
<1>5. Others(e)
  BY <1>1, <1>2, <1>3, <1>4 DEF Others, Same, SameFiles
<1>6. Waits(e)'
  BY <1>1, <1>2, <1>3, AnsweredWaits
<1>7. ~(paid'[e].seller > paid[e].seller)
  BY <1>4, PaidFields DEF TypeOK
<1>8. escrow[e].status \notin Frozen /\ escrow[e].status # "CoolingOff"
  BY <1>1 DEF Frozen, InDispute
<1>9. Law(e)
  BY <1>1, <1>2, <1>4, <1>6, <1>7, <1>8
     DEF Law, Freezes, CoolsOff, Grounds, SellerStays, Amends, ChargesOnce
<1>10. QED
  BY <1>5, <1>9, OneLawful

LEMMA CancellationNextLawful ==
  ASSUME TypeOK, Files, CancellationNext
  PROVE  Lawful
<1>1. PICK e \in Created :
        \/ \E caller \in Addr : RequestCancellation(e, caller)
        \/ \E caller \in Addr : AcceptCancellation(e, caller)
        \/ \E caller \in Addr : RejectCancellation(e, caller)
        \/ AcceptExpiredCancellation(e)
        \/ ExpireCancellation(e)
  BY DEF CancellationNext
<1>2. e \in Ids
  BY CreatedIds DEF TypeOK
<1>3. ASSUME NEW caller \in Addr, RequestCancellation(e, caller)
      PROVE  Lawful
  BY <1>2, <1>3, RequestCancellationLawful
<1>4. ASSUME NEW caller \in Addr, AcceptCancellation(e, caller)
      PROVE  Lawful
  BY <1>2, <1>4, AcceptCancellationLawful
<1>5. ASSUME \/ \E caller \in Addr : RejectCancellation(e, caller)
             \/ AcceptExpiredCancellation(e)
             \/ ExpireCancellation(e)
      PROVE  Lawful
  BY <1>2, <1>5, ReopenLawful
     DEF RejectCancellation, AcceptExpiredCancellation, ExpireCancellation
<1>6. QED
  BY <1>1, <1>3, <1>4, <1>5

-----------------------------------------------------------------------------
(* Amendments and top-ups.                                                  *)

(* The record of e changes in nothing the waits read.                       *)
LEMMA KeepsWaits ==
  ASSUME NEW e \in Ids, Waits(e),
         escrow'[e].status = escrow[e].status,
         escrow'[e].buyer = escrow[e].buyer, escrow'[e].seller = escrow[e].seller,
         escrow'[e].inspector = escrow[e].inspector,
         dispute'[e] = dispute[e], disputeStart'[e] = disputeStart[e],
         verdict'[e] = verdict[e], cancellation'[e] = cancellation[e],
         transfer'[e] = transfer[e], nonce'[e] > amendment'[e].nonce
  PROVE  Waits(e)'
BY DEF Waits, Party

(* A signed amendment is the only thing that moves the amount of an escrow  *)
(* that is neither open nor under inspection, and it is used up by it.      *)
LEMMA AmendLawful ==
  ASSUME TypeOK, Files, NEW e \in Ids, amendment[e] # NoAmendment, Amend(e)
  PROVE  Lawful
<1> DEFINE a == amendment[e].amount
           change == IF a = Unset THEN 0 ELSE a - escrow[e].amount
           out == IF change < 0 THEN -change ELSE 0
<1>1. /\ escrow[e] \in EscrowRecord /\ escrow[e].amount \in Int /\ a \in Int
      /\ 0 \in Int /\ Waits(e) /\ nonce[e] \in Nat
  BY OwedType DEF TypeOK, EscrowType, AgreeType, Amendment, Files
<1>2. change \in Int /\ out \in Int
  BY <1>1
<1>3. /\ escrow' = [escrow EXCEPT ![e] =
           [escrow[e] EXCEPT !.amount = @ + change, !.deadline =
              IF amendment[e].deadline = Unset THEN @ ELSE amendment[e].deadline]]
      /\ paid' = Pay(e, out, 0)
      /\ UNCHANGED <<dispute, disputeStart, verdict, cancellation, transfer, nonce>>
  BY DEF Amend, disputeVars
<1>4. /\ amendment'[e] = NoAmendment
      /\ \A f \in Ids : f # e => amendment'[f] = amendment[f]
  BY DEF Amend, TypeOK, AgreeType
<1>5. escrow[e].amount + change # escrow[e].amount => escrow[e].amount + change = a
  BY <1>1
<1> HIDE DEF a, change, out
<1>6. /\ escrow'[e].status = escrow[e].status
      /\ escrow'[e].amount = escrow[e].amount + change
      /\ escrow'[e].buyer = escrow[e].buyer /\ escrow'[e].seller = escrow[e].seller
      /\ escrow'[e].inspector = escrow[e].inspector
      /\ \A f \in Ids : f # e => escrow'[f] = escrow[f]
  BY <1>1, <1>3 DEF TypeOK, EscrowType, EscrowRecord
<1>7. /\ paid'[e].seller = paid[e].seller + 0 /\ SameFees(e)
      /\ \A f \in Ids : f # e => paid'[f] = paid[f]
  BY <1>1, <1>2, <1>3, PaidTo DEF TypeOK
<1>8. ~(paid'[e].seller > paid[e].seller)
  BY <1>7, PaidFields DEF TypeOK
<1>9. Others(e)
  BY <1>3, <1>4, <1>6, <1>7 DEF Others, Same, SameFiles
<1>10. nonce'[e] > amendment'[e].nonce
  BY <1>1, <1>3, <1>4 DEF NoAmendment, Unset
<1>11. Waits(e)'
  BY <1>1, <1>3, <1>6, <1>10, KeepsWaits
<1>12. Freezes(e) /\ CoolsOff(e) /\ Grounds(e)
  BY <1>4, <1>6 DEF Freezes, CoolsOff, Grounds
<1>13. Amends(e)
  BY <1>1, <1>4, <1>5, <1>6 DEF Amends, Waits, a
<1>14. SellerStays(e) /\ ChargesOnce(e)
  BY <1>7, <1>8 DEF SellerStays, ChargesOnce
<1>15. QED
  BY <1>9, <1>11, <1>12, <1>13, <1>14, OneLawful DEF Law

(* Only the proposal of e changes, and it carries a used nonce.             *)
LEMMA ProposedLawful ==
  ASSUME TypeOK, Files, NEW e \in Ids,
         UNCHANGED <<escrow, paid, dispute, disputeStart, verdict, cancellation, transfer>>,
         \A f \in Ids : f # e => amendment'[f] = amendment[f] /\ nonce'[f] = nonce[f],
         nonce'[e] > amendment'[e].nonce
  PROVE  Lawful
<1>1. Waits(e)'
  BY KeepsWaits DEF Files
<1>2. Law(e)
  BY <1>1, UnpaidLaw
<1>3. QED
  BY <1>2, OneLawful DEF Others, Same, SameFiles

LEMMA SignAmendmentLawful ==
  ASSUME TypeOK, Files, NEW e \in Ids, NEW caller, NEW n, SignAmendment(e, caller, n)
  PROVE  Lawful
<1> DEFINE signed == amendment[e].signed
                \cup {IF caller = escrow[e].buyer THEN "buyer" ELSE "seller"}
<1>1. amendment[e] # NoAmendment /\ Waits(e) /\ amendment[e] \in Amendment
  BY DEF SignAmendment, Pending, Files, TypeOK, AgreeType
<1>2. CASE signed = {"buyer", "seller"} /\ Amend(e)
  BY <1>1, <1>2, AmendLawful
<1>3. CASE ~(signed = {"buyer", "seller"} /\ Amend(e))
  <2>1. /\ amendment' = [amendment EXCEPT ![e].signed = signed]
        /\ UNCHANGED <<escrow, paid, dispute, disputeStart, verdict, cancellation,
                       transfer, nonce>>
    BY <1>3 DEF SignAmendment, escrowVars, moneyVars, disputeVars
  <2> HIDE DEF signed
  <2>2. /\ amendment'[e].nonce = amendment[e].nonce
        /\ \A f \in Ids : f # e => amendment'[f] = amendment[f]
    BY <1>1, <2>1 DEF TypeOK, AgreeType, Amendment
  <2>3. nonce'[e] > amendment'[e].nonce
    BY <1>1, <2>1, <2>2 DEF Waits
  <2>4. QED
    BY <2>1, <2>2, <2>3, ProposedLawful
<1>4. QED
  BY <1>2, <1>3

(* The record of e is rewritten in fields the law does not read.            *)
LEMMA TidiedLawful ==
  ASSUME TypeOK, Files, NEW e \in Ids, NEW r, Rewrite(e, r),
         UNCHANGED <<cancellation, transfer, amendment, nonce>>,
         r.amount = escrow[e].amount, r.status = escrow[e].status,
         r.buyer = escrow[e].buyer, r.seller = escrow[e].seller,
         r.inspector = escrow[e].inspector
  PROVE  Lawful
<1>1. /\ escrow'[e] = r /\ \A f \in Ids : f # e => escrow'[f] = escrow[f]
      /\ UNCHANGED <<dispute, disputeStart, verdict, paid>>
  BY RewriteAt
<1>2. Waits(e) /\ Waits(e)'
  <2>1. Waits(e)
    BY DEF Files
  <2>2. nonce'[e] > amendment'[e].nonce
    BY <2>1 DEF Waits
  <2>3. QED
    BY <1>1, <2>1, <2>2, KeepsWaits
<1>3. Law(e)
  BY <1>1, <1>2, UnpaidLaw
<1>4. QED
  BY <1>1, <1>3, OneLawful DEF Others, Same, SameFiles

LEMMA AmendmentNextLawful ==
  ASSUME TypeOK, Files, AmendmentNext
  PROVE  Lawful
<1>1. PICK e \in Created :
        \/ \E caller \in Addr, d \in Times : ProposeDeadlineExtension(e, caller, d)
        \/ \E caller \in Addr : AcceptDeadlineExtension(e, caller)
        \/ \E caller \in Addr, x \in Amounts \cup {Unset}, d \in Times \cup {Unset} :
             ProposeAmendment(e, caller, x, d)
        \/ \E caller \in Addr, n \in 0 .. MaxRounds : SignAmendment(e, caller, n)
        \/ \E n \in 0 .. MaxRounds : ApplyAmendment(e, n)
        \/ \E x \in Amounts : TopUpEscrow(e, x)
        \/ AcknowledgeTopup(e)
  BY DEF AmendmentNext
<1>2. e \in Ids /\ escrow[e] \in EscrowRecord /\ Waits(e)
  BY CreatedIds DEF TypeOK, EscrowType, Files
<1>3. ASSUME NEW caller \in Addr, NEW d \in Times, ProposeDeadlineExtension(e, caller, d)
      PROVE  Lawful
  <2>1. UNCHANGED <<escrow, paid, dispute, disputeStart, verdict, cancellation, transfer,
                    amendment, nonce>>
    BY <1>3 DEF ProposeDeadlineExtension, escrowVars, moneyVars, disputeVars
  <2>2. \A f \in Ids : Same(f)
    BY <2>1 DEF Same, SameFiles
  <2>3. QED
    BY <2>2, SameLaw DEF Lawful, Files
<1>4. ASSUME \/ \E caller \in Addr : AcceptDeadlineExtension(e, caller)
             \/ AcknowledgeTopup(e)
      PROVE  Lawful
  <2> DEFINE Later == [escrow[e] EXCEPT !.deadline = extension[e].deadline]
             Known == [escrow[e] EXCEPT !.acknowledged = TRUE]
  <2>1. /\ Rewrite(e, Later) \/ Rewrite(e, Known)
        /\ UNCHANGED <<cancellation, transfer, amendment, nonce>>
    BY <1>4 DEF AcceptDeadlineExtension, AcknowledgeTopup, agreeVars
  <2>2. /\ Later.status = escrow[e].status /\ Later.amount = escrow[e].amount
        /\ Later.buyer = escrow[e].buyer /\ Later.seller = escrow[e].seller
        /\ Later.inspector = escrow[e].inspector
    BY <1>2 DEF EscrowRecord
  <2>3. /\ Known.status = escrow[e].status /\ Known.amount = escrow[e].amount
        /\ Known.buyer = escrow[e].buyer /\ Known.seller = escrow[e].seller
        /\ Known.inspector = escrow[e].inspector
    BY <1>2 DEF EscrowRecord
  <2> HIDE DEF Later, Known
  <2>4. QED
    BY <1>2, <2>1, <2>2, <2>3, TidiedLawful
<1>5. ASSUME NEW caller \in Addr, NEW x \in Amounts \cup {Unset},
             NEW d \in Times \cup {Unset}, ProposeAmendment(e, caller, x, d)
      PROVE  Lawful
  <2>1. UNCHANGED <<escrow, paid, dispute, disputeStart, verdict, cancellation, transfer>>
    BY <1>5 DEF ProposeAmendment, escrowVars, moneyVars, disputeVars
  <2>2. /\ amendment'[e].nonce = nonce[e] /\ nonce'[e] = nonce[e] + 1
        /\ \A f \in Ids : f # e => amendment'[f] = amendment[f] /\ nonce'[f] = nonce[f]
        /\ nonce[e] \in Nat
    BY <1>2, <1>5 DEF ProposeAmendment, TypeOK, AgreeType
  <2>3. nonce'[e] > amendment'[e].nonce
    BY <2>2
  <2>4. QED
    BY <1>2, <2>1, <2>2, <2>3, ProposedLawful
<1>6. ASSUME NEW caller \in Addr, NEW n \in 0 .. MaxRounds, SignAmendment(e, caller, n)
      PROVE  Lawful
  BY <1>2, <1>6, SignAmendmentLawful
<1>7. ASSUME NEW n \in 0 .. MaxRounds, ApplyAmendment(e, n)
      PROVE  Lawful
  BY <1>2, <1>7, AmendLawful DEF ApplyAmendment, Pending
<1>8. ASSUME NEW x \in Amounts, TopUpEscrow(e, x)
      PROVE  Lawful
  <2>1. /\ escrow[e].status \in {"Active", "AwaitingInspection"} /\ paid' = paid
        /\ UNCHANGED <<disputeVars, agreeVars>>
    BY <1>8 DEF TopUpEscrow
  <2>2. /\ escrow'[e].status = escrow[e].status
        /\ escrow'[e].buyer = escrow[e].buyer /\ escrow'[e].seller = escrow[e].seller
        /\ escrow'[e].inspector = escrow[e].inspector
        /\ \A f \in Ids : f # e => escrow'[f] = escrow[f]
    BY <1>2, <1>8 DEF TopUpEscrow, TypeOK, EscrowType, EscrowRecord
  <2>3. Others(e) /\ SameFiles(e)
    BY <1>2, <2>1, <2>2, FilesFrame DEF Others, Same
  <2>4. Waits(e)'
    BY <1>2, <2>2, <2>3, KeepsWaits DEF SameFiles, Waits
  <2>5. Law(e)
    BY <1>2, <2>1, <2>2, <2>4, UnpaidLaw, CalmKinds
  <2>6. QED
    BY <1>2, <2>3, <2>5, OneLawful
<1>9. QED
  BY <1>1, <1>3, <1>4, <1>5, <1>6, <1>7, <1>8

-----------------------------------------------------------------------------
(* Vetoes, changes of party, inspection, and the admin.                     *)

LEMMA UntouchedLawful ==
  ASSUME TypeOK, Files,
         UNCHANGED <<escrow, paid, dispute, disputeStart, verdict, cancellation, transfer,
                     amendment, nonce>>
  PROVE  Lawful
<1>1. \A f \in Ids : Same(f)
  BY DEF Same, SameFiles
<1>2. QED
  BY <1>1, SameLaw DEF Lawful, Files

LEMMA VetoNextLawful ==
  ASSUME TypeOK, Files, VetoNext
  PROVE  Lawful
<1>1. UNCHANGED <<escrow, paid, dispute, disputeStart, verdict, cancellation, transfer,
                  amendment, nonce>>
  BY DEF VetoNext, RaiseSellerVeto, AdminOverrideVeto, StampVeto, SetVetoCooldownSeconds,
         ConfigSet, escrowVars, moneyVars, disputeVars, agreeVars
<1>2. QED
  BY <1>1, UntouchedLawful

(* From a status that asks for no record to another, nothing paid.          *)
LEMMA TurnedLawful ==
  ASSUME TypeOK, Files, NEW e \in Ids, NEW r, Rewrite(e, r),
         UNCHANGED <<cancellation, amendment, nonce>>,
         \A f \in Ids : f # e => transfer'[f] = transfer[f],
         Calm(escrow[e].status), Calm(r.status), r.amount = escrow[e].amount,
         r.status = "AwaitingBuyerVetoDecision" => transfer'[e] # NoTransfer,
         r.status = "AwaitingInspection" => r.inspector # NoAddr
  PROVE  Lawful
<1>1. /\ escrow'[e] = r /\ \A f \in Ids : f # e => escrow'[f] = escrow[f]
      /\ UNCHANGED <<dispute, disputeStart, verdict, paid>>
  BY RewriteAt
<1>2. Waits(e)
  BY DEF Files
<1>3. Waits(e)'
  BY <1>1, <1>2, KindsOfStatus DEF Waits, Calm, Frozen
<1>4. Law(e)
  BY <1>1, <1>3, UnpaidLaw, KindsOfStatus DEF Calm, Frozen
<1>5. QED
  BY <1>1, <1>4, OneLawful DEF Others, Same, SameFiles

LEMMA PartyNextLawful ==
  ASSUME TypeOK, Files, PartyNext
  PROVE  Lawful
<1>1. PICK e \in Created :
        \/ \E newBuyer \in Addr : TransferBuyerRole(e, newBuyer)
        \/ \E newSeller \in Addr : TransferSellerRole(e, newSeller)
        \/ ApproveSellerTransfer(e)
        \/ ExpireSellerTransferVeto(e)
        \/ VetoSellerTransfer(e)
  BY DEF PartyNext
<1>2. /\ e \in Ids /\ escrow[e] \in EscrowRecord /\ escrow[e].amount \in Int /\ Waits(e)
      /\ 0 \in Int
  BY CreatedIds, OwedType DEF TypeOK, EscrowType, Files
<1>3. ASSUME NEW newBuyer \in Addr, TransferBuyerRole(e, newBuyer)
      PROVE  Lawful
  <2> DEFINE r == [escrow[e] EXCEPT !.buyer = newBuyer]
  <2>1. /\ Rewrite(e, r) /\ UNCHANGED <<cancellation, transfer, amendment, nonce>>
        /\ escrow[e].status = "Active"
    BY <1>3 DEF TransferBuyerRole, agreeVars
  <2>2. r.amount = escrow[e].amount /\ r.status = "Active"
    BY <1>2, <2>1 DEF EscrowRecord
  <2> HIDE DEF r
  <2>3. QED
    BY <1>2, <2>1, <2>2, TurnedLawful, CalmKinds
<1>4. ASSUME NEW newSeller \in Addr, TransferSellerRole(e, newSeller)
      PROVE  Lawful
  <2>1. /\ Rewrite(e, WithStatus(e, "AwaitingBuyerVetoDecision"))
        /\ UNCHANGED <<cancellation, amendment, nonce>> /\ escrow[e].status = "Active"
    BY <1>4 DEF TransferSellerRole
  <2>2. /\ transfer'[e].newSeller = newSeller
        /\ \A f \in Ids : f # e => transfer'[f] = transfer[f]
    BY <1>2, <1>4 DEF TransferSellerRole, TypeOK, AgreeType
  <2>3. transfer'[e] # NoTransfer
    BY <2>2, BoundsAssumption DEF NoTransfer
  <2>4. QED
    BY <1>2, <2>1, <2>2, <2>3, TurnedLawful, StatusFields, CalmKinds
<1>5. ASSUME ApproveSellerTransfer(e) \/ ExpireSellerTransferVeto(e)
      PROVE  Lawful
  <2> DEFINE r == [escrow[e] EXCEPT !.status = "Active", !.seller = transfer[e].newSeller]
  <2>1. /\ Rewrite(e, r) /\ UNCHANGED <<cancellation, transfer, amendment, nonce>>
        /\ escrow[e].status = "AwaitingBuyerVetoDecision"
    BY <1>5 DEF ApproveSellerTransfer, ExpireSellerTransferVeto, ConcludeSellerTransfer,
                agreeVars
  <2>2. r.amount = escrow[e].amount /\ r.status = "Active"
    BY <1>2 DEF EscrowRecord
  <2> HIDE DEF r
  <2>3. QED
    BY <1>2, <2>1, <2>2, TurnedLawful, CalmKinds
<1>6. ASSUME VetoSellerTransfer(e)
      PROVE  Lawful
  <2>1. /\ escrow[e].status = "AwaitingBuyerVetoDecision"
        /\ Settle(e, "Refunded", escrow[e].amount, 0) /\ UNCHANGED <<disputeVars, agreeVars>>
    BY <1>6 DEF VetoSellerTransfer
  <2>2. /\ escrow'[e].status = "Refunded" /\ SameFees(e)
        /\ paid'[e].seller = paid[e].seller + 0
        /\ \A f \in Ids : f # e => escrow'[f] = escrow[f] /\ paid'[f] = paid[f]
    BY <1>2, <2>1, SettleAt
  <2>3. Others(e) /\ SameFiles(e)
    BY <1>2, <2>1, <2>2, FilesFrame DEF Others, Same
  <2>4. Waits(e)'
    BY <1>2, <2>1, <2>2, <2>3, CalmWaits, CalmKinds, KindsOfStatus
  <2>5. ~(paid'[e].seller > paid[e].seller)
    BY <1>2, <2>2, PaidFields DEF TypeOK
  <2>6. escrow[e].status \notin Frozen /\ escrow[e].status # "CoolingOff"
    BY <2>1 DEF Frozen, InDispute
  <2>7. Law(e)
    BY <2>1, <2>2, <2>4, <2>5, <2>6
       DEF Law, Freezes, CoolsOff, Grounds, SellerStays, Amends, ChargesOnce
  <2>8. QED
    BY <1>2, <2>3, <2>7, OneLawful
<1>7. QED
  BY <1>1, <1>3, <1>4, <1>5, <1>6

(* A replaced inspector leaves an escrow under inspection open, and any     *)
(* other one in the status it has.                                          *)
LEMMA ReplaceInspectorLawful ==
  ASSUME TypeOK, Files, NEW e \in Ids, NEW caller, NEW insp \in Addr,
         ReplaceInspector(e, caller, insp)
  PROVE  Lawful
<1> DEFINE status == IF escrow[e].status \in {"AwaitingInspection", "InspectionFailed"}
                     THEN "Active" ELSE escrow[e].status
           r == [escrow[e] EXCEPT !.inspector = insp, !.status = status]
<1>1. /\ r.amount = escrow[e].amount /\ r.status = status /\ r.inspector = insp
      /\ r.buyer = escrow[e].buyer /\ r.seller = escrow[e].seller
  BY DEF TypeOK, EscrowType, EscrowRecord
<1>2. UNCHANGED <<cancellation, transfer, amendment, nonce>> /\ Waits(e)
  BY DEF ReplaceInspector, agreeVars, Files
<1>3. \/ Rewrite(e, r)
      \/ UNCHANGED <<escrow, paid, dispute, disputeStart, verdict>>
  BY DEF ReplaceInspector, escrowVars, disputeVars, moneyVars
<1>4. status # "AwaitingInspection"
  OBVIOUS
<1> HIDE DEF r
<1>5. CASE Rewrite(e, r) /\ status = escrow[e].status
  <2>1. /\ escrow'[e] = r /\ \A f \in Ids : f # e => escrow'[f] = escrow[f]
        /\ UNCHANGED <<dispute, disputeStart, verdict, paid>>
    BY <1>5, RewriteAt
  <2>2. Waits(e)'
    BY <1>1, <1>2, <1>4, <1>5, <2>1 DEF Waits, Party
  <2>3. Law(e)
    BY <1>1, <1>5, <2>1, <2>2, UnpaidLaw
  <2>4. QED
    BY <1>2, <2>1, <2>3, OneLawful DEF Others, Same, SameFiles
<1>6. CASE Rewrite(e, r) /\ status # escrow[e].status
  BY <1>1, <1>2, <1>6, TurnedLawful, CalmKinds
<1>7. CASE UNCHANGED <<escrow, paid, dispute, disputeStart, verdict>>
  BY <1>2, <1>7, UntouchedLawful
<1>8. QED
  BY <1>3, <1>5, <1>6, <1>7

LEMMA InspectionNextLawful ==
  ASSUME TypeOK, Files, InspectionNext
  PROVE  Lawful
<1>1. PICK e \in Created :
        \/ SellerMarkComplete(e)
        \/ \E approved \in BOOLEAN : SubmitInspectionReport(e, approved)
        \/ \E caller, insp \in Addr : ReplaceInspector(e, caller, insp)
        \/ AppealInspectorRuling(e)
  BY DEF InspectionNext
<1>2. e \in Ids
  BY CreatedIds DEF TypeOK
<1>3. ASSUME \/ SellerMarkComplete(e)
             \/ \E approved \in BOOLEAN : SubmitInspectionReport(e, approved)
      PROVE  Lawful
  <2>1. PICK status \in {"AwaitingInspection", "InspectionPassed", "InspectionFailed"} :
          Rewrite(e, WithStatus(e, status))
    BY <1>3 DEF SellerMarkComplete, SubmitInspectionReport
  <2>2. /\ UNCHANGED <<cancellation, transfer, amendment, nonce>>
        /\ Calm(escrow[e].status) /\ escrow[e].inspector # NoAddr
    BY <1>3, CalmKinds DEF SellerMarkComplete, SubmitInspectionReport, agreeVars
  <2>3. Calm(status) /\ status # "AwaitingBuyerVetoDecision"
    BY CalmKinds
  <2>4. QED
    BY <1>2, <2>1, <2>2, <2>3, TurnedLawful, StatusFields
<1>4. ASSUME NEW caller \in Addr, NEW insp \in Addr, ReplaceInspector(e, caller, insp)
      PROVE  Lawful
  BY <1>2, <1>4, ReplaceInspectorLawful
<1>5. ASSUME AppealInspectorRuling(e)
      PROVE  Lawful
  BY <1>5, UntouchedLawful DEF AppealInspectorRuling, escrowVars, moneyVars, disputeVars,
                               agreeVars
<1>6. QED
  BY <1>1, <1>3, <1>4, <1>5

LEMMA AdminNextLawful ==
  ASSUME TypeOK, Files, AdminNext
  PROVE  Lawful
<1>1. UNCHANGED <<escrow, paid, dispute, disputeStart, verdict, cancellation, transfer,
                  amendment, nonce>>
  BY DEF AdminNext, SetResolutionCooloff, UpdateDefaultDisputeTimeout,
         SetDefaultDisputeWinner, ConfigSet, WithdrawFees, PauseContract, ResumeContract,
         escrowVars, moneyVars, disputeVars, agreeVars
<1>2. QED
  BY <1>1, UntouchedLawful

LEMMA TickLawful ==
  ASSUME TypeOK, Files, Tick \/ UNCHANGED vars
  PROVE  Lawful
<1>1. UNCHANGED <<escrow, paid, dispute, disputeStart, verdict, cancellation, transfer,
                  amendment, nonce>>
  BY DEF Tick, vars, escrowVars, moneyVars, disputeVars, agreeVars
<1>2. QED
  BY <1>1, UntouchedLawful

-----------------------------------------------------------------------------
(* The invariant and what follows from it.                                  *)

LEMMA StepLawful ==
  ASSUME TypeOK, Funds, Files, [Next]_vars
  PROVE  Lawful
BY CreationLawful, ReleaseNextLawful, RenewalNextLawful, ConditionNextLawful,
   DisputeNextLawful, CancellationNextLawful, AmendmentNextLawful, VetoNextLawful,
   PartyNextLawful, InspectionNextLawful, AdminNextLawful, TickLawful
   DEF Next

(* The fees of a verdict: at most 10% and 2% of what the escrow held.       *)
LEMMA FeesOfAmount ==
  ASSUME TypeOK, NEW e \in Ids, escrow[e].amount > 0
  PROVE  /\ ArbiterFee(e) \in Int /\ ArbiterFee(e) * 10 <= escrow[e].amount
         /\ ProtocolFee(e) \in Int /\ ProtocolFee(e) * 50 <= escrow[e].amount
<1> DEFINE a == escrow[e].amount
           rate == IF terms[e].arbiterFee = Unset THEN config.arbiterFee
                   ELSE terms[e].arbiterFee
<1>1. a \in Nat
  BY OwedType
<1>2. rate \in 0 .. 1000 /\ config.protocolFee \in 0 .. 200
  <2>1. terms[e].arbiterFee \in 0 .. 1000 \cup {Unset}
    <3>1. \A t \in Terms : t.arbiterFee \in 0 .. 1000 \cup {Unset}
      BY DEF Terms
    <3>2. QED
      BY <3>1 DEF TypeOK, EscrowType
  <2>2. config.arbiterFee \in 0 .. 1000 /\ config.protocolFee \in 0 .. 200
    BY DEF TypeOK, ClockType, Config
  <2>3. QED
    BY <2>1, <2>2
<1> HIDE DEF a, rate
<1>3. \A x \in Nat, y \in 0 .. 1000 : Bps(x, y) \in Int /\ Bps(x, y) * 10 <= x
  <2> SUFFICES ASSUME NEW x \in Nat, NEW y \in 0 .. 1000
               PROVE  Bps(x, y) \in Int /\ Bps(x, y) * 10 <= x
    OBVIOUS
  <2>1. x * y \in Nat /\ x * y <= x * 1000
    OBVIOUS
  <2>2. \A p \in Nat : p <= x * 1000 => p \div 10000 \in Int /\ (p \div 10000) * 10 <= x
    OBVIOUS
  <2>3. QED
    BY <2>1, <2>2 DEF Bps, AllBps
<1>4. \A x \in Nat, y \in 0 .. 200 : Bps(x, y) \in Int /\ Bps(x, y) * 50 <= x
  <2> SUFFICES ASSUME NEW x \in Nat, NEW y \in 0 .. 200
               PROVE  Bps(x, y) \in Int /\ Bps(x, y) * 50 <= x
    OBVIOUS
  <2>1. x * y \in Nat /\ x * y <= x * 200
    OBVIOUS
  <2>2. \A p \in Nat : p <= x * 200 => p \div 10000 \in Int /\ (p \div 10000) * 50 <= x
    OBVIOUS
  <2>3. QED
    BY <2>1, <2>2 DEF Bps, AllBps
<1>5. ArbiterFee(e) = Bps(a, rate) /\ ProtocolFee(e) = Bps(a, config.protocolFee)
  BY DEF ArbiterFee, ProtocolFee, a, rate
<1>6. a = escrow[e].amount
  BY DEF a
<1>7. Bps(a, rate) \in Int /\ Bps(a, rate) * 10 <= a
  BY <1>1, <1>2, <1>3, Zenon
<1>8. Bps(a, config.protocolFee) \in Int /\ Bps(a, config.protocolFee) * 50 <= a
  BY <1>1, <1>2, <1>4, Zenon
<1>9. QED
  BY <1>5, <1>6, <1>7, <1>8, Zenon

(* What came in for an escrow covers what it holds.                         *)
LEMMA ReceivedCovers ==
  ASSUME MoneyInv, NEW e \in Ids
  PROVE  /\ received[e] \in Int /\ received[e] >= 0
         /\ escrow[e].status \in Live => received[e] >= escrow[e].amount
<1>1. /\ paid[e].buyer \in Int /\ paid[e].seller \in Int /\ paid[e].arbiter \in Int
      /\ paid[e].fee \in Int /\ paid[e].penalty \in Int
      /\ TotalPaid(e) \in Int /\ received[e] \in Int
      /\ Owed(e) \in Int /\ collateral[e] \in Nat /\ escrow[e].amount \in Int
  BY PaidFields, OwedType DEF MoneyInv, TypeOK
<1>2. received[e] = TotalPaid(e) + Owed(e)
  BY <1>1 DEF MoneyInv, Backed
<1>3. /\ paid[e].buyer >= 0 /\ paid[e].seller >= 0 /\ paid[e].arbiter >= 0
      /\ paid[e].fee >= 0 /\ paid[e].penalty >= 0
      /\ escrow[e].status \in Live => escrow[e].amount > 0
  BY DEF MoneyInv, NothingNegative, TypeOK, MoneyType, PaidRecord
<1>4. TotalPaid(e) >= 0
  BY <1>1, <1>3 DEF TotalPaid
<1>5. Owed(e) >= 0 /\ (escrow[e].status \in Live => Owed(e) >= escrow[e].amount)
  BY <1>1, <1>3 DEF Owed
<1>6. QED
  BY <1>1, <1>2, <1>4, <1>5

LEMMA ReceivedNext ==
  ASSUME MoneyInv', NEW e \in Ids
  PROVE  received'[e] \in Int /\ received'[e] >= 0
<1>1. /\ paid'[e].buyer \in Int /\ paid'[e].seller \in Int /\ paid'[e].arbiter \in Int
      /\ paid'[e].fee \in Int /\ paid'[e].penalty \in Int
      /\ TotalPaid(e)' \in Int /\ received'[e] \in Int
      /\ Owed(e)' \in Int /\ collateral'[e] \in Nat /\ escrow'[e].amount \in Int
  BY PaidFieldsNext, OwedTypeNext DEF MoneyInv, TypeOK
<1>2. received'[e] = TotalPaid(e)' + Owed(e)'
  BY <1>1 DEF MoneyInv, Backed
<1>3. /\ paid'[e].buyer >= 0 /\ paid'[e].seller >= 0 /\ paid'[e].arbiter >= 0
      /\ paid'[e].fee >= 0 /\ paid'[e].penalty >= 0
      /\ escrow'[e].status \in Live => escrow'[e].amount > 0
  BY DEF MoneyInv, NothingNegative, TypeOK, MoneyType, PaidRecord
<1>4. TotalPaid(e)' >= 0
  BY <1>1, <1>3 DEF TotalPaid
<1>5. Owed(e)' >= 0
  BY <1>1, <1>3 DEF Owed
<1>6. QED
  BY <1>1, <1>2, <1>4, <1>5

LEMMA StepCharged ==
  ASSUME MoneyInv, MoneyInv', Shaped, NEW f \in Ids, Charged(f), ChargesOnce(f)
  PROVE  Charged(f)'
<1>1. CASE escrow[f].status \in Terminal
  <2>1. /\ escrow'[f].status = escrow[f].status
        /\ paid'[f] = paid[f] /\ received'[f] = received[f]
    BY <1>1, ShapedFinal DEF MoneyInv
  <2>2. QED
    BY <1>1, <2>1 DEF Charged
<1>2. CASE escrow[f].status \notin Terminal /\ SameFees(f)
  <2>1. paid'[f].arbiter = 0 /\ paid'[f].fee = 0
    BY <1>2 DEF Charged, SameFees
  <2>2. received'[f] \in Int /\ received'[f] >= 0
    BY ReceivedNext
  <2>3. QED
    BY <2>1, <2>2 DEF Charged
<1>3. CASE escrow[f].status \notin Terminal /\ ~SameFees(f)
  <2>1. /\ escrow[f].status \in Live /\ escrow'[f].status \in Terminal
        /\ paid'[f].arbiter = paid[f].arbiter + ArbiterFee(f)
        /\ paid'[f].fee = paid[f].fee + ProtocolFee(f)
        /\ received'[f] = received[f]
    BY <1>3, KindsOfStatus DEF ChargesOnce
  <2>2. paid[f].arbiter = 0 /\ paid[f].fee = 0
    BY <1>3 DEF Charged
  <2>3. escrow[f].amount > 0 /\ escrow[f].amount \in Int
    BY <2>1, OwedType DEF MoneyInv, NothingNegative
  <2>4. /\ ArbiterFee(f) \in Int /\ ArbiterFee(f) * 10 <= escrow[f].amount
        /\ ProtocolFee(f) \in Int /\ ProtocolFee(f) * 50 <= escrow[f].amount
    BY <2>3, FeesOfAmount DEF MoneyInv
  <2>5. received[f] \in Int /\ received[f] >= escrow[f].amount
    BY <2>1, ReceivedCovers
  <2>6. paid'[f].arbiter = ArbiterFee(f) /\ paid'[f].fee = ProtocolFee(f)
    BY <2>1, <2>2, <2>4
  <2>7. paid'[f].arbiter * 10 <= received'[f] /\ paid'[f].fee * 50 <= received'[f]
    BY <2>1, <2>3, <2>4, <2>5, <2>6
  <2>8. QED
    BY <2>1, <2>7 DEF Charged
<1>4. QED
  BY <1>1, <1>2, <1>3

LEMMA InitRecord == InitBase => RecordInv
<1> SUFFICES ASSUME InitBase
             PROVE  RecordInv
  OBVIOUS
<1>1. MoneyInv
  BY InitMoney
<1>2. ASSUME NEW e \in Ids
      PROVE  Waits(e) /\ Charged(e)
  <2>1. /\ escrow[e].status = "None" /\ dispute[e] = NoDispute /\ verdict[e] = NoVerdict
        /\ cancellation[e] = NoRequest /\ amendment[e] = NoAmendment /\ nonce[e] = 0
        /\ paid[e] = NothingPaid /\ received[e] = 0
    BY DEF InitBase, NoEscrow
  <2>2. Waits(e)
    BY <2>1 DEF Waits, Frozen, InDispute, NoDispute, NoAmendment, Unset
  <2>3. Charged(e)
    BY <2>1 DEF Charged, NothingPaid
  <2>4. QED
    BY <2>2, <2>3
<1>3. QED
  BY <1>1, <1>2 DEF RecordInv, Files

LEMMA StepRecord ==
  ASSUME RecordInv, [Next]_vars
  PROVE  RecordInv' /\ Lawful
<1>1. MoneyInv /\ MoneyInv' /\ Shaped
  BY StepMoney, StepShaped DEF RecordInv
<1>2. Lawful
  BY StepLawful DEF RecordInv, MoneyInv
<1>3. Files'
  BY <1>2 DEF Lawful, Law, Files
<1>4. \A f \in Ids : Charged(f)'
  BY <1>1, <1>2, StepCharged DEF RecordInv, Lawful, Law
<1>5. QED
  BY <1>1, <1>2, <1>3, <1>4 DEF RecordInv

LEMMA RecordCorrect == Spec => []RecordInv
<1>1. InitBase => RecordInv
  BY InitRecord
<1>2. RecordInv /\ [Next]_vars => RecordInv'
  BY StepRecord
<1>3. QED
  BY <1>1, <1>2, PTL DEF Spec

(* Every escrow that waits for a party, an arbiter, an inspector or a       *)
(* window has what its ways out read: no order of disputes, verdicts,       *)
(* cancellations, amendments and changes of party leaves a wait without its *)
(* record, or a record without its wait.                                    *)
THEOREM WaitingIsRecordedAlways == Spec => []WaitingIsRecorded
<1>1. RecordInv => WaitingIsRecorded
  BY KindsOfStatus DEF RecordInv, Files, Waits, WaitingIsRecorded
<1>2. QED
  BY <1>1, RecordCorrect, PTL

(* No escrow, over its whole life, pays its arbiter more than a tenth or    *)
(* the protocol more than a fiftieth of what was paid into it.              *)
THEOREM FeesCappedAlways == Spec => []FeesCapped
<1>1. RecordInv => FeesCapped
  BY DEF RecordInv, Charged, FeesCapped
<1>2. QED
  BY <1>1, RecordCorrect, PTL

(* A dispute freezes its escrow until it is resolved: whatever is called,   *)
(* tokens leave it before only by an amendment that is used up by it.       *)
THEOREM DisputeFreezesAlways == Spec => DisputeFreezes
<1>1. RecordInv /\ [Next]_vars => [\A e \in Ids : Freezes(e)]_vars
  BY StepRecord DEF Lawful, Law
<1>2. QED
  BY <1>1, RecordCorrect, PTL DEF Spec, DisputeFreezes, Freezes

(* No call takes an escrow out of its cooling-off window before it is over, *)
(* past a flag or a pause, or to another outcome than the recorded verdict. *)
THEOREM VerdictCoolsOffAlways == Spec => VerdictCoolsOff
<1>1. RecordInv /\ [Next]_vars => [\A e \in Ids : CoolsOff(e)]_vars
  BY StepRecord DEF Lawful, Law
<1>2. QED
  BY <1>1, RecordCorrect, PTL DEF Spec, VerdictCoolsOff, CoolsOff

(* Whatever the buyers call, they get tokens back only by a ruling, a       *)
(* cancellation in its window, an expired deadline, an amendment or the     *)
(* seller's own request to hand the escrow over.                            *)
THEOREM RefundHasGroundsAlways == Spec => RefundHasGrounds
<1>1. RecordInv /\ [Next]_vars => [\A e \in Ids : Grounds(e)]_vars
  BY StepRecord DEF Lawful, Law
<1>2. QED
  BY <1>1, RecordCorrect, PTL DEF Spec, RefundHasGrounds, Grounds

(* While the escrow waits for collateral, for an answer to a cancellation,  *)
(* for a veto decision or an inspection, or has failed it, no entry point   *)
(* pays the seller.                                                         *)
THEOREM SellerWaitsAlways == Spec => SellerWaits
<1>1. RecordInv /\ [Next]_vars => [\A e \in Ids : SellerStays(e)]_vars
  BY StepRecord DEF Lawful, Law
<1>2. QED
  BY <1>1, RecordCorrect, PTL DEF Spec, SellerWaits, SellerStays

(* The amount of an escrow under a dispute, a window or a wait changes by a *)
(* signed proposal only, to what it says, and the proposal is used up.      *)
THEOREM AmendedOnceAlways == Spec => AmendedOnce
<1>1. RecordInv /\ [Next]_vars => [\A e \in Ids : Amends(e)]_vars
  BY StepRecord DEF Lawful, Law
<1>2. QED
  BY <1>1, RecordCorrect, PTL DEF Spec, AmendedOnce, Amends

-----------------------------------------------------------------------------
(* Renewal chains: a chain never outgrows the cycles its creation allowed,  *)
(* and only its last escrow renews it.  A step leaves the chains alone      *)
(* (Still), starts one (Rooted), or makes one longer at its end (Grown).    *)
(* The argument rests on the money proofs for one fact: an escrow that has  *)
(* ended stays ended.                                                       *)

(* The strengthening that makes RenewalChainBounded inductive, from the      *)
(* side of an escrow: a successor knows the root of its chain and its own    *)
(* place in the root's history, has no history itself, and may be renewed    *)
(* as often as its root.                                                    *)
Linked(e) ==
  /\ chainRoot[e] # e =>
       /\ e < nextId /\ history[e] = <<>>
       /\ escrow[e].renewalsCompleted \in 1 .. Len(history[chainRoot[e]])
       /\ history[chainRoot[e]][escrow[e].renewalsCompleted] = e
       /\ terms[e].maxRenewals = terms[chainRoot[e]].maxRenewals
  /\ chainRoot[e] = e => escrow[e].renewalsCompleted = 0

(* And from the side of its root, which has ended once it was renewed.       *)
Chain(r) ==
  history[r] # <<>> =>
    /\ chainRoot[r] = r /\ escrow[r].status \in Terminal
    /\ terms[r].maxRenewals # Unset
    /\ Len(history[r]) <= terms[r].maxRenewals
    /\ \A i \in 1 .. Len(history[r]) :
         /\ history[r][i] # r
         /\ escrow[history[r][i]].renewalsCompleted = i
         /\ chainRoot[history[r][i]] = r
         /\ i < Len(history[r]) => escrow[history[r][i]].status \in Terminal

Chains == \A e \in Ids : Linked(e) /\ Chain(e)

ChainInv == MoneyInv /\ Chains

-----------------------------------------------------------------------------
(* What a step does to the chains.                                          *)

Counted(f) ==
  /\ escrow'[f].renewalsCompleted = escrow[f].renewalsCompleted
  /\ terms'[f] = terms[f]

Still ==
  /\ UNCHANGED <<nextId, chainRoot, history>>
  /\ \A f \in Ids : Counted(f)

Rooted(q) ==
  /\ q = nextId /\ nextId' = nextId + 1
  /\ UNCHANGED <<chainRoot, history>>
  /\ escrow'[q].renewalsCompleted = 0
  /\ \A f \in Ids : f # q => Counted(f)

Grown(e, q) ==
  /\ q = nextId /\ nextId' = nextId + 1
  /\ escrow[e].status \in Open /\ escrow'[e].status \in Terminal
  /\ terms[e].maxRenewals # Unset
  /\ escrow[e].renewalsCompleted < terms[e].maxRenewals
  /\ escrow'[q].renewalsCompleted = escrow[e].renewalsCompleted + 1
  /\ terms'[q].maxRenewals = terms[e].maxRenewals
  /\ history' = [history EXCEPT ![chainRoot[e]] = Append(@, q)]
  /\ chainRoot' = [chainRoot EXCEPT ![q] = chainRoot[e]]
  /\ \A f \in Ids : f # q => Counted(f)

Chained ==
  Still \/ \E q \in Ids : Rooted(q) \/ \E e \in Ids : Grown(e, q)

-----------------------------------------------------------------------------
(* What the chains preserve.                                                *)

LEMMA ChainTypes ==
  ASSUME TypeOK, NEW e \in Ids
  PROVE  /\ chainRoot[e] \in Ids /\ history[e] \in Seq(Ids)
         /\ Len(history[e]) \in Nat
         /\ \A i \in 1 .. Len(history[e]) : history[e][i] \in Ids
         /\ escrow[e].renewalsCompleted \in Nat
         /\ terms[e].maxRenewals \in Int
         /\ nextId \in Int /\ e \in Int
<1>1. chainRoot[e] \in Ids /\ history[e] \in Seq(Ids)
  BY DEF TypeOK, RenewalType
<1>2. escrow[e] \in EscrowRecord /\ terms[e] \in Terms
  BY DEF TypeOK, EscrowType
<1>3. /\ escrow[e].renewalsCompleted \in Nat
      /\ terms[e].maxRenewals \in Int
  BY <1>2, RecordFields, TermsFields
<1>4. nextId \in Int /\ e \in Int
  BY DEF TypeOK, EscrowType, Ids
<1>5. Len(history[e]) \in Nat /\ \A i \in 1 .. Len(history[e]) : history[e][i] \in Ids
  BY <1>1
<1>6. QED
  BY <1>1, <1>3, <1>4, <1>5

(* A fresh id is on no chain: it is its own root, has no history, and is in *)
(* nobody's.                                                                *)
LEMMA FreshIsAlone ==
  ASSUME ChainInv, NEW q \in Ids, q = nextId
  PROVE  /\ chainRoot[q] = q /\ history[q] = <<>>
         /\ \A r \in Ids : \A i \in 1 .. Len(history[r]) : history[r][i] # q
         /\ \A f \in Ids : chainRoot[f] # f => f # q /\ chainRoot[f] # q
<1>1. escrow[q].status \notin Terminal
  <2>1. escrow[q].status = "None"
    BY DEF ChainInv, MoneyInv, Funds, Untouched, Ids
  <2>2. QED
    BY <2>1, KindsOfStatus
<1>2. chainRoot[q] = q
  BY DEF ChainInv, Chains, Linked, Ids
<1>3. history[q] = <<>>
  BY <1>1 DEF ChainInv, Chains, Chain
<1>4. ASSUME NEW r \in Ids, NEW i \in 1 .. Len(history[r])
      PROVE  history[r][i] # q
  <2>1. history[r] # <<>>
    BY <1>4
  <2>2. chainRoot[history[r][i]] = r /\ history[r][i] # r
    BY <1>4, <2>1 DEF ChainInv, Chains, Chain
  <2>3. QED
    BY <1>2, <2>2
<1>5. ASSUME NEW f \in Ids, chainRoot[f] # f
      PROVE  f # q /\ chainRoot[f] # q
  <2>1. escrow[f].renewalsCompleted \in 1 .. Len(history[chainRoot[f]])
    BY <1>5 DEF ChainInv, Chains, Linked
  <2>2. Len(history[q]) = 0
    BY <1>3
  <2>3. QED
    BY <1>2, <1>5, <2>1, <2>2
<1>6. QED
  BY <1>2, <1>3, <1>4, <1>5

LEMMA StillChains ==
  ASSUME ChainInv, Shaped, Still
  PROVE  Chains'
<1> SUFFICES ASSUME NEW e \in Ids
             PROVE  Linked(e)' /\ Chain(e)'
  BY DEF Chains
<1>1. chainRoot[e] \in Ids /\ \A i \in 1 .. Len(history[e]) : history[e][i] \in Ids
  BY ChainTypes DEF ChainInv, MoneyInv
<1>2. \A f \in Ids : escrow[f].status \in Terminal => escrow'[f].status \in Terminal
  BY ShapedFinal DEF ChainInv, MoneyInv
<1>3. Linked(e) /\ Chain(e)
  BY DEF ChainInv, Chains
<1>4. Linked(e)'
  BY <1>1, <1>3 DEF Still, Counted, Linked
<1>5. Chain(e)'
  BY <1>1, <1>2, <1>3 DEF Still, Counted, Chain
<1>6. QED
  BY <1>4, <1>5

LEMMA RootedChains ==
  ASSUME ChainInv, Shaped, NEW q \in Ids, Rooted(q)
  PROVE  Chains'
<1> SUFFICES ASSUME NEW e \in Ids
             PROVE  Linked(e)' /\ Chain(e)'
  BY DEF Chains
<1>1. /\ chainRoot[e] \in Ids /\ \A i \in 1 .. Len(history[e]) : history[e][i] \in Ids
      /\ nextId \in Int /\ e \in Int
  BY ChainTypes DEF ChainInv, MoneyInv
<1>2. \A f \in Ids : escrow[f].status \in Terminal => escrow'[f].status \in Terminal
  BY ShapedFinal DEF ChainInv, MoneyInv
<1>3. Linked(e) /\ Chain(e)
  BY DEF ChainInv, Chains
<1>4. /\ chainRoot[q] = q /\ history[q] = <<>>
      /\ \A i \in 1 .. Len(history[e]) : history[e][i] # q
      /\ chainRoot[e] # e => e # q /\ chainRoot[e] # q
  BY FreshIsAlone DEF Rooted
<1>5. Linked(e)'
  <2>1. CASE e = q
    BY <1>4, <2>1 DEF Rooted, Linked
  <2>2. CASE e # q
    BY <1>1, <1>3, <1>4, <2>2 DEF Rooted, Counted, Linked
  <2>3. QED
    BY <2>1, <2>2
<1>6. Chain(e)'
  <2>1. CASE e = q
    BY <1>4, <2>1 DEF Rooted, Chain
  <2>2. CASE e # q
    BY <1>1, <1>2, <1>3, <1>4, <2>2 DEF Rooted, Counted, Chain
  <2>3. QED
    BY <2>1, <2>2
<1>7. QED
  BY <1>5, <1>6

(* An open escrow is the last of its chain: its successors would have ended  *)
(* it, and whoever comes after it in its root's history would have, too.    *)
LEMMA OpenIsLast ==
  ASSUME ChainInv, NEW e \in Ids, escrow[e].status \in Open
  PROVE  /\ Len(history[chainRoot[e]]) = escrow[e].renewalsCompleted
         /\ terms[chainRoot[e]].maxRenewals = terms[e].maxRenewals
         /\ chainRoot[chainRoot[e]] = chainRoot[e]
         /\ chainRoot[e] # e => escrow[chainRoot[e]].status \in Terminal
         /\ e < nextId /\ chainRoot[e] < nextId
         /\ history[e] = <<>>
<1>1. /\ chainRoot[e] \in Ids /\ escrow[e].renewalsCompleted \in Nat
      /\ Len(history[chainRoot[e]]) \in Nat /\ nextId \in Int
      /\ \A f \in Ids : f \in Int
  BY ChainTypes DEF ChainInv, MoneyInv
<1>2. escrow[e].status \notin Terminal /\ escrow[e].status # "None"
  BY KindsOfStatus
<1>3. history[e] = <<>> /\ Len(history[e]) = 0
  BY <1>2 DEF ChainInv, Chains, Chain
<1>4. \A f \in Ids : escrow[f].status # "None" => f < nextId
  BY <1>1 DEF ChainInv, MoneyInv, Funds, Untouched
<1>5. CASE chainRoot[e] = e
  <2>1. escrow[e].renewalsCompleted = 0
    BY <1>5 DEF ChainInv, Chains, Linked
  <2>2. QED
    BY <1>2, <1>3, <1>4, <1>5, <2>1
<1>6. CASE chainRoot[e] # e
  <2> DEFINE r == chainRoot[e]
             i == escrow[e].renewalsCompleted
  <2>1. /\ i \in 1 .. Len(history[r]) /\ history[r][i] = e
        /\ terms[e].maxRenewals = terms[r].maxRenewals
    BY <1>6 DEF ChainInv, Chains, Linked
  <2>2. history[r] # <<>> /\ r \in Ids
    BY <1>1, <2>1
  <2>3. /\ chainRoot[r] = r /\ escrow[r].status \in Terminal
        /\ i < Len(history[r]) => escrow[history[r][i]].status \in Terminal
    BY <2>1, <2>2 DEF ChainInv, Chains, Chain
  <2>4. Len(history[r]) = i
    BY <1>1, <1>2, <2>1, <2>3
  <2>5. e < nextId /\ r < nextId
    BY <1>1, <1>2, <1>4, <2>2, <2>3, KindsOfStatus
  <2>6. QED
    BY <1>3, <2>1, <2>3, <2>4, <2>5
<1>7. QED
  BY <1>5, <1>6

(* A chain grows at its end, within its policy, by an escrow that is new.   *)
LEMMA GrownChains ==
  ASSUME ChainInv, Shaped, NEW e \in Ids, NEW q \in Ids, Grown(e, q)
  PROVE  Chains'
<1>r. PICK r \in Ids : r = chainRoot[e]
  BY ChainTypes DEF ChainInv, MoneyInv
<1>n. PICK n \in Nat : n = escrow[e].renewalsCompleted
  BY ChainTypes DEF ChainInv, MoneyInv
<1>1. /\ r \in Ids /\ n \in Nat /\ nextId \in Int
      /\ history[r] \in Seq(Ids) /\ Len(history[r]) = n
      /\ \A f \in Ids : f \in Int
  BY <1>r, <1>n, ChainTypes, OpenIsLast DEF ChainInv, MoneyInv, Grown
<1>2. /\ terms[r].maxRenewals = terms[e].maxRenewals /\ chainRoot[r] = r
      /\ chainRoot[e] # e => escrow[r].status \in Terminal
      /\ e < nextId /\ r < nextId /\ e # q /\ r # q /\ history[e] = <<>>
  BY <1>1, <1>r, OpenIsLast DEF Grown
<1>3. \A f \in Ids : escrow[f].status \in Terminal => escrow'[f].status \in Terminal
  BY ShapedFinal DEF ChainInv, MoneyInv
<1>4. /\ \A f \in Ids : f # r => history'[f] = history[f]
      /\ history'[r] = Append(history[r], q)
      /\ \A f \in Ids : f # q => chainRoot'[f] = chainRoot[f]
      /\ chainRoot'[q] = r
  BY <1>1, <1>r DEF Grown, ChainInv, MoneyInv, TypeOK, RenewalType
<1>5. /\ Len(history'[r]) = n + 1 /\ history'[r][n + 1] = q
      /\ \A i \in 1 .. n : history'[r][i] = history[r][i]
      /\ history'[r] # <<>>
  BY <1>1, <1>4
<1>6. /\ chainRoot[q] = q /\ history[q] = <<>>
      /\ \A s \in Ids : \A i \in 1 .. Len(history[s]) : history[s][i] # q
      /\ \A f \in Ids : chainRoot[f] # f => f # q /\ chainRoot[f] # q
  BY FreshIsAlone DEF Grown
<1>7. n > 0 => history[r][n] = e
  BY <1>1, <1>r, <1>n DEF ChainInv, Chains, Linked
<1>8. ASSUME NEW f \in Ids
      PROVE  Linked(f)'
  <2>1. Linked(f) /\ chainRoot[f] \in Ids /\ escrow[f].renewalsCompleted \in Nat
    BY ChainTypes DEF ChainInv, MoneyInv, Chains
  <2>2. CASE f = q
    <3>1. escrow'[q].renewalsCompleted = n + 1 /\ nextId' = nextId + 1 /\ q = nextId
      BY <1>n DEF Grown
    <3>2. terms'[q].maxRenewals = terms'[r].maxRenewals
      BY <1>1, <1>2 DEF Grown, Counted
    <3>3. history'[q] = <<>> /\ n + 1 \in 1 .. Len(history'[r])
      BY <1>1, <1>2, <1>4, <1>5, <1>6
    <3>4. QED
      BY <1>1, <1>2, <1>4, <1>5, <2>2, <3>1, <3>2, <3>3 DEF Linked
  <2>3. CASE f # q /\ chainRoot[f] = f
    BY <1>4, <2>1, <2>3 DEF Grown, Counted, Linked
  <2>4. CASE f # q /\ chainRoot[f] # f
    <3> DEFINE s == chainRoot[f]
               i == escrow[f].renewalsCompleted
    <3>1. /\ f < nextId /\ history[f] = <<>> /\ f # r
          /\ i \in 1 .. Len(history[s]) /\ history[s][i] = f
          /\ terms[f].maxRenewals = terms[s].maxRenewals /\ s # q /\ s \in Ids
      BY <1>2, <1>6, <2>1, <2>4 DEF Linked
    <3>2. i \in 1 .. Len(history'[s]) /\ history'[s][i] = f
      <4>1. CASE s = r
        <5>1. i \in 1 .. n /\ history[r][i] = f
          BY <1>1, <3>1, <4>1
        <5> HIDE DEF i, s
        <5>2. i \in 1 .. n + 1 /\ history'[r][i] = history[r][i]
          BY <1>1, <1>5, <5>1
        <5>3. QED
          BY <1>5, <4>1, <5>1, <5>2
      <4>2. CASE s # r
        BY <1>4, <3>1, <4>2
      <4>3. QED
        BY <4>1, <4>2
    <3>3. escrow'[f].renewalsCompleted = i /\ terms'[f] = terms[f] /\ terms'[s] = terms[s]
      BY <2>4, <3>1 DEF Grown, Counted
    <3>4. chainRoot'[f] = s /\ history'[f] = <<>> /\ f < nextId'
      BY <1>1, <1>4, <2>4, <3>1 DEF Grown
    <3> HIDE DEF s, i
    <3>5. s # f
      BY <2>4 DEF s
    <3>6. QED
      BY <3>1, <3>2, <3>3, <3>4, <3>5 DEF Linked
  <2>5. QED
    BY <2>2, <2>3, <2>4
<1>9. ASSUME NEW s \in Ids, s # r
      PROVE  Chain(s)'
  <2>1. /\ Chain(s) /\ history'[s] = history[s]
        /\ \A i \in 1 .. Len(history[s]) : history[s][i] \in Ids /\ history[s][i] # q
    BY <1>4, <1>6, <1>9, ChainTypes DEF ChainInv, MoneyInv, Chains
  <2>2. CASE history[s] = <<>>
    BY <2>1, <2>2 DEF Chain
  <2>3. CASE history[s] # <<>>
    <3>1. s # q /\ chainRoot'[s] = chainRoot[s] /\ terms'[s] = terms[s]
      BY <1>4, <1>6, <2>3 DEF Grown, Counted
    <3>2. \A i \in 1 .. Len(history[s]) :
            /\ chainRoot'[history[s][i]] = chainRoot[history[s][i]]
            /\ escrow'[history[s][i]].renewalsCompleted
                 = escrow[history[s][i]].renewalsCompleted
            /\ escrow[history[s][i]].status \in Terminal =>
                 escrow'[history[s][i]].status \in Terminal
      BY <1>3, <1>4, <2>1 DEF Grown, Counted
    <3>3. escrow[s].status \in Terminal => escrow'[s].status \in Terminal
      BY <1>3
    <3>4. QED
      BY <2>1, <2>3, <3>1, <3>2, <3>3 DEF Chain
  <2>4. QED
    BY <2>2, <2>3
<1>10. Chain(r)'
  <2>1. Chain(r)
    BY <1>1 DEF ChainInv, Chains
  <2>2. /\ chainRoot'[r] = r /\ escrow'[r].status \in Terminal
        /\ terms'[r] = terms[r]
    <3>1. escrow'[r].status \in Terminal
      BY <1>1, <1>2, <1>3, <1>r DEF Grown
    <3>2. QED
      BY <1>1, <1>2, <1>4, <3>1 DEF Grown, Counted
  <2>3. terms'[r].maxRenewals # Unset /\ Len(history'[r]) <= terms'[r].maxRenewals
    <3>1. terms[e].maxRenewals # Unset /\ n < terms[e].maxRenewals
      BY <1>n DEF Grown
    <3>2. terms[e].maxRenewals \in Int
      BY ChainTypes DEF ChainInv, MoneyInv
    <3>3. QED
      BY <1>1, <1>2, <1>5, <2>2, <3>1, <3>2
  <2>4. ASSUME NEW i \in 1 .. n
        PROVE  /\ history'[r][i] # r
               /\ escrow'[history'[r][i]].renewalsCompleted = i
               /\ chainRoot'[history'[r][i]] = r
               /\ escrow'[history'[r][i]].status \in Terminal
    <3> DEFINE f == history[r][i]
    <3>1. /\ f \in Ids /\ f # q /\ history'[r][i] = f /\ i \in 1 .. Len(history[r])
          /\ history[r] # <<>>
      BY <1>1, <1>5, <1>6
    <3>2. /\ f # r /\ escrow[f].renewalsCompleted = i /\ chainRoot[f] = r
          /\ i < n => escrow[f].status \in Terminal
      BY <1>1, <2>1, <3>1 DEF Chain
    <3>3. escrow'[f].status \in Terminal
      <4>1. CASE i < n
        BY <1>3, <3>1, <3>2, <4>1
      <4>2. CASE i = n
        BY <1>7, <4>2 DEF Grown
      <4>3. QED
        BY <1>1, <4>1, <4>2
    <3>4. QED
      BY <1>4, <3>1, <3>2, <3>3 DEF Grown, Counted
  <2>5. /\ history'[r][n + 1] # r /\ chainRoot'[history'[r][n + 1]] = r
        /\ escrow'[history'[r][n + 1]].renewalsCompleted = n + 1
    BY <1>2, <1>4, <1>5, <1>n DEF Grown
  <2>6. \A i \in 1 .. n + 1 : i \in 1 .. n \/ (i = n + 1 /\ ~(i < n + 1))
    OBVIOUS
  <2>7. QED
    BY <1>5, <2>2, <2>3, <2>4, <2>5, <2>6 DEF Chain
<1>11. QED
  BY <1>8, <1>9, <1>10 DEF Chains

LEMMA ChainedChains ==
  ASSUME ChainInv, Shaped, Chained
  PROVE  Chains'
BY StillChains, RootedChains, GrownChains DEF Chained

-----------------------------------------------------------------------------
(* Every entry point is a step of the chains.                               *)

LEMMA UntouchedStill ==
  ASSUME UNCHANGED <<nextId, escrow, terms, chainRoot, history>>
  PROVE  Chained
BY DEF Chained, Still, Counted

LEMMA RecordStill ==
  ASSUME TypeOK, NEW e \in Ids, NEW r, escrow' = [escrow EXCEPT ![e] = r],
         r.renewalsCompleted = escrow[e].renewalsCompleted,
         UNCHANGED <<nextId, terms, chainRoot, history>>
  PROVE  Chained
<1>1. escrow'[e] = r /\ \A f \in Ids : f # e => escrow'[f] = escrow[f]
  BY DEF TypeOK, EscrowType
<1>2. QED
  BY <1>1 DEF Chained, Still, Counted

LEMMA StatusStill ==
  ASSUME TypeOK, NEW e \in Ids, NEW status,
         escrow' = [escrow EXCEPT ![e].status = status],
         UNCHANGED <<nextId, terms, chainRoot, history>>
  PROVE  Chained
<1>1. /\ escrow'[e].renewalsCompleted = escrow[e].renewalsCompleted
      /\ \A f \in Ids : f # e => escrow'[f] = escrow[f]
  BY DEF TypeOK, EscrowType, EscrowRecord
<1>2. QED
  BY <1>1 DEF Chained, Still, Counted

LEMMA SettleStill ==
  ASSUME TypeOK, NEW e \in Ids, NEW status, NEW b, NEW s, Settle(e, status, b, s)
  PROVE  Chained
BY StatusStill DEF Settle, renewalVars

LEMMA RewriteStill ==
  ASSUME TypeOK, NEW e \in Ids, NEW r, Rewrite(e, r),
         r.renewalsCompleted = escrow[e].renewalsCompleted
  PROVE  Chained
BY RecordStill DEF Rewrite, renewalVars

LEMMA WithStatusCount ==
  ASSUME TypeOK, NEW e \in Ids, NEW status
  PROVE  WithStatus(e, status).renewalsCompleted = escrow[e].renewalsCompleted
<1>1. escrow[e] \in EscrowRecord
  BY DEF TypeOK, EscrowType
<1>2. QED
  BY <1>1 DEF WithStatus, EscrowRecord

LEMMA StoreRooted ==
  ASSUME TypeOK, NEW r \in Request, NEW status, Store(r, status)
  PROVE  Chained
<1>1. nextId \in Ids
  BY CreatedIds DEF Store, TypeOK
<1>2. PICK q \in Ids : q = nextId
  BY <1>1
<1>3. /\ escrow'[q].renewalsCompleted = 0
      /\ \A f \in Ids : f # q => escrow'[f] = escrow[f] /\ terms'[f] = terms[f]
  BY <1>2 DEF Store, TypeOK, EscrowType
<1>4. Rooted(q)
  BY <1>2, <1>3 DEF Rooted, Counted, Store, renewalVars
<1>5. QED
  BY <1>4 DEF Chained

LEMMA CreationChained ==
  ASSUME TypeOK, CreationNext
  PROVE  Chained
<1>1. PICK r \in Requests : Creation(r)
  BY DEF CreationNext
<1>2. r \in Request
  BY InputAssumption
<1>3. \E status : Store(r, status)
  BY <1>1 DEF Creation, CreateEscrow, CreateEscrowWithInspector, CreateMultiSellerEscrow,
              CreateMultiBuyerEscrow, CreateCore
<1>4. QED
  BY <1>2, <1>3, StoreRooted

(* What both renewal paths do to the two records.                           *)
LEMMA RenewRecords ==
  ASSUME TypeOK, Funds, NEW e \in Ids, escrow[e].status \in Open,
         NEW successor, NEW timers, Renew(e, successor, timers),
         NEW q \in Ids, q = nextId
  PROVE  /\ e # q /\ nextId' = nextId + 1
         /\ escrow'[e].status = "Released" /\ escrow'[q] = successor
         /\ terms'[q].maxRenewals = terms[e].maxRenewals
         /\ \A f \in Ids : f # q => Counted(f)
<1>1. e # q
  <2>1. escrow[q].status = "None"
    BY DEF Funds, Untouched, Ids
  <2>2. QED
    BY <2>1, KindsOfStatus
<1>2. /\ escrow'[q] = successor /\ escrow'[e] = Released(e)[e]
      /\ \A f \in Ids : f \notin {e, q} => escrow'[f] = escrow[f]
  BY <1>1 DEF Renew, Released, TypeOK, EscrowType
<1>3. /\ Released(e)[e].status = "Released"
      /\ Released(e)[e].renewalsCompleted = escrow[e].renewalsCompleted
  BY DEF Released, TypeOK, EscrowType, EscrowRecord
<1>4. /\ terms'[q] = [terms[e] EXCEPT !.collateral = 0, !.collateralDeadline = 0]
      /\ \A f \in Ids : f # q => terms'[f] = terms[f]
  BY DEF Renew, TypeOK, EscrowType
<1>5. terms'[q].maxRenewals = terms[e].maxRenewals
  <2>1. terms[e] \in Terms
    BY DEF TypeOK, EscrowType
  <2>2. QED
    BY <1>4, <2>1 DEF Terms
<1>6. nextId' = nextId + 1
  BY DEF Renew
<1>7. QED
  BY <1>1, <1>2, <1>3, <1>4, <1>5, <1>6 DEF Counted

LEMMA SuccessorCount ==
  ASSUME TypeOK, NEW e \in Ids, NEW deadline, NEW remaining, NEW completed
  PROVE  Successor(e, deadline, remaining, completed).renewalsCompleted = completed
<1>1. escrow[e] \in EscrowRecord
  BY DEF TypeOK, EscrowType
<1>2. QED
  BY <1>1 DEF Successor, EscrowRecord

LEMMA ReleaseEscrowChained ==
  ASSUME TypeOK, Funds, NEW e \in Ids, NEW caller \in Addr, ReleaseEscrow(e, caller)
  PROVE  Chained
<1> DEFINE timers == TouchedBy(e, caller)
<1>1. escrow[e].status \in Open
  BY DEF ReleaseEscrow
<1>2. CASE ReleaseOnly(e, timers)
  BY <1>2, StatusStill DEF ReleaseOnly, Released, renewalVars
<1>3. CASE RenewalDue(e) /\ RenewConfigured(e, timers)
  <2> DEFINE successor == Successor(e, now + terms[e].interval * 5,
                            IF escrow[e].renewalsRemaining > 0
                            THEN escrow[e].renewalsRemaining - 1 ELSE 0,
                            escrow[e].renewalsCompleted + 1)
  <2>1. /\ Renew(e, successor, timers) /\ terms[e].maxRenewals # Unset
        /\ history' = [history EXCEPT ![chainRoot[e]] = Append(@, nextId)]
        /\ chainRoot' = [chainRoot EXCEPT ![nextId] = chainRoot[e]]
    BY <1>3 DEF RenewConfigured
  <2>2. escrow[e].renewalsCompleted < terms[e].maxRenewals
    BY <1>3, <2>1 DEF RenewalDue
  <2>3. successor.renewalsCompleted = escrow[e].renewalsCompleted + 1
    BY SuccessorCount
  <2> HIDE DEF successor
  <2>4. PICK q \in Ids : q = nextId
    BY <2>1, CreatedIds DEF Renew, TypeOK
  <2>5. /\ escrow'[e].status = "Released" /\ escrow'[q] = successor
        /\ terms'[q].maxRenewals = terms[e].maxRenewals /\ nextId' = nextId + 1
        /\ \A f \in Ids : f # q => Counted(f)
    BY <1>1, <2>1, <2>4, RenewRecords
  <2>6. Grown(e, q)
    BY <1>1, <2>1, <2>2, <2>3, <2>4, <2>5, KindsOfStatus DEF Grown
  <2>7. QED
    BY <2>6 DEF Chained
<1>4. CASE RenewalDue(e) /\ RenewLegacy(e, timers)
  <2> DEFINE successor == Successor(e, now + (escrow[e].deadline - escrow[e].createdAt),
                            IF terms[e].renewalCount = 0
                            THEN 0 ELSE escrow[e].renewalsRemaining - 1, 0)
  <2>1. Renew(e, successor, timers) /\ UNCHANGED <<chainRoot, history>>
    BY <1>4 DEF RenewLegacy
  <2>2. successor.renewalsCompleted = 0
    BY SuccessorCount
  <2> HIDE DEF successor
  <2>3. PICK q \in Ids : q = nextId
    BY <2>1, CreatedIds DEF Renew, TypeOK
  <2>4. /\ escrow'[q] = successor /\ nextId' = nextId + 1
        /\ \A f \in Ids : f # q => Counted(f)
    BY <1>1, <2>1, <2>3, RenewRecords
  <2>5. Rooted(q)
    BY <2>1, <2>2, <2>3, <2>4 DEF Rooted
  <2>6. QED
    BY <2>5 DEF Chained
<1>5. QED
  BY <1>2, <1>3, <1>4 DEF ReleaseEscrow

LEMMA ReleaseNextChained ==
  ASSUME TypeOK, Funds, ReleaseNext
  PROVE  Chained
<1>1. PICK e \in Created :
        \/ DepositCollateral(e)
        \/ \E caller \in Addr : ApproveMultiBuyerRelease(e, caller)
        \/ \E caller \in Addr : ReleaseEscrow(e, caller)
        \/ \E caller \in Addr, x \in Amounts : PartialRelease(e, caller, x)
        \/ AutoReleaseExpired(e)
        \/ ClaimInactivityRelease(e)
        \/ CheckAndReleaseEscrow(e)
  BY DEF ReleaseNext
<1>2. e \in Ids /\ escrow[e] \in EscrowRecord
  BY CreatedIds DEF TypeOK, EscrowType
<1>3. CASE DepositCollateral(e)
  BY <1>2, <1>3, StatusStill DEF DepositCollateral, renewalVars
<1>4. CASE \E caller \in Addr : ApproveMultiBuyerRelease(e, caller)
  BY <1>4, UntouchedStill DEF ApproveMultiBuyerRelease, renewalVars
<1>5. CASE \E caller \in Addr : ReleaseEscrow(e, caller)
  BY <1>2, <1>5, ReleaseEscrowChained
<1>6. ASSUME NEW caller \in Addr, NEW x \in Amounts, PartialRelease(e, caller, x)
      PROVE  Chained
  <2>1. PICK status : escrow' = [escrow EXCEPT ![e] = Holding(e, escrow[e].amount - x, status)]
    BY <1>6 DEF PartialRelease
  <2>2. Holding(e, escrow[e].amount - x, status).renewalsCompleted
          = escrow[e].renewalsCompleted
    BY <1>2 DEF Holding, EscrowRecord
  <2>3. UNCHANGED <<nextId, terms, chainRoot, history>>
    BY <1>6 DEF PartialRelease, renewalVars
  <2>4. QED
    BY <1>2, <2>1, <2>2, <2>3, RecordStill
<1>7. CASE AutoReleaseExpired(e) \/ ClaimInactivityRelease(e) \/ CheckAndReleaseEscrow(e)
  BY <1>2, <1>7, SettleStill
     DEF AutoReleaseExpired, ClaimInactivityRelease, CheckAndReleaseEscrow
<1>8. QED
  BY <1>1, <1>3, <1>4, <1>5, <1>6, <1>7

LEMMA RenewalNextChained ==
  ASSUME TypeOK, RenewalNext
  PROVE  Chained
<1>1. PICK e \in Created :
        \/ \E n \in 0 .. MaxEscrows : SetRenewalAllowance(e, n)
        \/ CancelAutoRenew(e)
        \/ CancelAutoRenewal(e)
  BY DEF RenewalNext
<1>2. e \in Ids /\ escrow[e] \in EscrowRecord
  BY CreatedIds DEF TypeOK, EscrowType
<1>3. CASE \/ \E n \in 0 .. MaxEscrows : SetRenewalAllowance(e, n)
           \/ CancelAutoRenewal(e)
  BY <1>3, UntouchedStill DEF SetRenewalAllowance, CancelAutoRenewal, escrowVars
<1>4. CASE CancelAutoRenew(e)
  <2> DEFINE r == [escrow[e] EXCEPT !.autoRenew = FALSE, !.renewalsRemaining = 0]
  <2>1. r.renewalsCompleted = escrow[e].renewalsCompleted
    BY <1>2 DEF EscrowRecord
  <2>2. /\ escrow' = [escrow EXCEPT ![e] = r]
        /\ UNCHANGED <<nextId, terms, chainRoot, history>>
    BY <1>4 DEF CancelAutoRenew
  <2> HIDE DEF r
  <2>3. QED
    BY <1>2, <2>1, <2>2, RecordStill
<1>5. QED
  BY <1>1, <1>3, <1>4

LEMMA ConditionNextChained ==
  ASSUME TypeOK, Funds, ConditionNext
  PROVE  Chained
<1>1. PICK e \in Created :
        \/ SetConditionalRelease(e)
        \/ \E caller \in Addr : TriggerConditionalRelease(e, caller)
        \/ \E caller \in Addr : WaiveReleaseCondition(e, caller)
        \/ \E holder \in Addr : TransferEscrowReceipt(e, holder)
        \/ \E caller \in Addr : UpdateMetadata(e, caller)
  BY DEF ConditionNext
<1>2. e \in Ids
  BY CreatedIds DEF TypeOK
<1>3. CASE \E caller \in Addr : TriggerConditionalRelease(e, caller)
  BY <1>2, <1>3, ReleaseEscrowChained DEF TriggerConditionalRelease
<1>4. CASE \/ SetConditionalRelease(e)
           \/ \E caller \in Addr : WaiveReleaseCondition(e, caller)
           \/ \E holder \in Addr : TransferEscrowReceipt(e, holder)
           \/ \E caller \in Addr : UpdateMetadata(e, caller)
  BY <1>4, UntouchedStill DEF SetConditionalRelease, WaiveReleaseCondition,
     TransferEscrowReceipt, UpdateMetadata, escrowVars, renewalVars
<1>5. QED
  BY <1>1, <1>3, <1>4

LEMMA VerdictStill ==
  ASSUME TypeOK, NEW e \in Ids, NEW percent, ExecuteVerdict(e, percent)
  PROVE  Chained
BY StatusStill DEF ExecuteVerdict, renewalVars

LEMMA DisputeNextChained ==
  ASSUME TypeOK, DisputeNext
  PROVE  Chained
<1>1. PICK e \in Created :
        \/ \E caller \in Addr, x \in Amounts : DisputeEscrow(e, caller, x)
        \/ \E percent \in Percents : ResolveDispute(e, percent)
        \/ \E percent \in Percents : RecordVerdict(e, percent)
        \/ \E caller \in Addr : FlagResolutionError(e, caller)
        \/ FinalizeResolution(e)
        \/ ClearResolutionFlag(e)
        \/ EnforceDisputeTimeout(e)
  BY DEF DisputeNext
<1>2. e \in Ids /\ escrow[e] \in EscrowRecord
  BY CreatedIds DEF TypeOK, EscrowType
<1>3. ASSUME NEW caller \in Addr, NEW x \in Amounts, DisputeEscrow(e, caller, x)
      PROVE  Chained
  <2>1. PICK status : escrow' = [escrow EXCEPT ![e] = Holding(e, x, status)]
    BY <1>3 DEF DisputeEscrow
  <2>2. Holding(e, x, status).renewalsCompleted = escrow[e].renewalsCompleted
    BY <1>2 DEF Holding, EscrowRecord
  <2>3. UNCHANGED <<nextId, terms, chainRoot, history>>
    BY <1>3 DEF DisputeEscrow, renewalVars
  <2>4. QED
    BY <1>2, <2>1, <2>2, <2>3, RecordStill
<1>4. CASE (\E percent \in Percents : ResolveDispute(e, percent)) \/ FinalizeResolution(e)
  BY <1>2, <1>4, VerdictStill DEF ResolveDispute, FinalizeResolution
<1>5. CASE \E percent \in Percents : RecordVerdict(e, percent)
  BY <1>2, <1>5, StatusStill DEF RecordVerdict, renewalVars
<1>6. CASE (\E caller \in Addr : FlagResolutionError(e, caller)) \/ ClearResolutionFlag(e)
  BY <1>6, UntouchedStill DEF FlagResolutionError, ClearResolutionFlag, escrowVars,
     renewalVars
<1>7. CASE EnforceDisputeTimeout(e)
  BY <1>2, <1>7, SettleStill DEF EnforceDisputeTimeout
<1>8. QED
  BY <1>1, <1>3, <1>4, <1>5, <1>6, <1>7

LEMMA CancellationNextChained ==
  ASSUME TypeOK, CancellationNext
  PROVE  Chained
<1>1. PICK e \in Created :
        \/ \E caller \in Addr : RequestCancellation(e, caller)
        \/ \E caller \in Addr : AcceptCancellation(e, caller)
        \/ \E caller \in Addr : RejectCancellation(e, caller)
        \/ AcceptExpiredCancellation(e)
        \/ ExpireCancellation(e)
  BY DEF CancellationNext
<1>2. e \in Ids
  BY CreatedIds DEF TypeOK
<1>3. CASE \E caller \in Addr : AcceptCancellation(e, caller)
  BY <1>2, <1>3, StatusStill DEF AcceptCancellation, renewalVars
<1>4. CASE \/ \E caller \in Addr : RequestCancellation(e, caller) \/ RejectCancellation(e, caller)
           \/ AcceptExpiredCancellation(e) \/ ExpireCancellation(e)
  <2>1. \E status : Rewrite(e, WithStatus(e, status))
    BY <1>4 DEF RequestCancellation, RejectCancellation, AcceptExpiredCancellation,
                ExpireCancellation, Reopen
  <2>2. QED
    BY <1>2, <2>1, RewriteStill, WithStatusCount
<1>5. QED
  BY <1>1, <1>3, <1>4

LEMMA AmendStill ==
  ASSUME TypeOK, NEW e \in Ids, Amend(e)
  PROVE  Chained
<1> DEFINE a == amendment[e]
           change == IF a.amount = Unset THEN 0 ELSE a.amount - escrow[e].amount
           r == [escrow[e] EXCEPT !.amount = @ + change,
                              !.deadline = IF a.deadline = Unset THEN @ ELSE a.deadline]
<1>1. r.renewalsCompleted = escrow[e].renewalsCompleted
  <2>1. escrow[e] \in EscrowRecord
    BY DEF TypeOK, EscrowType
  <2>2. QED
    BY <2>1 DEF EscrowRecord
<1>2. escrow' = [escrow EXCEPT ![e] = r] /\ UNCHANGED <<nextId, terms, chainRoot, history>>
  BY DEF Amend, renewalVars
<1> HIDE DEF r
<1>3. QED
  BY <1>1, <1>2, RecordStill

LEMMA AmendmentNextChained ==
  ASSUME TypeOK, AmendmentNext
  PROVE  Chained
<1>1. PICK e \in Created :
        \/ \E caller \in Addr, d \in Times : ProposeDeadlineExtension(e, caller, d)
        \/ \E caller \in Addr : AcceptDeadlineExtension(e, caller)
        \/ \E caller \in Addr, x \in Amounts \cup {Unset}, d \in Times \cup {Unset} :
             ProposeAmendment(e, caller, x, d)
        \/ \E caller \in Addr, n \in 0 .. MaxRounds : SignAmendment(e, caller, n)
        \/ \E n \in 0 .. MaxRounds : ApplyAmendment(e, n)
        \/ \E x \in Amounts : TopUpEscrow(e, x)
        \/ AcknowledgeTopup(e)
  BY DEF AmendmentNext
<1>2. e \in Ids /\ escrow[e] \in EscrowRecord
  BY CreatedIds DEF TypeOK, EscrowType
<1>3. CASE \/ \E caller \in Addr, d \in Times : ProposeDeadlineExtension(e, caller, d)
           \/ \E caller \in Addr, x \in Amounts \cup {Unset}, d \in Times \cup {Unset} :
                ProposeAmendment(e, caller, x, d)
  BY <1>3, UntouchedStill DEF ProposeDeadlineExtension, ProposeAmendment, escrowVars,
     renewalVars
<1>4. CASE (\E caller \in Addr : AcceptDeadlineExtension(e, caller)) \/ AcknowledgeTopup(e)
  <2>1. \/ Rewrite(e, [escrow[e] EXCEPT !.deadline = extension[e].deadline])
        \/ Rewrite(e, [escrow[e] EXCEPT !.acknowledged = TRUE])
    BY <1>4 DEF AcceptDeadlineExtension, AcknowledgeTopup
  <2>2. /\ [escrow[e] EXCEPT !.deadline = extension[e].deadline].renewalsCompleted
             = escrow[e].renewalsCompleted
        /\ [escrow[e] EXCEPT !.acknowledged = TRUE].renewalsCompleted
             = escrow[e].renewalsCompleted
    BY <1>2 DEF EscrowRecord
  <2>3. QED
    BY <1>2, <2>1, <2>2, RewriteStill
<1>5. CASE \E caller \in Addr, n \in 0 .. MaxRounds : SignAmendment(e, caller, n)
  BY <1>2, <1>5, AmendStill, UntouchedStill DEF SignAmendment, escrowVars, renewalVars
<1>6. CASE \E n \in 0 .. MaxRounds : ApplyAmendment(e, n)
  BY <1>2, <1>6, AmendStill DEF ApplyAmendment
<1>7. ASSUME NEW x \in Amounts, TopUpEscrow(e, x)
      PROVE  Chained
  <2> DEFINE r == [escrow[e] EXCEPT !.amount = @ + x, !.acknowledged = FALSE]
  <2>1. r.renewalsCompleted = escrow[e].renewalsCompleted
    BY <1>2 DEF EscrowRecord
  <2>2. /\ escrow' = [escrow EXCEPT ![e] = r]
        /\ UNCHANGED <<nextId, terms, chainRoot, history>>
    BY <1>7 DEF TopUpEscrow, renewalVars
  <2> HIDE DEF r
  <2>3. QED
    BY <1>2, <2>1, <2>2, RecordStill
<1>8. QED
  BY <1>1, <1>3, <1>4, <1>5, <1>6, <1>7

LEMMA PartyNextChained ==
  ASSUME TypeOK, PartyNext
  PROVE  Chained
<1>1. PICK e \in Created :
        \/ \E newBuyer \in Addr : TransferBuyerRole(e, newBuyer)
        \/ \E newSeller \in Addr : TransferSellerRole(e, newSeller)
        \/ ApproveSellerTransfer(e)
        \/ ExpireSellerTransferVeto(e)
        \/ VetoSellerTransfer(e)
  BY DEF PartyNext
<1>2. e \in Ids /\ escrow[e] \in EscrowRecord
  BY CreatedIds DEF TypeOK, EscrowType
<1>3. ASSUME NEW newBuyer \in Addr, TransferBuyerRole(e, newBuyer)
      PROVE  Chained
  <2>1. [escrow[e] EXCEPT !.buyer = newBuyer].renewalsCompleted
          = escrow[e].renewalsCompleted
    BY <1>2 DEF EscrowRecord
  <2>2. QED
    BY <1>2, <1>3, <2>1, RewriteStill DEF TransferBuyerRole
<1>4. CASE \E newSeller \in Addr : TransferSellerRole(e, newSeller)
  BY <1>2, <1>4, RewriteStill, WithStatusCount DEF TransferSellerRole
<1>5. CASE ApproveSellerTransfer(e) \/ ExpireSellerTransferVeto(e)
  <2>1. [escrow[e] EXCEPT !.status = "Active",
                          !.seller = transfer[e].newSeller].renewalsCompleted
          = escrow[e].renewalsCompleted
    BY <1>2 DEF EscrowRecord
  <2>2. QED
    BY <1>2, <1>5, <2>1, RewriteStill
       DEF ApproveSellerTransfer, ExpireSellerTransferVeto, ConcludeSellerTransfer
<1>6. CASE VetoSellerTransfer(e)
  BY <1>2, <1>6, SettleStill DEF VetoSellerTransfer
<1>7. QED
  BY <1>1, <1>3, <1>4, <1>5, <1>6

LEMMA InspectionNextChained ==
  ASSUME TypeOK, InspectionNext
  PROVE  Chained
<1>1. PICK e \in Created :
        \/ SellerMarkComplete(e)
        \/ \E approved \in BOOLEAN : SubmitInspectionReport(e, approved)
        \/ \E caller, insp \in Addr : ReplaceInspector(e, caller, insp)
        \/ AppealInspectorRuling(e)
  BY DEF InspectionNext
<1>2. e \in Ids /\ escrow[e] \in EscrowRecord
  BY CreatedIds DEF TypeOK, EscrowType
<1>3. CASE \/ SellerMarkComplete(e)
           \/ \E approved \in BOOLEAN : SubmitInspectionReport(e, approved)
  BY <1>2, <1>3, RewriteStill, WithStatusCount
     DEF SellerMarkComplete, SubmitInspectionReport
<1>4. ASSUME NEW caller \in Addr, NEW insp \in Addr, ReplaceInspector(e, caller, insp)
      PROVE  Chained
  <2> DEFINE r == [escrow[e] EXCEPT !.inspector = insp,
                     !.status = IF @ \in {"AwaitingInspection", "InspectionFailed"}
                                THEN "Active" ELSE @]
  <2>1. r.renewalsCompleted = escrow[e].renewalsCompleted
    BY <1>2 DEF EscrowRecord
  <2>2. \/ Rewrite(e, r)
        \/ UNCHANGED <<nextId, escrow, terms, chainRoot, history>>
    BY <1>4 DEF ReplaceInspector, escrowVars, renewalVars
  <2> HIDE DEF r
  <2>3. QED
    BY <1>2, <2>1, <2>2, RewriteStill, UntouchedStill
<1>5. CASE AppealInspectorRuling(e)
  BY <1>5, UntouchedStill DEF AppealInspectorRuling, escrowVars, renewalVars
<1>6. QED
  BY <1>1, <1>3, <1>4, <1>5

LEMMA OtherChained ==
  ASSUME VetoNext \/ AdminNext \/ Tick \/ UNCHANGED vars
  PROVE  Chained
<1>1. UNCHANGED <<nextId, escrow, terms, chainRoot, history>>
  BY DEF VetoNext, RaiseSellerVeto, AdminOverrideVeto, StampVeto, SetVetoCooldownSeconds,
         AdminNext, SetResolutionCooloff, UpdateDefaultDisputeTimeout,
         SetDefaultDisputeWinner, ConfigSet, WithdrawFees, PauseContract, ResumeContract,
         Tick, vars, escrowVars, renewalVars
<1>2. QED
  BY <1>1, UntouchedStill

LEMMA StepChained ==
  ASSUME TypeOK, Funds, [Next]_vars
  PROVE  Chained
BY CreationChained, ReleaseNextChained, RenewalNextChained, ConditionNextChained,
   DisputeNextChained, CancellationNextChained, AmendmentNextChained, PartyNextChained,
   InspectionNextChained, OtherChained DEF Next

-----------------------------------------------------------------------------
(* The invariant.                                                           *)

LEMMA InitChains == InitBase => ChainInv
<1> SUFFICES ASSUME InitBase
             PROVE  ChainInv
  OBVIOUS
<1>1. \A e \in Ids : /\ chainRoot[e] = e /\ history[e] = <<>>
                    /\ escrow[e].renewalsCompleted = 0
  BY DEF InitBase, NoEscrow
<1>2. Chains
  BY <1>1 DEF Chains, Linked, Chain
<1>3. QED
  BY <1>2, InitMoney DEF ChainInv

LEMMA StepChains ==
  ASSUME ChainInv, [Next]_vars
  PROVE  ChainInv'
<1>1. MoneyInv' /\ Shaped
  BY StepMoney, StepShaped DEF ChainInv
<1>2. Chains'
  BY <1>1, StepChained, ChainedChains DEF ChainInv, MoneyInv
<1>3. QED
  BY <1>1, <1>2 DEF ChainInv

(* A chain of renewals never outgrows the cycles the policy of its first    *)
(* escrow allows, and its history lists the successors in their order with  *)
(* all but the last one ended: however releases, cancellations of renewal,  *)
(* disputes and verdicts are interleaved, no escrow is renewed twice.       *)
THEOREM RenewalChainBoundedAlways == Spec => []RenewalChainBounded
<1>1. InitBase => ChainInv
  BY InitChains
<1>2. ChainInv /\ [Next]_vars => ChainInv'
  BY StepChains
<1>3. ChainInv => RenewalChainBounded
  <2> SUFFICES ASSUME ChainInv, NEW r \in Ids
               PROVE  /\ history[r] # <<>> => Len(history[r]) <= terms[r].maxRenewals
                      /\ \A i \in 1 .. Len(history[r]) :
                           /\ escrow[history[r][i]].renewalsCompleted = i
                           /\ chainRoot[history[r][i]] = r
                           /\ i < Len(history[r]) =>
                                escrow[history[r][i]].status \in Terminal
    BY DEF RenewalChainBounded
  <2>1. CASE history[r] = <<>>
    BY <2>1
  <2>2. CASE history[r] # <<>>
    BY <2>2 DEF ChainInv, Chains, Chain
  <2>3. QED
    BY <2>1, <2>2
<1>4. QED
  BY <1>1, <1>2, <1>3, PTL DEF Spec

=============================================================================
