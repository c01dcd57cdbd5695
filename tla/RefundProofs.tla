----------------------------- MODULE RefundProofs -----------------------------
(***************************************************************************)
(* The money of a refund, the books, the admin's queue and the whitelist,  *)
(* for every value of the constants: a refund is paid once out of its own  *)
(* deposit, save for an appeal, and once out of its merchant's reserve,    *)
(* what has ended stays ended, what waits is on the queue, balances are    *)
(* what deposits and reserves add up to, only listed tokens carry a        *)
(* suspension, and votes are counted once.                                 *)
(*                                                                         *)
(* A call either handles one refund (Handled), asks for a new one (Asked), *)
(* or leaves deposits, statuses and amounts alone (Aside).                 *)
(***************************************************************************)
EXTENDS Refund, SumFacts

(* The statuses from which a refund may still be paid.                      *)
Open == Waiting \cup {"Approved", "Rejected", "UnderAppeal"}
(* Those in which its deposit is untouched; a rejection may have paid it    *)
(* back.                                                                    *)
Backed == Waiting \cup {"Approved"}

Shape(f) == {"status", "amount", "offer"} \subseteq DOMAIN f

(* A refund that may still be paid asks for a natural amount, a counter-    *)
(* offer does not exceed it, and until somebody decides the deposit is the  *)
(* amount.                                                                  *)
Sound(f, deposit) ==
  /\ Shape(f)
  /\ f.status \in RefundStatus
  /\ f.status \in Open => f.amount \in Nat
  /\ f.status \in Backed => deposit = f.amount
  /\ f.status = "CounterOffered" => f.offer.amount \in Nat /\ f.offer.amount <= f.amount

RefundInv ==
  /\ refund = [r \in Ids |-> refund[r]]
  /\ purse \in [Ids -> Int]
  /\ made \in Nat
  /\ cfg.feeBps \in Nat
  /\ \A r \in Ids :
       /\ Sound(refund[r], purse[r])
       /\ r >= made => refund[r].status = "None" /\ purse[r] = 0

(* The deposit's part of PaidOnce.                                          *)
PaidOf(r) ==
  /\ purse'[r] < purse[r] =>
       /\ purse[r] - purse'[r] <= refund[r].amount
       /\ purse[r] = refund[r].amount \/ refund[r].status = "UnderAppeal"
  /\ refund[r].status \in Ended =>
       refund'[r].status = refund[r].status /\ purse'[r] = purse[r]

(* What a step may do: keep the invariant, and give as PaidOnce allows.     *)
Allowed == RefundInv' /\ \A r \in Ids : PaidOf(r)

-----------------------------------------------------------------------------
(* The shapes of a step.                                                    *)

Alike(f, g) ==
  Shape(f) /\ f.status = g.status /\ f.amount = g.amount /\ f.offer = g.offer

Aside ==
  /\ made' = made /\ purse' = purse
  /\ cfg'.feeBps \in Nat
  /\ refund' = [r \in Ids |-> refund'[r]]
  /\ \A r \in Ids : Alike(refund'[r], refund[r])

Handled(r) ==
  /\ made' = made /\ cfg' = cfg
  /\ refund[r].status \in Open
  /\ \E f, d : /\ refund' = [refund EXCEPT ![r] = f] /\ purse' = [purse EXCEPT ![r] = d]
               /\ d \in Int /\ Sound(f, d) /\ f.status # "None"
               /\ d < purse[r] =>
                    /\ purse[r] - d <= refund[r].amount
                    /\ purse[r] = refund[r].amount \/ refund[r].status = "UnderAppeal"

Asked ==
  /\ made \in Ids /\ made' = made + 1 /\ cfg' = cfg
  /\ \E f, d : /\ refund' = [refund EXCEPT ![made] = f]
               /\ purse' = [purse EXCEPT ![made] = d]
               /\ d \in Nat /\ Sound(f, d) /\ f.status # "None"

LEMMA AsideAllowed ==
  ASSUME RefundInv, Aside
  PROVE  Allowed
<1>1. ASSUME NEW r \in Ids
      PROVE  /\ Sound(refund'[r], purse'[r])
             /\ r >= made' => refund'[r].status = "None" /\ purse'[r] = 0
             /\ PaidOf(r)
  <2>1. Alike(refund'[r], refund[r]) /\ purse'[r] = purse[r] /\ made' = made
    BY DEF Aside
  <2>2. Sound(refund[r], purse[r]) /\ purse[r] \in Int
    BY DEF RefundInv
  <2>3. r >= made => refund[r].status = "None" /\ purse[r] = 0
    BY DEF RefundInv
  <2>. QED
    BY <2>1, <2>2, <2>3 DEF Alike, Sound, PaidOf
<1>2. RefundInv'
  BY <1>1 DEF RefundInv, Aside
<1>. QED
  BY <1>1, <1>2 DEF Allowed

LEMMA HandledAllowed ==
  ASSUME RefundInv, NEW r \in Ids, Handled(r)
  PROVE  Allowed
<1>1. PICK f, d :
        /\ refund' = [refund EXCEPT ![r] = f] /\ purse' = [purse EXCEPT ![r] = d]
        /\ d \in Int /\ Sound(f, d) /\ f.status # "None"
        /\ d < purse[r] =>
             /\ purse[r] - d <= refund[r].amount
             /\ purse[r] = refund[r].amount \/ refund[r].status = "UnderAppeal"
  BY DEF Handled
<1>2. /\ refund' = [q \in Ids |-> refund'[q]] /\ purse' \in [Ids -> Int]
      /\ refund'[r] = f /\ purse'[r] = d
      /\ \A q \in Ids \ {r} : refund'[q] = refund[q] /\ purse'[q] = purse[q]
  BY <1>1 DEF RefundInv
<1>3. made' = made /\ cfg' = cfg /\ refund[r].status \in Open
  BY DEF Handled
<1>4. ~(r >= made) /\ refund[r].status \notin Ended
  BY <1>3 DEF RefundInv, Open, Waiting, Reviewed, Ended
<1>5. RefundInv'
  BY <1>1, <1>2, <1>3, <1>4 DEF RefundInv
<1>6. \A q \in Ids : PaidOf(q)
  <2>1. ASSUME NEW q \in Ids, q # r  PROVE PaidOf(q)
    BY <1>2, <2>1 DEF PaidOf, RefundInv
  <2>2. PaidOf(r)
    BY <1>1, <1>2, <1>4 DEF PaidOf
  <2>. QED
    BY <2>1, <2>2
<1>. QED
  BY <1>5, <1>6 DEF Allowed

LEMMA AskedAllowed ==
  ASSUME RefundInv, Asked
  PROVE  Allowed
<1>1. PICK f, d :
        /\ refund' = [refund EXCEPT ![made] = f]
        /\ purse' = [purse EXCEPT ![made] = d]
        /\ d \in Nat /\ Sound(f, d) /\ f.status # "None"
  BY DEF Asked
<1>2. /\ refund' = [q \in Ids |-> refund'[q]] /\ purse' \in [Ids -> Int]
      /\ refund'[made] = f /\ purse'[made] = d
      /\ \A q \in Ids \ {made} : refund'[q] = refund[q] /\ purse'[q] = purse[q]
  BY <1>1 DEF RefundInv, Asked
<1>3. made \in Ids /\ made' = made + 1 /\ cfg' = cfg
  BY DEF Asked
<1>4. made \in Nat /\ refund[made].status = "None" /\ purse[made] = 0
  BY <1>3 DEF RefundInv
<1>5. RefundInv'
  <2>1. ASSUME NEW q \in Ids
        PROVE  /\ Sound(refund'[q], purse'[q])
               /\ q >= made' => refund'[q].status = "None" /\ purse'[q] = 0
    <3>1. CASE q = made
      BY <1>1, <1>2, <1>3, <1>4, <3>1
    <3>2. CASE q # made
      <4>1. q \in Int
        BY DEF Ids
      <4>. QED
        BY <1>2, <1>3, <1>4, <3>2, <4>1 DEF RefundInv
    <3>. QED
      BY <3>1, <3>2
  <2>. QED
    BY <1>2, <1>3, <1>4, <2>1 DEF RefundInv
<1>6. \A q \in Ids : PaidOf(q)
  <2>1. ASSUME NEW q \in Ids, q # made  PROVE PaidOf(q)
    BY <1>2, <2>1 DEF PaidOf, RefundInv
  <2>2. PaidOf(made)
    BY <1>1, <1>2, <1>4 DEF PaidOf, Ended
  <2>. QED
    BY <2>1, <2>2
<1>. QED
  BY <1>5, <1>6 DEF Allowed

-----------------------------------------------------------------------------
(* What tokens leave with a refund.                                         *)

LEMMA BpsNatural ==
  ASSUME NEW x \in Nat, NEW b \in Nat
  PROVE  Bps(x, b) \in Nat
BY x * b \in Nat DEF Bps

(* A call that pays x of an open refund that is not rejected, and leaves it *)
(* as f.                                                                    *)
LEMMA PaysHandled ==
  ASSUME RefundInv, NEW r \in Ids, NEW x \in Int, NEW f,
         refund[r].status \in Backed \cup {"UnderAppeal"}, x <= refund[r].amount,
         Give(r, x), refund' = [refund EXCEPT ![r] = f],
         f.status \in Ended \cup {"Rejected"}, f.amount = refund[r].amount, Shape(f),
         made' = made, cfg' = cfg
  PROVE  Handled(r)
<1>1. purse[r] \in Int /\ Sound(refund[r], purse[r])
  BY DEF RefundInv
<1>2. refund[r].status \in Open /\ refund[r].amount \in Nat
  BY <1>1 DEF Open, Backed, Sound
<1>3. purse' = [purse EXCEPT ![r] = purse[r] - x] /\ purse[r] - x \in Int
  BY <1>1 DEF Give
<1>4. Sound(f, purse[r] - x) /\ f.status # "None"
  BY <1>2 DEF Sound, RefundStatus, Waiting, Reviewed, Ended, Open, Backed
<1>5. purse[r] = refund[r].amount \/ refund[r].status = "UnderAppeal"
  BY <1>1 DEF Sound
<1>6. purse[r] - (purse[r] - x) <= refund[r].amount
  BY <1>1, <1>2
<1>. QED
  BY <1>2, <1>3, <1>4, <1>5, <1>6 DEF Handled

LEMMA PaysNetHandled ==
  ASSUME RefundInv, NEW r \in Ids, NEW f,
         refund[r].status \in Backed \cup {"UnderAppeal"},
         GiveNetOfFee(r), refund' = [refund EXCEPT ![r] = f],
         f.status \in Ended \cup {"Rejected"}, f.amount = refund[r].amount, Shape(f),
         made' = made, cfg' = cfg
  PROVE  Handled(r)
<1>1. refund[r].amount \in Nat
  BY DEF RefundInv, Sound, Open, Backed
<1>2. Fee(r) \in Nat
  BY <1>1, BpsNatural DEF Fee, RefundInv
<1>3. PICK x \in Int : x <= refund[r].amount /\ Give(r, x)
  <2>. DEFINE x == refund[r].amount - (IF cfg.recipient THEN 0 ELSE Fee(r))
  <2>1. x \in Int /\ x <= refund[r].amount
    BY <1>1, <1>2
  <2>2. Give(r, x)
    BY DEF GiveNetOfFee
  <2>. QED
    BY <2>1, <2>2
<1>. QED
  BY <1>3, PaysHandled

(* A call that only moves an open refund to another status.                 *)
LEMMA MovedHandled ==
  ASSUME RefundInv, NEW r \in Ids, NEW f,
         refund[r].status \in Open, refund' = [refund EXCEPT ![r] = f],
         f.amount = refund[r].amount, Shape(f),
         \/ /\ f.status \in {"EvidenceSubmitted", "EscalatedToSenior", "CounterOffered", "Approved"}
            /\ refund[r].status \in Backed
         \/ f.status \in {"Rejected", "UnderAppeal"},
         f.status = "CounterOffered" =>
            f.offer.amount \in Nat /\ f.offer.amount <= f.amount,
         made' = made, cfg' = cfg, purse' = purse
  PROVE  Handled(r)
<1>1. purse[r] \in Int /\ Sound(refund[r], purse[r]) /\ purse' = [purse EXCEPT ![r] = purse[r]]
  BY DEF RefundInv
<1>2. Sound(f, purse[r]) /\ f.status # "None"
  BY <1>1 DEF Sound, RefundStatus, Waiting, Reviewed, Ended, Open, Backed
<1>3. ~(purse[r] < purse[r])
  BY <1>1
<1>. QED
  BY <1>1, <1>2, <1>3 DEF Handled

-----------------------------------------------------------------------------
(* Every call has one of the shapes.                                        *)

LEMMA ShapeNext ==
  ASSUME RefundInv, NEW r \in Ids, NEW s
  PROVE  /\ Shape(refund[r])
         /\ Shape([refund[r] EXCEPT !.status = s])
         /\ [refund[r] EXCEPT !.status = s].status = s
         /\ [refund[r] EXCEPT !.status = s].amount = refund[r].amount
         /\ Shape([refund[r] EXCEPT !.status = "Rejected", !.rejected = now])
         /\ [refund[r] EXCEPT !.status = "Rejected", !.rejected = now].status = "Rejected"
         /\ [refund[r] EXCEPT !.status = "Rejected", !.rejected = now].amount = refund[r].amount
<1>1. Shape(refund[r])
  BY DEF RefundInv, Sound
<1>. QED
  BY <1>1 DEF Shape

LEMMA Settles ==
  ASSUME RefundInv, NEW r \in Ids,
         refund[r].status \in Backed \cup {"UnderAppeal"},
         Give(r, refund[r].amount) \/ GiveNetOfFee(r),
         Finish(r, "Processed") \/ Finish(r, "Cancelled") \/ Reject(r),
         made' = made, cfg' = cfg
  PROVE  Handled(r)
<1>1. refund[r].amount \in Nat
  BY DEF RefundInv, Sound, Open, Backed
<1>2. ASSUME NEW f, refund' = [refund EXCEPT ![r] = f],
             f.status \in Ended \cup {"Rejected"}, f.amount = refund[r].amount, Shape(f)
      PROVE  Handled(r)
  <2>1. CASE Give(r, refund[r].amount)
    <3>1. refund[r].amount \in Int /\ refund[r].amount <= refund[r].amount
      BY <1>1
    <3>. QED
      BY <1>2, <2>1, <3>1, PaysHandled
  <2>2. CASE GiveNetOfFee(r)
    BY <1>2, <2>2, PaysNetHandled
  <2>. QED
    BY <2>1, <2>2
<1>3. ASSUME NEW s \in {"Processed", "Cancelled"}, Finish(r, s)
      PROVE  Handled(r)
  <2>. DEFINE f == [refund[r] EXCEPT !.status = s]
  <2>1. refund' = [refund EXCEPT ![r] = f]
    BY <1>3 DEF Finish
  <2>2. f.status \in Ended \cup {"Rejected"} /\ f.amount = refund[r].amount /\ Shape(f)
    BY ShapeNext DEF Ended
  <2>. QED
    BY <1>2, <2>1, <2>2
<1>4. ASSUME Reject(r)
      PROVE  Handled(r)
  <2>. DEFINE f == [refund[r] EXCEPT !.status = "Rejected", !.rejected = now]
  <2>1. refund' = [refund EXCEPT ![r] = f]
    BY <1>4 DEF Reject
  <2>2. f.status \in Ended \cup {"Rejected"} /\ f.amount = refund[r].amount /\ Shape(f)
    BY ShapeNext
  <2>. QED
    BY <1>2, <2>1, <2>2
<1>. QED
  BY <1>3, <1>4

LEMMA Moves ==
  ASSUME RefundInv, NEW r \in Ids,
         \/ /\ refund[r].status \in Backed
            /\ \/ Finish(r, "EvidenceSubmitted") \/ Finish(r, "Approved") \/ Reject(r)
         \/ refund[r].status \in Open /\ Finish(r, "UnderAppeal"),
         made' = made, cfg' = cfg, purse' = purse
  PROVE  Handled(r)
<1>1. refund[r].status \in Open
  BY DEF Open, Backed
<1>2. ASSUME NEW s \in {"EvidenceSubmitted", "Approved", "UnderAppeal"}, Finish(r, s),
             refund[r].status \in Backed \/ s = "UnderAppeal"
      PROVE  Handled(r)
  <2>. DEFINE f == [refund[r] EXCEPT !.status = s]
  <2>1. refund' = [refund EXCEPT ![r] = f]
    BY <1>2 DEF Finish
  <2>2. f.status = s /\ f.amount = refund[r].amount /\ Shape(f)
    BY ShapeNext
  <2>. QED
    BY <1>1, <1>2, <2>1, <2>2, MovedHandled
<1>3. ASSUME Reject(r)
      PROVE  Handled(r)
  <2>. DEFINE f == [refund[r] EXCEPT !.status = "Rejected", !.rejected = now]
  <2>1. refund' = [refund EXCEPT ![r] = f]
    BY <1>3 DEF Reject
  <2>2. f.status = "Rejected" /\ f.amount = refund[r].amount /\ Shape(f)
    BY ShapeNext
  <2>. QED
    BY <1>1, <2>1, <2>2, MovedHandled
<1>. QED
  BY <1>2, <1>3

LEMMA ReviewHandled ==
  ASSUME RefundInv, NEW r \in Ids, NEW a,
         \/ ApproveRefund(a, r) \/ RejectRefund(a, r)
         \/ BatchApprove(r) \/ BatchReject(r) \/ ProcessRefund(r)
  PROVE  Handled(r)
<1>. USE DEF In, Reviewed, Waiting, Open, Backed, settingVars, scoreVars
<1>1. CASE ApproveRefund(a, r)
  BY <1>1, Moves DEF ApproveRefund
<1>2. CASE RejectRefund(a, r)
  BY <1>2, Moves DEF RejectRefund
<1>3. CASE BatchApprove(r)
  BY <1>3, Moves DEF BatchApprove
<1>4. CASE BatchReject(r)
  BY <1>4, Moves DEF BatchReject
<1>5. CASE ProcessRefund(r)
  BY <1>5, Settles DEF ProcessRefund
<1>. QED
  BY <1>1, <1>2, <1>3, <1>4, <1>5

LEMMA VoucherHandled ==
  ASSUME RefundInv, NEW r \in Ids, NEW a, NEW x, NEW until,
         ApproveRefundAsVoucher(a, r, x, until)
  PROVE  Handled(r)
BY Settles DEF ApproveRefundAsVoucher, In, Reviewed, Waiting, Backed, settingVars

LEMMA EvidenceHandled ==
  ASSUME RefundInv, NEW r \in Ids, SubmitRefundEvidence(r)
  PROVE  Handled(r)
BY Moves DEF SubmitRefundEvidence, In, Reviewed, Waiting, Backed, settingVars

LEMMA EscalationHandled ==
  ASSUME RefundInv, NEW r \in Ids,
         \/ EscalateToSenior(r) \/ TriggerSeniorAutoApprove(r)
         \/ \E b \in BOOLEAN : ResolveEscalated(r, b)
  PROVE  Handled(r)
<1>. USE DEF In, Reviewed, Waiting, Open, Backed, settingVars
<1>1. CASE EscalateToSenior(r)
  <2>. DEFINE f == [refund[r] EXCEPT !.status = "EscalatedToSenior",
                                     !.seniorUntil = now + cfg.seniorSpan]
  <2>1. refund' = [refund EXCEPT ![r] = f]
    BY <1>1 DEF EscalateToSenior
  <2>2. f.status = "EscalatedToSenior" /\ f.amount = refund[r].amount /\ Shape(f)
    BY ShapeNext DEF Shape
  <2>3. refund[r].status \in Backed /\ made' = made /\ cfg' = cfg /\ purse' = purse
    BY <1>1 DEF EscalateToSenior
  <2>. HIDE DEF f
  <2>. QED
    BY <2>1, <2>2, <2>3, MovedHandled
<1>2. CASE TriggerSeniorAutoApprove(r)
  BY <1>2, Settles DEF TriggerSeniorAutoApprove
<1>3. ASSUME NEW b \in BOOLEAN, ResolveEscalated(r, b)
      PROVE  Handled(r)
  BY <1>3, Settles DEF ResolveEscalated
<1>. QED
  BY <1>1, <1>2, <1>3

LEMMA ClosingHandled ==
  ASSUME RefundInv, NEW r \in Ids,
         \/ CancelRefundRequest(r) \/ AutoCancelExpiredRequest(r) \/ AutoRejectStaleRefund(r)
         \/ AutoApproveRefund(r) \/ TriggerAutoApproval(r)
  PROVE  Handled(r)
<1>. USE DEF In, Reviewed, Waiting, Backed, settingVars
<1>1. CASE CancelRefundRequest(r)
  BY <1>1, Settles DEF CancelRefundRequest
<1>2. CASE AutoCancelExpiredRequest(r)
  BY <1>2, Settles DEF AutoCancelExpiredRequest
<1>3. CASE AutoRejectStaleRefund(r)
  BY <1>3, Settles DEF AutoRejectStaleRefund
<1>4. CASE AutoApproveRefund(r)
  BY <1>4, Settles DEF AutoApproveRefund
<1>5. CASE TriggerAutoApproval(r)
  BY <1>5, Settles DEF TriggerAutoApproval
<1>. QED
  BY <1>1, <1>2, <1>3, <1>4, <1>5

LEMMA AppealsHandled ==
  ASSUME RefundInv, NEW r \in Ids,
         AppealRefund(r) \/ \E b \in BOOLEAN : ResolveAppeal(r, b)
  PROVE  Handled(r)
<1>. USE DEF In, settingVars
<1>1. CASE AppealRefund(r)
  BY <1>1, Moves DEF AppealRefund, Open
<1>2. ASSUME NEW b \in BOOLEAN, ResolveAppeal(r, b)
      PROVE  Handled(r)
  BY <1>2, Settles DEF ResolveAppeal
<1>. QED
  BY <1>1, <1>2

LEMMA OffersHandled ==
  ASSUME RefundInv, NEW r \in Ids,
         \/ \E x \in Amounts : CounterOfferRefund(r, x)
         \/ AcceptCounterOffer(r) \/ AcceptLateOffer(r) \/ RejectCounterOffer(r)
         \/ CheckCounterOfferExpiry(r) \/ SettleExpiredCounterOffer(r)
  PROVE  Handled(r)
<1>. USE DEF In, Reviewed, Waiting, Open, Backed, settingVars
<1>1. ASSUME NEW x \in Amounts, CounterOfferRefund(r, x)
      PROVE  Handled(r)
  <2>. DEFINE o == [amount |-> x, until |-> now + cfg.offerLife]
              f == [refund[r] EXCEPT !.status = "CounterOffered", !.offer = o]
  <2>1. refund' = [refund EXCEPT ![r] = f]
    BY <1>1 DEF CounterOfferRefund
  <2>2. /\ f.status = "CounterOffered" /\ f.amount = refund[r].amount /\ Shape(f)
        /\ f.offer = o
    BY ShapeNext DEF Shape
  <2>3. /\ refund[r].status \in Backed /\ made' = made /\ cfg' = cfg /\ purse' = purse
        /\ x > 0 /\ x <= refund[r].amount
    BY <1>1 DEF CounterOfferRefund
  <2>4. x \in Nat /\ o.amount = x
    BY <2>3, InputAssumption
  <2>5. f.offer.amount \in Nat /\ f.offer.amount <= f.amount
    BY <2>2, <2>3, <2>4
  <2>. HIDE DEF f, o
  <2>. QED
    BY <2>1, <2>2, <2>3, <2>5, MovedHandled
<1>2. CASE AcceptCounterOffer(r)
  <2>. DEFINE f == [refund[r] EXCEPT !.status = "Processed", !.offer = NoOffer]
              x == refund[r].offer.amount
  <2>1. refund' = [refund EXCEPT ![r] = f]
    BY <1>2 DEF AcceptCounterOffer
  <2>2. f.status \in Ended /\ f.amount = refund[r].amount /\ Shape(f)
    BY ShapeNext DEF Shape, Ended
  <2>3. refund[r].status = "CounterOffered" /\ Give(r, x) /\ made' = made /\ cfg' = cfg
    BY <1>2 DEF AcceptCounterOffer
  <2>4. x \in Int /\ x <= refund[r].amount
    BY <2>3 DEF RefundInv, Sound
  <2>. HIDE DEF f, x
  <2>. QED
    BY <2>1, <2>2, <2>3, <2>4, PaysHandled
<1>3. CASE AcceptLateOffer(r)
  BY <1>3, Moves DEF AcceptLateOffer
<1>4. ASSUME refund[r].status = "CounterOffered", Escalate(r)
      PROVE  Handled(r)
  <2>. DEFINE f == [refund[r] EXCEPT !.status = "UnderAppeal", !.offer = NoOffer]
  <2>1. refund' = [refund EXCEPT ![r] = f] /\ made' = made /\ cfg' = cfg /\ purse' = purse
    BY <1>4 DEF Escalate
  <2>2. f.status = "UnderAppeal" /\ f.amount = refund[r].amount /\ Shape(f)
    BY ShapeNext DEF Shape
  <2>. HIDE DEF f
  <2>. QED
    BY <1>4, <2>1, <2>2, MovedHandled
<1>5. CASE RejectCounterOffer(r)
  BY <1>4, <1>5 DEF RejectCounterOffer
<1>6. CASE CheckCounterOfferExpiry(r)
  BY <1>4, <1>6 DEF CheckCounterOfferExpiry
<1>7. CASE SettleExpiredCounterOffer(r)
  <2>. DEFINE f == IF cfg.offerAccept
                   THEN [refund[r] EXCEPT !.status = "Processed", !.offer = NoOffer]
                   ELSE [refund[r] EXCEPT !.status = "Rejected", !.rejected = now,
                                          !.offer = NoOffer]
  <2>1. refund' = [refund EXCEPT ![r] = f]
    BY <1>7 DEF SettleExpiredCounterOffer
  <2>2. /\ f.status \in Ended \cup {"Rejected"} /\ f.amount = refund[r].amount /\ Shape(f)
    BY ShapeNext DEF Shape, Ended
  <2>3. /\ refund[r].status \in Backed /\ Give(r, refund[r].amount)
        /\ made' = made /\ cfg' = cfg
    BY <1>7 DEF SettleExpiredCounterOffer
  <2>4. refund[r].amount \in Int /\ refund[r].amount <= refund[r].amount
    BY <2>3 DEF RefundInv, Sound
  <2>. HIDE DEF f
  <2>. QED
    BY <2>1, <2>2, <2>3, <2>4, PaysHandled
<1>. QED
  BY <1>1, <1>2, <1>3, <1>5, <1>6, <1>7

(* The deadlines of a refund can be moved; nothing else about it is.        *)
LEMMA ExtendingAside ==
  ASSUME RefundInv, Extending
  PROVE  Aside
<1>1. PICK r \in Ids :
        RequestReviewExtension(r) \/ \E s \in Spans : ExtendRefundDeadline(r, s)
  BY DEF Extending
<1>2. made' = made /\ cfg' = cfg /\ purse' = purse
  BY <1>1 DEF RequestReviewExtension, ExtendRefundDeadline, settingVars
<1>3. \A q \in Ids : Shape(refund[q])
  BY ShapeNext
<1>4. ASSUME NEW f, refund' = [refund EXCEPT ![r] = f], Alike(f, refund[r])
      PROVE  Aside
  <2>1. \A q \in Ids : Alike(refund'[q], refund[q])
    BY <1>3, <1>4 DEF RefundInv, Alike
  <2>. QED
    BY <1>2, <1>4, <2>1 DEF Aside, RefundInv
<1>5. CASE RequestReviewExtension(r)
  <2>. DEFINE f == [refund[r] EXCEPT !.extended = TRUE, !.autoUntil = @ + cfg.extensionSpan]
  <2>1. refund' = [refund EXCEPT ![r] = f]
    BY <1>5 DEF RequestReviewExtension
  <2>2. Alike(f, refund[r])
    BY <1>3 DEF Alike, Shape
  <2>. QED
    BY <1>4, <2>1, <2>2
<1>6. ASSUME NEW s \in Spans, ExtendRefundDeadline(r, s)
      PROVE  Aside
  <2>. DEFINE f == [refund[r] EXCEPT !.extension = @ + s]
  <2>1. refund' = [refund EXCEPT ![r] = f]
    BY <1>6 DEF ExtendRefundDeadline
  <2>2. Alike(f, refund[r])
    BY <1>3 DEF Alike, Shape
  <2>. QED
    BY <1>4, <2>1, <2>2
<1>. QED
  BY <1>1, <1>5, <1>6

LEMMA UntouchedAside ==
  ASSUME RefundInv, made' = made, purse' = purse, refund' = refund, cfg'.feeBps \in Nat
  PROVE  Aside
BY ShapeNext DEF Aside, Alike, RefundInv

LEMMA CreditAside ==
  ASSUME RefundInv, NEW c, NEW m, NEW x, NEW until,
         ApplyStoreCredit(c, m, x) \/ ExtendStoreCreditExpiry(m, c, until)
  PROVE  Aside
BY UntouchedAside
   DEF ApplyStoreCredit, ExtendStoreCreditExpiry, settingVars, requestVars, RefundInv

LEMMA ReservesAside ==
  ASSUME RefundInv, Reserves
  PROVE  Aside
<1>. USE DEF settingVars, requestVars
<1>. DEFINE Still == made' = made /\ purse' = purse /\ refund' = refund /\ cfg' = cfg
<1>1. ASSUME NEW m, NEW u, CheckReserveCompliance(m) \/ WaiveReserveRequirement(m, u)
      PROVE  Still
  BY <1>1 DEF CheckReserveCompliance, WaiveReserveRequirement
<1>2. ASSUME NEW m, NEW x, \/ RecordPaymentVolume(m, x)
                          \/ DepositMerchantReserve(m, x) \/ WithdrawMerchantReserve(m, x)
      PROVE  Still
  BY <1>2 DEF RecordPaymentVolume, DepositMerchantReserve, WithdrawMerchantReserve
<1>3. ASSUME NEW m, NEW t, NEW x, DepositReserve(m, t, x) \/ WithdrawReserve(m, t, x)
      PROVE  Still
  BY <1>3 DEF DepositReserve, WithdrawReserve
<1>4. Still
  BY <1>1, <1>2, <1>3, Zenon DEF Reserves
<1>. QED
  BY <1>4, UntouchedAside DEF RefundInv

LEMMA TermsOnly ==
  ASSUME Terms
  PROVE  UNCHANGED <<settingVars, requestVars, held, reserve>>
<1>1. ASSUME NEW m, NEW field, NEW value, SetTerms(m, field, value)
      PROVE  UNCHANGED <<settingVars, requestVars, held, reserve>>
  BY <1>1 DEF SetTerms
<1>2. PICK m \in Merchants :
        \/ \E a \in Accounts : AddDelegate(m, a) \/ RemoveDelegate(m, a)
        \/ \E x \in {0} \cup Amounts : SetAutoApproveThreshold(m, x)
        \/ Published(m)
        \/ AddToAutoApprove(m) \/ RemoveFromAutoApprove(m)
        \/ \E b \in BOOLEAN : SetMerchantAutoApproveExempt(m, b)
  BY Zenon DEF Terms
<1>3. ASSUME NEW a, AddDelegate(m, a) \/ RemoveDelegate(m, a)
      PROVE  UNCHANGED <<settingVars, requestVars, held, reserve>>
  BY <1>1, <1>3, Zenon DEF AddDelegate, RemoveDelegate
<1>4. ASSUME NEW x, SetAutoApproveThreshold(m, x)
      PROVE  UNCHANGED <<settingVars, requestVars, held, reserve>>
  BY <1>1, <1>4, Zenon DEF SetAutoApproveThreshold
<1>5. ASSUME NEW q, PublishRefundPolicy(m, q)
      PROVE  UNCHANGED <<settingVars, requestVars, held, reserve>>
  <2>1. SetTerms(m, "policy", q)
    BY <1>5 DEF PublishRefundPolicy
  <2>. QED
    BY <1>1, <2>1
<1>6. ASSUME AddToAutoApprove(m) \/ RemoveFromAutoApprove(m)
      PROVE  UNCHANGED <<settingVars, requestVars, held, reserve>>
  BY <1>1, <1>6, Zenon DEF AddToAutoApprove, RemoveFromAutoApprove
<1>7. ASSUME NEW b, SetMerchantAutoApproveExempt(m, b)
      PROVE  UNCHANGED <<settingVars, requestVars, held, reserve>>
  BY <1>1, <1>7, Zenon DEF SetMerchantAutoApproveExempt
<1>8. CASE Published(m)
  <2>1. PICK w \in Spans, b \in {5000, 10000} :
          PublishRefundPolicy(m, [window |-> w, bps |-> b])
    BY <1>8 DEF Published
  <2>. DEFINE q == [window |-> w, bps |-> b]
  <2>2. PublishRefundPolicy(m, q)
    BY <2>1
  <2>. HIDE DEF q
  <2>. QED
    BY <1>5, <2>2
<1>. QED
  BY <1>2, <1>3, <1>4, <1>6, <1>7, <1>8, Zenon

LEMMA TermsAside ==
  ASSUME RefundInv, Terms
  PROVE  Aside
<1>1. made' = made /\ purse' = purse /\ refund' = refund /\ cfg' = cfg
  BY TermsOnly DEF settingVars, requestVars
<1>. QED
  BY <1>1, UntouchedAside DEF RefundInv

LEMMA AdminAside ==
  ASSUME RefundInv, Scores \/ Settings \/ Pausing
  PROVE  Aside
<1>. USE DEF settingVars, requestVars
<1>1. CASE Scores
  <2>1. made' = made /\ purse' = purse /\ refund' = refund /\ cfg' = cfg
    BY <1>1 DEF Scores, ResetFraudScore, ResetCustomerAbuseScore, WaiveCooldown,
                FlagRefundAbuse
  <2>. QED
    BY <2>1, UntouchedAside DEF RefundInv
<1>2. CASE Settings
  <2>1. PICK c \in RefundCfgs : Change(c)
    BY <1>2 DEF Settings
  <2>2. c.feeBps \in Nat
    BY InputAssumption
  <2>. QED
    BY <2>1, <2>2, UntouchedAside DEF Change
<1>3. CASE Pausing
  BY <1>3, UntouchedAside DEF Pausing, SetPaused, RefundInv
<1>. QED
  BY <1>1, <1>2, <1>3

LEMMA RequestAsked ==
  ASSUME RefundInv, NEW c, NEW p, NEW asks, RequestRefund(c, p, asks)
  PROVE  Asked
<1>1. PICK x, auto :
        /\ x \in Nat \ {0} /\ auto \in BOOLEAN /\ made < MaxRefunds
        /\ refund' = [refund EXCEPT ![made] = NewRefund(c, p, x, auto)]
        /\ purse' = [purse EXCEPT ![made] = x]
        /\ made' = made + 1 /\ cfg' = cfg
  <2>. DEFINE x == IF cfg.tiers = <<>> THEN asks ELSE Least(asks, TierCap(p) - refunded[p])
              auto == AutoApproved(Payment[p].merchant, c, x)
  <2>1. /\ x \in Nat \ {0} /\ made < MaxRefunds
        /\ refund' = [refund EXCEPT ![made] = NewRefund(c, p, x, auto)]
        /\ purse' = [purse EXCEPT ![made] = x]
        /\ made' = made + 1 /\ cfg' = cfg
    BY DEF RequestRefund
  <2>2. auto \in BOOLEAN
    BY DEF AutoApproved
  <2>. HIDE DEF x, auto
  <2>. QED
    BY <2>1, <2>2
<1>2. made \in Ids
  BY <1>1, RefundAssumption DEF RefundInv, Ids
<1>. DEFINE f == NewRefund(c, p, x, auto)
<1>3. /\ Shape(f) /\ f.status = (IF auto THEN "Approved" ELSE "Requested") /\ f.amount = x
  BY DEF NewRefund, NoRefund, Shape
<1>4. Sound(f, x) /\ f.status # "None"
  BY <1>1, <1>3 DEF Sound, RefundStatus, Waiting, Reviewed, Open, Backed
<1>. HIDE DEF f
<1>. QED
  BY <1>1, <1>2, <1>4 DEF Asked, f

(* A refund recorded as done has no deposit here.                           *)
LEMMA RecordedAsked ==
  ASSUME RefundInv, NEW f, f.status \in Ended, Shape(f), made < MaxRefunds,
         refund' = [refund EXCEPT ![made] = f], made' = made + 1, cfg' = cfg, purse' = purse
  PROVE  Asked
<1>1. made \in Ids
  BY RefundAssumption DEF RefundInv, Ids
<1>2. purse' = [purse EXCEPT ![made] = 0]
  BY <1>1 DEF RefundInv
<1>3. Sound(f, 0) /\ f.status # "None"
  BY DEF Sound, RefundStatus, Waiting, Reviewed, Open, Backed, Ended
<1>. QED
  BY <1>1, <1>2, <1>3 DEF Asked

LEMMA RequestingAllowed ==
  ASSUME RefundInv, Requesting \/ Registering
  PROVE  Allowed
<1>1. ASSUME NEW c, NEW p, NEW x, RequestRefund(c, p, x)
      PROVE  Asked
  BY <1>1, RequestAsked
<1>2. ASSUME NEW m, NEW p, NEW x, MerchantRefund(m, p, x)
      PROVE  Asked
  <2>. DEFINE f == [NoRefund EXCEPT !.status = "Processed", !.customer = Payment[p].customer,
          !.merchant = m, !.payment = p, !.token = Payment[p].token, !.amount = x,
          !.requested = now]
  <2>1. f.status \in Ended /\ Shape(f)
    BY DEF NoRefund, Shape, Ended
  <2>2. /\ made < MaxRefunds /\ refund' = [refund EXCEPT ![made] = f]
        /\ made' = made + 1 /\ cfg' = cfg /\ purse' = purse
    BY <1>2 DEF MerchantRefund
  <2>. HIDE DEF f
  <2>. QED
    BY <2>1, <2>2, RecordedAsked
<1>3. ASSUME NEW c, NEW m, NEW t, NEW x, RegisterCrossContractRefund(c, m, t, x)
      PROVE  Asked
  <2>. DEFINE f == [NoRefund EXCEPT !.status = "CrossContractRefunded", !.customer = c,
          !.merchant = m, !.token = t, !.amount = x, !.requested = now]
  <2>1. f.status \in Ended /\ Shape(f)
    BY DEF NoRefund, Shape, Ended
  <2>2. /\ made < MaxRefunds /\ refund' = [refund EXCEPT ![made] = f]
        /\ made' = made + 1 /\ cfg' = cfg /\ purse' = purse
    BY <1>3 DEF RegisterCrossContractRefund
  <2>. HIDE DEF f
  <2>. QED
    BY <2>1, <2>2, RecordedAsked
<1>4. Asked
  BY <1>1, <1>2, <1>3 DEF Requesting, Registering
<1>. QED
  BY <1>4, AskedAllowed

LEMMA CallAllowed ==
  ASSUME RefundInv, RefundCall
  PROVE  Allowed
<1>1. CASE Requesting \/ Registering
  BY <1>1, RequestingAllowed
<1>2. CASE Reviewing
  BY <1>2, ReviewHandled, HandledAllowed DEF Reviewing
<1>3. CASE Vouchers
  BY <1>3, VoucherHandled, HandledAllowed, CreditAside, AsideAllowed DEF Vouchers
<1>4. CASE Evidence
  BY <1>4, EvidenceHandled, HandledAllowed DEF Evidence
<1>5. CASE Escalation
  BY <1>5, EscalationHandled, HandledAllowed DEF Escalation
<1>6. CASE Offers
  BY <1>6, OffersHandled, HandledAllowed DEF Offers
<1>7. CASE Closing
  BY <1>7, ClosingHandled, HandledAllowed DEF Closing
<1>8. CASE Extending
  BY <1>8, ExtendingAside, AsideAllowed
<1>9. CASE Appeals
  BY <1>9, AppealsHandled, HandledAllowed DEF Appeals
<1>10. CASE Reserves \/ Terms \/ Scores \/ Settings \/ Pausing
  BY <1>10, ReservesAside, TermsAside, AdminAside, AsideAllowed
<1>. QED
  BY <1>1, <1>2, <1>3, <1>4, <1>5, <1>6, <1>7, <1>8, <1>9, <1>10 DEF RefundCall

-----------------------------------------------------------------------------

LEMMA InitInv == Init => RefundInv
<1>. SUFFICES ASSUME Init PROVE RefundInv
  OBVIOUS
<1>1. Shape(NoRefund) /\ NoRefund.status = "None"
  BY DEF NoRefund, Shape
<1>2. Sound(NoRefund, 0)
  BY <1>1 DEF Sound, RefundStatus, Waiting, Reviewed, Open, Backed
<1>3. cfg.feeBps \in Nat
  BY InputAssumption DEF Init, RefundInit
<1>. QED
  BY <1>1, <1>2, <1>3 DEF RefundInv, Init, RefundInit

LEMMA StepAllowed == RefundInv /\ [Next]_vars => Allowed
<1>. SUFFICES ASSUME RefundInv, [Next]_vars PROVE Allowed
  OBVIOUS
<1>1. CASE RefundCall
  BY <1>1, CallAllowed
<1>2. CASE UNCHANGED refundVars
  BY <1>2, UntouchedAside, AsideAllowed DEF refundVars, RefundInv
<1>. QED
  BY <1>1, <1>2 DEF Next, vars

-----------------------------------------------------------------------------
(* The whitelist.                                                           *)

ListInv ==
  /\ suspended = [t \in Token |-> suspended[t]]
  /\ SuspendedIsListed

LEMMA AskKeeps ==
  ASSUME ListInv, NEW c, NEW t, Ask(c, t), listed' = listed
  PROVE  ListInv'
BY DEF ListInv, SuspendedIsListed, Ask

LEMMA DelistKeeps ==
  ASSUME ListInv, NEW t \in Token, Delist(t)
  PROVE  ListInv'
BY DEF ListInv, SuspendedIsListed, Delist

LEMMA ListingKeeps ==
  ASSUME ListInv, Listing
  PROVE  ListInv'
<1>1. PICK t \in Token :
        \/ AddToken(t) \/ RemoveToken(t) \/ LiftTokenSuspension(t) \/ ForgetSuspension(t)
        \/ \E s \in Spans : SuspendTokenTimed(t, s) \/ ExtendTokenSuspension(t, s)
        \/ UNCHANGED <<listed, suspended>>
  BY DEF Listing, RemoveContractToken, SetContractToken
<1>. USE DEF ListInv, SuspendedIsListed
<1>2. CASE AddToken(t)
  BY <1>2 DEF AddToken
<1>3. CASE RemoveToken(t)
  BY <1>3, DelistKeeps DEF RemoveToken
<1>4. CASE LiftTokenSuspension(t) \/ ForgetSuspension(t)
  BY <1>4 DEF LiftTokenSuspension, ForgetSuspension
<1>5. ASSUME NEW s \in Spans, SuspendTokenTimed(t, s)
      PROVE  ListInv'
  BY <1>5 DEF SuspendTokenTimed
<1>6. ASSUME NEW s \in Spans, ExtendTokenSuspension(t, s)
      PROVE  ListInv'
  BY <1>6 DEF ExtendTokenSuspension, Suspended
<1>7. CASE UNCHANGED <<listed, suspended>>
  BY <1>7
<1>. QED
  BY <1>1, <1>2, <1>3, <1>4, <1>5, <1>6, <1>7

LEMMA GovernanceKeeps ==
  ASSUME ListInv, Governance
  PROVE  ListInv'
<1>. USE DEF ListInv, SuspendedIsListed
<1>1. ASSUME NEW p \in Proposals, EnactListing(p)
      PROVE  ListInv'
  BY <1>1 DEF EnactListing
<1>2. ASSUME NEW p \in Proposals, EnactDelisting(p)
      PROVE  ListInv'
  BY <1>2, Zenon DEF EnactDelisting, Delist
<1>3. ASSUME UNCHANGED <<listed, suspended>>
      PROVE  ListInv'
  BY <1>3
<1>4. ASSUME NEW r, SetListingRules(r)
      PROVE  UNCHANGED <<listed, suspended>>
  BY <1>4 DEF SetListingRules
<1>5. ASSUME NEW k, NEW p, FinaliseProposal(k, p) \/ VetoProposal(k, p)
      PROVE  UNCHANGED <<listed, suspended>>
  BY <1>5, Zenon DEF FinaliseProposal, VetoProposal
<1>6. ASSUME NEW k, NEW p, NEW t, NEW v, ProposeListing(k, p, t, v)
      PROVE  UNCHANGED <<listed, suspended>>
  BY <1>6, Zenon DEF ProposeListing
<1>7. ASSUME NEW k, NEW p, NEW v, NEW yes, NEW w, Vote(k, p, v, yes, w)
      PROVE  UNCHANGED <<listed, suspended>>
  BY <1>7, Zenon DEF Vote
<1>. HIDE DEF ListInv, SuspendedIsListed
<1>. QED
  BY <1>1, <1>2, <1>3, <1>4, <1>5, <1>6, <1>7, Zenon DEF Governance

LEMMA QuotasKeep ==
  ASSUME ListInv, Quotas
  PROVE  ListInv'
<1>1. UNCHANGED <<listed, suspended>>
  BY Zenon DEF Quotas, RemoveTokenQuota, RecordTokenVolume, SetTokenQuota, UpdateTokenQuota
<1>. QED
  BY <1>1 DEF ListInv, SuspendedIsListed

(* A call of the refund contract leaves the suspensions alone, but for the  *)
(* question it may ask.                                                     *)
LEMMA RequestingAsks ==
  ASSUME Requesting \/ Registering
  PROVE  suspended' = suspended \/ \E t : Ask(Self, t)
<1>1. ASSUME NEW c, NEW p, NEW x, RequestRefund(c, p, x)
      PROVE  \E t : Ask(Self, t)
  BY <1>1, Zenon DEF RequestRefund
<1>2. ASSUME NEW m, NEW p, NEW x, MerchantRefund(m, p, x)
      PROVE  \E t : Ask(Self, t)
  BY <1>2, Zenon DEF MerchantRefund
<1>3. ASSUME NEW c, NEW m, NEW t, NEW x, RegisterCrossContractRefund(c, m, t, x)
      PROVE  suspended' = suspended
  BY <1>3, Zenon DEF RegisterCrossContractRefund
<1>. QED
  BY <1>1, <1>2, <1>3, Zenon DEF Requesting, Registering

LEMMA ReviewAsksNothing ==
  ASSUME Reviewing \/ Vouchers \/ Evidence
  PROVE  suspended' = suspended
<1>. USE DEF settingVars
<1>1. CASE Reviewing
  <2>1. ASSUME NEW a, NEW r, ApproveRefund(a, r) \/ RejectRefund(a, r)
        PROVE  suspended' = suspended
    BY <2>1 DEF ApproveRefund, RejectRefund
  <2>2. ASSUME NEW r, BatchApprove(r) \/ BatchReject(r) \/ ProcessRefund(r)
        PROVE  suspended' = suspended
    BY <2>2 DEF BatchApprove, BatchReject, ProcessRefund
  <2>. QED
    BY <1>1, <2>1, <2>2, Zenon DEF Reviewing
<1>2. CASE Vouchers
  <2>1. ASSUME NEW a, NEW r, NEW x, NEW until, ApproveRefundAsVoucher(a, r, x, until)
        PROVE  suspended' = suspended
    BY <2>1 DEF ApproveRefundAsVoucher
  <2>2. ASSUME NEW c, NEW m, NEW x, NEW until,
               ApplyStoreCredit(c, m, x) \/ ExtendStoreCreditExpiry(m, c, until)
        PROVE  suspended' = suspended
    BY <2>2 DEF ApplyStoreCredit, ExtendStoreCreditExpiry
  <2>. QED
    BY <1>2, <2>1, <2>2, Zenon DEF Vouchers
<1>3. CASE Evidence
  BY <1>3, Zenon DEF Evidence, SubmitRefundEvidence
<1>. QED
  BY <1>1, <1>2, <1>3

LEMMA DeadlinesAskNothing ==
  ASSUME Escalation \/ Offers \/ Closing \/ Extending \/ Appeals
  PROVE  suspended' = suspended
<1>. USE DEF settingVars
<1>1. CASE Escalation
  BY <1>1, Zenon DEF Escalation, EscalateToSenior, TriggerSeniorAutoApprove, ResolveEscalated
<1>2. CASE Offers
  BY <1>2, Zenon DEF Offers, CounterOfferRefund, AcceptCounterOffer, AcceptLateOffer, Escalate,
                     RejectCounterOffer, CheckCounterOfferExpiry, SettleExpiredCounterOffer
<1>3. CASE Closing
  BY <1>3, Zenon DEF Closing, CancelRefundRequest, AutoCancelExpiredRequest,
                     AutoRejectStaleRefund, AutoApproveRefund, TriggerAutoApproval
<1>4. CASE Extending
  BY <1>4, Zenon DEF Extending, RequestReviewExtension, ExtendRefundDeadline
<1>5. CASE Appeals
  BY <1>5, Zenon DEF Appeals, AppealRefund, ResolveAppeal
<1>. QED
  BY <1>1, <1>2, <1>3, <1>4, <1>5

LEMMA ReservesAsk ==
  ASSUME Reserves
  PROVE  suspended' = suspended \/ \E t : Ask(Self, t)
<1>. USE DEF settingVars
<1>1. ASSUME NEW m, NEW t, NEW x, DepositReserve(m, t, x)
      PROVE  \E u : Ask(Self, u)
  BY <1>1, Zenon DEF DepositReserve
<1>2. ASSUME NEW m, NEW t, NEW x, WithdrawReserve(m, t, x)
      PROVE  suspended' = suspended
  BY <1>2, Zenon DEF WithdrawReserve
<1>3. ASSUME NEW m, NEW x, \/ RecordPaymentVolume(m, x)
                          \/ DepositMerchantReserve(m, x) \/ WithdrawMerchantReserve(m, x)
      PROVE  suspended' = suspended
  BY <1>3, Zenon DEF RecordPaymentVolume, DepositMerchantReserve, WithdrawMerchantReserve
<1>4. ASSUME NEW m, NEW u, CheckReserveCompliance(m) \/ WaiveReserveRequirement(m, u)
      PROVE  suspended' = suspended
  BY <1>4, Zenon DEF CheckReserveCompliance, WaiveReserveRequirement
<1>. QED
  BY <1>1, <1>2, <1>3, <1>4, Zenon DEF Reserves

LEMMA AdminAsksNothing ==
  ASSUME Terms \/ Scores \/ Settings \/ Pausing
  PROVE  suspended' = suspended
<1>. USE DEF settingVars
<1>1. CASE Terms
  BY <1>1, TermsOnly
<1>2. CASE Scores
  BY <1>2, Zenon DEF Scores, ResetFraudScore, ResetCustomerAbuseScore, WaiveCooldown,
                     FlagRefundAbuse
<1>3. CASE Settings
  BY <1>3 DEF Settings, Change
<1>4. CASE Pausing
  BY <1>4, Zenon DEF Pausing, SetPaused
<1>. QED
  BY <1>1, <1>2, <1>3, <1>4

LEMMA ListStep == ListInv /\ [Next]_vars => ListInv'
<1>. SUFFICES ASSUME ListInv, [Next]_vars PROVE ListInv'
  OBVIOUS
<1>1. CASE RefundCall /\ UNCHANGED listVars
  <2>1. suspended' = suspended \/ \E t : Ask(Self, t)
    BY <1>1, RequestingAsks, ReviewAsksNothing, DeadlinesAskNothing, ReservesAsk,
       AdminAsksNothing, Zenon DEF RefundCall
  <2>2. listed' = listed
    BY <1>1 DEF listVars
  <2>3. CASE suspended' = suspended
    BY <2>2, <2>3 DEF ListInv, SuspendedIsListed
  <2>. QED
    BY <2>1, <2>2, <2>3, AskKeeps
<1>2. CASE WhitelistCall
  BY <1>2, ListingKeeps, QuotasKeep, GovernanceKeeps DEF WhitelistCall
<1>3. CASE UNCHANGED whitelistVars
  BY <1>3 DEF ListInv, SuspendedIsListed, whitelistVars, listVars
<1>. QED
  BY <1>1, <1>2, <1>3 DEF Next, vars

(* No sequence of listings, removals, votes and suspensions leaves a        *)
(* suspension on a token that is not listed, to come back with it, for any  *)
(* tokens, voters and proposals (remove_token_from_whitelist, 211-215).     *)
THEOREM SuspendedIsListedAlways == Spec => []SuspendedIsListed
<1>1. Init => ListInv
  BY Zenon DEF Init, WhitelistInit, ListInv, SuspendedIsListed
<1>2. ListInv /\ [Next]_vars => ListInv'
  BY ListStep
<1>3. ListInv => SuspendedIsListed
  BY DEF ListInv
<1>. QED
  BY <1>1, <1>2, <1>3, PTL DEF Spec

-----------------------------------------------------------------------------
(* The admin's queue.                                                       *)

OffQueue == {"None", "Approved", "Cancelled", "CrossContractRefunded"}
On(s, r) == \E i \in DOMAIN s : s[i] = r

(* A queue of ids, each at most once.                                       *)
Once(s) == s \in Seq(Ids) /\ \A i, j \in DOMAIN s : s[i] = s[j] => i = j

QueueInv ==
  /\ Once(queue)
  /\ \A r \in Ids :
       /\ refund[r].status \in Waiting => On(queue, r)
       /\ refund[r].status \in OffQueue => ~On(queue, r)

(* A refund that may stay where it is, on the queue or off it.              *)
Steady(r) ==
  /\ refund'[r].status \in Waiting => refund[r].status \in Waiting
  /\ refund'[r].status \in OffQueue => refund[r].status \in OffQueue

LEMMA StayedQueued ==
  ASSUME QueueInv, queue' = queue, \A r \in Ids : Steady(r)
  PROVE  QueueInv'
BY DEF QueueInv, Steady

(* What is left after a refund is taken off the queue.                      *)
LEMMA DequeueLeaves ==
  ASSUME NEW r, Once(queue), Dequeue(r)
  PROVE  Once(queue') /\ \A q : On(queue', q) <=> On(queue, q) /\ q # r
<1>. DEFINE others == {i \in DOMAIN queue : queue[i] # r}
            n == Cardinality(others)
<1>1. n \in Nat
  <2>1. DOMAIN queue = 1 .. Len(queue) /\ Len(queue) \in Nat
    BY DEF Once
  <2>2. IsFiniteSet(1 .. Len(queue))
    BY <2>1, FS_Interval
  <2>3. IsFiniteSet(others)
    BY <2>1, <2>2, FS_Subset
  <2>. HIDE DEF others
  <2>. QED
    BY <2>3, FS_CardinalityType
<1>2. PICK from \in [1 .. n -> others] :
        /\ Range(from) = others
        /\ \A i, j \in DOMAIN from : i < j => from[i] < from[j]
        /\ queue' = [i \in DOMAIN from |-> queue[from[i]]]
  BY DEF Dequeue
<1>. HIDE DEF n
<1>3. \A i \in 1 .. n : /\ from[i] \in DOMAIN queue /\ queue[from[i]] # r
                        /\ queue'[i] = queue[from[i]] /\ queue[from[i]] \in Ids
  BY <1>2 DEF Once
<1>4. DOMAIN queue' = 1 .. n /\ queue' \in Seq(Ids)
  BY <1>1, <1>2, <1>3
<1>5. ASSUME NEW i \in DOMAIN queue', NEW j \in DOMAIN queue', queue'[i] = queue'[j]
      PROVE  i = j
  <2>1. from[i] = from[j]
    BY <1>3, <1>4, <1>5 DEF Once
  <2>2. i \in Int /\ j \in Int /\ from[i] \in Int
    BY <1>3, <1>4 DEF Once
  <2>3. ~(i < j) /\ ~(j < i)
    BY <1>2, <1>4, <2>1, <2>2
  <2>. QED
    BY <2>2, <2>3
<1>6. ASSUME NEW q, On(queue', q) PROVE On(queue, q) /\ q # r
  BY <1>3, <1>4, <1>6 DEF On
<1>7. ASSUME NEW q, On(queue, q), q # r PROVE On(queue', q)
  <2>1. PICK k \in others : queue[k] = q
    BY <1>7 DEF On
  <2>2. PICK i \in 1 .. n : from[i] = k
    BY <1>2, <2>1 DEF Range
  <2>. QED
    BY <1>3, <1>4, <2>1, <2>2 DEF On
<1>. QED
  BY <1>4, <1>5, <1>6, <1>7 DEF Once

LEMMA TakenOff ==
  ASSUME QueueInv, NEW r \in Ids, Dequeue(r), refund'[r].status \notin Waiting,
         \A q \in Ids \ {r} : Steady(q)
  PROVE  QueueInv'
<1>1. Once(queue') /\ \A q : On(queue', q) <=> On(queue, q) /\ q # r
  BY DequeueLeaves DEF QueueInv
<1>. QED
  BY <1>1 DEF QueueInv, Steady

LEMMA PutOn ==
  ASSUME QueueInv, made \in Ids, refund[made].status = "None", queue' = Append(queue, made),
         refund'[made].status \notin OffQueue,
         \A q \in Ids \ {made} : Steady(q)
  PROVE  QueueInv'
<1>1. ~On(queue, made) /\ queue \in Seq(Ids)
  BY DEF QueueInv, OffQueue, Once
<1>2. /\ queue' \in Seq(Ids) /\ DOMAIN queue' = 1 .. Len(queue) + 1
      /\ \A i \in 1 .. Len(queue) : queue'[i] = queue[i]
      /\ queue'[Len(queue) + 1] = made /\ Len(queue) \in Nat /\ DOMAIN queue = 1 .. Len(queue)
  BY <1>1
<1>3. ASSUME NEW i \in DOMAIN queue', NEW j \in DOMAIN queue', queue'[i] = queue'[j] PROVE i = j
  BY <1>1, <1>2, <1>3 DEF QueueInv, Once, On
<1>4. \A q : On(queue', q) <=> On(queue, q) \/ q = made
  BY <1>2 DEF On
<1>. QED
  BY <1>2, <1>3, <1>4 DEF QueueInv, Steady, Once

(* A call that writes one refund.                                           *)
LEMMA OthersSteady ==
  ASSUME RefundInv, NEW r \in Ids, NEW f, refund' = [refund EXCEPT ![r] = f]
  PROVE  refund'[r] = f /\ \A q \in Ids \ {r} : Steady(q)
BY DEF RefundInv, Steady

(* Decided, and off the queue.                                              *)
LEMMA DecidedOff ==
  ASSUME RefundInv, QueueInv, NEW r \in Ids, Dequeue(r),
         \/ Finish(r, "Approved") \/ Finish(r, "Processed") \/ Finish(r, "Cancelled") \/ Reject(r)
  PROVE  QueueInv'
<1>1. ASSUME NEW f, refund' = [refund EXCEPT ![r] = f], f.status \notin Waiting
      PROVE  QueueInv'
  BY <1>1, OthersSteady, TakenOff
<1>2. ASSUME NEW s \in {"Approved", "Processed", "Cancelled"}, Finish(r, s) PROVE QueueInv'
  <2>. DEFINE f == [refund[r] EXCEPT !.status = s]
  <2>1. refund' = [refund EXCEPT ![r] = f]
    BY <1>2 DEF Finish
  <2>2. f.status \notin Waiting
    BY ShapeNext DEF Waiting, Reviewed
  <2>. QED
    BY <1>1, <2>1, <2>2
<1>3. ASSUME Reject(r) PROVE QueueInv'
  <2>. DEFINE f == [refund[r] EXCEPT !.status = "Rejected", !.rejected = now]
  <2>1. refund' = [refund EXCEPT ![r] = f]
    BY <1>3 DEF Reject
  <2>2. f.status \notin Waiting
    BY ShapeNext DEF Waiting, Reviewed
  <2>. QED
    BY <1>1, <2>1, <2>2
<1>. QED
  BY <1>2, <1>3

(* Moved without a word to the queue: still waiting if it waited, or paid,  *)
(* rejected or appealed, which the queue does not tell.                     *)
LEMMA MovedOn ==
  ASSUME RefundInv, QueueInv, NEW r \in Ids, queue' = queue,
         \/ Finish(r, "Processed") \/ Finish(r, "UnderAppeal") \/ Reject(r)
         \/ refund[r].status \in Waiting /\ Finish(r, "EvidenceSubmitted")
  PROVE  QueueInv'
<1>1. ASSUME NEW f, refund' = [refund EXCEPT ![r] = f], f.status \notin OffQueue,
             f.status \in Waiting => refund[r].status \in Waiting
      PROVE  QueueInv'
  <2>1. refund'[r] = f /\ \A q \in Ids \ {r} : Steady(q)
    BY <1>1, OthersSteady
  <2>2. Steady(r)
    BY <1>1, <2>1 DEF Steady
  <2>. QED
    BY <2>1, <2>2, StayedQueued
<1>2. ASSUME NEW s \in {"Processed", "UnderAppeal", "EvidenceSubmitted"}, Finish(r, s),
             s = "EvidenceSubmitted" => refund[r].status \in Waiting
      PROVE  QueueInv'
  <2>. DEFINE f == [refund[r] EXCEPT !.status = s]
  <2>1. refund' = [refund EXCEPT ![r] = f]
    BY <1>2 DEF Finish
  <2>2. f.status = s
    BY ShapeNext
  <2>. HIDE DEF f
  <2>3. f.status \notin OffQueue /\ (f.status \in Waiting => refund[r].status \in Waiting)
    BY <1>2, <2>2 DEF OffQueue, Waiting, Reviewed
  <2>. QED
    BY <1>1, <2>1, <2>3
<1>3. ASSUME Reject(r) PROVE QueueInv'
  <2>. DEFINE f == [refund[r] EXCEPT !.status = "Rejected", !.rejected = now]
  <2>1. refund' = [refund EXCEPT ![r] = f]
    BY <1>3 DEF Reject
  <2>2. f.status = "Rejected"
    BY ShapeNext
  <2>. HIDE DEF f
  <2>. QED
    BY <1>1, <2>1, <2>2 DEF OffQueue, Waiting, Reviewed
<1>. QED
  BY <1>2, <1>3

LEMMA ReviewQueued ==
  ASSUME RefundInv, QueueInv, NEW r \in Ids, NEW a,
         \/ ApproveRefund(a, r) \/ RejectRefund(a, r)
         \/ BatchApprove(r) \/ BatchReject(r) \/ ProcessRefund(r)
  PROVE  QueueInv'
<1>1. ProcessRefund(r) => queue' = queue /\ Finish(r, "Processed")
  BY Zenon DEF ProcessRefund
<1>2. ~ProcessRefund(r) => Dequeue(r) /\ (Finish(r, "Approved") \/ Reject(r))
  BY Zenon DEF ApproveRefund, RejectRefund, BatchApprove, BatchReject
<1>. QED
  BY <1>1, <1>2, DecidedOff, MovedOn

LEMMA VoucherQueued ==
  ASSUME RefundInv, QueueInv, NEW r \in Ids, NEW a, NEW x, NEW until,
         ApproveRefundAsVoucher(a, r, x, until)
  PROVE  QueueInv'
<1>1. Dequeue(r) /\ Finish(r, "Processed")
  BY Zenon DEF ApproveRefundAsVoucher
<1>. QED
  BY <1>1, DecidedOff

LEMMA EvidenceQueued ==
  ASSUME RefundInv, QueueInv, NEW r \in Ids, SubmitRefundEvidence(r)
  PROVE  QueueInv'
<1>1. queue' = queue /\ Finish(r, "EvidenceSubmitted") /\ refund[r].status \in Waiting
  BY DEF SubmitRefundEvidence, In, Waiting
<1>. QED
  BY <1>1, MovedOn

LEMMA EscalationQueued ==
  ASSUME RefundInv, QueueInv, NEW r \in Ids,
         \/ EscalateToSenior(r) \/ TriggerSeniorAutoApprove(r)
         \/ \E b \in BOOLEAN : ResolveEscalated(r, b)
  PROVE  QueueInv'
<1>1. CASE EscalateToSenior(r)
  <2>. DEFINE f == [refund[r] EXCEPT !.status = "EscalatedToSenior",
                                     !.seniorUntil = now + cfg.seniorSpan]
  <2>1. refund' = [refund EXCEPT ![r] = f] /\ queue' = queue /\ refund[r].status \in Waiting
    BY <1>1 DEF EscalateToSenior, In, Waiting
  <2>2. f.status = "EscalatedToSenior"
    BY ShapeNext DEF Shape
  <2>. HIDE DEF f
  <2>3. refund'[r] = f /\ \A q \in Ids \ {r} : Steady(q)
    BY <2>1, OthersSteady
  <2>4. Steady(r)
    BY <2>1, <2>2, <2>3 DEF Steady, OffQueue
  <2>. QED
    BY <2>1, <2>3, <2>4, StayedQueued
<1>2. CASE TriggerSeniorAutoApprove(r)
  <2>1. Dequeue(r) /\ Finish(r, "Processed")
    BY <1>2, Zenon DEF TriggerSeniorAutoApprove
  <2>. QED
    BY <2>1, DecidedOff
<1>3. ASSUME NEW b \in BOOLEAN, ResolveEscalated(r, b) PROVE QueueInv'
  <2>1. Dequeue(r) /\ (Finish(r, "Processed") \/ Reject(r))
    BY <1>3, Zenon DEF ResolveEscalated
  <2>. QED
    BY <2>1, DecidedOff
<1>. QED
  BY <1>1, <1>2, <1>3

(* A counter-offer leaves the refund on the queue, and so does its          *)
(* acceptance; only its settlement when it has expired takes it off.        *)
LEMMA OffersQueued ==
  ASSUME RefundInv, QueueInv, NEW r \in Ids,
         \/ \E x \in Amounts : CounterOfferRefund(r, x)
         \/ AcceptCounterOffer(r) \/ AcceptLateOffer(r) \/ RejectCounterOffer(r)
         \/ CheckCounterOfferExpiry(r) \/ SettleExpiredCounterOffer(r)
  PROVE  QueueInv'
<1>1. ASSUME NEW f, refund' = [refund EXCEPT ![r] = f], queue' = queue,
             f.status \notin OffQueue, f.status \in Waiting => refund[r].status \in Waiting
      PROVE  QueueInv'
  <2>1. refund'[r] = f /\ \A q \in Ids \ {r} : Steady(q)
    BY <1>1, OthersSteady
  <2>2. Steady(r)
    BY <1>1, <2>1 DEF Steady
  <2>. QED
    BY <1>1, <2>1, <2>2, StayedQueued
<1>2. ASSUME NEW x \in Amounts, CounterOfferRefund(r, x) PROVE QueueInv'
  <2>. DEFINE o == [amount |-> x, until |-> now + cfg.offerLife]
              f == [refund[r] EXCEPT !.status = "CounterOffered", !.offer = o]
  <2>1. refund' = [refund EXCEPT ![r] = f] /\ queue' = queue /\ refund[r].status \in Waiting
    BY <1>2 DEF CounterOfferRefund, In, Waiting, Reviewed
  <2>2. f.status = "CounterOffered"
    BY ShapeNext DEF Shape
  <2>. HIDE DEF f
  <2>. QED
    BY <1>1, <2>1, <2>2 DEF OffQueue
<1>3. CASE AcceptCounterOffer(r)
  <2>. DEFINE f == [refund[r] EXCEPT !.status = "Processed", !.offer = NoOffer]
  <2>1. refund' = [refund EXCEPT ![r] = f] /\ queue' = queue
    BY <1>3 DEF AcceptCounterOffer
  <2>2. f.status = "Processed"
    BY ShapeNext DEF Shape
  <2>. HIDE DEF f
  <2>. QED
    BY <1>1, <2>1, <2>2 DEF OffQueue, Waiting, Reviewed
<1>4. CASE AcceptLateOffer(r)
  <2>1. queue' = queue /\ Finish(r, "UnderAppeal")
    BY <1>4, Zenon DEF AcceptLateOffer
  <2>. QED
    BY <2>1, MovedOn
<1>5. ASSUME Escalate(r) PROVE QueueInv'
  <2>. DEFINE f == [refund[r] EXCEPT !.status = "UnderAppeal", !.offer = NoOffer]
  <2>1. refund' = [refund EXCEPT ![r] = f] /\ queue' = queue
    BY <1>5 DEF Escalate
  <2>2. f.status = "UnderAppeal"
    BY ShapeNext DEF Shape
  <2>. HIDE DEF f
  <2>. QED
    BY <1>1, <2>1, <2>2 DEF OffQueue, Waiting, Reviewed
<1>6. CASE SettleExpiredCounterOffer(r)
  <2>. DEFINE f == IF cfg.offerAccept
                   THEN [refund[r] EXCEPT !.status = "Processed", !.offer = NoOffer]
                   ELSE [refund[r] EXCEPT !.status = "Rejected", !.rejected = now,
                                          !.offer = NoOffer]
  <2>1. refund' = [refund EXCEPT ![r] = f] /\ Dequeue(r)
    BY <1>6 DEF SettleExpiredCounterOffer
  <2>2. f.status \in {"Processed", "Rejected"}
    BY ShapeNext DEF Shape
  <2>. HIDE DEF f
  <2>3. f.status \notin Waiting
    BY <2>2 DEF Waiting, Reviewed
  <2>. QED
    BY <2>1, <2>3, OthersSteady, TakenOff
<1>. QED
  BY <1>2, <1>3, <1>4, <1>5, <1>6 DEF RejectCounterOffer, CheckCounterOfferExpiry

LEMMA ClosingQueued ==
  ASSUME RefundInv, QueueInv, NEW r \in Ids,
         \/ CancelRefundRequest(r) \/ AutoCancelExpiredRequest(r) \/ AutoRejectStaleRefund(r)
         \/ AutoApproveRefund(r) \/ TriggerAutoApproval(r)
  PROVE  QueueInv'
<1>1. AutoApproveRefund(r) \/ TriggerAutoApproval(r) => queue' = queue /\ Finish(r, "Processed")
  BY Zenon DEF AutoApproveRefund, TriggerAutoApproval
<1>2. CancelRefundRequest(r) \/ AutoCancelExpiredRequest(r) \/ AutoRejectStaleRefund(r) =>
        Dequeue(r) /\ (Finish(r, "Cancelled") \/ Reject(r))
  BY Zenon DEF CancelRefundRequest, AutoCancelExpiredRequest, AutoRejectStaleRefund
<1>. QED
  BY <1>1, <1>2, DecidedOff, MovedOn

LEMMA AppealsQueued ==
  ASSUME RefundInv, QueueInv, NEW r \in Ids,
         AppealRefund(r) \/ \E b \in BOOLEAN : ResolveAppeal(r, b)
  PROVE  QueueInv'
<1>1. queue' = queue /\ (Finish(r, "UnderAppeal") \/ Finish(r, "Processed") \/ Reject(r))
  BY Zenon DEF AppealRefund, ResolveAppeal
<1>. QED
  BY <1>1, MovedOn

(* A new refund goes on the queue, unless it is approved at once or a       *)
(* record of what was paid elsewhere.                                       *)
LEMMA RequestingQueued ==
  ASSUME RefundInv, QueueInv, Requesting \/ Registering
  PROVE  QueueInv'
<1>1. made < MaxRefunds => made \in Ids /\ refund[made].status = "None"
  BY RefundAssumption DEF RefundInv, Ids
<1>2. ASSUME NEW f, made < MaxRefunds, refund' = [refund EXCEPT ![made] = f],
             f.status \notin Waiting, queue' = queue
      PROVE  QueueInv'
  <2>1. refund'[made] = f /\ \A q \in Ids \ {made} : Steady(q)
    BY <1>1, <1>2, OthersSteady
  <2>2. Steady(made)
    BY <1>1, <1>2, <2>1 DEF Steady, OffQueue
  <2>. QED
    BY <1>2, <2>1, <2>2, StayedQueued
<1>3. ASSUME NEW c, NEW p, NEW asks, RequestRefund(c, p, asks) PROVE QueueInv'
  <2>1. PICK x, auto :
          /\ auto \in BOOLEAN /\ made < MaxRefunds
          /\ refund' = [refund EXCEPT ![made] = NewRefund(c, p, x, auto)]
          /\ queue' = IF auto THEN queue ELSE Append(queue, made)
    <3>. DEFINE x == IF cfg.tiers = <<>> THEN asks ELSE Least(asks, TierCap(p) - refunded[p])
                auto == AutoApproved(Payment[p].merchant, c, x)
    <3>1. /\ made < MaxRefunds
          /\ refund' = [refund EXCEPT ![made] = NewRefund(c, p, x, auto)]
          /\ queue' = IF auto THEN queue ELSE Append(queue, made)
      BY <1>3 DEF RequestRefund
    <3>2. auto \in BOOLEAN
      BY DEF AutoApproved
    <3>. HIDE DEF x, auto
    <3>. QED
      BY <3>1, <3>2
  <2>. DEFINE f == NewRefund(c, p, x, auto)
  <2>2. f.status = (IF auto THEN "Approved" ELSE "Requested")
    BY DEF NewRefund, NoRefund
  <2>3. refund' = [refund EXCEPT ![made] = f]
    BY <2>1
  <2>. HIDE DEF f
  <2>4. CASE auto
    BY <1>2, <2>1, <2>2, <2>3, <2>4 DEF Waiting, Reviewed
  <2>5. CASE ~auto
    <3>1. refund'[made] = f /\ \A q \in Ids \ {made} : Steady(q)
      BY <1>1, <2>1, <2>3, OthersSteady
    <3>2. refund'[made].status \notin OffQueue
      BY <2>2, <2>5, <3>1 DEF OffQueue
    <3>. QED
      BY <1>1, <2>1, <2>5, <3>1, <3>2, PutOn
  <2>. QED
    BY <2>1, <2>4, <2>5
<1>4. ASSUME NEW m, NEW p, NEW x, MerchantRefund(m, p, x) PROVE QueueInv'
  <2>. DEFINE f == [NoRefund EXCEPT !.status = "Processed", !.customer = Payment[p].customer,
          !.merchant = m, !.payment = p, !.token = Payment[p].token, !.amount = x,
          !.requested = now]
  <2>1. f.status = "Processed"
    BY DEF NoRefund
  <2>2. made < MaxRefunds /\ refund' = [refund EXCEPT ![made] = f] /\ queue' = queue
    BY <1>4 DEF MerchantRefund
  <2>. HIDE DEF f
  <2>. QED
    BY <1>2, <2>1, <2>2 DEF Waiting, Reviewed
<1>5. ASSUME NEW c, NEW m, NEW t, NEW x, RegisterCrossContractRefund(c, m, t, x) PROVE QueueInv'
  <2>. DEFINE f == [NoRefund EXCEPT !.status = "CrossContractRefunded", !.customer = c,
          !.merchant = m, !.token = t, !.amount = x, !.requested = now]
  <2>1. f.status = "CrossContractRefunded"
    BY DEF NoRefund
  <2>2. made < MaxRefunds /\ refund' = [refund EXCEPT ![made] = f] /\ queue' = queue
    BY <1>5 DEF RegisterCrossContractRefund
  <2>. HIDE DEF f
  <2>. QED
    BY <1>2, <2>1, <2>2 DEF Waiting, Reviewed
<1>. QED
  BY <1>3, <1>4, <1>5 DEF Requesting, Registering

(* The rest writes no status and not the queue.                             *)
LEMMA AsideQueued ==
  ASSUME RefundInv, QueueInv, Aside, queue' = queue
  PROVE  QueueInv'
<1>1. \A r \in Ids : Steady(r)
  BY DEF Aside, Alike, Steady
<1>. QED
  BY <1>1, StayedQueued

LEMMA RestQueued ==
  ASSUME RefundInv, QueueInv, Extending \/ Reserves \/ Terms \/ Scores \/ Settings \/ Pausing
  PROVE  QueueInv'
<1>. USE DEF settingVars, requestVars
<1>1. Aside
  BY ExtendingAside, ReservesAside, TermsAside, AdminAside
<1>2. Extending => queue' = queue
  BY Zenon DEF Extending, RequestReviewExtension, ExtendRefundDeadline
<1>3. Reserves => queue' = queue
  <2>1. ASSUME NEW m, NEW u, CheckReserveCompliance(m) \/ WaiveReserveRequirement(m, u)
        PROVE  queue' = queue
    BY <2>1 DEF CheckReserveCompliance, WaiveReserveRequirement
  <2>2. ASSUME NEW m, NEW x, \/ RecordPaymentVolume(m, x)
                            \/ DepositMerchantReserve(m, x) \/ WithdrawMerchantReserve(m, x)
        PROVE  queue' = queue
    BY <2>2 DEF RecordPaymentVolume, DepositMerchantReserve, WithdrawMerchantReserve
  <2>3. ASSUME NEW m, NEW t, NEW x, DepositReserve(m, t, x) \/ WithdrawReserve(m, t, x)
        PROVE  queue' = queue
    BY <2>3 DEF DepositReserve, WithdrawReserve
  <2>. QED
    BY <2>1, <2>2, <2>3, Zenon DEF Reserves
<1>4. Terms => queue' = queue
  BY TermsOnly
<1>5. Scores => queue' = queue
  BY Zenon DEF Scores, ResetFraudScore, ResetCustomerAbuseScore, WaiveCooldown, FlagRefundAbuse
<1>6. Settings \/ Pausing => queue' = queue
  BY DEF Settings, Change, Pausing, SetPaused
<1>. QED
  BY <1>1, <1>2, <1>3, <1>4, <1>5, <1>6, AsideQueued

LEMMA StepQueued == RefundInv /\ QueueInv /\ [Next]_vars => QueueInv'
<1>. SUFFICES ASSUME RefundInv, QueueInv, [Next]_vars PROVE QueueInv'
  OBVIOUS
<1>1. CASE RefundCall
  <2>1. CASE Requesting \/ Registering
    BY <2>1, RequestingQueued
  <2>2. CASE Reviewing
    BY <2>2, ReviewQueued DEF Reviewing
  <2>3. CASE Vouchers
    <3>1. ASSUME NEW c, NEW m, NEW x, NEW until,
                 ApplyStoreCredit(c, m, x) \/ ExtendStoreCreditExpiry(m, c, until)
          PROVE  QueueInv'
      <4>1. queue' = queue
        BY <3>1 DEF ApplyStoreCredit, ExtendStoreCreditExpiry, requestVars
      <4>. QED
        BY <3>1, <4>1, CreditAside, AsideQueued
    <3>. QED
      BY <2>3, <3>1, VoucherQueued DEF Vouchers
  <2>4. CASE Evidence
    BY <2>4, EvidenceQueued DEF Evidence
  <2>5. CASE Escalation
    BY <2>5, EscalationQueued DEF Escalation
  <2>6. CASE Offers
    BY <2>6, OffersQueued DEF Offers
  <2>7. CASE Closing
    BY <2>7, ClosingQueued DEF Closing
  <2>8. CASE Appeals
    BY <2>8, AppealsQueued DEF Appeals
  <2>9. CASE Extending \/ Reserves \/ Terms \/ Scores \/ Settings \/ Pausing
    BY <2>9, RestQueued
  <2>. QED
    BY <1>1, <2>1, <2>2, <2>3, <2>4, <2>5, <2>6, <2>7, <2>8, <2>9 DEF RefundCall
<1>2. CASE UNCHANGED refundVars
  BY <1>2 DEF refundVars, QueueInv
<1>. QED
  BY <1>1, <1>2 DEF Next, vars

(* Whatever the reviewers, the senior, the customers and the deadlines do,  *)
(* in any order and for any number of refunds: one that waits is on the     *)
(* admin's queue exactly once, and one that is approved or cancelled is not *)
(* (append_to_pending_queue, remove_from_pending_queue).                    *)
THEOREM QueueListsWaitingAlways == Spec => []QueueListsWaiting
<1>1. Init => QueueInv
  <2>. SUFFICES ASSUME Init PROVE QueueInv
    OBVIOUS
  <2>1. queue = <<>> /\ Once(<<>>) /\ \A r : ~On(<<>>, r)
    BY DEF Init, RefundInit, Once, On
  <2>2. \A r \in Ids : refund[r].status = "None"
    BY DEF Init, RefundInit, NoRefund
  <2>. QED
    BY <2>1, <2>2 DEF QueueInv, Waiting, Reviewed
<1>2. QueueInv => QueueListsWaiting
  <2>. SUFFICES ASSUME QueueInv, NEW r \in Ids
                PROVE  LET times == Cardinality({i \in DOMAIN queue : queue[i] = r}) IN
                       /\ times <= 1
                       /\ refund[r].status \in Waiting => times = 1
                       /\ refund[r].status \in OffQueue => times = 0
    BY DEF QueueListsWaiting, OffQueue
  <2>1. ~On(queue, r) => {i \in DOMAIN queue : queue[i] = r} = {}
    BY DEF On
  <2>2. ASSUME On(queue, r) PROVE Cardinality({i \in DOMAIN queue : queue[i] = r}) = 1
    <3>1. PICK k \in DOMAIN queue : queue[k] = r
      BY <2>2 DEF On
    <3>2. {i \in DOMAIN queue : queue[i] = r} = {k}
      BY <3>1 DEF QueueInv, Once
    <3>. QED
      BY <3>2, FS_Singleton
  <2>3. ~On(queue, r) => Cardinality({i \in DOMAIN queue : queue[i] = r}) = 0
    BY <2>1, FS_EmptySet
  <2>. QED
    BY <2>2, <2>3 DEF QueueInv
<1>. QED
  BY <1>1, <1>2, InitInv, StepAllowed, StepQueued, PTL DEF Allowed, Spec

-----------------------------------------------------------------------------
(* The ballots.  What a voter casts replaces the voter's share of the two   *)
(* sums, and nothing else does.                                             *)

Ballot == [approve : BOOLEAN, weight : Nat]
CastIn(b, yes) == {v \in Voters : b[v].approve = yes}
Weights(b) == [v \in Voters |-> b[v].weight]

(* A proposal and its ballots; nobody has voted on one that was not made.   *)
Tallied(r, b) ==
  /\ {"status", "approve", "reject"} \subseteq DOMAIN r
  /\ b \in [Voters -> Ballot]
  /\ r.approve = SumOf(Weights(b), CastIn(b, TRUE))
  /\ r.reject = SumOf(Weights(b), CastIn(b, FALSE))
  /\ r.status = "None" => b = [v \in Voters |-> NoBallot]

BallotInv ==
  /\ proposal = [k \in Kind |-> [p \in Proposals |-> proposal[k][p]]]
  /\ ballot = [k \in Kind |-> [p \in Proposals |-> ballot[k][p]]]
  /\ \A k \in Kind, p \in Proposals : Tallied(proposal[k][p], ballot[k][p])

LEMMA NobodyTallied ==
  ASSUME NEW r, {"status", "approve", "reject"} \subseteq DOMAIN r, r.approve = 0, r.reject = 0
  PROVE  Tallied(r, [v \in Voters |-> NoBallot])
<1>. DEFINE b == [v \in Voters |-> NoBallot]
<1>1. b \in [Voters -> Ballot]
  BY DEF Ballot, NoBallot
<1>2. \A v \in Voters : Weights(b)[v] = 0
  BY DEF Weights, NoBallot
<1>3. ASSUME NEW yes PROVE SumOf(Weights(b), CastIn(b, yes)) = 0
  <2>. DEFINE S == CastIn(b, yes)  w == Weights(b)
  <2>1. S \subseteq Voters
    BY DEF CastIn
  <2>2. IsFiniteSet(S) /\ \A v \in S : w[v] = 0
    BY <1>2, <2>1, FS_Subset, WhitelistAssumption
  <2>. HIDE DEF S, w
  <2>3. SumOf(w, S) = 0
    BY <2>2, SumOfZeros
  <2>. QED
    BY <2>3 DEF S, w
<1>. HIDE DEF b
<1>4. Tallied(r, b)
  BY <1>1, <1>3 DEF Tallied, b
<1>. QED
  BY <1>4 DEF b

Recast(b, v, new, c) == c = [b EXCEPT ![v] = new]

LEMMA OneVote ==
  ASSUME NEW b \in [Voters -> Ballot], NEW v \in Voters, NEW new \in Ballot, NEW yes,
         NEW c, Recast(b, v, new, c)
  PROVE  SumOf(Weights(c), CastIn(c, yes)) =
           SumOf(Weights(b), CastIn(b, yes))
             - (IF b[v].approve = yes THEN b[v].weight ELSE 0)
             + (IF new.approve = yes THEN new.weight ELSE 0)
<1>. DEFINE S == CastIn(b, yes)
            T == CastIn(c, yes)
            f == Weights(b)
            g == Weights(c)
<1>1. c \in [Voters -> Ballot] /\ c[v] = new /\ \A u \in Voters : u # v => c[u] = b[u]
  BY DEF Recast
<1>2. S \subseteq Voters /\ T \subseteq Voters
  BY DEF CastIn
<1>3. IsFiniteSet(S) /\ IsFiniteSet(T)
  BY <1>2, FS_Subset, WhitelistAssumption
<1>4. Integral(f, S) /\ Integral(g, T)
  <2>1. \A u \in Voters : b[u].weight \in Int /\ c[u].weight \in Int
    BY <1>1 DEF Ballot
  <2>. QED
    BY <1>2, <2>1 DEF Integral, Weights
<1>5. \A u \in S \cup T : u # v => u \in S /\ u \in T /\ g[u] = f[u]
  BY <1>1 DEF CastIn, Weights
<1>6. f[v] = b[v].weight /\ g[v] = new.weight
  BY <1>1 DEF Weights
<1>7. (v \in S <=> b[v].approve = yes) /\ (v \in T <=> new.approve = yes)
  BY <1>1 DEF CastIn
<1>. HIDE DEF S, T, f, g
<1>8. SumOf(g, T) = SumOf(f, S) - (IF v \in S THEN f[v] ELSE 0)
                                + (IF v \in T THEN g[v] ELSE 0)
  BY <1>3, <1>4, <1>5, SumReplaced
<1>9. SumOf(g, T) = SumOf(f, S) - (IF b[v].approve = yes THEN b[v].weight ELSE 0)
                                + (IF new.approve = yes THEN new.weight ELSE 0)
  BY <1>6, <1>7, <1>8
<1>. QED
  BY <1>9 DEF S, T, f, g

LEMMA VoteTallied ==
  ASSUME NEW r, NEW b, Tallied(r, b), r.status # "None", NEW v \in Voters, NEW new \in Ballot
  PROVE  Tallied(Tally(r, b[v], new), [b EXCEPT ![v] = new])
<1>. DEFINE c == [b EXCEPT ![v] = new]
            s == Tally(r, b[v], new)
<1>1. b \in [Voters -> Ballot] /\ c \in [Voters -> Ballot]
  BY DEF Tallied
<1>2. new.approve \in BOOLEAN /\ b[v].approve \in BOOLEAN
  BY <1>1 DEF Ballot
<1>3. /\ DOMAIN s = DOMAIN r /\ s.status = r.status
      /\ s.approve = r.approve - (IF b[v].approve = TRUE THEN b[v].weight ELSE 0)
                               + (IF new.approve = TRUE THEN new.weight ELSE 0)
      /\ s.reject = r.reject - (IF b[v].approve = FALSE THEN b[v].weight ELSE 0)
                             + (IF new.approve = FALSE THEN new.weight ELSE 0)
  BY <1>2 DEF Tally, Tallied
<1>4. Recast(b, v, new, c)
  BY DEF Recast
<1>. HIDE DEF c, s
<1>8. ASSUME NEW yes
      PROVE  SumOf(Weights(c), CastIn(c, yes)) =
               SumOf(Weights(b), CastIn(b, yes))
                 - (IF b[v].approve = yes THEN b[v].weight ELSE 0)
                 + (IF new.approve = yes THEN new.weight ELSE 0)
  BY <1>1, <1>4, OneVote
<1>5. s.approve = SumOf(Weights(c), CastIn(c, TRUE))
  BY <1>3, <1>8 DEF Tallied
<1>6. s.reject = SumOf(Weights(c), CastIn(c, FALSE))
  BY <1>3, <1>8 DEF Tallied
<1>7. Tallied(s, c)
  BY <1>1, <1>3, <1>5, <1>6 DEF Tallied
<1>. QED
  BY <1>7 DEF s, c

LEMMA OnePoll ==
  ASSUME BallotInv, NEW k \in Kind, NEW p \in Proposals, NEW r, NEW b, Tallied(r, b),
         proposal' = [proposal EXCEPT ![k][p] = r],
         ballot' = [ballot EXCEPT ![k][p] = b] \/ (ballot' = ballot /\ b = ballot[k][p])
  PROVE  BallotInv'
<1>1. /\ proposal' = [j \in Kind |-> [q \in Proposals |-> proposal'[j][q]]]
      /\ proposal'[k][p] = r
      /\ \A j \in Kind, q \in Proposals :
           j # k \/ q # p => proposal'[j][q] = proposal[j][q]
  BY DEF BallotInv
<1>2. /\ ballot' = [j \in Kind |-> [q \in Proposals |-> ballot'[j][q]]]
      /\ ballot'[k][p] = b
      /\ \A j \in Kind, q \in Proposals : j # k \/ q # p => ballot'[j][q] = ballot[j][q]
  <2>1. CASE ballot' = ballot /\ b = ballot[k][p]
    BY <2>1, Zenon DEF BallotInv
  <2>2. CASE ballot' = [ballot EXCEPT ![k][p] = b]
    BY <2>2 DEF BallotInv
  <2>. QED
    BY <2>1, <2>2
<1>3. \A j \in Kind, q \in Proposals : Tallied(proposal[j][q], ballot[j][q])
  BY DEF BallotInv
<1>4. ASSUME NEW j \in Kind, NEW q \in Proposals
      PROVE  Tallied(proposal'[j][q], ballot'[j][q])
  <2>1. CASE j = k /\ q = p
    BY <1>1, <1>2, <2>1
  <2>2. CASE j # k \/ q # p
    <3>1. proposal'[j][q] = proposal[j][q] /\ ballot'[j][q] = ballot[j][q]
      BY <1>1, <1>2, <2>2
    <3>. QED
      BY <1>3, <3>1
  <2>. QED
    BY <2>1, <2>2
<1>5. \A j \in Kind, q \in Proposals : Tallied(proposal[j][q], ballot[j][q])'
  BY <1>4 DEF Tallied
<1>. QED
  BY <1>1, <1>2, <1>5, Zenon DEF BallotInv

(* The status of a proposal that was made, and no tally, changes.           *)
LEMMA OneStatus ==
  ASSUME BallotInv, NEW k \in Kind, NEW p \in Proposals, NEW r,
         proposal[k][p].status # "None",
         r.approve = proposal[k][p].approve, r.reject = proposal[k][p].reject,
         DOMAIN r = DOMAIN proposal[k][p], r.status # "None",
         proposal' = [proposal EXCEPT ![k][p] = r], ballot' = ballot
  PROVE  BallotInv'
<1>1. Tallied(proposal[k][p], ballot[k][p])
  BY DEF BallotInv
<1>. DEFINE b == ballot[k][p]
<1>2. Tallied(r, b)
  BY <1>1, Zenon DEF Tallied
<1>. HIDE DEF b
<1>3. PICK c : c = b
  OBVIOUS
<1>4. Tallied(r, c) /\ c = ballot[k][p]
  BY <1>2, <1>3 DEF b
<1>. QED
  BY <1>4, OnePoll

LEMMA ProposeKeepsBallots ==
  ASSUME BallotInv, NEW k \in Kind, NEW p \in Proposals, NEW t, NEW v,
         ProposeListing(k, p, t, v)
  PROVE  BallotInv'
<1>. DEFINE r == [NoProposal EXCEPT !.status = "Active", !.token = t,
                                    !.deadline = now + rules.window]
            none == [w \in Voters |-> NoBallot]
<1>1. /\ proposal' = [proposal EXCEPT ![k][p] = r] /\ ballot' = ballot
      /\ proposal[k][p].status = "None"
  BY DEF ProposeListing
<1>2. none = ballot[k][p]
  BY <1>1 DEF BallotInv, Tallied
<1>3. {"status", "approve", "reject"} \subseteq DOMAIN r /\ r.approve = 0 /\ r.reject = 0
  BY DEF NoProposal
<1>4. Tallied(r, none)
  BY <1>3, NobodyTallied
<1>. HIDE DEF r, none
<1>5. PICK s, c : s = r /\ c = none
  OBVIOUS
<1>. QED
  BY <1>1, <1>2, <1>4, <1>5, OnePoll

LEMMA VoteKeepsBallots ==
  ASSUME BallotInv, NEW k \in Kind, NEW p \in Proposals, NEW v \in Voters,
         NEW yes \in BOOLEAN, NEW w \in Nat, Vote(k, p, v, yes, w)
  PROVE  BallotInv'
<1>. DEFINE new == [approve |-> yes, weight |-> w]
<1>1. PICK r, b : r = proposal[k][p] /\ b = ballot[k][p]
  OBVIOUS
<1>. DEFINE s == Tally(r, b[v], new)
            c == [b EXCEPT ![v] = new]
<1>2. r.status = "Active" /\ Tallied(r, b) /\ new \in Ballot
  BY <1>1 DEF BallotInv, Vote, Ballot
<1>3. Tallied(s, c)
  BY <1>2, VoteTallied
<1>4. proposal' = [proposal EXCEPT ![k][p] = s]
  BY <1>1, Zenon DEF Vote, BallotInv
<1>5. ballot' = [ballot EXCEPT ![k][p] = c]
  BY <1>1 DEF Vote, BallotInv
<1>. HIDE DEF s, c
<1>6. PICK s1, c1 : s1 = s /\ c1 = c
  OBVIOUS
<1>. QED
  BY <1>3, <1>4, <1>5, <1>6, OnePoll

LEMMA VerdictKeepsBallots ==
  ASSUME BallotInv, NEW k \in Kind, NEW p \in Proposals,
         FinaliseProposal(k, p) \/ VetoProposal(k, p)
  PROVE  BallotInv'
<1>1. PICK r : r = proposal[k][p]
  OBVIOUS
<1>2. {"status", "approve", "reject"} \subseteq DOMAIN r
  BY <1>1 DEF BallotInv, Tallied
<1>3. CASE FinaliseProposal(k, p)
  <2>. DEFINE s == IF QuorumMet(r)
                   THEN [r EXCEPT !.status = "PendingEnactment", !.enactable = now + rules.delay]
                   ELSE [r EXCEPT !.status = "Failed"]
  <2>1. r.status # "None" /\ ballot' = ballot
    BY <1>1, <1>3 DEF FinaliseProposal
  <2>2. proposal' = [proposal EXCEPT ![k][p] = s]
    BY <1>1, <1>3 DEF FinaliseProposal, BallotInv
  <2>3. DOMAIN s = DOMAIN r /\ s.approve = r.approve /\ s.reject = r.reject /\ s.status # "None"
    BY <1>2
  <2>. HIDE DEF s
  <2>4. PICK t : t = s
    OBVIOUS
  <2>. QED
    BY <1>1, <2>1, <2>2, <2>3, <2>4, OneStatus
<1>4. CASE VetoProposal(k, p)
  <2>. DEFINE s == [r EXCEPT !.status = "Vetoed"]
  <2>1. r.status # "None" /\ ballot' = ballot
    BY <1>1, <1>4 DEF VetoProposal
  <2>2. proposal' = [proposal EXCEPT ![k][p] = s]
    BY <1>1, <1>4 DEF VetoProposal, BallotInv
  <2>3. DOMAIN s = DOMAIN r /\ s.approve = r.approve /\ s.reject = r.reject /\ s.status # "None"
    BY <1>2
  <2>. HIDE DEF s
  <2>4. PICK t : t = s
    OBVIOUS
  <2>. QED
    BY <1>1, <2>1, <2>2, <2>3, <2>4, OneStatus
<1>. QED
  BY <1>3, <1>4

LEMMA EnactKeepsBallots ==
  ASSUME BallotInv, NEW k \in Kind, NEW p \in Proposals, Enactable(k, p), ballot' = ballot,
         proposal' = [proposal EXCEPT ![k][p].status = "Enacted"]
  PROVE  BallotInv'
<1>1. PICK r : r = proposal[k][p]
  OBVIOUS
<1>2. {"status", "approve", "reject"} \subseteq DOMAIN r /\ r.status # "None"
  BY <1>1 DEF BallotInv, Tallied, Enactable
<1>. DEFINE s == [r EXCEPT !.status = "Enacted"]
<1>3. proposal' = [proposal EXCEPT ![k][p] = s]
  BY <1>1 DEF BallotInv
<1>4. DOMAIN s = DOMAIN r /\ s.approve = r.approve /\ s.reject = r.reject /\ s.status # "None"
  BY <1>2
<1>. HIDE DEF s
<1>5. PICK t : t = s
  OBVIOUS
<1>. QED
  BY <1>1, <1>2, <1>3, <1>4, <1>5, OneStatus

LEMMA GovernanceKeepsBallots ==
  ASSUME BallotInv, Governance
  PROVE  BallotInv'
<1>1. ASSUME NEW p \in Proposals, EnactListing(p)
      PROVE  BallotInv'
  <2>. DEFINE k == "listing"
  <2>1. /\ k \in Kind /\ Enactable(k, p) /\ ballot' = ballot
        /\ proposal' = [proposal EXCEPT ![k][p].status = "Enacted"]
    BY <1>1, Zenon DEF EnactListing, Kind
  <2>. HIDE DEF k
  <2>. QED
    BY <2>1, EnactKeepsBallots
<1>2. ASSUME NEW p \in Proposals, EnactDelisting(p)
      PROVE  BallotInv'
  <2>. DEFINE k == "delisting"
  <2>1. /\ k \in Kind /\ Enactable(k, p) /\ ballot' = ballot
        /\ proposal' = [proposal EXCEPT ![k][p].status = "Enacted"]
    BY <1>2, Zenon DEF EnactDelisting, Kind
  <2>. HIDE DEF k
  <2>. QED
    BY <2>1, EnactKeepsBallots
<1>3. ASSUME NEW r, SetListingRules(r)
      PROVE  BallotInv'
  BY <1>3, Zenon DEF SetListingRules, BallotInv
<1>4. ASSUME NEW k \in Kind, NEW p \in Proposals, NEW v \in Voters,
             NEW w \in 1 .. Stake[v], NEW yes \in BOOLEAN, Vote(k, p, v, yes, w)
      PROVE  BallotInv'
  <2>1. w \in Nat
    BY WhitelistAssumption
  <2>. QED
    BY <1>4, <2>1, VoteKeepsBallots
<1>. QED
  BY <1>1, <1>2, <1>3, <1>4, VerdictKeepsBallots, ProposeKeepsBallots, Zenon DEF Governance

LEMMA BallotStep == BallotInv /\ [Next]_vars => BallotInv'
<1>. SUFFICES ASSUME BallotInv, [Next]_vars PROVE BallotInv'
  OBVIOUS
<1>1. CASE UNCHANGED <<proposal, ballot>>
  BY <1>1, Zenon DEF BallotInv
<1>2. CASE Governance
  BY <1>2, GovernanceKeepsBallots
<1>3. ASSUME Listing \/ Quotas
      PROVE  UNCHANGED <<proposal, ballot>>
  <2>1. CASE Listing
    BY <2>1, Zenon DEF Listing, AddToken, RemoveToken, SuspendTokenTimed, LiftTokenSuspension,
       ExtendTokenSuspension, ForgetSuspension, RemoveContractToken, SetContractToken
  <2>2. CASE Quotas
    BY <2>2, Zenon DEF Quotas, RemoveTokenQuota, RecordTokenVolume, SetTokenQuota,
       UpdateTokenQuota
  <2>. QED
    BY <1>3, <2>1, <2>2
<1>4. UNCHANGED <<proposal, ballot>> \/ Governance
  BY <1>3, Zenon DEF Next, vars, whitelistVars, listVars, WhitelistCall
<1>. QED
  BY <1>1, <1>2, <1>4

(* The tallies of every proposal are the stakes of the last ballots cast    *)
(* for and against it, for any voters, stakes, proposals and rules: a vote  *)
(* takes back what the voter's earlier one added (vote_on_proposal).        *)
THEOREM BallotsCountedAlways == Spec => []BallotsCounted
<1>1. ASSUME Init PROVE BallotInv
  <2>1. \A k \in Kind, p \in Proposals :
          proposal[k][p] = NoProposal /\ ballot[k][p] = [v \in Voters |-> NoBallot]
    BY <1>1 DEF Init, WhitelistInit
  <2>2. Tallied(NoProposal, [v \in Voters |-> NoBallot])
    <3>. DEFINE r == NoProposal
    <3>1. {"status", "approve", "reject"} \subseteq DOMAIN r /\ r.approve = 0 /\ r.reject = 0
      BY DEF NoProposal
    <3>. HIDE DEF r
    <3>2. Tallied(r, [v \in Voters |-> NoBallot])
      BY <3>1, NobodyTallied
    <3>. QED
      BY <3>2 DEF r
  <2>3. \A k \in Kind, p \in Proposals : Tallied(proposal[k][p], ballot[k][p])
    BY <2>1, <2>2, Zenon
  <2>4. /\ proposal = [k \in Kind |-> [p \in Proposals |-> proposal[k][p]]]
        /\ ballot = [k \in Kind |-> [p \in Proposals |-> ballot[k][p]]]
    BY <1>1 DEF Init, WhitelistInit
  <2>. QED
    BY <2>3, <2>4 DEF BallotInv
<1>2. BallotInv /\ [Next]_vars => BallotInv'
  BY BallotStep
<1>3. BallotInv => BallotsCounted
  BY Zenon DEF BallotInv, Tallied, BallotsCounted, Weights, CastIn
<1>. QED
  BY <1>1, <1>2, <1>3, PTL DEF Spec

-----------------------------------------------------------------------------
(* The books.  A call moves no tokens, moves tokens of the contract's       *)
(* balance and of one deposit by the same amount (Shifted), or of the       *)
(* balance and of one merchant's reserves (Drawn).                          *)

Sheet(v) == {"kept", "balance"} \subseteq DOMAIN v /\ v.kept \in Int /\ v.balance \in Int
Parties(f) ==
  /\ {"token", "merchant"} \subseteq DOMAIN f
  /\ f.token \in Token
  /\ f.status # "None" => f.merchant \in Merchants

Titled == \A r \in Ids : Parties(refund[r])

BooksInv ==
  /\ RefundInv /\ Titled
  /\ held \in [Token -> Int]
  /\ reserve = [m \in Merchants |-> reserve[m]]
  /\ \A m \in Merchants : Sheet(reserve[m])
  /\ HeldAddsUp

Shifted(r, t, x) ==
  /\ held' = [held EXCEPT ![t] = held[t] + x]
  /\ purse' = [purse EXCEPT ![r] = purse[r] + x]
  /\ reserve' = reserve

Drawn(m, t, x) ==
  /\ held' = [held EXCEPT ![t] = held[t] + x]
  /\ purse' = purse
  /\ \E v : /\ reserve' = [reserve EXCEPT ![m] = v] /\ Sheet(v)
            /\ v.kept + v.balance = reserve[m].kept + reserve[m].balance + x

Untold ==
  /\ held' = held /\ purse' = purse
  /\ reserve' = [m \in Merchants |-> reserve'[m]]
  /\ \A m \in Merchants :
       /\ Sheet(reserve'[m])
       /\ reserve'[m].kept + reserve'[m].balance = reserve[m].kept + reserve[m].balance

Booked ==
  \/ Untold
  \/ \E r \in Ids, t \in Token, x \in Int : Shifted(r, t, x)
  \/ \E m \in Merchants, t \in Token, x \in Int : Drawn(m, t, x)

LEMMA FiniteIds == IsFiniteSet(Ids)
BY FS_Interval, RefundAssumption DEF Ids

(* One value of a sum moves by x.                                           *)
LEMMA SumMoved ==
  ASSUME NEW S, IsFiniteSet(S), NEW f \in [S -> Int], NEW y \in S, NEW x \in Int,
         NEW g \in [S -> Int], g[y] = f[y] + x, \A z \in S : z # y => g[z] = f[z]
  PROVE  /\ SumOf(f, S) \in Int
         /\ SumOf(g, S) = SumOf(f, S) + x
<1>1. Integral(f, S) /\ Integral(g, S)
  BY DEF Integral
<1>2. SumOf(f, S) \in Int /\ SumOf(g, S) = SumOf(f, S) - f[y] + g[y]
  BY <1>1, SumType, SumChanged
<1>3. f[y] \in Int
  OBVIOUS
<1>. QED
  BY <1>2, <1>3

LEMMA ShiftedBooked ==
  ASSUME BooksInv, NEW r \in Ids, NEW t \in Token, NEW x \in Int, Shifted(r, t, x)
  PROVE  held' \in [Token -> Int] /\ HeldAddsUp'
<1>1. held \in [Token -> Int] /\ purse \in [Ids -> Int]
  BY DEF BooksInv, RefundInv
<1>2. /\ held' \in [Token -> Int] /\ held'[t] = held[t] + x
      /\ \A z \in Token : z # t => held'[z] = held[z]
  BY <1>1 DEF Shifted
<1>3. /\ purse' \in [Ids -> Int] /\ purse'[r] = purse[r] + x
      /\ \A z \in Ids : z # r => purse'[z] = purse[z]
  BY <1>1 DEF Shifted
<1>. DEFINE sheets == [m \in Merchants |-> reserve[m].kept + reserve[m].balance]
<1>4. sheets \in [Merchants -> Int]
  BY DEF BooksInv, Sheet
<1>5. SumOf(sheets, Merchants) \in Int
  <2>1. IsFiniteSet(Merchants) /\ Integral(sheets, Merchants)
    BY <1>4, RefundAssumption DEF Integral
  <2>. HIDE DEF sheets
  <2>. QED
    BY <2>1, SumType
<1>6. SumOf(held, Token) \in Int /\ SumOf(held', Token) = SumOf(held, Token) + x
  BY <1>1, <1>2, SumMoved, RefundAssumption
<1>7. SumOf(purse, Ids) \in Int /\ SumOf(purse', Ids) = SumOf(purse, Ids) + x
  BY <1>1, <1>3, SumMoved, FiniteIds
<1>8. SumOf(held, Token) = SumOf(purse, Ids) + SumOf(sheets, Merchants)
  BY DEF BooksInv, HeldAddsUp
<1>9. HeldAddsUp' <=> SumOf(held', Token) = SumOf(purse', Ids) + SumOf(sheets, Merchants)
  BY DEF HeldAddsUp, Shifted
<1>. HIDE DEF sheets
<1>. QED
  BY <1>2, <1>5, <1>6, <1>7, <1>8, <1>9

LEMMA DrawnBooked ==
  ASSUME BooksInv, NEW m \in Merchants, NEW t \in Token, NEW x \in Int, Drawn(m, t, x)
  PROVE  /\ held' \in [Token -> Int] /\ HeldAddsUp'
         /\ reserve' = [n \in Merchants |-> reserve'[n]]
         /\ \A n \in Merchants : Sheet(reserve'[n])
<1>1. held \in [Token -> Int] /\ purse \in [Ids -> Int] /\ purse' = purse
  BY DEF BooksInv, RefundInv, Drawn
<1>2. /\ held' \in [Token -> Int] /\ held'[t] = held[t] + x
      /\ \A z \in Token : z # t => held'[z] = held[z]
  BY <1>1 DEF Drawn
<1>3. PICK v : /\ reserve' = [reserve EXCEPT ![m] = v] /\ Sheet(v)
               /\ v.kept + v.balance = reserve[m].kept + reserve[m].balance + x
  BY DEF Drawn
<1>4. /\ reserve' = [n \in Merchants |-> reserve'[n]] /\ reserve'[m] = v
      /\ \A n \in Merchants : n # m => reserve'[n] = reserve[n]
  BY <1>3 DEF BooksInv
<1>5. \A n \in Merchants : Sheet(reserve[n])
  BY DEF BooksInv
<1>6. \A n \in Merchants : Sheet(reserve'[n])
  BY <1>3, <1>4, <1>5
<1>. DEFINE sheets == [n \in Merchants |-> reserve[n].kept + reserve[n].balance]
            drawn == [n \in Merchants |-> reserve'[n].kept + reserve'[n].balance]
<1>7. /\ sheets \in [Merchants -> Int] /\ drawn \in [Merchants -> Int]
      /\ drawn[m] = sheets[m] + x /\ \A n \in Merchants : n # m => drawn[n] = sheets[n]
  BY <1>3, <1>4, <1>5, <1>6 DEF Sheet
<1>8. SumOf(held, Token) = SumOf(purse, Ids) + SumOf(sheets, Merchants)
  BY DEF BooksInv, HeldAddsUp
<1>9. HeldAddsUp' <=> SumOf(held', Token) = SumOf(purse', Ids) + SumOf(drawn, Merchants)
  BY DEF HeldAddsUp
<1>. HIDE DEF sheets, drawn
<1>10. /\ SumOf(sheets, Merchants) \in Int
       /\ SumOf(drawn, Merchants) = SumOf(sheets, Merchants) + x
  BY <1>7, SumMoved, RefundAssumption
<1>11. SumOf(held, Token) \in Int /\ SumOf(held', Token) = SumOf(held, Token) + x
  BY <1>1, <1>2, SumMoved, RefundAssumption
<1>12. SumOf(purse, Ids) \in Int
  BY <1>1, SumType, FiniteIds DEF Integral
<1>13. HeldAddsUp'
  BY <1>1, <1>8, <1>9, <1>10, <1>11, <1>12
<1>. QED
  BY <1>2, <1>4, <1>6, <1>13

LEMMA BookedKeeps ==
  ASSUME BooksInv, Booked, RefundInv', Titled'
  PROVE  BooksInv'
<1>1. CASE Untold
  <2>1. \A m \in Merchants :
          reserve'[m].kept + reserve'[m].balance = reserve[m].kept + reserve[m].balance
    BY <1>1 DEF Untold
  <2>2. [m \in Merchants |-> reserve'[m].kept + reserve'[m].balance] =
        [m \in Merchants |-> reserve[m].kept + reserve[m].balance]
    BY <2>1
  <2>3. HeldAddsUp'
    BY <1>1, <2>2, Zenon DEF Untold, BooksInv, HeldAddsUp
  <2>. QED
    BY <1>1, <2>3 DEF Untold, BooksInv, Sheet
<1>2. ASSUME NEW r \in Ids, NEW t \in Token, NEW x \in Int, Shifted(r, t, x)
      PROVE  BooksInv'
  <2>1. held' \in [Token -> Int] /\ HeldAddsUp' /\ reserve' = reserve
    BY <1>2, ShiftedBooked DEF Shifted
  <2>. QED
    BY <2>1 DEF BooksInv, Sheet
<1>3. ASSUME NEW m \in Merchants, NEW t \in Token, NEW x \in Int, Drawn(m, t, x)
      PROVE  BooksInv'
  <2>1. /\ held' \in [Token -> Int] /\ HeldAddsUp'
        /\ reserve' = [n \in Merchants |-> reserve'[n]]
        /\ \A n \in Merchants : Sheet(reserve'[n])
    BY <1>3, DrawnBooked
  <2>. QED
    BY <2>1 DEF BooksInv, Sheet
<1>. QED
  BY <1>1, <1>2, <1>3 DEF Booked

-----------------------------------------------------------------------------
(* The books, call by call.                                                 *)

Accounted == Booked /\ Titled'

LEMMA Unmoved ==
  ASSUME BooksInv, held' = held, purse' = purse, reserve' = reserve
  PROVE  Booked
<1>1. Untold
  BY DEF Untold, BooksInv
<1>. QED
  BY <1>1 DEF Booked

LEMMA SameTitles ==
  ASSUME BooksInv, refund' = refund
  PROVE  Titled'
BY DEF BooksInv, Titled, Parties

(* The record of a refund that was made changes, its parties stay.          *)
LEMMA Retitled ==
  ASSUME BooksInv, NEW r \in Ids, refund[r].status # "None",
         NEW f, refund' = [refund EXCEPT ![r] = f],
         DOMAIN f = DOMAIN refund[r], f.token = refund[r].token, f.merchant = refund[r].merchant
  PROVE  Titled'
<1>1. \A q \in Ids : Parties(refund[q])
  BY DEF BooksInv, Titled
<1>2. refund'[r] = f /\ \A q \in Ids : q # r => refund'[q] = refund[q]
  BY DEF BooksInv, RefundInv
<1>3. Parties(f)
  BY <1>1 DEF Parties
<1>4. \A q \in Ids : Parties(refund'[q])
  BY <1>1, <1>2, <1>3
<1>. QED
  BY <1>4 DEF Titled, Parties

LEMMA MarkedTitled ==
  ASSUME BooksInv, NEW r \in Ids, refund[r].status # "None",
         (\E s : Finish(r, s)) \/ Reject(r)
  PROVE  Titled'
<1>1. {"token", "merchant"} \subseteq DOMAIN refund[r]
  BY DEF BooksInv, Titled, Parties
<1>2. ASSUME NEW s, Finish(r, s)
      PROVE  Titled'
  <2>. DEFINE f == [refund[r] EXCEPT !.status = s]
  <2>1. refund' = [refund EXCEPT ![r] = f]
    BY <1>2 DEF Finish
  <2>2. DOMAIN f = DOMAIN refund[r] /\ f.token = refund[r].token /\ f.merchant = refund[r].merchant
    BY <1>1
  <2>. HIDE DEF f
  <2>. QED
    BY <2>1, <2>2, Retitled
<1>3. ASSUME Reject(r)
      PROVE  Titled'
  <2>. DEFINE f == [refund[r] EXCEPT !.status = "Rejected", !.rejected = now]
  <2>1. refund' = [refund EXCEPT ![r] = f]
    BY <1>3 DEF Reject
  <2>2. DOMAIN f = DOMAIN refund[r] /\ f.token = refund[r].token /\ f.merchant = refund[r].merchant
    BY <1>1
  <2>. HIDE DEF f
  <2>. QED
    BY <2>1, <2>2, Retitled
<1>. QED
  BY <1>2, <1>3

LEMMA GivenBooked ==
  ASSUME BooksInv, NEW r \in Ids, NEW x \in Int, Give(r, x), reserve' = reserve
  PROVE  Booked
<1>. DEFINE t == refund[r].token
<1>1. t \in Token
  BY DEF BooksInv, Titled, Parties
<1>2. held[t] \in Int /\ purse[r] \in Int /\ -x \in Int
  BY <1>1 DEF BooksInv, RefundInv
<1>3. /\ held' = [held EXCEPT ![t] = held[t] - x]
      /\ purse' = [purse EXCEPT ![r] = purse[r] - x]
  BY DEF Give
<1>4. held[t] - x = held[t] + -x /\ purse[r] - x = purse[r] + -x
  BY <1>2
<1>5. Shifted(r, t, -x)
  BY <1>3, <1>4 DEF Shifted
<1>. HIDE DEF t
<1>6. PICK u \in Token, y \in Int : Shifted(r, u, y)
  BY <1>1, <1>2, <1>5
<1>. QED
  BY <1>6 DEF Booked

LEMMA SettledBooked ==
  ASSUME BooksInv, NEW r \in Ids, refund[r].status \in Backed \cup {"UnderAppeal"},
         Give(r, refund[r].amount) \/ GiveNetOfFee(r), reserve' = reserve
  PROVE  Booked
<1>1. refund[r].amount \in Nat
  BY DEF BooksInv, RefundInv, Sound, Open, Backed
<1>2. Fee(r) \in Nat
  BY <1>1, BpsNatural DEF Fee, BooksInv, RefundInv
<1>3. PICK x \in Int : Give(r, x)
  <2>1. CASE Give(r, refund[r].amount)
    BY <1>1, <2>1
  <2>2. CASE GiveNetOfFee(r)
    BY <1>1, <1>2, <2>2 DEF GiveNetOfFee
  <2>. QED
    BY <2>1, <2>2
<1>. QED
  BY <1>3, GivenBooked

LEMMA SettledAccounted ==
  ASSUME BooksInv, NEW r \in Ids, refund[r].status \in Backed \cup {"UnderAppeal"},
         Give(r, refund[r].amount) \/ GiveNetOfFee(r), reserve' = reserve,
         (\E s : Finish(r, s)) \/ Reject(r)
  PROVE  Accounted
<1>1. refund[r].status # "None"
  BY DEF Backed, Waiting, Reviewed
<1>. QED
  BY <1>1, SettledBooked, MarkedTitled DEF Accounted

LEMMA MarkedAccounted ==
  ASSUME BooksInv, NEW r \in Ids, refund[r].status # "None",
         held' = held, purse' = purse, reserve' = reserve,
         (\E s : Finish(r, s)) \/ Reject(r)
  PROVE  Accounted
BY Unmoved, MarkedTitled DEF Accounted

(* Only the approval draws the merchant's reserve.                          *)
LEMMA ApproveAccounted ==
  ASSUME BooksInv, NEW r \in Ids, NEW a, ApproveRefund(a, r)
  PROVE  Accounted
<1>. DEFINE m == Merchant(r)
            t == refund[r].token
            x == Least(reserve[m].kept, refund[r].amount)
            v == [reserve[m] EXCEPT !.kept = reserve[m].kept - x]
<1>1. refund[r].status \in Reviewed
  BY DEF ApproveRefund, In
<1>2. t \in Token /\ m \in Merchants
  BY <1>1 DEF BooksInv, Titled, Parties, Merchant, Reviewed
<1>3. refund[r].amount \in Int
  BY <1>1 DEF BooksInv, RefundInv, Sound, Open, Waiting
<1>4. Sheet(reserve[m]) /\ held[t] \in Int
  BY <1>2 DEF BooksInv
<1>5. x \in Int /\ -x \in Int
  BY <1>3, <1>4 DEF Least, Sheet
<1>6. /\ held' = [held EXCEPT ![t] = held[t] - x] /\ purse' = purse
      /\ reserve' = [reserve EXCEPT ![m].kept = reserve[m].kept - x]
  BY DEF ApproveRefund, DrawReserve
<1>. HIDE DEF x
<1>7. reserve' = [reserve EXCEPT ![m] = v]
  BY <1>6
<1>8. Sheet(v) /\ v.kept + v.balance = reserve[m].kept + reserve[m].balance + -x
  BY <1>4, <1>5 DEF Sheet
<1>9. held[t] - x = held[t] + -x
  BY <1>4, <1>5
<1>. HIDE DEF m, t, v
<1>10. PICK w : w = v
  OBVIOUS
<1>11. Drawn(m, t, -x)
  BY <1>6, <1>7, <1>8, <1>9, <1>10 DEF Drawn
<1>12. Booked
  <2>1. PICK n \in Merchants, u \in Token, y \in Int : Drawn(n, u, y)
    BY <1>2, <1>5, <1>11
  <2>. QED
    BY <2>1 DEF Booked
<1>13. Titled'
  <2>1. refund[r].status # "None" /\ Finish(r, "Approved")
    BY <1>1 DEF Reviewed, ApproveRefund
  <2>. QED
    BY <2>1, MarkedTitled
<1>. QED
  BY <1>12, <1>13 DEF Accounted

LEMMA ReviewAccounted ==
  ASSUME BooksInv, NEW r \in Ids, NEW a,
         \/ ApproveRefund(a, r) \/ RejectRefund(a, r)
         \/ BatchApprove(r) \/ BatchReject(r) \/ ProcessRefund(r)
  PROVE  Accounted
<1>. USE DEF In, Reviewed, Waiting, Backed, settingVars, scoreVars, shopVars
<1>1. CASE ApproveRefund(a, r)
  BY <1>1, ApproveAccounted
<1>2. CASE RejectRefund(a, r)
  BY <1>2, MarkedAccounted DEF RejectRefund
<1>3. CASE BatchApprove(r)
  BY <1>3, MarkedAccounted DEF BatchApprove
<1>4. CASE BatchReject(r)
  BY <1>4, MarkedAccounted DEF BatchReject
<1>5. CASE ProcessRefund(r)
  BY <1>5, SettledAccounted DEF ProcessRefund
<1>. QED
  BY <1>1, <1>2, <1>3, <1>4, <1>5

LEMMA VoucherAccounted ==
  ASSUME BooksInv, NEW r \in Ids, NEW a, NEW x, NEW until,
         ApproveRefundAsVoucher(a, r, x, until)
  PROVE  Accounted
BY SettledAccounted
   DEF ApproveRefundAsVoucher, In, Reviewed, Waiting, Backed, settingVars, shopVars

LEMMA EvidenceAccounted ==
  ASSUME BooksInv, NEW r \in Ids, SubmitRefundEvidence(r)
  PROVE  Accounted
BY MarkedAccounted DEF SubmitRefundEvidence, In, Reviewed, settingVars, shopVars

LEMMA EscalationAccounted ==
  ASSUME BooksInv, NEW r \in Ids,
         \/ EscalateToSenior(r) \/ TriggerSeniorAutoApprove(r)
         \/ \E b \in BOOLEAN : ResolveEscalated(r, b)
  PROVE  Accounted
<1>. USE DEF In, Reviewed, Waiting, Backed, settingVars, shopVars
<1>1. CASE EscalateToSenior(r)
  <2>. DEFINE f == [refund[r] EXCEPT !.status = "EscalatedToSenior",
                                     !.seniorUntil = now + cfg.seniorSpan]
  <2>1. refund' = [refund EXCEPT ![r] = f]
    BY <1>1 DEF EscalateToSenior
  <2>2. {"token", "merchant"} \subseteq DOMAIN refund[r]
    BY DEF BooksInv, Titled, Parties
  <2>3. DOMAIN f = DOMAIN refund[r] /\ f.token = refund[r].token /\ f.merchant = refund[r].merchant
    BY <2>2
  <2>4. /\ refund[r].status # "None" /\ held' = held /\ purse' = purse /\ reserve' = reserve
    BY <1>1 DEF EscalateToSenior
  <2>. HIDE DEF f
  <2>. QED
    BY <2>1, <2>3, <2>4, Unmoved, Retitled DEF Accounted
<1>2. CASE TriggerSeniorAutoApprove(r)
  BY <1>2, SettledAccounted DEF TriggerSeniorAutoApprove
<1>3. ASSUME NEW b \in BOOLEAN, ResolveEscalated(r, b)
      PROVE  Accounted
  BY <1>3, SettledAccounted DEF ResolveEscalated
<1>. QED
  BY <1>1, <1>2, <1>3

LEMMA OffersAccounted ==
  ASSUME BooksInv, NEW r \in Ids,
         \/ \E x \in Amounts : CounterOfferRefund(r, x)
         \/ AcceptCounterOffer(r) \/ AcceptLateOffer(r) \/ RejectCounterOffer(r)
         \/ CheckCounterOfferExpiry(r) \/ SettleExpiredCounterOffer(r)
  PROVE  Accounted
<1>. USE DEF In, Reviewed, Waiting, Backed, settingVars, shopVars
<1>1. {"token", "merchant"} \subseteq DOMAIN refund[r]
  BY DEF BooksInv, Titled, Parties
<1>2. ASSUME NEW x \in Amounts, CounterOfferRefund(r, x)
      PROVE  Accounted
  <2>. DEFINE o == [amount |-> x, until |-> now + cfg.offerLife]
              f == [refund[r] EXCEPT !.status = "CounterOffered", !.offer = o]
  <2>1. refund' = [refund EXCEPT ![r] = f]
    BY <1>2 DEF CounterOfferRefund
  <2>2. DOMAIN f = DOMAIN refund[r] /\ f.token = refund[r].token /\ f.merchant = refund[r].merchant
    BY <1>1
  <2>3. refund[r].status # "None" /\ held' = held /\ purse' = purse /\ reserve' = reserve
    BY <1>2 DEF CounterOfferRefund
  <2>. HIDE DEF f
  <2>. QED
    BY <2>1, <2>2, <2>3, Unmoved, Retitled DEF Accounted
<1>3. CASE AcceptCounterOffer(r)
  <2>. DEFINE f == [refund[r] EXCEPT !.status = "Processed", !.offer = NoOffer]
              x == refund[r].offer.amount
  <2>1. refund' = [refund EXCEPT ![r] = f]
    BY <1>3 DEF AcceptCounterOffer
  <2>2. DOMAIN f = DOMAIN refund[r] /\ f.token = refund[r].token /\ f.merchant = refund[r].merchant
    BY <1>1
  <2>3. refund[r].status = "CounterOffered" /\ Give(r, x) /\ reserve' = reserve
    BY <1>3 DEF AcceptCounterOffer
  <2>4. x \in Int
    BY <2>3 DEF BooksInv, RefundInv, Sound
  <2>. HIDE DEF f, x
  <2>5. refund[r].status # "None"
    BY <2>3
  <2>. QED
    BY <2>1, <2>2, <2>3, <2>4, <2>5, GivenBooked, Retitled DEF Accounted
<1>4. CASE AcceptLateOffer(r)
  BY <1>4, MarkedAccounted DEF AcceptLateOffer
<1>5. ASSUME refund[r].status = "CounterOffered", Escalate(r)
      PROVE  Accounted
  <2>. DEFINE f == [refund[r] EXCEPT !.status = "UnderAppeal", !.offer = NoOffer]
  <2>1. refund' = [refund EXCEPT ![r] = f] /\ held' = held /\ purse' = purse /\ reserve' = reserve
    BY <1>5 DEF Escalate
  <2>2. DOMAIN f = DOMAIN refund[r] /\ f.token = refund[r].token /\ f.merchant = refund[r].merchant
    BY <1>1
  <2>. HIDE DEF f
  <2>3. refund[r].status # "None"
    BY <1>5
  <2>. QED
    BY <2>1, <2>2, <2>3, Unmoved, Retitled DEF Accounted
<1>6. CASE RejectCounterOffer(r)
  BY <1>5, <1>6 DEF RejectCounterOffer
<1>7. CASE CheckCounterOfferExpiry(r)
  BY <1>5, <1>7 DEF CheckCounterOfferExpiry
<1>8. CASE SettleExpiredCounterOffer(r)
  <2>. DEFINE f == IF cfg.offerAccept
                   THEN [refund[r] EXCEPT !.status = "Processed", !.offer = NoOffer]
                   ELSE [refund[r] EXCEPT !.status = "Rejected", !.rejected = now,
                                          !.offer = NoOffer]
  <2>1. refund' = [refund EXCEPT ![r] = f]
    BY <1>8 DEF SettleExpiredCounterOffer
  <2>2. DOMAIN f = DOMAIN refund[r] /\ f.token = refund[r].token /\ f.merchant = refund[r].merchant
    BY <1>1
  <2>3. /\ refund[r].status \in Backed /\ Give(r, refund[r].amount) /\ reserve' = reserve
        /\ refund[r].status # "None"
    BY <1>8 DEF SettleExpiredCounterOffer
  <2>. HIDE DEF f
  <2>. QED
    BY <2>1, <2>2, <2>3, SettledBooked, Retitled DEF Accounted
<1>. QED
  BY <1>2, <1>3, <1>4, <1>6, <1>7, <1>8

LEMMA ClosingAccounted ==
  ASSUME BooksInv, NEW r \in Ids,
         \/ CancelRefundRequest(r) \/ AutoCancelExpiredRequest(r) \/ AutoRejectStaleRefund(r)
         \/ AutoApproveRefund(r) \/ TriggerAutoApproval(r)
  PROVE  Accounted
<1>. USE DEF In, Reviewed, Waiting, Backed, settingVars, shopVars
<1>1. CASE CancelRefundRequest(r)
  BY <1>1, SettledAccounted DEF CancelRefundRequest
<1>2. CASE AutoCancelExpiredRequest(r)
  BY <1>2, SettledAccounted DEF AutoCancelExpiredRequest
<1>3. CASE AutoRejectStaleRefund(r)
  BY <1>3, SettledAccounted DEF AutoRejectStaleRefund
<1>4. CASE AutoApproveRefund(r)
  BY <1>4, SettledAccounted DEF AutoApproveRefund
<1>5. CASE TriggerAutoApproval(r)
  BY <1>5, SettledAccounted DEF TriggerAutoApproval
<1>. QED
  BY <1>1, <1>2, <1>3, <1>4, <1>5

LEMMA AppealsAccounted ==
  ASSUME BooksInv, NEW r \in Ids,
         AppealRefund(r) \/ \E b \in BOOLEAN : ResolveAppeal(r, b)
  PROVE  Accounted
<1>. USE DEF In, settingVars, shopVars
<1>1. CASE AppealRefund(r)
  BY <1>1, MarkedAccounted DEF AppealRefund
<1>2. ASSUME NEW b \in BOOLEAN, ResolveAppeal(r, b)
      PROVE  Accounted
  BY <1>2, SettledAccounted DEF ResolveAppeal
<1>. QED
  BY <1>1, <1>2

LEMMA ExtendingAccounted ==
  ASSUME BooksInv, Extending
  PROVE  Accounted
<1>1. PICK r \in Ids :
        RequestReviewExtension(r) \/ \E s \in Spans : ExtendRefundDeadline(r, s)
  BY DEF Extending
<1>2. held' = held /\ purse' = purse /\ reserve' = reserve /\ refund[r].status # "None"
  BY <1>1 DEF RequestReviewExtension, ExtendRefundDeadline, shopVars
<1>3. {"token", "merchant"} \subseteq DOMAIN refund[r]
  BY DEF BooksInv, Titled, Parties
<1>4. CASE RequestReviewExtension(r)
  <2>. DEFINE f == [refund[r] EXCEPT !.extended = TRUE, !.autoUntil = @ + cfg.extensionSpan]
  <2>1. refund' = [refund EXCEPT ![r] = f]
    BY <1>4 DEF RequestReviewExtension
  <2>2. DOMAIN f = DOMAIN refund[r] /\ f.token = refund[r].token /\ f.merchant = refund[r].merchant
    BY <1>3
  <2>. HIDE DEF f
  <2>. QED
    BY <1>2, <2>1, <2>2, Unmoved, Retitled DEF Accounted
<1>5. ASSUME NEW s \in Spans, ExtendRefundDeadline(r, s)
      PROVE  Accounted
  <2>. DEFINE f == [refund[r] EXCEPT !.extension = @ + s]
  <2>1. refund' = [refund EXCEPT ![r] = f]
    BY <1>5 DEF ExtendRefundDeadline
  <2>2. DOMAIN f = DOMAIN refund[r] /\ f.token = refund[r].token /\ f.merchant = refund[r].merchant
    BY <1>3
  <2>. HIDE DEF f
  <2>. QED
    BY <1>2, <2>1, <2>2, Unmoved, Retitled DEF Accounted
<1>. QED
  BY <1>1, <1>4, <1>5

(* A merchant's own reserves.  Of the two, one grows or shrinks by what     *)
(* moves in or out of the balance.                                          *)
LEMMA ReserveMoved ==
  ASSUME BooksInv, NEW m \in Merchants, NEW t \in Token, NEW x \in Int, NEW v,
         held' = [held EXCEPT ![t] = held[t] + x], purse' = purse, refund' = refund,
         reserve' = [reserve EXCEPT ![m] = v], Sheet(v),
         v.kept + v.balance = reserve[m].kept + reserve[m].balance + x
  PROVE  Accounted
<1>1. Drawn(m, t, x)
  BY DEF Drawn
<1>2. Booked
  BY <1>1 DEF Booked
<1>. QED
  BY <1>2, SameTitles DEF Accounted

LEMMA ReserveRestated ==
  ASSUME BooksInv, NEW m \in Merchants, NEW v,
         held' = held, purse' = purse, refund' = refund,
         reserve' = [reserve EXCEPT ![m] = v], Sheet(v),
         v.kept + v.balance = reserve[m].kept + reserve[m].balance
  PROVE  Accounted
<1>1. Untold
  BY DEF Untold, BooksInv
<1>. QED
  BY <1>1, SameTitles DEF Accounted, Booked

LEMMA ReservesAccounted ==
  ASSUME BooksInv, Reserves
  PROVE  Accounted
<1>. USE DEF settingVars, requestVars
<1>1. ReserveToken \in Token /\ \A m \in Merchants : Sheet(reserve[m])
  BY RefundAssumption DEF BooksInv
<1>2. \A t \in Token : held[t] \in Int
  BY DEF BooksInv
<1>3. ASSUME NEW m \in Merchants, NEW u,
             CheckReserveCompliance(m) \/ WaiveReserveRequirement(m, u)
      PROVE  Accounted
  <2>1. CASE CheckReserveCompliance(m)
    <3>. DEFINE v == [reserve[m] EXCEPT !.flagged = reserve[m].kept < RequiredReserve(m)]
    <3>1. /\ reserve' = [reserve EXCEPT ![m] = v]
          /\ held' = held /\ purse' = purse /\ refund' = refund
      BY <2>1 DEF CheckReserveCompliance
    <3>2. Sheet(v) /\ v.kept + v.balance = reserve[m].kept + reserve[m].balance
      BY <1>1 DEF Sheet
    <3>. HIDE DEF v
    <3>. QED
      BY <3>1, <3>2, ReserveRestated
  <2>2. CASE WaiveReserveRequirement(m, u)
    <3>. DEFINE v == [reserve[m] EXCEPT !.waived = u]
    <3>1. /\ reserve' = [reserve EXCEPT ![m] = v]
          /\ held' = held /\ purse' = purse /\ refund' = refund
      BY <2>2 DEF WaiveReserveRequirement
    <3>2. Sheet(v) /\ v.kept + v.balance = reserve[m].kept + reserve[m].balance
      BY <1>1 DEF Sheet
    <3>. HIDE DEF v
    <3>. QED
      BY <3>1, <3>2, ReserveRestated
  <2>. QED
    BY <1>3, <2>1, <2>2
<1>4. ASSUME NEW m \in Merchants, NEW x \in Amounts, RecordPaymentVolume(m, x)
      PROVE  Accounted
  <2>. DEFINE v == [reserve[m] EXCEPT !.volume = @ + x]
  <2>1. /\ reserve' = [reserve EXCEPT ![m] = v]
        /\ held' = held /\ purse' = purse /\ refund' = refund
    BY <1>4 DEF RecordPaymentVolume
  <2>2. Sheet(v) /\ v.kept + v.balance = reserve[m].kept + reserve[m].balance
    BY <1>1 DEF Sheet
  <2>. HIDE DEF v
  <2>. QED
    BY <2>1, <2>2, ReserveRestated
<1>5. ASSUME NEW m \in Merchants, NEW x \in Amounts,
             DepositMerchantReserve(m, x) \/ WithdrawMerchantReserve(m, x)
      PROVE  Accounted
  <2>0. x \in Int /\ -x \in Int
    BY InputAssumption
  <2>1. CASE DepositMerchantReserve(m, x)
    <3>. DEFINE v == [reserve[m] EXCEPT !.balance = @ + x]
    <3>1. /\ reserve' = [reserve EXCEPT ![m] = v]
          /\ held' = [held EXCEPT ![ReserveToken] = held[ReserveToken] + x]
          /\ purse' = purse /\ refund' = refund
      BY <2>1 DEF DepositMerchantReserve
    <3>2. Sheet(v) /\ v.kept + v.balance = reserve[m].kept + reserve[m].balance + x
      BY <1>1, <2>0 DEF Sheet
    <3>. HIDE DEF v
    <3>. QED
      BY <1>1, <2>0, <3>1, <3>2, ReserveMoved
  <2>2. CASE WithdrawMerchantReserve(m, x)
    <3>. DEFINE v == [reserve[m] EXCEPT !.balance = @ - x]
    <3>1. /\ reserve' = [reserve EXCEPT ![m] = v]
          /\ held' = [held EXCEPT ![ReserveToken] = held[ReserveToken] - x]
          /\ purse' = purse /\ refund' = refund
      BY <2>2 DEF WithdrawMerchantReserve
    <3>2. Sheet(v) /\ v.kept + v.balance = reserve[m].kept + reserve[m].balance + -x
      BY <1>1, <2>0 DEF Sheet
    <3>3. held[ReserveToken] - x = held[ReserveToken] + -x
      BY <1>1, <1>2, <2>0
    <3>. HIDE DEF v
    <3>. QED
      BY <1>1, <2>0, <3>1, <3>2, <3>3, ReserveMoved
  <2>. QED
    BY <1>5, <2>1, <2>2
<1>6. ASSUME NEW m \in Merchants, NEW x \in Amounts, NEW t \in Token,
             DepositReserve(m, t, x) \/ WithdrawReserve(m, t, x)
      PROVE  Accounted
  <2>0. x \in Int /\ -x \in Int
    BY InputAssumption
  <2>1. CASE DepositReserve(m, t, x)
    <3>. DEFINE low == reserve[m].kept + x < RequiredReserve(m)
                v == [reserve[m] EXCEPT !.kept = @ + x, !.flagged = @ /\ low]
    <3>1. /\ reserve' = [reserve EXCEPT ![m] = v]
          /\ held' = [held EXCEPT ![t] = held[t] + x]
          /\ purse' = purse /\ refund' = refund
      BY <2>1 DEF DepositReserve
    <3>2. Sheet(v) /\ v.kept + v.balance = reserve[m].kept + reserve[m].balance + x
      BY <1>1, <2>0 DEF Sheet
    <3>. HIDE DEF v
    <3>. QED
      BY <2>0, <3>1, <3>2, ReserveMoved
  <2>2. CASE WithdrawReserve(m, t, x)
    <3>. DEFINE v == [reserve[m] EXCEPT !.kept = @ - x]
    <3>1. /\ reserve' = [reserve EXCEPT ![m] = v]
          /\ held' = [held EXCEPT ![t] = held[t] - x]
          /\ purse' = purse /\ refund' = refund
      BY <2>2 DEF WithdrawReserve
    <3>2. Sheet(v) /\ v.kept + v.balance = reserve[m].kept + reserve[m].balance + -x
      BY <1>1, <2>0 DEF Sheet
    <3>3. held[t] - x = held[t] + -x
      BY <1>2, <2>0
    <3>. HIDE DEF v
    <3>. QED
      BY <2>0, <3>1, <3>2, <3>3, ReserveMoved
  <2>. QED
    BY <1>6, <2>1, <2>2
<1>. QED
  BY <1>3, <1>4, <1>5, <1>6, Zenon DEF Reserves

(* A new refund takes the next id, with a deposit or without.               *)
LEMMA NewTitled ==
  ASSUME BooksInv, NEW f, Parties(f), refund' = [refund EXCEPT ![made] = f]
  PROVE  Titled'
<1>1. \A q \in Ids : Parties(refund[q])
  BY DEF BooksInv, Titled
<1>2. \A q \in Ids : refund'[q] = refund[q] \/ refund'[q] = f
  BY DEF BooksInv, RefundInv
<1>3. \A q \in Ids : Parties(refund'[q])
  BY <1>1, <1>2
<1>. QED
  BY <1>3 DEF Titled, Parties

LEMMA RequestAccounted ==
  ASSUME BooksInv, NEW c, NEW p \in Payments, NEW asks, RequestRefund(c, p, asks)
  PROVE  Accounted
<1>. DEFINE t == Payment[p].token
<1>1. t \in Token /\ Payment[p].merchant \in Merchants
  BY RefundAssumption DEF Payments
<1>2. PICK x, auto :
        /\ x \in Nat /\ made < MaxRefunds
        /\ refund' = [refund EXCEPT ![made] = NewRefund(c, p, x, auto)]
        /\ held' = [held EXCEPT ![t] = held[t] + x]
        /\ purse' = [purse EXCEPT ![made] = x] /\ reserve' = reserve
  <2>. DEFINE x == IF cfg.tiers = <<>> THEN asks ELSE Least(asks, TierCap(p) - refunded[p])
              auto == AutoApproved(Payment[p].merchant, c, x)
  <2>1. /\ x \in Nat /\ made < MaxRefunds
        /\ refund' = [refund EXCEPT ![made] = NewRefund(c, p, x, auto)]
        /\ held' = [held EXCEPT ![t] = held[t] + x]
        /\ purse' = [purse EXCEPT ![made] = x] /\ reserve' = reserve
    BY DEF RequestRefund, shopVars
  <2>. HIDE DEF x, auto
  <2>. QED
    BY <2>1
<1>3. made \in Ids /\ purse[made] = 0
  BY <1>2, RefundAssumption DEF BooksInv, RefundInv, Ids
<1>4. Shifted(made, t, x)
  <2>1. x = purse[made] + x
    BY <1>2, <1>3
  <2>. QED
    BY <1>2, <2>1 DEF Shifted
<1>5. Booked
  <2>. HIDE DEF t
  <2>. QED
    BY <1>1, <1>2, <1>3, <1>4 DEF Booked
<1>. DEFINE f == NewRefund(c, p, x, auto)
<1>6. Parties(f)
  BY <1>1 DEF NewRefund, NoRefund, Parties
<1>7. refund' = [refund EXCEPT ![made] = f]
  BY <1>2
<1>. HIDE DEF f
<1>. QED
  BY <1>5, <1>6, <1>7, NewTitled DEF Accounted

LEMMA RequestingAccounted ==
  ASSUME BooksInv, Requesting \/ Registering
  PROVE  Accounted
<1>1. ASSUME NEW m \in Merchants, NEW p \in Payments, NEW x, MerchantRefund(m, p, x)
      PROVE  Accounted
  <2>. DEFINE f == [NoRefund EXCEPT !.status = "Processed", !.customer = Payment[p].customer,
          !.merchant = m, !.payment = p, !.token = Payment[p].token, !.amount = x,
          !.requested = now]
  <2>1. Parties(f)
    BY RefundAssumption DEF NoRefund, Parties, Payments
  <2>2. /\ refund' = [refund EXCEPT ![made] = f]
        /\ held' = held /\ purse' = purse /\ reserve' = reserve
    BY <1>1 DEF MerchantRefund, shopVars
  <2>. HIDE DEF f
  <2>. QED
    BY <2>1, <2>2, NewTitled, Unmoved DEF Accounted
<1>2. ASSUME NEW c, NEW m \in Merchants, NEW t \in Token, NEW x,
             RegisterCrossContractRefund(c, m, t, x)
      PROVE  Accounted
  <2>. DEFINE f == [NoRefund EXCEPT !.status = "CrossContractRefunded", !.customer = c,
          !.merchant = m, !.token = t, !.amount = x, !.requested = now]
  <2>1. Parties(f)
    BY DEF NoRefund, Parties
  <2>2. /\ refund' = [refund EXCEPT ![made] = f]
        /\ held' = held /\ purse' = purse /\ reserve' = reserve
    BY <1>2 DEF RegisterCrossContractRefund, shopVars
  <2>. HIDE DEF f
  <2>. QED
    BY <2>1, <2>2, NewTitled, Unmoved DEF Accounted
<1>. QED
  BY <1>1, <1>2, RequestAccounted, Zenon DEF Requesting, Registering

(* The other calls move no tokens.                                          *)
LEMMA StillAccounted ==
  ASSUME BooksInv, held' = held, purse' = purse, reserve' = reserve, refund' = refund
  PROVE  Accounted
BY Unmoved, SameTitles DEF Accounted

LEMMA CreditAccounted ==
  ASSUME BooksInv, NEW c, NEW m, NEW x, NEW until,
         ApplyStoreCredit(c, m, x) \/ ExtendStoreCreditExpiry(m, c, until)
  PROVE  Accounted
BY StillAccounted DEF ApplyStoreCredit, ExtendStoreCreditExpiry, settingVars, requestVars

LEMMA AdminAccounted ==
  ASSUME BooksInv, Terms \/ Scores \/ Settings \/ Pausing
  PROVE  Accounted
<1>. USE DEF settingVars, requestVars, shopVars
<1>1. CASE Terms
  BY <1>1, TermsOnly, StillAccounted
<1>2. CASE Scores
  BY <1>2, StillAccounted
     DEF Scores, ResetFraudScore, ResetCustomerAbuseScore, WaiveCooldown, FlagRefundAbuse
<1>3. CASE Settings
  BY <1>3, StillAccounted DEF Settings, Change
<1>4. CASE Pausing
  BY <1>4, StillAccounted DEF Pausing, SetPaused
<1>. QED
  BY <1>1, <1>2, <1>3, <1>4

LEMMA CallAccounted ==
  ASSUME BooksInv, RefundCall
  PROVE  Accounted
<1>1. CASE Requesting \/ Registering
  BY <1>1, RequestingAccounted
<1>2. CASE Reviewing
  BY <1>2, ReviewAccounted DEF Reviewing
<1>3. CASE Vouchers
  BY <1>3, VoucherAccounted, CreditAccounted DEF Vouchers
<1>4. CASE Evidence
  BY <1>4, EvidenceAccounted DEF Evidence
<1>5. CASE Escalation
  BY <1>5, EscalationAccounted DEF Escalation
<1>6. CASE Offers
  BY <1>6, OffersAccounted DEF Offers
<1>7. CASE Closing
  BY <1>7, ClosingAccounted DEF Closing
<1>8. CASE Extending
  BY <1>8, ExtendingAccounted
<1>9. CASE Appeals
  BY <1>9, AppealsAccounted DEF Appeals
<1>10. CASE Reserves
  BY <1>10, ReservesAccounted
<1>11. CASE Terms \/ Scores \/ Settings \/ Pausing
  BY <1>11, AdminAccounted
<1>. QED
  BY <1>1, <1>2, <1>3, <1>4, <1>5, <1>6, <1>7, <1>8, <1>9, <1>10, <1>11 DEF RefundCall

LEMMA BooksStep == BooksInv /\ [Next]_vars => BooksInv'
<1>. SUFFICES ASSUME BooksInv, [Next]_vars PROVE BooksInv'
  OBVIOUS
<1>1. CASE RefundCall
  BY <1>1, CallAccounted, BookedKeeps, StepAllowed DEF Accounted, BooksInv, Allowed
<1>2. CASE UNCHANGED refundVars
  <2>1. Accounted
    BY <1>2, StillAccounted DEF refundVars
  <2>. QED
    BY <2>1, BookedKeeps, StepAllowed DEF Accounted, BooksInv, Allowed
<1>. QED
  BY <1>1, <1>2 DEF Next, vars

LEMMA InitBooks == Init => BooksInv
<1>. SUFFICES ASSUME Init PROVE BooksInv
  OBVIOUS
<1>1. Titled
  <2>1. Parties(NoRefund)
    BY RefundAssumption DEF NoRefund, Parties
  <2>. QED
    BY <2>1 DEF Init, RefundInit, Titled
<1>2. /\ held \in [Token -> Int] /\ \A t \in Token : held[t] = 0
      /\ purse = [r \in Ids |-> 0] /\ \A r \in Ids : purse[r] = 0
  BY DEF Init, RefundInit
<1>3. /\ reserve = [m \in Merchants |-> reserve[m]]
      /\ \A m \in Merchants :
           Sheet(reserve[m]) /\ reserve[m].kept = 0 /\ reserve[m].balance = 0
  BY DEF Init, RefundInit, Sheet
<1>. DEFINE sheets == [m \in Merchants |-> reserve[m].kept + reserve[m].balance]
<1>4. \A m \in Merchants : sheets[m] = 0
  BY <1>3
<1>5. HeldAddsUp <=> SumOf(held, Token) = SumOf(purse, Ids) + SumOf(sheets, Merchants)
  BY DEF HeldAddsUp
<1>. HIDE DEF sheets
<1>6. SumOf(held, Token) = 0 /\ SumOf(purse, Ids) = 0 /\ SumOf(sheets, Merchants) = 0
  BY <1>2, <1>4, SumOfZeros, FiniteIds, RefundAssumption
<1>7. HeldAddsUp
  BY <1>5, <1>6
<1>. QED
  BY <1>1, <1>2, <1>3, <1>7, InitInv DEF BooksInv

(* What the contract holds is what the open deposits and the two reserves   *)
(* of the merchants add up to, for any tokens, merchants, refunds and       *)
(* amounts and in whatever order they are paid, drawn and withdrawn.        *)
THEOREM HeldAddsUpAlways == Spec => []HeldAddsUp
<1>1. BooksInv => HeldAddsUp
  BY DEF BooksInv
<1>. QED
  BY <1>1, InitBooks, BooksStep, PTL DEF Spec

-----------------------------------------------------------------------------
(* Paid once from each side.  A call leaves the reserves alone and moves an *)
(* approved refund nowhere but to processed, leaves the refunds and their   *)
(* deposits alone, or is an approval.                                       *)

(* The reserve's part of PaidOnce.                                          *)
DrawnOf(r) ==
  /\ purse'[r] < purse[r] => reserve' = reserve
  /\ refund'[r] # refund[r] /\ reserve' # reserve =>
       LET m == Merchant(r)  left == reserve'[m].kept IN
       /\ refund[r].status \in Reviewed /\ refund'[r].status = "Approved"
       /\ reserve' = [reserve EXCEPT ![m].kept = left]
       /\ reserve[m].kept - left <= refund[r].amount
  /\ refund[r].status = "Approved" => refund'[r].status \in {"Approved", "Processed"}

DrawnRight == \A r \in Ids : DrawnOf(r)

Onward ==
  /\ reserve' = reserve
  /\ \A r \in Ids :
       refund[r].status = "Approved" => refund'[r].status \in {"Approved", "Processed"}

LEMMA OnwardDrawn == Onward => DrawnRight
BY DEF Onward, DrawnRight, DrawnOf

LEMMA StillDrawn ==
  ASSUME RefundInv, refund' = refund, purse' = purse
  PROVE  DrawnRight
BY DEF DrawnRight, DrawnOf, RefundInv

(* A call on one refund that is not approved, or that processes it.         *)
LEMMA OneOnward ==
  ASSUME RefundInv, NEW r \in Ids, NEW f, refund' = [refund EXCEPT ![r] = f],
         refund[r].status # "Approved" \/ f.status \in {"Approved", "Processed"},
         reserve' = reserve
  PROVE  Onward
BY OthersSteady DEF Onward, Steady

(* An approval draws on the reserve of the refund's merchant, for at most   *)
(* the amount, and on nothing else.                                         *)
LEMMA ApproveDrawn ==
  ASSUME BooksInv, NEW r \in Ids, NEW a, ApproveRefund(a, r)
  PROVE  DrawnRight
<1>. DEFINE m == Merchant(r)
            x == Least(reserve[m].kept, refund[r].amount)
            f == [refund[r] EXCEPT !.status = "Approved"]
<1>1. refund[r].status \in Reviewed
  BY DEF ApproveRefund, In
<1>2. m \in Merchants /\ refund[r].amount \in Int
  BY <1>1 DEF BooksInv, Titled, Parties, Merchant, RefundInv, Sound, Open, Waiting, Reviewed
<1>3. Sheet(reserve[m]) /\ reserve = [n \in Merchants |-> reserve[n]]
  BY <1>2 DEF BooksInv
<1>4. x \in Int /\ x <= refund[r].amount
  BY <1>2, <1>3 DEF Least, Sheet
<1>5. reserve' = [reserve EXCEPT ![m].kept = reserve[m].kept - x] /\ purse' = purse
  BY DEF ApproveRefund, DrawReserve
<1>6. refund' = [refund EXCEPT ![r] = f] /\ f.status = "Approved"
  BY ShapeNext DEF ApproveRefund, Finish, BooksInv
<1>. HIDE DEF x, f
<1>7. reserve'[m].kept = reserve[m].kept - x
  BY <1>2, <1>3, <1>5 DEF Sheet
<1>8. reserve[m].kept - reserve'[m].kept = x
  BY <1>3, <1>4, <1>7 DEF Sheet
<1>9. reserve' = [reserve EXCEPT ![m].kept = reserve'[m].kept]
  BY <1>5, <1>7
<1>10. refund'[r] = f /\ \A q \in Ids \ {r} : refund'[q] = refund[q]
  BY <1>6 DEF BooksInv, RefundInv
<1>11. \A q \in Ids : ~(purse'[q] < purse[q])
  BY <1>5 DEF BooksInv, RefundInv
<1>12. DrawnOf(r)
  BY <1>1, <1>4, <1>6, <1>8, <1>9, <1>10, <1>11 DEF DrawnOf, Reviewed
<1>13. ASSUME NEW q \in Ids, q # r  PROVE DrawnOf(q)
  BY <1>10, <1>11, <1>13 DEF DrawnOf
<1>. QED
  BY <1>12, <1>13 DEF DrawnRight

(* A call that writes only a refund that is not approved.                   *)
Alone(r) ==
  /\ refund[r].status # "Approved"
  /\ \A q \in Ids \ {r} : refund'[q] = refund[q]
  /\ reserve' = reserve

LEMMA AloneOnward ==
  ASSUME NEW r \in Ids, Alone(r)
  PROVE  Onward
BY DEF Alone, Onward

LEMMA ProcessOnward ==
  ASSUME RefundInv, NEW r \in Ids, ProcessRefund(r)
  PROVE  Onward
<1>. DEFINE f == [refund[r] EXCEPT !.status = "Processed"]
<1>1. refund' = [refund EXCEPT ![r] = f] /\ f.status = "Processed" /\ reserve' = reserve
  BY ShapeNext DEF ProcessRefund, Finish, shopVars
<1>. QED
  BY <1>1, OneOnward

LEMMA DecisionsAlone ==
  ASSUME RefundInv, NEW r \in Ids, NEW a, NEW x, NEW until,
         \/ RejectRefund(a, r) \/ BatchApprove(r) \/ BatchReject(r)
         \/ ApproveRefundAsVoucher(a, r, x, until) \/ SubmitRefundEvidence(r)
         \/ EscalateToSenior(r) \/ TriggerSeniorAutoApprove(r)
         \/ \E b \in BOOLEAN : ResolveEscalated(r, b)
  PROVE  Alone(r)
<1>. USE DEF Alone, RefundInv, In, Reviewed, Finish, Reject, shopVars
<1>1. CASE RejectRefund(a, r)
  BY <1>1 DEF RejectRefund
<1>2. CASE BatchApprove(r) \/ BatchReject(r)
  BY <1>2 DEF BatchApprove, BatchReject
<1>3. CASE ApproveRefundAsVoucher(a, r, x, until)
  BY <1>3 DEF ApproveRefundAsVoucher
<1>4. CASE SubmitRefundEvidence(r)
  BY <1>4 DEF SubmitRefundEvidence
<1>5. CASE EscalateToSenior(r)
  BY <1>5 DEF EscalateToSenior
<1>6. CASE TriggerSeniorAutoApprove(r)
  BY <1>6 DEF TriggerSeniorAutoApprove
<1>7. ASSUME NEW b \in BOOLEAN, ResolveEscalated(r, b)
      PROVE  Alone(r)
  BY <1>7 DEF ResolveEscalated
<1>. QED
  BY <1>1, <1>2, <1>3, <1>4, <1>5, <1>6, <1>7

LEMMA OffersAlone ==
  ASSUME RefundInv, NEW r \in Ids,
         \/ \E x \in Amounts : CounterOfferRefund(r, x)
         \/ AcceptCounterOffer(r) \/ AcceptLateOffer(r) \/ RejectCounterOffer(r)
         \/ CheckCounterOfferExpiry(r) \/ SettleExpiredCounterOffer(r)
  PROVE  Alone(r)
<1>. USE DEF Alone, RefundInv, In, Finish, shopVars
<1>1. ASSUME NEW x \in Amounts, CounterOfferRefund(r, x)
      PROVE  Alone(r)
  BY <1>1 DEF CounterOfferRefund
<1>2. CASE AcceptCounterOffer(r)
  BY <1>2 DEF AcceptCounterOffer
<1>3. CASE AcceptLateOffer(r)
  BY <1>3 DEF AcceptLateOffer
<1>4. CASE RejectCounterOffer(r) \/ CheckCounterOfferExpiry(r)
  BY <1>4 DEF RejectCounterOffer, CheckCounterOfferExpiry, Escalate
<1>5. CASE SettleExpiredCounterOffer(r)
  BY <1>5 DEF SettleExpiredCounterOffer
<1>. QED
  BY <1>1, <1>2, <1>3, <1>4, <1>5

LEMMA ClosingAlone ==
  ASSUME RefundInv, NEW r \in Ids,
         \/ CancelRefundRequest(r) \/ AutoCancelExpiredRequest(r) \/ AutoRejectStaleRefund(r)
         \/ AutoApproveRefund(r) \/ TriggerAutoApproval(r)
         \/ AppealRefund(r) \/ \E b \in BOOLEAN : ResolveAppeal(r, b)
  PROVE  Alone(r)
<1>. USE DEF Alone, RefundInv, In, Finish, Reject, shopVars
<1>1. CASE CancelRefundRequest(r)
  BY <1>1 DEF CancelRefundRequest
<1>2. CASE AutoCancelExpiredRequest(r)
  BY <1>2 DEF AutoCancelExpiredRequest
<1>3. CASE AutoRejectStaleRefund(r)
  BY <1>3 DEF AutoRejectStaleRefund
<1>4. CASE AutoApproveRefund(r) \/ TriggerAutoApproval(r)
  BY <1>4 DEF AutoApproveRefund, TriggerAutoApproval
<1>5. CASE AppealRefund(r)
  BY <1>5 DEF AppealRefund
<1>6. ASSUME NEW b \in BOOLEAN, ResolveAppeal(r, b)
      PROVE  Alone(r)
  BY <1>6 DEF ResolveAppeal
<1>. QED
  BY <1>1, <1>2, <1>3, <1>4, <1>5, <1>6

(* A request writes an id no refund had.                                    *)
LEMMA RequestingOnward ==
  ASSUME RefundInv, Requesting \/ Registering
  PROVE  Onward
<1>1. ASSUME made \in Ids, \A q \in Ids \ {made} : refund'[q] = refund[q], reserve' = reserve
      PROVE  Onward
  <2>1. Alone(made)
    BY <1>1 DEF Alone, RefundInv
  <2>. QED
    BY <1>1, <2>1, AloneOnward
<1>. DEFINE New == /\ made \in Ids /\ reserve' = reserve
                   /\ \A q \in Ids \ {made} : refund'[q] = refund[q]
<1>. USE DEF RefundInv, Ids
<1>2. ASSUME NEW c, NEW p, NEW x, RequestRefund(c, p, x)  PROVE New
  BY <1>2, RefundAssumption DEF RequestRefund, shopVars
<1>3. ASSUME NEW m, NEW p, NEW x, MerchantRefund(m, p, x)  PROVE New
  BY <1>3, RefundAssumption DEF MerchantRefund, shopVars
<1>4. ASSUME NEW c, NEW m, NEW t, NEW x, RegisterCrossContractRefund(c, m, t, x)  PROVE New
  BY <1>4, RefundAssumption DEF RegisterCrossContractRefund, shopVars
<1>5. New
  BY <1>2, <1>3, <1>4, Zenon DEF Requesting, Registering
<1>. QED
  BY <1>1, <1>5

LEMMA ExtendingOnward ==
  ASSUME RefundInv, Extending
  PROVE  Onward
<1>1. reserve' = reserve
  BY DEF Extending, RequestReviewExtension, ExtendRefundDeadline, shopVars
<1>2. \A r \in Ids : refund'[r].status = refund[r].status
  BY ExtendingAside DEF Aside, Alike
<1>. QED
  BY <1>1, <1>2 DEF Onward

(* What has to do with merchants, scores and settings only.                 *)
LEMMA RestStill ==
  ASSUME Reserves \/ Terms \/ Scores \/ Settings \/ Pausing
  PROVE  refund' = refund /\ purse' = purse
<1>. USE DEF settingVars, requestVars
<1>. DEFINE Still == refund' = refund /\ purse' = purse
<1>1. ASSUME NEW m, NEW u, CheckReserveCompliance(m) \/ WaiveReserveRequirement(m, u)
      PROVE  Still
  BY <1>1 DEF CheckReserveCompliance, WaiveReserveRequirement
<1>2. ASSUME NEW m, NEW x, \/ RecordPaymentVolume(m, x)
                          \/ DepositMerchantReserve(m, x) \/ WithdrawMerchantReserve(m, x)
      PROVE  Still
  BY <1>2 DEF RecordPaymentVolume, DepositMerchantReserve, WithdrawMerchantReserve
<1>3. ASSUME NEW m, NEW t, NEW x, DepositReserve(m, t, x) \/ WithdrawReserve(m, t, x)
      PROVE  Still
  BY <1>3 DEF DepositReserve, WithdrawReserve
<1>4. CASE Reserves
  BY <1>1, <1>2, <1>3, <1>4, Zenon DEF Reserves
<1>5. CASE Terms
  BY <1>5, TermsOnly
<1>6. CASE Scores
  BY <1>6 DEF Scores, ResetFraudScore, ResetCustomerAbuseScore, WaiveCooldown, FlagRefundAbuse
<1>7. CASE Settings \/ Pausing
  BY <1>7 DEF Settings, Change, Pausing, SetPaused
<1>. QED
  BY <1>4, <1>5, <1>6, <1>7

LEMMA CallDrawn ==
  ASSUME BooksInv, RefundCall
  PROVE  DrawnRight
<1>. USE DEF BooksInv
<1>1. CASE Requesting \/ Registering
  BY <1>1, RequestingOnward, OnwardDrawn
<1>2. CASE Reviewing
  BY <1>2, ApproveDrawn, ProcessOnward, DecisionsAlone, AloneOnward, OnwardDrawn DEF Reviewing
<1>3. CASE Vouchers
  <2>1. ASSUME NEW c, NEW m, NEW x, NEW until,
               ApplyStoreCredit(c, m, x) \/ ExtendStoreCreditExpiry(m, c, until)
        PROVE  refund' = refund /\ purse' = purse
    BY <2>1 DEF ApplyStoreCredit, ExtendStoreCreditExpiry, requestVars
  <2>. QED
    BY <1>3, <2>1, DecisionsAlone, AloneOnward, OnwardDrawn, StillDrawn DEF Vouchers
<1>4. CASE Evidence \/ Escalation
  BY <1>4, DecisionsAlone, AloneOnward, OnwardDrawn DEF Evidence, Escalation
<1>5. CASE Offers
  BY <1>5, OffersAlone, AloneOnward, OnwardDrawn DEF Offers
<1>6. CASE Closing \/ Appeals
  BY <1>6, ClosingAlone, AloneOnward, OnwardDrawn DEF Closing, Appeals
<1>7. CASE Extending
  BY <1>7, ExtendingOnward, OnwardDrawn
<1>8. CASE Reserves \/ Terms \/ Scores \/ Settings \/ Pausing
  BY <1>8, RestStill, StillDrawn
<1>. QED
  BY <1>1, <1>2, <1>3, <1>4, <1>5, <1>6, <1>7, <1>8 DEF RefundCall

LEMMA StepDrawn == BooksInv /\ [Next]_vars => DrawnRight
<1>. SUFFICES ASSUME BooksInv, [Next]_vars PROVE DrawnRight
  OBVIOUS
<1>1. CASE RefundCall
  BY <1>1, CallDrawn
<1>2. CASE UNCHANGED refundVars
  BY <1>2, StillDrawn DEF refundVars, BooksInv
<1>. QED
  BY <1>1, <1>2 DEF Next, vars

(* A refund is paid from its merchant's reserve at most once, at its        *)
(* approval, and from its own deposit at most once, save for the appeal of  *)
(* a rejection, each for at most its amount and never both in one call; the *)
(* two are not offset, so an approved refund may be paid by both.  One that *)
(* has ended neither moves nor pays again.  This is for any number of       *)
(* refunds, accounts, tokens, settings and deadlines (approve_refund,       *)
(* process_refund, the counter-offers, the escalations and what anyone may  *)
(* call at a deadline).                                                     *)
THEOREM PaidOnceAlways == Spec => PaidOnce
<1>. DEFINE Paid(r) ==
       /\ purse'[r] < purse[r] =>
            /\ purse[r] - purse'[r] <= refund[r].amount
            /\ purse[r] = refund[r].amount \/ refund[r].status = "UnderAppeal"
            /\ reserve' = reserve
       /\ refund'[r] # refund[r] /\ reserve' # reserve =>
            LET m == Merchant(r)  left == reserve'[m].kept IN
            /\ refund[r].status \in Reviewed /\ refund'[r].status = "Approved"
            /\ reserve' = [reserve EXCEPT ![m].kept = left]
            /\ reserve[m].kept - left <= refund[r].amount
       /\ refund[r].status = "Approved" => refund'[r].status \in {"Approved", "Processed"}
       /\ refund[r].status \in Ended =>
            refund'[r].status = refund[r].status /\ purse'[r] = purse[r]
<1>1. Init => BooksInv
  BY InitBooks
<1>2. BooksInv /\ [Next]_vars => BooksInv'
  BY BooksStep
<1>3. BooksInv /\ [Next]_vars => [\A r \in Ids : Paid(r)]_vars
  <2>1. BooksInv /\ [Next]_vars => Allowed /\ DrawnRight
    BY StepAllowed, StepDrawn DEF BooksInv
  <2>2. ASSUME NEW r \in Ids, PaidOf(r), DrawnOf(r)  PROVE Paid(r)
    BY <2>2, Zenon DEF PaidOf, DrawnOf
  <2>. QED
    BY <2>1, <2>2 DEF Allowed, DrawnRight
<1>. QED
  BY <1>1, <1>2, <1>3, PTL DEF Spec, PaidOnce

=============================================================================
