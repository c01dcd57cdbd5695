---------------------------- MODULE PaymentsProofs ----------------------------
(***************************************************************************)
(* The statuses and the records of payments, for every value of the        *)
(* constants: no entry point takes a payment in for a barred merchant,     *)
(* what has ended stays ended but for a late verdict of the mediators, a   *)
(* dispute freezes the payment it is about, the withdrawal queues list the *)
(* payouts that were made, and what repeats keeps to its cycles.           *)
(*                                                                         *)
(* First, every call is lawful for every payment (Law): it leaves the      *)
(* status, makes the payment for a merchant that is allowed, moves a       *)
(* payment that is still open, or carries out a verdict.                   *)
(***************************************************************************)
EXTENDS Payments, FiniteSetTheorems, SequenceTheorems, TLAPS

Record(r) == {"status", "merchant"} \subseteq DOMAIN r
Case(k) == {"payment", "executed"} \subseteq DOMAIN k

(* Ids are handed out in order, so a creation finds its id unused; a        *)
(* mediation case is of a payment that was made.                            *)
PayInv ==
  /\ counter \in Nat
  /\ pay = [p \in Ids |-> pay[p]]
  /\ \A p \in Ids : Record(pay[p]) /\ (p >= counter => pay[p].status = "None")
  /\ \E S : cases \in Seq(S)
  /\ \A k \in DOMAIN cases :
       Case(cases[k]) /\ cases[k].payment \in Ids /\ pay[cases[k].payment].status # "None"

Law(p) ==
  \/ pay'[p].status = pay[p].status
  \/ /\ pay[p].status = "None" /\ pay'[p].status # "None"
     /\ Allowed(pay'[p].merchant)
  \/ pay[p].status \notin Closed \cup {"None"} /\ pay'[p].status # "None"
  \/ pay[p].status # "None" /\ pay'[p].status # "None" /\ Mediated(p)'

Lawful == PayInv' /\ \A p \in Ids : Law(p)

-----------------------------------------------------------------------------
(* The shapes of a step.                                                    *)

(* The mediation cases are left alone, and the ids not handed out too.      *)
LEMMA Shaped ==
  ASSUME PayInv, cases' = cases, counter' \in Nat, counter' >= counter,
         pay' = [p \in Ids |-> pay'[p]],
         \A p \in Ids : Record(pay'[p]) /\ Law(p) /\ (p >= counter' => pay'[p] = pay[p])
  PROVE  Lawful
<1>1. \A p \in Ids : pay[p].status # "None" => pay'[p].status # "None"
  BY DEF Law
<1>2. counter' \in Nat /\ pay' = [p \in Ids |-> pay'[p]]
  OBVIOUS
<1>3. \A p \in Ids : Record(pay'[p]) /\ (p >= counter' => pay'[p].status = "None")
  <2>. SUFFICES ASSUME NEW p \in Ids, p >= counter' PROVE p >= counter
    BY DEF PayInv
  <2>. QED
    BY DEF PayInv, Ids
<1>4. \E S : cases' \in Seq(S)
  BY DEF PayInv
<1>5. \A k \in DOMAIN cases' : Case(cases'[k]) /\ cases'[k].payment \in Ids
                               /\ pay'[cases'[k].payment].status # "None"
  BY <1>1 DEF PayInv
<1>. QED
  BY <1>2, <1>3, <1>4, <1>5 DEF Lawful, PayInv

(* No payment moves.                                                        *)
LEMMA QuietLawful ==
  ASSUME PayInv, pay' = pay, cases' = cases, counter' \in {counter, counter + 1}
  PROVE  Lawful
<1>1. counter' \in Nat /\ counter' >= counter
  BY DEF PayInv
<1>2. \A p \in Ids : Record(pay'[p]) /\ Law(p)
  BY DEF PayInv, Law
<1>. QED
  BY <1>1, <1>2, Shaped DEF PayInv

(* One payment that is still open moves.                                    *)
LEMMA MovedLawful ==
  ASSUME PayInv, NEW p \in Ids, NEW r,
         pay' = [pay EXCEPT ![p] = r], Record(r), r.status # "None",
         pay[p].status \notin Closed \cup {"None"},
         counter' = counter, cases' = cases
  PROVE  Lawful
<1>1. counter' \in Nat /\ counter' >= counter
  BY DEF PayInv
<1>2. pay' = [q \in Ids |-> pay'[q]]
  BY DEF PayInv
<1>3. p < counter
  BY DEF PayInv, Ids
<1>4. \A q \in Ids : Record(pay'[q]) /\ Law(q) /\ (q >= counter' => pay'[q] = pay[q])
  BY <1>3 DEF PayInv, Law, Ids
<1>. QED
  BY <1>1, <1>2, <1>4, Shaped

(* One payment is made.                                                     *)
LEMMA MadeLawful ==
  ASSUME PayInv, NEW r, counter < MaxPayments,
         pay' = [pay EXCEPT ![counter] = r], Record(r), r.status # "None",
         Allowed(r.merchant), counter' = counter + 1, cases' = cases
  PROVE  Lawful
<1>1. counter \in Ids /\ counter' \in Nat /\ counter' >= counter
  BY BoundsAssumption DEF PayInv, Ids
<1>2. pay' = [q \in Ids |-> pay'[q]]
  BY DEF PayInv
<1>3. ASSUME NEW q \in Ids PROVE Record(pay'[q]) /\ Law(q) /\ (q >= counter' => pay'[q] = pay[q])
  <2>1. CASE q = counter
    <3>1. pay'[q] = r /\ pay[q].status = "None" /\ ~(q >= counter')
      BY <2>1, <1>1 DEF PayInv, Ids
    <3>. QED
      BY <3>1 DEF Law
  <2>2. CASE q # counter
    BY <2>2, <1>1 DEF PayInv, Law
  <2>. QED
    BY <2>1, <2>2
<1>. QED
  BY <1>1, <1>2, <1>3, Shaped

(* Payments move together.                                                  *)
LEMMA MovedTogether ==
  ASSUME PayInv, counter' = counter, cases' = cases, pay' = [p \in Ids |-> pay'[p]],
         \A p \in Ids :
           \/ pay'[p] = pay[p]
           \/ /\ Record(pay'[p]) /\ pay'[p].status # "None" /\ pay[p].status # "None"
              /\ pay[p].status \notin Closed \/ pay'[p].status = pay[p].status
  PROVE  Lawful
<1>1. counter' \in Nat /\ counter' >= counter
  BY DEF PayInv
<1>2. \A p \in Ids : Record(pay'[p]) /\ Law(p) /\ (p >= counter' => pay'[p] = pay[p])
  BY DEF PayInv, Law, Ids
<1>. QED
  BY <1>1, <1>2, Shaped

-----------------------------------------------------------------------------
(* Every call has one of the shapes.                                        *)

LEMMA PlainIs ==
  ASSUME NEW c, NEW m, NEW t, NEW x
  PROVE  /\ Record(Plain(c, m, t, x))
         /\ Plain(c, m, t, x).status = "Pending"
         /\ Plain(c, m, t, x).merchant = m
  BY DEF Plain, NoPayment, Record

LEMMA CreateLawful ==
  ASSUME PayInv, NEW c, NEW m, NEW t, NEW x, NEW wait, NEW life, NEW splits, NEW cooling,
         NEW tipping, CreatePayment(c, m, t, x, wait, life, splits, cooling, tipping),
         cases' = cases
  PROVE  Lawful
<1>. DEFINE r == [Plain(c, m, t, x) EXCEPT
       !.status = IF wait > now THEN "ScheduledPending" ELSE "Pending",
       !.expiresAt = now + (IF life = 0 THEN cfg.timeout ELSE life),
       !.executeAfter = wait, !.splits = splits, !.coolingOff = cooling,
       !.tipping = tipping]
<1>1. Record(r) /\ r.status # "None" /\ r.merchant = m
  BY PlainIs DEF Record
<1>2. NewPayment(r, t, x) /\ Allowed(m)
  BY DEF CreatePayment
<1>. HIDE DEF r
<1>. QED
  BY <1>1, <1>2, MadeLawful DEF NewPayment

LEMMA BatchLawful ==
  ASSUME PayInv, NEW c, NEW m, NEW t, NEW x, CreatePaymentsBatch(c, m, t, <<x, x>>),
         cases' = cases
  PROVE  Lawful
<1>. DEFINE made == counter .. counter + 1
<1>1. /\ Allowed(m) /\ counter' = counter + 2
      /\ pay' = [p \in Ids |-> IF p \in made THEN Plain(c, m, t, <<x, x>>[p - counter + 1])
                               ELSE pay[p]]
  <2>1. Len(<<x, x>>) = 2 /\ counter + 2 - 1 = counter + 1
    BY DEF PayInv
  <2>. HIDE DEF PayInv
  <2>. QED
    BY <2>1 DEF CreatePaymentsBatch
<1>2. counter' \in Nat /\ counter' >= counter
  BY <1>1 DEF PayInv
<1>3. ASSUME NEW p \in Ids PROVE Record(pay'[p]) /\ Law(p) /\ (p >= counter' => pay'[p] = pay[p])
  <2>1. CASE p \in made
    <3>1. pay'[p] = Plain(c, m, t, <<x, x>>[p - counter + 1])
      BY <1>1, <2>1
    <3>2. Record(pay'[p]) /\ pay'[p].status = "Pending" /\ pay'[p].merchant = m
      BY <3>1, PlainIs
    <3>3. pay[p].status = "None" /\ ~(p >= counter')
      BY <1>1, <2>1 DEF PayInv, Ids
    <3>. QED
      BY <1>1, <3>2, <3>3 DEF Law
  <2>2. CASE p \notin made
    BY <1>1, <2>2 DEF PayInv, Law
  <2>. QED
    BY <2>1, <2>2
<1>4. pay' = [p \in Ids |-> pay'[p]]
  BY <1>1
<1>. QED
  BY <1>2, <1>3, <1>4, Shaped

LEMMA OracleLawful ==
  ASSUME PayInv, NEW c, NEW m, NEW t, NEW x, NEW price,
         CreatePaymentMultiToken(c, m, t, x, price), cases' = cases
  PROVE  Lawful
<1>. DEFINE r == [Plain(c, m, Usdc, x) EXCEPT !.rate = price]
<1>1. Record(r) /\ r.status # "None" /\ r.merchant = m
  BY PlainIs DEF Record
<1>2. Record(Plain(c, m, Usdc, x)) /\ Plain(c, m, Usdc, x).status # "None"
      /\ Plain(c, m, Usdc, x).merchant = m
  BY PlainIs
<1>3. CASE t = Usdc
  <2>1. NewPayment(Plain(c, m, Usdc, x), Usdc, x) /\ Allowed(m)
    BY <1>3 DEF CreatePaymentMultiToken
  <2>. QED
    BY <1>2, <2>1, MadeLawful DEF NewPayment
<1>4. CASE t # Usdc
  <2>1. /\ Allowed(m) /\ counter < MaxPayments /\ counter' = counter + 1
        /\ pay' = [pay EXCEPT ![counter] = r]
    BY <1>4 DEF CreatePaymentMultiToken
  <2>. HIDE DEF r
  <2>. QED
    BY <1>1, <2>1, MadeLawful
<1>. QED
  BY <1>3, <1>4

LEMMA AuthorizeLawful ==
  ASSUME PayInv, NEW c, NEW m, NEW t, NEW x, NEW d, AuthorizePayment(c, m, t, x, d),
         cases' = cases
  PROVE  Lawful
<1>. DEFINE r == [Plain(c, m, t, x) EXCEPT !.status = "Authorized", !.expiresAt = 0,
                                           !.captureDeadline = d]
<1>1. Record(r) /\ r.status # "None" /\ r.merchant = m
  BY PlainIs DEF Record
<1>2. NewPayment(r, t, x) /\ Allowed(m)
  BY DEF AuthorizePayment
<1>. HIDE DEF r
<1>. QED
  BY <1>1, <1>2, MadeLawful DEF NewPayment

LEMMA VoucherLawful ==
  ASSUME PayInv, NEW c, NEW m, NEW t, NEW x, NEW code,
         CreatePaymentWithVoucher(c, m, t, x, code)
  PROVE  Lawful
<1>1. PICK net, s : /\ NewPayment([Plain(c, m, t, net) EXCEPT !.status = s], t, net)
                    /\ s \in {"PendingApproval", "Pending"}
  BY DEF CreatePaymentWithVoucher
<1>. DEFINE r == [Plain(c, m, t, net) EXCEPT !.status = s]
<1>2. Record(r) /\ r.status # "None" /\ r.merchant = m
  BY <1>1, PlainIs DEF Record
<1>3. Allowed(m) /\ cases' = cases
  BY DEF CreatePaymentWithVoucher, disputeVars, caseVars
<1>. HIDE DEF r
<1>4. NewPayment(r, t, net)
  BY <1>1 DEF r
<1>. QED
  BY <1>2, <1>3, <1>4, MadeLawful DEF NewPayment

(* What a step does to one open payment.                                    *)
Moves(p) ==
  /\ counter' = counter
  /\ pay[p].status \notin Closed \cup {"None"}
  /\ pay' = [pay EXCEPT ![p] = pay'[p]]
  /\ Record(pay'[p]) /\ pay'[p].status # "None"

LEMMA MovesLawful ==
  ASSUME PayInv, NEW p \in Ids, Moves(p), cases' = cases
  PROVE  Lawful
  BY MovedLawful DEF Moves

LEMMA FinishMoves ==
  ASSUME PayInv, NEW p \in Ids, NEW s, Finish(p, s), s # "None", counter' = counter,
         pay[p].status \notin Closed \cup {"None"}
  PROVE  Moves(p)
  BY DEF PayInv, Record, Finish, Moves

LEMMA FinalizeMoves ==
  ASSUME PayInv, NEW p \in Ids, FinalizePayment(p), pay[p].status \notin Closed \cup {"None"}
  PROVE  Moves(p)
<1>1. counter' = counter
  BY DEF FinalizePayment
<1>2. PICK until, net : pay' = [pay EXCEPT ![p] = [pay[p] EXCEPT
       !.status = IF pay[p].coolingOff > 0 THEN "CoolingOff" ELSE "Completed",
       !.coolingUntil = until, !.amount = net, !.settled = TRUE]]
  BY DEF FinalizePayment
<1>3. Record(pay'[p]) /\ pay'[p].status # "None"
  BY <1>2 DEF PayInv, Record
<1>. QED
  BY <1>1, <1>2, <1>3 DEF PayInv, Moves

LEMMA CompletionMoves ==
  ASSUME PayInv, NEW p \in Ids, NEW r, NEW x,
         \/ CompletePayment(p, r) \/ CompletePaymentWithTip(p, r, x)
         \/ ExecuteScheduledPayment(p) \/ CapturePayment(p)
  PROVE  Moves(p)
<1>1. FinalizePayment(p) /\ pay[p].status \in Escrowed
  BY DEF CompletePayment, CompletePaymentWithTip, ExecuteScheduledPayment, CapturePayment,
         CompleteInternal, In, Escrowed
<1>. QED
  BY <1>1, FinalizeMoves DEF Escrowed, Closed

LEMMA GivenBackMoves ==
  ASSUME PayInv, NEW p \in Ids, NEW d, NEW x,
         \/ CancelScheduledPayment(p) \/ VoidAuthorization(p) \/ ExpirePayment(p)
         \/ ExtendPaymentExpiry(p, d) \/ PartialRefund(p, x) \/ RedeemPoints(p, x)
         \/ CancelDuringCoolingOff(p)
  PROVE  Moves(p)
<1>1. CASE CancelScheduledPayment(p)
  BY <1>1, FinishMoves DEF CancelScheduledPayment, OnlyPayments, In, Closed
<1>2. CASE VoidAuthorization(p)
  BY <1>2, FinishMoves DEF VoidAuthorization, OnlyPayments, In, Closed
<1>3. CASE ExpirePayment(p)
  BY <1>3, FinishMoves DEF ExpirePayment, OnlyPayments, In, Closed
<1>4. CASE ExtendPaymentExpiry(p, d)
  BY <1>4 DEF ExtendPaymentExpiry, OnlyPayments, In, Closed, PayInv, Record, Moves
<1>5. CASE PartialRefund(p, x)
  BY <1>5 DEF PartialRefund, OnlyPayments, In, Closed, PayInv, Record, Moves
<1>6. CASE RedeemPoints(p, x)
  BY <1>6 DEF RedeemPoints, OnlyPayments, Closed, PayInv, Record, Moves
<1>7. CASE CancelDuringCoolingOff(p)
  BY <1>7 DEF CancelDuringCoolingOff, OnlyPayments, In, Closed, PayInv, Record, Moves
<1>. QED
  BY <1>1, <1>2, <1>3, <1>4, <1>5, <1>6, <1>7

LEMMA BulkLawful ==
  ASSUME PayInv, NEW ps \in SUBSET Ids, BulkExpirePayments(ps), cases' = cases
  PROVE  Lawful
<1>1. /\ counter' = counter
      /\ pay' = [p \in Ids |-> IF p \in ps /\ BulkDue(p) THEN [pay[p] EXCEPT !.status = "Expired"]
                               ELSE pay[p]]
  BY DEF BulkExpirePayments, OnlyPayments
<1>2. \A p \in Ids : BulkDue(p) => pay[p].status \notin Closed \cup {"None"}
  BY DEF BulkDue, PastDeadline, Closed
<1>3. ASSUME NEW p \in Ids
      PROVE  \/ pay'[p] = pay[p]
             \/ /\ Record(pay'[p]) /\ pay'[p].status # "None" /\ pay[p].status # "None"
                /\ pay[p].status \notin Closed \/ pay'[p].status = pay[p].status
  BY <1>1, <1>2 DEF PayInv, Record
<1>4. pay' = [p \in Ids |-> pay'[p]]
  BY <1>1
<1>. QED
  BY <1>1, <1>3, <1>4, MovedTogether

LEMMA SettlementLawful ==
  ASSUME PayInv, NEW m, NEW ps, SettleMerchantPayments(m, ps)
  PROVE  Lawful
<1>. DEFINE times(p) == Cardinality({i \in DOMAIN ps : ps[i] = p})
<1>1. /\ counter' = counter /\ cases' = cases
      /\ pay' = [p \in Ids |-> IF times(p) > 0 THEN [pay[p] EXCEPT !.settled = TRUE] ELSE pay[p]]
      /\ \A i \in DOMAIN ps : pay[ps[i]].status = "Completed"
  BY DEF SettleMerchantPayments, OnlyPayments, caseVars
<1>2. \A p \in Ids : times(p) > 0 => \E i \in DOMAIN ps : ps[i] = p
  <2>. SUFFICES ASSUME NEW p \in Ids, ~ \E i \in DOMAIN ps : ps[i] = p  PROVE ~(times(p) > 0)
    OBVIOUS
  <2>1. {i \in DOMAIN ps : ps[i] = p} = {}
    OBVIOUS
  <2>. QED
    BY <2>1, FS_EmptySet
<1>. HIDE DEF times
<1>3. ASSUME NEW p \in Ids
      PROVE  \/ pay'[p] = pay[p]
             \/ /\ Record(pay'[p]) /\ pay'[p].status # "None" /\ pay[p].status # "None"
                /\ pay[p].status \notin Closed \/ pay'[p].status = pay[p].status
  BY <1>1, <1>2 DEF PayInv, Record
<1>4. pay' = [p \in Ids |-> pay'[p]]
  BY <1>1
<1>. QED
  BY <1>1, <1>3, <1>4, MovedTogether

(* The mediators.                                                           *)

(* A case that is changed but stays of the same payment, or a new one of a  *)
(* payment that was made.                                                   *)
LEMMA CaseChanged ==
  ASSUME PayInv, NEW k \in DOMAIN cases, NEW c, Case(c), c.payment = cases[k].payment,
         cases' = [cases EXCEPT ![k] = c], counter' = counter,
         pay' = [p \in Ids |-> pay'[p]],
         \A p \in Ids : Record(pay'[p]) /\ Law(p) /\ (p >= counter => pay'[p].status = "None")
  PROVE  Lawful
<1>1. PICK S : cases \in Seq(S)
  BY DEF PayInv
<1>2. /\ cases' \in Seq(S \cup {c}) /\ DOMAIN cases' = DOMAIN cases /\ cases'[k] = c
      /\ \A j \in DOMAIN cases : j # k => cases'[j] = cases[j]
  <2>1. cases \in Seq(S \cup {c}) /\ DOMAIN cases = 1 .. Len(cases)
    BY <1>1, SeqMonotonic, LenProperties
  <2>. QED
    BY <2>1, ExceptSeq
<1>3. ASSUME NEW j \in DOMAIN cases'
      PROVE  Case(cases'[j]) /\ cases'[j].payment \in Ids /\ pay'[cases'[j].payment].status # "None"
  <2>1. Case(cases'[j]) /\ cases'[j].payment = cases[j].payment
    BY <1>2 DEF PayInv
  <2>. QED
    BY <1>2, <2>1 DEF PayInv, Law
<1>4. \E T : cases' \in Seq(T)
  BY <1>2
<1>. QED
  BY <1>3, <1>4 DEF Lawful, PayInv

LEMMA CaseOpened ==
  ASSUME PayInv, NEW c, Case(c), c.payment \in Ids, pay[c.payment].status # "None",
         cases' = Append(cases, c), pay' = pay, counter' = counter
  PROVE  Lawful
<1>1. PICK S : cases \in Seq(S)
  BY DEF PayInv
<1>2. /\ cases' \in Seq(S \cup {c}) /\ Len(cases) \in Nat /\ DOMAIN cases = 1 .. Len(cases)
      /\ DOMAIN cases' = 1 .. (Len(cases) + 1)
      /\ \A j \in 1 .. Len(cases) : cases'[j] = cases[j]
      /\ cases'[Len(cases) + 1] = c
  <2>1. cases \in Seq(S \cup {c})
    BY <1>1, SeqMonotonic
  <2>. QED
    BY <2>1, AppendProperties, LenProperties
<1>3. \E T : cases' \in Seq(T)
  BY <1>2
<1>4. ASSUME NEW j \in DOMAIN cases'
      PROVE  Case(cases'[j]) /\ cases'[j].payment \in Ids /\ pay'[cases'[j].payment].status # "None"
  <2>1. CASE j = Len(cases) + 1
    BY <1>2, <2>1
  <2>2. CASE j # Len(cases) + 1
    <3>1. j \in DOMAIN cases /\ cases'[j] = cases[j]
      BY <1>2, <2>2
    <3>. QED
      BY <3>1 DEF PayInv
  <2>. QED
    BY <2>1, <2>2
<1>5. \A p \in Ids : Law(p)
  BY DEF Law
<1>. QED
  BY <1>3, <1>4, <1>5 DEF Lawful, PayInv

LEMMA VerdictLawful ==
  ASSUME PayInv, NEW k \in DOMAIN cases, ExecuteDaoVerdict(k)
  PROVE  Lawful
<1>. DEFINE p == cases[k].payment
<1>1. /\ counter' = counter
      /\ cases' = [cases EXCEPT ![k] = [cases[k] EXCEPT !.executed = TRUE]]
  BY DEF ExecuteDaoVerdict, OnlyPayments
<1>2. p \in Ids /\ pay[p].status # "None" /\ Case(cases[k]) /\ Record(pay[p])
  BY DEF PayInv
<1>3. /\ pay' = [pay EXCEPT ![p] = pay'[p]] /\ Record(pay'[p])
      /\ pay'[p].status \in {"Completed", "Refunded"}
  BY <1>2 DEF ExecuteDaoVerdict, Released, Finish, PayInv, Record
<1>4. /\ k \in DOMAIN cases' /\ cases'[k].payment = p /\ cases'[k].executed
      /\ Case([cases[k] EXCEPT !.executed = TRUE])
      /\ [cases[k] EXCEPT !.executed = TRUE].payment = p
  BY <1>1, <1>2 DEF PayInv, Case
<1>5. ASSUME NEW q \in Ids, q = p  PROVE Mediated(q)'
  BY <1>4, <1>5 DEF Mediated
<1>. HIDE DEF p
<1>6. ASSUME NEW q \in Ids
      PROVE  Record(pay'[q]) /\ Law(q) /\ (q >= counter => pay'[q].status = "None")
  <2>1. CASE q = p
    <3>1. ~(q >= counter)
      BY <1>2, <2>1 DEF PayInv
    <3>2. pay[q].status # "None" /\ pay'[q].status # "None" /\ Mediated(q)'
      BY <1>2, <1>3, <1>5, <2>1
    <3>. QED
      BY <1>3, <2>1, <3>1, <3>2 DEF Law
  <2>2. CASE q # p
    <3>1. pay'[q] = pay[q]
      BY <1>2, <1>3, <2>2 DEF PayInv
    <3>. QED
      BY <3>1 DEF Law, PayInv
  <2>. QED
    BY <2>1, <2>2
<1>7. pay' = [q \in Ids |-> pay'[q]]
  BY <1>3 DEF PayInv
<1>. QED
  BY <1>1, <1>4, <1>6, <1>7, CaseChanged DEF p

LEMMA DaoLawful ==
  ASSUME PayInv, DaoNext
  PROVE  Lawful
<1>1. ASSUME NEW p \in Ids, EscalateToDao(p)  PROVE Lawful
  <2>. DEFINE c == [payment |-> p, closesAt |-> now + cfg.voteWindow, for |-> {},
                    against |-> {}, executed |-> FALSE]
  <2>1. Case(c) /\ c.payment = p /\ pay[p].status # "None"
    BY <1>1 DEF Case, EscalateToDao, In
  <2>2. cases' = Append(cases, c) /\ pay' = pay /\ counter' = counter
    BY <1>1 DEF EscalateToDao, baseVars, paymentVars
  <2>. HIDE DEF c
  <2>. QED
    BY <2>1, <2>2, CaseOpened
<1>2. ASSUME NEW k \in DOMAIN cases, NEW v, NEW b, DaoVote(k, v, b)  PROVE Lawful
  <2>1. PICK c : Case(c) /\ c.payment = cases[k].payment /\ cases' = [cases EXCEPT ![k] = c]
    <3>1. CASE b
      BY <1>2, <3>1 DEF DaoVote, PayInv, Case
    <3>2. CASE ~b
      BY <1>2, <3>2 DEF DaoVote, PayInv, Case
    <3>. QED
      BY <3>1, <3>2
  <2>2. pay' = pay /\ counter' = counter
    BY <1>2 DEF DaoVote, baseVars, paymentVars
  <2>3. /\ pay' = [p \in Ids |-> pay'[p]]
        /\ \A p \in Ids : Record(pay'[p]) /\ Law(p) /\ (p >= counter => pay'[p].status = "None")
    BY <2>2 DEF PayInv, Law
  <2>. QED
    BY <2>1, <2>2, <2>3, CaseChanged
<1>. QED
  BY <1>1, <1>2, VerdictLawful DEF DaoNext

(* The admin's and the customer's side of a dispute.                        *)
LEMMA DisputeLawful ==
  ASSUME PayInv, DisputeNext
  PROVE  Lawful
<1>1. ASSUME NEW p \in Ids, DisputePayment(p) \/ CheckEscalation(p)  PROVE Lawful
  <2>1. Moves(p)
    BY <1>1, FinishMoves DEF DisputePayment, CheckEscalation, OnlyPayments, In, Closed
  <2>2. cases' = cases
    BY <1>1 DEF DisputePayment, CheckEscalation, disputeVars, caseVars
  <2>. QED
    BY <2>1, <2>2, MovesLawful
<1>2. ASSUME NEW p \in Ids, NEW b \in BOOLEAN, ResolveDispute(p, b)  PROVE Lawful
  <2>1. counter' = counter /\ cases' = cases /\ pay[p].status \in Contested
    BY <1>2 DEF ResolveDispute, In
  <2>2. pay[p].status \notin Closed \cup {"None"}
    BY <2>1 DEF Contested, Closed
  <2>3. CASE Released(p)
    <3>1. pay' = [pay EXCEPT ![p] = pay'[p]] /\ Record(pay'[p]) /\ pay'[p].status # "None"
      BY <2>3 DEF Released, PayInv, Record
    <3>. QED
      BY <2>1, <2>2, <3>1, MovesLawful DEF Moves
  <2>4. CASE Finish(p, "Refunded")
    BY <2>1, <2>2, <2>4, FinishMoves, MovesLawful
  <2>. QED
    BY <1>2, <2>3, <2>4 DEF ResolveDispute
<1>3. CASE EvidenceNext
  <2>1. ASSUME NEW p \in Ids, NEW s, SubmitDisputeEvidence(p, s) \/ CloseEvidenceWindow(p)
        PROVE  Lawful
    BY <2>1, QuietLawful DEF SubmitDisputeEvidence, CloseEvidenceWindow, baseVars, paymentVars
  <2>. QED
    BY <1>2, <1>3, <2>1 DEF EvidenceNext, ResolveDisputeWithEvidence
<1>4. ASSUME NEW p \in Ids, CancelDuringCoolingOff(p)  PROVE Lawful
  <2>1. cases' = cases
    BY <1>4 DEF CancelDuringCoolingOff, disputeVars, caseVars
  <2>. QED
    BY <1>4, <2>1, GivenBackMoves, MovesLawful
<1>. QED
  BY <1>1, <1>2, <1>3, <1>4, DaoLawful, SettlementLawful
  DEF DisputeNext, Disputing, Resolution, CoolingNext, SettlementNext

LEMMA LifecycleLawful ==
  ASSUME PayInv, LifecycleNext, cases' = cases
  PROVE  Lawful
<1>1. CASE PlainCreation
  BY <1>1, CreateLawful, BatchLawful DEF PlainCreation
<1>2. CASE ScheduledCreation
  BY <1>2, CreateLawful DEF ScheduledCreation
<1>3. CASE OwnTermsCreation
  BY <1>3, CreateLawful DEF OwnTermsCreation
<1>4. CASE CoolingCreation
  BY <1>4, CreateLawful DEF CoolingCreation
<1>5. CASE OracleCreation
  BY <1>5, OracleLawful DEF OracleCreation
<1>6. CASE Authorization
  BY <1>6, AuthorizeLawful DEF Authorization
<1>7. CASE Completion
  BY <1>7, CompletionMoves, MovesLawful DEF Completion
<1>8. CASE ScheduleEnd
  BY <1>8, CompletionMoves, GivenBackMoves, MovesLawful DEF ScheduleEnd
<1>9. CASE AuthorizationEnd
  BY <1>9, CompletionMoves, GivenBackMoves, MovesLawful DEF AuthorizationEnd
<1>10. CASE Expiry
  BY <1>10, GivenBackMoves, BulkLawful, MovesLawful DEF Expiry
<1>11. CASE Extension
  BY <1>11, GivenBackMoves, MovesLawful DEF Extension
<1>12. CASE Refunding
  BY <1>12, GivenBackMoves, MovesLawful DEF Refunding
<1>13. CASE Redemption
  BY <1>13, GivenBackMoves, MovesLawful DEF Redemption
<1>. QED
  BY <1>1, <1>2, <1>3, <1>4, <1>5, <1>6, <1>7, <1>8, <1>9, <1>10, <1>11, <1>12, <1>13
  DEF LifecycleNext

-----------------------------------------------------------------------------
(* The merchants' side.                                                     *)

(* Every other call of the merchants and the admin leaves the payments.     *)
Still == pay' = pay /\ counter' \in {counter, counter + 1} /\ cases' = cases

LEMMA StandingStill == StandingNext => Still
  BY DEF StandingNext, ApproveMerchant, RevokeMerchant, BanMerchant, ReinstateMerchant,
     SuspendMerchant, SubmitAppeal, ApproveAppeal, RejectAppeal, CompleteReinstatement,
     KeepStanding, KeepPay, paymentVars, disputeVars, caseVars, Still

LEMMA GateStill == GateNext => Still
  BY DEF GateNext, BlockCustomer, UnblockCustomer, RequestUnblock, ResolveUnblockRequest,
     SetMerchantKyb, RevokeMerchantKyb, KeepGates, KeepPay, paymentVars, disputeVars,
     caseVars, Still

LEMMA CollateralStill == CollateralNext => Still
  BY DEF CollateralNext, DepositCollateral, WithdrawCollateral, MoveCollateral, KeepAll,
     disputeVars, caseVars, Still

LEMMA IssuedStill == VoucherNext => Still
  BY DEF VoucherNext, IssueVoucher, RevokeVoucher, KeepPay, paymentVars, disputeVars,
     caseVars, Still

LEMMA QueueStill == QueueNext => Still
  BY DEF QueueNext, ProcessWithdrawalQueue, PrioritizeWithdrawal, SetQueue, KeepAll,
     paymentVars, disputeVars, caseVars, Still

LEMMA LimitStill == LimitNext => Still
  BY DEF LimitNext, SetMerchantVolumeCap, SetWithdrawalWindow, SetWithdrawalLimit,
     OverrideWithdrawalLimit, SetLimits, KeepAll, baseVars, paymentVars, disputeVars,
     caseVars, Still

LEMMA SpendLimitStill == SpendLimitNext => Still
  BY DEF SpendLimitNext, SetCustomerSpendLimit, RemoveCustomerSpendLimit,
     SetDefaultSpendLimit, SetBuyerTier, SetTierSpendingLimit, SetSpendLimits, KeepAll,
     KeepPay, paymentVars, disputeVars, caseVars, Still

LEMMA SettingsStill == SettingsNext => Still
<1>1. ASSUME NEW c, SetCfg(c)  PROVE Still
  BY <1>1 DEF SetCfg, KeepAll, paymentVars, disputeVars, caseVars, Still
<1>. QED
  BY <1>1 DEF SettingsNext, UpdateFee, UpdateFeeTiers, SetDisputeTimeout, SetPaymentTimeout,
     SetPaymentExpiryBounds, UpdateExtensionConfig, UpdateRateLimitConfig,
     SetMerchantOpenMode, SetMinCollateral, SetKybEnforcement, SetAppealRejectionCooldown,
     SetMaxCoolingOffLedgers, SetEvidenceWindowLedgers, SetMaxEvidenceSubmissions,
     ConfigureLoyalty, SetReferralConfig, SetMaxBatchSize, SetMaxTipBps, ConfigureDao

LEMMA OtherStill == PreferenceNext \/ ReferralNext \/ PauseNext => Still
  BY DEF PreferenceNext, SetPreferredToken, ReferralNext, RegisterReferral,
     ClaimReferralCommission, PauseNext, PauseContract, ResumeContract, SetPaused, KeepAll,
     paymentVars, disputeVars, caseVars, Still

(* A payment that waits for signatures is let through, or given back.       *)
LEMMA MultisigLawful ==
  ASSUME PayInv, MultisigNext
  PROVE  Lawful
<1>1. ASSUME NEW m, NEW s, NEW k, NEW x, NEW d, SetMultisigPolicy(m, s, k, x, d)
      PROVE  Lawful
  BY <1>1, QuietLawful DEF SetMultisigPolicy, KeepPay, paymentVars, disputeVars, caseVars
<1>2. ASSUME NEW p \in Ids, In(p, {"PendingApproval"}), KeepApproval,
             \/ Finish(p, "Refunded") \/ Finish(p, "Pending") \/ pay' = pay
      PROVE  Lawful
  <2>1. cases' = cases /\ counter' = counter
    BY <1>2 DEF KeepApproval, OnlyPayments, disputeVars, caseVars
  <2>2. pay[p].status \notin Closed \cup {"None"}
    BY <1>2 DEF In, Closed
  <2>. QED
    BY <1>2, <2>1, <2>2, FinishMoves, MovesLawful, QuietLawful
<1>3. ASSUME NEW p \in Ids, NEW s, ApprovePayment(p, s) \/ ExpirePendingApproval(p)
      PROVE  Lawful
  BY <1>2, <1>3 DEF ApprovePayment, ExpirePendingApproval, RefundUnapproved
<1>. QED
  BY <1>1, <1>3 DEF MultisigNext

LEMMA MerchantLawful ==
  ASSUME PayInv, MerchantNext
  PROVE  Lawful
<1>1. CASE Still
  BY <1>1, QuietLawful DEF Still
<1>2. CASE VoucherCreation
  BY <1>2, VoucherLawful DEF VoucherCreation
<1>. QED
  BY <1>1, <1>2, StandingStill, GateStill, CollateralStill, IssuedStill, QueueStill,
     LimitStill, SpendLimitStill, SettingsStill, OtherStill, MultisigLawful
  DEF MerchantNext

(* Of what repeats, only an invoice's cycle makes a payment.                *)
LEMMA RecurringKinds ==
  ASSUME RecurringNext
  PROVE  OnlyRecurring \/ \E i \in Invoices, t \in Token : TriggerInvoiceCycle(i, t)
<1>1. SubscriptionNext => OnlyRecurring
  BY DEF SubscriptionNext, CreateSubscription, ChargeSubscription, CancelSubscription,
     PauseSubscription, ResumeSubscription, PauseSubscriptionV2, ResumeSubscriptionV2,
     AdminResumeSubscription, Store, OnlySubs
<1>2. PlanNext => OnlyRecurring
  BY DEF PlanNext, SetSubscriptionPlan, ChangeSubscriptionPlan, Store, OnlySubs
<1>3. InvoiceNext => OnlyRecurring \/ \E i \in Invoices, t \in Token : TriggerInvoiceCycle(i, t)
  BY DEF InvoiceNext, CreateRecurringInvoice, CancelRecurringInvoice
<1>4. DebitNext => OnlyRecurring
  BY DEF DebitNext, SetRetryConfig, InitiateAllowedPayment, RetryFailedDebit,
     TriggerEarlyRetry, RetryDebit, OnlyDebits
<1>5. ScheduleNext => OnlyRecurring
  BY DEF ScheduleNext, CreateRecurringPayment, ExecuteRecurring, CancelRecurringPayment,
     OnlySchedules
<1>6. ConsentNext => OnlyRecurring
  BY DEF ConsentNext, CreateConsentRecord, SignConsent, RevokeConsent, StoreConsent
<1>. QED
  BY <1>1, <1>2, <1>3, <1>4, <1>5, <1>6 DEF RecurringNext

LEMMA RecurringLawful ==
  ASSUME PayInv, RecurringNext
  PROVE  Lawful
<1>1. CASE OnlyRecurring
  BY <1>1, QuietLawful DEF OnlyRecurring, baseVars, paymentVars, disputeVars, caseVars
<1>2. ASSUME NEW i, NEW t, TriggerInvoiceCycle(i, t)  PROVE Lawful
  <2>1. /\ CreatePayment(invoices[i].customer, invoices[i].merchant, t, invoices[i].amount,
                         0, 0, <<>>, 0, FALSE)
        /\ cases' = cases
    BY <1>2 DEF TriggerInvoiceCycle, disputeVars, caseVars
  <2>. QED
    BY <2>1, CreateLawful
<1>. QED
  BY <1>1, <1>2, RecurringKinds

-----------------------------------------------------------------------------
(* Every step.                                                              *)

LEMMA InitPayInv == Init => PayInv
<1>. SUFFICES ASSUME Init PROVE PayInv
  OBVIOUS
<1>1. counter \in Nat /\ pay = [p \in Ids |-> pay[p]]
  BY DEF Init, BaseInit
<1>2. \A p \in Ids : Record(pay[p]) /\ pay[p].status = "None"
  BY DEF Init, BaseInit, NoPayment, Record
<1>3. cases \in Seq({}) /\ DOMAIN cases = {}
  BY DEF Init, DisputesInit
<1>. QED
  BY <1>1, <1>2, <1>3 DEF PayInv

LEMMA StepLawful ==
  ASSUME PayInv, [Next]_vars
  PROVE  Lawful
<1>1. CASE /\ Tick \/ LifecycleNext
           /\ UNCHANGED <<disputeVars, shopVars, recurringVars>>
  <2>1. cases' = cases
    BY <1>1 DEF disputeVars, caseVars
  <2>2. CASE Tick
    BY <2>1, <2>2, QuietLawful DEF Tick, paymentVars
  <2>. QED
    BY <1>1, <2>1, <2>2, LifecycleLawful
<1>2. CASE UNCHANGED vars
  BY <1>2, QuietLawful DEF vars, baseVars, paymentVars, disputeVars, caseVars
<1>. QED
  BY <1>1, <1>2, DisputeLawful, MerchantLawful, RecurringLawful DEF Next

THEOREM PayInvAlways == Spec => []PayInv
<1>1. PayInv /\ [Next]_vars => PayInv'
  BY StepLawful DEF Lawful
<1>. QED
  BY InitPayInv, <1>1, PTL DEF Spec

(* Whichever entry point a payment is made by, its merchant is allowed at   *)
(* that moment: create_payment and its batch, oracle, voucher, authorised   *)
(* and invoiced forms all come to require_merchant_approved.                *)
THEOREM NoPaymentForBarredAlways == Spec => NoPaymentForBarred
<1>1. PayInv /\ [Next]_vars =>
        [\A p \in Ids : pay[p].status = "None" /\ pay'[p].status # "None" =>
           LET s == standing[pay'[p].merchant] IN
           s.status = "Active" \/ (s.status = "Suspended" /\ now > s.until)]_vars
  <2>. SUFFICES ASSUME PayInv, [Next]_vars, NEW p \in Ids,
                       pay[p].status = "None", pay'[p].status # "None"
                PROVE  Allowed(pay'[p].merchant)
    BY DEF Allowed
  <2>1. Law(p)
    BY StepLawful DEF Lawful
  <2>. QED
    BY <2>1 DEF Law
<1>. QED
  BY <1>1, PayInvAlways, PTL DEF Spec, NoPaymentForBarred

(* What has ended stays ended: every handler that moves a payment asks for  *)
(* one of the open statuses first, but for execute_dao_verdict.             *)
THEOREM ClosedStaysFinal == Spec => ClosedIsFinal
<1>1. PayInv /\ [Next]_vars =>
        [\A p \in Ids : pay[p].status \in Closed /\ pay'[p].status # pay[p].status =>
           Mediated(p)']_vars
  <2>. SUFFICES ASSUME PayInv, [Next]_vars, NEW p \in Ids,
                       pay[p].status \in Closed, pay'[p].status # pay[p].status
                PROVE  Mediated(p)'
    OBVIOUS
  <2>1. Law(p)
    BY StepLawful DEF Lawful
  <2>. QED
    BY <2>1 DEF Law, Closed
<1>. QED
  BY <1>1, PayInvAlways, PTL DEF Spec, ClosedIsFinal

-----------------------------------------------------------------------------
(* The records.  Every call has an effect on each payment (Effect): it      *)
(* leaves the record and the tokens, takes it in, moves it while it is      *)
(* escrowed, does one of the few things a dispute allows, or touches up     *)
(* what has ended without changing the merchant or the amount.  Its effect  *)
(* on the queues (Queued) is none, a new last entry for the payment it pays *)
(* out, or entries drawn from one queue again.                              *)

Ended == Closed \cup {"CoolingOff"}

Fields(r) == {"status", "merchant", "amount", "refunded", "settled"} \subseteq DOMAIN r

(* A payment is refunded in numbers while it can still be disputed.         *)
Numbered(r) ==
  /\ Fields(r) /\ r.status \in PaymentStatus
  /\ r.status \in Escrowed \cup Contested \cup {"None"} => r.refunded \in Int

RecordInv ==
  /\ PayInv
  /\ purse = [p \in Ids |-> purse[p]]
  /\ dispute = [p \in Ids |-> dispute[p]]
  /\ \A p \in Ids :
       /\ Numbered(pay[p]) /\ "resolved" \in DOMAIN dispute[p]

(* What a call may do to a payment in dispute.                              *)
UnderDispute(p) ==
  \/ Ruled(p) /\ pay'[p].status \in Closed
  \/ pay[p].status = "Disputed" /\ pay'[p].status = "EscalatedDispute" /\ purse'[p] = purse[p]
  \/ pay[p].status = "Disputed" /\ pay'[p].status = "Expired"
  \/ pay[p].status = "Disputed" /\ pay'[p].status \in {"Disputed", "Refunded"} /\ RefundedMore(p)

Effect(p) ==
  \/ pay'[p] = pay[p] /\ purse'[p] = purse[p]
  \/ pay[p].status \in Escrowed \cup {"None"}
  \/ pay[p].status \in Contested /\ UnderDispute(p)
  \/ /\ pay[p].status \in Ended /\ pay'[p].status \in Ended
     /\ pay'[p].merchant = pay[p].merchant /\ pay'[p].amount = pay[p].amount

(* The effect on the queues.                                                *)
Enqueues(p) ==
  /\ p \in Ids /\ pay[p].status \in Escrowed
  /\ pay'[p].status \in Ended /\ pay'[p].merchant = pay[p].merchant
  /\ queue' = [queue EXCEPT ![pay[p].merchant] = Append(@, <<p, pay'[p].amount>>)]
Redrawn(s, t) ==
  \/ \E n \in 1 .. MaxBatch : t = SubSeq(s, Least(n, Len(s)) + 1, Len(s))
  \/ \E i \in DOMAIN s : t = <<s[i]>> \o RemoveAt(s, i)
Redraws(m) ==
  pay' = pay /\ \E t : queue' = [queue EXCEPT ![m] = t] /\ Redrawn(queue[m], t)
Queued ==
  \/ queue' = queue
  \/ \E p \in Ids : Enqueues(p)
  \/ \E m \in Merchants : Redraws(m)

Clocked == now' \in {now, now + 1}

Recorded == RecordInv' /\ (\A p \in Ids : Effect(p)) /\ Queued /\ Clocked

-----------------------------------------------------------------------------
(* The shapes of a step.                                                    *)

(* Some payments are touched.                                               *)
LEMMA SomeRecorded ==
  ASSUME RecordInv, PayInv', NEW ps,
         purse' = [p \in Ids |-> purse'[p]], dispute' = [p \in Ids |-> dispute'[p]],
         \A p \in Ids : "resolved" \in DOMAIN dispute'[p],
         \A p \in Ids : p \in ps => Numbered(pay'[p]) /\ Effect(p),
         \A p \in Ids : p \notin ps => pay'[p] = pay[p] /\ purse'[p] = purse[p],
         Queued, Clocked
  PROVE  Recorded
<1>1. \A p \in Ids : Numbered(pay'[p])
  BY DEF RecordInv
<1>2. RecordInv'
  BY <1>1 DEF RecordInv
<1>3. \A p \in Ids : Effect(p)
  BY DEF Effect
<1>. QED
  BY <1>2, <1>3 DEF Recorded

(* None is.                                                                 *)
LEMMA NoneRecorded ==
  ASSUME RecordInv, PayInv', pay' = pay, purse' = purse, dispute' = dispute,
         Queued, Clocked
  PROVE  Recorded
<1>1. /\ purse' = [p \in Ids |-> purse'[p]] /\ dispute' = [p \in Ids |-> dispute'[p]]
      /\ \A p \in Ids : "resolved" \in DOMAIN dispute'[p]
  BY DEF RecordInv
<1>. DEFINE none == {}
<1>2. \A p \in Ids : p \notin none => pay'[p] = pay[p] /\ purse'[p] = purse[p]
  OBVIOUS
<1>3. \A p \in Ids : p \in none => Numbered(pay'[p]) /\ Effect(p)
  OBVIOUS
<1>. HIDE DEF none
<1>. QED
  BY <1>1, <1>2, <1>3, SomeRecorded

(* One is.                                                                  *)
One(p) ==
  /\ pay' = [pay EXCEPT ![p] = pay'[p]]
  /\ purse' = [purse EXCEPT ![p] = purse'[p]]
  /\ dispute' = [dispute EXCEPT ![p] = dispute'[p]] /\ "resolved" \in DOMAIN dispute'[p]
  /\ Numbered(pay'[p])
  /\ Effect(p)

LEMMA OneRecorded ==
  ASSUME RecordInv, PayInv', NEW p \in Ids, One(p), Queued, Clocked
  PROVE  Recorded
<1>1. /\ purse' = [q \in Ids |-> purse'[q]] /\ dispute' = [q \in Ids |-> dispute'[q]]
      /\ \A q \in Ids : "resolved" \in DOMAIN dispute'[q]
  BY DEF RecordInv, One
<1>2. \A q \in Ids : q \in {p} => Numbered(pay'[q]) /\ Effect(q)
  BY DEF One
<1>3. \A q \in Ids : q \notin {p} => pay'[q] = pay[q] /\ purse'[q] = purse[q]
  BY DEF One, RecordInv, PayInv
<1>. QED
  BY <1>1, <1>2, <1>3, SomeRecorded

(* One is made.                                                             *)
LEMMA MadeRecorded ==
  ASSUME RecordInv, PayInv', NEW r, NEW x, counter < MaxPayments, Numbered(r),
         pay' = [pay EXCEPT ![counter] = r], purse' = [purse EXCEPT ![counter] = x],
         dispute' = dispute, queue' = queue, Clocked
  PROVE  Recorded
<1>1. PICK p \in Ids : p = counter
  BY BoundsAssumption DEF RecordInv, PayInv, Ids
<1>2. /\ pay' = [pay EXCEPT ![p] = pay'[p]] /\ purse' = [purse EXCEPT ![p] = purse'[p]]
      /\ pay'[p] = r
  BY <1>1 DEF RecordInv, PayInv
<1>3. dispute' = [dispute EXCEPT ![p] = dispute'[p]] /\ "resolved" \in DOMAIN dispute'[p]
  BY DEF RecordInv
<1>4. Effect(p)
  BY <1>1 DEF RecordInv, PayInv, Effect
<1>. QED
  BY <1>2, <1>3, <1>4, OneRecorded DEF One, Queued

(* A call that says nothing of the dispute.                                 *)
LEMMA Undisputed ==
  ASSUME RecordInv, NEW p \in Ids, dispute' = dispute
  PROVE  dispute' = [dispute EXCEPT ![p] = dispute'[p]] /\ "resolved" \in DOMAIN dispute'[p]
  BY DEF RecordInv

-----------------------------------------------------------------------------
(* Payments that are made.                                                  *)

LEMMA PlainNumbered ==
  ASSUME NEW c, NEW m, NEW t, NEW x
  PROVE  Numbered(Plain(c, m, t, x)) /\ Plain(c, m, t, x).refunded = 0
  BY DEF Plain, NoPayment, Numbered, Fields, PaymentStatus, Escrowed, Contested, Closed

LEMMA CreateRecorded ==
  ASSUME RecordInv, PayInv', NEW c, NEW m, NEW t, NEW x, NEW wait, NEW life, NEW splits,
         NEW cooling, NEW tipping,
         CreatePayment(c, m, t, x, wait, life, splits, cooling, tipping),
         dispute' = dispute
  PROVE  Recorded
<1>. DEFINE r == [Plain(c, m, t, x) EXCEPT
       !.status = IF wait > now THEN "ScheduledPending" ELSE "Pending",
       !.expiresAt = now + (IF life = 0 THEN cfg.timeout ELSE life),
       !.executeAfter = wait, !.splits = splits, !.coolingOff = cooling,
       !.tipping = tipping]
<1>1. Numbered(r)
  BY PlainNumbered DEF Numbered, Fields, PaymentStatus, Escrowed, Contested, Closed
<1>2. NewPayment(r, t, x) /\ queue' = queue /\ Clocked
  BY DEF CreatePayment, clockVars, payoutVars, Clocked
<1>. HIDE DEF r
<1>. QED
  BY <1>1, <1>2, MadeRecorded DEF NewPayment, Take

LEMMA AuthorizeRecorded ==
  ASSUME RecordInv, PayInv', NEW c, NEW m, NEW t, NEW x, NEW d,
         AuthorizePayment(c, m, t, x, d), dispute' = dispute
  PROVE  Recorded
<1>. DEFINE r == [Plain(c, m, t, x) EXCEPT !.status = "Authorized", !.expiresAt = 0,
                                           !.captureDeadline = d]
<1>1. Numbered(r)
  BY PlainNumbered DEF Numbered, Fields, PaymentStatus, Escrowed, Contested, Closed
<1>2. NewPayment(r, t, x) /\ queue' = queue /\ Clocked
  BY DEF AuthorizePayment, clockVars, payoutVars, Clocked
<1>. HIDE DEF r
<1>. QED
  BY <1>1, <1>2, MadeRecorded DEF NewPayment, Take

LEMMA VoucherRecorded ==
  ASSUME RecordInv, PayInv', NEW c, NEW m, NEW t, NEW x, NEW code,
         CreatePaymentWithVoucher(c, m, t, x, code)
  PROVE  Recorded
<1>1. PICK net, s : /\ NewPayment([Plain(c, m, t, net) EXCEPT !.status = s], t, net)
                    /\ s \in {"PendingApproval", "Pending"}
  BY DEF CreatePaymentWithVoucher
<1>. DEFINE r == [Plain(c, m, t, net) EXCEPT !.status = s]
<1>2. Numbered(r)
  BY <1>1, PlainNumbered DEF Numbered, Fields, PaymentStatus, Escrowed, Contested, Closed
<1>3. dispute' = dispute /\ queue' = queue /\ Clocked
  BY DEF CreatePaymentWithVoucher, disputeVars, caseVars, clockVars, payoutVars, Clocked
<1>. HIDE DEF r
<1>4. NewPayment(r, t, net)
  BY <1>1 DEF r
<1>. QED
  BY <1>2, <1>3, <1>4, MadeRecorded DEF NewPayment, Take

LEMMA OracleRecorded ==
  ASSUME RecordInv, PayInv', NEW c, NEW m, NEW t, NEW x, NEW price,
         CreatePaymentMultiToken(c, m, t, x, price), dispute' = dispute
  PROVE  Recorded
<1>1. queue' = queue /\ Clocked
  BY DEF CreatePaymentMultiToken, clockVars, payoutVars, Clocked
<1>2. CASE t = Usdc
  <2>1. NewPayment(Plain(c, m, Usdc, x), Usdc, x)
    BY <1>2 DEF CreatePaymentMultiToken
  <2>. QED
    BY <1>1, <2>1, PlainNumbered, MadeRecorded DEF NewPayment, Take
<1>3. CASE t # Usdc
  <2>. DEFINE r == [Plain(c, m, Usdc, x) EXCEPT !.rate = price]
  <2>1. Numbered(r)
    BY PlainNumbered DEF Numbered, Fields, PaymentStatus, Escrowed, Contested, Closed
  <2>2. counter < MaxPayments /\ pay' = [pay EXCEPT ![counter] = r] /\ purse' = purse
    BY <1>3 DEF CreatePaymentMultiToken
  <2>. HIDE DEF r
  <2>3. PICK y : purse' = [purse EXCEPT ![counter] = y]
    BY <2>2 DEF RecordInv
  <2>. QED
    BY <1>1, <2>1, <2>2, <2>3, MadeRecorded
<1>. QED
  BY <1>2, <1>3

LEMMA BatchRecorded ==
  ASSUME RecordInv, PayInv', NEW c, NEW m, NEW t, NEW x,
         CreatePaymentsBatch(c, m, t, <<x, x>>), dispute' = dispute
  PROVE  Recorded
<1>. DEFINE made == counter .. counter + 1
            y(p) == <<x, x>>[p - counter + 1]
<1>1. /\ pay' = [p \in Ids |-> IF p \in made THEN Plain(c, m, t, y(p)) ELSE pay[p]]
      /\ purse' = [p \in Ids |-> IF p \in made THEN y(p) ELSE purse[p]]
      /\ queue' = queue /\ Clocked
  <2>1. Len(<<x, x>>) = 2 /\ counter + 2 - 1 = counter + 1
    BY DEF RecordInv, PayInv
  <2>. HIDE DEF PayInv
  <2>. QED
    BY <2>1 DEF CreatePaymentsBatch, clockVars, payoutVars, Clocked
<1>2. ASSUME NEW p \in Ids, p \in made  PROVE Numbered(pay'[p]) /\ Effect(p)
  <2>1. Numbered(pay'[p])
    BY <1>1, <1>2, PlainNumbered
  <2>2. pay[p].status = "None"
    BY <1>2 DEF RecordInv, PayInv, Ids
  <2>. QED
    BY <2>1, <2>2 DEF Effect
<1>3. \A p \in Ids : p \notin made => pay'[p] = pay[p] /\ purse'[p] = purse[p]
  BY <1>1
<1>4. purse' = [p \in Ids |-> purse'[p]]
  BY <1>1
<1>5. /\ dispute' = [p \in Ids |-> dispute'[p]]
      /\ \A p \in Ids : "resolved" \in DOMAIN dispute'[p]
  BY DEF RecordInv
<1>. HIDE DEF made
<1>. QED
  BY <1>1, <1>2, <1>3, <1>4, <1>5, SomeRecorded DEF Queued

-----------------------------------------------------------------------------
(* Payments that move.                                                      *)

(* An escrowed payment moves.                                               *)
Escapes(p) ==
  /\ p \in Ids /\ pay[p].status \in Escrowed
  /\ pay' = [pay EXCEPT ![p] = pay'[p]] /\ purse' = [purse EXCEPT ![p] = purse'[p]]
  /\ Numbered(pay'[p])

LEMMA EscapesRecorded ==
  ASSUME RecordInv, PayInv', NEW p \in Ids, Escapes(p), dispute' = dispute, Queued, Clocked
  PROVE  Recorded
  BY OneRecorded, Undisputed DEF One, Escapes, Effect

LEMMA FinalizeRecorded ==
  ASSUME RecordInv, PayInv', NEW p \in Ids, FinalizePayment(p), pay[p].status \in Escrowed,
         dispute' = dispute
  PROVE  Recorded
<1>1. PICK until, net :
        /\ pay' = [pay EXCEPT ![p] = [pay[p] EXCEPT
             !.status = IF pay[p].coolingOff > 0 THEN "CoolingOff" ELSE "Completed",
             !.coolingUntil = until, !.amount = net, !.settled = TRUE]]
        /\ queue' = [queue EXCEPT ![pay[p].merchant] = Append(@, <<p, net>>)]
  BY DEF FinalizePayment
<1>2. /\ pay'[p].status \in Ended /\ pay'[p].merchant = pay[p].merchant
      /\ pay'[p].amount = net /\ Fields(pay'[p])
  BY <1>1 DEF RecordInv, Numbered, PayInv, Fields, Ended, Closed
<1>3. Queued
  BY <1>1, <1>2 DEF Queued, Enqueues
<1>4. PICK x : purse' = [purse EXCEPT ![p] = x]
  BY DEF FinalizePayment, PayOut
<1>5. Escapes(p)
  <2>1. Numbered(pay'[p])
    BY <1>2 DEF Numbered, Ended, PaymentStatus, Escrowed, Contested, Closed
  <2>2. pay' = [pay EXCEPT ![p] = pay'[p]]
    BY <1>1 DEF RecordInv, PayInv
  <2>3. purse' = [purse EXCEPT ![p] = purse'[p]]
    BY <1>4 DEF RecordInv
  <2>. QED
    BY <2>1, <2>2, <2>3 DEF Escapes
<1>6. Clocked
  BY DEF FinalizePayment, clockVars, Clocked
<1>. QED
  BY <1>3, <1>5, <1>6, EscapesRecorded

LEMMA CompletionRecorded ==
  ASSUME RecordInv, PayInv', NEW p \in Ids, NEW r, NEW x, dispute' = dispute,
         \/ CompletePayment(p, r) \/ CompletePaymentWithTip(p, r, x)
         \/ ExecuteScheduledPayment(p) \/ CapturePayment(p)
  PROVE  Recorded
<1>1. FinalizePayment(p) /\ pay[p].status \in Escrowed
  BY DEF CompletePayment, CompletePaymentWithTip, ExecuteScheduledPayment, CapturePayment,
         CompleteInternal, In, Escrowed
<1>. QED
  BY <1>1, FinalizeRecorded

(* The tokens and the status.                                               *)
LEMMA OnlyPaymentsLeaves ==
  ASSUME OnlyPayments
  PROVE  queue' = queue /\ Queued /\ Clocked
  BY DEF OnlyPayments, payoutVars, clockVars, Queued, Clocked

LEMMA FinishEscapes ==
  ASSUME RecordInv, NEW p \in Ids, pay[p].status \in Escrowed, NEW s, Finish(p, s),
         s \in Escrowed \cup Contested \cup Closed,
         purse' = purse \/ \E x : Give(p, x)
  PROVE  Escapes(p)
<1>1. purse' = [purse EXCEPT ![p] = purse'[p]]
  BY DEF Give, RecordInv
<1>2. /\ pay' = [pay EXCEPT ![p] = pay'[p]] /\ Fields(pay'[p])
      /\ pay'[p].refunded = pay[p].refunded /\ pay'[p].status = s
  BY DEF Finish, RecordInv, Numbered, PayInv, Fields
<1>. QED
  BY <1>1, <1>2
  DEF Escapes, Numbered, RecordInv, PaymentStatus, Escrowed, Contested, Closed

LEMMA GivenBackRecorded ==
  ASSUME RecordInv, PayInv', NEW p \in Ids, NEW d, NEW x, dispute' = dispute,
         \/ CancelScheduledPayment(p) \/ VoidAuthorization(p) \/ ExpirePayment(p)
         \/ ExtendPaymentExpiry(p, d) \/ RedeemPoints(p, x)
  PROVE  Recorded
<1>1. OnlyPayments
  BY DEF CancelScheduledPayment, VoidAuthorization, ExpirePayment, ExtendPaymentExpiry,
         RedeemPoints
<1>2. Escapes(p)
  <2>1. CASE CancelScheduledPayment(p) \/ VoidAuthorization(p) \/ ExpirePayment(p)
    BY <2>1, FinishEscapes DEF CancelScheduledPayment, VoidAuthorization, ExpirePayment,
       In, Escrowed, Closed
  <2>2. CASE ExtendPaymentExpiry(p, d) \/ RedeemPoints(p, x)
    <3>1. purse' = purse /\ pay[p].status \in Escrowed
      BY <2>2 DEF ExtendPaymentExpiry, RedeemPoints, In, tokenVars, Escrowed
    <3>2. /\ pay' = [pay EXCEPT ![p] = pay'[p]] /\ Fields(pay'[p])
          /\ pay'[p].refunded = pay[p].refunded /\ pay'[p].status = pay[p].status
      <4>1. CASE ExtendPaymentExpiry(p, d)
        BY <4>1 DEF ExtendPaymentExpiry, RecordInv, Numbered, PayInv, Fields
      <4>2. CASE RedeemPoints(p, x)
        <5>1. PICK net : pay' = [pay EXCEPT ![p].amount = net]
          BY <4>2 DEF RedeemPoints
        <5>. QED
          BY <5>1 DEF RecordInv, Numbered, PayInv, Fields
      <4>. QED
        BY <2>2, <4>1, <4>2
    <3>. QED
      BY <3>1, <3>2
      DEF Escapes, Numbered, RecordInv, PaymentStatus, Escrowed, Contested, Closed
  <2>. QED
    BY <2>1, <2>2
<1>. QED
  BY <1>1, <1>2, OnlyPaymentsLeaves, EscapesRecorded

(* partial_refund: of a dispute too.                                        *)
LEMMA PartialRefundRecorded ==
  ASSUME RecordInv, PayInv', NEW p \in Ids, NEW x \in Int, PartialRefund(p, x),
         dispute' = dispute
  PROVE  Recorded
<1>1. /\ pay[p].status \in {"Pending", "Disputed"} /\ x > 0
      /\ purse' = [purse EXCEPT ![p] = @ - x] /\ OnlyPayments
  BY DEF PartialRefund, In, Give
<1>2. PICK s \in {"Refunded", pay[p].status} :
        pay' = [pay EXCEPT ![p] = [pay[p] EXCEPT !.refunded = pay[p].refunded + x, !.status = s]]
  BY DEF PartialRefund, RecordInv, Numbered, PayInv, Fields
<1>3. pay[p].refunded \in Int
  BY <1>1 DEF RecordInv, Numbered, Escrowed, Contested
<1>4. /\ pay' = [pay EXCEPT ![p] = pay'[p]] /\ Fields(pay'[p])
      /\ pay'[p].status = s /\ pay'[p].refunded = pay[p].refunded + x
  BY <1>2 DEF RecordInv, Numbered, PayInv, Fields
<1>5. Numbered(pay'[p]) /\ RefundedMore(p)
  BY <1>1, <1>3, <1>4
  DEF Numbered, RefundedMore, PaymentStatus, Escrowed, Contested, Closed
<1>6. Effect(p)
  BY <1>1, <1>2, <1>4, <1>5 DEF Effect, UnderDispute, Escrowed, Contested
<1>7. One(p)
  BY <1>1, <1>4, <1>5, <1>6, Undisputed DEF One, RecordInv
<1>. QED
  BY <1>1, <1>7, OnlyPaymentsLeaves, OneRecorded

(* bulk_expire_payments: what is due, disputes at their expiry among it.    *)
LEMMA BulkRecorded ==
  ASSUME RecordInv, PayInv', NEW ps \in SUBSET Ids, BulkExpirePayments(ps),
         dispute' = dispute
  PROVE  Recorded
<1>. DEFINE due == {p \in ps : BulkDue(p)}
<1>1. /\ purse' = [p \in Ids |-> IF p \in due THEN purse[p] - Owed(p) ELSE purse[p]]
      /\ pay' = [p \in Ids |-> IF p \in due THEN [pay[p] EXCEPT !.status = "Expired"] ELSE pay[p]]
      /\ OnlyPayments
  BY DEF BulkExpirePayments
<1>2. \A p \in Ids : p \notin due => pay'[p] = pay[p] /\ purse'[p] = purse[p]
  BY <1>1
<1>3. \A p \in Ids : p \in due => pay[p].status \in Escrowed \cup {"Disputed"}
  BY DEF BulkDue, PastDeadline, Escrowed
<1>4. ASSUME NEW p \in Ids, p \in due  PROVE Numbered(pay'[p]) /\ Effect(p)
  <2>1. pay'[p] = [pay[p] EXCEPT !.status = "Expired"]
    BY <1>1, <1>4
  <2>2. pay'[p].status = "Expired" /\ Fields(pay'[p])
    BY <2>1 DEF RecordInv, Numbered, Fields
  <2>. QED
    BY <1>3, <1>4, <2>2
    DEF Numbered, Effect, UnderDispute, PaymentStatus, Escrowed, Contested, Closed
<1>5. /\ purse' = [p \in Ids |-> purse'[p]] /\ dispute' = [p \in Ids |-> dispute'[p]]
      /\ \A p \in Ids : "resolved" \in DOMAIN dispute'[p]
  BY <1>1 DEF RecordInv
<1>. HIDE DEF due
<1>. QED
  BY <1>1, <1>2, <1>4, <1>5, OnlyPaymentsLeaves, SomeRecorded

(* settle_merchant_payments: what has ended is marked.                      *)
LEMMA SettlementRecorded ==
  ASSUME RecordInv, PayInv', NEW m, NEW ps, SettleMerchantPayments(m, ps)
  PROVE  Recorded
<1>. DEFINE times(p) == Cardinality({i \in DOMAIN ps : ps[i] = p})
            listed == {p \in Ids : times(p) > 0}
<1>1. /\ pay' = [p \in Ids |-> IF times(p) > 0 THEN [pay[p] EXCEPT !.settled = TRUE] ELSE pay[p]]
      /\ purse' = [p \in Ids |-> IF times(p) > 0 THEN purse[p] - times(p) * pay[p].amount
                                 ELSE purse[p]]
      /\ \A i \in DOMAIN ps : pay[ps[i]].status = "Completed"
      /\ dispute' = dispute /\ OnlyPayments
  BY DEF SettleMerchantPayments, caseVars
<1>2. \A p \in Ids : times(p) > 0 => \E i \in DOMAIN ps : ps[i] = p
  <2>. SUFFICES ASSUME NEW p \in Ids, ~ \E i \in DOMAIN ps : ps[i] = p  PROVE ~(times(p) > 0)
    OBVIOUS
  <2>1. {i \in DOMAIN ps : ps[i] = p} = {}
    OBVIOUS
  <2>. QED
    BY <2>1, FS_EmptySet
<1>. HIDE DEF times
<1>3. \A p \in Ids : p \notin listed => pay'[p] = pay[p] /\ purse'[p] = purse[p]
  BY <1>1
<1>4. ASSUME NEW p \in Ids, p \in listed  PROVE Numbered(pay'[p]) /\ Effect(p)
  <2>1. pay'[p] = [pay[p] EXCEPT !.settled = TRUE] /\ pay[p].status = "Completed"
    BY <1>1, <1>2, <1>4
  <2>2. /\ pay'[p].status = pay[p].status /\ pay'[p].merchant = pay[p].merchant
        /\ pay'[p].amount = pay[p].amount /\ Fields(pay'[p])
    BY <2>1 DEF RecordInv, Numbered, Fields
  <2>. QED
    BY <2>1, <2>2 DEF Numbered, Effect, Ended, PaymentStatus, Escrowed, Contested, Closed
<1>5. /\ purse' = [p \in Ids |-> purse'[p]] /\ dispute' = [p \in Ids |-> dispute'[p]]
      /\ \A p \in Ids : "resolved" \in DOMAIN dispute'[p]
  BY <1>1 DEF RecordInv
<1>. HIDE DEF listed
<1>. QED
  BY <1>1, <1>3, <1>4, <1>5, OnlyPaymentsLeaves, SomeRecorded

LEMMA CoolingRecorded ==
  ASSUME RecordInv, PayInv', NEW p \in Ids, CancelDuringCoolingOff(p)
  PROVE  Recorded
<1>1. PICK x : pay' = [pay EXCEPT ![p] = [pay[p] EXCEPT !.status = "CancelledInCoolingOff",
                                                        !.refunded = x]]
  BY DEF CancelDuringCoolingOff, RecordInv, PayInv
<1>2. PICK y : purse' = [purse EXCEPT ![p] = y]
  BY DEF CancelDuringCoolingOff, Give
<1>3. /\ pay' = [pay EXCEPT ![p] = pay'[p]] /\ Fields(pay'[p])
      /\ pay'[p].status = "CancelledInCoolingOff"
      /\ pay'[p].merchant = pay[p].merchant /\ pay'[p].amount = pay[p].amount
  BY <1>1 DEF RecordInv, Numbered, PayInv, Fields
<1>4. dispute' = dispute /\ pay[p].status = "CoolingOff" /\ OnlyPayments
  BY DEF CancelDuringCoolingOff, disputeVars, caseVars, In
<1>5. Numbered(pay'[p]) /\ Effect(p)
  BY <1>3, <1>4 DEF Numbered, Effect, Ended, PaymentStatus, Escrowed, Contested, Closed
<1>. QED
  BY <1>2, <1>3, <1>4, <1>5, Undisputed, OnlyPaymentsLeaves, OneRecorded DEF One, RecordInv

-----------------------------------------------------------------------------
(* Disputes.                                                                *)

(* What a ruling does to the record of the payment and its tokens.          *)
LEMMA RulingMoves ==
  ASSUME RecordInv, NEW p \in Ids,
         \/ Released(p) /\ purse' = purse
         \/ Finish(p, "Refunded") /\ Give(p, Owed(p))
  PROVE  /\ pay' = [pay EXCEPT ![p] = pay'[p]] /\ purse' = [purse EXCEPT ![p] = purse'[p]]
         /\ Numbered(pay'[p]) /\ pay'[p].status \in {"Completed", "Refunded"}
         /\ pay'[p].merchant = pay[p].merchant /\ pay'[p].amount = pay[p].amount
<1>1. purse' = [purse EXCEPT ![p] = purse'[p]]
  BY DEF Give, RecordInv
<1>2. /\ pay' = [pay EXCEPT ![p] = pay'[p]] /\ Fields(pay'[p])
      /\ pay'[p].status \in {"Completed", "Refunded"}
      /\ pay'[p].merchant = pay[p].merchant /\ pay'[p].amount = pay[p].amount
  BY DEF Released, Finish, RecordInv, Numbered, PayInv, Fields
<1>. QED
  BY <1>1, <1>2 DEF Numbered, PaymentStatus, Escrowed, Contested, Closed

LEMMA ResolveRecorded ==
  ASSUME RecordInv, PayInv', NEW p \in Ids, NEW b, ResolveDispute(p, b)
  PROVE  Recorded
<1>1. /\ pay' = [pay EXCEPT ![p] = pay'[p]] /\ purse' = [purse EXCEPT ![p] = purse'[p]]
      /\ Numbered(pay'[p]) /\ pay'[p].status \in {"Completed", "Refunded"}
  BY RulingMoves DEF ResolveDispute, tokenVars
<1>2. /\ dispute' = [dispute EXCEPT ![p] = dispute'[p]]
      /\ "resolved" \in DOMAIN dispute'[p] /\ Ruled(p)
  BY DEF ResolveDispute, RecordInv, Ruled
<1>3. pay[p].status \in Contested /\ queue' = queue /\ Clocked
  BY DEF ResolveDispute, In, payoutVars, clockVars, Clocked
<1>4. Effect(p)
  BY <1>1, <1>2, <1>3 DEF Effect, UnderDispute, Closed
<1>. QED
  BY <1>1, <1>2, <1>3, <1>4, OneRecorded DEF One, Queued

LEMMA VerdictRecorded ==
  ASSUME RecordInv, PayInv', NEW k \in DOMAIN cases, ExecuteDaoVerdict(k)
  PROVE  Recorded
<1>. DEFINE p == cases[k].payment
<1>1. p \in Ids /\ pay[p].status # "None"
  BY DEF RecordInv, PayInv
<1>2. /\ pay' = [pay EXCEPT ![p] = pay'[p]] /\ purse' = [purse EXCEPT ![p] = purse'[p]]
      /\ Numbered(pay'[p]) /\ pay'[p].status \in {"Completed", "Refunded"}
      /\ pay'[p].merchant = pay[p].merchant /\ pay'[p].amount = pay[p].amount
  BY <1>1, RulingMoves DEF ExecuteDaoVerdict, tokenVars
<1>3. dispute' = [dispute EXCEPT ![p] = NoDispute] /\ OnlyPayments
  BY DEF ExecuteDaoVerdict
<1>. HIDE DEF p
<1>4. /\ dispute' = [dispute EXCEPT ![p] = dispute'[p]]
      /\ "resolved" \in DOMAIN dispute'[p] /\ Ruled(p)
  BY <1>1, <1>3 DEF RecordInv, Ruled, NoDispute
<1>5. Effect(p)
  BY <1>1, <1>2, <1>4
  DEF Effect, UnderDispute, Ended, RecordInv, Numbered, PaymentStatus, Escrowed, Contested, Closed
<1>. QED
  BY <1>1, <1>2, <1>3, <1>4, <1>5, OnlyPaymentsLeaves, OneRecorded DEF One

LEMMA DisputeRecorded ==
  ASSUME RecordInv, PayInv', DisputeNext
  PROVE  Recorded
<1>1. ASSUME NEW p \in Ids, DisputePayment(p)  PROVE Recorded
  <2>1. pay[p].status \in Escrowed /\ purse' = purse /\ Finish(p, "Disputed") /\ OnlyPayments
    BY <1>1 DEF DisputePayment, In, Escrowed, tokenVars
  <2>2. pay' = [pay EXCEPT ![p] = pay'[p]] /\ purse' = [purse EXCEPT ![p] = purse'[p]]
        /\ Numbered(pay'[p])
    BY <2>1, FinishEscapes DEF Escapes, Contested
  <2>3. /\ dispute' = [dispute EXCEPT ![p] = dispute'[p]]
        /\ "resolved" \in DOMAIN dispute'[p]
    BY <1>1 DEF DisputePayment, RecordInv
  <2>. QED
    BY <2>1, <2>2, <2>3, OnlyPaymentsLeaves, OneRecorded DEF One, Effect
<1>2. ASSUME NEW p \in Ids, CheckEscalation(p)  PROVE Recorded
  <2>1. /\ pay[p].status = "Disputed" /\ purse' = purse /\ dispute' = dispute
        /\ OnlyPayments /\ Finish(p, "EscalatedDispute")
    BY <1>2 DEF CheckEscalation, tokenVars, disputeVars, caseVars
  <2>2. /\ pay' = [pay EXCEPT ![p] = pay'[p]] /\ Fields(pay'[p])
        /\ pay'[p].refunded = pay[p].refunded /\ pay'[p].status = "EscalatedDispute"
    BY <2>1 DEF Finish, RecordInv, Numbered, PayInv, Fields
  <2>3. Numbered(pay'[p]) /\ Effect(p)
    BY <2>1, <2>2 DEF RecordInv, Numbered, Effect, UnderDispute, PaymentStatus, Contested
  <2>. QED
    BY <2>1, <2>2, <2>3, Undisputed, OnlyPaymentsLeaves, OneRecorded DEF One, RecordInv
<1>3. CASE EvidenceNext
  <2>1. ASSUME NEW p \in Ids, NEW s, SubmitDisputeEvidence(p, s) \/ CloseEvidenceWindow(p)
        PROVE  Recorded
    BY <2>1, NoneRecorded DEF SubmitDisputeEvidence, CloseEvidenceWindow, baseVars,
       paymentVars, tokenVars, payoutVars, clockVars, Queued, Clocked
  <2>. QED
    BY <1>3, <2>1, ResolveRecorded DEF EvidenceNext, ResolveDisputeWithEvidence
<1>4. CASE DaoNext
  <2>1. ASSUME NEW p \in Ids, EscalateToDao(p)  PROVE Recorded
    BY <2>1, NoneRecorded DEF EscalateToDao, baseVars, paymentVars, tokenVars, payoutVars,
       clockVars, Queued, Clocked
  <2>2. ASSUME NEW k, NEW v, NEW b, DaoVote(k, v, b)  PROVE Recorded
    <3>1. UNCHANGED <<baseVars, dispute>>
      BY <2>2 DEF DaoVote
    <3>. QED
      BY <3>1, NoneRecorded DEF baseVars, paymentVars, tokenVars, payoutVars, clockVars,
         Queued, Clocked
  <2>. QED
    BY <1>4, <2>1, <2>2, VerdictRecorded DEF DaoNext
<1>. QED
  BY <1>1, <1>2, <1>3, <1>4, ResolveRecorded, CoolingRecorded, SettlementRecorded
  DEF DisputeNext, Disputing, Resolution, CoolingNext, SettlementNext

LEMMA LifecycleRecorded ==
  ASSUME RecordInv, PayInv', LifecycleNext, dispute' = dispute
  PROVE  Recorded
<1>1. CASE PlainCreation
  BY <1>1, CreateRecorded, BatchRecorded DEF PlainCreation
<1>2. CASE ScheduledCreation
  BY <1>2, CreateRecorded DEF ScheduledCreation
<1>3. CASE OwnTermsCreation
  BY <1>3, CreateRecorded DEF OwnTermsCreation
<1>4. CASE CoolingCreation
  BY <1>4, CreateRecorded DEF CoolingCreation
<1>5. CASE OracleCreation
  BY <1>5, OracleRecorded DEF OracleCreation
<1>6. CASE Authorization
  BY <1>6, AuthorizeRecorded DEF Authorization
<1>7. CASE Completion
  BY <1>7, CompletionRecorded DEF Completion
<1>8. CASE ScheduleEnd
  BY <1>8, CompletionRecorded, GivenBackRecorded DEF ScheduleEnd
<1>9. CASE AuthorizationEnd
  BY <1>9, CompletionRecorded, GivenBackRecorded DEF AuthorizationEnd
<1>10. CASE Expiry
  BY <1>10, GivenBackRecorded, BulkRecorded DEF Expiry
<1>11. CASE Extension
  BY <1>11, GivenBackRecorded DEF Extension
<1>12. CASE Refunding
  BY <1>12, PartialRefundRecorded, InputsAssumption DEF Refunding
<1>13. CASE Redemption
  BY <1>13, GivenBackRecorded DEF Redemption
<1>. QED
  BY <1>1, <1>2, <1>3, <1>4, <1>5, <1>6, <1>7, <1>8, <1>9, <1>10, <1>11, <1>12, <1>13
  DEF LifecycleNext

-----------------------------------------------------------------------------
(* The merchants' side.                                                     *)

Unmoved ==
  pay' = pay /\ purse' = purse /\ dispute' = dispute /\ queue' = queue /\ now' = now

LEMMA UnmovedRecorded ==
  ASSUME RecordInv, PayInv', Unmoved
  PROVE  Recorded
  BY NoneRecorded DEF Unmoved, Queued, Clocked

LEMMA StandingUnmoved == StandingNext => Unmoved
  BY DEF StandingNext, ApproveMerchant, RevokeMerchant, BanMerchant, ReinstateMerchant,
     SuspendMerchant, SubmitAppeal, ApproveAppeal, RejectAppeal, CompleteReinstatement,
     KeepStanding, KeepPay, paymentVars, tokenVars, payoutVars, clockVars, disputeVars,
     caseVars, Unmoved

LEMMA GateUnmoved == GateNext => Unmoved
  BY DEF GateNext, BlockCustomer, UnblockCustomer, RequestUnblock, ResolveUnblockRequest,
     SetMerchantKyb, RevokeMerchantKyb, KeepGates, KeepPay, paymentVars, tokenVars,
     payoutVars, clockVars, disputeVars, caseVars, Unmoved

LEMMA CollateralUnmoved == CollateralNext => Unmoved
  BY DEF CollateralNext, DepositCollateral, WithdrawCollateral, MoveCollateral, KeepAll,
     payoutVars, clockVars, disputeVars, caseVars, Unmoved

LEMMA IssuedUnmoved == VoucherNext => Unmoved
  BY DEF VoucherNext, IssueVoucher, RevokeVoucher, KeepPay, paymentVars, tokenVars,
     payoutVars, clockVars, disputeVars, caseVars, Unmoved

LEMMA LimitUnmoved == LimitNext => Unmoved
  BY DEF LimitNext, SetMerchantVolumeCap, SetWithdrawalWindow, SetWithdrawalLimit,
     OverrideWithdrawalLimit, SetLimits, KeepAll, baseVars, paymentVars, tokenVars,
     payoutVars, clockVars, disputeVars, caseVars, Unmoved

LEMMA SpendLimitUnmoved == SpendLimitNext => Unmoved
  BY DEF SpendLimitNext, SetCustomerSpendLimit, RemoveCustomerSpendLimit,
     SetDefaultSpendLimit, SetBuyerTier, SetTierSpendingLimit, SetSpendLimits, KeepAll,
     KeepPay, paymentVars, tokenVars, payoutVars, clockVars, disputeVars, caseVars, Unmoved

LEMMA SettingsUnmoved == SettingsNext => Unmoved
<1>1. ASSUME NEW c, SetCfg(c)  PROVE Unmoved
  BY <1>1 DEF SetCfg, KeepAll, paymentVars, tokenVars, payoutVars, disputeVars, caseVars,
     Unmoved
<1>. QED
  BY <1>1 DEF SettingsNext, UpdateFee, UpdateFeeTiers, SetDisputeTimeout, SetPaymentTimeout,
     SetPaymentExpiryBounds, UpdateExtensionConfig, UpdateRateLimitConfig,
     SetMerchantOpenMode, SetMinCollateral, SetKybEnforcement, SetAppealRejectionCooldown,
     SetMaxCoolingOffLedgers, SetEvidenceWindowLedgers, SetMaxEvidenceSubmissions,
     ConfigureLoyalty, SetReferralConfig, SetMaxBatchSize, SetMaxTipBps, ConfigureDao

LEMMA OtherUnmoved == PreferenceNext \/ ReferralNext \/ PauseNext => Unmoved
  BY DEF PreferenceNext, SetPreferredToken, ReferralNext, RegisterReferral,
     ClaimReferralCommission, PauseNext, PauseContract, ResumeContract, SetPaused, KeepAll,
     paymentVars, tokenVars, payoutVars, clockVars, disputeVars, caseVars, Unmoved

(* The queue is worked off or put in another order.                         *)
LEMMA QueueRecorded ==
  ASSUME RecordInv, PayInv', QueueNext
  PROVE  Recorded
<1>1. ASSUME NEW m \in Merchants, NEW q, SetQueue(m, q)
      PROVE  /\ pay' = pay /\ purse' = purse /\ dispute' = dispute /\ Clocked
             /\ queue' = [queue EXCEPT ![m] = q]
  BY <1>1 DEF SetQueue, KeepAll, paymentVars, tokenVars, clockVars, disputeVars, caseVars,
     Clocked
<1>2. ASSUME NEW m \in Merchants, NEW q, SetQueue(m, q), Redrawn(queue[m], q)
      PROVE  Recorded
  BY <1>1, <1>2, NoneRecorded DEF Queued, Redraws
<1>3. ASSUME NEW m \in Merchants, NEW n \in 1 .. MaxBatch, ProcessWithdrawalQueue(m, n)
      PROVE  Recorded
  BY <1>2, <1>3 DEF ProcessWithdrawalQueue, Redrawn
<1>4. ASSUME NEW m \in Merchants, NEW p, PrioritizeWithdrawal(m, p)
      PROVE  Recorded
  <2>1. PICK i \in DOMAIN queue[m] : SetQueue(m, <<queue[m][i]>> \o RemoveAt(queue[m], i))
    BY <1>4 DEF PrioritizeWithdrawal
  <2>. DEFINE q == <<queue[m][i]>> \o RemoveAt(queue[m], i)
  <2>2. Redrawn(queue[m], q)
    BY DEF Redrawn
  <2>. HIDE DEF q
  <2>. QED
    BY <1>2, <2>1, <2>2 DEF q
<1>. QED
  BY <1>3, <1>4 DEF QueueNext

LEMMA MultisigRecorded ==
  ASSUME RecordInv, PayInv', MultisigNext
  PROVE  Recorded
<1>1. ASSUME NEW m, NEW s, NEW k, NEW x, NEW d, SetMultisigPolicy(m, s, k, x, d)
      PROVE  Recorded
  BY <1>1, UnmovedRecorded DEF SetMultisigPolicy, KeepPay, paymentVars, tokenVars,
     payoutVars, clockVars, disputeVars, caseVars, Unmoved
<1>2. ASSUME NEW p \in Ids, In(p, {"PendingApproval"}), KeepApproval,
             \/ Finish(p, "Refunded") /\ Give(p, pay[p].amount)
             \/ Finish(p, "Pending") /\ purse' = purse
             \/ pay' = pay /\ purse' = purse
      PROVE  Recorded
  <2>1. dispute' = dispute /\ OnlyPayments /\ pay[p].status \in Escrowed
    BY <1>2 DEF KeepApproval, disputeVars, caseVars, In, Escrowed
  <2>2. CASE pay' = pay /\ purse' = purse
    BY <2>1, <2>2, OnlyPaymentsLeaves, NoneRecorded
  <2>3. CASE ~(pay' = pay /\ purse' = purse)
    <3>1. Escapes(p)
      BY <1>2, <2>1, <2>3, FinishEscapes DEF Escrowed, Closed
    <3>. QED
      BY <2>1, <3>1, OnlyPaymentsLeaves, EscapesRecorded
  <2>. QED
    BY <2>2, <2>3
<1>3. ASSUME NEW p \in Ids, NEW s, ApprovePayment(p, s) \/ ExpirePendingApproval(p)
      PROVE  Recorded
  BY <1>2, <1>3 DEF ApprovePayment, ExpirePendingApproval, RefundUnapproved, tokenVars
<1>. QED
  BY <1>1, <1>3 DEF MultisigNext

LEMMA MerchantRecorded ==
  ASSUME RecordInv, PayInv', MerchantNext
  PROVE  Recorded
<1>1. CASE Unmoved
  BY <1>1, UnmovedRecorded
<1>2. CASE VoucherCreation
  BY <1>2, VoucherRecorded DEF VoucherCreation
<1>. QED
  BY <1>1, <1>2, StandingUnmoved, GateUnmoved, CollateralUnmoved, IssuedUnmoved,
     LimitUnmoved, SpendLimitUnmoved, SettingsUnmoved, OtherUnmoved, QueueRecorded,
     MultisigRecorded
  DEF MerchantNext

LEMMA RecurringRecorded ==
  ASSUME RecordInv, PayInv', RecurringNext
  PROVE  Recorded
<1>1. CASE OnlyRecurring
  BY <1>1, UnmovedRecorded DEF OnlyRecurring, baseVars, paymentVars, tokenVars, payoutVars,
     clockVars, disputeVars, caseVars, Unmoved
<1>2. ASSUME NEW i, NEW t, TriggerInvoiceCycle(i, t)  PROVE Recorded
  <2>1. /\ CreatePayment(invoices[i].customer, invoices[i].merchant, t, invoices[i].amount,
                         0, 0, <<>>, 0, FALSE)
        /\ dispute' = dispute
    BY <1>2 DEF TriggerInvoiceCycle, disputeVars, caseVars
  <2>. QED
    BY <2>1, CreateRecorded
<1>. QED
  BY <1>1, <1>2, RecurringKinds

-----------------------------------------------------------------------------
(* Every step.                                                              *)

LEMMA InitRecordInv == Init => RecordInv
<1>. SUFFICES ASSUME Init PROVE RecordInv
  OBVIOUS
<1>1. \A p \in Ids : Numbered(pay[p]) /\ "resolved" \in DOMAIN dispute[p]
  BY DEF Init, BaseInit, DisputesInit, NoPayment, NoDispute, Numbered, Fields, PaymentStatus
<1>2. purse = [p \in Ids |-> purse[p]] /\ dispute = [p \in Ids |-> dispute[p]]
  BY DEF Init, BaseInit, DisputesInit
<1>. QED
  BY <1>1, <1>2, InitPayInv DEF RecordInv

LEMMA StepRecorded ==
  ASSUME RecordInv, [Next]_vars
  PROVE  Recorded
<1>1. PayInv'
  BY StepLawful DEF Lawful, RecordInv
<1>2. CASE /\ Tick \/ LifecycleNext
           /\ UNCHANGED <<disputeVars, shopVars, recurringVars>>
  <2>1. dispute' = dispute
    BY <1>2 DEF disputeVars, caseVars
  <2>2. CASE Tick
    BY <1>1, <2>1, <2>2, NoneRecorded DEF Tick, paymentVars, tokenVars, payoutVars, Queued,
       Clocked
  <2>. QED
    BY <1>1, <1>2, <2>1, <2>2, LifecycleRecorded
<1>3. CASE UNCHANGED vars
  BY <1>1, <1>3, UnmovedRecorded DEF vars, baseVars, paymentVars, tokenVars, payoutVars,
     clockVars, disputeVars, caseVars, Unmoved
<1>. QED
  BY <1>1, <1>2, <1>3, DisputeRecorded, MerchantRecorded, RecurringRecorded DEF Next

THEOREM RecordInvAlways == Spec => []RecordInv
<1>1. RecordInv /\ [Next]_vars => RecordInv'
  BY StepRecorded DEF Recorded
<1>. QED
  BY InitRecordInv, <1>1, PTL DEF Spec

(* While a payment is disputed its tokens stay where they are, until the    *)
(* admin or the mediators rule, or, before the dispute has escalated, the   *)
(* admin refunds or expires it: no other handler takes a disputed payment.  *)
THEOREM DisputeHoldsAlways == Spec => DisputeHolds
<1>1. RecordInv /\ [Next]_vars =>
        [\A p \in Ids : pay[p].status \in Contested =>
           /\ purse'[p] # purse[p] => pay'[p].status \notin Contested \/ RefundedMore(p)
           /\ pay'[p].status \notin Contested =>
                \/ Ruled(p)
                \/ /\ pay[p].status = "Disputed"
                   /\ pay'[p].status = "Expired" \/ RefundedMore(p)
           /\ pay[p].status = "EscalatedDispute" /\ ~Ruled(p) =>
                pay'[p] = pay[p] /\ purse'[p] = purse[p]]_vars
  <2>. SUFFICES ASSUME RecordInv, [Next]_vars, NEW p \in Ids, pay[p].status \in Contested
                PROVE
           /\ purse'[p] # purse[p] => pay'[p].status \notin Contested \/ RefundedMore(p)
           /\ pay'[p].status \notin Contested =>
                \/ Ruled(p)
                \/ /\ pay[p].status = "Disputed"
                   /\ pay'[p].status = "Expired" \/ RefundedMore(p)
           /\ pay[p].status = "EscalatedDispute" /\ ~Ruled(p) =>
                pay'[p] = pay[p] /\ purse'[p] = purse[p]
    OBVIOUS
  <2>1. Effect(p)
    BY StepRecorded DEF Recorded
  <2>2. (pay'[p] = pay[p] /\ purse'[p] = purse[p]) \/ UnderDispute(p)
    BY <2>1 DEF Effect, Contested, Escrowed, Ended, Closed
  <2>. QED
    BY <2>2 DEF UnderDispute, Contested, Closed
<1>. QED
  BY <1>1, RecordInvAlways, PTL DEF Spec, DisputeHolds

-----------------------------------------------------------------------------
(* The queues.                                                              *)

(* Entries drawn from a sequence: each is one of its own, at most once.      *)
Drawn(s, t) ==
  \E f : /\ \A j \in DOMAIN t : f[j] \in DOMAIN s /\ t[j] = s[f[j]]
         /\ \A j, k \in DOMAIN t : f[j] = f[k] => j = k

LEMMA RedrawnIsDrawn ==
  ASSUME NEW S, NEW s \in Seq(S), NEW t, Redrawn(s, t)
  PROVE  t \in Seq(S) /\ Drawn(s, t)
<1>1. Len(s) \in Nat /\ DOMAIN s = 1 .. Len(s) /\ \A i \in 1 .. Len(s) : s[i] \in S
  BY LenProperties, ElementOfSeq
<1>2. ASSUME NEW k \in Int, k >= 0, NEW n \in Int, n <= Len(s)
      PROVE  /\ SubSeq(s, k + 1, n) \in Seq(S)
             /\ DOMAIN SubSeq(s, k + 1, n) = 1 .. (n - k)
             /\ Len(SubSeq(s, k + 1, n)) = IF k + 1 <= n THEN n - k ELSE 0
             /\ \A j \in 1 .. (n - k) : SubSeq(s, k + 1, n)[j] = s[j + k]
  <2>1. \A i \in k + 1 .. n : s[i] \in S
    BY <1>1, <1>2
  <2>2. /\ SubSeq(s, k + 1, n) \in Seq(S)
        /\ Len(SubSeq(s, k + 1, n)) = IF k + 1 <= n THEN n - (k + 1) + 1 ELSE 0
        /\ \A i \in 1 .. n - (k + 1) + 1 : SubSeq(s, k + 1, n)[i] = s[k + 1 + i - 1]
    BY <2>1, SubSeqProperties
  <2>3. DOMAIN SubSeq(s, k + 1, n) = 1 .. Len(SubSeq(s, k + 1, n))
    BY <2>2, LenProperties
  <2>4. 1 .. Len(SubSeq(s, k + 1, n)) = 1 .. (n - k)
    BY <2>2, <1>2
  <2>5. \A j \in 1 .. (n - k) : SubSeq(s, k + 1, n)[j] = s[j + k]
    BY <2>2, <1>2
  <2>. QED
    BY <2>2, <2>3, <2>4, <2>5
<1>3. ASSUME NEW n \in 1 .. MaxBatch, t = SubSeq(s, Least(n, Len(s)) + 1, Len(s))
      PROVE  t \in Seq(S) /\ Drawn(s, t)
  <2>. DEFINE k == Least(n, Len(s))
              f == [j \in DOMAIN t |-> j + k]
  <2>1. k \in Int /\ k >= 0
    BY <1>1, CasesAssumption DEF Least
  <2>. HIDE DEF k
  <2>2. /\ t \in Seq(S) /\ DOMAIN t = 1 .. (Len(s) - k)
        /\ \A j \in 1 .. (Len(s) - k) : t[j] = s[j + k]
    BY <1>1, <1>2, <1>3, <2>1 DEF k
  <2>3. \A j \in DOMAIN t : f[j] \in DOMAIN s /\ t[j] = s[f[j]]
    BY <1>1, <2>1, <2>2
  <2>4. \A i, j \in DOMAIN t : f[i] = f[j] => i = j
    BY <2>1, <2>2
  <2>. HIDE DEF f
  <2>. QED
    BY <2>2, <2>3, <2>4 DEF Drawn
<1>4. ASSUME NEW i \in DOMAIN s, t = <<s[i]>> \o RemoveAt(s, i)
      PROVE  t \in Seq(S) /\ Drawn(s, t)
  <2>. DEFINE u == SubSeq(s, 1, i - 1)
              v == SubSeq(s, i + 1, Len(s))
              f == [j \in DOMAIN t |-> IF j = 1 THEN i ELSE IF j <= i THEN j - 1 ELSE j]
  <2>1. /\ u \in Seq(S) /\ Len(u) = i - 1
        /\ \A j \in 1 .. (i - 1) : u[j] = s[j]
    BY <1>1, <1>2
  <2>2. /\ v \in Seq(S) /\ Len(v) = Len(s) - i
        /\ \A j \in 1 .. (Len(s) - i) : v[j] = s[j + i]
    BY <1>1, <1>2
  <2>3. RemoveAt(s, i) = u \o v
    BY DEF RemoveAt
  <2>. HIDE DEF u, v
  <2>4. /\ u \o v \in Seq(S) /\ Len(u \o v) = Len(s) - 1
        /\ \A j \in 1 .. Len(s) - 1 : (u \o v)[j] = IF j < i THEN s[j] ELSE s[j + 1]
    <3>1. /\ u \o v \in Seq(S) /\ Len(u \o v) = Len(u) + Len(v)
          /\ \A j \in 1 .. Len(u) + Len(v) :
               (u \o v)[j] = IF j <= Len(u) THEN u[j] ELSE v[j - Len(u)]
      BY <2>1, <2>2, ConcatProperties
    <3>. QED
      BY <3>1, <2>1, <2>2, <1>1
  <2>5. <<s[i]>> \in Seq(S) /\ Len(<<s[i]>>) = 1 /\ <<s[i]>>[1] = s[i]
    BY <1>1
  <2>. DEFINE w == u \o v
              h == <<s[i]>>
  <2>. HIDE DEF w, h
  <2>6. /\ t \in Seq(S) /\ Len(t) = Len(s)
        /\ \A j \in 1 .. Len(s) : t[j] = IF j = 1 THEN s[i] ELSE w[j - 1]
    <3>1. h \in Seq(S) /\ w \in Seq(S) /\ Len(h) = 1 /\ h[1] = s[i] /\ Len(w) = Len(s) - 1
          /\ t = h \o w
      BY <2>3, <2>4, <2>5, <1>4 DEF w, h
    <3>2. /\ h \o w \in Seq(S) /\ Len(h \o w) = Len(h) + Len(w)
          /\ \A j \in 1 .. Len(h) + Len(w) :
               (h \o w)[j] = IF j <= Len(h) THEN h[j] ELSE w[j - Len(h)]
      BY <3>1, ConcatProperties
    <3>. QED
      BY <3>1, <3>2, <1>1
  <2>7. \A j \in 1 .. Len(s) - 1 : w[j] = IF j < i THEN s[j] ELSE s[j + 1]
    BY <2>4 DEF w
  <2>8. DOMAIN t = 1 .. Len(s)
    BY <2>6, LenProperties
  <2>9. \A j \in DOMAIN t : f[j] \in DOMAIN s /\ t[j] = s[f[j]]
    BY <2>6, <2>7, <2>8, <1>1
  <2>10. \A j, k \in DOMAIN t : f[j] = f[k] => j = k
    BY <2>8, <1>1
  <2>. HIDE DEF f
  <2>. QED
    BY <2>6, <2>9, <2>10 DEF Drawn
<1>. QED
  BY <1>3, <1>4 DEF Redrawn

(* An entry of a queue, given the records f of the payments, is of a payment *)
(* that was paid out, which no later call takes back: the merchant and the  *)
(* amount of the payment stay what they are.                                *)
Entry(f, m, e) ==
  /\ e[1] \in Ids /\ f[e[1]].status \in Ended
  /\ f[e[1]].merchant = m /\ f[e[1]].amount = e[2]
Listed(f, m, s) ==
  /\ \E S : s \in Seq(S)
  /\ \A i \in DOMAIN s : Entry(f, m, s[i])
  /\ \A i, j \in DOMAIN s : s[i][1] = s[j][1] => i = j
QueueInv ==
  /\ RecordInv
  /\ queue = [m \in Merchants |-> queue[m]]
  /\ \A m \in Merchants : Listed(pay, m, queue[m])

LEMMA ListedStays ==
  ASSUME NEW m, NEW s, Listed(pay, m, s), Recorded
  PROVE  Listed(pay', m, s)
<1>1. ASSUME NEW e, Entry(pay, m, e)  PROVE Entry(pay', m, e)
  <2>1. Effect(e[1])
    BY <1>1 DEF Entry, Recorded
  <2>. QED
    BY <1>1, <2>1 DEF Entry, Effect, Ended, Escrowed, Contested, Closed
<1>. QED
  BY <1>1 DEF Listed

LEMMA DrawnListed ==
  ASSUME NEW f, NEW m, NEW s, NEW t, Listed(f, m, s), Redrawn(s, t)
  PROVE  Listed(f, m, t)
<1>1. PICK S : s \in Seq(S)
  BY DEF Listed
<1>2. t \in Seq(S) /\ Drawn(s, t)
  BY <1>1, RedrawnIsDrawn
<1>3. PICK g : /\ \A j \in DOMAIN t : g[j] \in DOMAIN s /\ t[j] = s[g[j]]
               /\ \A j, k \in DOMAIN t : g[j] = g[k] => j = k
  BY <1>2 DEF Drawn
<1>. QED
  BY <1>2, <1>3 DEF Listed

LEMMA AppendedListed ==
  ASSUME NEW f, NEW m, NEW s, NEW e, Listed(f, m, s), Entry(f, m, e),
         \A i \in DOMAIN s : s[i][1] # e[1]
  PROVE  Listed(f, m, Append(s, e))
<1>1. PICK S : s \in Seq(S)
  BY DEF Listed
<1>2. /\ Append(s, e) \in Seq(S \cup {e}) /\ DOMAIN Append(s, e) = 1 .. Len(s) + 1
      /\ Append(s, e)[Len(s) + 1] = e /\ Len(s) \in Nat
      /\ \A i \in 1 .. Len(s) : i \in DOMAIN s /\ Append(s, e)[i] = s[i]
  <2>1. s \in Seq(S \cup {e})
    BY <1>1, SeqMonotonic
  <2>. QED
    BY <2>1, AppendProperties, LenProperties
<1>3. ASSUME NEW i \in DOMAIN Append(s, e)  PROVE Entry(f, m, Append(s, e)[i])
  BY <1>2 DEF Listed
<1>4. ASSUME NEW i \in DOMAIN Append(s, e), NEW j \in DOMAIN Append(s, e),
             Append(s, e)[i][1] = Append(s, e)[j][1]
      PROVE  i = j
  BY <1>2, <1>4 DEF Listed
<1>. QED
  BY <1>2, <1>3, <1>4 DEF Listed

LEMMA QueueStep ==
  ASSUME QueueInv, [Next]_vars
  PROVE  QueueInv'
<1>1. Recorded
  BY StepRecorded DEF QueueInv
<1>2. queue' = [m \in Merchants |-> queue'[m]]
  BY <1>1 DEF Recorded, Queued, Enqueues, Redraws, QueueInv
<1>3. ASSUME NEW m \in Merchants  PROVE Listed(pay', m, queue'[m])
  <2>1. Listed(pay, m, queue[m]) /\ Listed(pay', m, queue[m])
    BY <1>1, ListedStays DEF QueueInv
  <2>2. ASSUME NEW p \in Ids, Enqueues(p), queue'[m] # queue[m]
        PROVE  Listed(pay', m, queue'[m])
    <3>. DEFINE e == <<p, pay'[p].amount>>
    <3>1. m = pay[p].merchant /\ queue'[m] = Append(queue[m], e)
      BY <2>2 DEF Enqueues, QueueInv
    <3>2. e[1] = p /\ Entry(pay', m, e)
      BY <2>2, <3>1 DEF Enqueues, Entry
    <3>. HIDE DEF e
    <3>3. \A i \in DOMAIN queue[m] : queue[m][i][1] # e[1]
      BY <2>1, <2>2, <3>2 DEF Enqueues, Listed, Entry, Ended, Escrowed, Closed
    <3>. QED
      BY <2>1, <3>1, <3>2, <3>3, AppendedListed
  <2>3. ASSUME NEW n \in Merchants, Redraws(n), queue'[m] # queue[m]
        PROVE  Listed(pay', m, queue'[m])
    <3>1. Redrawn(queue[m], queue'[m])
      BY <2>3 DEF Redraws, QueueInv
    <3>. QED
      BY <2>1, <3>1, DrawnListed
  <2>. QED
    BY <1>1, <2>1, <2>2, <2>3 DEF Recorded, Queued
<1>. QED
  BY <1>1, <1>2, <1>3 DEF QueueInv, Recorded

(* Each payout of a merchant is listed once and as it was made: an entry is *)
(* added only by finalize_payment, of a payment that was escrowed until     *)
(* then, and what follows (settlement, cancellation, verdicts, working the  *)
(* queue off or putting it in another order) keeps merchant and amount.     *)
THEOREM QueueListsPayoutsAlways == Spec => []QueueListsPayouts
<1>1. Init => QueueInv
  <2>. SUFFICES ASSUME Init PROVE QueueInv
    OBVIOUS
  <2>1. queue = [m \in Merchants |-> <<>>]
    BY DEF Init, BaseInit
  <2>2. \A m \in Merchants : queue[m] = <<>> /\ <<>> \in Seq({}) /\ DOMAIN <<>> = {}
    BY <2>1
  <2>. QED
    BY <2>1, <2>2, InitRecordInv DEF QueueInv, Listed
<1>2. QueueInv /\ [Next]_vars => QueueInv'
  BY QueueStep
<1>3. QueueInv => QueueListsPayouts
  BY DEF QueueInv, Listed, Entry, QueueListsPayouts
<1>. QED
  BY <1>1, <1>2, <1>3, PTL DEF Spec

-----------------------------------------------------------------------------
(* What repeats.                                                            *)

CycleOf(r) ==
  /\ {"max", "count", "interval", "nextDue", "active"} \subseteq DOMAIN r
  /\ r.max \in Nat /\ r.count \in Nat /\ r.interval \in Nat /\ r.nextDue \in Nat
  /\ CyclesWithin(r)
SubOf(r, t) ==
  /\ {"max", "count", "last", "trialEnds"} \subseteq DOMAIN r
  /\ r.max \in Nat /\ r.count \in Nat /\ r.last \in Nat /\ r.trialEnds \in Nat
  /\ r.max > 0 => r.count <= r.max
  /\ r.count > 0 => r.last >= r.trialEnds /\ r.last <= t
CyclesInv ==
  /\ RecordInv
  /\ now \in Nat
  /\ invoices = [i \in Invoices |-> invoices[i]] /\ \A i \in Invoices : CycleOf(invoices[i])
  /\ schedules = [k \in Schedules |-> schedules[k]] /\ \A k \in Schedules : CycleOf(schedules[k])
  /\ subs = [s \in Subs |-> subs[s]] /\ \A s \in Subs : SubOf(subs[s], now)

(* One more cycle, due an interval after the last due date or later.        *)
LEMMA CycledIs ==
  ASSUME NEW r, CycleOf(r), r.active, NEW d \in Nat, d >= r.nextDue + r.interval
  PROVE  CycleOf(Cycled(r, d))
<1>. DEFINE c == Cycled(r, d)
<1>1. /\ {"max", "count", "interval", "nextDue", "active"} \subseteq DOMAIN c
      /\ c.max = r.max /\ c.count = r.count + 1 /\ c.interval = r.interval /\ c.nextDue = d
      /\ c.active = (r.active /\ (r.max > 0 => r.count + 1 < r.max))
  BY DEF Cycled, CycleOf
<1>2. r.max > 0 => r.count < r.max
  BY DEF CycleOf, CyclesWithin
<1>3. (r.count + 1) * r.interval = r.count * r.interval + r.interval
  BY DEF CycleOf
<1>. HIDE DEF c
<1>4. c.nextDue >= c.count * c.interval
  <2>1. r.count * r.interval \in Nat /\ r.nextDue >= r.count * r.interval
    BY DEF CycleOf, CyclesWithin
  <2>2. d >= (r.count + 1) * r.interval
    BY <1>3, <2>1 DEF CycleOf
  <2>. QED
    BY <1>1, <2>2
<1>5. c.max > 0 => c.count <= c.max
  BY <1>1, <1>2 DEF CycleOf
<1>6. c.active => (c.max > 0 => c.count < c.max)
  BY <1>1
<1>7. c.max \in Nat /\ c.count \in Nat /\ c.interval \in Nat /\ c.nextDue \in Nat
  BY <1>1 DEF CycleOf
<1>. QED
  BY <1>1, <1>4, <1>5, <1>6, <1>7 DEF CycleOf, CyclesWithin, c

LEMMA EndedCycle ==
  ASSUME NEW r, CycleOf(r)
  PROVE  CycleOf([r EXCEPT !.active = FALSE])
  BY DEF CycleOf, CyclesWithin

LEMMA PaidCycle ==
  ASSUME NEW r, CycleOf(r), NEW s
  PROVE  CycleOf([r EXCEPT !.payments = s])
  BY DEF CycleOf, CyclesWithin

LEMMA NewCycleIs ==
  ASSUME NEW c, NEW m, NEW x, NEW d \in Terms, NEW max \in {0, 2}, now \in Nat
  PROVE  CycleOf(NewCycle(c, m, x, d, max))
<1>1. d \in Nat /\ 0 * d = 0
  BY InputsAssumption
<1>. QED
  BY <1>1 DEF CycleOf, CyclesWithin, NewCycle

(* Only the recurring entry points touch these records, and only the clock  *)
(* moves the clock.                                                         *)
LEMMA InvoiceCycles ==
  ASSUME CyclesInv, InvoiceNext
  PROVE  /\ invoices' = [i \in Invoices |-> invoices'[i]]
         /\ \A i \in Invoices : CycleOf(invoices'[i])
         /\ schedules' = schedules /\ subs' = subs
<1>1. ASSUME NEW i \in Invoices, NEW r, CycleOf(r), invoices' = [invoices EXCEPT ![i] = r]
      PROVE  /\ invoices' = [j \in Invoices |-> invoices'[j]]
             /\ \A j \in Invoices : CycleOf(invoices'[j])
  BY <1>1 DEF CyclesInv
<1>2. PICK i \in Invoices :
        \/ \E c \in Customers, m \in Merchants, x \in Prices, d \in Terms, max \in {0, 2} :
             CreateRecurringInvoice(i, c, m, x, d, max)
        \/ \E t \in Token : TriggerInvoiceCycle(i, t)
        \/ CancelRecurringInvoice(i)
  BY DEF InvoiceNext
<1>3. CycleOf(invoices[i]) /\ now \in Nat
  BY DEF CyclesInv
<1>4. schedules' = schedules /\ subs' = subs
  BY <1>2 DEF CreateRecurringInvoice, TriggerInvoiceCycle, CancelRecurringInvoice, OnlyInvoices
<1>5. ASSUME NEW c, NEW m, NEW x, NEW d \in Terms, NEW max \in {0, 2},
             CreateRecurringInvoice(i, c, m, x, d, max)
      PROVE  \A j \in Invoices : CycleOf(invoices'[j])
  BY <1>1, <1>3, <1>5, NewCycleIs DEF CreateRecurringInvoice
<1>6. ASSUME NEW t, TriggerInvoiceCycle(i, t)
      PROVE  \A j \in Invoices : CycleOf(invoices'[j])
  <2>1. invoices[i].active /\ now >= invoices[i].nextDue
        /\ invoices' = [invoices EXCEPT ![i] =
             [Cycled(invoices[i], now + invoices[i].interval) EXCEPT !.payments = @ \cup {counter}]]
    BY <1>6 DEF TriggerInvoiceCycle
  <2>2. now + invoices[i].interval \in Nat
        /\ now + invoices[i].interval >= invoices[i].nextDue + invoices[i].interval
    BY <1>3, <2>1 DEF CycleOf
  <2>3. CycleOf(Cycled(invoices[i], now + invoices[i].interval))
    BY <1>3, <2>1, <2>2, CycledIs
  <2>4. CycleOf([Cycled(invoices[i], now + invoices[i].interval) EXCEPT !.payments = @ \cup {counter}])
    BY <2>3, PaidCycle
  <2>. QED
    BY <1>1, <2>1, <2>4
<1>7. ASSUME CancelRecurringInvoice(i)
      PROVE  \A j \in Invoices : CycleOf(invoices'[j])
  <2>1. invoices' = [invoices EXCEPT ![i] = [invoices[i] EXCEPT !.active = FALSE]]
    BY <1>7 DEF CancelRecurringInvoice
  <2>. QED
    BY <1>1, <1>3, <2>1, EndedCycle
<1>8. invoices' = [j \in Invoices |-> invoices'[j]]
  BY <1>2 DEF CyclesInv, CreateRecurringInvoice, TriggerInvoiceCycle, CancelRecurringInvoice
<1>. QED
  BY <1>2, <1>4, <1>5, <1>6, <1>7, <1>8

(* A retry counts a cycle of the invoice from the due date it had.          *)
LEMMA DebitCycles ==
  ASSUME CyclesInv, DebitNext
  PROVE  /\ invoices' = [i \in Invoices |-> invoices'[i]]
         /\ \A i \in Invoices : CycleOf(invoices'[i])
         /\ schedules' = schedules /\ subs' = subs
<1>1. schedules' = schedules /\ subs' = subs
  BY DEF DebitNext, SetRetryConfig, InitiateAllowedPayment, RetryFailedDebit,
     TriggerEarlyRetry, RetryDebit, OnlyDebits
<1>2. \/ invoices' = invoices
      \/ \E i : /\ invoices[i].active
                /\ invoices' = [invoices EXCEPT ![i] =
                     Cycled(invoices[i], invoices[i].nextDue + invoices[i].interval)]
  BY DEF DebitNext, SetRetryConfig, InitiateAllowedPayment, RetryFailedDebit,
     TriggerEarlyRetry, RetryDebit
<1>3. CASE invoices' = invoices
  BY <1>1, <1>3 DEF CyclesInv
<1>4. ASSUME NEW i, invoices[i].active,
             invoices' = [invoices EXCEPT ![i] =
               Cycled(invoices[i], invoices[i].nextDue + invoices[i].interval)]
      PROVE  /\ invoices' = [j \in Invoices |-> invoices'[j]]
             /\ \A j \in Invoices : CycleOf(invoices'[j])
  <2>1. CASE i \in Invoices
    <3>1. CycleOf(invoices[i])
      BY <2>1 DEF CyclesInv
    <3>2. invoices[i].nextDue + invoices[i].interval \in Nat
          /\ invoices[i].nextDue + invoices[i].interval >= invoices[i].nextDue + invoices[i].interval
      BY <3>1 DEF CycleOf
    <3>3. CycleOf(Cycled(invoices[i], invoices[i].nextDue + invoices[i].interval))
      BY <1>4, <3>1, <3>2, CycledIs
    <3>. QED
      BY <1>4, <3>3 DEF CyclesInv
  <2>2. CASE i \notin Invoices
    BY <1>4, <2>2 DEF CyclesInv
  <2>. QED
    BY <2>1, <2>2
<1>. QED
  BY <1>1, <1>2, <1>3, <1>4

LEMMA ScheduleCycles ==
  ASSUME CyclesInv, ScheduleNext
  PROVE  /\ schedules' = [k \in Schedules |-> schedules'[k]]
         /\ \A k \in Schedules : CycleOf(schedules'[k])
         /\ invoices' = invoices /\ subs' = subs
<1>1. ASSUME NEW k \in Schedules, NEW r, CycleOf(r), schedules' = [schedules EXCEPT ![k] = r]
      PROVE  /\ schedules' = [j \in Schedules |-> schedules'[j]]
             /\ \A j \in Schedules : CycleOf(schedules'[j])
  BY <1>1 DEF CyclesInv
<1>2. PICK k \in Schedules :
        \/ \E c \in Customers, m \in Merchants, x \in Prices, d \in Terms, max \in {0, 2} :
             CreateRecurringPayment(k, c, m, x, d, max)
        \/ ExecuteRecurring(k) \/ CancelRecurringPayment(k)
  BY DEF ScheduleNext
<1>3. CycleOf(schedules[k]) /\ now \in Nat
  BY DEF CyclesInv
<1>4. invoices' = invoices /\ subs' = subs
  BY <1>2 DEF CreateRecurringPayment, ExecuteRecurring, CancelRecurringPayment, OnlySchedules
<1>5. ASSUME NEW c, NEW m, NEW x, NEW d \in Terms, NEW max \in {0, 2},
             CreateRecurringPayment(k, c, m, x, d, max)
      PROVE  \A j \in Schedules : CycleOf(schedules'[j])
  BY <1>1, <1>3, <1>5, NewCycleIs DEF CreateRecurringPayment
<1>6. ASSUME ExecuteRecurring(k)
      PROVE  \A j \in Schedules : CycleOf(schedules'[j])
  <2>1. schedules[k].active /\ now >= schedules[k].nextDue
        /\ schedules' = [schedules EXCEPT ![k] =
                           Cycled(schedules[k], now + schedules[k].interval)]
    BY <1>6 DEF ExecuteRecurring
  <2>2. now + schedules[k].interval \in Nat
        /\ now + schedules[k].interval >= schedules[k].nextDue + schedules[k].interval
    BY <1>3, <2>1 DEF CycleOf
  <2>3. CycleOf(Cycled(schedules[k], now + schedules[k].interval))
    BY <1>3, <2>1, <2>2, CycledIs
  <2>. QED
    BY <1>1, <2>1, <2>3
<1>7. ASSUME CancelRecurringPayment(k)
      PROVE  \A j \in Schedules : CycleOf(schedules'[j])
  <2>1. schedules' = [schedules EXCEPT ![k] = [schedules[k] EXCEPT !.active = FALSE]]
    BY <1>7 DEF CancelRecurringPayment
  <2>. QED
    BY <1>1, <1>3, <2>1, EndedCycle
<1>8. schedules' = [j \in Schedules |-> schedules'[j]]
  BY <1>2 DEF CyclesInv, CreateRecurringPayment, ExecuteRecurring, CancelRecurringPayment
<1>. QED
  BY <1>2, <1>4, <1>5, <1>6, <1>7, <1>8

(* A subscription is charged only after its trial, and not once more than   *)
(* agreed; a resumption may move the last charge, to the present.           *)
LEMMA SubKept ==
  ASSUME CyclesInv, NEW s \in Subs, NEW r, {"max", "count", "last", "trialEnds"} \subseteq DOMAIN r,
         r.max = subs[s].max, r.count = subs[s].count, r.trialEnds = subs[s].trialEnds,
         r.last \in {subs[s].last, now}
  PROVE  SubOf(r, now)
  BY DEF CyclesInv, SubOf

LEMMA StoredSubs ==
  ASSUME CyclesInv, NEW s \in Subs, NEW r, SubOf(r, now), Store(s, r)
  PROVE  /\ subs' = [j \in Subs |-> subs'[j]] /\ \A j \in Subs : SubOf(subs'[j], now)
         /\ invoices' = invoices /\ schedules' = schedules
  BY DEF CyclesInv, Store, OnlySubs

LEMMA SubscriptionCycles ==
  ASSUME CyclesInv, SubscriptionNext \/ PlanNext
  PROVE  /\ subs' = [s \in Subs |-> subs'[s]] /\ \A s \in Subs : SubOf(subs'[s], now)
         /\ invoices' = invoices /\ schedules' = schedules
<1>. DEFINE Goal == /\ subs' = [s \in Subs |-> subs'[s]] /\ \A s \in Subs : SubOf(subs'[s], now)
                    /\ invoices' = invoices /\ schedules' = schedules
<1>1. \A s \in Subs : SubOf(subs[s], now)
  BY DEF CyclesInv
<1>2. ASSUME NEW s \in Subs, NEW c, NEW m, NEW x, NEW d \in Terms, NEW trial \in {0, 1},
             NEW max \in {0, 2}, CreateSubscription(s, c, m, x, d, max, trial)
      PROVE  Goal
  <2>. DEFINE r == [NoSub EXCEPT !.subscriber = c, !.merchant = m, !.amount = x,
         !.interval = d, !.max = max, !.active = TRUE,
         !.trialEnds = IF trial > 0 THEN now + trial ELSE 0, !.nextDue = now + d]
  <2>1. /\ {"max", "count", "last", "trialEnds"} \subseteq DOMAIN r
        /\ r.max = max /\ r.count = 0 /\ r.last = 0 /\ r.trialEnds \in {0, now + trial}
    BY DEF NoSub
  <2>2. Store(s, r)
    BY <1>2 DEF CreateSubscription
  <2>. HIDE DEF r
  <2>3. SubOf(r, now)
    BY <2>1 DEF SubOf, CyclesInv
  <2>. QED
    BY <2>2, <2>3, StoredSubs
<1>3. ASSUME NEW s \in Subs, ChargeSubscription(s)  PROVE Goal
  <2>. DEFINE r == [subs[s] EXCEPT !.last = now, !.count = @ + 1, !.credit = 0,
                                   !.nextDue = now + subs[s].interval]
  <2>1. /\ {"max", "count", "last", "trialEnds"} \subseteq DOMAIN r
        /\ r.max = subs[s].max /\ r.count = subs[s].count + 1 /\ r.last = now
        /\ r.trialEnds = subs[s].trialEnds
    BY <1>1 DEF SubOf
  <2>2. Store(s, r)
    BY <1>3 DEF ChargeSubscription
  <2>. HIDE DEF r
  <2>3. SubOf(r, now)
    BY <1>1, <1>3, <2>1 DEF SubOf, CyclesInv, ChargeSubscription, Chargeable
  <2>. QED
    BY <2>2, <2>3, StoredSubs
<1>4. ASSUME NEW s \in Subs,
             \/ CancelSubscription(s) \/ PauseSubscription(s) \/ ResumeSubscription(s)
             \/ PauseSubscriptionV2(s) \/ ResumeSubscriptionV2(s) \/ AdminResumeSubscription(s)
      PROVE  Goal
  <2>1. ASSUME NEW r, Store(s, r), DOMAIN r = DOMAIN subs[s],
               r.max = subs[s].max, r.count = subs[s].count,
               r.trialEnds = subs[s].trialEnds, r.last \in {subs[s].last, now}
        PROVE  Goal
    <3>1. SubOf(r, now)
      BY <1>1, <2>1, SubKept DEF SubOf
    <3>. QED
      BY <2>1, <3>1, StoredSubs
  <2>2. CASE CancelSubscription(s)
    <3>. DEFINE r == [subs[s] EXCEPT !.active = FALSE]
    <3>1. /\ DOMAIN r = DOMAIN subs[s] /\ r.max = subs[s].max /\ r.count = subs[s].count
          /\ r.trialEnds = subs[s].trialEnds /\ r.last = subs[s].last
      BY <1>1 DEF SubOf
    <3>2. Store(s, r)
      BY <2>2 DEF CancelSubscription
    <3>. HIDE DEF r
    <3>. QED
      BY <2>1, <3>1, <3>2
  <2>3. CASE PauseSubscription(s)
    <3>. DEFINE r == [subs[s] EXCEPT !.paused = TRUE]
    <3>1. /\ DOMAIN r = DOMAIN subs[s] /\ r.max = subs[s].max /\ r.count = subs[s].count
          /\ r.trialEnds = subs[s].trialEnds /\ r.last = subs[s].last
      BY <1>1 DEF SubOf
    <3>2. Store(s, r)
      BY <2>3 DEF PauseSubscription
    <3>. HIDE DEF r
    <3>. QED
      BY <2>1, <3>1, <3>2
  <2>4. CASE ResumeSubscription(s)
    <3>. DEFINE r == [subs[s] EXCEPT !.paused = FALSE, !.last = now,
                                     !.nextDue = now + subs[s].interval]
    <3>1. /\ DOMAIN r = DOMAIN subs[s] /\ r.max = subs[s].max /\ r.count = subs[s].count
          /\ r.trialEnds = subs[s].trialEnds /\ r.last = now
      BY <1>1 DEF SubOf
    <3>2. Store(s, r)
      BY <2>4 DEF ResumeSubscription
    <3>. HIDE DEF r
    <3>. QED
      BY <2>1, <3>1, <3>2
  <2>5. CASE PauseSubscriptionV2(s)
    <3>. DEFINE r == [subs[s] EXCEPT !.paused = TRUE, !.pauses = @ + 1]
    <3>1. /\ DOMAIN r = DOMAIN subs[s] /\ r.max = subs[s].max /\ r.count = subs[s].count
          /\ r.trialEnds = subs[s].trialEnds /\ r.last = subs[s].last
      BY <1>1 DEF SubOf
    <3>2. Store(s, r)
      BY <2>5 DEF PauseSubscriptionV2
    <3>. HIDE DEF r
    <3>. QED
      BY <2>1, <3>1, <3>2
  <2>6. CASE ResumeSubscriptionV2(s) \/ AdminResumeSubscription(s)
    <3>. DEFINE r == [subs[s] EXCEPT !.paused = FALSE, !.nextDue = now + subs[s].interval]
    <3>1. /\ DOMAIN r = DOMAIN subs[s] /\ r.max = subs[s].max /\ r.count = subs[s].count
          /\ r.trialEnds = subs[s].trialEnds /\ r.last = subs[s].last
      BY <1>1 DEF SubOf
    <3>2. Store(s, r)
      BY <2>6 DEF ResumeSubscriptionV2, AdminResumeSubscription
    <3>. HIDE DEF r
    <3>. QED
      BY <2>1, <3>1, <3>2
  <2>. HIDE DEF Goal
  <2>. QED
    BY <1>4, <2>2, <2>3, <2>4, <2>5, <2>6
<1>5. ASSUME NEW s \in Subs, NEW k, ChangeSubscriptionPlan(s, k)  PROVE Goal
  <2>1. PICK a, b, n, u : Store(s, [subs[s] EXCEPT !.amount = a, !.interval = b,
                                                   !.nextDue = n, !.credit = u])
    BY <1>5 DEF ChangeSubscriptionPlan
  <2>. DEFINE r == [subs[s] EXCEPT !.amount = a, !.interval = b, !.nextDue = n, !.credit = u]
  <2>2. /\ DOMAIN r = DOMAIN subs[s] /\ r.max = subs[s].max /\ r.count = subs[s].count
        /\ r.trialEnds = subs[s].trialEnds /\ r.last = subs[s].last
    OBVIOUS
  <2>3. Store(s, r)
    BY <2>1
  <2>. HIDE DEF r
  <2>4. SubOf(r, now)
    BY <1>1, <2>2, SubKept DEF SubOf
  <2>. QED
    BY <2>3, <2>4, StoredSubs
<1>6. ASSUME NEW k, NEW m, NEW x, NEW d, NEW a, SetSubscriptionPlan(k, m, x, d, a)
      PROVE  Goal
  BY <1>6 DEF SetSubscriptionPlan, CyclesInv
<1>7. ASSUME NEW s \in Subs,
             \/ \E c \in Customers, m \in Merchants, x \in Prices, d \in Terms,
                  trial \in {0, 1}, max \in {0, 2} : CreateSubscription(s, c, m, x, d, max, trial)
             \/ ChargeSubscription(s) \/ CancelSubscription(s)
             \/ PauseSubscription(s) \/ ResumeSubscription(s)
             \/ PauseSubscriptionV2(s) \/ ResumeSubscriptionV2(s) \/ AdminResumeSubscription(s)
      PROVE  Goal
  BY <1>2, <1>3, <1>4, <1>7
<1>. HIDE DEF Goal
<1>8. CASE SubscriptionNext
  BY <1>7, <1>8 DEF SubscriptionNext, Goal
<1>9. CASE PlanNext
  BY <1>5, <1>6, <1>9 DEF PlanNext, Goal
<1>. QED
  BY <1>8, <1>9 DEF Goal

LEMMA CyclesStep ==
  ASSUME CyclesInv, [Next]_vars
  PROVE  CyclesInv'
<1>1. RecordInv' /\ now' \in Nat /\ now' >= now
  BY StepRecorded DEF CyclesInv, Recorded, Clocked
<1>2. ASSUME NEW r, SubOf(r, now)  PROVE SubOf(r, now')
  BY <1>1, <1>2 DEF CyclesInv, SubOf
<1>3. ASSUME subs' = [s \in Subs |-> subs'[s]], \A s \in Subs : SubOf(subs'[s], now),
             invoices' = [i \in Invoices |-> invoices'[i]],
             \A i \in Invoices : CycleOf(invoices'[i]),
             schedules' = [k \in Schedules |-> schedules'[k]],
             \A k \in Schedules : CycleOf(schedules'[k])
      PROVE  CyclesInv'
  BY <1>1, <1>2, <1>3 DEF CyclesInv
<1>4. CASE subs' = subs /\ invoices' = invoices /\ schedules' = schedules
  BY <1>3, <1>4 DEF CyclesInv
<1>5. CASE RecurringNext
  <2>1. CASE SubscriptionNext \/ PlanNext
    BY <1>3, <2>1, SubscriptionCycles DEF CyclesInv
  <2>2. CASE InvoiceNext
    BY <1>3, <2>2, InvoiceCycles DEF CyclesInv
  <2>3. CASE DebitNext
    BY <1>3, <2>3, DebitCycles DEF CyclesInv
  <2>4. CASE ScheduleNext
    BY <1>3, <2>4, ScheduleCycles DEF CyclesInv
  <2>5. CASE ConsentNext
    BY <1>4, <2>5 DEF ConsentNext, CreateConsentRecord, SignConsent, RevokeConsent, StoreConsent
  <2>. QED
    BY <1>5, <2>1, <2>2, <2>3, <2>4, <2>5 DEF RecurringNext
<1>. QED
  BY <1>4, <1>5 DEF Next, vars, recurringVars

(* What an invoice charged.  The payments of its trigger are distinct: each *)
(* was made under the id that was next.  No retry counts for an invoice     *)
(* that was not handed out.                                                 *)
Made == {p \in Ids : pay[p].status # "None"}
DebitOf(r) ==
  /\ {"invoice", "status", "next"} \subseteq DOMAIN r
  /\ r.status = "Pending" => r.next \in Nat \ {0}
Charged(i) ==
  /\ invoices[i].payments \subseteq Made
  /\ invoices[i].interval > 0 \/ (invoices[i] = NoCycle /\ Retried(i) = {})
  /\ Triggered(i) <= invoices[i].count /\ invoices[i].count <= Charges(i)
  /\ invoices[i].active => Charges(i) = invoices[i].count
ChargesInv ==
  /\ CyclesInv
  /\ now > 0
  /\ {"base", "most"} \subseteq DOMAIN retry /\ retry.base \in Nat /\ retry.most \in Nat
  /\ debits = [d \in Debits |-> debits[d]] /\ \A d \in Debits : DebitOf(debits[d])
  /\ \A i \in Invoices : "payments" \in DOMAIN invoices[i] /\ Charged(i)

LEMMA ChargesCounted ==
  ASSUME NEW i \in Invoices, Charged(i)
  PROVE  /\ IsFiniteSet(invoices[i].payments) /\ Triggered(i) \in Nat
         /\ IsFiniteSet(Retried(i)) /\ Cardinality(Retried(i)) \in Nat
<1>1. MaxPayments - 1 \in Int
  BY BoundsAssumption
<1>2. IsFiniteSet(invoices[i].payments)
  <2>1. IsFiniteSet(Ids)
    BY <1>1, FS_Interval DEF Ids
  <2>2. invoices[i].payments \subseteq Ids
    BY DEF Charged, Made
  <2>. QED
    BY <2>1, <2>2, FS_Subset
<1>3. IsFiniteSet(Retried(i))
  BY DebitsAssumption, FS_Subset DEF Retried
<1>. QED
  BY <1>2, <1>3, FS_CardinalityType DEF Triggered

(* Nothing was charged; the invoice may have ended.                         *)
LEMMA ChargedKept ==
  ASSUME NEW i \in Invoices, Charged(i), Made \subseteq Made', Retried(i)' = Retried(i),
         \/ invoices'[i] = invoices[i]
         \/ /\ invoices'[i].payments = invoices[i].payments
            /\ invoices'[i].interval = invoices[i].interval /\ invoices[i].active
            /\ invoices'[i].count = invoices[i].count /\ ~invoices'[i].active
  PROVE  Charged(i)'
<1>1. ~NoCycle.active
  BY DEF NoCycle
<1>2. invoices'[i] = invoices[i] \/ invoices[i].interval > 0
  BY <1>1 DEF Charged
<1>3. /\ Triggered(i)' = Triggered(i) /\ Charges(i)' = Charges(i)
      /\ invoices'[i].payments \subseteq Made' /\ invoices'[i].count = invoices[i].count
      /\ invoices'[i].interval = invoices[i].interval
      /\ invoices'[i].active => invoices[i].active
  BY DEF Triggered, Charges, Charged
<1>. QED
  BY <1>2, <1>3 DEF Charged

(* The trigger makes one more payment.                                      *)
LEMMA ChargedByTrigger ==
  ASSUME NEW i \in Invoices, Charged(i), Made \subseteq Made', NEW p, p \in Made', p \notin Made,
         CycleOf(invoices[i]), invoices[i].active, Retried(i)' = Retried(i),
         invoices'[i].payments = invoices[i].payments \cup {p},
         invoices'[i].count = invoices[i].count + 1,
         invoices'[i].interval = invoices[i].interval
  PROVE  Charged(i)'
<1>1. invoices[i].interval > 0
  BY DEF Charged, NoCycle
<1>2. Triggered(i)' = Triggered(i) + 1
  BY ChargesCounted, FS_AddElement DEF Charged, Triggered
<1>3. Charges(i)' = Charges(i) + 1
  BY <1>2, ChargesCounted DEF Charges
<1>4. invoices[i].count \in Nat /\ Triggered(i) \in Nat /\ Charges(i) \in Nat
  BY ChargesCounted DEF CycleOf, Charges
<1>. QED
  BY <1>1, <1>2, <1>3, <1>4 DEF Charged

(* A retried debit is paid, and counted while the invoice runs.             *)
LEMMA ChargedByRetry ==
  ASSUME NEW i \in Invoices, Charged(i), Made \subseteq Made', NEW d, d \notin Retried(i),
         CycleOf(invoices[i]), invoices[i] # NoCycle, Retried(i)' = Retried(i) \cup {d},
         invoices'[i].payments = invoices[i].payments,
         invoices'[i].interval = invoices[i].interval,
         \/ invoices[i].active /\ invoices'[i].count = invoices[i].count + 1
         \/ invoices'[i] = invoices[i] /\ ~invoices[i].active
  PROVE  Charged(i)'
<1>0. Cardinality(Retried(i) \cup {d}) = Cardinality(Retried(i)) + 1
  BY ChargesCounted, FS_AddElement
<1>1. Cardinality(Retried(i)') = Cardinality(Retried(i)) + 1
  BY <1>0
<1>2. Triggered(i)' = Triggered(i)
  BY DEF Triggered
<1>3. Charges(i)' = Charges(i) + 1
  BY <1>1, <1>2, ChargesCounted DEF Charges
<1>4. invoices[i].count \in Nat /\ Triggered(i) \in Nat /\ Charges(i) \in Nat
  BY ChargesCounted DEF CycleOf, Charges
<1>. QED
  BY <1>2, <1>3, <1>4 DEF Charged

LEMMA InvoiceCharges ==
  ASSUME ChargesInv, InvoiceNext, Made \subseteq Made'
  PROVE  /\ debits' = debits /\ retry' = retry
         /\ \A i \in Invoices : "payments" \in DOMAIN invoices'[i] /\ Charged(i)'
<1>1. PICK i \in Invoices :
        \/ \E c \in Customers, m \in Merchants, x \in Prices, d \in Terms, max \in {0, 2} :
             CreateRecurringInvoice(i, c, m, x, d, max)
        \/ \E t \in Token : TriggerInvoiceCycle(i, t)
        \/ CancelRecurringInvoice(i)
  BY DEF InvoiceNext
<1>2. debits' = debits /\ retry' = retry
  BY <1>1 DEF CreateRecurringInvoice, TriggerInvoiceCycle, CancelRecurringInvoice, OnlyInvoices
<1>3. \A j : Retried(j)' = Retried(j)
  BY <1>2 DEF Retried
<1>4. \A j \in Invoices : "payments" \in DOMAIN invoices[j] /\ Charged(j) /\ CycleOf(invoices[j])
  BY DEF ChargesInv, CyclesInv
<1>5. invoices = [j \in Invoices |-> invoices[j]]
  BY DEF ChargesInv, CyclesInv
<1>6. ASSUME NEW r, invoices' = [invoices EXCEPT ![i] = r], "payments" \in DOMAIN r,
             Charged(i)'
      PROVE  \A j \in Invoices : "payments" \in DOMAIN invoices'[j] /\ Charged(j)'
  <2>1. \A j \in Invoices : j # i => invoices'[j] = invoices[j]
    BY <1>5, <1>6
  <2>2. \A j \in Invoices : j # i => Charged(j)'
    BY <1>3, <1>4, <2>1, ChargedKept
  <2>3. invoices'[i] = r
    BY <1>5, <1>6
  <2>. QED
    BY <1>4, <1>6, <2>1, <2>2, <2>3
<1>7. ASSUME NEW c, NEW m, NEW x, NEW d \in Terms, NEW max,
             CreateRecurringInvoice(i, c, m, x, d, max)
      PROVE  \A j \in Invoices : "payments" \in DOMAIN invoices'[j] /\ Charged(j)'
  <2>1. /\ invoices[i] = NoCycle /\ d > 0
        /\ invoices' = [invoices EXCEPT ![i] = NewCycle(c, m, x, d, max)]
    BY <1>7 DEF CreateRecurringInvoice
  <2>2. /\ invoices'[i].payments = {} /\ invoices'[i].interval = d /\ invoices'[i].count = 0
        /\ "payments" \in DOMAIN NewCycle(c, m, x, d, max)
    BY <1>5, <2>1 DEF NewCycle
  <2>3. ~ (NoCycle.interval > 0)
    BY DEF NoCycle
  <2>4. Retried(i)' = {}
    BY <1>3, <1>4, <2>1, <2>3 DEF Charged
  <2>5. Triggered(i)' = 0 /\ Charges(i)' = 0
    BY <2>2, <2>4, FS_EmptySet DEF Triggered, Charges
  <2>6. Charged(i)'
    BY <2>1, <2>2, <2>5 DEF Charged
  <2>. QED
    BY <1>6, <2>1, <2>2, <2>6
<1>8. ASSUME NEW t, TriggerInvoiceCycle(i, t)
      PROVE  \A j \in Invoices : "payments" \in DOMAIN invoices'[j] /\ Charged(j)'
  <2>. DEFINE r == [Cycled(invoices[i], now + invoices[i].interval) EXCEPT !.payments = @ \cup {counter}]
  <2>1. /\ invoices[i].active /\ invoices' = [invoices EXCEPT ![i] = r]
        /\ counter < MaxPayments
        /\ \E p : pay' = [pay EXCEPT ![counter] = p] /\ p.status \in {"ScheduledPending", "Pending"}
    <3>1. invoices[i].active /\ invoices' = [invoices EXCEPT ![i] = r]
          /\ CreatePayment(invoices[i].customer, invoices[i].merchant, t, invoices[i].amount, 0, 0, <<>>, 0, FALSE)
      BY <1>8 DEF TriggerInvoiceCycle
    <3>. DEFINE new == [Plain(invoices[i].customer, invoices[i].merchant, t, invoices[i].amount) EXCEPT
                  !.status = IF 0 > now THEN "ScheduledPending" ELSE "Pending",
                  !.expiresAt = now + (IF 0 = 0 THEN cfg.timeout ELSE 0),
                  !.executeAfter = 0, !.splits = <<>>, !.coolingOff = 0, !.tipping = FALSE]
    <3>2. new.status \in {"ScheduledPending", "Pending"}
      BY PlainIs DEF Record
    <3>3. counter < MaxPayments /\ pay' = [pay EXCEPT ![counter] = new]
      BY <3>1 DEF CreatePayment, NewPayment
    <3>. HIDE DEF r, new
    <3>. QED
      BY <3>1, <3>2, <3>3
  <2>2. /\ "payments" \in DOMAIN r /\ r.payments = invoices[i].payments \cup {counter}
        /\ r.count = invoices[i].count + 1 /\ r.interval = invoices[i].interval
    BY <1>4 DEF Cycled, CycleOf
  <2>. HIDE DEF r
  <2>3. invoices'[i] = r
    BY <1>5, <2>1
  <2>4. counter \in Ids /\ pay[counter].status = "None" /\ pay = [p \in Ids |-> pay[p]]
    BY <2>1, BoundsAssumption DEF ChargesInv, CyclesInv, RecordInv, PayInv, Ids
  <2>5. counter \in Made' /\ counter \notin Made
    BY <2>1, <2>4 DEF Made
  <2>6. Charged(i)'
    BY <1>3, <1>4, <2>1, <2>2, <2>3, <2>5, ChargedByTrigger
  <2>. QED
    BY <1>6, <2>1, <2>2, <2>6
<1>9. ASSUME CancelRecurringInvoice(i)
      PROVE  \A j \in Invoices : "payments" \in DOMAIN invoices'[j] /\ Charged(j)'
  <2>. DEFINE r == [invoices[i] EXCEPT !.active = FALSE]
  <2>1. invoices[i].active /\ invoices' = [invoices EXCEPT ![i] = r]
    BY <1>9 DEF CancelRecurringInvoice
  <2>2. /\ DOMAIN r = DOMAIN invoices[i] /\ r.payments = invoices[i].payments
        /\ r.count = invoices[i].count /\ r.interval = invoices[i].interval /\ ~r.active
    BY <1>4 DEF CycleOf
  <2>. HIDE DEF r
  <2>3. invoices'[i] = r
    BY <1>5, <2>1
  <2>4. Charged(i)'
    BY <1>3, <1>4, <2>1, <2>2, <2>3, ChargedKept
  <2>. QED
    BY <1>4, <1>6, <2>1, <2>2, <2>4
<1>. QED
  BY <1>1, <1>2, <1>7, <1>8, <1>9

(* One debit becomes another record: charged only when a retry is paid.     *)
LEMMA DebitCharges ==
  ASSUME ChargesInv, DebitNext, Made \subseteq Made'
  PROVE  /\ {"base", "most"} \subseteq DOMAIN retry' /\ retry'.base \in Nat /\ retry'.most \in Nat
         /\ debits' = [d \in Debits |-> debits'[d]] /\ \A d \in Debits : DebitOf(debits'[d])
         /\ \A i \in Invoices : "payments" \in DOMAIN invoices'[i] /\ Charged(i)'
<1>. DEFINE Goal == /\ {"base", "most"} \subseteq DOMAIN retry' /\ retry'.base \in Nat /\ retry'.most \in Nat
                    /\ debits' = [d \in Debits |-> debits'[d]] /\ \A d \in Debits : DebitOf(debits'[d])
                    /\ \A i \in Invoices : "payments" \in DOMAIN invoices'[i] /\ Charged(i)'
<1>1. /\ debits = [d \in Debits |-> debits[d]] /\ \A d \in Debits : DebitOf(debits[d])
      /\ \A i \in Invoices : "payments" \in DOMAIN invoices[i] /\ Charged(i) /\ CycleOf(invoices[i])
      /\ {"base", "most"} \subseteq DOMAIN retry /\ retry.base \in Nat /\ retry.most \in Nat
      /\ invoices = [i \in Invoices |-> invoices[i]] /\ now \in Nat /\ now > 0
  BY DEF ChargesInv, CyclesInv
<1>2. ASSUME \A j \in Invoices : Retried(j)' = Retried(j), invoices' = invoices
      PROVE  \A i \in Invoices : "payments" \in DOMAIN invoices'[i] /\ Charged(i)'
  BY <1>1, <1>2, ChargedKept
<1>3. ASSUME NEW d \in Debits, NEW r, debits' = [debits EXCEPT ![d] = r], DebitOf(r),
             debits[d].status # "Succeeded", r.status = "Succeeded" => r.next = 0,
             retry' = retry, invoices' = invoices
      PROVE  Goal
  <2>1. /\ debits' = [b \in Debits |-> debits'[b]] /\ \A b \in Debits : DebitOf(debits'[b])
        /\ debits'[d] = r /\ \A b \in Debits : b # d => debits'[b] = debits[b]
    BY <1>1, <1>3
  <2>2. \A j : Retried(j)' = Retried(j)
    BY <1>3, <2>1 DEF Retried
  <2>. QED
    BY <1>1, <1>2, <1>3, <2>1, <2>2
<1>4. ASSUME NEW base \in Terms, NEW most \in Terms, NEW n, SetRetryConfig(base, most, n)
      PROVE  Goal
  <2>1. /\ retry' = [base |-> base, most |-> most, attempts |-> n]
        /\ debits' = debits /\ invoices' = invoices
    BY <1>4 DEF SetRetryConfig
  <2>2. base \in Nat /\ most \in Nat
    BY InputsAssumption
  <2>3. \A j : Retried(j)' = Retried(j)
    BY <2>1 DEF Retried
  <2>. QED
    BY <1>1, <1>2, <2>1, <2>2, <2>3
<1>5. ASSUME NEW d \in Debits, NEW ok, NEW c, NEW m, NEW i, InitiateAllowedPayment(d, c, m, i, ok)
      PROVE  Goal
  <2>. DEFINE r == [invoice |-> i, customer |-> c, attempt |-> 1,
                    next |-> IF ok THEN 0 ELSE now + retry.base,
                    status |-> IF ok THEN "Succeeded" ELSE "Pending"]
  <2>1. /\ debits[d] = NoDebit /\ debits' = [debits EXCEPT ![d] = r]
        /\ retry' = retry /\ invoices' = invoices
    BY <1>5 DEF InitiateAllowedPayment
  <2>2. DebitOf(r) /\ (r.status = "Succeeded" => r.next = 0)
    BY <1>1 DEF DebitOf
  <2>3. debits[d].status # "Succeeded"
    BY <2>1 DEF NoDebit
  <2>. HIDE DEF r, Goal
  <2>. QED
    BY <1>3, <2>1, <2>2, <2>3
<1>6. ASSUME NEW d \in Debits, NEW ok, RetryDebit(d, ok), ~ok
      PROVE  Goal
  <2>. DEFINE lost == [debits[d] EXCEPT !.attempt = @ + 1, !.status = "Abandoned"]
              again == [debits[d] EXCEPT !.attempt = @ + 1, !.next = now + Backoff(debits[d].attempt + 1)]
  <2>1. PICK r \in {lost, again} :
          /\ debits[d].status = "Pending" /\ debits' = [debits EXCEPT ![d] = r]
          /\ retry' = retry /\ invoices' = invoices
    BY <1>6 DEF RetryDebit
  <2>2. Backoff(debits[d].attempt + 1) \in Nat
    BY <1>1 DEF Backoff
  <2>3. DebitOf(lost) /\ lost.status = "Abandoned"
    BY <1>1 DEF DebitOf
  <2>4. DebitOf(again) /\ again.status = debits[d].status
    BY <1>1, <2>2 DEF DebitOf
  <2>. HIDE DEF lost, again, Goal
  <2>. QED
    BY <1>3, <2>1, <2>3, <2>4
<1>7. ASSUME NEW d \in Debits, NEW ok, RetryDebit(d, ok), ok
      PROVE  Goal
  <2>0. PICK i : i = debits[d].invoice
    OBVIOUS
  <2>. DEFINE r == [debits[d] EXCEPT !.status = "Succeeded"]
              more == Cycled(invoices[i], invoices[i].nextDue + invoices[i].interval)
  <2>1. /\ debits[d].status = "Pending" /\ debits' = [debits EXCEPT ![d] = r]
        /\ retry' = retry
        /\ i # "None" => invoices[i] # NoCycle
        /\ invoices' = IF i # "None" /\ invoices[i].active
                       THEN [invoices EXCEPT ![i] = more] ELSE invoices
    BY <1>7, <2>0 DEF RetryDebit, Linked
  <2>2. DebitOf(r) /\ r.status = "Succeeded" /\ r.invoice = i /\ r.next \in Nat \ {0}
    BY <1>1, <2>0, <2>1 DEF DebitOf
  <2>3. i \in Invoices => /\ DOMAIN more = DOMAIN invoices[i] /\ more.payments = invoices[i].payments
                          /\ more.interval = invoices[i].interval
                          /\ more.count = invoices[i].count + 1
    BY <1>1 DEF Cycled, CycleOf
  <2>. HIDE DEF r, more
  <2>4. /\ debits' = [b \in Debits |-> debits'[b]] /\ \A b \in Debits : DebitOf(debits'[b])
        /\ debits'[d] = r /\ \A b \in Debits : b # d => debits'[b] = debits[b]
    BY <1>1, <2>1, <2>2
  <2>5. d \notin Retried(i)
    BY <2>1 DEF Retried
  <2>6. Retried(i)' = Retried(i) \cup {d}
    <3>1. \A b \in Debits : b \in Retried(i)' <=> b = d \/ b \in Retried(i)
      BY <2>2, <2>4 DEF Retried
    <3>2. Retried(i)' \subseteq Debits /\ Retried(i) \subseteq Debits
      BY DEF Retried
    <3>. QED
      BY <3>1, <3>2
  <2>7. \A j : j # i => Retried(j)' = Retried(j)
    <3>. SUFFICES ASSUME NEW j, j # i PROVE Retried(j)' = Retried(j)
      OBVIOUS
    <3>1. d \notin Retried(j)' /\ d \notin Retried(j)
      BY <2>0, <2>2, <2>4 DEF Retried
    <3>2. \A b \in Debits : b # d => (b \in Retried(j)' <=> b \in Retried(j))
      BY <2>4 DEF Retried
    <3>3. Retried(j)' \subseteq Debits /\ Retried(j) \subseteq Debits
      BY DEF Retried
    <3>. QED
      BY <3>1, <3>2, <3>3
  <2>8. ASSUME NEW j \in Invoices, j # i
        PROVE  "payments" \in DOMAIN invoices'[j] /\ Charged(j)'
    <3>1. invoices'[j] = invoices[j]
      BY <1>1, <2>1, <2>8
    <3>. QED
      BY <1>1, <2>7, <2>8, <3>1, ChargedKept
  <2>9. ASSUME i \in Invoices
        PROVE  "payments" \in DOMAIN invoices'[i] /\ Charged(i)'
    <3>1. i # "None" /\ invoices[i] # NoCycle
      BY <2>1, <2>9, DebitsAssumption
    <3>2. CASE invoices[i].active
      <4>1. invoices'[i] = more
        BY <1>1, <2>1, <2>9, <3>1, <3>2
      <4>. QED
        BY <1>1, <2>3, <2>5, <2>6, <2>9, <3>1, <3>2, <4>1, ChargedByRetry
    <3>3. CASE ~invoices[i].active
      <4>1. invoices'[i] = invoices[i]
        BY <2>1, <3>3
      <4>. QED
        BY <1>1, <2>5, <2>6, <2>9, <3>1, <3>3, <4>1, ChargedByRetry
    <3>. QED
      BY <3>2, <3>3
  <2>. QED
    <3>1. \A j \in Invoices : "payments" \in DOMAIN invoices'[j] /\ Charged(j)'
      BY <2>8, <2>9
    <3>. QED
      BY <1>1, <2>1, <2>4, <3>1
<1>. HIDE DEF Goal
<1>8. \/ \E base, most \in Terms, n \in 1..3 : SetRetryConfig(base, most, n)
      \/ \E d \in Debits, ok \in BOOLEAN :
           \/ \E c \in Customers, m \in Merchants, i \in Invoices \cup {"None"} :
                InitiateAllowedPayment(d, c, m, i, ok)
           \/ RetryDebit(d, ok)
  BY DEF DebitNext, RetryFailedDebit, TriggerEarlyRetry
<1>9. Goal
  BY <1>4, <1>5, <1>6, <1>7, <1>8
<1>. QED
  BY <1>9 DEF Goal

LEMMA ChargesStep ==
  ASSUME ChargesInv, [Next]_vars
  PROVE  ChargesInv'
<1>1. CyclesInv' /\ RecordInv
  BY CyclesStep DEF ChargesInv, CyclesInv
<1>2. Lawful /\ Recorded
  BY <1>1, StepLawful, StepRecorded DEF RecordInv
<1>3. now' > 0
  BY <1>2 DEF ChargesInv, CyclesInv, Recorded, Clocked
<1>4. Made \subseteq Made'
  BY <1>2 DEF Lawful, Law, Made
<1>5. CASE invoices' = invoices /\ debits' = debits /\ retry' = retry
  <2>1. \A i : Retried(i)' = Retried(i)
    BY <1>5 DEF Retried
  <2>2. \A i \in Invoices : Charged(i)'
    BY <1>4, <1>5, <2>1, ChargedKept DEF ChargesInv
  <2>. QED
    BY <1>1, <1>3, <1>5, <2>2 DEF ChargesInv
<1>6. CASE InvoiceNext
  BY <1>1, <1>3, <1>4, <1>6, InvoiceCharges DEF ChargesInv
<1>7. CASE DebitNext
  BY <1>1, <1>3, <1>4, <1>7, DebitCharges DEF ChargesInv
<1>8. CASE SubscriptionNext \/ PlanNext
  <2>1. (\E s, r : Store(s, r)) => invoices' = invoices /\ debits' = debits /\ retry' = retry
    BY DEF Store, OnlySubs
  <2>2. CASE SubscriptionNext
    BY <1>5, <2>1, <2>2 DEF SubscriptionNext, CreateSubscription, ChargeSubscription,
       CancelSubscription, PauseSubscription, ResumeSubscription, PauseSubscriptionV2,
       ResumeSubscriptionV2, AdminResumeSubscription
  <2>3. CASE PlanNext
    <3>1. ASSUME NEW s, NEW k, ChangeSubscriptionPlan(s, k)
          PROVE  invoices' = invoices /\ debits' = debits /\ retry' = retry
      BY <2>1, <3>1 DEF ChangeSubscriptionPlan
    <3>2. ASSUME NEW k, NEW m, NEW x, NEW d, NEW a, SetSubscriptionPlan(k, m, x, d, a)
          PROVE  invoices' = invoices /\ debits' = debits /\ retry' = retry
      BY <3>2 DEF SetSubscriptionPlan
    <3>. QED
      BY <1>5, <2>3, <3>1, <3>2 DEF PlanNext
  <2>. QED
    BY <1>8, <2>2, <2>3
<1>9. CASE ScheduleNext \/ ConsentNext
  BY <1>5, <1>9 DEF ScheduleNext, ConsentNext, CreateRecurringPayment, ExecuteRecurring,
     CancelRecurringPayment, OnlySchedules, CreateConsentRecord, SignConsent, RevokeConsent,
     StoreConsent
<1>. QED
  BY <1>5, <1>6, <1>7, <1>8, <1>9 DEF Next, RecurringNext, vars, recurringVars

(* Nobody is charged more often than agreed: while an invoice runs, the     *)
(* payments of its trigger and the retried debits that name it are as many  *)
(* as the cycles counted, which stay within its maximum; no cycle is        *)
(* counted without a charge, and its next due date is never earlier than    *)
(* the intervals counted.  A schedule and a subscription keep to their      *)
(* maximum, a subscription to its trial.  What the code leaves out of an    *)
(* invoice's count is named at ChargedAsAgreed.                             *)
THEOREM ChargedAsAgreedAlways == Spec => []ChargedAsAgreed
<1>1. Init => ChargesInv
  <2>. SUFFICES ASSUME Init PROVE ChargesInv
    OBVIOUS
  <2>1. now = 1 /\ RecordInv
    BY InitRecordInv DEF Init, BaseInit
  <2>2. /\ invoices = [i \in Invoices |-> NoCycle] /\ schedules = [k \in Schedules |-> NoCycle]
        /\ subs = [s \in Subs |-> NoSub] /\ debits = [d \in Debits |-> NoDebit]
        /\ retry = [base |-> 1, most |-> 2, attempts |-> 2]
    BY DEF Init, RecurringInit
  <2>3. CycleOf(NoCycle) /\ SubOf(NoSub, now)
    BY <2>1 DEF CycleOf, CyclesWithin, NoCycle, SubOf, NoSub
  <2>4. CyclesInv
    BY <2>1, <2>2, <2>3 DEF CyclesInv
  <2>5. DebitOf(NoDebit) /\ NoDebit.status = "None"
    BY DEF DebitOf, NoDebit
  <2>6. \A i : Retried(i) = {}
    BY <2>2, <2>5 DEF Retried
  <2>7. ASSUME NEW i \in Invoices  PROVE "payments" \in DOMAIN invoices[i] /\ Charged(i)
    <3>1. /\ invoices[i] = NoCycle /\ NoCycle.payments = {} /\ NoCycle.count = 0
          /\ "payments" \in DOMAIN NoCycle
      BY <2>2 DEF NoCycle
    <3>2. Triggered(i) = 0 /\ Charges(i) = 0
      BY <2>6, <3>1, FS_EmptySet DEF Triggered, Charges
    <3>. QED
      BY <2>6, <3>1, <3>2 DEF Charged
  <2>. QED
    BY <2>1, <2>2, <2>4, <2>5, <2>7 DEF ChargesInv
<1>2. ChargesInv /\ [Next]_vars => ChargesInv'
  BY ChargesStep
<1>3. ChargesInv => ChargedAsAgreed
  BY DEF ChargesInv, Charged, CyclesInv, CycleOf, SubOf, ChargedAsAgreed
<1>. QED
  BY <1>1, <1>2, <1>3, PTL DEF Spec

=============================================================================
