--------------------------- MODULE PaymentsLifecycle ---------------------------
(***************************************************************************)
(* The life of a payment in ahjoor-payments: how tokens are taken in, and  *)
(* how they leave again when it completes, is captured, cancelled, voided, *)
(* expires or is partly refunded.                                          *)
(***************************************************************************)
EXTENDS PaymentsBase

-----------------------------------------------------------------------------
(* Creation.                                                                *)

(* The next id becomes the record r, and x of token t is taken for it.      *)
NewPayment(r, t, x) ==
  /\ counter < MaxPayments
  /\ pay' = [pay EXCEPT ![counter] = r]
  /\ counter' = counter + 1
  /\ Take(counter, t, x)

Plain(c, m, t, x) ==
  [NoPayment EXCEPT !.status = "Pending", !.customer = c, !.merchant = m,
                    !.token = t, !.amount = x, !.expiresAt = now + cfg.timeout]

(* create_payment_with_expiry: `wait` is execute_after, `life` the          *)
(* merchant's own expiry or 0, `splits` the recipients' basis points; the   *)
(* wrappers add a cooling-off period or the tipping flag to the record.     *)
CreatePayment(c, m, t, x, wait, life, splits, cooling, tipping) ==
  /\ ~paused /\ x > 0
  /\ WithinRate(c, 1)
  /\ TokenAllowed(t) /\ Allowed(m) /\ ReserveMet(m) /\ NotBlocked(m, c) /\ KybMet(m)
  /\ life # 0 => life >= cfg.minLife /\ life <= cfg.maxLife
  /\ splits # <<>> => FoldSeq(+, 0, splits) = AllBps
  /\ cooling <= cfg.maxCooling \/ cfg.maxCooling = 0
  /\ NewPayment([Plain(c, m, t, x) EXCEPT
       !.status = IF wait > now THEN "ScheduledPending" ELSE "Pending",
       !.expiresAt = now + (IF life = 0 THEN cfg.timeout ELSE life),
       !.executeAfter = wait, !.splits = splits, !.coolingOff = cooling,
       !.tipping = tipping], t, x)
  /\ rate' = CountRate(c, 1)
  /\ blocked' = [blocked EXCEPT ![m][c] = Never]
  /\ UNCHANGED <<clockVars, merchantVars, payoutVars, kyb, spendLimit, spent, rewardVars>>

(* create_payments_batch: neither the reserve, the block list nor the KYB    *)
(* record is asked for; the batch stands or falls as a whole.               *)
CreatePaymentsBatch(c, m, t, xs) ==
  LET n == Len(xs) IN
  /\ ~paused /\ n > 0 /\ n <= cfg.maxBatch
  /\ WithinRate(c, n)
  /\ \A i \in DOMAIN xs : xs[i] > 0
  /\ TokenAllowed(t) /\ Allowed(m)
  /\ counter + n <= MaxPayments
  /\ counter' = counter + n
  /\ pay' = [p \in Ids |-> IF p \in counter .. counter + n - 1
                           THEN Plain(c, m, t, xs[p - counter + 1]) ELSE pay[p]]
  /\ purse' = [p \in Ids |-> IF p \in counter .. counter + n - 1
                             THEN xs[p - counter + 1] ELSE purse[p]]
  /\ held' = [held EXCEPT ![t] = @ + FoldSeq(+, 0, xs)]
  /\ rate' = CountRate(c, n)
  /\ UNCHANGED <<clockVars, merchantVars, payoutVars, blocked, kyb, spendLimit,
                 spent, rewardVars>>

(* create_payment_multi_token: the customer pays the oracle's equivalent in *)
(* another token, the payment is recorded in Usdc.  The price is a number   *)
(* of that token's units per hundred of Usdc.                               *)
CreatePaymentMultiToken(c, m, t, x, price) ==
  /\ ~paused /\ x > 0
  /\ WithinRate(c, 1)
  /\ TokenAllowed(t) /\ Allowed(m)
  /\ IF t = Usdc
     THEN NewPayment(Plain(c, m, Usdc, x), Usdc, x)
     ELSE LET need == (x * 100) \div price  worth == (need * price) \div 100 IN
          /\ price > 0 /\ need > 0
          /\ ((x - worth) * AllBps) \div x <= cfg.slippage
          /\ counter < MaxPayments
          /\ counter' = counter + 1
          /\ pay' = [pay EXCEPT ![counter] =
                       [Plain(c, m, Usdc, x) EXCEPT !.rate = price]]
          /\ held' = [held EXCEPT ![t] = @ + need]
          /\ purse' = purse
  /\ rate' = CountRate(c, 1)
  /\ UNCHANGED <<clockVars, merchantVars, payoutVars, blocked, kyb, spendLimit,
                 spent, rewardVars>>

(* Mutant of AuthorizePayment: the merchant's standing is not asked for.    *)
AuthorizeForAnyone(c, m, t, x, deadline) ==
  /\ ~paused /\ x > 0 /\ deadline > now
  /\ TokenAllowed(t)
  /\ NewPayment([Plain(c, m, t, x) EXCEPT !.status = "Authorized",
       !.expiresAt = 0, !.captureDeadline = deadline], t, x)
  /\ UNCHANGED <<clockVars, merchantVars, payoutVars, gateVars, rewardVars>>

(* authorize_payment: tokens are pulled by allowance and wait for capture.  *)
AuthorizePayment(c, m, t, x, deadline) ==
  /\ ~paused /\ x > 0 /\ deadline > now
  /\ TokenAllowed(t) /\ Allowed(m)
  /\ NewPayment([Plain(c, m, t, x) EXCEPT !.status = "Authorized",
       !.expiresAt = 0, !.captureDeadline = deadline], t, x)
  /\ UNCHANGED <<clockVars, merchantVars, payoutVars, gateVars, rewardVars>>

-----------------------------------------------------------------------------
(* Completion.                                                              *)

Expired(p) == pay[p].expiresAt > 0 /\ now >= pay[p].expiresAt

(* settle_dynamic_payment_if_needed: the oracle's price must not have moved *)
(* past the tolerance since creation.                                       *)
RateHolds(p, price) ==
  pay[p].rate # 0 =>
    LET moved == IF price >= pay[p].rate THEN price - pay[p].rate ELSE pay[p].rate - price IN
    (moved * AllBps) \div pay[p].rate <= cfg.slippage

(* complete_payment_internal.                                               *)
CompleteInternal(p, price) ==
  /\ ~Expired(p)
  /\ RateHolds(p, price)
  /\ WithinSpend(pay[p].merchant, pay[p].customer, pay[p].amount)
  /\ spent' = CountSpend(pay[p].merchant, pay[p].customer, pay[p].amount)
  /\ FinalizePayment(p)

(* complete_payment, and complete_payment_with_tip, whose tip goes from the *)
(* customer to the merchant without passing through the contract.           *)
CompletePayment(p, price) == In(p, {"Pending"}) /\ CompleteInternal(p, price)
CompletePaymentWithTip(p, price, tip) ==
  /\ tip > 0 => pay[p].tipping /\ tip <= Bps(pay[p].amount, cfg.maxTip)
  /\ CompletePayment(p, price)

ExecuteScheduledPayment(p) ==
  /\ In(p, {"ScheduledPending"})
  /\ now >= pay[p].executeAfter
  /\ CompleteInternal(p, pay[p].rate)

(* Mutant of CapturePayment: a dispute does not stop it.                    *)
CaptureDisputed(p) ==
  /\ In(p, {"Authorized", "Disputed"})
  /\ now <= pay[p].captureDeadline
  /\ FinalizePayment(p) /\ UNCHANGED spent

CapturePayment(p) ==
  /\ In(p, {"Authorized"})
  /\ now <= pay[p].captureDeadline
  /\ FinalizePayment(p) /\ UNCHANGED spent

-----------------------------------------------------------------------------
(* The other ways out.                                                      *)

(* Everything a step that only moves payments and their tokens leaves alone. *)
OnlyPayments ==
  UNCHANGED <<clockVars, counter, merchantVars, payoutVars, gateVars, referral, commission>>

CancelScheduledPayment(p) ==
  /\ In(p, {"ScheduledPending"})
  /\ now < pay[p].executeAfter
  /\ Give(p, pay[p].amount) /\ Finish(p, "Refunded")
  /\ OnlyPayments /\ UNCHANGED points

VoidAuthorization(p) ==
  /\ In(p, {"Authorized"})
  /\ Give(p, Owed(p)) /\ Finish(p, "Expired")
  /\ OnlyPayments /\ UNCHANGED points

(* Mutant of PastDeadline: an authorization does not lapse.                 *)
PendingPastDeadline(p) == pay[p].status = "Pending" /\ Expired(p)

PastDeadline(p) ==
  \/ pay[p].status = "Pending" /\ Expired(p)
  \/ pay[p].status = "Authorized" /\ now > pay[p].captureDeadline

(* expire_payment: anyone may call it; the whole amount goes back, whatever *)
(* was refunded of it before.                                               *)
ExpirePayment(p) ==
  /\ In(p, {"Pending", "Authorized"}) /\ PastDeadline(p)
  /\ Give(p, pay[p].amount) /\ Finish(p, "Expired")
  /\ OnlyPayments /\ UNCHANGED points

(* bulk_expire_payments: the admin's list; an id that is not due is skipped, *)
(* a disputed one counts as due at its expiry; only what is left goes back. *)
BulkDue(p) == PastDeadline(p) \/ (pay[p].status = "Disputed" /\ Expired(p))

BulkExpirePayments(ps) ==
  LET due == {p \in ps : BulkDue(p)} IN
  /\ ~paused /\ due # {}
  /\ \A t \in Token : SumOwed({p \in due : pay[p].token = t}) <= held[t]
  /\ held' = [t \in Token |-> held[t] - SumOwed({p \in due : pay[p].token = t})]
  /\ purse' = [p \in Ids |-> IF p \in due THEN purse[p] - Owed(p) ELSE purse[p]]
  /\ pay' = [p \in Ids |-> IF p \in due THEN [pay[p] EXCEPT !.status = "Expired"] ELSE pay[p]]
  /\ OnlyPayments /\ UNCHANGED points

(* extend_payment_expiry: also after the expiry it extends.                 *)
ExtendPaymentExpiry(p, ledgers) ==
  /\ In(p, {"Pending"})
  /\ ledgers <= cfg.maxExtension
  /\ pay[p].extensions < cfg.maxExtensions
  /\ pay' = [pay EXCEPT ![p].expiresAt = @ + ledgers, ![p].extensions = @ + 1]
  /\ UNCHANGED tokenVars /\ OnlyPayments /\ UNCHANGED points

(* reverse_points_for_refund: never below zero.                             *)
ReversePoints(c, refund, whole) ==
  LET earned == Earned(whole) IN
  IF whole <= 0 \/ earned <= 0 THEN points
  ELSE [points EXCEPT ![c].balance = Greatest(@ - (refund * earned) \div whole, 0)]

(* Mutant of PartialRefund: a completed payment is refunded too.            *)
RefundCompleted(p, x) ==
  /\ In(p, {"Pending", "Disputed", "Completed"})
  /\ x > 0 /\ x <= Left(p)
  /\ Give(p, x)
  /\ pay' = [pay EXCEPT ![p].refunded = @ + x,
       ![p].status = IF x = Left(p) THEN "Refunded" ELSE @]
  /\ points' = ReversePoints(pay[p].customer, x, pay[p].amount)
  /\ OnlyPayments

(* partial_refund: the admin gives a part back; the status changes only     *)
(* when nothing is left.                                                    *)
PartialRefund(p, x) ==
  /\ In(p, {"Pending", "Disputed"})
  /\ x > 0 /\ x <= Left(p)
  /\ Give(p, x)
  /\ pay' = [pay EXCEPT ![p].refunded = @ + x,
       ![p].status = IF x = Left(p) THEN "Refunded" ELSE @]
  /\ points' = ReversePoints(pay[p].customer, x, pay[p].amount)
  /\ OnlyPayments

(* redeem_points: a discount on a pending payment, in the customer's points, *)
(* not below the floor; the tokens taken for the discount stay where they   *)
(* are.                                                                     *)
RedeemPoints(p, n) ==
  LET c == pay[p].customer
      discount == Bps(n, cfg.redemptionBps)
      net == Greatest(pay[p].amount - discount, cfg.floor)
      used == IF pay[p].amount - net = discount \/ cfg.redemptionBps = 0 THEN n
              ELSE ((pay[p].amount - net) * AllBps) \div cfg.redemptionBps IN
  /\ pay[p].status = "Pending"
  /\ n > 0 /\ n <= Fresh(c)
  /\ points' = [points EXCEPT ![c].balance = Fresh(c) - used]
  /\ pay' = [pay EXCEPT ![p].amount = net]
  /\ UNCHANGED tokenVars /\ OnlyPayments

=============================================================================
