------------------------------ MODULE RefundBase ------------------------------
(***************************************************************************)
(* Storage and helpers of the ahjoor-refund contract                       *)
(* (contracts/ahjoor-refund/src/lib.rs), beside the token whitelist it     *)
(* asks.  A panic aborts the call, so what panics is a conjunct here.  The *)
(* customer deposits the tokens of a refund when asking for it; timestamps *)
(* are counted in ledgers of five seconds.                                 *)
(***************************************************************************)
EXTENDS TokenWhitelist, Sequences, SequencesExt

CONSTANTS
  Customers, Merchants, Admin,   \* accounts; others act as delegates
  Payment,        \* the payment contract's completed payments: a function
  Self,           \* this contract, as the whitelist knows it
  ReserveToken,   \* DataKey2::ReserveToken
  MaxRefunds,     \* bound: refund ids
  MaxExtensions,  \* bound: ledgers the admin adds to a deadline
  MaxFraud,       \* bound: fraud score
  MaxAbuse,       \* bound: abuse score
  RefundCfg,      \* instance settings after initialize
  RefundCfgs      \* settings the admin may change them to

ASSUME RefundAssumption ==
  /\ MaxRefunds \in Nat
  /\ IsFiniteSet(Token) /\ IsFiniteSet(Merchants) /\ ReserveToken \in Token
  /\ \A p \in DOMAIN Payment :
       /\ Payment[p].amount \in Nat \ {0}
       /\ Payment[p].merchant \in Merchants /\ Payment[p].token \in Token

VARIABLES
  paused,         \* DataKey::Paused
  cfg,            \* the admin settings
  refund,         \* DataKey::Refund, with CounterOffer and RefundDeadlineExtension
  made,           \* DataKey::RefundCounter
  queue,          \* DataKey::PendingRefundQueue
  held,           \* the contract's balance of each token
  purse,          \* tokens deposited for a refund less tokens given for it
  refunded,       \* DataKey::RefundedAmount of a payment
  reserve,        \* DataKey::MerchantReserve, MerchantReserveBalance, MerchantVolume, ...
  fraud,          \* DataKey::FraudScore and FraudScoreLastUpdate
  abuse,          \* DataKey2::CustomerAbuseRecord
  asked,          \* DataKey::LastRefundRequest
  credit,         \* DataKey::StoreCredit
  terms           \* what a merchant sets: delegates, thresholds, policy

refundVars == <<paused, cfg, refund, made, queue, held, purse, refunded, reserve,
                fraud, abuse, asked, credit, terms>>

Ids == 0 .. MaxRefunds - 1
Bps(x, bps) == (x * bps) \div 10000
Least(x, y) == IF x < y THEN x ELSE y
Greatest(x, y) == IF x > y THEN x ELSE y

(* RefundStatus; EvidencePeriodExpired lasts only within approve_refund,    *)
(* PartiallyApproved and AutoApproved are never stored.                     *)
Reviewed == {"Requested", "EvidenceSubmitted"}
Waiting == Reviewed \cup {"CounterOffered", "EscalatedToSenior"}
Ended == {"Processed", "Cancelled", "CrossContractRefunded"}
RefundStatus == Waiting \cup Ended \cup {"None", "Approved", "Rejected", "UnderAppeal"}

NoOffer == [amount |-> 0, until |-> 0]
NoRefund == [status |-> "None", customer |-> CHOOSE c \in Customers : TRUE,
             merchant |-> CHOOSE m \in Merchants : TRUE,
             payment |-> CHOOSE p \in DOMAIN Payment : TRUE,
             token |-> ReserveToken, amount |-> 0, requested |-> 0, rejected |-> 0,
             evidenceUntil |-> 0, primaryUntil |-> 0, seniorUntil |-> 0,
             autoUntil |-> 0, extended |-> FALSE, extension |-> 0, offer |-> NoOffer]
NoCredit == [some |-> FALSE, amount |-> 0, until |-> 0, extended |-> FALSE]
NoAbuse == [requests |-> 0, score |-> 0, until |-> 0, raised |-> 0, submitted |-> 0]
AnyRefund == [window |-> MaxTime, bps |-> 10000]   \* the global policy unless set
NoPolicy == [window |-> Never, bps |-> 0]          \* of a merchant who published none

(* A call on a refund in one of the states; the contract is not paused.     *)
In(r, states) == ~paused /\ refund[r].status \in states
Merchant(r) == refund[r].merchant
Customer(r) == refund[r].customer

(* is_merchant_delegate, or the admin.                                      *)
Adjudicator(a, r) == a = Admin \/ a \in terms[Merchant(r)].delegates

Finish(r, status) == refund' = [refund EXCEPT ![r].status = status]
Reject(r) == refund' = [refund EXCEPT ![r].status = "Rejected", ![r].rejected = now]

(* remove_from_pending_queue: the entries of other refunds, in their order. *)
Dequeue(r) ==
  LET others == {i \in DOMAIN queue : queue[i] # r} IN
  \E from \in [1 .. Cardinality(others) -> others] :
    /\ Range(from) = others
    /\ \A i, j \in DOMAIN from : i < j => from[i] < from[j]
    /\ queue' = [i \in DOMAIN from |-> queue[from[i]]]

-----------------------------------------------------------------------------
(* Tokens.                                                                  *)

(* The contract gives x of the refund's token out of the refund's deposit,  *)
(* if its balance of the token covers it, whoever deposited it.             *)
Give(r, x) ==
  LET t == refund[r].token IN
  /\ x <= held[t]
  /\ held' = [held EXCEPT ![t] = @ - x]
  /\ purse' = [purse EXCEPT ![r] = @ - x]

(* The refund fee goes to the recipient; without one it stays in the        *)
(* contract.                                                                *)
Fee(r) == Bps(refund[r].amount, cfg.feeBps)
GiveNetOfFee(r) ==
  Give(r, refund[r].amount - (IF cfg.recipient THEN 0 ELSE Fee(r)))

CountRefunded(r) ==
  refunded' = [refunded EXCEPT ![refund[r].payment] = @ + refund[r].amount]

-----------------------------------------------------------------------------
(* Fraud score: one point per event; a point decays per interval, at the    *)
(* next event.                                                              *)

Decayed(c) ==
  IF fraud[c].at # 0 /\ now - fraud[c].at >= cfg.fraudDecay /\ fraud[c].score > 0
  THEN [score |-> fraud[c].score - 1, at |-> now] ELSE fraud[c]
RaiseFraud(c) ==
  LET f == Decayed(c) IN
  fraud' = [fraud EXCEPT ![c] = [score |-> Least(f.score + 1, MaxFraud), at |-> now]]
LowerFraud(c) ==
  LET f == Decayed(c) IN
  fraud' = [fraud EXCEPT ![c] =
              IF f.score = 0 THEN f ELSE [score |-> f.score - 1, at |-> now]]
FraudBlocked(c) == fraud[c].score >= cfg.fraudThreshold

-----------------------------------------------------------------------------
(* Abuse score.                                                             *)

(* load_abuse_record_with_decay: the score times the factor, rounded down,  *)
(* for every period since it was last raised.                               *)
AbuseScore(c) ==
  LET periods == IF cfg.abusePeriod = 0 THEN 0
                 ELSE (now - abuse[c].raised) \div cfg.abusePeriod
      after[n \in 0..MaxTime] ==
        IF n = 0 THEN abuse[c].score ELSE Bps(after[n - 1], cfg.abuseFactor) IN
  after[periods]

(* check_abuse_block; the block it would set for a high score is lost with  *)
(* the panic.                                                               *)
AbuseBlocked(c) ==
  \/ abuse[c].until > 0 /\ now <= abuse[c].until
  \/ cfg.abuseThreshold > 0 /\ AbuseScore(c) >= cfg.abuseThreshold

(* update_abuse_on_request: five points for a rapid submission.  The        *)
(* decayed score is stored, with the time of the last raise unchanged, so   *)
(* the next load lets it decay once more.  Of the requests only whether     *)
(* there was one is kept.                                                   *)
NoteRequest(c) ==
  LET a == abuse[c]
      rapid == a.requests > 0 /\ now - a.submitted < cfg.rapidWindow IN
  abuse' = [abuse EXCEPT ![c] =
    [@ EXCEPT !.requests = 1, !.submitted = now,
       !.score = Least(AbuseScore(c) + (IF rapid THEN 5 ELSE 0), MaxAbuse),
       !.raised = IF rapid THEN now ELSE @]]

(* increment_abuse_score on a denial: a block at the threshold.             *)
NoteDenial(c, points) ==
  LET score == Least(AbuseScore(c) + points, MaxAbuse) IN
  abuse' = [abuse EXCEPT ![c] =
    [@ EXCEPT !.score = score, !.raised = now,
       !.until = IF cfg.abuseThreshold > 0 /\ score >= cfg.abuseThreshold
                 THEN now + cfg.blockSpan ELSE @]]

-----------------------------------------------------------------------------

RefundInit ==
  /\ paused = FALSE /\ cfg = RefundCfg
  /\ refund = [r \in Ids |-> NoRefund] /\ made = 0 /\ queue = <<>>
  /\ held = [t \in Token |-> 0] /\ purse = [r \in Ids |-> 0]
  /\ refunded = [p \in DOMAIN Payment |-> 0]
  /\ reserve = [m \in Merchants |->
       [kept |-> 0, balance |-> 0, volume |-> 0, flagged |-> FALSE, waived |-> 0]]
  /\ fraud = [c \in Customers |-> [score |-> 0, at |-> 0]]
  /\ abuse = [c \in Customers |-> NoAbuse]
  /\ asked = [c \in Customers |-> 0]
  /\ credit = [m \in Merchants |-> [c \in Customers |-> NoCredit]]
  /\ terms = [m \in Merchants |->
       [delegates |-> {}, threshold |-> 0, whitelisted |-> FALSE, exempt |-> FALSE,
        policy |-> NoPolicy]]

=============================================================================
