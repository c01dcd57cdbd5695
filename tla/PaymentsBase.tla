----------------------------- MODULE PaymentsBase -----------------------------
(***************************************************************************)
(* Storage, types and helpers of the ahjoor-payments contract              *)
(* (contracts/ahjoor-payments/src/lib.rs).  A contract call is one atomic  *)
(* step: a panic aborts the transaction, so a guard that panics in the     *)
(* code is a conjunct here.  Time is counted in ledgers: a timestamp is a  *)
(* number of ledgers, five seconds each.                                   *)
(***************************************************************************)
EXTENDS Integers, Sequences, FiniteSets, SequencesExt, FiniteSetsExt

CONSTANTS
  Customers, Merchants,   \* accounts
  Token,                  \* token contracts
  Usdc,                   \* DataKey::UsdcToken, the collateral token
  MaxPayments,            \* bound: ids handed out
  MaxTime,                \* bound: last ledger
  Prices,                 \* amounts customers and merchants pass
  Terms,                  \* durations and deadlines they pass
  InitCfg                 \* instance settings after initialize

ASSUME UsdcAssumption == Usdc \in Token
ASSUME BoundsAssumption == MaxPayments \in Nat /\ MaxTime \in Nat
ASSUME InputsAssumption == Prices \subseteq Int /\ Terms \subseteq Nat   \* i128; u32, u64

VARIABLES
  now,          \* ledger sequence and timestamp
  paused,       \* DataKey::Paused
  cfg,          \* the admin settings the handlers read
  pay,          \* DataKey::Payment, with CoolingOffConfig and Settled
  counter,      \* DataKey::PaymentCounter
  held,         \* the contract's balance of each token
  purse,        \* tokens taken for a payment less tokens given for it
  standing,     \* MerchantStatus, MerchantSuspensionExpiry, MerchantApproved
  collateral,   \* DataKey::MerchantCollateral
  queue,        \* DataKey::WithdrawalQueue
  volume,       \* DataKey::MerchantVolumeBucket
  cap,          \* DataKey::VolumeCap, NoLimit when absent
  capped,       \* DataKey::MerchantWindowVolume
  points,       \* DataKey2::LoyaltyBalance and LoyaltyLastAccrualLedger
  rate,         \* DataKey::CustomerRateLimit
  blocked,      \* DataKey2::CustomerBlockEntry, the ledger or Never
  kyb,          \* DataKey2::MerchantKYB
  spendLimit,   \* CustomerSpendLimit, TierSpendingLimit, DefaultSpendLimit
  spent,        \* DataKey2::CustomerSpendWindowState
  preferred,    \* DataKey::PreferredToken
  referral,     \* DataKey2::ReferralRecord
  commission    \* DataKey2::PendingCommission

tokenVars    == <<held, purse>>
paymentVars  == <<pay, counter, tokenVars>>
merchantVars == <<standing, collateral>>
payoutVars   == <<queue, volume, cap, capped, preferred>>
gateVars     == <<rate, blocked, kyb, spendLimit, spent>>
rewardVars   == <<points, referral, commission>>
clockVars    == <<now, paused, cfg>>
baseVars == <<clockVars, paymentVars, merchantVars, payoutVars, gateVars, rewardVars>>

-----------------------------------------------------------------------------

Ids == 0 .. MaxPayments - 1
AllBps == 10000
Bps(x, bps) == (x * bps) \div AllBps
Least(x, y) == IF x < y THEN x ELSE y
Greatest(x, y) == IF x > y THEN x ELSE y

(* PaymentStatus; "None" is an id without a Payment record.                 *)
Escrowed == {"Pending", "ScheduledPending", "PendingApproval", "Authorized"}
Contested == {"Disputed", "EscalatedDispute"}
Closed == {"Completed", "Refunded", "Expired", "CancelledInCoolingOff"}
PaymentStatus == Escrowed \cup Contested \cup Closed \cup {"CoolingOff", "None"}

NoPayment ==
  [status |-> "None", customer |-> CHOOSE c \in Customers : TRUE,
   merchant |-> CHOOSE m \in Merchants : TRUE, token |-> Usdc, amount |-> 0,
   expiresAt |-> 0, refunded |-> 0, executeAfter |-> 0, captureDeadline |-> 0,
   splits |-> <<>>, tipping |-> FALSE, extensions |-> 0, coolingOff |-> 0,
   coolingUntil |-> 0, settled |-> FALSE, rate |-> 0]

TrustTier == {"New", "Standard", "Trusted", "VIP"}
NoLimit == [amount |-> 0, window |-> 0]
NoKyb == [until |-> 0, revoked |-> FALSE, some |-> FALSE]
Never == -1             \* a ledger key that is absent
NoToken == "None"       \* no preferred token
NoReferral == [referrer |-> "None", since |-> 0, window |-> 0]

Left(p) == pay[p].amount - pay[p].refunded
Owed(p) == Greatest(Left(p), 0)
SumOwed(ps) == FoldFunctionOnSet(+, 0, [p \in Ids |-> Owed(p)], ps)

(* The code reads the fields of a payment that exists; one that is not made *)
(* has no status a handler accepts.                                         *)
In(p, states) == ~paused /\ pay[p].status \in states

-----------------------------------------------------------------------------
(* Guards shared by the entry points that take tokens in.                   *)

(* require_merchant_approved: a suspension lapses by itself, a ban does not. *)
Allowed(m) ==
  /\ \/ standing[m].status = "Active"
     \/ standing[m].status = "Suspended" /\ standing[m].until # 0 /\ now > standing[m].until
  /\ cfg.openMode \/ standing[m].approved

(* require_merchant_reserve and require_token_allowed, answered by the      *)
(* refund and whitelist contracts.                                          *)
ReserveMet(m) == m \notin cfg.shortOfReserve
TokenAllowed(t) == t \notin cfg.delisted

(* enforce_rate_limit: a customer's window starts with the first payment,   *)
(* and again once it is as old as its size.                                 *)
RateWindow(c) ==
  IF rate[c].start = Never \/ now - rate[c].start >= cfg.rateWindow
  THEN [count |-> 0, start |-> now] ELSE rate[c]
WithinRate(c, n) == RateWindow(c).count + n <= cfg.rateMax
CountRate(c, n) == [rate EXCEPT ![c] = [RateWindow(c) EXCEPT !.count = @ + n]]

(* A block that has outlived its maximum age is dropped by the next payment. *)
BlockLapsed(m, c) == cfg.blockAge > 0 /\ now - blocked[m][c] > cfg.blockAge
NotBlocked(m, c) == blocked[m][c] = Never \/ BlockLapsed(m, c)

KybMet(m) ==
  cfg.kybRequired => kyb[m].some /\ ~kyb[m].revoked /\ now <= kyb[m].until

(* check_and_update_customer_spend_limit: the customer's own limit, else    *)
(* the one of its trust tier, else the merchant's default.                  *)
LimitFor(m, c) ==
  LET l == spendLimit[m] IN
  CASE l.own[c] # NoLimit -> l.own[c]
    [] l.own[c] = NoLimit /\ l.tier[l.tierOf[c]] # NoLimit -> l.tier[l.tierOf[c]]
    [] OTHER -> l.default
SpendWindow(m, c) ==
  LET w == spent[m][c] IN
  IF w.start = Never \/ now >= w.start + LimitFor(m, c).window
  THEN [start |-> now, spent |-> 0] ELSE w
WithinSpend(m, c, x) ==
  LimitFor(m, c) # NoLimit => SpendWindow(m, c).spent + x <= LimitFor(m, c).amount
CountSpend(m, c, x) ==
  IF LimitFor(m, c) = NoLimit THEN spent
  ELSE [spent EXCEPT ![m][c] = [SpendWindow(m, c) EXCEPT !.spent = @ + x]]

-----------------------------------------------------------------------------
(* Token transfers.  A transfer the contract cannot cover aborts the call.  *)

(* The contract gives x of the payment's token for it.                      *)
Give(p, x) ==
  LET t == pay[p].token IN
  /\ x <= held[t]
  /\ held' = [held EXCEPT ![t] = @ - x]
  /\ purse' = [purse EXCEPT ![p] = @ - x]

(* The contract takes x of token t from a customer for the payment p.       *)
Take(p, t, x) ==
  /\ held' = [held EXCEPT ![t] = @ + x]
  /\ purse' = [purse EXCEPT ![p] = @ + x]

Finish(p, status) == pay' = [pay EXCEPT ![p].status = status]

-----------------------------------------------------------------------------
(* What finalize_payment computes.                                          *)

Bucket == now \div cfg.bucket

(* rolling_merchant_volume: the current bucket and the three before it; the *)
(* subtraction saturates at zero, so in the first buckets of the ledger     *)
(* bucket zero counts again.                                                *)
RollingVolume(m) ==
  FoldFunction(+, 0, [i \in 0..3 |-> volume[m][Greatest(Bucket - i, 0)]])

(* fee_bps_for_volume: the last tier whose minimum is reached.              *)
FeeBpsFor(v) ==
  LET reached == {i \in DOMAIN cfg.tiers : v >= cfg.tiers[i].min} IN
  IF reached = {} THEN cfg.feeBps ELSE cfg.tiers[Max(reached)].bps

Fee(p) == Bps(pay[p].amount, FeeBpsFor(RollingVolume(pay[p].merchant) + pay[p].amount))

(* distribute_net_payment: the share of each split recipient; what rounding *)
(* leaves is the merchant's.                                                *)
Distributed(p, net) ==
  LET shares == FoldSeq(LAMBDA bps, sum : sum + Bps(net, bps), 0, pay[p].splits) IN
  shares + Greatest(net - shares, 0)

(* A swap to the merchant's preferred token is simulated one to one, and    *)
(* only the fee is paid in that token.                                      *)
FeeToken(p) ==
  LET t == preferred[pay[p].merchant] IN
  IF t # NoToken /\ cfg.router THEN t ELSE pay[p].token

(* Fee to the fee recipient, the net amount to the merchant and recipients. *)
PayOut(p) ==
  LET fee == Fee(p)  t == pay[p].token  f == FeeToken(p)
      net == Distributed(p, pay[p].amount - fee)
      left == [held EXCEPT ![f] = @ - fee] IN
  /\ left[f] >= 0 /\ left[t] >= net
  /\ held' = [left EXCEPT ![t] = @ - net]
  /\ purse' = [purse EXCEPT ![p] = @ - net - (IF f = t THEN fee ELSE 0)]

(* check_and_update_merchant_volume_cap.                                    *)
CapBucket(m) == now \div cap[m].window
WithinCap(m, x) ==
  cap[m] # NoLimit => capped[m][CapBucket(m)] + x <= cap[m].amount
CountCapped(m, x) ==
  IF cap[m] = NoLimit THEN capped
  ELSE [capped EXCEPT ![m][CapBucket(m)] = @ + x]

(* maybe_expire_points, then accrue_loyalty_points; a point is earned per   *)
(* unit paid times pointsPerUnit, in hundredths.                            *)
Stale(c) ==
  cfg.pointsLife > 0 /\ points[c].since >= 0 /\ now >= points[c].since + cfg.pointsLife
Fresh(c) == IF Stale(c) THEN 0 ELSE points[c].balance
Earned(x) == (x * cfg.pointsPerUnit) \div 100
Accrue(c, x) ==
  IF cfg.pointsPerUnit = 0 THEN points
  ELSE [points EXCEPT ![c] =
          [balance |-> Fresh(c) + Earned(x),
           since |-> IF Earned(x) > 0 THEN now ELSE @.since]]

(* accrue_referral_commission: a share of the fee, while the referral runs. *)
Referred(m) ==
  /\ referral[m] # NoReferral
  /\ referral[m].window = 0 \/ now <= referral[m].since + referral[m].window
Commission(m, fee) ==
  IF Referred(m)
  THEN [commission EXCEPT ![referral[m].referrer] = @ + Bps(fee, cfg.commissionBps)]
  ELSE commission

(* Mutant of FinalizePayment: the payment is not marked as paid out.        *)
FinalizeUnsettled(p) ==
  LET m == pay[p].merchant  net == pay[p].amount - Fee(p) IN
  /\ WithinCap(m, pay[p].amount)
  /\ PayOut(p)
  /\ capped' = CountCapped(m, pay[p].amount)
  /\ commission' = Commission(m, Fee(p))
  /\ pay' = [pay EXCEPT ![p].status = "Completed", ![p].amount = net]
  /\ volume' = [volume EXCEPT ![m][Bucket] = @ + pay[p].amount]
  /\ queue' = [queue EXCEPT ![m] = Append(@, <<p, net>>)]
  /\ points' = Accrue(pay[p].customer, net)
  /\ UNCHANGED <<clockVars, counter, merchantVars, cap, preferred, referral,
                 rate, blocked, kyb, spendLimit>>

(* finalize_payment: fee, commission, payout, status, net amount as the new  *)
(* amount, settled flag, volume, queue entry and points, in one call.  The  *)
(* whole amount is paid, whatever was refunded of it before.                *)
FinalizePayment(p) ==
  LET m == pay[p].merchant  net == pay[p].amount - Fee(p) IN
  /\ WithinCap(m, pay[p].amount)
  /\ PayOut(p)
  /\ capped' = CountCapped(m, pay[p].amount)
  /\ commission' = Commission(m, Fee(p))
  /\ pay' = [pay EXCEPT ![p] = [@ EXCEPT
       !.status = IF pay[p].coolingOff > 0 THEN "CoolingOff" ELSE "Completed",
       !.coolingUntil = IF pay[p].coolingOff > 0 THEN now + pay[p].coolingOff ELSE @,
       !.amount = net, !.settled = TRUE]]
  /\ volume' = [volume EXCEPT ![m][Bucket] = @ + pay[p].amount]
  /\ queue' = [queue EXCEPT ![m] = Append(@, <<p, net>>)]
  /\ points' = Accrue(pay[p].customer, net)
  /\ UNCHANGED <<clockVars, counter, merchantVars, cap, preferred, referral,
                 rate, blocked, kyb, spendLimit>>

-----------------------------------------------------------------------------

Tick == now < MaxTime /\ now' = now + 1
        /\ UNCHANGED <<paused, cfg, paymentVars, merchantVars, payoutVars, gateVars,
                       rewardVars>>

BaseInit ==
  /\ now = 1 /\ paused = FALSE /\ cfg = InitCfg
  /\ pay = [p \in Ids |-> NoPayment] /\ counter = 0
  /\ held = [t \in Token |-> 0] /\ purse = [p \in Ids |-> 0]
  /\ standing = [m \in Merchants |-> [status |-> "Active", until |-> 0, approved |-> FALSE]]
  /\ collateral = [m \in Merchants |-> 0]
  /\ queue = [m \in Merchants |-> <<>>]
  /\ volume = [m \in Merchants |-> [b \in 0..MaxTime |-> 0]]
  /\ cap = [m \in Merchants |-> NoLimit]
  /\ capped = [m \in Merchants |-> [b \in 0..MaxTime |-> 0]]
  /\ rate = [c \in Customers |-> [count |-> 0, start |-> Never]]
  /\ blocked = [m \in Merchants |-> [c \in Customers |-> Never]]
  /\ kyb = [m \in Merchants |-> NoKyb]
  /\ spendLimit = [m \in Merchants |->
       [own |-> [c \in Customers |-> NoLimit], tierOf |-> [c \in Customers |-> "New"],
        tier |-> [t \in TrustTier |-> NoLimit], default |-> NoLimit]]
  /\ spent = [m \in Merchants |-> [c \in Customers |-> [start |-> Never, spent |-> 0]]]
  /\ preferred = [m \in Merchants |-> NoToken]
  /\ points = [c \in Customers |-> [balance |-> 0, since |-> -1]]
  /\ referral = [m \in Merchants |-> NoReferral]
  /\ commission = [m \in Merchants |-> 0]

=============================================================================
