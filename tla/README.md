# Ahjoor contracts: TLA+ models, checks and proofs

The repository holds Soroban smart contracts for conditional payments: an escrow, a payment processor,
refunds, a rotating savings group (ROSCA) and a token whitelist.  This directory models them in TLA+, checks
the models with TLC on small instances and proves what matters most with TLAPS for every instance.

Four models stand beside each other, one per contract that holds tokens: **escrow** (`Escrow…`), **payments**
(`Payments…`), **refund** together with the **token whitelist** it asks (`Refund…`, `TokenWhitelist`) and
**rosca** (`Rosca…`).  Section 7 says what of them is left out.  Line numbers are of the `src/lib.rs` of the
contract a paragraph is about.

1. The system · 2. The modules · 3. From code to model · 4. What the runs check · 5. What is proved ·
6. Where documents and code disagree · 7. What is left

---

## 1. The system

A contract is a set of entry points over a key-value storage.  A call is one transaction: it runs alone, and a
panic undoes everything it did.  What is hard is therefore never two threads inside a handler; it is the
*order of calls* by several accounts with opposed interests, the time between them, and what a handler assumes
of records an earlier call of somebody else left behind.

### The contracts

| contract | state it keeps | operations | hard part | correct when |
|---|---|---|---|---|
| **ahjoor-escrow** | an `Escrow` per id (parties, amount, status, deadline, terms); beside it a dispute, a pending verdict and its flag, a cancellation request, a deadline proposal, an amendment with signatures, a seller transfer, an inspector's vote, collateral, a receipt, a renewal chain; milestones, stages, partial-release requests; schedules, time locks, lists of approvers, bounties; accrued fees and admin settings | create (alone, pooled, split, inspected, secured, by milestones or schedule, time-locked, as a bounty, in batches), release, expire, dispute, rule, cool off, time out, cancel, amend, extend, top up, transfer roles, inspect, renew, pay in parts, claim, approve | every path pays from *one* token balance shared by all escrows; 14 modelled statuses; a dozen kinds of deadline; settings that change under a running window | each escrow is paid out of its own deposit, once, on grounds the other side could foresee, and nobody can block it for ever |
| **ahjoor-payments** | `Payment` per id (11 statuses), merchant approval, limits and appeals, withdrawal queue, subscriptions, recurring schedules, failed debits, vouchers, loyalty, KYB, mediation cases | create, authorise and capture, complete, dispute, settle in batches, partially refund, expire; queue and process withdrawals; charge, pause, retry subscriptions; vote on a dispute | settlement against dispute, expiry and refund of the same payment; rate windows; retries on a schedule and by hand | a payment is settled or refunded within its amount, once; a limit is never passed by splitting or by timing; no debit is charged twice |
| **ahjoor-refund** | `Refund` per id (13 statuses), refunded totals per payment, counter-offers, evidence, reserves, abuse scores, store credit | request, approve, reject, process, auto-approve and auto-reject, counter, escalate, appeal, batch | one refund, many deadlines, each with a caller of its own | total refunded ≤ payment; each request answered once |
| **ahjoor-rosca** | members, payout order, round and deadline, who paid, defaulters and penalties, proposals and votes, exits, dissolution, auctions, migrations, loans, treasury | contribute, close and finalise a round, penalise, vote, exit, dissolve, bid, swap slots, migrate, merge, split | finalising races contributions, exits and swaps, which all change who is paid how much | each member is paid once a cycle; the pot covers the payout; dissolution pays no more than the pot |
| **ahjoor-token-whitelist** | whitelisted tokens, timed suspensions, per-contract lists, quotas, listing and delisting proposals with stakes | add, remove, suspend, lift, propose, vote, finalise, enact, veto | two proposals over one token; suspension expiring between check and use; stakes | a suspended or vetoed token is refused; a stake is returned or forfeited once |
| **ahjoor-errors** | none | error numbers | – | – |

`contracts/ahjoo-token-whitelist` is an empty misspelt twin; `integration-tests` has no state of its own.

### How they interact

* The whitelist is asked by the four others, at creation or payment, whether a token is allowed.
* Payments and refund share a payment id: refund reads the payment through a call of the payments contract and
  keeps its own count of what was refunded of it.
* Every contract calls the token contract (`transfer`, `transfer_from`).  A refused transfer panics and undoes
  the call; the renewal of an escrow is the exception (`try_transfer_from`, 7502) and goes on without it.
* Each has an admin, a pause, two-step admin transfer, and upgrade.

The whitelist is composed with the contract that leans on it most: `Refund` asks it in every request and at
each deposit of a reserve, while suspensions expire, are extended and tokens are voted off the list.  The other models take its answer
as a setting (`cfg.delisted` of payments) or as "yes".  Payments enter `Refund` as a constant function
(`Payment`): the refund contract never changes a payment, and reads of it only what does not change.

### Inside the escrow contract

The features are coupled through a handful of shared facts, which is what the model is about:

* `escrow.status` gates nearly every entry point, but each has its own list of the statuses it accepts.
* `escrow.amount` is what a release, refund or verdict pays.  Partial releases, disputes of a part,
  amendments and top-ups all rewrite it; approved milestones, claimed tranches and a bounty's milestones do not.
* Parties change while requests and proposals of the old ones are pending.
* Settings (cooling-off, dispute timeout, veto cooldown, default winner) are read when a window *ends*.
* All records lie under the escrow's id, which bounties number in another way than the other creators.

### Inside the others

* **payments**: `Payment.status` and `refunded_amount` are two records of one thing, and every exit reads its
  own choice of them.  A payment leaves the contract on one of a dozen ways, most of which first put it on the
  merchant's withdrawal queue with the net amount as of then.  Merchants come and go (approved, suspended,
  banned, appealing) with payments under way; an invoice is advanced by its trigger and by the retries of a
  debit.
* **refund**: thirteen statuses, five deadlines anyone may enforce, and three roles who may end a refund early.
  Deposits, kept reserves and a merchant's reserve balance lie in one token balance.
* **rosca**: `Members`, `PayoutOrder`, `PaidMembers`, `SuspendedMembers` and `ExitedMembers` are five lists of
  the same people, and a dozen entry points rewrite one or two of them.  The round ends on a count
  (`paid_members.len() == members.len()`), not on who paid.
* **token whitelist**: an entry can go away by four ways while a suspension is attached to it; a holder may vote
  again with other weight.

`PROJECT.json` lists every component, and under `hazards` every behaviour of this code that is hard to test,
at its line, with the properties that cover it.

---

## 2. The modules

| module | models | extends |
|---|---|---|
| `EscrowBase` | storage keys, types, assumptions, helpers, the clock | – |
| `EscrowLifecycle` | creation, collateral, release, partial release, expiry, inactivity, oracle and conditional release, waivers, receipt, metadata, both renewal paths | `EscrowBase` |
| `EscrowDisputes` | dispute of all or a part, verdict with and without cooling-off, flag, timeout, fees, admin settings, pause | `EscrowLifecycle` |
| `EscrowNegotiation` | cancellation, deadline extension, amendment, top-up, seller veto, transfers of roles, inspection | `EscrowDisputes` |
| `Escrow` | these composed: `Next`, `Spec`, the type invariant, the properties | `EscrowNegotiation` |
| `EscrowCustody` | the **abstract specification**: a purse is funded once, may be frozen, ends once | – |
| `EscrowLedger` | the contract's single token balance | `Escrow`, `Sums` |
| `EscrowRequests` | partial releases the *seller* asks for | `EscrowLedger` |
| `EscrowMilestones` | fixed milestones, proportional stages | `EscrowRequests` |
| `EscrowSchedules` | release schedules claimed in order or by tranche, time locks | `EscrowMilestones` |
| `EscrowApprovals` | health of the collateral, release by N of M approvers | `EscrowSchedules` |
| `EscrowBounties` | bounties and milestone bounties | `EscrowApprovals` |
| `EscrowWhole` | all of it composed over one balance: `FullNext`, `FullSpec`, what no part does to another | `EscrowBounties` |
| `MCEscrow` | instances for TLC, liveness | `EscrowWhole` |
| `EscrowMoneyProofs` | proofs of the type invariant, about the money, and of the refinement | `Escrow` |
| `EscrowRecordProofs` | proofs about what is on file: waits, disputes, verdicts, grounds of refunds, amendments, caps of fees, chains of renewals | `EscrowMoneyProofs` |
| `EscrowMilestoneProofs` | proofs about milestones and stages | `EscrowRecordProofs`, `EscrowMilestones`, `SumFacts` |
| `EscrowWholeProofs` | proofs about the whole contract: work on bounties, what leaves an escrow unbalanced | `EscrowWhole`, `SumFacts` |
| `PaymentsBase` | payments: storage, fees, tiers, points, the queue, volume caps | – |
| `PaymentsLifecycle` | creation in its six ways, authorisation and capture, completion, cancellation, expiry, extension, refunds | `PaymentsBase` |
| `PaymentsDisputes` | disputes, evidence, rulings, escalation, mediation by members' votes, settlement, cooling-off | `PaymentsLifecycle` |
| `PaymentsMerchants` | approval, suspension, bans, appeals, KYB, collateral, signature policies, vouchers, referrals, queue, limits, settings | `PaymentsDisputes` |
| `PaymentsRecurring` | subscriptions, plans, invoices, debits and retries, schedules, consents | `PaymentsMerchants` |
| `Payments` | all of it composed, the properties | `PaymentsRecurring` |
| `MCPayments` | instance for TLC, fairness, liveness | `Payments` |
| `PaymentsProofs` | proofs: barred merchants, ended and disputed payments, the queues, what repeats | `Payments` |
| `Sums` | the sum of a function over a set | – |
| `SumFacts` | lemmas: sums over finite sets | `Sums` |
| `TokenWhitelist` | the list, suspensions, allowances per contract, quotas, listing and delisting by vote | `Sums` |
| `RefundBase` | refund: storage, fees, scores, the ways to settle; the question to the whitelist | `TokenWhitelist` |
| `RefundRequests` | requests, review, vouchers, evidence, escalation, counter-offers, deadlines, appeals | `RefundBase` |
| `RefundReserves` | reserves, compliance, delegates, policies, scores, settings, pause | `RefundRequests` |
| `Refund` | refund and whitelist composed, the properties of refunds | `RefundReserves` |
| `MCRefund` | instance for TLC, fairness, liveness | `Refund` |
| `RefundProofs` | proofs: refunds paid once, the books, the admin's queue, suspensions, ballots | `Refund`, `SumFacts` |
| `RoscaBase` | rosca: storage, payout, penalties, promotion from the waitlist | – |
| `RoscaRounds` | contributions (own, by proxy, with co-signer), skips, end of a round, fines, rewards, pauses | `RoscaBase` |
| `RoscaMembers` | roster, exits, swaps, both auctions, merge, split | `RoscaRounds` |
| `RoscaGovernance` | proposals and votes, both delegations, reinstatement, emergency payouts, dissolution | `RoscaMembers` |
| `Rosca` | all of it composed, the properties | `RoscaGovernance` |
| `MCRosca` | instance for TLC | `Rosca` |
| `RoscaProofs` | proofs: votes counted once, places on the payout order, rounds paid once | `Rosca`, `SumFacts` |

The split between `Escrow` and `EscrowLedger` is a finding in itself.  In `Escrow` every entry point keeps
each escrow balanced on its own, so no shared balance is needed and everything can be proved escrow by escrow.
The answers to requests (4229), the milestones (2434), the claims of schedules (7110) and of bounties' milestones
(6338) pay without looking at what the escrow still holds, and a bounty's id is taken again (5668);
with them an escrow may be paid from another's deposit, and what stops it is the token contract, which
`EscrowLedger` adds (`TokenAllows`): a call that would move more than the contract holds, or a negative amount in
either direction, fails as a whole.

---

## 3. From code to model

**State.**  A variable is a `DataKey`, or a group of keys that are read together, as a function of the id or
account it is stored under; its declaration names the keys.  An absent key is what its reader falls back to
(`NoRequest`, `NoVerdict`, `NoLimit`, `Never`, …).  Records keep the fields some handler reads.  Three kinds of
variable are not storage but what the *token contract* knows: `received` and `paid` (escrow), `held` and `purse`
(payments, refund: the balance, and the tokens taken for an id less those given for it), the group's balance
(rosca).  No handler reads a purse; the properties do.

**Actions.**  One per entry point, named as in Rust (`release_escrow` is `ReleaseEscrow`).  Conditions that
panic are conjuncts: a call that panics changes nothing and is not a step.  A handler with several ends (a
release that renews, fails to renew, or does not) is a disjunction of operators named for the ends.  What a
handler calls last (burning the receipt, the renewal, the queue entry, the score) is part of the action.

**Callers.**  `require_auth` is a quantifier; "only X" checks are guards.  Where the only possible caller is
fixed (the arbiter in `ResolveDispute`) it is no parameter.

**Abstractions of all models.**

* `i128` overflow aborts in the release profile (`overflow-checks`), so integers are unbounded.
* One clock for timestamps and ledger sequence numbers; several calls may happen at one time.  Intervals the
  code counts in seconds or days are numbers of ledgers.
* Reasons, hashes, metadata, statistics, indexes by customer or merchant and events are left out.

**Escrow.**

* One token.  The whitelist's answer, asked when an escrow is created, is "yes".
* The `Escrow` struct is two variables: `escrow`, the fields that change, and `terms`, those fixed at creation.
* The sellers of a multi-seller escrow are one side, the buyers of a pooled one too; how they split among
  themselves is not kept.  Unanimity of pooled buyers is (`approvals`).
* The allowance a renewal draws on belongs to the buyer and may be gone: a configured renewal may fail
  (`ReleaseOnly`) at any time.  The older path fails by panicking, so it has no such outcome.
* The admin settings a running window re-reads may be changed by the model's admin (cooling-off, timeout,
  default winner, veto cooldown).  Others are arbitrary but constant.
* `TokenAllows` uses the balance of the modelled features; accrued fees are part of it.
* A receipt is not handed on while fixed milestones or a pending request exist (1745), which `EscrowBase` does
  not know of: `ReceiptStays` adds that guard where they are.  Its holder is paid as the seller's side.
* `received` adds up what came in under an id, since a bounty and the escrow created after it share one.
* A verdict also adds its fees to what a bounty's record says was disbursed (2863, 2885), when there is one under the
  id.  A bounty cannot be disputed, so that is one whose id an escrow has taken since; only `cancel_bounty` of an open
  bounty computes with the number, and it is left out.
* A bounty's placeholder of a seller is the contract itself, here `NoAddr`; a submission is known by who made it.
  Whether the oracle's price makes the collateral too small is free, unless there is none.

**Payments.**

* Tokens are kept apart; the oracle's price and the router's swap are one to one or a percentage (`rate`).
* The answers of the whitelist and of the refund contract's reserve are settings (`delisted`,
  `shortOfReserve`).  The tier tables are read as sequences, the volume buckets as a function of the bucket.
* Subscriptions, debits and schedules move tokens from customer to merchant and never touch the contract's
  balance: whether such a transfer succeeds is a parameter (`ok`) where the code goes on after a failure.
* Of the admin's settings all that a handler reads are in `cfg`, and each setter is an action.

**Refund and whitelist.**

* The payment of a refund is a constant (`Payment`): the fields read of it do not change in the other contract.
* Fees, tiers and volumes are the code's integer arithmetic; priorities, policy tags and reason codes are not
  kept.  `check_abuse_block` and `submit_evidence` write and then panic (4908, 4194): nothing of it is kept.
* What a voter holds of the whitelist's governance token is a constant and the weight of a vote any part of it;
  a vote does not lock it in the code either.

**Rosca.**

* The base token, no tiers and no discount by reputation; the score is a constant (`Score`).  Coverage "partial"
  and "full" do the same.  Settings are those of the group's `init` and stay (`cfg`).
* Delegations are in temporary storage and taken to live as long as the behaviour.
* The five lists of members, the order, the history and the round are one record (`group`), since a handler
  rewrites several of them at once.

**Operators called `…Unsaved`, `…Anytime`, `…TooSoon`** and the like are marked as mutants in their comments.
No action uses one: each is a plausible bug of the definition that follows it, and shows that a property
notices it.

---

## 4. What the runs check

A behaviour of an MC run has a *focus*, chosen initially: the groups of entry points called in it, and for some
the requests or settings it starts from.  All interleavings of the groups of a focus are explored, which
crosses the features that meet in the code; crossing all of them at once is far beyond TLC and is what the
proofs are for.

| run | foci | instance | clock | distinct states |
|---|---|---|---|---|
| `EscrowMoney` | disputes, releases, cancellations, amendments | 1 escrow | 0–3 | 316 702 |
| `EscrowTerms` | renewals, amendments, parties | up to 3 escrows in a chain | 0–2 | 270 118 |
| `EscrowParts` | requests, milestones, stages, schedules, timelocks, options, bounties | 2 escrows sharing the balance, or a bounty and 2 escrows | 0–1 to 0–3 | 400 349 |
| `EscrowLive` | deadlines, answers | 1 escrow | 0–4 | 66 690 |
| `Payments` | exits, disputes, evidence, mediation, settlement, cooling, tokens, approvals, vouchers, standing, gates, limits, spending, rewards, settings, subscriptions, debits, schedules, ends | 2 payments, 2 merchants, 2 tokens | 1–4 | 218 802 |
| `Refund` | review, appeals, offers, escalation, vouchers, reserves, scores, terms, settings, ends, listing, quotas, votes, tokens | 2 refunds, 2 tokens, 2 voters | 1–5 | 376 264 |
| `Rosca` | rounds, fines, proxies, co-signers, saving, timing, joining, exits, swaps, bids, sealed, regrouping, votes, reinstating, aid, ending | 3 founders and one who may join | 1–5 | 228 053 |

**Bounds and why they are enough.**

*Escrow.*  `MaxTime`: in `EscrowMoney` the longest window is 2 (dispute timeout, veto cooldown, the escrow's
deadline), so 3 shows before, at and after each; in `EscrowTerms` the windows are 1 and the clock goes to 2; in
`EscrowParts` a request's window of 1 is over when it is reached, the tranches unlock at 1, 1 and 2, a time lock
opens at 1, and a bounty's two deadlines are 1 and 2, each with a tick to spare where one escrow is alone
(`LastTick`); the liveness run has 4, so that
a window started late still ends.  `MaxEscrows`: without milestones and requests no handler touches two escrows
but the renewal, which needs a chain (first, successor, successor's successor); with them two escrows show one
paid from the other, and three ids a bounty between two escrows, one of which takes its id.  `MaxRounds` (nonces of an amendment) is 1: a proposal and the one that replaces it.
`MaxRequests` is 1: with two the second starts from the record the first left, which is none.  Amounts are 100,
40 and 120 (below, partial, above) because basis points of smaller ones vanish; stages use an odd deposit, 101,
so that rounding leaves a remainder.  `MaxRejections` is 1 (the code's default is 3): one rejection shows a second
solver, and the limit.  `MaxCollateral` (120) is one top-up above the collateral asked for.  Three tranches are the
least a claim out of order can make the index jump over.  Verdicts are 0, 30 and 100 percent: each side wins, and a split.
Creation requests cover every option that changes a handler: locked, own timeout and fee, secured, pooled,
priced by oracle, inspected, three renewal configurations, one party on both sides.  Two lists of approvers: two
accounts, and one account named twice.

*Payments.*  Two payments are the least for which a queue has an order, a settlement names two ids, or one
payment is paid from the other's tokens; foci about one payment's own windows make one (`OnePayment`).  All
periods are one or two ledgers, so a clock of four shows before, at and after each, and one started by another.
Prices 40 and 100 lie on both sides of the fee tier, the signature threshold and the limits.  `MaxCases = 1`: no
handler reads two mediation cases, and a verdict is executed after the payment has moved on.  One setting is
changed per behaviour (`SetUpFirst`), at any time.

*Refund.*  Two refunds of payments in two tokens: the second asks for what the first left, from the same
reserve.  Four configurations cross fee or none, senior's silence as consent or not, tiers by age, and a policy.
Spans are one or two, and five ledgers let an offer expire, be escalated and time out.  One proposal of a kind
(`MaxProposals = 1`) with two voters, one of whom carries the quorum alone.

*Rosca.*  Three members and one more who may join are the least with a majority, an order worth swapping and a
waitlist.  A contribution is two units so that a partial one exists.  `MaxRound = 3`: a full cycle, after which
the round starts again.  Each focus has the settings it is about, both ways where a setting changes a handler.
Outside the foci about them contributions complete what is due, members contribute in turn where only who paid
matters (`InFull`, `InTurn`, `Few`), and one request of a kind is open; these restrictions are
conjuncts of `MCRosca`'s next-state relation and named there.

`CHECK_DEADLOCK FALSE`: the bounded clock and ids stop; so does an ended escrow.  No symmetry is used: the
accounts have different roles.

### Passing runs

`EscrowMoney` and `EscrowTerms` (invariants)

* `Backed`: what came in for an escrow and was not paid out is exactly what the contract owes its parties.
* `NothingNegative`: an escrow that has not ended holds something; nobody is paid a negative amount.
* `WaitingIsRecorded`: an escrow waiting for somebody has the record its exits read, otherwise all of them
  panic and it is stuck.  A dispute has its start, a pending cancellation an initiator who is *still* a party.
* `FeesCapped`: arbiter and protocol stay within 10% and 2% of all paid in, over the escrow's life.
* `RenewalChainBounded`: a chain never outgrows its cycles, and grows at its end only.
* `TypeOK`: one type invariant; its only number that could go wrong is the older renewal allowance.

(action properties)

* `TerminalIsFinal`: an ended escrow never moves again.
* `DisputeFreezes`: until a dispute is resolved tokens leave only by an amendment both sides signed.
* `VerdictCoolsOff`: a recorded verdict is carried out as recorded, after its window, with no flag up.
* `RefundHasGrounds`: buyers get tokens back only on one of five grounds; no sequence of theirs alone suffices.
* `SellerWaits`: the seller is paid nothing while collateral, an answer, a decision or an inspection is due.
* `AmendedOnce`: no proposal is applied twice, by the second signature or by `apply_amendment`.
* `ImplementsCustody`: the contract implements `EscrowCustody` (section 5).

`EscrowMoney` checks `Backed`, `NothingNegative`, `WaitingIsRecorded`, `FeesCapped`, and all of the second list
but `AmendedOnce`; `EscrowTerms` checks `TypeOK`, `RenewalChainBounded`, `WaitingIsRecorded` and `AmendedOnce`
(`Backed` is proved for renewals as for the rest).

`EscrowParts`

* `OnlyKnownStepsUnbalance`: what an escrow received and did not pay is what it owes over its amount, its
  tranches, its bounty's milestones and its collateral, and exactly four kinds of step break that: the answer to a
  request that outlived its escrow or the amount it asked for (`LateAnswer`); a claim by schedule of an escrow other
  calls changed, or other calls after a claim (`TranchesMixed`); a bounty with milestones paid as a whole or
  amended (`BountyMixed`); an escrow created under a bounty's id (`IdTaken`).  Each of the four occurs in the run:
  without it the property fails.  Milestones and stages are left to the next two.
* `SubmissionIsSolvers`: the work on record is the work of the solver an approval would pay, through rejections
  and new claims.
* `MilestonesAddUp`: fixed milestones pay what was approved, and the one that ends the escrow has paid all.
* `StagesLeaveNothing`: whatever the order of approval and resubmission, no remainder stays behind.

`EscrowLive` (with fairness)

* `DisputeEnds`, `VerdictCarriedOut`, `CancellationEnds`, `SellerTransferEnds`, `RequestAnswered`.

`Payments`

* `QueueListsPayouts`: a merchant's queue lists each payout once, with the net amount that was paid, however
  entries are prioritised, processed, and joined by later completions, cancellations and verdicts.
* `ChargedAsAgreed`: an invoice is charged by payments its trigger makes *and* by retried debits.  While it runs,
  the cycles counted are exactly these charges, and within its maximum; no cycle is counted that was not charged;
  due dates keep their intervals.  A schedule keeps to its maximum, a subscription to its charges and its trial
  through pauses and plans.  Two charges the code does not count are left out (section 6): the debit that succeeds
  at once, and the retry that succeeds after the invoice ended.
* `PaidFromOwnPurse`: a payment is paid out of its own tokens, but in the ways the code leaves open, which the
  property lists (section 6).
* `DisputeHolds`: tokens of a disputed payment move only with the end of the dispute or the admin's partial
  refund, and a dispute ends only by a ruling or, before its escalation, by the admin.
* `ClosedIsFinal`: what has ended stays ended, but for a late verdict of the mediators.
* `NoPaymentForBarred`: none of the ways to make a payment takes one in for a barred merchant.
* `PaymentEnds`, `DebitEnds` (with fairness): a payment nobody completes is given back; a failed debit is paid
  or abandoned, whatever early retries did to its schedule, if the invoice it names exists: else its retry panics.

`Refund`

* `PaidOnce`: a refund may be paid from two sides, and from each once: from its merchant's reserve when it is
  approved, for at most its amount, and from its own deposit, for at most its amount, by whichever of six roles and
  deadlines comes first.  Never both in one call, but the two are not offset against each other: an approved refund
  may get both (section 6).  An appealed rejection, whose deposit is paid twice, is the one exception.
* `HeldAddsUp`: the contract's tokens are the deposits and both reserves, to the unit.
* `QueueListsWaiting`: the admin's queue holds each waiting refund once and none that was answered there.
* `SuspendedIsListed`: a suspension is always of a listed token, whichever of the four ways a token leaves.
* `BallotsCounted`: tallies are what the voters staked, also where one votes again with other weight.
* `RefundEnds` (with fairness): no refund waits for ever on an absent admin, merchant or reviewer.

`Rosca`

* `PlaceKept`: nobody who stays loses a turn and nobody joins without one, through demotions, swaps, auctions,
  the shuffle, reinstatements, promotions, merges and votes.
* `RoundPaidOnce`: rounds pass one at a time and are paid once, by the last contribution or late by
  `finalize_round`, never both; whoever is paid was not suspended, gone or skipping.
* `VotesCounted`: a tally is the number of ballots, whether a delegate, a proxy or the account itself voted
  first.

**Fairness.**  Weak fairness of the clock, and of calls that *anyone* may make once a deadline is over; whoever
waits for the tokens has reason to.  Escrow: `enforce_dispute_timeout`, `finalize_resolution`,
`expire_cancellation`, `expire_seller_transfer_veto`, and the seller's own escalation of an unanswered request.
Payments: `expire_payment` and `expire_pending_approval` (focus "ends") and `retry_failed_debit` (focus
"debits", with either answer of the token contract).  Refund: `auto_reject_stale_refund`, `escalate_to_senior`,
`trigger_senior_auto_approve`, `settle_expired_counter_offer` (focus "ends", with a senior reviewer configured
whose silence approves).  Nothing is assumed of buyers, arbiters, merchants, reviewers or admins: that they may
stay silent is what the deadlines are for.  A paused contract refuses all calls, and an admin who keeps moving a
setting can keep a window open; so pause and settings are not called in these foci, and the properties are to
be read "as long as the admin leaves the contract alone".  They speak of windows that end within the bounded
clock.  Rosca has no liveness property: `close_round` and `finalize_round` are the admin's alone, so no fairness
its scheduling justifies ends a round a member does not pay.

Every property of a passing run has a mutant in `PROJECT.json`: a plausible bug of one mapped definition under
which TLC finds that property violated, with the run's own bounds.

### Violations: what a comment or document says and the code does not do

| run | property | what happens |
|---|---|---|
| `VetoOverride` | `OverrideLiftsVeto` | `admin_override_veto` (8174) stamps the key the release blocks on, so the override prolongs the block it should lift |
| `BountyId` | `UnclaimedStaysOpen` | the escrow created after a bounty takes its id (5668, 7433): the bounty can be neither claimed nor cancelled, and its deposit stays behind |
| `RequestFreeze` | `DisputeStopsBuyer` | the buyer alone pays tokens out of a disputed escrow by approving a request (4219) |
| `EscalatedTimeout` | `EscalationEnds` | a dispute raised by escalation has no recorded start, so its timeout can never be enforced (4363) |
| `StageRemainder` | `StagesPayDeposit` | the last stage takes what is not yet approved; approved before the others, the stages pay more than the deposit (8723) |

---

## 5. What is proved

The escrow's theorems are about `Spec`, the entry points of `Escrow`, but for the two of `EscrowWholeProofs`, which
are about all of them (`FullSpec`), and the two of `EscrowMilestoneProofs` (`PlanSpec`, below).  Each theorem holds
for every set of accounts, amounts, times, percentages, bounds and settings that satisfies the module's assumptions.
No assumption is made about order, caller or time.

| theorem | module | states |
|---|---|---|
| `TypeCorrect` | `EscrowMoneyProofs` | `Spec => []TypeOK` |
| `BackedAlways` | `EscrowMoneyProofs` | `Spec => []Backed` |
| `NothingNegativeAlways` | `EscrowMoneyProofs` | `Spec => []NothingNegative` |
| `TerminalStaysFinal` | `EscrowMoneyProofs` | `Spec => TerminalIsFinal` |
| `ContractImplementsCustody` | `EscrowMoneyProofs` | `Spec => ImplementsCustody` |
| `WaitingIsRecordedAlways` | `EscrowRecordProofs` | `Spec => []WaitingIsRecorded` |
| `FeesCappedAlways` | `EscrowRecordProofs` | `Spec => []FeesCapped` |
| `DisputeFreezesAlways` | `EscrowRecordProofs` | `Spec => DisputeFreezes` |
| `VerdictCoolsOffAlways` | `EscrowRecordProofs` | `Spec => VerdictCoolsOff` |
| `RefundHasGroundsAlways` | `EscrowRecordProofs` | `Spec => RefundHasGrounds` |
| `SellerWaitsAlways` | `EscrowRecordProofs` | `Spec => SellerWaits` |
| `AmendedOnceAlways` | `EscrowRecordProofs` | `Spec => AmendedOnce` |
| `RenewalChainBoundedAlways` | `EscrowRecordProofs` | `Spec => []RenewalChainBounded` |
| `MilestonesAddUpAlways` | `EscrowMilestoneProofs` | `PlanSpec => []MilestonesAddUp` |
| `StagesLeaveNothingAlways` | `EscrowMilestoneProofs` | `PlanSpec => []StagesLeaveNothing` |
| `SubmissionIsSolversAlways` | `EscrowWholeProofs` | `FullSpec => []SubmissionIsSolvers` |
| `OnlyKnownStepsUnbalanceAlways` | `EscrowWholeProofs` | `FullSpec => OnlyKnownStepsUnbalance` |
| `NoPaymentForBarredAlways` | `PaymentsProofs` | `Spec => NoPaymentForBarred` |
| `ClosedStaysFinal` | `PaymentsProofs` | `Spec => ClosedIsFinal` |
| `DisputeHoldsAlways` | `PaymentsProofs` | `Spec => DisputeHolds` |
| `QueueListsPayoutsAlways` | `PaymentsProofs` | `Spec => []QueueListsPayouts` |
| `ChargedAsAgreedAlways` | `PaymentsProofs` | `Spec => []ChargedAsAgreed` |
| `PaidOnceAlways` | `RefundProofs` | `Spec => PaidOnce` |
| `HeldAddsUpAlways` | `RefundProofs` | `Spec => []HeldAddsUp` |
| `QueueListsWaitingAlways` | `RefundProofs` | `Spec => []QueueListsWaiting` |
| `SuspendedIsListedAlways` | `RefundProofs` | `Spec => []SuspendedIsListed` |
| `BallotsCountedAlways` | `RefundProofs` | `Spec => []BallotsCounted` |
| `VotesCountedAlways` | `RoscaProofs` | `Spec => []VotesCounted` |
| `PlaceKeptAlways` | `RoscaProofs` | `Spec => PlaceKept` |
| `RoundPaidOnceAlways` | `RoscaProofs` | `Spec => RoundPaidOnce` |

### Escrow

Assumed:

* `BoundsAssumption`: at least one escrow id, a finite non-empty set of accounts, `NoAddr` not one of them;
* `InputAssumption`: callers pass integers and naturals (as Rust's types make them), and the initial settings
  lie in the ranges the setters enforce (`Config`);
* `RoundsAssumption`: the bound on nonces is a natural number;
* for `PlanSpec` also `SchedulesAssumption`; for `FullSpec` `SchedulesAssumption`, `TranchesAssumption` and
  `BountiesAssumption` (lists of milestones, of tranches and of a bounty's steps have positive amounts, as the loops
  at 2368, 8559, 6882 and 6123 demand) and `ApprovalsAssumption` (the setters' ranges at 6519 and 6683).

Amounts and percentages include the invalid ones; the handlers' own guards refuse them.

**`EscrowMoneyProofs`: types.**  `TypeOK` is inductive as it stands: every handler checks what it writes.  It is a
conjunction of eight parts, one per group of variables.  Each entry point has a lemma that it keeps the parts
it writes; `Frames` covers the parts it leaves alone.

**`EscrowMoneyProofs`: money.**  `Backed` alone is not inductive.  A creation must find its id unused, an amendment
must not write a negative amount, a recorded verdict must be a percentage, and an escrow still waiting for
collateral must not be holding any.  The invariant is

    MoneyInv == TypeOK /\ Records /\ Funds /\ Backed /\ NothingNegative

where `Records` says that recorded amendments and verdicts are sound and `Funds` that ids above the counter are
untouched and collateral is held only once deposited.  `MoneyInv` was model-checked before it was proved.

There are more than fifty entry points and four properties.  Instead of proving each of each, every entry point is
shown to have one of four **shapes**: it moves no money (`Quiet`), moves one escrow's (`MovesOnly`), creates
one (`BornOnly`), or ends one and creates its successor (`Renewed`).  `StepShaped` collects this.  Each
property is then proved of the four shapes (`ShapedBacked`, `ShapedFunds`, `ShapedNothingNegative`,
`ShapedFinal`).  The arithmetic that matters is in `BpsBound`, `PercentBound` and `VerdictShares`: the protocol
fee, the arbiter's fee and the two shares of a verdict are each non-negative and add up to the amount, for
every amount.

**The refinement.**  `EscrowCustody` knows of each escrow a phase (unborn, open, frozen, ended) and what it
holds.  The mapping is

    Phases == [e \in Ids |-> Phase(e)]       \* status, with CoolingOff frozen
    Purses == [e \in Ids |-> received[e] - TotalPaid(e)]

so the abstract purse is what the *token ledger* says, not what the contract records.  That both agree is
`Backed`.  A `Quiet` step is a stutter; a `MovesOnly` step is a deposit, a payment, a freeze or an end; a
`BornOnly` step funds a purse; a `Renewed` one is `RenewPurse`.

**`EscrowRecordProofs`.**  `WaitingIsRecorded` is about pairs of records in several keys, and which of them go
together depends on how the wait began.  Its strengthening relates every waiting status to its record in both
directions:

    RecordInv == MoneyInv /\ Files /\ \A e \in Ids : Charged(e)

`Files` says that an escrow is frozen exactly while its dispute is open (in cooling-off too), is in cooling-off
exactly while a verdict is recorded, and so on, and that the nonce of an amendment lies behind the counter;
`Charged` that no fee was taken out of an escrow that goes on and what was taken at its end is within the caps.
The five action properties are consequences of one *law of a step* for each escrow (`Law`), which says what the
step may do given the status, and keeps the files: an escrow the step does not touch obeys it (`SameLaw`), and for
the escrow a call is made on it is shown once for each entry point.  `FeesCapped` needs the law because fees are
paid by verdicts, forfeits and penalties alike, and the caps are of what *came in*, not of the amount, which
amendments and partial releases rewrite; the division of rounded shares is `EscrowMoneyProofs`'.

*Chains.*  `RenewalChainBounded` looks from a root at its successors.  It is not inductive,
since a release renews whatever escrow it is called on, and only the *last* one of a chain may be open:

    ChainInv == MoneyInv /\ Chains

`Chains` adds the view from the successor: it knows its root and its own place in the root's history, has no
history itself, and carries the root's limit.  A step leaves chains alone (`Still`), starts one (`Rooted`) or adds
one at the end (`Grown`); that a renewed escrow is its chain's last is `OpenIsLast`, which rests on
ended escrows staying ended.

**`EscrowMilestoneProofs`.**  Approving a milestone pays the seller without reducing the amount on record, so beside
releases and refunds of the same escrow neither property holds (section 6), and the theorems are of `PlanSpec`: every
entry point of milestones and stages, and beside them every plain one on escrows *without* milestones or stages.  An
escrow that has them may be called too, flagged, extended, vetoed and disputed, as long as the call leaves alone its
amount, what came in and what was paid, or is part of a dispute, which pays by its verdict.

`Backed` is broken here, so the proofs about the money do not carry over.  `BaseInv` collects what the plain entry
points keep without it, and adds that a dispute is on file of a frozen or ended escrow only.  The invariant is

    PlanInv == BaseInv /\ PlanType /\ PlanBooks

`PlanBooks` says of milestones that their sum was paid in and the approved ones paid out (`MilestoneBook`), and of
stages (`StageBook`) that the approved ones were paid at least their shares.  That is not enough: the stage that pays the
remainder is the *last of the list*, not the last approved, and a stage approved after it pays its own share again.
So `StagePaid` distinguishes whether the last of the list is among the approved: if it is, all of the deposit was paid,
whatever follows.  That the remainder is not negative is not needed: a payment is the remainder as computed.  `PlanInv` was
checked by TLC over `PlanSpec` before it was proved.  A plain step on an escrow with a plan is `Undisturbed`; that
such a step cannot end it undisputed is `UnpaidUnreleased`: nothing is released without paying.

**`EscrowWholeProofs`.**  Bounties share ids and records with every other escrow, and most calls ask for nothing but
a status or none at all: a deadline is extended, an amendment carried out, an inspector replaced on a bounty as well.
No invariant of the amounts holds there, so the strengthening is only that the records read exist:

    SolversInv == Filed /\ BountyFiled /\ SubmissionIsSolvers

Every other entry point is `Apart`: it makes no record a bounty, and one that was a bounty keeps status and seller
(a new escrow that takes a bounty's id is none any more).  Then the bounties' own calls are gone through.

*The balance.*  `OnlyKnownStepsUnbalance` says of an escrow that is covered by its own deposits what a step may do
to it; the step may be a call on *another* escrow that pays from this one's, on an escrow that is not covered, or
on one under a bounty's id.  So nothing about covered escrows can be assumed of the others, and the invariant holds
of all of them:

    Ledgers == Shapes /\ \A f \in Ids : Typed(f) /\ Reached(f) /\ Counted(f)

The amounts are integers, possibly negative (`Typed`); an id the counter has not reached has no request, collateral
or tranches, and only a bounty may already stand there (`Reached`); and what a bounty's record says was disbursed is
the sum of the steps that are marked paid (`Counted`), which a verification changes on both sides.  `Planned` adds
the records of milestones.

The *law of a step* (`Law`) has three cases for each escrow.  `Even`: what came in, went out and is owed move
together, whatever they were.  `Claims`: a set of tranches not claimed before is paid, and nothing
else happens.  `Known`: the step is one of the known kinds.  Every entry point is shown to obey it for the escrow it
is called on and for the others, mostly by one of a few forms: nothing moves (`UntouchedLawful`), one record is
rewritten and paid for (`OneLawful`, `PaysLawful`, `SettleLawful`), a new escrow is stored (`BornLaw`, also for
renewals).  That `Even` and `Claims` keep an escrow covered is then arithmetic over sums (`EvenBalanced`,
`ClaimsBalanced`): the claimed tranches before and after are sums over two sets, and `SumTogether` of `SumFacts`
adds the new ones.  `Even` does it only if no tranche was claimed or the schedule is new; an
escrow that has claimed some and is otherwise paid is `TranchesMixed`.

### Payments

Assumed: `BoundsAssumption` and `CasesAssumption` (the bounds are natural numbers), `InputsAssumption` (prices
are integers, terms naturals, as Rust's types make them), `UsdcAssumption` (the collateral token is one of the
tokens) and `DebitsAssumption` (there are finitely many debits, and "None", a debit's name for no invoice, is none).

`NoPaymentForBarred` and `ClosedIsFinal` follow from what each step does to each payment (`Law`): it leaves the status,
makes the payment for an allowed merchant, moves a payment that is still open, or carries out a verdict.  For a
creation to be one, the id it takes must be unused; for a verdict, the case must be of a payment that was made:

    PayInv   \* an id above the counter has no payment; a mediation case is of a payment that was made

What keeps both is shown once for each shape of a step (`QuietLawful`, `MovedLawful`, `MadeLawful`, `MovedTogether`, `CaseChanged`, `CaseOpened`), and each entry point
is shown to have one of them; `StepLawful` collects this.

The other three need what a step does to the tokens of a payment and to the queue of its merchant.  `RecordInv`
adds that what was refunded of a payment is an integer while the payment may still move.  `Effect` divides the
steps again: a payment and its purse stay, or it was held and not yet contested, or it is contested and ruled on,
escalated, expired or refunded (`UnderDispute`), or it has ended and keeps merchant and amount.  `DisputeHolds`
is one of these cases.  `Queued` says what a step may do to the queues: nothing, append one payout of a
payment that ends in this step (`Enqueues`), or let the worker take entries off one queue from the front
or by number (`Redraws`); from it `QueueInv` follows, in which an entry is of an ended payment:
that it cannot be queued twice is then that an ended payment stays ended, whatever a mediators' verdict does to
it.  `ChargedAsAgreed` has its own invariants.  `CyclesInv`, over invoices, schedules and
subscriptions, keeps maxima and due dates; one multiplication, `(count + 1) * interval`, is all its arithmetic, and
`CycledIs` holds it.  `ChargesInv` adds what was charged: the payments an invoice's trigger made are finitely many
and numbered below the counter, so the next is a new one, and a debit that failed before has a next retry, so that
its success makes one more `Retried` debit of one invoice.  Each of the two charges adds one to the cardinalities
and one to the count (`ChargedByTrigger`, `ChargedByRetry`); every other step moves neither, but for the uncounted retry of an
ended invoice, which adds a charge only.

### Refund and whitelist

Assumed: `RefundAssumption` (payments are of positive amounts, made to merchants and in tokens of two finite sets;
the reserve's token is one of the tokens), `InputAssumption` (callers pass integers, and
fees are naturals, as Rust's types make them) and `WhitelistAssumption` (spans are positive, holdings natural,
bounds natural, and there are finitely many holders).

`PaidOnce` is not inductive either: that a step pays out of a whole deposit needs that a refund *still to be
decided* has one, and that a draw is within the amount needs that reserves are integers (`BooksInv`, below).  `RefundInv` says that until a decision the deposit is the amount, that an offer does not
exceed it, and that ids not handed out have no deposit.  An entry point either handles one refund (`Handled`),
asks for one (`Asked`) or leaves deposits, statuses and amounts alone (`Aside`); each keeps `RefundInv` and pays
from the deposit as the property allows.  For the reserve the division is another (`DrawnRight`): a call is the
approval, or leaves refunds and deposits alone, or leaves reserves alone and an approved refund approved or
processed (`Onward`).  `SuspendedIsListed` is proved with the same division over the whitelist's entry
points (`ListInv`): of the calls that drop a token every one drops its suspension too.

`QueueListsWaiting` is proved over the same entry points with `QueueInv`: the admin's queue lists no id twice, and
a step takes an id off, appends a fresh one, or leaves statuses on their side of the queue (`Steady`).

**Sums.**  `HeldAddsUp`, `BallotsCounted` and the escrow's `OnlyKnownStepsUnbalance` speak of sums over sets of any size, and the library defines a fold by
recursion whose induction theorems take an operator the provers cannot instantiate.  `SumFacts` goes around
this: a nonempty family of subsets of a finite set has a smallest member (`Smallest`, from the well-foundedness of
strict inclusion, which is a statement about *sets*), so a smallest set on which two sums differ, or on which a sum
does not exist, is contradicted.  What comes out is what a reader expects of a sum: `SumOfNone`, `SumType`,
`SumNatural`, `SumWithout` (take any element out), `SumChanged` and `SumReplaced` (change one value), `SumTogether`
(two disjoint sets).

**The books.**  `HeldAddsUp` is inductive together with `RefundInv` and the shape of the records (`BooksInv`).  A
call moves tokens between the outside and one deposit (`Shifted`), the outside and one merchant's two reserves
(`Drawn`), or not at all (`Untold`, which includes moving a reserve from one of its two sides to the
other); each entry point is shown to be one of these, and each of these keeps the sum.

**The ballots.**  `BallotInv` is `BallotsCounted` for proposals that were made, and that nobody has
voted on one that was not.  A vote replaces a ballot of unknown weight and side by another: `SumReplaced` twice.

### Rosca

Assumed: `GroupAssumption` (the founders are distinct members, orders are of founders, the set of addresses is
finite, and every address has a reputation, which is an integer) and `InputAssumption` (callers name positive
amounts, the six types of proposals, and lists of members to be merged in).  Orders may name a founder twice and
another not at all, as `init` allows.

    VoteInv == ProposalsInv /\ PleasInv /\ EndingInv

The three kinds of vote (proposals, emergency payouts, the group's end) keep their voters in three ways: the
first counts every ballot, the second does not count the one who asks, and in the third the tally starts again while
voters stay marked, so it is only bounded by them.  With votes by weight nothing is claimed of the tallies.
A delegate votes with several ballots at once, those of who delegated and has not voted (`Votes`);
that these are new is what keeps the first, by the cardinality theorems.

`PlaceKept` and `RoundPaidOnce` are about single steps, but a step of rosca is long: finalising a round ends it, pays
it out, counts out everybody who missed it, which may suspend them and promote from the waitlist, and moves the late
down the order.  What a step can rely on is little: that lists are lists of members, bids are bids, proposals have
one of the six types and pleas come from members.

    TurnInv == VoteInv /\ Rostered(group) /\ SealedBids /\ ProposalsTyped /\ PleasTyped

It was checked by TLC before it was proved.  The two properties are then the two halves of one law of a step,

    Lawful(g, h, late) == Rostered(h) /\ Kin(g, h) /\ RoundLaw(g, h, late)

`Kin` being `PlaceKept` and `RoundLaw` being `RoundPaidOnce`, of any group `g` and what a call makes of it, `h`.  The
law of a whole call is not the law of its parts put together: a round that is over in one part must not be
paid in another.  So the parts obey a stronger one.

*Changes within a round.*  `Grown` says that round, history, list of payers and bids stay, nobody is let off a
suspension, members stay and lose no place, and whoever joins has one.  It is transitive (`GrownTwice`), and a penalty,
a suspension, a default, a demotion, a promotion and a joining are each shown to be `Grown`.  The code runs them in
loops over lists; the loop is a recursive function over the list's prefixes, whose existence and value at every
index are shown by the smallest index that fails (`FirstOf`) instead of an induction (`AllPenalisedGrown`,
`AllCountedOutGrown`, `AllDemotedGrown`, `AllJoinedGrown`).

*Counting places.*  That a demotion, a swap or an exit takes no place from anyone else is about how often a member
occurs in a sequence after it was rewritten.  `TakenCounts` says it of any selection from a sequence, by index;
`WithoutCounts` (removing a member), `OneTakenOut` (removing one occurrence) and `SwapCounts` follow, the last by
exhibiting the bijection between the places before and after.

*The payout.*  `Completed` says that members and order stay, the round advances by one and the history gets one entry,
of `Recipient`.  The code looks for the first place from the round's turn on, modulo the length, whose holder is
not passed over, and fails if there is none (`Payable`).  `EveryTurn` shows that the search passes every place, and
`RecipientIs` that, if anyone in the order is eligible, the one found is.  `PayoutLawful` puts together a payout, what
came before it in the same call, and the `Grown` changes after it.

*The end before its time.*  A round ends before the deadline when the list of payers is as *long* as the list of
members, and the list keeps who left.  `NobodyMissing` bounds from that, by cardinalities, how many members of the
group may not have paid: as many as payers who are not members, and one.

### Model-checked only

* Of `FullSpec`, `MilestonesAddUp` and `StagesLeaveNothing` are false (section 6: milestones do not reduce the
  amount a release pays); they are checked in behaviours, and proved of a specification, where only milestones
  and verdicts move the tokens of an escrow that has them.
* `PaidFromOwnPurse` of payments lists exceptions by what the settings *are* when a payment is made from foreign
  tokens, and is checked in runs that do not lower them in between.
* The liveness properties need `ENABLED`, which is out of the prover's reach.

No module uses a `RECURSIVE` operator.

---

## 6. Where documents and code disagree

Beside the five of section 4, met while modelling and not given a run.  The model does what the code does.
Where no document is quoted the entry is a behaviour a reader of the code would not expect.

### Escrow

* A dispute of a part pays the rest to the seller at once (2557), also before the "earliest ledger timestamp
  when release/partial release is permitted" (207).
* The cooling-off window is read again at finalisation (2779): the "defined period to review" of `readMe.md:195`
  moves when the setting does.
* "Multi-buyer escrows require unanimous buyer approval" (1801), but the creating buyer alone may move all
  of it by partial releases (2292).
* After a failed inspection "buyer/seller may negotiate or dispute" (70), but a dispute needs an open status
  (2537), which a failed inspection is not.
* `cancel_auto_renew` "can disable auto-renew at any time" (2209), but the configured renewal path (7482) does
  not read what it sets.
* The inactivity claim needs time "without any buyer action" (5265); a partial release by the buyer (2280)
  does not restart the clock.
* An amendment needs both parties (665); signatures are flags of the proposal, and a buyer who transferred the
  role (4428) has signed for the successor.
* A request's amount is checked when made (4162) and not when approved (4245).
* `docs/escrow-dispute-flow.md:10` has disputes start from an active escrow; an escalation (4397) disputes one
  that has ended.
* A rejected stage returns "to `Pending`" (8786) in the comment and to `Rejected` in the code, which counts as
  settled (8757): the escrow may end with its share unpaid.
* Milestones "release independently" (2343) without reducing the amount (2462), so a later release, refund or
  dispute pays it again; and a dispute does not stop them (2434), whatever `readMe.md:193` says.
* "Only the losing party" may flag a verdict (2699); either may, and again once a flag was cleared.
* `cancel_seller_veto` (8272) and `override_veto` (8308) expect a key nothing sets, and always panic.
* The cancellation penalty is "applied to initiator's share" (5330) and the refund is "minus penalty (applied to
  initiator)" (5422), but it is always cut from the buyer's refund (5472), whoever asked.
* "If all tranches have been claimed, mark the escrow as Released" (7042): a claim in order after one by index ends
  the escrow when the *index* passes the end (7043), which one tranche may have been jumped over for; it is stuck.
* Claims do not reduce the amount: a release, an expiry or a verdict after one pays the claimed tranches again.
* The comment of `create_bounty` speaks of "any whitelisted solver" (5627); `claim_bounty` (5768) asks no list, and
  the buyer may claim.
* An approved bounty pays its full amount (5906) also when milestones were paid; a milestone a rejected solver
  submitted stays submitted and pays the next solver (6338).  A rejection needs no submission (5931), and a claimed
  bounty may be cancelled after the *claim* deadline with a submission pending (6025).
* The list of approvers may name one twice (6658), so that its threshold is out of reach.  The last approval (6736)
  does not look at lock, veto, pooled buyers or renewal.
* A top-up restores an escrow by the collateral's amount (6635) and a check by its price (6566); meanwhile
  `UnderCollateralized` blocks release, dispute and the refund after the deadline.
* Neither end of a time lock burns the receipt, and a claim pays the beneficiary of creation (4673), whoever is the
  seller by then.
* Collateral stays in the contract when an escrow ends by timeout, expiry, inactivity, oracle, cancellation or
  partial release; no later call returns it.  An escrow whose collateral deadline has passed has no exit.

### Payments

* `expire_payment` (4304) gives back the full amount and `finalize_payment` (6429) pays it, whatever
  `partial_refund` gave back before: the difference comes from other payments.
* Completion pays the merchant at once; a cancellation in the cooling-off period (2357) pays the customer the
  same amount again.  Nothing moves a payment from `CoolingOff` to `Completed`, so one at the head of a
  merchant's queue blocks `process_withdrawal_queue` (5823) for ever.
* A verdict of the mediators does not look at the payment's status (10253) and marks it unsettled (10264).
* `escalate_to_dao` "panics `DaoAlreadyEscalated`" (10069) for a second case, but never looks for a first.
* `settle_merchant_payments` marks payments after it has checked all of them (1817–1842): an id listed twice is
  paid twice.
* `extend_payment_expiry` (3144) accepts a payment that has expired and was not given back yet.
* A scheduled payment not executed before its expiry can be neither executed nor expired (6147).
* A payment in another token is recorded in the collateral token (2716); its expiry gives that.
* Commissions are claimed in any token the referrer names (8680), out of what the contract holds.
* Redeeming points raises an amount below the loyalty floor to the floor (7976).
* The fee of a swap is paid in the merchant's preferred token, of which none came in (6598).
* A policy changed while a payment waits for signatures applies to it (3527).
* An appeal approved before a second ban reinstates the merchant (7698); a suspension overwrites a ban (7498).
* The second pair of pause and resume does not restart the interval (5310); a change of plan credits days nobody
  paid for (5492).
* A dispute lies in temporary storage (2453); once it lapses its timeout cannot be enforced.
* A debit that succeeds at its first attempt does not advance its invoice (9388), one that succeeds later does.
* A retry that succeeds after its invoice ended or was cancelled transfers all the same and is counted nowhere
  (9710): the customer may be charged beyond `max_cycles`.
* A debit may name any invoice (9345), of another customer, merchant and amount, or one not made yet; the retry of
  the last kind panics (9708) until there is one.
* `bulk_expire_payments` (5707) ends disputes whose deadline is over, which `expire_payment` does not.
* `request_unblock` takes its number from the payment counter (1561); slashed collateral is credited to nobody
  (2058).

### Refund and whitelist

* The rejection of an appeal is "final … no further appeal" (2453), but gives the deposit back and leaves the
  refund `Rejected`, which can be appealed again; so do the automatic rejection (2324), the expired offer (3445)
  and the senior's (4487).  An appeal that succeeds then pays the deposit a second time.
* Requests of one payment are checked against what was refunded, not against each other (675–714).
* The evidence window is passed by the batch (3872), by the automatic paths and by vouchers.
* The automatic approval's deadline is zero unless set, so it is due at once (791, 5460).
* The automatic approval (1662), an accepted offer (3616), an expired one (3440) and a voucher do not count
  toward `RefundedAmount`, and leave the refund on the admin's queue.
* An accepted offer pays less than the deposit; no call returns the rest.
* "Draw from merchant reserve first" (995): an approval pays the customer up to the whole amount from the reserve
  (1013), and processing the approved refund (3277) then gives the deposit in full as well; nothing records the
  draw with the refund.  A batch approval (3872) draws nothing.
* A merchant's reserve is one number for all tokens (1012, 4058).
* The deposit of a refund is taken from whoever asks for it (735), who need not be the payment's customer.
* `check_abuse_block`'s block is undone by its own panic (4908), and so is the expiry `submit_evidence` writes
  (4194).  The decay of the abuse score is "not written back" (4801) but is, on every request (4941).
* The same refund may be flagged again and again (4687); a batch rejection does not raise the score.
* The fee is kept when no recipient is set (3285).  `register_escrow_refund` (2604–2682) can never succeed.
* Governance tokens are not locked by a vote and may be moved and voted again.  A proposal that failed can be
  vetoed.

### Rosca

* A custom order may name a member twice and another not at all (126).
* The payout subtracts the reward pool but not the insurance money, whose counter stays (internals 280); claimed
  rewards do not reduce the pool's counter (4002).
* A demotion or suspension in the middle of a cycle may pay one member twice and pass another over.
* `PaidMembers` keeps who left or was removed, and the round ends on its length: a round may be paid out with
  one member unpaid (`RoundPaidOnce` bounds how many).
* An emergency payout, a proxy or a co-signer may fill the list without ending the round; only
  `finalize_round` then does.  A co-signer's contribution counts for the round whatever its amount.
* A penalty that is due needs the member's signature, so `finalize_round` by the admin alone panics (3621); one
  due and one new are both taken in one call.  `Defaulters` is never cleared, so penalties can be repeated.
* An address on the waitlist that joins another way meanwhile is promoted all the same when its turn comes, and
  becomes a member twice.
* `add_member` after an approved exit gives a place to a member who can never contribute.
* A rebalanced contribution may be less than a member has already paid in part, which then never counts.
* The number of emergencies is checked when one is requested only; several pending pass the limit.
* After a second request to dissolve the tally starts again but the voters stay marked.
* `execute_dissolution` needs the admin's signature whatever the votes.  `finalize_round`, `add_member` and
  others do not look at `Dissolved`.
* With weighted votes nothing can pass after the round was reset, the total being zero.
* The id of a reinstatement is given out again by the next `create_proposal`.
* Delegating to oneself silences one's vote; `vote_proposal_via_proxy` counts one also with weights, and does
  not look at the proposal's status.
* A swap exchanges the places as they are when the admin approves, without looking at its expiry again.
* Bids of an auction still open at the start of a cycle are dropped or paid out with the pot; deposits never
  revealed stay.
* Receipts record the amount 0 (1739).
* A migration can never be executed: both sides' approval (2822) reads a key nothing sets (2846–2856).

---

## 7. What is left

**Not modelled, and why.**

* Escrow: the insurance pool (planned below); templates, batches, evidence, delivery proofs and ratings, which fill creation requests or keep
  records no handler pays by.
* Payments: notification keys, the tip split's recipients, statistics, the admin's hand-over.
  `multi_token_invoice*` and `pre_approved_spending*` have no entry point.  The idempotency key returns an
  existing id and changes nothing.
* Refund: priorities, indexes, reason codes and policy tags.  Whitelist: risk tiers, metadata and history, which
  no entry point reads back; its sliding quota window is modelled, with no property of its own.
* Rosca: migration, which never executes; treasury (9427–9609), loans (10370–10601), goal rewards
  (10832–11046), split co-payers (11075–11295), tiers (9088–9308), the admin's multisig (6921–7110), credit
  scores (9620), snapshots and the audit trail: records and funds beside the rounds.
* Everywhere: storage lifetimes, upgrade and migration of the program, which replace the state machine; errors
  and events, which are wording.

**Order of work.**

1. `EscrowInsurance`, over `EscrowWhole`'s balance.
2. `RoscaFunds`: treasury, loans and goals over one group balance, with the payout.
3. `Refund` over `Payments` instead of a constant: refunded through both contracts at most paid.

**Theorems next.**  Of payments `PaidFromOwnPurse`, stated relative to the settings at the time a payment was made;
of the properties listed in section 4 every other safety property is proved of the entry points it holds for.
