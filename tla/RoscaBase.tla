------------------------------ MODULE RoscaBase ------------------------------
(***************************************************************************)
(* Storage and helpers of the ahjoor-rosca contract                        *)
(* (contracts/ahjoor-rosca/src/lib.rs and internals.rs): a savings group   *)
(* whose members contribute every round and are paid the pot in turn.  A   *)
(* panic aborts the call, so what panics is a conjunct here.  A group      *)
(* collects one token, its base token, and has no tiers; timestamps and    *)
(* ledgers are counted in the same unit.                                   *)
(***************************************************************************)
EXTENDS Integers, Sequences, FiniteSets, SequencesExt, FiniteSetsExt, Functions

CONSTANTS
  Member,      \* accounts that are or may become members
  Founders,    \* the members a group starts with, in a sequence
  Orders,      \* payout orders a group may start with (RoundRobin, AdminAssigned)
  RoscaCfgs,   \* settings a group may be given
  Score,       \* PersistentKey::ReputationScores of those on the waitlist
  Day,         \* 24 hours, the time before a deadline with no rebalancing
  MaxRound,    \* bound: rounds
  MaxTime      \* bound: ledgers

None == -1     \* no value of a timestamp or a round

ASSUME GroupAssumption ==
  /\ None \notin Member /\ IsFiniteSet(Member)
  /\ Founders \in Seq(Member) /\ IsInjective(Founders) /\ Founders # <<>>
  /\ \A o \in Orders : o \in Seq(Range(Founders)) /\ Len(o) = Len(Founders)
  /\ Score \in [Member -> Int]
  /\ MaxRound \in Nat /\ MaxTime \in Nat /\ Day \in Nat

VARIABLES
  now,         \* env.ledger().timestamp()
  cfg,         \* RoscaConfig and the admin's settings
  gate,        \* IsPaused with PauseTimestamp, IsFrozen, GroupStatus
  group        \* members, rounds and money, see NewGroup

(* What init stores; a configured group starts when its time has come.      *)
NewGroup(order) ==
  [members |-> Founders, order |-> order, amount |-> cfg.amount, max |-> cfg.maxMembers,
   round |-> 0, duration |-> cfg.duration, nextDuration |-> None,
   deadline |-> cfg.start + cfg.duration, lastDeadline |-> cfg.start + cfg.duration,
   paid |-> {}, contributed |-> [m \in Member |-> 0], collected |-> [m \in Member |-> 0],
   shares |-> [m \in Member |-> 0], late |-> [m \in Member |-> 0],
   defaulters |-> {}, defaults |-> [m \in Member |-> 0], suspended |-> {}, exited |-> {},
   fined |-> [m \in Member |-> None],
   skipped |-> {}, skips |-> [m \in Member |-> [c \in 0 .. MaxRound |-> 0]],
   reinvest |-> {}, feeDue |-> {}, waitlist |-> <<>>, history |-> <<>>,
   held |-> 0, rewards |-> 0, claimed |-> [m \in Member |-> 0], insurance |-> 0,
   proxied |-> [m \in Member |-> None],   \* ProxyAuthorizations: rounds left
   cosigner |-> [m \in Member |-> "None"], window |-> [m \in Member |-> None],
   bids |-> <<>>, bidUntil |-> 0]

Bps(x, bps) == (x * bps) \div 10000
Least(x, y) == IF x < y THEN x ELSE y
Places(m, s) == {i \in DOMAIN s : s[i] = m}
(* The entries of s at the places in I, one after the other.                *)
Taken(s, I) ==
  LET taken[n \in 0 .. Len(s)] ==
        IF n = 0 THEN <<>>
        ELSE IF n \in I THEN Append(taken[n - 1], s[n]) ELSE taken[n - 1]
  IN taken[Len(s)]
Without(s, m) == Taken(s, DOMAIN s \ Places(m, s))
Joins(g, m) == [g EXCEPT !.members = Append(@, m), !.order = Append(@, m)]
Leaves(g, m) == [g EXCEPT !.members = Without(@, m), !.order = Without(@, m)]
SwapPlaces(order, i, j) == [order EXCEPT ![i] = order[j], ![j] = order[i]]

(* check_not_paused, check_not_frozen and the group's status.               *)
Running == gate.paused = None
Unfrozen == Running /\ ~gate.frozen
Live == gate.status # "Dissolved"
Target == cfg.amount * Len(Founders)   \* DataKey3::BasePoolTarget

-----------------------------------------------------------------------------

(* try_rebalance_contribution.                                              *)
Rebalanced(g) ==
  IF (g.deadline > 0 /\ now + Day > g.deadline) \/ g.members = <<>> THEN g
  ELSE [g EXCEPT !.amount = Target \div Len(g.members)]

(* The entry try_promote_from_waitlist takes: the first, or in              *)
(* ReputationWeighted mode the first of those with the best score.          *)
Promotable(w) ==
  IF ~cfg.byScore THEN 1
  ELSE CHOOSE i \in DOMAIN w :
         \A j \in DOMAIN w : Score[w[i]] > Score[w[j]] \/ (Score[w[i]] = Score[w[j]] /\ i <= j)

(* try_promote_from_waitlist: a member already, put back by another way in, *)
(* is added all the same; the rounds missed are paid for at once.           *)
Promoted(g) ==
  IF g.waitlist = <<>> THEN g
  ELSE LET i == Promotable(g.waitlist) IN
       Rebalanced([Joins(g, g.waitlist[i]) EXCEPT
         !.waitlist = Taken(@, DOMAIN @ \ {i}), !.held = @ + g.round * g.amount])

(* One more default, at MaxDefaults a suspension.                           *)
Defaulted(g, m) ==
  LET n == g.defaults[m] + 1
      counted == [g EXCEPT !.defaults[m] = n]
  IN IF n >= cfg.maxDefaults /\ m \notin g.suspended
     THEN Promoted([counted EXCEPT !.suspended = @ \cup {m}])
     ELSE counted

(* apply_penalty, which the member signs: the fine, and one more default.   *)
Penalised(g, m) == Defaulted([g EXCEPT !.held = @ + cfg.penalty], m)

(* One after the other of a list of members.                                *)
AllPenalised(g, list) ==
  LET after[n \in 0 .. Len(list)] == IF n = 0 THEN g ELSE Penalised(after[n - 1], list[n])
  IN after[Len(list)]

(* process_pending_penalties.                                               *)
PenaltiesProcessed(g) ==
  LET pending == {m \in Member : g.fined[m] # None}
      due == {m \in pending : now > g.lastDeadline + cfg.penaltyGrace \/ g.round > g.fined[m]}
      clear(S) == [m \in Member |-> IF m \in S THEN None ELSE g.fined[m]]
  IN IF cfg.penalty = 0 THEN [g EXCEPT !.fined = clear(pending)]
     ELSE AllPenalised([g EXCEPT !.fined = clear(due)], SetToSeq(due))

-----------------------------------------------------------------------------

(* reset_round_state: the next round, and at the start of a cycle a new     *)
(* auction window; the bids of the last one are dropped with their tokens.  *)
NextRound(g) ==
  LET span == IF g.nextDuration # None THEN g.nextDuration ELSE g.duration
      opens == cfg.auction /\ g.order # <<>> /\ (g.round + 1) % Len(g.order) = 0
  IN [g EXCEPT !.round = @ + 1, !.duration = span, !.nextDuration = None,
               !.deadline = now + span, !.paid = {},
               !.contributed = [m \in Member |-> 0],
               !.bids = IF opens THEN <<>> ELSE @,
               !.bidUntil = IF opens THEN now + cfg.bidWindow ELSE @]

(* Mutant of PassedOver: who left by an exit is paid all the same.          *)
PassedOverGone(g, m) == m \in g.suspended \/ <<m, g.round>> \in g.skipped

(* Who complete_round_payout passes over, and the one it pays.              *)
PassedOver(g, m) == m \in g.suspended \/ m \in g.exited \/ <<m, g.round>> \in g.skipped
Payable(g) == \E i \in DOMAIN g.order : ~PassedOver(g, g.order[i])
Recipient(g) ==
  LET turn(k) == g.order[((g.round + k) % Len(g.order)) + 1]
      k == CHOOSE k \in 0 .. Len(g.order) - 1 :
             ~PassedOver(g, turn(k)) /\ \A j \in 0 .. k - 1 : PassedOver(g, turn(j))
  IN turn(k)

(* What the insurance counter gives for a short pot.                        *)
Drawn(g) ==
  LET active == SelectSeq(g.members, LAMBDA m : m \notin g.suspended /\ m \notin g.exited)
      shortfall == Len(active) * g.amount - (g.held - g.rewards - g.insurance)
  IN IF cfg.coverage /\ shortfall > 0 THEN Least(shortfall, g.insurance) ELSE 0

(* complete_round_payout: the whole balance but the reward pool goes to the *)
(* recipient, the insurance with it; a recipient who reinvests leaves it in *)
(* and starts the next round with it.                                       *)
PaidOut(g) ==
  LET r == Recipient(g)
      pot == g.held - g.rewards
      fee == IF pot > 0 THEN Bps(pot, cfg.feeBps) ELSE 0
      net == IF pot > 0 THEN pot - fee ELSE 0
      kept == IF r \in g.reinvest THEN net ELSE 0
      over == NextRound([g EXCEPT !.insurance = @ - Drawn(g), !.held = @ - fee - (net - kept),
                                  !.history = Append(@, [recipient |-> r, amount |-> pot])])
      counts == kept >= g.amount
  IN IF kept = 0 THEN over
     ELSE [over EXCEPT !.contributed[r] = kept,
                       !.paid = IF counts THEN @ \cup {r} ELSE @,
                       !.shares[r] = IF counts THEN @ + 1 ELSE @]

=============================================================================
