----------------------------- MODULE RoscaRounds -----------------------------
(***************************************************************************)
(* Rounds of a group: contributions by members, proxies and co-signers,    *)
(* skips, closing and finalizing, penalties, rewards, pauses.              *)
(***************************************************************************)
EXTENDS RoscaBase

Set(g) == group' = g /\ UNCHANGED <<now, cfg, gate>>

InGroup(m) == m \in Range(group.members)
Late == now > group.deadline

(* The insurance paid on top of a contribution.                             *)
Premium(x) == Bps(x, cfg.insuranceBps)
Paid(g, m, x) ==
  [g EXCEPT !.held = @ + x + Premium(x), !.insurance = @ + Premium(x), !.contributed[m] = @ + x]

(* A member on PaidMembers; the last of them sets the payout off.           *)
Counted(g, m, x) ==
  [g EXCEPT !.paid = @ \cup {m}, !.shares[m] = @ + 1, !.collected[m] = @ + x]
AllCounted(g) == Cardinality(g.paid) = Len(g.members)
Count(g) ==
  /\ AllCounted(g) => Payable(g)
  /\ Set(IF AllCounted(g) THEN PaidOut(g) ELSE g)

(* contribute, in parts if the member likes; only the part that completes   *)
(* the contribution is recorded as collected (1118-1137).                   *)
Contribute(m, x) ==
  LET fee == IF m \in group.feeDue THEN cfg.reinstatementFee ELSE 0
      given == [Paid(group, m, x) EXCEPT !.feeDue = @ \ {m}, !.held = @ + fee]
  IN
  /\ Unfrozen /\ Live /\ InGroup(m) /\ m \notin group.exited \cup group.paid
  /\ cfg.start <= now /\ now <= group.deadline + cfg.grace
  /\ x > 0 /\ given.contributed[m] <= group.amount
  /\ IF given.contributed[m] = group.amount
     THEN Count([Counted(given, m, x) EXCEPT !.late[m] = IF Late THEN @ + 1 ELSE 0])
     ELSE Set(given)

(* authorize_proxy for a number of rounds, revoke_proxy.                    *)
AuthorizeProxy(m, k) == InGroup(m) /\ k > 0 /\ Set([group EXCEPT !.proxied[m] = k])
RevokeProxy(m) == group.proxied[m] # None /\ Set([group EXCEPT !.proxied[m] = None])

(* contribute_as_proxy: the proxy pays all that is missing.                 *)
ContributeAsProxy(m) ==
  LET x == group.amount - group.contributed[m]
      used == [group EXCEPT !.proxied[m] = @ - 1]
  IN
  /\ group.proxied[m] > 0
  /\ Unfrozen /\ Live /\ InGroup(m) /\ m \notin group.exited \cup group.paid
  /\ cfg.start <= now /\ ~Late
  /\ x >= 0
  /\ Count(Counted(Paid(used, m, x), m, x))

(* request_skip, for this round or a later one.                             *)
RequestSkip(m, r) ==
  LET c == r \div Len(group.order) IN
  /\ Running /\ InGroup(m) /\ group.order # <<>>
  /\ r >= group.round
  /\ r = group.round => ~Late /\ m \notin group.paid
  /\ <<m, r>> \notin group.skipped
  /\ group.skips[m][c] < cfg.maxSkips
  /\ Set([group EXCEPT !.skipped = @ \cup {<<m, r>>}, !.skips[m][c] = @ + 1,
                       !.held = @ + cfg.skipFee])

-----------------------------------------------------------------------------

Missing(g, m) == m \notin g.paid /\ m \notin g.exited /\ <<m, g.round>> \notin g.skipped
Ended(g) ==
  [g EXCEPT !.defaulters = {m \in Range(g.members) : Missing(g, m)}, !.lastDeadline = g.deadline]

(* close_round: the round is given up, the pot stays for the next one.      *)
CloseRound == Unfrozen /\ Late /\ Set(NextRound(Ended(group)))

(* A defaulter whose co-signer still has time is not counted yet.           *)
DefaultCounted(g, m) ==
  LET expired == [g EXCEPT !.window[m] = None] IN
  IF cfg.window = 0 \/ g.cosigner[m] # "Active" THEN Defaulted(g, m)
  ELSE IF g.window[m] = None THEN [g EXCEPT !.window[m] = now]
  ELSE IF now < g.window[m] + cfg.window THEN g
  ELSE Defaulted(expired, m)

(* Mutant of Demoted: the member is not put back at the end.                *)
DemotedOut(g, m) ==
  IF g.late[m] >= cfg.lateThreshold /\ Places(m, g.order) # {}
  THEN [g EXCEPT !.order = Taken(@, DOMAIN @ \ {Min(Places(m, @))})]
  ELSE g

(* A member late too often moves to the end of the order, the place paid    *)
(* for this cycle or not.                                                   *)
Demoted(g, m) ==
  IF g.late[m] >= cfg.lateThreshold /\ Places(m, g.order) # {}
  THEN [g EXCEPT !.order = Append(Taken(@, DOMAIN @ \ {Min(Places(m, @))}), m)]
  ELSE g

(* One after the other of a list of members.                                *)
AllCountedOut(g, list) ==
  LET after[n \in 0 .. Len(list)] == IF n = 0 THEN g ELSE DefaultCounted(after[n - 1], list[n])
  IN after[Len(list)]
AllDemoted(g, list) ==
  LET after[n \in 0 .. Len(list)] == IF n = 0 THEN g ELSE Demoted(after[n - 1], list[n])
  IN after[Len(list)]

(* The bonus of a completed cycle for members with no default and no skip,  *)
(* prorated when the reward pool is short.                                  *)
Rewarded(g, members, round) ==
  LET n == Len(g.order)
      cycle == (((round + 1) \div n) - 1) * n .. round
      deserves(m) == /\ m \notin g.exited /\ g.defaults[m] = 0
                     /\ \A r \in cycle : <<m, r>> \notin g.skipped
      k == Len(SelectSeq(members, deserves))
      bonus == IF k = 0 THEN 0
               ELSE IF g.rewards >= cfg.bonus * k THEN cfg.bonus
               ELSE IF g.rewards > 0 THEN g.rewards \div k ELSE 0
  IN IF n > 0 /\ (round + 1) % n = 0
     THEN [g EXCEPT !.held = @ - bonus * k, !.rewards = @ - bonus * k]
     ELSE g

(* finalize_round: penalties whose grace is over, the payout, the defaults  *)
(* of the members who missed the deadline, demotions and the cycle bonus.   *)
FinalizeRound ==
  LET start == PenaltiesProcessed(group)
      missed == Taken(start.members,
                      {i \in DOMAIN start.members : Missing(start, start.members[i])})
      demoted == AllDemoted(AllCountedOut(PaidOut(Ended(start)), missed), start.members)
      done == Rewarded(demoted, start.members, start.round)
  IN
  /\ Unfrozen /\ Late /\ Payable(start)
  /\ done.held >= 0
  /\ Set(done)

-----------------------------------------------------------------------------

(* penalise_defaulter by anyone, request_penalty_grace by the admin: within *)
(* the grace after the deadline the penalty waits for the next round.  One  *)
(* that waited and is due is taken first, and then the new one.             *)
Fine(m) ==
  LET g == PenaltiesProcessed(group) IN
  /\ m \in group.defaulters /\ cfg.penalty # 0
  /\ Set(IF now <= g.lastDeadline + cfg.penaltyGrace
         THEN [g EXCEPT !.fined[m] = g.round]
         ELSE Penalised(g, m))
PenaliseDefaulter(m) == Unfrozen /\ Fine(m)
RequestPenaltyGrace(m) == Running /\ Fine(m)

(* set_co_signer, accept_co_signer, remove_co_signer.                       *)
SetCoSigner(m) ==
  InGroup(m) /\ group.cosigner[m] = "None" /\ Set([group EXCEPT !.cosigner[m] = "Pending"])
AcceptCoSigner(m) ==
  group.cosigner[m] # "None" /\ Set([group EXCEPT !.cosigner[m] = "Active"])
RemoveCoSigner(m) ==
  group.paid = {} /\ group.cosigner[m] # "None" /\ Set([group EXCEPT !.cosigner[m] = "None"])

(* co_signer_contribute: for a round that was finalized without the member, *)
(* but recorded in the one that is open now.                                *)
CoSignerContribute(m, x) ==
  /\ group.cosigner[m] = "Active" /\ group.window[m] # None
  /\ now < group.window[m] + cfg.window
  /\ Set([group EXCEPT !.held = @ + x, !.paid = @ \cup {m}, !.window[m] = None])

SetReinvestPreference(m, b) ==
  /\ Running /\ InGroup(m) /\ ~Late
  /\ Set([group EXCEPT !.reinvest = IF b THEN @ \cup {m} ELSE @ \ {m}])

UpdateRoundDuration(d) ==
  Running /\ d \in cfg.durations /\ Set([group EXCEPT !.nextDuration = d])

-----------------------------------------------------------------------------

ContributeToInsurance(m, x) ==
  /\ Running /\ InGroup(m) /\ m \notin group.exited /\ x > 0
  /\ Set([group EXCEPT !.insurance = @ + x, !.held = @ + x])
DepositRewards(x) == Running /\ Set([group EXCEPT !.rewards = @ + x, !.held = @ + x])

(* get_claimable_reward, which claims do not take out of the pool.          *)
Claimable(m) ==
  LET all == SumFunction(group.shares)
      weight == SumFunction(cfg.weights)
      equal == group.rewards \div Len(group.members)
      share == CASE cfg.rewards = "Equal" -> equal
                 [] cfg.rewards = "Proportional" ->
                      IF all = 0 THEN 0 ELSE (group.rewards * group.shares[m]) \div all
                 [] OTHER ->
                      IF weight = 0 THEN equal
                      ELSE (group.rewards * cfg.weights[m]) \div weight
  IN share - group.claimed[m]
ClaimRewards(m) ==
  /\ Running /\ InGroup(m) /\ group.rewards # 0
  /\ Claimable(m) > 0 /\ Claimable(m) <= group.held
  /\ Set([group EXCEPT !.claimed[m] = @ + Claimable(m), !.held = @ - Claimable(m)])

(* pause_group; resume_group moves the deadline by the length of the pause. *)
PauseGroup == Running /\ gate' = [gate EXCEPT !.paused = now] /\ UNCHANGED <<now, cfg, group>>
ResumeGroup ==
  /\ ~Running
  /\ gate' = [gate EXCEPT !.paused = None]
  /\ group' = [group EXCEPT !.deadline = @ + (now - gate.paused)]
  /\ UNCHANGED <<now, cfg>>

(* freeze_group and unfreeze_group.                                         *)
SetFrozen(b) ==
  gate.frozen # b /\ gate' = [gate EXCEPT !.frozen = b] /\ UNCHANGED <<now, cfg, group>>

=============================================================================
