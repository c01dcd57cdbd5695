---------------------------- MODULE RoscaGovernance ----------------------------
(***************************************************************************)
(* What the members of a group decide by vote: proposals with delegated    *)
(* ballots, reinstatement, emergency payouts, and the end of the group.    *)
(***************************************************************************)
EXTENDS RoscaMembers

CONSTANT MaxProposals   \* bound: ids of proposals

VARIABLES
  proposals,     \* DataKey::Proposals with the ballots of ProposalVotes
  counter,       \* DataKey::ProposalCounter
  quorums,       \* QuorumPercentage and QuorumConfig
  delegates,     \* "vote_delegations"
  proxies,       \* DataKey3::ContribDelegations
  active,        \* ActiveReinstatementProposal
  pleas,         \* EmergencyPayoutRequests with their votes
  aided,         \* EmergencyPayoutApproved: cycle and member
  aids,          \* EmergencyPayoutCount of each cycle
  ending         \* DissolutionDeadline, ..VoteCount and ..Votes of each round

councilVars ==
  <<proposals, counter, quorums, delegates, proxies, active, pleas, aided, aids, ending>>
governVars == <<councilVars, rosterVars>>

ProposalType ==
  {"PenaltyAppeal", "RuleChange", "MemberRemoval", "MaxMembersUpdate", "Reinstatement", "MemberFreeze"}
Proposals == 0 .. MaxProposals - 1
NoProposal ==
  [type |-> "RuleChange", target |-> None, value |-> None, quorum |-> 0, until |-> 0,
   for |-> 0, against |-> 0, voters |-> {}, status |-> "None"]
NoProxy == [proxy |-> None, until |-> None]

CouncilInit ==
  /\ proposals = [p \in Proposals |-> NoProposal] /\ counter = 0
  /\ quorums = [percent |-> 51, of |-> [t \in ProposalType |-> None]]
  /\ delegates = [m \in Member |-> None] /\ proxies = [m \in Member |-> NoProxy]
  /\ active = [m \in Member |-> None]
  /\ pleas = {} /\ aided = {} /\ aids = [c \in 0 .. MaxRound |-> 0]
  /\ ending = [r \in 0 .. MaxRound |-> [until |-> 0, count |-> 0, voters |-> {}]]

(* get_member_voting_weight, the possible votes, and the quorum rounded up. *)
Weight(m) == IF cfg.weighted THEN group.contributed[m] ELSE 1
AllVotes ==
  IF cfg.weighted THEN FoldSeq(LAMBDA m, sum : sum + group.contributed[m], 0, group.members)
  ELSE Len(group.members)
Needed(bps) == (AllVotes * bps + 9999) \div 10000
(* The weights of several voters: with one vote a head, their number.       *)
Votes(voters) == IF cfg.weighted THEN MapThenSumSet(Weight, voters) ELSE Cardinality(voters)

Still == UNCHANGED <<now, cfg, gate, group>>

-----------------------------------------------------------------------------

Proposed(id, prop) ==
  /\ id \in Proposals
  /\ proposals' = [proposals EXCEPT ![id] = prop]
  /\ Still /\ UNCHANGED <<quorums, delegates, proxies, pleas, aided, aids, ending>>
QuorumOf(type, default) == IF quorums.of[type] = None THEN default ELSE quorums.of[type]
NewProposal(type, target, value, quorum, span) ==
  [NoProposal EXCEPT !.type = type, !.target = target, !.value = value, !.quorum = quorum,
                     !.until = now + span, !.status = "Pending"]

(* create_proposal, and propose_member_freeze with the quorum and the       *)
(* window of its own.                                                       *)
CreateProposal(m, type, target, value, span) ==
  /\ Running /\ InGroup(m)
  /\ Proposed(counter, NewProposal(type, target, value, QuorumOf(type, quorums.percent * 100), span))
  /\ counter' = counter + 1 /\ UNCHANGED active
ProposeMemberFreeze(m) ==
  /\ Unfrozen /\ InGroup(m)
  /\ Proposed(counter, NewProposal("MemberFreeze", None, None, QuorumOf("MemberFreeze", 6700), Day))
  /\ counter' = counter + 1 /\ UNCHANGED active

(* request_reinstatement takes the id after the counter and leaves the      *)
(* counter there: the next proposal overwrites this one.                    *)
RequestReinstatement(m) ==
  /\ Running /\ m \in group.suspended /\ active[m] = None
  /\ Proposed(counter + 1, NewProposal("Reinstatement", m, None,
                                       QuorumOf("Reinstatement", 5100), cfg.reinstatementSpan))
  /\ counter' = counter + 1
  /\ active' = [active EXCEPT ![m] = counter + 1]

(* The delegators a ballot speaks for besides its voter: those of           *)
(* delegate_vote and, unless expired, of delegate_contribution_vote, who    *)
(* have no ballot yet; they need not be members any more.                   *)
Represented(v) ==
  {v} \cup {d \in Member : delegates[d] = v \/ (proxies[d].proxy = v /\ now < proxies[d].until)}
(* Mutant of Spoken: a delegator's own ballot is not looked up.             *)
SpokenAgain(v, p) == Represented(v)
Spoken(v, p) == Represented(v) \ proposals[p].voters

Tallied(p, voters, votes, b) ==
  proposals' = [proposals EXCEPT ![p].voters = @ \cup voters,
                  ![p].for = IF b THEN @ + votes ELSE @,
                  ![p].against = IF b THEN @ ELSE @ + votes]

VoteOnProposal(v, p, b) ==
  /\ Running /\ InGroup(v)
  /\ delegates[v] = None /\ now >= proxies[v].until
  /\ proposals[p].status = "Pending" /\ now <= proposals[p].until
  /\ v \notin proposals[p].voters /\ Weight(v) # 0
  /\ Tallied(p, Spoken(v, p), Votes(Spoken(v, p)), b)
  /\ Still /\ UNCHANGED <<counter, quorums, delegates, proxies, active, pleas, aided, aids, ending>>

(* vote_proposal_via_proxy: one vote whatever the member's weight, and      *)
(* whatever became of the proposal before its deadline.                     *)
VoteProposalViaProxy(m, p, b) ==
  /\ Running /\ InGroup(m) /\ proxies[m] # NoProxy /\ now <= proxies[m].until
  /\ proposals[p].status # "None" /\ now <= proposals[p].until
  /\ m \notin proposals[p].voters
  /\ Tallied(p, {m}, 1, b)
  /\ Still /\ UNCHANGED <<counter, quorums, delegates, proxies, active, pleas, aided, aids, ending>>

Decided(p, status) ==
  /\ proposals' = [proposals EXCEPT ![p].status = status]
  /\ UNCHANGED <<now, cfg, counter, delegates, proxies, active, pleas, aided, aids, ending>>

(* What an approved proposal does at once; a removal is carried out in the  *)
(* middle of a round too, and leaves the member on PaidMembers.             *)
CarriedOut(prop) ==
  LET m == prop.target IN
  CASE prop.type = "PenaltyAppeal" ->
         Set([group EXCEPT !.defaults[m] = 0, !.suspended = @ \ {m}]) /\ UNCHANGED quorums
    [] prop.type = "MemberRemoval" -> Set(Leaves(group, m)) /\ UNCHANGED quorums
    [] prop.type = "MaxMembersUpdate" ->
         /\ Set(IF prop.value \in Len(group.members) .. 100 /\ prop.value >= 1
                THEN [group EXCEPT !.max = prop.value] ELSE group)
         /\ UNCHANGED quorums
    [] prop.type = "RuleChange" ->
         /\ quorums' = IF prop.value \in 1 .. 100
                       THEN [quorums EXCEPT !.percent = prop.value] ELSE quorums
         /\ Still
    [] prop.type = "MemberFreeze" ->
         /\ gate' = [gate EXCEPT !.frozen = TRUE]
         /\ UNCHANGED <<now, cfg, group, quorums>>
    [] prop.type = "Reinstatement" -> Still /\ UNCHANGED quorums

ExecuteProposal(p) ==
  LET prop == proposals[p]
      passed == prop.for + prop.against >= Needed(prop.quorum) /\ prop.for > prop.against
  IN
  /\ Running /\ prop.status = "Pending" /\ now > prop.until
  /\ IF ~passed THEN Decided(p, "Rejected") /\ Still /\ UNCHANGED quorums
     ELSE /\ Decided(p, IF prop.type = "Reinstatement" THEN "Approved" ELSE "Executed")
          /\ CarriedOut(prop)

(* set_quorum_per_type, by the admin.                                       *)
SetQuorumPerType(type, bps) ==
  /\ bps \in 100 .. 10000
  /\ quorums' = [quorums EXCEPT !.of[type] = bps]
  /\ Still /\ UNCHANGED <<proposals, counter, delegates, proxies, active, pleas, aided, aids, ending>>

(* reinstate_member, once the proposal under the member's id is approved.   *)
ReinstateMember(m) ==
  /\ active[m] # None /\ proposals[active[m]].status = "Approved" /\ Running
  /\ Set([group EXCEPT !.suspended = @ \ {m}, !.defaults[m] = 0,
            !.order = IF Contains(@, m) THEN @ ELSE Append(@, m),
            !.feeDue = IF cfg.reinstatementFee > 0 THEN @ \cup {m} ELSE @])
  /\ proposals' = [proposals EXCEPT ![active[m]].status = "Executed"]
  /\ active' = [active EXCEPT ![m] = None]
  /\ UNCHANGED <<counter, quorums, delegates, proxies, pleas, aided, aids, ending>>

-----------------------------------------------------------------------------

Delegated(d, x) ==
  delegates' = d /\ proxies' = x
  /\ UNCHANGED <<now, cfg, gate, proposals, counter, quorums, active, pleas, aided, aids, ending>>

(* delegate_vote, to oneself too; revoke_delegation.                        *)
DelegateVote(m, d) ==
  /\ Running /\ InGroup(m) /\ InGroup(d) /\ delegates[d] = None
  /\ Delegated([delegates EXCEPT ![m] = d], proxies) /\ UNCHANGED group
RevokeDelegation(m) ==
  /\ Running /\ delegates[m] # None
  /\ Delegated([delegates EXCEPT ![m] = None], proxies) /\ UNCHANGED group

(* delegate_contribution_rights to anyone, delegate_contribution_vote to a  *)
(* member, under one key; the two ways to revoke it.                        *)
DelegateContribution(m, d, until) ==
  /\ Running /\ InGroup(m) /\ until > now
  /\ Delegated(delegates, [proxies EXCEPT ![m] = [proxy |-> d, until |-> until]])
  /\ UNCHANGED group
RevokeContributionDelegation(m) ==
  /\ Running /\ proxies[m] # NoProxy
  /\ Delegated(delegates, [proxies EXCEPT ![m] = NoProxy]) /\ UNCHANGED group

(* contribute_via_proxy, in the group's token or in any other: the member   *)
(* counts as paid, but the round is not completed.                          *)
ContributeViaProxy(m, x, base) ==
  /\ Running /\ InGroup(m) /\ proxies[m] # NoProxy /\ now <= proxies[m].until
  /\ ~Late \/ group.deadline = 0
  /\ m \notin group.paid /\ x >= group.amount
  /\ group' = [group EXCEPT !.paid = @ \cup {m}, !.contributed[m] = @ + x,
                            !.held = IF base THEN @ + x ELSE @]
  /\ Delegated(delegates, proxies)

-----------------------------------------------------------------------------

Cycle == group.round \div Len(group.order)
Pleads(q) ==
  pleas' = q /\ UNCHANGED <<now, cfg, gate, proposals, counter, quorums, delegates, proxies, active, ending>>
PleaOf(m) == {q \in pleas : q.round = group.round /\ q.by = m}

(* request_emergency_payout: how many were paid in the cycle is looked up   *)
(* here and not again.                                                      *)
RequestEmergencyPayout(m) ==
  /\ Running /\ Live /\ InGroup(m) /\ PleaOf(m) = {}
  /\ group.order # <<>> /\ <<Cycle, m>> \notin aided /\ aids[Cycle] < cfg.maxAids
  /\ Pleads(pleas \cup {[round |-> group.round, by |-> m, until |-> now + cfg.aidSpan,
                         for |-> 0, against |-> 0, voters |-> {}, executed |-> FALSE]})
  /\ UNCHANGED <<group, aided, aids>>

VoteEmergencyPayout(v, q, b) ==
  /\ Running /\ Live /\ InGroup(v) /\ v # q.by
  /\ q.round = group.round /\ ~q.executed /\ now <= q.until /\ v \notin q.voters
  /\ Pleads((pleas \ {q}) \cup
            {[q EXCEPT !.voters = @ \cup {v}, !.for = IF b THEN @ + Weight(v) ELSE @,
                       !.against = IF b THEN @ ELSE @ + Weight(v)]})
  /\ UNCHANGED <<group, aided, aids>>

(* execute_emergency_payout by anyone: the requester counts as paid without *)
(* having contributed, and the round is not completed.                      *)
ExecuteEmergencyPayout(q) ==
  /\ Running /\ Live /\ q.round = group.round /\ ~q.executed /\ now <= q.until
  /\ q.for + q.against >= Needed(cfg.aidBps) /\ q.for > q.against
  /\ group.order # <<>> /\ group.amount <= group.held
  /\ Pleads((pleas \ {q}) \cup {[q EXCEPT !.executed = TRUE]})
  /\ aided' = aided \cup {<<Cycle, q.by>>}
  /\ aids' = [aids EXCEPT ![Cycle] = @ + 1]
  /\ group' = [group EXCEPT !.held = @ - group.amount, !.paid = @ \cup {q.by}]

-----------------------------------------------------------------------------

Ends(e) ==
  ending' = [ending EXCEPT ![group.round] = e]
  /\ UNCHANGED <<now, cfg, proposals, counter, quorums, delegates, proxies, active, pleas, aided, aids>>
Vote == ending[group.round]

(* start_dissolution_vote: a second vote in a round starts from none, but   *)
(* those who voted in the first have no vote in it.                         *)
StartDissolutionVote(m) ==
  /\ Running /\ Live /\ InGroup(m) /\ (Vote.until > 0 => now >= Vote.until)
  /\ Ends([Vote EXCEPT !.until = now + cfg.endSpan, !.count = 0])
  /\ UNCHANGED <<gate, group>>
VoteDissolveGroup(v, b) ==
  /\ Running /\ Live /\ InGroup(v) /\ Vote.until # 0 /\ now <= Vote.until
  /\ v \notin Vote.voters
  /\ Ends([Vote EXCEPT !.voters = @ \cup {v}, !.count = IF b THEN @ + Weight(v) ELSE @])
  /\ UNCHANGED <<gate, group>>

(* dissolve_group by the admin, also on a pause: shares by what was         *)
(* collected, the remainder to the fee recipient or the first member, the   *)
(* reward pool and the insurance among it.                                  *)
DissolveGroup ==
  /\ Live /\ group.held > 0
  /\ gate' = [gate EXCEPT !.status = "Dissolved"]
  /\ group' = [group EXCEPT !.held = IF group.members = <<>> /\ ~cfg.recipient THEN @ ELSE 0]
  /\ Ends(Vote)
(* execute_dissolution, which the admin has to sign too.                    *)
ExecuteDissolution ==
  /\ Running /\ Vote.until # 0 /\ now > Vote.until
  /\ Vote.count >= Needed(cfg.endBps)
  /\ DissolveGroup

(* cancel_pending_group, before the start.                                  *)
CancelPendingGroup ==
  /\ now < cfg.start
  /\ gate' = [gate EXCEPT !.status = "Dissolved"]
  /\ group' = [group EXCEPT !.held = @ - group.rewards, !.rewards = 0]
  /\ Ends(Vote)

=============================================================================
