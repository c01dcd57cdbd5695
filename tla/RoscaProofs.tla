------------------------------ MODULE RoscaProofs ------------------------------
(***************************************************************************)
(* The votes, the turns and the rounds of a group, for every value of the  *)
(* constants.                                                              *)
(*                                                                         *)
(* The votes: with one vote a head, every tally is the number of ballots   *)
(* cast.  Each entry point either leaves the ballots alone or does one of  *)
(* few things to them: it opens a proposal, counts voters who had no       *)
(* ballot yet, decides, opens or votes on an emergency payout, starts the  *)
(* vote on the group's end again or counts one ballot in it.               *)
(*                                                                         *)
(* The turns and the rounds: nobody who stays loses a place on the payout  *)
(* order, and a round is paid out once.  What one call does to the group,  *)
(* penalties, promotions, defaults and demotions one after the other, is   *)
(* put together from steps that let the group grow and nobody lose a turn; *)
(* every entry point is then within one law (Lawful).                      *)
(***************************************************************************)
EXTENDS Rosca, SumFacts, FiniteSetTheorems, SequenceTheorems, TLAPS

(* The records of the votes have the fields their readers use, and ballots  *)
(* are cast by members; sums are integers while every vote counts as one.   *)
Ballot(p) == DOMAIN NoProposal \subseteq DOMAIN p /\ p.voters \subseteq Member
Tally(p) == p.for \in Int /\ p.against \in Int /\ p.for + p.against = Cardinality(p.voters)

PleaFields == {"round", "by", "until", "for", "against", "voters", "executed"}
Plea(q) == PleaFields \subseteq DOMAIN q /\ q.voters \subseteq Member
Pleaded(q) ==
  q.for \in Int /\ q.against \in Int /\ q.for + q.against = Cardinality(q.voters \ {q.by})

Vetting(e) == {"until", "count", "voters"} \subseteq DOMAIN e /\ e.voters \subseteq Member
Counts(e) == e.count \in Nat /\ e.count <= Cardinality(e.voters)

ProposalsInv ==
  /\ proposals = [p \in Proposals |-> proposals[p]]
  /\ \A p \in Proposals : Ballot(proposals[p]) /\ (~cfg.weighted => Tally(proposals[p]))
PleasInv == \A q \in pleas : Plea(q) /\ (~cfg.weighted => Pleaded(q))
EndingInv ==
  /\ ending = [r \in 0 .. MaxRound |-> ending[r]]
  /\ \A r \in DOMAIN ending : Vetting(ending[r]) /\ (~cfg.weighted => Counts(ending[r]))

VoteInv == ProposalsInv /\ PleasInv /\ EndingInv

ballotVars == <<cfg, proposals, pleas, ending>>

-----------------------------------------------------------------------------

LEMMA Unvoted ==
  ASSUME VoteInv, UNCHANGED ballotVars
  PROVE  VoteInv'
BY DEF VoteInv, ProposalsInv, PleasInv, EndingInv, ballotVars, Ballot, Tally, Plea, Pleaded,
       Vetting, Counts

(* Adding voters who had no ballot adds their number.                       *)
LEMMA MoreVoters ==
  ASSUME NEW S, S \subseteq Member, NEW V, V \subseteq Member \ S
  PROVE  /\ Cardinality(S \cup V) = Cardinality(S) + Cardinality(V)
         /\ Cardinality(S) \in Nat /\ Cardinality(V) \in Nat
<1>1. IsFiniteSet(S) /\ IsFiniteSet(V)
  BY GroupAssumption, FS_Subset DEF GroupAssumption
<1>2. S \cap V = {} /\ Cardinality({}) = 0
  BY FS_EmptySet
<1>3. Cardinality(S \cup V) = Cardinality(S) + Cardinality(V) - Cardinality(S \cap V)
  BY <1>1, FS_Union
<1>4. Cardinality(S) \in Nat /\ Cardinality(V) \in Nat
  BY <1>1, FS_CardinalityType
<1>5. Cardinality(S \cap V) = 0
  BY <1>2
<1>. QED
  BY <1>3, <1>4, <1>5

LEMMA OneMoreVoter ==
  ASSUME NEW S, S \subseteq Member, NEW v \in Member \ S
  PROVE  Cardinality(S \cup {v}) = Cardinality(S) + 1 /\ Cardinality(S) \in Nat
<1>1. {v} \subseteq Member \ S /\ Cardinality({v}) = 1
  BY FS_Singleton
<1>. QED
  BY <1>1, MoreVoters

-----------------------------------------------------------------------------
(* What a call does to the proposals.                                       *)

LEMMA ProposalsStart == Init => VoteInv
<1>. SUFFICES ASSUME Init PROVE VoteInv
  OBVIOUS
<1>1. Cardinality({}) = 0
  BY FS_EmptySet
<1>2. ProposalsInv
  <2>1. Ballot(NoProposal) /\ NoProposal.for = 0 /\ NoProposal.against = 0 /\ NoProposal.voters = {}
    BY DEF Ballot, NoProposal
  <2>2. Tally(NoProposal)
    BY <1>1, <2>1 DEF Tally
  <2>3. proposals = [p \in Proposals |-> NoProposal]
    BY DEF Init, CouncilInit
  <2>. QED
    BY <2>1, <2>2, <2>3 DEF ProposalsInv
<1>3. PleasInv
  BY DEF Init, CouncilInit, PleasInv
<1>4. EndingInv
  <2>. DEFINE none == [until |-> 0, count |-> 0, voters |-> {}]
  <2>1. Vetting(none) /\ none.count = 0 /\ none.voters = {}
    BY DEF Vetting
  <2>2. ending = [r \in 0 .. MaxRound |-> none]
    BY DEF Init, CouncilInit
  <2>3. Counts(none)
    BY <1>1, <2>1 DEF Counts
  <2>. HIDE DEF none
  <2>. QED
    BY <2>1, <2>2, <2>3 DEF EndingInv
<1>. QED
  BY <1>2, <1>3, <1>4 DEF VoteInv

(* A call that writes one proposal and no other vote.                       *)
LEMMA OneProposal ==
  ASSUME VoteInv, UNCHANGED <<cfg, pleas, ending>>, NEW id \in Proposals, NEW r,
         proposals' = [proposals EXCEPT ![id] = r],
         Ballot(r), ~cfg.weighted => Tally(r)
  PROVE  VoteInv'
<1>1. ProposalsInv'
  BY DEF VoteInv, ProposalsInv, Ballot, Tally
<1>2. PleasInv' /\ EndingInv'
  BY DEF VoteInv, PleasInv, EndingInv, Plea, Pleaded, Vetting, Counts
<1>. QED
  BY <1>1, <1>2 DEF VoteInv

(* A new proposal has no ballot.                                            *)
LEMMA ProposedOnce ==
  ASSUME VoteInv, NEW id, NEW type, NEW target, NEW value, NEW quorum, NEW span,
         Proposed(id, NewProposal(type, target, value, quorum, span))
  PROVE  VoteInv'
<1>. DEFINE r == NewProposal(type, target, value, quorum, span)
<1>1. Ballot(r) /\ r.for = 0 /\ r.against = 0 /\ r.voters = {}
  BY DEF NewProposal, NoProposal, Ballot
<1>2. Tally(r)
  BY <1>1, FS_EmptySet DEF Tally
<1>. HIDE DEF r
<1>. QED
  BY <1>1, <1>2, OneProposal DEF Proposed, Still, r

(* Voters without a ballot are counted for or against.                      *)
LEMMA TalliedOnce ==
  ASSUME VoteInv, UNCHANGED <<cfg, pleas, ending>>, NEW p \in Proposals, NEW b \in BOOLEAN,
         NEW V, V \subseteq Member \ proposals[p].voters, NEW n,
         ~cfg.weighted => n = Cardinality(V),
         Tallied(p, V, n, b)
  PROVE  VoteInv'
<1>. DEFINE old == proposals[p]
            r == [old EXCEPT !.voters = @ \cup V, !.for = IF b THEN @ + n ELSE @,
                             !.against = IF b THEN @ ELSE @ + n]
<1>1. Ballot(old) /\ (~cfg.weighted => Tally(old))
  BY DEF VoteInv, ProposalsInv
<1>2. /\ r.voters = old.voters \cup V
      /\ r.for = IF b THEN old.for + n ELSE old.for
      /\ r.against = IF b THEN old.against ELSE old.against + n
  BY <1>1 DEF Ballot, NoProposal
<1>3. Ballot(r)
  BY <1>1, <1>2 DEF Ballot, NoProposal
<1>4. proposals' = [proposals EXCEPT ![p] = r]
  BY DEF Tallied, VoteInv, ProposalsInv
<1>5. ASSUME ~cfg.weighted PROVE Tally(r)
  <2>1. /\ Cardinality(old.voters \cup V) = Cardinality(old.voters) + Cardinality(V)
        /\ Cardinality(V) \in Nat
    BY <1>1, MoreVoters DEF Ballot
  <2>. HIDE DEF r, old
  <2>. QED
    BY <1>1, <1>2, <1>5, <2>1 DEF Tally
<1>. HIDE DEF r
<1>. QED
  BY <1>3, <1>4, <1>5, OneProposal

(* A decision leaves the ballots alone.                                     *)
LEMMA StatusOnly ==
  ASSUME VoteInv, UNCHANGED <<cfg, pleas, ending>>, NEW p, NEW status,
         proposals' = [proposals EXCEPT ![p].status = status]
  PROVE  VoteInv'
<1>1. CASE p \in Proposals
  <2>. DEFINE r == [proposals[p] EXCEPT !.status = status]
  <2>1. /\ Ballot(r) /\ r.voters = proposals[p].voters
        /\ r.for = proposals[p].for /\ r.against = proposals[p].against
    BY <1>1 DEF VoteInv, ProposalsInv, Ballot, NoProposal
  <2>2. ~cfg.weighted => Tally(r)
    BY <1>1, <2>1 DEF VoteInv, ProposalsInv, Tally
  <2>3. proposals' = [proposals EXCEPT ![p] = r]
    OBVIOUS
  <2>. HIDE DEF r
  <2>. QED
    BY <1>1, <2>1, <2>2, <2>3, OneProposal
<1>2. CASE p \notin Proposals
  <2>1. proposals' = proposals
    BY <1>2 DEF VoteInv, ProposalsInv
  <2>. QED
    BY <2>1, Unvoted DEF ballotVars
<1>. QED
  BY <1>1, <1>2

-----------------------------------------------------------------------------
(* The entry points that write proposals.                                   *)

LEMMA ProposingCounts == ASSUME VoteInv, Proposing PROVE VoteInv'
<1>1. ASSUME NEW m \in Member, ProposeMemberFreeze(m) PROVE VoteInv'
  BY <1>1, ProposedOnce DEF ProposeMemberFreeze
<1>2. ASSUME NEW m \in Member, NEW t \in Proposable, NEW target \in Member, NEW v \in Values,
             NEW s \in Spans, CreateProposal(m, t, target, v, s)
      PROVE  VoteInv'
  BY <1>2, ProposedOnce DEF CreateProposal
<1>3. ASSUME NEW t \in Proposable, SetQuorumPerType(t, 10000) PROVE VoteInv'
  BY <1>3, Unvoted DEF SetQuorumPerType, Still, ballotVars
<1>. QED
  BY <1>1, <1>2, <1>3 DEF Proposing

LEMMA VotingCounts == ASSUME VoteInv, Voting PROVE VoteInv'
<1>1. ASSUME NEW p \in Proposals, NEW m \in Member, NEW b \in BOOLEAN, VoteOnProposal(m, p, b)
      PROVE  VoteInv'
  <2>1. Spoken(m, p) \subseteq Member \ proposals[p].voters
    BY DEF Spoken, Represented
  <2>2. ~cfg.weighted => Votes(Spoken(m, p)) = Cardinality(Spoken(m, p))
    BY DEF Votes
  <2>. QED
    BY <1>1, <2>1, <2>2, TalliedOnce DEF VoteOnProposal, Still
<1>2. ASSUME NEW p \in Proposals, NEW m \in Member, NEW b \in BOOLEAN, VoteProposalViaProxy(m, p, b)
      PROVE  VoteInv'
  <2>1. {m} \subseteq Member \ proposals[p].voters /\ Cardinality({m}) = 1
    BY <1>2, FS_Singleton DEF VoteProposalViaProxy
  <2>2. Tallied(p, {m}, 1, b) /\ UNCHANGED <<cfg, pleas, ending>>
    BY <1>2 DEF VoteProposalViaProxy, Still
  <2>. DEFINE V == {m}
  <2>3. V \subseteq Member \ proposals[p].voters /\ Cardinality(V) = 1 /\ Tallied(p, V, 1, b)
    BY <2>1, <2>2
  <2>. HIDE DEF V
  <2>. QED
    BY <2>2, <2>3, TalliedOnce
<1>3. ASSUME NEW p \in Proposals, ExecuteProposal(p) PROVE VoteInv'
  <2>1. UNCHANGED <<cfg, pleas, ending>>
    BY <1>3 DEF ExecuteProposal, Decided
  <2>2. \E status : proposals' = [proposals EXCEPT ![p].status = status]
    BY <1>3 DEF ExecuteProposal, Decided
  <2>. QED
    BY <2>1, <2>2, StatusOnly
<1>. QED
  BY <1>1, <1>2, <1>3 DEF Voting

LEMMA ReinstatingCounts == ASSUME VoteInv, Reinstating PROVE VoteInv'
<1>1. ASSUME NEW m \in Member, RequestReinstatement(m) PROVE VoteInv'
  BY <1>1, ProposedOnce DEF RequestReinstatement
<1>2. ASSUME NEW m \in Member, ReinstateMember(m) PROVE VoteInv'
  <2>1. PICK p : p = active[m]
    OBVIOUS
  <2>2. UNCHANGED <<cfg, pleas, ending>> /\ proposals' = [proposals EXCEPT ![p].status = "Executed"]
    BY <1>2, <2>1 DEF ReinstateMember, Set
  <2>. QED
    BY <2>2, StatusOnly
<1>. QED
  BY <1>1, <1>2 DEF Reinstating

-----------------------------------------------------------------------------
(* The emergency payouts and the vote on the group's end.                   *)

(* A call that adds a plea, or puts one in the place of another.            *)
LEMMA OnePlea ==
  ASSUME VoteInv, UNCHANGED <<cfg, proposals, ending>>, NEW r,
         \A q \in pleas' : q \in pleas \/ q = r,
         Plea(r), ~cfg.weighted => Pleaded(r)
  PROVE  VoteInv'
<1>1. PleasInv'
  BY DEF VoteInv, PleasInv, Plea, Pleaded
<1>2. ProposalsInv' /\ EndingInv'
  BY DEF VoteInv, ProposalsInv, EndingInv, Ballot, Tally, Vetting, Counts
<1>. QED
  BY <1>1, <1>2 DEF VoteInv

LEMMA OpenedPlea ==
  ASSUME VoteInv, NEW m \in Member, RequestEmergencyPayout(m)
  PROVE  VoteInv'
<1>. DEFINE r == [round |-> group.round, by |-> m, until |-> now + cfg.aidSpan,
                  for |-> 0, against |-> 0, voters |-> {}, executed |-> FALSE]
<1>1. Plea(r) /\ r.for = 0 /\ r.against = 0 /\ r.voters = {}
  BY DEF Plea, PleaFields
<1>2. Cardinality(r.voters \ {r.by}) = 0
  <2>1. r.voters \ {r.by} = {}
    BY <1>1
  <2>. QED
    BY <2>1, FS_EmptySet
<1>3. pleas' = pleas \cup {r} /\ UNCHANGED <<cfg, proposals, ending>>
  BY DEF RequestEmergencyPayout, Pleads
<1>. HIDE DEF r
<1>4. Pleaded(r)
  BY <1>1, <1>2 DEF Pleaded
<1>. QED
  BY <1>1, <1>3, <1>4, OnePlea

(* The requester has no vote, so every vote is a new one of another member. *)
LEMMA VotedPlea ==
  ASSUME VoteInv, NEW q \in pleas, NEW v \in Member, NEW b \in BOOLEAN, VoteEmergencyPayout(v, q, b)
  PROVE  VoteInv'
<1>. DEFINE n == Weight(v)
            r == [q EXCEPT !.voters = @ \cup {v}, !.for = IF b THEN @ + n ELSE @,
                           !.against = IF b THEN @ ELSE @ + n]
<1>1. Plea(q) /\ (~cfg.weighted => Pleaded(q)) /\ v # q.by /\ v \notin q.voters
  BY DEF VoteInv, PleasInv, VoteEmergencyPayout
<1>2. /\ r.voters = q.voters \cup {v} /\ r.by = q.by
      /\ r.for = IF b THEN q.for + n ELSE q.for
      /\ r.against = IF b THEN q.against ELSE q.against + n
  BY <1>1 DEF Plea, PleaFields
<1>3. Plea(r)
  BY <1>1, <1>2 DEF Plea, PleaFields
<1>4. pleas' = (pleas \ {q}) \cup {r} /\ UNCHANGED <<cfg, proposals, ending>>
  BY DEF VoteEmergencyPayout, Pleads
<1>5. ~cfg.weighted => n = 1
  BY DEF Weight
<1>. HIDE DEF r, n
<1>6. ASSUME ~cfg.weighted PROVE Pleaded(r)
  <2>. DEFINE S == q.voters \ {q.by}
  <2>1. r.voters \ {r.by} = S \cup {v} /\ v \in Member \ S /\ S \subseteq Member
    BY <1>1, <1>2 DEF Plea
  <2>2. Cardinality(r.voters \ {r.by}) = Cardinality(S) + 1 /\ Cardinality(S) \in Nat
    BY <2>1, OneMoreVoter
  <2>3. q.for \in Int /\ q.against \in Int /\ q.for + q.against = Cardinality(S)
    BY <1>1, <1>6 DEF Pleaded
  <2>. HIDE DEF S
  <2>4. r.for \in Int /\ r.against \in Int /\ r.for + r.against = Cardinality(S) + 1
    BY <1>2, <1>5, <1>6, <2>2, <2>3
  <2>. QED
    BY <2>2, <2>4 DEF Pleaded
<1>. QED
  BY <1>3, <1>4, <1>6, OnePlea

LEMMA CarriedPlea ==
  ASSUME VoteInv, NEW q \in pleas, ExecuteEmergencyPayout(q)
  PROVE  VoteInv'
<1>. DEFINE r == [q EXCEPT !.executed = TRUE]
<1>1. Plea(q) /\ (~cfg.weighted => Pleaded(q))
  BY DEF VoteInv, PleasInv
<1>2. r.voters = q.voters /\ r.by = q.by /\ r.for = q.for /\ r.against = q.against
  BY <1>1 DEF Plea, PleaFields
<1>3. Plea(r)
  BY <1>1, <1>2 DEF Plea, PleaFields
<1>4. pleas' = (pleas \ {q}) \cup {r} /\ UNCHANGED <<cfg, proposals, ending>>
  BY DEF ExecuteEmergencyPayout, Pleads
<1>. HIDE DEF r
<1>5. ~cfg.weighted => Pleaded(r)
  BY <1>1, <1>2 DEF Pleaded
<1>. QED
  BY <1>3, <1>4, <1>5, OnePlea

LEMMA AidingCounts == ASSUME VoteInv, Aiding PROVE VoteInv'
BY OpenedPlea, VotedPlea, CarriedPlea DEF Aiding

(* A call that writes the vote of one round.                                *)
LEMMA OneEnding ==
  ASSUME VoteInv, UNCHANGED <<cfg, proposals, pleas>>, NEW k \in DOMAIN ending, NEW e,
         ending' = [ending EXCEPT ![k] = e], Vetting(e), ~cfg.weighted => Counts(e)
  PROVE  VoteInv'
<1>1. EndingInv'
  BY DEF VoteInv, EndingInv, Vetting, Counts
<1>2. ProposalsInv' /\ PleasInv'
  BY DEF VoteInv, ProposalsInv, PleasInv, Ballot, Tally, Plea, Pleaded
<1>. QED
  BY <1>1, <1>2 DEF VoteInv

(* A round beyond the bound has no vote.                                    *)
LEMMA NoEnding ==
  ASSUME VoteInv, NEW e, Ends(e), group.round \notin DOMAIN ending
  PROVE  VoteInv'
<1>1. ending' = ending /\ UNCHANGED <<cfg, proposals, pleas>>
  BY DEF Ends, VoteInv, EndingInv
<1>. QED
  BY <1>1, Unvoted DEF ballotVars

LEMMA StartedAgain ==
  ASSUME VoteInv, NEW m \in Member, StartDissolutionVote(m)
  PROVE  VoteInv'
<1>. DEFINE e == [Vote EXCEPT !.until = now + cfg.endSpan, !.count = 0]
<1>1. Ends(e)
  BY DEF StartDissolutionVote
<1>2. CASE group.round \in DOMAIN ending
  <2>1. PICK k \in DOMAIN ending : k = group.round
    BY <1>2
  <2>2. Vetting(Vote)
    BY <2>1 DEF VoteInv, EndingInv, Vote
  <2>3. Vetting(e) /\ e.count = 0 /\ e.voters = Vote.voters
    BY <2>2 DEF Vetting
  <2>4. Cardinality(Vote.voters) \in Nat
    BY <2>2, GroupAssumption, FS_Subset, FS_CardinalityType DEF Vetting, GroupAssumption
  <2>5. ending' = [ending EXCEPT ![k] = e] /\ UNCHANGED <<cfg, proposals, pleas>>
    BY <1>1, <2>1 DEF Ends
  <2>. HIDE DEF e
  <2>6. Counts(e)
    BY <2>3, <2>4 DEF Counts
  <2>. QED
    BY <2>3, <2>5, <2>6, OneEnding
<1>3. CASE group.round \notin DOMAIN ending
  <2>. HIDE DEF e
  <2>. QED
    BY <1>1, <1>3, NoEnding
<1>. QED
  BY <1>2, <1>3

LEMMA VotedToEnd ==
  ASSUME VoteInv, NEW v \in Member, NEW b \in BOOLEAN, VoteDissolveGroup(v, b)
  PROVE  VoteInv'
<1>. DEFINE n == Weight(v)
            e == [Vote EXCEPT !.voters = @ \cup {v}, !.count = IF b THEN @ + n ELSE @]
<1>1. Ends(e)
  BY DEF VoteDissolveGroup
<1>2. CASE group.round \in DOMAIN ending
  <2>1. PICK k \in DOMAIN ending : k = group.round
    BY <1>2
  <2>2. Vetting(Vote) /\ (~cfg.weighted => Counts(Vote)) /\ v \notin Vote.voters
    BY <2>1 DEF VoteInv, EndingInv, Vote, VoteDissolveGroup
  <2>3. /\ Vetting(e) /\ e.voters = Vote.voters \cup {v}
        /\ e.count = IF b THEN Vote.count + n ELSE Vote.count
    BY <2>2 DEF Vetting
  <2>4. Cardinality(e.voters) = Cardinality(Vote.voters) + 1 /\ Cardinality(Vote.voters) \in Nat
    <3>1. Vote.voters \subseteq Member /\ v \in Member \ Vote.voters
      BY <2>2 DEF Vetting
    <3>. QED
      BY <2>3, <3>1, OneMoreVoter
  <2>5. ending' = [ending EXCEPT ![k] = e] /\ UNCHANGED <<cfg, proposals, pleas>>
    BY <1>1, <2>1 DEF Ends
  <2>6. ~cfg.weighted => n = 1
    BY DEF Weight
  <2>. HIDE DEF e, n
  <2>7. ~cfg.weighted => Counts(e)
    BY <2>2, <2>3, <2>4, <2>6 DEF Counts
  <2>. QED
    BY <2>3, <2>5, <2>7, OneEnding
<1>3. CASE group.round \notin DOMAIN ending
  <2>. HIDE DEF e
  <2>. QED
    BY <1>1, <1>3, NoEnding
<1>. QED
  BY <1>2, <1>3

(* The group's end leaves the votes as they are.                            *)
LEMMA EndingLeftAlone == ASSUME VoteInv, Ends(Vote) PROVE VoteInv'
<1>1. ending' = ending /\ UNCHANGED <<cfg, proposals, pleas>>
  BY DEF Ends, Vote, VoteInv, EndingInv
<1>. QED
  BY <1>1, Unvoted DEF ballotVars

LEMMA EndingCounts == ASSUME VoteInv, Ending PROVE VoteInv'
<1>1. DissolveGroup \/ ExecuteDissolution \/ CancelPendingGroup => Ends(Vote)
  BY DEF DissolveGroup, ExecuteDissolution, CancelPendingGroup
<1>. QED
  BY <1>1, EndingLeftAlone, StartedAgain, VotedToEnd DEF Ending

-----------------------------------------------------------------------------
(* The whole contract.                                                      *)

LEMMA DelegatingCounts == ASSUME VoteInv, Delegating \/ Representing PROVE VoteInv'
<1>1. UNCHANGED ballotVars
  BY DEF Delegating, Representing, RevokeDelegation, RevokeContributionDelegation, DelegateVote,
         DelegateContribution, ContributeViaProxy, Delegated, ballotVars
<1>. QED
  BY <1>1, Unvoted

(* No entry point writes the settings of the votes.                         *)
LEMMA RoundsKeepSettings == ASSUME Rounds \/ NextLedger PROVE cfg' = cfg
<1>1. Contributing \/ Proxied => cfg' = cfg
  <2>1. \A g : Set(g) \/ Count(g) => cfg' = cfg
    BY DEF Count, Set
  <2>2. ASSUME NEW m, NEW x, Contribute(m, x) PROVE cfg' = cfg
    BY <2>1, <2>2, Zenon DEF Contribute
  <2>3. ASSUME NEW m, NEW r, RequestSkip(m, r) PROVE cfg' = cfg
    BY <2>3 DEF RequestSkip, Set
  <2>4. ASSUME NEW m, ContributeAsProxy(m) PROVE cfg' = cfg
    BY <2>1, <2>4, Zenon DEF ContributeAsProxy
  <2>. QED
    BY <2>2, <2>3, <2>4 DEF Contributing, Proxied, AuthorizeProxy, RevokeProxy, Set
<1>2. Finishing \/ Fining => cfg' = cfg
  BY DEF Finishing, CloseRound, FinalizeRound, Fining, PenaliseDefaulter, RequestPenaltyGrace,
         Fine, Set
<1>3. CoSigning \/ Saving => cfg' = cfg
  BY DEF CoSigning, SetCoSigner, AcceptCoSigner, RemoveCoSigner, CoSignerContribute, Saving,
         DepositRewards, ClaimRewards, ContributeToInsurance, SetReinvestPreference, Set
<1>4. Timing \/ NextLedger => cfg' = cfg
  BY DEF Timing, UpdateRoundDuration, PauseGroup, ResumeGroup, SetFrozen, NextLedger, Set
<1>. QED
  BY <1>1, <1>2, <1>3, <1>4 DEF Rounds

LEMMA RosterKeepsSettings == ASSUME Roster PROVE cfg' = cfg
<1>1. Joined \/ Exiting \/ Swapping => cfg' = cfg
  BY DEF Joined, AddMember, RemoveMember, Admit, GenerateInvite, JoinWithInvite, JoinWaitlist,
         LeaveWaitlist, UpdateMaxMembers, Exiting, RequestEmergencyExit, RejectExit, ApproveExit,
         Swapping, FinalizePayoutOrder, RequestSlotSwap, AcceptSlotSwap, RejectSlotSwap,
         ApproveSlotSwap, Swapped, Set
<1>2. Bidding \/ Sealing => cfg' = cfg
  BY DEF Bidding, PlaceSlotBid, ResolveSlotAuction, Sealing, ConfigureSealedSlotAuction,
         OpenSealedSlotAuction, SettleSealedSlotAuction, CommitSlotBid, RevealSlotBid, AuctionIs, Set
<1>3. Regrouping => cfg' = cfg
  BY DEF Regrouping, ProposeMerge, AcceptMerge, CompleteMerge, Merging, ProposeGroupSplit,
         ExecuteGroupSplit, ExpireSplitProposal, ConfirmSplitParticipation, Splitting
<1>. QED
  BY <1>1, <1>2, <1>3 DEF Roster

LEMMA NextCounts == ASSUME VoteInv, [Next]_vars PROVE VoteInv'
<1>1. CASE (Rounds \/ NextLedger) /\ UNCHANGED governVars
  BY <1>1, RoundsKeepSettings, Unvoted DEF governVars, councilVars, ballotVars
<1>2. CASE Roster /\ UNCHANGED councilVars
  BY <1>2, RosterKeepsSettings, Unvoted DEF councilVars, ballotVars
<1>3. CASE Council
  BY <1>3, ProposingCounts, VotingCounts, ReinstatingCounts, DelegatingCounts, AidingCounts,
     EndingCounts DEF Council
<1>4. CASE UNCHANGED vars
  BY <1>4, Unvoted DEF vars, governVars, councilVars, ballotVars
<1>. QED
  BY <1>1, <1>2, <1>3, <1>4 DEF Next

(* Every tally of an unweighted group is the number of ballots cast, and no *)
(* more votes end a group than members voted in the round.                  *)
THEOREM VotesCountedAlways == Spec => []VotesCounted
<1>1. VoteInv => VotesCounted
  BY DEF VoteInv, ProposalsInv, PleasInv, EndingInv, Tally, Pleaded, Counts, VotesCounted
<1>. QED
  BY <1>1, ProposalsStart, NextCounts, PTL DEF Spec

-----------------------------------------------------------------------------
(* Whose turn it is.                                                         *)

(* A nonempty set of numbers has a first.                                   *)
LEMMA FirstOf ==
  ASSUME NEW S, S \subseteq Nat, S # {}
  PROVE  \E x \in S : \A y \in S : x <= y
<1>1. PICK n \in S : TRUE
  OBVIOUS
<1>. DEFINE W == 0 .. n
            B == {T \in SUBSET W : \E x \in S : T = 0 .. x}
<1>2. IsFiniteSet(W) /\ n \in Nat
  BY <1>1, FS_Interval
<1>3. B \subseteq SUBSET W
  OBVIOUS
<1>4. B # {}
  <2>1. W \in SUBSET W /\ W = 0 .. n
    OBVIOUS
  <2>. QED
    BY <1>1, <2>1
<1>5. PICK T \in B : \A U \in B : U \subseteq T => U = T
  <2>. HIDE DEF B, W
  <2>. QED
    BY <1>2, <1>3, <1>4, Smallest
<1>6. PICK x \in S : T = 0 .. x
  OBVIOUS
<1>7. ASSUME NEW y \in S, y < x PROVE FALSE
  <2>1. y \in Nat /\ x \in Nat
    OBVIOUS
  <2>2. 0 .. y \subseteq 0 .. x
    BY <1>7, <2>1
  <2>3. 0 .. y \in B
    BY <1>5, <1>6, <2>2
  <2>4. 0 .. y = 0 .. x
    BY <1>5, <1>6, <2>2, <2>3
  <2>. QED
    BY <1>7, <2>1, <2>4
<1>. QED
  BY <1>6, <1>7

-----------------------------------------------------------------------------
(* Entries of a sequence.                                                   *)

LEMMA PlacesFinite ==
  ASSUME NEW S, NEW s \in Seq(S), NEW x
  PROVE  /\ Places(x, s) \subseteq 1 .. Len(s) /\ IsFiniteSet(Places(x, s))
         /\ Cardinality(Places(x, s)) \in Nat
         /\ x \in Range(s) <=> Cardinality(Places(x, s)) >= 1
<1>1. Places(x, s) \subseteq 1 .. Len(s) /\ Len(s) \in Nat
  BY DEF Places
<1>2. IsFiniteSet(Places(x, s)) /\ Cardinality(Places(x, s)) \in Nat
  <2>. DEFINE P == Places(x, s)
              W == 1 .. Len(s)
  <2>1. IsFiniteSet(W) /\ P \in SUBSET W
    BY <1>1, FS_Interval
  <2>. HIDE DEF P, W
  <2>2. IsFiniteSet(P)
    BY <2>1, FS_Subset
  <2>3. Cardinality(P) \in Nat
    BY <2>2, FS_CardinalityType
  <2>. QED
    BY <2>2, <2>3 DEF P
<1>3. x \in Range(s) <=> Places(x, s) # {}
  BY DEF Range, Places
<1>. QED
  BY <1>1, <1>2, <1>3, FS_EmptySet

LEMMA PlacesAppend ==
  ASSUME NEW S, NEW s \in Seq(S), NEW e \in S, NEW x
  PROVE  Cardinality(Places(x, Append(s, e))) =
           Cardinality(Places(x, s)) + IF x = e THEN 1 ELSE 0
<1>1. Places(x, Append(s, e)) =
        IF x = e THEN Places(x, s) \cup {Len(s) + 1} ELSE Places(x, s)
  <2>1. DOMAIN Append(s, e) = 1 .. Len(s) + 1 /\ DOMAIN s = 1 .. Len(s) /\ Len(s) \in Nat
    BY AppendProperties
  <2>2. \A i \in 1 .. Len(s) : Append(s, e)[i] = s[i]
    BY AppendProperties
  <2>3. Append(s, e)[Len(s) + 1] = e
    BY AppendProperties
  <2>. QED
    BY <2>1, <2>2, <2>3 DEF Places
<1>2. IsFiniteSet(Places(x, s)) /\ Len(s) + 1 \notin Places(x, s)
      /\ Cardinality(Places(x, s)) \in Nat
  <2>1. Places(x, s) \subseteq 1 .. Len(s) /\ IsFiniteSet(Places(x, s))
        /\ Cardinality(Places(x, s)) \in Nat
    BY PlacesFinite
  <2>2. Len(s) + 1 \notin 1 .. Len(s)
    OBVIOUS
  <2>. QED
    BY <2>1, <2>2
<1>3. CASE x = e
  <2>. DEFINE P == Places(x, s)
              k == Len(s) + 1
  <2>1. IsFiniteSet(P) /\ k \notin P /\ Places(x, Append(s, e)) = P \cup {k}
    BY <1>1, <1>2, <1>3
  <2>. HIDE DEF P, k
  <2>2. Cardinality(P \cup {k}) = Cardinality(P) + 1
    BY <2>1, FS_AddElement
  <2>. QED
    BY <1>3, <2>1, <2>2 DEF P
<1>4. CASE x # e
  BY <1>1, <1>2, <1>4
<1>. QED
  BY <1>3, <1>4

(* Taken is the last value of a function it defines along the sequence.      *)
Takes(s, I, N, f) ==
  f = [n \in 0 .. N |-> IF n = 0 THEN <<>>
                        ELSE IF n \in I THEN Append(f[n - 1], s[n]) ELSE f[n - 1]]

LEMMA TakesExist ==
  ASSUME NEW s, NEW I, NEW N \in Nat
  PROVE  \E f : Takes(s, I, N, f)
<1>. DEFINE Bad == {n \in Nat : ~ \E f : Takes(s, I, n, f)}
<1>1. SUFFICES ASSUME Bad # {} PROVE FALSE
  OBVIOUS
<1>2. PICK n \in Bad : \A k \in Bad : n <= k
  <2>1. Bad \subseteq Nat
    OBVIOUS
  <2>. HIDE DEF Bad
  <2>. QED
    BY <1>1, <2>1, FirstOf
<1>3. CASE n = 0
  <2>1. Takes(s, I, 0, [k \in 0 .. 0 |-> <<>>])
    BY DEF Takes
  <2>. QED
    BY <1>3, <2>1
<1>4. CASE n # 0
  <2>1. n - 1 \in Nat /\ n - 1 \notin Bad
    BY <1>2, <1>4
  <2>2. PICK f : Takes(s, I, n - 1, f)
    BY <2>1
  <2>. DEFINE g == [k \in 0 .. n |-> IF k = 0 THEN <<>>
                      ELSE IF k \in I THEN Append(f[k - 1], s[k]) ELSE f[k - 1]]
  <2>3. \A k \in 0 .. n - 1 : k \in 0 .. n /\ (k # 0 => k - 1 \in 0 .. n - 1)
    BY <2>1
  <2>4. \A k \in 0 .. n - 1 :
          f[k] = IF k = 0 THEN <<>> ELSE IF k \in I THEN Append(f[k - 1], s[k]) ELSE f[k - 1]
    BY <2>2 DEF Takes
  <2>5. \A k \in 0 .. n - 1 : g[k] = f[k]
    BY <2>3, <2>4
  <2>6. \A k \in 0 .. n : k # 0 => k - 1 \in 0 .. n - 1
    BY <2>1
  <2>7. \A k \in 0 .. n : k # 0 => g[k - 1] = f[k - 1]
    BY <2>5, <2>6
  <2>8. Takes(s, I, n, g)
    BY <2>7 DEF Takes
  <2>. QED
    BY <2>8
<1>. QED
  BY <1>3, <1>4

LEMMA TakenIs ==
  ASSUME NEW s, NEW I, Len(s) \in Nat
  PROVE  \E f : Takes(s, I, Len(s), f) /\ Taken(s, I) = f[Len(s)]
<1>1. \E f : Takes(s, I, Len(s), f)
  BY TakesExist
<1>. QED
  BY <1>1 DEF Takes, Taken

(* What Taken keeps, in its order: the entries at the places asked for.     *)
LEMMA TakenCounts ==
  ASSUME NEW S, NEW s \in Seq(S), NEW I
  PROVE  /\ Taken(s, I) \in Seq(S)
         /\ \A x : Cardinality(Places(x, Taken(s, I))) = Cardinality(Places(x, s) \cap I)
<1>. DEFINE N == Len(s)
            Upto(n) == 1 .. n
            Good(f, n) ==
              /\ f[n] \in Seq(S)
              /\ \A x : Cardinality(Places(x, f[n])) = Cardinality(Places(x, s) \cap I \cap Upto(n))
<1>1. N \in Nat /\ DOMAIN s = 1 .. N
  OBVIOUS
<1>2. PICK f : Takes(s, I, N, f) /\ Taken(s, I) = f[N]
  BY <1>1, TakenIs
<1>3. /\ f[0] = <<>>
      /\ \A n \in 1 .. N : f[n] = IF n \in I THEN Append(f[n - 1], s[n]) ELSE f[n - 1]
  <2>1. 0 \in 0 .. N /\ \A n \in 1 .. N : n \in 0 .. N /\ n # 0
    BY <1>1
  <2>. QED
    BY <1>2, <2>1 DEF Takes
<1>. DEFINE Bad == {n \in 0 .. N : ~ Good(f, n)}
<1>4. ASSUME Bad # {} PROVE FALSE
  <2>1. PICK n \in Bad : \A k \in Bad : n <= k
    <3>1. Bad \subseteq Nat
      BY <1>1
    <3>. HIDE DEF Bad
    <3>. QED
      BY <1>4, <3>1, FirstOf
  <2>2. CASE n = 0
    <3>1. f[0] \in Seq(S)
      BY <1>3
    <3>2. \A x : Places(x, <<>>) = {} /\ Places(x, s) \cap I \cap Upto(0) = {}
      BY DEF Places
    <3>3. \A x : Cardinality(Places(x, f[0])) = Cardinality(Places(x, s) \cap I \cap Upto(0))
      BY <1>3, <3>2
    <3>. QED
      BY <2>2, <3>1, <3>3
  <2>3. CASE n # 0
    <3>1. n \in 1 .. N /\ n - 1 \in 0 .. N /\ n - 1 \notin Bad
      <4>1. n \in 0 .. N
        OBVIOUS
      <4>2. n \in 1 .. N /\ n - 1 \in 0 .. N /\ ~ (n <= n - 1)
        BY <1>1, <2>3, <4>1
      <4>. HIDE DEF Bad
      <4>. QED
        BY <2>1, <4>2
    <3>2. f[n - 1] \in Seq(S) /\ s[n] \in S
          /\ \A x : Cardinality(Places(x, f[n - 1])) = Cardinality(Places(x, s) \cap I \cap Upto(n - 1))
      BY <3>1
    <3>3. f[n] = IF n \in I THEN Append(f[n - 1], s[n]) ELSE f[n - 1]
      BY <1>3, <3>1
    <3>4. f[n] \in Seq(S)
      <4>. DEFINE t == f[n - 1]
                  e == s[n]
      <4>. HIDE DEF t, e
      <4>1. t \in Seq(S) /\ e \in S => Append(t, e) \in Seq(S)
        BY AppendProperties
      <4>. QED
        BY <3>2, <3>3, <4>1 DEF t, e
    <3>5. ASSUME NEW x
          PROVE  Cardinality(Places(x, f[n])) = Cardinality(Places(x, s) \cap I \cap Upto(n))
      <4>. DEFINE P == Places(x, s) \cap I \cap Upto(n - 1)
                  Q == Places(x, s) \cap I \cap Upto(n)
                  t == f[n - 1]
                  e == s[n]
      <4>1. Q = IF n \in I /\ x = e THEN P \cup {n} ELSE P
        <5>1. Upto(n) = Upto(n - 1) \cup {n}
          BY <3>1
        <5>2. n \in Places(x, s) <=> x = e
          BY <1>1, <3>1 DEF Places
        <5>. QED
          BY <5>1, <5>2
      <4>2. n \notin P
        BY <3>1
      <4>3. IsFiniteSet(P)
        <5>1. Places(x, s) \cap I \cap Upto(n - 1) \in SUBSET Places(x, s)
              /\ IsFiniteSet(Places(x, s))
          BY PlacesFinite
        <5>. HIDE DEF P, Q, t, e, Upto
        <5>. QED
          BY <5>1, FS_Subset DEF P
      <4>4. t \in Seq(S) /\ e \in S /\ Cardinality(Places(x, t)) = Cardinality(P)
        BY <3>2
      <4>5. f[n] = IF n \in I THEN Append(t, e) ELSE t
        BY <3>3
      <4>. HIDE DEF P, Q, t, e
      <4>6. Cardinality(P \cup {n}) = Cardinality(P) + 1 /\ Cardinality(P) \in Nat
        BY <4>2, <4>3, FS_AddElement, FS_CardinalityType
      <4>7. Cardinality(Places(x, Append(t, e))) =
              Cardinality(Places(x, t)) + IF x = e THEN 1 ELSE 0
        BY <4>4, PlacesAppend
      <4>8. Cardinality(Places(x, f[n])) = Cardinality(Q)
        BY <4>1, <4>4, <4>5, <4>6, <4>7
      <4>. QED
        BY <4>8 DEF Q
    <3>. QED
      BY <2>1, <3>4, <3>5
  <2>. QED
    BY <2>2, <2>3
<1>5. Good(f, N)
  <2>1. N \in 0 .. N
    BY <1>1
  <2>. QED
    BY <1>4, <2>1
<1>6. \A x : Places(x, s) \cap I \cap Upto(N) = Places(x, s) \cap I
  BY <1>1 DEF Places
<1>. QED
  BY <1>2, <1>5, <1>6

(* Dropping the places of m keeps everybody else's.                         *)
LEMMA WithoutCounts ==
  ASSUME NEW S, NEW s \in Seq(S), NEW m
  PROVE  /\ Without(s, m) \in Seq(S)
         /\ \A x : Cardinality(Places(x, Without(s, m))) =
                     IF x = m THEN 0 ELSE Cardinality(Places(x, s))
<1>. DEFINE I == DOMAIN s \ Places(m, s)
<1>1. \A x : Places(x, s) \cap I = IF x = m THEN {} ELSE Places(x, s)
  BY DEF Places
<1>. HIDE DEF I
<1>2. Taken(s, I) \in Seq(S)
  BY TakenCounts
<1>3. \A x : Cardinality(Places(x, Taken(s, I))) = Cardinality(Places(x, s) \cap I)
  BY TakenCounts
<1>. QED
  BY <1>1, <1>2, <1>3, FS_EmptySet DEF Without, I

(* Dropping one place takes one from whoever holds it.                      *)
LEMMA OneTakenOut ==
  ASSUME NEW S, NEW s \in Seq(S), NEW i \in DOMAIN s
  PROVE  /\ Taken(s, DOMAIN s \ {i}) \in Seq(S)
         /\ \A x : Cardinality(Places(x, Taken(s, DOMAIN s \ {i}))) =
                     Cardinality(Places(x, s)) - IF x = s[i] THEN 1 ELSE 0
<1>. DEFINE I == DOMAIN s \ {i}
<1>1. \A x : Places(x, s) \cap I = Places(x, s) \ {i}
  BY DEF Places
<1>2. \A x : i \in Places(x, s) <=> x = s[i]
  BY DEF Places
<1>. HIDE DEF I
<1>3. Taken(s, I) \in Seq(S)
  BY TakenCounts
<1>4. ASSUME NEW x
      PROVE  Cardinality(Places(x, Taken(s, I))) = Cardinality(Places(x, s)) - IF x = s[i] THEN 1 ELSE 0
  <2>. DEFINE P == Places(x, s)
  <2>1. Cardinality(Places(x, Taken(s, I))) = Cardinality(P \cap I)
    BY TakenCounts
  <2>2. IsFiniteSet(P) /\ Cardinality(P) \in Nat /\ P \cap I = P \ {i} /\ (i \in P <=> x = s[i])
    BY <1>1, <1>2, PlacesFinite
  <2>. HIDE DEF P
  <2>3. Cardinality(P \ {i}) = IF i \in P THEN Cardinality(P) - 1 ELSE Cardinality(P)
    BY <2>2, FS_RemoveElement
  <2>. DEFINE c == Cardinality(Places(x, Taken(s, I)))
  <2>4. c = Cardinality(P \ {i})
    BY <2>1, <2>2, Zenon
  <2>. HIDE DEF c
  <2>5. c = Cardinality(P) - IF x = s[i] THEN 1 ELSE 0
    BY <2>2, <2>3, <2>4
  <2>. QED
    BY <2>5 DEF P, c
<1>. QED
  BY <1>3, <1>4 DEF I

(* Two places that change hands: nobody has more or fewer.                  *)
LEMMA SwapCounts ==
  ASSUME NEW S, NEW s \in Seq(S), NEW i \in DOMAIN s, NEW j \in DOMAIN s
  PROVE  /\ SwapPlaces(s, i, j) \in Seq(S)
         /\ \A x : Cardinality(Places(x, SwapPlaces(s, i, j))) = Cardinality(Places(x, s))
<1>. DEFINE t == SwapPlaces(s, i, j)
            other(k) == IF k = i THEN j ELSE IF k = j THEN i ELSE k
<1>1. /\ DOMAIN t = DOMAIN s
      /\ \A k \in DOMAIN s : other(k) \in DOMAIN s /\ t[k] = s[other(k)] /\ other(other(k)) = k
  BY DEF SwapPlaces
<1>2. t \in Seq(S)
  <2>1. \A k \in DOMAIN s : s[k] \in S
    OBVIOUS
  <2>2. s[i] \in S /\ s[j] \in S
    BY <2>1
  <2>3. [s EXCEPT ![i] = s[j]] \in Seq(S)
    BY <2>2, ExceptSeq
  <2>4. DOMAIN [s EXCEPT ![i] = s[j]] = DOMAIN s
    OBVIOUS
  <2>. DEFINE u == [s EXCEPT ![i] = s[j]]
              e == s[i]
  <2>5. t = [u EXCEPT ![j] = e]
    BY DEF SwapPlaces
  <2>. HIDE DEF u, e, t
  <2>6. u \in Seq(S) /\ j \in DOMAIN u /\ e \in S
    BY <2>2, <2>3, <2>4 DEF u, e
  <2>. QED
    BY <2>5, <2>6, ExceptSeq
<1>3. ASSUME NEW x
      PROVE  Cardinality(Places(x, t)) = Cardinality(Places(x, s))
  <2>. DEFINE P == Places(x, s)
              Q == Places(x, t)
              f == [k \in P |-> other(k)]
  <2>1. f \in Bijection(P, Q)
    <3>1. \A k \in P : other(k) \in Q
      BY <1>1 DEF Places
    <3>2. \A k, l \in P : f[k] = f[l] => k = l
      OBVIOUS
    <3>3. \A k \in Q : other(k) \in P /\ f[other(k)] = k
      BY <1>1 DEF Places
    <3>. QED
      BY <3>1, <3>2, <3>3 DEF Bijection, Injection, Surjection, IsInjective
  <2>2. IsFiniteSet(P)
    BY PlacesFinite
  <2>3. ExistsBijection(P, Q)
    BY <2>1 DEF ExistsBijection
  <2>. HIDE DEF P, Q, f
  <2>4. Cardinality(Q) = Cardinality(P)
    BY <2>2, <2>3, FS_Bijection
  <2>. QED
    BY <2>4 DEF P, Q
<1>. QED
  BY <1>2, <1>3

(* Of a list of numbers there is a first greatest.                          *)
LEMMA FirstBest ==
  ASSUME NEW N \in Nat, N >= 1, NEW f, \A i \in 1 .. N : f[i] \in Int
  PROVE  \E i \in 1 .. N : \A j \in 1 .. N : f[i] > f[j] \/ (f[i] = f[j] /\ i <= j)
<1>. DEFINE Best(i, n) == \A j \in 1 .. n : f[i] > f[j] \/ (f[i] = f[j] /\ i <= j)
            Bad == {n \in 1 .. N : ~ \E i \in 1 .. n : Best(i, n)}
<1>1. ASSUME Bad # {} PROVE FALSE
  <2>1. PICK n \in Bad : \A k \in Bad : n <= k
    <3>1. Bad \subseteq Nat
      OBVIOUS
    <3>. HIDE DEF Bad
    <3>. QED
      BY <1>1, <3>1, FirstOf
  <2>2. n \in 1 .. N
    OBVIOUS
  <2>3. CASE n = 1
    <3>1. f[1] \in Int
      OBVIOUS
    <3>2. 1 \in 1 .. n /\ Best(1, n)
      BY <2>3, <3>1
    <3>. QED
      BY <3>2
  <2>4. CASE n # 1
    <3>1. n - 1 \in 1 .. N /\ ~ (n <= n - 1) /\ \A j \in 1 .. n : j = n \/ j \in 1 .. n - 1
      BY <2>2, <2>4
    <3>2. n - 1 \notin Bad
      <4>. HIDE DEF Bad
      <4>. QED
        BY <2>1, <3>1
    <3>3. PICK i \in 1 .. n - 1 : Best(i, n - 1)
      BY <3>1, <3>2
    <3>4. i \in 1 .. n /\ i < n /\ n \in 1 .. n /\ \A j \in 1 .. n : f[j] \in Int
      BY <2>2, <3>1
    <3>5. CASE f[n] > f[i]
      <4>1. Best(n, n)
        BY <3>1, <3>3, <3>4, <3>5
      <4>. QED
        BY <3>4, <4>1
    <3>6. CASE ~ (f[n] > f[i])
      <4>1. Best(i, n)
        BY <3>1, <3>3, <3>4, <3>6
      <4>. QED
        BY <3>4, <4>1
    <3>. QED
      BY <3>5, <3>6
  <2>. QED
    BY <2>3, <2>4
<1>2. N \in 1 .. N
  OBVIOUS
<1>3. N \notin Bad
  BY <1>1
<1>. QED
  BY <1>2, <1>3

-----------------------------------------------------------------------------
(* A group and what a call makes of it.                                     *)

(* What the calls read of a group to tell whose turn it is: the lists are    *)
(* lists of members, the bids are bids.                                      *)
Bid == [bidder : Member, place : Nat, amount : Nat \ {0}]
GroupFields ==
  {"members", "order", "waitlist", "round", "history", "bids", "paid", "suspended", "exited", "skipped"}

Rostered(g) ==
  /\ GroupFields \subseteq DOMAIN g
  /\ g.members \in Seq(Member) /\ g.order \in Seq(Member) /\ g.waitlist \in Seq(Member)
  /\ g.round \in Nat /\ g.bids \in Seq(Bid) /\ g.paid \subseteq Member
  /\ \E S : g.history \in Seq(S)

Turns(m, g) == Cardinality(Places(m, g.order))

(* The same round, in which nobody is let off a suspension.                 *)
InRound(g, h) ==
  /\ h.round = g.round /\ h.history = g.history /\ h.paid = g.paid /\ h.bids = g.bids
  /\ h.exited = g.exited /\ h.skipped = g.skipped /\ g.suspended \subseteq h.suspended

(* Members stay, nobody loses a turn, and whoever joins has one.            *)
Widens(g, h) ==
  /\ \A m \in Member : Turns(m, h) >= Turns(m, g)
  /\ \A m \in Range(g.members) : m \in Range(h.members)
  /\ \A m \in Range(h.members) : m \in Range(g.members) \/ Turns(m, h) >= 1

Grown(g, h) == Rostered(h) /\ InRound(g, h) /\ Widens(g, h)

(* The same but for money and records of single members.                    *)
Alike(g, h) == GroupFields \subseteq DOMAIN h /\ \A f \in GroupFields : h[f] = g[f]

LEMMA TurnsType ==
  ASSUME NEW g, Rostered(g), NEW m
  PROVE  Turns(m, g) \in Nat /\ (m \in Range(g.members) => m \in Member)
<1>1. Turns(m, g) \in Nat
  BY PlacesFinite DEF Rostered, Turns
<1>2. m \in Range(g.members) => m \in Member
  BY DEF Rostered, Range
<1>. QED
  BY <1>1, <1>2

LEMMA AlikeFields ==
  ASSUME NEW g, NEW h, Alike(g, h)
  PROVE  /\ h.members = g.members /\ h.order = g.order /\ h.waitlist = g.waitlist
         /\ h.round = g.round /\ h.history = g.history /\ h.bids = g.bids /\ h.paid = g.paid
         /\ h.suspended = g.suspended /\ h.exited = g.exited /\ h.skipped = g.skipped
         /\ GroupFields \subseteq DOMAIN h
BY DEF Alike, GroupFields

LEMMA AlikeGrown ==
  ASSUME NEW g, Rostered(g), NEW h, Alike(g, h)
  PROVE  Grown(g, h)
<1>1. \A m \in Member : Turns(m, h) = Turns(m, g) /\ Turns(m, g) \in Nat
  BY AlikeFields, TurnsType DEF Turns
<1>2. Widens(g, h)
  BY <1>1, AlikeFields DEF Widens
<1>3. InRound(g, h)
  BY AlikeFields DEF InRound
<1>4. Rostered(h)
  BY AlikeFields DEF Rostered
<1>. QED
  BY <1>2, <1>3, <1>4 DEF Grown

LEMMA GrownTwice ==
  ASSUME NEW g, Rostered(g), NEW h, NEW k, Grown(g, h), Grown(h, k)
  PROVE  Grown(g, k)
<1>1. InRound(g, k)
  BY DEF Grown, InRound
<1>2. \A m : Turns(m, g) \in Nat /\ Turns(m, h) \in Nat /\ Turns(m, k) \in Nat
             /\ (m \in Range(k.members) => m \in Member)
  BY TurnsType DEF Grown
<1>3. Widens(g, k)
  <2>1. \A m \in Member : Turns(m, k) >= Turns(m, g)
    BY <1>2 DEF Grown, Widens
  <2>2. \A m \in Range(g.members) : m \in Range(k.members)
    BY DEF Grown, Widens
  <2>3. ASSUME NEW m \in Range(k.members), m \notin Range(g.members) PROVE Turns(m, k) >= 1
    BY <1>2, <2>3 DEF Grown, Widens
  <2>. QED
    BY <2>1, <2>2, <2>3 DEF Widens
<1>. QED
  BY <1>1, <1>3 DEF Grown

(* A new member has one turn more, at the end.                               *)
LEMMA JoinsGrown ==
  ASSUME NEW g, Rostered(g), NEW m \in Member
  PROVE  Grown(g, Joins(g, m))
<1>. DEFINE h == Joins(g, m)
<1>1. /\ h.members = Append(g.members, m) /\ h.order = Append(g.order, m)
      /\ h.waitlist = g.waitlist /\ h.round = g.round /\ h.history = g.history
      /\ h.bids = g.bids /\ h.paid = g.paid /\ h.suspended = g.suspended
      /\ h.exited = g.exited /\ h.skipped = g.skipped /\ DOMAIN h = DOMAIN g
  BY DEF Joins, Rostered, GroupFields
<1>2. g.members \in Seq(Member) /\ g.order \in Seq(Member)
  BY DEF Rostered
<1>. HIDE DEF h
<1>3. h.members \in Seq(Member) /\ h.order \in Seq(Member)
  BY <1>1, <1>2, AppendProperties
<1>4. Rostered(h) /\ InRound(g, h)
  BY <1>1, <1>3 DEF Rostered, InRound
<1>5. \A x : Turns(x, h) = Turns(x, g) + IF x = m THEN 1 ELSE 0
  BY <1>1, <1>2, PlacesAppend DEF Turns
<1>6. \A x : /\ x \in Range(g.members) <=> Cardinality(Places(x, g.members)) >= 1
             /\ x \in Range(h.members) <=> Cardinality(Places(x, h.members)) >= 1
             /\ Cardinality(Places(x, g.members)) \in Nat
             /\ Cardinality(Places(x, h.members)) =
                  Cardinality(Places(x, g.members)) + IF x = m THEN 1 ELSE 0
  <2>1. \A x : x \in Range(g.members) <=> Cardinality(Places(x, g.members)) >= 1
    BY <1>2, PlacesFinite
  <2>2. \A x : x \in Range(h.members) <=> Cardinality(Places(x, h.members)) >= 1
    BY <1>3, PlacesFinite
  <2>3. \A x : Cardinality(Places(x, g.members)) \in Nat
    BY <1>2, PlacesFinite
  <2>4. \A x : Cardinality(Places(x, h.members)) =
                 Cardinality(Places(x, g.members)) + IF x = m THEN 1 ELSE 0
    BY <1>1, <1>2, PlacesAppend
  <2>. QED
    BY <2>1, <2>2, <2>3, <2>4
<1>7. \A x : Turns(x, g) \in Nat
  BY TurnsType
<1>8. Widens(g, h)
  BY <1>5, <1>6, <1>7 DEF Widens
<1>. QED
  BY <1>4, <1>8 DEF Grown, h

(* There is a first among those with the best score.                         *)
LEMMA PromotableIs ==
  ASSUME NEW w \in Seq(Member), w # <<>>
  PROVE  Promotable(w) \in DOMAIN w
<1>. DEFINE N == Len(w)
            f == [i \in 1 .. N |-> Score[w[i]]]
            Wins(i) == \A j \in DOMAIN w :
                         Score[w[i]] > Score[w[j]] \/ (Score[w[i]] = Score[w[j]] /\ i <= j)
<1>1. N \in Nat /\ N >= 1 /\ DOMAIN w = 1 .. N /\ 1 \in DOMAIN w
  OBVIOUS
<1>2. \A i \in 1 .. N : f[i] = Score[w[i]] /\ f[i] \in Int
  <2>1. \A i \in 1 .. N : w[i] \in Member
    OBVIOUS
  <2>. QED
    BY <2>1, GroupAssumption DEF GroupAssumption
<1>3. \E i \in 1 .. N : \A j \in 1 .. N : f[i] > f[j] \/ (f[i] = f[j] /\ i <= j)
  <2>. HIDE DEF f, N
  <2>. QED
    BY <1>1, <1>2, FirstBest
<1>4. \E i \in DOMAIN w : Wins(i)
  <2>. HIDE DEF f, N
  <2>. QED
    BY <1>1, <1>2, <1>3
<1>5. (CHOOSE i \in DOMAIN w : Wins(i)) \in DOMAIN w
  <2>. HIDE DEF Wins
  <2>. QED
    BY <1>4
<1>. QED
  BY <1>1, <1>5 DEF Promotable

LEMMA RebalancedAlike ==
  ASSUME NEW g, Rostered(g)
  PROVE  Alike(g, Rebalanced(g))
BY DEF Rostered, Alike, Rebalanced, GroupFields

(* Who is promoted from the waitlist joins; the rest only costs money.       *)
LEMMA PromotedGrown ==
  ASSUME NEW g, Rostered(g)
  PROVE  Grown(g, Promoted(g))
<1>1. CASE g.waitlist = <<>>
  <2>1. Promoted(g) = g /\ Alike(g, g)
    BY <1>1 DEF Promoted, Alike, Rostered
  <2>. QED
    BY <2>1, AlikeGrown
<1>2. CASE g.waitlist # <<>>
  <2>. DEFINE w == g.waitlist
              i == Promotable(w)
              j == Joins(g, w[i])
              h == [j EXCEPT !.waitlist = Taken(@, DOMAIN @ \ {i}), !.held = @ + g.round * g.amount]
  <2>1. w \in Seq(Member) /\ i \in DOMAIN w
    BY <1>2, PromotableIs DEF Rostered
  <2>2. w[i] \in Member
    BY <2>1
  <2>3. Grown(g, j)
    <3>. HIDE DEF w, i
    <3>. QED
      BY <2>2, JoinsGrown
  <2>4. j.waitlist = w
    BY DEF Joins, Rostered, GroupFields
  <2>5. Taken(w, DOMAIN w \ {i}) \in Seq(Member)
    <3>. HIDE DEF w, i
    <3>. QED
      BY <2>1, OneTakenOut
  <2>. HIDE DEF w, i, j
  <2>6. /\ h.members = j.members /\ h.order = j.order
        /\ h.waitlist = Taken(w, DOMAIN w \ {i}) /\ h.round = j.round /\ h.history = j.history
        /\ h.bids = j.bids /\ h.paid = j.paid /\ h.suspended = j.suspended
        /\ h.exited = j.exited /\ h.skipped = j.skipped /\ GroupFields \subseteq DOMAIN h
    BY <2>3, <2>4 DEF Grown, Rostered, GroupFields
  <2>. HIDE DEF h
  <2>7. Grown(g, h)
    <3>1. Rostered(h)
      BY <2>3, <2>5, <2>6 DEF Grown, Rostered
    <3>2. InRound(g, h)
      BY <2>3, <2>6 DEF Grown, InRound
    <3>3. \A m : Turns(m, h) = Turns(m, j)
      BY <2>6 DEF Turns
    <3>4. Widens(g, h)
      BY <2>3, <2>6, <3>3 DEF Grown, Widens
    <3>. QED
      BY <3>1, <3>2, <3>4 DEF Grown
  <2>8. Alike(h, Rebalanced(h))
    BY <2>7, RebalancedAlike DEF Grown
  <2>9. Grown(h, Rebalanced(h))
    BY <2>7, <2>8, AlikeGrown DEF Grown
  <2>10. Promoted(g) = Rebalanced(h)
    BY <1>2 DEF Promoted, h, j, i, w
  <2>. QED
    BY <2>7, <2>9, <2>10, GrownTwice
<1>. QED
  BY <1>1, <1>2

(* One is suspended besides, before the waitlist is asked.                  *)
LEMMA SuspendedGrown ==
  ASSUME NEW g, Rostered(g), NEW h, NEW m, GroupFields \subseteq DOMAIN h,
         \A f \in GroupFields \ {"suspended"} : h[f] = g[f],
         h.suspended = g.suspended \cup {m}
  PROVE  Grown(g, h)
<1>1. /\ h.members = g.members /\ h.order = g.order /\ h.waitlist = g.waitlist
      /\ h.round = g.round /\ h.history = g.history /\ h.bids = g.bids /\ h.paid = g.paid
      /\ h.exited = g.exited /\ h.skipped = g.skipped /\ g.suspended \subseteq h.suspended
  BY DEF GroupFields
<1>2. \A x \in Member : Turns(x, h) = Turns(x, g) /\ Turns(x, g) \in Nat
  BY <1>1, TurnsType DEF Turns
<1>. QED
  BY <1>1, <1>2 DEF Grown, Rostered, InRound, Widens

LEMMA DefaultedGrown ==
  ASSUME NEW g, Rostered(g), NEW m
  PROVE  Grown(g, Defaulted(g, m))
<1>. DEFINE n == g.defaults[m] + 1
            counted == [g EXCEPT !.defaults[m] = n]
            out == [counted EXCEPT !.suspended = @ \cup {m}]
<1>1. Alike(g, counted)
  BY DEF Rostered, Alike, GroupFields
<1>2. GroupFields \subseteq DOMAIN out /\ out.suspended = g.suspended \cup {m}
      /\ \A f \in GroupFields \ {"suspended"} : out[f] = g[f]
  BY DEF Rostered, GroupFields
<1>3. Defaulted(g, m) = Promoted(out) \/ Defaulted(g, m) = counted
  BY DEF Defaulted
<1>. HIDE DEF counted, out
<1>4. Grown(g, counted) /\ Grown(g, out)
  BY <1>1, <1>2, AlikeGrown, SuspendedGrown
<1>5. Grown(out, Promoted(out))
  BY <1>4, PromotedGrown DEF Grown
<1>. QED
  BY <1>3, <1>4, <1>5, GrownTwice

LEMMA PenalisedGrown ==
  ASSUME NEW g, Rostered(g), NEW m
  PROVE  Grown(g, Penalised(g, m))
<1>. DEFINE fined == [g EXCEPT !.held = @ + cfg.penalty]
<1>1. Alike(g, fined)
  BY DEF Rostered, Alike, GroupFields
<1>2. Penalised(g, m) = Defaulted(fined, m)
  BY DEF Penalised
<1>. HIDE DEF fined
<1>3. Grown(g, fined)
  BY <1>1, AlikeGrown
<1>4. Grown(fined, Defaulted(fined, m))
  BY <1>3, DefaultedGrown DEF Grown
<1>. QED
  BY <1>2, <1>3, <1>4, GrownTwice

LEMMA DefaultCountedGrown ==
  ASSUME NEW g, Rostered(g), NEW m
  PROVE  Grown(g, DefaultCounted(g, m))
<1>. DEFINE expired == [g EXCEPT !.window[m] = None]
            opened == [g EXCEPT !.window[m] = now]
<1>1. Alike(g, expired) /\ Alike(g, opened) /\ Alike(g, g)
  BY DEF Rostered, Alike, GroupFields
<1>2. \/ DefaultCounted(g, m) = Defaulted(g, m) \/ DefaultCounted(g, m) = opened
      \/ DefaultCounted(g, m) = g \/ DefaultCounted(g, m) = Defaulted(expired, m)
  BY DEF DefaultCounted
<1>. HIDE DEF expired, opened
<1>3. Grown(g, expired) /\ Grown(g, opened) /\ Grown(g, g)
  BY <1>1, AlikeGrown
<1>4. Grown(g, Defaulted(g, m)) /\ Grown(expired, Defaulted(expired, m))
  BY <1>3, DefaultedGrown DEF Grown
<1>. QED
  BY <1>2, <1>3, <1>4, GrownTwice

(* Moved to the end, a member has as many turns as before.                  *)
LEMMA DemotedGrown ==
  ASSUME NEW g, Rostered(g), NEW m \in Member
  PROVE  Grown(g, Demoted(g, m))
<1>. DEFINE s == g.order
            i == Min(Places(m, s))
            t == Taken(s, DOMAIN s \ {i})
            u == Append(t, m)
            h == [g EXCEPT !.order = u]
<1>1. CASE Places(m, s) = {} \/ ~ (g.late[m] >= cfg.lateThreshold)
  <2>1. Demoted(g, m) = g /\ Alike(g, g)
    BY <1>1 DEF Demoted, Alike, Rostered
  <2>. QED
    BY <2>1, AlikeGrown
<1>2. CASE Places(m, s) # {} /\ g.late[m] >= cfg.lateThreshold
  <2>1. s \in Seq(Member)
    BY DEF Rostered
  <2>2. i \in Places(m, s)
    <3>1. Places(m, s) \subseteq Nat
      BY <2>1 DEF Places
    <3>2. \E x \in Places(m, s) : \A y \in Places(m, s) : x <= y
      BY <1>2, <3>1, FirstOf
    <3>. QED
      BY <3>2 DEF Min
  <2>3. i \in DOMAIN s /\ s[i] = m
    BY <2>2 DEF Places
  <2>4. Demoted(g, m) = h
    BY <1>2 DEF Demoted
  <2>. HIDE DEF i, s
  <2>5. /\ t \in Seq(Member)
        /\ \A x : Cardinality(Places(x, t)) = Cardinality(Places(x, s)) - IF x = m THEN 1 ELSE 0
    BY <2>1, <2>3, OneTakenOut
  <2>. HIDE DEF t
  <2>6. /\ u \in Seq(Member)
        /\ \A x : Cardinality(Places(x, u)) = Cardinality(Places(x, t)) + IF x = m THEN 1 ELSE 0
    BY <2>5, AppendProperties, PlacesAppend
  <2>. HIDE DEF u
  <2>7. \A x : Cardinality(Places(x, s)) \in Nat
    BY <2>1, PlacesFinite
  <2>8. \A x : Cardinality(Places(x, u)) = Cardinality(Places(x, s))
    BY <2>5, <2>6, <2>7
  <2>9. /\ h.members = g.members /\ h.order = u /\ h.waitlist = g.waitlist
        /\ h.round = g.round /\ h.history = g.history /\ h.bids = g.bids /\ h.paid = g.paid
        /\ h.exited = g.exited /\ h.skipped = g.skipped /\ g.suspended = h.suspended
        /\ GroupFields \subseteq DOMAIN h
    BY DEF Rostered, GroupFields
  <2>10. \A x : Turns(x, h) = Turns(x, g) /\ Turns(x, g) \in Nat
    BY <2>7, <2>8, <2>9 DEF Turns, s
  <2>. HIDE DEF h
  <2>11. Grown(g, h)
    BY <2>6, <2>9, <2>10 DEF Grown, Rostered, InRound, Widens
  <2>. QED
    BY <2>4, <2>11
<1>. QED
  BY <1>1, <1>2

(* One member after the other of a list: the same argument for each of the  *)
(* four things done to a whole list.                                        *)
Penalises(g, list, N, f) ==
  f = [n \in 0 .. N |-> IF n = 0 THEN g ELSE Penalised(f[n - 1], list[n])]

LEMMA PenalisesExists ==
  ASSUME NEW g, NEW list, NEW N \in Nat
  PROVE  \E f : Penalises(g, list, N, f)
<1>. DEFINE Bad == {n \in Nat : ~ \E f : Penalises(g, list, n, f)}
<1>1. SUFFICES ASSUME Bad # {} PROVE FALSE
  OBVIOUS
<1>2. PICK n \in Bad : \A k \in Bad : n <= k
  <2>1. Bad \subseteq Nat
    OBVIOUS
  <2>. HIDE DEF Bad
  <2>. QED
    BY <1>1, <2>1, FirstOf
<1>3. CASE n = 0
  <2>1. Penalises(g, list, 0, [k \in 0 .. 0 |-> g])
    BY DEF Penalises
  <2>. QED
    BY <1>3, <2>1
<1>4. CASE n # 0
  <2>1. n - 1 \in Nat /\ n - 1 \notin Bad
    BY <1>2, <1>4
  <2>2. PICK f : Penalises(g, list, n - 1, f)
    BY <2>1
  <2>. DEFINE h == [k \in 0 .. n |-> IF k = 0 THEN g ELSE Penalised(f[k - 1], list[k])]
  <2>3. \A k \in 0 .. n - 1 : k \in 0 .. n /\ (k # 0 => k - 1 \in 0 .. n - 1)
    BY <2>1
  <2>4. \A k \in 0 .. n - 1 : f[k] = IF k = 0 THEN g ELSE Penalised(f[k - 1], list[k])
    BY <2>2 DEF Penalises
  <2>5. \A k \in 0 .. n - 1 : h[k] = f[k]
    BY <2>3, <2>4
  <2>6. \A k \in 0 .. n : k # 0 => k - 1 \in 0 .. n - 1
    BY <2>1
  <2>7. \A k \in 0 .. n : k # 0 => h[k - 1] = f[k - 1]
    BY <2>5, <2>6
  <2>8. Penalises(g, list, n, h)
    BY <2>7 DEF Penalises
  <2>. QED
    BY <2>8
<1>. QED
  BY <1>3, <1>4

LEMMA AllPenalisedGrown ==
  ASSUME NEW g, Rostered(g), NEW list \in Seq(Member)
  PROVE  Grown(g, AllPenalised(g, list))
<1>. DEFINE N == Len(list)
<1>1. N \in Nat /\ \A n \in 1 .. N : list[n] \in Member
  OBVIOUS
<1>2. PICK f : Penalises(g, list, N, f) /\ AllPenalised(g, list) = f[N]
  <2>1. \E f : Penalises(g, list, N, f)
    BY <1>1, PenalisesExists
  <2>. QED
    BY <2>1 DEF Penalises, AllPenalised
<1>3. f[0] = g /\ \A n \in 1 .. N : f[n] = Penalised(f[n - 1], list[n])
  <2>1. 0 \in 0 .. N /\ \A n \in 1 .. N : n \in 0 .. N /\ n # 0
    BY <1>1
  <2>. QED
    BY <1>2, <2>1 DEF Penalises
<1>. DEFINE Bad == {n \in 0 .. N : ~ Grown(g, f[n])}
<1>4. ASSUME Bad # {} PROVE FALSE
  <2>1. PICK n \in Bad : \A k \in Bad : n <= k
    <3>1. Bad \subseteq Nat
      BY <1>1
    <3>. HIDE DEF Bad
    <3>. QED
      BY <1>4, <3>1, FirstOf
  <2>2. Alike(g, g)
    BY DEF Alike, Rostered
  <2>3. Grown(g, f[0])
    BY <1>3, <2>2, AlikeGrown
  <2>4. n \in 0 .. N /\ n # 0
    BY <2>3
  <2>5. n \in 1 .. N /\ n - 1 \in 0 .. N /\ ~ (n <= n - 1)
    BY <1>1, <2>4
  <2>6. n - 1 \notin Bad
    <3>. HIDE DEF Bad
    <3>. QED
      BY <2>1, <2>5
  <2>7. Grown(g, f[n - 1])
    BY <2>5, <2>6
  <2>8. Grown(f[n - 1], f[n])
    <3>1. list[n] \in Member /\ Rostered(f[n - 1])
          /\ f[n] = Penalised(f[n - 1], list[n])
      BY <1>1, <1>3, <2>5, <2>7 DEF Grown
    <3>. DEFINE h == f[n - 1]
                m == list[n]
    <3>2. Rostered(h) /\ m \in Member
      BY <3>1
    <3>. HIDE DEF h, m
    <3>3. Grown(h, Penalised(h, m))
      BY <3>2, PenalisedGrown
    <3>. QED
      BY <3>1, <3>3 DEF h, m
  <2>9. Grown(g, f[n])
    BY <2>7, <2>8, GrownTwice
  <2>. QED
    BY <2>9
<1>5. N \in 0 .. N /\ N \notin Bad
  BY <1>1, <1>4
<1>. QED
  BY <1>2, <1>5

(* Likewise the members who missed the deadline,                            *)
CountsOut(g, list, N, f) ==
  f = [n \in 0 .. N |-> IF n = 0 THEN g ELSE DefaultCounted(f[n - 1], list[n])]

LEMMA CountsOutExists ==
  ASSUME NEW g, NEW list, NEW N \in Nat
  PROVE  \E f : CountsOut(g, list, N, f)
<1>. DEFINE Bad == {n \in Nat : ~ \E f : CountsOut(g, list, n, f)}
<1>1. SUFFICES ASSUME Bad # {} PROVE FALSE
  OBVIOUS
<1>2. PICK n \in Bad : \A k \in Bad : n <= k
  <2>1. Bad \subseteq Nat
    OBVIOUS
  <2>. HIDE DEF Bad
  <2>. QED
    BY <1>1, <2>1, FirstOf
<1>3. CASE n = 0
  <2>1. CountsOut(g, list, 0, [k \in 0 .. 0 |-> g])
    BY DEF CountsOut
  <2>. QED
    BY <1>3, <2>1
<1>4. CASE n # 0
  <2>1. n - 1 \in Nat /\ n - 1 \notin Bad
    BY <1>2, <1>4
  <2>2. PICK f : CountsOut(g, list, n - 1, f)
    BY <2>1
  <2>. DEFINE h == [k \in 0 .. n |-> IF k = 0 THEN g ELSE DefaultCounted(f[k - 1], list[k])]
  <2>3. \A k \in 0 .. n - 1 : k \in 0 .. n /\ (k # 0 => k - 1 \in 0 .. n - 1)
    BY <2>1
  <2>4. \A k \in 0 .. n - 1 : f[k] = IF k = 0 THEN g ELSE DefaultCounted(f[k - 1], list[k])
    BY <2>2 DEF CountsOut
  <2>5. \A k \in 0 .. n - 1 : h[k] = f[k]
    BY <2>3, <2>4
  <2>6. \A k \in 0 .. n : k # 0 => k - 1 \in 0 .. n - 1
    BY <2>1
  <2>7. \A k \in 0 .. n : k # 0 => h[k - 1] = f[k - 1]
    BY <2>5, <2>6
  <2>8. CountsOut(g, list, n, h)
    BY <2>7 DEF CountsOut
  <2>. QED
    BY <2>8
<1>. QED
  BY <1>3, <1>4

LEMMA AllCountedOutGrown ==
  ASSUME NEW g, Rostered(g), NEW list \in Seq(Member)
  PROVE  Grown(g, AllCountedOut(g, list))
<1>. DEFINE N == Len(list)
<1>1. N \in Nat /\ \A n \in 1 .. N : list[n] \in Member
  OBVIOUS
<1>2. PICK f : CountsOut(g, list, N, f) /\ AllCountedOut(g, list) = f[N]
  <2>1. \E f : CountsOut(g, list, N, f)
    BY <1>1, CountsOutExists
  <2>. QED
    BY <2>1 DEF CountsOut, AllCountedOut
<1>3. f[0] = g /\ \A n \in 1 .. N : f[n] = DefaultCounted(f[n - 1], list[n])
  <2>1. 0 \in 0 .. N /\ \A n \in 1 .. N : n \in 0 .. N /\ n # 0
    BY <1>1
  <2>. QED
    BY <1>2, <2>1 DEF CountsOut
<1>. DEFINE Bad == {n \in 0 .. N : ~ Grown(g, f[n])}
<1>4. ASSUME Bad # {} PROVE FALSE
  <2>1. PICK n \in Bad : \A k \in Bad : n <= k
    <3>1. Bad \subseteq Nat
      BY <1>1
    <3>. HIDE DEF Bad
    <3>. QED
      BY <1>4, <3>1, FirstOf
  <2>2. Alike(g, g)
    BY DEF Alike, Rostered
  <2>3. Grown(g, f[0])
    BY <1>3, <2>2, AlikeGrown
  <2>4. n \in 0 .. N /\ n # 0
    BY <2>3
  <2>5. n \in 1 .. N /\ n - 1 \in 0 .. N /\ ~ (n <= n - 1)
    BY <1>1, <2>4
  <2>6. n - 1 \notin Bad
    <3>. HIDE DEF Bad
    <3>. QED
      BY <2>1, <2>5
  <2>7. Grown(g, f[n - 1])
    BY <2>5, <2>6
  <2>8. Grown(f[n - 1], f[n])
    <3>1. list[n] \in Member /\ Rostered(f[n - 1])
          /\ f[n] = DefaultCounted(f[n - 1], list[n])
      BY <1>1, <1>3, <2>5, <2>7 DEF Grown
    <3>. DEFINE h == f[n - 1]
                m == list[n]
    <3>2. Rostered(h) /\ m \in Member
      BY <3>1
    <3>. HIDE DEF h, m
    <3>3. Grown(h, DefaultCounted(h, m))
      BY <3>2, DefaultCountedGrown
    <3>. QED
      BY <3>1, <3>3 DEF h, m
  <2>9. Grown(g, f[n])
    BY <2>7, <2>8, GrownTwice
  <2>. QED
    BY <2>9
<1>5. N \in 0 .. N /\ N \notin Bad
  BY <1>1, <1>4
<1>. QED
  BY <1>2, <1>5

(* those who are late too often,                                            *)
Demotes(g, list, N, f) ==
  f = [n \in 0 .. N |-> IF n = 0 THEN g ELSE Demoted(f[n - 1], list[n])]

LEMMA DemotesExists ==
  ASSUME NEW g, NEW list, NEW N \in Nat
  PROVE  \E f : Demotes(g, list, N, f)
<1>. DEFINE Bad == {n \in Nat : ~ \E f : Demotes(g, list, n, f)}
<1>1. SUFFICES ASSUME Bad # {} PROVE FALSE
  OBVIOUS
<1>2. PICK n \in Bad : \A k \in Bad : n <= k
  <2>1. Bad \subseteq Nat
    OBVIOUS
  <2>. HIDE DEF Bad
  <2>. QED
    BY <1>1, <2>1, FirstOf
<1>3. CASE n = 0
  <2>1. Demotes(g, list, 0, [k \in 0 .. 0 |-> g])
    BY DEF Demotes
  <2>. QED
    BY <1>3, <2>1
<1>4. CASE n # 0
  <2>1. n - 1 \in Nat /\ n - 1 \notin Bad
    BY <1>2, <1>4
  <2>2. PICK f : Demotes(g, list, n - 1, f)
    BY <2>1
  <2>. DEFINE h == [k \in 0 .. n |-> IF k = 0 THEN g ELSE Demoted(f[k - 1], list[k])]
  <2>3. \A k \in 0 .. n - 1 : k \in 0 .. n /\ (k # 0 => k - 1 \in 0 .. n - 1)
    BY <2>1
  <2>4. \A k \in 0 .. n - 1 : f[k] = IF k = 0 THEN g ELSE Demoted(f[k - 1], list[k])
    BY <2>2 DEF Demotes
  <2>5. \A k \in 0 .. n - 1 : h[k] = f[k]
    BY <2>3, <2>4
  <2>6. \A k \in 0 .. n : k # 0 => k - 1 \in 0 .. n - 1
    BY <2>1
  <2>7. \A k \in 0 .. n : k # 0 => h[k - 1] = f[k - 1]
    BY <2>5, <2>6
  <2>8. Demotes(g, list, n, h)
    BY <2>7 DEF Demotes
  <2>. QED
    BY <2>8
<1>. QED
  BY <1>3, <1>4

LEMMA AllDemotedGrown ==
  ASSUME NEW g, Rostered(g), NEW list \in Seq(Member)
  PROVE  Grown(g, AllDemoted(g, list))
<1>. DEFINE N == Len(list)
<1>1. N \in Nat /\ \A n \in 1 .. N : list[n] \in Member
  OBVIOUS
<1>2. PICK f : Demotes(g, list, N, f) /\ AllDemoted(g, list) = f[N]
  <2>1. \E f : Demotes(g, list, N, f)
    BY <1>1, DemotesExists
  <2>. QED
    BY <2>1 DEF Demotes, AllDemoted
<1>3. f[0] = g /\ \A n \in 1 .. N : f[n] = Demoted(f[n - 1], list[n])
  <2>1. 0 \in 0 .. N /\ \A n \in 1 .. N : n \in 0 .. N /\ n # 0
    BY <1>1
  <2>. QED
    BY <1>2, <2>1 DEF Demotes
<1>. DEFINE Bad == {n \in 0 .. N : ~ Grown(g, f[n])}
<1>4. ASSUME Bad # {} PROVE FALSE
  <2>1. PICK n \in Bad : \A k \in Bad : n <= k
    <3>1. Bad \subseteq Nat
      BY <1>1
    <3>. HIDE DEF Bad
    <3>. QED
      BY <1>4, <3>1, FirstOf
  <2>2. Alike(g, g)
    BY DEF Alike, Rostered
  <2>3. Grown(g, f[0])
    BY <1>3, <2>2, AlikeGrown
  <2>4. n \in 0 .. N /\ n # 0
    BY <2>3
  <2>5. n \in 1 .. N /\ n - 1 \in 0 .. N /\ ~ (n <= n - 1)
    BY <1>1, <2>4
  <2>6. n - 1 \notin Bad
    <3>. HIDE DEF Bad
    <3>. QED
      BY <2>1, <2>5
  <2>7. Grown(g, f[n - 1])
    BY <2>5, <2>6
  <2>8. Grown(f[n - 1], f[n])
    <3>1. list[n] \in Member /\ Rostered(f[n - 1])
          /\ f[n] = Demoted(f[n - 1], list[n])
      BY <1>1, <1>3, <2>5, <2>7 DEF Grown
    <3>. DEFINE h == f[n - 1]
                m == list[n]
    <3>2. Rostered(h) /\ m \in Member
      BY <3>1
    <3>. HIDE DEF h, m
    <3>3. Grown(h, Demoted(h, m))
      BY <3>2, DemotedGrown
    <3>. QED
      BY <3>1, <3>3 DEF h, m
  <2>9. Grown(g, f[n])
    BY <2>7, <2>8, GrownTwice
  <2>. QED
    BY <2>9
<1>5. N \in 0 .. N /\ N \notin Bad
  BY <1>1, <1>4
<1>. QED
  BY <1>2, <1>5

(* and those who come with a merge.                                         *)
JoinedIf(g, m) == IF m \in Range(g.members) THEN g ELSE Joins(g, m)

LEMMA JoinedIfGrown ==
  ASSUME NEW g, Rostered(g), NEW m \in Member
  PROVE  Grown(g, JoinedIf(g, m))
<1>1. Alike(g, g)
  BY DEF Alike, Rostered
<1>. QED
  BY <1>1, AlikeGrown, JoinsGrown DEF JoinedIf

Merges(g, list, N, f) ==
  f = [n \in 0 .. N |-> IF n = 0 THEN g ELSE JoinedIf(f[n - 1], list[n])]

LEMMA MergesExists ==
  ASSUME NEW g, NEW list, NEW N \in Nat
  PROVE  \E f : Merges(g, list, N, f)
<1>. DEFINE Bad == {n \in Nat : ~ \E f : Merges(g, list, n, f)}
<1>1. SUFFICES ASSUME Bad # {} PROVE FALSE
  OBVIOUS
<1>2. PICK n \in Bad : \A k \in Bad : n <= k
  <2>1. Bad \subseteq Nat
    OBVIOUS
  <2>. HIDE DEF Bad
  <2>. QED
    BY <1>1, <2>1, FirstOf
<1>3. CASE n = 0
  <2>1. Merges(g, list, 0, [k \in 0 .. 0 |-> g])
    BY DEF Merges
  <2>. QED
    BY <1>3, <2>1
<1>4. CASE n # 0
  <2>1. n - 1 \in Nat /\ n - 1 \notin Bad
    BY <1>2, <1>4
  <2>2. PICK f : Merges(g, list, n - 1, f)
    BY <2>1
  <2>. DEFINE h == [k \in 0 .. n |-> IF k = 0 THEN g ELSE JoinedIf(f[k - 1], list[k])]
  <2>3. \A k \in 0 .. n - 1 : k \in 0 .. n /\ (k # 0 => k - 1 \in 0 .. n - 1)
    BY <2>1
  <2>4. \A k \in 0 .. n - 1 : f[k] = IF k = 0 THEN g ELSE JoinedIf(f[k - 1], list[k])
    BY <2>2 DEF Merges
  <2>5. \A k \in 0 .. n - 1 : h[k] = f[k]
    BY <2>3, <2>4
  <2>6. \A k \in 0 .. n : k # 0 => k - 1 \in 0 .. n - 1
    BY <2>1
  <2>7. \A k \in 0 .. n : k # 0 => h[k - 1] = f[k - 1]
    BY <2>5, <2>6
  <2>8. Merges(g, list, n, h)
    BY <2>7 DEF Merges
  <2>. QED
    BY <2>8
<1>. QED
  BY <1>3, <1>4

LEMMA AllJoinedGrown ==
  ASSUME NEW g, Rostered(g), NEW list \in Seq(Member)
  PROVE  Grown(g, AllJoined(g, list))
<1>. DEFINE N == Len(list)
<1>1. N \in Nat /\ \A n \in 1 .. N : list[n] \in Member
  OBVIOUS
<1>2. PICK f : Merges(g, list, N, f) /\ AllJoined(g, list) = f[N]
  <2>1. \E f : Merges(g, list, N, f)
    BY <1>1, MergesExists
  <2>. QED
    BY <2>1 DEF Merges, AllJoined, JoinedIf
<1>3. f[0] = g /\ \A n \in 1 .. N : f[n] = JoinedIf(f[n - 1], list[n])
  <2>1. 0 \in 0 .. N /\ \A n \in 1 .. N : n \in 0 .. N /\ n # 0
    BY <1>1
  <2>. QED
    BY <1>2, <2>1 DEF Merges
<1>. DEFINE Bad == {n \in 0 .. N : ~ Grown(g, f[n])}
<1>4. ASSUME Bad # {} PROVE FALSE
  <2>1. PICK n \in Bad : \A k \in Bad : n <= k
    <3>1. Bad \subseteq Nat
      BY <1>1
    <3>. HIDE DEF Bad
    <3>. QED
      BY <1>4, <3>1, FirstOf
  <2>2. Alike(g, g)
    BY DEF Alike, Rostered
  <2>3. Grown(g, f[0])
    BY <1>3, <2>2, AlikeGrown
  <2>4. n \in 0 .. N /\ n # 0
    BY <2>3
  <2>5. n \in 1 .. N /\ n - 1 \in 0 .. N /\ ~ (n <= n - 1)
    BY <1>1, <2>4
  <2>6. n - 1 \notin Bad
    <3>. HIDE DEF Bad
    <3>. QED
      BY <2>1, <2>5
  <2>7. Grown(g, f[n - 1])
    BY <2>5, <2>6
  <2>8. Grown(f[n - 1], f[n])
    <3>1. list[n] \in Member /\ Rostered(f[n - 1])
          /\ f[n] = JoinedIf(f[n - 1], list[n])
      BY <1>1, <1>3, <2>5, <2>7 DEF Grown
    <3>. DEFINE h == f[n - 1]
                m == list[n]
    <3>2. Rostered(h) /\ m \in Member
      BY <3>1
    <3>. HIDE DEF h, m
    <3>3. Grown(h, JoinedIf(h, m))
      BY <3>2, JoinedIfGrown
    <3>. QED
      BY <3>1, <3>3 DEF h, m
  <2>9. Grown(g, f[n])
    BY <2>7, <2>8, GrownTwice
  <2>. QED
    BY <2>9
<1>5. N \in 0 .. N /\ N \notin Bad
  BY <1>1, <1>4
<1>. QED
  BY <1>2, <1>5

-----------------------------------------------------------------------------
(* The payout.                                                              *)

(* y is d times L and x over: x is the remainder.                            *)
LEMMA RemainderIs ==
  ASSUME NEW L \in Nat, L >= 1, NEW d \in Int, NEW x \in 0 .. L - 1, NEW y \in Int, y = L * d + x
  PROVE  y % L = x
<1>. DEFINE e == y \div L
            z == y % L
<1>1. e \in Int /\ z \in 0 .. L - 1 /\ y = L * e + z
  OBVIOUS
<1>. HIDE DEF e, z
<1>2. L * d + x = L * e + z
  BY <1>1
<1>3. ASSUME d > e PROVE FALSE
  <2>1. PICK k \in Nat : d = e + 1 + k
    <3>1. d - e - 1 \in Nat /\ d = e + 1 + (d - e - 1)
      BY <1>1, <1>3
    <3>. QED
      BY <3>1
  <2>2. L * d = L * e + L + L * k /\ L * k >= 0
    BY <1>1, <2>1
  <2>. QED
    BY <1>1, <1>2, <2>2
<1>4. ASSUME d < e PROVE FALSE
  <2>1. PICK k \in Nat : e = d + 1 + k
    <3>1. e - d - 1 \in Nat /\ e = d + 1 + (e - d - 1)
      BY <1>1, <1>4
    <3>. QED
      BY <3>1
  <2>2. L * e = L * d + L + L * k /\ L * k >= 0
    BY <1>1, <2>1
  <2>. QED
    BY <1>1, <1>2, <2>2
<1>5. d = e
  BY <1>1, <1>3, <1>4
<1>6. x = z
  BY <1>1, <1>2, <1>5
<1>. QED
  BY <1>6 DEF z

(* Every place of the order comes up within as many turns as it has places. *)
LEMMA EveryTurn ==
  ASSUME NEW L \in Nat, L >= 1, NEW r \in Nat, NEW i \in 1 .. L
  PROVE  \E k \in 0 .. L - 1 : ((r + k) % L) + 1 = i
<1>. DEFINE q == r % L
            d == r \div L
            x == i - 1
<1>1. q \in 0 .. L - 1 /\ d \in Int /\ r = L * d + q
  OBVIOUS
<1>2. x \in 0 .. L - 1
  OBVIOUS
<1>. HIDE DEF q, d
<1>3. CASE x >= q
  <2>. DEFINE k == x - q
  <2>1. k \in 0 .. L - 1 /\ r + k \in Int /\ r + k = L * d + x
    BY <1>1, <1>2, <1>3
  <2>2. (r + k) % L = x
    <3>. HIDE DEF k, x
    <3>. QED
      BY <1>1, <1>2, <2>1, RemainderIs
  <2>. HIDE DEF k
  <2>3. ((r + k) % L) + 1 = i
    BY <2>2
  <2>. QED
    BY <2>1, <2>3
<1>4. CASE x < q
  <2>. DEFINE k == x - q + L
              b == d + 1
  <2>1. k \in 0 .. L - 1 /\ r + k \in Int /\ b \in Int
    BY <1>1, <1>2, <1>4
  <2>2. L * b = L * d + L
    BY <1>1
  <2>3. r + k = L * b + x
    <3>. HIDE DEF b
    <3>. QED
      BY <1>1, <1>2, <2>2
  <2>4. (r + k) % L = x
    <3>. HIDE DEF k, x, b
    <3>. QED
      BY <1>1, <1>2, <2>1, <2>3, RemainderIs
  <2>. HIDE DEF k
  <2>5. ((r + k) % L) + 1 = i
    BY <2>4
  <2>. QED
    BY <2>1, <2>5
<1>. QED
  BY <1>1, <1>2, <1>3, <1>4

(* If the order holds anyone who is not passed over, the recipient is not.   *)
LEMMA RecipientIs ==
  ASSUME NEW g, Rostered(g), Payable(g)
  PROVE  Recipient(g) \in Member /\ ~PassedOver(g, Recipient(g))
<1>. DEFINE L == Len(g.order)
            turn(k) == g.order[((g.round + k) % L) + 1]
            S == {k \in 0 .. L - 1 : ~PassedOver(g, turn(k))}
            First(k) == ~PassedOver(g, turn(k)) /\ \A j \in 0 .. k - 1 : PassedOver(g, turn(j))
            c == CHOOSE k \in 0 .. L - 1 : First(k)
<1>1. PICK i \in DOMAIN g.order : ~PassedOver(g, g.order[i])
  BY DEF Payable
<1>2. L \in Nat /\ L >= 1 /\ i \in 1 .. L /\ g.round \in Nat /\ DOMAIN g.order = 1 .. L
  BY <1>1 DEF Rostered
<1>3. S # {}
  <2>. HIDE DEF L
  <2>1. PICK k \in 0 .. L - 1 : ((g.round + k) % L) + 1 = i
    BY <1>2, EveryTurn
  <2>2. ~PassedOver(g, turn(k))
    BY <1>1, <2>1
  <2>. QED
    BY <2>2
<1>4. \E k \in 0 .. L - 1 : First(k)
  <2>1. S \subseteq Nat
    BY <1>2
  <2>2. PICK k \in S : \A j \in S : k <= j
    <3>. HIDE DEF S
    <3>. QED
      BY <1>3, <2>1, FirstOf
  <2>3. k \in 0 .. L - 1 /\ ~PassedOver(g, turn(k))
    OBVIOUS
  <2>4. ASSUME NEW j \in 0 .. k - 1 PROVE PassedOver(g, turn(j))
    <3>1. j \in 0 .. L - 1 /\ ~ (k <= j)
      BY <1>2, <2>3
    <3>2. j \notin S
      <4>. HIDE DEF S
      <4>. QED
        BY <2>2, <3>1
    <3>. QED
      BY <3>1, <3>2
  <2>. QED
    BY <2>3, <2>4
<1>5. c \in 0 .. L - 1 /\ First(c)
  <2>. HIDE DEF First
  <2>. QED
    BY <1>4
<1>6. Recipient(g) = turn(c)
  BY DEF Recipient
<1>7. turn(c) \in Member
  <2>1. ((g.round + c) % L) + 1 \in 1 .. L
    <3>. HIDE DEF c, L
    <3>. QED
      BY <1>2, <1>5
  <2>. HIDE DEF c, L
  <2>. QED
    BY <1>2, <2>1 DEF Rostered
<1>. QED
  BY <1>5, <1>6, <1>7

(* A round is over, and the one whose turn it is was paid.                  *)
Completed(g, h) ==
  /\ Rostered(h)
  /\ h.members = g.members /\ h.order = g.order /\ h.round = g.round + 1
  /\ h.suspended = g.suspended /\ h.exited = g.exited /\ h.skipped = g.skipped
  /\ \E p : h.history = Append(g.history, p) /\ p.recipient = Recipient(g)

LEMMA NextRoundFields ==
  ASSUME NEW g, Rostered(g)
  PROVE  /\ Rostered(NextRound(g)) /\ NextRound(g).round = g.round + 1 /\ NextRound(g).paid = {}
         /\ \A f \in {"members", "order", "history", "suspended", "exited", "skipped"} :
              NextRound(g)[f] = g[f]
<1>. DEFINE h == NextRound(g)
<1>1. /\ GroupFields \subseteq DOMAIN h /\ h.members = g.members /\ h.order = g.order
      /\ h.waitlist = g.waitlist /\ h.round = g.round + 1 /\ h.history = g.history /\ h.paid = {}
      /\ h.bids = <<>> \/ h.bids = g.bids
      /\ h.suspended = g.suspended /\ h.exited = g.exited /\ h.skipped = g.skipped
  BY DEF NextRound, Rostered, GroupFields
<1>. HIDE DEF h
<1>2. h.bids \in Seq(Bid)
  <2>1. <<>> \in Seq(Bid)
    OBVIOUS
  <2>2. g.bids \in Seq(Bid)
    BY DEF Rostered
  <2>. QED
    BY <1>1, <2>1, <2>2, Zenon
<1>3. Rostered(h)
  BY <1>1, <1>2 DEF Rostered
<1>. QED
  BY <1>1, <1>3 DEF h

LEMMA PaidOutCompletes ==
  ASSUME NEW g, Rostered(g), Payable(g)
  PROVE  Completed(g, PaidOut(g))
<1>. DEFINE r == Recipient(g)
            pot == g.held - g.rewards
            fee == IF pot > 0 THEN Bps(pot, cfg.feeBps) ELSE 0
            net == IF pot > 0 THEN pot - fee ELSE 0
            kept == IF r \in g.reinvest THEN net ELSE 0
            p == [recipient |-> r, amount |-> pot]
            b == [g EXCEPT !.insurance = @ - Drawn(g), !.held = @ - fee - (net - kept),
                           !.history = Append(@, p)]
            over == NextRound(b)
            counts == kept >= g.amount
            h == [over EXCEPT !.contributed[r] = kept, !.paid = IF counts THEN @ \cup {r} ELSE @,
                              !.shares[r] = IF counts THEN @ + 1 ELSE @]
<1>1. r \in Member
  BY RecipientIs
<1>2. p.recipient = r
  OBVIOUS
<1>3. PaidOut(g) = over \/ PaidOut(g) = h
  BY DEF PaidOut
<1>. HIDE DEF r, pot, fee, net, kept, p
<1>4. /\ GroupFields \subseteq DOMAIN b /\ b.members = g.members /\ b.order = g.order
      /\ b.waitlist = g.waitlist /\ b.round = g.round /\ b.history = Append(g.history, p)
      /\ b.bids = g.bids /\ b.paid = g.paid
      /\ b.suspended = g.suspended /\ b.exited = g.exited /\ b.skipped = g.skipped
  BY DEF Rostered, GroupFields
<1>. HIDE DEF b
<1>5. \E S : b.history \in Seq(S)
  <2>1. PICK S : g.history \in Seq(S)
    BY DEF Rostered
  <2>2. g.history \in Seq(S \cup {p})
    BY <2>1
  <2>3. Append(g.history, p) \in Seq(S \cup {p})
    BY <2>2, AppendProperties
  <2>. QED
    BY <1>4, <2>3
<1>6. Rostered(b)
  BY <1>4, <1>5 DEF Rostered
<1>7. /\ Rostered(over) /\ over.round = b.round + 1 /\ over.paid = {}
      /\ \A f \in {"members", "order", "history", "suspended", "exited", "skipped"} : over[f] = b[f]
  BY <1>6, NextRoundFields
<1>. HIDE DEF over
<1>8. Completed(g, over)
  BY <1>2, <1>4, <1>7 DEF Completed, r
<1>9. /\ GroupFields \subseteq DOMAIN h /\ h.members = over.members /\ h.order = over.order
      /\ h.waitlist = over.waitlist /\ h.round = over.round /\ h.history = over.history
      /\ h.bids = over.bids /\ h.paid \subseteq over.paid \cup {r}
      /\ h.suspended = over.suspended /\ h.exited = over.exited /\ h.skipped = over.skipped
  BY <1>7 DEF Rostered, GroupFields
<1>. HIDE DEF h
<1>10. Completed(g, h)
  BY <1>1, <1>8, <1>9 DEF Completed, Rostered
<1>. QED
  BY <1>3, <1>8, <1>10

-----------------------------------------------------------------------------
(* What any call may do to a group; late says that its deadline is over.    *)

(* The order: who is in the group afterwards has lost no turn.               *)
Kin(g, h) ==
  \A m \in Range(h.members) : Turns(m, h) >= IF m \in Range(g.members) THEN Turns(m, g) ELSE 1

(* The rounds: what RoundPaidOnce says of a step.                            *)
RoundLaw(g, h, late) ==
  /\ h.round # g.round => h.round = g.round + 1
  /\ h.history # g.history =>
       /\ h.round # g.round
       /\ Front(h.history) = g.history
       /\ Last(h.history).recipient \notin g.suspended \cup g.exited
       /\ <<Last(h.history).recipient, g.round>> \notin g.skipped
  /\ h.round # g.round /\ ~late =>
       /\ h.history # g.history
       /\ Cardinality(Range(g.members) \ g.paid) <= Cardinality(g.paid \ Range(g.members)) + 1

Lawful(g, h, late) == Rostered(h) /\ Kin(g, h) /\ RoundLaw(g, h, late)

LEMMA OrderLawful ==
  ASSUME NEW g, NEW h, NEW late, Rostered(h), Kin(g, h), h.round = g.round, h.history = g.history
  PROVE  Lawful(g, h, late)
BY DEF Lawful, RoundLaw

LEMMA NotedLawful ==
  ASSUME NEW g, Rostered(g), NEW h, NEW late, Rostered(h),
         h.members = g.members, h.order = g.order, h.round = g.round, h.history = g.history
  PROVE  Lawful(g, h, late)
<1>1. \A m : Turns(m, h) = Turns(m, g) /\ Turns(m, g) \in Nat
  BY TurnsType DEF Turns
<1>2. Kin(g, h)
  BY <1>1 DEF Kin
<1>. QED
  BY <1>2, OrderLawful

LEMMA GrownLawful ==
  ASSUME NEW g, Rostered(g), NEW h, NEW late, Grown(g, h)
  PROVE  Lawful(g, h, late)
<1>1. \A m \in Range(h.members) : m \in Member
  BY TurnsType DEF Grown
<1>2. Kin(g, h)
  BY <1>1 DEF Grown, Widens, Kin
<1>. QED
  BY <1>2, OrderLawful DEF Grown, InRound

LEMMA AlikeLawful ==
  ASSUME NEW g, Rostered(g), NEW h, NEW late, Alike(g, h)
  PROVE  Lawful(g, h, late)
BY AlikeGrown, GrownLawful

LEMMA FrontOfAppended ==
  ASSUME NEW S, NEW s \in Seq(S), NEW e
  PROVE  Front(Append(s, e)) = s /\ Last(Append(s, e)) = e /\ Append(s, e) # s
<1>. DEFINE V == S \cup {e}
            t == Append(s, e)
<1>1. s \in Seq(V) /\ e \in V
  OBVIOUS
<1>. HIDE DEF V
<1>2. /\ t \in Seq(V) /\ Len(t) = Len(s) + 1 /\ Len(s) \in Nat
      /\ \A i \in 1 .. Len(s) : t[i] = s[i]
      /\ t[Len(s) + 1] = e
  BY <1>1, AppendProperties
<1>. HIDE DEF t
<1>3. SubSeq(t, 1, Len(s)) = s
  <2>1. /\ SubSeq(t, 1, Len(s)) = [i \in 1 .. Len(s) |-> t[i]]
    BY <1>2
  <2>2. s = [i \in 1 .. Len(s) |-> s[i]]
    BY <1>1
  <2>. QED
    BY <1>2, <2>1, <2>2
<1>4. Len(t) - 1 = Len(s) /\ t # s
  BY <1>2
<1>. QED
  BY <1>2, <1>3, <1>4 DEF Front, Last, t

(* A round that is paid out and whatever follows in the same call.          *)
LEMMA PayoutLawful ==
  ASSUME NEW g, Rostered(g), NEW e, Rostered(e), Widens(g, e),
         e.round = g.round, e.history = g.history, e.exited = g.exited, e.skipped = g.skipped,
         g.suspended \subseteq e.suspended,
         Payable(e), NEW p, Completed(e, p), NEW h, Grown(p, h), NEW late,
         ~late => Cardinality(Range(g.members) \ g.paid) <= Cardinality(g.paid \ Range(g.members)) + 1
  PROVE  Lawful(g, h, late)
<1>1. Rostered(p) /\ Rostered(h)
  BY DEF Completed, Grown
<1>2. \A m : /\ Turns(m, g) \in Nat /\ Turns(m, e) \in Nat /\ Turns(m, h) \in Nat
             /\ Turns(m, p) = Turns(m, e)
             /\ m \in Range(h.members) => m \in Member
  BY <1>1, TurnsType DEF Completed, Turns
<1>3. Kin(g, h)
  <2>1. p.members = e.members
    BY DEF Completed
  <2>2. ASSUME NEW m \in Range(h.members)
        PROVE  Turns(m, h) >= IF m \in Range(g.members) THEN Turns(m, g) ELSE 1
    <3>1. m \in Member /\ Turns(m, h) >= Turns(m, e) /\ Turns(m, e) >= Turns(m, g)
      BY <1>2 DEF Grown, Widens
    <3>2. m \notin Range(g.members) => m \notin Range(e.members) \/ Turns(m, e) >= 1
      BY DEF Widens
    <3>3. m \notin Range(e.members) => Turns(m, h) >= 1
      BY <2>1 DEF Grown, Widens
    <3>. QED
      BY <1>2, <3>1, <3>2, <3>3
  <2>. QED
    BY <2>2 DEF Kin
<1>4. PICK x : p.history = Append(e.history, x) /\ x.recipient = Recipient(e)
  BY DEF Completed
<1>5. PICK S : g.history \in Seq(S)
  BY DEF Rostered
<1>6. h.history = Append(g.history, x) /\ h.round = g.round + 1
  BY <1>4 DEF Grown, InRound, Completed
<1>7. Front(h.history) = g.history /\ Last(h.history) = x /\ h.history # g.history
  BY <1>5, <1>6, FrontOfAppended
<1>8. h.round # g.round
  BY <1>6 DEF Rostered
<1>9. /\ Last(h.history).recipient \notin g.suspended \cup g.exited
      /\ <<Last(h.history).recipient, g.round>> \notin g.skipped
  <2>1. ~PassedOver(e, x.recipient)
    BY <1>4, RecipientIs
  <2>2. Last(h.history).recipient = x.recipient
    BY <1>7
  <2>. QED
    BY <2>1, <2>2 DEF PassedOver
<1>10. RoundLaw(g, h, late)
  BY <1>6, <1>7, <1>8, <1>9 DEF RoundLaw
<1>. QED
  BY <1>1, <1>3, <1>10 DEF Lawful

(* As many members as entries of the list at most.                          *)
LEMMA RangeBound ==
  ASSUME NEW S, NEW s \in Seq(S)
  PROVE  IsFiniteSet(Range(s)) /\ Cardinality(Range(s)) <= Len(s) /\ Cardinality(Range(s)) \in Nat
<1>. DEFINE W == 1 .. Len(s)
            R == Range(s)
<1>1. s \in Surjection(W, R)
  BY DEF Surjection, Range
<1>2. IsFiniteSet(W) /\ Cardinality(W) = Len(s) /\ Len(s) \in Nat
  <2>. DEFINE n == Len(s)
  <2>1. n \in Nat
    OBVIOUS
  <2>. HIDE DEF n
  <2>2. 1 \in Int /\ n \in Int
    BY <2>1
  <2>3. IsFiniteSet(1 .. n) /\ Cardinality(1 .. n) = IF 1 > n THEN 0 ELSE n - 1 + 1
    BY <2>2, FS_Interval, Zenon
  <2>4. Cardinality(1 .. n) = n
    BY <2>1, <2>3
  <2>. QED
    BY <2>1, <2>3, <2>4 DEF n
<1>. HIDE DEF W, R
<1>3. IsFiniteSet(R) /\ Cardinality(R) <= Cardinality(W)
  BY <1>1, <1>2, FS_Surjection
<1>4. Cardinality(R) \in Nat
  BY <1>3, FS_CardinalityType
<1>. QED
  BY <1>2, <1>3, <1>4 DEF R

(* When the list of those who paid is as long as that of the members, no    *)
(* more members are missing on it than others stand there.                  *)
LEMMA NobodyMissing ==
  ASSUME NEW s \in Seq(Member), NEW P, P \subseteq Member, NEW m \in Member,
         Cardinality(P \cup {m}) = Len(s)
  PROVE  Cardinality(Range(s) \ P) <= Cardinality(P \ Range(s)) + 1
<1>. DEFINE R == Range(s)
            n == Len(s)
<1>1. IsFiniteSet(R) /\ Cardinality(R) <= n /\ Cardinality(R) \in Nat /\ n \in Nat
  BY RangeBound
<1>2. IsFiniteSet(P) /\ Cardinality(P) \in Nat
  BY GroupAssumption, FS_Subset, FS_CardinalityType DEF GroupAssumption
<1>. HIDE DEF R, n
<1>3. n <= Cardinality(P) + 1
  <2>1. Cardinality(P \cup {m}) = IF m \in P THEN Cardinality(P) ELSE Cardinality(P) + 1
    BY <1>2, FS_AddElement, Zenon
  <2>. QED
    BY <1>2, <2>1 DEF n
<1>4. Cardinality(R \ P) = Cardinality(R) - Cardinality(R \cap P)
  BY <1>1, FS_Difference
<1>5. Cardinality(P \ R) = Cardinality(P) - Cardinality(R \cap P)
  <2>1. Cardinality(P \ R) = Cardinality(P) - Cardinality(P \cap R)
    BY <1>2, FS_Difference
  <2>2. P \cap R = R \cap P
    OBVIOUS
  <2>. QED
    BY <2>1, <2>2
<1>6. Cardinality(R \cap P) \in Nat
  <2>1. IsFiniteSet(R \cap P)
    BY <1>1, FS_Intersection
  <2>. QED
    BY <2>1, FS_CardinalityType
<1>7. Cardinality(R \ P) <= Cardinality(P \ R) + 1
  BY <1>1, <1>2, <1>3, <1>4, <1>5, <1>6
<1>. QED
  BY <1>7 DEF R

-----------------------------------------------------------------------------
(* The entry points of the rounds.                                          *)

(* One more on PaidMembers, and nothing else of the roster.                 *)
Listed(g, c, m) ==
  /\ GroupFields \subseteq DOMAIN c /\ \A f \in GroupFields \ {"paid"} : c[f] = g[f]
  /\ c.paid = g.paid \cup {m}

LEMMA ListedIs ==
  ASSUME NEW g, Rostered(g), NEW m \in Member, NEW c, Listed(g, c, m)
  PROVE  /\ Rostered(c) /\ Widens(g, c)
         /\ c.members = g.members /\ c.order = g.order /\ c.round = g.round /\ c.history = g.history
         /\ c.exited = g.exited /\ c.skipped = g.skipped /\ c.suspended = g.suspended
<1>1. /\ GroupFields \subseteq DOMAIN c /\ c.members = g.members /\ c.order = g.order
      /\ c.waitlist = g.waitlist /\ c.round = g.round /\ c.history = g.history
      /\ c.bids = g.bids /\ c.paid = g.paid \cup {m}
      /\ c.suspended = g.suspended /\ c.exited = g.exited /\ c.skipped = g.skipped
  BY DEF Listed, GroupFields
<1>2. \A x : Turns(x, c) = Turns(x, g) /\ Turns(x, g) \in Nat
  BY <1>1, TurnsType DEF Turns
<1>. QED
  BY <1>1, <1>2 DEF Rostered, Widens

(* A contribution that is counted, with the payout when it is the last.      *)
LEMMA CountLawful ==
  ASSUME Rostered(group), NEW m \in Member, NEW x, NEW g, Count(g), Listed(group, g, m)
  PROVE  Lawful(group, group', Late)
<1>1. /\ Rostered(g) /\ Widens(group, g)
      /\ g.members = group.members /\ g.order = group.order /\ g.round = group.round
      /\ g.history = group.history /\ g.exited = group.exited /\ g.skipped = group.skipped
      /\ g.suspended = group.suspended
  BY ListedIs
<1>2. CASE AllCounted(g)
  <2>. DEFINE h == PaidOut(g)
  <2>1. Payable(g) /\ group' = h
    BY <1>2 DEF Count, Set
  <2>2. Completed(g, h)
    BY <1>1, <2>1, PaidOutCompletes
  <2>. HIDE DEF h
  <2>3. Grown(h, h)
    <3>1. Rostered(h)
      BY <2>2 DEF Completed
    <3>2. Alike(h, h)
      BY <3>1 DEF Alike, Rostered
    <3>. QED
      BY <3>1, <3>2, AlikeGrown
  <2>4. Cardinality(Range(group.members) \ group.paid) <= Cardinality(group.paid \ Range(group.members)) + 1
    <3>. DEFINE s == group.members
                P == group.paid
    <3>1. Cardinality(P \cup {m}) = Len(s)
      BY <1>1, <1>2 DEF AllCounted, Listed
    <3>2. s \in Seq(Member) /\ P \subseteq Member
      BY DEF Rostered
    <3>. HIDE DEF s, P
    <3>3. Cardinality(Range(s) \ P) <= Cardinality(P \ Range(s)) + 1
      BY <3>1, <3>2, NobodyMissing
    <3>. QED
      BY <3>3 DEF s, P
  <2>5. Lawful(group, h, Late)
    BY <1>1, <2>1, <2>2, <2>3, <2>4, PayoutLawful
  <2>. QED
    BY <2>1, <2>5
<1>3. CASE ~AllCounted(g)
  <2>1. group' = g
    BY <1>3 DEF Count, Set
  <2>2. Lawful(group, g, Late)
    BY <1>1, NotedLawful
  <2>. QED
    BY <2>1, <2>2
<1>. QED
  BY <1>2, <1>3

LEMMA SetAlike ==
  ASSUME Rostered(group), NEW h, Set(h), Alike(group, h)
  PROVE  Lawful(group, group', Late)
<1>1. Lawful(group, h, Late)
  BY AlikeLawful
<1>. QED
  BY <1>1 DEF Set

LEMMA ContributingLawful ==
  ASSUME Rostered(group), Contributing
  PROVE  Lawful(group, group', Late)
<1>1. ASSUME NEW m \in Member, NEW x \in Amounts, Contribute(m, x)
      PROVE  Lawful(group, group', Late)
  <2>. DEFINE fee == IF m \in group.feeDue THEN cfg.reinstatementFee ELSE 0
              given == [Paid(group, m, x) EXCEPT !.feeDue = @ \ {m}, !.held = @ + fee]
              c == [Counted(given, m, x) EXCEPT !.late[m] = IF Late THEN @ + 1 ELSE 0]
  <2>1. Alike(group, given)
    BY DEF Paid, Rostered, Alike, GroupFields
  <2>2. Set(given) \/ Count(c)
    BY <1>1 DEF Contribute
  <2>3. Listed(group, c, m)
    <3>. HIDE DEF given
    <3>1. GroupFields \subseteq DOMAIN c /\ c.paid = given.paid \cup {m}
          /\ \A f \in GroupFields \ {"paid"} : c[f] = given[f]
      BY <2>1 DEF Counted, Alike, GroupFields
    <3>2. given.paid = group.paid /\ \A f \in GroupFields : given[f] = group[f]
      BY <2>1 DEF Alike, GroupFields
    <3>. QED
      BY <3>1, <3>2 DEF Listed
  <2>. HIDE DEF given, c
  <2>. QED
    BY <2>1, <2>2, <2>3, SetAlike, CountLawful
<1>2. ASSUME NEW m \in Member, NEW r, RequestSkip(m, r)
      PROVE  Lawful(group, group', Late)
  <2>. DEFINE cyc == r \div Len(group.order)
              h == [group EXCEPT !.skipped = @ \cup {<<m, r>>}, !.skips[m][cyc] = @ + 1,
                                 !.held = @ + cfg.skipFee]
  <2>1. group' = h
    BY <1>2 DEF RequestSkip, Set
  <2>. HIDE DEF cyc
  <2>2. /\ GroupFields \subseteq DOMAIN h /\ h.members = group.members /\ h.order = group.order
        /\ h.waitlist = group.waitlist /\ h.round = group.round /\ h.history = group.history
        /\ h.bids = group.bids /\ h.paid = group.paid
    BY DEF Rostered, GroupFields
  <2>. HIDE DEF h
  <2>3. Rostered(h)
    BY <2>2 DEF Rostered
  <2>4. Lawful(group, h, Late)
    BY <2>2, <2>3, NotedLawful
  <2>. QED
    BY <2>1, <2>4
<1>. QED
  BY <1>1, <1>2 DEF Contributing

LEMMA ProxiedLawful ==
  ASSUME Rostered(group), Proxied
  PROVE  Lawful(group, group', Late)
<1>1. ASSUME NEW m \in Member, AuthorizeProxy(m, 1) \/ RevokeProxy(m)
      PROVE  Lawful(group, group', Late)
  <2>1. Alike(group, [group EXCEPT !.proxied[m] = 1]) /\ Alike(group, [group EXCEPT !.proxied[m] = None])
    BY DEF Rostered, Alike, GroupFields
  <2>. QED
    BY <1>1, <2>1, SetAlike DEF AuthorizeProxy, RevokeProxy
<1>2. ASSUME NEW m \in Member, ContributeAsProxy(m)
      PROVE  Lawful(group, group', Late)
  <2>. DEFINE x == group.amount - group.contributed[m]
              used == [group EXCEPT !.proxied[m] = @ - 1]
              given == Paid(used, m, x)
              c == Counted(given, m, x)
  <2>1. Alike(group, given)
    BY DEF Paid, Rostered, Alike, GroupFields
  <2>2. Count(c)
    BY <1>2 DEF ContributeAsProxy
  <2>3. Listed(group, c, m)
    <3>. HIDE DEF given, x
    <3>1. GroupFields \subseteq DOMAIN c /\ c.paid = given.paid \cup {m}
          /\ \A f \in GroupFields \ {"paid"} : c[f] = given[f]
      BY <2>1 DEF Counted, Alike, GroupFields
    <3>2. given.paid = group.paid /\ \A f \in GroupFields : given[f] = group[f]
      BY <2>1 DEF Alike, GroupFields
    <3>. QED
      BY <3>1, <3>2 DEF Listed
  <2>. HIDE DEF c
  <2>. QED
    BY <2>2, <2>3, CountLawful
<1>. QED
  BY <1>1, <1>2 DEF Proxied

(* Penalties taken late suspend members, and the waitlist moves up.          *)
LEMMA PenaltiesProcessedGrown ==
  ASSUME NEW g, Rostered(g)
  PROVE  Grown(g, PenaltiesProcessed(g))
<1>. DEFINE pending == {m \in Member : g.fined[m] # None}
            due == {m \in pending : now > g.lastDeadline + cfg.penaltyGrace \/ g.round > g.fined[m]}
            clear(S) == [m \in Member |-> IF m \in S THEN None ELSE g.fined[m]]
            a == [g EXCEPT !.fined = clear(pending)]
            b == [g EXCEPT !.fined = clear(due)]
<1>1. PenaltiesProcessed(g) = a \/ PenaltiesProcessed(g) = AllPenalised(b, SetToSeq(due))
  BY DEF PenaltiesProcessed
<1>2. Alike(g, a) /\ Alike(g, b)
  <2>. HIDE DEF clear
  <2>. QED
    BY DEF Rostered, Alike, GroupFields
<1>3. due \subseteq Member
  OBVIOUS
<1>. HIDE DEF a, b, due
<1>4. Grown(g, a) /\ Grown(g, b)
  BY <1>2, AlikeGrown
<1>5. SetToSeq(due) \in Seq(Member)
  <2>. DEFINE n == Cardinality(due)
  <2>1. n \in Nat /\ ExistsBijection(1 .. n, due)
    BY <1>3, GroupAssumption, FS_Subset, FS_CardinalityType DEF GroupAssumption
  <2>2. \E f \in [1 .. n -> due] : IsInjective(f)
    <3>1. PICK f \in Bijection(1 .. n, due) : TRUE
      BY <2>1 DEF ExistsBijection
    <3>. QED
      BY <3>1 DEF Bijection, Injection, IsInjective
  <2>3. SetToSeq(due) \in [1 .. n -> due]
    BY <2>2 DEF SetToSeq
  <2>. HIDE DEF n
  <2>. QED
    BY <1>3, <2>1, <2>3
<1>6. Grown(b, AllPenalised(b, SetToSeq(due)))
  <2>. DEFINE list == SetToSeq(due)
  <2>. HIDE DEF list
  <2>1. list \in Seq(Member)
    BY <1>5 DEF list
  <2>2. Grown(b, AllPenalised(b, list))
    BY <1>4, <2>1, AllPenalisedGrown DEF Grown
  <2>. QED
    BY <2>2 DEF list
<1>. QED
  BY <1>1, <1>4, <1>6, GrownTwice

(* A round given up pays nobody; one finalized pays, and then counts the     *)
(* defaults and demotes.                                                     *)
LEMMA FinishingLawful ==
  ASSUME Rostered(group), Finishing
  PROVE  Lawful(group, group', Late)
<1>1. \A g : Rostered(g) => Alike(g, Ended(g))
  BY DEF Rostered, Alike, GroupFields, Ended
<1>2. ASSUME CloseRound PROVE Lawful(group, group', Late)
  <2>. DEFINE e == Ended(group)
              h == NextRound(e)
  <2>1. Late /\ group' = h
    BY <1>2 DEF CloseRound, Set
  <2>2. Alike(group, e)
    BY <1>1
  <2>. HIDE DEF e
  <2>3. Rostered(e)
    BY <2>2, AlikeGrown DEF Grown
  <2>4. /\ Rostered(h) /\ h.round = e.round + 1
        /\ \A f \in {"members", "order", "history", "suspended", "exited", "skipped"} : h[f] = e[f]
    BY <2>3, NextRoundFields
  <2>. HIDE DEF h
  <2>5. /\ h.members = group.members /\ h.order = group.order
        /\ h.round = group.round + 1 /\ h.history = group.history
    BY <2>2, <2>4, AlikeFields
  <2>6. \A m : Turns(m, h) = Turns(m, group) /\ Turns(m, group) \in Nat
    BY <2>5, TurnsType DEF Turns
  <2>7. Kin(group, h)
    BY <2>5, <2>6 DEF Kin
  <2>8. RoundLaw(group, h, Late)
    BY <2>1, <2>5 DEF RoundLaw
  <2>. QED
    BY <2>1, <2>4, <2>7, <2>8 DEF Lawful
<1>3. ASSUME FinalizeRound PROVE Lawful(group, group', Late)
  <2>. DEFINE start == PenaltiesProcessed(group)
              ms == start.members
              e == Ended(start)
              p == PaidOut(e)
              missed == Taken(ms, {i \in DOMAIN ms : Missing(start, ms[i])})
              c == AllCountedOut(p, missed)
              d == AllDemoted(c, ms)
              r == start.round
              done == Rewarded(d, ms, r)
  <2>1. Late /\ Payable(start) /\ group' = done
    BY <1>3 DEF FinalizeRound, Set
  <2>2. Grown(group, start)
    BY PenaltiesProcessedGrown
  <2>3. ms \in Seq(Member)
    BY <2>2 DEF Grown, Rostered
  <2>. HIDE DEF start, ms
  <2>4. Alike(start, e) /\ Rostered(start)
    BY <1>1, <2>2 DEF Grown
  <2>5. Grown(group, e)
    BY <2>2, <2>4, AlikeGrown, GrownTwice
  <2>6. Payable(e)
    BY <2>1, <2>4, AlikeFields DEF Payable, PassedOver
  <2>. HIDE DEF e
  <2>7. Completed(e, p)
    BY <2>5, <2>6, PaidOutCompletes DEF Grown
  <2>8. missed \in Seq(Member)
    <3>. DEFINE I == {i \in DOMAIN ms : Missing(start, ms[i])}
    <3>. HIDE DEF I
    <3>1. Taken(ms, I) \in Seq(Member)
      BY <2>3, TakenCounts
    <3>. QED
      BY <3>1 DEF I
  <2>. HIDE DEF p, missed
  <2>9. Grown(p, c)
    BY <2>7, <2>8, AllCountedOutGrown DEF Completed
  <2>. HIDE DEF c
  <2>10. Grown(c, d)
    BY <2>3, <2>9, AllDemotedGrown DEF Grown
  <2>. HIDE DEF d, r
  <2>11. Alike(d, done)
    <3>1. Rostered(d)
      BY <2>10 DEF Grown
    <3>. QED
      BY <3>1 DEF Rewarded, Alike, Rostered, GroupFields
  <2>. HIDE DEF done
  <2>12. Grown(p, d)
    BY <2>7, <2>9, <2>10, GrownTwice DEF Completed
  <2>13. Grown(d, done)
    BY <2>10, <2>11, AlikeGrown DEF Grown
  <2>14. Grown(p, done)
    BY <2>7, <2>12, <2>13, GrownTwice DEF Completed
  <2>15. /\ Rostered(e) /\ Widens(group, e)
         /\ e.round = group.round /\ e.history = group.history /\ e.exited = group.exited
         /\ e.skipped = group.skipped /\ group.suspended \subseteq e.suspended
    BY <2>5 DEF Grown, InRound
  <2>16. Lawful(group, done, Late)
    BY <2>1, <2>6, <2>7, <2>14, <2>15, PayoutLawful
  <2>. QED
    BY <2>1, <2>16
<1>. QED
  BY <1>2, <1>3 DEF Finishing

LEMMA FiningLawful ==
  ASSUME Rostered(group), Fining
  PROVE  Lawful(group, group', Late)
<1>. DEFINE g == PenaltiesProcessed(group)
            k(m) == [g EXCEPT !.fined[m] = g.round]
<1>1. Grown(group, g)
  BY PenaltiesProcessedGrown
<1>2. PICK m \in Member : Set(k(m)) \/ Set(Penalised(g, m))
  BY DEF Fining, PenaliseDefaulter, RequestPenaltyGrace, Fine
<1>. HIDE DEF g
<1>3. Alike(g, k(m))
  BY <1>1 DEF Grown, Rostered, Alike, GroupFields
<1>4. Grown(g, k(m)) /\ Grown(g, Penalised(g, m))
  BY <1>1, <1>3, AlikeGrown, PenalisedGrown DEF Grown
<1>. HIDE DEF k
<1>5. Lawful(group, k(m), Late) /\ Lawful(group, Penalised(g, m), Late)
  BY <1>1, <1>4, GrownTwice, GrownLawful
<1>. QED
  BY <1>2, <1>5 DEF Set

LEMMA CoSigningLawful ==
  ASSUME Rostered(group), CoSigning
  PROVE  Lawful(group, group', Late)
<1>1. ASSUME NEW m \in Member, SetCoSigner(m) \/ AcceptCoSigner(m) \/ RemoveCoSigner(m)
      PROVE  Lawful(group, group', Late)
  <2>1. PICK s : Set([group EXCEPT !.cosigner[m] = s])
    BY <1>1 DEF SetCoSigner, AcceptCoSigner, RemoveCoSigner
  <2>2. Alike(group, [group EXCEPT !.cosigner[m] = s])
    BY DEF Rostered, Alike, GroupFields
  <2>. QED
    BY <2>1, <2>2, SetAlike
<1>2. ASSUME NEW m \in Member, NEW x \in Amounts, CoSignerContribute(m, x)
      PROVE  Lawful(group, group', Late)
  <2>. DEFINE h == [group EXCEPT !.held = @ + x, !.paid = @ \cup {m}, !.window[m] = None]
  <2>1. group' = h
    BY <1>2 DEF CoSignerContribute, Set
  <2>2. Listed(group, h, m)
    BY DEF Rostered, Listed, GroupFields
  <2>. HIDE DEF h
  <2>. QED
    BY <2>1, <2>2, ListedIs, NotedLawful
<1>. QED
  BY <1>1, <1>2 DEF CoSigning

LEMMA SavingLawful ==
  ASSUME Rostered(group), Saving
  PROVE  Lawful(group, group', Late)
<1>1. ASSUME NEW x \in Amounts, DepositRewards(x) PROVE Lawful(group, group', Late)
  <2>. DEFINE h == [group EXCEPT !.rewards = @ + x, !.held = @ + x]
  <2>1. Alike(group, h) /\ Set(h)
    BY <1>1 DEF DepositRewards, Rostered, Alike, GroupFields
  <2>. HIDE DEF h
  <2>. QED
    BY <2>1, SetAlike
<1>2. ASSUME NEW m \in Member, ClaimRewards(m) PROVE Lawful(group, group', Late)
  <2>1. PICK x : x = Claimable(m)
    OBVIOUS
  <2>. DEFINE h == [group EXCEPT !.claimed[m] = @ + x, !.held = @ - x]
  <2>2. Alike(group, h) /\ Set(h)
    BY <1>2, <2>1 DEF ClaimRewards, Rostered, Alike, GroupFields
  <2>. HIDE DEF h
  <2>. QED
    BY <2>2, SetAlike
<1>3. ASSUME NEW m \in Member, NEW x \in Amounts, ContributeToInsurance(m, x)
      PROVE  Lawful(group, group', Late)
  <2>. DEFINE h == [group EXCEPT !.insurance = @ + x, !.held = @ + x]
  <2>1. Alike(group, h) /\ Set(h)
    BY <1>3 DEF ContributeToInsurance, Rostered, Alike, GroupFields
  <2>. HIDE DEF h
  <2>. QED
    BY <2>1, SetAlike
<1>4. ASSUME NEW m \in Member, NEW b \in BOOLEAN, SetReinvestPreference(m, b)
      PROVE  Lawful(group, group', Late)
  <2>. DEFINE h == [group EXCEPT !.reinvest = IF b THEN @ \cup {m} ELSE @ \ {m}]
  <2>1. Alike(group, h) /\ Set(h)
    BY <1>4 DEF SetReinvestPreference, Rostered, Alike, GroupFields
  <2>. HIDE DEF h
  <2>. QED
    BY <2>1, SetAlike
<1>. QED
  BY <1>1, <1>2, <1>3, <1>4 DEF Saving

(* Nothing happens to the group.                                            *)
LEMMA StillLawful ==
  ASSUME Rostered(group), UNCHANGED group
  PROVE  Lawful(group, group', Late)
<1>1. Alike(group, group)
  BY DEF Rostered, Alike
<1>2. Lawful(group, group, Late)
  BY <1>1, AlikeLawful
<1>. QED
  BY <1>2

LEMMA TimingLawful ==
  ASSUME Rostered(group), Timing \/ NextLedger
  PROVE  Lawful(group, group', Late)
<1>1. ASSUME NEW d, UpdateRoundDuration(d) PROVE Lawful(group, group', Late)
  <2>. DEFINE h == [group EXCEPT !.nextDuration = d]
  <2>1. Alike(group, h) /\ Set(h)
    BY <1>1 DEF UpdateRoundDuration, Rostered, Alike, GroupFields
  <2>. HIDE DEF h
  <2>. QED
    BY <2>1, SetAlike
<1>2. ASSUME ResumeGroup PROVE Lawful(group, group', Late)
  <2>. DEFINE h == [group EXCEPT !.deadline = @ + (now - gate.paused)]
  <2>1. Alike(group, h) /\ group' = h
    BY <1>2 DEF ResumeGroup, Rostered, Alike, GroupFields
  <2>. HIDE DEF h
  <2>. QED
    BY <2>1, AlikeLawful
<1>3. PauseGroup \/ (\E b \in BOOLEAN : SetFrozen(b)) \/ NextLedger => UNCHANGED group
  BY DEF PauseGroup, SetFrozen, NextLedger
<1>. QED
  BY <1>1, <1>2, <1>3, StillLawful DEF Timing

-----------------------------------------------------------------------------
(* The entry points of the roster.                                          *)

(* Who is left was there before.                                            *)
LEMMA StayersWereThere ==
  ASSUME NEW s \in Seq(Member), NEW m, NEW x \in Range(Without(s, m))
  PROVE  x \in Range(s) /\ x # m
<1>1. /\ Without(s, m) \in Seq(Member)
      /\ Cardinality(Places(x, Without(s, m))) = IF x = m THEN 0 ELSE Cardinality(Places(x, s))
  BY WithoutCounts
<1>2. Cardinality(Places(x, Without(s, m))) >= 1
  <2>. DEFINE t == Without(s, m)
  <2>. HIDE DEF t
  <2>1. t \in Seq(Member) /\ x \in Range(t)
    BY <1>1 DEF t
  <2>2. Cardinality(Places(x, t)) >= 1
    BY <2>1, PlacesFinite
  <2>. QED
    BY <2>2 DEF t
<1>3. x \in Range(s) <=> Cardinality(Places(x, s)) >= 1
  BY PlacesFinite
<1>. QED
  BY <1>1, <1>2, <1>3

(* Who leaves the group leaves the order; nobody else is moved.              *)
LEMMA LeavesLawful ==
  ASSUME NEW g, Rostered(g), NEW m, NEW late
  PROVE  Lawful(g, Leaves(g, m), late)
<1>. DEFINE h == Leaves(g, m)
<1>1. /\ GroupFields \subseteq DOMAIN h
      /\ h.members = Without(g.members, m) /\ h.order = Without(g.order, m)
      /\ h.waitlist = g.waitlist /\ h.round = g.round /\ h.history = g.history
      /\ h.bids = g.bids /\ h.paid = g.paid
  BY DEF Leaves, Rostered, GroupFields
<1>. HIDE DEF h
<1>2. g.members \in Seq(Member) /\ g.order \in Seq(Member)
  BY DEF Rostered
<1>3. h.members \in Seq(Member) /\ h.order \in Seq(Member)
  BY <1>1, <1>2, WithoutCounts
<1>4. \A x : Turns(x, h) = IF x = m THEN 0 ELSE Turns(x, g)
  BY <1>1, <1>2, WithoutCounts DEF Turns
<1>5. \A x \in Range(h.members) : x \in Range(g.members) /\ x # m
  BY <1>1, <1>2, StayersWereThere
<1>6. Kin(g, h)
  <2>1. \A x : Turns(x, g) \in Nat
    BY TurnsType
  <2>. QED
    BY <1>4, <1>5, <2>1 DEF Kin
<1>7. Rostered(h)
  BY <1>1, <1>3 DEF Rostered
<1>. QED
  BY <1>1, <1>6, <1>7, OrderLawful DEF h

(* Another waitlist, and nothing else of the roster.                        *)
LEMMA WaitlistLawful ==
  ASSUME NEW g, Rostered(g), NEW w \in Seq(Member), NEW late
  PROVE  Lawful(g, [g EXCEPT !.waitlist = w], late)
<1>. DEFINE h == [g EXCEPT !.waitlist = w]
<1>1. /\ GroupFields \subseteq DOMAIN h /\ h.members = g.members /\ h.order = g.order
      /\ h.waitlist = w /\ h.round = g.round /\ h.history = g.history
      /\ h.bids = g.bids /\ h.paid = g.paid
  BY DEF Rostered, GroupFields
<1>. HIDE DEF h
<1>2. Rostered(h)
  BY <1>1 DEF Rostered
<1>. QED
  BY <1>1, <1>2, NotedLawful DEF h

LEMMA JoinedLawful ==
  ASSUME Rostered(group), Joined
  PROVE  Lawful(group, group', Late)
<1>1. ASSUME NEW m \in Member, AddMember(m) \/ JoinWithInvite(m)
      PROVE  Lawful(group, group', Late)
  <2>1. group' = Joins(group, m)
    BY <1>1 DEF AddMember, JoinWithInvite, Admit, Set
  <2>2. Lawful(group, Joins(group, m), Late)
    BY JoinsGrown, GrownLawful
  <2>. QED
    BY <2>1, <2>2
<1>2. ASSUME NEW m \in Member, RemoveMember(m)
      PROVE  Lawful(group, group', Late)
  <2>1. group' = Leaves(group, m)
    BY <1>2 DEF RemoveMember, Set
  <2>2. Lawful(group, Leaves(group, m), Late)
    BY LeavesLawful
  <2>. QED
    BY <2>1, <2>2
<1>3. ASSUME NEW m \in Member, GenerateInvite(m)
      PROVE  Lawful(group, group', Late)
  BY <1>3, StillLawful DEF GenerateInvite
<1>4. ASSUME NEW m \in Member, JoinWaitlist(m) \/ LeaveWaitlist(m)
      PROVE  Lawful(group, group', Late)
  <2>. DEFINE s == group.waitlist
  <2>1. PICK w : w \in {Append(s, m), Without(s, m)} /\ group' = [group EXCEPT !.waitlist = w]
    BY <1>4 DEF JoinWaitlist, LeaveWaitlist, Set
  <2>2. s \in Seq(Member)
    BY DEF Rostered
  <2>. HIDE DEF s
  <2>3. w \in Seq(Member)
    BY <2>1, <2>2, WithoutCounts, AppendProperties
  <2>4. Lawful(group, [group EXCEPT !.waitlist = w], Late)
    BY <2>3, WaitlistLawful
  <2>. QED
    BY <2>1, <2>4
<1>5. ASSUME NEW n \in Sizes, UpdateMaxMembers(n)
      PROVE  Lawful(group, group', Late)
  <2>. DEFINE h == [group EXCEPT !.max = n]
  <2>1. Alike(group, h) /\ Set(h)
    BY <1>5 DEF UpdateMaxMembers, Rostered, Alike, GroupFields
  <2>. HIDE DEF h
  <2>. QED
    BY <2>1, SetAlike
<1>. QED
  BY <1>1, <1>2, <1>3, <1>4, <1>5 DEF Joined

(* An exit takes the member off the list only, and may let another in.       *)
LEMMA ExitingLawful ==
  ASSUME Rostered(group), Exiting
  PROVE  Lawful(group, group', Late)
<1>1. ASSUME NEW m \in Member, RequestEmergencyExit(m) \/ RejectExit(m)
      PROVE  Lawful(group, group', Late)
  BY <1>1, StillLawful DEF RequestEmergencyExit, RejectExit
<1>2. ASSUME NEW m \in Member, ApproveExit(m)
      PROVE  Lawful(group, group', Late)
  <2>1. PICK refund : LET left == [group EXCEPT !.members = Without(@, m), !.exited = @ \cup {m},
                                                !.held = @ - refund]
                      IN group' = Rebalanced(left) \/ group' = Promoted(left)
    BY <1>2 DEF ApproveExit, Set
  <2>. DEFINE l == [group EXCEPT !.members = Without(@, m), !.exited = @ \cup {m},
                                 !.held = @ - refund]
  <2>2. group' = Rebalanced(l) \/ group' = Promoted(l)
    BY <2>1
  <2>3. /\ GroupFields \subseteq DOMAIN l
        /\ l.members = Without(group.members, m) /\ l.order = group.order
        /\ l.waitlist = group.waitlist /\ l.round = group.round /\ l.history = group.history
        /\ l.bids = group.bids /\ l.paid = group.paid
    BY DEF Rostered, GroupFields
  <2>. HIDE DEF l
  <2>4. l.members \in Seq(Member) /\ \A x \in Range(l.members) : x \in Range(group.members)
    BY <2>3, WithoutCounts, StayersWereThere DEF Rostered
  <2>5. Rostered(l)
    BY <2>3, <2>4 DEF Rostered
  <2>6. \A x : Turns(x, l) = Turns(x, group) /\ Turns(x, group) \in Nat
    BY <2>3, TurnsType DEF Turns
  <2>7. ASSUME NEW h, Grown(l, h) PROVE Lawful(group, h, Late)
    <3>1. ASSUME NEW x \in Range(h.members)
          PROVE  Turns(x, h) >= IF x \in Range(group.members) THEN Turns(x, group) ELSE 1
      <4>1. x \in Member
        BY <2>7, TurnsType DEF Grown
      <4>2. Turns(x, h) >= Turns(x, group) /\ (x \in Range(l.members) \/ Turns(x, h) >= 1)
        BY <2>6, <2>7, <4>1 DEF Grown, Widens
      <4>. QED
        BY <2>4, <4>2
    <3>2. Kin(group, h)
      BY <3>1 DEF Kin
    <3>. QED
      BY <2>3, <2>7, <3>2, OrderLawful DEF Grown, InRound
  <2>8. Grown(l, Rebalanced(l)) /\ Grown(l, Promoted(l))
    BY <2>5, RebalancedAlike, AlikeGrown, PromotedGrown
  <2>9. Lawful(group, Rebalanced(l), Late) /\ Lawful(group, Promoted(l), Late)
    BY <2>7, <2>8
  <2>. QED
    BY <2>2, <2>9
<1>. QED
  BY <1>1, <1>2 DEF Exiting

(* Another order in which everybody has as many places.                     *)
LEMMA ReorderedLawful ==
  ASSUME NEW g, Rostered(g), NEW h, NEW late, GroupFields \subseteq DOMAIN h,
         h.members = g.members, h.waitlist = g.waitlist, h.round = g.round,
         h.history = g.history, h.bids \in Seq(Bid), h.paid = g.paid,
         h.order \in Seq(Member),
         \A m \in Member : Cardinality(Places(m, h.order)) >= Cardinality(Places(m, g.order))
  PROVE  Lawful(g, h, late)
<1>1. \A m : /\ Turns(m, h) \in Nat /\ Turns(m, g) \in Nat
             /\ m \in Range(g.members) => m \in Member /\ Turns(m, h) >= Turns(m, g)
  <2>1. Rostered(h)
    BY DEF Rostered
  <2>. QED
    BY <2>1, TurnsType DEF Turns
<1>2. Kin(g, h)
  BY <1>1 DEF Kin
<1>3. Rostered(h)
  BY DEF Rostered
<1>. QED
  BY <1>2, <1>3, OrderLawful

LEMMA SwappingLawful ==
  ASSUME Rostered(group), Swapping
  PROVE  Lawful(group, group', Late)
<1>1. ASSUME NEW order \in Orders, FinalizePayoutOrder(order)
      PROVE  Lawful(group, group', Late)
  <2>. DEFINE h == [group EXCEPT !.order = order]
  <2>1. group' = h /\ \A m \in Range(group.order) :
                        Cardinality(Places(m, order)) = Cardinality(Places(m, group.order))
    BY <1>1 DEF FinalizePayoutOrder
  <2>2. order \in Seq(Member)
    <3>1. order \in Seq(Range(Founders)) /\ Range(Founders) \subseteq Member
      BY GroupAssumption DEF GroupAssumption, Range
    <3>. QED
      BY <3>1
  <2>3. ASSUME NEW m \in Member
        PROVE  Cardinality(Places(m, order)) >= Cardinality(Places(m, group.order))
    <3>1. /\ Cardinality(Places(m, group.order)) \in Nat /\ Cardinality(Places(m, order)) \in Nat
          /\ m \in Range(group.order) <=> Cardinality(Places(m, group.order)) >= 1
      BY <2>2, PlacesFinite DEF Rostered
    <3>. QED
      BY <2>1, <3>1
  <2>4. /\ GroupFields \subseteq DOMAIN h /\ h.members = group.members /\ h.order = order
        /\ h.waitlist = group.waitlist /\ h.round = group.round /\ h.history = group.history
        /\ h.bids = group.bids /\ h.paid = group.paid
    BY DEF Rostered, GroupFields
  <2>. HIDE DEF h
  <2>5. h.bids \in Seq(Bid)
    BY <2>4 DEF Rostered
  <2>6. Lawful(group, h, Late)
    BY <2>2, <2>3, <2>4, <2>5, ReorderedLawful
  <2>. QED
    BY <2>1, <2>6
<1>2. ASSUME NEW a, NEW b, RequestSlotSwap(a, b)
      PROVE  Lawful(group, group', Late)
  BY <1>2, StillLawful DEF RequestSlotSwap
<1>3. ASSUME NEW i \in DOMAIN swaps, Swapped(i)
      PROVE  Lawful(group, group', Late)
  <2>1. PICK a, b : a = swaps[i].a + 1 /\ b = swaps[i].b + 1
    OBVIOUS
  <2>. DEFINE s == group.order
              t == SwapPlaces(s, a, b)
              h == [group EXCEPT !.order = t]
  <2>2. group' = h
    BY <1>3, <2>1 DEF Swapped, Set
  <2>3. s \in Seq(Member)
    BY DEF Rostered
  <2>4. a \in DOMAIN s /\ b \in DOMAIN s
    <3>1. PICK c, d : c = swaps[i].a /\ d = swaps[i].b
      OBVIOUS
    <3>2. c \in 0 .. Len(s) - 1 /\ d \in 0 .. Len(s) - 1 /\ a = c + 1 /\ b = d + 1
      BY <1>3, <2>1, <3>1 DEF Swapped
    <3>. QED
      BY <2>3, <3>2
  <2>. HIDE DEF s
  <2>5. t \in Seq(Member) /\ \A m : Cardinality(Places(m, t)) = Cardinality(Places(m, s))
    BY <2>3, <2>4, SwapCounts
  <2>6. \A m : Cardinality(Places(m, s)) \in Nat
    BY <2>3, PlacesFinite
  <2>. HIDE DEF t
  <2>7. /\ GroupFields \subseteq DOMAIN h /\ h.members = group.members /\ h.order = t
        /\ h.waitlist = group.waitlist /\ h.round = group.round /\ h.history = group.history
        /\ h.bids = group.bids /\ h.paid = group.paid /\ group.order = s
    BY DEF Rostered, GroupFields, s
  <2>. HIDE DEF h
  <2>8. h.bids \in Seq(Bid)
    BY <2>7 DEF Rostered
  <2>9. \A m \in Member : Cardinality(Places(m, h.order)) >= Cardinality(Places(m, group.order))
    BY <2>5, <2>6, <2>7
  <2>10. Lawful(group, h, Late)
    BY <2>5, <2>7, <2>8, <2>9, ReorderedLawful
  <2>. QED
    BY <2>2, <2>10
<1>4. ASSUME NEW i \in DOMAIN swaps, AcceptSlotSwap(i) \/ RejectSlotSwap(i) \/ ApproveSlotSwap(i)
      PROVE  Lawful(group, group', Late)
  <2>1. Swapped(i) \/ UNCHANGED group
    BY <1>4, Zenon DEF AcceptSlotSwap, RejectSlotSwap, ApproveSlotSwap
  <2>. QED
    BY <1>3, <2>1, StillLawful
<1>. QED
  BY <1>1, <1>2, <1>4 DEF Swapping

-----------------------------------------------------------------------------
(* The auctions.                                                            *)

(* Nothing but the bids and the money is different.                         *)
Settling(g, h) ==
  /\ GroupFields \subseteq DOMAIN h /\ h.bids \in Seq(Bid)
  /\ \A f \in GroupFields \ {"bids"} : h[f] = g[f]

LEMMA SettlingFields ==
  ASSUME NEW g, Rostered(g), NEW h, Settling(g, h)
  PROVE  /\ h.members = g.members /\ h.order = g.order /\ h.waitlist = g.waitlist
         /\ h.round = g.round /\ h.history = g.history /\ h.paid = g.paid
         /\ GroupFields \subseteq DOMAIN h /\ Rostered(h)
<1>1. /\ h.members = g.members /\ h.order = g.order /\ h.waitlist = g.waitlist
      /\ h.round = g.round /\ h.history = g.history /\ h.paid = g.paid
      /\ GroupFields \subseteq DOMAIN h /\ h.bids \in Seq(Bid)
  BY DEF Settling, GroupFields
<1>. QED
  BY <1>1 DEF Rostered

LEMMA SettlingLawful ==
  ASSUME NEW g, Rostered(g), NEW h, Settling(g, h), NEW late
  PROVE  Lawful(g, h, late)
BY SettlingFields, NotedLawful

(* The bid that wins is one of the bids.                                     *)
LEMMA BestBidIs ==
  ASSUME NEW bids \in Seq(Bid), NEW reserve, BestBid(bids, reserve) # {}
  PROVE  bids[Min(BestBid(bids, reserve))] \in Bid
<1>. DEFINE B == BestBid(bids, reserve)
<1>1. B \subseteq 1 .. Len(bids) /\ Len(bids) \in Nat
  BY DEF BestBid
<1>. HIDE DEF B
<1>2. B \subseteq Nat /\ B # {}
  BY <1>1 DEF B
<1>3. Min(B) \in B
  <2>1. \E x \in B : \A y \in B : x <= y
    BY <1>2, FirstOf
  <2>. QED
    BY <2>1 DEF Min
<1>4. bids[Min(B)] \in Bid
  <2>. DEFINE i == Min(B)
              N == Len(bids)
  <2>1. \A j \in 1 .. N : bids[j] \in Bid
    OBVIOUS
  <2>. HIDE DEF i, N
  <2>2. i \in B /\ B \subseteq 1 .. N
    BY <1>1, <1>3 DEF i, N
  <2>3. i \in 1 .. N
    BY <2>2
  <2>. QED
    BY <2>1, <2>3 DEF i
<1>. QED
  BY <1>4 DEF B

LEMMA SomeBest ==
  ASSUME NEW bids \in Seq(Bid), bids # <<>>
  PROVE  BestBid(bids, 0) # {}
<1>. DEFINE N == Len(bids)
            f == [i \in 1 .. N |-> bids[i].amount]
<1>1. N \in Nat /\ N >= 1 /\ DOMAIN bids = 1 .. N
  OBVIOUS
<1>2. \A i \in 1 .. N : f[i] = bids[i].amount /\ f[i] \in Nat \ {0}
  <2>1. \A i \in 1 .. N : bids[i] \in Bid
    OBVIOUS
  <2>. QED
    BY <2>1 DEF Bid
<1>. HIDE DEF f, N
<1>3. \A i \in 1 .. N : f[i] \in Int
  BY <1>2
<1>4. PICK i \in 1 .. N : \A j \in 1 .. N : f[i] > f[j] \/ (f[i] = f[j] /\ i <= j)
  BY <1>1, <1>3, FirstBest
<1>5. i \in BestBid(bids, 0)
  BY <1>1, <1>2, <1>4 DEF BestBid
<1>. QED
  BY <1>5

(* The winner and the holder of the place change places at most.            *)
LEMMA WonLawful ==
  ASSUME NEW g, Rostered(g), NEW k, Settling(g, k), NEW bid \in Bid, NEW late
  PROVE  Lawful(g, Won(k, bid), late)
<1>. DEFINE s == k.order
            from == Places(bid.bidder, s)
            others == SelectSeq(k.members, LAMBDA m :
                        m # bid.bidder /\ m \notin k.exited /\ m \notin k.suspended)
            share == IF others = <<>> THEN 0 ELSE bid.amount \div Len(others)
            paid == [k EXCEPT !.held = @ - share * Len(others)]
            t == SwapPlaces(s, Min(from), bid.place + 1)
            h == [paid EXCEPT !.order = t]
<1>1. IF from = {} \/ bid.place >= Len(s) THEN Won(k, bid) = paid ELSE Won(k, bid) = h
  <2>1. k.order = paid.order
    BY DEF Settling, GroupFields
  <2>. QED
    BY <2>1 DEF Won
<1>2. Settling(g, paid)
  BY DEF Settling, GroupFields
<1>3. s \in Seq(Member) /\ s = g.order
  BY SettlingFields DEF Rostered
<1>4. \A m : Cardinality(Places(m, s)) \in Nat
  BY <1>3, PlacesFinite
<1>5. ASSUME from # {}, ~ (bid.place >= Len(s)) PROVE Lawful(g, h, late)
  <2>1. Min(from) \in DOMAIN s
    <3>1. from \subseteq DOMAIN s /\ from \subseteq Nat
      BY <1>3 DEF Places
    <3>. HIDE DEF from
    <3>2. \E x \in from : \A y \in from : x <= y
      BY <1>5, <3>1, FirstOf
    <3>. QED
      BY <3>1, <3>2 DEF Min
  <2>2. bid.place + 1 \in DOMAIN s
    BY <1>3, <1>5 DEF Bid
  <2>3. t \in Seq(Member) /\ \A m : Cardinality(Places(m, t)) = Cardinality(Places(m, s))
    <3>. DEFINE i == Min(from)
                j == bid.place + 1
    <3>1. i \in DOMAIN s /\ j \in DOMAIN s
      BY <2>1, <2>2
    <3>. HIDE DEF i, j, s, from
    <3>2. SwapPlaces(s, i, j) \in Seq(Member)
          /\ \A m : Cardinality(Places(m, SwapPlaces(s, i, j))) = Cardinality(Places(m, s))
      BY <1>3, <3>1, SwapCounts
    <3>. QED
      BY <3>2 DEF i, j
  <2>. HIDE DEF t, s, from, paid
  <2>4. /\ GroupFields \subseteq DOMAIN h /\ h.bids \in Seq(Bid)
        /\ h.members = paid.members /\ h.order = t /\ h.waitlist = paid.waitlist
        /\ h.round = paid.round /\ h.history = paid.history /\ h.paid = paid.paid
    BY <1>2 DEF Settling, GroupFields
  <2>5. /\ paid.members = g.members /\ paid.waitlist = g.waitlist
        /\ paid.round = g.round /\ paid.history = g.history /\ paid.paid = g.paid
    BY <1>2, SettlingFields
  <2>. HIDE DEF h
  <2>6. \A m \in Member : Cardinality(Places(m, h.order)) >= Cardinality(Places(m, g.order))
    BY <1>3, <1>4, <2>3, <2>4
  <2>. QED
    BY <2>3, <2>4, <2>5, <2>6, ReorderedLawful
<1>. HIDE DEF s, from, paid, h
<1>. QED
  BY <1>1, <1>2, <1>5, SettlingLawful

LEMMA BiddingLawful ==
  ASSUME Rostered(group), Bidding
  PROVE  Lawful(group, group', Late)
<1>1. ASSUME NEW m \in Member, NEW place \in 0 .. Len(group.order) - 1, NEW x \in Amounts,
             PlaceSlotBid(m, place, x)
      PROVE  Lawful(group, group', Late)
  <2>. DEFINE b == [bidder |-> m, place |-> place, amount |-> x]
              s == OthersBids(group, m)
  <2>1. PICK back : group' = [group EXCEPT !.held = @ - back + x, !.bids = Append(s, b)]
    BY <1>1 DEF PlaceSlotBid, Set
  <2>2. b \in Bid
    <3>1. place \in Nat
      OBVIOUS
    <3>2. x \in Nat \ {0}
      BY InputAssumption DEF InputAssumption
    <3>. QED
      BY <3>1, <3>2 DEF Bid
  <2>3. s \in Seq(Bid)
    <3>. DEFINE t == group.bids
                I == {i \in DOMAIN t : t[i].bidder # m}
    <3>1. t \in Seq(Bid)
      BY DEF Rostered
    <3>. HIDE DEF t, I
    <3>2. Taken(t, I) \in Seq(Bid)
      BY <3>1, TakenCounts
    <3>. QED
      BY <3>2 DEF OthersBids, t, I
  <2>. HIDE DEF s, b
  <2>4. Append(s, b) \in Seq(Bid)
    BY <2>2, <2>3, AppendProperties
  <2>. DEFINE h == [group EXCEPT !.held = @ - back + x, !.bids = Append(s, b)]
  <2>5. Settling(group, h)
    BY <2>4 DEF Settling, Rostered, GroupFields
  <2>. HIDE DEF h
  <2>6. Lawful(group, h, Late)
    BY <2>5, SettlingLawful
  <2>. QED
    BY <2>1, <2>6 DEF h
<1>2. ASSUME ResolveSlotAuction
      PROVE  Lawful(group, group', Late)
  <2>. DEFINE bids == group.bids
              bid == bids[Min(BestBid(bids, 0))]
              closed == [group EXCEPT !.bids = <<>>, !.bidUntil = 0]
              k == [closed EXCEPT !.held = @ - (Total(bids) - bid.amount)]
              still == [group EXCEPT !.bidUntil = 0]
  <2>1. IF bids = <<>> THEN group' = still ELSE group' = Won(k, bid)
    BY <1>2 DEF ResolveSlotAuction, Set
  <2>2. bids \in Seq(Bid) /\ <<>> \in Seq(Bid)
    BY DEF Rostered
  <2>3. Alike(group, still)
    BY DEF Rostered, Alike, GroupFields
  <2>4. Settling(group, k)
    <3>1. GroupFields \subseteq DOMAIN k /\ k.bids = <<>>
          /\ \A f \in GroupFields \ {"bids"} : k[f] = group[f]
      BY DEF Rostered, GroupFields
    <3>. HIDE DEF k
    <3>. QED
      BY <2>2, <3>1, Zenon DEF Settling
  <2>. HIDE DEF bids, k, still
  <2>5. bids # <<>> => bid \in Bid
    BY <2>2, SomeBest, BestBidIs
  <2>. HIDE DEF bid
  <2>6. bids # <<>> => Lawful(group, Won(k, bid), Late)
    BY <2>4, <2>5, WonLawful
  <2>7. Lawful(group, still, Late)
    BY <2>3, AlikeLawful
  <2>. QED
    BY <2>1, <2>6, <2>7
<1>. QED
  BY <1>1, <1>2 DEF Bidding

(* The bids revealed in the sealed auction.                                 *)
SealedBids == {"open", "round", "commitUntil", "revealUntil", "bids"} \subseteq DOMAIN sealed
              /\ sealed.bids \in Seq(Bid)

LEMMA SealingLawful ==
  ASSUME Rostered(group), SealedBids, Sealing
  PROVE  Lawful(group, group', Late)
<1>1. ASSUME SettleSealedSlotAuction PROVE Lawful(group, group', Late)
  <2>. DEFINE best == BestBid(sealed.bids, cfg.reserve)
              bid == sealed.bids[Min(best)]
              refunded(d) == [group EXCEPT !.held = @ - d]
  <2>1. PICK d : IF best = {} THEN group' = [group EXCEPT !.held = @ - (d - 0)]
                 ELSE group' = Won([group EXCEPT !.held = @ - (d - bid.amount)], bid)
    BY <1>1 DEF SettleSealedSlotAuction
  <2>. DEFINE a == [group EXCEPT !.held = @ - (d - 0)]
              k == [group EXCEPT !.held = @ - (d - bid.amount)]
  <2>2. IF best = {} THEN group' = a ELSE group' = Won(k, bid)
    BY <2>1
  <2>3. Settling(group, a) /\ Settling(group, k)
    BY DEF Rostered, Settling, GroupFields
  <2>4. best # {} => bid \in Bid
    <3>1. PICK bids, reserve : bids = sealed.bids /\ reserve = cfg.reserve
      OBVIOUS
    <3>2. bids \in Seq(Bid)
      BY <3>1 DEF SealedBids
    <3>. QED
      BY <3>1, <3>2, BestBidIs
  <2>. HIDE DEF best, bid, a, k
  <2>5. Lawful(group, a, Late)
    BY <2>3, SettlingLawful
  <2>6. best # {} => Lawful(group, Won(k, bid), Late)
    BY <2>3, <2>4, WonLawful
  <2>. QED
    BY <2>2, <2>5, <2>6
<1>2. ASSUME NEW m \in Member, NEW x \in Amounts, CommitSlotBid(m, x)
      PROVE  Lawful(group, group', Late)
  <2>. DEFINE h == [group EXCEPT !.held = @ + x]
  <2>1. Alike(group, h) /\ group' = h
    BY <1>2 DEF CommitSlotBid, Rostered, Alike, GroupFields
  <2>. HIDE DEF h
  <2>. QED
    BY <2>1, AlikeLawful
<1>3. \/ ConfigureSealedSlotAuction \/ OpenSealedSlotAuction(group.round)
      \/ \E m \in Member, x \in Amounts : \E place \in 0 .. Len(group.order) - 1 : RevealSlotBid(m, place, x)
      => UNCHANGED group
  BY DEF ConfigureSealedSlotAuction, OpenSealedSlotAuction, RevealSlotBid
<1>. QED
  BY <1>1, <1>2, <1>3, StillLawful DEF Sealing

LEMMA RegroupingLawful ==
  ASSUME Rostered(group), Regrouping
  PROVE  Lawful(group, group', Late)
<1>1. ASSUME NEW others \in Joining, CompleteMerge(others)
      PROVE  Lawful(group, group', Late)
  <2>1. group' = AllJoined(group, others)
    BY <1>1 DEF CompleteMerge
  <2>2. others \in Seq(Member)
    BY InputAssumption DEF InputAssumption
  <2>3. Lawful(group, AllJoined(group, others), Late)
    BY <2>2, AllJoinedGrown, GrownLawful
  <2>. QED
    BY <2>1, <2>3
<1>2. ASSUME NEW i \in DOMAIN splits, ExecuteGroupSplit(i)
      PROVE  Lawful(group, group', Late)
  <2>1. PICK x : group' = [group EXCEPT !.held = @ - x]
    BY <1>2 DEF ExecuteGroupSplit
  <2>. DEFINE h == [group EXCEPT !.held = @ - x]
  <2>2. Alike(group, h) /\ group' = h
    BY <2>1 DEF Rostered, Alike, GroupFields
  <2>. HIDE DEF h
  <2>. QED
    BY <2>2, AlikeLawful
<1>3. ASSUME \/ ProposeMerge \/ AcceptMerge \/ \E w \in Windows : ProposeGroupSplit(w)
             \/ \E i \in DOMAIN splits :
                  \/ ExpireSplitProposal(i)
                  \/ \E m \in Member : ConfirmSplitParticipation(m, i)
      PROVE  UNCHANGED group
  BY <1>3 DEF ProposeMerge, AcceptMerge, ProposeGroupSplit, ExpireSplitProposal,
              ConfirmSplitParticipation
<1>. QED
  BY <1>1, <1>2, <1>3, StillLawful DEF Regrouping

(* Revealed bids are bids of members for places there are.                  *)
LEMMA SealedBidsStay ==
  ASSUME Rostered(group), SealedBids, [Next]_vars
  PROVE  SealedBids'
<1>1. sealed' = sealed => SealedBids'
  BY DEF SealedBids
<1>2. CASE UNCHANGED rosterVars \/ UNCHANGED vars
  BY <1>1, <1>2 DEF vars, governVars, rosterVars
<1>3. CASE Sealing
  <2>1. ConfigureSealedSlotAuction \/ OpenSealedSlotAuction(group.round) => SealedBids'
    <3>1. <<>> \in Seq(Bid)
      OBVIOUS
    <3>2. ASSUME NEW o, NEW r, NEW c, NEW v,
                 sealed' = [open |-> o, round |-> r, commitUntil |-> c, revealUntil |-> v, bids |-> <<>>]
          PROVE  SealedBids'
      <4>1. sealed'.bids = <<>>
            /\ {"open", "round", "commitUntil", "revealUntil", "bids"} \subseteq DOMAIN sealed'
        BY <3>2
      <4>. QED
        BY <3>1, <4>1, Zenon DEF SealedBids
    <3>. QED
      BY <3>2, Zenon DEF ConfigureSealedSlotAuction, OpenSealedSlotAuction, AuctionIs, NoSealed
  <2>2. SettleSealedSlotAuction => SealedBids'
    BY DEF SettleSealedSlotAuction, AuctionIs, SealedBids
  <2>3. ASSUME NEW m, NEW x, CommitSlotBid(m, x) PROVE SealedBids'
    BY <1>1, <2>3 DEF CommitSlotBid, AuctionIs
  <2>4. ASSUME NEW m \in Member, NEW x \in Amounts, NEW place \in 0 .. Len(group.order) - 1,
               RevealSlotBid(m, place, x)
        PROVE  SealedBids'
    <3>. DEFINE b == [bidder |-> m, place |-> place, amount |-> x]
                s == sealed.bids
    <3>1. b \in Bid
      <4>1. place \in Nat /\ x \in Nat \ {0}
        BY InputAssumption DEF InputAssumption
      <4>. QED
        BY <4>1 DEF Bid
    <3>2. sealed' = [sealed EXCEPT !.bids = Append(s, b)]
      BY <2>4 DEF RevealSlotBid, AuctionIs
    <3>3. s \in Seq(Bid)
      BY DEF SealedBids
    <3>. HIDE DEF s, b
    <3>4. Append(s, b) \in Seq(Bid)
      BY <3>1, <3>3, AppendProperties
    <3>. QED
      BY <3>2, <3>4 DEF SealedBids
  <2>. QED
    BY <1>3, <2>1, <2>2, <2>3, <2>4 DEF Sealing
<1>4. CASE Joined \/ Exiting
  <2>1. sealed' = sealed
    BY <1>4 DEF Joined, AddMember, RemoveMember, GenerateInvite, JoinWithInvite, JoinWaitlist,
                LeaveWaitlist, UpdateMaxMembers, Exiting, RequestEmergencyExit, RejectExit,
                ApproveExit, ExitAsked, rosterVars
  <2>. QED
    BY <1>1, <2>1
<1>5. CASE Swapping \/ Bidding
  <2>1. \A i, s : SwapIs(i, s) => sealed' = sealed
    BY DEF SwapIs
  <2>2. Swapping => sealed' = sealed
    BY <2>1 DEF Swapping, FinalizePayoutOrder, RequestSlotSwap, AcceptSlotSwap, RejectSlotSwap,
                ApproveSlotSwap, Swapped, rosterVars
  <2>3. Bidding => sealed' = sealed
    BY DEF Bidding, PlaceSlotBid, ResolveSlotAuction, rosterVars
  <2>. QED
    BY <1>1, <1>5, <2>2, <2>3
<1>6. CASE Regrouping
  <2>1. sealed' = sealed
    BY <1>6 DEF Regrouping, ProposeMerge, AcceptMerge, CompleteMerge, Merging, ProposeGroupSplit,
                ExecuteGroupSplit, ExpireSplitProposal, ConfirmSplitParticipation, Splitting
  <2>. QED
    BY <1>1, <2>1
<1>. QED
  BY <1>2, <1>3, <1>4, <1>5, <1>6 DEF Next, Roster, governVars

-----------------------------------------------------------------------------
(* The entry points of the council.                                         *)

(* Proposals are of the six types, and members plead.                       *)
ProposalsTyped == \A p \in Proposals : proposals[p].type \in ProposalType
PleasTyped == \A q \in pleas : q.by \in Member

LEMMA ProposalsTypedStay ==
  ASSUME VoteInv, ProposalsTyped, [Next]_vars
  PROVE  ProposalsTyped'
<1>1. proposals' = proposals => ProposalsTyped'
  BY DEF ProposalsTyped
<1>2. \A p \in Proposals : Ballot(proposals[p]) /\ proposals = [q \in Proposals |-> proposals[q]]
  BY DEF VoteInv, ProposalsInv
<1>3. ASSUME NEW id, NEW type \in ProposalType, NEW a, NEW b, NEW c, NEW d,
             Proposed(id, NewProposal(type, a, b, c, d))
      PROVE  ProposalsTyped'
  <2>. DEFINE r == NewProposal(type, a, b, c, d)
  <2>1. r.type \in ProposalType
    BY DEF NewProposal, NoProposal
  <2>2. id \in Proposals /\ proposals' = [proposals EXCEPT ![id] = r]
    BY <1>3 DEF Proposed
  <2>. HIDE DEF r
  <2>. QED
    BY <1>2, <2>1, <2>2 DEF ProposalsTyped
<1>4. ASSUME NEW p, NEW status, proposals' = [proposals EXCEPT ![p].status = status]
      PROVE  ProposalsTyped'
  <2>1. \A q \in Proposals : proposals'[q].type = proposals[q].type
    BY <1>2, <1>4 DEF Ballot, NoProposal
  <2>. QED
    BY <2>1 DEF ProposalsTyped
<1>5. ASSUME NEW p, NEW V, NEW n, NEW b, Tallied(p, V, n, b)
      PROVE  ProposalsTyped'
  <2>1. \A q \in Proposals : proposals'[q].type = proposals[q].type
    BY <1>2, <1>5 DEF Ballot, NoProposal, Tallied
  <2>. QED
    BY <2>1 DEF ProposalsTyped
<1>6. CASE Proposing
  <2>1. ASSUME NEW m \in Member, ProposeMemberFreeze(m) PROVE ProposalsTyped'
    <3>1. "MemberFreeze" \in ProposalType
      BY DEF ProposalType
    <3>. QED
      BY <1>3, <2>1, <3>1 DEF ProposeMemberFreeze
  <2>2. ASSUME NEW m \in Member, NEW t \in Proposable, NEW target \in Member, NEW v \in Values,
               NEW s \in Spans, CreateProposal(m, t, target, v, s)
        PROVE  ProposalsTyped'
    <3>1. t \in ProposalType
      BY InputAssumption DEF InputAssumption
    <3>. QED
      BY <1>3, <2>2, <3>1 DEF CreateProposal
  <2>3. ASSUME NEW t \in Proposable, SetQuorumPerType(t, 10000) PROVE ProposalsTyped'
    BY <1>1, <2>3 DEF SetQuorumPerType
  <2>. QED
    BY <1>6, <2>1, <2>2, <2>3 DEF Proposing
<1>7. CASE Voting
  <2>1. ASSUME NEW p \in Proposals, ExecuteProposal(p) PROVE ProposalsTyped'
    <3>1. \E status : proposals' = [proposals EXCEPT ![p].status = status]
      BY <2>1 DEF ExecuteProposal, Decided
    <3>. QED
      BY <1>4, <3>1
  <2>2. ASSUME NEW p \in Proposals, NEW m \in Member, NEW b \in BOOLEAN,
               VoteOnProposal(m, p, b) \/ VoteProposalViaProxy(m, p, b)
        PROVE  ProposalsTyped'
    <3>1. \E V, n : Tallied(p, V, n, b)
      BY <2>2, Zenon DEF VoteOnProposal, VoteProposalViaProxy
    <3>. QED
      BY <1>5, <3>1
  <2>. QED
    BY <1>7, <2>1, <2>2 DEF Voting
<1>8. CASE Reinstating
  <2>1. ASSUME NEW m \in Member, RequestReinstatement(m) PROVE ProposalsTyped'
    <3>1. "Reinstatement" \in ProposalType
      BY DEF ProposalType
    <3>. QED
      BY <1>3, <2>1, <3>1 DEF RequestReinstatement
  <2>2. ASSUME NEW m \in Member, ReinstateMember(m) PROVE ProposalsTyped'
    <3>1. \E p : proposals' = [proposals EXCEPT ![p].status = "Executed"]
      BY <2>2 DEF ReinstateMember
    <3>. QED
      BY <1>4, <3>1
  <2>. QED
    BY <1>8, <2>1, <2>2 DEF Reinstating
<1>9. CASE Delegating \/ Representing \/ Aiding \/ Ending
  <2>1. proposals' = proposals
    BY <1>9 DEF Delegating, Representing, RevokeDelegation, RevokeContributionDelegation,
                DelegateVote, DelegateContribution, ContributeViaProxy, Delegated, Aiding,
                RequestEmergencyPayout, VoteEmergencyPayout, ExecuteEmergencyPayout, Pleads, Ending,
                DissolveGroup, ExecuteDissolution, CancelPendingGroup, StartDissolutionVote,
                VoteDissolveGroup, Ends
  <2>. QED
    BY <1>1, <2>1
<1>10. CASE UNCHANGED councilVars \/ UNCHANGED vars
  BY <1>1, <1>10 DEF councilVars, vars, governVars
<1>. QED
  BY <1>6, <1>7, <1>8, <1>9, <1>10 DEF Next, Council, governVars

LEMMA PleasTypedStay ==
  ASSUME VoteInv, PleasTyped, [Next]_vars
  PROVE  PleasTyped'
<1>1. pleas' = pleas => PleasTyped'
  BY DEF PleasTyped
<1>2. \A q \in pleas : Plea(q)
  BY DEF VoteInv, PleasInv
<1>3. CASE Aiding
  <2>1. ASSUME NEW m \in Member, RequestEmergencyPayout(m) PROVE PleasTyped'
    <3>. DEFINE r == [round |-> group.round, by |-> m, until |-> now + cfg.aidSpan,
                      for |-> 0, against |-> 0, voters |-> {}, executed |-> FALSE]
    <3>1. r.by = m /\ pleas' = pleas \cup {r}
      BY <2>1 DEF RequestEmergencyPayout, Pleads
    <3>. HIDE DEF r
    <3>. QED
      BY <3>1 DEF PleasTyped
  <2>2. ASSUME NEW q \in pleas, NEW m \in Member, NEW b \in BOOLEAN, VoteEmergencyPayout(m, q, b)
        PROVE  PleasTyped'
    <3>. DEFINE w == Weight(m)
                r == [q EXCEPT !.voters = @ \cup {m}, !.for = IF b THEN @ + w ELSE @,
                               !.against = IF b THEN @ ELSE @ + w]
    <3>1. r.by = q.by /\ pleas' = (pleas \ {q}) \cup {r}
      BY <1>2, <2>2 DEF VoteEmergencyPayout, Pleads, Plea, PleaFields
    <3>. HIDE DEF r
    <3>. QED
      BY <3>1 DEF PleasTyped
  <2>3. ASSUME NEW q \in pleas, ExecuteEmergencyPayout(q)
        PROVE  PleasTyped'
    <3>. DEFINE r == [q EXCEPT !.executed = TRUE]
    <3>1. r.by = q.by /\ pleas' = (pleas \ {q}) \cup {r}
      BY <1>2, <2>3 DEF ExecuteEmergencyPayout, Pleads, Plea, PleaFields
    <3>. HIDE DEF r
    <3>. QED
      BY <3>1 DEF PleasTyped
  <2>. QED
    BY <1>3, <2>1, <2>2, <2>3 DEF Aiding
<1>4. CASE Proposing \/ Voting \/ Reinstating
  <2>1. Proposing => pleas' = pleas
    BY DEF Proposing, ProposeMemberFreeze, CreateProposal, SetQuorumPerType, Proposed
  <2>2. Voting => pleas' = pleas
    BY DEF Voting, VoteOnProposal, VoteProposalViaProxy, ExecuteProposal, Decided
  <2>3. Reinstating => pleas' = pleas
    BY DEF Reinstating, RequestReinstatement, Proposed, ReinstateMember
  <2>. QED
    BY <1>1, <1>4, <2>1, <2>2, <2>3
<1>5. CASE Delegating \/ Representing \/ Ending
  <2>1. pleas' = pleas
    BY <1>5 DEF Delegating, Representing, RevokeDelegation, RevokeContributionDelegation,
                DelegateVote, DelegateContribution, ContributeViaProxy, Delegated, Ending,
                DissolveGroup, ExecuteDissolution, CancelPendingGroup, StartDissolutionVote,
                VoteDissolveGroup, Ends
  <2>. QED
    BY <1>1, <2>1
<1>6. CASE UNCHANGED councilVars \/ UNCHANGED vars
  BY <1>1, <1>6 DEF councilVars, vars, governVars
<1>. QED
  BY <1>3, <1>4, <1>5, <1>6 DEF Next, Council, governVars

(* What a vote brings about.                                                *)
LEMMA CarriedOutLawful ==
  ASSUME Rostered(group), NEW prop, prop.type \in ProposalType, CarriedOut(prop)
  PROVE  Lawful(group, group', Late)
<1>. DEFINE m == prop.target
<1>1. CASE prop.type = "PenaltyAppeal"
  <2>. DEFINE h == [group EXCEPT !.defaults[m] = 0, !.suspended = @ \ {m}]
  <2>1. group' = h
    BY <1>1 DEF CarriedOut, Set
  <2>2. /\ GroupFields \subseteq DOMAIN h /\ h.members = group.members /\ h.order = group.order
        /\ h.waitlist = group.waitlist /\ h.round = group.round /\ h.history = group.history
        /\ h.bids = group.bids /\ h.paid = group.paid
    BY DEF Rostered, GroupFields
  <2>. HIDE DEF h
  <2>3. Rostered(h)
    BY <2>2 DEF Rostered
  <2>. QED
    BY <2>1, <2>2, <2>3, NotedLawful
<1>2. CASE prop.type = "MemberRemoval"
  <2>1. group' = Leaves(group, m)
    BY <1>2 DEF CarriedOut, Set
  <2>2. Lawful(group, Leaves(group, m), Late)
    BY LeavesLawful
  <2>. QED
    BY <2>1, <2>2
<1>3. CASE prop.type = "MaxMembersUpdate"
  <2>. DEFINE h == [group EXCEPT !.max = prop.value]
  <2>1. group' = h \/ group' = group
    BY <1>3 DEF CarriedOut, Set
  <2>2. Alike(group, h)
    BY DEF Rostered, Alike, GroupFields
  <2>. HIDE DEF h
  <2>3. Lawful(group, h, Late)
    BY <2>2, AlikeLawful
  <2>. QED
    BY <2>1, <2>3, StillLawful
<1>4. CASE prop.type \in {"RuleChange", "MemberFreeze", "Reinstatement"}
  <2>1. group' = group
    BY <1>4 DEF CarriedOut, Still
  <2>. QED
    BY <2>1, StillLawful
<1>. QED
  BY <1>1, <1>2, <1>3, <1>4 DEF ProposalType

LEMMA CouncilLawful ==
  ASSUME Rostered(group), ProposalsTyped, PleasTyped, Council
  PROVE  Lawful(group, group', Late)
<1>1. CASE Proposing
  <2>1. group' = group
    BY <1>1 DEF Proposing, ProposeMemberFreeze, CreateProposal, SetQuorumPerType, Proposed, Still
  <2>. QED
    BY <2>1, StillLawful
<1>2. CASE Voting
  <2>1. ASSUME NEW p \in Proposals, NEW m \in Member, NEW b \in BOOLEAN,
               VoteOnProposal(m, p, b) \/ VoteProposalViaProxy(m, p, b)
        PROVE  group' = group
    BY <2>1 DEF VoteOnProposal, VoteProposalViaProxy, Still
  <2>2. ASSUME NEW p \in Proposals, ExecuteProposal(p) PROVE Lawful(group, group', Late)
    <3>1. PICK prop : prop = proposals[p]
      OBVIOUS
    <3>2. group' = group \/ CarriedOut(prop)
      BY <2>2, <3>1, Zenon DEF ExecuteProposal, Still
    <3>3. prop.type \in ProposalType
      BY <3>1 DEF ProposalsTyped
    <3>. QED
      BY <3>2, <3>3, CarriedOutLawful, StillLawful
  <2>. QED
    BY <1>2, <2>1, <2>2, StillLawful DEF Voting
<1>3. CASE Reinstating
  <2>1. ASSUME NEW m \in Member, RequestReinstatement(m) PROVE group' = group
    BY <2>1 DEF RequestReinstatement, Proposed, Still
  <2>2. ASSUME NEW m \in Member, ReinstateMember(m) PROVE Lawful(group, group', Late)
    <3>. DEFINE s == group.order
                t == IF Contains(s, m) THEN s ELSE Append(s, m)
                h == [group EXCEPT !.suspended = @ \ {m}, !.defaults[m] = 0, !.order = t,
                        !.feeDue = IF cfg.reinstatementFee > 0 THEN @ \cup {m} ELSE @]
    <3>1. group' = h
      BY <2>2 DEF ReinstateMember, Set
    <3>2. s \in Seq(Member)
      BY DEF Rostered
    <3>. HIDE DEF s
    <3>3. t \in Seq(Member)
      BY <3>2, AppendProperties
    <3>4. \A x : Cardinality(Places(x, t)) >= Cardinality(Places(x, s))
      BY <3>2, PlacesFinite, PlacesAppend
    <3>. HIDE DEF t
    <3>5. /\ GroupFields \subseteq DOMAIN h /\ h.members = group.members /\ h.order = t
          /\ h.waitlist = group.waitlist /\ h.round = group.round /\ h.history = group.history
          /\ h.bids = group.bids /\ h.paid = group.paid /\ group.order = s
      BY DEF Rostered, GroupFields, s
    <3>. HIDE DEF h
    <3>6. h.bids \in Seq(Bid)
      BY <3>5 DEF Rostered
    <3>7. Lawful(group, h, Late)
      BY <3>3, <3>4, <3>5, <3>6, ReorderedLawful
    <3>. QED
      BY <3>1, <3>7
  <2>. QED
    BY <1>3, <2>1, <2>2, StillLawful DEF Reinstating
<1>4. CASE Delegating
  <2>1. group' = group
    BY <1>4 DEF Delegating, RevokeDelegation, RevokeContributionDelegation, DelegateVote,
                DelegateContribution
  <2>. QED
    BY <2>1, StillLawful
<1>5. ASSUME NEW m \in Member, NEW h, Listed(group, h, m)
      PROVE  Lawful(group, h, Late)
  BY <1>5, ListedIs, NotedLawful
<1>6. CASE Representing
  <2>1. PICK m \in Member, x \in Amounts, base \in BOOLEAN : ContributeViaProxy(m, x, base)
    BY <1>6 DEF Representing
  <2>. DEFINE h == [group EXCEPT !.paid = @ \cup {m}, !.contributed[m] = @ + x,
                                 !.held = IF base THEN @ + x ELSE @]
  <2>2. group' = h
    BY <2>1 DEF ContributeViaProxy
  <2>3. Listed(group, h, m)
    BY DEF Rostered, Listed, GroupFields
  <2>. HIDE DEF h
  <2>. QED
    BY <1>5, <2>2, <2>3
<1>7. CASE Aiding
  <2>1. ASSUME NEW m \in Member, RequestEmergencyPayout(m) PROVE group' = group
    BY <2>1 DEF RequestEmergencyPayout
  <2>2. ASSUME NEW q \in pleas, NEW m \in Member, NEW b \in BOOLEAN, VoteEmergencyPayout(m, q, b)
        PROVE  group' = group
    BY <2>2 DEF VoteEmergencyPayout
  <2>3. ASSUME NEW q \in pleas, ExecuteEmergencyPayout(q) PROVE Lawful(group, group', Late)
    <3>1. PICK m \in Member : m = q.by
      BY DEF PleasTyped
    <3>. DEFINE h == [group EXCEPT !.held = @ - group.amount, !.paid = @ \cup {m}]
    <3>2. group' = h
      BY <2>3, <3>1 DEF ExecuteEmergencyPayout
    <3>3. Listed(group, h, m)
      BY DEF Rostered, Listed, GroupFields
    <3>. HIDE DEF h
    <3>. QED
      BY <1>5, <3>2, <3>3
  <2>. QED
    BY <1>7, <2>1, <2>2, <2>3, StillLawful DEF Aiding
<1>8. CASE Ending
  <2>1. ASSUME NEW m \in Member, StartDissolutionVote(m) \/ \E b \in BOOLEAN : VoteDissolveGroup(m, b)
        PROVE  group' = group
    BY <2>1 DEF StartDissolutionVote, VoteDissolveGroup
  <2>2. ASSUME DissolveGroup PROVE Lawful(group, group', Late)
    <3>. DEFINE h == [group EXCEPT !.held = IF group.members = <<>> /\ ~cfg.recipient THEN @ ELSE 0]
    <3>1. Alike(group, h) /\ group' = h
      BY <2>2 DEF DissolveGroup, Rostered, Alike, GroupFields
    <3>. HIDE DEF h
    <3>. QED
      BY <3>1, AlikeLawful
  <2>3. ASSUME CancelPendingGroup PROVE Lawful(group, group', Late)
    <3>. DEFINE h == [group EXCEPT !.held = @ - group.rewards, !.rewards = 0]
    <3>1. Alike(group, h) /\ group' = h
      BY <2>3 DEF CancelPendingGroup, Rostered, Alike, GroupFields
    <3>. HIDE DEF h
    <3>. QED
      BY <3>1, AlikeLawful
  <2>. QED
    BY <1>8, <2>1, <2>2, <2>3, StillLawful DEF Ending, ExecuteDissolution
<1>. QED
  BY <1>1, <1>2, <1>3, <1>4, <1>6, <1>7, <1>8 DEF Council

-----------------------------------------------------------------------------
(* The whole contract.                                                      *)

(* The lists are lists of members, the history a list, the bids bids: what  *)
(* the calls read of a group is there.                                      *)
TurnInv == VoteInv /\ Rostered(group) /\ SealedBids /\ ProposalsTyped /\ PleasTyped

LEMMA TurnsStart == Init => TurnInv
<1>. SUFFICES ASSUME Init PROVE TurnInv
  OBVIOUS
<1>1. PICK order \in Orders : group = NewGroup(order)
  BY DEF Init
<1>2. Founders \in Seq(Member) /\ order \in Seq(Member)
  <2>1. order \in Seq(Range(Founders)) /\ Range(Founders) \subseteq Member /\ Founders \in Seq(Member)
    BY GroupAssumption DEF GroupAssumption, Range
  <2>. QED
    BY <2>1
<1>3. <<>> \in Seq(Member) /\ <<>> \in Seq(Bid) /\ <<>> \in Seq({})
  OBVIOUS
<1>4. Rostered(group)
  <2>1. /\ GroupFields \subseteq DOMAIN group /\ group.members = Founders /\ group.order = order
        /\ group.waitlist = <<>> /\ group.round = 0 /\ group.history = <<>>
        /\ group.bids = <<>> /\ group.paid = {}
    BY <1>1 DEF NewGroup, GroupFields
  <2>2. 0 \in Nat /\ {} \subseteq Member
    OBVIOUS
  <2>. QED
    BY <1>2, <1>3, <2>1, <2>2, Zenon DEF Rostered
<1>5. SealedBids
  <2>1. sealed.bids = <<>> /\ {"open", "round", "commitUntil", "revealUntil", "bids"} \subseteq DOMAIN sealed
    BY DEF Init, RosterInit, NoSealed
  <2>. QED
    BY <1>3, <2>1, Zenon DEF SealedBids
<1>6. ProposalsTyped /\ PleasTyped
  BY DEF Init, CouncilInit, NoProposal, ProposalsTyped, PleasTyped, ProposalType
<1>. QED
  BY <1>4, <1>5, <1>6, ProposalsStart DEF TurnInv

(* Every step keeps the turns and the law of the rounds.                     *)
LEMMA NextLawful ==
  ASSUME TurnInv, [Next]_vars
  PROVE  Lawful(group, group', Late)
<1>1. Rostered(group) /\ SealedBids /\ ProposalsTyped /\ PleasTyped
  BY DEF TurnInv
<1>2. CASE Rounds \/ NextLedger
  BY <1>1, <1>2, ContributingLawful, ProxiedLawful, FinishingLawful, FiningLawful, CoSigningLawful,
     SavingLawful, TimingLawful DEF Rounds
<1>3. CASE Roster
  BY <1>1, <1>3, JoinedLawful, ExitingLawful, SwappingLawful, BiddingLawful, SealingLawful,
     RegroupingLawful DEF Roster
<1>4. CASE Council
  BY <1>1, <1>4, CouncilLawful
<1>5. CASE UNCHANGED vars
  BY <1>1, <1>5, StillLawful DEF vars
<1>. QED
  BY <1>2, <1>3, <1>4, <1>5 DEF Next

(* Whatever is called, the member list, the payout order and the waitlist    *)
(* hold accounts of the contract and the bids, proposals and pleas are such  *)
(* as their readers expect.                                                  *)
THEOREM TurnInvAlways == Spec => []TurnInv
<1>1. TurnInv /\ [Next]_vars => TurnInv'
  <2>. SUFFICES ASSUME TurnInv, [Next]_vars PROVE TurnInv'
    OBVIOUS
  <2>1. Rostered(group)'
    BY NextLawful DEF Lawful
  <2>. QED
    BY <2>1, NextCounts, SealedBidsStay, ProposalsTypedStay, PleasTypedStay DEF TurnInv
<1>. QED
  BY <1>1, TurnsStart, PTL DEF Spec

(* Nobody who stays in the group loses a turn, and nobody joins without     *)
(* one, whatever moves the payout order.                                    *)
THEOREM PlaceKeptAlways == Spec => PlaceKept
<1>1. TurnInv /\ [Next]_vars =>
        [\A m \in Range(group'.members) :
           Cardinality(Places(m, group'.order)) >=
             IF InGroup(m) THEN Cardinality(Places(m, group.order)) ELSE 1]_vars
  BY NextLawful DEF Lawful, Kin, Turns, InGroup
<1>. QED
  BY <1>1, TurnInvAlways, PTL DEF Spec, PlaceKept

(* Rounds pass one at a time and each is paid out at most once, to one who  *)
(* has not been passed over, before the deadline only for a full list.      *)
THEOREM RoundPaidOnceAlways == Spec => RoundPaidOnce
<1>1. TurnInv /\ [Next]_vars =>
        [LET ended == group'.round # group.round
             paid == group'.history # group.history
             last == Last(group'.history)
             list == group.paid
             unpaid == Cardinality(Range(group.members) \ list)
             gone == Cardinality(list \ Range(group.members))
         IN
         /\ ended => group'.round = group.round + 1
         /\ paid =>
              /\ ended
              /\ Front(group'.history) = group.history
              /\ last.recipient \notin group.suspended \cup group.exited
              /\ <<last.recipient, group.round>> \notin group.skipped
         /\ ended /\ ~Late => paid /\ unpaid <= gone + 1]_vars
  BY NextLawful DEF Lawful, RoundLaw
<1>. QED
  BY <1>1, TurnInvAlways, PTL DEF Spec, RoundPaidOnce

=============================================================================
