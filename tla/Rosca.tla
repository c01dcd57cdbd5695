--------------------------------- MODULE Rosca ---------------------------------
(***************************************************************************)
(* The ahjoor-rosca contract: every entry point of its rounds, its roster  *)
(* and its governance, and what they promise together.                     *)
(***************************************************************************)
EXTENDS RoscaGovernance

CONSTANTS
  Amounts,     \* sums contributed, bid, deposited
  Spans,       \* lengths of votes and delegations
  Proposable,  \* types of proposals made in an instance
  Values,      \* the value a proposal sets
  Sizes,       \* the limit of members the admin sets
  Joining      \* the other group's members in a merge

ASSUME InputAssumption ==
  /\ Amounts \subseteq Nat \ {0} /\ Spans \subseteq Nat /\ Sizes \subseteq 1 .. 100
  /\ Proposable \subseteq ProposalType
  /\ \A s \in Joining : s \in Seq(Member)

vars == <<now, cfg, gate, group, governVars>>

Init ==
  /\ now = 1
  /\ cfg \in RoscaCfgs
  /\ gate = [paused |-> None, frozen |-> FALSE, status |-> "Active", shuffled |-> FALSE]
  /\ \E order \in Orders : group = NewGroup(order)
  /\ RosterInit /\ CouncilInit

-----------------------------------------------------------------------------

Contributing ==
  \E m \in Member :
    \/ \E x \in Amounts : Contribute(m, x)
    \/ \E r \in group.round .. MaxRound : RequestSkip(m, r)
Proxied ==
  \E m \in Member :
    AuthorizeProxy(m, 1) \/ RevokeProxy(m) \/ ContributeAsProxy(m)
Finishing == CloseRound \/ FinalizeRound
Fining == \E m \in Member : PenaliseDefaulter(m) \/ RequestPenaltyGrace(m)
CoSigning ==
  \E m \in Member :
    \/ SetCoSigner(m) \/ AcceptCoSigner(m) \/ RemoveCoSigner(m)
    \/ \E x \in Amounts : CoSignerContribute(m, x)
Saving ==
  \/ \E x \in Amounts : DepositRewards(x)
  \/ \E m \in Member :
       \/ ClaimRewards(m)
       \/ \E x \in Amounts : ContributeToInsurance(m, x)
       \/ \E b \in BOOLEAN : SetReinvestPreference(m, b)
Timing ==
  \/ \E d \in Spans : UpdateRoundDuration(d)
  \/ PauseGroup \/ ResumeGroup
  \/ \E b \in BOOLEAN : SetFrozen(b)

Joined ==
  \/ \E m \in Member :
       \/ AddMember(m) \/ RemoveMember(m) \/ GenerateInvite(m) \/ JoinWithInvite(m)
       \/ JoinWaitlist(m) \/ LeaveWaitlist(m)
  \/ \E n \in Sizes : UpdateMaxMembers(n)
Exiting == \E m \in Member : RequestEmergencyExit(m) \/ RejectExit(m) \/ ApproveExit(m)
Swapping ==
  \/ \E order \in Orders : FinalizePayoutOrder(order)
  \/ \E a, b \in 0 .. Len(group.order) - 1 : RequestSlotSwap(a, b)
  \/ \E i \in DOMAIN swaps : AcceptSlotSwap(i) \/ RejectSlotSwap(i) \/ ApproveSlotSwap(i)
Bidding ==
  \/ \E m \in Member, place \in 0 .. Len(group.order) - 1, x \in Amounts : PlaceSlotBid(m, place, x)
  \/ ResolveSlotAuction
Sealing ==
  \/ ConfigureSealedSlotAuction \/ OpenSealedSlotAuction(group.round) \/ SettleSealedSlotAuction
  \/ \E m \in Member, x \in Amounts :
       \/ CommitSlotBid(m, x)
       \/ \E place \in 0 .. Len(group.order) - 1 : RevealSlotBid(m, place, x)
Regrouping ==
  \/ ProposeMerge \/ AcceptMerge
  \/ \E others \in Joining : CompleteMerge(others)
  \/ \E w \in Windows : ProposeGroupSplit(w)
  \/ \E i \in DOMAIN splits :
       \/ ExecuteGroupSplit(i) \/ ExpireSplitProposal(i)
       \/ \E m \in Member : ConfirmSplitParticipation(m, i)

Proposing ==
  \/ \E m \in Member :
       \/ ProposeMemberFreeze(m)
       \/ \E t \in Proposable, target \in Member, v \in Values, s \in Spans :
            CreateProposal(m, t, target, v, s)
  \/ \E t \in Proposable : SetQuorumPerType(t, 10000)
Voting ==
  \E p \in Proposals :
    \/ \E m \in Member, b \in BOOLEAN : VoteOnProposal(m, p, b) \/ VoteProposalViaProxy(m, p, b)
    \/ ExecuteProposal(p)
Reinstating == \E m \in Member : RequestReinstatement(m) \/ ReinstateMember(m)
Delegating ==
  \E m \in Member :
    \/ RevokeDelegation(m) \/ RevokeContributionDelegation(m)
    \/ \E d \in Member : DelegateVote(m, d) \/ \E s \in Spans : DelegateContribution(m, d, now + s)
Representing == \E m \in Member, x \in Amounts, base \in BOOLEAN : ContributeViaProxy(m, x, base)
Aiding ==
  \/ \E m \in Member : RequestEmergencyPayout(m)
  \/ \E q \in pleas : ExecuteEmergencyPayout(q) \/ \E m \in Member, b \in BOOLEAN : VoteEmergencyPayout(m, q, b)
Ending ==
  \/ DissolveGroup \/ ExecuteDissolution \/ CancelPendingGroup
  \/ \E m \in Member : StartDissolutionVote(m) \/ \E b \in BOOLEAN : VoteDissolveGroup(m, b)

NextLedger == now < MaxTime /\ now' = now + 1 /\ UNCHANGED <<cfg, gate, group>>

Rounds == Contributing \/ Proxied \/ Finishing \/ Fining \/ CoSigning \/ Saving \/ Timing
Roster == Joined \/ Exiting \/ Swapping \/ Bidding \/ Sealing \/ Regrouping
Council == Proposing \/ Voting \/ Reinstating \/ Delegating \/ Representing \/ Aiding \/ Ending

Next ==
  /\ \/ (Rounds \/ NextLedger) /\ UNCHANGED governVars
     \/ Roster /\ UNCHANGED councilVars
     \/ Council /\ UNCHANGED rosterVars
  /\ group'.round <= MaxRound

Spec == Init /\ [][Next]_vars

-----------------------------------------------------------------------------

(* Nobody who stays in the group loses a turn, and nobody joins without     *)
(* one: demotions, swaps, auctions, the shuffle, reinstatements, exits of   *)
(* others, promotions from the waitlist, merges and votes keep every        *)
(* member's places on the payout order, in whatever sequence they come.     *)
(* What init was given stays: a custom order may name one member twice and  *)
(* another not at all (126).                                                *)
PlaceKept ==
  [][\A m \in Range(group'.members) :
       Cardinality(Places(m, group'.order)) >=
         IF InGroup(m) THEN Cardinality(Places(m, group.order)) ELSE 1]_vars

(* Rounds pass one at a time, and each is paid out at most once: by the     *)
(* contribution that leaves nobody missing or, late, by finalize_round,     *)
(* never by both; the one paid was not suspended, had not left and did not  *)
(* skip the round.  Before its deadline a round ends with a payout only,    *)
(* and then no more members have gone without paying than PaidMembers lists *)
(* accounts that left; an emergency payout, a proxy or a co-signer that     *)
(* fills the list does not pay a round out twice.                           *)
RoundPaidOnce ==
  [][LET ended == group'.round # group.round
         paid == group'.history # group.history
         last == Last(group'.history)
         list == group.paid
         unpaid == Cardinality(Range(group.members) \ list)
         gone == Cardinality(list \ Range(group.members))
     IN
     /\ ended => group'.round = group.round + 1
     /\ paid =>
          /\ ended
          /\ Front(group'.history) = group.history
          /\ last.recipient \notin group.suspended \cup group.exited
          /\ <<last.recipient, group.round>> \notin group.skipped
     /\ ended /\ ~Late => paid /\ unpaid <= gone + 1]_vars

(* With one vote a head, every tally is the number of ballots cast: a       *)
(* delegator is counted once whether the delegate, the proxy or the account *)
(* itself votes first, also when a reinstatement's id is used again; in an  *)
(* emergency the requester has no vote, and no more votes end the group     *)
(* than members voted in the round.                                         *)
VotesCounted ==
  ~cfg.weighted =>
    /\ \A p \in Proposals : proposals[p].for + proposals[p].against = Cardinality(proposals[p].voters)
    /\ \A q \in pleas : q.for + q.against = Cardinality(q.voters \ {q.by})
    /\ \A r \in DOMAIN ending : ending[r].count <= Cardinality(ending[r].voters)

=============================================================================
