---------------------------- MODULE TokenWhitelist ----------------------------
(***************************************************************************)
(* The ahjoor-token-whitelist contract: which tokens the other contracts   *)
(* take.  The admin lists, removes and suspends tokens and sets quotas;    *)
(* holders of the governance token list and delist by vote.  A call is one *)
(* atomic step.                                                            *)
(***************************************************************************)
EXTENDS Sums, FiniteSets, FiniteSetsExt

CONSTANTS
  Token,          \* token contracts
  Contract,       \* contracts that ask about a token
  Voters,         \* holders of the governance token
  Stake,          \* what each of them holds of it
  Spans,          \* suspensions, extensions and periods the admin passes
  Volumes,        \* amounts of a token
  MaxProposals,   \* bound: proposals of each kind
  MaxTime,        \* bound: last ledger
  ListingRules    \* MinProposalStake, VotingWindowLedgers, QuorumBps, EnactmentDelayLedgers

ASSUME WhitelistAssumption ==
  /\ MaxTime \in Nat /\ MaxProposals \in Nat
  /\ Spans \subseteq Nat \ {0}
  /\ Stake \in [Voters -> Nat] /\ IsFiniteSet(Voters)

VARIABLES
  now,            \* ledger sequence
  listed,         \* DataKey::WhitelistedTokens
  suspended,      \* DataKey::SuspensionRecord, its expiry or Never
  allowance,      \* DataKey::ContractTokenAllowlist
  quota,          \* DataKey::TokenQuota
  traded,         \* DataKey::TokenVolumeBucket
  proposal,       \* DataKey::ListingProposal and DelistingProposal
  ballot,         \* DataKey::VoteRecord and DelistingVoteRecord
  rules           \* the governance settings

listVars == <<listed, allowance, quota, traded, proposal, ballot, rules>>
whitelistVars == <<suspended, listVars>>

-----------------------------------------------------------------------------

Kind == {"listing", "delisting"}
Proposals == 0 .. MaxProposals - 1
ProposalStatus == {"None", "Active", "PendingEnactment", "Enacted", "Failed", "Vetoed"}
Never == -1          \* a key that is absent
Forever == -2        \* an allowance without expiry
NoQuota == [max |-> 0, period |-> 1]
NoBallot == [approve |-> FALSE, weight |-> 0]
NoProposal == [status |-> "None", token |-> CHOOSE t \in Token : TRUE,
               deadline |-> 0, approve |-> 0, reject |-> 0, enactable |-> 0]

Suspended(t) == suspended[t] # Never /\ now < suspended[t]
IsTokenAllowed(t) == t \in listed /\ ~Suspended(t)

(* is_token_allowed_for_contract: an allowance that has not expired stands  *)
(* in for the listing; a suspension overrides both.                         *)
Granted(c, t) == allowance[c][t] = Forever \/ allowance[c][t] > now
IsAllowedFor(c, t) == ~Suspended(t) /\ (Granted(c, t) \/ t \in listed)

(* The answer yes to contract c.  is_token_allowed, asked without an        *)
(* allowance, drops the record of a suspension that is over.                *)
Ask(c, t) ==
  /\ IsAllowedFor(c, t)
  /\ suspended' = IF Granted(c, t) THEN suspended ELSE [suspended EXCEPT ![t] = Never]

-----------------------------------------------------------------------------
(* The admin's list.                                                        *)

AddToken(t) ==
  /\ t \notin listed
  /\ listed' = listed \cup {t}
  /\ UNCHANGED <<suspended, allowance, quota, traded, proposal, ballot, rules>>

(* Mutant of Delist: a suspension outlives the listing.                     *)
DelistKeeping(t) ==
  /\ listed' = listed \ {t}
  /\ suspended' = suspended

(* remove_token_from_whitelist: a relisted token does not come back         *)
(* suspended.                                                               *)
Delist(t) ==
  /\ listed' = listed \ {t}
  /\ suspended' = IF t \in listed THEN [suspended EXCEPT ![t] = Never] ELSE suspended

RemoveToken(t) ==
  /\ t \in listed
  /\ Delist(t)
  /\ UNCHANGED <<allowance, quota, traded, proposal, ballot, rules>>

SuspendTokenTimed(t, span) ==
  /\ t \in listed /\ ~Suspended(t)
  /\ suspended' = [suspended EXCEPT ![t] = now + span]
  /\ UNCHANGED <<listed, allowance, quota, traded, proposal, ballot, rules>>

LiftTokenSuspension(t) ==
  /\ Suspended(t)
  /\ suspended' = [suspended EXCEPT ![t] = Never]
  /\ UNCHANGED <<listed, allowance, quota, traded, proposal, ballot, rules>>

ExtendTokenSuspension(t, span) ==
  /\ Suspended(t)
  /\ suspended' = [suspended EXCEPT ![t] = @ + span]
  /\ UNCHANGED <<listed, allowance, quota, traded, proposal, ballot, rules>>

(* is_token_allowed, called for itself.                                     *)
ForgetSuspension(t) ==
  /\ t \in listed /\ suspended[t] # Never /\ ~Suspended(t)
  /\ suspended' = [suspended EXCEPT ![t] = Never]
  /\ UNCHANGED <<listed, allowance, quota, traded, proposal, ballot, rules>>

SetContractToken(c, t, until) ==
  /\ allowance' = [allowance EXCEPT ![c][t] = until]
  /\ UNCHANGED <<listed, suspended, quota, traded, proposal, ballot, rules>>

RemoveContractToken(c, t) == SetContractToken(c, t, Never)

SetTokenQuota(t, max, period) ==
  /\ t \in listed /\ quota[t] = NoQuota
  /\ max > 0 /\ period > 0
  /\ quota' = [quota EXCEPT ![t] = [max |-> max, period |-> period]]
  /\ UNCHANGED <<listed, suspended, allowance, traded, proposal, ballot, rules>>

UpdateTokenQuota(t, max, period) ==
  /\ quota[t] # NoQuota
  /\ max > 0 /\ period > 0
  /\ quota' = [quota EXCEPT ![t] = [max |-> max, period |-> period]]
  /\ UNCHANGED <<listed, suspended, allowance, traded, proposal, ballot, rules>>

RemoveTokenQuota(t) ==
  /\ quota[t] # NoQuota
  /\ quota' = [quota EXCEPT ![t] = NoQuota]
  /\ UNCHANGED <<listed, suspended, allowance, traded, proposal, ballot, rules>>

(* record_token_volume: the buckets of the period that ends now.  Without a *)
(* quota nothing is recorded.                                               *)
PeriodVolume(t) ==
  LET first == IF now < quota[t].period - 1 THEN 0 ELSE now - (quota[t].period - 1) IN
  SumOf(traded[t], first .. now)

RecordTokenVolume(t, x) ==
  /\ x > 0 /\ quota[t] # NoQuota
  /\ PeriodVolume(t) + x <= quota[t].max
  /\ traded' = [traded EXCEPT ![t][now] = @ + x]
  /\ UNCHANGED <<listed, suspended, allowance, quota, proposal, ballot, rules>>

-----------------------------------------------------------------------------
(* Governance.  Listing and delisting are voted on in the same way.         *)

ProposeListing(k, p, t, proposer) ==
  /\ proposal[k][p].status = "None"
  /\ p > 0 => proposal[k][p - 1].status # "None"
  /\ k = "delisting" => t \in listed
  /\ Stake[proposer] >= rules.stake
  /\ proposal' = [proposal EXCEPT ![k][p] =
       [NoProposal EXCEPT !.status = "Active", !.token = t, !.deadline = now + rules.window]]
  /\ UNCHANGED <<listed, suspended, allowance, quota, traded, ballot, rules>>

(* Mutant of Tally: a repeated vote counts again.                           *)
TallyTwice(r, old, new) ==
  [r EXCEPT !.approve = IF new.approve THEN @ + new.weight ELSE @,
            !.reject = IF new.approve THEN @ ELSE @ + new.weight]

(* A new vote replaces the voter's earlier one.                             *)
Tally(r, old, new) ==
  [r EXCEPT
     !.approve = @ - (IF old.approve THEN old.weight ELSE 0)
                   + (IF new.approve THEN new.weight ELSE 0),
     !.reject = @ - (IF old.approve THEN 0 ELSE old.weight)
                  + (IF new.approve THEN 0 ELSE new.weight)]

Vote(k, p, v, approve, weight) ==
  LET new == [approve |-> approve, weight |-> weight] IN
  /\ weight > 0 /\ weight <= Stake[v]
  /\ proposal[k][p].status = "Active" /\ now <= proposal[k][p].deadline
  /\ proposal' = [proposal EXCEPT ![k][p] = Tally(@, ballot[k][p][v], new)]
  /\ ballot' = [ballot EXCEPT ![k][p][v] = new]
  /\ UNCHANGED <<listed, suspended, allowance, quota, traded, rules>>

QuorumMet(r) ==
  LET total == r.approve + r.reject IN
  total > 0 /\ r.approve * 10000 >= rules.quorum * total

FinaliseProposal(k, p) ==
  /\ proposal[k][p].status = "Active" /\ now > proposal[k][p].deadline
  /\ proposal' = [proposal EXCEPT ![k][p] =
       IF QuorumMet(@) THEN [@ EXCEPT !.status = "PendingEnactment", !.enactable = now + rules.delay]
       ELSE [@ EXCEPT !.status = "Failed"]]
  /\ UNCHANGED <<listed, suspended, allowance, quota, traded, ballot, rules>>

Enactable(k, p) ==
  proposal[k][p].status = "PendingEnactment" /\ now > proposal[k][p].enactable

EnactListing(p) ==
  /\ Enactable("listing", p)
  /\ listed' = listed \cup {proposal["listing"][p].token}
  /\ proposal' = [proposal EXCEPT !["listing"][p].status = "Enacted"]
  /\ UNCHANGED <<suspended, allowance, quota, traded, ballot, rules>>

EnactDelisting(p) ==
  /\ Enactable("delisting", p)
  /\ Delist(proposal["delisting"][p].token)
  /\ proposal' = [proposal EXCEPT !["delisting"][p].status = "Enacted"]
  /\ UNCHANGED <<allowance, quota, traded, ballot, rules>>

VetoProposal(k, p) ==
  /\ proposal[k][p].status \notin {"None", "Enacted", "Vetoed"}
  /\ proposal' = [proposal EXCEPT ![k][p].status = "Vetoed"]
  /\ UNCHANGED <<listed, suspended, allowance, quota, traded, ballot, rules>>

(* set_min_proposal_stake, set_voting_window_ledgers, set_quorum_bps and    *)
(* set_enactment_delay_ledgers.                                             *)
SetListingRules(r) ==
  /\ rules' = r
  /\ UNCHANGED <<listed, suspended, allowance, quota, traded, proposal, ballot>>

-----------------------------------------------------------------------------

WhitelistInit ==
  /\ listed = {} /\ suspended = [t \in Token |-> Never]
  /\ allowance = [c \in Contract |-> [t \in Token |-> Never]]
  /\ quota = [t \in Token |-> NoQuota]
  /\ traded = [t \in Token |-> [l \in 0..MaxTime |-> 0]]
  /\ proposal = [k \in Kind |-> [p \in Proposals |-> NoProposal]]
  /\ ballot = [k \in Kind |-> [p \in Proposals |-> [v \in Voters |-> NoBallot]]]
  /\ rules \in ListingRules

Listing ==
  \E t \in Token :
    \/ AddToken(t) \/ RemoveToken(t) \/ LiftTokenSuspension(t) \/ ForgetSuspension(t)
    \/ \E s \in Spans : SuspendTokenTimed(t, s) \/ ExtendTokenSuspension(t, s)
    \/ \E c \in Contract :
         \/ RemoveContractToken(c, t)
         \/ \E until \in {Forever} \cup {now + s : s \in Spans} : SetContractToken(c, t, until)

Quotas ==
  \E t \in Token :
    \/ RemoveTokenQuota(t)
    \/ \E x \in Volumes : RecordTokenVolume(t, x)
    \/ \E x \in Volumes, s \in Spans : SetTokenQuota(t, x, s) \/ UpdateTokenQuota(t, x, s)

Governance ==
  \/ \E p \in Proposals : EnactListing(p) \/ EnactDelisting(p)
  \/ \E r \in ListingRules : SetListingRules(r)
  \/ \E k \in Kind, p \in Proposals :
       \/ FinaliseProposal(k, p) \/ VetoProposal(k, p)
       \/ \E v \in Voters :
            \/ \E t \in Token : ProposeListing(k, p, t, v)
            \/ \E w \in 1..Stake[v], yes \in BOOLEAN : Vote(k, p, v, yes, w)

(* A call of the whitelist contract.                                        *)
WhitelistCall == (Listing \/ Quotas \/ Governance) /\ now' = now

NextLedger == now < MaxTime /\ now' = now + 1

-----------------------------------------------------------------------------

(* Only listed tokens carry a suspension: removing a token, by the admin or *)
(* by a vote, drops the record, so that listing it again does not bring a   *)
(* stale suspension back (remove_token_from_whitelist, 211-215).            *)
SuspendedIsListed == \A t \in Token : suspended[t] # Never => t \in listed

(* Whatever order votes, repeated votes, vetoes and changed rules come in,  *)
(* a proposal's tallies are what the voters' last ballots say.              *)
BallotsCounted ==
  \A k \in Kind, p \in Proposals :
    LET cast(yes) == {v \in Voters : ballot[k][p][v].approve = yes}
        weight(vs) == SumOf([v \in Voters |-> ballot[k][p][v].weight], vs) IN
    /\ proposal[k][p].approve = weight(cast(TRUE))
    /\ proposal[k][p].reject = weight(cast(FALSE))

=============================================================================
