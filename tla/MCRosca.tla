-------------------------------- MODULE MCRosca --------------------------------
(***************************************************************************)
(* Instances of Rosca for TLC.  A behaviour has a focus: the entry points  *)
(* called in it and the settings of its group.  Three accounts found the   *)
(* group and one more may join; a contribution is two units.               *)
(***************************************************************************)
EXTENDS Rosca, TLC

CONSTANTS ann, bob, cyd, dee, Foci

VARIABLE focus      \* chosen once

MCVars == <<vars, focus>>

MCMember == {ann, bob, cyd, dee}
MCFounders == <<ann, bob, cyd>>
MCOrders == {<<ann, bob, cyd>>, <<cyd, ann, bob>>, <<ann, ann, bob>>}
MCScore == (ann :> 1) @@ (bob :> 1) @@ (cyd :> 0) @@ (dee :> 0)
MCSpans == {1}
MCAmounts == {1, 2, 3}
MCSizes == {3}
MCJoining == {<<dee>>, <<ann, dee>>}
MCValues == {4, 60}

Defaults ==
  [amount |-> 2, maxMembers |-> 4, start |-> 1, duration |-> 1, durations |-> {2}, grace |-> 1,
   byScore |-> FALSE, maxDefaults |-> 2, penalty |-> 1, penaltyGrace |-> 1, lateThreshold |-> 2,
   maxSkips |-> 1, skipFee |-> 1, window |-> 0, coverage |-> FALSE, feeBps |-> 0,
   insuranceBps |-> 0, exitBps |-> 5000, reinstatementFee |-> 1, recipient |-> FALSE,
   bonus |-> 1, rewards |-> "Equal", weights |-> [m \in MCMember |-> 1],
   auction |-> FALSE, bidWindow |-> 1, reserve |-> 0, commitSpan |-> 1, revealSpan |-> 1,
   randomize |-> FALSE, swapSpan |-> 1, swapAdmin |-> FALSE,
   weighted |-> FALSE, reinstatementSpan |-> 1,
   maxAids |-> 1, aidSpan |-> 1, aidBps |-> 5000, endSpan |-> 1, endBps |-> 7500]

CfgsOf(f) ==
  CASE f = "rounds" -> {Defaults, [Defaults EXCEPT !.feeBps = 2500, !.insuranceBps = 5000, !.coverage = TRUE]}
    [] f = "fines" -> {[Defaults EXCEPT !.penaltyGrace = g] : g \in {0, 1}}
    [] f = "cosigners" -> {[Defaults EXCEPT !.window = 2]}
    [] f = "saving" -> {[Defaults EXCEPT !.rewards = r] : r \in {"Equal", "Proportional", "Weighted"}}
    [] f = "joining" -> {Defaults, [Defaults EXCEPT !.byScore = TRUE, !.maxDefaults = 1]}
    [] f = "exits" -> {[Defaults EXCEPT !.maxDefaults = 1]}
    [] f = "swaps" -> {[Defaults EXCEPT !.randomize = TRUE, !.swapAdmin = b] : b \in BOOLEAN}
    [] f = "bids" -> {[Defaults EXCEPT !.auction = TRUE]}
    [] f = "reinstating" -> {[Defaults EXCEPT !.maxDefaults = 1]}
    [] f = "votes" -> {Defaults, [Defaults EXCEPT !.weighted = TRUE]}
    [] f = "aid" -> {Defaults, [Defaults EXCEPT !.weighted = TRUE]}
    [] f = "ending" -> {[Defaults EXCEPT !.start = s, !.recipient = (s = 1)] : s \in {1, 2}}
    [] OTHER -> {Defaults}

AllFoci ==
  {"rounds", "fines", "proxies", "cosigners", "saving", "timing", "joining", "exits", "swaps",
   "bids", "sealed", "regrouping", "votes", "reinstating", "aid", "ending"}
MCCfgs == UNION {CfgsOf(f) : f \in AllFoci}

-----------------------------------------------------------------------------

(* Outside the first foci contributions complete what is due, and the       *)
(* members skip no round.                                                   *)
InFull ==
  \E m \in Member :
    LET due == group.amount - group.contributed[m] IN due \in Amounts /\ Contribute(m, due)

RoundsFocus ==
  \/ focus = "rounds" /\ Contributing
  \/ focus = "proxies" /\ (Proxied \/ \E m \in Member, x \in Amounts : Contribute(m, x))
  \/ focus = "fines" /\ (Contributing \/ Fining)
  \/ focus = "cosigners" /\ (Contributing \/ CoSigning)
  \/ focus = "saving" /\ (InFull \/ Saving)
  \/ focus = "timing" /\ (InFull \/ Timing)
  \/ focus \in {"joining", "exits", "swaps", "bids", "sealed", "regrouping", "reinstating"} /\ InFull
  \/ focus = "votes" /\ cfg.weighted /\ counter = 0 /\ InFull
  \/ focus \in {"aid", "ending"} /\ (now = 1 \/ Late) /\ InFull
  \/ Finishing

RosterFocus ==
  \/ focus = "joining" /\ Joined
  \/ focus = "exits" /\ (Exiting \/ JoinWaitlist(dee) \/ \E m \in {ann, bob} : JoinWaitlist(m) \/ AddMember(m))
  \/ focus = "swaps" /\ Swapping
  \/ focus = "bids" /\ Bidding
  \/ focus = "sealed" /\ Sealing
  \/ focus = "regrouping" /\ Regrouping

(* Ann proposes, about bob or cyd.                                          *)
ByAnn ==
  \/ focus = "votes" /\ ProposeMemberFreeze(ann)
  \/ \E t \in Proposable, v \in Values :
       /\ v = 4 \/ t = "RuleChange"
       /\ focus = "votes" \/ (t \in {"RuleChange", "Reinstatement"} /\ v = 4)
       /\ CreateProposal(ann, t, IF focus = "votes" THEN bob ELSE cyd, v, 1)
  \/ focus = "votes" /\ SetQuorumPerType("MemberRemoval", 10000)

CouncilFocus ==
  \/ focus = "votes" /\
       (\/ counter = 0 /\ ByAnn
        \/ Voting
        \/ proposals[0].type = "MemberRemoval" /\ now = 1 /\ Delegating)
  \/ focus = "reinstating" /\ (Reinstating \/ Voting \/ (now = 3 /\ ByAnn))
  \/ focus = "proxies" /\
       (Representing \/ RevokeContributionDelegation(ann) \/ DelegateContribution(ann, dee, now + 1))
  \/ focus = "aid" /\ Aiding
  \/ focus = "ending" /\ Ending

(* Contributions come in full and in turn, but for the first round of the   *)
(* focus "rounds", and a round is ended soon after its deadline.            *)
InTurn ==
  /\ \A m \in Member :
       group'.contributed[m] \in {0, group.contributed[m], group.amount}
         \/ (focus \in {"rounds", "proxies"} /\ m = ann)
  /\ focus # "rounds" \/ group.round > 0 \/ cfg # Defaults =>
       \A i \in DOMAIN group.members :
         group.members[i] \in group'.paid \ group.paid =>
           \A j \in 1 .. i - 1 : group.members[j] \in group'.paid
  /\ now' <= group.deadline + 2

(* In the foci about something else contributions are in time, and nobody   *)
(* skips.                                                                   *)
Plain ==
  /\ focus # "rounds" => group'.skipped = {}
  /\ focus \notin {"rounds", "fines", "cosigners"} => group'.paid = group.paid \/ group'.paid = {} \/ ~Late

(* The ledgers and the rounds a focus needs.                                *)
Ledgers ==
  CASE focus \in {"fines", "cosigners", "reinstating"} -> MaxTime
    [] focus \in {"rounds", "swaps", "saving", "exits", "proxies", "joining", "votes", "aid"} -> 3
    [] OTHER -> 4
RoundsOf ==
  CASE focus \in {"rounds", "saving", "bids"} -> MaxRound
    [] focus = "votes" -> 0
    [] focus \in {"fines", "cosigners", "timing"} -> 2
    [] OTHER -> 1

(* What would multiply the states is left to the foci that are about it.    *)
Few ==
  /\ InTurn /\ Plain
  /\ now' <= Ledgers /\ group'.round <= RoundsOf
  /\ \A m \in {ann, cyd} : group'.skips[m] = group.skips[m]
  /\ \A m \in Member : group'.defaults[m] <= 2
  /\ focus = "fines" => group'.late = group.late \/ group'.paid = {}
  /\ group'.rewards <= 3 /\ group'.insurance <= 2
  /\ focus = "saving" =>
       /\ group'.insurance \in {0, 1, group.insurance} /\ group'.reinvest \subseteq {bob}
       /\ group'.insurance # group.insurance => group.round = 1
       /\ group'.rewards > group.rewards => group.rewards = 0
       /\ cfg.rewards # "Equal" => group'.round <= 1
       /\ \A m \in {cyd, dee} : group'.claimed[m] = 0
  /\ \A m \in {bob, cyd, dee} :
       /\ group'.cosigner[m] = "None" /\ group'.proxied[m] = None
  /\ focus = "cosigners" => \A m \in Member : group'.held - group.held \notin {1, 3}
  /\ focus = "exits" => \A m \in Member : exits'[m] # None => m \in {ann, bob}
  /\ focus = "joining" =>
       /\ Len(group'.waitlist) <= 1 /\ invited' \subseteq {dee} /\ {ann, bob} \subseteq Range(group'.members)
  /\ focus = "bids" =>
       /\ Late => group.round = MaxRound
       /\ \A i \in DOMAIN group'.bids : group'.bids[i].bidder \in {ann, bob} /\ group'.bids[i].amount # 3
  /\ focus = "sealed" =>
       /\ \A c \in commits' : c.bidder \in {ann, bob} /\ c.deposit = 2
       /\ group'.paid \subseteq {ann}
  /\ focus = "votes" =>
       /\ counter' <= 1
       /\ group'.paid # group.paid => cfg.weighted /\ counter = 0
       /\ delegates'[ann] \in {None, bob} /\ delegates'[cyd] \in {None, bob, cyd}
       /\ delegates'[bob] = None
       /\ \A m \in {ann, bob, dee} : proxies'[m] = NoProxy
       /\ proxies'[cyd].proxy \in {None, ann, dee}
       /\ delegates' # delegates \/ proxies' # proxies =>
            proposals[0].type = "MemberRemoval" /\ proposals[0].quorum = 5100 /\ now = 1
       /\ cfg.weighted \/ quorums'.of # quorums.of =>
            counter' = 0 \/ proposals'[0].type = "MemberRemoval"
       /\ quorums'.of # quorums.of => counter' = 0 /\ quorums'.of["MemberRemoval"] # None
  /\ focus = "reinstating" =>
       /\ group'.paid \subseteq {ann} /\ (group.round > 0 => group'.paid = {})
       /\ now' > now /\ group.round = 0 => ann \in group.paid
       /\ counter' <= 2 /\ quorums'.of = quorums.of /\ active'[bob] = None
       /\ counter' # counter => now = 3
  /\ \A p \in Proposals :
       proposals'[p].against > proposals[p].against => ann \in proposals'[p].voters \ proposals[p].voters
  /\ focus = "aid" =>
       /\ \A q \in pleas' : q.against > 0 => bob \in q.voters
       /\ \A q \in pleas' : q.until = 2 /\ q.by \in IF cfg.weighted THEN {ann} ELSE {ann, cyd}
       /\ Cardinality(pleas') = 2 => group'.paid \subseteq {ann, cyd}
  /\ focus = "regrouping" => group'.paid \subseteq {ann}
  /\ focus = "ending" =>
       /\ group'.paid # group.paid => now = 1 \/ Late
       /\ group.round = 1 => Vote.voters' \subseteq {ann}

MCNext ==
  /\ \/ (RoundsFocus \/ NextLedger) /\ UNCHANGED governVars
     \/ RosterFocus /\ UNCHANGED councilVars
     \/ CouncilFocus /\ UNCHANGED rosterVars
  /\ group'.round <= MaxRound
  /\ Few
  /\ focus' = focus

MCInit ==
  /\ Init /\ focus \in Foci /\ cfg \in CfgsOf(focus)
  /\ CASE focus = "swaps" -> group.order # <<ann, ann, bob>>
       [] focus = "rounds" /\ cfg = Defaults -> group.order = <<ann, ann, bob>>
       [] OTHER -> group.order = <<ann, bob, cyd>>
MCSpec == MCInit /\ [][MCNext]_MCVars

=============================================================================
