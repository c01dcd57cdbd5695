----------------------------- MODULE RoscaMembers -----------------------------
(***************************************************************************)
(* Who is in a group and when they are paid: joining, leaving, the         *)
(* waitlist, swaps and auctions of places, merge and split.                *)
(***************************************************************************)
EXTENDS RoscaRounds

CONSTANTS
  MaxRequests,   \* bound: swap requests, split proposals
  Windows        \* commit, reveal and confirmation periods

VARIABLES
  invited,       \* "approved_invitees"
  exits,         \* DataKey2::ExitRequests: the round of the request
  swaps,         \* DataKey2::SlotSwaps
  sealed,        \* DataKey3::SealedAuction with SealedRevealedBids
  commits,       \* DataKey3::SlotBidCommit
  merger,        \* DataKey4::MergeProposals: the furthest of them
  splits         \* DataKey3::SplitProposals

rosterVars == <<invited, exits, swaps, sealed, commits, merger, splits>>

NoSealed == [open |-> FALSE, round |-> 0, commitUntil |-> 0, revealUntil |-> 0, bids |-> <<>>]
RosterInit ==
  /\ invited = {} /\ exits = [m \in Member |-> None] /\ swaps = <<>>
  /\ sealed = NoSealed /\ commits = {}
  /\ merger = "None" /\ splits = <<>>

BetweenRounds == group.paid = {}
Full == Len(group.members) >= group.max
Admit(m) == BetweenRounds /\ ~Full /\ ~InGroup(m) /\ Set(Joins(group, m))

-----------------------------------------------------------------------------

(* add_member: one who left by approve_exit is on the order already and     *)
(* gets a second place there.                                               *)
AddMember(m) == Unfrozen /\ Admit(m) /\ UNCHANGED rosterVars
RemoveMember(m) ==
  Unfrozen /\ BetweenRounds /\ InGroup(m) /\ Set(Leaves(group, m)) /\ UNCHANGED rosterVars

GenerateInvite(m) ==
  /\ Running /\ ~InGroup(m)
  /\ invited' = invited \cup {m}
  /\ UNCHANGED <<now, cfg, gate, group, exits, swaps, sealed, commits, merger, splits>>
JoinWithInvite(m) ==
  /\ Running /\ m \in invited /\ Admit(m)
  /\ invited' = invited \ {m}
  /\ UNCHANGED <<exits, swaps, sealed, commits, merger, splits>>

(* update_max_members.                                                      *)
UpdateMaxMembers(n) ==
  n >= Len(group.members) /\ Set([group EXCEPT !.max = n]) /\ UNCHANGED rosterVars

ExitAsked(m, r) ==
  /\ exits' = [exits EXCEPT ![m] = r]
  /\ UNCHANGED <<invited, swaps, sealed, commits, merger, splits>>
RequestEmergencyExit(m) ==
  /\ Running /\ InGroup(m) /\ m \notin group.exited /\ BetweenRounds /\ exits[m] = None
  /\ ExitAsked(m, group.round)
  /\ UNCHANGED <<now, cfg, gate, group>>
RejectExit(m) ==
  Running /\ exits[m] # None /\ ExitAsked(m, None) /\ UNCHANGED <<now, cfg, gate, group>>

(* approve_exit, at any time: the refund supposes that every round until    *)
(* the request was paid, at today's amount; the place on the order and on   *)
(* PaidMembers stays.                                                       *)
ApproveExit(m) ==
  LET given == group.amount * exits[m]
      got == FoldSeq(LAMBDA h, sum : sum + IF h.recipient = m THEN h.amount ELSE 0,
                     0, group.history)
      net == given - got - Bps(given, cfg.exitBps)
      refund == IF net > 0 THEN net ELSE 0
      left == [group EXCEPT !.members = Without(@, m), !.exited = @ \cup {m}, !.held = @ - refund]
  IN
  /\ Running /\ exits[m] # None
  /\ refund <= group.held
  /\ Set(IF group.waitlist = <<>> THEN Rebalanced(left) ELSE Promoted(left))
  /\ ExitAsked(m, None)

JoinWaitlist(m) ==
  /\ Running /\ ~InGroup(m) /\ m \notin group.exited
  /\ ~Contains(group.waitlist, m) /\ Len(group.waitlist) < group.max
  /\ Set([group EXCEPT !.waitlist = Append(@, m)]) /\ UNCHANGED rosterVars
(* leave_waitlist by the account, remove_from_waitlist by the admin.        *)
LeaveWaitlist(m) ==
  /\ Running /\ Contains(group.waitlist, m)
  /\ Set([group EXCEPT !.waitlist = Without(@, m)]) /\ UNCHANGED rosterVars

-----------------------------------------------------------------------------

(* finalize_payout_order, once: any order the shuffle may give.             *)
FinalizePayoutOrder(order) ==
  /\ cfg.randomize /\ ~gate.shuffled
  /\ Len(order) = Len(group.order)
  /\ \A m \in Range(group.order) : Cardinality(Places(m, order)) = Cardinality(Places(m, group.order))
  /\ group' = [group EXCEPT !.order = order]
  /\ gate' = [gate EXCEPT !.shuffled = TRUE]
  /\ UNCHANGED <<now, cfg>> /\ UNCHANGED rosterVars

(* Places on the order are counted from 0 by the callers.                   *)
Holder(place) == group.order[place + 1]

RequestSlotSwap(a, b) ==
  /\ Running /\ Len(swaps) < MaxRequests
  /\ {a, b} \subseteq group.round + 1 .. Len(group.order) - 1
  /\ InGroup(Holder(a)) /\ InGroup(Holder(b))
  /\ swaps' = Append(swaps, [a |-> a, b |-> b, by |-> Holder(a), with |-> Holder(b),
                             status |-> "Pending", until |-> now + cfg.swapSpan])
  /\ UNCHANGED <<now, cfg, gate, group, invited, exits, sealed, commits, merger, splits>>

SwapIs(i, status) ==
  /\ swaps' = [swaps EXCEPT ![i].status = status]
  /\ UNCHANGED <<invited, exits, sealed, commits, merger, splits>>

(* execute_slot_swap_inner: the two places change hands, whoever holds them *)
(* by now.                                                                  *)
Swapped(i) ==
  /\ {swaps[i].a, swaps[i].b} \subseteq 0 .. Len(group.order) - 1
  /\ Set([group EXCEPT !.order = SwapPlaces(@, swaps[i].a + 1, swaps[i].b + 1)])
  /\ SwapIs(i, "Executed")
AcceptSlotSwap(i) ==
  /\ Running /\ swaps[i].status = "Pending"
  /\ IF now > swaps[i].until
     THEN SwapIs(i, "Expired") /\ UNCHANGED <<now, cfg, gate, group>>
     ELSE IF cfg.swapAdmin
     THEN SwapIs(i, "Accepted") /\ UNCHANGED <<now, cfg, gate, group>>
     ELSE Swapped(i)
RejectSlotSwap(i) ==
  swaps[i].status = "Pending" /\ SwapIs(i, "Rejected") /\ UNCHANGED <<now, cfg, gate, group>>
ApproveSlotSwap(i) == swaps[i].status = "Accepted" /\ Swapped(i)

-----------------------------------------------------------------------------

BidOf(g, m) == SelectSeq(g.bids, LAMBDA b : b.bidder = m)
OthersBids(g, m) == Taken(g.bids, {i \in DOMAIN g.bids : g.bids[i].bidder # m})
Total(bids) == FoldSeq(LAMBDA b, sum : sum + b.amount, 0, bids)

(* place_slot_bid by a member, update_slot_bid by one who has bid: an       *)
(* earlier bid is given back first.                                         *)
PlaceSlotBid(m, place, x) ==
  LET back == Total(BidOf(group, m)) IN
  /\ Unfrozen /\ cfg.auction /\ group.bidUntil # 0 /\ now <= group.bidUntil
  /\ InGroup(m) \/ BidOf(group, m) # <<>>
  /\ x > 0 /\ place < Len(group.order)
  /\ back <= group.held
  /\ Set([group EXCEPT !.held = @ - back + x,
            !.bids = Append(OthersBids(group, m), [bidder |-> m, place |-> place, amount |-> x])])
  /\ UNCHANGED rosterVars

(* The first of the highest bids above the reserve price.                   *)
BestBid(bids, reserve) ==
  {i \in DOMAIN bids :
     /\ bids[i].amount > reserve
     /\ \A j \in DOMAIN bids : bids[j].amount < bids[i].amount
                               \/ (bids[j].amount = bids[i].amount /\ i <= j)}

(* The winner changes places with the holder of the place, and the winning  *)
(* bid is shared among the other members; the rest of it stays.             *)
Won(g, bid) ==
  LET from == Places(bid.bidder, g.order)
      others == SelectSeq(g.members, LAMBDA m :
                  m # bid.bidder /\ m \notin g.exited /\ m \notin g.suspended)
      share == IF others = <<>> THEN 0 ELSE bid.amount \div Len(others)
      paid == [g EXCEPT !.held = @ - share * Len(others)]
  IN IF from = {} \/ bid.place >= Len(g.order) THEN paid
     ELSE [paid EXCEPT !.order = SwapPlaces(@, Min(from), bid.place + 1)]

ResolveSlotAuction ==
  LET best == BestBid(group.bids, 0)
      closed == [group EXCEPT !.bids = <<>>, !.bidUntil = 0]
      bid == group.bids[Min(best)]
      refunded == [closed EXCEPT !.held = @ - (Total(group.bids) - bid.amount)]
      done == Won(refunded, bid)
  IN
  /\ Unfrozen /\ cfg.auction /\ (group.bidUntil > 0 => now > group.bidUntil)
  /\ IF group.bids = <<>>
     THEN Set([group EXCEPT !.bidUntil = 0])
     ELSE /\ bid.place < Len(group.order) \/ Places(bid.bidder, group.order) = {}
          /\ done.held >= 0 /\ Set(done)
  /\ UNCHANGED rosterVars

-----------------------------------------------------------------------------

AuctionIs(s) ==
  /\ sealed' = s
  /\ UNCHANGED <<now, cfg, gate, invited, exits, swaps, merger, splits>>
(* configure_sealed_slot_auction, which closes one that is open.            *)
ConfigureSealedSlotAuction ==
  Running /\ AuctionIs(NoSealed) /\ UNCHANGED <<group, commits>>
OpenSealedSlotAuction(r) ==
  /\ Running /\ ~sealed.open
  /\ AuctionIs([open |-> TRUE, round |-> r, commitUntil |-> now + cfg.commitSpan,
                revealUntil |-> now + cfg.commitSpan + cfg.revealSpan, bids |-> <<>>])
  /\ UNCHANGED <<group, commits>>

Commitment(m) == {c \in commits : c.round = sealed.round /\ c.bidder = m}
CommitSlotBid(m, x) ==
  /\ Running /\ sealed.open /\ now <= sealed.commitUntil
  /\ x > 0 /\ InGroup(m) /\ Commitment(m) = {}
  /\ commits' = commits \cup {[round |-> sealed.round, bidder |-> m, deposit |-> x, revealed |-> FALSE]}
  /\ group' = [group EXCEPT !.held = @ + x]
  /\ AuctionIs(sealed)
RevealSlotBid(m, place, x) ==
  /\ Running /\ sealed.open /\ sealed.commitUntil < now /\ now <= sealed.revealUntil
  /\ \E c \in Commitment(m) :
       /\ ~c.revealed /\ 0 < x /\ x <= c.deposit
       /\ commits' = (commits \ {c}) \cup {[c EXCEPT !.revealed = TRUE]}
  /\ place < Len(group.order)
  /\ AuctionIs([sealed EXCEPT !.bids = Append(@, [bidder |-> m, place |-> place, amount |-> x])])
  /\ UNCHANGED group

(* settle_sealed_slot_auction: deposits of revealed bids go back, less the  *)
(* winning bid; deposits never revealed stay with the contract.             *)
SettleSealedSlotAuction ==
  LET best == BestBid(sealed.bids, cfg.reserve)
      deposits == MapThenSumSet(LAMBDA i :
                    (CHOOSE c \in Commitment(sealed.bids[i].bidder) : TRUE).deposit,
                    DOMAIN sealed.bids)
      refunded(x) == [group EXCEPT !.held = @ - (deposits - x)]
      done == IF best = {} THEN refunded(0)
              ELSE LET bid == sealed.bids[Min(best)] IN Won(refunded(bid.amount), bid)
  IN
  /\ Running /\ sealed.open /\ now > sealed.revealUntil
  /\ done.held >= 0
  /\ group' = done
  /\ AuctionIs([sealed EXCEPT !.open = FALSE])
  /\ UNCHANGED commits

-----------------------------------------------------------------------------

Merging(m) == merger' = m /\ UNCHANGED <<now, cfg, invited, exits, swaps, sealed, commits, splits>>
ProposeMerge ==
  /\ Running /\ gate.status = "Active" /\ BetweenRounds
  /\ Merging(IF merger = "Accepted" THEN merger ELSE "Proposed") /\ UNCHANGED <<gate, group>>
AcceptMerge == Running /\ merger = "Proposed" /\ Merging("Accepted") /\ UNCHANGED <<gate, group>>

AllJoined(g, list) ==
  LET after[n \in 0 .. Len(list)] ==
        IF n = 0 THEN g
        ELSE IF list[n] \in Range(after[n - 1].members) THEN after[n - 1]
        ELSE Joins(after[n - 1], list[n])
  IN after[Len(list)]

(* complete_merge: the other group's members who are not here yet join.     *)
CompleteMerge(others) ==
  /\ Running /\ gate.status # "Merged" /\ merger = "Accepted" /\ BetweenRounds
  /\ Len(group.members) + Len(others) <= group.max
  /\ group' = AllJoined(group, others)
  /\ gate' = [gate EXCEPT !.status = "Merged"]
  /\ Merging("None")

Splitting(s) == splits' = s /\ UNCHANGED <<now, cfg, invited, exits, swaps, sealed, commits, merger>>
ProposeGroupSplit(w) ==
  /\ Running /\ gate.status = "Active" /\ Len(splits) < MaxRequests
  /\ Splitting(Append(splits, [of |-> Range(group.members), confirmed |-> {},
                               until |-> now + w, pending |-> TRUE]))
  /\ UNCHANGED <<gate, group>>
ConfirmSplitParticipation(m, i) ==
  /\ Running /\ InGroup(m) /\ splits[i].pending /\ now <= splits[i].until
  /\ m \in splits[i].of \ splits[i].confirmed
  /\ Splitting([splits EXCEPT ![i].confirmed = @ \cup {m}])
  /\ UNCHANGED <<gate, group>>

(* execute_group_split: who has not confirmed is paid an equal share.       *)
ExecuteGroupSplit(i) ==
  LET share == IF group.held > 0 /\ group.members # <<>>
               THEN group.held \div Len(group.members) ELSE 0
      out == SelectSeq(group.members, LAMBDA m : m \notin splits[i].confirmed)
  IN
  /\ Running /\ splits[i].pending /\ now <= splits[i].until
  /\ group' = [group EXCEPT !.held = @ - share * Len(out)]
  /\ gate' = [gate EXCEPT !.status = "Split"]
  /\ Splitting([splits EXCEPT ![i].pending = FALSE])
ExpireSplitProposal(i) ==
  /\ Running /\ splits[i].pending /\ now > splits[i].until
  /\ Splitting([splits EXCEPT ![i].pending = FALSE])
  /\ UNCHANGED <<gate, group>>

=============================================================================
