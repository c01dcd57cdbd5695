------------------------------ MODULE EscrowBase ------------------------------
(***************************************************************************)
(* Storage, types and helpers of the ahjoor-escrow contract                *)
(* (contracts/ahjoor-escrow/src/lib.rs).  Each VARIABLE is one DataKey of  *)
(* the contract, a function of the escrow id; an absent key is the value   *)
(* its reader falls back to, or the sentinel named beside it.  A contract  *)
(* call is one atomic step: a panic aborts the whole transaction, so a     *)
(* guard that panics in the code is a conjunct here.  One token is         *)
(* modelled; `received` and `paid` are the token ledger of each escrow,    *)
(* kept by the token contract and not by this one.                         *)
(***************************************************************************)
EXTENDS Integers, Sequences, FiniteSets

CONSTANTS
  Addr,         \* accounts that may call the contract
  NoAddr,       \* an absent address
  MaxEscrows,   \* bound: escrow ids handed out
  MaxTime,      \* bound: last ledger timestamp
  Requests,     \* creation requests the buyers make
  Amounts,      \* amounts the callers pass to the entry points
  Times,        \* timestamps and durations the callers and the admin pass
  Percents,     \* verdicts the arbiters give
  InitConfig    \* instance settings after initialize

VARIABLES
  now,              \* ledger timestamp
  paused,           \* DataKey::Paused
  config,           \* the admin settings the handlers read
  nextId,           \* DataKey::EscrowCounter
  escrow,           \* DataKey::Escrow, the fields that change
  terms,            \* DataKey::Escrow, the fields fixed at creation
  receipt,          \* holder of DataKey::EscrowReceiptByEscrow, NoAddr when burned
  approvals,        \* DataKey2::MultiBuyerReleaseApprovals
  collateral,       \* DataKey::SellerCollateral
  lastBuyerAction,  \* DataKey::LastBuyerAction, Never when absent
  veto,             \* DataKey2::SellerVetoLastTimestamp, Never when absent
  condition,        \* DataKey2::ConditionalReleaseCondition is set
  waivers,          \* DataKey2::BuyerWaiverSigned and SellerWaiverSigned
  renewalsLeft,     \* DataKey::RenewalAllowance
  renewalCancelled, \* DataKey2::AutoRenewalCancelled
  chainRoot,        \* DataKey2::RenewalChainRoot
  history,          \* DataKey2::RenewalHistory
  dispute,          \* DataKey::Dispute
  disputeStart,     \* DataKey::DisputeDeadlineStart, Never when absent
  verdict,          \* DataKey2::PendingVerdict
  flagged,          \* DataKey2::ResolutionFlag is set
  accruedFees,      \* DataKey2::AccruedFees
  arbiterTimeouts,  \* DataKey::ArbiterTimeoutCount
  inspectorScore,   \* DataKey2::InspectorScore
  inspectorVote,    \* DataKey2::InspectorReplacement
  appealed,         \* DataKey2::InspectorRulingAppealed
  cancellation,     \* DataKey::CancellationRequest
  extension,        \* DataKey::DeadlineProposal
  amendment,        \* DataKey2::AmendmentProposal
  nonce,            \* DataKey2::AmendmentNonce
  transfer,         \* DataKey2::SellerTransferProposal
  received,         \* tokens paid into the contract for an escrow
  paid              \* tokens paid out of an escrow, by recipient

escrowVars  == <<nextId, escrow, terms, receipt, approvals>>
releaseVars == <<collateral, lastBuyerAction, veto, condition, waivers>>
renewalVars == <<renewalsLeft, renewalCancelled, chainRoot, history>>
disputeVars == <<dispute, disputeStart, verdict, flagged, arbiterTimeouts>>
inspectVars == <<inspectorScore, inspectorVote, appealed>>
agreeVars   == <<cancellation, extension, amendment, nonce, transfer>>
moneyVars   == <<accruedFees, received, paid>>
clockVars   == <<now, paused, config>>
vars == <<clockVars, escrowVars, releaseVars, renewalVars, disputeVars,
          inspectVars, agreeVars, moneyVars>>

-----------------------------------------------------------------------------

Ids == 0 .. MaxEscrows - 1
Never == -1       \* a timestamp key that is absent
Unset == -1       \* an Option<u32> that is None
AllBps == 10000   \* the whole, in basis points

(* Mutants of Open: the status check forgets a verdict, a dispute of only a *)
(* part, or a cancellation that is pending.                                 *)
OpenAfterVerdict == {"Active", "PartiallyReleased", "InspectionPassed", "Resolved"}
OpenWhileDisputed ==
  {"Active", "PartiallyReleased", "InspectionPassed", "PartiallyDisputed"}
OpenWhileCancelling ==
  {"Active", "PartiallyReleased", "InspectionPassed", "CancellationPending"}

(* EscrowStatus.  "None" is an id whose Escrow key does not exist yet.  The *)
(* bounty and under-collateralised statuses belong to EscrowBounties and    *)
(* EscrowApprovals, whose entry points alone set them.                      *)
Open     == {"Active", "PartiallyReleased", "InspectionPassed"}
Terminal == {"Released", "Resolved", "Refunded"}
InDispute == {"Disputed", "PartiallyDisputed"}
Live == Open \cup InDispute \cup
        {"CoolingOff", "CancellationPending", "AwaitingCollateral",
         "AwaitingBuyerVetoDecision", "AwaitingInspection", "InspectionFailed"}
Status == Live \cup Terminal \cup {"None"}

Winner == {"Buyer", "Seller"}

Terms ==
  [arbiter: Addr, buyers: SUBSET Addr, lockUntil: Nat, inactivity: Nat,
   disputeTimeout: Nat, defaultWinner: Winner \cup {"Default"},
   arbiterFee: 0..1000 \cup {Unset}, forfeitBps: 0..AllBps, collateral: Nat,
   collateralDeadline: Nat, maxRenewals: Nat \cup {Unset}, interval: Nat,
   renewalCount: Nat, carryOver: BOOLEAN, oracle: BOOLEAN]

EscrowRecord ==
  [status: Status, buyer: Addr \cup {NoAddr}, seller: Addr \cup {NoAddr},
   amount: Int, original: Nat, createdAt: Nat, deadline: Nat,
   inspector: Addr \cup {NoAddr}, autoRenew: BOOLEAN, renewalsRemaining: Nat,
   renewalsCompleted: Nat, acknowledged: BOOLEAN]

(* What a creator is asked for: EscrowCreateRequest, and the further         *)
(* arguments of the creators that wrap it.                                   *)
Request ==
  [buyer: Addr, buyers: SUBSET Addr, seller: Addr, arbiter: Addr,
   amount: Int, deadline: Nat, lockUntil: Nat, inactivity: Nat,
   disputeTimeout: Nat, defaultWinner: Winner \cup {"Default"},
   arbiterFee: Nat \cup {Unset}, collateralBps: Nat, forfeitBps: Nat,
   collateralWindow: Nat, inspector: Addr \cup {NoAddr},
   autoRenew: BOOLEAN, renewalCount: Nat, maxRenewals: Nat \cup {Unset},
   interval: Nat, carryOver: BOOLEAN, oracle: BOOLEAN]

Config ==
  [cooloff: Nat, timeout: Nat \ {0}, winner: Winner, arbiterFee: 0..1000,
   protocolFee: 0..200, penalty: 0..AllBps, cancelWindow: Nat \ {0},
   feeRecipient: BOOLEAN, vetoCooldown: Nat, amendmentExpiry: Nat,
   extensionWindow: Nat, topUpMultiplier: Nat \ {0}, transferWindow: Nat,
   scoreThreshold: Nat, minScore: Nat]

NoEscrow ==
  [status |-> "None", buyer |-> NoAddr, seller |-> NoAddr, amount |-> 0,
   original |-> 0, createdAt |-> 0, deadline |-> 0, inspector |-> NoAddr,
   autoRenew |-> FALSE, renewalsRemaining |-> 0, renewalsCompleted |-> 0,
   acknowledged |-> FALSE]

NoTerms ==
  [arbiter |-> CHOOSE a \in Addr : TRUE, buyers |-> {}, lockUntil |-> 0,
   inactivity |-> 0, disputeTimeout |-> 0, defaultWinner |-> "Default",
   arbiterFee |-> Unset, forfeitBps |-> 0, collateral |-> 0,
   collateralDeadline |-> 0, maxRenewals |-> Unset, interval |-> 0,
   renewalCount |-> 0, carryOver |-> FALSE, oracle |-> FALSE]

NoDispute  == [state |-> "None", createdAt |-> 0, amount |-> 0]
NoVerdict  == [percent |-> Unset, recordedAt |-> 0]
NoRequest  == [initiator |-> NoAddr, expiresAt |-> 0]
NoProposal == [proposer |-> NoAddr, deadline |-> 0, proposedAt |-> 0]
NoAmendment == [nonce |-> Unset, proposer |-> NoAddr, amount |-> Unset,
                deadline |-> Unset, expiresAt |-> 0, signed |-> {}]
NoTransfer == [newSeller |-> NoAddr, vetoDeadline |-> 0]
NoVote     == [inspector |-> NoAddr, signed |-> {}]
NothingPaid == [buyer |-> 0, seller |-> 0, arbiter |-> 0, fee |-> 0,
                penalty |-> 0]

ASSUME BoundsAssumption ==
  /\ MaxEscrows \in Nat \ {0}
  /\ MaxTime \in Nat
  /\ Addr # {} /\ IsFiniteSet(Addr)
  /\ NoAddr \notin Addr

ASSUME InputAssumption ==
  /\ Requests \subseteq Request
  /\ Amounts \subseteq Int
  /\ Times \subseteq Nat
  /\ Percents \subseteq Nat
  /\ InitConfig \in Config

-----------------------------------------------------------------------------
(* Helpers shared by the handlers.                                          *)

Exists(e) == escrow[e].status # "None"
Party(e)  == {escrow[e].buyer, escrow[e].seller}
Unlocked(e) == now >= terms[e].lockUntil

(* A share in basis points, as every fee and split of the contract takes it. *)
Bps(amount, bps) == (amount * bps) \div AllBps

(* Mutant of Within: no upper bound.                                        *)
WithinAnything(e, x) == 0 < x

(* An amount a caller may move out of e.                                    *)
Within(e, x) == 0 < x /\ x <= escrow[e].amount

(* The record of e holding x, in a new status.                              *)
Holding(e, x, status) == [escrow[e] EXCEPT !.amount = x, !.status = status]

(* The token ledger of e after paying the buyers' side b and the seller's   *)
(* side s.                                                                  *)
Pay(e, b, s) ==
  [paid EXCEPT ![e] = [paid[e] EXCEPT !.buyer = @ + b, !.seller = @ + s]]

(* update_last_buyer_action: recorded only when the timer is enabled.       *)
TouchedBy(e, caller) ==
  IF caller = escrow[e].buyer /\ terms[e].inactivity > 0
  THEN [lastBuyerAction EXCEPT ![e] = now]
  ELSE lastBuyerAction

InitBase ==
  /\ now = 0 /\ paused = FALSE /\ config = InitConfig
  /\ nextId = 0
  /\ escrow = [e \in Ids |-> NoEscrow]
  /\ terms = [e \in Ids |-> NoTerms]
  /\ receipt = [e \in Ids |-> NoAddr]
  /\ approvals = [e \in Ids |-> {}]
  /\ collateral = [e \in Ids |-> 0]
  /\ lastBuyerAction = [e \in Ids |-> Never]
  /\ veto = [e \in Ids |-> Never]
  /\ condition = [e \in Ids |-> FALSE]
  /\ waivers = [e \in Ids |-> {}]
  /\ renewalsLeft = [e \in Ids |-> 0]
  /\ renewalCancelled = [e \in Ids |-> FALSE]
  /\ chainRoot = [e \in Ids |-> e]
  /\ history = [e \in Ids |-> <<>>]
  /\ dispute = [e \in Ids |-> NoDispute]
  /\ disputeStart = [e \in Ids |-> Never]
  /\ verdict = [e \in Ids |-> NoVerdict]
  /\ flagged = [e \in Ids |-> FALSE]
  /\ accruedFees = 0
  /\ arbiterTimeouts = [a \in Addr |-> 0]
  /\ inspectorScore = [a \in Addr |-> [total |-> 0, correct |-> 0]]
  /\ inspectorVote = [e \in Ids |-> NoVote]
  /\ appealed = [e \in Ids |-> FALSE]
  /\ cancellation = [e \in Ids |-> NoRequest]
  /\ extension = [e \in Ids |-> NoProposal]
  /\ amendment = [e \in Ids |-> NoAmendment]
  /\ nonce = [e \in Ids |-> 0]
  /\ transfer = [e \in Ids |-> NoTransfer]
  /\ received = [e \in Ids |-> 0]
  /\ paid = [e \in Ids |-> NothingPaid]

(* Bound: ledger timestamps stop at MaxTime.                                *)
Tick ==
  /\ now < MaxTime
  /\ now' = now + 1
  /\ UNCHANGED <<paused, config, escrowVars, releaseVars, renewalVars,
                 disputeVars, inspectVars, agreeVars, moneyVars>>

=============================================================================
