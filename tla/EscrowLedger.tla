------------------------------ MODULE EscrowLedger ------------------------------
(***************************************************************************)
(* The contract's one token balance, for the features that pay out of an   *)
(* escrow without looking at what it still holds: seller-requested partial *)
(* releases, milestones, schedules and bounties.  Once they are used an    *)
(* escrow may be paid from another one's deposit, and only the token       *)
(* contract stands in the way.                                             *)
(***************************************************************************)
EXTENDS Escrow, Sums

Held(e) == received[e] - TotalPaid(e)

(* Tokens the contract holds for all its escrows, and as fees.              *)
ContractBalance == SumOf([e \in Ids |-> Held(e)], Ids) + accruedFees

(* The token contract refuses a transfer the balance does not cover, and a  *)
(* negative one, into the contract or out of it; the call that asked for it *)
(* panics.                                                                  *)
TokenAllows ==
  /\ ContractBalance' >= 0
  /\ \A e \in Ids : received'[e] >= received[e]
  /\ \A e \in Ids, side \in DOMAIN NothingPaid : paid'[e][side] >= paid[e][side]

=============================================================================
