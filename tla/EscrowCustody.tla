------------------------------ MODULE EscrowCustody ------------------------------
(***************************************************************************)
(* What the escrow contract promises about the tokens it holds, whatever   *)
(* its entry points are called: each escrow is a purse that is funded      *)
(* once, may be frozen by a dispute, and ends once.  Tokens leave a purse  *)
(* only while it is open, never more than it holds; a frozen purse never   *)
(* opens again; an ended one never moves.  No step touches two purses,     *)
(* except the release that renews: it ends one and funds the next.         *)
(***************************************************************************)
EXTENDS Integers

CONSTANT Purse

VARIABLES
  phase,   \* of each purse: "unborn", "open", "frozen" or "ended"
  held     \* tokens in each purse

custodyVars == <<phase, held>>

Become(p, ph, h) ==
  /\ phase' = [phase EXCEPT ![p] = ph]
  /\ held' = [held EXCEPT ![p] = h]

Fund(p) ==
  /\ phase[p] = "unborn" /\ held'[p] > 0
  /\ Become(p, "open", held'[p])

Deposit(p) ==
  /\ phase[p] \in {"open", "frozen"} /\ held'[p] > held[p]
  /\ Become(p, phase[p], held'[p])

(* Part of the purse is paid out, to a party or back to one.                *)
PayOut(p) ==
  /\ phase[p] \in {"open", "frozen"}
  /\ 0 < held'[p] /\ held'[p] < held[p]
  /\ Become(p, phase[p], held'[p])

(* A dispute pays the undisputed part out and freezes the rest.             *)
Freeze(p) ==
  /\ phase[p] = "open"
  /\ 0 < held'[p] /\ held'[p] <= held[p]
  /\ Become(p, "frozen", held'[p])

(* Something is paid out, and no more ever will be; what is left over is    *)
(* stranded.                                                                *)
End(p) ==
  /\ phase[p] \in {"open", "frozen"}
  /\ 0 <= held'[p] /\ held'[p] < held[p]
  /\ Become(p, "ended", held'[p])

RenewPurse(p, q) ==
  /\ phase[p] = "open" /\ phase[q] = "unborn"
  /\ held'[p] = 0 /\ held'[q] > 0
  /\ phase' = [phase EXCEPT ![p] = "ended", ![q] = "open"]
  /\ held' = [held EXCEPT ![p] = 0, ![q] = held'[q]]

CustodyInit ==
  /\ phase = [p \in Purse |-> "unborn"]
  /\ held = [p \in Purse |-> 0]

CustodyNext ==
  \/ \E p \in Purse : Fund(p) \/ Deposit(p) \/ PayOut(p) \/ Freeze(p) \/ End(p)
  \/ \E p, q \in Purse : RenewPurse(p, q)

CustodySpec == CustodyInit /\ [][CustodyNext]_custodyVars

=============================================================================
