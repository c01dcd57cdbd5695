---------------------------- MODULE EscrowApprovals ----------------------------
(***************************************************************************)
(* Two options of an open escrow: the health of its collateral, watched by *)
(* an oracle, and its release by N of M approvers.                         *)
(***************************************************************************)
EXTENDS EscrowSchedules

CONSTANTS
  MaxCollateral,   \* bound: collateral topped up to
  Ratios,   \* minimum collateral ratios the buyers set, in basis points
  Panels    \* lists of approvers the buyers set

VARIABLES
  minRatio,     \* DataKey2::CollateralMinRatioBps, 0 when absent
  approvers,    \* DataKey2::MultiPartyApprovers, as a set
  threshold,    \* DataKey2::MultiPartyThreshold
  signOffs      \* DataKey2::ReleaseApprovals

healthVars == <<minRatio>>
panelVars == <<approvers, threshold, signOffs>>

ASSUME ApprovalsAssumption ==
  /\ MaxCollateral \in Nat
  /\ Ratios \subseteq 1 .. AllBps
  /\ \A list \in Panels : Len(list) \in 2 .. 10

ApprovalsInit ==
  /\ SchedulesInit
  /\ minRatio = [e \in Ids |-> 0]
  /\ approvers = [e \in Ids |-> {}]
  /\ threshold = [e \in Ids |-> 0]
  /\ signOffs = [e \in Ids |-> {}]

-----------------------------------------------------------------------------
(* Collateral health.                                                       *)

SetCollateralHealthConfig(e, ratio) ==
  /\ ~paused
  /\ escrow[e].status \in Open
  /\ minRatio' = [minRatio EXCEPT ![e] = ratio]
  /\ UNCHANGED <<vars, panelVars>>

(* Anyone.  Whether the oracle's price makes the collateral too small is    *)
(* the oracle's choice, but without collateral it always is.                *)
CheckCollateralHealth(e) ==
  /\ ~paused
  /\ minRatio[e] > 0
  /\ \E low \in BOOLEAN :
       /\ collateral[e] = 0 => low
       /\ \/ low /\ escrow[e].status \in Open
             /\ Rewrite(e, WithStatus(e, "UnderCollateralized"))
          \/ ~low /\ escrow[e].status = "UnderCollateralized"
             /\ Rewrite(e, WithStatus(e, "Active"))
  /\ UNCHANGED <<inspectVars, agreeVars, healthVars, panelVars>>

(* Anyone.  The escrow is restored by the collateral's amount alone, at     *)
(* whatever price the oracle has.  Bound: MaxCollateral.                    *)
TopUpCollateral(e, x) ==
  LET total == collateral[e] + x
      enough == (total * AllBps) \div escrow[e].amount >= minRatio[e]
  IN  /\ ~paused /\ x > 0
      /\ total <= MaxCollateral
      /\ escrow[e].status \in Open \cup {"UnderCollateralized"}
      /\ collateral' = [collateral EXCEPT ![e] = total]
      /\ terms' = [terms EXCEPT ![e].collateral = total]
      /\ received' = [received EXCEPT ![e] = @ + x]
      /\ escrow' = IF escrow[e].status = "UnderCollateralized" /\ enough
                   THEN [escrow EXCEPT ![e].status = "Active"] ELSE escrow
      /\ UNCHANGED <<clockVars, nextId, receipt, approvals, lastBuyerAction,
                     veto, condition, waivers, renewalVars, disputeVars,
                     inspectVars, agreeVars, accruedFees, paid, healthVars,
                     panelVars>>

-----------------------------------------------------------------------------
(* N of M approval.                                                         *)

(* The threshold is compared with the length of the list, in which an       *)
(* approver may be named twice; the approvals given are empty here.         *)
SetMultipartyApproval(e, list, n) ==
  /\ ~paused
  /\ escrow[e].status \in Open
  /\ n \in 1 .. Len(list)
  /\ signOffs[e] = {}
  /\ approvers' = [approvers EXCEPT ![e] = {list[i] : i \in DOMAIN list}]
  /\ threshold' = [threshold EXCEPT ![e] = n]
  /\ UNCHANGED <<vars, signOffs, healthVars>>

(* The approval that reaches the threshold releases amount and collateral   *)
(* at once: no lock, veto, pooled buyer or renewal is asked about.          *)
ApproveRelease(e, approver) ==
  /\ ~paused
  /\ escrow[e].status \in Open
  /\ approver \in approvers[e] \ signOffs[e]
  /\ signOffs' = [signOffs EXCEPT ![e] = @ \cup {approver}]
  /\ IF Cardinality(signOffs[e]) + 1 < threshold[e]
     THEN UNCHANGED vars
     ELSE /\ paid' = Pay(e, 0, escrow[e].amount + collateral[e])
          /\ collateral' = [collateral EXCEPT ![e] = 0]
          /\ escrow' = Released(e)
          /\ receipt' = [receipt EXCEPT ![e] = NoAddr]
          /\ UNCHANGED <<clockVars, nextId, terms, approvals, lastBuyerAction,
                         veto, condition, waivers, renewalVars, disputeVars,
                         inspectVars, agreeVars, accruedFees, received>>
  /\ UNCHANGED <<approvers, threshold, healthVars>>

-----------------------------------------------------------------------------

ApprovalNext ==
  \E e \in Created :
    \/ \E ratio \in Ratios : SetCollateralHealthConfig(e, ratio)
    \/ CheckCollateralHealth(e)
    \/ \E x \in Amounts : TopUpCollateral(e, x)
    \/ \E list \in Panels : \E n \in DOMAIN list : SetMultipartyApproval(e, list, n)
    \/ \E approver \in Addr : ApproveRelease(e, approver)

=============================================================================
