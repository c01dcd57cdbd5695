-------------------------- MODULE EscrowNegotiation --------------------------
(***************************************************************************)
(* What buyer and seller of an escrow agree on between themselves: its     *)
(* cancellation, a later deadline, amended terms, a top-up, and who plays  *)
(* the buyer, the seller and the inspector.                                *)
(***************************************************************************)
EXTENDS EscrowDisputes

CONSTANT MaxRounds   \* bound: amendments of an escrow, rulings counted against an inspector

ASSUME RoundsAssumption == MaxRounds \in Nat

(* A step that only rewrites the escrow record of e.                        *)
Rewrite(e, record) ==
  /\ escrow' = [escrow EXCEPT ![e] = record]
  /\ UNCHANGED <<clockVars, nextId, terms, receipt, approvals, releaseVars,
                 renewalVars, disputeVars, moneyVars>>

WithStatus(e, status) == [escrow[e] EXCEPT !.status = status]

-----------------------------------------------------------------------------
(* Mutual cancellation.                                                     *)

(* Mutant of RequestCancellation: the request is not saved.                 *)
RequestUnsaved(e, caller) ==
  /\ ~paused
  /\ escrow[e].status \in Open
  /\ caller \in Party(e)
  /\ Rewrite(e, WithStatus(e, "CancellationPending"))
  /\ UNCHANGED <<inspectVars, agreeVars>>

RequestCancellation(e, caller) ==
  /\ ~paused
  /\ escrow[e].status \in Open
  /\ caller \in Party(e)
  /\ cancellation' = [cancellation EXCEPT ![e] =
       [initiator |-> caller, expiresAt |-> now + config.cancelWindow]]
  /\ Rewrite(e, WithStatus(e, "CancellationPending"))
  /\ UNCHANGED <<inspectVars, extension, amendment, nonce, transfer>>

CancellationOpen(e) ==
  escrow[e].status = "CancellationPending" /\ cancellation[e] # NoRequest

(* Mutant of Reopen: the request stays behind.                              *)
ReopenKeepingRequest(e) ==
  /\ Rewrite(e, WithStatus(e, "Active"))
  /\ UNCHANGED <<inspectVars, agreeVars>>

(* The escrow is open again, whatever open status it had before.            *)
Reopen(e) ==
  /\ cancellation' = [cancellation EXCEPT ![e] = NoRequest]
  /\ Rewrite(e, WithStatus(e, "Active"))
  /\ UNCHANGED <<inspectVars, extension, amendment, nonce, transfer>>

(* The penalty comes out of the refund, whoever asked for the cancellation,  *)
(* and only when there is a fee recipient to pay it to.                      *)
Penalty(e) ==
  IF config.feeRecipient THEN Bps(escrow[e].amount, config.penalty) ELSE 0
(* Mutant of Refund: the penalty is not deducted.                           *)
RefundInFull(e) == escrow[e].amount

Refund(e) == escrow[e].amount - Penalty(e)

(* Mutant of AcceptCancellation: a late answer is not told from a timely    *)
(* one.                                                                     *)
AcceptAnytime(e, caller) ==
  /\ ~paused
  /\ CancellationOpen(e)
  /\ caller \in Party(e) /\ caller # cancellation[e].initiator
  /\ paid' = [paid EXCEPT ![e] =
       [paid[e] EXCEPT !.buyer = @ + Refund(e), !.penalty = @ + Penalty(e)]]
  /\ escrow' = [escrow EXCEPT ![e].status = "Refunded"]
  /\ receipt' = [receipt EXCEPT ![e] = NoAddr]
  /\ cancellation' = [cancellation EXCEPT ![e] = NoRequest]
  /\ UNCHANGED <<clockVars, nextId, terms, approvals, releaseVars, renewalVars,
                 disputeVars, inspectVars, extension, amendment, nonce, transfer,
                 accruedFees, received>>

AcceptCancellation(e, caller) ==
  /\ ~paused
  /\ CancellationOpen(e)
  /\ now <= cancellation[e].expiresAt
  /\ caller \in Party(e) /\ caller # cancellation[e].initiator
  /\ paid' = [paid EXCEPT ![e] =
       [paid[e] EXCEPT !.buyer = @ + Refund(e), !.penalty = @ + Penalty(e)]]
  /\ escrow' = [escrow EXCEPT ![e].status = "Refunded"]
  /\ receipt' = [receipt EXCEPT ![e] = NoAddr]
  /\ cancellation' = [cancellation EXCEPT ![e] = NoRequest]
  /\ UNCHANGED <<clockVars, nextId, terms, approvals, releaseVars, renewalVars,
                 disputeVars, inspectVars, extension, amendment, nonce, transfer,
                 accruedFees, received>>

(* Accepting after the window only reopens the escrow, whoever calls.       *)
AcceptExpiredCancellation(e) ==
  /\ ~paused
  /\ CancellationOpen(e)
  /\ now > cancellation[e].expiresAt
  /\ Reopen(e)

RejectCancellation(e, caller) ==
  /\ ~paused
  /\ CancellationOpen(e)
  /\ caller \in Party(e) /\ caller # cancellation[e].initiator
  /\ Reopen(e)

ExpireCancellation(e) ==
  /\ CancellationOpen(e)
  /\ now > cancellation[e].expiresAt
  /\ Reopen(e)

-----------------------------------------------------------------------------
(* Deadline extensions.                                                     *)

MayExtend(e, caller) ==
  /\ caller \in Party(e)
  /\ escrow[e].status \notin Terminal \cup {"Disputed"}

ProposeDeadlineExtension(e, caller, deadline) ==
  /\ MayExtend(e, caller)
  /\ deadline > now /\ deadline > escrow[e].deadline
  /\ extension' = [extension EXCEPT ![e] =
       [proposer |-> caller, deadline |-> deadline, proposedAt |-> now]]
  /\ UNCHANGED <<clockVars, escrowVars, releaseVars, renewalVars, disputeVars,
                 inspectVars, cancellation, amendment, nonce, transfer, moneyVars>>

AcceptDeadlineExtension(e, caller) ==
  /\ MayExtend(e, caller)
  /\ extension[e] # NoProposal
  /\ caller # extension[e].proposer
  /\ now <= extension[e].proposedAt + config.extensionWindow
  /\ extension[e].deadline > now /\ extension[e].deadline > escrow[e].deadline
  /\ Rewrite(e, [escrow[e] EXCEPT !.deadline = extension[e].deadline])
  /\ extension' = [extension EXCEPT ![e] = NoProposal]
  /\ UNCHANGED <<inspectVars, cancellation, amendment, nonce, transfer>>

-----------------------------------------------------------------------------
(* Amendments: a new amount or deadline both parties sign under one nonce.  *)

SidesOf(e, caller) ==
  (IF caller = escrow[e].buyer THEN {"buyer"} ELSE {})
    \cup (IF caller = escrow[e].seller THEN {"seller"} ELSE {})

(* Bound: MaxRounds proposals.                                              *)
ProposeAmendment(e, caller, amount, deadline) ==
  /\ ~paused
  /\ caller \in Party(e)
  /\ escrow[e].status \notin Terminal
  /\ deadline # Unset => deadline > now
  /\ amount # Unset => amount > 0
  /\ nonce[e] < MaxRounds
  /\ nonce' = [nonce EXCEPT ![e] = @ + 1]
  /\ amendment' = [amendment EXCEPT ![e] =
       [nonce |-> nonce[e], proposer |-> caller, amount |-> amount,
        deadline |-> deadline, expiresAt |-> now + config.amendmentExpiry,
        signed |-> SidesOf(e, caller)]]
  /\ UNCHANGED <<clockVars, escrowVars, releaseVars, renewalVars, disputeVars,
                 inspectVars, cancellation, extension, transfer, moneyVars>>

(* Mutants of Amend: the proposal stays behind, or the change is taken from *)
(* the amount at creation.                                                  *)
AmendKeepingProposal(e) ==
  LET a == amendment[e]
      change == IF a.amount = Unset THEN 0 ELSE a.amount - escrow[e].amount
  IN  /\ escrow[e].status \notin Terminal
      /\ escrow' = [escrow EXCEPT ![e].amount = @ + change]
      /\ received' = [received EXCEPT ![e] = @ + (IF change > 0 THEN change ELSE 0)]
      /\ paid' = Pay(e, IF change < 0 THEN -change ELSE 0, 0)
      /\ UNCHANGED <<clockVars, nextId, terms, receipt, approvals, releaseVars,
                     renewalVars, disputeVars, inspectVars, agreeVars, accruedFees>>

AmendFromOriginal(e) ==
  LET a == amendment[e]
      change == IF a.amount = Unset THEN 0 ELSE a.amount - escrow[e].original
  IN  /\ escrow[e].status \notin Terminal
      /\ escrow' = [escrow EXCEPT ![e].amount = IF a.amount = Unset THEN @ ELSE a.amount]
      /\ received' = [received EXCEPT ![e] = @ + (IF change > 0 THEN change ELSE 0)]
      /\ paid' = Pay(e, IF change < 0 THEN -change ELSE 0, 0)
      /\ amendment' = [amendment EXCEPT ![e] = NoAmendment]
      /\ UNCHANGED <<clockVars, nextId, terms, receipt, approvals, releaseVars,
                     renewalVars, disputeVars, inspectVars, cancellation,
                     extension, nonce, transfer, accruedFees>>

(* The amended amount is topped up by the buyer or returned to the buyers'  *)
(* side, in any status that is not terminal.                                *)
Amend(e) ==
  LET a == amendment[e]
      change == IF a.amount = Unset THEN 0 ELSE a.amount - escrow[e].amount
  IN  /\ escrow[e].status \notin Terminal
      /\ a.deadline # Unset => a.deadline > now
      /\ escrow' = [escrow EXCEPT ![e] =
           [escrow[e] EXCEPT !.amount = @ + change,
                             !.deadline = IF a.deadline = Unset THEN @ ELSE a.deadline]]
      /\ received' = [received EXCEPT ![e] = @ + (IF change > 0 THEN change ELSE 0)]
      /\ paid' = Pay(e, IF change < 0 THEN -change ELSE 0, 0)
      /\ amendment' = [amendment EXCEPT ![e] = NoAmendment]
      /\ UNCHANGED <<clockVars, nextId, terms, receipt, approvals, releaseVars,
                     renewalVars, disputeVars, inspectVars, cancellation,
                     extension, nonce, transfer, accruedFees>>

Pending(e, n) ==
  /\ amendment[e] # NoAmendment
  /\ amendment[e].nonce = n
  /\ now <= amendment[e].expiresAt

(* The second signature carries the amendment out in the same call.         *)
SignAmendment(e, caller, n) ==
  LET signed == amendment[e].signed
                \cup {IF caller = escrow[e].buyer THEN "buyer" ELSE "seller"}
  IN  /\ ~paused
      /\ Pending(e, n)
      /\ caller \in Party(e)
      /\ \/ signed = {"buyer", "seller"} /\ Amend(e)
         \/ /\ signed # {"buyer", "seller"}
            /\ amendment' = [amendment EXCEPT ![e].signed = signed]
            /\ UNCHANGED <<clockVars, escrowVars, releaseVars, renewalVars,
                           disputeVars, inspectVars, cancellation, extension,
                           nonce, transfer, moneyVars>>

ApplyAmendment(e, n) ==
  /\ ~paused
  /\ Pending(e, n)
  /\ amendment[e].signed = {"buyer", "seller"}
  /\ Amend(e)

-----------------------------------------------------------------------------
(* Top-ups.                                                                 *)

TopUpEscrow(e, x) ==
  /\ ~paused
  /\ escrow[e].status \in {"Active", "AwaitingInspection"}
  /\ x > 0
  /\ escrow[e].amount + x <= escrow[e].original * config.topUpMultiplier
  /\ escrow' = [escrow EXCEPT ![e] =
       [escrow[e] EXCEPT !.amount = @ + x, !.acknowledged = FALSE]]
  /\ received' = [received EXCEPT ![e] = @ + x]
  /\ UNCHANGED <<clockVars, nextId, terms, receipt, approvals, releaseVars,
                 renewalVars, disputeVars, inspectVars, agreeVars, accruedFees,
                 paid>>

AcknowledgeTopup(e) ==
  /\ ~paused /\ Exists(e)
  /\ Rewrite(e, [escrow[e] EXCEPT !.acknowledged = TRUE])
  /\ UNCHANGED <<inspectVars, agreeVars>>

-----------------------------------------------------------------------------
(* The seller's veto of a release, and the admin's override of it, which    *)
(* stamps the veto afresh.                                                  *)

StampVeto(e) ==
  /\ ~paused
  /\ escrow[e].status \in Open
  /\ veto' = [veto EXCEPT ![e] = now]
  /\ UNCHANGED <<clockVars, escrowVars, collateral, lastBuyerAction, condition,
                 waivers, renewalVars, disputeVars, inspectVars, agreeVars,
                 moneyVars>>

RaiseSellerVeto(e) == ~Vetoed(e) /\ StampVeto(e)

AdminOverrideVeto(e) == StampVeto(e)

SetVetoCooldownSeconds(seconds) == ConfigSet("vetoCooldown", seconds)

-----------------------------------------------------------------------------
(* Changes of party.                                                        *)

TransferBuyerRole(e, newBuyer) ==
  /\ ~paused
  /\ escrow[e].status = "Active"
  /\ newBuyer # escrow[e].buyer
  /\ Rewrite(e, [escrow[e] EXCEPT !.buyer = newBuyer])
  /\ UNCHANGED <<inspectVars, agreeVars>>

TransferSellerRole(e, newSeller) ==
  /\ ~paused
  /\ escrow[e].status = "Active"
  /\ transfer' = [transfer EXCEPT ![e] = [newSeller |-> newSeller,
                    vetoDeadline |-> now + config.transferWindow]]
  /\ Rewrite(e, WithStatus(e, "AwaitingBuyerVetoDecision"))
  /\ UNCHANGED <<inspectVars, cancellation, extension, amendment, nonce>>

(* The proposal is kept; neither the sellers' list nor the receipt follow.  *)
ConcludeSellerTransfer(e) ==
  /\ escrow[e].status = "AwaitingBuyerVetoDecision"
  /\ transfer[e] # NoTransfer
  /\ Rewrite(e, [escrow[e] EXCEPT !.status = "Active",
                                  !.seller = transfer[e].newSeller])
  /\ UNCHANGED <<inspectVars, agreeVars>>

ApproveSellerTransfer(e) == ConcludeSellerTransfer(e)

(* Mutant of ExpireSellerTransferVeto: the comparison is swapped.           *)
ExpireBeforeVeto(e) ==
  now < transfer[e].vetoDeadline /\ ConcludeSellerTransfer(e)

(* Ledger sequence numbers advance with the modelled clock.                 *)
ExpireSellerTransferVeto(e) ==
  now > transfer[e].vetoDeadline /\ ConcludeSellerTransfer(e)

(* Mutant of VetoSellerTransfer: the tokens go to the wrong side.           *)
VetoToSeller(e) ==
  /\ ~paused
  /\ escrow[e].status = "AwaitingBuyerVetoDecision"
  /\ Settle(e, "Refunded", 0, escrow[e].amount)
  /\ UNCHANGED <<receipt, disputeVars, agreeVars>>

VetoSellerTransfer(e) ==
  /\ ~paused
  /\ escrow[e].status = "AwaitingBuyerVetoDecision"
  /\ Settle(e, "Refunded", escrow[e].amount, 0)
  /\ UNCHANGED <<receipt, disputeVars, agreeVars>>

-----------------------------------------------------------------------------
(* Inspection.                                                              *)

(* Mutant of SellerMarkComplete: no inspector is needed.                    *)
MarkCompleteUninspected(e) ==
  /\ ~paused
  /\ escrow[e].status \in Open
  /\ Rewrite(e, WithStatus(e, "AwaitingInspection"))
  /\ UNCHANGED <<inspectVars, agreeVars>>

SellerMarkComplete(e) ==
  /\ ~paused
  /\ escrow[e].status \in Open
  /\ escrow[e].inspector # NoAddr
  /\ Rewrite(e, WithStatus(e, "AwaitingInspection"))
  /\ UNCHANGED <<inspectVars, agreeVars>>

SubmitInspectionReport(e, approved) ==
  /\ ~paused
  /\ escrow[e].status = "AwaitingInspection"
  /\ escrow[e].inspector # NoAddr
  /\ Rewrite(e, WithStatus(e, IF approved THEN "InspectionPassed"
                              ELSE "InspectionFailed"))
  /\ UNCHANGED <<inspectVars, agreeVars>>

(* Both parties name the same replacement; a pending inspection is called   *)
(* off and counts against the old inspector.  Bound: MaxRounds rulings.     *)
ReplaceInspector(e, caller, insp) ==
  LET earlier == IF inspectorVote[e].inspector = insp
                 THEN inspectorVote[e].signed ELSE {}
      signed  == earlier \cup {IF caller = escrow[e].buyer THEN "buyer" ELSE "seller"}
      old     == escrow[e].inspector
  IN  /\ ~paused
      /\ caller \in Party(e)
      /\ old # NoAddr
      /\ inspectorScore[old].total < MaxRounds
      /\ \/ /\ signed = {"buyer", "seller"}
            /\ Rewrite(e, [escrow[e] EXCEPT !.inspector = insp,
                 !.status = IF @ \in {"AwaitingInspection", "InspectionFailed"}
                            THEN "Active" ELSE @])
            /\ inspectorVote' = [inspectorVote EXCEPT ![e] = NoVote]
            /\ inspectorScore' = [inspectorScore EXCEPT ![old].total = @ + 1]
         \/ /\ signed # {"buyer", "seller"}
            /\ inspectorVote' = [inspectorVote EXCEPT ![e] =
                                   [inspector |-> insp, signed |-> signed]]
            /\ UNCHANGED <<clockVars, escrowVars, releaseVars, renewalVars,
                           disputeVars, inspectorScore, moneyVars>>
      /\ UNCHANGED <<appealed, agreeVars>>

(* The admin upholds an appeal, once per escrow.  An inspector who has no   *)
(* score yet is given one ruling, and loses it.                             *)
AppealInspectorRuling(e) ==
  LET insp  == escrow[e].inspector
      score == IF inspectorScore[insp].total = 0 THEN [total |-> 1, correct |-> 1]
               ELSE inspectorScore[insp]
  IN  /\ ~paused
      /\ insp # NoAddr /\ ~appealed[e]
      /\ appealed' = [appealed EXCEPT ![e] = TRUE]
      /\ inspectorScore' = [inspectorScore EXCEPT ![insp] =
           [score EXCEPT !.correct = IF @ > 0 THEN @ - 1 ELSE 0]]
      /\ UNCHANGED <<clockVars, escrowVars, releaseVars, renewalVars,
                     disputeVars, inspectorVote, agreeVars, moneyVars>>

=============================================================================
