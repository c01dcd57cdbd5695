-------------------------------- MODULE Refund --------------------------------
(***************************************************************************)
(* The ahjoor-refund contract and the token whitelist it asks: actions,    *)
(* specification and properties.                                           *)
(***************************************************************************)
EXTENDS RefundReserves

CONSTANT Amounts    \* amounts the callers pass

(* Amounts are i128, basis points u32.                                      *)
ASSUME InputAssumption ==
  /\ Amounts \subseteq Int
  /\ \A c \in {RefundCfg} \cup RefundCfgs : c.feeBps \in Nat

vars == <<now, whitelistVars, refundVars>>

-----------------------------------------------------------------------------

Accounts == Customers \cup Merchants \cup {Admin}
Payments == DOMAIN Payment

Requesting ==
  \E p \in Payments, x \in Amounts :
    \/ \E c \in Customers : RequestRefund(c, p, x)
    \/ \E m \in Merchants : MerchantRefund(m, p, x)
Registering ==
  \E c \in Customers, m \in Merchants, t \in Token, x \in Amounts :
    RegisterCrossContractRefund(c, m, t, x)

Reviewing ==
  \E r \in Ids :
    \/ BatchApprove(r) \/ BatchReject(r) \/ ProcessRefund(r)
    \/ \E a \in Accounts : ApproveRefund(a, r) \/ RejectRefund(a, r)
Vouchers ==
  \/ \E a \in Accounts, r \in Ids, x \in Amounts, s \in Spans :
       ApproveRefundAsVoucher(a, r, x, now + s)
  \/ \E c \in Customers, m \in Merchants :
       \/ \E x \in Amounts : ApplyStoreCredit(c, m, x)
       \/ \E s \in Spans : ExtendStoreCreditExpiry(m, c, now + s)
Evidence == \E r \in Ids : SubmitRefundEvidence(r)
Escalation ==
  \E r \in Ids :
    \/ EscalateToSenior(r) \/ TriggerSeniorAutoApprove(r)
    \/ \E b \in BOOLEAN : ResolveEscalated(r, b)
Offers ==
  \E r \in Ids :
    \/ \E x \in Amounts : CounterOfferRefund(r, x)
    \/ AcceptCounterOffer(r) \/ AcceptLateOffer(r) \/ RejectCounterOffer(r)
    \/ CheckCounterOfferExpiry(r) \/ SettleExpiredCounterOffer(r)
Closing ==
  \E r \in Ids :
    \/ CancelRefundRequest(r) \/ AutoCancelExpiredRequest(r) \/ AutoRejectStaleRefund(r)
    \/ AutoApproveRefund(r) \/ TriggerAutoApproval(r)
Extending ==
  \E r \in Ids :
    RequestReviewExtension(r) \/ \E s \in Spans : ExtendRefundDeadline(r, s)
Appeals ==
  \E r \in Ids : AppealRefund(r) \/ \E b \in BOOLEAN : ResolveAppeal(r, b)

Reserves ==
  \E m \in Merchants :
    \/ CheckReserveCompliance(m)
    \/ \E s \in Spans : WaiveReserveRequirement(m, now + s)
    \/ \E x \in Amounts :
         \/ RecordPaymentVolume(m, x)
         \/ DepositMerchantReserve(m, x) \/ WithdrawMerchantReserve(m, x)
         \/ \E t \in Token : DepositReserve(m, t, x) \/ WithdrawReserve(m, t, x)
Published(m) ==
  \E w \in Spans, b \in {5000, 10000} : PublishRefundPolicy(m, [window |-> w, bps |-> b])
Terms ==
  \E m \in Merchants :
    \/ \E a \in Accounts : AddDelegate(m, a) \/ RemoveDelegate(m, a)
    \/ \E x \in {0} \cup Amounts : SetAutoApproveThreshold(m, x)
    \/ Published(m)
    \/ AddToAutoApprove(m) \/ RemoveFromAutoApprove(m)
    \/ \E b \in BOOLEAN : SetMerchantAutoApproveExempt(m, b)
Scores ==
  \/ \E c \in Customers : ResetFraudScore(c) \/ ResetCustomerAbuseScore(c) \/ WaiveCooldown(c)
  \/ \E r \in Ids : FlagRefundAbuse(r)
Settings == \E c \in RefundCfgs : Change(c)
Pausing == \E p \in BOOLEAN : SetPaused(p)

(* A call of the refund contract.                                           *)
RefundCall ==
  /\ \/ Requesting \/ Registering \/ Reviewing \/ Vouchers \/ Evidence \/ Escalation
     \/ Offers \/ Closing \/ Extending \/ Appeals \/ Reserves \/ Terms \/ Scores
     \/ Settings \/ Pausing
  /\ now' = now

Init == now = 1 /\ WhitelistInit /\ RefundInit

Next ==
  \/ RefundCall /\ UNCHANGED listVars
  \/ WhitelistCall /\ UNCHANGED refundVars
  \/ NextLedger /\ UNCHANGED <<whitelistVars, refundVars>>

Spec == Init /\ [][Next]_vars

-----------------------------------------------------------------------------

(* A refund may be paid from two sides, and from each side once.  An        *)
(* approval draws on the reserve of the refund's merchant (995-1015), for   *)
(* at most the amount, and an approved refund can only be processed, so it  *)
(* is never approved again.  The deposit is given at most up to the amount  *)
(* and only while it is whole, by whichever of the admin, the delegates,    *)
(* the senior reviewer, the customer and the open deadlines comes first,    *)
(* except on the appeal of a rejection that gave it back already (2538),    *)
(* where it is taken from other money.  No call pays from both sides, but   *)
(* the code does not offset one against the other: processing an approved   *)
(* refund gives the deposit (3277) in full also to a customer whom the      *)
(* reserve has paid the amount.  What is processed, cancelled or recorded   *)
(* stays so, and is paid no more.                                           *)
PaidOnce ==
  [][\A r \in Ids :
       /\ purse'[r] < purse[r] =>
            /\ purse[r] - purse'[r] <= refund[r].amount
            /\ purse[r] = refund[r].amount \/ refund[r].status = "UnderAppeal"
            /\ reserve' = reserve
       /\ refund'[r] # refund[r] /\ reserve' # reserve =>
            LET m == Merchant(r)  left == reserve'[m].kept IN
            /\ refund[r].status \in Reviewed /\ refund'[r].status = "Approved"
            /\ reserve' = [reserve EXCEPT ![m].kept = left]
            /\ reserve[m].kept - left <= refund[r].amount
       /\ refund[r].status = "Approved" => refund'[r].status \in {"Approved", "Processed"}
       /\ refund[r].status \in Ended =>
            refund'[r].status = refund[r].status /\ purse'[r] = purse[r]]_vars

(* The admin's queue (PendingRefundQueue) holds every refund that waits for *)
(* a decision exactly once, however it was countered or escalated, and none *)
(* that was approved, cancelled or never asked for.  Refunds paid past the  *)
(* queue may be left on it.                                                 *)
QueueListsWaiting ==
  \A r \in Ids :
    LET times == Cardinality({i \in DOMAIN queue : queue[i] = r}) IN
    /\ times <= 1
    /\ refund[r].status \in Waiting => times = 1
    /\ refund[r].status \in {"None", "Approved", "Cancelled", "CrossContractRefunded"} =>
         times = 0

(* The tokens in the contract are the deposits of its refunds and the two   *)
(* reserves of its merchants, to the unit: an approval that draws a         *)
(* reserve, a voucher, a fee that is kept and a double payment on appeal    *)
(* each leave the books and the balances in step.                           *)
HeldAddsUp ==
  SumOf(held, Token) =
    SumOf(purse, Ids)
    + SumOf([m \in Merchants |-> reserve[m].kept + reserve[m].balance], Merchants)

=============================================================================
