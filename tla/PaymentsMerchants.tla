--------------------------- MODULE PaymentsMerchants ---------------------------
(***************************************************************************)
(* Merchants of ahjoor-payments: approval, suspension, ban and appeal,     *)
(* collateral, the payments that need several signatures, vouchers, the    *)
(* withdrawal queue, and the settings the handlers read.                   *)
(***************************************************************************)
EXTENDS PaymentsDisputes

CONSTANTS
  Signers,      \* accounts a merchant may name as signers
  Codes         \* voucher code hashes

VARIABLES
  appeal,       \* DataKey2::MerchantAppeal and AppealCooldownUntil
  unblocks,     \* DataKey2::UnblockRequest
  policy,       \* DataKey::MultisigPolicy
  approvals,    \* DataKey2::ApprovalState
  voucher       \* DataKey2::Voucher

shopVars == <<appeal, unblocks, policy, approvals, voucher>>

NoAppeal == [status |-> "None", until |-> 0, cooldown |-> 0]
NoPolicy == [m |-> 0, signers |-> {}, threshold |-> 0, window |-> 0]
NoState == [signed |-> {}, createdAt |-> Never]
NoVoucher == [kind |-> "None", value |-> 0, maxUses |-> 0, left |-> 0,
              expiry |-> 0, revoked |-> FALSE]

(* What the steps below leave alone, by the group they belong to.           *)
KeepAll == UNCHANGED <<disputeVars, shopVars>>
KeepPay == UNCHANGED <<clockVars, paymentVars, payoutVars, rewardVars>>

-----------------------------------------------------------------------------
(* Standing.                                                                *)

SetStanding(m, s) == standing' = [standing EXCEPT ![m] = s]
KeepStanding ==
  UNCHANGED <<collateral, gateVars, unblocks, policy, approvals, voucher, disputeVars>> /\ KeepPay

(* approve_merchant asks for the minimum collateral and for nothing else.   *)
ApproveMerchant(m) ==
  /\ ~paused /\ collateral[m] >= cfg.minCollateral
  /\ SetStanding(m, [standing[m] EXCEPT !.approved = TRUE])
  /\ KeepStanding /\ UNCHANGED appeal
RevokeMerchant(m) ==
  /\ ~paused
  /\ SetStanding(m, [standing[m] EXCEPT !.approved = FALSE])
  /\ KeepStanding /\ UNCHANGED appeal
SuspendMerchant(m, d) ==
  /\ ~paused /\ d > 0
  /\ SetStanding(m, [standing[m] EXCEPT !.status = "Suspended", !.until = now + d])
  /\ KeepStanding /\ UNCHANGED appeal
BanMerchant(m) ==
  /\ ~paused
  /\ SetStanding(m, [standing[m] EXCEPT !.status = "Banned", !.approved = FALSE])
  /\ KeepStanding /\ UNCHANGED appeal
ReinstateMerchant(m) ==
  /\ ~paused
  /\ SetStanding(m, [standing[m] EXCEPT !.status = "Active", !.approved = TRUE])
  /\ KeepStanding /\ UNCHANGED appeal

(* submit_appeal: one at a time, and after the cooldown of a rejection.     *)
SubmitAppeal(m) ==
  /\ ~paused /\ standing[m].status = "Banned"
  /\ appeal[m].status \notin {"Pending", "ApprovedCoolingOff"}
  /\ now >= appeal[m].cooldown
  /\ appeal' = [appeal EXCEPT ![m] = [@ EXCEPT !.status = "Pending", !.until = 0]]
  /\ KeepStanding /\ UNCHANGED standing
ApproveAppeal(m) ==
  /\ ~paused /\ appeal[m].status = "Pending"
  /\ appeal' = [appeal EXCEPT ![m] =
       [@ EXCEPT !.status = "ApprovedCoolingOff", !.until = now + cfg.appealCooldown]]
  /\ KeepStanding /\ UNCHANGED standing
RejectAppeal(m) ==
  /\ ~paused /\ appeal[m].status = "Pending"
  /\ appeal' = [appeal EXCEPT ![m] =
       [@ EXCEPT !.status = "Rejected", !.cooldown = now + cfg.appealCooldown]]
  /\ KeepStanding /\ UNCHANGED standing
CompleteReinstatement(m) ==
  /\ ~paused /\ appeal[m].status = "ApprovedCoolingOff"
  /\ now >= appeal[m].until
  /\ appeal' = [appeal EXCEPT ![m].status = "ApprovedReinstated"]
  /\ SetStanding(m, [standing[m] EXCEPT !.status = "Active", !.approved = TRUE])
  /\ KeepStanding

-----------------------------------------------------------------------------
(* Block list and KYB records.                                              *)

KeepGates == UNCHANGED <<merchantVars, disputeVars, appeal, policy, approvals, voucher,
                         rate, spendLimit, spent>>

BlockCustomer(m, c) ==
  /\ ~paused /\ blocked' = [blocked EXCEPT ![m][c] = now]
  /\ KeepPay /\ KeepGates /\ UNCHANGED <<kyb, unblocks>>
UnblockCustomer(m, c) ==
  /\ ~paused /\ blocked' = [blocked EXCEPT ![m][c] = Never]
  /\ KeepPay /\ KeepGates /\ UNCHANGED <<kyb, unblocks>>

(* request_unblock numbers its request with the payment counter, which the  *)
(* next payment then skips past.                                            *)
RequestUnblock(m, c) ==
  /\ ~paused /\ counter + 1 < MaxPayments
  /\ counter' = counter + 1
  /\ unblocks' = [unblocks EXCEPT ![counter + 1] = <<m, c>>]
  /\ UNCHANGED <<clockVars, pay, tokenVars, payoutVars, rewardVars, kyb, blocked>>
  /\ KeepGates
ResolveUnblockRequest(r, approved) ==
  /\ ~paused /\ unblocks[r] # <<>>
  /\ blocked' = IF approved THEN [blocked EXCEPT ![unblocks[r][1]][unblocks[r][2]] = Never]
                ELSE blocked
  /\ unblocks' = [unblocks EXCEPT ![r] = <<>>]
  /\ KeepPay /\ KeepGates /\ UNCHANGED kyb

SetMerchantKyb(m, until) ==
  /\ kyb' = [kyb EXCEPT ![m] = [until |-> until, revoked |-> FALSE, some |-> TRUE]]
  /\ KeepPay /\ KeepGates /\ UNCHANGED <<blocked, unblocks>>
RevokeMerchantKyb(m) ==
  /\ kyb[m].some
  /\ kyb' = [kyb EXCEPT ![m].revoked = TRUE]
  /\ KeepPay /\ KeepGates /\ UNCHANGED <<blocked, unblocks>>

-----------------------------------------------------------------------------
(* Collateral.                                                              *)

MoveCollateral(m, x) ==
  /\ collateral' = [collateral EXCEPT ![m] = @ + x]
  /\ held' = [held EXCEPT ![Usdc] = @ + x]
  /\ UNCHANGED <<clockVars, pay, counter, purse, standing, payoutVars, gateVars,
                 rewardVars>> /\ KeepAll

DepositCollateral(m, x) == ~paused /\ x > 0 /\ TokenAllowed(Usdc) /\ MoveCollateral(m, x)

(* withdraw_collateral keeps the minimum; a slash may have gone below it.   *)
WithdrawCollateral(m, x) ==
  /\ ~paused /\ x > 0 /\ x <= collateral[m]
  /\ collateral[m] - x >= cfg.minCollateral
  /\ x <= held[Usdc]
  /\ MoveCollateral(m, -x)

-----------------------------------------------------------------------------
(* Payments that need several signatures, and vouchers.                     *)

SetMultisigPolicy(m, signers, k, threshold, window) ==
  /\ ~paused /\ threshold > 0 /\ k \in 1..Cardinality(signers) /\ window > 0
  /\ policy' = [policy EXCEPT ![m] =
       [m |-> k, signers |-> signers, threshold |-> threshold, window |-> window]]
  /\ KeepPay /\ UNCHANGED <<merchantVars, gateVars, disputeVars, appeal, unblocks,
                            approvals, voucher>>

KeepApproval ==
  UNCHANGED <<disputeVars, appeal, unblocks, policy, voucher, points>> /\ OnlyPayments

ApprovalOver(p) == now > approvals[p].createdAt + policy[pay[p].merchant].window

(* approve_payment after the window refunds instead.                        *)
RefundUnapproved(p) ==
  /\ Give(p, pay[p].amount) /\ Finish(p, "Refunded")
  /\ KeepApproval /\ UNCHANGED approvals

ApprovePayment(p, s) ==
  /\ In(p, {"PendingApproval"})
  /\ s \in policy[pay[p].merchant].signers
  /\ \/ ApprovalOver(p) /\ RefundUnapproved(p)
     \/ /\ ~ApprovalOver(p) /\ s \notin approvals[p].signed
        /\ IF Cardinality(approvals[p].signed) + 1 >= policy[pay[p].merchant].m
           THEN Finish(p, "Pending") /\ UNCHANGED approvals
           ELSE /\ approvals' = [approvals EXCEPT ![p].signed = @ \cup {s}]
                /\ UNCHANGED pay
        /\ UNCHANGED tokenVars /\ KeepApproval

ExpirePendingApproval(p) ==
  In(p, {"PendingApproval"}) /\ ApprovalOver(p) /\ RefundUnapproved(p)

IssueVoucher(m, code, kind, value, uses, expiry) ==
  /\ ~paused /\ voucher[m][code] = NoVoucher
  /\ value > 0 /\ (kind = "Percentage" => value <= 100)
  /\ voucher' = [voucher EXCEPT ![m][code] =
       [kind |-> kind, value |-> value, maxUses |-> uses, left |-> uses,
        expiry |-> expiry, revoked |-> FALSE]]
  /\ KeepPay /\ UNCHANGED <<merchantVars, gateVars, disputeVars, appeal, unblocks,
                            policy, approvals>>
RevokeVoucher(m, code) ==
  /\ ~paused /\ voucher[m][code] # NoVoucher /\ ~voucher[m][code].revoked
  /\ voucher' = [voucher EXCEPT ![m][code].revoked = TRUE]
  /\ KeepPay /\ UNCHANGED <<merchantVars, gateVars, disputeVars, appeal, unblocks,
                            policy, approvals>>

Discount(v, x) == IF v.kind = "Fixed" THEN v.value ELSE (x * v.value) \div 100

(* create_payment_with_voucher, with or without a code; the only creation   *)
(* the signature policy applies to.                                         *)
CreatePaymentWithVoucher(c, m, t, x, code) ==
  LET v == IF code = "None" THEN NoVoucher ELSE voucher[m][code]
      net == IF code = "None" THEN x ELSE Greatest(x - Discount(v, x), 0)
      gated == policy[m] # NoPolicy /\ net >= policy[m].threshold IN
  /\ ~paused /\ x > 0 /\ net > 0
  /\ WithinRate(c, 1) /\ TokenAllowed(t) /\ Allowed(m)
  /\ code # "None" =>
       /\ v # NoVoucher /\ ~v.revoked
       /\ v.expiry > 0 => now <= v.expiry
       /\ v.maxUses > 0 => v.left > 0
  /\ voucher' = IF code = "None" \/ v.maxUses = 0 THEN voucher
                ELSE [voucher EXCEPT ![m][code].left = @ - 1]
  /\ NewPayment([Plain(c, m, t, net) EXCEPT
       !.status = IF gated THEN "PendingApproval" ELSE "Pending"], t, net)
  /\ approvals' = IF gated THEN [approvals EXCEPT ![counter] =
                                   [signed |-> {}, createdAt |-> now]] ELSE approvals
  /\ rate' = CountRate(c, 1)
  /\ UNCHANGED <<clockVars, merchantVars, payoutVars, blocked, kyb, spendLimit, spent,
                 rewardVars, disputeVars, appeal, unblocks, policy>>

-----------------------------------------------------------------------------
(* The withdrawal queue lists what was paid; working it off moves nothing.  *)

SetQueue(m, q) ==
  /\ queue' = [queue EXCEPT ![m] = q]
  /\ UNCHANGED <<clockVars, paymentVars, merchantVars, volume, cap, capped, preferred,
                 gateVars, rewardVars>> /\ KeepAll

(* One entry that is not completed stops the whole call.                    *)
ProcessWithdrawalQueue(m, n) ==
  LET k == Least(n, Len(queue[m])) IN
  /\ ~paused /\ queue[m] # <<>>
  /\ \A i \in 1..k : pay[queue[m][i][1]].status = "Completed"
  /\ SetQueue(m, SubSeq(queue[m], k + 1, Len(queue[m])))

(* Mutant of PrioritizeWithdrawal: the entry is not taken from its place.   *)
PrioritizeCopying(m, p) ==
  \E i \in DOMAIN queue[m] :
    /\ ~paused /\ queue[m][i][1] = p
    /\ SetQueue(m, <<queue[m][i]>> \o queue[m])

PrioritizeWithdrawal(m, p) ==
  \E i \in DOMAIN queue[m] :
    /\ ~paused /\ queue[m][i][1] = p
    /\ \A j \in 1..(i - 1) : queue[m][j][1] # p
    /\ SetQueue(m, <<queue[m][i]>> \o RemoveAt(queue[m], i))

-----------------------------------------------------------------------------
(* Caps and limits.                                                         *)

SetMerchantVolumeCap(m, x, window) ==
  /\ ~paused /\ x >= 0 /\ (x > 0 => window > 0)
  /\ cap' = [cap EXCEPT ![m] = IF x = 0 THEN NoLimit ELSE [amount |-> x, window |-> window]]
  /\ UNCHANGED <<clockVars, paymentVars, merchantVars, queue, volume, capped, preferred,
                 gateVars, rewardVars>> /\ KeepAll

SetLimits(l) ==
  /\ ~paused /\ limits' = l
  /\ UNCHANGED <<baseVars, caseVars, withdrawals, settlements, shopVars>>
SetWithdrawalWindow(window, x) ==
  window > 0 /\ x > 0 /\ SetLimits([limits EXCEPT !.global = [amount |-> x, window |-> window]])
SetWithdrawalLimit(m, window, x) ==
  window > 0 /\ x > 0 /\ SetLimits([limits EXCEPT !.own[m] = [amount |-> x, window |-> window]])
(* override_withdrawal_limit keeps the window in force, a day by default.   *)
OverrideWithdrawalLimit(m, x) ==
  x > 0 /\ SetLimits([limits EXCEPT !.own[m] =
    [amount |-> x, window |-> IF LimitOf(m) = NoLimit THEN cfg.day ELSE LimitOf(m).window]])

SetSpendLimits(m, l) ==
  /\ ~paused /\ spendLimit' = [spendLimit EXCEPT ![m] = l]
  /\ KeepPay /\ UNCHANGED <<merchantVars, rate, blocked, kyb, spent>> /\ KeepAll
SetCustomerSpendLimit(m, c, x, window) ==
  x > 0 /\ window > 0 /\
  SetSpendLimits(m, [spendLimit[m] EXCEPT !.own[c] = [amount |-> x, window |-> window]])
RemoveCustomerSpendLimit(m, c) ==
  SetSpendLimits(m, [spendLimit[m] EXCEPT !.own[c] = NoLimit])
SetDefaultSpendLimit(m, x, window) ==
  x > 0 /\ window > 0 /\
  SetSpendLimits(m, [spendLimit[m] EXCEPT !.default = [amount |-> x, window |-> window]])
SetBuyerTier(m, c, tier) ==
  SetSpendLimits(m, [spendLimit[m] EXCEPT !.tierOf[c] = tier])
SetTierSpendingLimit(m, tier, x, window) ==
  x > 0 /\ window > 0 /\
  SetSpendLimits(m, [spendLimit[m] EXCEPT !.tier[tier] = [amount |-> x, window |-> window]])

SetPreferredToken(m, t) ==
  /\ ~paused /\ preferred' = [preferred EXCEPT ![m] = t]
  /\ UNCHANGED <<clockVars, paymentVars, merchantVars, queue, volume, cap, capped,
                 gateVars, rewardVars>> /\ KeepAll

-----------------------------------------------------------------------------
(* Referrals.                                                               *)

RegisterReferral(by, m) ==
  /\ ~paused /\ standing[by].approved /\ ~standing[m].approved
  /\ referral' = [referral EXCEPT ![m] =
       [referrer |-> by, since |-> now, window |-> cfg.referralWindow]]
  /\ UNCHANGED <<clockVars, paymentVars, merchantVars, payoutVars, gateVars, points,
                 commission>> /\ KeepAll

(* claim_referral_commission: of the token the referrer names, out of what  *)
(* the contract holds; the fee it is a share of went to the fee recipient.  *)
ClaimReferralCommission(m, t) ==
  /\ ~paused /\ commission[m] > 0 /\ commission[m] <= held[t]
  /\ commission' = [commission EXCEPT ![m] = 0]
  /\ held' = [held EXCEPT ![t] = @ - commission[m]]
  /\ UNCHANGED <<clockVars, pay, counter, purse, merchantVars, payoutVars, gateVars,
                 points, referral>> /\ KeepAll

-----------------------------------------------------------------------------
(* Settings of the admin.                                                   *)

SetCfg(c) ==
  /\ cfg' = c
  /\ UNCHANGED <<now, paused, paymentVars, merchantVars, payoutVars, gateVars,
                 rewardVars>> /\ KeepAll
UpdateFee(bps) == ~paused /\ bps <= 500 /\ SetCfg([cfg EXCEPT !.feeBps = bps])
UpdateFeeTiers(tiers) ==
  /\ ~paused
  /\ \A i \in DOMAIN tiers : tiers[i].bps <= 500 /\ tiers[i].min >= 0
  /\ \A i, j \in DOMAIN tiers : i < j => tiers[i].min < tiers[j].min
  /\ SetCfg([cfg EXCEPT !.tiers = tiers])
SetDisputeTimeout(d) == ~paused /\ d > 0 /\ SetCfg([cfg EXCEPT !.disputeTimeout = d])
SetPaymentTimeout(d) == ~paused /\ d > 0 /\ SetCfg([cfg EXCEPT !.timeout = d])
SetPaymentExpiryBounds(lo, hi) ==
  ~paused /\ lo > 0 /\ lo <= hi /\ SetCfg([cfg EXCEPT !.minLife = lo, !.maxLife = hi])
UpdateExtensionConfig(ledgers, n) ==
  ~paused /\ ledgers > 0 /\ n > 0 /\
  SetCfg([cfg EXCEPT !.maxExtension = ledgers, !.maxExtensions = n])
UpdateRateLimitConfig(n, window) ==
  ~paused /\ n > 0 /\ window > 0 /\ SetCfg([cfg EXCEPT !.rateMax = n, !.rateWindow = window])
SetMerchantOpenMode(open) == ~paused /\ SetCfg([cfg EXCEPT !.openMode = open])
SetMinCollateral(x) == ~paused /\ x >= 0 /\ SetCfg([cfg EXCEPT !.minCollateral = x])
SetKybEnforcement(on) == SetCfg([cfg EXCEPT !.kybRequired = on])
SetAppealRejectionCooldown(d) == ~paused /\ SetCfg([cfg EXCEPT !.appealCooldown = d])
SetMaxCoolingOffLedgers(d) == SetCfg([cfg EXCEPT !.maxCooling = d])
SetEvidenceWindowLedgers(d) == SetCfg([cfg EXCEPT !.evidenceWindow = d])
SetMaxEvidenceSubmissions(n) == SetCfg([cfg EXCEPT !.maxEvidence = n])
ConfigureLoyalty(rate1, bps, least, life) ==
  SetCfg([cfg EXCEPT !.pointsPerUnit = rate1, !.redemptionBps = bps, !.floor = least,
                     !.pointsLife = life])
SetReferralConfig(bps, window) ==
  ~paused /\ SetCfg([cfg EXCEPT !.commissionBps = bps, !.referralWindow = window])
SetMaxBatchSize(n) == ~paused /\ n > 0 /\ SetCfg([cfg EXCEPT !.maxBatch = n])
SetMaxTipBps(bps) == bps <= AllBps /\ SetCfg([cfg EXCEPT !.maxTip = bps])
ConfigureDao(window, votes) ==
  ~paused /\ window > 0 /\ votes > 0 /\
  SetCfg([cfg EXCEPT !.voteWindow = window, !.minVotes = votes])

SetPaused(on) ==
  /\ paused = ~on /\ paused' = on
  /\ UNCHANGED <<now, cfg, paymentVars, merchantVars, payoutVars, gateVars,
                 rewardVars>> /\ KeepAll
PauseContract == SetPaused(TRUE)
ResumeContract == SetPaused(FALSE)

-----------------------------------------------------------------------------

MerchantsInit ==
  /\ appeal = [m \in Merchants |-> NoAppeal]
  /\ unblocks = [r \in Ids |-> <<>>]
  /\ policy = [m \in Merchants |-> NoPolicy]
  /\ approvals = [p \in Ids |-> NoState]
  /\ voucher = [m \in Merchants |-> [code \in Codes |-> NoVoucher]]

=============================================================================
