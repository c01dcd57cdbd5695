------------------------------ MODULE MCPayments ------------------------------
(***************************************************************************)
(* Instances of Payments for TLC.  A behaviour has a focus: the groups of  *)
(* entry points called in it.  Amounts are around 100 so that basis points *)
(* do not vanish; time is short and every period a ledger or two.          *)
(***************************************************************************)
EXTENDS Payments, TLC

CONSTANTS
  customer, shop, stall, usdc, euro,
  sub, plan, invoice, debit, schedule, consent, code,
  Foci              \* the foci of the run

VARIABLE focus      \* chosen once

MCVars == <<vars, focus>>

Settings ==
  [openMode |-> TRUE, shortOfReserve |-> {stall}, delisted |-> {},
   bucket |-> 2, tiers |-> <<[min |-> 100, bps |-> 300]>>, feeBps |-> 100,
   router |-> TRUE, pointsLife |-> 2, pointsPerUnit |-> 100, commissionBps |-> 5000,
   rateWindow |-> 2, rateMax |-> 2, blockAge |-> 1, kybRequired |-> FALSE,
   timeout |-> 2, minLife |-> 1, maxLife |-> 2, maxCooling |-> 2, maxBatch |-> 2,
   slippage |-> 500, maxTip |-> 10000, maxExtension |-> 1, maxExtensions |-> 1,
   redemptionBps |-> 10000, floor |-> 10, disputeTimeout |-> 1, evidenceWindow |-> 1,
   maxEvidence |-> 1, voteWindow |-> 1, minVotes |-> 1, settlementWindow |-> 2,
   minCollateral |-> 40, appealCooldown |-> 1, day |-> 1, referralWindow |-> 2]

MCCustomers == {customer}
MCMerchants == {shop, stall}
MCTokens == {usdc, euro}
MCPrices == {40, 100}
MCTerms == {1, 2}
MCOraclePrices == {100, 200}
MCSplits == {<<>>, <<3333, 6667>>}
MCMembers == {shop, stall}
MCSigners == {customer, stall}
MCCodes == {code}
AllFoci == {"exits", "disputes", "evidence", "mediation", "settlement", "cooling", "tokens",
            "approvals", "vouchers", "standing", "gates", "limits",
            "spending", "rewards", "settings", "subscriptions", "debits", "schedules", "ends"}

-----------------------------------------------------------------------------

(* The entry points of a focus.                                             *)
LifecycleFocus ==
  \/ focus = "exits" /\
       (PlainCreation \/ Authorization \/ ScheduledCreation \/ Completion \/ ScheduleEnd
        \/ AuthorizationEnd \/ Expiry \/ Extension \/ Refunding)
  \/ focus = "disputes" /\ (PlainCreation \/ Refunding \/ Expiry)
  \/ focus = "evidence" /\ (PlainCreation \/ Authorization \/ AuthorizationEnd)
  \/ focus = "mediation" /\ (PlainCreation \/ Completion)
  \/ focus = "settlement" /\ (PlainCreation \/ Completion)
  \/ focus = "cooling" /\ (CoolingCreation \/ OwnTermsCreation \/ Completion)
  \/ focus = "tokens" /\ (PlainCreation \/ OracleCreation \/ Completion \/ Expiry)
  \/ focus = "approvals" /\ Completion
  \/ focus = "vouchers" /\ Completion
  \/ focus = "standing" /\ (PlainCreation \/ Authorization)
  \/ focus = "gates" /\ PlainCreation
  \/ focus \in {"limits", "spending"} /\ (PlainCreation \/ Completion)
  \/ focus = "rewards" /\ (PlainCreation \/ Completion \/ Redemption \/ Refunding)
  \/ focus = "debits" /\ FALSE
  \/ focus = "ends" /\ ((now = 1 /\ (PlainCreation \/ Authorization)) \/ Completion \/ Expiry
                         \/ Extension)

DisputeFocus ==
  \/ focus = "disputes" /\ (Disputing \/ Resolution)
  \/ focus = "evidence" /\ (Disputing \/ EvidenceNext)
  \/ focus = "mediation" /\ (Disputing \/ Resolution \/ DaoNext)
  \/ focus = "settlement" /\ (Disputing \/ Resolution \/ SettlementNext)
  \/ focus = "cooling" /\ CoolingNext

MerchantFocus ==
  \/ focus = "evidence" /\ CollateralNext
  \/ focus = "cooling" /\ QueueNext
  \/ focus = "tokens" /\ PreferenceNext
  \/ focus \in {"approvals", "ends"} /\ (MultisigNext \/ VoucherCreation)
  \/ focus = "vouchers" /\ (VoucherNext \/ VoucherCreation)
  \/ focus = "standing" /\ StandingNext
  \/ focus = "gates" /\ (GateNext \/ PauseNext)
  \/ focus = "limits" /\ LimitNext
  \/ focus = "spending" /\ SpendLimitNext
  \/ focus = "settings" /\ (SettingsNext \/ CollateralNext)
  \/ focus = "rewards" /\
       (ReferralNext \/ (now = 1 /\ (ApproveMerchant(stall) \/ DepositCollateral(stall, 40))))

RecurringFocus ==
  \/ focus = "subscriptions" /\ (SubscriptionNext \/ PlanNext)
  \/ focus = "debits" /\ (InvoiceNext \/ DebitNext)
  \/ focus = "schedules" /\ (ScheduleNext \/ ConsentNext)

(* Payments are made to the first merchant and in the collateral token, but *)
(* where a focus is about others.                                           *)
OneShop ==
  /\ \A p \in Ids : pay'[p].status # "None" => pay'[p].merchant = shop
  /\ focus # "rewards" =>
       /\ standing'[stall] = standing[stall] /\ collateral'[stall] = collateral[stall]
       /\ kyb'[stall] = kyb[stall] /\ blocked'[stall] = blocked[stall]
       /\ policy'[stall] = policy[stall] /\ voucher'[stall] = voucher[stall]
       /\ cap'[stall] = cap[stall] /\ spendLimit'[stall] = spendLimit[stall]
  /\ \A s \in Subs : subs'[s].merchant # stall /\ subs'[s].amount # 100
  /\ \A k \in Schedules : schedules'[k].merchant # stall /\ schedules'[k].amount # 40
  /\ \A k \in Plans : plans'[k].merchant # stall /\ plans'[k].amount # 100 /\ plans'[k].days # 2
  /\ \A i \in Invoices : invoices'[i].merchant # stall /\ invoices'[i].amount # 40
OnePrice ==
  focus \notin {"approvals", "vouchers", "limits", "spending", "ends"} =>
    \A p \in Ids : pay[p].status = "None" => pay'[p].amount # 40
OneToken ==
  focus # "tokens" => \A p \in Ids : pay'[p].status # "None" => pay'[p].token = usdc
OnePayment ==
  focus \in {"evidence", "mediation", "approvals", "standing", "vouchers", "limits", "spending", "ends"} =>
    counter' <= 1

NoLimits == [own |-> [m \in Merchants |-> NoLimit], global |-> NoLimit]

(* Terms that would multiply the states are set in the first ledger, and    *)
(* one setting is changed per behaviour.                                    *)
SetUpFirst ==
  /\ now > 1 => cap' = cap /\ limits' = limits /\ spendLimit' = spendLimit /\ retry' = retry
  /\ retry'.attempts = 2
  /\ now > 1 => /\ plans' = plans /\ unblocks' = unblocks
                /\ \A s \in Subs : subs[s] = NoSub => subs'[s] = NoSub
                /\ \A i \in Invoices : invoices[i] = NoCycle => invoices'[i] = NoCycle
  /\ counter > 0 => spendLimit' = spendLimit
  /\ focus = "ends" /\ now > 1 => policy' = policy /\ counter' = counter
  /\ cfg # Settings => cfg' = cfg
  /\ cap[shop] # NoLimit => limits' = limits
  /\ limits # NoLimits => cap' = cap
  /\ \A m \in Merchants : collateral'[m] <= IF focus = "rewards" THEN 40 ELSE 80

MCNext ==
  /\ \/ (Tick \/ LifecycleFocus) /\ UNCHANGED <<disputeVars, shopVars, recurringVars>>
     \/ DisputeFocus /\ UNCHANGED <<shopVars, recurringVars>>
     \/ MerchantFocus /\ UNCHANGED recurringVars
     \/ RecurringFocus
  /\ OneShop /\ OnePrice /\ OneToken /\ OnePayment /\ SetUpFirst
  /\ UNCHANGED focus

MCInit == Init /\ focus \in Foci
MCSpec == MCInit /\ [][MCNext]_MCVars

-----------------------------------------------------------------------------
(* Liveness.  Time passes, and what anyone may call once a period is over   *)
(* is called by somebody: the customer who wants the tokens back, the       *)
(* merchant who wants the debit.  Nothing is assumed of the admin, and      *)
(* nothing in the foci no liveness property is about.                       *)

Others == <<disputeVars, shopVars, recurringVars, focus>>

LiveSpec ==
  /\ MCSpec
  /\ WF_MCVars(focus \in {"ends", "debits"} /\ Tick /\ UNCHANGED Others)
  /\ \A p \in Ids :
       /\ WF_MCVars(focus = "ends" /\ ExpirePayment(p) /\ UNCHANGED Others)
       /\ WF_MCVars(focus = "ends" /\ ExpirePendingApproval(p)
                      /\ UNCHANGED <<recurringVars, focus>>)
  /\ \A d \in Debits :
       WF_MCVars(focus = "debits" /\ Linked(d) /\ (\E ok \in BOOLEAN : RetryFailedDebit(d, ok))
                   /\ UNCHANGED focus)

(* No payment waits for ever: one nobody completes, captures or approves is *)
(* given back once its deadline, the capture deadline or the approval       *)
(* window is over, however often the deadline is extended and the policy    *)
(* changed.  This is for a payment that was not partly refunded, in a       *)
(* contract that holds its tokens (focus "ends"): the expiry gives back the *)
(* full amount or nothing.                                                  *)
PaymentEnds ==
  \A p \in Ids :
    focus = "ends" /\ pay[p].status \in {"Pending", "Authorized", "PendingApproval"}
      ~> pay[p].status \in Closed

(* A debit that failed does not stay in the retry queue for ever: while it  *)
(* comes due within the clock, retries end in a payment or abandon it,      *)
(* whatever the customer's early retries did to its schedule.  Not so of a  *)
(* debit that names an invoice nobody ever made: its retry would panic.     *)
DebitEnds ==
  \A d \in Debits :
    debits[d].status = "Pending" /\ Linked(d)
      ~> debits[d].status \in {"Succeeded", "Abandoned"} \/ debits[d].next > MaxTime

=============================================================================
