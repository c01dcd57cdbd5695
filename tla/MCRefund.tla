------------------------------- MODULE MCRefund -------------------------------
(***************************************************************************)
(* Instances of Refund for TLC.  A behaviour has a focus, the groups of    *)
(* entry points called in it; every period is a ledger or two.             *)
(***************************************************************************)
EXTENDS Refund, TLC

CONSTANTS customer, shop, admin, usdc, euro, self, holder, whale, Foci

VARIABLE focus      \* chosen once

MCVars == <<vars, focus>>

MCCustomers == {customer}
MCMerchants == {shop}
MCTokens == {usdc, euro}
MCContracts == {self}
MCVoters == {holder, whale}
MCStake == (holder :> 1) @@ (whale :> 2)
MCSpans == {1, 2}
MCVolumes == {1, 2}
MCAmounts == {40, 100}
MCPayment ==
  <<[customer |-> customer, merchant |-> shop, token |-> usdc, amount |-> 100, made |-> 1],
    [customer |-> customer, merchant |-> shop, token |-> euro, amount |-> 100, made |-> 1]>>
MCRules ==
  {[stake |-> 1, window |-> 1, quorum |-> 5000, delay |-> 1],
   [stake |-> 2, window |-> 1, quorum |-> 10000, delay |-> 1]}

Defaults ==
  [feeBps |-> 200, recipient |-> TRUE, tiers |-> <<>>, cooldown |-> 0,
   disputeWindow |-> 1, autoReject |-> 2, appealWindow |-> 1, cancelWindow |-> 2,
   response |-> 1, primary |-> 1, autoSpan |-> 1, extensionSpan |-> 1,
   senior |-> TRUE, seniorSpan |-> 1, missApproves |-> TRUE,
   offerLife |-> 1, offerAccept |-> FALSE, bonus |-> 1000,
   fraudThreshold |-> 3, fraudCap |-> 1, fraudDecay |-> 2,
   abuseThreshold |-> 15, blockSpan |-> 1, abusePeriod |-> 1, abuseFactor |-> 5000,
   rapidWindow |-> 1, reserveRatio |-> 5000, minReserve |-> 5000,
   policy |-> AnyRefund, origin |-> TRUE]

MCCfgs ==
  {[Defaults EXCEPT !.feeBps = 0, !.offerAccept = TRUE, !.appealWindow = 2],
   [Defaults EXCEPT !.recipient = FALSE, !.missApproves = FALSE, !.cooldown = 1],
   [Defaults EXCEPT !.tiers = <<[age |-> 1, bps |-> 10000], [age |-> 2, bps |-> 5000]>>,
                    !.policy = [window |-> 1, bps |-> 5000]]}

AllFoci == {"review", "appeals", "offers", "escalation", "vouchers", "reserves", "scores",
            "terms", "settings", "ends", "listing", "quotas", "votes", "tokens"}

-----------------------------------------------------------------------------

RefundFocus ==
  \/ focus = "review" /\ (Requesting \/ Reviewing \/ Closing \/ Extending)
  \/ focus = "appeals" /\ (Requesting \/ Reviewing \/ Closing \/ Appeals)
  \/ focus = "offers" /\ (Requesting \/ Offers \/ Appeals \/ Closing)
  \/ focus = "escalation" /\ (Requesting \/ Evidence \/ Escalation \/ Reviewing \/ Appeals)
  \/ focus = "vouchers" /\ (Requesting \/ Vouchers \/ Registering)
  \/ focus = "reserves" /\ (Requesting \/ Reviewing \/ Reserves)
  \/ focus = "scores" /\ (Requesting \/ Reviewing \/ Closing \/ Scores)
  \/ focus = "terms" /\ (Requesting \/ Reviewing \/ Terms \/ Closing)
  \/ focus = "settings" /\
       (Requesting \/ Reviewing \/ Offers \/ Escalation \/ Closing \/ Settings \/ Pausing)
  \/ focus = "ends" /\
       ((now = 1 /\ Requesting) \/ Offers \/ Evidence \/ Escalation \/ Closing \/ Extending)
  \/ focus = "tokens" /\
       (Requesting \/ \E r \in Ids : ApproveRefund(admin, r)
        \/ \E m \in Merchants, t \in Token, x \in Amounts : DepositReserve(m, t, x) \/ WithdrawReserve(m, t, x))

WhitelistFocus ==
  \/ focus = "listing" /\ Listing
  \/ focus = "quotas" /\ (Listing \/ Quotas)
  \/ focus = "votes" /\ (Governance \/ \E t \in Token : AddToken(t) \/ (now = 3 /\ SuspendTokenTimed(t, 2)))
  \/ focus = "tokens" /\ Listing
  \/ focus \notin {"listing", "quotas", "votes", "tokens"} /\ now = 1 /\ made = 0 /\ AddToken(usdc)

(* What would multiply the states is left to the foci that are about it.    *)
Few ==
  /\ now' <= CASE focus \in {"votes", "ends"} -> MaxTime [] focus = "tokens" -> 2 [] OTHER -> 3
  /\ focus \in {"terms", "tokens"} => made' <= 1
  /\ focus \in {"appeals", "escalation", "scores", "ends", "reserves", "settings", "tokens"} =>
       \A r \in Ids : refund[r].status = "None" => refund'[r].amount # 40
  /\ focus # "tokens" => \A r \in Ids : refund'[r].token = usdc
  /\ focus \notin {"tokens", "listing"} => held'[euro] = 0
  /\ \A m \in Merchants :
       /\ reserve'[m].kept <= 100 /\ reserve'[m].balance <= 40
       /\ reserve'[m].volume <= 40
       /\ reserve'[m].waived <= 2
       /\ focus = "tokens" => reserve'[m].kept # 40
  /\ \A t \in Token :
       /\ suspended'[t] <= IF focus = "votes" THEN MaxTime ELSE 3
       /\ focus = "tokens" => allowance'[self][t] \in {Never, Forever}
  /\ cfg # Defaults => cfg' = cfg
  /\ terms[shop].threshold # 0 => terms'[shop].threshold # 40
  /\ focus = "terms" /\ made > 0 => terms'[shop].policy = terms[shop].policy
  /\ focus \in {"votes", "quotas"} => euro \notin listed'
  /\ focus = "quotas" => suspended' = suspended /\ allowance' = allowance
  /\ rules' # rules => now <= 2
  /\ Cardinality({k \in Kind : proposal'[k] # [p \in Proposals |-> NoProposal]}) <= 1

MCNext ==
  /\ \/ RefundFocus /\ now' = now /\ UNCHANGED listVars
     \/ WhitelistFocus /\ now' = now /\ UNCHANGED refundVars
     \/ NextLedger /\ UNCHANGED <<whitelistVars, refundVars>>
  /\ Few
  /\ focus' = focus

MCInit ==
  /\ Init /\ focus \in Foci
  /\ rules.stake = 1
MCSpec == MCInit /\ [][MCNext]_MCVars

-----------------------------------------------------------------------------
(* Liveness: time passes, and what anyone may call once a deadline is over  *)
(* somebody calls, the customer for instance.  Nothing is assumed of the    *)
(* admin, the merchant or the senior reviewer.                              *)

Ends(A) == focus = "ends" /\ A /\ UNCHANGED <<now, whitelistVars, focus>>

LiveSpec ==
  /\ MCSpec
  /\ WF_MCVars(focus = "ends" /\ NextLedger /\ UNCHANGED <<whitelistVars, refundVars, focus>>)
  /\ \A r \in Ids :
       /\ WF_MCVars(Ends(AutoRejectStaleRefund(r)))
       /\ WF_MCVars(Ends(EscalateToSenior(r)))
       /\ WF_MCVars(Ends(TriggerSeniorAutoApprove(r)))
       /\ WF_MCVars(Ends(SettleExpiredCounterOffer(r)))

(* The deadline a waiting refund waits for is past the last ledger.         *)
BeyondClock(r) ==
  LET f == refund[r] IN
  \/ f.status = "Requested" /\ f.requested + cfg.autoReject + f.extension > MaxTime
  \/ f.status = "EvidenceSubmitted" /\ f.primaryUntil > MaxTime
  \/ f.status = "CounterOffered" /\ f.offer.until >= MaxTime
  \/ f.status = "EscalatedToSenior" /\ f.seniorUntil > MaxTime

(* No refund waits for ever on an absent admin, merchant or reviewer: one   *)
(* requested, countered, or answered with evidence is decided, or handed to *)
(* the appeal, by what anyone may call at its deadlines, however they are   *)
(* extended.  This needs a senior reviewer, and approval on the reviewer's  *)
(* silence, configured (focus "ends").                                      *)
RefundEnds ==
  \A r \in Ids :
    focus = "ends" /\ refund[r].status \in Waiting
      ~> refund[r].status \notin Waiting \/ BeyondClock(r)

=============================================================================
