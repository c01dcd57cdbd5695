--------------------------- MODULE PaymentsRecurring ---------------------------
(***************************************************************************)
(* Payments of ahjoor-payments that repeat: subscriptions and their plans, *)
(* recurring invoices, debits that are retried after they failed, payment  *)
(* schedules, and the consent records merchants keep beside them.  All of  *)
(* them move tokens from the customer to the merchant directly; only an    *)
(* invoice's cycle makes a payment the contract holds.                     *)
(***************************************************************************)
EXTENDS PaymentsMerchants

CONSTANTS
  Subs, Plans, Invoices, Debits, Schedules, Consents   \* bound: ids handed out

ASSUME DebitsAssumption == IsFiniteSet(Debits) /\ "None" \notin Invoices

VARIABLES
  subs,         \* DataKey::Subscription
  plans,        \* DataKey3::SubscriptionPlan
  invoices,     \* DataKey2::RecurringInvoice
  debits,       \* DataKey2::FailedDebit
  retry,        \* DataKey2::RetryConfig
  schedules,    \* DataKey3::RecurringSchedule
  consents      \* DataKey2::ConsentRecord

recurringVars == <<subs, plans, invoices, debits, retry, schedules, consents>>

NoSub == [subscriber |-> "None", merchant |-> "None", amount |-> 0, interval |-> 0,
          last |-> 0, max |-> 0, count |-> 0, active |-> FALSE, paused |-> FALSE,
          trialEnds |-> 0, pauses |-> 0, nextDue |-> 0, credit |-> 0]
NoPlan == [merchant |-> "None", amount |-> 0, days |-> 0, active |-> FALSE]
(* Besides the fields of the code, history no call reads: the payments made *)
(* by an invoice's trigger, the ids its events carry.                       *)
NoCycle == [customer |-> "None", merchant |-> "None", amount |-> 0, interval |-> 0,
            max |-> 0, count |-> 0, nextDue |-> 0, active |-> FALSE, payments |-> {}]
NoDebit == [invoice |-> "None", customer |-> "None", attempt |-> 0, next |-> 0,
            status |-> "None"]
NoConsent == [customer |-> "None", merchant |-> "None", expires |-> 0, signed |-> FALSE,
              revoked |-> FALSE]
MaxPauses == 3          \* MAX_SUBSCRIPTION_PAUSES

OnlyRecurring == UNCHANGED <<baseVars, disputeVars, shopVars>>
OnlySubs == OnlyRecurring /\ UNCHANGED <<plans, invoices, debits, retry, schedules, consents>>

-----------------------------------------------------------------------------
(* Subscriptions.                                                           *)

Store(s, r) == subs' = [subs EXCEPT ![s] = r] /\ OnlySubs

CreateSubscription(s, c, m, x, interval, max, trial) ==
  /\ ~paused /\ subs[s] = NoSub /\ x > 0 /\ interval > 0
  /\ Allowed(m)
  /\ Store(s, [NoSub EXCEPT !.subscriber = c, !.merchant = m, !.amount = x,
       !.interval = interval, !.max = max, !.active = TRUE,
       !.trialEnds = IF trial > 0 THEN now + trial ELSE 0, !.nextDue = now + interval])

(* charge_subscription: anyone, once the interval since the last charge is  *)
(* over.  A plan change's credit is used up by the first charge after it.   *)
Chargeable(s) ==
  /\ subs[s].active /\ ~subs[s].paused
  /\ subs[s].max > 0 => subs[s].count < subs[s].max
  /\ subs[s].count = 0 => subs[s].trialEnds <= now
  /\ subs[s].last > 0 => now >= subs[s].last + subs[s].interval
ChargeSubscription(s) ==
  /\ ~paused /\ Chargeable(s)
  /\ Store(s, [subs[s] EXCEPT !.last = now, !.count = @ + 1, !.credit = 0,
                              !.nextDue = now + subs[s].interval])

CancelSubscription(s) ==
  ~paused /\ subs[s] # NoSub /\ Store(s, [subs[s] EXCEPT !.active = FALSE])

(* pause_subscription and resume_subscription: the interval starts again.   *)
PauseSubscription(s) ==
  /\ ~paused /\ subs[s].active /\ ~subs[s].paused
  /\ Store(s, [subs[s] EXCEPT !.paused = TRUE])
ResumeSubscription(s) ==
  /\ ~paused /\ subs[s].active /\ subs[s].paused
  /\ Store(s, [subs[s] EXCEPT !.paused = FALSE, !.last = now,
                              !.nextDue = now + subs[s].interval])

(* The second pair counts the pauses; neither it nor the admin's resumption *)
(* moves the last charge, so the paused time counts toward the interval.    *)
PauseSubscriptionV2(s) ==
  /\ ~paused /\ subs[s].active /\ ~subs[s].paused /\ subs[s].pauses < MaxPauses
  /\ Store(s, [subs[s] EXCEPT !.paused = TRUE, !.pauses = @ + 1])
AdminResumeSubscription(s) ==
  /\ subs[s].active /\ subs[s].paused
  /\ Store(s, [subs[s] EXCEPT !.paused = FALSE, !.nextDue = now + subs[s].interval])
ResumeSubscriptionV2(s) == ~paused /\ AdminResumeSubscription(s)

SetSubscriptionPlan(k, m, x, days, active) ==
  /\ ~paused /\ x > 0 /\ days > 0
  /\ plans' = [plans EXCEPT ![k] =
       [merchant |-> m, amount |-> x, days |-> days, active |-> active]]
  /\ OnlyRecurring /\ UNCHANGED <<subs, invoices, debits, retry, schedules, consents>>

(* change_subscription_plan: the credit is for the whole days until the next *)
(* due date, whether or not anything was paid for them.                     *)
ChangeSubscriptionPlan(s, k) ==
  LET r == subs[s]
      left == Greatest(r.nextDue - now, 0) \div cfg.day
      credit == (r.amount * left) \div Greatest(1, r.interval \div cfg.day)
      interval == plans[k].days * cfg.day IN
  /\ ~paused /\ r.active /\ ~r.paused
  /\ plans[k].active /\ plans[k].merchant = r.merchant
  /\ Store(s, [r EXCEPT !.amount = plans[k].amount, !.interval = interval,
                        !.nextDue = now + interval, !.credit = credit])

-----------------------------------------------------------------------------
(* Recurring invoices and schedules: both count cycles.                     *)

(* One more cycle, the next due at d; the last one ends it.                 *)
Cycled(r, d) ==
  [r EXCEPT !.count = @ + 1, !.nextDue = d,
            !.active = r.active /\ (r.max > 0 => r.count + 1 < r.max)]

OnlyInvoices == UNCHANGED <<subs, plans, debits, retry, schedules, consents>>

NewCycle(c, m, x, interval, max) ==
  [customer |-> c, merchant |-> m, amount |-> x, interval |-> interval, max |-> max,
   count |-> 0, nextDue |-> now, active |-> TRUE, payments |-> {}]

CreateRecurringInvoice(i, c, m, x, interval, max) ==
  /\ ~paused /\ invoices[i] = NoCycle /\ x > 0 /\ interval > 0
  /\ Allowed(m)
  /\ invoices' = [invoices EXCEPT ![i] = NewCycle(c, m, x, interval, max)]
  /\ OnlyRecurring /\ OnlyInvoices

(* trigger_invoice_cycle makes a payment of the customer.                   *)
TriggerInvoiceCycle(i, t) ==
  LET r == invoices[i] IN
  /\ ~paused /\ r.active /\ now >= r.nextDue
  /\ r.max > 0 => r.count < r.max
  /\ CreatePayment(r.customer, r.merchant, t, r.amount, 0, 0, <<>>, 0, FALSE)
  /\ invoices' = [invoices EXCEPT ![i] =
       [Cycled(r, now + r.interval) EXCEPT !.payments = @ \cup {counter}]]
  /\ UNCHANGED <<disputeVars, shopVars>> /\ OnlyInvoices

CancelRecurringInvoice(i) ==
  /\ ~paused /\ invoices[i].active
  /\ invoices' = [invoices EXCEPT ![i].active = FALSE]
  /\ OnlyRecurring /\ OnlyInvoices

OnlySchedules ==
  OnlyRecurring /\ UNCHANGED <<subs, plans, invoices, debits, retry, consents>>

CreateRecurringPayment(k, c, m, x, interval, max) ==
  /\ ~paused /\ schedules[k] = NoCycle /\ x > 0 /\ interval > 0
  /\ schedules' = [schedules EXCEPT ![k] = NewCycle(c, m, x, interval, max)]
  /\ OnlySchedules
ExecuteRecurring(k) ==
  /\ ~paused /\ schedules[k].active /\ now >= schedules[k].nextDue
  /\ schedules' = [schedules EXCEPT ![k] = Cycled(@, now + schedules[k].interval)]
  /\ OnlySchedules
CancelRecurringPayment(k) ==
  /\ ~paused /\ schedules[k].active
  /\ schedules' = [schedules EXCEPT ![k].active = FALSE]
  /\ OnlySchedules

-----------------------------------------------------------------------------
(* Debits.  Whether the customer's allowance and balance cover one is the   *)
(* token contract's answer.                                                 *)

OnlyDebits == OnlyRecurring /\ UNCHANGED <<subs, plans, schedules, consents>>

(* set_retry_config.                                                        *)
SetRetryConfig(base, most, attempts) ==
  /\ base > 0 /\ most >= base /\ attempts > 0
  /\ retry' = [base |-> base, most |-> most, attempts |-> attempts]
  /\ OnlyDebits /\ UNCHANGED <<invoices, debits>>

(* initiate_allowed_payment: a debit that succeeds at once does not advance  *)
(* the invoice it is linked to.                                             *)
InitiateAllowedPayment(d, c, m, i, ok) ==
  /\ ~paused /\ debits[d] = NoDebit
  /\ Allowed(m)
  /\ debits' = [debits EXCEPT ![d] =
       [invoice |-> i, customer |-> c, attempt |-> 1,
        next |-> IF ok THEN 0 ELSE now + retry.base,
        status |-> IF ok THEN "Succeeded" ELSE "Pending"]]
  /\ OnlyDebits /\ UNCHANGED <<invoices, retry>>

(* The base interval doubles with every failure up to the longest.          *)
Backoff(attempt) ==
  LET doubled == retry.base * 2 ^ (attempt - 1) IN
  IF doubled \in 0 .. retry.most THEN doubled ELSE retry.most

(* The invoice a debit names may not have been handed out yet: nothing asks *)
(* when the debit is made, and a retry that would pay panics (9708).        *)
Linked(d) ==
  debits[d].invoice # "None" => invoices[debits[d].invoice] # NoCycle

(* Mutant of RetryDebit: a retry that pays leaves the invoice alone.         *)
RetryUncounted(d, ok) ==
  LET r == debits[d] IN
  /\ ~paused /\ r.status = "Pending"
  /\ IF ok
     THEN Linked(d) /\ debits' = [debits EXCEPT ![d].status = "Succeeded"]
     ELSE debits' = [debits EXCEPT ![d] = IF r.attempt + 1 > retry.attempts
            THEN [r EXCEPT !.attempt = @ + 1, !.status = "Abandoned"]
            ELSE [r EXCEPT !.attempt = @ + 1, !.next = now + Backoff(r.attempt + 1)]]
  /\ OnlyDebits /\ UNCHANGED <<invoices, retry>>

(* What a retry does once it may run; advance_recurring_invoice_on_retry_   *)
(* success counts a cycle of the invoice from the due date it had, unless   *)
(* the invoice has ended: then the debit is paid and not counted.           *)
RetryDebit(d, ok) ==
  LET r == debits[d] IN
  /\ ~paused /\ r.status = "Pending"
  /\ IF ok
     THEN /\ Linked(d)
          /\ debits' = [debits EXCEPT ![d].status = "Succeeded"]
          /\ invoices' = IF r.invoice # "None" /\ invoices[r.invoice].active
                         THEN [invoices EXCEPT ![r.invoice] =
                                 Cycled(@, @.nextDue + @.interval)]
                         ELSE invoices
     ELSE /\ debits' = [debits EXCEPT ![d] = IF r.attempt + 1 > retry.attempts
               THEN [r EXCEPT !.attempt = @ + 1, !.status = "Abandoned"]
               ELSE [r EXCEPT !.attempt = @ + 1, !.next = now + Backoff(r.attempt + 1)]]
          /\ invoices' = invoices
  /\ OnlyDebits /\ UNCHANGED retry

(* Mutant of RetryFailedDebit: the last attempt is refused.                 *)
RetryBeforeLast(d, ok) ==
  debits[d].attempt < retry.attempts /\ now >= debits[d].next /\ RetryDebit(d, ok)
RetryFailedDebit(d, ok) == now >= debits[d].next /\ RetryDebit(d, ok)
TriggerEarlyRetry(d, ok) == RetryDebit(d, ok)    \* the debited customer

-----------------------------------------------------------------------------
(* Consent records.                                                         *)

StoreConsent(k, r) ==
  /\ consents' = [consents EXCEPT ![k] = r]
  /\ OnlyRecurring /\ UNCHANGED <<subs, plans, invoices, debits, retry, schedules>>

CreateConsentRecord(k, m, c, expires) ==
  /\ ~paused /\ consents[k] = NoConsent /\ expires > now
  /\ StoreConsent(k, [NoConsent EXCEPT !.merchant = m, !.customer = c, !.expires = expires])
SignConsent(k) ==
  /\ ~paused /\ consents[k] # NoConsent
  /\ ~consents[k].revoked /\ ~consents[k].signed /\ consents[k].expires > now
  /\ StoreConsent(k, [consents[k] EXCEPT !.signed = TRUE])
RevokeConsent(k) ==
  /\ ~paused /\ consents[k] # NoConsent
  /\ StoreConsent(k, [consents[k] EXCEPT !.revoked = TRUE])

-----------------------------------------------------------------------------

RecurringInit ==
  /\ subs = [s \in Subs |-> NoSub]
  /\ plans = [k \in Plans |-> NoPlan]
  /\ invoices = [i \in Invoices |-> NoCycle]
  /\ debits = [d \in Debits |-> NoDebit]
  /\ retry = [base |-> 1, most |-> 2, attempts |-> 2]
  /\ schedules = [k \in Schedules |-> NoCycle]
  /\ consents = [k \in Consents |-> NoConsent]

=============================================================================
