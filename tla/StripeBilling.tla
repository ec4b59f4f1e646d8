----------------------------- MODULE StripeBilling -----------------------------
(***************************************************************************)
(* One Business tenant and its Stripe billing: the checkout requests that   *)
(* reserve an attempt and drive it to a Stripe session, the webhook         *)
(* handlers that complete attempts and apply subscription events, and the   *)
(* sweep that restricts a tenant whose trial ended.  Every step is one      *)
(* statement or transaction, or one call of Stripe.  What a processed event *)
(* sets off elsewhere (monitoring limits, notifications) is left out.       *)
(*                                                                          *)
(* A request reserves at most one attempt and creates at most one customer, *)
(* so attempts, their idempotency keys, the sessions created under them and *)
(* the customers are all named after requests.                              *)
(*                                                                          *)
(* Stripe is external: a session is created once per idempotency key, the   *)
(* same key with another customer is an error, an event is delivered at     *)
(* least once, in any order, and is stamped with the second it happened in. *)
(***************************************************************************)
EXTENDS Naturals, FiniteSets

CONSTANTS
  Requests,      \* checkout requests of the tenant's owner
  Handlers,      \* webhook invocations that may run at once
  Plans,         \* what can be bought
  BadPlans,      \* the plans whose price Stripe refuses (StripeInvalidRequestError)
  NoCustomer,    \* the tenant has no subscription row yet
  MaxSecond,     \* how many seconds the clock of Stripe goes through
  MaxChanges,    \* how often the status of a subscription changes
  Prompt         \* whether requests and handlers end before what they work on lapses

ASSUME NamesAssumption == NoCustomer \notin Requests /\ BadPlans \subseteq Plans
ASSUME BoundsAssumption == MaxSecond \in Nat \ {0} /\ MaxChanges \in Nat /\ Prompt \in BOOLEAN

VARIABLES
  sub,       \* the Subscription row; `period' says that currentPeriodEnd is to come
  tenant,    \* Tenant.billingStatus and Tenant.accessState
  sweeping,  \* the sweep has listed the tenant
  attempt,   \* stripe_checkout_attempts; `late' says that expiresAt has passed
  req,       \* per request: where it is, the key it drives, the customer it uses
  hook,      \* per handler: where it is, the event, the status it found
  ledger,    \* stripe_webhook_events: the result of each recorded event
  session,   \* Stripe: the session created under a key
  bought,    \* Stripe: the status of the subscription a session led to
  events,    \* Stripe: the events
  second,    \* Stripe: its clock
  changes,   \* how often a subscription has changed
  urls       \* the sessions whose URL the owner was given

vars == <<sub, tenant, sweeping, attempt, req, hook, ledger, session, bought, events,
          second, changes, urls>>
stripe == <<session, bought, events, second, changes>>
app == <<sub, tenant, sweeping, attempt, req, hook, ledger, urls>>

-----------------------------------------------------------------------------
Statuses == {"no_subscription", "active", "past_due", "canceled"}
Live == {"CREATING", "OPEN"}
EventTypes == {"completed", "expired", "created", "updated", "deleted", "paid"}
\* The events whose subscription is retrieved when they are handled.
Retrieved == {"completed", "paid"}
Events == [key : Requests, type : EventTypes, status : Statuses, at : 1..MaxSecond]

SubRow == [customer : Requests \cup {NoCustomer}, status : Statuses, period : BOOLEAN,
           at : 0..MaxSecond, terminal : BOOLEAN]
TenantRow == [status : Statuses, access : {"full_access", "grace_period", "restricted"}]
Attempt == [status : {"none", "COMPLETED", "EXPIRED", "FAILED"} \cup Live,
            plan : Plans, late : BOOLEAN]
Request == [pc : {"start", "customer", "ensure", "session", "refused", "answered", "done"},
            key : Requests, cust : Requests \cup {NoCustomer}]
NoEvent == [pc |-> "idle"]
Handling == [pc : {"apply", "belt"}, ev : events, status : Statuses]
Session == [state : {"none", "open", "paid", "expired"}, cust : Requests \cup {NoCustomer}]

TypeOK ==
  /\ sub \in SubRow
  /\ tenant \in TenantRow
  /\ sweeping \in BOOLEAN
  /\ attempt \in [Requests -> Attempt]
  /\ req \in [Requests -> Request]
  /\ events \subseteq Events
  /\ hook \in [Handlers -> {NoEvent} \cup Handling]
  /\ DOMAIN ledger \subseteq events
  /\ \A e \in DOMAIN ledger : ledger[e] \in {"processed", "stale", "ignored"}
  /\ session \in [Requests -> Session]
  /\ bought \in [Requests -> {"none"} \cup Statuses]
  /\ second \in 1..MaxSecond /\ changes \in 0..MaxChanges
  /\ urls \subseteq Requests

Init ==
  /\ sub = [customer |-> NoCustomer, status |-> "no_subscription", period |-> FALSE,
            at |-> 0, terminal |-> FALSE]
  /\ tenant = [status |-> "no_subscription", access |-> "full_access"]
  /\ sweeping = FALSE
  /\ attempt \in [Requests -> [status : {"none"}, plan : Plans, late : {FALSE}]]
  /\ req = [r \in Requests |-> [pc |-> "start", key |-> r, cust |-> NoCustomer]]
  /\ hook = [h \in Handlers |-> NoEvent]
  /\ ledger = <<>>
  /\ session = [r \in Requests |-> [state |-> "none", cust |-> NoCustomer]]
  /\ bought = [r \in Requests |-> "none"]
  /\ events = {} /\ second = 1 /\ changes = 0 /\ urls = {}

-----------------------------------------------------------------------------
(* The checkout request: createCheckout, reserveCheckoutAttempt and          *)
(* driveCheckoutSession.                                                     *)

Go(r, pc) == req' = [req EXCEPT ![r].pc = pc]

\* evaluateCheckoutGuard on the subscription row.
MayCheckOut ==
  \/ sub.status = "no_subscription"
  \/ sub.status = "canceled" /\ ~sub.period

\* Mutant of Swept: every live attempt is taken for a stale one.
SweptAll == [k \in Requests |-> IF attempt[k].status \in Live
                                THEN [attempt[k] EXCEPT !.status = "EXPIRED"] ELSE attempt[k]]

\* The attempts after the stale ones were expired.
Swept == [k \in Requests |-> IF attempt[k].status \in Live /\ attempt[k].late
                             THEN [attempt[k] EXCEPT !.status = "EXPIRED"] ELSE attempt[k]]

\* The reservation is one transaction under the tenant's advisory lock: a
\* request inserts the one live attempt, continues the live attempt of its plan,
\* is given that one's URL, or is refused.  The plan it wants is attempt[r].plan.
Reserve(r) ==
  LET live == {k \in Requests : Swept[k].status \in Live}
  IN  /\ req[r].pc = "start" /\ MayCheckOut
      /\ \/ /\ live = {}
            /\ attempt' = [Swept EXCEPT ![r].status = "CREATING"]
            /\ Go(r, "customer")
         \/ \E k \in live :
              /\ attempt' = Swept
              /\ req' = [req EXCEPT ![r].key = k,
                           ![r].pc = IF /\ Swept[k].plan = Swept[r].plan
                                        /\ Swept[k].status = "CREATING"
                                     THEN "customer" ELSE "done"]
      /\ UNCHANGED <<sub, tenant, sweeping, hook, ledger, urls, stripe>>

Blocked(r) ==
  /\ req[r].pc = "start" /\ ~MayCheckOut
  /\ Go(r, "done")
  /\ UNCHANGED <<sub, tenant, sweeping, attempt, hook, ledger, urls, stripe>>

\* getStripeCustomerId, and the creation of a customer when there is none.
FindCustomer(r) ==
  /\ req[r].pc = "customer"
  /\ req' = IF sub.customer # NoCustomer
            THEN [req EXCEPT ![r].pc = "session", ![r].cust = sub.customer]
            ELSE [req EXCEPT ![r].pc = "ensure", ![r].cust = r]
  /\ UNCHANGED <<sub, tenant, sweeping, attempt, hook, ledger, urls, stripe>>

\* The upsert stores the customer whatever another request has stored meanwhile.
EnsureCustomer(r) ==
  /\ req[r].pc = "ensure"
  /\ sub' = [sub EXCEPT !.customer = req[r].cust]
  /\ Go(r, "session")
  /\ UNCHANGED <<tenant, sweeping, attempt, hook, ledger, urls, stripe>>

\* stripe.checkout.sessions.create under the attempt's key.  Stripe creates the
\* session or, for a key it knows, answers as before.
CreateSession(r) ==
  LET k == req[r].key
  IN  /\ req[r].pc = "session" /\ attempt[k].plan \notin BadPlans
      /\ \/ /\ session[k].state = "none"
            /\ session' = [session EXCEPT ![k] = [state |-> "open", cust |-> req[r].cust]]
         \/ /\ session[k].state # "none" /\ session[k].cust = req[r].cust
            /\ UNCHANGED session
      /\ Go(r, "answered")
      /\ UNCHANGED <<sub, tenant, sweeping, attempt, hook, ledger, urls, bought, events,
                     second, changes>>

\* A definitive refusal fails the attempt.
RefuseSession(r) ==
  /\ req[r].pc = "session" /\ attempt[req[r].key].plan \in BadPlans
  /\ Go(r, "refused")
  /\ UNCHANGED <<sub, tenant, sweeping, attempt, hook, ledger, urls, stripe>>

MarkFailed(r) ==
  LET k == req[r].key
  IN  /\ req[r].pc = "refused"
      /\ attempt' = [attempt EXCEPT ![k].status = IF @ = "CREATING" THEN "FAILED" ELSE @]
      /\ Go(r, "done")
      /\ UNCHANGED <<sub, tenant, sweeping, hook, ledger, urls, stripe>>

\* The conditional UPDATE of markCheckoutAttemptOpen: the attempt now lives as
\* long as the session.
Opened(row, k) ==
  IF row.status = "CREATING"
  THEN [row EXCEPT !.status = "OPEN", !.late = session[k].state = "expired"] ELSE row

\* The URL is returned whether or not the UPDATE found the attempt.
MarkOpen(r) ==
  LET k == req[r].key
  IN  /\ req[r].pc = "answered"
      /\ attempt' = [attempt EXCEPT ![k] = Opened(@, k)]
      /\ urls' = urls \cup {k}
      /\ Go(r, "done")
      /\ UNCHANGED <<sub, tenant, sweeping, hook, ledger, stripe>>

\* The call fails without telling whether it was executed (network error,
\* another customer under the same key), or the process dies.
GiveUp(r) ==
  /\ req[r].pc \notin {"start", "done"}
  /\ Go(r, "done")
  /\ UNCHANGED <<sub, tenant, sweeping, attempt, hook, ledger, urls, stripe>>

\* The three minutes of a CREATING attempt end.
AttemptLapses(k) ==
  /\ attempt[k].status = "CREATING" /\ ~attempt[k].late
  /\ Prompt => \A r \in Requests : req[r].key = k => req[r].pc \in {"start", "done"}
  /\ attempt' = [attempt EXCEPT ![k].late = TRUE]
  /\ UNCHANGED <<sub, tenant, sweeping, req, hook, ledger, urls, stripe>>

-----------------------------------------------------------------------------
(* Stripe.                                                                   *)

Event(k, type, status) == [key |-> k, type |-> type, status |-> status, at |-> second]

\* The owner pays in an open session: the subscription begins.
Pay(k) ==
  /\ k \in urls /\ session[k].state = "open"
  /\ session' = [session EXCEPT ![k].state = "paid"]
  /\ bought' = [bought EXCEPT ![k] = "active"]
  /\ events' = events \cup {Event(k, "created", "active"), Event(k, "completed", "active")}
  /\ UNCHANGED <<app, second, changes>>

SessionExpires(k) ==
  /\ session[k].state = "open"
  /\ session' = [session EXCEPT ![k].state = "expired"]
  /\ attempt' = [attempt EXCEPT ![k].late = @ \/ attempt[k].status = "OPEN"]
  /\ events' = events \cup {Event(k, "expired", "no_subscription")}
  /\ UNCHANGED <<sub, tenant, sweeping, req, hook, ledger, urls, bought, second, changes>>

\* A payment fails, is made good, or the subscription ends.
Change(k) ==
  /\ changes < MaxChanges
  /\ \E s \in {"active", "past_due", "canceled"}, type \in {"updated", "deleted", "paid"} :
       /\ <<bought[k], s, type>> \in {<<"active", "past_due", "updated">>, <<"past_due", "active", "paid">>,
                                      <<"active", "canceled", "deleted">>, <<"past_due", "canceled", "deleted">>}
       /\ bought' = [bought EXCEPT ![k] = s]
       /\ events' = events \cup {Event(k, type, s)}
  /\ changes' = changes + 1
  /\ UNCHANGED <<app, session, second>>

SecondPasses ==
  /\ second < MaxSecond
  /\ second' = second + 1
  /\ UNCHANGED <<app, session, bought, events, changes>>

-----------------------------------------------------------------------------
(* The webhook route and recordAndApplyStripeEvent.                          *)

\* An event arrives, for the first time or again.  A checkout event first closes
\* its attempt, found by the session id that markCheckoutAttemptOpen stored;
\* that bookkeeping may fail.
CloseAttempt(e) ==
  \/ /\ e.type = "completed"
     /\ attempt' = [attempt EXCEPT ![e.key].status = IF @ = "OPEN" THEN "COMPLETED" ELSE @]
  \/ /\ e.type = "expired"
     /\ attempt' = [attempt EXCEPT ![e.key].status = IF @ = "OPEN" THEN "EXPIRED" ELSE @]
  \/ UNCHANGED attempt

\* The upsert of the event's row: its result is the last one.
Recording(e, result) == [f \in DOMAIN ledger \cup {e} |-> IF f = e THEN result ELSE ledger[f]]

ReceiveExpired(h, e) ==
  /\ hook[h].pc = "idle" /\ e.type = "expired"
  /\ CloseAttempt(e)
  /\ ledger' \in {ledger, Recording(e, "ignored")}
  /\ UNCHANGED <<sub, tenant, sweeping, req, hook, urls, stripe>>

\* Then the subscription is taken from the event or retrieved, and an event that
\* was already processed is dropped.
Receive(h, e) ==
  /\ hook[h].pc = "idle" /\ e.type # "expired"
  /\ CloseAttempt(e)
  /\ hook' = IF e \in DOMAIN ledger /\ ledger[e] = "processed" THEN hook
             ELSE [hook EXCEPT ![h] = [pc |-> "apply", ev |-> e, status |->
                                         IF e.type \in Retrieved THEN bought[e.key] ELSE e.status]]
  /\ UNCHANGED <<sub, tenant, sweeping, req, ledger, urls, stripe>>

\* findTenantIdByStripeCustomer.
TenantFound(e) == session[e.key].cust = sub.customer

\* Mutants of Applies: after the first event only a terminal one is taken; the
\* later delivery wins within a second.
AppliesTerminal(at, terminal) == sub.at = 0 \/ terminal
AppliesTie(at, terminal) == sub.at <= at

\* The ordering rule: shouldApplyStripeEvent as the WHERE of the UPDATE.
Applies(at, terminal) ==
  \/ sub.at = 0
  \/ sub.at < at
  \/ terminal /\ sub.at = at /\ ~sub.terminal

\* resolveEffectiveAccessState; the grace period of a failed payment outlasts
\* the paid period by days the model does not count.
AccessOf(status, period) ==
  CASE status = "active" -> {"full_access"}
    [] status = "past_due" -> IF period THEN {"grace_period"} ELSE {"grace_period", "restricted"}
    [] status = "canceled" -> IF period THEN {"full_access"} ELSE {"restricted"}
    [] OTHER -> {"full_access", "restricted"}

\* The transaction: the subscription advances to a newer event, the tenant with
\* it, and the event is recorded.  An event of an unknown customer is ignored.
Apply(h) ==
  LET e == hook[h].ev
      status == hook[h].status
      terminal == e.type = "deleted" \/ status = "canceled"
  IN  /\ hook[h].pc = "apply"
      /\ \/ /\ ~TenantFound(e)
            /\ ledger' = Recording(e, "ignored")
            /\ hook' = [hook EXCEPT ![h] = NoEvent]
            /\ UNCHANGED <<sub, tenant>>
         \/ /\ TenantFound(e) /\ Applies(e.at, terminal)
            /\ \E period \in (IF status = "active" THEN {TRUE} ELSE BOOLEAN) :
               \E access \in AccessOf(status, period) :
                 /\ sub' = [sub EXCEPT !.status = status, !.period = period, !.at = e.at,
                                       !.terminal = terminal]
                 /\ tenant' = [status |-> status, access |-> access]
            /\ ledger' = Recording(e, "processed")
            /\ hook' = [hook EXCEPT ![h] = IF e.type \in {"created", "paid"}
                                           THEN [@ EXCEPT !.pc = "belt"] ELSE NoEvent]
         \/ /\ TenantFound(e) /\ ~Applies(e.at, terminal)
            /\ ledger' = Recording(e, "stale")
            /\ hook' = [hook EXCEPT ![h] = NoEvent]
            /\ UNCHANGED <<sub, tenant>>
      /\ UNCHANGED <<sweeping, attempt, req, urls, stripe>>

\* The transaction fails and is rolled back: Stripe delivers the event again.
Fail(h) ==
  /\ hook[h].pc # "idle"
  /\ hook' = [hook EXCEPT ![h] = NoEvent]
  /\ UNCHANGED <<sub, tenant, sweeping, attempt, req, ledger, urls, stripe>>

\* completeLiveCheckoutAttemptsForTenant.
Belt(h) ==
  /\ hook[h].pc = "belt"
  /\ attempt' = [k \in Requests |-> IF attempt[k].status \in Live
                                    THEN [attempt[k] EXCEPT !.status = "COMPLETED"] ELSE attempt[k]]
  /\ hook' = [hook EXCEPT ![h] = NoEvent]
  /\ UNCHANGED <<sub, tenant, sweeping, req, ledger, urls, stripe>>

-----------------------------------------------------------------------------
(* Time and sweepTrialExpirations.                                           *)

Unsubscribed == tenant.status = "no_subscription" /\ tenant.access = "full_access"

PeriodEnds ==
  /\ sub.period
  /\ sub' = [sub EXCEPT !.period = FALSE]
  /\ UNCHANGED <<tenant, sweeping, attempt, req, hook, ledger, urls, stripe>>

\* The trial may have ended at any time.
SweepLists ==
  /\ ~sweeping /\ Unsubscribed
  /\ sweeping' = TRUE
  /\ UNCHANGED <<sub, tenant, attempt, req, hook, ledger, urls, stripe>>

\* Mutant of SweepWrites: the predicate is not re-asserted in the write.
SweepWritesListed ==
  /\ sweeping
  /\ sweeping' = FALSE
  /\ tenant' = [tenant EXCEPT !.access = "restricted"]
  /\ UNCHANGED <<sub, attempt, req, hook, ledger, urls, stripe>>

SweepWrites ==
  /\ sweeping
  /\ sweeping' = FALSE
  /\ tenant' = IF Unsubscribed THEN [tenant EXCEPT !.access = "restricted"] ELSE tenant
  /\ UNCHANGED <<sub, attempt, req, hook, ledger, urls, stripe>>

-----------------------------------------------------------------------------
Next ==
  \/ \E r \in Requests :
       \/ Reserve(r) \/ Blocked(r) \/ FindCustomer(r) \/ EnsureCustomer(r) \/ CreateSession(r)
       \/ RefuseSession(r) \/ MarkFailed(r) \/ MarkOpen(r) \/ GiveUp(r) \/ AttemptLapses(r)
       \/ Pay(r) \/ SessionExpires(r) \/ Change(r)
  \/ \E h \in Handlers :
       \/ \E e \in events : Receive(h, e) \/ ReceiveExpired(h, e)
       \/ Apply(h) \/ Fail(h) \/ Belt(h)
  \/ SecondPasses \/ PeriodEnds \/ SweepLists \/ SweepWrites

Spec == Init /\ [][Next]_vars

-----------------------------------------------------------------------------
Recorded == {e \in DOMAIN ledger : ledger[e] # "ignored"}
LastSecond(E) == CHOOSE t \in {e.at : e \in E} : \A e \in E : e.at <= t

\* Once Stripe's events have all been recorded, whatever the order and the number
\* of their deliveries, the subscription row tells the status Stripe has: that of
\* the subscription of the newest events, if those of the last second do not
\* contradict each other (the stamps cannot order them, unless one is the end).
QuiescentRowIsTrue ==
  LET E == {e \in events : e.type # "expired"}
      newest == {e \in E : e.at = LastSecond(E)}
  IN  E # {} /\ E = Recorded =>
        \A k \in Requests :
          /\ \A e \in newest : e.key = k
          /\ \/ \A e, f \in newest : e.status = f.status
             \/ \E e \in newest : e.type = "deleted"
          => sub.status = bought[k]

\* A cancellation that was recorded is not undone by an event of that
\* subscription, be it late, repeated or of the same second: the row leaves
\* `canceled' only for a subscription bought later.
CancelledStaysCancelled ==
  \A e \in Recorded :
    e.type = "deleted" /\ (\A f \in events : f.key # e.key => f.at < e.at) => sub.status = "canceled"

\* A tenant whose subscription is active has full access: the sweep, which lists
\* it before and writes it after the payment was applied, does not restrict it.
PayingIsNotRestricted == sub.status = "active" => tenant = [status |-> "active", access |-> "full_access"]

\* Until a first purchase the owner never holds the URLs of two sessions that can
\* be paid, for one plan or for two, however the requests are repeated, refused or
\* lost, as long as none of them outlives its attempt.
OnePayableSession ==
  Prompt /\ (\A k \in Requests : bought[k] = "none") =>
    Cardinality({k \in urls : session[k].state = "open"}) <= 1

\* "a second subscription would double-bill".  TLC refutes it: an attempt is closed
\* before the subscription that came of it is stored.
OneSubscription == Cardinality({k \in Requests : bought[k] \in {"active", "past_due"}}) <= 1

\* "persist the mapping so a later webhook can derive the tenant from the customer".
\* TLC refutes it: two requests that drive one attempt create two customers.
PaidIsAttributed == \A k \in Requests : session[k].state = "paid" => session[k].cust = sub.customer
=============================================================================
