-------------------------- MODULE StripeBillingProofs --------------------------
(***************************************************************************)
(* The safety of a tenant's billing, for any number of checkout requests,   *)
(* webhook handlers, plans, seconds and changes.                            *)
(*                                                                          *)
(* The subscription row follows Stripe's events by their stamps alone.  The *)
(* invariant says what is known of each of its sources: of the events, of   *)
(* the status a handler found and carries to its transaction, of the row,   *)
(* and of the events on record.  For checkout it says that a session the    *)
(* owner can pay, or soon will, belongs to the one live attempt.            *)
(***************************************************************************)
EXTENDS StripeBilling, TLAPS, FiniteSetTheorems

\* The events of a subscription.
Told == {e \in events : e.type # "expired"}

\* Stripe: what a subscription is now was told by one of its latest events, and its
\* end was told last.
StripeTells ==
  /\ \A e \in events : /\ e.at <= second
                       /\ e.type = "expired" => session[e.key].state = "expired"
                       /\ e.type = "deleted" => e.status = "canceled" /\ bought[e.key] = "canceled"
  /\ \A k \in Requests : bought[k] # "none" =>
       /\ session[k].state = "paid"
       /\ \E e \in Told : /\ e.key = k /\ e.status = bought[k]
                          /\ \A f \in Told : f.key = k => f.at <= e.at
  /\ \A e \in Told : /\ bought[e.key] # "none"
                     /\ e.type = "deleted" => \A f \in Told : f.key = e.key => f.at <= e.at

\* Status s was told of the subscription of event e, not before e.
ToldSince(e, s) == \E g \in Told : g.key = e.key /\ g.at >= e.at /\ g.status = s

HandlersTell ==
  \A h \in Handlers : hook[h].pc # "idle" =>
    /\ hook[h].ev \in Told /\ ToldSince(hook[h].ev, hook[h].status)
    /\ hook[h].ev.type = "deleted" => hook[h].status = "canceled"

RowTells ==
  /\ sub.terminal => sub.status = "canceled"
  /\ sub.at # 0 => \E f \in Told : f.at = sub.at /\ ToldSince(f, sub.status)

\* No event on record is newer than the row, and an end of the row's second ended it.
LedgerTells ==
  \A e \in Recorded : /\ e \in Told /\ e.at <= sub.at
                      /\ e.type = "deleted" /\ e.at = sub.at => sub.terminal

-----------------------------------------------------------------------------
Driven(k) == \E r \in Requests : req[r].key = k /\ req[r].pc \notin {"start", "done"}

\* The advisory lock: one attempt is live.
OneLive ==
  \A j, k \in Requests : attempt[j].status \in Live /\ attempt[k].status \in Live => j = k

\* Nothing is done under a key before its attempt is reserved.
ReservedFirst ==
  \A k \in Requests :
    /\ req[k].pc = "start" => attempt[k].status = "none" /\ req[k].key = k
    /\ attempt[k].status = "none" =>
         ~attempt[k].late /\ session[k].state = "none" /\ ~Driven(k)

\* Sessions are of plans that have a price, and URLs of sessions.
SessionsAreSold ==
  /\ \A k \in Requests : session[k].state # "none" => attempt[k].plan \notin BadPlans
  /\ \A k \in urls : session[k].state # "none" /\ attempt[k].status # "CREATING"
  /\ \A r \in Requests : /\ req[r].pc = "answered" => session[req[r].key].state # "none"
                         /\ req[r].pc = "refused" => attempt[req[r].key].plan \in BadPlans

\* Until a purchase, what is driven to a session or has one that can be paid is live.
DrivenIsLive ==
  Prompt /\ (\A k \in Requests : bought[k] = "none") =>
    \A k \in Requests :
      /\ Driven(k) \/ k \in urls
      /\ session[k].state \in {"none", "open"} /\ attempt[k].plan \notin BadPlans
      => attempt[k].status \in Live /\ ~attempt[k].late

-----------------------------------------------------------------------------
CheckoutTypes ==
  /\ attempt \in [Requests -> Attempt] /\ req \in [Requests -> Request]
  /\ session \in [Requests -> Session] /\ urls \subseteq Requests

CheckoutInv == CheckoutTypes /\ OneLive /\ ReservedFirst /\ SessionsAreSold /\ DrivenIsLive

BillingTypes ==
  /\ sub \in SubRow /\ tenant \in TenantRow /\ sweeping \in BOOLEAN
  /\ events \subseteq Events /\ hook \in [Handlers -> {NoEvent} \cup Handling]
  /\ DOMAIN ledger \subseteq events
  /\ \A e \in DOMAIN ledger : ledger[e] \in {"processed", "stale", "ignored"}
  /\ bought \in [Requests -> {"none"} \cup Statuses]
  /\ second \in 1..MaxSecond /\ changes \in 0..MaxChanges

BillingInv ==
  /\ BillingTypes /\ StripeTells /\ HandlersTell /\ RowTells /\ LedgerTells
  /\ PayingIsNotRestricted

IInv == CheckoutInv /\ BillingInv

-----------------------------------------------------------------------------
(* Checkout: steps that reserve nothing.                                     *)

\* Requests go on or end, attempts are closed or opened, and what was live and is
\* driven to a session that can be paid stays so.
LEMMA CheckoutKeeps ==
  ASSUME CheckoutInv, CheckoutTypes',
         \A k \in Requests :
           /\ attempt'[k].plan = attempt[k].plan
           /\ attempt'[k].status \in Live => attempt[k].status \in Live
           /\ attempt'[k].status = "none" => attempt'[k] = attempt[k]
           /\ attempt[k].status = "none" => attempt'[k] = attempt[k],
         \A r \in Requests :
           /\ req'[r].key = req[r].key
           /\ \/ req'[r].pc = req[r].pc
              \/ req'[r].pc = "done"
              \/ req[r].pc \notin {"start", "done"} /\ req'[r].pc # "start",
         \A k \in Requests :
           /\ session[k].state # "none" => session'[k].state # "none"
           /\ session'[k].state # "none" =>
                session[k].state # "none" \/ (Driven(k) /\ attempt[k].plan \notin BadPlans)
           /\ session'[k].state \in {"none", "open"} => session[k].state \in {"none", "open"},
         \A k \in urls' : /\ k \in urls \/ Driven(k)
                          /\ session'[k].state # "none" /\ attempt'[k].status # "CREATING",
         \A r \in Requests :
           /\ req'[r].pc = "answered" => session'[req[r].key].state # "none"
           /\ req'[r].pc = "refused" => attempt[req[r].key].plan \in BadPlans,
         \A k \in Requests : bought'[k] = "none" => bought[k] = "none",
         Prompt /\ (\A k \in Requests : bought'[k] = "none") =>
           \A k \in Requests :
             /\ Driven(k) \/ k \in urls
             /\ session'[k].state \in {"none", "open"} /\ attempt[k].plan \notin BadPlans
             /\ attempt[k].status \in Live /\ ~attempt[k].late
             => attempt'[k].status \in Live /\ ~attempt'[k].late
  PROVE  CheckoutInv'
<1>1. \A k \in Requests : Driven(k)' => Driven(k)
  BY DEF Driven
<1>2. OneLive'
  BY DEF CheckoutInv, OneLive
<1>3. ReservedFirst'
  <2>. SUFFICES ASSUME NEW k \in Requests
                PROVE  /\ req'[k].pc = "start" => attempt'[k].status = "none" /\ req'[k].key = k
                       /\ attempt'[k].status = "none" =>
                            ~attempt'[k].late /\ session'[k].state = "none" /\ ~Driven(k)'
    BY DEF ReservedFirst
  <2>1. /\ req[k].pc = "start" => attempt[k].status = "none" /\ req[k].key = k
        /\ attempt[k].status = "none" =>
             ~attempt[k].late /\ session[k].state = "none" /\ ~Driven(k)
    BY DEF CheckoutInv, ReservedFirst
  <2>. QED
    BY <2>1, <1>1
<1>4. SessionsAreSold'
  <2>1. \A k \in Requests : session'[k].state # "none" => attempt'[k].plan \notin BadPlans
    BY DEF CheckoutInv, SessionsAreSold
  <2>2. \A r \in Requests : req[r].key \in Requests
    BY DEF CheckoutInv, CheckoutTypes, Request
  <2>. QED
    BY <2>1, <2>2 DEF SessionsAreSold
<1>5. DrivenIsLive'
  <2>. SUFFICES ASSUME Prompt, \A k \in Requests : bought'[k] = "none", NEW k \in Requests,
                       Driven(k)' \/ k \in urls', session'[k].state \in {"none", "open"},
                       attempt'[k].plan \notin BadPlans
                PROVE  attempt'[k].status \in Live /\ ~attempt'[k].late
    BY DEF DrivenIsLive
  <2>1. Driven(k) \/ k \in urls
    BY <1>1
  <2>2. session[k].state \in {"none", "open"} /\ attempt[k].plan \notin BadPlans
    OBVIOUS
  <2>3. attempt[k].status \in Live /\ ~attempt[k].late
    BY <2>1, <2>2 DEF CheckoutInv, DrivenIsLive
  <2>. QED
    BY <2>1, <2>2, <2>3
<1>. QED
  BY <1>2, <1>3, <1>4, <1>5 DEF CheckoutInv

\* A step outside checkout.
LEMMA CheckoutCalm ==
  ASSUME CheckoutInv, UNCHANGED <<attempt, req, session, urls>>,
         \A k \in Requests : bought'[k] = "none" => bought[k] = "none"
  PROVE  CheckoutInv'
  BY DEF CheckoutInv, CheckoutTypes, OneLive, ReservedFirst, SessionsAreSold, DrivenIsLive, Driven

\* One request goes on.
LEMMA GoFacts ==
  ASSUME CheckoutInv, NEW r \in Requests,
         NEW p \in {"start", "customer", "ensure", "session", "refused", "answered", "done"}, Go(r, p)
  PROVE  /\ req' \in [Requests -> Request] /\ req'[r].pc = p
         /\ req'[r].key = req[r].key /\ req[r].key \in Requests
         /\ \A q \in Requests : q # r => req'[q] = req[q]
<1>1. req \in [Requests -> Request] /\ req[r] \in Request
  BY DEF CheckoutInv, CheckoutTypes
<1>. DEFINE t == [req[r] EXCEPT !.pc = p]
<1>2. t \in Request /\ t.pc = p /\ t.key = req[r].key /\ req[r].key \in Requests
  BY <1>1 DEF Request
<1>3. req' = [req EXCEPT ![r] = t]
  BY DEF Go
<1>. HIDE DEF t
<1>. QED
  BY <1>1, <1>2, <1>3

LEMMA DrivenByMe ==
  ASSUME NEW r \in Requests, req[r].pc \notin {"start", "done"} PROVE Driven(req[r].key)
  BY DEF Driven

\* Requests that only move.
LEMMA RequestMoves ==
  ASSUME CheckoutInv, NEW r \in Requests, UNCHANGED <<attempt, session, urls, bought>>,
         req' \in [Requests -> Request], req'[r].key = req[r].key,
         \A q \in Requests : q # r => req'[q] = req[q],
         \/ req'[r].pc = "done"
         \/ req[r].pc \notin {"start", "done"} /\ req'[r].pc \notin {"start", "answered", "refused"}
         \/ /\ req'[r].pc = "refused" /\ attempt[req[r].key].plan \in BadPlans
            /\ req[r].pc \notin {"start", "done"}
  PROVE  CheckoutInv'
<1>1. CheckoutTypes'
  BY DEF CheckoutInv, CheckoutTypes
<1>2. \A q \in Requests :
        /\ req'[q].pc = "answered" => session'[req[q].key].state # "none"
        /\ req'[q].pc = "refused" => attempt[req[q].key].plan \in BadPlans
  BY DEF CheckoutInv, SessionsAreSold
<1>3. \A k \in urls' : /\ k \in urls \/ Driven(k)
                       /\ session'[k].state # "none" /\ attempt'[k].status # "CREATING"
  BY DEF CheckoutInv, SessionsAreSold
<1>. QED
  BY <1>1, <1>2, <1>3, CheckoutKeeps

LEMMA MovesKeepCheckout ==
  ASSUME CheckoutInv, BillingTypes, NEW r \in Requests,
         Blocked(r) \/ FindCustomer(r) \/ EnsureCustomer(r) \/ RefuseSession(r) \/ GiveUp(r)
  PROVE  CheckoutInv'
<1>1. UNCHANGED <<attempt, session, urls, bought>>
  BY DEF Blocked, FindCustomer, EnsureCustomer, RefuseSession, GiveUp, stripe
<1>2. CASE Blocked(r) \/ GiveUp(r)
  <2>1. Go(r, "done")
    BY <1>2 DEF Blocked, GiveUp
  <2>. QED
    BY <1>1, <2>1, GoFacts, RequestMoves
<1>3. CASE EnsureCustomer(r)
  <2>1. Go(r, "session") /\ req[r].pc = "ensure"
    BY <1>3 DEF EnsureCustomer
  <2>. QED
    BY <1>1, <2>1, GoFacts, RequestMoves
<1>4. CASE RefuseSession(r)
  <2>1. Go(r, "refused") /\ req[r].pc = "session" /\ attempt[req[r].key].plan \in BadPlans
    BY <1>4 DEF RefuseSession
  <2>. QED
    BY <1>1, <2>1, GoFacts, RequestMoves
<1>5. CASE FindCustomer(r)
  <2>1. req \in [Requests -> Request] /\ req[r] \in Request
    BY DEF CheckoutInv, CheckoutTypes
  <2>2. PICK t : /\ req' = [req EXCEPT ![r] = t] /\ req[r].pc = "customer"
                 /\ \/ t = [req[r] EXCEPT !.pc = "ensure", !.cust = r]
                    \/ t = [req[r] EXCEPT !.pc = "session", !.cust = sub.customer]
    BY <1>5 DEF FindCustomer
  <2>3. sub.customer \in Requests \cup {NoCustomer}
    BY DEF BillingTypes, SubRow
  <2>4. t \in Request /\ t.pc \in {"ensure", "session"} /\ t.key = req[r].key
    BY <2>1, <2>2, <2>3 DEF Request
  <2>5. /\ req' \in [Requests -> Request] /\ req'[r] = t
        /\ \A q \in Requests : q # r => req'[q] = req[q]
    BY <2>1, <2>2, <2>4
  <2>. QED
    BY <1>1, <2>2, <2>4, <2>5, RequestMoves
<1>. QED
  BY <1>2, <1>3, <1>4, <1>5

LEMMA CreateSessionKeepsCheckout ==
  ASSUME CheckoutInv, NEW r \in Requests, CreateSession(r) PROVE CheckoutInv'
<1>. DEFINE k == req[r].key
            t == [state |-> "open", cust |-> req[r].cust]
<1>1. /\ Go(r, "answered") /\ req[r].pc = "session" /\ attempt[k].plan \notin BadPlans
      /\ UNCHANGED <<attempt, urls, bought>>
      /\ \/ session[k].state = "none" /\ session' = [session EXCEPT ![k] = t]
         \/ session[k].state # "none" /\ session' = session
  BY DEF CreateSession
<1>2. /\ req' \in [Requests -> Request] /\ req'[r].pc = "answered"
      /\ req'[r].key = k /\ k \in Requests
      /\ \A q \in Requests : q # r => req'[q] = req[q]
  BY <1>1, GoFacts
<1>3. t \in Session /\ t.state = "open"
  BY DEF CheckoutInv, CheckoutTypes, Request, Session
<1>. HIDE DEF t
<1>4. session \in [Requests -> Session]
  BY DEF CheckoutInv, CheckoutTypes
<1>5. /\ session' \in [Requests -> Session] /\ session'[k].state # "none"
      /\ \A j \in Requests : \/ session'[j] = session[j]
                             \/ j = k /\ session[j].state = "none" /\ session'[j].state = "open"
  BY <1>1, <1>2, <1>3, <1>4
<1>6. Driven(k)
  BY <1>1, DrivenByMe
<1>. HIDE DEF k
<1>7. CheckoutTypes'
  BY <1>1, <1>2, <1>5 DEF CheckoutInv, CheckoutTypes
<1>8. \A q \in Requests :
        /\ req'[q].pc = "answered" => session'[req[q].key].state # "none"
        /\ req'[q].pc = "refused" => attempt[req[q].key].plan \in BadPlans
  <2>. SUFFICES ASSUME NEW q \in Requests
                PROVE  /\ req'[q].pc = "answered" => session'[req[q].key].state # "none"
                       /\ req'[q].pc = "refused" => attempt[req[q].key].plan \in BadPlans
    OBVIOUS
  <2>1. CASE q = r
    BY <2>1, <1>2, <1>5 DEF k
  <2>2. CASE q # r
    <3>1. req[q].key \in Requests
      BY DEF CheckoutInv, CheckoutTypes, Request
    <3>. QED
      BY <2>2, <3>1, <1>2, <1>5 DEF CheckoutInv, SessionsAreSold
  <2>. QED
    BY <2>1, <2>2
<1>9. \A j \in urls' : /\ j \in urls \/ Driven(j)
                       /\ session'[j].state # "none" /\ attempt'[j].status # "CREATING"
  BY <1>1, <1>5 DEF CheckoutInv, CheckoutTypes, SessionsAreSold
<1>10. \A q \in Requests :
         /\ req'[q].key = req[q].key
         /\ \/ req'[q].pc = req[q].pc
            \/ req[q].pc \notin {"start", "done"} /\ req'[q].pc # "start"
  BY <1>1, <1>2 DEF k
<1>. QED
  BY <1>1, <1>5, <1>6, <1>7, <1>8, <1>9, <1>10, CheckoutKeeps

\* The UPDATE of one attempt by a request that ends, or by nobody.
LEMMA AttemptMoves ==
  ASSUME CheckoutInv, NEW k \in Requests, NEW t \in Attempt, attempt' = [attempt EXCEPT ![k] = t],
         UNCHANGED session, req' \in [Requests -> Request],
         \A q \in Requests : /\ req'[q].key = req[q].key
                             /\ req'[q].pc = req[q].pc \/ req'[q].pc = "done",
         t.plan = attempt[k].plan, t.status = "none" => t = attempt[k],
         attempt[k].status = "none" => t = attempt[k],
         t.status \in Live => attempt[k].status \in Live,
         t.status = "CREATING" => attempt[k].status = "CREATING",
         \A j \in urls' : \/ j \in urls
                          \/ /\ j = k /\ Driven(k)
                             /\ session[k].state # "none" /\ t.status # "CREATING",
         \A j \in Requests : bought'[j] = "none" => bought[j] = "none",
         Prompt /\ (\A j \in Requests : bought'[j] = "none") /\ (Driven(k) \/ k \in urls)
           /\ session[k].state \in {"none", "open"} /\ attempt[k].plan \notin BadPlans
           /\ attempt[k].status \in Live /\ ~attempt[k].late
           => t.status \in Live /\ ~t.late
  PROVE  CheckoutInv'
<1>1. /\ attempt' \in [Requests -> Attempt] /\ attempt'[k] = t
      /\ \A j \in Requests : j # k => attempt'[j] = attempt[j]
  BY DEF CheckoutInv, CheckoutTypes
<1>2. CheckoutTypes'
  BY <1>1 DEF CheckoutInv, CheckoutTypes
<1>3. \A q \in Requests :
        /\ req'[q].pc = "answered" => session'[req[q].key].state # "none"
        /\ req'[q].pc = "refused" => attempt[req[q].key].plan \in BadPlans
  BY DEF CheckoutInv, SessionsAreSold
<1>4. \A j \in urls' : /\ j \in urls \/ Driven(j)
                       /\ session'[j].state # "none" /\ attempt'[j].status # "CREATING"
  BY <1>1 DEF CheckoutInv, SessionsAreSold, CheckoutTypes
<1>5. \A j \in Requests :
           /\ attempt'[j].plan = attempt[j].plan
           /\ attempt'[j].status \in Live => attempt[j].status \in Live
           /\ attempt'[j].status = "none" => attempt'[j] = attempt[j]
           /\ attempt[j].status = "none" => attempt'[j] = attempt[j]
  BY <1>1
<1>6. Prompt /\ (\A j \in Requests : bought'[j] = "none") =>
           \A j \in Requests :
             /\ Driven(j) \/ j \in urls
             /\ session'[j].state \in {"none", "open"} /\ attempt[j].plan \notin BadPlans
             /\ attempt[j].status \in Live /\ ~attempt[j].late
             => attempt'[j].status \in Live /\ ~attempt'[j].late
  BY <1>1
<1>. QED
  BY <1>2, <1>3, <1>4, <1>5, <1>6, CheckoutKeeps

\* A refused plan has no session.
LEMMA MarkFailedKeepsCheckout ==
  ASSUME CheckoutInv, NEW r \in Requests, MarkFailed(r) PROVE CheckoutInv'
<1>. DEFINE k == req[r].key
            s == IF attempt[k].status = "CREATING" THEN "FAILED" ELSE attempt[k].status
            t == [attempt[k] EXCEPT !.status = s]
<1>1. /\ Go(r, "done") /\ req[r].pc = "refused" /\ UNCHANGED <<session, urls, bought>>
      /\ attempt' = [attempt EXCEPT ![k].status = s]
  BY DEF MarkFailed, stripe
<1>2. /\ req' \in [Requests -> Request] /\ req'[r].pc = "done"
      /\ req'[r].key = k /\ k \in Requests
      /\ \A q \in Requests : q # r => req'[q] = req[q]
  BY <1>1, GoFacts
<1>3. attempt \in [Requests -> Attempt] /\ attempt[k] \in Attempt
  BY <1>2 DEF CheckoutInv, CheckoutTypes
<1>4. /\ t \in Attempt /\ t.status = s /\ t.plan = attempt[k].plan
      /\ attempt' = [attempt EXCEPT ![k] = t]
  BY <1>1, <1>3 DEF Attempt
<1>5. attempt[k].plan \in BadPlans /\ Driven(k) /\ attempt[k].status # "none"
  BY <1>1, <1>2, DrivenByMe DEF CheckoutInv, SessionsAreSold, ReservedFirst
<1>6. /\ s # "none" /\ s # "CREATING" /\ (s \in Live => attempt[k].status \in Live)
  BY <1>5 DEF Live
<1>7. \A q \in Requests : /\ req'[q].key = req[q].key
                          /\ req'[q].pc = req[q].pc \/ req'[q].pc = "done"
  BY <1>2
<1>. HIDE DEF k, s, t
<1>. QED
  BY <1>1, <1>2, <1>4, <1>5, <1>6, <1>7, AttemptMoves

\* An attempt opened is as late as its session.
LEMMA MarkOpenKeepsCheckout ==
  ASSUME CheckoutInv, NEW r \in Requests, MarkOpen(r) PROVE CheckoutInv'
<1>. DEFINE k == req[r].key
            t == Opened(attempt[k], k)
<1>1. /\ Go(r, "done") /\ req[r].pc = "answered" /\ UNCHANGED <<session, bought>>
      /\ attempt' = [attempt EXCEPT ![k] = t] /\ urls' = urls \cup {k}
  BY DEF MarkOpen, stripe
<1>2. /\ req' \in [Requests -> Request] /\ req'[r].pc = "done"
      /\ req'[r].key = k /\ k \in Requests
      /\ \A q \in Requests : q # r => req'[q] = req[q]
  BY <1>1, GoFacts
<1>3. attempt[k] \in Attempt
  BY <1>2 DEF CheckoutInv, CheckoutTypes
<1>4. /\ session[k].state # "none" /\ Driven(k) /\ attempt[k].status # "none"
  BY <1>1, <1>2, DrivenByMe DEF CheckoutInv, SessionsAreSold, ReservedFirst
<1>5. /\ t \in Attempt /\ t.plan = attempt[k].plan
      /\ attempt[k].status = "CREATING" =>
           t.status = "OPEN" /\ t.late = (session[k].state = "expired")
      /\ attempt[k].status # "CREATING" => t = attempt[k]
  BY <1>3 DEF Opened, Attempt, Live
<1>8. \A q \in Requests : /\ req'[q].key = req[q].key
                          /\ req'[q].pc = req[q].pc \/ req'[q].pc = "done"
  BY <1>2
<1>. HIDE DEF k, t
<1>6. /\ t.status \notin {"none", "CREATING"} /\ (t.status \in Live => attempt[k].status \in Live)
  BY <1>4, <1>5 DEF Live
<1>7. /\ attempt[k].status \in Live /\ ~attempt[k].late /\ session[k].state \in {"none", "open"}
      => t.status \in Live /\ ~t.late
  BY <1>5 DEF Live
<1>. QED
  BY <1>1, <1>2, <1>4, <1>5, <1>6, <1>7, <1>8, AttemptMoves

\* A prompt request does not outlive its attempt.
LEMMA AttemptLapsesKeepsCheckout ==
  ASSUME CheckoutInv, NEW k \in Requests, AttemptLapses(k) PROVE CheckoutInv'
<1>. DEFINE t == [attempt[k] EXCEPT !.late = TRUE]
<1>1. /\ attempt[k].status = "CREATING" /\ attempt' = [attempt EXCEPT ![k].late = TRUE]
      /\ Prompt => ~Driven(k)
      /\ UNCHANGED <<req, session, urls, bought>>
  BY DEF AttemptLapses, stripe, Driven
<1>2. attempt \in [Requests -> Attempt] /\ attempt[k] \in Attempt /\ req' \in [Requests -> Request]
  BY <1>1 DEF CheckoutInv, CheckoutTypes
<1>3. /\ t \in Attempt /\ t.status = attempt[k].status /\ t.plan = attempt[k].plan
      /\ attempt' = [attempt EXCEPT ![k] = t]
  BY <1>1, <1>2 DEF Attempt
<1>4. k \notin urls
  BY <1>1 DEF CheckoutInv, SessionsAreSold
<1>. HIDE DEF t
<1>. QED
  BY <1>1, <1>2, <1>3, <1>4, AttemptMoves

\* A checkout event closes an attempt whose session is paid or expired.
LEMMA CloseAttemptKeepsCheckout ==
  ASSUME CheckoutInv, BillingInv, NEW e \in events, CloseAttempt(e),
         UNCHANGED <<req, session, urls, bought>>
  PROVE  CheckoutInv'
<1>1. CASE UNCHANGED attempt
  BY <1>1, CheckoutCalm
<1>2. ASSUME NEW c \in {"COMPLETED", "EXPIRED"}, e.type \in {"completed", "expired"},
             attempt' = [attempt EXCEPT ![e.key].status = IF @ = "OPEN" THEN c ELSE @]
      PROVE  CheckoutInv'
  <2>. DEFINE k == e.key
              s == IF attempt[k].status = "OPEN" THEN c ELSE attempt[k].status
              t == [attempt[k] EXCEPT !.status = s]
  <2>1. k \in Requests
    BY DEF BillingInv, BillingTypes, Events
  <2>2. /\ attempt \in [Requests -> Attempt] /\ attempt[k] \in Attempt
        /\ req' \in [Requests -> Request]
    BY <2>1 DEF CheckoutInv, CheckoutTypes
  <2>3. /\ t \in Attempt /\ t.status = s /\ t.plan = attempt[k].plan /\ t.late = attempt[k].late
        /\ attempt' = [attempt EXCEPT ![k] = t]
    BY <1>2, <2>1, <2>2 DEF Attempt
  <2>4. bought[k] # "none" \/ session[k].state = "expired"
    BY <1>2 DEF BillingInv, StripeTells, Told
  <2>5. /\ attempt[k].status = "none" => t = attempt[k]
        /\ t.status = "none" => t = attempt[k]
    BY <2>2 DEF Attempt
  <2>6. /\ t.status \in Live => attempt[k].status \in Live
        /\ t.status = "CREATING" => attempt[k].status = "CREATING"
    BY <2>3 DEF Live
  <2>. HIDE DEF k, s, t
  <2>. QED
    BY <2>1, <2>2, <2>3, <2>4, <2>5, <2>6, AttemptMoves
<1>. QED
  BY <1>1, <1>2 DEF CloseAttempt

LEMMA SessionExpiresKeepsCheckout ==
  ASSUME CheckoutInv, NEW k \in Requests, SessionExpires(k) PROVE CheckoutInv'
<1>. DEFINE l == attempt[k].late \/ attempt[k].status = "OPEN"
            t == [attempt[k] EXCEPT !.late = l]
            x == [session[k] EXCEPT !.state = "expired"]
<1>1. /\ session[k].state = "open" /\ UNCHANGED <<req, urls, bought>>
      /\ session' = [session EXCEPT ![k] = x]
      /\ attempt' = [attempt EXCEPT ![k] = t]
  BY DEF SessionExpires
<1>2. /\ attempt \in [Requests -> Attempt] /\ attempt[k] \in Attempt
      /\ session \in [Requests -> Session] /\ session[k] \in Session
  BY DEF CheckoutInv, CheckoutTypes
<1>3. x \in Session /\ x.state = "expired"
  BY <1>2 DEF Session
<1>4. l \in BOOLEAN
  BY <1>2 DEF Attempt
<1>. HIDE DEF l, x
<1>5. t \in Attempt /\ t.status = attempt[k].status /\ t.plan = attempt[k].plan
  BY <1>2, <1>4 DEF Attempt
<1>6. attempt[k].status # "none"
  BY <1>1 DEF CheckoutInv, ReservedFirst
<1>. HIDE DEF t
<1>7. /\ session' \in [Requests -> Session] /\ session'[k].state = "expired"
      /\ \A j \in Requests : j # k => session'[j] = session[j]
  BY <1>1, <1>2, <1>3
<1>8. /\ attempt' \in [Requests -> Attempt] /\ attempt'[k] = t
      /\ \A j \in Requests : j # k => attempt'[j] = attempt[j]
  BY <1>1, <1>2, <1>5
<1>9. CheckoutTypes'
  BY <1>1, <1>7, <1>8 DEF CheckoutInv, CheckoutTypes
<1>10. \A q \in Requests :
         /\ req'[q].pc = "answered" => session'[req[q].key].state # "none"
         /\ req'[q].pc = "refused" => attempt[req[q].key].plan \in BadPlans
  <2>1. \A q \in Requests : req[q].key \in Requests
    BY DEF CheckoutInv, CheckoutTypes, Request
  <2>. QED
    BY <1>1, <1>7, <2>1 DEF CheckoutInv, SessionsAreSold
<1>11. \A j \in urls' : /\ j \in urls \/ Driven(j)
                        /\ session'[j].state # "none" /\ attempt'[j].status # "CREATING"
  BY <1>1, <1>5, <1>7, <1>8 DEF CheckoutInv, CheckoutTypes, SessionsAreSold
<1>12. \A j \in Requests :
         /\ attempt'[j].plan = attempt[j].plan /\ attempt'[j].status = attempt[j].status
         /\ attempt[j].status = "none" => attempt'[j] = attempt[j]
  BY <1>5, <1>6, <1>8
<1>13. \A j \in Requests :
         /\ session[j].state # "none" => session'[j].state # "none"
         /\ session'[j].state # "none" => session[j].state # "none"
         /\ session'[j].state \in {"none", "open"} =>
              session[j].state \in {"none", "open"} /\ attempt'[j] = attempt[j]
  BY <1>1, <1>7, <1>8
<1>. QED
  BY <1>1, <1>9, <1>10, <1>11, <1>12, <1>13, CheckoutKeeps

LEMMA PayKeepsCheckout ==
  ASSUME CheckoutInv, NEW k \in Requests, Pay(k), bought \in [Requests -> {"none"} \cup Statuses]
  PROVE  CheckoutInv'
<1>. DEFINE x == [session[k] EXCEPT !.state = "paid"]
<1>1. /\ session[k].state = "open" /\ UNCHANGED <<attempt, req, urls>>
      /\ session' = [session EXCEPT ![k] = x] /\ bought' = [bought EXCEPT ![k] = "active"]
  BY DEF Pay, app
<1>2. session \in [Requests -> Session] /\ session[k] \in Session
  BY DEF CheckoutInv, CheckoutTypes
<1>3. x \in Session /\ x.state = "paid"
  BY <1>2 DEF Session
<1>. HIDE DEF x
<1>4. /\ session' \in [Requests -> Session] /\ session'[k].state = "paid"
      /\ \A j \in Requests : j # k => session'[j] = session[j]
  BY <1>1, <1>2, <1>3
<1>5. bought'[k] = "active" /\ \A j \in Requests : j # k => bought'[j] = bought[j]
  BY <1>1
<1>6. CheckoutTypes'
  BY <1>1, <1>4 DEF CheckoutInv, CheckoutTypes
<1>7. \A q \in Requests :
        /\ req'[q].pc = "answered" => session'[req[q].key].state # "none"
        /\ req'[q].pc = "refused" => attempt[req[q].key].plan \in BadPlans
  <2>1. \A q \in Requests : req[q].key \in Requests
    BY DEF CheckoutInv, CheckoutTypes, Request
  <2>. QED
    BY <1>1, <1>4, <2>1 DEF CheckoutInv, SessionsAreSold
<1>8. \A j \in urls' : /\ j \in urls \/ Driven(j)
                       /\ session'[j].state # "none" /\ attempt'[j].status # "CREATING"
  BY <1>1, <1>4 DEF CheckoutInv, CheckoutTypes, SessionsAreSold
<1>9. \A j \in Requests :
        /\ session[j].state # "none" => session'[j].state # "none"
        /\ session'[j].state # "none" => session[j].state # "none"
        /\ session'[j].state \in {"none", "open"} => session[j].state \in {"none", "open"}
  BY <1>1, <1>4
<1>10. \A j \in Requests : bought'[j] = "none" => bought[j] = "none"
  BY <1>5
<1>11. ~(\A j \in Requests : bought'[j] = "none")
  BY <1>5
<1>. QED
  BY <1>1, <1>6, <1>7, <1>8, <1>9, <1>10, <1>11, CheckoutKeeps

\* The belt completes what is live, after a purchase.
LEMMA BeltKeepsCheckout ==
  ASSUME CheckoutInv, BillingInv, NEW h \in Handlers, Belt(h) PROVE CheckoutInv'
<1>1. /\ UNCHANGED <<req, session, urls, bought>> /\ hook[h].pc = "belt"
      /\ attempt' = [k \in Requests |-> IF attempt[k].status \in Live
                                        THEN [attempt[k] EXCEPT !.status = "COMPLETED"] ELSE attempt[k]]
  BY DEF Belt, stripe
<1>2. attempt \in [Requests -> Attempt]
  BY DEF CheckoutInv, CheckoutTypes
<1>3. \A k \in Requests :
        /\ attempt'[k] \in Attempt /\ attempt'[k].plan = attempt[k].plan
        /\ attempt[k].status \in Live => attempt'[k].status = "COMPLETED"
        /\ attempt[k].status \notin Live => attempt'[k] = attempt[k]
  <2>. SUFFICES ASSUME NEW k \in Requests
                PROVE  /\ attempt'[k] \in Attempt /\ attempt'[k].plan = attempt[k].plan
                       /\ attempt[k].status \in Live => attempt'[k].status = "COMPLETED"
                       /\ attempt[k].status \notin Live => attempt'[k] = attempt[k]
    OBVIOUS
  <2>. DEFINE t == [attempt[k] EXCEPT !.status = "COMPLETED"]
  <2>1. t \in Attempt /\ t.plan = attempt[k].plan /\ t.status = "COMPLETED"
    BY <1>2 DEF Attempt
  <2>2. attempt'[k] = IF attempt[k].status \in Live THEN t ELSE attempt[k]
    BY <1>1
  <2>. HIDE DEF t
  <2>. QED
    BY <1>2, <2>1, <2>2
<1>4. attempt' \in [Requests -> Attempt]
  BY <1>1, <1>3
<1>5. CheckoutTypes'
  BY <1>1, <1>4 DEF CheckoutInv, CheckoutTypes
<1>6. hook[h].ev \in Told /\ bought[hook[h].ev.key] # "none" /\ hook[h].ev.key \in Requests
  BY <1>1 DEF BillingInv, HandlersTell, StripeTells, Told, BillingTypes, Events
<1>7. \A j \in Requests :
        /\ attempt'[j].plan = attempt[j].plan
        /\ attempt'[j].status \notin Live /\ attempt'[j].status # "CREATING"
        /\ attempt'[j].status = "none" => attempt'[j] = attempt[j]
        /\ attempt[j].status = "none" => attempt'[j] = attempt[j]
  BY <1>3 DEF Live
<1>8. \A q \in Requests :
        /\ req'[q].pc = "answered" => session'[req[q].key].state # "none"
        /\ req'[q].pc = "refused" => attempt[req[q].key].plan \in BadPlans
  BY <1>1 DEF CheckoutInv, SessionsAreSold
<1>9. \A j \in urls' : /\ j \in urls \/ Driven(j)
                       /\ session'[j].state # "none" /\ attempt'[j].status # "CREATING"
  BY <1>1, <1>7 DEF CheckoutInv, CheckoutTypes, SessionsAreSold
<1>. QED
  BY <1>1, <1>5, <1>6, <1>7, <1>8, <1>9, CheckoutKeeps

-----------------------------------------------------------------------------
(* Checkout: the reservation.                                                *)

\* The attempts after the stale ones were expired.
LEMMA SweptFacts ==
  ASSUME CheckoutInv
  PROVE  /\ Swept \in [Requests -> Attempt]
         /\ \A k \in Requests :
              /\ Swept[k].plan = attempt[k].plan /\ Swept[k].late = attempt[k].late
              /\ \/ Swept[k] = attempt[k]
                 \/ attempt[k].status \in Live /\ attempt[k].late /\ Swept[k].status = "EXPIRED"
              /\ Swept[k].status \in Live => ~attempt[k].late
<1>1. attempt \in [Requests -> Attempt]
  BY DEF CheckoutInv, CheckoutTypes
<1>2. ASSUME NEW k \in Requests
      PROVE  /\ Swept[k] \in Attempt
             /\ Swept[k].plan = attempt[k].plan /\ Swept[k].late = attempt[k].late
             /\ \/ Swept[k] = attempt[k]
                \/ attempt[k].status \in Live /\ attempt[k].late /\ Swept[k].status = "EXPIRED"
             /\ Swept[k].status \in Live => ~attempt[k].late
  <2>. DEFINE t == [attempt[k] EXCEPT !.status = "EXPIRED"]
  <2>1. /\ t \in Attempt /\ t.plan = attempt[k].plan /\ t.late = attempt[k].late
        /\ t.status = "EXPIRED"
    BY <1>1 DEF Attempt
  <2>2. Swept[k] = IF attempt[k].status \in Live /\ attempt[k].late THEN t ELSE attempt[k]
    BY DEF Swept
  <2>. HIDE DEF t
  <2>. QED
    BY <1>1, <2>1, <2>2 DEF Live
<1>3. Swept \in [Requests -> Attempt]
  BY <1>2 DEF Swept
<1>. QED
  BY <1>2, <1>3

\* A first attempt is inserted when no other is live, and the live one is driven on
\* while it is not late.
LEMMA ReserveKeepsCheckout ==
  ASSUME CheckoutInv, NEW r \in Requests, Reserve(r) PROVE CheckoutInv'
<1>1. /\ req[r].pc = "start" /\ UNCHANGED <<session, urls, bought>>
      /\ req \in [Requests -> Request] /\ req[r] \in Request
  BY DEF Reserve, stripe, CheckoutInv, CheckoutTypes
<1>2. attempt[r].status = "none" /\ req[r].key = r /\ session[r].state = "none" /\ ~attempt[r].late
  BY <1>1 DEF CheckoutInv, ReservedFirst
<1>3. \A k \in Requests : attempt[k].status = "none" => Swept[k] = attempt[k]
  BY SweptFacts DEF Live
<1>4. \A k \in Requests : /\ Swept[k].status \in Live => attempt[k].status \in Live
                          /\ Swept[k].status = "none" => attempt[k].status = "none"
                          /\ Swept[k].status = "CREATING" => attempt[k].status = "CREATING"
  BY SweptFacts DEF Live
<1>5. \A k \in Requests : /\ session[k].state # "none" => attempt[k].plan \notin BadPlans
                          /\ k \in urls => session[k].state # "none" /\ attempt[k].status # "CREATING"
  BY DEF CheckoutInv, SessionsAreSold
<1>6. \A k \in Requests : ~attempt[k].late => Swept[k] = attempt[k]
  BY SweptFacts
<1>7. CASE /\ \A k \in Requests : Swept[k].status \notin Live
           /\ attempt' = [Swept EXCEPT ![r].status = "CREATING"] /\ Go(r, "customer")
  <2>. DEFINE t == [Swept[r] EXCEPT !.status = "CREATING"]
  <2>1. t \in Attempt /\ t.status = "CREATING" /\ t.plan = attempt[r].plan /\ ~t.late
    BY <1>2, SweptFacts DEF Attempt, Live
  <2>2. attempt' = [Swept EXCEPT ![r] = t]
    BY <1>7
  <2>. HIDE DEF t
  <2>3. /\ attempt' \in [Requests -> Attempt] /\ attempt'[r] = t
        /\ \A k \in Requests : k # r => attempt'[k] = Swept[k]
    BY <2>1, <2>2, SweptFacts
  <2>4. /\ req' \in [Requests -> Request] /\ req'[r].pc = "customer" /\ req'[r].key = r
        /\ \A q \in Requests : q # r => req'[q] = req[q]
    BY <1>2, <1>7, GoFacts
  <2>5. CheckoutTypes'
    BY <1>1, <2>3, <2>4 DEF CheckoutInv, CheckoutTypes
  <2>6. \A k \in Requests : k # r /\ Driven(k)' => Driven(k)
    BY <2>4 DEF Driven
  <2>7. OneLive'
    BY <1>7, <2>1, <2>3 DEF OneLive
  <2>8. ReservedFirst'
    BY <1>1, <1>3, <1>4, <2>1, <2>3, <2>4, <2>6 DEF CheckoutInv, ReservedFirst
  <2>9. SessionsAreSold'
    <3>1. \A k \in Requests : session'[k].state # "none" => attempt'[k].plan \notin BadPlans
      BY <1>1, <1>2, <1>5, <2>3, SweptFacts
    <3>2. \A k \in urls' : session'[k].state # "none" /\ attempt'[k].status # "CREATING"
      BY <1>1, <1>2, <1>4, <1>5, <2>3, <2>5 DEF CheckoutTypes
    <3>3. \A q \in Requests : /\ req'[q].pc = "answered" => session'[req'[q].key].state # "none"
                              /\ req'[q].pc = "refused" => attempt'[req'[q].key].plan \in BadPlans
      <4>. SUFFICES ASSUME NEW q \in Requests, q # r
                    PROVE  /\ req[q].pc = "answered" => session[req[q].key].state # "none"
                           /\ req[q].pc = "refused" => attempt'[req[q].key].plan \in BadPlans
        BY <1>1, <2>4
      <4>1. req[q].key \in Requests
        BY <1>1 DEF Request
      <4>2. attempt'[req[q].key].plan = attempt[req[q].key].plan
        BY <4>1, <2>1, <2>3, SweptFacts
      <4>. QED
        BY <4>2 DEF CheckoutInv, SessionsAreSold
    <3>. QED
      BY <3>1, <3>2, <3>3 DEF SessionsAreSold
  <2>10. DrivenIsLive'
    <3>. SUFFICES ASSUME Prompt, \A k \in Requests : bought[k] = "none", NEW k \in Requests,
                         Driven(k)' \/ k \in urls, session[k].state \in {"none", "open"},
                         attempt'[k].plan \notin BadPlans
                  PROVE  attempt'[k].status \in Live /\ ~attempt'[k].late
      BY <1>1 DEF DrivenIsLive
    <3>1. CASE k = r
      BY <3>1, <2>1, <2>3 DEF Live
    <3>2. CASE k # r
      <4>1. attempt[k].status \in Live /\ ~attempt[k].late
        BY <3>2, <2>3, <2>6, SweptFacts DEF CheckoutInv, DrivenIsLive
      <4>. QED
        BY <3>2, <4>1, <1>6, <2>3
    <3>. QED
      BY <3>1, <3>2
  <2>. QED
    BY <2>5, <2>7, <2>8, <2>9, <2>10 DEF CheckoutInv
<1>8. ASSUME NEW k \in Requests, Swept[k].status \in Live, attempt' = Swept, NEW p \in {"customer", "done"},
             req' = [req EXCEPT ![r].key = k, ![r].pc = p]
      PROVE  CheckoutInv'
  <2>. DEFINE t == [req[r] EXCEPT !.key = k, !.pc = p]
  <2>1. t \in Request /\ t.key = k /\ t.pc = p
    BY <1>1 DEF Request
  <2>2. req' = [req EXCEPT ![r] = t]
    BY <1>8
  <2>. HIDE DEF t
  <2>3. /\ req' \in [Requests -> Request] /\ req'[r] = t
        /\ \A q \in Requests : q # r => req'[q] = req[q]
    BY <1>1, <2>1, <2>2
  <2>4. CheckoutTypes'
    BY <1>1, <1>8, <2>3, SweptFacts DEF CheckoutInv, CheckoutTypes
  <2>5. \A j \in Requests : j # k /\ Driven(j)' => Driven(j)
    BY <2>1, <2>3 DEF Driven
  <2>6. OneLive'
    BY <1>4, <1>8 DEF CheckoutInv, OneLive
  <2>7. ReservedFirst'
    BY <1>1, <1>3, <1>4, <1>8, <2>1, <2>3, <2>5 DEF CheckoutInv, ReservedFirst, Live
  <2>8. SessionsAreSold'
    <3>1. \A j \in Requests : session'[j].state # "none" => attempt'[j].plan \notin BadPlans
      BY <1>1, <1>5, <1>8, SweptFacts
    <3>2. \A j \in urls' : session'[j].state # "none" /\ attempt'[j].status # "CREATING"
      BY <1>1, <1>4, <1>5, <1>8, <2>4 DEF CheckoutTypes
    <3>3. \A q \in Requests : /\ req'[q].pc = "answered" => session'[req'[q].key].state # "none"
                              /\ req'[q].pc = "refused" => attempt'[req'[q].key].plan \in BadPlans
      <4>. SUFFICES ASSUME NEW q \in Requests, q # r
                    PROVE  /\ req[q].pc = "answered" => session[req[q].key].state # "none"
                           /\ req[q].pc = "refused" => attempt'[req[q].key].plan \in BadPlans
        BY <1>1, <2>1, <2>3
      <4>1. req[q].key \in Requests
        BY <1>1 DEF Request
      <4>2. attempt'[req[q].key].plan = attempt[req[q].key].plan
        BY <4>1, <1>8, SweptFacts
      <4>. QED
        BY <4>2 DEF CheckoutInv, SessionsAreSold
    <3>. QED
      BY <3>1, <3>2, <3>3 DEF SessionsAreSold
  <2>9. DrivenIsLive'
    <3>. SUFFICES ASSUME Prompt, \A j \in Requests : bought[j] = "none", NEW j \in Requests,
                         Driven(j)' \/ j \in urls, session[j].state \in {"none", "open"},
                         attempt'[j].plan \notin BadPlans
                  PROVE  attempt'[j].status \in Live /\ ~attempt'[j].late
      BY <1>1 DEF DrivenIsLive
    <3>1. CASE j = k
      BY <3>1, <1>8, SweptFacts
    <3>2. CASE j # k
      <4>1. attempt[j].status \in Live /\ ~attempt[j].late
        BY <3>2, <1>8, <2>5, SweptFacts DEF CheckoutInv, DrivenIsLive
      <4>. QED
        BY <4>1, <1>6, <1>8
    <3>. QED
      BY <3>1, <3>2
  <2>. QED
    BY <2>4, <2>6, <2>7, <2>8, <2>9 DEF CheckoutInv
<1>. QED
  <2>1. \/ /\ {k \in Requests : Swept[k].status \in Live} = {}
           /\ attempt' = [Swept EXCEPT ![r].status = "CREATING"] /\ Go(r, "customer")
        \/ \E k \in {j \in Requests : Swept[j].status \in Live}, p \in {"customer", "done"} :
             attempt' = Swept /\ req' = [req EXCEPT ![r].key = k, ![r].pc = p]
    BY DEF Reserve
  <2>. QED
    BY <1>7, <1>8, <2>1

-----------------------------------------------------------------------------
(* Billing: steps of checkout, of Stripe and of time.                        *)

\* The row keeps its status and stamp, and what is paid or expired remains so.
LEMMA BillingCalm ==
  ASSUME BillingInv, UNCHANGED <<hook, ledger, bought, events, second, changes>>,
         sub' \in SubRow, sub'.status = sub.status, sub'.at = sub.at, sub'.terminal = sub.terminal,
         tenant' \in TenantRow, sweeping' \in BOOLEAN, PayingIsNotRestricted',
         \A k \in Requests : session[k].state \in {"paid", "expired"} =>
           session'[k].state = session[k].state
  PROVE  BillingInv'
<1>1. BillingTypes'
  BY DEF BillingInv, BillingTypes, Handling
<1>2. Told' = Told /\ Recorded' = Recorded
  BY DEF Told, Recorded
<1>3. \A e \in events : e.key \in Requests
  BY DEF BillingInv, BillingTypes, Events
<1>4. StripeTells'
  BY <1>2, <1>3 DEF BillingInv, StripeTells
<1>5. HandlersTell' /\ RowTells'
  BY <1>2 DEF BillingInv, HandlersTell, RowTells, ToldSince
<1>6. LedgerTells'
  BY <1>2 DEF BillingInv, LedgerTells
<1>. QED
  BY <1>1, <1>4, <1>5, <1>6 DEF BillingInv

LEMMA RequestsKeepBilling ==
  ASSUME BillingInv, CheckoutInv, NEW r \in Requests,
         \/ Reserve(r) \/ Blocked(r) \/ FindCustomer(r) \/ EnsureCustomer(r) \/ CreateSession(r)
         \/ RefuseSession(r) \/ MarkFailed(r) \/ MarkOpen(r) \/ GiveUp(r) \/ AttemptLapses(r)
  PROVE  BillingInv'
<1>1. UNCHANGED <<tenant, sweeping, hook, ledger, bought, events, second, changes>>
  BY DEF Reserve, Blocked, FindCustomer, EnsureCustomer, CreateSession, RefuseSession, MarkFailed,
         MarkOpen, GiveUp, AttemptLapses, stripe
<1>2. /\ sub' \in SubRow /\ sub'.status = sub.status /\ sub'.at = sub.at
      /\ sub'.terminal = sub.terminal
  <2>1. sub \in SubRow
    BY DEF BillingInv, BillingTypes
  <2>2. CASE sub' = sub
    BY <2>1, <2>2
  <2>3. CASE EnsureCustomer(r)
    <3>1. req[r].cust \in Requests \cup {NoCustomer}
      BY DEF CheckoutInv, CheckoutTypes, Request
    <3>. QED
      BY <2>1, <2>3, <3>1 DEF EnsureCustomer, SubRow
  <2>. QED
    BY <2>2, <2>3
    DEF Reserve, Blocked, FindCustomer, CreateSession, RefuseSession, MarkFailed, MarkOpen,
        GiveUp, AttemptLapses
<1>3. \A k \in Requests : session[k].state \in {"paid", "expired"} =>
        session'[k].state = session[k].state
  <2>1. CASE session' = session
    BY <2>1
  <2>2. CASE CreateSession(r)
    BY <2>2 DEF CreateSession, CheckoutInv, CheckoutTypes
  <2>. QED
    BY <2>1, <2>2
    DEF Reserve, Blocked, FindCustomer, EnsureCustomer, RefuseSession, MarkFailed, MarkOpen,
        GiveUp, AttemptLapses, stripe
<1>4. tenant' \in TenantRow /\ sweeping' \in BOOLEAN
  BY <1>1 DEF BillingInv, BillingTypes
<1>5. PayingIsNotRestricted'
  BY <1>1, <1>2 DEF BillingInv, PayingIsNotRestricted
<1>. QED
  BY <1>1, <1>2, <1>3, <1>4, <1>5, BillingCalm

\* The sweep asks again, in its write, whether the tenant is unsubscribed.
LEMMA TimeKeepsBilling ==
  ASSUME BillingInv, PeriodEnds \/ SweepLists \/ SweepWrites PROVE BillingInv'
<1>1. UNCHANGED <<hook, ledger, bought, events, second, changes, session>>
  BY DEF PeriodEnds, SweepLists, SweepWrites, stripe
<1>2. sub \in SubRow /\ tenant \in TenantRow /\ sweeping \in BOOLEAN
  BY DEF BillingInv, BillingTypes
<1>3. /\ sub' \in SubRow /\ sub'.status = sub.status /\ sub'.at = sub.at
      /\ sub'.terminal = sub.terminal
  <2>1. sub' = sub \/ sub' = [sub EXCEPT !.period = FALSE]
    BY DEF PeriodEnds, SweepLists, SweepWrites
  <2>. QED
    BY <1>2, <2>1 DEF SubRow
<1>4. sweeping' \in BOOLEAN
  BY <1>2 DEF PeriodEnds, SweepLists, SweepWrites
<1>5. \/ tenant' = tenant
      \/ tenant.status = "no_subscription" /\ tenant' = [tenant EXCEPT !.access = "restricted"]
  BY DEF PeriodEnds, SweepLists, SweepWrites, Unsubscribed
<1>6. tenant' \in TenantRow
  BY <1>2, <1>5 DEF TenantRow
<1>7. PayingIsNotRestricted'
  BY <1>3, <1>5 DEF BillingInv, PayingIsNotRestricted
<1>. QED
  BY <1>1, <1>3, <1>4, <1>6, <1>7, BillingCalm

\* Stripe goes on.
LEMMA StripeGrows ==
  ASSUME BillingInv, UNCHANGED <<sub, tenant, sweeping, hook, ledger>>, StripeTells',
         events \subseteq events', events' \subseteq Events,
         bought' \in [Requests -> {"none"} \cup Statuses],
         second' \in 1..MaxSecond, changes' \in 0..MaxChanges
  PROVE  BillingInv'
<1>1. \A h \in Handlers : hook[h] \in {NoEvent} \cup Handling => hook'[h] \in {NoEvent} \cup Handling'
  BY DEF Handling
<1>2. BillingTypes'
  BY <1>1 DEF BillingInv, BillingTypes
<1>3. Told \subseteq Told' /\ Recorded' = Recorded
  BY DEF Told, Recorded
<1>4. HandlersTell' /\ RowTells'
  BY <1>3 DEF BillingInv, HandlersTell, RowTells, ToldSince
<1>5. LedgerTells' /\ PayingIsNotRestricted'
  BY <1>3 DEF BillingInv, LedgerTells, PayingIsNotRestricted
<1>. QED
  BY <1>2, <1>4, <1>5 DEF BillingInv

LEMMA EventFacts ==
  ASSUME BillingTypes, NEW k \in Requests, NEW type \in EventTypes, NEW s \in Statuses
  PROVE  /\ Event(k, type, s) \in Events /\ Event(k, type, s).key = k
         /\ Event(k, type, s).type = type /\ Event(k, type, s).status = s
         /\ Event(k, type, s).at = second
  BY DEF BillingTypes, Event, Events

\* Nothing was told of a subscription that has not begun.
LEMMA PayKeepsBilling ==
  ASSUME BillingInv, CheckoutInv, NEW k \in Requests, Pay(k) PROVE BillingInv'
<1>. DEFINE n == Event(k, "created", "active")
            m == Event(k, "completed", "active")
<1>1. /\ session[k].state = "open" /\ session' = [session EXCEPT ![k].state = "paid"]
      /\ bought' = [bought EXCEPT ![k] = "active"] /\ events' = events \cup {n, m}
      /\ UNCHANGED <<sub, tenant, sweeping, hook, ledger, second, changes>>
  BY DEF Pay, app
<1>2. BillingTypes
  BY DEF BillingInv
<1>3. /\ n \in Events /\ n.key = k /\ n.type = "created" /\ n.status = "active" /\ n.at = second
      /\ m \in Events /\ m.key = k /\ m.type = "completed" /\ m.status = "active" /\ m.at = second
  BY <1>2, EventFacts DEF EventTypes, Statuses
<1>. HIDE DEF n, m
<1>4. /\ session'[k].state = "paid" /\ \A j \in Requests : j # k => session'[j] = session[j]
      /\ bought'[k] = "active" /\ \A j \in Requests : j # k => bought'[j] = bought[j]
  BY <1>1, <1>2 DEF CheckoutInv, CheckoutTypes, Session, BillingTypes
<1>5. bought[k] = "none"
  BY <1>1 DEF BillingInv, StripeTells
<1>6. \A e \in Told : e.key # k
  BY <1>5 DEF BillingInv, StripeTells
<1>7. Told' = Told \cup {n, m} /\ Told \subseteq events
  BY <1>1, <1>3 DEF Told
<1>8. /\ \A e \in events : e.key \in Requests /\ e.at \in Nat
      /\ second \in Nat
  BY <1>2, BoundsAssumption DEF BillingTypes, Events
<1>9. \A e \in events : /\ e.at <= second
                        /\ e.type = "expired" => session[e.key].state = "expired"
                        /\ e.type = "deleted" => e.status = "canceled" /\ bought[e.key] = "canceled"
  BY DEF BillingInv, StripeTells
<1>10. StripeTells'
  <2>1. \A e \in events' :
          /\ e.at <= second'
          /\ e.type = "expired" => session'[e.key].state = "expired"
          /\ e.type = "deleted" => e.status = "canceled" /\ bought'[e.key] = "canceled"
    BY <1>1, <1>3, <1>4, <1>5, <1>8, <1>9
  <2>2. \A f \in Told' : f.at <= second
    BY <1>3, <1>7, <1>8, <1>9
  <2>3. ASSUME NEW j \in Requests, bought'[j] # "none"
        PROVE  /\ session'[j].state = "paid"
               /\ \E e \in Told' : /\ e.key = j /\ e.status = bought'[j]
                                   /\ \A f \in Told' : f.key = j => f.at <= e.at
    <3>1. CASE j = k
      BY <3>1, <1>3, <1>4, <1>7, <2>2
    <3>2. CASE j # k
      <4>1. PICK e \in Told : /\ session[j].state = "paid" /\ e.key = j /\ e.status = bought[j]
                              /\ \A f \in Told : f.key = j => f.at <= e.at
        BY <2>3, <3>2, <1>4 DEF BillingInv, StripeTells
      <4>. QED
        BY <3>2, <4>1, <1>3, <1>4, <1>7
    <3>. QED
      BY <3>1, <3>2
  <2>4. \A e \in Told' : /\ bought'[e.key] # "none"
                         /\ e.type = "deleted" => \A f \in Told' : f.key = e.key => f.at <= e.at
    <3>1. \A e \in Told : /\ bought[e.key] # "none"
                          /\ e.type = "deleted" => \A f \in Told : f.key = e.key => f.at <= e.at
      BY DEF BillingInv, StripeTells
    <3>. QED
      BY <3>1, <1>3, <1>4, <1>6, <1>7, <1>8
  <2>. QED
    BY <2>1, <2>3, <2>4 DEF StripeTells
<1>11. bought' \in [Requests -> {"none"} \cup Statuses] /\ events' \subseteq Events
  BY <1>1, <1>2, <1>3 DEF BillingTypes, Statuses
<1>. QED
  BY <1>1, <1>2, <1>10, <1>11, StripeGrows DEF BillingTypes

LEMMA SessionExpiresKeepsBilling ==
  ASSUME BillingInv, CheckoutInv, NEW k \in Requests, SessionExpires(k) PROVE BillingInv'
<1>. DEFINE n == Event(k, "expired", "no_subscription")
<1>1. /\ session[k].state = "open" /\ session' = [session EXCEPT ![k].state = "expired"]
      /\ events' = events \cup {n}
      /\ UNCHANGED <<sub, tenant, sweeping, hook, ledger, second, changes, bought>>
  BY DEF SessionExpires
<1>2. BillingTypes
  BY DEF BillingInv
<1>3. n \in Events /\ n.key = k /\ n.type = "expired" /\ n.at = second
  BY <1>2, EventFacts DEF EventTypes, Statuses
<1>. HIDE DEF n
<1>4. /\ session'[k].state = "expired" /\ \A j \in Requests : j # k => session'[j] = session[j]
  BY <1>1, <1>2 DEF CheckoutInv, CheckoutTypes, Session
<1>5. bought[k] = "none" /\ Told' = Told
  BY <1>1, <1>3 DEF BillingInv, StripeTells, Told
<1>6. second \in Nat /\ \A e \in events : e.key \in Requests
  BY <1>2, BoundsAssumption DEF BillingTypes, Events
<1>7. StripeTells'
  BY <1>1, <1>3, <1>4, <1>5, <1>6 DEF BillingInv, StripeTells
<1>. QED
  BY <1>1, <1>2, <1>3, <1>7, StripeGrows DEF BillingTypes

\* Only a subscription that has not ended changes, so its end was told last.
LEMMA ChangeKeepsBilling ==
  ASSUME BillingInv, NEW k \in Requests, Change(k) PROVE BillingInv'
<1>1. PICK s \in {"active", "past_due", "canceled"}, type \in {"updated", "deleted", "paid"} :
        /\ bought[k] \in {"active", "past_due"} /\ (type = "deleted" => s = "canceled")
        /\ bought' = [bought EXCEPT ![k] = s] /\ events' = events \cup {Event(k, type, s)}
  BY DEF Change
<1>. DEFINE n == Event(k, type, s)
<1>2. /\ UNCHANGED <<sub, tenant, sweeping, hook, ledger, session, second>>
      /\ changes < MaxChanges /\ changes' = changes + 1
  BY DEF Change, app
<1>3. BillingTypes
  BY DEF BillingInv
<1>4. n \in Events /\ n.key = k /\ n.type = type /\ n.status = s /\ n.at = second
  BY <1>3, EventFacts DEF EventTypes, Statuses
<1>5. events' = events \cup {n}
  BY <1>1
<1>. HIDE DEF n
<1>6. bought'[k] = s /\ \A j \in Requests : j # k => bought'[j] = bought[j]
  BY <1>1, <1>3 DEF BillingTypes
<1>7. Told' = Told \cup {n} /\ Told \subseteq events
  BY <1>4, <1>5 DEF Told
<1>8. second \in Nat /\ \A e \in events : e.key \in Requests /\ e.at \in Nat
  BY <1>3, BoundsAssumption DEF BillingTypes, Events
<1>9. \A e \in events : /\ e.at <= second
                        /\ e.type = "expired" => session[e.key].state = "expired"
                        /\ e.type = "deleted" => e.status = "canceled" /\ bought[e.key] = "canceled"
  BY DEF BillingInv, StripeTells
<1>10. StripeTells'
  <2>1. \A e \in events' :
          /\ e.at <= second'
          /\ e.type = "expired" => session'[e.key].state = "expired"
          /\ e.type = "deleted" => e.status = "canceled" /\ bought'[e.key] = "canceled"
    BY <1>1, <1>2, <1>4, <1>5, <1>6, <1>8, <1>9
  <2>2. \A f \in Told' : f.at <= second
    BY <1>4, <1>7, <1>8, <1>9
  <2>3. ASSUME NEW j \in Requests, bought'[j] # "none"
        PROVE  /\ session'[j].state = "paid"
               /\ \E e \in Told' : /\ e.key = j /\ e.status = bought'[j]
                                   /\ \A f \in Told' : f.key = j => f.at <= e.at
    <3>1. CASE j = k
      <4>1. session[k].state = "paid"
        BY <1>1 DEF BillingInv, StripeTells
      <4>. QED
        BY <3>1, <4>1, <1>2, <1>4, <1>6, <1>7, <2>2
    <3>2. CASE j # k
      <4>1. PICK e \in Told : /\ session[j].state = "paid" /\ e.key = j /\ e.status = bought[j]
                              /\ \A f \in Told : f.key = j => f.at <= e.at
        BY <2>3, <3>2, <1>6 DEF BillingInv, StripeTells
      <4>. QED
        BY <3>2, <4>1, <1>2, <1>4, <1>6, <1>7
    <3>. QED
      BY <3>1, <3>2
  <2>4. \A e \in Told' : /\ bought'[e.key] # "none"
                         /\ e.type = "deleted" => \A f \in Told' : f.key = e.key => f.at <= e.at
    <3>. SUFFICES ASSUME NEW e \in Told'
                  PROVE  /\ bought'[e.key] # "none"
                         /\ e.type = "deleted" => \A f \in Told' : f.key = e.key => f.at <= e.at
      OBVIOUS
    <3>1. CASE e = n
      BY <3>1, <1>1, <1>4, <1>6, <2>2
    <3>2. CASE e \in Told
      <4>1. /\ bought[e.key] # "none" /\ e \in events /\ e.key \in Requests
            /\ e.type = "deleted" =>
                 bought[e.key] = "canceled" /\ \A f \in Told : f.key = e.key => f.at <= e.at
        BY <3>2, <1>7, <1>8 DEF BillingInv, StripeTells
      <4>2. e.type = "deleted" => e.key # k
        BY <4>1, <1>1
      <4>. QED
        BY <4>1, <4>2, <1>1, <1>4, <1>6, <1>7
    <3>. QED
      BY <3>1, <3>2, <1>7
  <2>. QED
    BY <2>1, <2>3, <2>4 DEF StripeTells
<1>11. bought' \in [Requests -> {"none"} \cup Statuses] /\ events' \subseteq Events
  BY <1>1, <1>3, <1>4, <1>5 DEF BillingTypes, Statuses
<1>12. changes' \in 0..MaxChanges
  BY <1>2, <1>3, BoundsAssumption DEF BillingTypes
<1>. QED
  BY <1>2, <1>3, <1>5, <1>10, <1>11, <1>12, StripeGrows DEF BillingTypes

LEMMA SecondPassesKeepsBilling == ASSUME BillingInv, SecondPasses PROVE BillingInv'
<1>1. /\ UNCHANGED <<sub, tenant, sweeping, hook, ledger, session, bought, events, changes>>
      /\ second < MaxSecond /\ second' = second + 1
  BY DEF SecondPasses, app
<1>2. BillingTypes
  BY DEF BillingInv
<1>3. second \in Nat /\ second' \in 1..MaxSecond /\ \A e \in events : e.at \in Nat
  BY <1>1, <1>2, BoundsAssumption DEF BillingTypes, Events
<1>4. Told' = Told
  BY <1>1 DEF Told
<1>5. \A e \in events : e.at <= second'
  BY <1>1, <1>3 DEF BillingInv, StripeTells
<1>6. StripeTells'
  BY <1>1, <1>4, <1>5 DEF BillingInv, StripeTells
<1>. QED
  BY <1>1, <1>2, <1>3, <1>6, StripeGrows DEF BillingTypes

-----------------------------------------------------------------------------
(* Billing: the webhook handlers.                                            *)

\* A handler takes up what was told, or drops it.
LEMMA HookMoves ==
  ASSUME BillingInv, UNCHANGED stripe, NEW h \in Handlers, NEW x \in {NoEvent} \cup Handling,
         hook' = [hook EXCEPT ![h] = x],
         x.pc # "idle" => /\ x.ev \in Told /\ ToldSince(x.ev, x.status)
                          /\ x.ev.type = "deleted" => x.status = "canceled"
  PROVE  /\ hook' \in [Handlers -> {NoEvent} \cup Handling'] /\ HandlersTell'
         /\ StripeTells' /\ Told' = Told /\ \A e \in Told, s \in Statuses : ToldSince(e, s)' = ToldSince(e, s)
<1>1. UNCHANGED <<session, bought, events, second, changes>>
  BY DEF stripe
<1>2. Told' = Told /\ Handling' = Handling
  BY <1>1 DEF Told, Handling
<1>3. hook \in [Handlers -> {NoEvent} \cup Handling]
  BY DEF BillingInv, BillingTypes
<1>4. hook'[h] = x /\ \A g \in Handlers : g # h => hook'[g] = hook[g]
  BY <1>3
<1>5. StripeTells'
  BY <1>1, <1>2 DEF BillingInv, StripeTells
<1>6. HandlersTell'
  BY <1>2, <1>4 DEF BillingInv, HandlersTell, ToldSince
<1>7. \A e \in Told, s \in Statuses : ToldSince(e, s)' = ToldSince(e, s)
  BY <1>2 DEF ToldSince
<1>8. hook' \in [Handlers -> {NoEvent} \cup Handling']
  BY <1>2, <1>3
<1>. QED
  BY <1>2, <1>5, <1>6, <1>7, <1>8

LEMMA RecordingFacts ==
  ASSUME BillingTypes, NEW e \in events, NEW result \in {"processed", "stale", "ignored"},
         ledger' = Recording(e, result)
  PROVE  /\ DOMAIN ledger' \subseteq events
         /\ \A f \in DOMAIN ledger' : ledger'[f] \in {"processed", "stale", "ignored"}
         /\ Recorded' \subseteq Recorded \cup {e}
         /\ result = "ignored" => Recorded' \subseteq Recorded
<1>1. DOMAIN ledger' = DOMAIN ledger \cup {e}
  BY DEF Recording
<1>2. \A f \in DOMAIN ledger' : ledger'[f] = IF f = e THEN result ELSE ledger[f]
  BY <1>1 DEF Recording
<1>3. /\ DOMAIN ledger \subseteq events
      /\ \A f \in DOMAIN ledger : ledger[f] \in {"processed", "stale", "ignored"}
  BY DEF BillingTypes
<1>4. \A f \in Recorded' : f \in Recorded \cup {e} /\ (f = e => result # "ignored")
  BY <1>1, <1>2 DEF Recorded
<1>5. result = "ignored" => Recorded' \subseteq Recorded
  BY <1>4
<1>. QED
  BY <1>1, <1>2, <1>3, <1>4, <1>5

\* The row and the tenant stay, and nothing is recorded that the row does not cover.
LEMMA RowStays ==
  ASSUME BillingInv, UNCHANGED <<sub, tenant, sweeping>>, UNCHANGED stripe,
         hook' \in [Handlers -> {NoEvent} \cup Handling'], HandlersTell', StripeTells',
         DOMAIN ledger' \subseteq events,
         \A f \in DOMAIN ledger' : ledger'[f] \in {"processed", "stale", "ignored"},
         \A f \in Recorded' : \/ f \in Recorded
                              \/ /\ f \in Told /\ f.at <= sub.at
                                 /\ f.type = "deleted" /\ f.at = sub.at => sub.terminal
  PROVE  BillingInv'
<1>1. UNCHANGED <<session, bought, events, second, changes>> /\ Told' = Told
  BY DEF stripe, Told
<1>2. BillingTypes'
  BY <1>1 DEF BillingInv, BillingTypes
<1>3. RowTells' /\ PayingIsNotRestricted'
  BY <1>1 DEF BillingInv, RowTells, ToldSince, PayingIsNotRestricted
<1>4. LedgerTells'
  BY <1>1 DEF BillingInv, LedgerTells
<1>. QED
  BY <1>2, <1>3, <1>4 DEF BillingInv

\* The status retrieved is the one the latest event tells.
LEMMA ReceiveKeepsBilling ==
  ASSUME BillingInv, NEW h \in Handlers, NEW e \in events, Receive(h, e) PROVE BillingInv'
<1>. DEFINE s == IF e.type \in Retrieved THEN bought[e.key] ELSE e.status
            x == [pc |-> "apply", ev |-> e, status |-> s]
<1>1. /\ e.type # "expired" /\ UNCHANGED <<sub, tenant, sweeping, ledger>> /\ UNCHANGED stripe
      /\ hook' = hook \/ hook' = [hook EXCEPT ![h] = x]
  BY DEF Receive
<1>2. BillingTypes /\ e \in Told /\ e.key \in Requests /\ e.status \in Statuses /\ e.at \in Nat
  BY <1>1 DEF BillingInv, BillingTypes, Told, Events
<1>3. UNCHANGED <<session, bought, events, second, changes>> /\ Told' = Told /\ Recorded' = Recorded
  BY <1>1 DEF stripe, Told, Recorded
<1>4. s \in Statuses /\ ToldSince(e, s)
  <2>1. CASE e.type \in Retrieved
    <3>1. bought[e.key] # "none" /\ bought[e.key] \in Statuses
      BY <1>2 DEF BillingInv, StripeTells, BillingTypes
    <3>2. PICK g \in Told : /\ g.key = e.key /\ g.status = bought[e.key]
                            /\ \A f \in Told : f.key = e.key => f.at <= g.at
      BY <1>2, <3>1 DEF BillingInv, StripeTells
    <3>3. g.at \in Nat /\ e.at <= g.at
      BY <1>2, <3>2 DEF BillingTypes, Told, Events
    <3>. QED
      BY <1>2, <2>1, <3>1, <3>2, <3>3 DEF ToldSince
  <2>2. CASE e.type \notin Retrieved
    BY <1>2, <2>2 DEF ToldSince
  <2>. QED
    BY <2>1, <2>2
<1>5. e.type = "deleted" => s = "canceled"
  BY DEF BillingInv, StripeTells, Retrieved
<1>6. x \in Handling /\ x.ev = e /\ x.status = s
  BY <1>4 DEF Handling
<1>. HIDE DEF s, x
<1>7. hook' \in [Handlers -> {NoEvent} \cup Handling'] /\ HandlersTell' /\ StripeTells'
  <2>1. CASE hook' = hook
    BY <2>1, <1>3 DEF BillingInv, BillingTypes, HandlersTell, StripeTells, ToldSince, Handling
  <2>2. CASE hook' = [hook EXCEPT ![h] = x]
    BY <2>2, <1>1, <1>2, <1>4, <1>5, <1>6, HookMoves
  <2>. QED
    BY <1>1, <2>1, <2>2
<1>. QED
  BY <1>1, <1>2, <1>3, <1>7, RowStays DEF BillingTypes

LEMMA ReceiveExpiredKeepsBilling ==
  ASSUME BillingInv, NEW h \in Handlers, NEW e \in events, ReceiveExpired(h, e) PROVE BillingInv'
<1>1. /\ UNCHANGED <<sub, tenant, sweeping, hook>> /\ UNCHANGED stripe
      /\ ledger' = ledger \/ ledger' = Recording(e, "ignored")
  BY DEF ReceiveExpired
<1>2. UNCHANGED <<session, bought, events, second, changes>> /\ Told' = Told
  BY <1>1 DEF stripe, Told
<1>3. hook' \in [Handlers -> {NoEvent} \cup Handling'] /\ HandlersTell' /\ StripeTells'
  BY <1>1, <1>2 DEF BillingInv, BillingTypes, HandlersTell, StripeTells, ToldSince, Handling
<1>4. /\ DOMAIN ledger' \subseteq events
      /\ \A f \in DOMAIN ledger' : ledger'[f] \in {"processed", "stale", "ignored"}
      /\ Recorded' \subseteq Recorded
  <2>1. CASE ledger' = ledger
    BY <2>1 DEF BillingInv, BillingTypes, Recorded
  <2>2. CASE ledger' = Recording(e, "ignored")
    BY <2>2, RecordingFacts DEF BillingInv
  <2>. QED
    BY <1>1, <2>1, <2>2
<1>. QED
  BY <1>1, <1>3, <1>4, RowStays

\* Fail and Belt: the handler ends.
LEMMA EndKeepsBilling ==
  ASSUME BillingInv, NEW h \in Handlers, Fail(h) \/ Belt(h) PROVE BillingInv'
<1>1. /\ UNCHANGED <<sub, tenant, sweeping, ledger>> /\ UNCHANGED stripe
      /\ hook' = [hook EXCEPT ![h] = NoEvent]
  BY DEF Fail, Belt
<1>2. NoEvent.pc = "idle"
  BY DEF NoEvent
<1>3. hook' \in [Handlers -> {NoEvent} \cup Handling'] /\ HandlersTell' /\ StripeTells'
  BY <1>1, <1>2, HookMoves
<1>4. /\ DOMAIN ledger' \subseteq events /\ Recorded' = Recorded
      /\ \A f \in DOMAIN ledger' : ledger'[f] \in {"processed", "stale", "ignored"}
  BY <1>1 DEF BillingInv, BillingTypes, Recorded
<1>. QED
  BY <1>1, <1>3, <1>4, RowStays

\* The row advances by stamps: what is on record is never newer than the row.
LEMMA ApplyKeepsBilling ==
  ASSUME BillingInv, NEW h \in Handlers, Apply(h) PROVE BillingInv'
<1>. DEFINE e == hook[h].ev
            s == hook[h].status
            terminal == e.type = "deleted" \/ s = "canceled"
            b == [hook[h] EXCEPT !.pc = "belt"]
<1>1. hook[h].pc = "apply" /\ UNCHANGED sweeping /\ UNCHANGED stripe
  BY DEF Apply
<1>2. /\ BillingTypes /\ hook[h] \in Handling
  BY <1>1 DEF BillingInv, BillingTypes, NoEvent
<1>3. e \in events /\ s \in Statuses /\ b \in Handling /\ b.ev = e /\ b.status = s
  BY <1>2 DEF Handling
<1>4. e \in Told /\ ToldSince(e, s) /\ (e.type = "deleted" => s = "canceled")
  BY <1>1 DEF BillingInv, HandlersTell
<1>5. /\ \A f \in events : f.at \in 1..MaxSecond /\ f.at \in Nat /\ f.at >= 1
      /\ sub \in SubRow /\ sub.at \in Nat
  BY <1>2, BoundsAssumption DEF BillingTypes, Events, SubRow
<1>6. NoEvent.pc = "idle"
  BY DEF NoEvent
<1>7. ASSUME NEW x \in {NoEvent, b}, hook' = [hook EXCEPT ![h] = x]
      PROVE  hook' \in [Handlers -> {NoEvent} \cup Handling'] /\ HandlersTell' /\ StripeTells'
  <2>. HIDE DEF e, s, b
  <2>. QED
    BY <1>1, <1>3, <1>4, <1>6, <1>7, HookMoves
<1>8. UNCHANGED <<session, bought, events, second, changes>> /\ Told' = Told
  BY <1>1 DEF stripe, Told
<1>9. \A f \in Recorded : /\ f \in Told /\ f \in events /\ f.at <= sub.at
                          /\ f.type = "deleted" /\ f.at = sub.at => sub.terminal
  BY DEF BillingInv, LedgerTells, Told
<1>10. CASE /\ ledger' = Recording(e, "ignored") /\ hook' = [hook EXCEPT ![h] = NoEvent]
            /\ UNCHANGED <<sub, tenant>>
  <2>. HIDE DEF e, s, b
  <2>1. /\ DOMAIN ledger' \subseteq events /\ Recorded' \subseteq Recorded
        /\ \A f \in DOMAIN ledger' : ledger'[f] \in {"processed", "stale", "ignored"}
    BY <1>2, <1>3, <1>10, RecordingFacts
  <2>. QED
    BY <1>1, <1>7, <1>10, <2>1, RowStays
<1>11. CASE /\ ~Applies(e.at, terminal) /\ ledger' = Recording(e, "stale")
            /\ hook' = [hook EXCEPT ![h] = NoEvent] /\ UNCHANGED <<sub, tenant>>
  <2>1. e.at <= sub.at /\ (terminal /\ e.at = sub.at => sub.terminal)
    BY <1>3, <1>5, <1>11 DEF Applies
  <2>2. e.type = "deleted" /\ e.at = sub.at => sub.terminal
    BY <2>1
  <2>. HIDE DEF e, s, b
  <2>3. /\ DOMAIN ledger' \subseteq events /\ Recorded' \subseteq Recorded \cup {e}
        /\ \A f \in DOMAIN ledger' : ledger'[f] \in {"processed", "stale", "ignored"}
    BY <1>2, <1>3, <1>11, RecordingFacts
  <2>. QED
    BY <1>1, <1>4, <1>7, <1>11, <2>1, <2>2, <2>3, RowStays
<1>12. ASSUME NEW period \in (IF s = "active" THEN {TRUE} ELSE BOOLEAN), NEW access \in AccessOf(s, period),
              sub' = [sub EXCEPT !.status = s, !.period = period, !.at = e.at, !.terminal = terminal],
              tenant' = [status |-> s, access |-> access],
              Applies(e.at, terminal), ledger' = Recording(e, "processed"),
              NEW x \in {NoEvent, b}, hook' = [hook EXCEPT ![h] = x]
       PROVE  BillingInv'
  <2>1. hook' \in [Handlers -> {NoEvent} \cup Handling'] /\ HandlersTell' /\ StripeTells'
    BY <1>7, <1>12
  <2>2. e.at \in 0..MaxSecond /\ e.at \in Nat /\ e.at >= 1 /\ period \in BOOLEAN /\ terminal \in BOOLEAN
    <3>1. e.at \in 0..MaxSecond /\ e.at \in Nat /\ e.at >= 1
      BY <1>3, <1>5
    <3>2. period \in BOOLEAN
      BY <1>12
    <3>3. terminal \in BOOLEAN
      OBVIOUS
    <3>. QED
      BY <3>1, <3>2, <3>3
  <2>3. terminal => s = "canceled"
    BY <1>4
  <2>4. e.type = "deleted" => terminal
    OBVIOUS
  <2>5. sub.at <= e.at /\ (sub.at = 0 \/ sub.at < e.at \/ terminal)
    BY <1>5, <2>2, <1>12 DEF Applies
  <2>6. access \in {"full_access", "grace_period", "restricted"} /\ (s = "active" => access = "full_access")
    BY <1>3, <1>12 DEF AccessOf, Statuses
  <2>. HIDE DEF e, s, b, terminal
  <2>7. sub' \in SubRow /\ sub'.status = s /\ sub'.at = e.at /\ sub'.terminal = terminal
    BY <1>3, <1>5, <1>12, <2>2 DEF SubRow
  <2>8. tenant' \in TenantRow /\ PayingIsNotRestricted'
    BY <1>3, <1>12, <2>6, <2>7 DEF TenantRow, PayingIsNotRestricted
  <2>9. /\ DOMAIN ledger' \subseteq events /\ Recorded' \subseteq Recorded \cup {e}
        /\ \A f \in DOMAIN ledger' : ledger'[f] \in {"processed", "stale", "ignored"}
    BY <1>2, <1>3, <1>12, RecordingFacts
  <2>10. BillingTypes'
    BY <1>1, <1>2, <1>8, <2>1, <2>7, <2>8, <2>9 DEF BillingTypes
  <2>11. RowTells'
    BY <1>4, <1>8, <2>3, <2>7 DEF RowTells, ToldSince
  <2>12. LedgerTells'
    <3>. SUFFICES ASSUME NEW f \in Recorded'
                  PROVE  /\ f \in Told /\ f.at <= e.at
                         /\ f.type = "deleted" /\ f.at = e.at => terminal
      BY <1>8, <2>7 DEF LedgerTells
    <3>1. CASE f = e
      BY <3>1, <1>4, <2>2, <2>4
    <3>2. CASE f \in Recorded
      <4>1. f \in Told /\ f.at <= sub.at /\ f.at \in Nat /\ f.at >= 1
        BY <3>2, <1>5, <1>9
      <4>. QED
        BY <4>1, <1>5, <2>2, <2>5
    <3>. QED
      BY <2>9, <3>1, <3>2
  <2>. QED
    BY <2>1, <2>8, <2>10, <2>11, <2>12 DEF BillingInv
<1>13. CASE /\ Applies(e.at, terminal)
            /\ \E period \in (IF s = "active" THEN {TRUE} ELSE BOOLEAN) :
               \E access \in AccessOf(s, period) :
                 /\ sub' = [sub EXCEPT !.status = s, !.period = period, !.at = e.at, !.terminal = terminal]
                 /\ tenant' = [status |-> s, access |-> access]
            /\ ledger' = Recording(e, "processed")
            /\ \E x \in {NoEvent, b} : hook' = [hook EXCEPT ![h] = x]
  <2>. HIDE DEF e, s, b, terminal
  <2>. QED
    BY <1>12, <1>13
<1>14. hook' = [hook EXCEPT ![h] = IF e.type \in {"created", "paid"}
                                   THEN [@ EXCEPT !.pc = "belt"] ELSE NoEvent]
       => \E x \in {NoEvent, b} : hook' = [hook EXCEPT ![h] = x]
  OBVIOUS
<1>. QED
  BY <1>10, <1>11, <1>13, <1>14 DEF Apply

-----------------------------------------------------------------------------
LEMMA InitIInv == Init => IInv
<1>. SUFFICES ASSUME Init PROVE IInv
  OBVIOUS
<1>1. Told = {} /\ DOMAIN ledger = {} /\ Recorded = {}
  BY DEF Init, Told, Recorded
<1>2. CheckoutTypes
  BY DEF Init, CheckoutTypes, Attempt, Request, Session
<1>3. \A r \in Requests : req[r].pc = "start" /\ req[r].key = r /\ session[r].state = "none"
                          /\ attempt[r].status = "none" /\ attempt[r].late = FALSE
  BY DEF Init
<1>4. \A k \in Requests : ~Driven(k)
  BY <1>3 DEF Driven
<1>5. OneLive /\ ReservedFirst /\ SessionsAreSold /\ DrivenIsLive
  BY <1>3, <1>4 DEF Init, OneLive, ReservedFirst, SessionsAreSold, DrivenIsLive, Live
<1>6. BillingTypes
  <2>1. sub \in SubRow
    BY BoundsAssumption DEF Init, SubRow, Statuses
  <2>2. tenant \in TenantRow
    BY DEF Init, TenantRow, Statuses
  <2>3. sweeping \in BOOLEAN
    BY DEF Init
  <2>4. events \subseteq Events /\ hook \in [Handlers -> {NoEvent} \cup Handling]
    BY DEF Init
  <2>5. bought \in [Requests -> {"none"} \cup Statuses]
    BY DEF Init
  <2>6. second \in 1..MaxSecond /\ changes \in 0..MaxChanges
    BY BoundsAssumption DEF Init
  <2>. QED
    BY <1>1, <2>1, <2>2, <2>3, <2>4, <2>5, <2>6 DEF BillingTypes
<1>7. StripeTells /\ HandlersTell /\ RowTells /\ LedgerTells
  BY <1>1 DEF Init, StripeTells, HandlersTell, RowTells, LedgerTells, NoEvent
<1>8. PayingIsNotRestricted
  BY DEF Init, PayingIsNotRestricted
<1>. QED
  BY <1>2, <1>5, <1>6, <1>7, <1>8 DEF IInv, CheckoutInv, BillingInv

LEMMA IInvStep == IInv /\ [Next]_vars => IInv'
<1>. SUFFICES ASSUME IInv, [Next]_vars PROVE IInv'
  OBVIOUS
<1>0. CheckoutInv /\ BillingInv /\ BillingTypes
  BY DEF IInv, BillingInv
<1>1. CASE UNCHANGED vars
  BY <1>1 DEF vars, IInv, CheckoutInv, CheckoutTypes, OneLive, ReservedFirst, SessionsAreSold,
     DrivenIsLive, Driven, BillingInv, BillingTypes, Handling, StripeTells, HandlersTell, RowTells,
     LedgerTells, Told, ToldSince, Recorded, PayingIsNotRestricted
<1>2. ASSUME NEW r \in Requests,
             \/ Reserve(r) \/ Blocked(r) \/ FindCustomer(r) \/ EnsureCustomer(r) \/ CreateSession(r)
             \/ RefuseSession(r) \/ MarkFailed(r) \/ MarkOpen(r) \/ GiveUp(r) \/ AttemptLapses(r)
      PROVE  IInv'
  <2>1. BillingInv'
    BY <1>0, <1>2, RequestsKeepBilling
  <2>2. CheckoutInv'
    BY <1>0, <1>2, ReserveKeepsCheckout, MovesKeepCheckout, CreateSessionKeepsCheckout,
       MarkFailedKeepsCheckout, MarkOpenKeepsCheckout, AttemptLapsesKeepsCheckout
  <2>. QED
    BY <2>1, <2>2 DEF IInv
<1>3. ASSUME NEW k \in Requests, Pay(k) \/ SessionExpires(k) PROVE IInv'
  <2>1. bought \in [Requests -> {"none"} \cup Statuses]
    BY <1>0 DEF BillingTypes
  <2>2. CheckoutInv'
    BY <1>0, <1>3, <2>1, PayKeepsCheckout, SessionExpiresKeepsCheckout
  <2>. QED
    BY <1>0, <1>3, <2>2, PayKeepsBilling, SessionExpiresKeepsBilling DEF IInv
<1>4. ASSUME NEW k \in Requests, Change(k) PROVE IInv'
  <2>1. PICK s \in {"active", "past_due", "canceled"} : bought' = [bought EXCEPT ![k] = s]
    BY <1>4 DEF Change
  <2>2. \A j \in Requests : bought'[j] = "none" => bought[j] = "none"
    BY <1>0, <2>1 DEF BillingTypes
  <2>3. UNCHANGED <<attempt, req, session, urls>>
    BY <1>4 DEF Change, app
  <2>4. CheckoutInv'
    BY <1>0, <2>2, <2>3, CheckoutCalm
  <2>. QED
    BY <1>0, <1>4, <2>4, ChangeKeepsBilling DEF IInv
<1>5. ASSUME NEW h \in Handlers, NEW e \in events, Receive(h, e) \/ ReceiveExpired(h, e) PROVE IInv'
  <2>1. CloseAttempt(e) /\ UNCHANGED <<req, session, urls, bought>>
    BY <1>5 DEF Receive, ReceiveExpired, stripe
  <2>2. CheckoutInv'
    BY <1>0, <2>1, CloseAttemptKeepsCheckout
  <2>. QED
    BY <1>0, <1>5, <2>2, ReceiveKeepsBilling, ReceiveExpiredKeepsBilling DEF IInv
<1>6. ASSUME NEW h \in Handlers, Apply(h) \/ Fail(h) PROVE IInv'
  <2>1. UNCHANGED <<attempt, req, session, urls, bought>>
    BY <1>6 DEF Apply, Fail, stripe
  <2>2. CheckoutInv'
    BY <1>0, <2>1, CheckoutCalm
  <2>. QED
    BY <1>0, <1>6, <2>2, ApplyKeepsBilling, EndKeepsBilling DEF IInv
<1>7. ASSUME NEW h \in Handlers, Belt(h) PROVE IInv'
  BY <1>0, <1>7, BeltKeepsCheckout, EndKeepsBilling DEF IInv
<1>8. CASE SecondPasses \/ PeriodEnds \/ SweepLists \/ SweepWrites
  <2>1. UNCHANGED <<attempt, req, session, urls, bought>>
    BY <1>8 DEF SecondPasses, PeriodEnds, SweepLists, SweepWrites, app, stripe
  <2>2. CheckoutInv'
    BY <1>0, <2>1, CheckoutCalm
  <2>. QED
    BY <1>0, <1>8, <2>2, SecondPassesKeepsBilling, TimeKeepsBilling DEF IInv
<1>. QED
  BY <1>1, <1>2, <1>3, <1>4, <1>5, <1>6, <1>7, <1>8 DEF Next

LEMMA IInvInvariant == Spec => []IInv
  BY InitIInv, IInvStep, PTL DEF Spec

-----------------------------------------------------------------------------
\* Types are kept, whatever the order of requests, deliveries and sweeps.
THEOREM TypesHold == Spec => []TypeOK
<1>1. IInv => TypeOK
  BY DEF IInv, CheckoutInv, CheckoutTypes, BillingInv, BillingTypes, TypeOK
<1>. QED
  BY <1>1, IInvInvariant, PTL

\* A recorded cancellation is not undone by a late, repeated or simultaneous event of
\* its subscription: recordAndApplyStripeEvent keeps the row `canceled' until the
\* event of another subscription is as new.
THEOREM CancellationIsFinal == Spec => []CancelledStaysCancelled
<1>1. ASSUME IInv PROVE CancelledStaysCancelled
  <2>. SUFFICES ASSUME NEW e \in Recorded, e.type = "deleted", \A f \in events : f.key # e.key => f.at < e.at
                PROVE  sub.status = "canceled"
    BY DEF CancelledStaysCancelled
  <2>1. /\ e \in Told /\ e.at <= sub.at /\ (e.at = sub.at => sub.terminal)
        /\ sub.terminal => sub.status = "canceled"
    BY <1>1 DEF IInv, BillingInv, LedgerTells, RowTells
  <2>2. /\ sub.at \in Nat /\ \A f \in Told : f \in events /\ f.at \in Nat /\ f.at >= 1
    BY <1>1, BoundsAssumption DEF IInv, BillingInv, BillingTypes, Told, Events, SubRow
  <2>3. PICK f \in Told : f.at = sub.at
    BY <1>1, <2>1, <2>2 DEF IInv, BillingInv, RowTells
  <2>4. f.key = e.key
    BY <2>1, <2>2, <2>3
  <2>5. f.at <= e.at
    BY <1>1, <2>1, <2>4 DEF IInv, BillingInv, StripeTells
  <2>. QED
    BY <2>1, <2>2, <2>3, <2>5
<1>. QED
  BY <1>1, IInvInvariant, PTL

\* Whatever the order and the number of their deliveries, once all events are
\* recorded the row has the status Stripe has, where the stamps can tell it.
THEOREM RecordedRowIsTrue == Spec => []QuiescentRowIsTrue
<1>1. ASSUME IInv PROVE QuiescentRowIsTrue
  <2>. DEFINE E == {e \in events : e.type # "expired"}
              newest == {e \in E : e.at = LastSecond(E)}
  <2>. SUFFICES ASSUME E # {}, E = Recorded, NEW k \in Requests, \A e \in newest : e.key = k,
                       \/ \A e, f \in newest : e.status = f.status
                       \/ \E e \in newest : e.type = "deleted"
                PROVE  sub.status = bought[k]
    BY DEF QuiescentRowIsTrue
  <2>1. E = Told
    BY DEF Told
  <2>2. /\ \A e \in Told : /\ e \in events /\ e.at \in Nat /\ e.at >= 1 /\ e.at <= sub.at
                           /\ e.type = "deleted" /\ e.at = sub.at => sub.terminal
        /\ sub.at \in Nat
    <3>1. /\ sub.at \in Nat /\ \A f \in Told : f \in events /\ f.at \in Nat /\ f.at >= 1
      BY <1>1, BoundsAssumption DEF IInv, BillingInv, BillingTypes, Told, Events, SubRow
    <3>. QED
      BY <1>1, <2>1, <3>1 DEF IInv, BillingInv, LedgerTells
  <2>3. PICK f \in Told : f.at = sub.at /\ ToldSince(f, sub.status)
    BY <1>1, <2>1, <2>2 DEF IInv, BillingInv, RowTells
  <2>4. PICK g \in Told : g.at = sub.at /\ g.status = sub.status
    BY <2>2, <2>3 DEF ToldSince
  <2>5. LastSecond(E) = sub.at
    <3>1. sub.at \in {e.at : e \in E} /\ \A e \in E : e.at <= sub.at
      BY <2>1, <2>2, <2>4
    <3>2. LastSecond(E) \in {e.at : e \in E} /\ \A e \in E : e.at <= LastSecond(E)
      BY <3>1 DEF LastSecond
    <3>. QED
      BY <2>1, <2>2, <2>4, <3>1, <3>2
  <2>6. newest = {e \in Told : e.at = sub.at}
    BY <2>1, <2>5
  <2>. HIDE DEF E, newest
  <2>7. g \in newest /\ g.key = k /\ bought[k] # "none"
    BY <1>1, <2>4, <2>6 DEF IInv, BillingInv, StripeTells
  <2>8. PICK e \in Told : e.key = k /\ e.status = bought[k] /\ \A d \in Told : d.key = k => d.at <= e.at
    BY <1>1, <2>7 DEF IInv, BillingInv, StripeTells
  <2>9. g.at <= e.at
    BY <2>4, <2>7, <2>8
  <2>10. e \in newest
    BY <2>2, <2>4, <2>6, <2>8, <2>9
  <2>11. CASE \A d, f1 \in newest : d.status = f1.status
    BY <2>4, <2>7, <2>8, <2>10, <2>11
  <2>12. ASSUME NEW d \in newest, d.type = "deleted" PROVE sub.status = bought[k]
    <3>1. d \in Told /\ d \in events /\ d.at = sub.at /\ d.key = k
      BY <2>2, <2>6, <2>12
    <3>2. bought[k] = "canceled"
      BY <1>1, <2>12, <3>1 DEF IInv, BillingInv, StripeTells
    <3>3. sub.terminal
      BY <2>2, <2>12, <3>1
    <3>. QED
      BY <1>1, <3>2, <3>3 DEF IInv, BillingInv, RowTells
  <2>. QED
    BY <2>11, <2>12
<1>. QED
  BY <1>1, IInvInvariant, PTL

\* A subscribed tenant has full access: sweepTrialExpirations, which lists a tenant
\* before its payment is applied and writes after, does not restrict it.
THEOREM PayingKeepsAccess == Spec => []PayingIsNotRestricted
<1>1. IInv => PayingIsNotRestricted
  BY DEF IInv, BillingInv
<1>. QED
  BY <1>1, IInvInvariant, PTL

\* Until a purchase, requests that do not outlive their attempts never leave the owner
\* with two sessions to pay: reserveCheckoutAttempt keeps one attempt live, and a
\* session that can be paid belongs to it.
THEOREM OneSessionToPay == Spec => []OnePayableSession
<1>1. ASSUME IInv PROVE OnePayableSession
  <2>. DEFINE S == {k \in urls : session[k].state = "open"}
  <2>. SUFFICES ASSUME Prompt, \A k \in Requests : bought[k] = "none" PROVE Cardinality(S) <= 1
    BY DEF OnePayableSession
  <2>1. \A k \in S : k \in Requests /\ attempt[k].status \in Live
    BY <1>1 DEF IInv, CheckoutInv, CheckoutTypes, SessionsAreSold, DrivenIsLive
  <2>2. \A j, k \in S : j = k
    BY <1>1, <2>1 DEF IInv, CheckoutInv, OneLive
  <2>. HIDE DEF S
  <2>3. CASE S = {}
    BY <2>3, FS_EmptySet
  <2>4. ASSUME NEW k \in S PROVE Cardinality(S) <= 1
    <3>1. S = {k}
      BY <2>2, <2>4
    <3>2. Cardinality(S) = 1
      BY <3>1, FS_Singleton
    <3>. QED
      BY <3>2
  <2>. QED
    BY <2>3, <2>4
<1>. QED
  BY <1>1, IInvInvariant, PTL
=============================================================================
