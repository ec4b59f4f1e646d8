----------------------------- MODULE FamilyOutbox -----------------------------
(***************************************************************************)
(* The family-notification outbox: events enqueued by domain transactions  *)
(* and by the expiry evaluators, the processor that claims them in batches *)
(* and turns them into notification rows, and the scheduler cycle with its *)
(* lease.  A claim is time-based and has no owner: the processor's closing *)
(* UPDATE names the event, not the claim it was made under.                *)
(*                                                                         *)
(* Time is kept as three facts that become true some time after they are   *)
(* set up: a backoff has run out (`due'), a claim has outlived its five    *)
(* minutes (`lock'), the scheduler lease has outlived its four.            *)
(***************************************************************************)
EXTENDS Naturals, FiniteSets

CONSTANTS
  Events,        \* the rows of family_notification_outbox_events, by dedupe key
  Critical,      \* those of the four types that wait for an authorization
  Expiring,      \* those the expiry evaluators enqueue
  Workers,       \* the processes that run the processor
  Manual,        \* those started by the maintenance command, without a lease
  MaxAttempts,   \* OUTBOX_MAX_ATTEMPTS
  ReadinessMax,  \* OUTBOX_READINESS_MAX_ATTEMPTS
  BatchSize,     \* the most events one claim takes
  SlowWorkers,   \* whether a worker can outlive its claims and its lease
  MaxFaults,     \* how many crashes and database errors there are at most
  NoEvent, NoWorker

ASSUME SetsAssumption ==
  /\ Critical \subseteq Events /\ Expiring \subseteq Events
  /\ Manual \subseteq Workers
  /\ NoEvent \notin Events /\ NoWorker \notin Workers
ASSUME BoundsAssumption ==
  /\ MaxAttempts \in Nat \ {0} /\ ReadinessMax \in Nat \ {0} /\ BatchSize \in Nat \ {0}
  /\ SlowWorkers \in BOOLEAN /\ MaxFaults \in Nat

VARIABLES
  row,      \* the outbox table
  source,   \* what the event is about, as the resolver finds it; "malformed" if its
            \* type, version or source kind does not parse
  auth,     \* whether the resolver finds a recipient for the event
  sent,     \* the events with a notification row
  work,     \* per worker: its local state
  lease,    \* scheduler_leases: the holder, and whether it has not expired
  faults,   \* how many crashes and database errors there were
  holds     \* history: the readiness holds of each event

vars == <<row, source, auth, sent, work, lease, faults, holds>>

-----------------------------------------------------------------------------
Outcome == {"none", "delivered", "already_delivered", "no_recipients", "source_gone",
            "not_applicable", "hold", "retry", "dead"}

\* `lock' is lockExpiresAt > now, `code' the reason or error code of the last
\* closing UPDATE.
Row == [status : {"none", "pending", "processing", "completed", "dead_letter"},
        attempt : Nat, due : BOOLEAN, lock : BOOLEAN,
        code : Outcome \cup {"max_attempts"}]

\* `scan' holds the sources an evaluator found and has not enqueued yet, `batch'
\* the attemptCount each claimed event had when it was claimed (0: not claimed).
Worker == [pc : {"idle", "evaluate", "drain", "loop", "insert", "settle", "release"},
           scan : SUBSET Events, batch : [Events -> Nat],
           cur : Events \cup {NoEvent}, out : Outcome]

TypeOK ==
  /\ row \in [Events -> Row]
  /\ source \in [Events -> {"valid", "malformed", "invalid", "gone", "ambiguous"}]
  /\ auth \in [Events -> BOOLEAN]
  /\ sent \subseteq Events
  /\ work \in [Workers -> Worker]
  /\ lease \in [holder : Workers \cup {NoWorker}, live : BOOLEAN]
  /\ faults \in 0..MaxFaults
  /\ holds \in [Events -> Nat]

NoRow == [status |-> "none", attempt |-> 0, due |-> FALSE, lock |-> FALSE, code |-> "none"]
NoBatch == [e \in Events |-> 0]
Idle == [pc |-> "idle", scan |-> {}, batch |-> NoBatch, cur |-> NoEvent, out |-> "none"]

Init ==
  /\ row = [e \in Events |-> NoRow]
  /\ source \in [Events -> {"valid", "malformed"}]
  /\ \A e \in Expiring : source[e] = "valid"
  /\ auth \in [Events -> BOOLEAN]
  /\ sent = {}
  /\ work = [w \in Workers |-> Idle]
  /\ lease = [holder |-> NoWorker, live |-> FALSE]
  /\ faults = 0
  /\ holds = [e \in Events |-> 0]

-----------------------------------------------------------------------------
(* The domain.                                                             *)

\* enqueueFamilyNotificationOutboxEventTx: INSERT ... ON CONFLICT DO NOTHING.
Enqueued(e) ==
  IF row[e].status = "none" THEN [row EXCEPT ![e] = [NoRow EXCEPT !.status = "pending", !.due = TRUE]]
  ELSE row

\* A domain transaction: the transition and its event commit together.
DomainTransition(e) ==
  /\ e \notin Expiring
  /\ row[e].status = "none"
  /\ row' = Enqueued(e)
  /\ UNCHANGED <<source, auth, sent, work, lease, faults, holds>>

\* The source is accepted, revoked, extended, deleted or contradictorily linked.
SourceChanges(e) ==
  /\ source[e] = "valid"
  /\ source' \in {[source EXCEPT ![e] = s] : s \in {"invalid", "gone", "ambiguous"}}
  /\ UNCHANGED <<row, auth, sent, work, lease, faults, holds>>

\* A recipient is authorized for the source, or the last one is revoked.
AuthorizationChanges(e) ==
  /\ auth' = [auth EXCEPT ![e] = ~@]
  /\ UNCHANGED <<row, source, sent, work, lease, faults, holds>>

-----------------------------------------------------------------------------
(* runFamilyNotificationScheduler.                                         *)

\* acquireSchedulerLease, and the evaluators' scan of what is about to expire
\* (the scan of the consents is later in the code than the enqueuing of the
\* invitations; taken early, it is only more stale).  A busy lease ends the
\* cycle before it begins.
AcquireLease(w) ==
  /\ work[w].pc = "idle" /\ w \notin Manual
  /\ ~lease.live
  /\ lease' = [holder |-> w, live |-> TRUE]
  /\ work' = [work EXCEPT ![w].pc = "evaluate",
                          ![w].scan = {e \in Expiring : source[e] = "valid"}]
  /\ UNCHANGED <<row, source, auth, sent, faults, holds>>

\* One source of the scan is enqueued; its state may have changed since.
EnqueueScanned(w, e) ==
  /\ work[w].pc = "evaluate" /\ e \in work[w].scan
  /\ row' = Enqueued(e)
  /\ work' = [work EXCEPT ![w].scan = @ \ {e}]
  /\ UNCHANGED <<source, auth, sent, lease, faults, holds>>

BeginDrain(w) ==
  /\ \/ work[w].pc = "evaluate" /\ work[w].scan = {}
     \/ work[w].pc = "idle" /\ w \in Manual
  /\ work' = [work EXCEPT ![w].pc = "drain"]
  /\ UNCHANGED <<row, source, auth, sent, lease, faults, holds>>

\* The drain stops: nothing claimed, the batch limit, or the time budget.
EndDrain(w) ==
  /\ work[w].pc = "drain"
  /\ work' = [work EXCEPT ![w] = IF w \in Manual THEN Idle ELSE [Idle EXCEPT !.pc = "release"]]
  /\ UNCHANGED <<row, source, auth, sent, lease, faults, holds>>

\* Mutant: the row goes whoever holds it.
ReleaseLeaseOfAny(w) ==
  /\ work[w].pc = "release"
  /\ work' = [work EXCEPT ![w] = Idle]
  /\ lease' = [holder |-> NoWorker, live |-> FALSE]
  /\ UNCHANGED <<row, source, auth, sent, faults, holds>>

\* releaseSchedulerLease; a failing DELETE is swallowed.
ReleaseLease(w) ==
  /\ work[w].pc = "release"
  /\ work' = [work EXCEPT ![w] = Idle]
  /\ \/ lease' = IF lease.holder = w THEN [holder |-> NoWorker, live |-> FALSE] ELSE lease
     \/ UNCHANGED lease
  /\ UNCHANGED <<row, source, auth, sent, faults, holds>>

-----------------------------------------------------------------------------
(* processFamilyNotificationOutboxBatch.                                   *)

\* Mutant: a claimed row is eligible whether its lock has expired or not.
EligibleLocked(e) ==
  \/ row[e].status = "pending" /\ row[e].due
  \/ row[e].status = "processing"

\* Mutant: a row is eligible when its date has come, whatever its status.
EligibleByDate(e) == row[e].status # "none" /\ row[e].due /\ ~row[e].lock

Eligible(e) ==
  \/ row[e].status = "pending" /\ row[e].due
  \/ row[e].status = "processing" /\ ~row[e].lock

\* The claim: one UPDATE over the rows that are eligible and not locked by
\* another claim's transaction.
Claim(w, B) ==
  /\ work[w].pc = "drain"
  /\ B # {} /\ Cardinality(B) <= BatchSize
  /\ \A e \in B : Eligible(e)
  /\ row' = [e \in Events |->
               IF e \in B
               THEN [row[e] EXCEPT !.status = "processing", !.lock = TRUE, !.attempt = @ + 1]
               ELSE row[e]]
  /\ work' = [work EXCEPT ![w].pc = "loop",
                          ![w].batch = [e \in Events |-> IF e \in B THEN row[e].attempt + 1 ELSE 0]]
  /\ UNCHANGED <<source, auth, sent, lease, faults, holds>>

\* Mutant: the window closes one attempt early.
NobodyToTellEarly(e, attempt) ==
  IF e \in Critical /\ attempt + 1 < ReadinessMax THEN "hold" ELSE "no_recipients"

\* The source is valid and nobody is authorized: a critical event waits.
NobodyToTell(e, attempt) ==
  IF e \in Critical /\ attempt < ReadinessMax THEN "hold" ELSE "no_recipients"

\* What processOne makes of a resolution that gives no recipients, at once.
Unsent(e, attempt) ==
  CASE source[e] = "gone" -> "source_gone"
    [] source[e] = "invalid" -> "not_applicable"
    [] source[e] \in {"malformed", "ambiguous"} -> "dead"
    [] source[e] = "valid" -> NobodyToTell(e, attempt)

\* processOne up to the resolution of the recipients: there are some, there are
\* none, or the resolver fails.
Resolve(w, e) ==
  /\ work[w].pc = "loop" /\ work[w].batch[e] # 0
  /\ \/ /\ source[e] = "valid" /\ auth[e]
        /\ work' = [work EXCEPT ![w].pc = "insert", ![w].cur = e]
     \/ /\ source[e] # "valid" \/ ~auth[e]
        /\ work' = [work EXCEPT ![w].pc = "settle", ![w].cur = e,
                                ![w].out = Unsent(e, work[w].batch[e])]
     \/ /\ source[e] # "malformed"
        /\ work' = [work EXCEPT ![w].pc = "settle", ![w].cur = e, ![w].out = "retry"]
  /\ UNCHANGED <<row, source, auth, sent, lease, faults, holds>>

\* Mutant: a failed transaction is reported as delivered.
InsertSwallowed(w) ==
  /\ work[w].pc = "insert"
  /\ sent' \in {sent, sent \cup {work[w].cur}}
  /\ work' = [work EXCEPT ![w].pc = "settle", ![w].out = "delivered"]
  /\ UNCHANGED <<row, source, auth, lease, faults, holds>>

\* createFamilyNotificationTx: the rows are inserted, duplicates skipped; or the
\* transaction fails and nothing is.
Insert(w) ==
  /\ work[w].pc = "insert"
  /\ \/ /\ sent' = sent \cup {work[w].cur}
        /\ work' = [work EXCEPT ![w].pc = "settle",
                                ![w].out = IF work[w].cur \in sent THEN "already_delivered"
                                           ELSE "delivered"]
     \/ /\ work' = [work EXCEPT ![w].pc = "settle", ![w].out = "retry"]
        /\ UNCHANGED sent
  /\ UNCHANGED <<row, source, auth, lease, faults, holds>>

\* Mutant: a retry starts counting anew.
SettledRowRetried(r, out, attempt) ==
  CASE out = "hold" \/ out = "retry" ->
         [r EXCEPT !.status = "pending", !.due = FALSE, !.lock = FALSE, !.code = out, !.attempt = 0]
    [] out = "dead" -> [r EXCEPT !.status = "dead_letter", !.lock = FALSE, !.code = "dead"]
    [] OTHER -> [r EXCEPT !.status = "completed", !.lock = FALSE, !.code = out]

\* The closing UPDATE: WHERE id and tenantId only, the outcome judged by the
\* attemptCount of the claim.
SettledRow(r, out, attempt) ==
  CASE out = "hold" \/ (out = "retry" /\ attempt < MaxAttempts) ->
         [r EXCEPT !.status = "pending", !.due = FALSE, !.lock = FALSE, !.code = out]
    [] out = "retry" /\ attempt >= MaxAttempts ->
         [r EXCEPT !.status = "dead_letter", !.lock = FALSE, !.code = "max_attempts"]
    [] out = "dead" -> [r EXCEPT !.status = "dead_letter", !.lock = FALSE, !.code = "dead"]
    [] OTHER -> [r EXCEPT !.status = "completed", !.lock = FALSE, !.code = out]

Settle(w) ==
  LET e == work[w].cur
      rest == [work[w].batch EXCEPT ![e] = 0]
  IN  /\ work[w].pc = "settle"
      /\ row' = [row EXCEPT ![e] = SettledRow(row[e], work[w].out, work[w].batch[e])]
      /\ holds' = IF work[w].out = "hold" THEN [holds EXCEPT ![e] = @ + 1] ELSE holds
      /\ work' = [work EXCEPT ![w].batch = rest, ![w].cur = NoEvent, ![w].out = "none",
                              ![w].pc = IF rest # NoBatch THEN "loop" ELSE "drain"]
      /\ UNCHANGED <<source, auth, sent, lease, faults>>

-----------------------------------------------------------------------------
(* Faults and time.                                                        *)

\* The process dies: its claims and its lease are left to expire.
Crash(w) ==
  /\ work[w].pc # "idle" /\ faults < MaxFaults
  /\ work' = [work EXCEPT ![w] = Idle]
  /\ faults' = faults + 1
  /\ UNCHANGED <<row, source, auth, sent, lease, holds>>

\* A statement fails: the rest of the batch is abandoned, the lease released.
DatabaseError(w) ==
  /\ work[w].pc \in {"evaluate", "drain", "loop", "settle"} /\ faults < MaxFaults
  /\ work' = [work EXCEPT ![w] = IF w \in Manual THEN Idle ELSE [Idle EXCEPT !.pc = "release"]]
  /\ faults' = faults + 1
  /\ UNCHANGED <<row, source, auth, sent, lease, holds>>

\* nextAttemptAt passes.
BackoffEnds(e) ==
  /\ row[e].status = "pending" /\ ~row[e].due
  /\ row' = [row EXCEPT ![e].due = TRUE]
  /\ UNCHANGED <<source, auth, sent, work, lease, faults, holds>>

\* lockExpiresAt passes; if no worker is slow, only after a fault.
LockExpires(e) ==
  /\ row[e].lock
  /\ SlowWorkers \/ \A w \in Workers : work[w].batch[e] = 0
  /\ row' = [row EXCEPT ![e].lock = FALSE]
  /\ UNCHANGED <<source, auth, sent, work, lease, faults, holds>>

LeaseExpires ==
  /\ lease.live
  /\ SlowWorkers \/ lease.holder \in Manual \/ work[lease.holder].pc = "idle"
  /\ lease' = [lease EXCEPT !.live = FALSE]
  /\ UNCHANGED <<row, source, auth, sent, work, faults, holds>>

-----------------------------------------------------------------------------
Claims(e) == \E w \in Workers, B \in SUBSET Events : e \in B /\ Claim(w, B)

WorkerStep(w) ==
  \/ AcquireLease(w) \/ BeginDrain(w) \/ EndDrain(w) \/ ReleaseLease(w) \/ Insert(w) \/ Settle(w)
  \/ \E e \in Events : EnqueueScanned(w, e) \/ Resolve(w, e)

Next ==
  \/ \E w \in Workers : WorkerStep(w) \/ Crash(w) \/ DatabaseError(w)
  \/ \E w \in Workers, B \in SUBSET Events : Claim(w, B)
  \/ \E e \in Events : \/ DomainTransition(e) \/ SourceChanges(e) \/ AuthorizationChanges(e)
                       \/ BackoffEnds(e) \/ LockExpires(e)
  \/ LeaseExpires

Spec == Init /\ [][Next]_vars

\* The cron job comes round again and again, a started worker goes on unless it
\* dies, time passes, and the claim, ordered by nextAttemptAt, gets to every row.
Fairness ==
  /\ \A w \in Workers : WF_vars(WorkerStep(w))
  /\ \A e \in Events : WF_vars(BackoffEnds(e)) /\ WF_vars(LockExpires(e)) /\ SF_vars(Claims(e))
  /\ WF_vars(LeaseExpires)

FairSpec == Spec /\ Fairness

-----------------------------------------------------------------------------
Terminal(e) == row[e].status \in {"completed", "dead_letter"}

\* An event on record as delivered has its notification row: a crash, an
\* overtaken worker or a late write never closes an event unserved.
DeliveredMeansSent ==
  \A e \in Events : row[e].code \in {"delivered", "already_delivered"} => e \in sent

\* A critical event with a valid source is given up for want of a recipient
\* only after the whole readiness window, however its attempts were spread
\* over workers.
ReadinessWindowIsKept ==
  \A e \in Critical : row[e].code = "no_recipients" => row[e].attempt >= ReadinessMax

\* A cycle that outlived its lease does not free its successor's.
LeaseOutlivesPredecessor ==
  [][\A w \in Workers : lease.holder = w /\ lease'.holder # w
        => work'[w] # work[w] \/ ~lease.live]_vars

\* Every event is settled in the end, whatever crashes and fails on the way.
EventsSettle == \A e \in Events : row[e].status = "pending" ~> []Terminal(e)

\* No two workers are at work on one event ("concurrent workers take disjoint
\* rows").
DisjointClaims ==
  \A e \in Events, v, w \in Workers : work[v].batch[e] # 0 /\ work[w].batch[e] # 0 => v = w

\* "pending -> processing -> completed / dead_letter": what is settled stays
\* settled.
TerminalIsFinal == [][\A e \in Events : Terminal(e) => row'[e] = row[e]]_vars

\* "NOT a failure (never dead-letters via the attempts cap)": the readiness
\* holds of an event do not use up its retries.  TLC refutes it: they do.
HoldsAreNotFailures ==
  \A e \in Events : row[e].code = "max_attempts" => row[e].attempt - holds[e] >= MaxAttempts
=============================================================================
