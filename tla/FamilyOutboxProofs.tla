-------------------------- MODULE FamilyOutboxProofs --------------------------
(***************************************************************************)
(* The safety of the family-notification outbox, for any number of events   *)
(* and workers and any bounds.                                              *)
(*                                                                          *)
(* What the closing UPDATE writes is judged by what the worker found under  *)
(* its claim; the row may be another claim's by then.  So the invariant     *)
(* speaks of the verdict a worker carries, and of the attempts it counted,  *)
(* which the row can only have more of.  Where no worker outlives its       *)
(* claim, the lock stands for the claim.                                    *)
(***************************************************************************)
EXTENDS FamilyOutbox, TLAPS

\* Between batches a worker has claimed nothing; on an event it has claimed that event.
WorkerShape ==
  \A w \in Workers :
    /\ work[w].pc \notin {"loop", "insert", "settle"} => work[w].batch = NoBatch
    /\ work[w].pc \in {"insert", "settle"} =>
         work[w].cur \in Events /\ work[w].batch[work[w].cur] # 0

\* A claim was made on an existing row, whose attempts only grow.
ClaimsCounted ==
  \A w \in Workers, e \in Events : work[w].batch[e] # 0 =>
    row[e].status # "none" /\ work[w].batch[e] <= row[e].attempt

\* A verdict about to be written: delivered is sent, and given up is after the window.
VerdictIsTrue ==
  \A w \in Workers : work[w].pc = "settle" =>
    /\ work[w].out \in {"delivered", "already_delivered"} => work[w].cur \in sent
    /\ work[w].out = "no_recipients" /\ work[w].cur \in Critical =>
         work[w].batch[work[w].cur] >= ReadinessMax

\* Where nobody is slow, what a worker has claimed is locked, and by that worker.
LockIsTheClaim ==
  ~SlowWorkers => \A w \in Workers, e \in Events : work[w].batch[e] # 0 =>
    /\ row[e].status = "processing" /\ row[e].lock
    /\ \A v \in Workers : work[v].batch[e] # 0 => v = w

\* The closing UPDATE clears the lock.
SettledIsUnlocked == \A e \in Events : Terminal(e) => ~row[e].lock

IInv ==
  /\ TypeOK /\ WorkerShape /\ ClaimsCounted /\ VerdictIsTrue /\ LockIsTheClaim
  /\ SettledIsUnlocked /\ DeliveredMeansSent /\ ReadinessWindowIsKept

-----------------------------------------------------------------------------
(* Steps that make no claim.                                                 *)

\* The row of an event somebody is at work on is not written.
KeptRow(e) ==
  /\ row'[e].status = row[e].status /\ row'[e].attempt = row[e].attempt
  /\ SlowWorkers \/ row'[e].lock = row[e].lock

LEMMA CalmKeeps ==
  ASSUME IInv, TypeOK', WorkerShape', VerdictIsTrue', SettledIsUnlocked',
         DeliveredMeansSent', ReadinessWindowIsKept',
         \A w \in Workers, e \in Events : work'[w].batch[e] # 0 =>
           work[w].batch[e] = work'[w].batch[e] /\ KeptRow(e)
  PROVE  IInv'
<1>1. ClaimsCounted'
  BY DEF IInv, ClaimsCounted, KeptRow
<1>2. LockIsTheClaim'
  BY DEF IInv, LockIsTheClaim, KeptRow
<1>. QED
  BY <1>1, <1>2 DEF IInv

LEMMA IdleShape == /\ Idle \in Worker /\ Idle.pc = "idle" /\ Idle.batch = NoBatch
                   /\ NoBatch \in [Events -> Nat]
  BY DEF Idle, Worker, NoBatch, Outcome

LEMMA ReleaseShape == /\ [Idle EXCEPT !.pc = "release"] \in Worker
                      /\ [Idle EXCEPT !.pc = "release"].pc = "release"
                      /\ [Idle EXCEPT !.pc = "release"].batch = NoBatch
  BY DEF Idle, Worker, NoBatch, Outcome

\* A step of one worker on itself, after which it has claimed no more than before.
LEMMA WorkerKeeps ==
  ASSUME IInv, NEW w \in Workers, UNCHANGED <<row, source, auth, sent, holds>>,
         lease' \in [holder : Workers \cup {NoWorker}, live : BOOLEAN], faults' \in 0..MaxFaults,
         work' \in [Workers -> Worker], \A v \in Workers : v # w => work'[v] = work[v],
         work'[w].batch \in {NoBatch, work[w].batch},
         work'[w].pc \notin {"loop", "insert", "settle"} => work'[w].batch = NoBatch,
         work'[w].pc \in {"insert", "settle"} =>
           work'[w].cur \in Events /\ work'[w].batch[work'[w].cur] # 0,
         work'[w].pc = "settle" =>
           /\ work'[w].out \notin {"delivered", "already_delivered"}
           /\ work'[w].out = "no_recipients" /\ work'[w].cur \in Critical =>
                work'[w].batch[work'[w].cur] >= ReadinessMax
  PROVE  IInv'
<1>1. TypeOK'
  BY DEF IInv, TypeOK
<1>2. WorkerShape'
  BY DEF IInv, WorkerShape
<1>3. VerdictIsTrue'
  BY DEF IInv, VerdictIsTrue
<1>4. SettledIsUnlocked' /\ DeliveredMeansSent' /\ ReadinessWindowIsKept'
  BY DEF IInv, SettledIsUnlocked, DeliveredMeansSent, ReadinessWindowIsKept, Terminal
<1>5. \A v \in Workers, e \in Events : work'[v].batch[e] # 0 =>
        work[v].batch[e] = work'[v].batch[e] /\ KeptRow(e)
  BY DEF KeptRow, NoBatch
<1>. QED
  BY <1>1, <1>2, <1>3, <1>4, <1>5, CalmKeeps

\* The world outside, and the clock of the lease.
LEMMA OutsideKeeps ==
  ASSUME IInv, (\E e \in Events : SourceChanges(e) \/ AuthorizationChanges(e)) \/ LeaseExpires
  PROVE  IInv'
<1>1. UNCHANGED <<row, sent, work, faults, holds>>
  BY DEF SourceChanges, AuthorizationChanges, LeaseExpires
<1>2. /\ source' \in [Events -> {"valid", "malformed", "invalid", "gone", "ambiguous"}]
      /\ auth' \in [Events -> BOOLEAN]
      /\ lease' \in [holder : Workers \cup {NoWorker}, live : BOOLEAN]
  BY DEF SourceChanges, AuthorizationChanges, LeaseExpires, IInv, TypeOK
<1>3. TypeOK'
  BY <1>1, <1>2 DEF IInv, TypeOK
<1>. QED
  BY <1>1, <1>3 DEF IInv, WorkerShape, ClaimsCounted, VerdictIsTrue, LockIsTheClaim,
     SettledIsUnlocked, DeliveredMeansSent, ReadinessWindowIsKept, Terminal

LEMMA AcquireLeaseKeeps == ASSUME IInv, NEW w \in Workers, AcquireLease(w) PROVE IInv'
<1>1. /\ work \in [Workers -> Worker] /\ work[w].pc = "idle" /\ work[w].batch = NoBatch
      /\ UNCHANGED <<row, source, auth, sent, holds>> /\ faults' \in 0..MaxFaults
      /\ lease' \in [holder : Workers \cup {NoWorker}, live : BOOLEAN]
      /\ work' = [work EXCEPT ![w].pc = "evaluate",
                              ![w].scan = {e \in Expiring : source[e] = "valid"}]
  BY DEF AcquireLease, IInv, TypeOK, WorkerShape
<1>2. {e \in Expiring : source[e] = "valid"} \in SUBSET Events
  BY SetsAssumption
<1>. DEFINE r == [work[w] EXCEPT !.pc = "evaluate",
                                 !.scan = {e \in Expiring : source[e] = "valid"}]
<1>3. r \in Worker /\ r.pc = "evaluate" /\ r.batch = work[w].batch
  BY <1>1, <1>2 DEF Worker
<1>4. work' = [work EXCEPT ![w] = r]
  BY <1>1
<1>. HIDE DEF r
<1>5. /\ work' \in [Workers -> Worker] /\ \A v \in Workers : v # w => work'[v] = work[v]
      /\ work'[w] = r
  BY <1>1, <1>3, <1>4
<1>. QED
  BY <1>1, <1>3, <1>5, WorkerKeeps

LEMMA BeginDrainKeeps == ASSUME IInv, NEW w \in Workers, BeginDrain(w) PROVE IInv'
<1>1. /\ work \in [Workers -> Worker] /\ work[w].batch = NoBatch
      /\ UNCHANGED <<row, source, auth, sent, lease, faults, holds>>
      /\ work' = [work EXCEPT ![w].pc = "drain"]
  BY DEF BeginDrain, IInv, TypeOK, WorkerShape
<1>2. /\ work' \in [Workers -> Worker] /\ \A v \in Workers : v # w => work'[v] = work[v]
      /\ work'[w].pc = "drain" /\ work'[w].batch = work[w].batch
  BY <1>1 DEF Worker
<1>. QED
  BY <1>1, <1>2, WorkerKeeps DEF IInv, TypeOK

\* A worker that ends, fails or dies forgets its claims.
LEMMA EndKeeps ==
  ASSUME IInv, NEW w \in Workers,
         EndDrain(w) \/ ReleaseLease(w) \/ Crash(w) \/ DatabaseError(w)
  PROVE  IInv'
<1>1. /\ work \in [Workers -> Worker] /\ UNCHANGED <<row, source, auth, sent, holds>>
      /\ \/ work' = [work EXCEPT ![w] = Idle]
         \/ work' = [work EXCEPT ![w] = [Idle EXCEPT !.pc = "release"]]
  BY DEF EndDrain, ReleaseLease, Crash, DatabaseError, IInv, TypeOK
<1>2. faults' \in 0..MaxFaults
  BY BoundsAssumption DEF EndDrain, ReleaseLease, Crash, DatabaseError, IInv, TypeOK
<1>3. lease' \in [holder : Workers \cup {NoWorker}, live : BOOLEAN]
  <2>1. lease' = lease \/ lease' = [holder |-> NoWorker, live |-> FALSE]
    BY DEF EndDrain, ReleaseLease, Crash, DatabaseError
  <2>2. [holder |-> NoWorker, live |-> FALSE] \in [holder : Workers \cup {NoWorker}, live : BOOLEAN]
    OBVIOUS
  <2>3. lease \in [holder : Workers \cup {NoWorker}, live : BOOLEAN]
    BY DEF IInv, TypeOK
  <2>. QED
    BY <2>1, <2>2, <2>3
<1>4. /\ work' \in [Workers -> Worker] /\ \A v \in Workers : v # w => work'[v] = work[v]
      /\ work'[w].pc \in {"idle", "release"} /\ work'[w].batch = NoBatch
  BY <1>1, IdleShape, ReleaseShape
<1>. QED
  BY <1>1, <1>2, <1>3, <1>4, WorkerKeeps

\* The verdict of a resolution without recipients.
LEMMA UnsentVerdict ==
  ASSUME NEW e \in Events, NEW n \in Nat,
         source[e] \in {"valid", "malformed", "invalid", "gone", "ambiguous"}
  PROVE  /\ Unsent(e, n) \in Outcome \ {"delivered", "already_delivered"}
         /\ Unsent(e, n) = "no_recipients" /\ e \in Critical => n >= ReadinessMax
  BY BoundsAssumption DEF Unsent, NobodyToTell, Outcome

LEMMA ResolveKeeps ==
  ASSUME IInv, NEW w \in Workers, NEW e \in Events, Resolve(w, e) PROVE IInv'
<1>1. /\ work \in [Workers -> Worker] /\ work[w].pc = "loop" /\ work[w].batch[e] # 0
      /\ UNCHANGED <<row, source, auth, sent, lease, faults, holds>>
      /\ work[w].batch[e] \in Nat
      /\ source[e] \in {"valid", "malformed", "invalid", "gone", "ambiguous"}
  BY DEF Resolve, IInv, TypeOK, Worker
<1>. DEFINE o == Unsent(e, work[w].batch[e])
<1>2. /\ o \in Outcome \ {"delivered", "already_delivered"}
      /\ o = "no_recipients" /\ e \in Critical => work[w].batch[e] >= ReadinessMax
  BY <1>1, UnsentVerdict
<1>. HIDE DEF o
<1>3. PICK r : /\ work' = [work EXCEPT ![w] = r]
               /\ \/ r = [work[w] EXCEPT !.pc = "insert", !.cur = e]
                  \/ r = [work[w] EXCEPT !.pc = "settle", !.cur = e, !.out = o]
                  \/ r = [work[w] EXCEPT !.pc = "settle", !.cur = e, !.out = "retry"]
  BY DEF Resolve, o
<1>4. /\ r \in Worker /\ r.pc \in {"insert", "settle"} /\ r.batch = work[w].batch /\ r.cur = e
      /\ r.pc = "settle" => r.out \in {o, "retry"}
  <2>1. work[w] \in Worker
    BY <1>1
  <2>. QED
    BY <1>2, <1>3, <2>1 DEF Worker, Outcome
<1>5. /\ work' \in [Workers -> Worker] /\ work'[w] = r
      /\ \A v \in Workers : v # w => work'[v] = work[v]
  BY <1>1, <1>3, <1>4
<1>. QED
  BY <1>1, <1>2, <1>4, <1>5, WorkerKeeps DEF IInv, TypeOK

-----------------------------------------------------------------------------
(* Steps on the rows.                                                        *)

\* The insert with ON CONFLICT DO NOTHING touches only an event that has no row.
LEMMA EnqueuedRow ==
  ASSUME IInv, NEW e \in Events, row' = Enqueued(e)
  PROVE  /\ row' \in [Events -> Row]
         /\ \A f \in Events : \/ row'[f] = row[f]
                              \/ /\ row[f].status = "none" /\ row'[f].status = "pending"
                                 /\ row'[f].code = "none"
<1>. DEFINE r == [NoRow EXCEPT !.status = "pending", !.due = TRUE]
<1>1. r \in Row /\ r.status = "pending" /\ r.code = "none"
  BY DEF NoRow, Row, Outcome
<1>. HIDE DEF r
<1>2. row' = row \/ (row[e].status = "none" /\ row' = [row EXCEPT ![e] = r])
  BY DEF Enqueued, r
<1>3. row \in [Events -> Row]
  BY DEF IInv, TypeOK
<1>. QED
  BY <1>1, <1>2, <1>3

\* An event is enqueued, and nobody is at work on it.
LEMMA EnqueueKeeps ==
  ASSUME IInv, NEW e \in Events, row' = Enqueued(e),
         UNCHANGED <<source, auth, sent, lease, faults, holds>>, work' \in [Workers -> Worker],
         \A w \in Workers : /\ work'[w].pc = work[w].pc /\ work'[w].batch = work[w].batch
                            /\ work'[w].cur = work[w].cur /\ work'[w].out = work[w].out
  PROVE  IInv'
<1>1. /\ row' \in [Events -> Row]
      /\ \A f \in Events : \/ row'[f] = row[f]
                           \/ /\ row[f].status = "none" /\ row'[f].status = "pending"
                              /\ row'[f].code = "none"
  BY EnqueuedRow
<1>2. TypeOK'
  BY <1>1 DEF IInv, TypeOK
<1>3. WorkerShape' /\ VerdictIsTrue'
  BY DEF IInv, WorkerShape, VerdictIsTrue
<1>4. SettledIsUnlocked' /\ DeliveredMeansSent'
  BY <1>1 DEF IInv, SettledIsUnlocked, DeliveredMeansSent, Terminal
<1>5. ReadinessWindowIsKept'
  BY <1>1, SetsAssumption DEF IInv, ReadinessWindowIsKept
<1>6. \A w \in Workers, f \in Events : work'[w].batch[f] # 0 =>
        work[w].batch[f] = work'[w].batch[f] /\ KeptRow(f)
  BY <1>1 DEF IInv, ClaimsCounted, KeptRow
<1>. QED
  BY <1>2, <1>3, <1>4, <1>5, <1>6, CalmKeeps

LEMMA DomainTransitionKeeps ==
  ASSUME IInv, NEW e \in Events, DomainTransition(e) PROVE IInv'
  BY EnqueueKeeps DEF DomainTransition, IInv, TypeOK

LEMMA EnqueueScannedKeeps ==
  ASSUME IInv, NEW w \in Workers, NEW e \in Events, EnqueueScanned(w, e) PROVE IInv'
<1>1. /\ row' = Enqueued(e) /\ work' = [work EXCEPT ![w].scan = @ \ {e}]
      /\ UNCHANGED <<source, auth, sent, lease, faults, holds>> /\ work \in [Workers -> Worker]
  BY DEF EnqueueScanned, IInv, TypeOK
<1>2. /\ work' \in [Workers -> Worker]
      /\ \A v \in Workers : /\ work'[v].pc = work[v].pc /\ work'[v].batch = work[v].batch
                            /\ work'[v].cur = work[v].cur /\ work'[v].out = work[v].out
  BY <1>1 DEF Worker
<1>. QED
  BY <1>1, <1>2, EnqueueKeeps

\* A date passes: of one row, whose status and attempts stay.
LEMMA DateKeeps ==
  ASSUME IInv, NEW e \in Events, BackoffEnds(e) \/ LockExpires(e) PROVE IInv'
<1>1. /\ UNCHANGED <<source, auth, sent, work, lease, faults, holds>> /\ row \in [Events -> Row]
      /\ row' = [row EXCEPT ![e].due = TRUE] \/ row' = [row EXCEPT ![e].lock = FALSE]
  BY DEF BackoffEnds, LockExpires, IInv, TypeOK
<1>2. /\ row' \in [Events -> Row]
      /\ \A f \in Events : /\ row'[f].status = row[f].status /\ row'[f].attempt = row[f].attempt
                           /\ row'[f].code = row[f].code
                           /\ row'[f].lock = FALSE \/ row'[f].lock = row[f].lock
  <2>. DEFINE r == [row[e] EXCEPT !.due = TRUE]
              q == [row[e] EXCEPT !.lock = FALSE]
  <2>1. row[e] \in Row
    BY <1>1
  <2>2. /\ r \in Row /\ r.status = row[e].status /\ r.attempt = row[e].attempt
        /\ r.code = row[e].code /\ r.lock = row[e].lock
    BY <2>1 DEF Row
  <2>3. /\ q \in Row /\ q.status = row[e].status /\ q.attempt = row[e].attempt
        /\ q.code = row[e].code /\ q.lock = FALSE
    BY <2>1 DEF Row
  <2>4. row' = [row EXCEPT ![e] = r] \/ row' = [row EXCEPT ![e] = q]
    BY <1>1
  <2>. HIDE DEF r, q
  <2>. QED
    BY <1>1, <2>2, <2>3, <2>4
<1>3. \A f \in Events : row'[f].lock = row[f].lock \/ (f = e /\ LockExpires(e))
  <2>1. CASE BackoffEnds(e)
    BY <2>1, <1>1 DEF BackoffEnds, Row
  <2>2. CASE LockExpires(e)
    BY <2>2, <1>1 DEF LockExpires, Row
  <2>. QED
    BY <2>1, <2>2
<1>4. TypeOK'
  BY <1>1, <1>2 DEF IInv, TypeOK
<1>5. WorkerShape' /\ VerdictIsTrue'
  BY <1>1 DEF IInv, WorkerShape, VerdictIsTrue
<1>6. SettledIsUnlocked' /\ DeliveredMeansSent' /\ ReadinessWindowIsKept'
  BY <1>1, <1>2, SetsAssumption
  DEF IInv, SettledIsUnlocked, DeliveredMeansSent, ReadinessWindowIsKept, Terminal
<1>7. \A w \in Workers, f \in Events : work'[w].batch[f] # 0 =>
        work[w].batch[f] = work'[w].batch[f] /\ KeptRow(f)
  BY <1>1, <1>2, <1>3 DEF LockExpires, KeptRow
<1>. QED
  BY <1>4, <1>5, <1>6, <1>7, CalmKeeps

\* What is claimed was nobody's, unless its claim had been outlived.
LEMMA ClaimKeeps ==
  ASSUME IInv, NEW w \in Workers, NEW B \in SUBSET Events, Claim(w, B) PROVE IInv'
<1>. DEFINE b == [e \in Events |-> IF e \in B THEN row[e].attempt + 1 ELSE 0]
            r == [work[w] EXCEPT !.pc = "loop", !.batch = b]
<1>1. /\ row \in [Events -> Row] /\ work \in [Workers -> Worker]
      /\ UNCHANGED <<source, auth, sent, lease, faults, holds>>
      /\ work[w].pc = "drain" /\ \A e \in B : Eligible(e)
  BY DEF Claim, IInv, TypeOK
<1>2. \A e \in Events :
        /\ row'[e] \in Row /\ row'[e].code = row[e].code
        /\ e \notin B => row'[e] = row[e]
        /\ e \in B => /\ row'[e].status = "processing" /\ row'[e].lock
                      /\ row'[e].attempt = row[e].attempt + 1
  <2>. SUFFICES ASSUME NEW e \in Events
                PROVE  /\ row'[e] \in Row /\ row'[e].code = row[e].code
                       /\ e \notin B => row'[e] = row[e]
                       /\ e \in B => /\ row'[e].status = "processing" /\ row'[e].lock
                                     /\ row'[e].attempt = row[e].attempt + 1
    OBVIOUS
  <2>. DEFINE q == [row[e] EXCEPT !.status = "processing", !.lock = TRUE, !.attempt = @ + 1]
  <2>1. row[e] \in Row
    BY <1>1
  <2>2. /\ q \in Row /\ q.code = row[e].code /\ q.status = "processing" /\ q.lock = TRUE
        /\ q.attempt = row[e].attempt + 1
    <3>. DEFINE n == row[e].attempt + 1
    <3>1. n \in Nat
      BY <2>1 DEF Row
    <3>2. q = [row[e] EXCEPT !.status = "processing", !.lock = TRUE, !.attempt = n]
      BY <2>1 DEF Row
    <3>. HIDE DEF n, q
    <3>3. /\ q \in Row /\ q.code = row[e].code /\ q.status = "processing" /\ q.lock = TRUE
          /\ q.attempt = n
      BY <2>1, <3>1, <3>2 DEF Row
    <3>. QED
      BY <3>3 DEF n
  <2>3. row'[e] = IF e \in B THEN q ELSE row[e]
    BY DEF Claim
  <2>. HIDE DEF q
  <2>. QED
    BY <2>1, <2>2, <2>3
<1>3. row' \in [Events -> Row]
  BY <1>2 DEF Claim
<1>4. b \in [Events -> Nat] /\ \A e \in Events : b[e] = IF e \in B THEN row[e].attempt + 1 ELSE 0
  BY <1>1 DEF Row
<1>. HIDE DEF b
<1>5. r \in Worker /\ r.pc = "loop" /\ r.batch = b
  BY <1>1, <1>4 DEF Worker
<1>6. work' = [work EXCEPT ![w] = r]
  BY DEF Claim, b
<1>. HIDE DEF r
<1>7. /\ work' \in [Workers -> Worker] /\ work'[w] = r
      /\ \A v \in Workers : v # w => work'[v] = work[v]
  BY <1>1, <1>5, <1>6
<1>8. TypeOK'
  BY <1>1, <1>3, <1>7 DEF IInv, TypeOK
<1>9. WorkerShape' /\ VerdictIsTrue'
  BY <1>1, <1>5, <1>7 DEF IInv, WorkerShape, VerdictIsTrue
<1>10. SettledIsUnlocked' /\ DeliveredMeansSent'
  BY <1>1, <1>2 DEF IInv, SettledIsUnlocked, DeliveredMeansSent, Terminal
<1>11. \A e \in Events : row[e].attempt \in Nat /\ row'[e].attempt \in Nat
                         /\ row[e].attempt <= row'[e].attempt
  BY <1>1, <1>2 DEF Row
<1>12. ReadinessWindowIsKept'
  BY <1>2, <1>11, SetsAssumption, BoundsAssumption DEF IInv, ReadinessWindowIsKept
<1>13. ClaimsCounted'
  <2>. SUFFICES ASSUME NEW v \in Workers, NEW e \in Events, work'[v].batch[e] # 0
                PROVE  row'[e].status # "none" /\ work'[v].batch[e] <= row'[e].attempt
    BY DEF ClaimsCounted
  <2>1. CASE v = w
    BY <2>1, <1>2, <1>4, <1>5, <1>7, <1>11
  <2>2. CASE v # w
    <3>1. work[v].batch[e] \in Nat
      BY <1>1 DEF Worker
    <3>. QED
      BY <2>2, <3>1, <1>2, <1>7, <1>11 DEF IInv, ClaimsCounted
  <2>. QED
    BY <2>1, <2>2
<1>14. LockIsTheClaim'
  <2>. SUFFICES ASSUME ~SlowWorkers, NEW v \in Workers, NEW e \in Events, work'[v].batch[e] # 0
                PROVE  /\ row'[e].status = "processing" /\ row'[e].lock
                       /\ \A x \in Workers : work'[x].batch[e] # 0 => x = v
    BY DEF LockIsTheClaim
  <2>1. \A x \in Workers : work[x].batch[e] # 0 =>
          /\ row[e].status = "processing" /\ row[e].lock
          /\ \A y \in Workers : work[y].batch[e] # 0 => y = x
    BY DEF IInv, LockIsTheClaim
  <2>2. CASE e \in B
    <3>1. \A x \in Workers : work[x].batch[e] = 0
      BY <2>1, <2>2, <1>1 DEF Eligible
    <3>. QED
      BY <2>2, <3>1, <1>2, <1>7
  <2>3. CASE e \notin B
    <3>1. work'[w].batch[e] = 0
      BY <2>3, <1>4, <1>5, <1>7
    <3>. QED
      BY <2>1, <2>3, <3>1, <1>2, <1>7
  <2>. QED
    BY <2>2, <2>3
<1>. QED
  BY <1>8, <1>9, <1>10, <1>12, <1>13, <1>14 DEF IInv

\* The notification rows are there before anybody says so.
LEMMA InsertKeeps == ASSUME IInv, NEW w \in Workers, Insert(w) PROVE IInv'
<1>1. /\ work \in [Workers -> Worker] /\ work[w].pc = "insert"
      /\ UNCHANGED <<row, source, auth, lease, faults, holds>>
      /\ work[w].cur \in Events /\ work[w].batch[work[w].cur] # 0
  BY DEF Insert, IInv, TypeOK, WorkerShape
<1>2. PICK o \in {"delivered", "already_delivered", "retry"} :
        /\ work' = [work EXCEPT ![w].pc = "settle", ![w].out = o]
        /\ sent' = sent \cup {work[w].cur} \/ (sent' = sent /\ o = "retry")
  BY DEF Insert
<1>. DEFINE r == [work[w] EXCEPT !.pc = "settle", !.out = o]
<1>3. /\ r \in Worker /\ r.pc = "settle" /\ r.out = o /\ r.batch = work[w].batch
      /\ r.cur = work[w].cur
  BY <1>1 DEF Worker, Outcome
<1>4. work' = [work EXCEPT ![w] = r]
  BY <1>2
<1>. HIDE DEF r
<1>5. /\ work' \in [Workers -> Worker] /\ work'[w] = r
      /\ \A v \in Workers : v # w => work'[v] = work[v]
  BY <1>1, <1>3, <1>4
<1>6. TypeOK'
  BY <1>1, <1>2, <1>5 DEF IInv, TypeOK
<1>7. WorkerShape'
  BY <1>1, <1>3, <1>5 DEF IInv, WorkerShape
<1>8. VerdictIsTrue'
  BY <1>1, <1>2, <1>3, <1>5 DEF IInv, VerdictIsTrue
<1>9. SettledIsUnlocked' /\ DeliveredMeansSent' /\ ReadinessWindowIsKept'
  BY <1>1, <1>2
  DEF IInv, SettledIsUnlocked, DeliveredMeansSent, ReadinessWindowIsKept, Terminal
<1>10. \A v \in Workers, e \in Events : work'[v].batch[e] # 0 =>
         work[v].batch[e] = work'[v].batch[e] /\ KeptRow(e)
  BY <1>1, <1>3, <1>5 DEF KeptRow
<1>. QED
  BY <1>6, <1>7, <1>8, <1>9, <1>10, CalmKeeps

\* The closing UPDATE keeps the attempts and writes the verdict.
LEMMA SettledRowFacts ==
  ASSUME NEW r \in Row, NEW out \in Outcome, NEW n \in Nat
  PROVE  /\ SettledRow(r, out, n) \in Row /\ SettledRow(r, out, n).attempt = r.attempt
         /\ SettledRow(r, out, n).status # "none" /\ SettledRow(r, out, n).lock = FALSE
         /\ SettledRow(r, out, n).code \in {out, "max_attempts"}
<1>1. SettledRow(r, out, n) \in
        {[r EXCEPT !.status = "pending", !.due = FALSE, !.lock = FALSE, !.code = out],
         [r EXCEPT !.status = "dead_letter", !.lock = FALSE, !.code = "max_attempts"],
         [r EXCEPT !.status = "dead_letter", !.lock = FALSE, !.code = out],
         [r EXCEPT !.status = "completed", !.lock = FALSE, !.code = out]}
  BY BoundsAssumption DEF SettledRow
<1>. DEFINE q == SettledRow(r, out, n)
            Good == /\ q \in Row /\ q.attempt = r.attempt /\ q.status # "none" /\ q.lock = FALSE
                    /\ q.code \in {out, "max_attempts"}
<1>2. SUFFICES Good
  OBVIOUS
<1>. HIDE DEF q
<1>3. CASE q = [r EXCEPT !.status = "pending", !.due = FALSE, !.lock = FALSE, !.code = out]
  BY <1>3 DEF Row
<1>4. CASE q = [r EXCEPT !.status = "dead_letter", !.lock = FALSE, !.code = "max_attempts"]
  BY <1>4 DEF Row
<1>5. CASE q = [r EXCEPT !.status = "dead_letter", !.lock = FALSE, !.code = out]
  BY <1>5 DEF Row
<1>6. CASE q = [r EXCEPT !.status = "completed", !.lock = FALSE, !.code = out]
  BY <1>6 DEF Row
<1>7. \/ q = [r EXCEPT !.status = "pending", !.due = FALSE, !.lock = FALSE, !.code = out]
      \/ q = [r EXCEPT !.status = "dead_letter", !.lock = FALSE, !.code = "max_attempts"]
      \/ q = [r EXCEPT !.status = "dead_letter", !.lock = FALSE, !.code = out]
      \/ q = [r EXCEPT !.status = "completed", !.lock = FALSE, !.code = out]
  BY <1>1 DEF q
<1>. HIDE DEF Good
<1>. QED
  BY <1>3, <1>4, <1>5, <1>6, <1>7

\* The row takes the verdict of a claim, which may be an overtaken one.
LEMMA SettleKeeps == ASSUME IInv, NEW w \in Workers, Settle(w) PROVE IInv'
<1>. DEFINE e == work[w].cur
            n == work[w].batch[e]
            o == work[w].out
            q == SettledRow(row[e], o, n)
            b == [work[w].batch EXCEPT ![e] = 0]
            p == IF b # NoBatch THEN "loop" ELSE "drain"
            r == [work[w] EXCEPT !.batch = b, !.cur = NoEvent, !.out = "none", !.pc = p]
<1>1. /\ row \in [Events -> Row] /\ work \in [Workers -> Worker] /\ work[w].pc = "settle"
      /\ UNCHANGED <<source, auth, sent, lease, faults>> /\ holds \in [Events -> Nat]
      /\ e \in Events /\ n # 0 /\ work[w] \in Worker /\ row[e] \in Row
  BY DEF Settle, IInv, TypeOK, WorkerShape
<1>2. work[w].batch \in [Events -> Nat] /\ n \in Nat /\ o \in Outcome
  BY <1>1 DEF Worker
<1>3. /\ q \in Row /\ q.attempt = row[e].attempt /\ q.status # "none" /\ q.lock = FALSE
      /\ q.code \in {o, "max_attempts"}
  BY <1>1, <1>2, SettledRowFacts
<1>4. row' = [row EXCEPT ![e] = q]
  BY DEF Settle
<1>5. work' = [work EXCEPT ![w] = r]
  BY DEF Settle
<1>. HIDE DEF q
<1>6. /\ b \in [Events -> Nat] /\ b[e] = 0 /\ \A f \in Events : f # e => b[f] = work[w].batch[f]
  BY <1>1, <1>2
<1>7. p \in {"loop", "drain"} /\ (p = "drain" => b = NoBatch)
  OBVIOUS
<1>. HIDE DEF b, p
<1>8. r \in Worker /\ r.pc = p /\ r.batch = b
  BY <1>1, <1>6, <1>7 DEF Worker, Outcome
<1>. HIDE DEF r
<1>9. /\ work' \in [Workers -> Worker] /\ work'[w] = r
      /\ \A v \in Workers : v # w => work'[v] = work[v]
  BY <1>1, <1>5, <1>8
<1>10. /\ row' \in [Events -> Row] /\ row'[e] = q
       /\ \A f \in Events : f # e => row'[f] = row[f]
  BY <1>1, <1>3, <1>4
<1>11. holds' \in [Events -> Nat]
  BY <1>1 DEF Settle
<1>12. TypeOK'
  BY <1>1, <1>9, <1>10, <1>11 DEF IInv, TypeOK
<1>13. WorkerShape' /\ VerdictIsTrue'
  BY <1>1, <1>7, <1>8, <1>9 DEF IInv, WorkerShape, VerdictIsTrue
<1>14. SettledIsUnlocked'
  BY <1>3, <1>10 DEF IInv, SettledIsUnlocked, Terminal
<1>15. DeliveredMeansSent'
  BY <1>1, <1>3, <1>10 DEF IInv, DeliveredMeansSent, VerdictIsTrue
<1>16. n <= row[e].attempt /\ row[e].attempt \in Nat
  BY <1>1 DEF IInv, ClaimsCounted, Row
<1>17. ReadinessWindowIsKept'
  <2>. SUFFICES ASSUME NEW f \in Critical, row'[f].code = "no_recipients"
                PROVE  row'[f].attempt >= ReadinessMax
    BY DEF ReadinessWindowIsKept
  <2>1. CASE f = e
    <3>1. o = "no_recipients"
      BY <2>1, <1>3, <1>10
    <3>2. n >= ReadinessMax
      BY <2>1, <3>1, <1>1 DEF IInv, VerdictIsTrue
    <3>. QED
      BY <2>1, <3>2, <1>2, <1>3, <1>10, <1>16, BoundsAssumption
  <2>2. CASE f # e
    BY <2>2, <1>10, SetsAssumption DEF IInv, ReadinessWindowIsKept
  <2>. QED
    BY <2>1, <2>2
<1>18. ClaimsCounted'
  <2>. SUFFICES ASSUME NEW v \in Workers, NEW f \in Events, work'[v].batch[f] # 0
                PROVE  row'[f].status # "none" /\ work'[v].batch[f] <= row'[f].attempt
    BY DEF ClaimsCounted
  <2>1. work'[v].batch[f] = work[v].batch[f]
    BY <1>6, <1>8, <1>9
  <2>. QED
    BY <2>1, <1>3, <1>10 DEF IInv, ClaimsCounted
<1>19. LockIsTheClaim'
  <2>. SUFFICES ASSUME ~SlowWorkers, NEW v \in Workers, NEW f \in Events, work'[v].batch[f] # 0
                PROVE  /\ row'[f].status = "processing" /\ row'[f].lock
                       /\ \A x \in Workers : work'[x].batch[f] # 0 => x = v
    BY DEF LockIsTheClaim
  <2>1. \A x \in Workers : work'[x].batch[f] # 0 => work[x].batch[f] # 0
    BY <1>6, <1>8, <1>9
  <2>2. \A x \in Workers : work[x].batch[f] # 0 =>
          /\ row[f].status = "processing" /\ row[f].lock
          /\ \A y \in Workers : work[y].batch[f] # 0 => y = x
    BY DEF IInv, LockIsTheClaim
  <2>3. f # e
    <3>. SUFFICES ASSUME f = e PROVE FALSE
      OBVIOUS
    <3>1. v = w
      BY <1>1, <2>1, <2>2
    <3>. QED
      BY <3>1, <1>6, <1>8, <1>9
  <2>. QED
    BY <2>1, <2>2, <2>3, <1>10
<1>. QED
  BY <1>12, <1>13, <1>14, <1>15, <1>17, <1>18, <1>19 DEF IInv

-----------------------------------------------------------------------------
(* The invariant, and what it shows.                                         *)

LEMMA InitIInv == Init => IInv
<1>. SUFFICES ASSUME Init PROVE IInv
  OBVIOUS
<1>1. /\ NoRow \in Row /\ NoRow.status = "none" /\ NoRow.code = "none"
  BY DEF NoRow, Row, Outcome
<1>2. /\ row = [e \in Events |-> NoRow] /\ work = [w \in Workers |-> Idle] /\ sent = {}
      /\ source \in [Events -> {"valid", "malformed"}] /\ auth \in [Events -> BOOLEAN]
      /\ lease = [holder |-> NoWorker, live |-> FALSE] /\ faults = 0
      /\ holds = [e \in Events |-> 0]
  BY DEF Init
<1>3. source \in [Events -> {"valid", "malformed", "invalid", "gone", "ambiguous"}]
  BY <1>2
<1>4. TypeOK
  BY <1>1, <1>2, <1>3, IdleShape, BoundsAssumption DEF TypeOK
<1>5. \A w \in Workers : work[w] = Idle /\ \A e \in Events : work[w].batch[e] = 0
  BY <1>2, IdleShape DEF NoBatch
<1>6. WorkerShape /\ VerdictIsTrue
  BY <1>5, IdleShape DEF WorkerShape, VerdictIsTrue
<1>7. ClaimsCounted /\ LockIsTheClaim
  BY <1>5 DEF ClaimsCounted, LockIsTheClaim
<1>8. SettledIsUnlocked /\ DeliveredMeansSent /\ ReadinessWindowIsKept
  BY <1>1, <1>2, SetsAssumption
  DEF SettledIsUnlocked, DeliveredMeansSent, ReadinessWindowIsKept, Terminal
<1>. QED
  BY <1>4, <1>6, <1>7, <1>8 DEF IInv

LEMMA IInvStep == IInv /\ [Next]_vars => IInv'
<1>. SUFFICES ASSUME IInv, [Next]_vars PROVE IInv'
  OBVIOUS
<1>1. CASE UNCHANGED vars
  BY <1>1 DEF vars, IInv, TypeOK, WorkerShape, ClaimsCounted, VerdictIsTrue, LockIsTheClaim,
     SettledIsUnlocked, DeliveredMeansSent, ReadinessWindowIsKept, Terminal
<1>2. ASSUME NEW w \in Workers, WorkerStep(w) PROVE IInv'
  BY <1>2, AcquireLeaseKeeps, BeginDrainKeeps, EndKeeps, InsertKeeps, SettleKeeps,
     EnqueueScannedKeeps, ResolveKeeps DEF WorkerStep
<1>3. ASSUME NEW w \in Workers, Crash(w) \/ DatabaseError(w) PROVE IInv'
  BY <1>3, EndKeeps
<1>4. ASSUME NEW w \in Workers, NEW B \in SUBSET Events, Claim(w, B) PROVE IInv'
  BY <1>4, ClaimKeeps
<1>5. ASSUME NEW e \in Events, DomainTransition(e) \/ BackoffEnds(e) \/ LockExpires(e) PROVE IInv'
  BY <1>5, DomainTransitionKeeps, DateKeeps
<1>6. CASE (\E e \in Events : SourceChanges(e) \/ AuthorizationChanges(e)) \/ LeaseExpires
  BY <1>6, OutsideKeeps
<1>. QED
  BY <1>1, <1>2, <1>3, <1>4, <1>5, <1>6 DEF Next

LEMMA IInvInvariant == Spec => []IInv
  BY InitIInv, IInvStep, PTL DEF Spec

\* Every claim, verdict and date is of its type, whoever writes the row last.
THEOREM TypesHold == Spec => []TypeOK
<1>1. IInv => TypeOK
  BY DEF IInv
<1>. QED
  BY <1>1, IInvInvariant, PTL

\* An event on record as delivered has its notification row, even when the closing
\* UPDATE is a late one of a worker whose claim had expired.
THEOREM DeliveredIsSent == Spec => []DeliveredMeansSent
<1>1. IInv => DeliveredMeansSent
  BY DEF IInv
<1>. QED
  BY <1>1, IInvInvariant, PTL

\* A critical event is given up for want of a recipient only after the whole readiness
\* window, however its attempts were spread over workers.
THEOREM WindowIsKept == Spec => []ReadinessWindowIsKept
<1>1. IInv => ReadinessWindowIsKept
  BY DEF IInv
<1>. QED
  BY <1>1, IInvInvariant, PTL

\* Where no worker outlives its claim, "concurrent workers take disjoint rows".
THEOREM ClaimsAreDisjoint == ASSUME ~SlowWorkers PROVE Spec => []DisjointClaims
<1>1. IInv => DisjointClaims
  BY DEF IInv, LockIsTheClaim, DisjointClaims
<1>. QED
  BY <1>1, IInvInvariant, PTL

\* Where no worker outlives its claim, what is settled stays settled: no scan, claim,
\* date or closing UPDATE writes the row again.
THEOREM SettledForGood == ASSUME ~SlowWorkers PROVE Spec => TerminalIsFinal
<1>. DEFINE A == \A e \in Events : Terminal(e) => row'[e] = row[e]
<1>1. ASSUME IInv, Next, NEW f \in Events, Terminal(f) PROVE row'[f] = row[f]
  <2>1. row \in [Events -> Row] /\ row[f].status \in {"completed", "dead_letter"}
    BY <1>1 DEF IInv, TypeOK, Terminal
  <2>2. ~row[f].lock
    BY <1>1 DEF IInv, SettledIsUnlocked
  <2>3. ASSUME NEW e \in Events, row' = Enqueued(e) PROVE row'[f] = row[f]
    BY <1>1, <2>1, <2>3, EnqueuedRow
  <2>4. ASSUME NEW w \in Workers, NEW B \in SUBSET Events, Claim(w, B) PROVE row'[f] = row[f]
    <3>1. f \notin B
      BY <2>1, <2>4 DEF Claim, Eligible
    <3>. QED
      BY <2>4, <3>1 DEF Claim
  <2>5. ASSUME NEW w \in Workers, Settle(w) PROVE row'[f] = row[f]
    <3>1. work[w].cur \in Events /\ work[w].batch[work[w].cur] # 0
      BY <1>1, <2>5 DEF Settle, IInv, WorkerShape
    <3>2. row[work[w].cur].status = "processing"
      BY <1>1, <3>1 DEF IInv, LockIsTheClaim
    <3>3. work[w].cur # f
      BY <2>1, <3>2
    <3>4. PICK q : row' = [row EXCEPT ![work[w].cur] = q]
      BY <2>5 DEF Settle
    <3>. QED
      BY <2>1, <3>3, <3>4
  <2>6. ASSUME NEW e \in Events, BackoffEnds(e) PROVE row'[f] = row[f]
    BY <2>1, <2>6 DEF BackoffEnds
  <2>7. ASSUME NEW e \in Events, LockExpires(e) PROVE row'[f] = row[f]
    <3>1. e # f
      BY <2>2, <2>7 DEF LockExpires
    <3>. QED
      BY <2>1, <2>7, <3>1 DEF LockExpires
  <2>8. \/ row' = row
        \/ \E e \in Events : row' = Enqueued(e) \/ BackoffEnds(e) \/ LockExpires(e)
        \/ \E w \in Workers : Settle(w)
        \/ \E w \in Workers, B \in SUBSET Events : Claim(w, B)
    BY <1>1 DEF Next, WorkerStep, AcquireLease, BeginDrain, EndDrain, ReleaseLease, Insert,
       EnqueueScanned, Resolve, Crash, DatabaseError, DomainTransition, SourceChanges,
       AuthorizationChanges, LeaseExpires
  <2>. QED
    BY <2>3, <2>4, <2>5, <2>6, <2>7, <2>8
<1>2. IInv /\ [Next]_vars => [A]_vars
  BY <1>1
<1>. QED
  BY <1>2, IInvInvariant, PTL DEF Spec, TerminalIsFinal

\* A cycle that outlived its lease does not free its successor's: the lease changes
\* hands only when it has expired, or by a step of its holder.
THEOREM LeaseIsOwn == Spec => LeaseOutlivesPredecessor
<1>. DEFINE A == \A w \in Workers : lease.holder = w /\ lease'.holder # w
                   => work'[w] # work[w] \/ ~lease.live
<1>1. ASSUME IInv, Next, NEW w \in Workers, lease.holder = w, lease'.holder # w, lease.live
      PROVE  work'[w] # work[w]
  <2>1. lease \in [holder : Workers \cup {NoWorker}, live : BOOLEAN] /\ work \in [Workers -> Worker]
    BY <1>1 DEF IInv, TypeOK
  <2>2. lease' # lease /\ ~LeaseExpires
    BY <1>1, <2>1 DEF LeaseExpires
  <2>3. \A v \in Workers : ~AcquireLease(v)
    BY <1>1 DEF AcquireLease
  <2>4. \E v \in Workers : ReleaseLease(v)
    BY <1>1, <2>2, <2>3 DEF Next, WorkerStep, BeginDrain, EndDrain, Insert, Settle, Claim,
       EnqueueScanned, Resolve, Crash, DatabaseError, DomainTransition, SourceChanges,
       AuthorizationChanges, BackoffEnds, LockExpires
  <2>5. PICK v \in Workers : ReleaseLease(v)
    BY <2>4
  <2>6. v = w
    BY <1>1, <2>2, <2>5 DEF ReleaseLease
  <2>7. work[w].pc = "release" /\ work'[w] = Idle
    BY <2>1, <2>5, <2>6 DEF ReleaseLease
  <2>. QED
    BY <2>7, IdleShape
<1>2. IInv /\ [Next]_vars => [A]_vars
  BY <1>1
<1>. QED
  BY <1>2, IInvInvariant, PTL DEF Spec, LeaseOutlivesPredecessor
=============================================================================
