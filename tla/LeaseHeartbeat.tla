--------------------------- MODULE LeaseHeartbeat ---------------------------
(***************************************************************************)
(* The heartbeat controller of one sync run (createLeaseHeartbeat) against *)
(* the run's lease row, with the latency of the heartbeat's UPDATE made    *)
(* visible: the expiry the UPDATE writes counts from the instant before it *)
(* was sent, the expiry the controller remembers from the instant after it *)
(* was answered.  Times are relative to now, as in SyncLease.              *)
(***************************************************************************)
EXTENDS Integers

CONSTANTS
  Ttl,            \* leaseTtlMs, in ticks
  Interval,       \* heartbeatMs
  MaxFailures,    \* maxTransientFailures
  MaxLatency,     \* the longest an UPDATE takes, by the transaction timeout
  MaxStall        \* how late the interval timer may fire

ASSUME TimesAssumption ==
  /\ Ttl \in Nat \ {0} /\ Interval \in Nat \ {0} /\ MaxFailures \in Nat \ {0}
  /\ MaxLatency \in Nat /\ MaxLatency <= Ttl /\ MaxStall \in Nat

VARIABLES
  left,      \* the row's expiresAt - now, stuck at -1 once expired
  ours,      \* the row still carries this run's id, holder and generation
  known,     \* currentExpiry - now, stuck at 0
  fails,     \* consecutiveFailures
  state,     \* running, lost or stopped
  flight,    \* the heartbeat: none, sent, or executed with its result
  age,       \* how long ago the heartbeat in flight was sent
  since      \* how long ago the timer fired

vars == <<left, ours, known, fails, state, flight, age, since>>

TypeOK ==
  /\ left \in -1..Ttl
  /\ ours \in BOOLEAN
  /\ known \in 0..Ttl
  /\ fails \in 0..MaxFailures
  /\ state \in {"running", "lost", "stopped"}
  /\ flight \in {"none", "sent", "renewed", "refused"}
  /\ age \in 0..MaxLatency
  /\ since \in 0..(Interval + MaxStall)

\* The lease was just acquired and the controller created and started.
Init ==
  /\ left = Ttl /\ ours = TRUE /\ known = Ttl
  /\ fails = 0 /\ state = "running"
  /\ flight = "none" /\ age = 0 /\ since = 0

-----------------------------------------------------------------------------
\* The timer fires: tick() returns at once while a heartbeat is in flight.
Fire ==
  /\ state = "running"
  /\ since >= Interval
  /\ since' = 0
  /\ IF flight = "none"
     THEN flight' = "sent" /\ age' = 0
     ELSE UNCHANGED <<flight, age>>
  /\ UNCHANGED <<left, ours, known, fails, state>>

\* heartbeatSyncLease executes: expiresAt := at + ttl on a matching row.
Execute ==
  /\ flight = "sent"
  /\ IF ours
     THEN flight' = "renewed" /\ left' = Ttl - age
     ELSE flight' = "refused" /\ UNCHANGED left
  /\ UNCHANGED <<ours, known, fails, state, age, since>>

\* Mutant: a refused heartbeat is not taken for a loss.
AnswerIgnored ==
  /\ flight \in {"renewed", "refused"}
  /\ flight' = "none" /\ age' = 0
  /\ fails' = 0 /\ known' = Ttl
  /\ UNCHANGED <<left, ours, since, state>>

\* The call returns.  declareLost has no effect after stop().
Answer ==
  /\ flight \in {"renewed", "refused"}
  /\ flight' = "none" /\ age' = 0
  /\ IF flight = "renewed"
     THEN fails' = 0 /\ known' = Ttl /\ UNCHANGED state
     ELSE /\ state' = IF state = "running" THEN "lost" ELSE state
          /\ UNCHANGED <<fails, known>>
  /\ UNCHANGED <<left, ours, since>>

\* Mutant: one failure more is tolerated.
ShouldGiveUpLate(n) == n > MaxFailures \/ known = 0

\* The fail-closed rule of the catch block.
ShouldGiveUp(n) == n >= MaxFailures \/ known = 0

\* The call throws, whether or not the UPDATE was executed.
Throw ==
  /\ flight # "none"
  /\ flight' = "none" /\ age' = 0
  /\ fails' = fails + 1
  /\ state' = IF state = "running" /\ ShouldGiveUp(fails + 1) THEN "lost" ELSE state
  /\ UNCHANGED <<left, ours, known, since>>

\* stop() in the run's finally block.
Stop ==
  /\ state = "running"
  /\ state' = "stopped"
  /\ UNCHANGED <<left, ours, known, fails, flight, age, since>>

\* Another run acquires the expired lease, or a disconnect deletes the row.
Takeover ==
  /\ ours
  /\ left < 0
  /\ ours' = FALSE
  /\ UNCHANGED <<left, known, fails, state, flight, age, since>>

Disconnect ==
  /\ ours
  /\ ours' = FALSE
  /\ UNCHANGED <<left, known, fails, state, flight, age, since>>

\* Time passes, but no UPDATE outlives the transaction timeout and the timer is
\* at most MaxStall late.
Tick ==
  /\ flight # "none" => age < MaxLatency
  /\ state = "running" => since < Interval + MaxStall
  /\ left' = IF left < 0 THEN left ELSE left - 1
  /\ known' = IF known = 0 THEN known ELSE known - 1
  /\ age' = IF flight = "none" THEN age ELSE age + 1
  /\ since' = IF state = "running" THEN since + 1 ELSE since
  /\ UNCHANGED <<ours, fails, state, flight>>

Next == Fire \/ Execute \/ Answer \/ Throw \/ Stop \/ Takeover \/ Disconnect \/ Tick

Spec == Init /\ [][Next]_vars
FairSpec == Spec /\ WF_vars(Fire) /\ WF_vars(Execute) /\ WF_vars(Answer \/ Throw) /\ WF_vars(Tick)

-----------------------------------------------------------------------------
\* The beats are answered before the next is due, and as many as may fail fit
\* into the lease, each as late as the timer may be.
BeatsFitLease ==
  /\ MaxLatency < Interval
  /\ MaxFailures * (Interval + MaxStall) + MaxLatency <= Ttl

\* A run whose beats fit its lease does not work on an expired one: whatever the
\* latency and the failures of its heartbeats, the controller has declared the
\* loss before the row expires, so nobody takes over from a run that believes
\* itself the owner.
ExpiredMeansLost == BeatsFitLease /\ state = "running" /\ ours => left >= 0

\* Loss is noticed: a run whose row went to somebody else does not keep running.
LossIsNoticed == (state = "running" /\ ~ours) ~> state # "running"

\* "require at least two heartbeats to fit before expiry, so a single slow/failed
\* beat cannot let the lease lapse" (apps/worker/src/config-validator.ts): of the
\* configurations the validator accepts, none lets the lease of a run expire
\* after one failed beat.  TLC refutes it where the interval is half of the TTL.
OneFailedBeatIsSurvived ==
  2 * Interval <= Ttl /\ state = "running" /\ ours /\ fails <= 1 => left >= 0
=============================================================================
