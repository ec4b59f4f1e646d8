------------------------------ MODULE PaidAiGuard ------------------------------
(***************************************************************************)
(* The fuses of one process before a paid provider call: the circuit        *)
(* breaker, the requests per minute and the concurrency slots.  Every       *)
(* method runs without an await; a classification awaits between reading    *)
(* the clock and tryAcquire, between the provider's answer and the release, *)
(* and passes the time it read first to all of them.                        *)
(***************************************************************************)
EXTENDS Integers, FiniteSets

CONSTANTS
  Calls,            \* classifications under way at a time
  MinuteTicks,      \* ticks of the clock in a minute
  RpmLimit, MaxConcurrency,
  FailureThreshold, Cooldown,
  Prompt,           \* whether tryAcquire is reached in the tick the clock was read in
  MaxTime           \* how far the clock goes

ASSUME GuardAssumption ==
  /\ IsFiniteSet(Calls)
  /\ MinuteTicks \in Nat \ {0} /\ RpmLimit \in Nat \ {0} /\ MaxConcurrency \in Nat \ {0}
  /\ FailureThreshold \in Nat \ {0} /\ Cooldown \in Nat \ {0}
  /\ Prompt \in BOOLEAN /\ MaxTime \in Nat

VARIABLES
  clock,      \* the time
  guard,      \* the fields of PaidAiGuard
  call,       \* per classification: where it is and the time it read
  admitted,   \* history: the admissions of each minute of the clock
  probes      \* history: the half-open probes not yet recorded

guardVars == <<clock, guard, call, admitted, probes>>

-----------------------------------------------------------------------------
Minute(t) == t \div MinuteTicks
Minutes == 0..Minute(MaxTime)
Times == 0..MaxTime

\* `minute' is -1 before the first tick, `openUntil' 0 when the circuit is closed.
Guard == [minute : Minutes \cup {-1}, count : 0..RpmLimit, inFlight : 0..MaxConcurrency,
          failures : 0..(FailureThreshold - 1), openUntil : 0..(MaxTime + Cooldown),
          halfOpen : BOOLEAN]
Call == [pc : {"idle", "begun", "admitted", "recorded"}, at : Times]

GuardTypeOK ==
  /\ clock \in Times
  /\ guard \in Guard
  /\ call \in [Calls -> Call]
  /\ admitted \in [Minutes -> Nat]
  /\ probes \subseteq Calls

NotRunning == [pc |-> "idle", at |-> 0]

GuardInit ==
  /\ clock = 0
  /\ guard = [minute |-> -1, count |-> 0, inFlight |-> 0, failures |-> 0, openUntil |-> 0,
              halfOpen |-> FALSE]
  /\ call = [c \in Calls |-> NotRunning]
  /\ admitted = [m \in Minutes |-> 0]
  /\ probes = {}

-----------------------------------------------------------------------------
(* tryAcquire, for a caller that read the time t.                          *)

CircuitOpen(t) == guard.openUntil > 0 /\ t < guard.openUntil

\* The cooldown has elapsed: half-open.
Cooled == IF guard.openUntil > 0 THEN [guard EXCEPT !.openUntil = 0, !.halfOpen = TRUE] ELSE guard

\* Mutant: the window is only ever counted up.
CountInDistinctMinute(t) == IF Minute(t) = guard.minute THEN 0 ELSE guard.count

CountIn(t) == IF Minute(t) = guard.minute THEN guard.count ELSE 0

Admits(t) ==
  /\ ~CircuitOpen(t)
  /\ CountIn(t) + 1 <= RpmLimit
  /\ guard.inFlight < MaxConcurrency

\* A classification begins and reads the clock.
Begin(c) ==
  /\ call[c].pc = "idle"
  /\ call' = [call EXCEPT ![c] = [pc |-> "begun", at |-> clock]]
  /\ UNCHANGED <<clock, guard, admitted, probes>>

Admit(c) ==
  LET t == call[c].at
  IN  /\ call[c].pc = "begun" /\ Admits(t)
      /\ guard' = [Cooled EXCEPT !.minute = Minute(t), !.count = CountIn(t) + 1,
                                 !.inFlight = @ + 1]
      /\ call' = [call EXCEPT ![c].pc = "admitted"]
      /\ admitted' = [admitted EXCEPT ![Minute(clock)] = @ + 1]
      /\ probes' = IF Cooled.halfOpen THEN probes \cup {c} ELSE probes
      /\ UNCHANGED clock

\* A refusal by the rate or the slots has half-opened a cooled circuit.
Refuse(c) ==
  LET t == call[c].at
  IN  /\ call[c].pc = "begun" /\ ~Admits(t)
      /\ guard' = IF CircuitOpen(t) THEN guard ELSE Cooled
      /\ call' = [call EXCEPT ![c] = NotRunning]
      /\ UNCHANGED <<clock, admitted, probes>>

-----------------------------------------------------------------------------
(* The outcome.                                                            *)

\* The provider answered: recordSuccess.
RecordSuccess(c) ==
  /\ call[c].pc = "admitted"
  /\ guard' = [guard EXCEPT !.failures = 0, !.halfOpen = FALSE, !.openUntil = 0]
  /\ call' = [call EXCEPT ![c].pc = "recorded"]
  /\ probes' = probes \ {c}
  /\ UNCHANGED <<clock, admitted>>

\* recordFailure: the probe failed, or one failure too many, and the circuit opens.
Failed(t) ==
  LET trips == guard.halfOpen \/ guard.failures + 1 >= FailureThreshold
  IN  [guard EXCEPT !.halfOpen = FALSE, !.failures = IF trips THEN 0 ELSE @ + 1,
                    !.openUntil = IF trips THEN t + Cooldown ELSE @]

RecordFailure(c) ==
  /\ call[c].pc = "admitted"
  /\ guard' = Failed(call[c].at)
  /\ call' = [call EXCEPT ![c].pc = "recorded"]
  /\ probes' = probes \ {c}
  /\ UNCHANGED <<clock, admitted>>

\* A reservation was refused or the value gate did not fire: nothing is recorded.
RecordNothing(c) ==
  /\ call[c].pc = "admitted"
  /\ call' = [call EXCEPT ![c].pc = "recorded"]
  /\ probes' = probes \ {c}
  /\ UNCHANGED <<clock, guard, admitted>>

\* Mutant: the slot of a call that is still recording is released too.
ReleaseAgain(c) ==
  /\ call[c].pc \in {"admitted", "recorded"}
  /\ guard' = [guard EXCEPT !.inFlight = IF @ > 0 THEN @ - 1 ELSE 0]
  /\ call' = IF call[c].pc = "recorded" THEN [call EXCEPT ![c] = NotRunning] ELSE call
  /\ UNCHANGED <<clock, admitted, probes>>

\* The finally block.
Release(c) ==
  /\ call[c].pc = "recorded"
  /\ guard' = [guard EXCEPT !.inFlight = IF @ > 0 THEN @ - 1 ELSE 0]
  /\ call' = [call EXCEPT ![c] = NotRunning]
  /\ UNCHANGED <<clock, admitted, probes>>

\* Time passes; prompt calls do not wait for their admission.
Tick ==
  /\ clock < MaxTime
  /\ Prompt => \A c \in Calls : call[c].pc # "begun"
  /\ clock' = clock + 1
  /\ UNCHANGED <<guard, call, admitted, probes>>

GuardNext ==
  \/ \E c \in Calls : \/ Begin(c) \/ Admit(c) \/ Refuse(c) \/ Release(c)
                      \/ RecordSuccess(c) \/ RecordFailure(c) \/ RecordNothing(c)
  \/ Tick

GuardSpec == GuardInit /\ [][GuardNext]_guardVars

-----------------------------------------------------------------------------
\* Every concurrency slot taken belongs to a call that will release it: none is
\* lost, none is given back twice.
SlotsMatchCalls ==
  guard.inFlight = Cardinality({c \in Calls : call[c].pc \in {"admitted", "recorded"}})

\* No minute admits more calls than the requests-per-minute fuse allows.
RateCap == \A m \in Minutes : admitted[m] <= RpmLimit

\* "allow a single half-open probe": one call at a time tries the provider after a
\* cooldown.  TLC refutes it: nothing looks at halfOpen.
SingleProbe == Cardinality(probes) <= 1
=============================================================================
