------------------------- MODULE LeaseHeartbeatProofs -------------------------
(***************************************************************************)
(* The heartbeat controller gives up in time, for every TTL, interval,     *)
(* failure limit, latency and lateness of the timer for which the beats    *)
(* that may fail fit into the lease.                                       *)
(***************************************************************************)
EXTENDS LeaseHeartbeat, TLAPS

\* The longest time between two beats.
Gap == Interval + MaxStall

\* Multiples of the gap, for provers that do not multiply variables.
LEMMA GapMultiples ==
  /\ Gap \in Nat
  /\ \A n \in Nat : n * Gap \in Nat /\ (n + 1) * Gap = n * Gap + Gap
  /\ \A m, n \in Nat : m <= n => m * Gap <= n * Gap
<1>1. Gap \in Nat
  BY TimesAssumption DEF Gap
<1>2. \A g \in Nat : \A n \in Nat : n * g \in Nat /\ (n + 1) * g = n * g + g
  BY SMT
<1>3. \A g \in Nat : \A m, n \in Nat : m <= n => m * g <= n * g
  BY SMT
<1>. QED
  BY <1>1, <1>2, <1>3

\* The constants are numbers.
LEMMA Times ==
  /\ Ttl \in Nat /\ Interval \in Nat /\ MaxFailures \in Nat /\ MaxLatency \in Nat /\ MaxStall \in Nat
  /\ Ttl > 0 /\ Interval > 0 /\ MaxFailures > 0 /\ MaxLatency <= Ttl
BY TimesAssumption

-----------------------------------------------------------------------------
(* Types.                                                                  *)

\* A running controller has not reached its failure limit; a failing heartbeat
\* of a stopped one is the last.
FailuresCount ==
  /\ state = "running" => fails < MaxFailures
  /\ flight # "none" => fails < MaxFailures

TypeInv == TypeOK /\ FailuresCount

LEMMA InitType == Init => TypeInv
BY Times DEF Init, TypeInv, TypeOK, FailuresCount

LEMMA NextType == TypeInv /\ [Next]_vars => TypeInv'
<1>. SUFFICES ASSUME TypeInv, [Next]_vars PROVE TypeInv'
  OBVIOUS
<1>. USE Times DEF TypeInv, TypeOK, FailuresCount
<1>1. CASE Fire
  BY <1>1 DEF Fire
<1>2. CASE Execute
  BY <1>2 DEF Execute
<1>3. CASE Answer
  BY <1>3 DEF Answer
<1>4. CASE Throw
  BY <1>4 DEF Throw, ShouldGiveUp
<1>5. CASE Stop
  BY <1>5 DEF Stop
<1>6. CASE Takeover
  BY <1>6 DEF Takeover
<1>7. CASE Disconnect
  BY <1>7 DEF Disconnect
<1>8. CASE Tick
  BY <1>8 DEF Tick
<1>9. CASE UNCHANGED vars
  BY <1>9 DEF vars
<1>. QED
  BY <1>1, <1>2, <1>3, <1>4, <1>5, <1>6, <1>7, <1>8, <1>9 DEF Next

\* The controller and its lease keep their types, for every value of the times
\* (the counters of createLeaseHeartbeat stay within their limits).
THEOREM TypeCorrect == Spec => []TypeOK
<1>1. TypeInv => TypeOK
  BY DEF TypeInv
<1>. QED
  BY <1>1, InitType, NextType, PTL DEF Spec

-----------------------------------------------------------------------------
(* The lease outlives the beats.                                           *)

\* While the run owns the row, the row's time left is at least what the beats
\* since its last renewal have used up: one gap for each failed one, and the time
\* since the last beat.
Reserve ==
  state = "running" =>
    /\ flight # "none" => age = since
    /\ flight = "refused" => ~ours
    /\ ours /\ flight = "none" => left >= Ttl - fails * Gap - since
    /\ ours /\ flight = "sent" => left >= Ttl - (fails + 1) * Gap - age
    /\ ours /\ flight = "renewed" => left >= Ttl - age

IInv == TypeInv /\ Reserve

\* What the reserve is for.
LEMMA ReserveIsEnough ==
  ASSUME IInv, BeatsFitLease, state = "running", ours
  PROVE  left >= 0
<1>1. /\ left \in Int /\ fails \in Nat /\ age \in Nat /\ since \in Nat
      /\ age <= MaxLatency /\ since <= Gap /\ fails < MaxFailures /\ fails + 1 <= MaxFailures
  BY Times DEF IInv, TypeInv, TypeOK, FailuresCount, Gap
<1>2. MaxFailures * Gap + MaxLatency <= Ttl
  BY DEF BeatsFitLease, Gap
<1>3. /\ fails * Gap \in Nat /\ (fails + 1) * Gap \in Nat /\ (fails + 1) * Gap = fails * Gap + Gap
      /\ MaxFailures * Gap \in Nat /\ (fails + 1) * Gap <= MaxFailures * Gap
  BY <1>1, Times, GapMultiples
<1>. DEFINE F == fails * Gap  F1 == (fails + 1) * Gap  M == MaxFailures * Gap
<1>4. /\ F \in Nat /\ F1 \in Nat /\ F1 = F + Gap /\ M \in Nat /\ F1 <= M /\ M + MaxLatency <= Ttl
  BY <1>2, <1>3
<1>5. /\ flight \in {"none", "sent", "renewed"}
      /\ flight = "none" => left >= Ttl - F - since
      /\ flight = "sent" => left >= Ttl - F1 - age
      /\ flight = "renewed" => left >= Ttl - age
  BY DEF IInv, Reserve, TypeInv, TypeOK
<1>. HIDE DEF F, F1, M
<1>. QED
  BY <1>1, <1>4, <1>5, Times, GapMultiples

LEMMA InitReserve == Init => IInv
<1>. SUFFICES ASSUME Init PROVE IInv
  OBVIOUS
<1>1. Ttl >= Ttl - 0 * Gap - 0
  BY Times, GapMultiples
<1>. QED
  BY <1>1, InitType DEF Init, IInv, Reserve

LEMMA NextReserve == BeatsFitLease /\ IInv /\ [Next]_vars => IInv'
<1>. SUFFICES ASSUME BeatsFitLease, IInv, [Next]_vars PROVE IInv'
  OBVIOUS
<1>0. TypeInv /\ TypeInv' /\ TypeOK /\ TypeOK' /\ Reserve
  BY NextType DEF IInv, TypeInv
<1>a. /\ left \in Int /\ fails \in Nat /\ age \in Nat /\ since \in Nat
      /\ age <= MaxLatency /\ since <= Gap
  BY <1>0, Times DEF TypeOK, Gap
<1>b. /\ fails * Gap \in Nat /\ (fails + 1) * Gap \in Nat /\ (fails + 1) * Gap = fails * Gap + Gap
      /\ Gap \in Nat /\ 0 * Gap = 0
  BY <1>a, GapMultiples
<1>c. MaxLatency < Interval
  BY DEF BeatsFitLease
<1>d. state = "running" /\ ours => left >= 0
  BY ReserveIsEnough
<1>1. CASE Fire
  <2>1. flight = "none"
    BY <1>0, <1>1, <1>a, <1>c, Times DEF Fire, Reserve
  <2>2. /\ flight' = "sent" /\ age' = 0 /\ since' = 0 /\ state = "running" /\ UNCHANGED <<left, ours, fails, state>>
    BY <1>1, <2>1 DEF Fire
  <2>3. ours => left >= Ttl - (fails + 1) * Gap - 0
    BY <1>0, <1>a, <1>b, <2>1, <2>2, Times DEF Reserve
  <2>. QED
    BY <1>0, <2>2, <2>3 DEF IInv, Reserve
<1>2. CASE Execute
  BY <1>0, <1>2, <1>a, Times DEF Execute, IInv, Reserve
<1>3. CASE Answer
  <2>1. CASE flight = "renewed"
    <3>1. /\ flight' = "none" /\ fails' = 0 /\ UNCHANGED <<state, left, ours, since>>
      BY <1>3, <2>1 DEF Answer
    <3>2. state = "running" /\ ours => left >= Ttl - 0 * Gap - since
      BY <1>0, <1>a, <1>b, <2>1, Times DEF Reserve
    <3>. QED
      BY <1>0, <3>1, <3>2 DEF IInv, Reserve
  <2>2. CASE flight = "refused"
    BY <1>0, <1>3, <2>2 DEF Answer, IInv, Reserve
  <2>. QED
    BY <1>3, <2>1, <2>2 DEF Answer
<1>4. CASE Throw
  <2>1. /\ flight # "none" /\ flight' = "none" /\ fails' = fails + 1 /\ UNCHANGED <<left, ours, since>>
        /\ state' = "running" => state = "running"
    BY <1>4 DEF Throw
  <2>2. state = "running" /\ ours => left >= Ttl - (fails + 1) * Gap - since
    BY <1>0, <1>a, <1>b, <2>1, Times DEF Reserve, TypeOK
  <2>. QED
    BY <1>0, <2>1, <2>2 DEF IInv, Reserve
<1>5. CASE Stop
  BY <1>0, <1>5 DEF Stop, IInv, Reserve
<1>6. CASE Takeover
  BY <1>0, <1>6 DEF Takeover, IInv, Reserve
<1>7. CASE Disconnect
  BY <1>0, <1>7 DEF Disconnect, IInv, Reserve
<1>8. CASE Tick
  <2>1. CASE state = "running" /\ ours
    <3>. DEFINE F == fails * Gap  F1 == (fails + 1) * Gap
    <3>1. F \in Nat /\ F1 \in Nat
      BY <1>b
    <3>2. /\ left' = left - 1 /\ since' = since + 1 /\ UNCHANGED <<ours, fails, state, flight>>
          /\ age' = IF flight = "none" THEN age ELSE age + 1
      BY <1>8, <1>a, <1>d, <2>1 DEF Tick
    <3>3. /\ flight # "none" => age = since
          /\ flight # "refused"
          /\ flight = "none" => left >= Ttl - F - since
          /\ flight = "sent" => left >= Ttl - F1 - age
          /\ flight = "renewed" => left >= Ttl - age
      BY <1>0, <2>1 DEF Reserve
    <3>. HIDE DEF F, F1
    <3>4. /\ flight # "none" => age' = since'
          /\ flight = "none" => left' >= Ttl - F - since'
          /\ flight = "sent" => left' >= Ttl - F1 - age'
          /\ flight = "renewed" => left' >= Ttl - age'
      BY <1>a, <3>1, <3>2, <3>3, Times
    <3>. QED
      BY <1>0, <3>2, <3>3, <3>4 DEF F, F1, IInv, Reserve
  <2>2. CASE state = "running" /\ ~ours
    BY <1>0, <1>8, <1>a, <2>2 DEF Tick, IInv, Reserve
  <2>3. CASE state # "running"
    BY <1>0, <1>8, <2>3 DEF Tick, IInv, Reserve
  <2>. QED
    BY <2>1, <2>2, <2>3
<1>9. CASE UNCHANGED vars
  BY <1>0, <1>9 DEF vars, IInv, Reserve
<1>. QED
  BY <1>1, <1>2, <1>3, <1>4, <1>5, <1>6, <1>7, <1>8, <1>9 DEF Next

\* A run whose beats fit its lease never works on an expired one, for every TTL,
\* interval, failure limit, latency and lateness of the timer (the fail-closed
\* rule of createLeaseHeartbeat).
THEOREM GivesUpInTime == Spec => []ExpiredMeansLost
<1>1. CASE BeatsFitLease
  <2>1. IInv => ExpiredMeansLost
    BY ReserveIsEnough DEF ExpiredMeansLost
  <2>2. IInv /\ [Next]_vars => IInv'
    BY <1>1, NextReserve
  <2>. QED
    BY <2>1, <2>2, InitReserve, PTL DEF Spec
<1>2. CASE ~BeatsFitLease
  <2>1. TypeInv => ExpiredMeansLost
    BY <1>2 DEF ExpiredMeansLost
  <2>. QED
    BY <2>1, InitType, NextType, PTL DEF Spec
<1>. QED
  BY <1>1, <1>2
=============================================================================
