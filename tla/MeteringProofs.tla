---------------------------- MODULE MeteringProofs ----------------------------
(***************************************************************************)
(* The safety of metered classification, for any number of jobs, contents,  *)
(* periods and faults and any limits, and of the fuses of one process.      *)
(*                                                                          *)
(* A job that inserted the event of its key owns the reservation until it   *)
(* has settled it; nobody else ever calls the provider under that key.  The *)
(* tenant's counters follow the events, one transaction at a time, as long  *)
(* as the recovery meets no owner.  The global counter follows the jobs,    *)
(* not the events: a job holds a global call from its reservation until it  *)
(* gives it back or the provider has been paid.                             *)
(***************************************************************************)
EXTENDS MeteredClassify, PaidAiGuard, TLAPS, FiniteSetTheorems

\* The job has inserted the event of its key and not yet settled it.
Owning == {"provider", "settle", "settle_tx"}

OutcomeKnown ==
  \A j \in Jobs : job[j].pc \in {"settle", "settle_tx", "settle_global"} => job[j].out \in {"ok", "unpaid"}

\* The unique index on the idempotency key: one owner, which has not called yet while
\* it is about to.
OwnReservation ==
  \A j \in Jobs : job[j].pc \in Owning =>
    /\ event[Key(j)].status # "none" /\ event[Key(j)].period = job[j].at
    /\ job[j].pc = "provider" => called[Key(j)] = 0
    /\ \A i \in Jobs : job[i].pc \in Owning /\ Key(i) = Key(j) => i = j

\* No call without an event, and no payment without a call.
CallsAreReserved ==
  \A k \in Keys : /\ event[k].status = "none" => called[k] = 0
                  /\ k \in paid => called[k] # 0

ReservedAtEstimate == \A k \in Keys : event[k].status = "reserved" => event[k].cost = Est

\* Where calls are not slow, what a settlement or a recovery has read is still so when
\* it writes: they never meet at one event.
SettlesReserved ==
  ~SlowCalls =>
    /\ \A j \in Jobs : job[j].pc = "settle_tx" => event[Key(j)].status = "reserved"
    /\ \A k \in stale : /\ event[k].status = "reserved"
                        /\ \A j \in Jobs : job[j].pc \in Owning => Key(j) # k

Reservations ==
  /\ OutcomeKnown /\ OwnReservation /\ CallsAreReserved /\ OneCallPerKey
  /\ ReservedAtEstimate /\ SettlesReserved

-----------------------------------------------------------------------------
Costs == [k \in Keys |-> event[k].cost]
BasicUnits == [p \in Periods |-> usage[p].basic]

TenantBooks ==
  ~SlowCalls => \A p \in Periods :
    /\ usage[p].calls = Cardinality(OfPeriod(ChargedKeys, p))
    /\ usage[p].cost = Cardinality(Units(OfPeriod(ChargedKeys, p), Costs))

BasicBooks ==
  Cardinality(Units(Periods, BasicUnits)) = Cardinality({k \in Keys : basic[k] = "succeeded"})

\* A job in state s holds a call of period p of the global counter.
Holds(s, p) ==
  /\ s.at = p
  /\ \/ s.pc \in {"tenant", "tenant_tx", "provider"}
     \/ s.pc \in {"settle", "settle_tx", "settle_global"} /\ s.out = "unpaid"

Holders(p) == {j \in Jobs : Holds(job[j], p)}

GlobalBooks ==
  \A p \in Periods : Cardinality(OfPeriod(paid, p)) + Cardinality(Holders(p)) <= daily[p].calls

IInv == TypeOK /\ Reservations /\ TenantBooks /\ BasicBooks /\ GlobalBooks

-----------------------------------------------------------------------------
(* Counting.                                                                 *)

LEMMA KeysAreFinite == IsFiniteSet(Keys) /\ IsFiniteSet(Jobs)
<1>1. IsFiniteSet(Refresh)
  BY JobsAssumption, FS_Subset
<1>. QED
  BY <1>1, JobsAssumption, FS_Union DEF Keys

LEMMA UnitsElements ==
  ASSUME NEW S, NEW c, NEW u
  PROVE  u \in Units(S, c) <=> \E k \in S : \E i \in 1..c[k] : u = <<k, i>>
  BY DEF Units

\* Only what c is on S counts.
LEMMA UnitsAgree ==
  ASSUME NEW S, NEW c, NEW d, \A k \in S : c[k] = d[k]
  PROVE  Units(S, c) = Units(S, d)
  BY DEF Units

LEMMA UnitsFinite ==
  ASSUME NEW S, IsFiniteSet(S), NEW c, NEW n \in Nat, \A k \in S : c[k] \in 0..n
  PROVE  IsFiniteSet(Units(S, c)) /\ Cardinality(Units(S, c)) \in Nat
<1>1. IsFiniteSet(1..n)
  BY FS_Interval
<1>2. IsFiniteSet(S \X (1..n))
  BY <1>1, FS_Product
<1>3. Units(S, c) \in SUBSET (S \X (1..n))
  <2>. SUFFICES ASSUME NEW u \in Units(S, c) PROVE u \in S \X (1..n)
    OBVIOUS
  <2>1. PICK k \in S : \E i \in 1..c[k] : u = <<k, i>>
    BY UnitsElements
  <2>. QED
    BY <2>1
<1>. QED
  BY <1>2, <1>3, FS_Subset, FS_CardinalityType

\* Members that have n units each take n units each with them.
LEMMA UnitsLeave ==
  ASSUME NEW S, IsFiniteSet(S), NEW c, NEW m \in Nat, \A k \in S : c[k] \in 0..m,
         NEW T \in SUBSET S, NEW n \in Nat, \A k \in T : c[k] = n
  PROVE  /\ Cardinality(Units(S, c)) = Cardinality(Units(S \ T, c)) + n * Cardinality(T)
         /\ Cardinality(Units(S \ T, c)) \in Nat /\ Cardinality(T) \in Nat
<1>. DEFINE U == Units(S, c)
            V == Units(S \ T, c)
            W == T \X (1..n)
<1>1. IsFiniteSet(T) /\ IsFiniteSet(S \ T) /\ Cardinality(T) \in Nat
  BY FS_Subset, FS_Difference, FS_CardinalityType
<1>2. IsFiniteSet(1..n) /\ Cardinality(1..n) = n
  BY FS_Interval
<1>3. IsFiniteSet(W) /\ Cardinality(W) = Cardinality(T) * n
  BY <1>1, <1>2, FS_Product
<1>4. IsFiniteSet(V) /\ Cardinality(V) \in Nat
  BY <1>1, UnitsFinite
<1>5. U = V \cup W
  <2>1. ASSUME NEW u \in U PROVE u \in V \cup W
    <3>0. PICK k \in S : \E i \in 1..c[k] : u = <<k, i>>
      BY <2>1, UnitsElements
    <3>1. PICK i \in 1..c[k] : u = <<k, i>>
      BY <3>0
    <3>2. CASE k \in T
      BY <3>1, <3>2
    <3>3. CASE k \notin T
      BY <3>1, <3>3, UnitsElements
    <3>. QED
      BY <3>2, <3>3
  <2>2. ASSUME NEW u \in V PROVE u \in U
    BY <2>2, UnitsElements
  <2>3. ASSUME NEW u \in W PROVE u \in U
    <3>1. PICK k \in T, i \in 1..n : u = <<k, i>>
      BY <2>3
    <3>2. k \in S /\ i \in 1..c[k]
      BY <3>1
    <3>. QED
      BY <3>1, <3>2, UnitsElements
  <2>. QED
    BY <2>1, <2>2, <2>3
<1>6. V \cap W = {}
  <2>. SUFFICES ASSUME NEW u \in V, u \in W PROVE FALSE
    OBVIOUS
  <2>1. PICK k \in S \ T : \E i \in 1..c[k] : u = <<k, i>>
    BY UnitsElements
  <2>2. PICK l \in T, o \in 1..n : u = <<l, o>>
    OBVIOUS
  <2>. QED
    BY <2>1, <2>2
<1>. HIDE DEF U, V, W
<1>7. Cardinality(U) = Cardinality(V) + Cardinality(W)
  <2>1. Cardinality(U) = Cardinality(V) + Cardinality(W) - Cardinality(V \cap W)
    BY <1>3, <1>4, <1>5, FS_Union
  <2>2. Cardinality(V \cap W) = 0
    BY <1>6, FS_EmptySet
  <2>3. Cardinality(W) \in Nat
    BY <1>3, FS_CardinalityType
  <2>. QED
    BY <1>4, <2>1, <2>2, <2>3
<1>8. Cardinality(T) * n = n * Cardinality(T)
  BY <1>1
<1>. QED
  BY <1>1, <1>3, <1>4, <1>7, <1>8 DEF U, V

\* One member leaves, or its units change.
LEMMA UnitsWithout ==
  ASSUME NEW S, IsFiniteSet(S), NEW c, NEW m \in Nat, \A k \in S : c[k] \in 0..m, NEW k \in S
  PROVE  /\ Cardinality(Units(S, c)) = Cardinality(Units(S \ {k}, c)) + c[k]
         /\ Cardinality(Units(S \ {k}, c)) \in Nat
<1>1. {k} \in SUBSET S /\ c[k] \in Nat /\ \A i \in {k} : c[i] = c[k]
  OBVIOUS
<1>2. Cardinality({k}) = 1
  BY FS_Singleton
<1>. QED
  BY <1>1, <1>2, UnitsLeave

\* How a set with at most one element more or less counts.
LEMMA Counting ==
  ASSUME NEW S, IsFiniteSet(S), NEW x
  PROVE  /\ Cardinality(S) \in Nat /\ IsFiniteSet(S \cup {x}) /\ IsFiniteSet(S \ {x})
         /\ Cardinality(S \cup {x}) \in Nat /\ Cardinality(S \ {x}) \in Nat
         /\ x \notin S => Cardinality(S \cup {x}) = Cardinality(S) + 1
         /\ x \in S => Cardinality(S) = Cardinality(S \ {x}) + 1
         /\ Cardinality(S \ {x}) <= Cardinality(S)
         /\ Cardinality(S \cup {x}) <= Cardinality(S) + 1
<1>1. IsFiniteSet(S \cup {x}) /\ IsFiniteSet(S \ {x})
  BY FS_AddElement, FS_RemoveElement
<1>2. Cardinality(S) \in Nat /\ Cardinality(S \cup {x}) \in Nat /\ Cardinality(S \ {x}) \in Nat
  BY <1>1, FS_CardinalityType
<1>. QED
  BY <1>1, <1>2, FS_AddElement, FS_RemoveElement

-----------------------------------------------------------------------------
(* Jobs that move.                                                           *)

LEMMA IdleFacts == Idle \in JobState /\ Idle.pc = "idle"
  BY JobsAssumption, ModesAssumption, CostAssumption DEF Idle, JobState, Pcs, Periods

LEMMA JobSet ==
  ASSUME TypeOK, NEW j \in Jobs, NEW t \in JobState, job' = [job EXCEPT ![j] = t]
  PROVE  /\ job' \in [Jobs -> JobState] /\ job'[j] = t
         /\ \A i \in Jobs : i # j => job'[i] = job[i] /\ Key(i)' = Key(i)
         /\ t.content = job[j].content => Key(j)' = Key(j)
         /\ \A i \in Jobs : Key(i) \in Keys
<1>1. job \in [Jobs -> JobState]
  BY DEF TypeOK
<1>2. /\ job' \in [Jobs -> JobState] /\ job'[j] = t
      /\ \A i \in Jobs : i # j => job'[i] = job[i]
  BY <1>1
<1>3. \A i \in Jobs : job[i].content \in Contents
  BY <1>1 DEF JobState
<1>. QED
  BY <1>2, <1>3 DEF Key, Keys

LEMMA GotoFacts ==
  ASSUME TypeOK, NEW j \in Jobs, NEW pc \in Pcs, Goto(j, pc)
  PROVE  \E t \in JobState : /\ job' = [job EXCEPT ![j] = t] /\ t.pc = pc
                             /\ t.content = job[j].content /\ t.at = job[j].at
                             /\ t.out = job[j].out /\ t.cost = job[j].cost
<1>. DEFINE t == [job[j] EXCEPT !.pc = pc]
<1>1. job[j] \in JobState
  BY DEF TypeOK
<1>2. /\ t \in JobState /\ t.pc = pc /\ t.content = job[j].content /\ t.at = job[j].at
      /\ t.out = job[j].out /\ t.cost = job[j].cost
  BY <1>1 DEF JobState
<1>3. job' = [job EXCEPT ![j] = t]
  BY DEF Goto
<1>. QED
  BY <1>2, <1>3

LEMMA EndFacts ==
  ASSUME NEW j \in Jobs, End(j)
  PROVE  \E t \in JobState : job' = [job EXCEPT ![j] = t] /\ t.pc = "idle"
  BY IdleFacts DEF End

LEMMA NotOursFacts ==
  ASSUME TypeOK, NEW j \in Jobs, NotOurs(j)
  PROVE  \E t \in JobState : /\ job' = [job EXCEPT ![j] = t] /\ t.pc = "settle_global"
                             /\ t.out = "unpaid" /\ t.at = job[j].at
<1>. DEFINE t == [job[j] EXCEPT !.pc = "settle_global", !.out = "unpaid"]
<1>1. job[j] \in JobState /\ job \in [Jobs -> JobState]
  BY DEF TypeOK
<1>2. t \in JobState /\ t.pc = "settle_global" /\ t.out = "unpaid" /\ t.at = job[j].at
  BY <1>1 DEF JobState, Pcs
<1>3. job' = [job EXCEPT ![j] = t]
  BY <1>1 DEF NotOurs
<1>. QED
  BY <1>2, <1>3

\* The job goes on without a new reservation or call.
Moves(j, t) ==
  /\ job' = [job EXCEPT ![j] = t]
  /\ t.pc # "provider"
  /\ t.pc \in Owning =>
       job[j].pc \in Owning /\ t.content = job[j].content /\ t.at = job[j].at
  /\ t.pc = "settle_tx" => event[Key(j)].status = "reserved"
  /\ t.pc \in {"settle", "settle_tx", "settle_global"} => t.out \in {"ok", "unpaid"}

LEMMA MovesKeepReservations ==
  ASSUME TypeOK, Reservations, NEW j \in Jobs, NEW t \in JobState, Moves(j, t),
         UNCHANGED <<event, called, paid, stale>>
  PROVE  Reservations'
<1>1. /\ job'[j] = t /\ \A i \in Jobs : i # j => job'[i] = job[i] /\ Key(i)' = Key(i)
      /\ t.pc \in Owning => Key(j)' = Key(j)
  BY JobSet DEF Moves
<1>2. OutcomeKnown'
  BY <1>1 DEF Reservations, OutcomeKnown, Moves
<1>3. \A i \in Jobs : job'[i].pc \in Owning =>
        job[i].pc \in Owning /\ Key(i)' = Key(i) /\ job'[i].at = job[i].at
  BY <1>1 DEF Moves
<1>4. \A i \in Jobs : job'[i].pc = "provider" => job[i].pc = "provider"
  BY <1>1 DEF Moves
<1>5. OwnReservation'
  BY <1>3, <1>4 DEF Reservations, OwnReservation
<1>6. CallsAreReserved' /\ OneCallPerKey' /\ ReservedAtEstimate'
  BY DEF Reservations, CallsAreReserved, OneCallPerKey, ReservedAtEstimate
<1>7. SettlesReserved'
  BY <1>1, <1>3 DEF Reservations, SettlesReserved, Moves, Owning
<1>. QED
  BY <1>2, <1>5, <1>6, <1>7 DEF Reservations

-----------------------------------------------------------------------------
(* The global counter.                                                       *)

LEMMA HoldersSet ==
  ASSUME TypeOK, NEW j \in Jobs, NEW t \in JobState, job' = [job EXCEPT ![j] = t], NEW p
  PROVE  /\ IsFiniteSet(Holders(p)) /\ Cardinality(Holders(p)) \in Nat
         /\ Holds(t, p) => Holders(p)' = Holders(p) \cup {j}
         /\ ~Holds(t, p) => Holders(p)' = Holders(p) \ {j}
         /\ j \in Holders(p) <=> Holds(job[j], p)
<1>1. job'[j] = t /\ \A i \in Jobs : i # j => job'[i] = job[i]
  BY JobSet
<1>2. Holders(p) \in SUBSET Jobs
  BY DEF Holders
<1>3. IsFiniteSet(Holders(p)) /\ Cardinality(Holders(p)) \in Nat
  BY <1>2, KeysAreFinite, FS_Subset, FS_CardinalityType
<1>4. \A i \in Jobs : i \in Holders(p)' <=> IF i = j THEN Holds(t, p) ELSE i \in Holders(p)
  BY <1>1 DEF Holders, Holds
<1>5. Holders(p)' \subseteq Jobs
  BY DEF Holders
<1>. QED
  BY <1>2, <1>3, <1>4, <1>5 DEF Holders

LEMMA PaidIsFinite ==
  ASSUME TypeOK, NEW p
  PROVE  IsFiniteSet(OfPeriod(paid, p)) /\ Cardinality(OfPeriod(paid, p)) \in Nat
<1>1. OfPeriod(paid, p) \in SUBSET Keys
  BY DEF OfPeriod, TypeOK
<1>. QED
  BY <1>1, KeysAreFinite, FS_Subset, FS_CardinalityType

\* Nobody holds more than before.
LEMMA GlobalBooksCalm ==
  ASSUME TypeOK, GlobalBooks, NEW j \in Jobs, NEW t \in JobState, job' = [job EXCEPT ![j] = t],
         \A p \in Periods : Holds(t, p) => Holds(job[j], p),
         \A p \in Periods : OfPeriod(paid, p)' = OfPeriod(paid, p),
         UNCHANGED daily
  PROVE  GlobalBooks'
<1>. SUFFICES ASSUME NEW p \in Periods
              PROVE  Cardinality(OfPeriod(paid, p)') + Cardinality(Holders(p)') <= daily[p].calls
  BY DEF GlobalBooks
<1>1. IsFiniteSet(Holders(p)) /\ Cardinality(Holders(p)) \in Nat
  BY HoldersSet
<1>2. Holders(p)' = Holders(p) \/ Holders(p)' = Holders(p) \ {j}
  <2>1. CASE Holds(t, p)
    <3>1. Holders(p)' = Holders(p) \cup {j} /\ j \in Holders(p)
      BY <2>1, HoldersSet
    <3>. QED
      BY <3>1
  <2>2. CASE ~Holds(t, p)
    BY <2>2, HoldersSet
  <2>. QED
    BY <2>1, <2>2
<1>3. Cardinality(Holders(p)') \in Nat /\ Cardinality(Holders(p)') <= Cardinality(Holders(p))
  BY <1>1, <1>2, Counting
<1>4. Cardinality(OfPeriod(paid, p)) \in Nat /\ daily[p].calls \in Nat
  BY PaidIsFinite, LimitsAssumption DEF TypeOK, GlobalPeriod
<1>. QED
  BY <1>1, <1>3, <1>4 DEF GlobalBooks

\* The tenant's counters and events are as before.
LEMMA BooksCalm ==
  ASSUME TenantBooks, BasicBooks, UNCHANGED <<event, usage, basic>>
  PROVE  TenantBooks' /\ BasicBooks'
  BY DEF TenantBooks, BasicBooks, OfPeriod, ChargedKeys, Costs, BasicUnits

-----------------------------------------------------------------------------
(* Steps of a job alone.                                                     *)

\* Every one of these steps is a move, and none of them gets hold of a call.
LEMMA JobOnly ==
  ASSUME TypeOK, Reservations, NEW j \in Jobs,
         \/ \E c \in Contents : LookUp(j, c)
         \/ ReadBasic(j) \/ StayOnRules(j) \/ ReadReservation(j) \/ ReadSettle(j) \/ PutCache(j)
         \/ Crash(j) \/ DatabaseError(j)
  PROVE  \E t \in JobState : Moves(j, t) /\ \A p \in Periods : Holds(t, p) => Holds(job[j], p)
<1>1. ASSUME NEW t \in JobState, job' = [job EXCEPT ![j] = t],
             t.pc \in {"idle", "basic", "basic_tx", "paid", "put"}
      PROVE  Moves(j, t) /\ \A p \in Periods : Holds(t, p) => Holds(job[j], p)
  BY <1>1 DEF Moves, Owning, Holds
<1>2. CASE End(j)
  BY <1>1, <1>2, EndFacts
<1>3. ASSUME NEW pc \in {"basic", "basic_tx", "paid", "put"}, Goto(j, pc)
      PROVE  \E t \in JobState : Moves(j, t) /\ \A p \in Periods : Holds(t, p) => Holds(job[j], p)
  <2>1. pc \in Pcs
    BY DEF Pcs
  <2>. QED
    BY <1>1, <1>3, <2>1, GotoFacts
<1>4. CASE job[j].pc \in {"tenant", "tenant_tx"} /\ NotOurs(j)
  <2>1. PICK t \in JobState : /\ job' = [job EXCEPT ![j] = t] /\ t.pc = "settle_global"
                              /\ t.out = "unpaid" /\ t.at = job[j].at
    BY <1>4, NotOursFacts
  <2>2. Moves(j, t)
    BY <2>1 DEF Moves, Owning
  <2>3. \A p \in Periods : Holds(t, p) => Holds(job[j], p)
    BY <1>4, <2>1 DEF Holds
  <2>. QED
    BY <2>2, <2>3
<1>5. CASE job[j].pc = "tenant" /\ Goto(j, "tenant_tx")
  <2>1. PICK t \in JobState : job' = [job EXCEPT ![j] = t] /\ t.pc = "tenant_tx" /\ t.at = job[j].at
    BY <1>5, GotoFacts DEF Pcs
  <2>2. Moves(j, t) /\ \A p \in Periods : Holds(t, p) => Holds(job[j], p)
    BY <1>5, <2>1 DEF Moves, Owning, Holds
  <2>. QED
    BY <2>2
<1>6. CASE job[j].pc \in {"settle", "settle_tx"} /\ Goto(j, "settle_global")
  <2>1. PICK t \in JobState : /\ job' = [job EXCEPT ![j] = t] /\ t.pc = "settle_global"
                              /\ t.at = job[j].at /\ t.out = job[j].out
    BY <1>6, GotoFacts DEF Pcs
  <2>2. Moves(j, t) /\ \A p \in Periods : Holds(t, p) => Holds(job[j], p)
    BY <1>6, <2>1 DEF Moves, Owning, Holds, Reservations, OutcomeKnown
  <2>. QED
    BY <2>2
<1>7. CASE job[j].pc = "settle" /\ event[Key(j)].status = "reserved" /\ Goto(j, "settle_tx")
  <2>1. PICK t \in JobState : /\ job' = [job EXCEPT ![j] = t] /\ t.pc = "settle_tx"
                              /\ t.content = job[j].content /\ t.at = job[j].at /\ t.out = job[j].out
    BY <1>7, GotoFacts DEF Pcs
  <2>2. Moves(j, t) /\ \A p \in Periods : Holds(t, p) => Holds(job[j], p)
    BY <1>7, <2>1 DEF Moves, Owning, Holds, Reservations, OutcomeKnown
  <2>. QED
    BY <2>2
<1>8. ASSUME NEW c \in Contents, LookUp(j, c)
      PROVE  \E t \in JobState : Moves(j, t) /\ \A p \in Periods : Holds(t, p) => Holds(job[j], p)
  <2>. DEFINE t == [job[j] EXCEPT !.pc = "basic", !.content = c, !.at = now]
  <2>1. job \in [Jobs -> JobState] /\ job[j] \in JobState /\ now \in Periods
    BY DEF TypeOK
  <2>2. t \in JobState /\ t.pc = "basic"
    BY <2>1 DEF JobState, Pcs
  <2>3. job' = [job EXCEPT ![j] = t]
    BY <1>8, <2>1 DEF LookUp
  <2>. QED
    BY <1>1, <2>2, <2>3
<1>. QED
  BY <1>2, <1>3, <1>4, <1>5, <1>6, <1>7, <1>8
  DEF ReadBasic, StayOnRules, ReadReservation, ReadSettle, PutCache, Crash, DatabaseError

LEMMA JobOnlyKeeps ==
  ASSUME IInv, NEW j \in Jobs,
         \/ \E c \in Contents : LookUp(j, c)
         \/ ReadBasic(j) \/ StayOnRules(j) \/ ReadReservation(j) \/ ReadSettle(j) \/ PutCache(j)
         \/ Crash(j) \/ DatabaseError(j)
  PROVE  IInv'
<1>1. TypeOK /\ Reservations /\ TenantBooks /\ BasicBooks /\ GlobalBooks
  BY DEF IInv
<1>2. PICK t \in JobState : Moves(j, t) /\ \A p \in Periods : Holds(t, p) => Holds(job[j], p)
  BY <1>1, JobOnly
<1>3. /\ UNCHANGED <<now, usage, daily, basic, event, stale, called, paid>>
      /\ cache' \in {cache, cache \cup {job[j].content}}
      /\ faults' = faults \/ (faults < MaxFaults /\ faults' = faults + 1)
  BY DEF LookUp, ReadBasic, StayOnRules, ReadReservation, ReadSettle, PutCache, Crash, DatabaseError,
         Faulty, ledgers, history
<1>4. Reservations'
  BY <1>1, <1>2, <1>3, MovesKeepReservations
<1>5. TenantBooks' /\ BasicBooks'
  BY <1>1, <1>3, BooksCalm
<1>6. job' = [job EXCEPT ![j] = t] /\ \A p \in Periods : OfPeriod(paid, p)' = OfPeriod(paid, p)
  BY <1>2, <1>3 DEF Moves, OfPeriod
<1>7. GlobalBooks'
  BY <1>1, <1>2, <1>3, <1>6, GlobalBooksCalm
<1>8. job' \in [Jobs -> JobState] /\ job[j].content \in Contents
  BY <1>1, <1>6, JobSet DEF TypeOK, JobState
<1>9. faults' \in 0..MaxFaults
  BY <1>1, <1>3, ModesAssumption DEF TypeOK
<1>10. TypeOK'
  BY <1>1, <1>3, <1>8, <1>9 DEF TypeOK
<1>. QED
  BY <1>4, <1>5, <1>7, <1>10 DEF IInv

-----------------------------------------------------------------------------
(* The global reservation.                                                   *)

LEMMA DailyTypes ==
  ASSUME TypeOK, NEW p \in Periods
  PROVE  /\ daily \in [Periods -> GlobalPeriod] /\ daily[p] \in GlobalPeriod
         /\ daily[p].calls \in 0..GlobalCallLimit /\ daily[p].cost \in 0..GlobalCostLimit
         /\ GlobalCallLimit \in Nat /\ GlobalCostLimit \in Nat /\ Est \in Nat
  BY LimitsAssumption, CostAssumption DEF TypeOK, GlobalPeriod

\* The period of a job gets the row d.
LEMMA DailySet ==
  ASSUME TypeOK, NEW p \in Periods, NEW d \in GlobalPeriod, daily' = [daily EXCEPT ![p] = d]
  PROVE  /\ daily' \in [Periods -> GlobalPeriod] /\ daily'[p] = d
         /\ \A q \in Periods : q # p => daily'[q] = daily[q]
  BY DEF TypeOK

LEMMA GlobalPeriodSet ==
  ASSUME NEW r \in GlobalPeriod, NEW x \in 0..GlobalCallLimit, NEW y \in 0..GlobalCostLimit
  PROVE  /\ [r EXCEPT !.calls = x, !.cost = y] \in GlobalPeriod
         /\ [r EXCEPT !.calls = x, !.cost = y].calls = x
  BY DEF GlobalPeriod

\* A job moves and changes the counter of one period: it takes a call, leaves the number
\* of calls alone, or gives back the one it holds.
LEMMA GlobalRow ==
  ASSUME TypeOK, GlobalBooks, NEW j \in Jobs, NEW t \in JobState, job' = [job EXCEPT ![j] = t],
         NEW p \in Periods, NEW d \in GlobalPeriod, daily' = [daily EXCEPT ![p] = d],
         \A q \in Periods : OfPeriod(paid, q)' = OfPeriod(paid, q),
         \A q \in Periods : q # p /\ Holds(t, q) => Holds(job[j], q),
         \/ d.calls = daily[p].calls + 1
         \/ d.calls = daily[p].calls /\ (Holds(t, p) => Holds(job[j], p))
         \/ d.calls = Minus(daily[p].calls, 1) /\ Holds(job[j], p) /\ ~Holds(t, p)
  PROVE  GlobalBooks'
<1>1. daily'[p] = d /\ \A q \in Periods : q # p => daily'[q] = daily[q]
  BY DailySet
<1>. SUFFICES ASSUME NEW q \in Periods
              PROVE  Cardinality(OfPeriod(paid, q)) + Cardinality(Holders(q)') <= daily'[q].calls
  BY DEF GlobalBooks
<1>2. Cardinality(OfPeriod(paid, q)) + Cardinality(Holders(q)) <= daily[q].calls
  BY DEF GlobalBooks
<1>3. Cardinality(OfPeriod(paid, q)) \in Nat
  BY PaidIsFinite
<1>4. daily[q].calls \in Nat /\ d.calls \in Nat
  BY DailyTypes DEF GlobalPeriod
<1>5. IsFiniteSet(Holders(q)) /\ Cardinality(Holders(q)) \in Nat
  BY HoldersSet
<1>6. /\ Cardinality(Holders(q) \cup {j}) \in Nat /\ Cardinality(Holders(q) \ {j}) \in Nat
      /\ Cardinality(Holders(q) \cup {j}) <= Cardinality(Holders(q)) + 1
      /\ Cardinality(Holders(q) \ {j}) <= Cardinality(Holders(q))
      /\ j \in Holders(q) => Cardinality(Holders(q)) = Cardinality(Holders(q) \ {j}) + 1
  BY <1>5, Counting
<1>7. /\ Holds(t, q) => Holders(q)' = Holders(q) \cup {j}
      /\ ~Holds(t, q) => Holders(q)' = Holders(q) \ {j}
      /\ j \in Holders(q) <=> Holds(job[j], q)
  BY HoldersSet
<1>8. Holders(q)' = Holders(q) \cup {j} \/ Holders(q)' = Holders(q) \ {j}
  BY <1>7
<1>9. Holds(job[j], q) /\ Holds(t, q) => Holders(q)' = Holders(q)
  BY <1>7
<1>10. CASE Holds(t, q) => Holds(job[j], q)
  <2>1. Cardinality(Holders(q)') \in Nat /\ Cardinality(Holders(q)') <= Cardinality(Holders(q))
    BY <1>5, <1>6, <1>7, <1>9, <1>10
  <2>2. CASE q # p \/ d.calls >= daily[p].calls
    BY <1>1, <1>2, <1>3, <1>4, <1>5, <2>1, <2>2
  <2>3. CASE q = p /\ d.calls = Minus(daily[p].calls, 1) /\ Holds(job[j], p) /\ ~Holds(t, p)
    <3>1. Holders(q)' = Holders(q) \ {j} /\ j \in Holders(q)
      BY <1>7, <2>3
    <3>. QED
      BY <1>1, <1>2, <1>3, <1>4, <1>5, <1>6, <2>3, <3>1 DEF Minus
  <2>. QED
    BY <1>4, <2>2, <2>3
<1>11. CASE Holds(t, q) /\ ~Holds(job[j], q)
  <2>1. q = p /\ d.calls = daily[q].calls + 1
    BY <1>11
  <2>2. Cardinality(Holders(q)') \in Nat /\ Cardinality(Holders(q)') <= Cardinality(Holders(q)) + 1
    BY <1>6, <1>7, <1>11
  <2>. QED
    BY <1>1, <1>2, <1>3, <1>4, <1>5, <2>1, <2>2
<1>. QED
  BY <1>10, <1>11

LEMMA ReserveGlobalKeeps == ASSUME IInv, NEW j \in Jobs, ReserveGlobal(j) PROVE IInv'
<1>. DEFINE p == job[j].at
            x == daily[p].calls + 1
            y == daily[p].cost + Est
            d == [daily[p] EXCEPT !.calls = x, !.cost = y]
<1>1. TypeOK /\ Reservations /\ TenantBooks /\ BasicBooks /\ GlobalBooks
  BY DEF IInv
<1>2. /\ job[j].pc = "paid"
      /\ UNCHANGED <<now, usage, basic, event, cache, stale, faults, called, paid>>
  BY DEF ReserveGlobal, history
<1>3. p \in Periods /\ \A q \in Periods : OfPeriod(paid, q)' = OfPeriod(paid, q)
  BY <1>1, <1>2 DEF TypeOK, JobState, OfPeriod
<1>4. TenantBooks' /\ BasicBooks'
  BY <1>1, <1>2, BooksCalm
<1>5. CASE End(j) /\ UNCHANGED daily
  <2>1. PICK t \in JobState : job' = [job EXCEPT ![j] = t] /\ t.pc = "idle"
    BY <1>5, EndFacts
  <2>2. Moves(j, t) /\ \A q \in Periods : Holds(t, q) => Holds(job[j], q)
    BY <2>1 DEF Moves, Owning, Holds
  <2>3. Reservations'
    BY <1>1, <1>2, <2>2, MovesKeepReservations
  <2>4. GlobalBooks'
    BY <1>1, <1>3, <1>5, <2>1, <2>2, GlobalBooksCalm
  <2>5. TypeOK'
    BY <1>1, <1>2, <1>5, <2>1, JobSet DEF TypeOK
  <2>. QED
    BY <1>4, <2>3, <2>4, <2>5 DEF IInv
<1>6. CASE FitsGlobal(daily[p]) /\ Goto(j, "tenant")
           /\ daily' = [daily EXCEPT ![p].calls = @ + 1, ![p].cost = @ + Est]
  <2>1. PICK t \in JobState : job' = [job EXCEPT ![j] = t] /\ t.pc = "tenant" /\ t.at = p
    BY <1>1, <1>6, GotoFacts DEF Pcs
  <2>2. Moves(j, t) /\ \A q \in Periods : Holds(t, q) => q = p
    BY <2>1 DEF Moves, Owning, Holds
  <2>3. d \in GlobalPeriod /\ d.calls = daily[p].calls + 1
    <3>1. x \in 0..GlobalCallLimit /\ y \in 0..GlobalCostLimit
      BY <1>1, <1>3, <1>6, DailyTypes DEF FitsGlobal
    <3>. HIDE DEF x, y
    <3>2. d \in GlobalPeriod /\ d.calls = x
      BY <1>1, <1>3, <3>1, DailyTypes, GlobalPeriodSet
    <3>. QED
      BY <3>2 DEF x
  <2>4. daily' = [daily EXCEPT ![p] = d]
    BY <1>1, <1>3, <1>6, DailyTypes
  <2>. HIDE DEF d, p
  <2>5. daily' \in [Periods -> GlobalPeriod]
    BY <1>1, <1>3, <2>3, <2>4, DailySet
  <2>6. GlobalBooks'
    BY <1>1, <1>3, <2>1, <2>2, <2>3, <2>4, GlobalRow
  <2>7. Reservations'
    BY <1>1, <1>2, <2>2, MovesKeepReservations
  <2>8. TypeOK'
    BY <1>1, <1>2, <2>1, <2>5, JobSet DEF TypeOK
  <2>. QED
    BY <1>4, <2>6, <2>7, <2>8 DEF IInv
<1>. QED
  BY <1>5, <1>6 DEF ReserveGlobal

LEMMA SettleGlobalKeeps == ASSUME IInv, NEW j \in Jobs, SettleGlobal(j) PROVE IInv'
<1>. DEFINE p == job[j].at
            d == [daily[p] EXCEPT !.cost = Minus(@ + job[j].cost, Est)]
            x == Minus(daily[p].calls, 1)
            y == Minus(daily[p].cost, Est)
            e == [daily[p] EXCEPT !.calls = x, !.cost = y]
<1>1. TypeOK /\ Reservations /\ TenantBooks /\ BasicBooks /\ GlobalBooks
  BY DEF IInv
<1>2. /\ job[j].pc = "settle_global"
      /\ UNCHANGED <<now, usage, basic, event, cache, stale, faults, called, paid>>
  BY DEF SettleGlobal, history
<1>3. p \in Periods /\ \A q \in Periods : OfPeriod(paid, q)' = OfPeriod(paid, q)
  BY <1>1, <1>2 DEF TypeOK, JobState, OfPeriod
<1>4. TenantBooks' /\ BasicBooks'
  BY <1>1, <1>2, BooksCalm
<1>5. job[j].cost \in 0..Est
  BY <1>1 DEF TypeOK, JobState
<1>6. ASSUME NEW t \in JobState, job' = [job EXCEPT ![j] = t], t.pc \in {"idle", "put"},
             NEW r \in GlobalPeriod, daily' = [daily EXCEPT ![p] = r],
             \/ r.calls = daily[p].calls
             \/ r.calls = Minus(daily[p].calls, 1) /\ job[j].out = "unpaid"
      PROVE  IInv'
  <2>1. Moves(j, t) /\ \A q \in Periods : ~Holds(t, q)
    BY <1>6 DEF Moves, Owning, Holds
  <2>2. job[j].out = "unpaid" => Holds(job[j], p)
    BY <1>2 DEF Holds
  <2>. HIDE DEF p
  <2>3. Reservations'
    BY <1>1, <1>2, <2>1, MovesKeepReservations
  <2>4. GlobalBooks'
    BY <1>1, <1>3, <1>6, <2>1, <2>2, GlobalRow
  <2>5. daily' \in [Periods -> GlobalPeriod]
    BY <1>1, <1>3, <1>6, DailySet
  <2>6. TypeOK'
    BY <1>1, <1>2, <1>6, <2>5, JobSet DEF TypeOK
  <2>. QED
    BY <1>4, <2>3, <2>4, <2>6 DEF IInv
<1>7. CASE Goto(j, "put") /\ daily' = [daily EXCEPT ![p].cost = Minus(@ + job[j].cost, Est)]
  <2>1. PICK t \in JobState : job' = [job EXCEPT ![j] = t] /\ t.pc = "put"
    BY <1>1, <1>7, GotoFacts DEF Pcs
  <2>2. d \in GlobalPeriod /\ d.calls = daily[p].calls
    BY <1>1, <1>3, <1>5, DailyTypes DEF Minus, GlobalPeriod
  <2>3. daily' = [daily EXCEPT ![p] = d]
    BY <1>1, <1>3, <1>7, DailyTypes
  <2>. HIDE DEF d, p
  <2>. QED
    BY <1>6, <2>1, <2>2, <2>3
<1>8. CASE /\ job[j].out = "unpaid" /\ End(j)
           /\ daily' = [daily EXCEPT ![p].calls = Minus(@, 1), ![p].cost = Minus(@, Est)]
  <2>1. PICK t \in JobState : job' = [job EXCEPT ![j] = t] /\ t.pc = "idle"
    BY <1>8, EndFacts
  <2>2. e \in GlobalPeriod /\ e.calls = Minus(daily[p].calls, 1)
    <3>1. x \in 0..GlobalCallLimit /\ y \in 0..GlobalCostLimit
      BY <1>1, <1>3, DailyTypes DEF Minus
    <3>. HIDE DEF x, y
    <3>2. e \in GlobalPeriod /\ e.calls = x
      BY <1>1, <1>3, <3>1, DailyTypes, GlobalPeriodSet
    <3>. QED
      BY <3>2 DEF x
  <2>3. daily' = [daily EXCEPT ![p] = e]
    BY <1>1, <1>3, <1>8, DailyTypes
  <2>. HIDE DEF e, p
  <2>. QED
    BY <1>6, <1>8, <2>1, <2>2, <2>3
<1>. QED
  BY <1>7, <1>8 DEF SettleGlobal

-----------------------------------------------------------------------------
(* The basic unit.                                                           *)

LEMMA UsageTypes ==
  ASSUME TypeOK, NEW p \in Periods
  PROVE  /\ usage \in [Periods -> UsagePeriod] /\ usage[p] \in UsagePeriod
         /\ usage[p].basic \in 0..BasicLimit /\ usage[p].calls \in 0..CallLimit
         /\ usage[p].cost \in 0..CostLimit
         /\ BasicLimit \in Nat /\ CallLimit \in Nat /\ CostLimit \in Nat /\ Est \in Nat
  BY LimitsAssumption, CostAssumption DEF TypeOK, UsagePeriod

LEMMA UsageSet ==
  ASSUME TypeOK, NEW p \in Periods, NEW u \in UsagePeriod, usage' = [usage EXCEPT ![p] = u]
  PROVE  /\ usage' \in [Periods -> UsagePeriod] /\ usage'[p] = u
         /\ \A q \in Periods : q # p => usage'[q] = usage[q]
  BY DEF TypeOK

LEMMA PeriodsAreFinite == IsFiniteSet(Periods)
  BY ModesAssumption, FS_Interval DEF Periods

\* A period's counter of basic units goes up by one: so does the number of all of them.
LEMMA OneMoreBasic ==
  ASSUME TypeOK, NEW p \in Periods, NEW u \in UsagePeriod, usage' = [usage EXCEPT ![p] = u],
         u.basic = usage[p].basic + 1
  PROVE  /\ Cardinality(Units(Periods, BasicUnits)') = Cardinality(Units(Periods, BasicUnits)) + 1
         /\ Cardinality(Units(Periods, BasicUnits)) \in Nat
<1>. DEFINE c == BasicUnits
            d == BasicUnits'
<1>1. \A q \in Periods : c[q] = usage[q].basic /\ d[q] = usage'[q].basic
  BY DEF BasicUnits
<1>2. usage'[p] = u /\ \A q \in Periods : q # p => usage'[q] = usage[q]
  BY UsageSet
<1>3. u.basic \in 0..BasicLimit /\ BasicLimit \in Nat
  BY LimitsAssumption DEF UsagePeriod
<1>4. \A q \in Periods : usage[q].basic \in 0..BasicLimit
  BY UsageTypes
<1>5. /\ \A q \in Periods : c[q] \in 0..BasicLimit /\ d[q] \in 0..BasicLimit
      /\ d[p] = c[p] + 1 /\ \A q \in Periods \ {p} : d[q] = c[q]
  BY <1>1, <1>2, <1>3, <1>4
<1>. HIDE DEF c, d
<1>6. /\ Cardinality(Units(Periods, c)) = Cardinality(Units(Periods \ {p}, c)) + c[p]
      /\ Cardinality(Units(Periods \ {p}, c)) \in Nat
  BY <1>3, <1>5, PeriodsAreFinite, UnitsWithout
<1>7. Cardinality(Units(Periods, d)) = Cardinality(Units(Periods \ {p}, d)) + d[p]
  BY <1>3, <1>5, PeriodsAreFinite, UnitsWithout
<1>8. Units(Periods \ {p}, d) = Units(Periods \ {p}, c)
  BY <1>5, UnitsAgree
<1>9. Cardinality(Units(Periods, d)) = Cardinality(Units(Periods, c)) + 1
  BY <1>3, <1>5, <1>6, <1>7, <1>8
<1>10. Units(Periods, BasicUnits)' = Units(Periods, d)
  BY DEF Units, d
<1>. QED
  BY <1>3, <1>5, <1>6, <1>9, <1>10 DEF c

LEMMA ConsumeBasicKeeps == ASSUME IInv, NEW j \in Jobs, ConsumeBasic(j) PROVE IInv'
<1>. DEFINE p == job[j].at
            k == Key(j)
            S == {i \in Keys : basic[i] = "succeeded"}
            fits == usage[p].basic < BasicLimit
            u == [usage[p] EXCEPT !.basic = @ + 1]
<1>1. TypeOK /\ Reservations /\ TenantBooks /\ BasicBooks /\ GlobalBooks
  BY DEF IInv
<1>2. /\ job[j].pc = "basic_tx"
      /\ UNCHANGED <<now, daily, event, cache, stale, faults, called, paid>>
  BY DEF ConsumeBasic, history
<1>3. /\ p \in Periods /\ k \in Keys /\ \A q \in Periods : OfPeriod(paid, q)' = OfPeriod(paid, q)
      /\ basic \in [Keys -> {"none", "succeeded", "denied"}]
  BY <1>1, <1>2 DEF TypeOK, JobState, OfPeriod, Key, Keys
<1>4. ASSUME NEW t \in JobState, job' = [job EXCEPT ![j] = t], t.pc \in {"idle", "paid"}
      PROVE  Reservations' /\ GlobalBooks' /\ job' \in [Jobs -> JobState]
  <2>1. Moves(j, t) /\ \A q \in Periods : Holds(t, q) => Holds(job[j], q)
    BY <1>4 DEF Moves, Owning, Holds
  <2>2. Reservations'
    BY <1>1, <1>2, <2>1, MovesKeepReservations
  <2>3. GlobalBooks'
    BY <1>1, <1>2, <1>3, <1>4, <2>1, GlobalBooksCalm
  <2>. QED
    BY <1>1, <1>4, <2>2, <2>3, JobSet
<1>5. CASE End(j) /\ UNCHANGED <<usage, basic>>
  <2>1. Reservations' /\ GlobalBooks' /\ job' \in [Jobs -> JobState]
    BY <1>4, <1>5, EndFacts
  <2>2. TenantBooks' /\ BasicBooks'
    BY <1>1, <1>2, <1>5, BooksCalm
  <2>3. TypeOK'
    BY <1>1, <1>2, <1>5, <2>1 DEF TypeOK
  <2>. QED
    BY <2>1, <2>2, <2>3 DEF IInv
<1>6. ASSUME basic[k] = "none", Goto(j, "paid")
      PROVE  Reservations' /\ GlobalBooks' /\ job' \in [Jobs -> JobState]
  <2>1. PICK t \in JobState : job' = [job EXCEPT ![j] = t] /\ t.pc = "paid"
    BY <1>1, <1>6, GotoFacts DEF Pcs
  <2>. QED
    BY <1>4, <2>1
<1>7. CASE /\ ~fits /\ basic[k] = "none" /\ Goto(j, "paid")
           /\ basic' = [basic EXCEPT ![k] = "denied"] /\ usage' = usage
  <2>1. Reservations' /\ GlobalBooks' /\ job' \in [Jobs -> JobState]
    BY <1>6, <1>7
  <2>2. TenantBooks'
    BY <1>1, <1>2, <1>7 DEF TenantBooks, OfPeriod, ChargedKeys, Costs
  <2>3. {i \in Keys : basic'[i] = "succeeded"} = S
    BY <1>3, <1>7
  <2>4. BasicBooks'
    BY <1>1, <1>7, <2>3 DEF BasicBooks, BasicUnits
  <2>5. TypeOK'
    BY <1>1, <1>2, <1>3, <1>7, <2>1 DEF TypeOK
  <2>. QED
    BY <2>1, <2>2, <2>4, <2>5 DEF IInv
<1>8. CASE /\ fits /\ basic[k] = "none" /\ Goto(j, "paid")
           /\ basic' = [basic EXCEPT ![k] = "succeeded"] /\ usage' = [usage EXCEPT ![p].basic = @ + 1]
  <2>1. Reservations' /\ GlobalBooks' /\ job' \in [Jobs -> JobState]
    BY <1>6, <1>8
  <2>2. /\ u \in UsagePeriod /\ u.basic = usage[p].basic + 1
        /\ u.calls = usage[p].calls /\ u.cost = usage[p].cost
    BY <1>1, <1>3, <1>8, UsageTypes DEF UsagePeriod
  <2>3. usage' = [usage EXCEPT ![p] = u]
    BY <1>8
  <2>. HIDE DEF u, p
  <2>4. /\ usage' \in [Periods -> UsagePeriod] /\ usage'[p] = u
        /\ \A q \in Periods : q # p => usage'[q] = usage[q]
    BY <1>1, <1>3, <2>2, <2>3, UsageSet
  <2>5. \A q \in Periods : usage'[q].calls = usage[q].calls /\ usage'[q].cost = usage[q].cost
    BY <2>2, <2>4
  <2>6. TenantBooks'
    BY <1>1, <1>2, <2>5 DEF TenantBooks, OfPeriod, ChargedKeys, Costs
  <2>7. {i \in Keys : basic'[i] = "succeeded"} = S \cup {k} /\ k \notin S
    BY <1>3, <1>8
  <2>8. Cardinality(S \cup {k}) = Cardinality(S) + 1
    <3>1. S \in SUBSET Keys
      OBVIOUS
    <3>2. IsFiniteSet(S)
      BY <3>1, KeysAreFinite, FS_Subset
    <3>. QED
      BY <2>7, <3>2, Counting
  <2>9. Cardinality(Units(Periods, BasicUnits)') = Cardinality(Units(Periods, BasicUnits)) + 1
    BY <1>1, <1>3, <2>2, <2>3, OneMoreBasic
  <2>10. BasicBooks'
    BY <1>1, <2>7, <2>8, <2>9 DEF BasicBooks
  <2>11. TypeOK'
    BY <1>1, <1>2, <1>3, <1>8, <2>1, <2>4 DEF TypeOK
  <2>. QED
    BY <2>1, <2>6, <2>10, <2>11 DEF IInv
<1>. QED
  BY <1>5, <1>7, <1>8 DEF ConsumeBasic

-----------------------------------------------------------------------------
(* The tenant's counters.                                                    *)

\* The event e is charged to period q.
Counts(e, q) == e.status \in Charged /\ e.period = q

CallsOf(q) == Cardinality(OfPeriod(ChargedKeys, q))
CostsOf(q) == Cardinality(Units(OfPeriod(ChargedKeys, q), Costs))

LEMMA EventTypes ==
  ASSUME TypeOK, NEW k \in Keys
  PROVE  /\ event \in [Keys -> UsageEvent] /\ event[k] \in UsageEvent
         /\ event[k].period \in Periods /\ event[k].cost \in 0..Est /\ Est \in Nat
  BY CostAssumption DEF TypeOK, UsageEvent

LEMMA EventSet ==
  ASSUME TypeOK, NEW k \in Keys, NEW e \in UsageEvent, event' = [event EXCEPT ![k] = e]
  PROVE  /\ event' \in [Keys -> UsageEvent] /\ event'[k] = e
         /\ \A i \in Keys : i # k => event'[i] = event[i]
  BY DEF TypeOK

\* What a set of charged events without the event of k, and that event, contribute.
LEMMA ChargesSplit ==
  ASSUME NEW S \in SUBSET Keys, NEW k \in Keys, NEW c, \A i \in Keys : c[i] \in 0..Est
  PROVE  /\ Cardinality(S \ {k}) \in Nat /\ Cardinality(Units(S \ {k}, c)) \in Nat
         /\ Cardinality(S) = Cardinality(S \ {k}) + (IF k \in S THEN 1 ELSE 0)
         /\ Cardinality(Units(S, c)) = Cardinality(Units(S \ {k}, c)) + (IF k \in S THEN c[k] ELSE 0)
<1>1. IsFiniteSet(S) /\ IsFiniteSet(S \ {k}) /\ Est \in Nat /\ \A i \in S : c[i] \in 0..Est
  BY KeysAreFinite, FS_Subset, CostAssumption
<1>2. Cardinality(S) \in Nat /\ Cardinality(S \ {k}) \in Nat
  BY <1>1, FS_CardinalityType
<1>3. Cardinality(Units(S \ {k}, c)) \in Nat
  BY <1>1, UnitsFinite
<1>4. CASE k \in S
  <2>1. Cardinality(S) = Cardinality(S \ {k}) + 1
    BY <1>1, <1>4, Counting
  <2>2. Cardinality(Units(S, c)) = Cardinality(Units(S \ {k}, c)) + c[k]
    BY <1>1, <1>4, UnitsWithout
  <2>. QED
    BY <1>2, <1>3, <1>4, <2>1, <2>2
<1>5. CASE k \notin S
  <2>1. S \ {k} = S
    BY <1>5
  <2>. QED
    BY <1>2, <1>3, <1>5, <2>1
<1>. QED
  BY <1>4, <1>5

\* One event changes: so do the sums, by what it was and is charged.
LEMMA ChargesChange ==
  ASSUME TypeOK, NEW k \in Keys, NEW e \in UsageEvent, event' = [event EXCEPT ![k] = e],
         NEW q \in Periods
  PROVE  \E r \in Nat, s \in Nat :
           /\ CallsOf(q) = r + (IF Counts(event[k], q) THEN 1 ELSE 0)
           /\ CostsOf(q) = s + (IF Counts(event[k], q) THEN event[k].cost ELSE 0)
           /\ CallsOf(q)' = r + (IF Counts(e, q) THEN 1 ELSE 0)
           /\ CostsOf(q)' = s + (IF Counts(e, q) THEN e.cost ELSE 0)
<1>. DEFINE S == OfPeriod(ChargedKeys, q)
            T == OfPeriod(ChargedKeys, q)'
            c == Costs
            d == Costs'
<1>1. /\ event' \in [Keys -> UsageEvent] /\ event'[k] = e
      /\ \A i \in Keys : i # k => event'[i] = event[i]
  BY EventSet
<1>2. /\ S \in SUBSET Keys /\ T \in SUBSET Keys
      /\ k \in S <=> Counts(event[k], q)
      /\ k \in T <=> Counts(e, q)
      /\ S \ {k} = T \ {k}
  BY <1>1 DEF OfPeriod, ChargedKeys, Counts
<1>3. /\ \A i \in Keys : c[i] = event[i].cost /\ d[i] = event'[i].cost
      /\ d[k] = e.cost /\ \A i \in Keys \ {k} : c[i] = d[i]
  BY <1>1 DEF Costs
<1>4. \A i \in Keys : event[i].cost \in 0..Est /\ event'[i].cost \in 0..Est
  BY <1>1 DEF TypeOK, UsageEvent
<1>5. \A i \in Keys : c[i] \in 0..Est /\ d[i] \in 0..Est
  BY <1>3, <1>4
<1>6. CallsOf(q) = Cardinality(S) /\ CallsOf(q)' = Cardinality(T)
  BY DEF CallsOf
<1>7. CostsOf(q) = Cardinality(Units(S, c)) /\ CostsOf(q)' = Cardinality(Units(T, d))
  BY DEF CostsOf, Units
<1>. HIDE DEF S, T, c, d
<1>8. /\ Cardinality(S \ {k}) \in Nat /\ Cardinality(Units(S \ {k}, c)) \in Nat
      /\ Cardinality(S) = Cardinality(S \ {k}) + (IF k \in S THEN 1 ELSE 0)
      /\ Cardinality(Units(S, c)) = Cardinality(Units(S \ {k}, c)) + (IF k \in S THEN c[k] ELSE 0)
  BY <1>2, <1>5, ChargesSplit
<1>9. /\ Cardinality(T) = Cardinality(T \ {k}) + (IF k \in T THEN 1 ELSE 0)
      /\ Cardinality(Units(T, d)) = Cardinality(Units(T \ {k}, d)) + (IF k \in T THEN d[k] ELSE 0)
  BY <1>2, <1>5, ChargesSplit
<1>10. Units(S \ {k}, c) = Units(T \ {k}, d)
  <2>1. \A i \in S \ {k} : c[i] = d[i]
    BY <1>2, <1>3
  <2>2. Units(S \ {k}, c) = Units(S \ {k}, d)
    BY <2>1, UnitsAgree
  <2>. QED
    BY <1>2, <2>2
<1>. DEFINE r == Cardinality(S \ {k})
            s == Cardinality(Units(S \ {k}, c))
<1>11. r \in Nat /\ s \in Nat
  BY <1>8
<1>12. /\ CallsOf(q) = r + (IF Counts(event[k], q) THEN 1 ELSE 0)
       /\ CallsOf(q)' = r + (IF Counts(e, q) THEN 1 ELSE 0)
  BY <1>2, <1>6, <1>8, <1>9
<1>13. CostsOf(q) = s + (IF Counts(event[k], q) THEN event[k].cost ELSE 0)
  BY <1>2, <1>3, <1>7, <1>8
<1>14. CostsOf(q)' = s + (IF Counts(e, q) THEN e.cost ELSE 0)
  BY <1>2, <1>3, <1>7, <1>9, <1>10
<1>. HIDE DEF r, s
<1>. QED
  BY <1>11, <1>12, <1>13, <1>14

\* A transaction changes the event of one key and the counters of its period: it
\* reserves, corrects the cost, or refunds.
LEMMA TenantRow ==
  ASSUME TypeOK, TenantBooks, NEW k \in Keys, NEW e \in UsageEvent, event' = [event EXCEPT ![k] = e],
         NEW p \in Periods, NEW u \in UsagePeriod, usage' = [usage EXCEPT ![p] = u],
         ~SlowCalls =>
           \/ /\ event[k].status \notin Charged /\ Counts(e, p)
              /\ u.calls = usage[p].calls + 1 /\ u.cost = usage[p].cost + e.cost
           \/ /\ Counts(event[k], p) /\ event[k].cost = Est /\ Counts(e, p)
              /\ u.calls = usage[p].calls /\ u.cost = Minus(usage[p].cost + e.cost, Est)
           \/ /\ Counts(event[k], p) /\ event[k].cost = Est /\ e.status \notin Charged
              /\ u.calls = Minus(usage[p].calls, 1) /\ u.cost = Minus(usage[p].cost, Est)
  PROVE  TenantBooks'
<1>. SUFFICES ASSUME ~SlowCalls, NEW q \in Periods
              PROVE  usage'[q].calls = CallsOf(q)' /\ usage'[q].cost = CostsOf(q)'
  BY DEF TenantBooks, CallsOf, CostsOf
<1>1. usage[q].calls = CallsOf(q) /\ usage[q].cost = CostsOf(q)
  BY DEF TenantBooks, CallsOf, CostsOf
<1>2. PICK r \in Nat, s \in Nat :
        /\ CallsOf(q) = r + (IF Counts(event[k], q) THEN 1 ELSE 0)
        /\ CostsOf(q) = s + (IF Counts(event[k], q) THEN event[k].cost ELSE 0)
        /\ CallsOf(q)' = r + (IF Counts(e, q) THEN 1 ELSE 0)
        /\ CostsOf(q)' = s + (IF Counts(e, q) THEN e.cost ELSE 0)
  BY ChargesChange
<1>3. usage'[p] = u /\ (q # p => usage'[q] = usage[q])
  BY UsageSet
<1>4. e.cost \in Nat /\ Est \in Nat
  BY CostAssumption DEF UsageEvent
<1>5. CASE q = p
  <2>1. CASE event[k].status \notin Charged
    BY <1>1, <1>2, <1>3, <1>4, <1>5, <2>1 DEF Counts
  <2>2. CASE event[k].status \in Charged /\ e.status \in Charged
    BY <1>1, <1>2, <1>3, <1>4, <1>5, <2>2 DEF Counts, Minus
  <2>3. CASE event[k].status \in Charged /\ e.status \notin Charged
    BY <1>1, <1>2, <1>3, <1>4, <1>5, <2>3 DEF Counts, Minus
  <2>. QED
    BY <2>1, <2>2, <2>3
<1>6. CASE q # p
  <2>1. ~Counts(event[k], q) /\ ~Counts(e, q)
    BY <1>6 DEF Counts
  <2>. QED
    BY <1>1, <1>2, <1>3, <1>6, <2>1
<1>. QED
  BY <1>5, <1>6

\* A period keeps its basic units.
LEMMA BasicCalm ==
  ASSUME TypeOK, BasicBooks, NEW p \in Periods, NEW u \in UsagePeriod,
         usage' = [usage EXCEPT ![p] = u], u.basic = usage[p].basic, UNCHANGED basic
  PROVE  BasicBooks'
<1>1. \A q \in Periods : usage'[q].basic = usage[q].basic
  BY UsageSet
<1>2. BasicUnits' = BasicUnits
  BY <1>1 DEF BasicUnits
<1>3. Units(Periods, BasicUnits)' = Units(Periods, BasicUnits)
  BY <1>2 DEF Units
<1>. QED
  BY <1>3 DEF BasicBooks

-----------------------------------------------------------------------------
(* The tenant's reservation.                                                 *)

\* The key had no event: the job that inserts it is its only owner.
LEMMA InsertKeepsReservations ==
  ASSUME TypeOK, Reservations, NEW j \in Jobs, NEW t \in JobState, job' = [job EXCEPT ![j] = t],
         event[Key(j)].status = "none",
         NEW e \in UsageEvent, event' = [event EXCEPT ![Key(j)] = e],
         e.status # "none", e.status = "reserved" => e.cost = Est, e.period = job[j].at,
         \/ t.pc = "provider" /\ t.content = job[j].content /\ t.at = job[j].at
         \/ t.pc = "settle_global" /\ t.out = "unpaid",
         UNCHANGED <<called, paid, stale>>
  PROVE  Reservations' /\ \A q \in Periods : OfPeriod(paid, q)' = OfPeriod(paid, q)
<1>. DEFINE k == Key(j)
<1>1. /\ job'[j] = t /\ \A i \in Jobs : i # j => job'[i] = job[i] /\ Key(i)' = Key(i)
      /\ t.pc \in Owning => Key(j)' = k
      /\ \A i \in Jobs : Key(i) \in Keys
  BY JobSet DEF Owning
<1>2. event'[k] = e /\ \A i \in Keys : i # k => event'[i] = event[i]
  BY <1>1, EventSet
<1>3. called[k] = 0 /\ k \notin paid
  BY <1>1 DEF Reservations, CallsAreReserved
<1>4. \A i \in Jobs : job[i].pc \in Owning => Key(i) # k
  BY DEF Reservations, OwnReservation
<1>5. OutcomeKnown'
  BY <1>1 DEF Reservations, OutcomeKnown
<1>6. OwnReservation'
  <2>1. ASSUME NEW i \in Jobs, job'[i].pc \in Owning, i # j
        PROVE  /\ job[i].pc \in Owning /\ Key(i)' = Key(i) /\ Key(i) # k
               /\ event'[Key(i)] = event[Key(i)] /\ job'[i] = job[i]
    BY <1>1, <1>2, <1>4, <2>1
  <2>2. job'[j].pc \in Owning => Key(j)' = k /\ t.pc = "provider" /\ t.at = job[j].at
    BY <1>1 DEF Owning
  <2>3. ASSUME NEW i \in Jobs, job'[i].pc \in Owning
        PROVE  /\ event'[Key(i)'].status # "none" /\ event'[Key(i)'].period = job'[i].at
               /\ job'[i].pc = "provider" => called[Key(i)'] = 0
    BY <1>1, <1>2, <1>3, <2>1, <2>2, <2>3 DEF Reservations, OwnReservation
  <2>4. ASSUME NEW i \in Jobs, job'[i].pc \in Owning, NEW h \in Jobs, job'[h].pc \in Owning,
               Key(h)' = Key(i)'
        PROVE  h = i
    BY <2>1, <2>2, <2>4 DEF Reservations, OwnReservation
  <2>. QED
    BY <2>3, <2>4 DEF OwnReservation
<1>7. CallsAreReserved' /\ OneCallPerKey' /\ ReservedAtEstimate'
  BY <1>2 DEF Reservations, CallsAreReserved, OneCallPerKey, ReservedAtEstimate
<1>8. SettlesReserved'
  <2>. SUFFICES ASSUME ~SlowCalls
                PROVE  /\ \A i \in Jobs : job'[i].pc = "settle_tx" => event'[Key(i)'].status = "reserved"
                       /\ \A s \in stale : /\ event'[s].status = "reserved"
                                           /\ \A i \in Jobs : job'[i].pc \in Owning => Key(i)' # s
    BY DEF SettlesReserved
  <2>1. /\ \A i \in Jobs : job[i].pc = "settle_tx" => event[Key(i)].status = "reserved"
        /\ \A s \in stale : /\ event[s].status = "reserved"
                            /\ \A i \in Jobs : job[i].pc \in Owning => Key(i) # s
    BY DEF Reservations, SettlesReserved
  <2>2. stale \subseteq Keys
    BY DEF TypeOK
  <2>3. ASSUME NEW i \in Jobs, job'[i].pc = "settle_tx" PROVE event'[Key(i)'].status = "reserved"
    BY <1>1, <1>2, <2>1, <2>3
  <2>4. ASSUME NEW s \in stale
        PROVE  event'[s].status = "reserved" /\ \A i \in Jobs : job'[i].pc \in Owning => Key(i)' # s
    BY <1>1, <1>2, <2>1, <2>2, <2>4
  <2>. QED
    BY <2>3, <2>4
<1>9. \A q \in Periods : OfPeriod(paid, q)' = OfPeriod(paid, q)
  <2>1. paid \subseteq Keys
    BY DEF TypeOK
  <2>. QED
    BY <1>2, <1>3, <2>1 DEF OfPeriod
<1>. QED
  BY <1>5, <1>6, <1>7, <1>8, <1>9 DEF Reservations

LEMMA ReserveTenantKeeps == ASSUME IInv, NEW j \in Jobs, ReserveTenant(j) PROVE IInv'
<1>. DEFINE p == job[j].at
            k == Key(j)
            x == usage[p].calls + 1
            y == usage[p].cost + Est
            u == [usage[p] EXCEPT !.calls = x, !.cost = y]
<1>1. TypeOK /\ Reservations /\ TenantBooks /\ BasicBooks /\ GlobalBooks
  BY DEF IInv
<1>2. /\ job[j].pc = "tenant_tx"
      /\ UNCHANGED <<now, daily, basic, cache, stale, faults, called, paid>>
  BY DEF ReserveTenant, history
<1>3. p \in Periods /\ k \in Keys
  BY <1>1 DEF TypeOK, JobState, Key, Keys
<1>4. ASSUME NEW t \in JobState, t.at = p,
             t.pc = "provider" \/ (t.pc = "settle_global" /\ t.out = "unpaid")
      PROVE  \A q \in Periods : Holds(t, q) => Holds(job[j], q)
  BY <1>2, <1>4 DEF Holds
<1>5. CASE NotOurs(j) /\ UNCHANGED <<usage, event>>
  <2>1. PICK t \in JobState : /\ job' = [job EXCEPT ![j] = t] /\ t.pc = "settle_global"
                              /\ t.out = "unpaid" /\ t.at = p
    BY <1>1, <1>5, NotOursFacts
  <2>2. Moves(j, t) /\ \A q \in Periods : Holds(t, q) => Holds(job[j], q)
    BY <1>4, <2>1 DEF Moves, Owning
  <2>3. Reservations'
    BY <1>1, <1>2, <1>5, <2>2, MovesKeepReservations
  <2>4. \A q \in Periods : OfPeriod(paid, q)' = OfPeriod(paid, q)
    BY <1>2, <1>5 DEF OfPeriod
  <2>5. GlobalBooks'
    BY <1>1, <1>2, <2>1, <2>2, <2>4, GlobalBooksCalm
  <2>6. TenantBooks' /\ BasicBooks'
    BY <1>1, <1>2, <1>5, BooksCalm
  <2>7. TypeOK'
    BY <1>1, <1>2, <1>5, <2>1, JobSet DEF TypeOK
  <2>. QED
    BY <2>3, <2>5, <2>6, <2>7 DEF IInv
<1>6. ASSUME event[k].status = "none", NEW e \in UsageEvent, event' = [event EXCEPT ![k] = e],
             e.status # "none", e.status = "reserved" => e.cost = Est, e.period = p,
             NEW t \in JobState, job' = [job EXCEPT ![j] = t], t.at = p,
             \/ t.pc = "provider" /\ t.content = job[j].content
             \/ t.pc = "settle_global" /\ t.out = "unpaid"
      PROVE  Reservations' /\ GlobalBooks' /\ event' \in [Keys -> UsageEvent] /\ job' \in [Jobs -> JobState]
  <2>1. Reservations' /\ \A q \in Periods : OfPeriod(paid, q)' = OfPeriod(paid, q)
    BY <1>1, <1>2, <1>6, InsertKeepsReservations
  <2>2. \A q \in Periods : Holds(t, q) => Holds(job[j], q)
    BY <1>4, <1>6
  <2>5. GlobalBooks'
    BY <1>1, <1>2, <1>6, <2>1, <2>2, GlobalBooksCalm
  <2>3. event' \in [Keys -> UsageEvent]
    BY <1>1, <1>3, <1>6, EventSet
  <2>4. job' \in [Jobs -> JobState]
    BY <1>1, <1>6, JobSet
  <2>. QED
    BY <2>1, <2>3, <2>4, <2>5
<1>7. CASE /\ event[k].status = "none" /\ FitsTenant(usage[p])
           /\ usage' = [usage EXCEPT ![p].calls = @ + 1, ![p].cost = @ + Est]
           /\ event' = [event EXCEPT ![k] = [status |-> "reserved", period |-> p, cost |-> Est]]
           /\ Goto(j, "provider")
  <2>. DEFINE e == [status |-> "reserved", period |-> p, cost |-> Est]
  <2>1. PICK t \in JobState : /\ job' = [job EXCEPT ![j] = t] /\ t.pc = "provider"
                              /\ t.content = job[j].content /\ t.at = p
    BY <1>1, <1>7, GotoFacts DEF Pcs
  <2>2. e \in UsageEvent /\ e.status = "reserved" /\ e.cost = Est /\ e.period = p /\ Counts(e, p)
    BY <1>3, CostAssumption DEF UsageEvent, Charged, Counts
  <2>3. event' = [event EXCEPT ![k] = e]
    BY <1>7
  <2>4. x \in 0..CallLimit /\ y \in 0..CostLimit
    BY <1>1, <1>3, <1>7, UsageTypes DEF FitsTenant
  <2>5. usage' = [usage EXCEPT ![p] = u]
    BY <1>1, <1>3, <1>7, UsageTypes
  <2>. HIDE DEF e
  <2>6. u \in UsagePeriod /\ u.calls = x /\ u.cost = y /\ u.basic = usage[p].basic
    <3>. DEFINE r == usage[p]
    <3>1. r \in UsagePeriod
      BY <1>1, <1>3, UsageTypes
    <3>2. u = [r EXCEPT !.calls = x, !.cost = y]
      OBVIOUS
    <3>. HIDE DEF x, y, u, r
    <3>3. u \in UsagePeriod /\ u.calls = x /\ u.cost = y /\ u.basic = r.basic
      BY <2>4, <3>1, <3>2 DEF UsagePeriod
    <3>. QED
      BY <3>3 DEF r
  <2>. HIDE DEF u, k
  <2>7. Reservations' /\ GlobalBooks' /\ event' \in [Keys -> UsageEvent] /\ job' \in [Jobs -> JobState]
    BY <1>6, <1>7, <2>1, <2>2, <2>3
  <2>8. event[k].status \notin Charged
    BY <1>7 DEF Charged
  <2>. HIDE DEF p
  <2>9. TenantBooks'
    BY <1>1, <1>3, <2>2, <2>3, <2>5, <2>6, <2>8, TenantRow
  <2>10. BasicBooks'
    BY <1>1, <1>2, <1>3, <2>5, <2>6, BasicCalm
  <2>11. usage' \in [Periods -> UsagePeriod]
    BY <1>1, <1>3, <2>5, <2>6, UsageSet
  <2>12. TypeOK'
    BY <1>1, <1>2, <2>7, <2>11 DEF TypeOK
  <2>. QED
    BY <2>7, <2>9, <2>10, <2>12 DEF IInv
<1>8. CASE /\ event[k].status = "none"
           /\ event' = [event EXCEPT ![k] = [status |-> "denied", period |-> p, cost |-> 0]]
           /\ NotOurs(j) /\ UNCHANGED usage
  <2>. DEFINE e == [status |-> "denied", period |-> p, cost |-> 0]
  <2>1. PICK t \in JobState : /\ job' = [job EXCEPT ![j] = t] /\ t.pc = "settle_global"
                              /\ t.out = "unpaid" /\ t.at = p
    BY <1>1, <1>8, NotOursFacts
  <2>2. e \in UsageEvent /\ e.status = "denied" /\ e.period = p
    BY <1>3, CostAssumption DEF UsageEvent
  <2>3. event' = [event EXCEPT ![k] = e]
    BY <1>8
  <2>. HIDE DEF e, k
  <2>4. Reservations' /\ GlobalBooks' /\ event' \in [Keys -> UsageEvent] /\ job' \in [Jobs -> JobState]
    BY <1>6, <1>8, <2>1, <2>2, <2>3
  <2>5. TenantBooks'
    <3>. SUFFICES ASSUME ~SlowCalls, NEW q \in Periods
                  PROVE  usage[q].calls = CallsOf(q)' /\ usage[q].cost = CostsOf(q)'
      BY <1>8 DEF TenantBooks, CallsOf, CostsOf
    <3>1. usage[q].calls = CallsOf(q) /\ usage[q].cost = CostsOf(q)
      BY <1>1 DEF TenantBooks, CallsOf, CostsOf
    <3>2. ~Counts(event[k], q) /\ ~Counts(e, q)
      BY <1>8, <2>2 DEF Counts, Charged
    <3>3. PICK r \in Nat, s \in Nat :
            /\ CallsOf(q) = r + (IF Counts(event[k], q) THEN 1 ELSE 0)
            /\ CostsOf(q) = s + (IF Counts(event[k], q) THEN event[k].cost ELSE 0)
            /\ CallsOf(q)' = r + (IF Counts(e, q) THEN 1 ELSE 0)
            /\ CostsOf(q)' = s + (IF Counts(e, q) THEN e.cost ELSE 0)
      BY <1>1, <1>3, <2>2, <2>3, ChargesChange
    <3>. QED
      BY <3>1, <3>2, <3>3
  <2>6. BasicBooks'
    BY <1>1, <1>2, <1>8 DEF BasicBooks, BasicUnits
  <2>7. TypeOK'
    BY <1>1, <1>2, <1>8, <2>4 DEF TypeOK
  <2>. QED
    BY <2>4, <2>5, <2>6, <2>7 DEF IInv
<1>. QED
  BY <1>5, <1>7, <1>8 DEF ReserveTenant

-----------------------------------------------------------------------------
(* The call.                                                                 *)

\* The only owner calls, and the key had no call: the call is its first.
LEMMA ProviderKeepsReservations ==
  ASSUME TypeOK, Reservations, NEW j \in Jobs, job[j].pc = "provider",
         NEW t \in JobState, job' = [job EXCEPT ![j] = t], t.pc = "settle",
         t.content = job[j].content, t.at = job[j].at, t.out \in {"ok", "unpaid"},
         called' \in {called, [called EXCEPT ![Key(j)] = @ + 1]},
         \/ paid' = paid
         \/ paid' = paid \cup {Key(j)} /\ called' = [called EXCEPT ![Key(j)] = @ + 1],
         UNCHANGED <<event, stale>>
  PROVE  Reservations' /\ called' \in [Keys -> Nat] /\ paid' \subseteq Keys /\ Key(j) \notin paid
<1>. DEFINE k == Key(j)
<1>1. /\ job'[j] = t /\ \A i \in Jobs : i # j => job'[i] = job[i] /\ Key(i)' = Key(i)
      /\ Key(j)' = k
      /\ \A i \in Jobs : Key(i) \in Keys
  BY JobSet
<1>2. /\ called[k] = 0 /\ event[k].status # "none" /\ event[k].period = t.at
      /\ \A i \in Jobs : job[i].pc \in Owning /\ Key(i) = k => i = j
      /\ job[j].pc \in Owning
  BY DEF Reservations, OwnReservation, Owning
<1>3. /\ called' \in [Keys -> Nat] /\ called'[k] \in {0, 1}
      /\ \A i \in Keys : i # k => called'[i] = called[i]
  BY <1>1, <1>2 DEF TypeOK
<1>4. /\ paid \subseteq Keys /\ k \notin paid /\ paid' \subseteq Keys
      /\ \A i \in Keys : i # k => (i \in paid' <=> i \in paid)
      /\ k \in paid' => called'[k] = 1
  BY <1>1, <1>2 DEF TypeOK, Reservations, CallsAreReserved
<1>5. OutcomeKnown'
  BY <1>1 DEF Reservations, OutcomeKnown
<1>6. \A i \in Jobs : job'[i].pc \in Owning =>
        /\ job[i].pc \in Owning /\ Key(i)' = Key(i) /\ job'[i].at = job[i].at
        /\ job'[i].pc = "provider" => i # j /\ Key(i) # k /\ job[i].pc = "provider"
  BY <1>1, <1>2
<1>7. OwnReservation'
  BY <1>1, <1>3, <1>6 DEF Reservations, OwnReservation
<1>8. CallsAreReserved'
  BY <1>2, <1>3, <1>4 DEF Reservations, CallsAreReserved
<1>9. OneCallPerKey' /\ ReservedAtEstimate'
  BY <1>3 DEF Reservations, OneCallPerKey, ReservedAtEstimate
<1>10. SettlesReserved'
  BY <1>1, <1>6 DEF Reservations, SettlesReserved
<1>. QED
  BY <1>3, <1>4, <1>5, <1>7, <1>8, <1>9, <1>10 DEF Reservations

\* A completed call is no longer held but paid, in the same period.
LEMMA PaidInsteadOfHeld ==
  ASSUME TypeOK, GlobalBooks, NEW j \in Jobs, NEW t \in JobState, job' = [job EXCEPT ![j] = t],
         Holds(job[j], job[j].at), \A q \in Periods : ~Holds(t, q),
         Key(j) \in Keys \ paid, event[Key(j)].period = job[j].at,
         paid' = paid \cup {Key(j)}, UNCHANGED <<event, daily>>
  PROVE  GlobalBooks'
<1>. DEFINE k == Key(j)
<1>. SUFFICES ASSUME NEW q \in Periods
              PROVE  Cardinality(OfPeriod(paid, q)') + Cardinality(Holders(q)') <= daily[q].calls
  BY DEF GlobalBooks
<1>1. Cardinality(OfPeriod(paid, q)) + Cardinality(Holders(q)) <= daily[q].calls
  BY DEF GlobalBooks
<1>2. daily[q].calls \in Nat
  BY DailyTypes
<1>3. IsFiniteSet(OfPeriod(paid, q)) /\ Cardinality(OfPeriod(paid, q)) \in Nat
  BY PaidIsFinite
<1>4. /\ IsFiniteSet(Holders(q)) /\ Cardinality(Holders(q)) \in Nat
      /\ Holders(q)' = Holders(q) \ {j} /\ (j \in Holders(q) <=> Holds(job[j], q))
  BY HoldersSet
<1>5. /\ Cardinality(Holders(q) \ {j}) \in Nat
      /\ Cardinality(Holders(q) \ {j}) <= Cardinality(Holders(q))
      /\ j \in Holders(q) => Cardinality(Holders(q)) = Cardinality(Holders(q) \ {j}) + 1
  BY <1>4, Counting
<1>6. CASE q = job[j].at
  <2>1. OfPeriod(paid, q)' = OfPeriod(paid, q) \cup {k} /\ k \notin OfPeriod(paid, q)
    BY <1>6 DEF OfPeriod
  <2>2. Cardinality(OfPeriod(paid, q)') = Cardinality(OfPeriod(paid, q)) + 1
    BY <1>3, <2>1, Counting
  <2>. QED
    BY <1>1, <1>2, <1>3, <1>4, <1>5, <1>6, <2>2
<1>7. CASE q # job[j].at
  <2>1. OfPeriod(paid, q)' = OfPeriod(paid, q)
    BY <1>7 DEF OfPeriod
  <2>. QED
    BY <1>1, <1>2, <1>3, <1>4, <1>5, <2>1
<1>. QED
  BY <1>6, <1>7

LEMMA ProviderKeeps == ASSUME IInv, NEW j \in Jobs, Provider(j) PROVE IInv'
<1>. DEFINE k == Key(j)
<1>1. TypeOK /\ Reservations /\ TenantBooks /\ BasicBooks /\ GlobalBooks
  BY DEF IInv
<1>2. job[j].pc = "provider" /\ UNCHANGED <<now, usage, daily, basic, event, cache, stale, faults>>
  BY DEF Provider, ledgers
<1>3. job \in [Jobs -> JobState] /\ job[j] \in JobState
  BY <1>1 DEF TypeOK
<1>4. TenantBooks' /\ BasicBooks'
  BY <1>1, <1>2, BooksCalm
<1>5. ASSUME NEW t \in JobState, job' = [job EXCEPT ![j] = t], t.pc = "settle",
             t.content = job[j].content, t.at = job[j].at,
             \/ t.out = "ok" /\ paid' = paid \cup {k} /\ called' = [called EXCEPT ![k] = @ + 1]
             \/ t.out = "unpaid" /\ paid' = paid /\ called' \in {called, [called EXCEPT ![k] = @ + 1]}
      PROVE  IInv'
  <2>1. Reservations' /\ called' \in [Keys -> Nat] /\ paid' \subseteq Keys /\ k \notin paid
    BY <1>1, <1>2, <1>5, ProviderKeepsReservations
  <2>2. GlobalBooks'
    <3>1. CASE t.out = "unpaid" /\ paid' = paid
      <4>1. \A q \in Periods : Holds(t, q) => Holds(job[j], q)
        BY <1>2, <1>5 DEF Holds
      <4>2. \A q \in Periods : OfPeriod(paid, q)' = OfPeriod(paid, q)
        BY <1>2, <3>1 DEF OfPeriod
      <4>. QED
        BY <1>1, <1>2, <1>5, <4>1, <4>2, GlobalBooksCalm
    <3>2. CASE t.out = "ok" /\ paid' = paid \cup {k}
      <4>1. Holds(job[j], job[j].at) /\ \A q \in Periods : ~Holds(t, q)
        BY <1>2, <1>5, <3>2 DEF Holds
      <4>2. event[k].period = job[j].at
        BY <1>1, <1>2 DEF Reservations, OwnReservation, Owning
      <4>3. k \in Keys \ paid
        BY <1>3, <2>1 DEF Key, Keys, JobState
      <4>. QED
        BY <1>1, <1>2, <1>5, <3>2, <4>1, <4>2, <4>3, PaidInsteadOfHeld
    <3>. QED
      BY <1>5, <3>1, <3>2
  <2>3. TypeOK'
    BY <1>1, <1>2, <1>5, <2>1, JobSet DEF TypeOK
  <2>. QED
    BY <1>4, <2>1, <2>2, <2>3 DEF IInv
<1>6. ASSUME NEW a \in Actuals,
             job' = [job EXCEPT ![j].pc = "settle", ![j].out = "ok", ![j].cost = a],
             called' = [called EXCEPT ![k] = @ + 1], paid' = paid \cup {k}
      PROVE  IInv'
  <2>. DEFINE t == [job[j] EXCEPT !.pc = "settle", !.out = "ok", !.cost = a]
  <2>1. a \in 0..Est
    BY CostAssumption
  <2>2. /\ t \in JobState /\ t.pc = "settle" /\ t.content = job[j].content /\ t.at = job[j].at
        /\ t.out = "ok"
    BY <1>3, <2>1 DEF JobState, Pcs
  <2>3. job' = [job EXCEPT ![j] = t]
    BY <1>3, <1>6
  <2>. HIDE DEF t
  <2>. QED
    BY <1>5, <1>6, <2>2, <2>3
<1>7. CASE /\ job' = [job EXCEPT ![j].pc = "settle", ![j].out = "unpaid"]
           /\ called' \in {called, [called EXCEPT ![k] = @ + 1]} /\ paid' = paid
  <2>. DEFINE t == [job[j] EXCEPT !.pc = "settle", !.out = "unpaid"]
  <2>2. /\ t \in JobState /\ t.pc = "settle" /\ t.content = job[j].content /\ t.at = job[j].at
        /\ t.out = "unpaid"
    BY <1>3 DEF JobState, Pcs
  <2>3. job' = [job EXCEPT ![j] = t]
    BY <1>3, <1>7
  <2>. HIDE DEF t
  <2>. QED
    BY <1>5, <1>7, <2>2, <2>3
<1>. QED
  BY <1>6, <1>7 DEF Provider

-----------------------------------------------------------------------------
(* The settlement.                                                           *)

\* The owner settles its own event and owns it no longer.
LEMMA SettleKeepsReservations ==
  ASSUME TypeOK, Reservations, NEW j \in Jobs, job[j].pc = "settle_tx",
         NEW t \in JobState, job' = [job EXCEPT ![j] = t], t.pc = "settle_global", t.out = job[j].out,
         NEW e \in UsageEvent, event' = [event EXCEPT ![Key(j)] = e],
         e.status \in {"succeeded", "released"}, e.period = event[Key(j)].period,
         UNCHANGED <<called, paid, stale>>
  PROVE  Reservations' /\ \A q \in Periods : OfPeriod(paid, q)' = OfPeriod(paid, q)
<1>. DEFINE k == Key(j)
<1>1. /\ job'[j] = t /\ \A i \in Jobs : i # j => job'[i] = job[i] /\ Key(i)' = Key(i)
      /\ \A i \in Jobs : Key(i) \in Keys
  BY JobSet
<1>2. event'[k] = e /\ \A i \in Keys : i # k => event'[i] = event[i]
  BY <1>1, EventSet
<1>3. event[k].status # "none" /\ \A i \in Jobs : job[i].pc \in Owning /\ Key(i) = k => i = j
  BY DEF Reservations, OwnReservation, Owning
<1>4. \A i \in Jobs : job'[i].pc \in Owning =>
        /\ i # j /\ job'[i] = job[i] /\ Key(i)' = Key(i) /\ Key(i) # k
        /\ event'[Key(i)] = event[Key(i)]
  BY <1>1, <1>2, <1>3 DEF Owning
<1>5. OutcomeKnown'
  BY <1>1 DEF Reservations, OutcomeKnown
<1>6. OwnReservation'
  BY <1>4 DEF Reservations, OwnReservation
<1>7. CallsAreReserved' /\ OneCallPerKey' /\ ReservedAtEstimate'
  BY <1>2, <1>3 DEF Reservations, CallsAreReserved, OneCallPerKey, ReservedAtEstimate
<1>8. SettlesReserved'
  <2>. SUFFICES ASSUME ~SlowCalls
                PROVE  /\ \A i \in Jobs : job'[i].pc = "settle_tx" => event'[Key(i)'].status = "reserved"
                       /\ \A s \in stale : /\ event'[s].status = "reserved"
                                           /\ \A i \in Jobs : job'[i].pc \in Owning => Key(i)' # s
    BY DEF SettlesReserved
  <2>1. /\ \A i \in Jobs : job[i].pc = "settle_tx" => event[Key(i)].status = "reserved"
        /\ \A s \in stale : /\ event[s].status = "reserved"
                            /\ \A i \in Jobs : job[i].pc \in Owning => Key(i) # s
    BY DEF Reservations, SettlesReserved
  <2>2. stale \subseteq Keys /\ k \notin stale
    BY <2>1 DEF TypeOK, Owning
  <2>3. ASSUME NEW i \in Jobs, job'[i].pc = "settle_tx" PROVE event'[Key(i)'].status = "reserved"
    BY <1>4, <2>1, <2>3 DEF Owning
  <2>4. ASSUME NEW s \in stale
        PROVE  event'[s].status = "reserved" /\ \A i \in Jobs : job'[i].pc \in Owning => Key(i)' # s
    BY <1>2, <1>4, <2>1, <2>2, <2>4
  <2>. QED
    BY <2>3, <2>4
<1>9. \A q \in Periods : OfPeriod(paid, q)' = OfPeriod(paid, q)
  <2>1. paid \subseteq Keys
    BY DEF TypeOK
  <2>. QED
    BY <1>2, <2>1 DEF OfPeriod
<1>. QED
  BY <1>5, <1>6, <1>7, <1>8, <1>9 DEF Reservations

LEMMA SettleTenantKeeps == ASSUME IInv, NEW j \in Jobs, SettleTenant(j) PROVE IInv'
<1>. DEFINE k == Key(j)
            p == event[k].period
<1>1. TypeOK /\ Reservations /\ TenantBooks /\ BasicBooks /\ GlobalBooks
  BY DEF IInv
<1>2. /\ job[j].pc = "settle_tx" /\ Goto(j, "settle_global")
      /\ UNCHANGED <<now, daily, basic, cache, stale, faults, called, paid>>
  BY DEF SettleTenant, history
<1>3. k \in Keys /\ job[j].cost \in 0..Est /\ Est \in Nat
  BY <1>1, CostAssumption DEF TypeOK, JobState, Key, Keys
<1>4. event[k] \in UsageEvent /\ event \in [Keys -> UsageEvent] /\ p \in Periods
  BY <1>1, <1>3, EventTypes
<1>5. PICK t \in JobState : /\ job' = [job EXCEPT ![j] = t] /\ t.pc = "settle_global"
                            /\ t.at = job[j].at /\ t.out = job[j].out
  BY <1>1, <1>2, GotoFacts DEF Pcs
<1>6. ~SlowCalls => Counts(event[k], p) /\ event[k].cost = Est
  BY <1>1, <1>2, <1>3 DEF Reservations, SettlesReserved, ReservedAtEstimate, Counts, Charged
<1>7. ASSUME NEW e \in UsageEvent, event' = [event EXCEPT ![k] = e], e.period = p,
             NEW u \in UsagePeriod, usage' = [usage EXCEPT ![p] = u], u.basic = usage[p].basic,
             \/ /\ e.status = "succeeded"
                /\ u.calls = usage[p].calls /\ u.cost = Minus(usage[p].cost + e.cost, Est)
             \/ /\ e.status = "released"
                /\ u.calls = Minus(usage[p].calls, 1) /\ u.cost = Minus(usage[p].cost, Est)
      PROVE  IInv'
  <2>1. Reservations' /\ \A q \in Periods : OfPeriod(paid, q)' = OfPeriod(paid, q)
    BY <1>1, <1>2, <1>5, <1>7, SettleKeepsReservations
  <2>2. \A q \in Periods : Holds(t, q) => Holds(job[j], q)
    BY <1>2, <1>5 DEF Holds
  <2>3. GlobalBooks'
    BY <1>1, <1>2, <1>5, <2>1, <2>2, GlobalBooksCalm
  <2>4. e.status = "succeeded" => Counts(e, p)
    BY <1>7 DEF Counts, Charged
  <2>5. e.status = "released" => e.status \notin Charged
    BY DEF Charged
  <2>. HIDE DEF p, k
  <2>6. TenantBooks'
    BY <1>1, <1>3, <1>4, <1>6, <1>7, <2>4, <2>5, TenantRow
  <2>7. BasicBooks'
    BY <1>1, <1>2, <1>4, <1>7, BasicCalm
  <2>8. event' \in [Keys -> UsageEvent]
    BY <1>1, <1>3, <1>7, EventSet
  <2>9. usage' \in [Periods -> UsagePeriod]
    BY <1>1, <1>4, <1>7, UsageSet
  <2>10. job' \in [Jobs -> JobState]
    BY <1>1, <1>5, JobSet
  <2>11. TypeOK'
    BY <1>1, <1>2, <2>8, <2>9, <2>10 DEF TypeOK
  <2>. QED
    BY <2>1, <2>3, <2>6, <2>7, <2>11 DEF IInv
<1>8. usage[p] \in UsagePeriod /\ usage \in [Periods -> UsagePeriod]
  BY <1>1, <1>4, UsageTypes
<1>9. CASE /\ usage' = [usage EXCEPT ![p].cost = Minus(@ + job[j].cost, Est)]
           /\ event' = [event EXCEPT ![k].status = "succeeded", ![k].cost = job[j].cost]
  <2>. DEFINE e == [event[k] EXCEPT !.status = "succeeded", !.cost = job[j].cost]
              y == Minus(usage[p].cost + job[j].cost, Est)
              u == [usage[p] EXCEPT !.cost = y]
  <2>1. e \in UsageEvent /\ e.period = p /\ e.status = "succeeded" /\ e.cost = job[j].cost
    BY <1>3, <1>4 DEF UsageEvent, Charged
  <2>2. event' = [event EXCEPT ![k] = e]
    BY <1>3, <1>4, <1>9
  <2>3. y \in 0..CostLimit
    BY <1>1, <1>3, <1>4, UsageTypes DEF Minus
  <2>4. usage' = [usage EXCEPT ![p] = u]
    BY <1>4, <1>8, <1>9
  <2>5. u \in UsagePeriod /\ u.basic = usage[p].basic /\ u.calls = usage[p].calls /\ u.cost = y
    <3>. HIDE DEF y, p
    <3>. QED
      BY <1>8, <2>3 DEF UsagePeriod
  <2>. HIDE DEF e, u, p, k
  <2>. QED
    BY <1>7, <2>1, <2>2, <2>4, <2>5
<1>10. CASE /\ usage' = [usage EXCEPT ![p].calls = Minus(@, 1), ![p].cost = Minus(@, Est)]
            /\ event' = [event EXCEPT ![k].status = "released", ![k].cost = 0]
  <2>. DEFINE e == [event[k] EXCEPT !.status = "released", !.cost = 0]
              x == Minus(usage[p].calls, 1)
              y == Minus(usage[p].cost, Est)
              u == [usage[p] EXCEPT !.calls = x, !.cost = y]
  <2>1. e \in UsageEvent /\ e.period = p /\ e.status = "released"
    <3>1. 0 \in 0..Est
      BY <1>3
    <3>. QED
      BY <1>4, <3>1 DEF UsageEvent
  <2>2. event' = [event EXCEPT ![k] = e]
    BY <1>3, <1>4, <1>10
  <2>3. x \in 0..CallLimit /\ y \in 0..CostLimit
    BY <1>1, <1>3, <1>4, UsageTypes DEF Minus
  <2>4. usage' = [usage EXCEPT ![p] = u]
    BY <1>4, <1>8, <1>10
  <2>5. u \in UsagePeriod /\ u.calls = x /\ u.cost = y /\ u.basic = usage[p].basic
    <3>. DEFINE r == usage[p]
    <3>1. r \in UsagePeriod /\ u = [r EXCEPT !.calls = x, !.cost = y]
      BY <1>8
    <3>. HIDE DEF x, y, u, r
    <3>2. u \in UsagePeriod /\ u.calls = x /\ u.cost = y /\ u.basic = r.basic
      BY <2>3, <3>1 DEF UsagePeriod
    <3>. QED
      BY <3>2 DEF r
  <2>. HIDE DEF e, u, p, k
  <2>. QED
    BY <1>7, <2>1, <2>2, <2>4, <2>5
<1>. QED
  BY <1>9, <1>10 DEF SettleTenant

-----------------------------------------------------------------------------
(* The recovery and the clock.                                               *)

LEMMA RecoverReadKeeps == ASSUME IInv, RecoverRead PROVE IInv'
<1>1. TypeOK /\ Reservations /\ TenantBooks /\ BasicBooks /\ GlobalBooks
  BY DEF IInv
<1>2. /\ UNCHANGED <<now, usage, daily, basic, event, cache, job, faults, called, paid>>
      /\ stale' \subseteq Keys
      /\ \A k \in stale' : /\ event[k].status = "reserved"
                           /\ SlowCalls \/ \A j \in Jobs : job[j].pc = "idle" \/ Key(j) # k
  BY DEF RecoverRead, ledgers, history
<1>3. \A j \in Jobs : Key(j)' = Key(j)
  BY <1>2 DEF Key
<1>4. SettlesReserved'
  BY <1>1, <1>2, <1>3 DEF Reservations, SettlesReserved, Owning
<1>5. Reservations'
  BY <1>1, <1>2, <1>3, <1>4
  DEF Reservations, OutcomeKnown, OwnReservation, CallsAreReserved, OneCallPerKey, ReservedAtEstimate
<1>6. TenantBooks' /\ BasicBooks'
  BY <1>1, <1>2, BooksCalm
<1>7. GlobalBooks'
  BY <1>1, <1>2 DEF GlobalBooks, OfPeriod, Holders
<1>8. TypeOK'
  BY <1>1, <1>2 DEF TypeOK
<1>. QED
  BY <1>5, <1>6, <1>7, <1>8 DEF IInv

\* What the recovery does to the events, without the counters.
LEMMA RecoverEvents ==
  ASSUME TypeOK, Reservations, RecoverWrite
  PROVE  /\ event' \in [Keys -> UsageEvent]
         /\ \A k \in Keys \ stale : event'[k] = event[k]
         /\ \A k \in stale : event'[k].status = "released"
         /\ \A k \in Keys : event'[k].period = event[k].period
         /\ Reservations'
<1>1. /\ UNCHANGED <<now, daily, basic, cache, job, faults, called, paid>> /\ stale' = {}
      /\ event' = [k \in Keys |-> IF k \in stale THEN [event[k] EXCEPT !.status = "released", !.cost = 0]
                                  ELSE event[k]]
  BY DEF RecoverWrite, history
<1>2. event \in [Keys -> UsageEvent] /\ stale \subseteq Keys /\ 0 \in 0..Est
  BY CostAssumption DEF TypeOK
<1>3. ASSUME NEW k \in Keys
      PROVE  /\ event'[k] \in UsageEvent /\ event'[k].period = event[k].period
             /\ k \in stale => event'[k].status = "released"
             /\ k \notin stale => event'[k] = event[k]
  <2>. DEFINE e == event[k]
              f == [e EXCEPT !.status = "released", !.cost = 0]
  <2>1. e \in UsageEvent /\ event'[k] = IF k \in stale THEN f ELSE e
    BY <1>1, <1>2
  <2>. HIDE DEF e
  <2>2. f \in UsageEvent /\ f.period = e.period /\ f.status = "released"
    BY <1>2, <2>1 DEF UsageEvent
  <2>. HIDE DEF f
  <2>3. /\ event'[k] \in UsageEvent /\ event'[k].period = e.period
        /\ k \in stale => event'[k].status = "released"
        /\ k \notin stale => event'[k] = e
    BY <2>1, <2>2
  <2>. QED
    BY <2>3 DEF e
<1>4. event' \in [Keys -> UsageEvent]
  BY <1>1, <1>3
<1>5. \A j \in Jobs : Key(j)' = Key(j) /\ Key(j) \in Keys
  BY <1>1 DEF Key, Keys, TypeOK, JobState
<1>6. OutcomeKnown' /\ OneCallPerKey'
  BY <1>1 DEF Reservations, OutcomeKnown, OneCallPerKey
<1>7. OwnReservation'
  <2>1. \A j \in Jobs : /\ event'[Key(j)'].period = event[Key(j)].period
                        /\ event[Key(j)].status # "none" => event'[Key(j)'].status # "none"
    BY <1>3, <1>5
  <2>2. called' = called /\ job' = job
    BY <1>1
  <2>. QED
    BY <1>5, <2>1, <2>2 DEF Reservations, OwnReservation
<1>8. CallsAreReserved' /\ ReservedAtEstimate'
  BY <1>1, <1>3 DEF Reservations, CallsAreReserved, ReservedAtEstimate
<1>9. SettlesReserved'
  <2>. SUFFICES ASSUME ~SlowCalls, NEW j \in Jobs, job[j].pc = "settle_tx"
                PROVE  event'[Key(j)].status = "reserved"
    BY <1>1, <1>5 DEF SettlesReserved
  <2>1. event[Key(j)].status = "reserved" /\ Key(j) \notin stale
    BY DEF Reservations, SettlesReserved, Owning
  <2>. QED
    BY <1>3, <1>5, <2>1
<1>. QED
  BY <1>2, <1>3, <1>4, <1>6, <1>7, <1>8, <1>9 DEF Reservations

\* The counters of a period fall by what its recovered events were charged.
LEMMA RecoverBooks ==
  ASSUME TypeOK, Reservations, TenantBooks, RecoverWrite
  PROVE  /\ usage' \in [Periods -> UsagePeriod]
         /\ \A q \in Periods : usage'[q].basic = usage[q].basic
         /\ TenantBooks'
<1>. DEFINE of(q) == {k \in stale : event[k].period = q}
<1>1. usage' = [q \in Periods |-> [usage[q] EXCEPT !.calls = Minus(@, Cardinality(of(q))),
                                                   !.cost = Minus(@, Est * Cardinality(of(q)))]]
  BY DEF RecoverWrite
<1>2. /\ event' \in [Keys -> UsageEvent]
      /\ \A k \in Keys \ stale : event'[k] = event[k]
      /\ \A k \in stale : event'[k].status = "released"
  BY RecoverEvents
<1>3. stale \subseteq Keys
  BY DEF TypeOK
<1>4. ASSUME NEW q \in Periods
      PROVE  /\ usage'[q] \in UsagePeriod /\ usage'[q].basic = usage[q].basic
             /\ usage'[q].calls = Minus(usage[q].calls, Cardinality(of(q)))
             /\ usage'[q].cost = Minus(usage[q].cost, Est * Cardinality(of(q)))
  <2>. DEFINE n == Cardinality(of(q))
              m == Est * n
              r == usage[q]
              x == Minus(r.calls, n)
              y == Minus(r.cost, m)
              u == [r EXCEPT !.calls = x, !.cost = y]
  <2>1. n \in Nat
    <3>1. of(q) \in SUBSET Keys
      BY <1>3
    <3>2. IsFiniteSet(of(q))
      BY <3>1, KeysAreFinite, FS_Subset
    <3>. QED
      BY <3>2, FS_CardinalityType
  <2>2. m \in Nat
    BY <2>1, CostAssumption
  <2>3. usage'[q] = u
    BY <1>1
  <2>4. r \in UsagePeriod
    BY UsageTypes
  <2>. HIDE DEF n, m, r
  <2>5. x \in 0..CallLimit /\ y \in 0..CostLimit
    BY <2>1, <2>2, <2>4, LimitsAssumption DEF Minus, UsagePeriod
  <2>. HIDE DEF x, y
  <2>6. u \in UsagePeriod /\ u.calls = x /\ u.cost = y /\ u.basic = r.basic
    BY <2>4, <2>5 DEF UsagePeriod
  <2>. HIDE DEF u
  <2>. QED
    BY <2>3, <2>6 DEF x, y, m, n, r
<1>. HIDE DEF of
<1>5. usage' \in [Periods -> UsagePeriod] /\ \A q \in Periods : usage'[q].basic = usage[q].basic
  BY <1>1, <1>4
<1>6. TenantBooks'
  <2>. SUFFICES ASSUME ~SlowCalls, NEW q \in Periods
                PROVE  usage'[q].calls = CallsOf(q)' /\ usage'[q].cost = CostsOf(q)'
    BY DEF TenantBooks, CallsOf, CostsOf
  <2>. DEFINE S == OfPeriod(ChargedKeys, q)
              T == of(q)
              c == Costs
              d == Costs'
  <2>1. \A k \in stale : k \in Keys /\ event[k].status = "reserved" /\ event[k].cost = Est
    BY <1>3 DEF Reservations, SettlesReserved, ReservedAtEstimate
  <2>2. S \in SUBSET Keys /\ T \in SUBSET S
    BY <2>1 DEF of, OfPeriod, ChargedKeys, Charged
  <2>3. OfPeriod(ChargedKeys, q)' = S \ T
    <3>1. "released" \notin Charged
      BY DEF Charged
    <3>2. \A k \in Keys : k \in OfPeriod(ChargedKeys, q)' <=> k \in S /\ k \notin stale
      BY <1>2, <3>1 DEF OfPeriod, ChargedKeys
    <3>3. OfPeriod(ChargedKeys, q)' \subseteq Keys
      BY DEF OfPeriod, ChargedKeys
    <3>4. \A k \in S : k \in T <=> k \in stale
      BY DEF of, OfPeriod
    <3>. QED
      BY <2>2, <3>2, <3>3, <3>4
  <2>4. /\ \A k \in Keys : c[k] = event[k].cost /\ d[k] = event'[k].cost
        /\ \A k \in S \ T : c[k] = d[k]
    <3>1. \A k \in Keys : c[k] = event[k].cost /\ d[k] = event'[k].cost
      BY DEF Costs
    <3>2. \A k \in S \ T : k \in Keys \ stale
      BY <2>2 DEF of, OfPeriod
    <3>. QED
      BY <1>2, <3>1, <3>2
  <2>5. \A k \in S : c[k] \in 0..Est
    BY <2>2, <2>4 DEF TypeOK, UsageEvent
  <2>6. \A k \in T : c[k] = Est
    BY <2>1, <2>2, <2>4 DEF of
  <2>7. usage[q].calls = Cardinality(S) /\ usage[q].cost = Cardinality(Units(S, c))
    BY DEF TenantBooks
  <2>8. CallsOf(q)' = Cardinality(S \ T) /\ CostsOf(q)' = Cardinality(Units(S \ T, d))
    BY <2>3 DEF CallsOf, CostsOf, Units
  <2>9. /\ usage'[q].calls = Minus(usage[q].calls, Cardinality(T))
        /\ usage'[q].cost = Minus(usage[q].cost, Est * Cardinality(T))
    BY <1>4
  <2>. HIDE DEF S, T, c, d
  <2>10. IsFiniteSet(S) /\ Est \in Nat
    BY <2>2, KeysAreFinite, FS_Subset, CostAssumption
  <2>11. Units(S \ T, c) = Units(S \ T, d)
    BY <2>4, UnitsAgree
  <2>12. /\ Cardinality(Units(S, c)) = Cardinality(Units(S \ T, c)) + Est * Cardinality(T)
         /\ Cardinality(Units(S \ T, c)) \in Nat /\ Cardinality(T) \in Nat
    BY <2>2, <2>5, <2>6, <2>10, UnitsLeave
  <2>13. Cardinality(S) = Cardinality(S \ T) + Cardinality(T) /\ Cardinality(S \ T) \in Nat
    <3>1. S \cap T = T /\ IsFiniteSet(S \ T)
      BY <2>2, <2>10, FS_Subset
    <3>2. Cardinality(S \ T) = Cardinality(S) - Cardinality(S \cap T)
      BY <2>10, FS_Difference
    <3>3. Cardinality(S) \in Nat /\ Cardinality(S \ T) \in Nat
      BY <2>10, <3>1, FS_CardinalityType
    <3>4. Cardinality(T) \in Nat
      BY <2>12
    <3>5. Cardinality(S \ T) = Cardinality(S) - Cardinality(T)
      BY <3>1, <3>2
    <3>. QED
      BY <3>3, <3>4, <3>5
  <2>14. usage'[q].calls = Cardinality(S \ T)
    BY <2>7, <2>9, <2>12, <2>13 DEF Minus
  <2>15. usage'[q].cost = Cardinality(Units(S \ T, c))
    <3>. DEFINE m == Est * Cardinality(T)
    <3>1. m \in Nat
      BY <2>10, <2>12
    <3>. HIDE DEF m
    <3>2. usage[q].cost = Cardinality(Units(S \ T, c)) + m /\ usage'[q].cost = Minus(usage[q].cost, m)
      BY <2>7, <2>9, <2>12 DEF m
    <3>. QED
      BY <2>12, <3>1, <3>2 DEF Minus
  <2>. QED
    BY <2>8, <2>11, <2>14, <2>15
<1>. QED
  BY <1>5, <1>6

LEMMA RecoverWriteKeeps == ASSUME IInv, RecoverWrite PROVE IInv'
<1>1. TypeOK /\ Reservations /\ TenantBooks /\ BasicBooks /\ GlobalBooks
  BY DEF IInv
<1>2. UNCHANGED <<now, daily, basic, cache, job, faults, called, paid>> /\ stale' = {}
  BY DEF RecoverWrite, history
<1>3. /\ event' \in [Keys -> UsageEvent] /\ Reservations'
      /\ \A k \in Keys : event'[k].period = event[k].period
  BY <1>1, RecoverEvents
<1>4. /\ usage' \in [Periods -> UsagePeriod] /\ TenantBooks'
      /\ \A q \in Periods : usage'[q].basic = usage[q].basic
  BY <1>1, RecoverBooks
<1>5. BasicBooks'
  <2>1. BasicUnits' = BasicUnits
    BY <1>4 DEF BasicUnits
  <2>2. Units(Periods, BasicUnits)' = Units(Periods, BasicUnits)
    BY <2>1 DEF Units
  <2>. QED
    BY <1>1, <1>2, <2>2 DEF BasicBooks
<1>6. GlobalBooks'
  <2>1. \A q \in Periods : OfPeriod(paid, q)' = OfPeriod(paid, q) /\ Holders(q)' = Holders(q)
    BY <1>1, <1>2, <1>3 DEF OfPeriod, Holders, TypeOK
  <2>. QED
    BY <1>1, <1>2, <2>1 DEF GlobalBooks
<1>7. TypeOK'
  BY <1>1, <1>2, <1>3, <1>4 DEF TypeOK
<1>. QED
  BY <1>3, <1>4, <1>5, <1>6, <1>7 DEF IInv

\* Nothing changes, or the clock alone.
LEMMA ClockKeeps ==
  ASSUME IInv, UNCHANGED <<usage, daily, basic, event, cache, job, stale, faults, called, paid>>,
         now' \in Periods
  PROVE  IInv'
<1>1. TypeOK /\ Reservations /\ TenantBooks /\ BasicBooks /\ GlobalBooks
  BY DEF IInv
<1>2. \A j \in Jobs : Key(j)' = Key(j)
  BY DEF Key
<1>3. Reservations'
  BY <1>1, <1>2 DEF Reservations, OutcomeKnown, OwnReservation, CallsAreReserved, OneCallPerKey,
                    ReservedAtEstimate, SettlesReserved
<1>4. TenantBooks' /\ BasicBooks'
  BY <1>1, BooksCalm
<1>5. GlobalBooks'
  BY <1>1 DEF GlobalBooks, OfPeriod, Holders
<1>6. TypeOK'
  BY <1>1 DEF TypeOK
<1>. QED
  BY <1>3, <1>4, <1>5, <1>6 DEF IInv

-----------------------------------------------------------------------------
(* The inductive invariant.                                                  *)

LEMMA NoUnits == ASSUME NEW S, NEW c, \A k \in S : c[k] = 0 PROVE Cardinality(Units(S, c)) = 0
<1>1. Units(S, c) = {}
  <2>. SUFFICES ASSUME NEW x \in Units(S, c) PROVE FALSE
    OBVIOUS
  <2>1. PICK k \in S : \E i \in 1..c[k] : x = <<k, i>>
    BY UnitsElements
  <2>. QED
    BY <2>1
<1>. QED
  BY <1>1, FS_EmptySet

LEMMA InitIInv == ASSUME Init PROVE IInv
<1>1. TypeOK
  <2>1. now \in Periods /\ faults \in 0..MaxFaults /\ 1 \in Periods /\ 0 \in 0..Est
    BY ModesAssumption, CostAssumption DEF Init, Periods
  <2>2. usage \in [Periods -> UsagePeriod] /\ daily \in [Periods -> GlobalPeriod]
    BY LimitsAssumption DEF Init, UsagePeriod, GlobalPeriod
  <2>3. event \in [Keys -> UsageEvent]
    BY <2>1 DEF Init, UsageEvent
  <2>4. job \in [Jobs -> JobState]
    BY IdleFacts DEF Init
  <2>. QED
    BY <2>1, <2>2, <2>3, <2>4 DEF Init, TypeOK
<1>2. /\ \A j \in Jobs : job[j].pc = "idle"
      /\ \A k \in Keys : event[k].status = "none" /\ event[k].cost = 0 /\ called[k] = 0
                         /\ basic[k] = "none"
      /\ \A p \in Periods : /\ usage[p].basic = 0 /\ usage[p].calls = 0 /\ usage[p].cost = 0
                            /\ daily[p].calls = 0
      /\ paid = {} /\ stale = {}
  BY IdleFacts DEF Init
<1>3. Reservations
  BY <1>2 DEF Reservations, OutcomeKnown, OwnReservation, CallsAreReserved, OneCallPerKey,
              ReservedAtEstimate, SettlesReserved, Owning
<1>4. TenantBooks
  <2>1. \A p \in Periods : OfPeriod(ChargedKeys, p) = {}
    BY <1>2 DEF OfPeriod, ChargedKeys, Charged
  <2>2. Cardinality({}) = 0 /\ Cardinality(Units({}, Costs)) = 0
    BY FS_EmptySet, NoUnits
  <2>. QED
    BY <1>2, <2>1, <2>2 DEF TenantBooks
<1>5. BasicBooks
  <2>1. \A p \in Periods : BasicUnits[p] = 0
    BY <1>2 DEF BasicUnits
  <2>2. Cardinality(Units(Periods, BasicUnits)) = 0
    BY <2>1, NoUnits
  <2>3. {k \in Keys : basic[k] = "succeeded"} = {}
    BY <1>2
  <2>. QED
    BY <2>2, <2>3, FS_EmptySet DEF BasicBooks
<1>6. GlobalBooks
  <2>1. \A p \in Periods : OfPeriod(paid, p) = {} /\ Holders(p) = {}
    BY <1>2 DEF OfPeriod, Holders, Holds
  <2>2. \A p \in Periods : Cardinality(OfPeriod(paid, p)) = 0 /\ Cardinality(Holders(p)) = 0
    BY <2>1, FS_EmptySet
  <2>. QED
    BY <1>2, <2>2 DEF GlobalBooks
<1>. QED
  BY <1>1, <1>3, <1>4, <1>5, <1>6 DEF IInv

LEMMA IInvStep == ASSUME IInv, [Next]_vars PROVE IInv'
<1>1. now \in Periods
  BY DEF IInv, TypeOK
<1>2. ASSUME NEW j \in Jobs, JobStep(j) \/ Crash(j) \/ DatabaseError(j) PROVE IInv'
  <2>1. CASE ReadBasic(j) \/ StayOnRules(j) \/ ReadReservation(j) \/ ReadSettle(j) \/ PutCache(j)
             \/ Crash(j) \/ DatabaseError(j)
    BY <2>1, JobOnlyKeeps
  <2>2. CASE ConsumeBasic(j)
    BY <2>2, ConsumeBasicKeeps
  <2>3. CASE ReserveGlobal(j)
    BY <2>3, ReserveGlobalKeeps
  <2>4. CASE ReserveTenant(j)
    BY <2>4, ReserveTenantKeeps
  <2>5. CASE Provider(j)
    BY <2>5, ProviderKeeps
  <2>6. CASE SettleTenant(j)
    BY <2>6, SettleTenantKeeps
  <2>7. CASE SettleGlobal(j)
    BY <2>7, SettleGlobalKeeps
  <2>. QED
    BY <1>2, <2>1, <2>2, <2>3, <2>4, <2>5, <2>6, <2>7 DEF JobStep
<1>3. ASSUME NEW j \in Jobs, NEW c \in Contents, LookUp(j, c) PROVE IInv'
  BY <1>3, JobOnlyKeeps
<1>4. ASSUME NEW j \in Jobs, NEW c \in Contents, HitCache(j, c) PROVE IInv'
  BY <1>1, <1>4, ClockKeeps DEF HitCache, vars
<1>5. CASE RecoverRead
  BY <1>5, RecoverReadKeeps
<1>6. CASE RecoverWrite
  BY <1>6, RecoverWriteKeeps
<1>7. CASE NextPeriod
  <2>1. now' \in Periods
    BY <1>1, <1>7, ModesAssumption DEF NextPeriod, Periods
  <2>. QED
    BY <1>7, <2>1, ClockKeeps DEF NextPeriod, ledgers, history
<1>8. CASE UNCHANGED vars
  BY <1>1, <1>8, ClockKeeps DEF vars
<1>. QED
  BY <1>2, <1>3, <1>4, <1>5, <1>6, <1>7, <1>8 DEF Next

LEMMA IInvInvariant == Spec => []IInv
<1>1. Init => IInv
  BY InitIInv
<1>2. IInv /\ [Next]_vars => IInv'
  BY IInvStep
<1>. QED
  BY <1>1, <1>2, PTL DEF Spec

\* The types of every row of the two ledgers hold in every reachable state: no counter
\* passes its limit or falls below zero, whatever is retried, recovered or crashes.
THEOREM TypesHold == Spec => []TypeOK
<1>1. IInv => TypeOK
  BY DEF IInv
<1>. QED
  BY <1>1, IInvInvariant, PTL

\* The tenant's counters are what its events are charged, as long as no provider call
\* outlives the five minutes after which recoverStaleReservations takes it for dead.
THEOREM BooksBalance == ASSUME ~SlowCalls PROVE Spec => []TenantBooksBalance
<1>1. IInv => TenantBooksBalance
  BY DEF IInv, TenantBooks, BasicBooks, TenantBooksBalance, Costs, BasicUnits
<1>. QED
  BY <1>1, IInvInvariant, PTL

\* The provider is called at most once under an idempotency key: the event of the key is
\* inserted by one job, and no retry, recovery or crash gives it to another.
THEOREM CalledOnce == Spec => []OneCallPerKey
<1>1. IInv => OneCallPerKey
  BY DEF IInv, Reservations
<1>. QED
  BY <1>1, IInvInvariant, PTL

\* The global daily counter is never behind the calls it is there to cap: those under way
\* and those completed, even where a release or a settlement failed or the job died.
THEOREM GlobalCounterCovers == Spec => []GlobalCounterCoversCalls
<1>1. ASSUME IInv PROVE GlobalCounterCoversCalls
  <2>. SUFFICES ASSUME NEW p \in Periods
                PROVE  daily[p].calls >= Cardinality(OfPeriod(paid, p))
                         + Cardinality({j \in Jobs : job[j].pc = "provider" /\ job[j].at = p})
    BY DEF GlobalCounterCoversCalls
  <2>. DEFINE S == {j \in Jobs : job[j].pc = "provider" /\ job[j].at = p}
  <2>1. TypeOK /\ Cardinality(OfPeriod(paid, p)) + Cardinality(Holders(p)) <= daily[p].calls
    BY <1>1 DEF IInv, GlobalBooks
  <2>2. S \in SUBSET Holders(p) /\ Holders(p) \in SUBSET Jobs
    BY DEF Holders, Holds
  <2>3. IsFiniteSet(Holders(p))
    BY <2>2, KeysAreFinite, FS_Subset
  <2>4. /\ Cardinality(S) <= Cardinality(Holders(p))
        /\ Cardinality(S) \in Nat /\ Cardinality(Holders(p)) \in Nat
    BY <2>2, <2>3, FS_Subset, FS_CardinalityType
  <2>5. Cardinality(OfPeriod(paid, p)) \in Nat
    BY <2>1, PaidIsFinite
  <2>6. daily[p].calls \in Nat
    BY <2>1, DailyTypes
  <2>. QED
    BY <2>1, <2>4, <2>5, <2>6
<1>. QED
  BY <1>1, IInvInvariant, PTL

-----------------------------------------------------------------------------
(* The fuses of one process, PaidAiGuard.  They share nothing with the       *)
(* ledgers; their clock is the process's own.                                *)

\* The calls that have taken a slot and not released it.
Slots == {c \in Calls : call[c].pc \in {"admitted", "recorded"}}

\* Where admission is prompt, the guard's window is the latest minute that admitted a
\* call, and its count is what that minute admitted.
Window ==
  Prompt =>
    /\ \A c \in Calls : call[c].pc = "begun" => call[c].at = clock
    /\ guard.minute <= Minute(clock)
    /\ guard.minute # -1 => admitted[guard.minute] = guard.count
    /\ \A m \in Minutes : m > guard.minute => admitted[m] = 0
    /\ RateCap

FusesInv == GuardTypeOK /\ SlotsMatchCalls /\ Window

LEMMA SlotsFinite == IsFiniteSet(Slots)
<1>1. Slots \in SUBSET Calls
  BY DEF Slots
<1>. QED
  BY <1>1, GuardAssumption, FS_Subset

LEMMA MinuteFacts ==
  /\ \A t \in Nat : Minute(t) \in Nat
  /\ \A t \in Nat, u \in Nat : t <= u => Minute(t) <= Minute(u)
  /\ \A t \in Times : t \in Nat /\ Minute(t) \in Minutes
  /\ \A m \in Minutes : m \in Nat
<1>1. ASSUME NEW t \in Nat PROVE Minute(t) \in Nat
  BY GuardAssumption DEF Minute
<1>2. ASSUME NEW t \in Nat, NEW u \in Nat, t <= u PROVE Minute(t) <= Minute(u)
  BY <1>2, GuardAssumption DEF Minute
<1>3. \A t \in Times : t \in Nat /\ t <= MaxTime /\ MaxTime \in Nat
  BY GuardAssumption DEF Times
<1>4. \A t \in Times : t \in Nat /\ Minute(t) \in Minutes
  BY <1>1, <1>2, <1>3 DEF Minutes
<1>. QED
  BY <1>1, <1>2, <1>4 DEF Minutes

LEMMA CallSet ==
  ASSUME GuardTypeOK, NEW c \in Calls, NEW t \in Call,
         call' = [call EXCEPT ![c] = t]
  PROVE  /\ call' \in [Calls -> Call] /\ call'[c] = t
         /\ \A d \in Calls : d # c => call'[d] = call[d]
         /\ t.pc \in {"admitted", "recorded"} => Slots' = Slots \cup {c}
         /\ t.pc \notin {"admitted", "recorded"} => Slots' = Slots \ {c}
<1>1. /\ call' \in [Calls -> Call] /\ call'[c] = t
      /\ \A d \in Calls : d # c => call'[d] = call[d]
  BY DEF GuardTypeOK
<1>. QED
  BY <1>1 DEF Slots

\* A call that goes from having no slot to none, or from having one to one.
LEMMA SlotsCalm ==
  ASSUME GuardTypeOK, SlotsMatchCalls,
         NEW c \in Calls, NEW t \in Call, call' = [call EXCEPT ![c] = t],
         t.pc \in {"admitted", "recorded"} <=> call[c].pc \in {"admitted", "recorded"},
         guard'.inFlight = guard.inFlight
  PROVE  SlotsMatchCalls'
<1>1. c \in Slots <=> t.pc \in {"admitted", "recorded"}
  BY DEF Slots
<1>2. Slots' = Slots
  <2>1. CASE t.pc \in {"admitted", "recorded"}
    <3>1. Slots' = Slots \cup {c}
      BY <2>1, CallSet
    <3>. QED
      BY <1>1, <2>1, <3>1
  <2>2. CASE t.pc \notin {"admitted", "recorded"}
    <3>1. Slots' = Slots \ {c}
      BY <2>2, CallSet
    <3>. QED
      BY <1>1, <2>2, <3>1
  <2>. QED
    BY <2>1, <2>2
<1>. QED
  BY <1>2 DEF SlotsMatchCalls, Slots

\* Steps that leave the window alone.
LEMMA WindowCalm ==
  ASSUME Window, UNCHANGED <<clock, admitted>>,
         guard'.minute = guard.minute, guard'.count = guard.count,
         \A c \in Calls : call'[c].pc = "begun" => call'[c].at = clock \/ call'[c] = call[c]
  PROVE  Window'
  BY DEF Window, RateCap, Minute, Minutes

LEMMA CooledFacts ==
  ASSUME GuardTypeOK
  PROVE  /\ Cooled \in Guard /\ Cooled.inFlight = guard.inFlight
         /\ Cooled.minute = guard.minute /\ Cooled.count = guard.count
<1>1. guard \in Guard
  BY DEF GuardTypeOK
<1>. DEFINE g == [guard EXCEPT !.openUntil = 0, !.halfOpen = TRUE]
<1>2. 0 \in 0..(MaxTime + Cooldown)
  BY GuardAssumption
<1>3. /\ g \in Guard /\ g.inFlight = guard.inFlight
      /\ g.minute = guard.minute /\ g.count = guard.count
  BY <1>1, <1>2 DEF Guard
<1>4. Cooled \in {guard, g}
  BY DEF Cooled
<1>. HIDE DEF g
<1>. QED
  BY <1>1, <1>3, <1>4

\* Steps that neither take nor release a slot.
LEMMA CalmStep ==
  ASSUME FusesInv, NEW c \in Calls, NEW t \in Call,
         call' = [call EXCEPT ![c] = t],
         t.pc \in {"admitted", "recorded"} <=> call[c].pc \in {"admitted", "recorded"},
         t.pc = "begun" => t.at = clock,
         guard' \in Guard, guard'.inFlight = guard.inFlight,
         guard'.minute = guard.minute, guard'.count = guard.count,
         UNCHANGED <<clock, admitted>>, probes' \subseteq Calls
  PROVE  FusesInv'
<1>1. GuardTypeOK /\ SlotsMatchCalls /\ Window
  BY DEF FusesInv
<1>2. /\ call' \in [Calls -> Call] /\ call'[c] = t
      /\ \A d \in Calls : d # c => call'[d] = call[d]
  BY <1>1, CallSet
<1>3. GuardTypeOK'
  BY <1>1, <1>2 DEF GuardTypeOK, Times, Minutes, Minute, Guard, Call
<1>4. SlotsMatchCalls'
  BY <1>1, SlotsCalm
<1>5. \A d \in Calls : call'[d].pc = "begun" => call'[d].at = clock \/ call'[d] = call[d]
  BY <1>2
<1>6. Window'
  BY <1>1, <1>5, WindowCalm
<1>. QED
  BY <1>3, <1>4, <1>6 DEF FusesInv

LEMMA BeginKeeps == ASSUME FusesInv, NEW c \in Calls, Begin(c) PROVE FusesInv'
<1>. DEFINE t == [pc |-> "begun", at |-> clock]
<1>1. GuardTypeOK
  BY DEF FusesInv
<1>2. t \in Call /\ t.pc = "begun" /\ t.at = clock
  BY <1>1 DEF GuardTypeOK, Call
<1>3. /\ call[c].pc = "idle" /\ call' = [call EXCEPT ![c] = t]
      /\ UNCHANGED <<clock, guard, admitted, probes>>
  BY DEF Begin
<1>4. guard' \in Guard /\ probes' \subseteq Calls
  BY <1>1, <1>3 DEF GuardTypeOK
<1>. HIDE DEF t
<1>. QED
  BY <1>2, <1>3, <1>4, CalmStep

LEMMA RefuseKeeps == ASSUME FusesInv, NEW c \in Calls, Refuse(c) PROVE FusesInv'
<1>1. GuardTypeOK /\ guard \in Guard
  BY DEF FusesInv, GuardTypeOK
<1>2. NotRunning \in Call /\ NotRunning.pc = "idle"
  BY GuardAssumption DEF NotRunning, Call, Times
<1>3. /\ call[c].pc = "begun" /\ call' = [call EXCEPT ![c] = NotRunning]
      /\ guard' \in {guard, Cooled}
      /\ UNCHANGED <<clock, admitted, probes>>
  BY DEF Refuse
<1>4. /\ guard' \in Guard /\ guard'.inFlight = guard.inFlight
      /\ guard'.minute = guard.minute /\ guard'.count = guard.count
  <2>1. /\ Cooled \in Guard /\ Cooled.inFlight = guard.inFlight
        /\ Cooled.minute = guard.minute /\ Cooled.count = guard.count
    BY <1>1, CooledFacts
  <2>. QED
    BY <1>1, <1>3, <2>1
<1>5. probes' \subseteq Calls
  BY <1>1, <1>3 DEF GuardTypeOK
<1>6. /\ NotRunning.pc = "begun" => NotRunning.at = clock
      /\ NotRunning.pc \in {"admitted", "recorded"} <=> call[c].pc \in {"admitted", "recorded"}
  BY <1>2, <1>3
<1>. QED
  BY <1>2, <1>3, <1>4, <1>5, <1>6, CalmStep

\* The outcome is recorded, whichever it is.
LEMMA RecordKeeps ==
  ASSUME FusesInv, NEW c \in Calls,
         RecordSuccess(c) \/ RecordFailure(c) \/ RecordNothing(c)
  PROVE  FusesInv'
<1>. DEFINE t == [call[c] EXCEPT !.pc = "recorded"]
<1>1. GuardTypeOK /\ guard \in Guard /\ call[c] \in Call
  BY DEF FusesInv, GuardTypeOK
<1>2. t \in Call /\ t.pc = "recorded"
  BY <1>1 DEF Call
<1>3. /\ call[c].pc = "admitted" /\ call' = [call EXCEPT ![c] = t]
      /\ UNCHANGED <<clock, admitted>> /\ probes' = probes \ {c}
  BY DEF RecordSuccess, RecordFailure, RecordNothing
<1>4. call[c].at \in Nat /\ call[c].at <= MaxTime
  BY <1>1, MinuteFacts, GuardAssumption DEF Call, Times
<1>5. /\ guard' \in Guard /\ guard'.inFlight = guard.inFlight
      /\ guard'.minute = guard.minute /\ guard'.count = guard.count
  <2>1. ASSUME NEW f \in 0..(FailureThreshold - 1), NEW o \in 0..(MaxTime + Cooldown),
               guard' = [guard EXCEPT !.failures = f, !.halfOpen = FALSE, !.openUntil = o]
        PROVE  /\ guard' \in Guard /\ guard'.inFlight = guard.inFlight
               /\ guard'.minute = guard.minute /\ guard'.count = guard.count
    BY <1>1, <2>1 DEF Guard
  <2>2. CASE RecordNothing(c)
    BY <1>1, <2>2 DEF RecordNothing
  <2>3. CASE RecordSuccess(c)
    <3>1. 0 \in 0..(FailureThreshold - 1) /\ 0 \in 0..(MaxTime + Cooldown)
      BY GuardAssumption
    <3>2. guard' = [guard EXCEPT !.failures = 0, !.halfOpen = FALSE, !.openUntil = 0]
      BY <2>3 DEF RecordSuccess
    <3>. QED
      BY <2>1, <3>1, <3>2
  <2>4. CASE RecordFailure(c)
    <3>. DEFINE trips == guard.halfOpen \/ guard.failures + 1 >= FailureThreshold
                f == IF trips THEN 0 ELSE guard.failures + 1
                o == IF trips THEN call[c].at + Cooldown ELSE guard.openUntil
    <3>1. f \in 0..(FailureThreshold - 1)
      BY <1>1, GuardAssumption DEF Guard
    <3>2. o \in 0..(MaxTime + Cooldown)
      BY <1>1, <1>4, GuardAssumption DEF Guard
    <3>3. guard' = [guard EXCEPT !.failures = f, !.halfOpen = FALSE, !.openUntil = o]
      BY <1>1, <2>4 DEF RecordFailure, Failed, Guard
    <3>. HIDE DEF f, o
    <3>. QED
      BY <2>1, <3>1, <3>2, <3>3
  <2>. QED
    BY <2>2, <2>3, <2>4
<1>6. probes' \subseteq Calls
  BY <1>1, <1>3 DEF GuardTypeOK
<1>. HIDE DEF t
<1>. QED
  BY <1>2, <1>3, <1>5, <1>6, CalmStep

LEMMA ReleaseKeeps == ASSUME FusesInv, NEW c \in Calls, Release(c) PROVE FusesInv'
<1>. DEFINE n == IF guard.inFlight > 0 THEN guard.inFlight - 1 ELSE 0
<1>1. GuardTypeOK /\ SlotsMatchCalls /\ Window /\ guard \in Guard
  BY DEF FusesInv, GuardTypeOK
<1>2. NotRunning \in Call /\ NotRunning.pc = "idle"
  BY GuardAssumption DEF NotRunning, Call, Times
<1>3. /\ call[c].pc = "recorded" /\ call' = [call EXCEPT ![c] = NotRunning]
      /\ guard' = [guard EXCEPT !.inFlight = n] /\ UNCHANGED <<clock, admitted, probes>>
  BY DEF Release
<1>4. guard.inFlight \in 0..MaxConcurrency /\ n \in 0..MaxConcurrency /\ MaxConcurrency \in Nat
  BY <1>1, GuardAssumption DEF Guard
<1>. HIDE DEF n
<1>5. /\ guard' \in Guard /\ guard'.inFlight = n
      /\ guard'.minute = guard.minute /\ guard'.count = guard.count
  BY <1>1, <1>3, <1>4 DEF Guard
<1>6. /\ call' \in [Calls -> Call] /\ call'[c] = NotRunning
      /\ \A d \in Calls : d # c => call'[d] = call[d]
      /\ Slots' = Slots \ {c}
  BY <1>1, <1>2, <1>3, CallSet
<1>7. c \in Slots
  BY <1>3 DEF Slots
<1>8. IsFiniteSet(Slots) /\ guard.inFlight = Cardinality(Slots)
  BY <1>1, SlotsFinite DEF SlotsMatchCalls, Slots
<1>9. Cardinality(Slots) = Cardinality(Slots \ {c}) + 1 /\ Cardinality(Slots \ {c}) \in Nat
  BY <1>7, <1>8, Counting
<1>10. guard'.inFlight = Cardinality(Slots')
  BY <1>5, <1>6, <1>8, <1>9 DEF n
<1>11. SlotsMatchCalls'
  BY <1>10 DEF SlotsMatchCalls, Slots
<1>12. \A d \in Calls : call'[d].pc = "begun" => call'[d].at = clock \/ call'[d] = call[d]
  BY <1>2, <1>6
<1>13. Window'
  BY <1>1, <1>3, <1>5, <1>12, WindowCalm
<1>14. GuardTypeOK'
  BY <1>1, <1>3, <1>5, <1>6 DEF GuardTypeOK, Times, Minutes, Minute, Guard, Call
<1>. QED
  BY <1>11, <1>13, <1>14 DEF FusesInv

LEMMA AdmitKeeps == ASSUME FusesInv, NEW c \in Calls, Admit(c) PROVE FusesInv'
<1>. DEFINE at == call[c].at
            m == Minute(at)
            n == CountIn(at) + 1
            f == guard.inFlight + 1
            g == Cooled
            t == [call[c] EXCEPT !.pc = "admitted"]
            o == Minute(clock)
<1>1. GuardTypeOK /\ SlotsMatchCalls /\ Window /\ guard \in Guard /\ call[c] \in Call
  BY DEF FusesInv, GuardTypeOK
<1>2. /\ call[c].pc = "begun" /\ call' = [call EXCEPT ![c] = t] /\ clock' = clock
      /\ admitted' = [admitted EXCEPT ![o] = @ + 1] /\ probes' \subseteq probes \cup {c}
      /\ n <= RpmLimit /\ guard.inFlight < MaxConcurrency
  BY DEF Admit, Admits
<1>3. /\ g \in Guard /\ g.inFlight = guard.inFlight
      /\ g.minute = guard.minute /\ g.count = guard.count
  BY <1>1, CooledFacts
<1>4. guard' = [g EXCEPT !.minute = m, !.count = n, !.inFlight = f]
  BY <1>3 DEF Admit
<1>5. at \in Times /\ clock \in Times
  BY <1>1 DEF Call, GuardTypeOK
<1>6. m \in Minutes /\ m \in Nat /\ o \in Minutes /\ o \in Nat
  BY <1>5, MinuteFacts
<1>7. guard.count \in 0..RpmLimit /\ guard.inFlight \in 0..MaxConcurrency
      /\ RpmLimit \in Nat /\ MaxConcurrency \in Nat
  BY <1>1, GuardAssumption DEF Guard
<1>8. n \in 0..RpmLimit /\ f \in 0..MaxConcurrency
  BY <1>2, <1>7 DEF CountIn
<1>9. t \in Call /\ t.pc = "admitted"
  BY <1>1 DEF Call
<1>10. n = IF m = guard.minute THEN guard.count + 1 ELSE 1
  BY <1>7 DEF CountIn
<1>11. Prompt => m = o
  BY <1>1, <1>2 DEF Window
<1>. HIDE DEF m, n, f, g, t, o
<1>12. guard' \in Guard /\ guard'.minute = m /\ guard'.count = n /\ guard'.inFlight = f
  BY <1>3, <1>4, <1>6, <1>8 DEF Guard
<1>13. /\ call' \in [Calls -> Call] /\ call'[c] = t
       /\ \A d \in Calls : d # c => call'[d] = call[d]
       /\ Slots' = Slots \cup {c}
  BY <1>1, <1>2, <1>9, CallSet
<1>14. SlotsMatchCalls'
  <2>1. c \notin Slots
    BY <1>2 DEF Slots
  <2>2. IsFiniteSet(Slots) /\ guard.inFlight = Cardinality(Slots)
    BY <1>1, SlotsFinite DEF SlotsMatchCalls, Slots
  <2>3. Cardinality(Slots \cup {c}) = Cardinality(Slots) + 1
    BY <2>1, <2>2, Counting
  <2>4. guard'.inFlight = Cardinality(Slots')
    BY <1>12, <1>13, <2>2, <2>3 DEF f
  <2>. QED
    BY <2>4 DEF SlotsMatchCalls, Slots
<1>15. /\ admitted \in [Minutes -> Nat] /\ admitted' \in [Minutes -> Nat]
       /\ admitted'[o] = admitted[o] + 1
       /\ \A i \in Minutes : i # o => admitted'[i] = admitted[i]
  BY <1>1, <1>2, <1>6 DEF GuardTypeOK
<1>16. GuardTypeOK'
  <2>1. clock' \in Times /\ probes' \subseteq Calls
    BY <1>1, <1>2 DEF GuardTypeOK
  <2>. QED
    BY <1>12, <1>13, <1>15, <2>1
    DEF GuardTypeOK, Times, Minutes, Minute, Guard, Call
<1>17. Window'
  <2>. SUFFICES ASSUME Prompt
                PROVE  /\ \A d \in Calls : call'[d].pc = "begun" => call'[d].at = clock
                       /\ guard'.minute <= o
                       /\ admitted'[guard'.minute] = guard'.count
                       /\ \A i \in Minutes : i > guard'.minute => admitted'[i] = 0
                       /\ \A i \in Minutes : admitted'[i] <= RpmLimit
    BY <1>2 DEF Window, RateCap, Minutes, Minute, o
  <2>1. /\ \A d \in Calls : call[d].pc = "begun" => call[d].at = clock
        /\ guard.minute <= o
        /\ guard.minute # -1 => admitted[guard.minute] = guard.count
        /\ \A i \in Minutes : i > guard.minute => admitted[i] = 0
        /\ \A i \in Minutes : admitted[i] <= RpmLimit
    BY <1>1 DEF Window, RateCap, o
  <2>2. guard.minute \in Int /\ (guard.minute = -1 \/ guard.minute \in Minutes)
    BY <1>1, MinuteFacts DEF Guard
  <2>3. admitted'[o] = n
    <3>1. CASE guard.minute = o
      <4>1. admitted[o] = guard.count
        BY <1>6, <2>1, <3>1
      <4>. QED
        BY <1>10, <1>11, <1>15, <3>1, <4>1
    <3>2. CASE guard.minute # o
      <4>1. o > guard.minute
        BY <1>6, <2>1, <2>2, <3>2
      <4>2. admitted[o] = 0
        BY <1>6, <2>1, <4>1
      <4>. QED
        BY <1>10, <1>11, <1>15, <3>2, <4>2
    <3>. QED
      BY <3>1, <3>2
  <2>4. \A d \in Calls : call'[d].pc = "begun" => call'[d].at = clock
    BY <1>9, <1>13, <2>1
  <2>5. \A i \in Minutes : i > o => admitted'[i] = 0
    <3>. SUFFICES ASSUME NEW i \in Minutes, i > o PROVE admitted'[i] = 0
      OBVIOUS
    <3>1. i \in Nat
      BY MinuteFacts
    <3>2. i # o /\ i > guard.minute
      BY <1>6, <2>1, <2>2, <3>1
    <3>. QED
      BY <1>15, <2>1, <3>2
  <2>6. \A i \in Minutes : admitted'[i] <= RpmLimit
    BY <1>8, <1>7, <1>15, <2>1, <2>3
  <2>7. guard'.minute = o /\ guard'.count = n
    BY <1>11, <1>12
  <2>8. guard'.minute <= o
    BY <1>6, <2>7
  <2>. QED
    BY <2>3, <2>4, <2>5, <2>6, <2>7, <2>8
<1>. QED
  BY <1>14, <1>16, <1>17 DEF FusesInv

LEMMA TickKeeps == ASSUME FusesInv, Tick PROVE FusesInv'
<1>1. GuardTypeOK /\ SlotsMatchCalls /\ Window
  BY DEF FusesInv
<1>2. /\ clock < MaxTime /\ clock' = clock + 1 /\ UNCHANGED <<guard, call, admitted, probes>>
      /\ Prompt => \A c \in Calls : call[c].pc # "begun"
  BY DEF Tick
<1>3. clock \in Nat /\ clock' \in Times /\ clock' \in Nat /\ clock <= clock'
  BY <1>1, <1>2, GuardAssumption DEF GuardTypeOK, Times
<1>4. GuardTypeOK'
  BY <1>1, <1>2, <1>3 DEF GuardTypeOK, Times, Minutes, Minute, Guard, Call
<1>5. SlotsMatchCalls'
  BY <1>1, <1>2 DEF SlotsMatchCalls
<1>6. /\ Minute(clock) <= Minute(clock')
      /\ Minute(clock) \in Nat /\ Minute(clock') \in Nat
  BY <1>3, MinuteFacts
<1>7. guard.minute \in Int
  BY <1>1, MinuteFacts DEF GuardTypeOK, Guard
<1>8. Window'
  <2>. SUFFICES ASSUME Prompt
                PROVE  /\ \A c \in Calls : call[c].pc = "begun" => call[c].at = clock'
                       /\ guard.minute <= Minute(clock')
                       /\ guard.minute # -1 => admitted[guard.minute] = guard.count
                       /\ \A i \in Minutes : i > guard.minute => admitted[i] = 0
                       /\ \A i \in Minutes : admitted[i] <= RpmLimit
    BY <1>2 DEF Window, RateCap, Minutes, Minute
  <2>1. guard.minute <= Minute(clock)
    BY <1>1 DEF Window
  <2>2. guard.minute <= Minute(clock')
    BY <1>6, <1>7, <2>1
  <2>. QED
    BY <1>1, <1>2, <2>2 DEF Window, RateCap
<1>. QED
  BY <1>4, <1>5, <1>8 DEF FusesInv

LEMMA FusesInit == ASSUME GuardInit PROVE FusesInv
<1>1. GuardTypeOK
  <2>1. /\ 0 \in Times /\ 0 \in 0..RpmLimit /\ 0 \in 0..MaxConcurrency
        /\ 0 \in 0..(FailureThreshold - 1) /\ 0 \in 0..(MaxTime + Cooldown)
    BY GuardAssumption DEF Times
  <2>2. guard \in Guard
    BY <2>1 DEF GuardInit, Guard
  <2>3. call \in [Calls -> Call]
    BY <2>1 DEF GuardInit, Call, NotRunning
  <2>. QED
    BY <2>1, <2>2, <2>3 DEF GuardInit, GuardTypeOK
<1>2. \A c \in Calls : call[c].pc = "idle"
  BY DEF GuardInit, NotRunning
<1>3. SlotsMatchCalls
  <2>1. Slots = {}
    BY <1>2 DEF Slots
  <2>2. guard.inFlight = 0
    BY DEF GuardInit
  <2>3. guard.inFlight = Cardinality(Slots)
    BY <2>1, <2>2, FS_EmptySet
  <2>. QED
    BY <2>3 DEF SlotsMatchCalls, Slots
<1>4. Window
  <2>1. guard.minute = -1 /\ clock = 0 /\ \A m \in Minutes : admitted[m] = 0
    BY DEF GuardInit
  <2>2. Minute(clock) \in Nat /\ RpmLimit \in Nat
    BY <2>1, MinuteFacts, GuardAssumption
  <2>. QED
    BY <1>2, <2>1, <2>2 DEF Window, RateCap
<1>. QED
  BY <1>1, <1>3, <1>4 DEF FusesInv

LEMMA FusesStep == ASSUME FusesInv, [GuardNext]_guardVars PROVE FusesInv'
<1>1. ASSUME NEW c \in Calls, Begin(c) PROVE FusesInv'
  BY <1>1, BeginKeeps
<1>2. ASSUME NEW c \in Calls, Admit(c) PROVE FusesInv'
  BY <1>2, AdmitKeeps
<1>3. ASSUME NEW c \in Calls, Refuse(c) PROVE FusesInv'
  BY <1>3, RefuseKeeps
<1>4. ASSUME NEW c \in Calls, Release(c) PROVE FusesInv'
  BY <1>4, ReleaseKeeps
<1>5. ASSUME NEW c \in Calls, RecordSuccess(c) \/ RecordFailure(c) \/ RecordNothing(c)
      PROVE  FusesInv'
  BY <1>5, RecordKeeps
<1>6. CASE Tick
  BY <1>6, TickKeeps
<1>7. CASE UNCHANGED guardVars
  BY <1>7 DEF FusesInv, Window, guardVars, GuardTypeOK, SlotsMatchCalls, RateCap,
              Times, Minutes, Minute, Guard, Call
<1>. QED
  BY <1>1, <1>2, <1>3, <1>4, <1>5, <1>6, <1>7 DEF GuardNext

LEMMA FusesInvariant == GuardSpec => []FusesInv
<1>1. GuardInit => FusesInv
  BY FusesInit
<1>2. FusesInv /\ [GuardNext]_guardVars => FusesInv'
  BY FusesStep
<1>. QED
  BY <1>1, <1>2, PTL DEF GuardSpec

\* Every slot taken in tryAcquire belongs to a call that has not reached its finally block:
\* no slot leaks, and release, which stops at zero, never gives back another call's.
THEOREM SlotsKept == GuardSpec => []SlotsMatchCalls
<1>1. FusesInv => SlotsMatchCalls
  BY DEF FusesInv
<1>. QED
  BY <1>1, FusesInvariant, PTL

\* The requests per minute stay within the fuse, where tryAcquire is reached in the tick
\* in which the clock was read.
THEOREM RateIsCapped == ASSUME Prompt PROVE GuardSpec => []RateCap
<1>1. FusesInv => RateCap
  BY DEF FusesInv, Window
<1>. QED
  BY <1>1, FusesInvariant, PTL
=============================================================================
