---------------------------- MODULE MeteredClassify ----------------------------
(***************************************************************************)
(* classifyWithUsagePolicy and the two ledgers behind it: the tenant's      *)
(* usage_periods and usage_events, and the global daily counter.  A job     *)
(* looks in the cache, consumes a basic unit, reserves a paid call first    *)
(* globally and then for the tenant, calls the provider and settles both.   *)
(* A transaction that reads an event and then writes is two steps: under    *)
(* READ COMMITTED another may commit between its read and its first write,  *)
(* and from then on it holds the period's row lock.                         *)
(*                                                                          *)
(* One clock of periods stands for the tenant's months and the global days: *)
(* a job keeps the `now' it started with, and so pays back where it paid.   *)
(***************************************************************************)
EXTENDS Naturals, FiniteSets

CONSTANTS
  Jobs,             \* the processes that classify
  Refresh,          \* the jobs that are an operator's re-analysis, with keys of their own
  Contents,         \* content-version hashes
  MaxPeriod,        \* how many periods the clock goes through
  BasicLimit,       \* basicUnitsPerPeriod
  CallLimit,        \* premiumCallsPerPeriod
  CostLimit,        \* premiumCostLimitMicros
  GlobalCallLimit, GlobalCostLimit,
  Est,              \* estimateCostMicros
  Actuals,          \* what actualCostMicros can be
  SlowCalls,        \* whether a call can outlive the reservation's five minutes
  MaxFaults         \* how many crashes and database errors there are at most

ASSUME JobsAssumption ==
  /\ Refresh \subseteq Jobs /\ Refresh \cap Contents = {} /\ Contents # {}
  /\ IsFiniteSet(Jobs) /\ IsFiniteSet(Contents)
ASSUME LimitsAssumption ==
  /\ BasicLimit \in Nat /\ CallLimit \in Nat /\ CostLimit \in Nat
  /\ GlobalCallLimit \in Nat /\ GlobalCostLimit \in Nat
\* The input is cut and the output capped below what the estimate assumes.
ASSUME CostAssumption == Est \in Nat /\ Actuals \subseteq 0..Est
ASSUME ModesAssumption ==
  /\ MaxPeriod \in Nat \ {0} /\ SlowCalls \in BOOLEAN /\ MaxFaults \in Nat

VARIABLES
  now,      \* the current period
  usage,    \* usage_periods
  daily,    \* global_ai_usage_periods
  basic,    \* the usage_events of the keys `basic:...', their status
  event,    \* the usage_events of the keys `prem:...'; `cost' is what it is charged
  cache,    \* ai_result_cache
  job,      \* per job: its local state
  stale,    \* the events a running recoverStaleReservations has read
  faults,   \* how many crashes and database errors there were
  called,   \* history: how often the provider was called under a key
  paid      \* history: the keys whose call the provider completed

vars == <<now, usage, daily, basic, event, cache, job, stale, faults, called, paid>>
ledgers == <<usage, daily, basic, event, cache>>
history == <<called, paid>>

-----------------------------------------------------------------------------
Periods == 1..MaxPeriod
Keys == Contents \cup Refresh
Charged == {"reserved", "succeeded"}

Pcs == {"idle", "basic", "basic_tx", "paid", "tenant", "tenant_tx", "provider", "settle",
        "settle_tx", "settle_global", "put"}
JobState == [pc : Pcs, content : Contents, at : Periods, out : {"none", "ok", "unpaid"}, cost : 0..Est]

UsagePeriod == [basic : 0..BasicLimit, calls : 0..CallLimit, cost : 0..CostLimit]
GlobalPeriod == [calls : 0..GlobalCallLimit, cost : 0..GlobalCostLimit]
UsageEvent == [status : {"none", "denied", "released"} \cup Charged, period : Periods, cost : 0..Est]

TypeOK ==
  /\ now \in Periods
  /\ usage \in [Periods -> UsagePeriod]
  /\ daily \in [Periods -> GlobalPeriod]
  /\ basic \in [Keys -> {"none", "succeeded", "denied"}]
  /\ event \in [Keys -> UsageEvent]
  /\ cache \subseteq Contents
  /\ job \in [Jobs -> JobState]
  /\ stale \subseteq Keys
  /\ faults \in 0..MaxFaults
  /\ called \in [Keys -> Nat]
  /\ paid \subseteq Keys

Idle == [pc |-> "idle", content |-> CHOOSE c \in Contents : TRUE, at |-> 1,
         out |-> "none", cost |-> 0]

Init ==
  /\ now = 1
  /\ usage = [p \in Periods |-> [basic |-> 0, calls |-> 0, cost |-> 0]]
  /\ daily = [p \in Periods |-> [calls |-> 0, cost |-> 0]]
  /\ basic = [k \in Keys |-> "none"]
  /\ event = [k \in Keys |-> [status |-> "none", period |-> 1, cost |-> 0]]
  /\ cache = {}
  /\ job = [j \in Jobs |-> Idle]
  /\ stale = {}
  /\ faults = 0
  /\ called = [k \in Keys |-> 0]
  /\ paid = {}

\* The idempotency key of a job's events: its content's, or its own.
Key(j) == IF j \in Refresh THEN j ELSE job[j].content

\* GREATEST(a - b, 0).
Minus(a, b) == IF a >= b THEN a - b ELSE 0

\* The job goes on to `pc', or ends.
Goto(j, pc) == job' = [job EXCEPT ![j].pc = pc]
End(j) == job' = [job EXCEPT ![j] = Idle]

-----------------------------------------------------------------------------
(* The cache and the basic unit.                                           *)

\* The content is in the cache: recordCacheHit leaves an event of no units, which
\* is not kept here.
HitCache(j, c) ==
  /\ job[j].pc = "idle"
  /\ j \notin Refresh /\ c \in cache
  /\ UNCHANGED vars

\* The job begins and does not find its content in the cache.
LookUp(j, c) ==
  /\ job[j].pc = "idle"
  /\ j \in Refresh \/ c \notin cache
  /\ job' = [job EXCEPT ![j].pc = "basic", ![j].content = c, ![j].at = now]
  /\ UNCHANGED <<now, ledgers, stale, faults, history>>

\* consumeBasicUnit, its read: a known key consumes nothing.
ReadBasic(j) ==
  /\ job[j].pc = "basic"
  /\ Goto(j, IF basic[Key(j)] = "none" THEN "basic_tx" ELSE "paid")
  /\ UNCHANGED <<now, ledgers, stale, faults, history>>

\* consumeBasicUnit, its writes.  If another job used the key meanwhile, the
\* unique index throws: the increment is rolled back and the job ends.
ConsumeBasic(j) ==
  LET p == job[j].at
      fits == usage[p].basic < BasicLimit
  IN  /\ job[j].pc = "basic_tx"
      /\ \/ /\ basic[Key(j)] # "none"
            /\ End(j)
            /\ UNCHANGED <<usage, basic>>
         \/ /\ basic[Key(j)] = "none"
            /\ Goto(j, "paid")
            /\ basic' = [basic EXCEPT ![Key(j)] = IF fits THEN "succeeded" ELSE "denied"]
            /\ usage' = IF fits THEN [usage EXCEPT ![p].basic = @ + 1] ELSE usage
      /\ UNCHANGED <<now, daily, event, cache, stale, faults, history>>

-----------------------------------------------------------------------------
(* The reservations.                                                       *)

\* Rules stand: the plan, the allowlist or a fuse of the instance says no.
StayOnRules(j) ==
  /\ job[j].pc = "paid"
  /\ End(j)
  /\ UNCHANGED <<now, ledgers, stale, faults, history>>

FitsGlobal(d) == d.calls + 1 <= GlobalCallLimit /\ d.cost + Est <= GlobalCostLimit

\* reserveGlobalDailyCall.
ReserveGlobal(j) ==
  LET p == job[j].at
  IN  /\ job[j].pc = "paid"
      /\ IF FitsGlobal(daily[p])
         THEN /\ daily' = [daily EXCEPT ![p].calls = @ + 1, ![p].cost = @ + Est]
              /\ Goto(j, "tenant")
         ELSE End(j) /\ UNCHANGED daily
      /\ UNCHANGED <<now, usage, basic, event, cache, stale, faults, history>>

\* No reservation of this job's own (the key has an event already, or the limit
\* is reached): the global one is given back.
NotOurs(j) == job' = [job EXCEPT ![j].pc = "settle_global", ![j].out = "unpaid"]

\* reserveOnce, its read.
ReadReservation(j) ==
  /\ job[j].pc = "tenant"
  /\ IF event[Key(j)].status = "none" THEN Goto(j, "tenant_tx") ELSE NotOurs(j)
  /\ UNCHANGED <<now, ledgers, stale, faults, history>>

\* Mutant: the limit is compared before the increment.
FitsTenantBefore(u) == u.calls <= CallLimit /\ u.cost <= CostLimit

FitsTenant(u) == u.calls + 1 <= CallLimit /\ u.cost + Est <= CostLimit

\* Mutant: the unique index is missing.
ReserveTenantAgain(j) ==
  LET p == job[j].at
  IN  /\ job[j].pc = "tenant_tx"
      /\ FitsTenant(usage[p])
      /\ usage' = [usage EXCEPT ![p].calls = @ + 1, ![p].cost = @ + Est]
      /\ event' = [event EXCEPT ![Key(j)] = [status |-> "reserved", period |-> p, cost |-> Est]]
      /\ Goto(j, "provider")
      /\ UNCHANGED <<now, daily, basic, cache, stale, faults, history>>

\* reserveOnce, its writes: reserved or denied; or, after the unique index threw,
\* reservePremiumCall's second look at the event.
ReserveTenant(j) ==
  LET p == job[j].at
  IN  /\ job[j].pc = "tenant_tx"
      /\ \/ /\ event[Key(j)].status # "none"
            /\ NotOurs(j)
            /\ UNCHANGED <<usage, event>>
         \/ /\ event[Key(j)].status = "none" /\ FitsTenant(usage[p])
            /\ usage' = [usage EXCEPT ![p].calls = @ + 1, ![p].cost = @ + Est]
            /\ event' = [event EXCEPT ![Key(j)] = [status |-> "reserved", period |-> p, cost |-> Est]]
            /\ Goto(j, "provider")
         \/ /\ event[Key(j)].status = "none" /\ ~FitsTenant(usage[p])
            /\ event' = [event EXCEPT ![Key(j)] = [status |-> "denied", period |-> p, cost |-> 0]]
            /\ NotOurs(j)
            /\ UNCHANGED usage
      /\ UNCHANGED <<now, daily, basic, cache, stale, faults, history>>

-----------------------------------------------------------------------------
(* The provider and the settlement.                                        *)

\* callProviderWithRetry: a completed call and its cost, a failed one or one
\* that timed out, or the value gate did not fire and there was none.
Provider(j) ==
  /\ job[j].pc = "provider"
  /\ \/ \E a \in Actuals :
          /\ job' = [job EXCEPT ![j].pc = "settle", ![j].out = "ok", ![j].cost = a]
          /\ called' = [called EXCEPT ![Key(j)] = @ + 1]
          /\ paid' = paid \cup {Key(j)}
     \/ /\ job' = [job EXCEPT ![j].pc = "settle", ![j].out = "unpaid"]
        /\ called' \in {called, [called EXCEPT ![Key(j)] = @ + 1]}
        /\ UNCHANGED paid
  /\ UNCHANGED <<now, ledgers, stale, faults>>

\* finalizePremiumCall, its read: an event that is not reserved is left alone.
ReadSettle(j) ==
  /\ job[j].pc = "settle"
  /\ Goto(j, IF event[Key(j)].status = "reserved" THEN "settle_tx" ELSE "settle_global")
  /\ UNCHANGED <<now, ledgers, stale, faults, history>>

\* Mutant: the cost is released, the call is not.
SettleTenantCost(j) ==
  LET k == Key(j)  p == event[k].period
  IN  /\ job[j].pc = "settle_tx"
      /\ Goto(j, "settle_global")
      /\ usage' = [usage EXCEPT ![p].cost = Minus(@ + job[j].cost, Est)]
      /\ event' = [event EXCEPT ![k].status = IF job[j].out = "ok" THEN "succeeded" ELSE "released",
                                ![k].cost = job[j].cost]
      /\ UNCHANGED <<now, daily, basic, cache, stale, faults, history>>

\* finalizePremiumCall, its writes, by the event's id alone: the period is
\* corrected to the actual cost, or refunded.
SettleTenant(j) ==
  LET k == Key(j)  p == event[k].period
  IN  /\ job[j].pc = "settle_tx"
      /\ Goto(j, "settle_global")
      /\ \/ /\ job[j].out = "ok"
            /\ usage' = [usage EXCEPT ![p].cost = Minus(@ + job[j].cost, Est)]
            /\ event' = [event EXCEPT ![k].status = "succeeded", ![k].cost = job[j].cost]
         \/ /\ job[j].out = "unpaid"
            /\ usage' = [usage EXCEPT ![p].calls = Minus(@, 1), ![p].cost = Minus(@, Est)]
            /\ event' = [event EXCEPT ![k].status = "released", ![k].cost = 0]
      /\ UNCHANGED <<now, daily, basic, cache, stale, faults, history>>

\* Mutant: the global reservation is released after a completed call too.
SettleGlobalReleased(j) ==
  LET p == job[j].at
  IN  /\ job[j].pc = "settle_global"
      /\ daily' = [daily EXCEPT ![p].calls = Minus(@, 1), ![p].cost = Minus(@, Est)]
      /\ IF job[j].out = "ok" THEN Goto(j, "put") ELSE End(j)
      /\ UNCHANGED <<now, usage, basic, event, cache, stale, faults, history>>

\* finalizeGlobalDailyCall or releaseGlobalDailyCall.
SettleGlobal(j) ==
  LET p == job[j].at
  IN  /\ job[j].pc = "settle_global"
      /\ \/ /\ job[j].out = "ok"
            /\ daily' = [daily EXCEPT ![p].cost = Minus(@ + job[j].cost, Est)]
            /\ Goto(j, "put")
         \/ /\ job[j].out = "unpaid"
            /\ daily' = [daily EXCEPT ![p].calls = Minus(@, 1), ![p].cost = Minus(@, Est)]
            /\ End(j)
      /\ UNCHANGED <<now, usage, basic, event, cache, stale, faults, history>>

\* cachePut.
PutCache(j) ==
  /\ job[j].pc = "put"
  /\ cache' = cache \cup {job[j].content}
  /\ End(j)
  /\ UNCHANGED <<now, usage, daily, basic, event, stale, faults, history>>

-----------------------------------------------------------------------------
(* recoverStaleReservations.                                               *)

\* The reservations whose five minutes are over: those of jobs that died, or, if
\* calls can be slow, any.
RecoverRead ==
  /\ stale = {}
  /\ stale' \in (SUBSET {k \in Keys :
                   /\ event[k].status = "reserved"
                   /\ SlowCalls \/ \A j \in Jobs : job[j].pc = "idle" \/ Key(j) # k}) \ {{}}
  /\ UNCHANGED <<now, ledgers, job, faults, history>>

\* Every event read is refunded and released, by its id alone.
RecoverWrite ==
  LET of(p) == {k \in stale : event[k].period = p}
  IN  /\ stale # {}
      /\ usage' = [p \in Periods |->
                     [usage[p] EXCEPT !.calls = Minus(@, Cardinality(of(p))),
                                      !.cost = Minus(@, Est * Cardinality(of(p)))]]
      /\ event' = [k \in Keys |->
                     IF k \in stale THEN [event[k] EXCEPT !.status = "released", !.cost = 0]
                     ELSE event[k]]
      /\ stale' = {}
      /\ UNCHANGED <<now, daily, basic, cache, job, faults, history>>

-----------------------------------------------------------------------------
(* Faults and time.                                                        *)

Faulty == faults < MaxFaults /\ faults' = faults + 1

Crash(j) ==
  /\ Faulty /\ job[j].pc # "idle"
  /\ End(j)
  /\ UNCHANGED <<now, ledgers, stale, history>>

\* A statement fails: the job ends with the exception, falls back to rules, or
\* (bestEffort) goes on without it.
DatabaseError(j) ==
  /\ Faulty
  /\ \/ job[j].pc \in {"basic", "basic_tx", "paid", "put"} /\ End(j)
     \/ job[j].pc \in {"tenant", "tenant_tx"} /\ NotOurs(j)
     \/ job[j].pc \in {"settle", "settle_tx"} /\ Goto(j, "settle_global")
     \/ job[j].pc = "settle_global" /\ (IF job[j].out = "ok" THEN Goto(j, "put") ELSE End(j))
  /\ UNCHANGED <<now, ledgers, stale, history>>

NextPeriod ==
  /\ now < MaxPeriod
  /\ now' = now + 1
  /\ UNCHANGED <<ledgers, job, stale, faults, history>>

-----------------------------------------------------------------------------
JobStep(j) ==
  \/ ReadBasic(j) \/ ConsumeBasic(j) \/ StayOnRules(j) \/ ReserveGlobal(j)
  \/ ReadReservation(j) \/ ReserveTenant(j) \/ Provider(j) \/ ReadSettle(j) \/ SettleTenant(j)
  \/ SettleGlobal(j) \/ PutCache(j)

Next ==
  \/ \E j \in Jobs : JobStep(j) \/ Crash(j) \/ DatabaseError(j)
  \/ \E j \in Jobs, c \in Contents : HitCache(j, c) \/ LookUp(j, c)
  \/ RecoverRead \/ RecoverWrite \/ NextPeriod

Spec == Init /\ [][Next]_vars

-----------------------------------------------------------------------------
OfPeriod(S, p) == {k \in S : event[k].period = p}
ChargedKeys == {k \in Keys : event[k].status \in Charged}

\* One element for each unit that c gives to a member of S: as many as c sums to over S.
Units(S, c) == UNION {{k} \X (1..c[k]) : k \in S}

\* The tenant's period counters are exactly what its usage events are charged:
\* no interleaving of jobs, retries, crashes and failed statements loses a refund
\* or charges a key twice.  Every basic unit is one content version processed for
\* the first time, whichever period it fell in.
TenantBooksBalance ==
  /\ \A p \in Periods :
       /\ usage[p].calls = Cardinality(OfPeriod(ChargedKeys, p))
       /\ usage[p].cost = Cardinality(Units(OfPeriod(ChargedKeys, p), [k \in Keys |-> event[k].cost]))
  /\ Cardinality(Units(Periods, [p \in Periods |-> usage[p].basic]))
       = Cardinality({k \in Keys : basic[k] = "succeeded"})

\* "a retry [is] a no-op - never a double charge": the provider is called for a
\* key by one job, once, whatever is retried, recovered or crashes.
OneCallPerKey == \A k \in Keys : called[k] <= 1

\* The global daily counter covers every call that is under way or was completed
\* in its period, although releases and settlements can fail.
GlobalCounterCoversCalls ==
  \A p \in Periods :
    daily[p].calls >= Cardinality(OfPeriod(paid, p))
                      + Cardinality({j \in Jobs : job[j].pc = "provider" /\ job[j].at = p})
=============================================================================
