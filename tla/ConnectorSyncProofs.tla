------------------------- MODULE ConnectorSyncProofs -------------------------
(***************************************************************************)
(* ConnectorSync for every set of invocations: its types, its fencing, and *)
(* that it implements the fenced register.                                 *)
(***************************************************************************)
EXTENDS ConnectorSync, TLAPS

-----------------------------------------------------------------------------
(* The parts the state is made of.                                         *)

LEMMA NewRunType == NewRun \in RunState
BY MaxItemsAssumption DEF NewRun, RunState, RunPc, RunStatus, LeaseHandle, NoHandle

LEMMA EndedType ==
  ASSUME NEW r \in Runs, run[r] \in RunState, NEW pc \in RunPc, NEW status \in RunStatus
  PROVE  /\ Ended(r, pc, status) \in RunState
         /\ Ended(r, pc, status).handle = run[r].handle
         /\ Ended(r, pc, status).pc = pc
BY MaxItemsAssumption DEF Ended, RunState

LEMMA RunFields ==
  ASSUME NEW s \in RunState
  PROVE  /\ s.pc \in RunPc /\ s.handle \in LeaseHandle /\ s.todo \in 0..MaxItems
         /\ s.seen \in SUBSET {"ok", "bad"} /\ s.status \in RunStatus /\ s.drops \in Nat
         /\ s.handle.gen \in Nat
BY DEF RunState, LeaseHandle

LEMMA SetRunType ==
  ASSUME run \in [Runs -> RunState], NEW r \in Runs, NEW s \in RunState, SetRun(r, s)
  PROVE  /\ run' \in [Runs -> RunState]
         /\ run'[r] = s
         /\ \A q \in Runs : q # r => run'[q] = run[q]
BY DEF SetRun

LEMMA LeaseTypes ==
  ASSUME NEW row \in LeaseRow, NEW n \in Nat, NEW r \in Runs
  PROVE  /\ NextGeneration(row, n) \in Nat
         /\ NextGeneration(row, n) > n
         /\ AcquiredRow(row, n, r) \in LeaseRow
         /\ AcquiredRow(row, n, r).gen = NextGeneration(row, n)
         /\ AcquiredRow(row, n, r).holder = r
BY LeaseTtlAssumption DEF LeaseRow, NextGeneration, AcquiredRow, Present, Expired

LEMMA LeaseSteps ==
  ASSUME NEW row \in LeaseRow
  PROVE  /\ row.gen \in Nat
         /\ HandleOf(row) \in LeaseHandle
         /\ HandleOf(row).gen = row.gen
         /\ Renewed(row) \in LeaseRow
         /\ Renewed(row).gen = row.gen /\ Renewed(row).holder = row.holder /\ Renewed(row).id = row.id
         /\ NoLease \in LeaseRow /\ NoLease.gen = 0
         /\ ~Expired(row) => Aged(row) \in LeaseRow
         /\ Aged(row).gen = row.gen /\ Aged(row).holder = row.holder /\ Aged(row).id = row.id
BY LeaseTtlAssumption DEF LeaseRow, LeaseHandle, HandleOf, Renewed, Aged, NoLease, Present, Expired

LEMMA AccountSteps ==
  ASSUME NEW a \in AccountRow
  PROVE  /\ a.status \in AccountStatus /\ a.link \in Nat /\ a.legacy \in BOOLEAN
         /\ \A v \in {"healthy", "degraded", "unknown"} :
              /\ [a EXCEPT !.health = v] \in AccountRow
              /\ [a EXCEPT !.health = v].status = a.status
         /\ \A st \in AccountStatus, v \in {"healthy", "degraded", "unknown"} :
              /\ [a EXCEPT !.status = st, !.health = v] \in AccountRow
              /\ [a EXCEPT !.status = st, !.health = v].status = st
         /\ \A n \in Nat :
              /\ [a EXCEPT !.status = "active", !.health = "healthy", !.link = n] \in AccountRow
              /\ [a EXCEPT !.status = "active", !.health = "healthy", !.link = n].status = "active"
         /\ ClearedAccount \in AccountRow /\ ClearedAccount.status = "disconnected"
         /\ ~ClearedAccount.legacy
BY DEF AccountRow, AccountStatus, ClearedAccount

-----------------------------------------------------------------------------
(* What the steps of a run do to the runs.                                 *)

\* From the lease to the finally block: where a run acts on its handle.
Holding == Working \cup {"release"}

\* No run gets a new handle, and none starts to act on the one it has.
KeepsHandles ==
  /\ run' \in [Runs -> RunState]
  /\ \A q \in Runs : /\ run'[q].handle = run[q].handle
                     /\ run'[q].pc \in Holding => /\ run[q].pc \in Holding
                                                  /\ run'[q].drops = run[q].drops

LEMMA SetRunKeeps ==
  ASSUME run \in [Runs -> RunState], NEW r \in Runs, NEW s \in RunState, SetRun(r, s),
         s.handle = run[r].handle,
         s.pc \in Holding => run[r].pc \in Holding /\ s.drops = run[r].drops
  PROVE  KeepsHandles
BY SetRunType DEF KeepsHandles

LEMMA UnchangedKeeps ==
  ASSUME run \in [Runs -> RunState], UNCHANGED run
  PROVE  KeepsHandles
BY DEF KeepsHandles

LEMMA RunStepKeeps ==
  ASSUME run \in [Runs -> RunState], account \in AccountRow, NEW r \in Runs,
         \/ Refuse(r) \/ ReadAccount(r) \/ SkipLocked(r) \/ OpenRun(r)
         \/ ResolveToken(r) \/ ProviderAnswers(r) \/ IngestItem(r) \/ Finish(r) \/ Catch(r)
         \/ DatabaseError(r) \/ Release(r) \/ Heartbeat(r) \/ GiveUp(r) \/ Crash(r)
  PROVE  KeepsHandles
<1>. DEFINE OK(t) == /\ t \in RunState
                     /\ t.handle = run[r].handle
                     /\ t.pc \in Holding => run[r].pc \in Holding /\ t.drops = run[r].drops
<1>0. run[r] \in RunState
  OBVIOUS
<1>a. \A pc \in {"done", "crashed"}, st \in RunStatus : OK(Ended(r, pc, st))
  BY <1>0, EndedType DEF RunPc, Holding, Working
<1>1. CASE Refuse(r)
  <2>1. OK(Ended(r, "done", "none"))
    BY <1>a DEF RunStatus
  <2>. QED
    BY <1>1, <2>1, SetRunKeeps DEF Refuse
<1>2. CASE ReadAccount(r)
  <2>1. OK(Ended(r, "done", "none"))
    BY <1>a DEF RunStatus
  <2>2. OK([run[r] EXCEPT !.pc = "acquire",
                          !.snap = [link |-> account.link, legacy |-> account.legacy]])
    BY <1>0 DEF RunState, RunPc, Holding, Working, AccountRow
  <2>. QED
    BY <1>2, <2>1, <2>2, SetRunKeeps DEF ReadAccount
<1>3. CASE SkipLocked(r)
  <2>1. OK(Ended(r, "done", "skipped_locked"))
    BY <1>a DEF RunStatus
  <2>. QED
    BY <1>3, <2>1, SetRunKeeps DEF SkipLocked
<1>4. CASE OpenRun(r)
  <2>1. OK([run[r] EXCEPT !.pc = "fetch", !.status = "running"])
    BY <1>0, <1>4 DEF OpenRun, RunState, RunPc, RunStatus, Holding, Working
  <2>2. OK([run[r] EXCEPT !.pc = "release"])
    BY <1>0, <1>4 DEF OpenRun, RunState, RunPc, Holding, Working
  <2>. QED
    BY <1>4, <2>1, <2>2, SetRunKeeps DEF OpenRun
<1>5. CASE ResolveToken(r)
  <2>1. OK([run[r] EXCEPT !.pc = "http"])
    BY <1>0, <1>5 DEF ResolveToken, RunState, RunPc, Holding, Working
  <2>2. OK([run[r] EXCEPT !.pc = "catch", !.err = "reconnect"])
    BY <1>0, <1>5 DEF ResolveToken, RunState, RunPc, Holding, Working
  <2>. QED
    BY <1>5, <2>1, <2>2, SetRunKeeps DEF ResolveToken
<1>6. CASE ProviderAnswers(r)
  <2>1. ASSUME NEW n \in 0..MaxItems, SetRun(r, [run[r] EXCEPT !.pc = "ingest", !.todo = n])
        PROVE  KeepsHandles
    <3>1. OK([run[r] EXCEPT !.pc = "ingest", !.todo = n])
      BY <1>0, <1>6 DEF ProviderAnswers, RunState, RunPc, Holding, Working
    <3>. QED
      BY <2>1, <3>1, SetRunKeeps
  <2>2. ASSUME NEW e \in {"reconnect", "provider"},
               SetRun(r, [run[r] EXCEPT !.pc = "catch", !.err = e])
        PROVE  KeepsHandles
    <3>1. OK([run[r] EXCEPT !.pc = "catch", !.err = e])
      BY <1>0, <1>6 DEF ProviderAnswers, RunState, RunPc, Holding, Working
    <3>. QED
      BY <2>2, <3>1, SetRunKeeps
  <2>. QED
    BY <1>6, <2>1, <2>2 DEF ProviderAnswers
<1>7. CASE IngestItem(r)
  <2>1. PICK o \in {"ok", "bad"} :
               SetRun(r, [run[r] EXCEPT !.todo = run[r].todo - 1, !.seen = run[r].seen \cup {o}])
    BY <1>7 DEF IngestItem
  <2>2. run[r].todo - 1 \in 0..MaxItems
    BY <1>0, <1>7, MaxItemsAssumption, RunFields DEF IngestItem
  <2>3. run[r].seen \cup {o} \in SUBSET {"ok", "bad"}
    BY <1>0, RunFields
  <2>4. OK([run[r] EXCEPT !.todo = run[r].todo - 1, !.seen = run[r].seen \cup {o}])
    BY <1>0, <2>2, <2>3 DEF RunState
  <2>. QED
    BY <2>1, <2>4, SetRunKeeps
<1>8. CASE Finish(r)
  <2>1. PICK st \in RunStatus : SetRun(r, [run[r] EXCEPT !.pc = "release", !.status = st])
    BY <1>8 DEF Finish, Verdict, RunStatus
  <2>2. OK([run[r] EXCEPT !.pc = "release", !.status = st])
    BY <1>0, <1>8 DEF Finish, RunState, RunPc, Holding, Working
  <2>. QED
    BY <2>1, <2>2, SetRunKeeps
<1>9. CASE Catch(r)
  <2>1. CatchStatus(run[r]) \in RunStatus
    BY DEF CatchStatus, RunStatus
  <2>2. OK([run[r] EXCEPT !.pc = "release", !.status = CatchStatus(run[r])])
    BY <1>0, <1>9, <2>1 DEF Catch, RunState, RunPc, Holding, Working
  <2>. QED
    BY <1>9, <2>2, SetRunKeeps DEF Catch
<1>10. CASE DatabaseError(r)
  <2>1. ASSUME run[r].pc \in {"leased", "catch"}, SetRun(r, [run[r] EXCEPT !.pc = "release"])
        PROVE  KeepsHandles
    <3>1. OK([run[r] EXCEPT !.pc = "release"])
      BY <1>0, <2>1 DEF RunState, RunPc, Holding, Working
    <3>. QED
      BY <2>1, <3>1, SetRunKeeps
  <2>2. ASSUME run[r].pc = "ingest", SetRun(r, [run[r] EXCEPT !.pc = "catch", !.err = "provider"])
        PROVE  KeepsHandles
    <3>1. OK([run[r] EXCEPT !.pc = "catch", !.err = "provider"])
      BY <1>0, <2>2 DEF RunState, RunPc, Holding, Working
    <3>. QED
      BY <2>2, <3>1, SetRunKeeps
  <2>. QED
    BY <1>10, <2>1, <2>2 DEF DatabaseError
<1>11. CASE Release(r)
  <2>1. OK(Ended(r, "done", run[r].status))
    BY <1>0, <1>a, RunFields
  <2>. QED
    BY <1>11, <2>1, SetRunKeeps DEF Release
<1>12. ASSUME SetRun(r, [run[r] EXCEPT !.gone = TRUE]) PROVE KeepsHandles
  <2>1. OK([run[r] EXCEPT !.gone = TRUE])
    BY <1>0 DEF RunState
  <2>. QED
    BY <1>12, <2>1, SetRunKeeps
<1>13. CASE Heartbeat(r)
  BY <1>12, <1>13, UnchangedKeeps DEF Heartbeat
<1>14. CASE GiveUp(r)
  BY <1>12, <1>14 DEF GiveUp
<1>15. CASE Crash(r)
  <2>1. OK(Ended(r, "crashed", run[r].status))
    BY <1>0, <1>a, RunFields
  <2>. QED
    BY <1>15, <2>1, SetRunKeeps DEF Crash
<1>. QED
  BY <1>1, <1>2, <1>3, <1>4, <1>5, <1>6, <1>7, <1>8, <1>9, <1>10, <1>11, <1>13, <1>14, <1>15

LEMMA AcquireSets ==
  ASSUME TypeOK, NEW r \in Runs, Acquire(r)
  PROVE  /\ run' \in [Runs -> RunState]
         /\ run'[r].handle.gen = NextGeneration(lease, seq)
         /\ run'[r].drops = drops
         /\ \A q \in Runs : q # r => run'[q] = run[q]
<1>. DEFINE h == HandleOf(AcquiredRow(lease, seq, r))
            t == [run[r] EXCEPT !.pc = "leased", !.handle = h, !.drops = drops]
<1>1. AcquiredRow(lease, seq, r) \in LeaseRow
  BY LeaseTypes DEF TypeOK
<1>2. h \in LeaseHandle /\ h.gen = NextGeneration(lease, seq)
  BY <1>1, LeaseTypes, LeaseSteps DEF TypeOK
<1>3. run[r] \in RunState /\ drops \in Nat /\ run \in [Runs -> RunState]
  BY DEF TypeOK
<1>4. t \in RunState /\ t.handle = h /\ t.drops = drops
  BY <1>2, <1>3 DEF RunState, RunPc
<1>5. SetRun(r, t)
  BY DEF Acquire
<1>. HIDE DEF t
<1>. QED
  BY <1>2, <1>3, <1>4, <1>5, SetRunType

\* A disconnect, a reconnect, a watcher and time leave the runs alone.
LEMMA OthersKeep ==
  ASSUME TypeOK,
         \/ \E d \in Disconnects : DiscStep(d)
         \/ \E c \in Reconnects : RecLink(c) \/ RecVault(c)
         \/ \E m \in Monitors : MonDiscover(m) \/ MonWrite(m)
         \/ \E v \in {"healthy", "degraded"} : HealthCheck(v)
         \/ Tick
         \/ \E k \in 1..links : TokenExpires(k)
  PROVE  UNCHANGED run
BY DEF DiscStep, DiscRead, DiscDropNothing, DiscDropAndClear, DiscClear, ClearAccount, RecLink,
       RecVault, MonDiscover, MonWrite, HealthCheck, Tick, TokenExpires

-----------------------------------------------------------------------------
(* Types.                                                                  *)

LEMMA InitType == Init => TypeOK
BY NewRunType, NoHolderAssumption, LeaseTtlAssumption DEF Init, TypeOK, LeaseRow, NoLease, AccountRow, AccountStatus, DiscState, RecPc

\* The parts of the state a disconnect changes.
LEMMA ClearType ==
  ASSUME TypeOK, NEW d \in Disconnects, ClearAccount(d)
  PROVE  account' \in AccountRow /\ disc' \in [Disconnects -> DiscState]
<1>1. AfterClear(d) \in AccountRow
  BY AccountSteps DEF TypeOK, AfterClear
<1>2. disc[d] \in DiscState
  BY DEF TypeOK
<1>3. [disc[d] EXCEPT !.pc = "done"] \in DiscState
  BY <1>2 DEF DiscState
<1>. QED
  BY <1>1, <1>3 DEF ClearAccount, TypeOK

LEMMA NextType == TypeOK /\ [Next]_vars => TypeOK'
<1>. SUFFICES ASSUME TypeOK, [Next]_vars PROVE TypeOK'
  OBVIOUS
<1>. USE DEF dbVars, histVars
<1>0. /\ run \in [Runs -> RunState] /\ account \in AccountRow /\ lease \in LeaseRow
      /\ seq \in Nat /\ links \in Nat /\ drops \in Nat
  BY DEF TypeOK
<1>1. ASSUME NEW r \in Runs,
             \/ Refuse(r) \/ ReadAccount(r) \/ OpenRun(r) \/ ResolveToken(r) \/ ProviderAnswers(r)
             \/ IngestItem(r) \/ DatabaseError(r) \/ GiveUp(r) \/ Crash(r)
      PROVE  TypeOK'
  <2>1. run' \in [Runs -> RunState]
    BY <1>0, <1>1, RunStepKeeps DEF KeepsHandles
  <2>. QED
    BY <1>1, <2>1 DEF TypeOK, Refuse, ReadAccount, OpenRun, ResolveToken, ProviderAnswers,
                      IngestItem, DatabaseError, GiveUp, Crash
<1>2. ASSUME NEW r \in Runs, Acquire(r) PROVE TypeOK'
  BY <1>0, <1>2, AcquireSets, LeaseTypes DEF Acquire, TypeOK
<1>3. ASSUME NEW r \in Runs, SkipLocked(r) PROVE TypeOK'
  <2>1. run' \in [Runs -> RunState]
    BY <1>0, <1>3, RunStepKeeps DEF KeepsHandles
  <2>. QED
    BY <1>0, <1>3, <2>1, LeaseTypes DEF SkipLocked, TypeOK
<1>4. ASSUME NEW r \in Runs, Finish(r) PROVE TypeOK'
  <2>1. run' \in [Runs -> RunState]
    BY <1>0, <1>4, RunStepKeeps DEF KeepsHandles
  <2>2. [account EXCEPT !.health = "healthy"] \in AccountRow
    BY <1>0 DEF AccountRow
  <2>3. run[r].handle.gen \in Nat
    BY <1>0, RunFields
  <2>4. account' \in AccountRow /\ lastGen' \in Nat
    BY <1>0, <1>4, <2>2, <2>3 DEF Finish, TypeOK
  <2>. QED
    BY <1>4, <2>1, <2>4 DEF Finish, TypeOK
<1>5. ASSUME NEW r \in Runs, Catch(r) PROVE TypeOK'
  <2>1. run' \in [Runs -> RunState]
    BY <1>0, <1>5, RunStepKeeps DEF KeepsHandles
  <2>2. [account EXCEPT !.status = IF run[r].err = "reconnect" THEN "expired" ELSE account.status,
                        !.health = "degraded"] \in AccountRow
    BY <1>0 DEF AccountRow, AccountStatus
  <2>3. account' \in AccountRow /\ lastGen' \in Nat
    BY <1>0, <1>5, <2>2, RunFields DEF Catch, TypeOK
  <2>. QED
    BY <1>5, <2>1, <2>3 DEF Catch, TypeOK
<1>6. ASSUME NEW r \in Runs, Release(r) \/ Heartbeat(r) PROVE TypeOK'
  <2>1. run' \in [Runs -> RunState]
    BY <1>0, <1>6, RunStepKeeps DEF KeepsHandles
  <2>2. lease' \in LeaseRow
    BY <1>0, <1>6, LeaseSteps DEF Release, Released, Heartbeat
  <2>. QED
    BY <1>6, <2>1, <2>2 DEF Release, Heartbeat, TypeOK
<1>7. ASSUME NEW d \in Disconnects, DiscRead(d) PROVE TypeOK'
  <2>1. [disc[d] EXCEPT !.pc = "revoke", !.legacy = account.legacy, !.link = links] \in DiscState
    <3>1. disc[d] \in DiscState /\ account.legacy \in BOOLEAN
      BY DEF TypeOK, AccountRow
    <3>. QED
      BY <1>0, <3>1 DEF DiscState
  <2>2. disc' = [disc EXCEPT ![d] = [disc[d] EXCEPT !.pc = "revoke", !.legacy = account.legacy,
                                                    !.link = links]]
    BY <1>7 DEF DiscRead, TypeOK
  <2>. QED
    BY <1>7, <2>1, <2>2 DEF DiscRead, TypeOK
<1>8. ASSUME NEW d \in Disconnects, DiscDropNothing(d) PROVE TypeOK'
  <2>1. [disc[d] EXCEPT !.pc = "clear"] \in DiscState
    BY DEF TypeOK, DiscState
  <2>2. disc' = [disc EXCEPT ![d] = [disc[d] EXCEPT !.pc = "clear"]]
    BY <1>8 DEF DiscDropNothing, TypeOK
  <2>. QED
    BY <1>8, <2>1, <2>2 DEF DiscDropNothing, TypeOK
<1>9. ASSUME NEW d \in Disconnects, DiscDropAndClear(d) \/ DiscClear(d) PROVE TypeOK'
  <2>1. account' \in AccountRow /\ disc' \in [Disconnects -> DiscState]
    BY <1>9, ClearType DEF DiscDropAndClear, DiscClear
  <2>. QED
    BY <1>0, <1>9, <2>1, LeaseSteps DEF DiscDropAndClear, DiscClear, ClearAccount, TypeOK
<1>10. ASSUME NEW c \in Reconnects, RecLink(c) PROVE TypeOK'
  <2>1. [account EXCEPT !.status = "active", !.health = "healthy", !.link = links + 1] \in AccountRow
    <3>1. links + 1 \in Nat
      BY <1>0
    <3>. QED
      BY <1>0, <3>1, AccountSteps
  <2>. QED
    BY <1>0, <1>10, <2>1 DEF RecLink, TypeOK, RecPc
<1>11. ASSUME NEW c \in Reconnects, RecVault(c) PROVE TypeOK'
  BY <1>11 DEF RecVault, TypeOK, RecPc
<1>12. ASSUME NEW m \in Monitors, MonDiscover(m) PROVE TypeOK'
  BY <1>12 DEF MonDiscover, TypeOK
<1>13. ASSUME NEW m \in Monitors, MonWrite(m) PROVE TypeOK'
  <2>1. [account EXCEPT !.status = IF mon[m] = "expired" THEN "expired" ELSE account.status,
                        !.health = "degraded"] \in AccountRow
    BY <1>0 DEF AccountRow, AccountStatus
  <2>. QED
    BY <1>0, <1>13, <2>1 DEF MonWrite, TypeOK
<1>14. ASSUME NEW v \in {"healthy", "degraded"}, HealthCheck(v) PROVE TypeOK'
  <2>1. [account EXCEPT !.health = v] \in AccountRow
    BY <1>0, <1>14 DEF AccountRow
  <2>. QED
    BY <1>0, <1>14, <2>1 DEF HealthCheck, TypeOK
<1>15. ASSUME Tick PROVE TypeOK'
  BY <1>0, <1>15, LeaseSteps DEF Tick, TypeOK
<1>16. ASSUME NEW k \in 1..links, TokenExpires(k) PROVE TypeOK'
  BY <1>16 DEF TokenExpires, TypeOK
<1>17. ASSUME UNCHANGED vars PROVE TypeOK'
  BY <1>17 DEF vars, TypeOK
<1>. QED
  BY <1>1, <1>2, <1>3, <1>4, <1>5, <1>6, <1>7, <1>8, <1>9, <1>10, <1>11, <1>12, <1>13, <1>14,
     <1>15, <1>16, <1>17 DEF Next, RunStep, DiscStep

\* Every row and every local state keeps its type, whatever runs concurrently.
THEOREM TypeCorrect == Spec => []TypeOK
BY InitType, NextType, PTL DEF Spec

-----------------------------------------------------------------------------
(* Fencing.                                                                *)

\* The sequence is ahead of every generation in use; what the account holds is
\* no newer than the lease row; a run that acts on its handle has one, and one
\* that still matches the row has seen no disconnect since it got it.
Fencing ==
  /\ lease.gen <= seq
  /\ lastGen <= seq
  /\ Present(lease) => lastGen <= lease.gen
  /\ \A r \in Runs : run[r].handle.gen <= seq
  /\ \A r \in Runs : run[r].pc \in Holding =>
       /\ run[r].handle.gen # 0
       /\ run[r].handle.gen = lease.gen => run[r].drops = drops

IInv == TypeOK /\ Fencing /\ NewestHolderOnRow

LEMMA Gens ==
  ASSUME TypeOK
  PROVE  /\ lease \in LeaseRow /\ lease.gen \in Nat /\ seq \in Nat /\ lastGen \in Nat
         /\ run \in [Runs -> RunState] /\ account \in AccountRow
         /\ \A r \in Runs : run[r] \in RunState /\ run[r].handle.gen \in Nat
BY LeaseSteps, RunFields DEF TypeOK

LEMMA InitFencing == Init => IInv
<1>. SUFFICES ASSUME Init PROVE IInv
  OBVIOUS
<1>1. \A r \in Runs : run[r].handle.gen = 0 /\ run[r].pc = "idle"
  BY DEF Init, NewRun, NoHandle
<1>. QED
  BY <1>1, InitType DEF Init, IInv, Fencing, NewestHolderOnRow, NoLease, Present, Holding, Working

\* A step that neither moves the generations nor the disconnect count forward
\* keeps the invariant, if it keeps the row or deletes it.
LEMMA QuietStep ==
  ASSUME IInv, TypeOK', KeepsHandles, UNCHANGED <<seq, drops>>,
         \/ lease'.gen = lease.gen /\ lease'.holder = lease.holder
         \/ lease'.gen = 0,
         \/ lastGen' = lastGen
         \/ lastGen' = lease.gen /\ lease'.gen = lease.gen
  PROVE  IInv'
<1>1. Fencing'
  BY Gens DEF IInv, Fencing, KeepsHandles, Present
<1>2. NewestHolderOnRow'
  BY Gens DEF IInv, NewestHolderOnRow, KeepsHandles, Present
<1>. QED
  BY <1>1, <1>2 DEF IInv

LEMMA NextFencing == IInv /\ [Next]_vars => IInv'
<1>. SUFFICES ASSUME IInv, [Next]_vars PROVE IInv'
  OBVIOUS
<1>. USE DEF dbVars, histVars
<1>0. TypeOK /\ TypeOK'
  BY NextType DEF IInv
<1>a. run \in [Runs -> RunState] /\ account \in AccountRow /\ lease \in LeaseRow
  BY <1>0 DEF TypeOK
<1>1. ASSUME NEW r \in Runs,
             \/ Refuse(r) \/ ReadAccount(r) \/ OpenRun(r) \/ ResolveToken(r) \/ ProviderAnswers(r)
             \/ IngestItem(r) \/ DatabaseError(r) \/ GiveUp(r) \/ Crash(r)
      PROVE  IInv'
  <2>1. UNCHANGED <<lease, seq, lastGen, drops>>
    BY <1>1 DEF Refuse, ReadAccount, OpenRun, ResolveToken, ProviderAnswers,
                IngestItem, DatabaseError, GiveUp, Crash
  <2>2. KeepsHandles
    BY <1>a, <1>1, RunStepKeeps
  <2>. QED
    BY <1>0, <2>1, <2>2, QuietStep
<1>2. ASSUME NEW r \in Runs, Acquire(r) PROVE IInv'
  <2>1. /\ seq' = NextGeneration(lease, seq) /\ seq' > seq /\ seq' \in Nat
        /\ lease'.gen = seq' /\ lease'.holder = r
        /\ UNCHANGED <<lastGen, drops>>
    BY <1>0, <1>2, LeaseTypes DEF Acquire, TypeOK
  <2>2. /\ run'[r].handle.gen = seq' /\ run'[r].drops = drops
        /\ \A q \in Runs : q # r => run'[q] = run[q]
    BY <1>0, <1>2, <2>1, AcquireSets
  <2>3. Fencing'
    BY <1>0, <2>1, <2>2, Gens DEF IInv, Fencing, Present
  <2>4. NewestHolderOnRow'
    BY <1>0, <2>1, <2>2, Gens DEF IInv, Fencing, NewestHolderOnRow, Present
  <2>. QED
    BY <1>0, <2>3, <2>4 DEF IInv
<1>3. ASSUME NEW r \in Runs, SkipLocked(r) PROVE IInv'
  <2>1. seq' > seq /\ seq' \in Nat /\ UNCHANGED <<lease, lastGen, drops>>
    BY <1>0, <1>3, LeaseTypes DEF SkipLocked, TypeOK
  <2>2. KeepsHandles
    BY <1>a, <1>3, RunStepKeeps
  <2>3. Fencing'
    BY <1>0, <2>1, <2>2, Gens DEF IInv, Fencing, KeepsHandles, Present
  <2>4. NewestHolderOnRow'
    BY <1>0, <2>1, <2>2, Gens DEF IInv, NewestHolderOnRow, KeepsHandles, Present
  <2>. QED
    BY <1>0, <2>3, <2>4 DEF IInv
<1>4. ASSUME NEW r \in Runs, Finish(r) \/ Catch(r) PROVE IInv'
  <2>1. UNCHANGED <<lease, seq, drops>> /\ lastGen' \in {lastGen, lease.gen}
    BY <1>4 DEF Finish, Catch, WriteLands, Matches
  <2>2. KeepsHandles
    BY <1>a, <1>4, RunStepKeeps
  <2>. QED
    BY <1>0, <2>1, <2>2, QuietStep
<1>5. ASSUME NEW r \in Runs, Release(r) \/ Heartbeat(r) PROVE IInv'
  <2>1. UNCHANGED <<seq, lastGen, drops>>
    BY <1>5 DEF Release, Heartbeat
  <2>2. \/ lease'.gen = lease.gen /\ lease'.holder = lease.holder
        \/ lease'.gen = 0
    BY <1>a, <1>5, LeaseSteps DEF Release, Released, Heartbeat
  <2>3. KeepsHandles
    BY <1>a, <1>5, RunStepKeeps
  <2>. QED
    BY <1>0, <2>1, <2>2, <2>3, QuietStep
<1>6. ASSUME NEW d \in Disconnects, DiscDropNothing(d) \/ DiscDropAndClear(d) PROVE IInv'
  <2>1. UNCHANGED <<seq, run, lastGen>> /\ lease'.gen = 0
    BY <1>a, <1>6, LeaseSteps DEF DiscDropNothing, DiscDropAndClear, ClearAccount, Present
  <2>2. Fencing'
    BY <1>0, <2>1, Gens DEF IInv, Fencing, Present
  <2>3. NewestHolderOnRow'
    BY <2>1 DEF NewestHolderOnRow, Present
  <2>. QED
    BY <1>0, <2>2, <2>3 DEF IInv
<1>7. ASSUME \/ \E d \in Disconnects : DiscRead(d) \/ DiscClear(d)
             \/ \E c \in Reconnects : RecLink(c) \/ RecVault(c)
             \/ \E m \in Monitors : MonDiscover(m) \/ MonWrite(m)
             \/ \E v \in {"healthy", "degraded"} : HealthCheck(v)
             \/ \E k \in 1..links : TokenExpires(k)
      PROVE  IInv'
  <2>1. UNCHANGED <<lease, seq, run, lastGen, drops>>
    BY <1>7 DEF DiscRead, DiscClear, ClearAccount, RecLink, RecVault, MonDiscover, MonWrite,
                HealthCheck, TokenExpires
  <2>. QED
    BY <1>0, <1>a, <2>1, UnchangedKeeps, QuietStep
<1>8. ASSUME Tick PROVE IInv'
  <2>1. UNCHANGED <<seq, run, lastGen, drops>> /\ lease'.gen = lease.gen /\ lease'.holder = lease.holder
    BY <1>a, <1>8, LeaseSteps DEF Tick
  <2>. QED
    BY <1>0, <1>a, <2>1, UnchangedKeeps, QuietStep
<1>9. ASSUME UNCHANGED vars PROVE IInv'
  <2>1. UNCHANGED <<lease, seq, run, lastGen, drops>>
    BY <1>9 DEF vars
  <2>. QED
    BY <1>0, <1>a, <2>1, UnchangedKeeps, QuietStep
<1>. QED
  BY <1>1, <1>2, <1>3, <1>4, <1>5, <1>6, <1>7, <1>8, <1>9 DEF Next, RunStep, DiscStep

LEMMA FencingInvariant == Spec => []IInv
BY InitFencing, NextFencing, PTL DEF Spec

\* Generation fencing: the lease row always names its newest acquirer, and no
\* run holds a higher generation (acquireSyncLease, releaseSyncLease and the
\* disconnect's DELETE).
THEOREM NewestHolder == Spec => []NewestHolderOnRow
<1>1. IInv => NewestHolderOnRow
  BY DEF IInv
<1>. QED
  BY <1>1, FencingInvariant, PTL

-----------------------------------------------------------------------------
(* What follows of the account's row.                                      *)

\* The account is written by a run only while the run's handle is on the row.
LEMMA WriteStep ==
  ASSUME IInv, [Next]_vars, lastGen' # lastGen
  PROVE  \E r \in Runs : /\ run[r].pc \in Holding
                         /\ Matches(lease, run[r].handle)
                         /\ lastGen' = run[r].handle.gen
<1>. USE DEF dbVars, histVars
<1>1. PICK r \in Runs : Finish(r) \/ Catch(r)
  BY DEF Next, RunStep, DiscStep, Refuse, ReadAccount, Acquire, SkipLocked, OpenRun, ResolveToken,
         ProviderAnswers, IngestItem, DatabaseError, Release, Heartbeat, GiveUp, Crash, DiscRead,
         DiscDropNothing, DiscDropAndClear, DiscClear, ClearAccount, RecLink, RecVault, MonDiscover,
         MonWrite, HealthCheck, Tick, TokenExpires, vars
<1>. QED
  BY <1>1 DEF Finish, Catch, WriteLands, Holding, Working

\* No run's terminal write lands after the write of a run that acquired the
\* lease later (writeAccountIfLeaseHeld).
THEOREM GenerationOrder == Spec => WritesInGenerationOrder
<1>1. IInv /\ [Next]_vars => [lastGen' >= lastGen]_vars
  <2>. SUFFICES ASSUME IInv, [Next]_vars, lastGen' # lastGen PROVE lastGen' >= lastGen
    BY Gens DEF IInv
  <2>1. PICK r \in Runs : /\ run[r].pc \in Holding
                          /\ Matches(lease, run[r].handle)
                          /\ lastGen' = run[r].handle.gen
    BY WriteStep
  <2>. QED
    BY <2>1, Gens DEF IInv, Fencing, Matches, Present
<1>. QED
  BY <1>1, FencingInvariant, PTL DEF Spec, WritesInGenerationOrder

\* No run that held a lease when a disconnect issued its lease DELETE writes
\* the account afterwards, whatever the account has become since.
THEOREM NoLateWrite == Spec => NoWriteAfterDisconnect
<1>1. ASSUME IInv, [Next]_vars, NEW r \in Runs, lastGen' # lastGen, lastGen' = run[r].handle.gen
      PROVE  run[r].drops = drops
  <2>1. PICK q \in Runs : /\ run[q].pc \in Holding
                          /\ Matches(lease, run[q].handle)
                          /\ lastGen' = run[q].handle.gen
    BY <1>1, WriteStep
  <2>2. Present(lease)
    BY <1>1, <2>1 DEF IInv, Fencing, Matches, Present
  <2>3. q = r
    BY <1>1, <2>1, <2>2 DEF IInv, NewestHolderOnRow, Matches
  <2>. QED
    BY <1>1, <2>1, <2>3 DEF IInv, Fencing, Matches
<1>2. IInv /\ [Next]_vars =>
        [\A r \in Runs : lastGen' # lastGen /\ lastGen' = run[r].handle.gen
                           => run[r].drops = drops]_vars
  BY <1>1
<1>. QED
  BY <1>2, FencingInvariant, PTL DEF Spec, NoWriteAfterDisconnect

\* What one step can do to the account's row: nothing, a fenced write, a
\* watcher's write, a link, or the clearing of a disconnect.
LEMMA AccountStep ==
  ASSUME TypeOK, [Next]_vars
  PROVE  \/ UNCHANGED account
         \/ /\ account.status # "disconnected"
            /\ account'.status \in {account.status, "expired"}
            /\ UNCHANGED links
         \/ account'.status = "active" /\ links' = links + 1
         \/ account' = ClearedAccount
<1>. USE DEF dbVars, histVars
<1>0. account \in AccountRow
  BY DEF TypeOK
<1>1. CASE UNCHANGED account
  BY <1>1
<1>2. ASSUME NEW r \in Runs, Finish(r), account' # account
      PROVE  /\ account.status # "disconnected" /\ account'.status = account.status
             /\ UNCHANGED links
  <2>1. account' = [account EXCEPT !.health = "healthy"]
    BY <1>2 DEF Finish
  <2>. QED
    BY <1>0, <1>2, <2>1 DEF Finish, WriteLands, AccountRow
<1>3. ASSUME NEW r \in Runs, Catch(r), account' # account
      PROVE  /\ account.status # "disconnected" /\ account'.status \in {account.status, "expired"}
             /\ UNCHANGED links
  BY <1>0, <1>3 DEF Catch, WriteLands, AccountRow
<1>4. ASSUME NEW d \in Disconnects, DiscDropAndClear(d) \/ DiscClear(d), account' # account
      PROVE  account' = ClearedAccount
  BY <1>4 DEF DiscDropAndClear, DiscClear, ClearAccount, AfterClear
<1>5. ASSUME NEW c \in Reconnects, RecLink(c)
      PROVE  account'.status = "active" /\ links' = links + 1
  BY <1>0, <1>5 DEF RecLink, AccountRow
<1>6. ASSUME NEW m \in Monitors, MonWrite(m), account' # account
      PROVE  /\ account.status # "disconnected" /\ account'.status \in {account.status, "expired"}
             /\ UNCHANGED links
  BY <1>0, <1>6 DEF MonWrite, AccountRow
<1>7. ASSUME NEW v \in {"healthy", "degraded"}, HealthCheck(v), account' # account
      PROVE  /\ account.status # "disconnected" /\ account'.status = account.status
             /\ UNCHANGED links
  BY <1>0, <1>7 DEF HealthCheck, AccountRow
<1>8. ASSUME account' # account
      PROVE  \/ \E r \in Runs : Finish(r) \/ Catch(r)
             \/ \E d \in Disconnects : DiscDropAndClear(d) \/ DiscClear(d)
             \/ \E c \in Reconnects : RecLink(c)
             \/ \E m \in Monitors : MonWrite(m)
             \/ \E v \in {"healthy", "degraded"} : HealthCheck(v)
  BY <1>8 DEF Next, RunStep, DiscStep, Refuse, ReadAccount, Acquire, SkipLocked, OpenRun,
         ResolveToken, ProviderAnswers, IngestItem, DatabaseError, Release, Heartbeat, GiveUp,
         Crash, DiscRead, DiscDropNothing, RecVault, MonDiscover, Tick, TokenExpires, vars
<1>. QED
  BY <1>1, <1>2, <1>3, <1>4, <1>5, <1>6, <1>7, <1>8

\* No late sync, monitor or health check brings a disconnected account back.
THEOREM Revival == Spec => OnlyReconnectRevives
<1>1. TypeOK /\ [Next]_vars =>
        [account.status = "disconnected" /\ account'.status # "disconnected"
           => links' = links + 1]_vars
  BY AccountStep, AccountSteps DEF TypeOK
<1>. QED
  BY <1>1, TypeCorrect, PTL DEF Spec, OnlyReconnectRevives

\* A disconnected row keeps no credential columns, no expiry and no health
\* verdict.
THEOREM CleanRow == Spec => []DisconnectedRowIsClean
<1>1. Init => DisconnectedRowIsClean
  BY DEF Init, DisconnectedRowIsClean
<1>2. TypeOK /\ DisconnectedRowIsClean /\ [Next]_vars => DisconnectedRowIsClean'
  <2>. SUFFICES ASSUME TypeOK, DisconnectedRowIsClean, [Next]_vars PROVE DisconnectedRowIsClean'
    OBVIOUS
  <2>1. ClearedAccount' = ClearedAccount
    BY DEF ClearedAccount
  <2>. QED
    BY <2>1, AccountStep DEF DisconnectedRowIsClean
<1>. QED
  BY <1>1, <1>2, TypeCorrect, PTL DEF Spec

-----------------------------------------------------------------------------
(* The system implements the fenced register.                              *)

LEMMA StepSimulates == IInv /\ [Next]_vars => [Fenced!Next]_(Fenced!vars)
<1>. SUFFICES ASSUME IInv, [Next]_vars PROVE [Fenced!Next]_(Fenced!vars)
  OBVIOUS
<1>. USE DEF dbVars, histVars
<1>0. TypeOK /\ account \in AccountRow /\ lease \in LeaseRow /\ seq \in Nat
  BY DEF IInv, TypeOK
<1>1. ASSUME NEW r \in Runs,
             \/ Refuse(r) \/ ReadAccount(r) \/ OpenRun(r) \/ ResolveToken(r) \/ ProviderAnswers(r)
             \/ IngestItem(r) \/ DatabaseError(r) \/ GiveUp(r) \/ Crash(r)
      PROVE  UNCHANGED Fenced!vars
  BY <1>1 DEF Fenced!vars, Refuse, ReadAccount, OpenRun, ResolveToken, ProviderAnswers,
              IngestItem, DatabaseError, GiveUp, Crash
<1>2. ASSUME NEW r \in Runs, Acquire(r) PROVE Fenced!Grant
  BY <1>0, <1>2, LeaseTypes DEF Acquire, Fenced!Grant
<1>3. ASSUME NEW r \in Runs, SkipLocked(r) PROVE Fenced!Burn
  BY <1>0, <1>3, LeaseTypes DEF SkipLocked, Fenced!Burn
<1>4. ASSUME NEW r \in Runs, Finish(r) \/ Catch(r) PROVE [Fenced!Write]_(Fenced!vars)
  <2>1. CASE ~run[r].gone /\ WriteLands(r)
    <3>1. lease.gen # 0 /\ run[r].handle.gen = lease.gen /\ account.status # "disconnected"
      BY <1>4, <2>1 DEF IInv, Fencing, Holding, Working, Finish, Catch, WriteLands, Matches
    <3>2. account'.status \in {account.status, "expired"}
      BY <1>0, <1>4, <2>1 DEF Finish, Catch, AccountRow
    <3>3. lastGen' = lease.gen /\ UNCHANGED <<lease, seq>>
      BY <1>4, <2>1, <3>1 DEF Finish, Catch
    <3>. QED
      BY <3>1, <3>2, <3>3 DEF Fenced!Write
  <2>2. CASE ~(~run[r].gone /\ WriteLands(r))
    BY <1>4, <2>2 DEF Finish, Catch, Fenced!vars
  <2>. QED
    BY <2>1, <2>2
<1>5. ASSUME NEW r \in Runs, Release(r) \/ Heartbeat(r) PROVE [Fenced!Withdraw]_(Fenced!vars)
  BY <1>0, <1>5, LeaseSteps DEF Release, Released, Heartbeat, Fenced!Withdraw, Fenced!vars
<1>6. ASSUME NEW d \in Disconnects, DiscStep(d) PROVE [Fenced!Unlink]_(Fenced!vars)
  <2>1. CASE DiscRead(d) \/ DiscDropNothing(d)
    BY <2>1 DEF DiscRead, DiscDropNothing, Fenced!vars
  <2>2. CASE DiscDropAndClear(d) \/ DiscClear(d)
    BY <1>0, <2>2, LeaseSteps, AccountSteps
       DEF DiscDropAndClear, DiscClear, ClearAccount, AfterClear, Fenced!Unlink
  <2>. QED
    BY <1>6, <2>1, <2>2 DEF DiscStep
<1>7. ASSUME NEW c \in Reconnects, RecLink(c) PROVE Fenced!Link
  BY <1>0, <1>7 DEF RecLink, Fenced!Link, AccountRow
<1>8. ASSUME NEW m \in Monitors, MonWrite(m) PROVE [Fenced!Expire]_(Fenced!vars)
  BY <1>0, <1>8 DEF MonWrite, Fenced!Expire, Fenced!vars, AccountRow
<1>9. ASSUME NEW v \in {"healthy", "degraded"}, HealthCheck(v) PROVE UNCHANGED Fenced!vars
  BY <1>0, <1>9 DEF HealthCheck, Fenced!vars, AccountRow
<1>10. ASSUME Tick PROVE UNCHANGED Fenced!vars
  BY <1>0, <1>10, LeaseSteps DEF Tick, Fenced!vars
<1>11. ASSUME \/ \E c \in Reconnects : RecVault(c)
              \/ \E m \in Monitors : MonDiscover(m)
              \/ \E k \in 1..links : TokenExpires(k)
              \/ UNCHANGED vars
       PROVE  UNCHANGED Fenced!vars
  BY <1>11 DEF RecVault, MonDiscover, TokenExpires, vars, Fenced!vars
<1>. QED
  BY <1>1, <1>2, <1>3, <1>4, <1>5, <1>6, <1>7, <1>8, <1>9, <1>10, <1>11
     DEF Next, RunStep, Fenced!Next

\* Runs, disconnects, reconnects and watchers together implement a register
\* that is written only under its current, ever higher fencing token.
THEOREM Refinement == Spec => ImplementsFencedAccount
<1>1. Init => Fenced!Init
  BY DEF Init, NoLease, Fenced!Init
<1>. QED
  BY <1>1, StepSimulates, FencingInvariant, PTL DEF Spec, ImplementsFencedAccount, Fenced!Spec

-----------------------------------------------------------------------------
(* What the register promises by itself, from its own steps alone.         *)

\* The current token is the highest one drawn that anybody may still use, and
\* no write carries a higher one.
RegisterInv ==
  /\ lease.gen \in Nat /\ seq \in Nat /\ lastGen \in Nat
  /\ lease.gen <= seq
  /\ lastGen <= seq
  /\ lease.gen # 0 => lastGen <= lease.gen

LEMMA RegisterInvariant == Fenced!Spec => []RegisterInv
<1>1. Fenced!Init => RegisterInv
  BY DEF Fenced!Init, RegisterInv
<1>2. RegisterInv /\ [Fenced!Next]_(Fenced!vars) => RegisterInv'
  BY DEF RegisterInv, Fenced!Next, Fenced!vars, Fenced!Grant, Fenced!Burn, Fenced!Withdraw,
         Fenced!Write, Fenced!Link, Fenced!Unlink, Fenced!Expire
<1>. QED
  BY <1>1, <1>2, PTL DEF Fenced!Spec

\* Writes to the register carry ever higher tokens: the order in which runReadOnlySync
\* writes the account follows from the register, whoever implements it.
THEOREM TokenOrder == Fenced!Spec => Fenced!WritesInTokenOrder
<1>1. RegisterInv /\ [Fenced!Next]_(Fenced!vars) => [lastGen' >= lastGen]_(Fenced!vars)
  BY DEF RegisterInv, Fenced!Next, Fenced!vars, Fenced!Grant, Fenced!Burn, Fenced!Withdraw,
         Fenced!Write, Fenced!Link, Fenced!Unlink, Fenced!Expire
<1>. QED
  BY <1>1, RegisterInvariant, PTL DEF Fenced!Spec, Fenced!WritesInTokenOrder

\* A disconnected account is written by nobody until it is linked again: no holder's
\* write and no watcher's verdict takes the register out of the disconnected state.
THEOREM LinkRevives == Fenced!Spec => Fenced!OnlyLinkRevives
<1>1. [Fenced!Next]_(Fenced!vars)
        => [account.status = "disconnected" /\ account.status' # account.status
             => account.status' = "active"]_(Fenced!vars)
  BY DEF Fenced!Next, Fenced!vars, Fenced!Grant, Fenced!Burn, Fenced!Withdraw,
         Fenced!Write, Fenced!Link, Fenced!Unlink, Fenced!Expire
<1>. QED
  BY <1>1, PTL DEF Fenced!Spec, Fenced!OnlyLinkRevives
=============================================================================
