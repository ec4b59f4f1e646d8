---------------------------- MODULE ConnectorSync ----------------------------
(***************************************************************************)
(* One connected account and everything that writes its row: the read-only *)
(* sync runs (runReadOnlySync) with their lease and heartbeat, the         *)
(* disconnect, the OAuth reconnect (linkMetaAssets), the token-expiry      *)
(* monitor and the connection health checks.  All of them read the row in  *)
(* one transaction, talk to the provider with no transaction open, and     *)
(* write in a later one; what they read may be stale when they write.      *)
(***************************************************************************)
EXTENDS SyncLease

CONSTANTS
  BeatingRuns,   \* the runs with a heartbeat timer (all but the serverless jobs')
  Disconnects,   \* the invocations of disconnectAccount
  Reconnects,    \* the invocations of linkMetaAssets
  Monitors,      \* the invocations of runTokenExpiryMonitor
  MaxItems       \* the most items one provider read returns

ASSUME BeatingRunsAssumption == BeatingRuns \subseteq Runs
ASSUME MaxItemsAssumption == MaxItems \in Nat

VARIABLES
  lease,     \* the account's row of sync_leases
  seq,       \* sync_lease_generation_seq
  account,   \* the ConnectedAccount row
  vault,     \* an active ProviderCredential exists for the account
  links,     \* how many times the account has been connected or reconnected
  dead,      \* the links whose tokenExpiresAt has passed
  run,       \* per sync invocation: its local state and its SyncRun row
  disc,      \* per disconnect invocation: its local state
  rec,       \* per reconnect invocation: its program counter
  mon,       \* per monitor invocation: what it is about to write
  lastGen,   \* history: the generation of the last sync write to the account
  drops      \* history: how many disconnects have issued their lease DELETE

dbVars == <<lease, seq, account, vault, links, dead>>
histVars == <<lastGen, drops>>
vars == <<lease, seq, account, vault, links, dead, run, disc, rec, mon, lastGen, drops>>

-----------------------------------------------------------------------------
(* The rows and the local states.                                          *)

AccountStatus == {"active", "expired", "disconnected"}

\* `legacy' is the pair of token columns (longLivedToken, accessToken), which
\* no code writes a new value to any more: they hold the old ciphertext or
\* null.  `link' stands for tokenExpiresAt: the number of the (re)connect that
\* wrote it, 0 for null.  `healthy' is ConnectorHealth: degraded and error are
\* one value, since no guard tells them apart.
AccountRow == [status : AccountStatus,
               health : {"healthy", "degraded", "unknown"},
               link   : Nat,
               legacy : BOOLEAN]

\* A SyncRun's status.  rate_limited, api_unavailable and failed are written
\* under the same conditions and are the one value "failed".
RunStatus == {"none", "skipped_locked", "running", "completed", "partial_success",
              "failed", "permission_missing", "interrupted"}

RunPc == {"idle", "acquire", "leased", "fetch", "http", "ingest", "catch", "release",
          "done", "crashed"}

RunState == [pc     : RunPc,
             handle : LeaseHandle,
             snap   : [link : Nat, legacy : BOOLEAN],  \* the row read in Phase A
             gone   : BOOLEAN,   \* leaseGone()
             todo   : 0..MaxItems,
             seen   : SUBSET {"ok", "bad"},
             err    : {"none", "reconnect", "provider"},
             status : RunStatus,
             drops  : Nat]       \* history: drops when the lease was acquired

NewRun == [pc |-> "idle", handle |-> NoHandle, snap |-> [link |-> 0, legacy |-> FALSE],
           gone |-> FALSE, todo |-> 0, seen |-> {}, err |-> "none",
           status |-> "none", drops |-> 0]

\* A run that is over: its locals no longer matter, its SyncRun row does.
Ended(r, pc, status) ==
  [pc |-> pc, handle |-> run[r].handle, snap |-> [link |-> 0, legacy |-> FALSE],
   gone |-> FALSE, todo |-> 0, seen |-> {}, err |-> "none", status |-> status, drops |-> 0]

DiscState == [pc : {"idle", "revoke", "clear", "done"},
              legacy : BOOLEAN,   \* the credential columns read in Phase 1
              link   : Nat]       \* history: links when Phase 1 read them
RecPc == {"idle", "vault", "done"}

TypeOK ==
  /\ lease \in LeaseRow
  /\ seq \in Nat
  /\ account \in AccountRow
  /\ vault \in BOOLEAN
  /\ links \in Nat
  /\ dead \in SUBSET Nat
  /\ run \in [Runs -> RunState]
  /\ disc \in [Disconnects -> DiscState]
  /\ rec \in [Reconnects -> RecPc]
  /\ mon \in [Monitors -> {"idle", "expired", "soon", "done"}]
  /\ lastGen \in Nat
  /\ drops \in Nat

\* A connected account, its credential in the vault or (not yet backfilled) in
\* the legacy columns, and nobody at work on it.
Init ==
  /\ lease = NoLease
  /\ seq = 0
  /\ \E legacy \in BOOLEAN :
       /\ account = [status |-> "active", health |-> "healthy", link |-> 1, legacy |-> legacy]
       /\ vault = ~legacy
  /\ links = 1
  /\ dead = {}
  /\ run = [r \in Runs |-> NewRun]
  /\ disc = [d \in Disconnects |-> [pc |-> "idle", legacy |-> FALSE, link |-> 0]]
  /\ rec = [c \in Reconnects |-> "idle"]
  /\ mon = [m \in Monitors |-> "idle"]
  /\ lastGen = 0
  /\ drops = 0

-----------------------------------------------------------------------------
(* runReadOnlySync.                                                        *)

\* Invocation r goes on with the local state s; the others stay where they are.
SetRun(r, s) == run' = [run EXCEPT ![r] = s]

\* The gates that return before anything is read: tenant being deleted,
\* billing access restricted, mode without sync, platform not Meta.
Refuse(r) ==
  /\ run[r].pc = "idle"
  /\ SetRun(r, Ended(r, "done", "none"))
  /\ UNCHANGED <<dbVars, disc, rec, mon, histVars>>

\* Phase A: the account row is read, before the lease.  A disconnected account
\* is not syncable.
ReadAccount(r) ==
  /\ run[r].pc = "idle"
  /\ IF account.status = "disconnected"
     THEN SetRun(r, Ended(r, "done", "none"))
     ELSE SetRun(r, [run[r] EXCEPT !.pc = "acquire",
                                   !.snap = [link |-> account.link, legacy |-> account.legacy]])
  /\ UNCHANGED <<dbVars, disc, rec, mon, histVars>>

\* acquireSyncLease granted the lease: a fresh row, or an expired one taken over.
Acquire(r) ==
  /\ run[r].pc = "acquire"
  /\ CanAcquire(lease)
  /\ seq' = NextGeneration(lease, seq)
  /\ lease' = AcquiredRow(lease, seq, r)
  /\ SetRun(r, [run[r] EXCEPT !.pc = "leased",
                              !.handle = HandleOf(AcquiredRow(lease, seq, r)),
                              !.drops = drops])
  /\ UNCHANGED <<account, vault, links, dead, disc, rec, mon, histVars>>

\* acquireSyncLease found a live lease: a skipped_locked SyncRun, and the end.
SkipLocked(r) ==
  /\ run[r].pc = "acquire"
  /\ ~CanAcquire(lease)
  /\ seq' = NextGeneration(lease, seq)
  /\ SetRun(r, Ended(r, "done", "skipped_locked"))
  /\ UNCHANGED <<lease, account, vault, links, dead, disc, rec, mon, histVars>>

\* Phase A2: the SyncRun is opened; or live sync is off and the run returns.
OpenRun(r) ==
  /\ run[r].pc = "leased"
  /\ \/ SetRun(r, [run[r] EXCEPT !.pc = "fetch", !.status = "running"])
     \/ SetRun(r, [run[r] EXCEPT !.pc = "release"])
  /\ UNCHANGED <<dbVars, disc, rec, mon, histVars>>

\* A usable token: the expiry and the legacy columns are those of the row read
\* before the lease, the vault is read now.
HasToken(r) ==
  /\ run[r].snap.link \notin dead
  /\ vault \/ run[r].snap.legacy

\* fetchContent up to the provider call.
ResolveToken(r) ==
  /\ run[r].pc = "fetch"
  /\ IF HasToken(r)
     THEN SetRun(r, [run[r] EXCEPT !.pc = "http"])
     ELSE SetRun(r, [run[r] EXCEPT !.pc = "catch", !.err = "reconnect"])
  /\ UNCHANGED <<dbVars, disc, rec, mon, histVars>>

\* The provider answers: items, or an error that calls for a reconnect (token,
\* permission) or not (rate limit, unavailable, anything else).
ProviderAnswers(r) ==
  /\ run[r].pc = "http"
  /\ \/ \E n \in 0..MaxItems : SetRun(r, [run[r] EXCEPT !.pc = "ingest", !.todo = n])
     \/ \E e \in {"reconnect", "provider"} :
          SetRun(r, [run[r] EXCEPT !.pc = "catch", !.err = e])
  /\ UNCHANGED <<dbVars, disc, rec, mon, histVars>>

\* Mutant: a failing item is tried again instead of being passed over.
IngestItemRetried(r) ==
  /\ run[r].pc = "ingest"
  /\ run[r].todo > 0
  /\ ~run[r].gone
  /\ SetRun(r, [run[r] EXCEPT !.seen = @ \cup {"bad"}])
  /\ UNCHANGED <<dbVars, disc, rec, mon, histVars>>

\* One turn of the item loop: ingested (or a benign duplicate), or an isolated
\* failure.  The loop stops as soon as the lease is seen to be gone.
IngestItem(r) ==
  /\ run[r].pc = "ingest"
  /\ run[r].todo > 0
  /\ ~run[r].gone
  /\ \E o \in {"ok", "bad"} :
       SetRun(r, [run[r] EXCEPT !.todo = @ - 1, !.seen = @ \cup {o}])
  /\ UNCHANGED <<dbVars, disc, rec, mon, histVars>>

Verdict(seen) ==
  IF "bad" \notin seen THEN "completed"
  ELSE IF "ok" \in seen THEN "partial_success" ELSE "failed"

\* Mutants: each of the two predicates without the other.
WriteLandsByStatus(r) == account.status # "disconnected"
WriteLandsByLease(r) == Matches(lease, run[r].handle)

\* writeAccountIfLeaseHeld writes one row, rather than none.
WriteLands(r) ==
  /\ Matches(lease, run[r].handle)
  /\ account.status # "disconnected"

\* Phase D: the fenced account write and the SyncRun's end, one transaction.
Finish(r) ==
  /\ run[r].pc = "ingest"
  /\ run[r].todo = 0 \/ run[r].gone
  /\ IF ~run[r].gone /\ WriteLands(r)
     THEN /\ SetRun(r, [run[r] EXCEPT !.pc = "release", !.status = Verdict(run[r].seen)])
          /\ account' = IF Verdict(run[r].seen) = "failed"
                        THEN account ELSE [account EXCEPT !.health = "healthy"]
          /\ lastGen' = run[r].handle.gen
     ELSE /\ SetRun(r, [run[r] EXCEPT !.pc = "release", !.status = "interrupted"])
          /\ UNCHANGED <<account, lastGen>>
  /\ UNCHANGED <<lease, seq, vault, links, dead, disc, rec, mon, drops>>

CatchStatus(s) ==
  IF s.gone THEN "interrupted"
  ELSE IF s.err = "reconnect" THEN "permission_missing" ELSE "failed"

\* The catch block: interrupted when the lease is known to be gone; otherwise
\* the error's status, with a fenced account write whose result is ignored.
Catch(r) ==
  /\ run[r].pc = "catch"
  /\ SetRun(r, [run[r] EXCEPT !.pc = "release", !.status = CatchStatus(run[r])])
  /\ IF ~run[r].gone /\ WriteLands(r)
     THEN /\ account' = [account EXCEPT
                           !.status = IF run[r].err = "reconnect" THEN "expired" ELSE @,
                           !.health = "degraded"]
          /\ lastGen' = run[r].handle.gen
     ELSE UNCHANGED <<account, lastGen>>
  /\ UNCHANGED <<lease, seq, vault, links, dead, disc, rec, mon, drops>>

\* A transaction throws: before the SyncRun is open the run just ends, in
\* Phase D the catch block takes over, in the catch block the run ends with its
\* SyncRun still `running'.
DatabaseError(r) ==
  /\ \/ /\ run[r].pc \in {"leased", "catch"}
        /\ SetRun(r, [run[r] EXCEPT !.pc = "release"])
     \/ /\ run[r].pc = "ingest"
        /\ run[r].todo = 0 \/ run[r].gone
        /\ SetRun(r, [run[r] EXCEPT !.pc = "catch", !.err = "provider"])
  /\ UNCHANGED <<dbVars, disc, rec, mon, histVars>>

\* The finally block: the heartbeat is stopped and the lease released; a
\* failing DELETE is swallowed and the row is left to its expiry.
Release(r) ==
  /\ run[r].pc = "release"
  /\ SetRun(r, Ended(r, "done", run[r].status))
  /\ \/ lease' = Released(lease, run[r].handle)
     \/ UNCHANGED lease
  /\ UNCHANGED <<seq, account, vault, links, dead, disc, rec, mon, histVars>>

\* Mutant: the finally block forgets to stop the timer.
WorkingAndAfter == {"leased", "fetch", "http", "ingest", "catch", "release", "done"}

\* Where the heartbeat timer runs: from the lease to the finally block.
Working == {"leased", "fetch", "http", "ingest", "catch"}

\* tick(): the lease is renewed, or found to be gone.
Heartbeat(r) ==
  /\ run[r].pc \in Working
  /\ r \in BeatingRuns
  /\ ~run[r].gone
  /\ IF Matches(lease, run[r].handle)
     THEN lease' = Renewed(lease) /\ UNCHANGED run
     ELSE SetRun(r, [run[r] EXCEPT !.gone = TRUE]) /\ UNCHANGED lease
  /\ UNCHANGED <<seq, account, vault, links, dead, disc, rec, mon, histVars>>

\* leaseGone() turns true for another reason: the controller gave up after
\* failing heartbeats (see LeaseHeartbeat), or the worker is shutting down.
GiveUp(r) ==
  /\ run[r].pc \in Working
  /\ r \in BeatingRuns
  /\ ~run[r].gone
  /\ SetRun(r, [run[r] EXCEPT !.gone = TRUE])
  /\ UNCHANGED <<dbVars, disc, rec, mon, histVars>>

\* The process dies: no catch, no finally, no more heartbeats.
Crash(r) ==
  /\ run[r].pc \notin {"idle", "done", "crashed"}
  /\ SetRun(r, Ended(r, "crashed", run[r].status))
  /\ UNCHANGED <<dbVars, disc, rec, mon, histVars>>

-----------------------------------------------------------------------------
(* disconnectAccount.                                                      *)

\* Phase 1 (and 2, the provider call): the credential columns are read.
DiscRead(d) ==
  /\ disc[d].pc = "idle"
  /\ disc' = [disc EXCEPT ![d].pc = "revoke", ![d].legacy = account.legacy, ![d].link = links]
  /\ UNCHANGED <<dbVars, run, rec, mon, histVars>>

\* Phase 3 with no lease row to delete: nothing is locked, so an acquire can
\* still slip in before the transaction clears the account.
DiscDropNothing(d) ==
  /\ disc[d].pc = "revoke"
  /\ ~Present(lease)
  /\ disc' = [disc EXCEPT ![d].pc = "clear"]
  /\ drops' = drops + 1
  /\ UNCHANGED <<dbVars, run, rec, mon, lastGen>>

ClearedAccount == [status |-> "disconnected", health |-> "unknown", link |-> 0, legacy |-> FALSE]

\* The per-row compare-and-swap on the credential columns read in Phase 1.
AfterClear(d) == IF account.legacy = disc[d].legacy THEN ClearedAccount ELSE account

ClearAccount(d) ==
  /\ account' = AfterClear(d)
  /\ disc' = [disc EXCEPT ![d].pc = "done"]
  /\ UNCHANGED <<seq, vault, links, dead, run, rec, mon, lastGen>>

\* Phase 3 with a lease row: its lock makes delete and clear one step.
DiscDropAndClear(d) ==
  /\ disc[d].pc = "revoke"
  /\ Present(lease)
  /\ lease' = NoLease
  /\ drops' = drops + 1
  /\ ClearAccount(d)

DiscClear(d) ==
  /\ disc[d].pc = "clear"
  /\ UNCHANGED <<lease, drops>>
  /\ ClearAccount(d)

-----------------------------------------------------------------------------
(* linkMetaAssets on the existing row.                                     *)

\* The account transaction: metaConnectedAccountFields.  The legacy token
\* columns and the lease are not touched.
RecLink(c) ==
  /\ rec[c] = "idle"
  /\ rec' = [rec EXCEPT ![c] = "vault"]
  /\ links' = links + 1
  /\ account' = [account EXCEPT !.status = "active", !.health = "healthy", !.link = links + 1]
  /\ UNCHANGED <<lease, seq, vault, dead, run, disc, mon, histVars>>

\* The vault transaction stores and verifies the credential, or fails; a failed
\* reconnect keeps the account as the first transaction left it.
RecVault(c) ==
  /\ rec[c] = "vault"
  /\ rec' = [rec EXCEPT ![c] = "done"]
  /\ vault' \in {vault, TRUE}
  /\ UNCHANGED <<lease, seq, account, links, dead, run, disc, mon, histVars>>

-----------------------------------------------------------------------------
(* The watchers.                                                           *)

\* runTokenExpiryMonitor's discovery: accounts with an expiry and no problem
\* on record, classified by the expiry that was read; a token far from its
\* expiry is passed over.
MonDiscover(m) ==
  /\ mon[m] = "idle"
  /\ mon' = [mon EXCEPT ![m] =
                IF account.link = 0 \/ account.health = "degraded" THEN "done"
                ELSE IF account.link \in dead THEN "expired" ELSE "soon"]
  /\ UNCHANGED <<dbVars, run, disc, rec, histVars>>

\* Its later write, guarded only against a disconnected row.
MonWrite(m) ==
  /\ mon[m] \in {"expired", "soon"}
  /\ mon' = [mon EXCEPT ![m] = "done"]
  /\ account' = IF account.status = "disconnected" THEN account
                ELSE [account EXCEPT !.status = IF mon[m] = "expired" THEN "expired" ELSE @,
                                     !.health = "degraded"]
  /\ UNCHANGED <<lease, seq, vault, links, dead, run, disc, rec, histVars>>

\* Mutant: the late answer is written whatever the row has become.
HealthCheckUnguarded(v) ==
  /\ account' = [account EXCEPT !.health = v]
  /\ UNCHANGED <<lease, seq, vault, links, dead, run, disc, rec, mon, histVars>>

\* checkAccountToken and syncMetaAccountState: what the provider said some time
\* ago is written, if the row is not disconnected by now.  Nothing the check read
\* before goes into the write but the verdict; a transient answer writes none.
HealthCheck(v) ==
  /\ account.status # "disconnected"
  /\ account' = [account EXCEPT !.health = v]
  /\ UNCHANGED <<lease, seq, vault, links, dead, run, disc, rec, mon, histVars>>

-----------------------------------------------------------------------------
(* Time.                                                                   *)

Tick ==
  /\ Present(lease) /\ ~Expired(lease)
  /\ lease' = Aged(lease)
  /\ UNCHANGED <<seq, account, vault, links, dead, run, disc, rec, mon, histVars>>

\* The tokenExpiresAt written by some (re)connect passes.
TokenExpires(k) ==
  /\ k \notin dead
  /\ dead' = dead \cup {k}
  /\ UNCHANGED <<lease, seq, account, vault, links, run, disc, rec, mon, histVars>>

-----------------------------------------------------------------------------
RunStep(r) ==
  \/ Refuse(r) \/ ReadAccount(r) \/ Acquire(r) \/ SkipLocked(r) \/ OpenRun(r)
  \/ ResolveToken(r) \/ ProviderAnswers(r) \/ IngestItem(r) \/ Finish(r) \/ Catch(r)
  \/ DatabaseError(r) \/ Release(r)

DiscStep(d) == DiscRead(d) \/ DiscDropNothing(d) \/ DiscDropAndClear(d) \/ DiscClear(d)

Next ==
  \/ \E r \in Runs : RunStep(r) \/ Heartbeat(r) \/ GiveUp(r) \/ Crash(r)
  \/ \E d \in Disconnects : DiscStep(d)
  \/ \E c \in Reconnects : RecLink(c) \/ RecVault(c)
  \/ \E m \in Monitors : MonDiscover(m) \/ MonWrite(m)
  \/ \E v \in {"healthy", "degraded"} : HealthCheck(v)
  \/ Tick
  \/ \E k \in 1..links : TokenExpires(k)

Spec == Init /\ [][Next]_vars

\* A started run keeps taking its steps unless its process dies (the provider
\* call answers or times out), and time passes.
Fairness ==
  /\ \A r \in Runs : WF_vars(run[r].pc # "idle" /\ RunStep(r))
  /\ WF_vars(Tick)

FairSpec == Spec /\ Fairness
-----------------------------------------------------------------------------
(* What makes it correct.                                                  *)

\* Generation fencing: the row always names the newest acquisition, so a run
\* that was taken over or whose lease a disconnect deleted holds a lower
\* generation than whoever came after it (sync-lease.ts, V1.58.7).
NewestHolderOnRow ==
  Present(lease) =>
    \A r \in Runs : /\ run[r].handle.gen <= lease.gen
                    /\ run[r].handle.gen = lease.gen => lease.holder = r

\* A run's terminal write to the account never lands after the write of a run
\* that acquired the lease later: an old, slow request cannot overwrite the new
\* holder's state (writeAccountIfLeaseHeld).
WritesInGenerationOrder == [][lastGen' >= lastGen]_vars

\* Once a disconnect has issued its lease DELETE, no run that held a lease by
\* then writes the account any more, reconnected or not ("a stale completion
\* can never land after disconnect").
NoWriteAfterDisconnect ==
  [][\A r \in Runs : lastGen' # lastGen /\ lastGen' = run[r].handle.gen
                        => run[r].drops = drops]_vars

\* No late sync, monitor or health check brings a disconnected account back:
\* only a reconnect does.
OnlyReconnectRevives ==
  [][account.status = "disconnected" /\ account'.status # "disconnected"
       => links' = links + 1]_vars

\* A disconnected row keeps no credential columns, no expiry and no health
\* verdict, whoever was about to write what ("the row can never read
\* disconnected + healthy").
DisconnectedRowIsClean == account.status = "disconnected" => account = ClearedAccount

\* A run that ended or died without releasing its lease does not block the
\* account for ever: its row goes away or expires.
LeaseIsFreed ==
  \A r \in Runs :
    (run[r].pc \in {"done", "crashed"} /\ lease.holder = r) ~> (lease.holder # r \/ Expired(lease))

\* Every run that got the lease comes to an end.
RunsEnd == \A r \in Runs : run[r].pc = "leased" ~> run[r].pc \in {"done", "crashed"}

-----------------------------------------------------------------------------
(* The promise, and the mapping under which the system above keeps it.     *)

Fenced == INSTANCE FencedAccount
            WITH status <- account.status, token <- lease.gen, issued <- seq, written <- lastGen

\* Every step of the runs, the disconnects, the reconnects and the watchers is
\* a step of the fenced register, or none at all.
ImplementsFencedAccount == Fenced!Spec

-----------------------------------------------------------------------------
(* What the code's comments say and the code does not do: TLC refutes both. *)

\* "it can never overwrite the freshly reconnected lifecycle": a run whose
\* account was reconnected after the run read it does not mark it expired.
SyncSparesReconnect ==
  [][\A r \in Runs :
       (/\ run[r].pc = "catch" /\ run'[r].pc = "release"
        /\ account.status = "active" /\ account'.status = "expired")
         => run[r].snap.link = links]_vars

\* "a reconnected row matches zero rows and is NEVER clobbered": a disconnect
\* does not clear an account that was reconnected after its Phase 1.
DisconnectSparesReconnect ==
  [][\A d \in Disconnects :
       (/\ disc[d].pc # "done" /\ disc'[d].pc = "done"
        /\ account.status # "disconnected" /\ account'.status = "disconnected")
         => disc[d].link = links]_vars
=============================================================================
