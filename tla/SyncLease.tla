------------------------------ MODULE SyncLease ------------------------------
(***************************************************************************)
(* The account-level sync lease: one row of "sync_leases" per connected    *)
(* account, and the statements of packages/db/src/sync-lease.ts that read  *)
(* and write it.  Every statement is one SQL statement on one row, so each *)
(* is an operator from the row before to the row after.                    *)
(*                                                                         *)
(* Time is kept relative: `left' is expiresAt - now, so that the passing   *)
(* of time decrements it and no clock has to be bounded.  It sticks at -1, *)
(* the only value that satisfies expiresAt < now.                          *)
(***************************************************************************)
EXTENDS Integers

CONSTANTS
  Runs,       \* the invocations of runReadOnlySync; each one is a lease holder
  NoHolder,   \* the holder of the absent row
  LeaseTtl    \* SYNC_LEASE_TTL_MS, in ticks

ASSUME NoHolderAssumption == NoHolder \notin Runs
ASSUME LeaseTtlAssumption == LeaseTtl \in Nat

\* The row of the table, and the handle (LeaseHandle) an acquirer keeps of it.
LeaseRow == [id : Nat, holder : Runs \cup {NoHolder}, gen : Nat, left : -1..LeaseTtl]
LeaseHandle == [id : Nat, holder : Runs \cup {NoHolder}, gen : Nat]

NoLease == [id |-> 0, holder |-> NoHolder, gen |-> 0, left |-> -1]
NoHandle == [id |-> 0, holder |-> NoHolder, gen |-> 0]

Present(row) == row.gen # 0
Expired(row) == row.left < 0

\* acquireSyncLease: the INSERT ... ON CONFLICT DO UPDATE ... WHERE expiresAt < now.
CanAcquire(row) == ~Present(row) \/ Expired(row)

\* Mutant: a takeover keeps the displaced holder's generation.
NextGenerationReused(row, seq) == IF Present(row) /\ Expired(row) THEN row.gen ELSE seq + 1

\* nextval is evaluated by the INSERT's VALUES and, on the conflict path, once
\* more by the DO UPDATE; a conflict with a live row burns the first one.
NextGeneration(row, seq) == IF Present(row) /\ Expired(row) THEN seq + 2 ELSE seq + 1

\* The row's id is the inserting acquirer's random uuid, kept by a takeover;
\* the generation of the insertion stands for it.
AcquiredRow(row, seq, r) ==
  [id     |-> IF Present(row) THEN row.id ELSE NextGeneration(row, seq),
   holder |-> r,
   gen    |-> NextGeneration(row, seq),
   left   |-> LeaseTtl]

HandleOf(row) == [id |-> row.id, holder |-> row.holder, gen |-> row.gen]

\* Mutant: the row's id alone, which a takeover keeps.
MatchesById(row, handle) == row.id = handle.id

\* The WHERE clause shared by heartbeat, release and the fenced account write.
Matches(row, handle) ==
  /\ row.id = handle.id
  /\ row.holder = handle.holder
  /\ row.gen = handle.gen

\* Mutant: one tick too many.
RenewedTooLong(row) == [row EXCEPT !.left = LeaseTtl + 1]

\* heartbeatSyncLease on a matching row: a fresh expiry.  It does not look at
\* the old one, so a lease that expired unnoticed comes back to life.
Renewed(row) == [row EXCEPT !.left = LeaseTtl]

\* releaseSyncLease: DELETE of the matching row, nothing otherwise.
Released(row, handle) == IF Matches(row, handle) THEN NoLease ELSE row

\* One tick of a live lease's time.
Aged(row) == [row EXCEPT !.left = @ - 1]
=============================================================================
