---------------------------- MODULE TenantDeletion ----------------------------
(***************************************************************************)
(* The deletion of one tenant: requests of its owners that each go on to    *)
(* carry it out, passes of the worker that resume it, and beside them the   *)
(* logins and webhook events that began while the tenant was active.  Every *)
(* step is one statement or transaction, except the request and the final   *)
(* transaction, which are split where another transaction can come between. *)
(*                                                                          *)
(* An operation id is named after the request that generated it.            *)
(***************************************************************************)
EXTENDS Naturals, FiniteSets

CONSTANTS
  Requests,    \* calls of deleteTenant
  Resumers,    \* worker processes that resume stranded deletions
  Accounts,    \* connected accounts of the tenant
  Logins,      \* logins into the tenant
  Hooks,       \* webhook events stored for its accounts
  None,        \* no operation
  MaxFaults    \* how many statements fail or processes die

ASSUME NamesAssumption == Requests \cap Resumers = {} /\ None \notin Requests
ASSUME FaultsAssumption == MaxFaults \in Nat
ASSUME AccountsAssumption == IsFiniteSet(Accounts)

VARIABLES
  tenant,     \* Tenant.deletionState, or that the row is gone
  op,         \* Tenant.deletionOperationId
  receipt,    \* TenantDeletionReceipt by operation: status and providerAccountCount
  run,        \* per request and resumer: where it is
  connected,  \* the accounts not yet disconnected
  login,      \* per login: where it is and what its session row says
  hook,       \* per webhook event: whether it is linked to the tenant
  faults      \* how many faults there were

vars == <<tenant, op, receipt, run, connected, login, hook, faults>>
Runs == Requests \cup Resumers

-----------------------------------------------------------------------------
Stages == {"accounts", "leases", "sessions", "webhooks", "read"}

Pcs == {"idle", "flipped", "delete", "rewrite", "failed", "ended"} \cup Stages
Counts == 0..Cardinality(Accounts)
Receipt == [status : {"none", "requested", "failed", "completed"}, count : Counts]
Run == [pc : Pcs, op : Requests \cup {None}, todo : SUBSET Accounts, count : Counts,
        revoke : SUBSET Logins]
Login == [pc : {"start", "resolved", "inserted", "answered", "refused"},
          row : {"none", "live", "revoked"}]

TypeOK ==
  /\ tenant \in {"active", "deleting", "gone"}
  /\ op \in Requests \cup {None}
  /\ receipt \in [Requests -> Receipt]
  /\ run \in [Runs -> Run]
  /\ \A r \in Runs : run[r].pc \in Stages => run[r].op \in Requests
  /\ connected \subseteq Accounts
  /\ login \in [Logins -> Login]
  /\ hook \in [Hooks -> {"stored", "matched", "linked", "removed"}]
  /\ faults \in 0..MaxFaults

Begun(pc, o) == [pc |-> pc, op |-> o, todo |-> {}, count |-> 0, revoke |-> {}]

Init ==
  /\ tenant = "active" /\ op = None
  /\ receipt = [o \in Requests |-> [status |-> "none", count |-> 0]]
  /\ run = [r \in Runs |-> Begun("idle", None)]
  /\ connected = Accounts
  /\ login = [l \in Logins |-> [pc |-> "start", row |-> "none"]]
  /\ hook = [h \in Hooks |-> "stored"]
  /\ faults = 0

Go(r, pc) == run' = [run EXCEPT ![r].pc = pc]
\* A request runs once, a resumer is called again by the next tick.
Ended(r) == IF r \in Requests THEN "ended" ELSE "idle"

Live == {l \in Logins : login[l].row = "live"}
Revoked(L) == [l \in Logins |-> IF l \in L /\ login[l].row = "live"
                                THEN [login[l] EXCEPT !.row = "revoked"] ELSE login[l]]

-----------------------------------------------------------------------------
(* requestTenantDeletion.                                                    *)

\* The conditional UPDATE locks the tenant's row, the receipt is written and the
\* sessions there are then are revoked; nothing of it is visible before the commit.
Flip(r) ==
  /\ run[r].pc = "idle" /\ tenant = "active"
  /\ \A s \in Requests : run[s].pc # "flipped"
  /\ run' = [run EXCEPT ![r] = [Begun("flipped", r) EXCEPT !.revoke = Live]]
  /\ UNCHANGED <<tenant, op, receipt, connected, login, hook, faults>>

Commit(r) ==
  /\ run[r].pc = "flipped"
  /\ tenant' = "deleting" /\ op' = r
  /\ receipt' = [receipt EXCEPT ![r].status = "requested"]
  /\ login' = Revoked(run[r].revoke)
  /\ run' = [run EXCEPT ![r] = Begun("accounts", r)]
  /\ UNCHANGED <<connected, hook, faults>>

\* The tenant is deleting already: the request joins the operation.
Converge(r) ==
  /\ run[r].pc = "idle" /\ tenant = "deleting"
  /\ receipt' = [receipt EXCEPT ![op].status = IF @ = "none" THEN "requested" ELSE @]
  /\ login' = Revoked(Live)
  /\ run' = [run EXCEPT ![r] = Begun("accounts", op)]
  /\ UNCHANGED <<tenant, op, connected, hook, faults>>

NotFound(r) ==
  /\ run[r].pc = "idle" /\ tenant = "gone"
  /\ Go(r, "ended")
  /\ UNCHANGED <<tenant, op, receipt, connected, login, hook, faults>>

\* Mutant: only an operation that has failed on the record is resumed.
ResumeFailed(r) ==
  /\ run[r].pc = "idle" /\ tenant = "deleting" /\ receipt[op].status = "failed"
  /\ run' = [run EXCEPT ![r] = Begun("accounts", op)]
  /\ UNCHANGED <<tenant, op, receipt, connected, login, hook, faults>>

\* resumePendingTenantDeletions; the operation is older than a minute.
Resume(r) ==
  /\ run[r].pc = "idle" /\ tenant = "deleting"
  /\ run' = [run EXCEPT ![r] = Begun("accounts", op)]
  /\ UNCHANGED <<tenant, op, receipt, connected, login, hook, faults>>

-----------------------------------------------------------------------------
(* executeTenantDeletion.                                                    *)

\* The accounts are listed; with the tenant's row they are gone too.
ListAccounts(r) ==
  LET all == IF tenant = "gone" THEN {} ELSE Accounts
  IN  /\ run[r].pc = "accounts" /\ run[r].todo = {}
      /\ run' = [run EXCEPT ![r].todo = all, ![r].count = Cardinality(all),
                            ![r].pc = IF all = {} THEN "leases" ELSE "accounts"]
      /\ UNCHANGED <<tenant, op, receipt, connected, login, hook, faults>>

\* disconnectAccount, for one after the other.
Disconnect(r) ==
  /\ run[r].pc = "accounts"
  /\ \E a \in run[r].todo :
       /\ connected' = connected \ {a}
       /\ run' = [run EXCEPT ![r].todo = @ \ {a},
                             ![r].pc = IF run[r].todo = {a} THEN "leases" ELSE "accounts"]
  /\ UNCHANGED <<tenant, op, receipt, login, hook, faults>>

DeleteLeases(r) ==
  /\ run[r].pc = "leases"
  /\ Go(r, "sessions")
  /\ UNCHANGED <<tenant, op, receipt, connected, login, hook, faults>>

\* Mutant: the sessions are left to what the request revoked.
RevokeSessionsAtRequest(r) ==
  /\ run[r].pc = "sessions"
  /\ Go(r, "webhooks")
  /\ UNCHANGED <<tenant, op, receipt, connected, login, hook, faults>>

RevokeSessions(r) ==
  /\ run[r].pc = "sessions"
  /\ login' = Revoked(Live)
  /\ Go(r, "webhooks")
  /\ UNCHANGED <<tenant, op, receipt, connected, hook, faults>>

PurgeWebhooks(r) ==
  /\ run[r].pc = "webhooks"
  /\ hook' = [h \in Hooks |-> IF hook[h] = "linked" THEN "removed" ELSE hook[h]]
  /\ Go(r, "read")
  /\ UNCHANGED <<tenant, op, receipt, connected, login, faults>>

\* completeTenantDeletion: the tenant is read, and then deleted with everything
\* that refers to it, or found to be gone.
ReadTenant(r) ==
  /\ run[r].pc = "read"
  /\ Go(r, IF tenant = "gone" THEN "rewrite" ELSE "delete")
  /\ UNCHANGED <<tenant, op, receipt, connected, login, hook, faults>>

Completed(r) ==
  receipt' = [receipt EXCEPT ![run[r].op] = [status |-> "completed", count |-> run[r].count]]

\* Mutant: the webhook events are left to the purge.
DeleteTenantOnly(r) ==
  /\ run[r].pc = "delete" /\ tenant = "deleting"
  /\ tenant' = "gone"
  /\ login' = [l \in Logins |-> [login[l] EXCEPT !.row = "none"]]
  /\ Completed(r)
  /\ Go(r, Ended(r))
  /\ UNCHANGED <<op, connected, hook, faults>>

DeleteTenant(r) ==
  /\ run[r].pc = "delete" /\ tenant = "deleting"
  /\ tenant' = "gone"
  /\ login' = [l \in Logins |-> [login[l] EXCEPT !.row = "none"]]
  /\ hook' = [h \in Hooks |-> IF hook[h] = "linked" THEN "removed" ELSE hook[h]]
  /\ Completed(r)
  /\ Go(r, Ended(r))
  /\ UNCHANGED <<op, connected, faults>>

\* Another run has deleted the row since it was read: the transaction fails.
DeleteMissed(r) ==
  /\ run[r].pc = "delete" /\ tenant = "gone"
  /\ Go(r, "failed")
  /\ UNCHANGED <<tenant, op, receipt, connected, login, hook, faults>>

\* The receipt of the operation is written again.
Rewrite(r) ==
  /\ run[r].pc = "rewrite"
  /\ Completed(r)
  /\ Go(r, Ended(r))
  /\ UNCHANGED <<tenant, op, connected, login, hook, faults>>

\* Mutant: whatever the receipt says.
MarkFailedAnyway(r) ==
  /\ run[r].pc = "failed"
  /\ receipt' = [receipt EXCEPT ![run[r].op].status = "failed"]
  /\ Go(r, Ended(r))
  /\ UNCHANGED <<tenant, op, connected, login, hook, faults>>

\* markTenantDeletionFailed.
MarkFailed(r) ==
  /\ run[r].pc = "failed"
  /\ receipt' = [receipt EXCEPT ![run[r].op].status = IF @ # "completed" THEN "failed" ELSE @]
  /\ Go(r, Ended(r))
  /\ UNCHANGED <<tenant, op, connected, login, hook, faults>>

\* Mutant: a provider that fails is skipped.
FaultSkipped(r) ==
  /\ run[r].pc \notin {"idle", "ended"} /\ faults < MaxFaults
  /\ \/ run[r].pc = "accounts" /\ Go(r, "leases")
     \/ run[r].pc \notin {"accounts", "flipped", "failed"} /\ Go(r, "failed")
     \/ Go(r, Ended(r))
  /\ faults' = faults + 1
  /\ UNCHANGED <<tenant, op, receipt, connected, login, hook>>

\* A statement fails: of the execution, which is then recorded; or the process
\* dies, anywhere, rolling back an open transaction.
Fault(r) ==
  /\ run[r].pc \notin {"idle", "ended"} /\ faults < MaxFaults
  /\ \/ run[r].pc \notin {"flipped", "failed"} /\ Go(r, "failed")
     \/ Go(r, Ended(r))
  /\ faults' = faults + 1
  /\ UNCHANGED <<tenant, op, receipt, connected, login, hook>>

-----------------------------------------------------------------------------
(* createUserSession.                                                        *)

ResolveTenant(l) ==
  /\ login[l].pc = "start" /\ tenant = "active"
  /\ login' = [login EXCEPT ![l].pc = "resolved"]
  /\ UNCHANGED <<tenant, op, receipt, run, connected, hook, faults>>

\* The row refers to the tenant, whatever its state.
InsertSession(l) ==
  /\ login[l].pc = "resolved"
  /\ login' = [login EXCEPT ![l] = IF tenant = "gone" THEN [pc |-> "refused", row |-> "none"]
                                   ELSE [pc |-> "inserted", row |-> "live"]]
  /\ UNCHANGED <<tenant, op, receipt, run, connected, hook, faults>>

\* The session is handed out if the tenant is still active.
Hydrate(l) ==
  /\ login[l].pc = "inserted"
  /\ login' = [login EXCEPT ![l].pc = IF tenant = "active" THEN "answered" ELSE "refused"]
  /\ UNCHANGED <<tenant, op, receipt, run, connected, hook, faults>>

(* processPendingWebhookEvents: the account's tenant is looked up, then linked. *)
MatchWebhook(h) ==
  /\ hook[h] = "stored" /\ tenant = "active"
  /\ hook' = [hook EXCEPT ![h] = "matched"]
  /\ UNCHANGED <<tenant, op, receipt, run, connected, login, faults>>

LinkWebhook(h) ==
  /\ hook[h] = "matched"
  /\ hook' = [hook EXCEPT ![h] = IF tenant = "gone" THEN "stored" ELSE "linked"]
  /\ UNCHANGED <<tenant, op, receipt, run, connected, login, faults>>

-----------------------------------------------------------------------------
Step(r) ==
  \/ Commit(r)
  \/ ListAccounts(r) \/ Disconnect(r) \/ DeleteLeases(r) \/ RevokeSessions(r) \/ PurgeWebhooks(r)
  \/ ReadTenant(r) \/ DeleteTenant(r) \/ DeleteMissed(r) \/ Rewrite(r) \/ MarkFailed(r)

Next ==
  \/ \E r \in Runs : Step(r) \/ Fault(r)
  \/ \E r \in Requests : Flip(r) \/ Converge(r) \/ NotFound(r)
  \/ \E r \in Resumers : Resume(r)
  \/ \E l \in Logins : ResolveTenant(l) \/ InsertSession(l) \/ Hydrate(l)
  \/ \E h \in Hooks : MatchWebhook(h) \/ LinkWebhook(h)

\* A process that runs goes on, and the worker's tick resumes what is pending.
Fairness == /\ \A r \in Runs : WF_vars(Step(r))
            /\ \A r \in Resumers : WF_vars(Resume(r))

Spec == Init /\ [][Next]_vars /\ Fairness

-----------------------------------------------------------------------------
\* The receipt of the one operation says completed exactly when the tenant is
\* gone: two requests, or a request and a resumption, make one deletion, and the
\* failure of the one that came second does not undo the record.
ReceiptIsTrue ==
  /\ \A o \in Requests : receipt[o].status # "none" => o = op
  /\ tenant = "gone" <=> \E o \in Requests : receipt[o].status = "completed"

\* The tenant is not deleted before every account was disconnected, whichever run
\* deletes it and whatever failed before.
CleanupComesFirst == tenant = "gone" => connected = {}

\* Once a run has revoked the sessions of the deleting tenant, none that was handed
\* out is left: also not one that a login inserted and handed out while the request
\* was about to commit.
SessionsEnd ==
  \A r \in Runs : run[r].pc \in {"webhooks", "read", "delete"} =>
    \A l \in Live : login[l].pc # "answered"

\* Nothing a late login or webhook event writes survives the tenant.
NothingSurvives == tenant = "gone" => Live = {} /\ \A h \in Hooks : hook[h] # "linked"

\* A deletion that was requested is completed in the end, by the request or by the
\* worker, as long as faults do not go on for ever.
DeletionCompletes == tenant = "deleting" ~> tenant = "gone"

\* "never downgrade / rewrite an existing receipt": not so, a run that arrives after
\* the completion writes its own counts.
ReceiptIsKept == [][\A o \in Requests : receipt[o].status = "completed" => receipt'[o] = receipt[o]]_vars
=============================================================================
