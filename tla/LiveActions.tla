------------------------------ MODULE LiveActions ------------------------------
(***************************************************************************)
(* Hiding comments on a Facebook page: the sync workers' autonomous hides,  *)
(* the live hides and approvals operators click, and the rollbacks.  Every  *)
(* step is one short transaction or one call of Graph; nothing is locked    *)
(* between them.  The items belong to one brand and one connected account,  *)
(* and the environment allows live hides.                                   *)
(***************************************************************************)
EXTENDS Naturals, Sequences, FiniteSets

CONSTANTS
  Items,      \* comments, each with its queue item
  Workers,    \* sync workers
  Clicks,     \* calls of approveQueueItem and executeLiveHide
  Rollbacks,  \* calls of rollbackExecution
  None,       \* no item
  MaxFaults   \* how many faults occur, each of another kind

ASSUME ActorsAssumption == Workers \cap Clicks = {} /\ None \notin Items
ASSUME FaultsAssumption == MaxFaults \in Nat

VARIABLES
  comment,   \* per item: the comment on Facebook; gone if deleted or not to be hidden
  rows,      \* per item and trigger: the PlatformActionExecution rows, oldest first
  queue,     \* per item: ActionQueueItem.queueState; approved, executed and no_action are settled
  account,   \* the account: status active, connectionStatus (with what follows from it)
  att,       \* per worker and click: the attempt under way
  rb,        \* per rollback: where it is and which row it restores
  faults     \* the kinds of fault there were

vars == <<comment, rows, queue, account, att, rb, faults>>
Attempts == Workers \cup Clicks

-----------------------------------------------------------------------------
Trigger(a) == IF a \in Workers THEN "autonomous" ELSE "approval"
Conns == {"connected", "lapsed", "errored", "reconnect", "disconnected"}
Reasons == {"none", "account_not_active", "reconnect_required", "token_expired", "unhealthy_account",
            "safety", "comment_deleted_or_unavailable", "provider"}
Triggers == {"autonomous", "approval"}
Rows == [status : {"blocked", "dry_run", "executed", "failed", "rolled_back"}, reason : Reasons]

Phases == {"idle", "look", "check", "preflight", "post", "verify", "record", "fallback", "final",
           "ended"}
Statuses == {"none", "blocked", "dry_run", "executed", "failed"}
Attempt == [pc : Phases, item : Items \cup {None}, live : BOOLEAN, then : BOOLEAN,
            active : BOOLEAN, conn : Conns, healthy : BOOLEAN, status : Statuses, reason : Reasons]
Rollback == [pc : {"idle", "unhide", "write", "ended"}, item : Items \cup {None},
             trigger : Triggers, row : Nat]

\* An item that was never ingested has no queue item and no executions.
TypeOK ==
  /\ comment \in [Items -> {"visible", "hidden", "gone"}]
  /\ rows \in [Items -> [Triggers -> Seq(Rows)]]
  /\ queue \in [Items -> {"absent", "dry_run", "approval_required", "rejected", "settled"}]
  /\ \A i \in Items : queue[i] = "absent" => \A t \in Triggers : rows[i][t] = << >>
  /\ account \in [active : BOOLEAN, conn : Conns]
  /\ att \in [Attempts -> Attempt]
  /\ rb \in [Rollbacks -> Rollback]
  /\ faults \subseteq {"crash", "lost", "ignored", "unread", "dead"}

Idle == [pc |-> "idle", item |-> None, live |-> FALSE, then |-> FALSE, active |-> TRUE,
         conn |-> "connected", healthy |-> TRUE, status |-> "none", reason |-> "none"]

Init ==
  /\ comment = [i \in Items |-> "visible"]
  /\ rows = [i \in Items |-> [t \in Triggers |-> << >>]]
  /\ queue = [i \in Items |-> "absent"]
  /\ account = [active |-> TRUE, conn |-> "connected"]
  /\ att = [a \in Attempts |-> Idle]
  /\ rb = [r \in Rollbacks |-> [pc |-> "idle", item |-> None, trigger |-> "approval", row |-> 0]]
  /\ faults = {}

Go(a, pc) == att' = [att EXCEPT ![a].pc = pc]
\* What a call was asked to do, without its copy of the account.
Called(b) == [Idle EXCEPT !.item = b.item, !.live = b.live, !.then = b.then]
\* The attempt is to be recorded with this result.
Result(a, status, reason) ==
  att' = [att EXCEPT ![a] = [Called(@) EXCEPT !.pc = "record", !.status = status, !.reason = reason]]
\* The attempt returns an earlier row, or one it has written.
Return(a, status) == att' = [att EXCEPT ![a] = [Called(@) EXCEPT !.pc = "final", !.status = status]]

Fault(kind) == kind \notin faults /\ Cardinality(faults) < MaxFaults /\ faults' = faults \cup {kind}

Has(i, t, status) == \E k \in DOMAIN rows[i][t] : rows[i][t][k].status = status
Executed(i, t) == Has(i, t, "executed")

\* resolveQueueItem: a rejected item is left alone.
Resolved(i) == queue' = [queue EXCEPT ![i] = IF @ = "rejected" THEN @ ELSE "settled"]
\* What is written of an account whose token Graph refused: to a POST, and to a read.
Errored == account' = [account EXCEPT !.conn = IF @ \in {"connected", "lapsed"} THEN "errored" ELSE @]
Reconnectable == account' = [account EXCEPT !.conn = "reconnect"]
Snapshot(b) == [b EXCEPT !.active = account.active, !.conn = account.conn,
                         !.healthy = account.conn \in {"connected", "lapsed"}]

-----------------------------------------------------------------------------
(* Callers.                                                                  *)

\* A new comment is queued, the safety context is loaded and the hide attempted.
Ingest(w) ==
  /\ att[w].pc = "idle"
  /\ \E i \in Items :
       /\ queue[i] = "absent"
       /\ queue' = [queue EXCEPT ![i] = "dry_run"]
       /\ att' = [att EXCEPT ![w] = [Snapshot(Idle) EXCEPT !.pc = "look", !.item = i, !.live = TRUE]]
  /\ UNCHANGED <<comment, rows, account, rb, faults>>

Found(i) == queue[i] # "absent"

\* runHideForQueueItem reads the account.
Begun(i, live, then) == [Snapshot(Idle) EXCEPT !.pc = "look", !.item = i, !.live = live, !.then = then]

\* approveQueueItem, and retryQueueItem, which leaves the queue alone: a dry run.
Approve(c) ==
  /\ att[c].pc = "idle"
  /\ \E i \in Items :
       /\ Found(i)
       /\ queue' = [queue EXCEPT ![i] = "settled"] \/ UNCHANGED queue
       /\ att' = [att EXCEPT ![c] = Begun(i, FALSE, FALSE)]
  /\ UNCHANGED <<comment, rows, account, rb, faults>>

\* executeLiveHide: a dry run if there is none, and then the live attempt.
ExecuteLiveHide(c) ==
  /\ att[c].pc = "idle"
  /\ \E i \in Items :
       LET dry == Has(i, "approval", "dry_run")
       IN  Found(i) /\ att' = [att EXCEPT ![c] = Begun(i, dry, ~dry)]
  /\ UNCHANGED <<comment, rows, queue, account, rb, faults>>

\* approveWithoutHide, rejectQueueItem, markHandledQueueItem: the last one wins.
Decide(i) ==
  /\ Found(i)
  /\ \E state \in {"settled", "rejected"} : queue' = [queue EXCEPT ![i] = state]
  /\ UNCHANGED <<comment, rows, account, att, rb, faults>>

\* Mutant: a hide the safety context refused stays with the machine.
RoutesTokenOnly(a) == att[a].status = "blocked" /\ att[a].reason # "safety"

\* What the caller does with the result: what blocked an autonomous hide is left to
\* a human, unless nobody can act on it.
Routes(a) == att[a].status = "blocked" /\ att[a].reason # "comment_deleted_or_unavailable"

Final(a) ==
  LET i == att[a].item
      again == att[a].then
  IN  /\ att[a].pc = "final"
      /\ IF a \in Workers
         THEN \/ att[a].status = "executed" /\ Resolved(i)
              \/ Routes(a) /\ queue' = [queue EXCEPT ![i] = "approval_required"]
              \/ att[a].status # "executed" /\ ~Routes(a) /\ UNCHANGED queue
         ELSE IF att[a].status = "executed" \/ att[a].reason = "comment_deleted_or_unavailable"
         THEN Resolved(i) ELSE UNCHANGED queue
      /\ att' = [att EXCEPT ![a] = IF a \in Workers THEN Idle
                                   ELSE IF again
                                   THEN Begun(i, TRUE, FALSE)
                                   ELSE [Idle EXCEPT !.pc = "ended"]]
      /\ UNCHANGED <<comment, rows, account, rb, faults>>

-----------------------------------------------------------------------------
(* attemptFacebookHide.                                                      *)

\* What the gate says of the account.
Gate(b) ==
  IF ~b.active THEN "account_not_active"
  ELSE IF b.conn \in {"reconnect", "disconnected"} THEN "reconnect_required"
  ELSE IF b.conn \in {"lapsed", "errored"} THEN "token_expired"
  ELSE IF ~b.healthy THEN "unhealthy_account" ELSE "none"

\* The gate with the account b: blocked as before, blocked, a dry run, or on to Graph.
Gated(a, b) ==
  LET why == Gate(b)
      done == Called(b)
  IN  att' = [att EXCEPT ![a] =
        IF why # "none" /\ why = b.reason
        THEN [done EXCEPT !.pc = "final", !.status = "blocked"]
        ELSE IF why # "none" THEN [done EXCEPT !.pc = "record", !.status = "blocked", !.reason = why]
        ELSE IF ~b.live THEN [done EXCEPT !.pc = "record", !.status = "dry_run"]
        ELSE [done EXCEPT !.pc = "preflight"]]

Stale(b) == b.conn # "connected" /\ b.active

\* The earlier executions of the same action, the safety envelope and the gate.  The
\* caller says whether this is a retry, which the dry run before a live attempt is not;
\* the context that only a worker loads allows the hide or not.
Look(a, retry, allow) ==
  LET b == att[a]
      key == rows[b.item][Trigger(a)]
      last == key[Len(key)]
      known == [b EXCEPT !.pc = "check", !.reason = IF key # << >> /\ last.status = "blocked"
                                                   THEN last.reason ELSE "none"]
  IN  /\ b.pc = "look" /\ (retry => a \in Clicks /\ ~b.then) /\ (~allow => a \in Workers)
      /\ IF Executed(b.item, Trigger(a)) THEN Return(a, "executed")
         ELSE IF ~b.live /\ Has(b.item, Trigger(a), "dry_run") THEN Return(a, "dry_run")
         ELSE IF key # << >> /\ last.status = "failed" /\ ~retry THEN Return(a, "failed")
         ELSE IF ~allow THEN Result(a, "blocked", "safety")
         ELSE IF Stale(b) THEN att' = [att EXCEPT ![a] = known]
         ELSE Gated(a, known)
      /\ UNCHANGED <<comment, rows, queue, account, rb, faults>>

\* revalidateAndRepair: Graph cannot be asked, and nothing is known.
Unasked(a) ==
  /\ att[a].pc = "check" /\ Fault("unread") /\ Gated(a, att[a])
  /\ UNCHANGED <<comment, rows, queue, account, rb>>

\* A token that works repairs the row, unless it was
\* disconnected, and the attempt's copy, but for its health.
Repair(a) ==
  /\ att[a].pc = "check"
  /\ account' = IF account.active THEN [account EXCEPT !.conn = "connected"] ELSE account
  /\ Gated(a, [att[a] EXCEPT !.conn = "connected"])
  /\ UNCHANGED <<comment, rows, queue, rb, faults>>

Refute(a) ==
  /\ att[a].pc = "check"
  /\ Fault("dead") /\ Reconnectable
  /\ Gated(a, [att[a] EXCEPT !.conn = "reconnect"])
  /\ UNCHANGED <<comment, rows, queue, rb>>

\* commentPreflight.
Preflight(a) ==
  LET i == att[a].item
  IN  /\ att[a].pc = "preflight"
      /\ \/ Fault("unread") /\ Result(a, "failed", "provider") /\ UNCHANGED <<account, queue>>
         \/ /\ Fault("dead") /\ Reconnectable
            /\ Result(a, "blocked", "reconnect_required") /\ UNCHANGED queue
         \/ /\ comment[i] = "gone" /\ Resolved(i)
            /\ Result(a, "blocked", "comment_deleted_or_unavailable") /\ UNCHANGED <<account, faults>>
         \/ comment[i] = "hidden" /\ Result(a, "executed", "none") /\ UNCHANGED <<account, queue, faults>>
         \/ comment[i] = "visible" /\ Go(a, "post") /\ UNCHANGED <<account, queue, faults>>
      /\ UNCHANGED <<comment, rows, rb>>

Hidden(i) == comment' = [comment EXCEPT ![i] = IF @ = "gone" THEN @ ELSE "hidden"]

\* Mutant: an answer that is lost counts as a hide that was blocked.
PostBlocked(a) ==
  LET i == att[a].item
  IN  /\ att[a].pc = "post"
      /\ \/ comment[i] # "gone" /\ Hidden(i) /\ Go(a, "verify") /\ UNCHANGED faults
         \/ comment[i] = "gone" /\ Result(a, "failed", "provider") /\ UNCHANGED <<comment, faults>>
         \/ Fault("lost") /\ (Hidden(i) \/ UNCHANGED comment) /\ Result(a, "blocked", "provider")
      /\ UNCHANGED <<rows, queue, account, rb>>

\* The POST: it hides the comment, it fails before or after it did, it is answered
\* without effect, or the token is refused.
Post(a) ==
  LET i == att[a].item
  IN  /\ att[a].pc = "post"
      /\ \/ comment[i] # "gone" /\ Hidden(i) /\ Go(a, "verify") /\ UNCHANGED faults
         \/ comment[i] = "gone" /\ Result(a, "failed", "provider") /\ UNCHANGED <<comment, faults>>
         \/ Fault("lost") /\ (Hidden(i) \/ UNCHANGED comment) /\ Result(a, "failed", "provider")
         \/ Fault("ignored") /\ Go(a, "verify") /\ UNCHANGED comment
         \/ Fault("dead") /\ Result(a, "failed", "token_expired") /\ UNCHANGED comment
      /\ UNCHANGED <<rows, queue, account, rb>>

\* Mutant: the answer to the POST is believed.
VerifyNothing(a) ==
  /\ att[a].pc = "verify" /\ Result(a, "executed", "none")
  /\ UNCHANGED <<comment, rows, queue, account, rb, faults>>

\* recordVerifiedHide: only an answer that shows the comment contradicts the POST.
Verify(a) ==
  LET i == att[a].item
  IN  /\ att[a].pc = "verify"
      /\ \/ Fault("unread") /\ Result(a, "executed", "none")
         \/ comment[i] = "visible" /\ Result(a, "failed", "provider") /\ UNCHANGED faults
         \/ comment[i] # "visible" /\ Result(a, "executed", "none") /\ UNCHANGED faults
      /\ UNCHANGED <<comment, rows, queue, account, rb>>

\* Mutant: there is no unique index.
UniqueNever(a) == FALSE

\* record: the index admits one executed row per item and trigger.
Unique(a) == att[a].status = "executed" /\ Executed(att[a].item, Trigger(a))

Record(a) ==
  LET i == att[a].item
      b == att[a]
  IN  /\ b.pc = "record"
      /\ IF Unique(a) THEN Go(a, "fallback") /\ UNCHANGED <<rows, account>>
         ELSE /\ rows' = [rows EXCEPT ![i][Trigger(a)] = Append(@, [status |-> b.status, reason |-> b.reason])]
              /\ Go(a, "final")
              /\ IF b.status = "failed" /\ b.reason = "token_expired" THEN Errored ELSE UNCHANGED account
      /\ UNCHANGED <<comment, queue, rb, faults>>

\* The row that came first is looked for; without it the attempt throws.
Fallback(a) ==
  /\ att[a].pc = "fallback"
  /\ IF Executed(att[a].item, Trigger(a)) THEN Go(a, "final")
     ELSE att' = [att EXCEPT ![a] = IF a \in Workers THEN Idle ELSE [Idle EXCEPT !.pc = "ended"]]
  /\ UNCHANGED <<comment, rows, queue, account, rb, faults>>

Crash(a) ==
  /\ att[a].pc \notin {"idle", "ended"}
  /\ Fault("crash")
  /\ att' = [att EXCEPT ![a] = IF a \in Workers THEN Idle ELSE [Idle EXCEPT !.pc = "ended"]]
  /\ UNCHANGED <<comment, rows, queue, account, rb>>

-----------------------------------------------------------------------------
(* rollbackHide.                                                             *)

ReadExecution(r) ==
  /\ rb[r].pc = "idle"
  /\ \E i \in Items, t \in Triggers : \E k \in DOMAIN rows[i][t] :
       /\ rows[i][t][k].status = "executed"
       /\ rb' = [rb EXCEPT ![r] = [pc |-> "unhide", item |-> i, trigger |-> t, row |-> k]]
  /\ UNCHANGED <<comment, rows, queue, account, att, faults>>

Unhide(r) ==
  LET i == rb[r].item
      shown == comment' = [comment EXCEPT ![i] = IF @ = "gone" THEN @ ELSE "visible"]
  IN  /\ rb[r].pc = "unhide"
      /\ \/ comment[i] # "gone" /\ shown /\ rb' = [rb EXCEPT ![r].pc = "write"] /\ UNCHANGED faults
         \/ comment[i] = "gone" /\ rb' = [rb EXCEPT ![r].pc = "ended"] /\ UNCHANGED <<comment, faults>>
         \/ Fault("lost") /\ (shown \/ UNCHANGED comment) /\ rb' = [rb EXCEPT ![r].pc = "ended"]
      /\ UNCHANGED <<rows, queue, account, att>>

WriteRolledBack(r) ==
  /\ rb[r].pc = "write"
  /\ rows' = [rows EXCEPT ![rb[r].item][rb[r].trigger][rb[r].row].status = "rolled_back"]
  /\ rb' = [rb EXCEPT ![r].pc = "ended"]
  /\ UNCHANGED <<comment, queue, account, att, faults>>

-----------------------------------------------------------------------------
(* The page and the connection, besides.                                     *)

CommentGoes(i) ==
  /\ comment[i] # "gone"
  /\ comment' = [comment EXCEPT ![i] = "gone"]
  /\ UNCHANGED <<rows, queue, account, att, rb, faults>>

\* The token's recorded expiry passes; the token itself may well go on working.
TokenLapses ==
  /\ account = [active |-> TRUE, conn |-> "connected"]
  /\ account' = [account EXCEPT !.conn = "lapsed"]
  /\ UNCHANGED <<comment, rows, queue, att, rb, faults>>

Disconnect ==
  /\ account.active
  /\ account' = [active |-> FALSE, conn |-> "disconnected"]
  /\ UNCHANGED <<comment, rows, queue, att, rb, faults>>

-----------------------------------------------------------------------------
Step(a) ==
  \/ \E retry, allow \in BOOLEAN : Look(a, retry, allow)
  \/ Unasked(a) \/ Repair(a) \/ Refute(a) \/ Preflight(a) \/ Post(a) \/ Verify(a)
  \/ Record(a) \/ Fallback(a) \/ Final(a)

Next ==
  \/ \E a \in Attempts : Step(a) \/ Crash(a)
  \/ \E w \in Workers : Ingest(w)
  \/ \E c \in Clicks : Approve(c) \/ ExecuteLiveHide(c)
  \/ \E r \in Rollbacks : ReadExecution(r) \/ Unhide(r) \/ WriteRolledBack(r)
  \/ \E i \in Items : Decide(i) \/ CommentGoes(i)
  \/ TokenLapses \/ Disconnect

Spec == Init /\ [][Next]_vars

-----------------------------------------------------------------------------
Row(i, status) == \E t \in Triggers : Has(i, t, status)
RolledBack(i) == \E r \in Rollbacks : rb[r].item = i
Working(i) == \E a \in Attempts : att[a].item = i /\ att[a].pc \notin {"idle", "ended"}

\* Two clicks on one item, or a click and its retry, leave one executed row however
\* their look, their POST and their record interleave, and so do the workers.
OneExecution ==
  \A i \in Items, t \in Triggers :
    Cardinality({k \in DOMAIN rows[i][t] : rows[i][t][k].status = "executed"}) <= 1

\* Graph did not do what it said and could not be asked again.
Deceived == {"ignored", "unread"} \subseteq faults

\* As long as nobody rolls back, an executed row tells the truth about the comment,
\* also if Graph answered the POST without doing it, or could not be asked afterwards;
\* only both together deceive the record.
ExecutedIsHidden ==
  \A i \in Items : Row(i, "executed") /\ ~RolledBack(i) /\ ~Deceived => comment[i] # "visible"

\* A comment is not hidden without a row that says so or that says it failed, but
\* for a crash in between or a rollback.
HiddenIsAccounted ==
  \A i \in Items : comment[i] = "hidden" /\ ~RolledBack(i) /\ ~Working(i) /\ "crash" \notin faults
    => Row(i, "executed") \/ Row(i, "failed")

\* What an autonomous attempt was kept from doing is in somebody's queue: an item
\* stays an autonomous candidate only if its attempt failed at the provider.
BlockedIsRouted ==
  \A i \in Items : queue[i] = "dry_run" /\ ~Working(i) /\ "crash" \notin faults => Row(i, "failed")
=============================================================================
