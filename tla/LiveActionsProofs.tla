--------------------------- MODULE LiveActionsProofs ---------------------------
(***************************************************************************)
(* The safety of hiding comments, for any number of items, workers, clicks, *)
(* rollbacks and faults.                                                    *)
(*                                                                          *)
(* An attempt carries what it knows from one statement to the next, so the  *)
(* invariant says what an attempt at each point may rely on: the comment it *)
(* is about to record as hidden, the result its caller is about to route,   *)
(* the row a rollback is about to overwrite.  Quiet and Turns collect what  *)
(* the steps between the look and the record, and those that begin and end  *)
(* an attempt, have in common; each action is shown to be one of them.      *)
(***************************************************************************)
EXTENDS LiveActions, TLAPS, FiniteSetTheorems

Busy(a) == att[a].pc \notin {"idle", "ended"}

\* An attempt under way is about an item that was ingested, and records a result.
AttemptsOnItems ==
  \A a \in Attempts : Busy(a) =>
    /\ att[a].item \in Items /\ queue[att[a].item] # "absent"
    /\ att[a].pc = "record" => att[a].status # "none"

\* A rollback under way holds a row that was executed when it was read, and that only
\* a rollback has changed since.
RollbackHoldsRow ==
  \A r \in Rollbacks :
    /\ rb[r].pc = "idle" => rb[r].item = None
    /\ rb[r].pc \in {"unhide", "write"} =>
         /\ rb[r].item \in Items
         /\ rb[r].row \in DOMAIN rows[rb[r].item][rb[r].trigger]
         /\ rows[rb[r].item][rb[r].trigger][rb[r].row].status \in {"executed", "rolled_back"}

\* The unique index: two executed rows of one item and trigger are the same row.
OneExecutedRow ==
  \A i \in Items, t \in Triggers : \A k, l \in DOMAIN rows[i][t] :
    rows[i][t][k].status = "executed" /\ rows[i][t][l].status = "executed" => k = l

\* What is about to be recorded as executed is true already: the POST hid the comment
\* unless Graph ignored it, and nobody has shown the comment again but a rollback.
AboutToRecordIsHidden ==
  \A a \in Attempts : Busy(a) /\ ~RolledBack(att[a].item) =>
    /\ att[a].pc = "verify" => comment[att[a].item] # "visible" \/ "ignored" \in faults
    /\ att[a].pc = "record" /\ att[a].status = "executed" =>
         comment[att[a].item] # "visible" \/ Deceived

\* A hidden comment has its row, or the attempt that hid it is about to write one.
HiddenIsOwned ==
  \A i \in Items : comment[i] = "hidden" /\ ~RolledBack(i) /\ "crash" \notin faults =>
    \/ Row(i, "executed") \/ Row(i, "failed")
    \/ \E a \in Attempts : /\ att[a].item = i
                           /\ \/ att[a].pc = "verify"
                              \/ att[a].pc = "record" /\ att[a].status \in {"executed", "failed"}

\* An item is ingested once: two workers are never at the same one, and until the
\* attempt is recorded there is no autonomous row.  So it neither returns an earlier
\* row nor meets the unique index, and its caller sees how it went.
WorkerIsFirst ==
  \A w \in Workers : Busy(w) =>
    /\ att[w].live /\ att[w].pc # "fallback"
    /\ \A v \in Workers : Busy(v) /\ att[v].item = att[w].item => v = w
    /\ att[w].pc # "final" => rows[att[w].item]["autonomous"] = << >>
    /\ att[w].pc \in {"record", "final"} =>
         /\ att[w].status \in {"blocked", "executed", "failed"}
         /\ att[w].status = "blocked" /\ ~Routes(w) => queue[att[w].item] # "dry_run"
    /\ att[w].pc = "final" /\ att[w].status = "failed" => Row(att[w].item, "failed")

\* A candidate is with its worker, or has failed.
CandidateIsOwned ==
  \A i \in Items : queue[i] = "dry_run" /\ "crash" \notin faults =>
    Row(i, "failed") \/ \E w \in Workers : Busy(w) /\ att[w].item = i

IInv ==
  /\ TypeOK /\ AttemptsOnItems /\ RollbackHoldsRow /\ OneExecutedRow /\ AboutToRecordIsHidden
  /\ HiddenIsOwned /\ WorkerIsFirst /\ CandidateIsOwned /\ ExecutedIsHidden

-----------------------------------------------------------------------------
(* What the ways to go on make of an attempt.                                *)

\* The attempt a becomes x, which is about the same item.
Becomes(a, x) ==
  /\ x \in Attempt /\ att' = [att EXCEPT ![a] = x]
  /\ x.item = att[a].item /\ x.live = att[a].live

\* What a call is between two attempts.
LEMMA IdleType ==
  /\ Idle \in Attempt /\ Idle.pc = "idle" /\ [Idle EXCEPT !.pc = "ended"] \in Attempt
  /\ [Idle EXCEPT !.pc = "ended"].pc = "ended"
  BY DEF Idle, Attempt, Phases, Statuses, Conns, Reasons

\* A call keeps what it was asked to do.
LEMMA CalledType ==
  ASSUME NEW b \in Attempt
  PROVE  /\ Called(b) \in Attempt /\ Called(b).item = b.item /\ Called(b).live = b.live
         /\ Called(b).pc = "idle" /\ Called(b).status = "none" /\ Called(b).reason = "none"
  BY DEF Called, Idle, Attempt, Phases, Statuses, Conns, Reasons

\* Go changes where the attempt is.
LEMMA GoShape ==
  ASSUME TypeOK, NEW a \in Attempts, NEW pc \in Phases, Go(a, pc)
  PROVE  \E x : Becomes(a, x) /\ x.pc = pc /\ x.status = att[a].status /\ x.reason = att[a].reason
<1>. DEFINE x == [att[a] EXCEPT !.pc = pc]
<1>1. att[a] \in Attempt
  BY DEF TypeOK
<1>2. x \in Attempt /\ x.pc = pc /\ x.status = att[a].status /\ x.reason = att[a].reason
  BY <1>1 DEF Attempt
<1>3. x.item = att[a].item /\ x.live = att[a].live
  BY <1>1 DEF Attempt
<1>4. att' = [att EXCEPT ![a] = x]
  BY DEF Go
<1>. QED
  BY <1>2, <1>3, <1>4 DEF Becomes

\* Result goes on to record.
LEMMA ResultShape ==
  ASSUME TypeOK, NEW a \in Attempts, NEW status \in Statuses, NEW reason \in Reasons,
         Result(a, status, reason)
  PROVE  \E x : Becomes(a, x) /\ x.pc = "record" /\ x.status = status /\ x.reason = reason
<1>. DEFINE x == [Called(att[a]) EXCEPT !.pc = "record", !.status = status, !.reason = reason]
<1>1. att[a] \in Attempt
  BY DEF TypeOK
<1>2. /\ Called(att[a]) \in Attempt
      /\ Called(att[a]).item = att[a].item /\ Called(att[a]).live = att[a].live
  BY <1>1, CalledType
<1>3. x \in Attempt /\ x.pc = "record" /\ x.status = status /\ x.reason = reason
  BY <1>2 DEF Attempt, Phases
<1>4. x.item = att[a].item /\ x.live = att[a].live
  BY <1>2 DEF Attempt
<1>5. att' = [att EXCEPT ![a] = x]
  BY DEF Result
<1>. QED
  BY <1>3, <1>4, <1>5 DEF Becomes

\* Return hands an earlier row to the caller.
LEMMA ReturnShape ==
  ASSUME TypeOK, NEW a \in Attempts, NEW status \in Statuses, Return(a, status)
  PROVE  \E x : Becomes(a, x) /\ x.pc = "final" /\ x.status = status /\ x.reason = "none"
<1>. DEFINE x == [Called(att[a]) EXCEPT !.pc = "final", !.status = status]
<1>1. att[a] \in Attempt
  BY DEF TypeOK
<1>2. /\ Called(att[a]) \in Attempt /\ Called(att[a]).reason = "none"
      /\ Called(att[a]).item = att[a].item /\ Called(att[a]).live = att[a].live
  BY <1>1, CalledType
<1>3. x \in Attempt /\ x.pc = "final" /\ x.status = status /\ x.reason = "none"
  BY <1>2 DEF Attempt, Phases
<1>4. x.item = att[a].item /\ x.live = att[a].live
  BY <1>2 DEF Attempt
<1>5. att' = [att EXCEPT ![a] = x]
  BY DEF Return
<1>. QED
  BY <1>3, <1>4, <1>5 DEF Becomes

\* The gate blocks, makes a dry run of what is not live, or lets the attempt on to Graph.
\* It never says that the comment is gone.
LEMMA GatedShape ==
  ASSUME TypeOK, NEW a \in Attempts, NEW b \in Attempt, Gated(a, b),
         b.item = att[a].item, b.live = att[a].live
  PROVE  \E x : /\ Becomes(a, x)
                /\ \/ x.pc = "preflight"
                   \/ x.pc = "record" /\ x.status = "dry_run" /\ ~x.live
                   \/ /\ x.pc \in {"record", "final"} /\ x.status = "blocked"
                      /\ x.reason # "comment_deleted_or_unavailable"
<1>. DEFINE why == Gate(b)
            done == Called(b)
            x1 == [done EXCEPT !.pc = "final", !.status = "blocked"]
            x2 == [done EXCEPT !.pc = "record", !.status = "blocked", !.reason = why]
            x3 == [done EXCEPT !.pc = "record", !.status = "dry_run"]
            x4 == [done EXCEPT !.pc = "preflight"]
<1>1. why \in Reasons \ {"comment_deleted_or_unavailable"}
  BY DEF Gate, Reasons
<1>2. done \in Attempt /\ done.item = b.item /\ done.live = b.live /\ done.reason = "none"
  BY CalledType
<1>. HIDE DEF why, done
<1>3. x1 \in Attempt /\ x2 \in Attempt /\ x3 \in Attempt /\ x4 \in Attempt
  BY <1>1, <1>2 DEF Attempt, Phases, Statuses
<1>4. /\ x1.item = b.item /\ x1.live = b.live /\ x1.pc = "final" /\ x1.status = "blocked"
      /\ x1.reason = "none"
      /\ x2.item = b.item /\ x2.live = b.live /\ x2.pc = "record" /\ x2.status = "blocked"
      /\ x2.reason = why
      /\ x3.item = b.item /\ x3.live = b.live /\ x3.pc = "record" /\ x3.status = "dry_run"
      /\ x4.item = b.item /\ x4.live = b.live /\ x4.pc = "preflight"
  BY <1>2 DEF Attempt
<1>5. \/ att' = [att EXCEPT ![a] = x1]
      \/ att' = [att EXCEPT ![a] = x2]
      \/ att' = [att EXCEPT ![a] = x3] /\ ~b.live
      \/ att' = [att EXCEPT ![a] = x4]
  BY DEF Gated, why, done
<1>. HIDE DEF x1, x2, x3, x4
<1>. QED
  BY <1>1, <1>3, <1>4, <1>5 DEF Becomes

-----------------------------------------------------------------------------
(* A step of an attempt between its look and its record.                     *)

\* It writes no rows; it may hide its own comment, settle its own item and meet faults.
\* What it is then about to record must be true, a comment it hid must be accounted for
\* by it, and a worker must not lose the result its caller routes.
Quiet(a, x) ==
  /\ Becomes(a, x) /\ Busy(a) /\ x.pc \notin {"idle", "ended"}
  /\ x.pc = "record" => x.status # "none"
  /\ UNCHANGED <<rows, rb>>
  /\ comment' \in [Items -> {"visible", "hidden", "gone"}]
  /\ \A i \in Items : comment'[i] = "visible" => comment[i] = "visible"
  /\ \A i \in Items : comment'[i] = "hidden" /\ comment[i] # "hidden" => i = att[a].item
  /\ UNCHANGED queue \/ Resolved(att[a].item)
  /\ account' \in [active : BOOLEAN, conn : Conns]
  /\ faults \subseteq faults' /\ faults' \subseteq {"crash", "lost", "ignored", "unread", "dead"}
  /\ x.pc = "verify" => comment'[x.item] # "visible" \/ "ignored" \in faults'
  /\ x.pc = "record" /\ x.status = "executed" =>
       comment'[x.item] # "visible" \/ Deceived' \/ RolledBack(x.item)
  /\ att[a].pc # "final"
  /\ comment'[x.item] = "hidden" /\ (comment[x.item] # "hidden" \/ att[a].pc \in {"verify", "record"}) =>
       \/ Row(x.item, "executed") \/ x.pc = "verify"
       \/ x.pc = "record" /\ x.status \in {"executed", "failed"}
  /\ a \in Workers =>
       /\ x.pc # "fallback"
       /\ x.pc \in {"record", "final"} =>
            /\ x.status \in {"blocked", "executed", "failed"}
            /\ x.status = "blocked" /\ x.reason = "comment_deleted_or_unavailable" =>
                 queue'[x.item] # "dry_run"
       /\ x.pc = "final" => x.status # "failed"

\* Such a step keeps the invariant.
LEMMA QuietKeeps ==
  ASSUME IInv, NEW a \in Attempts, NEW x, Quiet(a, x) PROVE IInv'
<1>1. /\ x \in Attempt /\ att' = [att EXCEPT ![a] = x] /\ att'[a] = x
      /\ \A b \in Attempts : b # a => att'[b] = att[b]
      /\ \A b \in Attempts : att'[b].item = att[b].item
      /\ x.item = att[a].item /\ x.live = att[a].live /\ x.item \in Items
  BY DEF Quiet, Becomes, IInv, TypeOK, AttemptsOnItems
<1>2. /\ \A b \in Attempts : Busy(b)' <=> Busy(b)
      /\ rows' = rows /\ \A i, s : Row(i, s)' <=> Row(i, s)
      /\ \A i : RolledBack(i)' <=> RolledBack(i)
  BY <1>1 DEF Quiet, Busy, Row, Has, RolledBack
<1>3. /\ queue' \in [Items -> {"absent", "dry_run", "approval_required", "rejected", "settled"}]
      /\ \A i \in Items : queue'[i] = "absent" <=> queue[i] = "absent"
      /\ \A i \in Items : queue'[i] = "dry_run" => queue[i] = "dry_run"
  <2>1. queue[att[a].item] # "absent" /\ att[a].item \in Items
    BY DEF Quiet, IInv, AttemptsOnItems
  <2>2. CASE UNCHANGED queue
    BY <2>2 DEF IInv, TypeOK
  <2>3. CASE Resolved(att[a].item)
    BY <2>1, <2>3 DEF Resolved, IInv, TypeOK
  <2>. QED
    BY <2>2, <2>3 DEF Quiet
<1>4. TypeOK'
  <2>1. att' \in [Attempts -> Attempt]
    BY <1>1 DEF IInv, TypeOK
  <2>. QED
    BY <1>3, <2>1 DEF Quiet, IInv, TypeOK
<1>5. AttemptsOnItems'
  BY <1>1, <1>2, <1>3 DEF Quiet, IInv, AttemptsOnItems
<1>6. RollbackHoldsRow' /\ OneExecutedRow'
  BY DEF Quiet, IInv, RollbackHoldsRow, OneExecutedRow
<1>7. Deceived => Deceived'
  BY DEF Quiet, Deceived
<1>8. AboutToRecordIsHidden'
  <2>1. ASSUME NEW b \in Attempts, b # a, Busy(b), ~RolledBack(att[b].item)
        PROVE  /\ att[b].pc = "verify" => comment'[att[b].item] # "visible" \/ "ignored" \in faults'
               /\ att[b].pc = "record" /\ att[b].status = "executed" =>
                    comment'[att[b].item] # "visible" \/ Deceived'
    BY <1>7, <2>1 DEF Quiet, IInv, AttemptsOnItems, AboutToRecordIsHidden
  <2>2. ~RolledBack(x.item) =>
           /\ x.pc = "verify" => comment'[x.item] # "visible" \/ "ignored" \in faults'
           /\ x.pc = "record" /\ x.status = "executed" => comment'[x.item] # "visible" \/ Deceived'
    BY DEF Quiet
  <2>. QED
    BY <1>1, <1>2, <2>1, <2>2 DEF AboutToRecordIsHidden
<1>9. HiddenIsOwned'
  <2>. SUFFICES ASSUME NEW i \in Items, comment'[i] = "hidden", ~RolledBack(i), "crash" \notin faults',
                       ~Row(i, "executed"), ~Row(i, "failed")
                PROVE  \E b \in Attempts : /\ att'[b].item = i
                         /\ \/ att'[b].pc = "verify"
                            \/ att'[b].pc = "record" /\ att'[b].status \in {"executed", "failed"}
    BY <1>2 DEF HiddenIsOwned
  <2>1. CASE comment[i] = "hidden"
    <3>1. PICK b \in Attempts : /\ att[b].item = i
                                /\ \/ att[b].pc = "verify"
                                   \/ att[b].pc = "record" /\ att[b].status \in {"executed", "failed"}
      BY <2>1 DEF Quiet, IInv, HiddenIsOwned
    <3>2. CASE b # a
      BY <1>1, <3>1, <3>2
    <3>3. CASE b = a
      BY <1>1, <3>1, <3>3 DEF Quiet
    <3>. QED
      BY <3>2, <3>3
  <2>2. CASE comment[i] # "hidden"
    BY <1>1, <2>2 DEF Quiet
  <2>. QED
    BY <2>1, <2>2
<1>10. WorkerIsFirst'
  <2>1. ASSUME NEW w \in Workers, Busy(w)
        PROVE  /\ att'[w].live /\ att'[w].pc # "fallback"
               /\ \A v \in Workers : Busy(v) /\ att[v].item = att[w].item => v = w
               /\ att'[w].pc # "final" => rows[att[w].item]["autonomous"] = << >>
               /\ att'[w].pc \in {"record", "final"} =>
                    /\ att'[w].status \in {"blocked", "executed", "failed"}
                    /\ att'[w].status = "blocked" /\ ~Routes(w)' => queue'[att[w].item] # "dry_run"
               /\ att'[w].pc = "final" /\ att'[w].status = "failed" => Row(att[w].item, "failed")
    <3>1. w \in Attempts /\ att[w].item \in Items
      BY <2>1 DEF Attempts, IInv, AttemptsOnItems
    <3>2. CASE w # a
      BY <1>1, <1>3, <2>1, <3>1, <3>2 DEF IInv, WorkerIsFirst, Routes
    <3>3. CASE w = a
      BY <1>1, <2>1, <3>3 DEF Quiet, IInv, WorkerIsFirst, Routes
    <3>. QED
      BY <3>2, <3>3
  <2>. QED
    BY <1>1, <1>2, <2>1 DEF WorkerIsFirst, Attempts
<1>11. CandidateIsOwned'
  BY <1>1, <1>2, <1>3 DEF Quiet, IInv, CandidateIsOwned, Attempts
<1>12. ExecutedIsHidden'
  BY <1>2, <1>7 DEF Quiet, IInv, ExecutedIsHidden
<1>. QED
  BY <1>4, <1>5, <1>6, <1>8, <1>9, <1>10, <1>11, <1>12 DEF IInv

\* A fault is one of the kinds there are.
LEMMA FaultType ==
  ASSUME faults \subseteq {"crash", "lost", "ignored", "unread", "dead"},
         NEW kind \in {"crash", "lost", "ignored", "unread", "dead"}, Fault(kind)
  PROVE  /\ faults \subseteq faults' /\ kind \in faults'
         /\ faults' \subseteq {"crash", "lost", "ignored", "unread", "dead"}
  BY DEF Fault

\* A step before the POST, which touches neither comment nor queue.
LEMMA EarlyKeeps ==
  ASSUME IInv, NEW a \in Attempts, NEW x, Becomes(a, x),
         att[a].pc \in {"look", "check"}, x.pc \in {"check", "preflight", "record", "final"},
         x.pc = "record" => x.status \notin {"executed", "none"},
         UNCHANGED <<comment, rows, queue, rb>>, account' \in [active : BOOLEAN, conn : Conns],
         faults \subseteq faults', faults' \subseteq {"crash", "lost", "ignored", "unread", "dead"},
         a \in Workers =>
           /\ x.pc \in {"record", "final"} =>
                /\ x.status \in {"blocked", "executed", "failed"}
                /\ x.status = "blocked" => x.reason # "comment_deleted_or_unavailable"
           /\ x.pc = "final" => x.status # "failed"
  PROVE  IInv'
<1>1. Quiet(a, x)
  BY DEF Quiet, Busy, IInv, TypeOK
<1>. QED
  BY <1>1, QuietKeeps

\* What the gate decides, whoever's copy of the account it decides on.
LEMMA GatedKeeps ==
  ASSUME IInv, NEW a \in Attempts, NEW b \in Attempt, Gated(a, b),
         b.item = att[a].item, b.live = att[a].live, att[a].pc \in {"look", "check"},
         UNCHANGED <<comment, rows, queue, rb>>, account' \in [active : BOOLEAN, conn : Conns],
         faults \subseteq faults', faults' \subseteq {"crash", "lost", "ignored", "unread", "dead"}
  PROVE  IInv'
<1>1. PICK x : /\ Becomes(a, x)
               /\ \/ x.pc = "preflight"
                  \/ x.pc = "record" /\ x.status = "dry_run" /\ ~x.live
                  \/ /\ x.pc \in {"record", "final"} /\ x.status = "blocked"
                     /\ x.reason # "comment_deleted_or_unavailable"
  BY GatedShape DEF IInv
<1>2. a \in Workers => x.live
  BY <1>1 DEF Becomes, IInv, WorkerIsFirst, Busy
<1>. QED
  BY <1>1, <1>2, EarlyKeeps

\* A worker finds no earlier row, a click may.
LEMMA LookKeeps ==
  ASSUME IInv, NEW a \in Attempts, NEW retry, NEW allow, Look(a, retry, allow) PROVE IInv'
<1>. DEFINE b == att[a]
            key == rows[b.item][Trigger(a)]
            last == key[Len(key)]
            known == [b EXCEPT !.pc = "check", !.reason = IF key # << >> /\ last.status = "blocked"
                                                         THEN last.reason ELSE "none"]
<1>1. /\ b \in Attempt /\ b.pc = "look" /\ Busy(a) /\ b.item \in Items /\ Trigger(a) \in Triggers
      /\ key \in Seq(Rows)
  BY DEF Look, Busy, IInv, TypeOK, AttemptsOnItems, Trigger, Triggers
<1>2. /\ UNCHANGED <<comment, rows, queue, rb>> /\ account' \in [active : BOOLEAN, conn : Conns]
      /\ faults \subseteq faults' /\ faults' \subseteq {"crash", "lost", "ignored", "unread", "dead"}
  BY DEF Look, IInv, TypeOK
<1>3. a \in Workers => b.live /\ key = << >>
  BY <1>1 DEF IInv, WorkerIsFirst, Trigger
<1>4. CASE Return(a, "executed")
  <2>1. PICK x : Becomes(a, x) /\ x.pc = "final" /\ x.status = "executed" /\ x.reason = "none"
    BY <1>4, ReturnShape DEF IInv, Statuses
  <2>. QED
    BY <1>1, <1>2, <2>1, EarlyKeeps
<1>5. CASE Return(a, "dry_run") /\ ~b.live
  <2>1. PICK x : Becomes(a, x) /\ x.pc = "final" /\ x.status = "dry_run" /\ x.reason = "none"
    BY <1>5, ReturnShape DEF IInv, Statuses
  <2>. QED
    BY <1>1, <1>2, <1>3, <1>5, <2>1, EarlyKeeps
<1>6. CASE Return(a, "failed") /\ key # << >>
  <2>1. PICK x : Becomes(a, x) /\ x.pc = "final" /\ x.status = "failed" /\ x.reason = "none"
    BY <1>6, ReturnShape DEF IInv, Statuses
  <2>. QED
    BY <1>1, <1>2, <1>3, <1>6, <2>1, EarlyKeeps
<1>7. CASE Result(a, "blocked", "safety")
  <2>1. PICK x : Becomes(a, x) /\ x.pc = "record" /\ x.status = "blocked" /\ x.reason = "safety"
    BY <1>7, ResultShape DEF IInv, Statuses, Reasons
  <2>. QED
    BY <1>1, <1>2, <2>1, EarlyKeeps
<1>8. /\ known \in Attempt /\ known.item = b.item /\ known.live = b.live /\ known.pc = "check"
  <2>1. (IF key # << >> /\ last.status = "blocked" THEN last.reason ELSE "none") \in Reasons
    <3>1. key # << >> => last \in Rows
      BY <1>1
    <3>. QED
      BY <3>1 DEF Rows, Reasons
  <2>. QED
    BY <1>1, <2>1 DEF Attempt, Phases
<1>9. CASE att' = [att EXCEPT ![a] = known]
  <2>1. Becomes(a, known)
    BY <1>8, <1>9 DEF Becomes
  <2>. HIDE DEF known
  <2>. QED
    BY <1>1, <1>2, <1>8, <2>1, EarlyKeeps
<1>10. CASE Gated(a, known)
  <2>. HIDE DEF known
  <2>. QED
    BY <1>1, <1>2, <1>8, <1>10, GatedKeeps
<1>. QED
  BY <1>4, <1>5, <1>6, <1>7, <1>9, <1>10 DEF Look

\* revalidateAndRepair, whatever Graph says of the token.
LEMMA CheckKeeps ==
  ASSUME IInv, NEW a \in Attempts, Unasked(a) \/ Repair(a) \/ Refute(a) PROVE IInv'
<1>1. att[a] \in Attempt /\ account.active \in BOOLEAN /\ account.conn \in Conns
  BY DEF IInv, TypeOK
<1>2. ASSUME NEW c \in Conns
      PROVE  /\ [att[a] EXCEPT !.conn = c] \in Attempt
             /\ [att[a] EXCEPT !.conn = c].item = att[a].item
             /\ [att[a] EXCEPT !.conn = c].live = att[a].live
  BY <1>1 DEF Attempt
<1>3. CASE Unasked(a)
  <2>1. faults \subseteq faults' /\ faults' \subseteq {"crash", "lost", "ignored", "unread", "dead"}
    BY <1>3, FaultType DEF Unasked, IInv, TypeOK
  <2>2. account' \in [active : BOOLEAN, conn : Conns]
    BY <1>3 DEF Unasked, IInv, TypeOK
  <2>. QED
    BY <1>1, <1>3, <2>1, <2>2, GatedKeeps DEF Unasked
<1>4. CASE Repair(a)
  <2>1. account' \in [active : BOOLEAN, conn : Conns]
    BY <1>4 DEF Repair, IInv, TypeOK, Conns
  <2>2. faults' = faults /\ faults \subseteq {"crash", "lost", "ignored", "unread", "dead"}
    BY <1>4 DEF Repair, IInv, TypeOK
  <2>3. "connected" \in Conns
    BY DEF Conns
  <2>. QED
    BY <1>2, <1>4, <2>1, <2>2, <2>3, GatedKeeps DEF Repair
<1>5. CASE Refute(a)
  <2>1. account' \in [active : BOOLEAN, conn : Conns]
    BY <1>5 DEF Refute, Reconnectable, IInv, TypeOK, Conns
  <2>2. faults \subseteq faults' /\ faults' \subseteq {"crash", "lost", "ignored", "unread", "dead"}
    BY <1>5, FaultType DEF Refute, IInv, TypeOK
  <2>3. "reconnect" \in Conns
    BY DEF Conns
  <2>. QED
    BY <1>2, <1>5, <2>1, <2>2, <2>3, GatedKeeps DEF Refute
<1>. QED
  BY <1>3, <1>4, <1>5

\* What Graph says of the comment before the POST.
LEMMA PreflightKeeps == ASSUME IInv, NEW a \in Attempts, Preflight(a) PROVE IInv'
<1>. DEFINE i == att[a].item
            kinds == {"crash", "lost", "ignored", "unread", "dead"}
<1>1. /\ i \in Items /\ Busy(a) /\ att[a].pc = "preflight" /\ UNCHANGED <<comment, rows, rb>>
      /\ comment \in [Items -> {"visible", "hidden", "gone"}] /\ faults \subseteq kinds
      /\ account \in [active : BOOLEAN, conn : Conns]
  BY DEF Preflight, Busy, IInv, TypeOK, AttemptsOnItems
<1>2. CASE Fault("unread") /\ Result(a, "failed", "provider") /\ UNCHANGED <<account, queue>>
  <2>1. PICK x : Becomes(a, x) /\ x.pc = "record" /\ x.status = "failed" /\ x.reason = "provider"
    BY <1>2, ResultShape DEF IInv, Statuses, Reasons
  <2>2. faults \subseteq faults' /\ faults' \subseteq kinds
    BY <1>1, <1>2, FaultType
  <2>3. Quiet(a, x)
    BY <1>1, <1>2, <2>1, <2>2 DEF Quiet
  <2>. QED
    BY <2>3, QuietKeeps
<1>3. CASE /\ Fault("dead") /\ Reconnectable
           /\ Result(a, "blocked", "reconnect_required") /\ UNCHANGED queue
  <2>1. PICK x : /\ Becomes(a, x) /\ x.pc = "record" /\ x.status = "blocked"
                 /\ x.reason = "reconnect_required"
    BY <1>3, ResultShape DEF IInv, Statuses, Reasons
  <2>2. faults \subseteq faults' /\ faults' \subseteq kinds
    BY <1>1, <1>3, FaultType
  <2>3. account' \in [active : BOOLEAN, conn : Conns]
    BY <1>1, <1>3 DEF Reconnectable, Conns
  <2>4. Quiet(a, x)
    BY <1>1, <1>3, <2>1, <2>2, <2>3 DEF Quiet
  <2>. QED
    BY <2>4, QuietKeeps
<1>4. CASE /\ comment[i] = "gone" /\ Resolved(i)
           /\ Result(a, "blocked", "comment_deleted_or_unavailable") /\ UNCHANGED <<account, faults>>
  <2>1. PICK x : /\ Becomes(a, x) /\ x.pc = "record" /\ x.status = "blocked"
                 /\ x.reason = "comment_deleted_or_unavailable"
    BY <1>4, ResultShape DEF IInv, Statuses, Reasons
  <2>2. queue'[i] # "dry_run"
    BY <1>1, <1>4 DEF Resolved, IInv, TypeOK
  <2>3. Quiet(a, x)
    BY <1>1, <1>4, <2>1, <2>2 DEF Quiet, Becomes
  <2>. QED
    BY <2>3, QuietKeeps
<1>5. CASE comment[i] = "hidden" /\ Result(a, "executed", "none") /\ UNCHANGED <<account, queue, faults>>
  <2>1. PICK x : Becomes(a, x) /\ x.pc = "record" /\ x.status = "executed" /\ x.reason = "none"
    BY <1>5, ResultShape DEF IInv, Statuses, Reasons
  <2>2. Quiet(a, x)
    BY <1>1, <1>5, <2>1 DEF Quiet, Becomes
  <2>. QED
    BY <2>2, QuietKeeps
<1>6. CASE comment[i] = "visible" /\ Go(a, "post") /\ UNCHANGED <<account, queue, faults>>
  <2>1. PICK x : Becomes(a, x) /\ x.pc = "post"
    BY <1>6, GoShape DEF IInv, Phases
  <2>2. Quiet(a, x)
    BY <1>1, <1>6, <2>1 DEF Quiet
  <2>. QED
    BY <2>2, QuietKeeps
<1>. QED
  BY <1>2, <1>3, <1>4, <1>5, <1>6 DEF Preflight

\* A POST that hides the comment is verified or recorded as failed by the attempt that
\* made it.
LEMMA PostKeeps == ASSUME IInv, NEW a \in Attempts, Post(a) PROVE IInv'
<1>. DEFINE i == att[a].item
            kinds == {"crash", "lost", "ignored", "unread", "dead"}
<1>1. /\ i \in Items /\ Busy(a) /\ att[a].pc = "post" /\ UNCHANGED <<rows, queue, account, rb>>
      /\ comment \in [Items -> {"visible", "hidden", "gone"}] /\ faults \subseteq kinds
      /\ account' \in [active : BOOLEAN, conn : Conns]
  BY DEF Post, Busy, IInv, TypeOK, AttemptsOnItems
<1>2. Hidden(i) \/ UNCHANGED comment =>
        /\ comment' \in [Items -> {"visible", "hidden", "gone"}]
        /\ \A j \in Items : comment'[j] = "visible" => comment[j] = "visible"
        /\ \A j \in Items : comment'[j] = "hidden" /\ comment[j] # "hidden" => j = i
  BY <1>1 DEF Hidden
<1>3. CASE comment[i] # "gone" /\ Hidden(i) /\ Go(a, "verify") /\ UNCHANGED faults
  <2>1. PICK x : Becomes(a, x) /\ x.pc = "verify"
    BY <1>3, GoShape DEF IInv, Phases
  <2>2. comment'[i] # "visible"
    BY <1>1, <1>3 DEF Hidden
  <2>3. Quiet(a, x)
    BY <1>1, <1>2, <1>3, <2>1, <2>2 DEF Quiet, Becomes
  <2>. QED
    BY <2>3, QuietKeeps
<1>4. CASE comment[i] = "gone" /\ Result(a, "failed", "provider") /\ UNCHANGED <<comment, faults>>
  <2>1. PICK x : Becomes(a, x) /\ x.pc = "record" /\ x.status = "failed" /\ x.reason = "provider"
    BY <1>4, ResultShape DEF IInv, Statuses, Reasons
  <2>2. Quiet(a, x)
    BY <1>1, <1>2, <1>4, <2>1 DEF Quiet
  <2>. QED
    BY <2>2, QuietKeeps
<1>5. CASE Fault("lost") /\ (Hidden(i) \/ UNCHANGED comment) /\ Result(a, "failed", "provider")
  <2>1. PICK x : Becomes(a, x) /\ x.pc = "record" /\ x.status = "failed" /\ x.reason = "provider"
    BY <1>5, ResultShape DEF IInv, Statuses, Reasons
  <2>2. faults \subseteq faults' /\ faults' \subseteq kinds
    BY <1>1, <1>5, FaultType
  <2>3. Quiet(a, x)
    BY <1>1, <1>2, <1>5, <2>1, <2>2 DEF Quiet
  <2>. QED
    BY <2>3, QuietKeeps
<1>6. CASE Fault("ignored") /\ Go(a, "verify") /\ UNCHANGED comment
  <2>1. PICK x : Becomes(a, x) /\ x.pc = "verify"
    BY <1>6, GoShape DEF IInv, Phases
  <2>2. faults \subseteq faults' /\ faults' \subseteq kinds /\ "ignored" \in faults'
    BY <1>1, <1>6, FaultType
  <2>3. Quiet(a, x)
    BY <1>1, <1>2, <1>6, <2>1, <2>2 DEF Quiet
  <2>. QED
    BY <2>3, QuietKeeps
<1>7. CASE Fault("dead") /\ Result(a, "failed", "token_expired") /\ UNCHANGED comment
  <2>1. PICK x : Becomes(a, x) /\ x.pc = "record" /\ x.status = "failed" /\ x.reason = "token_expired"
    BY <1>7, ResultShape DEF IInv, Statuses, Reasons
  <2>2. faults \subseteq faults' /\ faults' \subseteq kinds
    BY <1>1, <1>7, FaultType
  <2>3. Quiet(a, x)
    BY <1>1, <1>2, <1>7, <2>1, <2>2 DEF Quiet
  <2>. QED
    BY <2>3, QuietKeeps
<1>. QED
  BY <1>3, <1>4, <1>5, <1>6, <1>7 DEF Post

\* An unread answer after an ignored POST is what deceives the record.
LEMMA VerifyKeeps == ASSUME IInv, NEW a \in Attempts, Verify(a) PROVE IInv'
<1>. DEFINE i == att[a].item
            kinds == {"crash", "lost", "ignored", "unread", "dead"}
<1>1. /\ i \in Items /\ Busy(a) /\ att[a].pc = "verify"
      /\ UNCHANGED <<comment, rows, queue, account, rb>>
      /\ comment' \in [Items -> {"visible", "hidden", "gone"}] /\ faults \subseteq kinds
      /\ account' \in [active : BOOLEAN, conn : Conns]
  BY DEF Verify, Busy, IInv, TypeOK, AttemptsOnItems
<1>2. comment[i] # "visible" \/ "ignored" \in faults \/ RolledBack(i)
  BY <1>1 DEF IInv, AboutToRecordIsHidden
<1>3. CASE Fault("unread") /\ Result(a, "executed", "none")
  <2>1. PICK x : Becomes(a, x) /\ x.pc = "record" /\ x.status = "executed" /\ x.reason = "none"
    BY <1>3, ResultShape DEF IInv, Statuses, Reasons
  <2>2. faults \subseteq faults' /\ faults' \subseteq kinds /\ "unread" \in faults'
    BY <1>1, <1>3, FaultType
  <2>3. Quiet(a, x)
    BY <1>1, <1>2, <1>3, <2>1, <2>2 DEF Quiet, Becomes, Deceived
  <2>. QED
    BY <2>3, QuietKeeps
<1>4. CASE comment[i] = "visible" /\ Result(a, "failed", "provider") /\ UNCHANGED faults
  <2>1. PICK x : Becomes(a, x) /\ x.pc = "record" /\ x.status = "failed" /\ x.reason = "provider"
    BY <1>4, ResultShape DEF IInv, Statuses, Reasons
  <2>2. Quiet(a, x)
    BY <1>1, <1>4, <2>1 DEF Quiet
  <2>. QED
    BY <2>2, QuietKeeps
<1>5. CASE comment[i] # "visible" /\ Result(a, "executed", "none") /\ UNCHANGED faults
  <2>1. PICK x : Becomes(a, x) /\ x.pc = "record" /\ x.status = "executed" /\ x.reason = "none"
    BY <1>5, ResultShape DEF IInv, Statuses, Reasons
  <2>2. Quiet(a, x)
    BY <1>1, <1>5, <2>1 DEF Quiet, Becomes
  <2>. QED
    BY <2>2, QuietKeeps
<1>. QED
  BY <1>3, <1>4, <1>5 DEF Verify

-----------------------------------------------------------------------------
(* The record.                                                               *)

\* An appended row adds its status to its item and trigger, and changes no other row.
LEMMA AppendedRow ==
  ASSUME rows \in [Items -> [Triggers -> Seq(Rows)]],
         NEW i \in Items, NEW t \in Triggers, NEW e \in Rows,
         rows' = [rows EXCEPT ![i][t] = Append(@, e)]
  PROVE  /\ rows' \in [Items -> [Triggers -> Seq(Rows)]]
         /\ \A j \in Items, u \in Triggers : <<j, u>> # <<i, t>> => rows'[j][u] = rows[j][u]
         /\ DOMAIN rows'[i][t] = DOMAIN rows[i][t] \cup {Len(rows[i][t]) + 1}
         /\ \A k \in DOMAIN rows[i][t] : rows'[i][t][k] = rows[i][t][k]
         /\ rows'[i][t][Len(rows[i][t]) + 1] = e
<1>1. rows[i] \in [Triggers -> Seq(Rows)] /\ rows[i][t] \in Seq(Rows)
  OBVIOUS
<1>2. /\ Append(rows[i][t], e) \in Seq(Rows)
      /\ DOMAIN Append(rows[i][t], e) = DOMAIN rows[i][t] \cup {Len(rows[i][t]) + 1}
      /\ \A k \in DOMAIN rows[i][t] : Append(rows[i][t], e)[k] = rows[i][t][k]
      /\ Append(rows[i][t], e)[Len(rows[i][t]) + 1] = e
  BY <1>1
<1>3. rows'[i][t] = Append(rows[i][t], e)
  BY <1>1
<1>4. \A j \in Items, u \in Triggers : <<j, u>> # <<i, t>> => rows'[j][u] = rows[j][u]
  OBVIOUS
<1>5. rows' \in [Items -> [Triggers -> Seq(Rows)]]
  BY <1>2
<1>. QED
  BY <1>2, <1>3, <1>4, <1>5

\* The row is appended, or the unique index refuses it because there is one.
LEMMA RecordKeeps == ASSUME IInv, NEW a \in Attempts, Record(a) PROVE IInv'
<1>. DEFINE i == att[a].item
            b == att[a]
            t == Trigger(a)
            e == [status |-> b.status, reason |-> b.reason]
<1>1. /\ i \in Items /\ Busy(a) /\ b.pc = "record" /\ b \in Attempt /\ t \in Triggers
      /\ queue[i] # "absent" /\ UNCHANGED <<comment, queue, rb, faults>>
  BY DEF Record, Busy, IInv, TypeOK, AttemptsOnItems, Trigger, Triggers
<1>2. CASE Unique(a) /\ Go(a, "fallback") /\ UNCHANGED <<rows, account>>
  <2>1. PICK x : Becomes(a, x) /\ x.pc = "fallback"
    BY <1>2, GoShape DEF IInv, Phases
  <2>2. Row(i, "executed") /\ Has(i, t, "executed")
    BY <1>1, <1>2 DEF Unique, Executed, Row
  <2>3. a \notin Workers
    BY <1>1, <2>2 DEF IInv, WorkerIsFirst, Has, Trigger
  <2>4. Quiet(a, x)
    BY <1>1, <1>2, <2>1, <2>2, <2>3 DEF Quiet, Becomes, IInv, TypeOK
  <2>. QED
    BY <2>4, QuietKeeps
<1>3. CASE /\ ~Unique(a) /\ rows' = [rows EXCEPT ![i][t] = Append(@, e)]
           /\ Go(a, "final") /\ (Errored \/ UNCHANGED account)
  <2>1. PICK x : Becomes(a, x) /\ x.pc = "final" /\ x.status = b.status /\ x.reason = b.reason
    BY <1>3, GoShape DEF IInv, Phases
  <2>2. /\ x \in Attempt /\ att' = [att EXCEPT ![a] = x] /\ att'[a] = x /\ x.item = i
        /\ \A c \in Attempts : c # a => att'[c] = att[c]
        /\ \A c \in Attempts : att'[c].item = att[c].item /\ att'[c].live = att[c].live
        /\ \A c \in Attempts : Busy(c)' <=> Busy(c)
    BY <1>1, <2>1 DEF Becomes, Busy, IInv, TypeOK
  <2>3. e \in Rows /\ e.status = b.status /\ rows \in [Items -> [Triggers -> Seq(Rows)]]
    <3>1. b.status \in Statuses \ {"none"} /\ b.reason \in Reasons
      BY <1>1 DEF IInv, AttemptsOnItems, Attempt
    <3>. QED
      BY <3>1 DEF Rows, Statuses, IInv, TypeOK
  <2>. HIDE DEF e
  <2>4. /\ rows' \in [Items -> [Triggers -> Seq(Rows)]]
        /\ \A j \in Items, u \in Triggers : <<j, u>> # <<i, t>> => rows'[j][u] = rows[j][u]
        /\ DOMAIN rows'[i][t] = DOMAIN rows[i][t] \cup {Len(rows[i][t]) + 1}
        /\ \A k \in DOMAIN rows[i][t] : rows'[i][t][k] = rows[i][t][k]
        /\ rows'[i][t][Len(rows[i][t]) + 1] = e
    BY <1>1, <1>3, <2>3, AppendedRow
  <2>5. \A s : \A j \in Items, u \in Triggers :
           Has(j, u, s)' <=> Has(j, u, s) \/ (j = i /\ u = t /\ s = b.status)
    <3>. SUFFICES ASSUME NEW s, NEW j \in Items, NEW u \in Triggers
                  PROVE  Has(j, u, s)' <=> Has(j, u, s) \/ (j = i /\ u = t /\ s = b.status)
      OBVIOUS
    <3>1. CASE <<j, u>> # <<i, t>>
      BY <2>4, <3>1 DEF Has
    <3>2. CASE j = i /\ u = t
      BY <2>3, <2>4, <3>2 DEF Has
    <3>. QED
      BY <3>1, <3>2
  <2>6. /\ \A s : \A j \in Items : Row(j, s)' <=> Row(j, s) \/ (j = i /\ s = b.status)
        /\ \A j : RolledBack(j)' <=> RolledBack(j)
        /\ Deceived' <=> Deceived
    BY <1>1, <2>5 DEF Row, RolledBack, Deceived
  <2>7. TypeOK'
    <3>1. account' \in [active : BOOLEAN, conn : Conns]
      BY <1>3 DEF Errored, Conns, IInv, TypeOK
    <3>2. att' \in [Attempts -> Attempt]
      BY <2>2 DEF IInv, TypeOK
    <3>3. \A j \in Items : queue[j] = "absent" => \A u \in Triggers : rows'[j][u] = << >>
      <4>. SUFFICES ASSUME NEW j \in Items, queue[j] = "absent", NEW u \in Triggers
                    PROVE  rows'[j][u] = << >>
        OBVIOUS
      <4>1. rows'[j][u] = rows[j][u]
        BY <1>1, <2>4
      <4>. QED
        BY <4>1 DEF IInv, TypeOK
    <3>. QED
      BY <1>1, <2>4, <3>1, <3>2, <3>3 DEF IInv, TypeOK
  <2>8. AttemptsOnItems'
    BY <1>1, <2>1, <2>2 DEF IInv, AttemptsOnItems
  <2>9. RollbackHoldsRow'
    <3>. SUFFICES ASSUME NEW r \in Rollbacks, rb[r].pc \in {"unhide", "write"}
                  PROVE  /\ rb[r].row \in DOMAIN rows'[rb[r].item][rb[r].trigger]
                         /\ rows'[rb[r].item][rb[r].trigger][rb[r].row].status
                              \in {"executed", "rolled_back"}
      BY <1>1 DEF IInv, RollbackHoldsRow
    <3>1. rb[r].trigger \in Triggers /\ rb[r].item \in Items
      BY DEF IInv, TypeOK, Rollback, RollbackHoldsRow
    <3>2. CASE <<rb[r].item, rb[r].trigger>> # <<i, t>>
      BY <2>4, <3>1, <3>2 DEF IInv, RollbackHoldsRow
    <3>3. CASE rb[r].item = i /\ rb[r].trigger = t
      BY <2>4, <3>1, <3>3 DEF IInv, RollbackHoldsRow
    <3>. QED
      BY <3>2, <3>3
  <2>10. OneExecutedRow'
    <3>. SUFFICES ASSUME NEW j \in Items, NEW u \in Triggers,
                         NEW k \in DOMAIN rows'[j][u], NEW l \in DOMAIN rows'[j][u],
                         rows'[j][u][k].status = "executed", rows'[j][u][l].status = "executed"
                  PROVE  k = l
      BY DEF OneExecutedRow
    <3>1. CASE <<j, u>> # <<i, t>>
      <4>1. rows'[j][u] = rows[j][u]
        BY <2>4, <3>1
      <4>. QED
        BY <4>1 DEF IInv, OneExecutedRow
    <3>2. CASE j = i /\ u = t
      <4>1. b.status # "executed" \/ \A m \in DOMAIN rows[i][t] : rows[i][t][m].status # "executed"
        BY <1>1, <1>3 DEF Unique, Executed, Has
      <4>. QED
        BY <2>3, <2>4, <3>2, <4>1 DEF IInv, OneExecutedRow
    <3>. QED
      BY <3>1, <3>2
  <2>11. AboutToRecordIsHidden'
    BY <1>1, <2>1, <2>2, <2>6 DEF IInv, AboutToRecordIsHidden
  <2>12. HiddenIsOwned'
    <3>. SUFFICES ASSUME NEW j \in Items, comment[j] = "hidden", ~RolledBack(j), "crash" \notin faults,
                         ~Row(j, "executed")', ~Row(j, "failed")'
                  PROVE  \E c \in Attempts : /\ att'[c].item = j
                           /\ \/ att'[c].pc = "verify"
                              \/ att'[c].pc = "record" /\ att'[c].status \in {"executed", "failed"}
      BY <1>1, <2>6 DEF HiddenIsOwned
    <3>1. PICK c \in Attempts : /\ att[c].item = j
                                /\ \/ att[c].pc = "verify"
                                   \/ att[c].pc = "record" /\ att[c].status \in {"executed", "failed"}
      BY <2>6 DEF IInv, HiddenIsOwned
    <3>2. c # a
      BY <1>1, <2>6, <3>1
    <3>. QED
      BY <2>2, <3>1, <3>2
  <2>13. WorkerIsFirst'
    <3>. SUFFICES ASSUME NEW w \in Workers, Busy(w)
                  PROVE  /\ att'[w].live /\ att'[w].pc # "fallback"
                         /\ \A v \in Workers : Busy(v) /\ att[v].item = att[w].item => v = w
                         /\ att'[w].pc # "final" => rows'[att[w].item]["autonomous"] = << >>
                         /\ att'[w].pc \in {"record", "final"} =>
                              /\ att'[w].status \in {"blocked", "executed", "failed"}
                              /\ att'[w].status = "blocked" /\ ~Routes(w)' => queue[att[w].item] # "dry_run"
                         /\ att'[w].pc = "final" /\ att'[w].status = "failed" => Row(att[w].item, "failed")'
      BY <1>1, <2>2 DEF WorkerIsFirst, Attempts
    <3>1. w \in Attempts /\ att[w].item \in Items
      BY DEF Attempts, IInv, AttemptsOnItems
    <3>2. CASE w # a
      <4>1. <<att[w].item, "autonomous">> # <<i, t>>
        BY <1>1, <3>2 DEF IInv, WorkerIsFirst, Trigger
      <4>2. rows'[att[w].item]["autonomous"] = rows[att[w].item]["autonomous"]
        BY <2>4, <3>1, <4>1 DEF Triggers
      <4>. QED
        BY <2>2, <2>6, <3>1, <3>2, <4>2 DEF IInv, WorkerIsFirst, Routes
    <3>3. CASE w = a
      BY <1>1, <2>1, <2>2, <2>6, <3>1, <3>3 DEF IInv, WorkerIsFirst, Routes
    <3>. QED
      BY <3>2, <3>3
  <2>14. CandidateIsOwned'
    BY <1>1, <2>2, <2>6 DEF IInv, CandidateIsOwned, Attempts
  <2>15. ExecutedIsHidden'
    BY <1>1, <2>6 DEF IInv, ExecutedIsHidden, AboutToRecordIsHidden
  <2>. QED
    BY <2>7, <2>8, <2>9, <2>10, <2>11, <2>12, <2>13, <2>14, <2>15 DEF IInv
<1>. QED
  BY <1>2, <1>3 DEF Record

-----------------------------------------------------------------------------
(* The callers: an attempt begins, ends or dies.                             *)

\* The attempt becomes x, at its begin or out of work.  An item a worker begins with is
\* new; one that a worker leaves as a candidate has failed; and an attempt that leaves
\* without a record of what it did has died.
Turns(a, x) ==
  /\ x \in Attempt /\ x.pc \in {"idle", "look", "ended"} /\ att' = [att EXCEPT ![a] = x]
  /\ UNCHANGED <<comment, rows, account, rb>>
  /\ queue' \in [Items -> {"absent", "dry_run", "approval_required", "rejected", "settled"}]
  /\ \A j \in Items : queue'[j] = "absent" => queue[j] = "absent"
  /\ \A j \in Items : queue'[j] = "dry_run" =>
       queue[j] = "dry_run" \/ (a \in Workers /\ x.pc = "look" /\ x.item = j)
  /\ faults \subseteq faults' /\ faults' \subseteq {"crash", "lost", "ignored", "unread", "dead"}
  /\ x.pc = "look" => x.item \in Items /\ queue'[x.item] # "absent"
  /\ x.pc = "look" /\ a \in Workers => ~Busy(a) /\ x.live /\ queue[x.item] = "absent"
  /\ "crash" \notin faults' =>
       /\ att[a].pc \notin {"verify", "record"}
       /\ a \in Workers /\ Busy(a) /\ queue'[att[a].item] = "dry_run" => Row(att[a].item, "failed")

\* Such a step keeps the invariant.
LEMMA TurnKeeps ==
  ASSUME IInv, NEW a \in Attempts, NEW x, Turns(a, x) PROVE IInv'
<1>1. /\ x \in Attempt /\ att' = [att EXCEPT ![a] = x] /\ att'[a] = x
      /\ \A b \in Attempts : b # a => att'[b] = att[b]
      /\ \A b \in Attempts : b # a => (Busy(b)' <=> Busy(b))
      /\ Busy(a)' <=> x.pc = "look"
  BY DEF Turns, Busy, IInv, TypeOK
<1>2. /\ rows' = rows /\ \A i, s : Row(i, s)' <=> Row(i, s)
      /\ \A i : RolledBack(i)' <=> RolledBack(i)
      /\ comment' = comment /\ (Deceived => Deceived')
  BY DEF Turns, Row, Has, RolledBack, Deceived
<1>3. TypeOK'
  <2>1. att' \in [Attempts -> Attempt]
    BY <1>1 DEF IInv, TypeOK
  <2>. QED
    BY <2>1 DEF Turns, IInv, TypeOK
<1>4. AttemptsOnItems'
  BY <1>1 DEF Turns, IInv, AttemptsOnItems
<1>5. RollbackHoldsRow' /\ OneExecutedRow'
  BY DEF Turns, IInv, RollbackHoldsRow, OneExecutedRow
<1>6. AboutToRecordIsHidden'
  BY <1>1, <1>2 DEF Turns, IInv, AboutToRecordIsHidden
<1>7. HiddenIsOwned'
  <2>. SUFFICES ASSUME NEW i \in Items, comment[i] = "hidden", ~RolledBack(i), "crash" \notin faults',
                       ~Row(i, "executed"), ~Row(i, "failed")
                PROVE  \E b \in Attempts : /\ att'[b].item = i
                         /\ \/ att'[b].pc = "verify"
                            \/ att'[b].pc = "record" /\ att'[b].status \in {"executed", "failed"}
    BY <1>2 DEF HiddenIsOwned
  <2>1. PICK b \in Attempts : /\ att[b].item = i
                              /\ \/ att[b].pc = "verify"
                                 \/ att[b].pc = "record" /\ att[b].status \in {"executed", "failed"}
    BY DEF Turns, IInv, HiddenIsOwned
  <2>2. b # a
    BY <2>1 DEF Turns
  <2>. QED
    BY <1>1, <2>1, <2>2
<1>8. WorkerIsFirst'
  <2>1. ASSUME NEW w \in Workers, Busy(w), w # a
        PROVE  /\ att[w].item \in Items
               /\ x.pc = "look" /\ a \in Workers => x.item # att[w].item
               /\ queue[att[w].item] # "dry_run" => queue'[att[w].item] # "dry_run"
    BY <2>1 DEF Turns, IInv, AttemptsOnItems, Attempts
  <2>. SUFFICES ASSUME NEW w \in Workers, Busy(w)'
                PROVE  /\ att'[w].live /\ att'[w].pc # "fallback"
                       /\ \A v \in Workers : Busy(v)' /\ att'[v].item = att'[w].item => v = w
                       /\ att'[w].pc # "final" => rows[att'[w].item]["autonomous"] = << >>
                       /\ att'[w].pc \in {"record", "final"} =>
                            /\ att'[w].status \in {"blocked", "executed", "failed"}
                            /\ att'[w].status = "blocked" /\ ~Routes(w)' => queue'[att'[w].item] # "dry_run"
                       /\ att'[w].pc = "final" /\ att'[w].status = "failed" => Row(att'[w].item, "failed")
    BY <1>2 DEF WorkerIsFirst
  <2>2. CASE w # a
    BY <1>1, <2>1, <2>2 DEF Attempts, IInv, WorkerIsFirst, Routes
  <2>3. CASE w = a
    <3>1. x.pc = "look" /\ x.live /\ x.item \in Items /\ queue[x.item] = "absent"
      BY <1>1, <2>3 DEF Turns
    <3>2. rows[x.item]["autonomous"] = << >>
      BY <3>1 DEF IInv, TypeOK, Triggers
    <3>. QED
      BY <1>1, <2>1, <2>3, <3>1, <3>2 DEF Attempts
  <2>. QED
    BY <2>2, <2>3
<1>9. CandidateIsOwned'
  <2>. SUFFICES ASSUME NEW i \in Items, queue'[i] = "dry_run", "crash" \notin faults', ~Row(i, "failed")
                PROVE  \E w \in Workers : Busy(w)' /\ att'[w].item = i
    BY <1>2 DEF CandidateIsOwned
  <2>1. CASE a \in Workers /\ x.pc = "look" /\ x.item = i
    BY <1>1, <2>1
  <2>2. CASE queue[i] = "dry_run"
    <3>1. PICK w \in Workers : Busy(w) /\ att[w].item = i
      BY <2>2 DEF Turns, IInv, CandidateIsOwned
    <3>2. w # a
      BY <3>1 DEF Turns
    <3>. QED
      BY <1>1, <3>1, <3>2 DEF Attempts
  <2>. QED
    BY <2>1, <2>2 DEF Turns
<1>10. ExecutedIsHidden'
  BY <1>2 DEF IInv, ExecutedIsHidden
<1>. QED
  BY <1>3, <1>4, <1>5, <1>6, <1>7, <1>8, <1>9, <1>10 DEF IInv

\* An attempt that begins has read the account.
LEMMA SnapshotType == ASSUME TypeOK PROVE Snapshot(Idle) \in Attempt
<1>. DEFINE h == account.conn \in {"connected", "lapsed"}
<1>1. account.active \in BOOLEAN /\ account.conn \in Conns /\ h \in BOOLEAN
  BY DEF TypeOK
<1>2. Snapshot(Idle) = [Idle EXCEPT !.active = account.active, !.conn = account.conn, !.healthy = h]
  BY DEF Snapshot
<1>. HIDE DEF h
<1>3. ASSUME NEW b \in Attempt
      PROVE  [b EXCEPT !.active = account.active, !.conn = account.conn, !.healthy = h] \in Attempt
  BY <1>1 DEF Attempt
<1>. QED
  BY <1>2, <1>3, IdleType

\* What an attempt is when it begins.
LEMMA BegunType ==
  ASSUME TypeOK, NEW i \in Items, NEW live \in BOOLEAN, NEW then \in BOOLEAN
  PROVE  /\ Begun(i, live, then) \in Attempt /\ Begun(i, live, then).pc = "look"
         /\ Begun(i, live, then).item = i /\ Begun(i, live, then).live = live
<1>1. ASSUME NEW b \in Attempt
      PROVE  /\ [b EXCEPT !.pc = "look", !.item = i, !.live = live, !.then = then] \in Attempt
             /\ [b EXCEPT !.pc = "look", !.item = i, !.live = live, !.then = then].pc = "look"
             /\ [b EXCEPT !.pc = "look", !.item = i, !.live = live, !.then = then].item = i
             /\ [b EXCEPT !.pc = "look", !.item = i, !.live = live, !.then = then].live = live
  BY DEF Attempt, Phases
<1>. QED
  BY <1>1, SnapshotType DEF Begun

\* A worker begins with an item nobody had.
LEMMA IngestKeeps == ASSUME IInv, NEW a \in Workers, Ingest(a) PROVE IInv'
<1>1. PICK i \in Items :
        /\ queue[i] = "absent" /\ queue' = [queue EXCEPT ![i] = "dry_run"]
        /\ att' = [att EXCEPT ![a] = [Snapshot(Idle) EXCEPT !.pc = "look", !.item = i, !.live = TRUE]]
  BY DEF Ingest
<1>2. ASSUME NEW b \in Attempt
      PROVE  /\ [b EXCEPT !.pc = "look", !.item = i, !.live = TRUE] \in Attempt
             /\ [b EXCEPT !.pc = "look", !.item = i, !.live = TRUE].pc = "look"
             /\ [b EXCEPT !.pc = "look", !.item = i, !.live = TRUE].item = i
             /\ [b EXCEPT !.pc = "look", !.item = i, !.live = TRUE].live
  BY DEF Attempt, Phases
<1>3. PICK x \in Attempt : x.pc = "look" /\ x.item = i /\ x.live /\ att' = [att EXCEPT ![a] = x]
  BY <1>1, <1>2, SnapshotType DEF IInv
<1>4. Turns(a, x)
  BY <1>1, <1>3 DEF Ingest, Turns, Busy, IInv, TypeOK
<1>. QED
  BY <1>4, TurnKeeps DEF Attempts

\* A click begins with an item that was ingested.
LEMMA ClickKeeps ==
  ASSUME IInv, NEW a \in Clicks, Approve(a) \/ ExecuteLiveHide(a) PROVE IInv'
<1>1. PICK i \in Items, live \in BOOLEAN, then \in BOOLEAN :
        /\ Found(i) /\ att' = [att EXCEPT ![a] = Begun(i, live, then)]
        /\ queue' = [queue EXCEPT ![i] = "settled"] \/ UNCHANGED queue
  BY DEF Approve, ExecuteLiveHide, Has
<1>2. a \notin Workers /\ att[a].pc = "idle" /\ UNCHANGED <<comment, rows, account, rb, faults>>
  BY ActorsAssumption DEF Approve, ExecuteLiveHide
<1>3. Begun(i, live, then) \in Attempt /\ Begun(i, live, then).pc = "look" /\ Begun(i, live, then).item = i
  BY BegunType DEF IInv
<1>4. Turns(a, Begun(i, live, then))
  BY <1>1, <1>2, <1>3 DEF Turns, Found, IInv, TypeOK
<1>. QED
  BY <1>4, TurnKeeps DEF Attempts

\* An attempt that gives up without a result leaves nothing behind if no process died.
LEMMA LeaveKeeps ==
  ASSUME IInv, NEW a \in Attempts,
         att' = [att EXCEPT ![a] = IF a \in Workers THEN Idle ELSE [Idle EXCEPT !.pc = "ended"]],
         UNCHANGED <<comment, rows, queue, account, rb>>,
         faults \subseteq faults', faults' \subseteq {"crash", "lost", "ignored", "unread", "dead"},
         "crash" \in faults' \/ att[a].pc = "fallback"
  PROVE  IInv'
<1>1. a \in Workers => att[a].pc # "fallback"
  BY DEF IInv, WorkerIsFirst, Busy
<1>2. CASE a \in Workers
  <2>1. Turns(a, Idle)
    BY <1>1, <1>2, IdleType DEF Turns, IInv, TypeOK
  <2>. QED
    BY <2>1, TurnKeeps
<1>3. CASE a \notin Workers
  <2>1. Turns(a, [Idle EXCEPT !.pc = "ended"])
    BY <1>3, IdleType DEF Turns, IInv, TypeOK
  <2>. QED
    BY <2>1, TurnKeeps
<1>. QED
  BY <1>2, <1>3

\* A crash excuses what it leaves behind.
LEMMA CrashKeeps == ASSUME IInv, NEW a \in Attempts, Crash(a) PROVE IInv'
<1>1. faults \subseteq faults' /\ faults' \subseteq {"crash", "lost", "ignored", "unread", "dead"}
      /\ "crash" \in faults'
  BY FaultType DEF Crash, IInv, TypeOK
<1>. QED
  BY <1>1, LeaveKeeps DEF Crash

\* Only a click meets the unique index.
LEMMA FallbackKeeps == ASSUME IInv, NEW a \in Attempts, Fallback(a) PROVE IInv'
<1>1. /\ att[a].pc = "fallback" /\ UNCHANGED <<comment, rows, queue, account, rb, faults>>
      /\ faults \subseteq {"crash", "lost", "ignored", "unread", "dead"}
      /\ a \notin Workers
  BY DEF Fallback, IInv, TypeOK, WorkerIsFirst, Busy
<1>2. CASE Go(a, "final")
  <2>1. PICK x : Becomes(a, x) /\ x.pc = "final"
    BY <1>2, GoShape DEF IInv, Phases
  <2>2. Quiet(a, x)
    BY <1>1, <2>1 DEF Quiet, Busy, IInv, TypeOK
  <2>. QED
    BY <2>2, QuietKeeps
<1>3. CASE att' = [att EXCEPT ![a] = IF a \in Workers THEN Idle ELSE [Idle EXCEPT !.pc = "ended"]]
  BY <1>1, <1>3, LeaveKeeps
<1>. QED
  BY <1>2, <1>3 DEF Fallback

\* The caller of a worker's attempt settles the item, hands it to a human, or leaves a
\* candidate that failed.
LEMMA FinalKeeps == ASSUME IInv, NEW a \in Attempts, Final(a) PROVE IInv'
<1>. DEFINE i == att[a].item
<1>1. /\ i \in Items /\ queue[i] # "absent" /\ Busy(a) /\ att[a].pc = "final"
      /\ UNCHANGED <<comment, rows, account, rb, faults>>
  BY DEF Final, Busy, IInv, AttemptsOnItems
<1>2. PICK x \in Attempt :
        /\ x.pc \in {"idle", "look", "ended"} /\ att' = [att EXCEPT ![a] = x]
        /\ a \in Workers => x.pc = "idle"
        /\ x.pc = "look" => x.item = i
  <2>1. CASE a \in Workers
    BY <2>1, IdleType DEF Final
  <2>2. CASE a \notin Workers /\ att[a].then
    <3>1. Begun(i, TRUE, FALSE) \in Attempt /\ Begun(i, TRUE, FALSE).pc = "look" /\ Begun(i, TRUE, FALSE).item = i
      BY <1>1, BegunType DEF IInv
    <3>. QED
      BY <2>2, <3>1 DEF Final
  <2>3. CASE a \notin Workers /\ ~att[a].then
    BY <2>3, IdleType DEF Final
  <2>. QED
    BY <2>1, <2>2, <2>3
<1>3. /\ queue' \in [Items -> {"absent", "dry_run", "approval_required", "rejected", "settled"}]
      /\ \A j \in Items : queue'[j] = "absent" => queue[j] = "absent"
      /\ \A j \in Items : queue'[j] = "dry_run" => queue[j] = "dry_run"
  BY <1>1 DEF Final, Resolved, IInv, TypeOK
<1>4. ASSUME a \in Workers, queue'[i] = "dry_run" PROVE Row(i, "failed")
  <2>1. queue[i] = "dry_run" /\ att[a].status # "executed" /\ ~Routes(a)
    BY <1>1, <1>3, <1>4 DEF Final, Resolved, IInv, TypeOK
  <2>. QED
    BY <1>1, <1>4, <2>1 DEF IInv, WorkerIsFirst
<1>5. Turns(a, x)
  BY <1>1, <1>2, <1>3, <1>4 DEF Turns, IInv, TypeOK
<1>. QED
  BY <1>5, TurnKeeps

-----------------------------------------------------------------------------
(* The rollbacks, the page and the connection.                               *)

\* A rollback that goes on keeps the row it read.
LEMMA RollbackGoes ==
  ASSUME rb \in [Rollbacks -> Rollback], NEW r \in Rollbacks, NEW pc \in {"write", "ended"},
         rb' = [rb EXCEPT ![r].pc = pc]
  PROVE  /\ \A q \in Rollbacks : /\ rb'[q].item = rb[q].item /\ rb'[q].trigger = rb[q].trigger
                                 /\ rb'[q].row = rb[q].row
         /\ \A q \in Rollbacks : q # r => rb'[q] = rb[q]
         /\ rb'[r].pc = pc /\ rb' \in [Rollbacks -> Rollback]
<1>. DEFINE x == [rb[r] EXCEPT !.pc = pc]
<1>1. /\ x \in Rollback /\ x.pc = pc
      /\ x.item = rb[r].item /\ x.trigger = rb[r].trigger /\ x.row = rb[r].row
  BY DEF Rollback
<1>2. rb' = [rb EXCEPT ![r] = x]
  OBVIOUS
<1>. HIDE DEF x
<1>. QED
  BY <1>1, <1>2

\* A rollback begins with an executed row.
LEMMA ReadExecutionKeeps == ASSUME IInv, NEW r \in Rollbacks, ReadExecution(r) PROVE IInv'
<1>0. PICK i \in Items, t \in Triggers : \E k \in DOMAIN rows[i][t] :
        /\ rows[i][t][k].status = "executed"
        /\ rb' = [rb EXCEPT ![r] = [pc |-> "unhide", item |-> i, trigger |-> t, row |-> k]]
  BY DEF ReadExecution
<1>1. PICK k \in DOMAIN rows[i][t] :
        /\ rows[i][t][k].status = "executed"
        /\ rb' = [rb EXCEPT ![r] = [pc |-> "unhide", item |-> i, trigger |-> t, row |-> k]]
  BY <1>0
<1>2. rb[r].pc = "idle" /\ UNCHANGED <<comment, rows, queue, account, att, faults>>
  BY DEF ReadExecution
<1>3. \A j \in Items : RolledBack(j) => RolledBack(j)'
  BY <1>1, <1>2, ActorsAssumption DEF RolledBack, IInv, TypeOK, RollbackHoldsRow
<1>4. /\ \A j, s : Row(j, s)' <=> Row(j, s)
      /\ \A a : (Busy(a)' <=> Busy(a)) /\ (Routes(a)' <=> Routes(a))
      /\ Deceived' <=> Deceived
  BY <1>2 DEF Row, Has, Busy, Routes, Deceived
<1>5. TypeOK'
  <2>1. k \in Nat
    <3>1. rows[i][t] \in Seq(Rows)
      BY DEF IInv, TypeOK
    <3>. QED
      BY <3>1
  <2>2. rb' \in [Rollbacks -> Rollback]
    BY <1>1, <2>1 DEF IInv, TypeOK, Rollback
  <2>. QED
    BY <1>2, <2>2 DEF IInv, TypeOK
<1>6. RollbackHoldsRow'
  BY <1>1, <1>2 DEF IInv, TypeOK, RollbackHoldsRow
<1>7. AttemptsOnItems' /\ OneExecutedRow'
  BY <1>2, <1>4 DEF IInv, AttemptsOnItems, OneExecutedRow
<1>8. AboutToRecordIsHidden'
  BY <1>2, <1>3, <1>4 DEF IInv, AttemptsOnItems, AboutToRecordIsHidden
<1>9. HiddenIsOwned' /\ ExecutedIsHidden'
  BY <1>2, <1>3, <1>4 DEF IInv, HiddenIsOwned, ExecutedIsHidden
<1>10. WorkerIsFirst' /\ CandidateIsOwned'
  BY <1>2, <1>4 DEF IInv, WorkerIsFirst, CandidateIsOwned
<1>. QED
  BY <1>5, <1>6, <1>7, <1>8, <1>9, <1>10 DEF IInv

\* A comment that a rollback shows again is one that was rolled back.
LEMMA UnhideKeeps == ASSUME IInv, NEW r \in Rollbacks, Unhide(r) PROVE IInv'
<1>. DEFINE i == rb[r].item
            kinds == {"crash", "lost", "ignored", "unread", "dead"}
<1>1. /\ i \in Items /\ rb[r].pc = "unhide" /\ RolledBack(i) /\ UNCHANGED <<rows, queue, account, att>>
  BY DEF Unhide, IInv, RollbackHoldsRow, RolledBack
<1>2. PICK pc \in {"write", "ended"} : rb' = [rb EXCEPT ![r].pc = pc]
  BY DEF Unhide
<1>3. /\ comment' \in [Items -> {"visible", "hidden", "gone"}]
      /\ \A j \in Items : j # i => comment'[j] = comment[j]
      /\ comment'[i] # "hidden" \/ UNCHANGED comment
  BY <1>1 DEF Unhide, IInv, TypeOK
<1>4. faults \subseteq faults' /\ faults' \subseteq kinds
  BY FaultType DEF Unhide, IInv, TypeOK
<1>5. /\ \A q \in Rollbacks : rb'[q].item = rb[q].item /\ rb'[q].trigger = rb[q].trigger
                              /\ rb'[q].row = rb[q].row
      /\ \A q \in Rollbacks : q # r => rb'[q] = rb[q]
      /\ rb'[r].pc = pc /\ rb' \in [Rollbacks -> Rollback]
  BY <1>2, RollbackGoes DEF IInv, TypeOK
<1>6. \A j : RolledBack(j)' <=> RolledBack(j)
  BY <1>5 DEF RolledBack
<1>7. /\ \A j, s : Row(j, s)' <=> Row(j, s)
      /\ \A a : (Busy(a)' <=> Busy(a)) /\ (Routes(a)' <=> Routes(a))
      /\ Deceived => Deceived'
  BY <1>1, <1>4 DEF Row, Has, Busy, Routes, Deceived
<1>8. TypeOK'
  BY <1>1, <1>3, <1>4, <1>5 DEF IInv, TypeOK
<1>9. RollbackHoldsRow'
  BY <1>1, <1>5 DEF IInv, RollbackHoldsRow
<1>10. AttemptsOnItems' /\ OneExecutedRow'
  BY <1>1, <1>7 DEF IInv, AttemptsOnItems, OneExecutedRow
<1>11. AboutToRecordIsHidden'
  BY <1>1, <1>3, <1>4, <1>6, <1>7 DEF IInv, AttemptsOnItems, AboutToRecordIsHidden
<1>12. HiddenIsOwned'
  BY <1>1, <1>3, <1>4, <1>6, <1>7 DEF IInv, HiddenIsOwned
<1>13. ExecutedIsHidden'
  BY <1>1, <1>3, <1>6, <1>7 DEF IInv, ExecutedIsHidden
<1>14. WorkerIsFirst' /\ CandidateIsOwned'
  BY <1>1, <1>4, <1>7 DEF IInv, WorkerIsFirst, CandidateIsOwned
<1>. QED
  BY <1>8, <1>9, <1>10, <1>11, <1>12, <1>13, <1>14 DEF IInv

\* The row that is rolled back was executed: no failure is overwritten.
LEMMA WriteRolledBackKeeps == ASSUME IInv, NEW r \in Rollbacks, WriteRolledBack(r) PROVE IInv'
<1>. DEFINE i == rb[r].item
            t == rb[r].trigger
            k == rb[r].row
<1>1. /\ i \in Items /\ t \in Triggers /\ rb[r].pc = "write" /\ RolledBack(i)
      /\ k \in DOMAIN rows[i][t] /\ rows[i][t][k].status \in {"executed", "rolled_back"}
      /\ UNCHANGED <<comment, queue, account, att, faults>>
      /\ rb' = [rb EXCEPT ![r].pc = "ended"]
      /\ rows' = [rows EXCEPT ![i][t][k].status = "rolled_back"]
      /\ rows \in [Items -> [Triggers -> Seq(Rows)]]
  BY DEF WriteRolledBack, IInv, TypeOK, Rollback, RollbackHoldsRow, RolledBack
<1>. HIDE DEF i, t, k
<1>2. /\ \A j \in Items, u \in Triggers : <<j, u>> # <<i, t>> => rows'[j][u] = rows[j][u]
      /\ rows'[i][t] = [rows[i][t] EXCEPT ![k].status = "rolled_back"]
  BY <1>1
<1>3. /\ rows'[i][t] \in Seq(Rows) /\ DOMAIN rows'[i][t] = DOMAIN rows[i][t]
      /\ \A m \in DOMAIN rows[i][t] : m # k => rows'[i][t][m] = rows[i][t][m]
      /\ rows'[i][t][k].status = "rolled_back"
  <2>1. rows[i][t] \in Seq(Rows) /\ rows[i][t][k] \in Rows
    BY <1>1
  <2>2. /\ [rows[i][t][k] EXCEPT !.status = "rolled_back"] \in Rows
        /\ [rows[i][t][k] EXCEPT !.status = "rolled_back"].status = "rolled_back"
    BY <2>1 DEF Rows
  <2>3. rows'[i][t] = [rows[i][t] EXCEPT ![k] = [rows[i][t][k] EXCEPT !.status = "rolled_back"]]
    BY <1>2
  <2>. DEFINE e == [rows[i][t][k] EXCEPT !.status = "rolled_back"]
  <2>. HIDE DEF e
  <2>. DEFINE q == rows[i][t]
  <2>4. e \in Rows /\ e.status = "rolled_back" /\ rows'[i][t] = [q EXCEPT ![k] = e]
    BY <2>2, <2>3 DEF e
  <2>5. q \in Seq(Rows) /\ k \in DOMAIN q
    BY <1>1, <2>1
  <2>. HIDE DEF q
  <2>6. /\ [q EXCEPT ![k] = e] \in Seq(Rows) /\ DOMAIN [q EXCEPT ![k] = e] = DOMAIN q
        /\ [q EXCEPT ![k] = e][k] = e
        /\ \A m \in DOMAIN q : m # k => [q EXCEPT ![k] = e][m] = q[m]
    BY <2>4, <2>5
  <2>. QED
    BY <2>4, <2>6 DEF q
<1>4. rows' \in [Items -> [Triggers -> Seq(Rows)]]
  <2>1. \A j \in Items, u \in Triggers : rows'[j][u] \in Seq(Rows)
    <3>. SUFFICES ASSUME NEW j \in Items, NEW u \in Triggers PROVE rows'[j][u] \in Seq(Rows)
      OBVIOUS
    <3>1. CASE <<j, u>> # <<i, t>>
      BY <1>1, <1>2, <3>1
    <3>2. CASE j = i /\ u = t
      BY <1>3, <3>2
    <3>. QED
      BY <3>1, <3>2
  <2>. QED
    BY <1>1, <2>1
<1>5. /\ \A j \in Items, u \in Triggers : DOMAIN rows'[j][u] = DOMAIN rows[j][u]
      /\ \A j \in Items, u \in Triggers : \A m \in DOMAIN rows[j][u] :
           rows'[j][u][m].status = rows[j][u][m].status
             \/ (j = i /\ rows[j][u][m].status = "executed" /\ rows'[j][u][m].status = "rolled_back")
  BY <1>1, <1>2, <1>3
<1>6. /\ \A j \in Items : Row(j, "failed")' <=> Row(j, "failed")
      /\ \A j \in Items : Row(j, "executed")' => Row(j, "executed")
      /\ \A j \in Items : j # i => (Row(j, "executed")' <=> Row(j, "executed"))
      /\ \A j \in Items, u \in Triggers : rows[j][u] = << >> => rows'[j][u] = << >>
  <2>1. ASSUME NEW j \in Items, NEW u \in Triggers, rows[j][u] = << >> PROVE rows'[j][u] = << >>
    BY <1>1, <1>2, <2>1
  <2>2. \A j \in Items, u \in Triggers :
          /\ Has(j, u, "failed")' <=> Has(j, u, "failed")
          /\ Has(j, u, "executed")' => Has(j, u, "executed")
          /\ j # i => (Has(j, u, "executed")' <=> Has(j, u, "executed"))
    BY <1>5 DEF Has
  <2>. QED
    BY <2>1, <2>2 DEF Row
<1>7. /\ \A q \in Rollbacks : rb'[q].item = rb[q].item /\ rb'[q].trigger = rb[q].trigger
                              /\ rb'[q].row = rb[q].row
      /\ \A q \in Rollbacks : q # r => rb'[q] = rb[q]
      /\ rb'[r].pc = "ended" /\ rb' \in [Rollbacks -> Rollback]
  BY <1>1, RollbackGoes DEF IInv, TypeOK
<1>8. /\ \A j : RolledBack(j)' <=> RolledBack(j)
      /\ \A a : (Busy(a)' <=> Busy(a)) /\ (Routes(a)' <=> Routes(a))
      /\ Deceived' <=> Deceived
  BY <1>1, <1>7 DEF RolledBack, Busy, Routes, Deceived
<1>9. TypeOK'
  BY <1>1, <1>4, <1>6, <1>7 DEF IInv, TypeOK
<1>10. RollbackHoldsRow'
  <2>1. \A q \in Rollbacks : rb[q].trigger \in Triggers
    BY DEF IInv, TypeOK, Rollback
  <2>. QED
    BY <1>5, <1>7, <2>1 DEF IInv, RollbackHoldsRow
<1>11. OneExecutedRow'
  BY <1>5 DEF IInv, OneExecutedRow
<1>12. AttemptsOnItems' /\ AboutToRecordIsHidden'
  BY <1>1, <1>8 DEF IInv, AttemptsOnItems, AboutToRecordIsHidden
<1>13. HiddenIsOwned' /\ ExecutedIsHidden'
  <2>1. HiddenIsOwned'
    BY <1>1, <1>6, <1>8 DEF IInv, HiddenIsOwned
  <2>2. ExecutedIsHidden'
    BY <1>1, <1>6, <1>8 DEF IInv, ExecutedIsHidden
  <2>. QED
    BY <2>1, <2>2
<1>14. WorkerIsFirst'
  <2>1. \A w \in Workers : Busy(w) => att[w].item \in Items
    BY DEF IInv, AttemptsOnItems, Attempts
  <2>. QED
    BY <1>1, <1>6, <1>8, <2>1 DEF IInv, WorkerIsFirst, Triggers
<1>15. CandidateIsOwned'
  BY <1>1, <1>6, <1>8 DEF IInv, CandidateIsOwned
<1>. QED
  BY <1>9, <1>10, <1>11, <1>12, <1>13, <1>14, <1>15 DEF IInv

\* What operators decide, and what happens to the page and the token.
LEMMA OutsideKeeps ==
  ASSUME IInv, \/ \E i \in Items : Decide(i) \/ CommentGoes(i)
               \/ TokenLapses \/ Disconnect
  PROVE  IInv'
<1>1. /\ UNCHANGED <<rows, att, rb, faults>>
      /\ queue' \in [Items -> {"absent", "dry_run", "approval_required", "rejected", "settled"}]
      /\ \A j \in Items : queue'[j] = "absent" <=> queue[j] = "absent"
      /\ \A j \in Items : queue'[j] = "dry_run" => queue[j] = "dry_run"
      /\ comment' \in [Items -> {"visible", "hidden", "gone"}]
      /\ \A j \in Items : comment'[j] # comment[j] => comment'[j] = "gone"
  BY DEF Decide, CommentGoes, TokenLapses, Disconnect, Found, IInv, TypeOK
<1>2. account' \in [active : BOOLEAN, conn : Conns]
  <2>1. account \in [active : BOOLEAN, conn : Conns]
    BY DEF IInv, TypeOK
  <2>2. CASE \E i \in Items : Decide(i) \/ CommentGoes(i)
    BY <2>1, <2>2 DEF Decide, CommentGoes
  <2>3. CASE TokenLapses
    BY <2>1, <2>3 DEF TokenLapses, Conns
  <2>4. CASE Disconnect
    BY <2>4 DEF Disconnect, Conns
  <2>. QED
    BY <2>2, <2>3, <2>4
<1>3. /\ \A j, s : Row(j, s)' <=> Row(j, s)
      /\ \A j : RolledBack(j)' <=> RolledBack(j)
      /\ \A a : (Busy(a)' <=> Busy(a)) /\ (Routes(a)' <=> Routes(a))
      /\ Deceived' <=> Deceived
  BY <1>1 DEF Row, Has, RolledBack, Busy, Routes, Deceived
<1>4. TypeOK'
  BY <1>1, <1>2 DEF IInv, TypeOK
<1>5. AttemptsOnItems'
  BY <1>1, <1>3 DEF IInv, AttemptsOnItems
<1>6. RollbackHoldsRow' /\ OneExecutedRow'
  BY <1>1 DEF IInv, RollbackHoldsRow, OneExecutedRow
<1>7. AboutToRecordIsHidden'
  BY <1>1, <1>3 DEF IInv, AttemptsOnItems, AboutToRecordIsHidden
<1>8. HiddenIsOwned' /\ ExecutedIsHidden'
  BY <1>1, <1>3 DEF IInv, HiddenIsOwned, ExecutedIsHidden
<1>9. WorkerIsFirst' /\ CandidateIsOwned'
  BY <1>1, <1>3 DEF IInv, AttemptsOnItems, Attempts, WorkerIsFirst, CandidateIsOwned
<1>. QED
  BY <1>4, <1>5, <1>6, <1>7, <1>8, <1>9 DEF IInv

-----------------------------------------------------------------------------
\* The invariant holds at first.
LEMMA IInvHolds == Init => IInv
<1>. SUFFICES ASSUME Init PROVE IInv
  OBVIOUS
<1>1. \A a \in Attempts : ~Busy(a) /\ att[a].pc = "idle"
  BY IdleType DEF Init, Busy
<1>2. \A i \in Items, t \in Triggers : rows[i][t] = << >>
  BY DEF Init
<1>3. TypeOK
  BY IdleType, <1>2 DEF Init, TypeOK, Rollback, Conns, Triggers
<1>4. AttemptsOnItems /\ AboutToRecordIsHidden /\ WorkerIsFirst
  BY <1>1 DEF AttemptsOnItems, AboutToRecordIsHidden, WorkerIsFirst, Attempts
<1>5. RollbackHoldsRow
  BY DEF Init, RollbackHoldsRow
<1>6. OneExecutedRow /\ ExecutedIsHidden
  BY <1>2 DEF OneExecutedRow, ExecutedIsHidden, Row, Has
<1>7. HiddenIsOwned /\ CandidateIsOwned
  BY DEF Init, HiddenIsOwned, CandidateIsOwned
<1>. QED
  BY <1>3, <1>4, <1>5, <1>6, <1>7 DEF IInv

\* Every step keeps it.
LEMMA IInvStep == IInv /\ [Next]_vars => IInv'
<1>. SUFFICES ASSUME IInv, [Next]_vars PROVE IInv'
  OBVIOUS
<1>1. ASSUME NEW a \in Attempts, Step(a) PROVE IInv'
  BY <1>1, LookKeeps, CheckKeeps, PreflightKeeps, PostKeeps, VerifyKeeps, RecordKeeps, FallbackKeeps,
     FinalKeeps DEF Step
<1>2. CASE UNCHANGED vars
  BY <1>2 DEF vars, IInv, TypeOK, AttemptsOnItems, RollbackHoldsRow, OneExecutedRow,
     AboutToRecordIsHidden, HiddenIsOwned, WorkerIsFirst, CandidateIsOwned, ExecutedIsHidden, Busy,
     Routes, Row, Has, RolledBack, Deceived
<1>. QED
  BY <1>1, <1>2, CrashKeeps, IngestKeeps, ClickKeeps, ReadExecutionKeeps, UnhideKeeps,
     WriteRolledBackKeeps, OutsideKeeps DEF Next

\* So it holds always.
LEMMA IInvInvariant == Spec => []IInv
  BY IInvHolds, IInvStep, PTL DEF Spec

\* The state has its type: every attempt under way has an item, and no execution exists
\* for a comment that was never ingested.
THEOREM TypesHold == Spec => []TypeOK
<1>. IInv => TypeOK
  BY DEF IInv
<1>. QED
  BY IInvInvariant, PTL

\* The executed rows of one item and trigger are at most one, however many clicks and
\* workers attempt the hide: attemptFacebookHide looks for an earlier execution without a
\* lock, and the unique index with the fallback of record makes up for it.
THEOREM ExecutedOnce == Spec => []OneExecution
<1>1. IInv => OneExecution
  <2>. SUFFICES ASSUME IInv, NEW i \in Items, NEW t \in Triggers
                PROVE  Cardinality({k \in DOMAIN rows[i][t] : rows[i][t][k].status = "executed"}) <= 1
    BY DEF OneExecution
  <2>. DEFINE E == {k \in DOMAIN rows[i][t] : rows[i][t][k].status = "executed"}
  <2>1. \A k, l \in E : k = l
    BY DEF IInv, OneExecutedRow
  <2>. HIDE DEF E
  <2>2. CASE E = {}
    BY <2>2, FS_EmptySet DEF E
  <2>3. CASE E # {}
    <3>1. PICK k : E = {k}
      BY <2>1, <2>3
    <3>2. Cardinality(E) = 1
      BY <3>1, FS_Singleton
    <3>. QED
      BY <3>2 DEF E
  <2>. QED
    BY <2>2, <2>3
<1>. QED
  BY <1>1, IInvInvariant, PTL

\* An executed row tells the truth about the comment unless somebody rolled it back or
\* Graph both ignored the POST and could not be asked: recordVerifiedHide asks after
\* the POST, and nothing but a rollback shows a comment again.
THEOREM ExecutedTellsTheTruth == Spec => []ExecutedIsHidden
<1>. IInv => ExecutedIsHidden
  BY DEF IInv
<1>. QED
  BY IInvInvariant, PTL

\* Every comment that was hidden has a row, executed or failed, once nobody works on it:
\* also if the answer to the POST was lost, unless a process died in between.
THEOREM HiddenHasItsRow == Spec => []HiddenIsAccounted
<1>. IInv => HiddenIsAccounted
  BY DEF IInv, HiddenIsOwned, HiddenIsAccounted, Working
<1>. QED
  BY IInvInvariant, PTL

\* An item stays an autonomous candidate only if its attempt failed at the provider: what
\* blocked it is with a human.  It rests on every item being ingested once.
THEOREM CandidatesFailed == Spec => []BlockedIsRouted
<1>. IInv => BlockedIsRouted
  BY DEF IInv, CandidateIsOwned, BlockedIsRouted, Working, Busy, Attempts
<1>. QED
  BY IInvInvariant, PTL
=============================================================================
