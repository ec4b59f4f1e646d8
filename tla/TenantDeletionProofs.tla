------------------------- MODULE TenantDeletionProofs -------------------------
(***************************************************************************)
(* The safety of a tenant's deletion, for any number of requests, workers,  *)
(* accounts, logins, webhook events and faults.                             *)
(*                                                                          *)
(* What the invariants need beside themselves is where each run stands: a   *)
(* run that executes belongs to the tenant's one operation, a run that has  *)
(* listed the accounts holds every account that is still connected in its   *)
(* list, and a run that is past them finds none connected.                  *)
(***************************************************************************)
EXTENDS TenantDeletion, TLAPS, FiniteSetTheorems

Executing == Stages \cup {"delete", "rewrite", "failed"}
PastAccounts == {"leases", "sessions", "webhooks", "read", "delete"}

\* There is an operation exactly while the tenant is not active.
OneOperation == op = None <=> tenant = "active"

\* Every run that executes belongs to it.
RunsShareOperation ==
  \A r \in Runs : run[r].pc \in Executing => run[r].op = op /\ tenant # "active"

\* The open transaction of a request is the only one, and the tenant's row is locked.
RowLocked ==
  \A r \in Runs : run[r].pc = "flipped" =>
    /\ r \in Requests /\ tenant = "active"
    /\ \A s \in Runs : run[s].pc = "flipped" => s = r

\* The branch that finds the tenant gone is right about it.
RewriteFindsGone == \A r \in Runs : run[r].pc = "rewrite" => tenant = "gone"

\* The accounts still connected are in the list of every run that has one.
ListCovers ==
  \A r \in Runs :
    /\ run[r].pc = "accounts" /\ run[r].todo # {} => connected \subseteq run[r].todo
    /\ run[r].pc \in PastAccounts => connected = {}

IInv ==
  /\ TypeOK /\ OneOperation /\ RunsShareOperation /\ RowLocked /\ RewriteFindsGone
  /\ ListCovers /\ ReceiptIsTrue /\ CleanupComesFirst /\ SessionsEnd /\ NothingSurvives

\* Counting the accounts gives a number.
LEMMA CountBound == Cardinality(Accounts) \in Nat /\ Cardinality({}) = 0
  BY AccountsAssumption, FS_CardinalityType, FS_EmptySet

\* What a run is when it begins an operation.
LEMMA BegunType ==
  ASSUME NEW pc \in Pcs, NEW o \in Requests \cup {None} PROVE Begun(pc, o) \in Run
  BY CountBound DEF Begun, Run, Counts

\* Revoking sessions leaves session rows.
LEMMA RevokedType ==
  ASSUME login \in [Logins -> Login], NEW L PROVE Revoked(L) \in [Logins -> Login]
  BY DEF Revoked, Login

\* A run that goes on keeps its operation.
LEMMA GoType ==
  ASSUME TypeOK, NEW r \in Runs, NEW pc \in Pcs, Go(r, pc),
         pc \in Stages => run[r].op \in Requests
  PROVE  /\ run' \in [Runs -> Run]
         /\ \A s \in Runs : run'[s].pc \in Stages => run'[s].op \in Requests
<1>1. [run[r] EXCEPT !.pc = pc] \in Run
  BY DEF TypeOK, Run
<1>. QED
  BY <1>1 DEF TypeOK, Go, Run

\* A run that begins has an operation.
LEMMA BeginType ==
  ASSUME TypeOK, NEW r \in Runs, NEW pc \in Pcs, NEW o \in Requests,
         run' = [run EXCEPT ![r] = Begun(pc, o)]
  PROVE  /\ run' \in [Runs -> Run]
         /\ \A s \in Runs : run'[s].pc \in Stages => run'[s].op \in Requests
  BY BegunType DEF TypeOK, Begun

\* The invariant holds at first.
LEMMA IInvHolds == Init => IInv
  BY CountBound, NamesAssumption, FaultsAssumption
  DEF Init, IInv, TypeOK, OneOperation, RunsShareOperation, RowLocked, RewriteFindsGone, ListCovers,
      ReceiptIsTrue, CleanupComesFirst, SessionsEnd, NothingSurvives, Begun, Executing, PastAccounts,
      Stages, Live, Receipt, Run, Login, Pcs, Counts

\* Every step keeps it.
LEMMA IInvStep == IInv /\ [Next]_vars => IInv'
<1>. SUFFICES ASSUME IInv, [Next]_vars PROVE IInv'
  OBVIOUS
<1>1. ASSUME NEW r \in Runs, Commit(r) PROVE IInv'
  <2>1. TypeOK'
    <3>1. r \in Requests
      BY <1>1 DEF Commit, IInv, RowLocked
    <3>2. receipt' \in [Requests -> Receipt]
      BY <1>1, <3>1 DEF Commit, IInv, TypeOK, Receipt
    <3>. QED
      BY <1>1, <3>1, <3>2, BeginType, RevokedType DEF Commit, IInv, TypeOK, Pcs, Stages
  <2>2. OneOperation'
    BY <1>1, NamesAssumption DEF Commit, IInv, OneOperation, RowLocked
  <2>3. RunsShareOperation'
    BY <1>1 DEF Commit, Begun, IInv, RunsShareOperation, RowLocked
  <2>4. RowLocked'
    BY <1>1 DEF Commit, Begun, IInv, RowLocked, TypeOK
  <2>5. RewriteFindsGone'
    BY <1>1 DEF Commit, Begun, IInv, RewriteFindsGone, RowLocked
  <2>6. ListCovers'
    BY <1>1 DEF Commit, Begun, IInv, ListCovers, PastAccounts
  <2>7. ReceiptIsTrue'
    BY <1>1, NamesAssumption DEF Commit, IInv, ReceiptIsTrue, OneOperation, RowLocked
  <2>8. CleanupComesFirst'
    BY <1>1 DEF Commit, CleanupComesFirst
  <2>9. SessionsEnd'
    BY <1>1 DEF Commit, Begun, Revoked, IInv, SessionsEnd, Live
  <2>10. NothingSurvives'
    BY <1>1 DEF Commit, NothingSurvives
  <2>. QED
    BY <2>1, <2>2, <2>3, <2>4, <2>5, <2>6, <2>7, <2>8, <2>9, <2>10 DEF IInv
<1>2. ASSUME NEW r \in Runs, ListAccounts(r) PROVE IInv'
  <2>1. TypeOK'
    <3>1. PICK all \in {{}, Accounts} :
             run' = [run EXCEPT ![r] = [@ EXCEPT !.todo = all, !.count = Cardinality(all),
                                                 !.pc = IF all = {} THEN "leases" ELSE "accounts"]]
      BY <1>2 DEF ListAccounts, IInv, TypeOK
    <3>2. Cardinality(all) \in Counts
      BY <3>1, CountBound DEF Counts
    <3>3. (IF all = {} THEN "leases" ELSE "accounts") \in Pcs
      BY DEF Pcs, Stages
    <3>4. run[r].op \in Requests /\ run[r] \in Run
      BY <1>2 DEF ListAccounts, IInv, TypeOK, Stages
    <3>5. PICK x \in Run : x.op \in Requests /\ run' = [run EXCEPT ![r] = x]
      BY <3>1, <3>2, <3>3, <3>4 DEF Run
    <3>6. /\ run' \in [Runs -> Run]
          /\ \A s \in Runs : run'[s].pc \in Stages => run'[s].op \in Requests
      BY <3>5 DEF IInv, TypeOK
    <3>. QED
      BY <1>2, <3>6 DEF ListAccounts, IInv, TypeOK
  <2>2. RunsShareOperation'
    BY <1>2 DEF ListAccounts, IInv, RunsShareOperation, Executing, Stages, TypeOK
  <2>3. RowLocked'
    BY <1>2 DEF ListAccounts, IInv, RowLocked, TypeOK
  <2>4. RewriteFindsGone'
    BY <1>2 DEF ListAccounts, IInv, RewriteFindsGone, TypeOK
  <2>5. ListCovers'
    BY <1>2 DEF ListAccounts, IInv, ListCovers, TypeOK, CleanupComesFirst, Login
  <2>6. SessionsEnd'
    BY <1>2 DEF ListAccounts, IInv, SessionsEnd, Live, TypeOK
  <2>7. OneOperation' /\ ReceiptIsTrue' /\ CleanupComesFirst' /\ NothingSurvives'
    BY <1>2 DEF ListAccounts, IInv, OneOperation, ReceiptIsTrue, CleanupComesFirst, NothingSurvives,
       Live
  <2>. QED
    BY <2>1, <2>2, <2>3, <2>4, <2>5, <2>6, <2>7 DEF IInv
<1>3. ASSUME NEW r \in Runs, Disconnect(r) PROVE IInv'
  <2>1. TypeOK'
    BY <1>3 DEF Disconnect, IInv, TypeOK, Runs, Run
  <2>2. RunsShareOperation'
    BY <1>3 DEF Disconnect, IInv, RunsShareOperation, Executing, Stages, TypeOK
  <2>3. RowLocked'
    BY <1>3 DEF Disconnect, IInv, RowLocked, TypeOK
  <2>4. RewriteFindsGone'
    BY <1>3 DEF Disconnect, IInv, RewriteFindsGone, TypeOK
  <2>5. ListCovers'
    <3>1. PICK a \in run[r].todo :
             /\ connected' = connected \ {a}
             /\ run' = [run EXCEPT ![r].todo = @ \ {a},
                                    ![r].pc = IF run[r].todo = {a} THEN "leases" ELSE "accounts"]
      BY <1>3 DEF Disconnect
    <3>2. ASSUME NEW s \in Runs, s # r
          PROVE  /\ run'[s].pc = "accounts" /\ run'[s].todo # {} => connected' \subseteq run'[s].todo
                 /\ run'[s].pc \in PastAccounts => connected' = {}
      BY <3>1, <3>2 DEF IInv, TypeOK, ListCovers
    <3>3. /\ run'[r].pc = (IF run[r].todo = {a} THEN "leases" ELSE "accounts")
          /\ run'[r].todo = run[r].todo \ {a}
      BY <3>1 DEF IInv, TypeOK, Run
    <3>4. connected \subseteq run[r].todo
      BY <1>3, <3>1 DEF Disconnect, IInv, ListCovers
    <3>5. /\ run'[r].pc = "accounts" /\ run'[r].todo # {} => connected' \subseteq run'[r].todo
          /\ run'[r].pc \in PastAccounts => connected' = {}
      <4>1. CASE run[r].todo = {a}
        BY <3>1, <3>3, <3>4, <4>1
      <4>2. CASE run[r].todo # {a}
        <5>1. run'[r].pc = "accounts"
          BY <3>3, <4>2
        <5>2. connected' \subseteq run'[r].todo
          BY <3>1, <3>3, <3>4
        <5>. QED
          BY <5>1, <5>2 DEF PastAccounts
      <4>. QED
        BY <4>1, <4>2
    <3>. QED
      BY <3>2, <3>5 DEF ListCovers
  <2>6. CleanupComesFirst'
    BY <1>3 DEF Disconnect, IInv, CleanupComesFirst
  <2>7. SessionsEnd'
    BY <1>3 DEF Disconnect, IInv, SessionsEnd, Live, TypeOK
  <2>8. OneOperation' /\ ReceiptIsTrue' /\ NothingSurvives'
    BY <1>3 DEF Disconnect, IInv, OneOperation, ReceiptIsTrue, NothingSurvives, Live
  <2>. QED
    BY <2>1, <2>2, <2>3, <2>4, <2>5, <2>6, <2>7, <2>8 DEF IInv
<1>4. ASSUME NEW r \in Runs, DeleteLeases(r) PROVE IInv'
  <2>1. TypeOK'
    BY <1>4, GoType DEF DeleteLeases, IInv, TypeOK, Pcs, Stages, Runs
  <2>2. RunsShareOperation'
    BY <1>4 DEF DeleteLeases, Go, IInv, RunsShareOperation, Executing, Stages
  <2>3. RowLocked'
    BY <1>4 DEF DeleteLeases, Go, IInv, RowLocked
  <2>4. RewriteFindsGone'
    BY <1>4 DEF DeleteLeases, Go, IInv, RewriteFindsGone
  <2>5. ListCovers'
    BY <1>4 DEF DeleteLeases, IInv, ListCovers, PastAccounts
  <2>6. SessionsEnd'
    BY <1>4 DEF DeleteLeases, Go, IInv, SessionsEnd, Live
  <2>7. OneOperation' /\ ReceiptIsTrue' /\ CleanupComesFirst' /\ NothingSurvives'
    BY <1>4 DEF DeleteLeases, Go, IInv, OneOperation, ReceiptIsTrue, CleanupComesFirst,
       NothingSurvives, Live
  <2>. QED
    BY <2>1, <2>2, <2>3, <2>4, <2>5, <2>6, <2>7 DEF IInv
<1>5. ASSUME NEW r \in Runs, RevokeSessions(r) PROVE IInv'
  <2>1. TypeOK'
    BY <1>5, GoType, RevokedType DEF RevokeSessions, IInv, TypeOK, Pcs, Stages
  <2>2. RunsShareOperation'
    BY <1>5 DEF RevokeSessions, Go, IInv, RunsShareOperation, Executing, Stages
  <2>3. RowLocked'
    BY <1>5 DEF RevokeSessions, Go, IInv, RowLocked
  <2>4. RewriteFindsGone'
    BY <1>5 DEF RevokeSessions, Go, IInv, RewriteFindsGone
  <2>5. ListCovers'
    BY <1>5 DEF RevokeSessions, IInv, ListCovers, PastAccounts
  <2>6. SessionsEnd'
    BY <1>5 DEF RevokeSessions, Revoked, SessionsEnd, Live
  <2>7. NothingSurvives'
    BY <1>5 DEF RevokeSessions, Revoked, IInv, NothingSurvives, Live
  <2>8. OneOperation' /\ ReceiptIsTrue' /\ CleanupComesFirst'
    BY <1>5 DEF RevokeSessions, Go, Revoked, IInv, OneOperation, ReceiptIsTrue, CleanupComesFirst
  <2>. QED
    BY <2>1, <2>2, <2>3, <2>4, <2>5, <2>6, <2>7, <2>8 DEF IInv
<1>6. ASSUME NEW r \in Runs, PurgeWebhooks(r) PROVE IInv'
  <2>1. TypeOK'
    BY <1>6, GoType DEF PurgeWebhooks, IInv, TypeOK, Pcs, Stages
  <2>2. RunsShareOperation'
    BY <1>6 DEF PurgeWebhooks, Go, IInv, RunsShareOperation, Executing, Stages
  <2>3. RowLocked'
    BY <1>6 DEF PurgeWebhooks, Go, IInv, RowLocked
  <2>4. RewriteFindsGone'
    BY <1>6 DEF PurgeWebhooks, Go, IInv, RewriteFindsGone
  <2>5. ListCovers'
    BY <1>6 DEF PurgeWebhooks, IInv, ListCovers, PastAccounts
  <2>6. SessionsEnd'
    BY <1>6 DEF PurgeWebhooks, IInv, SessionsEnd, Live
  <2>7. NothingSurvives'
    BY <1>6 DEF PurgeWebhooks, IInv, NothingSurvives, Live
  <2>8. OneOperation' /\ ReceiptIsTrue' /\ CleanupComesFirst'
    BY <1>6 DEF PurgeWebhooks, Go, IInv, OneOperation, ReceiptIsTrue, CleanupComesFirst
  <2>. QED
    BY <2>1, <2>2, <2>3, <2>4, <2>5, <2>6, <2>7, <2>8 DEF IInv
<1>7. ASSUME NEW r \in Runs, ReadTenant(r) PROVE IInv'
  <2>1. TypeOK'
    BY <1>7, GoType DEF ReadTenant, IInv, TypeOK, Pcs, Stages
  <2>2. RunsShareOperation'
    BY <1>7 DEF ReadTenant, Go, IInv, RunsShareOperation, Executing, Stages
  <2>3. RowLocked'
    BY <1>7 DEF ReadTenant, Go, IInv, RowLocked
  <2>4. RewriteFindsGone'
    BY <1>7 DEF ReadTenant, Go, IInv, RewriteFindsGone
  <2>5. ListCovers'
    BY <1>7 DEF ReadTenant, IInv, ListCovers, PastAccounts
  <2>6. SessionsEnd'
    BY <1>7 DEF ReadTenant, IInv, SessionsEnd, Live
  <2>7. OneOperation' /\ ReceiptIsTrue' /\ CleanupComesFirst' /\ NothingSurvives'
    BY <1>7 DEF ReadTenant, Go, IInv, OneOperation, ReceiptIsTrue, CleanupComesFirst,
       NothingSurvives, Live
  <2>. QED
    BY <2>1, <2>2, <2>3, <2>4, <2>5, <2>6, <2>7 DEF IInv
<1>8. ASSUME NEW r \in Runs, DeleteTenant(r) PROVE IInv'
  <2>1. TypeOK'
    <3>1. run[r].op \in Requests /\ run[r].count \in Counts
      BY <1>8 DEF DeleteTenant, IInv, TypeOK, RunsShareOperation, OneOperation, Executing, Run
    <3>2. receipt' \in [Requests -> Receipt]
      BY <1>8, <3>1 DEF DeleteTenant, Completed, IInv, TypeOK, Receipt
    <3>3. Ended(r) \in Pcs \ Stages
      BY DEF Ended, Pcs, Stages
    <3>4. login' \in [Logins -> Login]
      BY <1>8 DEF DeleteTenant, IInv, TypeOK, Login
    <3>. QED
      BY <1>8, <3>2, <3>3, <3>4, GoType DEF DeleteTenant, IInv, TypeOK
  <2>2. OneOperation'
    BY <1>8 DEF DeleteTenant, IInv, OneOperation
  <2>3. RunsShareOperation'
    BY <1>8 DEF DeleteTenant, Go, IInv, RunsShareOperation, Executing
  <2>4. RowLocked'
    BY <1>8 DEF DeleteTenant, Go, Ended, IInv, RowLocked
  <2>5. RewriteFindsGone'
    BY <1>8 DEF DeleteTenant, RewriteFindsGone
  <2>6. ListCovers'
    BY <1>8 DEF DeleteTenant, IInv, ListCovers, PastAccounts
  <2>7. ReceiptIsTrue'
    BY <1>8 DEF DeleteTenant, Completed, IInv, ReceiptIsTrue, TypeOK, RunsShareOperation, Executing,
       OneOperation
  <2>8. CleanupComesFirst'
    BY <1>8 DEF DeleteTenant, IInv, CleanupComesFirst, ListCovers, PastAccounts
  <2>9. SessionsEnd'
    BY <1>8 DEF DeleteTenant, SessionsEnd, Live
  <2>10. NothingSurvives'
    BY <1>8 DEF DeleteTenant, NothingSurvives, Live
  <2>. QED
    BY <2>1, <2>2, <2>3, <2>4, <2>5, <2>6, <2>7, <2>8, <2>9, <2>10 DEF IInv
<1>9. ASSUME NEW r \in Runs, DeleteMissed(r) PROVE IInv'
  <2>1. TypeOK'
    BY <1>9, GoType DEF DeleteMissed, IInv, TypeOK, Pcs, Stages, Runs
  <2>2. RunsShareOperation'
    BY <1>9 DEF DeleteMissed, Go, IInv, RunsShareOperation, Executing
  <2>3. RowLocked'
    BY <1>9 DEF DeleteMissed, Go, IInv, RowLocked
  <2>4. RewriteFindsGone'
    BY <1>9 DEF DeleteMissed, RewriteFindsGone
  <2>5. ListCovers'
    BY <1>9 DEF DeleteMissed, IInv, ListCovers, PastAccounts
  <2>6. SessionsEnd'
    BY <1>9 DEF DeleteMissed, IInv, SessionsEnd, Live
  <2>7. OneOperation' /\ ReceiptIsTrue' /\ CleanupComesFirst' /\ NothingSurvives'
    BY <1>9 DEF DeleteMissed, Go, IInv, OneOperation, ReceiptIsTrue, CleanupComesFirst,
       NothingSurvives, Live
  <2>. QED
    BY <2>1, <2>2, <2>3, <2>4, <2>5, <2>6, <2>7 DEF IInv
<1>10. ASSUME NEW r \in Runs, Rewrite(r) PROVE IInv'
  <2>1. TypeOK'
    <3>1. run[r].op \in Requests /\ run[r].count \in Counts
      BY <1>10 DEF Rewrite, IInv, TypeOK, RunsShareOperation, OneOperation, Executing, Run
    <3>2. receipt' \in [Requests -> Receipt]
      BY <1>10, <3>1 DEF Rewrite, Completed, IInv, TypeOK, Receipt
    <3>3. Ended(r) \in Pcs \ Stages
      BY DEF Ended, Pcs, Stages
    <3>. QED
      BY <1>10, <3>2, <3>3, GoType DEF Rewrite, IInv, TypeOK
  <2>2. RunsShareOperation'
    BY <1>10 DEF Rewrite, Go, IInv, RunsShareOperation, Executing
  <2>3. RowLocked'
    BY <1>10 DEF Rewrite, Go, Ended, IInv, RowLocked
  <2>4. RewriteFindsGone'
    BY <1>10 DEF Rewrite, IInv, RewriteFindsGone
  <2>5. ListCovers'
    BY <1>10 DEF Rewrite, Go, Ended, IInv, ListCovers, PastAccounts
  <2>6. ReceiptIsTrue'
    BY <1>10 DEF Rewrite, Completed, IInv, ReceiptIsTrue, RunsShareOperation, Executing,
       RewriteFindsGone
  <2>7. SessionsEnd'
    BY <1>10 DEF Rewrite, Go, Ended, IInv, SessionsEnd, Live
  <2>8. OneOperation' /\ CleanupComesFirst' /\ NothingSurvives'
    BY <1>10 DEF Rewrite, Go, Completed, Ended, IInv, OneOperation, CleanupComesFirst,
       NothingSurvives, Live
  <2>. QED
    BY <2>1, <2>2, <2>3, <2>4, <2>5, <2>6, <2>7, <2>8 DEF IInv
<1>11. ASSUME NEW r \in Runs, MarkFailed(r) PROVE IInv'
  <2>1. TypeOK'
    <3>1. run[r].op \in Requests /\ run[r].count \in Counts
      BY <1>11 DEF MarkFailed, IInv, TypeOK, RunsShareOperation, OneOperation, Executing, Run
    <3>2. receipt' \in [Requests -> Receipt]
      BY <1>11, <3>1 DEF MarkFailed, IInv, TypeOK, Receipt
    <3>3. Ended(r) \in Pcs \ Stages
      BY DEF Ended, Pcs, Stages
    <3>. QED
      BY <1>11, <3>2, <3>3, GoType DEF MarkFailed, IInv, TypeOK
  <2>2. RunsShareOperation'
    BY <1>11 DEF MarkFailed, Go, IInv, RunsShareOperation, Executing
  <2>3. RowLocked'
    BY <1>11 DEF MarkFailed, Go, Ended, IInv, RowLocked
  <2>4. RewriteFindsGone'
    BY <1>11 DEF MarkFailed, Go, Ended, IInv, RewriteFindsGone
  <2>5. ListCovers'
    BY <1>11 DEF MarkFailed, Go, Ended, IInv, ListCovers, PastAccounts
  <2>6. ReceiptIsTrue'
    BY <1>11 DEF MarkFailed, IInv, ReceiptIsTrue, RunsShareOperation, Executing
  <2>7. SessionsEnd'
    BY <1>11 DEF MarkFailed, Go, Ended, IInv, SessionsEnd, Live
  <2>8. OneOperation' /\ CleanupComesFirst' /\ NothingSurvives'
    BY <1>11 DEF MarkFailed, Go, Ended, IInv, OneOperation, CleanupComesFirst, NothingSurvives, Live
  <2>. QED
    BY <2>1, <2>2, <2>3, <2>4, <2>5, <2>6, <2>7, <2>8 DEF IInv
<1>12. ASSUME NEW r \in Runs, Fault(r) PROVE IInv'
  <2>1. TypeOK'
    <3>1. Ended(r) \in Pcs \ Stages
      BY DEF Ended, Pcs, Stages
    <3>2. faults' \in 0..MaxFaults
      BY <1>12, FaultsAssumption DEF Fault, IInv, TypeOK
    <3>. QED
      BY <1>12, <3>1, <3>2, GoType DEF Fault, IInv, TypeOK, Pcs, Stages
  <2>2. RunsShareOperation'
    <3>1. CASE Go(r, "failed") /\ run[r].pc \notin {"flipped", "failed"}
      BY <1>12, <3>1 DEF Fault, Go, IInv, TypeOK, RunsShareOperation, Executing, Stages, Run, Pcs
    <3>2. CASE Go(r, Ended(r))
      BY <1>12, <3>2 DEF Fault, Go, Ended, IInv, TypeOK, RunsShareOperation, Executing, Stages
    <3>. QED
      BY <1>12, <3>1, <3>2 DEF Fault
  <2>3. RowLocked'
    <3>1. CASE Go(r, "failed")
      BY <1>12, <3>1 DEF Fault, Go, IInv, TypeOK, RowLocked
    <3>2. CASE Go(r, Ended(r))
      BY <1>12, <3>2 DEF Fault, Go, Ended, IInv, TypeOK, RowLocked
    <3>. QED
      BY <1>12, <3>1, <3>2 DEF Fault
  <2>4. RewriteFindsGone'
    BY <1>12 DEF Fault, Go, Ended, IInv, RewriteFindsGone, TypeOK, Run
  <2>5. ListCovers'
    BY <1>12, NamesAssumption DEF Fault, Go, Ended, IInv, ListCovers, PastAccounts, TypeOK, Runs,
       Run
  <2>6. SessionsEnd'
    BY <1>12 DEF Fault, Go, Ended, IInv, SessionsEnd, Live, TypeOK, Run
  <2>7. OneOperation' /\ ReceiptIsTrue' /\ CleanupComesFirst' /\ NothingSurvives'
    BY <1>12 DEF Fault, Go, Ended, IInv, OneOperation, ReceiptIsTrue, CleanupComesFirst,
       NothingSurvives, Live
  <2>. QED
    BY <2>1, <2>2, <2>3, <2>4, <2>5, <2>6, <2>7 DEF IInv
<1>13. ASSUME NEW r \in Requests, Flip(r) PROVE IInv'
  <2>1. TypeOK'
    <3>1. r \in Runs
      BY <1>13 DEF Runs
    <3>2. [Begun("flipped", r) EXCEPT !.revoke = Live] \in Run
      BY <1>13, BegunType DEF Live, Pcs, Run
    <3>. QED
      BY <1>13, <3>1, <3>2 DEF Flip, Begun, IInv, TypeOK, Stages
  <2>2. RunsShareOperation'
    BY <1>13 DEF Flip, Begun, IInv, RunsShareOperation, Executing, Stages
  <2>3. RowLocked'
    BY <1>13 DEF Flip, IInv, RowLocked
  <2>4. RewriteFindsGone'
    BY <1>13 DEF Flip, Begun, IInv, RewriteFindsGone
  <2>5. ListCovers'
    BY <1>13 DEF Flip, Begun, IInv, ListCovers, PastAccounts
  <2>6. SessionsEnd'
    BY <1>13 DEF Flip, Begun, IInv, SessionsEnd, Live
  <2>7. OneOperation' /\ ReceiptIsTrue' /\ CleanupComesFirst' /\ NothingSurvives'
    BY <1>13 DEF Flip, Begun, IInv, OneOperation, ReceiptIsTrue, CleanupComesFirst, NothingSurvives,
       Live
  <2>. QED
    BY <2>1, <2>2, <2>3, <2>4, <2>5, <2>6, <2>7 DEF IInv
<1>14. ASSUME NEW r \in Requests, Converge(r) PROVE IInv'
  <2>1. TypeOK'
    <3>1. r \in Runs /\ op \in Requests
      BY <1>14 DEF Converge, IInv, TypeOK, OneOperation, Runs
    <3>2. receipt' \in [Requests -> Receipt]
      BY <1>14, <3>1 DEF Converge, IInv, TypeOK, Receipt
    <3>. QED
      BY <1>14, <3>1, <3>2, BeginType, RevokedType DEF Converge, IInv, TypeOK, Pcs, Stages
  <2>2. RunsShareOperation'
    BY <1>14 DEF Converge, Begun, IInv, RunsShareOperation
  <2>3. RowLocked'
    BY <1>14 DEF Converge, Begun, IInv, RowLocked
  <2>4. RewriteFindsGone'
    BY <1>14 DEF Converge, Begun, IInv, RewriteFindsGone
  <2>5. ListCovers'
    BY <1>14 DEF Converge, Begun, IInv, ListCovers, PastAccounts
  <2>6. ReceiptIsTrue'
    BY <1>14 DEF Converge, IInv, ReceiptIsTrue
  <2>7. SessionsEnd'
    BY <1>14 DEF Converge, Revoked, SessionsEnd, Live
  <2>8. NothingSurvives'
    BY <1>14 DEF Converge, NothingSurvives
  <2>9. OneOperation' /\ CleanupComesFirst'
    BY <1>14 DEF Converge, Begun, Revoked, IInv, OneOperation, CleanupComesFirst
  <2>. QED
    BY <2>1, <2>2, <2>3, <2>4, <2>5, <2>6, <2>7, <2>8, <2>9 DEF IInv
<1>15. ASSUME NEW r \in Requests, NotFound(r) PROVE IInv'
  <2>1. TypeOK'
    BY <1>15, GoType DEF NotFound, IInv, TypeOK, Pcs, Stages, Runs
  <2>2. RunsShareOperation'
    BY <1>15 DEF NotFound, Go, IInv, RunsShareOperation, Executing, Stages
  <2>3. RowLocked'
    BY <1>15 DEF NotFound, Go, IInv, RowLocked
  <2>4. RewriteFindsGone'
    BY <1>15 DEF NotFound, RewriteFindsGone
  <2>5. ListCovers'
    BY <1>15 DEF NotFound, Go, IInv, ListCovers, PastAccounts
  <2>6. SessionsEnd'
    BY <1>15 DEF NotFound, Go, IInv, SessionsEnd, Live
  <2>7. OneOperation' /\ ReceiptIsTrue' /\ CleanupComesFirst' /\ NothingSurvives'
    BY <1>15 DEF NotFound, Go, IInv, OneOperation, ReceiptIsTrue, CleanupComesFirst,
       NothingSurvives, Live
  <2>. QED
    BY <2>1, <2>2, <2>3, <2>4, <2>5, <2>6, <2>7 DEF IInv
<1>16. ASSUME NEW r \in Resumers, Resume(r) PROVE IInv'
  <2>1. TypeOK'
    <3>1. r \in Runs /\ op \in Requests
      BY <1>16 DEF Resume, IInv, TypeOK, OneOperation, Runs
    <3>. QED
      BY <1>16, <3>1, BeginType DEF Resume, IInv, TypeOK, Pcs, Stages
  <2>2. RunsShareOperation'
    BY <1>16 DEF Resume, Begun, IInv, RunsShareOperation
  <2>3. RowLocked'
    BY <1>16 DEF Resume, Begun, IInv, RowLocked
  <2>4. RewriteFindsGone'
    BY <1>16 DEF Resume, Begun, IInv, RewriteFindsGone
  <2>5. ListCovers'
    BY <1>16 DEF Resume, Begun, IInv, ListCovers, PastAccounts
  <2>6. SessionsEnd'
    BY <1>16 DEF Resume, Begun, IInv, SessionsEnd, Live
  <2>7. OneOperation' /\ ReceiptIsTrue' /\ CleanupComesFirst' /\ NothingSurvives'
    BY <1>16 DEF Resume, Begun, IInv, OneOperation, ReceiptIsTrue, CleanupComesFirst,
       NothingSurvives, Live
  <2>. QED
    BY <2>1, <2>2, <2>3, <2>4, <2>5, <2>6, <2>7 DEF IInv
<1>17. ASSUME NEW l \in Logins, ResolveTenant(l) PROVE IInv'
  <2>1. TypeOK'
    BY <1>17 DEF ResolveTenant, IInv, TypeOK, Login
  <2>2. SessionsEnd'
    BY <1>17 DEF ResolveTenant, IInv, SessionsEnd, Live
  <2>3. NothingSurvives'
    BY <1>17 DEF ResolveTenant, NothingSurvives
  <2>4. OneOperation' /\ RunsShareOperation' /\ RowLocked' /\ RewriteFindsGone' /\ ListCovers' /\ ReceiptIsTrue' /\ CleanupComesFirst'
    BY <1>17 DEF ResolveTenant, IInv, OneOperation, RunsShareOperation, Executing, Stages,
       RowLocked, RewriteFindsGone, ListCovers, PastAccounts, ReceiptIsTrue, CleanupComesFirst
  <2>. QED
    BY <2>1, <2>2, <2>3, <2>4 DEF IInv
<1>18. ASSUME NEW l \in Logins, InsertSession(l) PROVE IInv'
  <2>1. TypeOK'
    BY <1>18 DEF InsertSession, IInv, TypeOK, Login
  <2>2. SessionsEnd'
    BY <1>18 DEF InsertSession, IInv, SessionsEnd, Live
  <2>3. NothingSurvives'
    BY <1>18 DEF InsertSession, IInv, NothingSurvives, Live
  <2>4. OneOperation' /\ RunsShareOperation' /\ RowLocked' /\ RewriteFindsGone' /\ ListCovers' /\ ReceiptIsTrue' /\ CleanupComesFirst'
    BY <1>18 DEF InsertSession, IInv, OneOperation, RunsShareOperation, Executing, Stages,
       RowLocked, RewriteFindsGone, ListCovers, PastAccounts, ReceiptIsTrue, CleanupComesFirst
  <2>. QED
    BY <2>1, <2>2, <2>3, <2>4 DEF IInv
<1>19. ASSUME NEW l \in Logins, Hydrate(l) PROVE IInv'
  <2>1. TypeOK'
    BY <1>19 DEF Hydrate, IInv, TypeOK, Login
  <2>2. SessionsEnd'
    BY <1>19 DEF Hydrate, IInv, SessionsEnd, Live, RunsShareOperation, Executing, Stages
  <2>3. NothingSurvives'
    BY <1>19 DEF Hydrate, IInv, NothingSurvives, Live
  <2>4. OneOperation' /\ RunsShareOperation' /\ RowLocked' /\ RewriteFindsGone' /\ ListCovers' /\ ReceiptIsTrue' /\ CleanupComesFirst'
    BY <1>19 DEF Hydrate, IInv, OneOperation, RunsShareOperation, Executing, Stages, RowLocked,
       RewriteFindsGone, ListCovers, PastAccounts, ReceiptIsTrue, CleanupComesFirst
  <2>. QED
    BY <2>1, <2>2, <2>3, <2>4 DEF IInv
<1>20. ASSUME NEW h \in Hooks, MatchWebhook(h) PROVE IInv'
  <2>1. TypeOK'
    BY <1>20 DEF MatchWebhook, IInv, TypeOK
  <2>2. NothingSurvives'
    BY <1>20 DEF MatchWebhook, NothingSurvives
  <2>3. OneOperation' /\ RunsShareOperation' /\ RowLocked' /\ RewriteFindsGone' /\ ListCovers' /\ ReceiptIsTrue' /\ CleanupComesFirst' /\ SessionsEnd'
    BY <1>20 DEF MatchWebhook, IInv, OneOperation, RunsShareOperation, Executing, Stages, RowLocked,
       RewriteFindsGone, ListCovers, PastAccounts, ReceiptIsTrue, CleanupComesFirst, SessionsEnd,
       Live
  <2>. QED
    BY <2>1, <2>2, <2>3 DEF IInv
<1>21. ASSUME NEW h \in Hooks, LinkWebhook(h) PROVE IInv'
  <2>1. TypeOK'
    BY <1>21 DEF LinkWebhook, IInv, TypeOK
  <2>2. NothingSurvives'
    BY <1>21 DEF LinkWebhook, IInv, NothingSurvives, Live
  <2>3. OneOperation' /\ RunsShareOperation' /\ RowLocked' /\ RewriteFindsGone' /\ ListCovers' /\ ReceiptIsTrue' /\ CleanupComesFirst' /\ SessionsEnd'
    BY <1>21 DEF LinkWebhook, IInv, OneOperation, RunsShareOperation, Executing, Stages, RowLocked,
       RewriteFindsGone, ListCovers, PastAccounts, ReceiptIsTrue, CleanupComesFirst, SessionsEnd,
       Live
  <2>. QED
    BY <2>1, <2>2, <2>3 DEF IInv
<1>22. CASE UNCHANGED vars
  BY <1>22 DEF vars, IInv, TypeOK, OneOperation, RunsShareOperation, Executing, Stages, RowLocked,
     RewriteFindsGone, ListCovers, PastAccounts, ReceiptIsTrue, CleanupComesFirst, SessionsEnd,
     Live, NothingSurvives
<1>. QED
  BY <1>1, <1>2, <1>3, <1>4, <1>5, <1>6, <1>7, <1>8, <1>9, <1>10, <1>11, <1>12, <1>13, <1>14, <1>15,
     <1>16, <1>17, <1>18, <1>19, <1>20, <1>21, <1>22
  DEF Next, Step

\* So it holds always.
LEMMA IInvInvariant == Spec => []IInv
  BY IInvHolds, IInvStep, PTL DEF Spec

\* The state has its type; in particular a run that executes has an operation to
\* execute, which executeTenantDeletion takes as an argument and never checks.
THEOREM TypesHold == Spec => []TypeOK
<1>. IInv => TypeOK
  BY DEF IInv
<1>. QED
  BY IInvInvariant, PTL

\* However many requests and workers carry the deletion out at once, there is one
\* operation, and its receipt says completed exactly when completeTenantDeletion has
\* deleted the tenant; no markTenantDeletionFailed takes that back.
THEOREM ReceiptTellsTheTruth == Spec => []ReceiptIsTrue
<1>. IInv => ReceiptIsTrue
  BY DEF IInv
<1>. QED
  BY IInvInvariant, PTL

\* No run deletes the tenant while an account is connected: a run that has listed the
\* accounts after another has disconnected some still covers those that are left.
THEOREM CleanupPrecedesDeletion == Spec => []CleanupComesFirst
<1>. IInv => CleanupComesFirst
  BY DEF IInv
<1>. QED
  BY IInvInvariant, PTL

\* After executeTenantDeletion has revoked the sessions, no session that was handed out
\* lives, for every interleaving with createUserSession.
THEOREM NoSessionOutlivesRevocation == Spec => []SessionsEnd
<1>. IInv => SessionsEnd
  BY DEF IInv
<1>. QED
  BY IInvInvariant, PTL

\* Neither the session row of a late login nor the link of a late webhook event
\* outlives the tenant it refers to.
THEOREM NothingOutlivesTenant == Spec => []NothingSurvives
<1>. IInv => NothingSurvives
  BY DEF IInv
<1>. QED
  BY IInvInvariant, PTL
=============================================================================
