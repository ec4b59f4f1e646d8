---------------------------- MODULE FencedAccount ----------------------------
(***************************************************************************)
(* What the sync lease promises, without rows, runs or expiry: a register  *)
(* (the account's aggregate state) that is written under a fencing token.  *)
(* Tokens are issued in increasing order, at most one is current, only the *)
(* bearer of the current one writes, and an account the user disconnected  *)
(* is written by nobody until it is linked again.                          *)
(***************************************************************************)
EXTENDS Integers

VARIABLES
  status,   \* the account's lifecycle
  token,    \* the current fencing token, 0 if there is none
  issued,   \* the highest token ever drawn
  written   \* the token of the last write to the account

vars == <<status, token, issued, written>>

Init == status = "active" /\ token = 0 /\ issued = 0 /\ written = 0

\* A new holder: its token is higher than every token before it.
Grant ==
  /\ issued' \in Nat /\ issued' > issued
  /\ token' = issued'
  /\ UNCHANGED <<status, written>>

\* A token drawn in vain.
Burn ==
  /\ issued' \in Nat /\ issued' > issued
  /\ UNCHANGED <<status, token, written>>

\* The holder is done, or is deprived of its token.
Withdraw ==
  /\ token' = 0
  /\ UNCHANGED <<status, issued, written>>

\* The current holder writes; the most it does to the lifecycle is to expire it.
Write ==
  /\ token # 0
  /\ status # "disconnected"
  /\ status' \in {status, "expired"}
  /\ written' = token
  /\ UNCHANGED <<token, issued>>

\* The user links the account.
Link ==
  /\ status' = "active"
  /\ UNCHANGED <<token, issued, written>>

\* The user disconnects it, depriving the holder, if there is one, of its token
\* (or losing to a credential that changed meanwhile).
Unlink ==
  /\ status' \in {status, "disconnected"}
  /\ token' \in {0, token}
  /\ UNCHANGED <<issued, written>>

\* A watcher finds the credential expired.
Expire ==
  /\ status # "disconnected"
  /\ status' = "expired"
  /\ UNCHANGED <<token, issued, written>>

Next == Grant \/ Burn \/ Withdraw \/ Write \/ Link \/ Unlink \/ Expire

Spec == Init /\ [][Next]_vars

-----------------------------------------------------------------------------
\* Writes carry ever higher tokens: nobody overwrites a later holder's write.
WritesInTokenOrder == [][written' >= written]_vars

\* A disconnected account is only ever linked again.
OnlyLinkRevives ==
  [][status = "disconnected" /\ status' # status => status' = "active"]_vars
=============================================================================
