------------------------------ MODULE TenantTeam ------------------------------
(***************************************************************************)
(* The members of one tenant: invitations with their seats, acceptance,     *)
(* removal, changes of role, and the erasure of a user's identity.  Each    *)
(* operation is a transaction of several statements at READ COMMITTED: a    *)
(* clerk is one such transaction, its statements are steps, and a read sees *)
(* what others have committed by then.  The writes of a transaction and its *)
(* commit are one step.                                                     *)
(*                                                                          *)
(* A membership row is named after the invitation that created it, so that  *)
(* a write prepared for a row does not hit one created since.               *)
(***************************************************************************)
EXTENDS Naturals, FiniteSets

CONSTANTS
  Users,       \* the users, one per e-mail address
  Founders,    \* the owners the tenant has at first
  Invites,     \* the rows of `invites'
  Clerks,      \* transactions that may run at once
  Founding,    \* what the memberships of the founders come from
  MaxSeats     \* maxTeamMembers of the plan

ASSUME FoundersAssumption == Founders \subseteq Users /\ Founders # {} /\ Founding \notin Invites
ASSUME FiniteAssumption == IsFiniteSet(Users) /\ IsFiniteSet(Invites)
ASSUME SeatsAssumption == MaxSeats \in Nat /\ Cardinality(Founders) <= MaxSeats

VARIABLES
  users,    \* the users whose row exists
  member,   \* per user: role in the tenant, and where the membership came from
  invite,   \* the invitations; `lapsed' says that expiresAt has passed
  tx,       \* per clerk: the transaction it is in
  unseen    \* history: invitations that took a seat no count has seen

vars == <<users, member, invite, tx, unseen>>

-----------------------------------------------------------------------------
Roles == {"owner", "member"}
None == [role |-> "none", via |-> Founding]
Rows == [role : Roles, via : Invites \cup {Founding}]
Invitation == [status : {"none", "pending", "accepted", "revoked", "expired"},
               lapsed : BOOLEAN, for : Users]
Idle == [pc |-> "idle"]
Changing == [pc : {"found", "decided"}, user : Users, row : Rows, to : Roles \cup {"none"}]
Counting == [pc : {"counted"}, user : Users, members : 0..Cardinality(Users)]
Accepting == [pc : {"accepting"}, user : Users, invite : Invites]
Erasing == [pc : {"erasing", "locked"}, user : Users, owner : BOOLEAN]

Members == {u \in Users : member[u] # None}
Owners == {u \in Users : member[u].role = "owner"}
Pending == {i \in Invites : invite[i].status = "pending"}
CountedInvites == {i \in Pending : ~invite[i].lapsed}

\* Beside the types: a membership belongs to an existing user, and an invitation
\* that made one was accepted, by the user it was for.
TypeOK ==
  /\ users \subseteq Users
  /\ member \in [Users -> Rows \cup {None}]
  /\ invite \in [Invites -> Invitation]
  /\ tx \in [Clerks -> {Idle} \cup Changing \cup Counting \cup Accepting \cup Erasing]
  /\ unseen \subseteq Invites
  /\ Members \subseteq users
  /\ \A u \in Members : member[u].via # Founding =>
       invite[member[u].via].status = "accepted" /\ invite[member[u].via].for = u

Init ==
  /\ users = Users
  /\ member = [u \in Users |-> IF u \in Founders THEN [role |-> "owner", via |-> Founding] ELSE None]
  /\ invite \in [Invites -> [status : {"none"}, lapsed : {FALSE}, for : Users]]
  /\ tx = [c \in Clerks |-> Idle]
  /\ unseen = {}

Do(c, t) == tx' = [tx EXCEPT ![c] = t]

\* Mutant of TenantLocked: the erasure counts the other owners under no lock.
TenantLockedNever == FALSE

\* Row locks: the erasure of a user holds the user's row, that of an owner also the
\* tenant's and the owners' rows.  Whoever writes a membership or an invitation
\* also inserts a row that refers to the tenant, and waits.
UserLocked(u, c) == \E d \in Clerks \ {c} : tx[d].pc \in {"erasing", "locked"} /\ tx[d].user = u
TenantLocked == \E d \in Clerks : tx[d].pc = "locked"

-----------------------------------------------------------------------------
(* removeMember and changeMemberRole.                                        *)

\* The membership is read; `to' is the new role, or none for a removal.
Find(c, u) ==
  /\ tx[c].pc = "idle" /\ u \in Members
  /\ \E to \in (Roles \cup {"none"}) \ {member[u].role} :
       Do(c, [pc |-> "found", user |-> u, row |-> member[u], to |-> to])
  /\ UNCHANGED <<users, member, invite, unseen>>

\* isLastOwner, on the role that was read and the owners counted now.
LastOwner(role) == role = "owner" /\ Cardinality(Owners) <= 1

Decide(c) ==
  /\ tx[c].pc = "found"
  /\ Do(c, IF LastOwner(tx[c].row.role) THEN Idle ELSE [tx[c] EXCEPT !.pc = "decided"])
  /\ UNCHANGED <<users, member, invite, unseen>>

\* The row is written if it is still there.
WriteMember(c) ==
  LET u == tx[c].user
  IN  /\ tx[c].pc = "decided" /\ ~TenantLocked
      /\ member' = [member EXCEPT ![u] =
           IF @.role = "none" \/ @.via # tx[c].row.via THEN @
           ELSE IF tx[c].to = "none" THEN None ELSE [@ EXCEPT !.role = tx[c].to]]
      /\ Do(c, Idle)
      /\ UNCHANGED <<users, invite, unseen>>

-----------------------------------------------------------------------------
(* createInvite, revokeInvite, resendInvite and expireStaleInvites.          *)

\* Mutant of SeatLocked: invitations are counted and inserted side by side.
SeatLockedNever == FALSE

SeatLocked == \E c \in Clerks : tx[c].pc = "counted"

\* Under the tenant's seat lock the members are counted, then the invitations.
CountMembers(c, u) ==
  /\ tx[c].pc = "idle" /\ ~SeatLocked /\ u \notin Members
  /\ Do(c, [pc |-> "counted", user |-> u, members |-> Cardinality(Members)])
  /\ UNCHANGED <<users, member, invite, unseen>>

\* seatsAvailable, and the partial unique index on (tenant, email).
MayInvite(c) ==
  /\ tx[c].members + Cardinality(CountedInvites) < MaxSeats
  /\ \A i \in Pending : invite[i].for # tx[c].user

InsertInvite(c) ==
  /\ tx[c].pc = "counted" /\ MayInvite(c) /\ ~TenantLocked
  /\ \E i \in Invites : /\ invite[i].status = "none" /\ invite[i].for = tx[c].user
                        /\ invite' = [invite EXCEPT ![i].status = "pending"]
  /\ Do(c, Idle)
  /\ UNCHANGED <<users, member, unseen>>

RefuseInvite(c) ==
  /\ tx[c].pc = "counted" /\ ~MayInvite(c)
  /\ Do(c, Idle)
  /\ UNCHANGED <<users, member, invite, unseen>>

RevokeInvite(i) ==
  /\ i \in Pending /\ ~TenantLocked
  /\ invite' = [invite EXCEPT ![i].status = "revoked"]
  /\ UNCHANGED <<users, member, tx, unseen>>

\* The invitation gets a new token and a new expiry, whether it has lapsed or not.
ResendInvite(i) ==
  /\ i \in Pending
  /\ invite' = [invite EXCEPT ![i].lapsed = FALSE]
  /\ unseen' = IF invite[i].lapsed THEN unseen \cup {i} ELSE unseen
  /\ UNCHANGED <<users, member, tx>>

Lapse(i) ==
  /\ i \in CountedInvites
  /\ invite' = [invite EXCEPT ![i].lapsed = TRUE]
  /\ UNCHANGED <<users, member, tx, unseen>>

ExpireStaleInvites ==
  /\ Pending # CountedInvites
  /\ invite' = [i \in Invites |-> IF i \in Pending \ CountedInvites
                                  THEN [invite[i] EXCEPT !.status = "expired"] ELSE invite[i]]
  /\ UNCHANGED <<users, member, tx, unseen>>

-----------------------------------------------------------------------------
(* acceptInvite.                                                             *)

\* The signed-in user follows the link.
ReadInvite(c, i) ==
  /\ tx[c].pc = "idle" /\ i \in Pending /\ invite[i].for \in users
  /\ \/ /\ invite[i].lapsed
        /\ invite' = [invite EXCEPT ![i].status = "expired"]
        /\ UNCHANGED tx
     \/ /\ ~invite[i].lapsed
        /\ Do(c, [pc |-> "accepting", user |-> invite[i].for, invite |-> i])
        /\ UNCHANGED invite
  /\ UNCHANGED <<users, member, unseen>>

\* Mutant of Claimable: the claim does not ask for the status.
ClaimableAnyway(i) == TRUE

\* The UPDATE that claims the invitation looks at the status only.
Claimable(i) == i \in Pending

\* The membership is upserted in the same transaction; it needs the user's row.
Claim(c) ==
  LET i == tx[c].invite
      u == tx[c].user
  IN  /\ tx[c].pc = "accepting" /\ ~UserLocked(u, c) /\ ~TenantLocked
      /\ IF Claimable(i) /\ u \in users
         THEN /\ invite' = [invite EXCEPT ![i].status = "accepted"]
              /\ member' = [member EXCEPT ![u] =
                              IF @ = None THEN [role |-> "member", via |-> i] ELSE @]
              /\ unseen' = IF SeatLocked \/ invite[i].lapsed THEN unseen \cup {i} ELSE unseen
         ELSE UNCHANGED <<invite, member, unseen>>
      /\ Do(c, Idle)
      /\ UNCHANGED users

-----------------------------------------------------------------------------
(* eraseUserIdentity.                                                        *)

\* The user's row is locked and the memberships are read.
BeginErase(c, u) ==
  /\ tx[c].pc = "idle" /\ u \in users /\ ~UserLocked(u, c)
  /\ Do(c, [pc |-> "erasing", user |-> u, owner |-> u \in Owners])
  /\ UNCHANGED <<users, member, invite, unseen>>

\* computeSoleOwnerBlockers.
SoleOwner(u) == Owners \ {u} = {}

\* The tenant's row and then the rows of its owners are locked, and the other
\* owners counted; without any, the transaction is rolled back.
LockOwners(c) ==
  /\ tx[c].pc = "erasing" /\ tx[c].owner /\ ~TenantLocked /\ ~SoleOwner(tx[c].user)
  /\ Do(c, [tx[c] EXCEPT !.pc = "locked"])
  /\ UNCHANGED <<users, member, invite, unseen>>

BlockErase(c) ==
  /\ tx[c].pc = "erasing" /\ tx[c].owner /\ ~TenantLocked /\ SoleOwner(tx[c].user)
  /\ Do(c, Idle)
  /\ UNCHANGED <<users, member, invite, unseen>>

\* Mutant of Erase: the membership outlives its user.
EraseNoCascade(c) ==
  LET u == tx[c].user
  IN  /\ \/ tx[c].pc = "erasing" /\ ~tx[c].owner /\ ~(TenantLocked /\ u \in Owners)
         \/ tx[c].pc = "locked"
      /\ users' = users \ {u}
      /\ Do(c, Idle)
      /\ UNCHANGED <<member, invite, unseen>>

\* The user is deleted, the membership with it.
Erase(c) ==
  LET u == tx[c].user
  IN  /\ \/ tx[c].pc = "erasing" /\ ~tx[c].owner /\ ~(TenantLocked /\ u \in Owners)
         \/ tx[c].pc = "locked"
      /\ users' = users \ {u}
      /\ member' = [member EXCEPT ![u] = None]
      /\ Do(c, Idle)
      /\ UNCHANGED <<invite, unseen>>

\* A transaction is rolled back by an error or a timeout.
Abort(c) ==
  /\ tx[c].pc # "idle"
  /\ Do(c, Idle)
  /\ UNCHANGED <<users, member, invite, unseen>>

-----------------------------------------------------------------------------
Next ==
  \/ \E c \in Clerks :
       \/ \E u \in Users : Find(c, u) \/ CountMembers(c, u) \/ BeginErase(c, u)
       \/ \E i \in Invites : ReadInvite(c, i)
       \/ Decide(c) \/ WriteMember(c) \/ InsertInvite(c) \/ RefuseInvite(c) \/ Claim(c)
       \/ LockOwners(c) \/ Erase(c) \/ BlockErase(c) \/ Abort(c)
  \/ \E i \in Invites : RevokeInvite(i) \/ ResendInvite(i) \/ Lapse(i)
  \/ ExpireStaleInvites

Spec == Init /\ [][Next]_vars

-----------------------------------------------------------------------------
\* "The last owner can never be removed or demoted", and an erasure "cannot race
\* the check into an ownerless tenant".
NeverOwnerless == Owners # {}

\* An erasure that found its user to be an owner leaves another owner, whatever
\* removals, demotions and other erasures run beside it.
ErasureLeavesAnOwner ==
  [][\A c \in Clerks : tx[c].pc = "locked" /\ tx[c].user \notin users' => Owners' # {}]_vars

\* Members and open invitations stay within the seats of the plan, but for the
\* invitations that were accepted while another was being counted or came back
\* after they had lapsed: one seat for each of these.
SeatsAreKept ==
  Cardinality(Members) + Cardinality(CountedInvites) <= MaxSeats + Cardinality(unseen)

\* An invitation makes a member once: who was removed does not come back with it,
\* and nobody joins with one that was revoked, had expired or was used.
InviteIsUsedOnce ==
  [][\A u \in Users : u \notin Members /\ u \in Members' =>
       \E i \in Pending : invite'[i].status = "accepted" /\ member'[u].via = i]_vars
=============================================================================
