--------------------------- MODULE TenantTeamProofs ---------------------------
(***************************************************************************)
(* The safety of a team's membership, for any number of users, invitations, *)
(* transactions and seats.                                                  *)
(*                                                                          *)
(* Seats are kept by an account of who has paid: a seat that was taken      *)
(* while another invitation was being counted, or by an invitation that     *)
(* came back, is set aside, and all others together are within the plan.    *)
(* A count that was made may be stale, but only upwards.                    *)
(***************************************************************************)
EXTENDS TenantTeam, TLAPS, FiniteSetTheorems

\* The members a count has seen, and the open invitations one has.
SeenMembers == {u \in Members : member[u].via \notin unseen}
SeenInvites == CountedInvites \ unseen

\* Those are within the plan.
SeatsPaid == Cardinality(SeenMembers) + Cardinality(SeenInvites) <= MaxSeats

\* Members who joined since they were counted are not among the seen.
CountIsUpperBound ==
  \A c \in Clerks : tx[c].pc = "counted" => Cardinality(SeenMembers) <= tx[c].members

\* The lock on the user's row: two erasures are of two users, who exist.
ErasuresApart ==
  \A c \in Clerks : tx[c].pc \in {"erasing", "locked"} =>
    /\ tx[c].user \in users
    /\ \A d \in Clerks : tx[d].pc \in {"erasing", "locked"} /\ tx[d].user = tx[c].user => d = c

\* The lock on the tenant's row: while one transaction has it, the owners it counted stay.
LockKeepsOwners ==
  \A c \in Clerks : tx[c].pc = "locked" =>
    /\ Owners \ {tx[c].user} # {}
    /\ \A d \in Clerks : tx[d].pc = "locked" => d = c

\* Who accepts an invitation is whom it is for.
AcceptsOwn ==
  \A c \in Clerks : tx[c].pc = "accepting" => invite[tx[c].invite].for = tx[c].user

IInv ==
  /\ TypeOK /\ SeatsPaid /\ CountIsUpperBound
  /\ ErasuresApart /\ LockKeepsOwners /\ AcceptsOwn

-----------------------------------------------------------------------------
(* Sets and shapes.                                                          *)

\* Everything that is counted is finite.
LEMMA CountedIsFinite ==
  /\ IsFiniteSet(Members) /\ IsFiniteSet(SeenMembers)
  /\ IsFiniteSet(CountedInvites) /\ IsFiniteSet(SeenInvites)
  /\ Cardinality(Members) \in 0..Cardinality(Users)
  /\ Cardinality(SeenMembers) \in Nat /\ Cardinality(SeenInvites) \in Nat
  /\ Cardinality(SeenMembers) <= Cardinality(Members)
  /\ Cardinality(SeenInvites) <= Cardinality(CountedInvites)
<1>1. /\ Members \in SUBSET Users /\ SeenMembers \in SUBSET Members
      /\ CountedInvites \in SUBSET Invites /\ SeenInvites \in SUBSET CountedInvites
  BY DEF Members, SeenMembers, CountedInvites, Pending, SeenInvites
<1>2. /\ IsFiniteSet(Members) /\ IsFiniteSet(CountedInvites)
      /\ Cardinality(Members) <= Cardinality(Users)
  BY <1>1, FiniteAssumption, FS_Subset
<1>3. /\ IsFiniteSet(SeenMembers) /\ Cardinality(SeenMembers) <= Cardinality(Members)
      /\ IsFiniteSet(SeenInvites) /\ Cardinality(SeenInvites) <= Cardinality(CountedInvites)
  BY <1>1, <1>2, FS_Subset
<1>4. /\ Cardinality(Members) \in Nat /\ Cardinality(Users) \in Nat
      /\ Cardinality(SeenMembers) \in Nat /\ Cardinality(SeenInvites) \in Nat
  BY <1>2, <1>3, FiniteAssumption, FS_CardinalityType
<1>. QED
  BY <1>2, <1>3, <1>4

\* A set grows by at most one.
LEMMA OneMore ==
  ASSUME NEW S, NEW x, IsFiniteSet(S)
  PROVE  IsFiniteSet(S \cup {x}) /\ Cardinality(S \cup {x}) <= Cardinality(S) + 1
<1>1. IsFiniteSet(S \cup {x}) /\ (x \in S => S \cup {x} = S)
  BY FS_AddElement
<1>2. Cardinality(S) \in Nat
  BY FS_CardinalityType
<1>. QED
  BY <1>1, <1>2, FS_AddElement

\* Where a transaction is says what it holds.
LEMMA TxShape ==
  ASSUME TypeOK, NEW c \in Clerks
  PROVE  /\ tx[c].pc \in {"found", "decided"} => tx[c] \in Changing
         /\ tx[c].pc = "counted" => tx[c] \in Counting
         /\ tx[c].pc = "accepting" => tx[c] \in Accepting
         /\ tx[c].pc \in {"erasing", "locked"} => tx[c] \in Erasing
<1>1. tx[c] \in {Idle} \cup Changing \cup Counting \cup Accepting \cup Erasing
  BY DEF TypeOK
<1>2. /\ tx[c] \in {Idle} => tx[c].pc = "idle"
      /\ tx[c] \in Changing => tx[c].pc \in {"found", "decided"}
      /\ tx[c] \in Counting => tx[c].pc = "counted"
      /\ tx[c] \in Accepting => tx[c].pc = "accepting"
      /\ tx[c] \in Erasing => tx[c].pc \in {"erasing", "locked"}
  BY DEF Idle, Changing, Counting, Accepting, Erasing
<1>. QED
  BY <1>1, <1>2

\* Do changes one transaction.
LEMMA DoType ==
  ASSUME TypeOK, NEW c \in Clerks,
         NEW t \in {Idle} \cup Changing \cup Counting \cup Accepting \cup Erasing, Do(c, t)
  PROVE  /\ tx' \in [Clerks -> {Idle} \cup Changing \cup Counting \cup Accepting \cup Erasing]
         /\ tx'[c] = t /\ \A d \in Clerks : d # c => tx'[d] = tx[d]
  BY DEF Do, TypeOK

LEMMA IdlePc == Idle.pc = "idle"
  BY DEF Idle

\* A membership is none exactly when its role is.
LEMMA RoleOfNone ==
  ASSUME TypeOK, NEW u \in Users
  PROVE  /\ u \in Members <=> member[u].role # "none"
         /\ u \in Members => member[u] \in Rows
         /\ u \in Owners => u \in Members
  BY DEF TypeOK, Members, Owners, None, Rows, Roles

-----------------------------------------------------------------------------
(* A step that takes no seat, no lock and no owner others rely on.           *)

Releases ==
  /\ \A d \in Clerks : tx'[d] = tx[d] \/ tx'[d].pc \notin {"counted", "erasing", "locked"}
  /\ SeenMembers' \subseteq SeenMembers /\ SeenInvites' \subseteq SeenInvites
  /\ \A d \in Clerks : tx'[d].pc \in {"erasing", "locked"} => tx[d].user \in users'
  /\ \A d \in Clerks : tx'[d].pc = "locked" => Owners \ {tx[d].user} \subseteq Owners'

LEMMA ReleaseKeeps == ASSUME IInv, TypeOK', Releases, AcceptsOwn' PROVE IInv'
<1>1. /\ Cardinality(SeenMembers') \in Nat /\ Cardinality(SeenInvites') \in Nat
      /\ Cardinality(SeenMembers') <= Cardinality(SeenMembers)
      /\ Cardinality(SeenInvites') <= Cardinality(SeenInvites)
  BY CountedIsFinite, FS_Subset, FS_CardinalityType DEF Releases
<1>2. SeatsPaid'
  BY <1>1, CountedIsFinite, SeatsAssumption DEF IInv, SeatsPaid
<1>3. CountIsUpperBound'
  <2>. SUFFICES ASSUME NEW c \in Clerks, tx'[c].pc = "counted"
                PROVE  Cardinality(SeenMembers') <= tx'[c].members
    BY DEF CountIsUpperBound
  <2>1. tx'[c] = tx[c] /\ tx[c].members \in 0..Cardinality(Users)
    BY TxShape DEF Releases, IInv, Counting
  <2>2. Cardinality(SeenMembers) <= tx[c].members
    BY <2>1 DEF IInv, CountIsUpperBound
  <2>. QED
    BY <1>1, <2>1, <2>2, CountedIsFinite, FiniteAssumption, FS_CardinalityType
<1>4. ErasuresApart'
  BY DEF Releases, IInv, ErasuresApart
<1>5. LockKeepsOwners'
  <2>. SUFFICES ASSUME NEW c \in Clerks, tx'[c].pc = "locked"
                PROVE  /\ Owners' \ {tx'[c].user} # {}
                       /\ \A d \in Clerks : tx'[d].pc = "locked" => d = c
    BY DEF LockKeepsOwners
  <2>1. tx'[c] = tx[c] /\ \A d \in Clerks : tx'[d].pc = "locked" => tx'[d] = tx[d]
    BY DEF Releases
  <2>2. Owners \ {tx[c].user} # {} /\ \A d \in Clerks : tx[d].pc = "locked" => d = c
    BY <2>1 DEF IInv, LockKeepsOwners
  <2>3. Owners \ {tx[c].user} \subseteq Owners'
    BY DEF Releases
  <2>. QED
    BY <2>1, <2>2, <2>3
<1>. QED
  BY <1>2, <1>3, <1>4, <1>5 DEF IInv

-----------------------------------------------------------------------------
(* Steps that only move a transaction.                                       *)

\* What depends on memberships and invitations stays when they do.
LEMMA SameRows ==
  ASSUME UNCHANGED <<member, invite, unseen>>
  PROVE  /\ Members' = Members /\ Owners' = Owners /\ SeenMembers' = SeenMembers
         /\ SeenInvites' = SeenInvites /\ CountedInvites' = CountedInvites
  BY DEF Members, Owners, SeenMembers, SeenInvites, CountedInvites, Pending

\* A transaction that moves to t, where it holds no lock and no count.
LEMMA MoveKeeps ==
  ASSUME IInv, NEW c \in Clerks,
         NEW t \in {Idle} \cup Changing \cup Counting \cup Accepting \cup Erasing, Do(c, t),
         t.pc \notin {"counted", "erasing", "locked"},
         t.pc = "accepting" => invite[t.invite].for = t.user, UNCHANGED <<users, member, invite, unseen>>
  PROVE  IInv'
<1>1. /\ tx' \in [Clerks -> {Idle} \cup Changing \cup Counting \cup Accepting \cup Erasing]
      /\ tx'[c] = t /\ \A d \in Clerks : d # c => tx'[d] = tx[d]
  BY DoType DEF IInv
<1>2. TypeOK'
  BY <1>1, SameRows DEF IInv, TypeOK
<1>3. Releases
  BY <1>1, SameRows DEF Releases, IInv, ErasuresApart
<1>4. AcceptsOwn'
  BY <1>1 DEF IInv, AcceptsOwn
<1>. QED
  BY <1>2, <1>3, <1>4, ReleaseKeeps

\* removeMember and changeMemberRole read the membership.
LEMMA FindKeeps == ASSUME IInv, NEW c \in Clerks, NEW u \in Users, Find(c, u) PROVE IInv'
<1>1. PICK to \in Roles \cup {"none"} :
        Do(c, [pc |-> "found", user |-> u, row |-> member[u], to |-> to])
  BY DEF Find
<1>. DEFINE t == [pc |-> "found", user |-> u, row |-> member[u], to |-> to]
<1>2. t \in Changing /\ t.pc = "found"
  BY RoleOfNone DEF Find, IInv, Changing
<1>. HIDE DEF t
<1>. QED
  BY <1>1, <1>2, MoveKeeps DEF Find, t

LEMMA DecideKeeps == ASSUME IInv, NEW c \in Clerks, Decide(c) PROVE IInv'
<1>. DEFINE t == [tx[c] EXCEPT !.pc = "decided"]
<1>1. t \in Changing /\ t.pc = "decided"
  BY TxShape DEF Decide, IInv, Changing
<1>2. Do(c, Idle) \/ Do(c, t)
  BY DEF Decide
<1>. HIDE DEF t
<1>. QED
  BY <1>1, <1>2, IdlePc, MoveKeeps DEF Decide

\* A refused invitation, a blocked erasure and an abort give everything back.
LEMMA GiveUpKeeps ==
  ASSUME IInv, NEW c \in Clerks, RefuseInvite(c) \/ BlockErase(c) \/ Abort(c) PROVE IInv'
  BY IdlePc, MoveKeeps DEF RefuseInvite, BlockErase, Abort

\* The members are counted as they are.
LEMMA CountMembersKeeps ==
  ASSUME IInv, NEW c \in Clerks, NEW u \in Users, CountMembers(c, u) PROVE IInv'
<1>. DEFINE t == [pc |-> "counted", user |-> u, members |-> Cardinality(Members)]
<1>1. t \in Counting /\ t.pc = "counted" /\ t.members = Cardinality(Members)
  BY CountedIsFinite DEF Counting
<1>. HIDE DEF t
<1>2. Do(c, t) /\ UNCHANGED <<users, member, invite, unseen>>
  BY DEF CountMembers, t
<1>3. /\ tx' \in [Clerks -> {Idle} \cup Changing \cup Counting \cup Accepting \cup Erasing]
      /\ tx'[c] = t /\ \A d \in Clerks : d # c => tx'[d] = tx[d]
  BY <1>1, <1>2, DoType DEF IInv
<1>4. TypeOK'
  BY <1>2, <1>3, SameRows DEF IInv, TypeOK
<1>5. SeatsPaid' /\ CountIsUpperBound'
  BY <1>1, <1>2, <1>3, SameRows, CountedIsFinite DEF IInv, SeatsPaid, CountIsUpperBound
<1>6. AcceptsOwn'
  BY <1>1, <1>2, <1>3 DEF IInv, AcceptsOwn
<1>7. ErasuresApart' /\ LockKeepsOwners'
  BY <1>1, <1>2, <1>3, SameRows DEF IInv, ErasuresApart, LockKeepsOwners
<1>. QED
  BY <1>4, <1>5, <1>6, <1>7 DEF IInv

LEMMA BeginEraseKeeps ==
  ASSUME IInv, NEW c \in Clerks, NEW u \in Users, BeginErase(c, u) PROVE IInv'
<1>. DEFINE t == [pc |-> "erasing", user |-> u, owner |-> u \in Owners]
<1>1. t \in Erasing /\ t.pc = "erasing" /\ t.user = u
  BY DEF Erasing
<1>. HIDE DEF t
<1>2. /\ Do(c, t) /\ UNCHANGED <<users, member, invite, unseen>>
      /\ u \in users /\ ~UserLocked(u, c)
  BY DEF BeginErase, t
<1>3. /\ tx' \in [Clerks -> {Idle} \cup Changing \cup Counting \cup Accepting \cup Erasing]
      /\ tx'[c] = t /\ \A d \in Clerks : d # c => tx'[d] = tx[d]
  BY <1>1, <1>2, DoType DEF IInv
<1>4. TypeOK'
  BY <1>2, <1>3, SameRows DEF IInv, TypeOK
<1>5. SeatsPaid' /\ CountIsUpperBound'
  BY <1>1, <1>2, <1>3, SameRows DEF IInv, SeatsPaid, CountIsUpperBound
<1>6. ErasuresApart'
  BY <1>1, <1>2, <1>3 DEF UserLocked, IInv, ErasuresApart
<1>7. LockKeepsOwners'
  BY <1>1, <1>2, <1>3, SameRows DEF IInv, LockKeepsOwners
<1>8. AcceptsOwn'
  BY <1>1, <1>2, <1>3 DEF IInv, AcceptsOwn
<1>. QED
  BY <1>4, <1>5, <1>6, <1>7, <1>8 DEF IInv

\* The lock is taken by one transaction, which sees another owner.
LEMMA LockOwnersKeeps == ASSUME IInv, NEW c \in Clerks, LockOwners(c) PROVE IInv'
<1>. DEFINE t == [tx[c] EXCEPT !.pc = "locked"]
<1>1. t \in Erasing /\ t.pc = "locked" /\ t.user = tx[c].user
  BY TxShape DEF LockOwners, IInv, Erasing
<1>2. /\ Do(c, t) /\ UNCHANGED <<users, member, invite, unseen>> /\ tx[c].pc = "erasing"
      /\ ~TenantLocked /\ Owners \ {tx[c].user} # {}
  BY DEF LockOwners, SoleOwner
<1>. HIDE DEF t
<1>3. /\ tx' \in [Clerks -> {Idle} \cup Changing \cup Counting \cup Accepting \cup Erasing]
      /\ tx'[c] = t /\ \A d \in Clerks : d # c => tx'[d] = tx[d]
  BY <1>1, <1>2, DoType DEF IInv
<1>4. TypeOK'
  BY <1>2, <1>3, SameRows DEF IInv, TypeOK
<1>5. SeatsPaid' /\ CountIsUpperBound'
  BY <1>1, <1>2, <1>3, SameRows DEF IInv, SeatsPaid, CountIsUpperBound
<1>6. ErasuresApart'
  BY <1>1, <1>2, <1>3 DEF IInv, ErasuresApart
<1>7. LockKeepsOwners'
  BY <1>1, <1>2, <1>3, SameRows DEF TenantLocked, LockKeepsOwners
<1>8. AcceptsOwn'
  BY <1>1, <1>2, <1>3 DEF IInv, AcceptsOwn
<1>. QED
  BY <1>4, <1>5, <1>6, <1>7, <1>8 DEF IInv

-----------------------------------------------------------------------------
(* Steps on invitations.                                                     *)

\* A step that opens no invitation and leaves the accepted ones alone.
LEMMA CloseKeeps ==
  ASSUME IInv, UNCHANGED <<users, member, tx>>, invite' \in [Invites -> Invitation],
         unseen \subseteq unseen', unseen' \subseteq Invites,
         \A i \in Invites : invite'[i].for = invite[i].for,
         \A i \in Invites : invite[i].status = "accepted" => invite'[i].status = "accepted",
         SeenInvites' \subseteq SeenInvites
  PROVE  IInv'
<1>1. Members' = Members /\ Owners' = Owners
  BY DEF Members, Owners
<1>2. \A u \in Members : member[u].via # Founding => member[u].via \in Invites
  BY RoleOfNone DEF IInv, Rows, Members
<1>3. TypeOK'
  BY <1>1, <1>2 DEF IInv, TypeOK
<1>4. SeenMembers' \subseteq SeenMembers
  BY <1>1 DEF SeenMembers
<1>5. Releases
  BY <1>1, <1>4 DEF Releases, IInv, ErasuresApart
<1>6. AcceptsOwn'
  <2>. SUFFICES ASSUME NEW c \in Clerks, tx[c].pc = "accepting"
                PROVE  invite'[tx[c].invite].for = tx[c].user
    BY DEF AcceptsOwn
  <2>1. tx[c].invite \in Invites
    BY TxShape DEF IInv, Accepting
  <2>. QED
    BY <2>1 DEF IInv, AcceptsOwn
<1>. QED
  BY <1>3, <1>5, <1>6, ReleaseKeeps

LEMMA RevokeInviteKeeps == ASSUME IInv, NEW i \in Invites, RevokeInvite(i) PROVE IInv'
<1>1. /\ invite' = [invite EXCEPT ![i].status = "revoked"] /\ invite[i].status = "pending"
      /\ UNCHANGED <<users, member, tx, unseen>>
      /\ invite \in [Invites -> Invitation] /\ unseen \subseteq Invites
  BY DEF RevokeInvite, Pending, IInv, TypeOK
<1>2. /\ invite' \in [Invites -> Invitation]
      /\ \A j \in Invites : invite'[j].for = invite[j].for
      /\ invite'[i].status = "revoked" /\ \A j \in Invites : j # i => invite'[j] = invite[j]
  BY <1>1 DEF Invitation
<1>3. SeenInvites' \subseteq SeenInvites
  BY <1>1, <1>2 DEF SeenInvites, CountedInvites, Pending
<1>. QED
  BY <1>1, <1>2, <1>3, CloseKeeps

\* What comes back after it had lapsed is set aside.
LEMMA ResendInviteKeeps == ASSUME IInv, NEW i \in Invites, ResendInvite(i) PROVE IInv'
<1>1. /\ invite' = [invite EXCEPT ![i].lapsed = FALSE] /\ invite[i].status = "pending"
      /\ unseen' = IF invite[i].lapsed THEN unseen \cup {i} ELSE unseen
      /\ UNCHANGED <<users, member, tx>>
      /\ invite \in [Invites -> Invitation] /\ unseen \subseteq Invites
  BY DEF ResendInvite, Pending, IInv, TypeOK
<1>2. /\ invite' \in [Invites -> Invitation]
      /\ \A j \in Invites : invite'[j].for = invite[j].for /\ invite'[j].status = invite[j].status
      /\ \A j \in Invites : j # i => invite'[j] = invite[j]
  BY <1>1 DEF Invitation
<1>3. SeenInvites' \subseteq SeenInvites
  BY <1>1, <1>2 DEF SeenInvites, CountedInvites, Pending
<1>4. unseen \subseteq unseen' /\ unseen' \subseteq Invites
  BY <1>1
<1>. QED
  BY <1>1, <1>2, <1>3, <1>4, CloseKeeps

LEMMA LapseKeeps == ASSUME IInv, NEW i \in Invites, Lapse(i) PROVE IInv'
<1>1. /\ invite' = [invite EXCEPT ![i].lapsed = TRUE] /\ UNCHANGED <<users, member, tx, unseen>>
      /\ invite \in [Invites -> Invitation] /\ unseen \subseteq Invites
  BY DEF Lapse, IInv, TypeOK
<1>2. /\ invite' \in [Invites -> Invitation] /\ invite'[i].lapsed
      /\ \A j \in Invites : invite'[j].for = invite[j].for /\ invite'[j].status = invite[j].status
      /\ \A j \in Invites : j # i => invite'[j] = invite[j]
  BY <1>1 DEF Invitation
<1>3. SeenInvites' \subseteq SeenInvites
  BY <1>1, <1>2 DEF SeenInvites, CountedInvites, Pending
<1>. QED
  BY <1>1, <1>2, <1>3, CloseKeeps

LEMMA ExpireKeeps == ASSUME IInv, ExpireStaleInvites PROVE IInv'
<1>1. /\ invite' = [i \in Invites |-> IF i \in Pending \ CountedInvites
                                      THEN [invite[i] EXCEPT !.status = "expired"] ELSE invite[i]]
      /\ UNCHANGED <<users, member, tx, unseen>>
      /\ invite \in [Invites -> Invitation] /\ unseen \subseteq Invites
  BY DEF ExpireStaleInvites, IInv, TypeOK
<1>2. \A i \in Invites :
        /\ invite'[i] \in Invitation /\ invite'[i].for = invite[i].for
        /\ \/ invite'[i] = invite[i]
           \/ invite[i].status = "pending" /\ invite'[i].status = "expired"
  BY <1>1 DEF Invitation, Pending
<1>3. invite' \in [Invites -> Invitation]
  BY <1>1, <1>2
<1>4. SeenInvites' \subseteq SeenInvites
  BY <1>1, <1>2 DEF SeenInvites, CountedInvites, Pending
<1>. QED
  BY <1>1, <1>2, <1>3, <1>4, CloseKeeps

LEMMA ReadInviteKeeps ==
  ASSUME IInv, NEW c \in Clerks, NEW i \in Invites, ReadInvite(c, i) PROVE IInv'
<1>1. CASE UNCHANGED tx
  <2>. SUFFICES ASSUME invite' = [invite EXCEPT ![i].status = "expired"] PROVE IInv'
    <3>1. CASE UNCHANGED <<users, member, invite, unseen, tx>>
      BY <3>1, SameRows, ReleaseKeeps DEF IInv, TypeOK, Releases, ErasuresApart, AcceptsOwn
    <3>. QED
      BY <1>1, <3>1 DEF ReadInvite
  <2>1. /\ invite[i].status = "pending" /\ UNCHANGED <<users, member, tx, unseen>>
        /\ invite \in [Invites -> Invitation] /\ unseen \subseteq Invites
    BY <1>1 DEF ReadInvite, Pending, IInv, TypeOK
  <2>2. /\ invite' \in [Invites -> Invitation]
        /\ \A j \in Invites : invite'[j].for = invite[j].for
        /\ invite'[i].status = "expired" /\ \A j \in Invites : j # i => invite'[j] = invite[j]
    BY <2>1 DEF Invitation
  <2>3. SeenInvites' \subseteq SeenInvites
    BY <2>1, <2>2 DEF SeenInvites, CountedInvites, Pending
  <2>. QED
    BY <2>1, <2>2, <2>3, CloseKeeps
<1>2. CASE UNCHANGED invite
  <2>. DEFINE t == [pc |-> "accepting", user |-> invite[i].for, invite |-> i]
  <2>1. t \in Accepting /\ t.pc = "accepting" /\ t.user = invite[i].for /\ t.invite = i
    BY DEF Accepting, IInv, TypeOK, Invitation
  <2>2. CASE Do(c, t)
    <3>. HIDE DEF t
    <3>. QED
      BY <1>2, <2>1, <2>2, MoveKeeps DEF ReadInvite
  <2>. QED
    BY <1>1, <1>2, <2>2 DEF ReadInvite
<1>. QED
  BY <1>1, <1>2 DEF ReadInvite

\* The new invitation fits beside the members counted and the open invitations.
LEMMA InsertInviteKeeps == ASSUME IInv, NEW c \in Clerks, InsertInvite(c) PROVE IInv'
<1>1. PICK i \in Invites : /\ invite[i].status = "none"
                           /\ invite' = [invite EXCEPT ![i].status = "pending"]
  BY DEF InsertInvite
<1>2. /\ UNCHANGED <<users, member, unseen>> /\ Do(c, Idle) /\ tx[c].pc = "counted"
      /\ tx[c].members + Cardinality(CountedInvites) < MaxSeats
      /\ invite \in [Invites -> Invitation] /\ unseen \subseteq Invites
  BY DEF InsertInvite, MayInvite, IInv, TypeOK
<1>3. /\ invite' \in [Invites -> Invitation] /\ invite'[i].status = "pending"
      /\ \A j \in Invites : invite'[j].for = invite[j].for
      /\ \A j \in Invites : j # i => invite'[j] = invite[j]
  BY <1>1, <1>2 DEF Invitation
<1>4. /\ tx' \in [Clerks -> {Idle} \cup Changing \cup Counting \cup Accepting \cup Erasing]
      /\ tx'[c] = Idle /\ \A d \in Clerks : d # c => tx'[d] = tx[d]
  BY <1>2, DoType DEF IInv
<1>5. /\ Members' = Members /\ Owners' = Owners /\ SeenMembers' = SeenMembers
  BY <1>2 DEF Members, Owners, SeenMembers
<1>6. \A u \in Members : member[u].via # Founding => member[u].via \in Invites
  BY RoleOfNone DEF IInv, Rows, Members
<1>7. TypeOK'
  BY <1>1, <1>2, <1>3, <1>4, <1>5, <1>6 DEF IInv, TypeOK
<1>8. SeenInvites' \subseteq SeenInvites \cup {i}
  BY <1>2, <1>3 DEF SeenInvites, CountedInvites, Pending
<1>9. SeatsPaid'
  <2>1. /\ IsFiniteSet(SeenInvites \cup {i})
        /\ Cardinality(SeenInvites \cup {i}) <= Cardinality(SeenInvites) + 1
    BY CountedIsFinite, OneMore
  <2>2. /\ Cardinality(SeenInvites') <= Cardinality(SeenInvites \cup {i})
        /\ Cardinality(SeenInvites') \in Nat /\ Cardinality(SeenInvites \cup {i}) \in Nat
    BY <2>1, <1>8, FS_Subset, FS_CardinalityType
  <2>3. Cardinality(SeenMembers) <= tx[c].members /\ tx[c].members \in Nat
    BY <1>2, TxShape, FiniteAssumption, FS_CardinalityType DEF IInv, CountIsUpperBound, Counting
  <2>4. Cardinality(CountedInvites) \in Nat
    BY CountedIsFinite, FS_CardinalityType
  <2>. HIDE DEF SeenInvites, CountedInvites
  <2>. QED
    BY <1>2, <1>5, <2>1, <2>2, <2>3, <2>4, CountedIsFinite, SeatsAssumption DEF SeatsPaid
<1>10. CountIsUpperBound' /\ ErasuresApart' /\ LockKeepsOwners'
  BY <1>2, <1>4, <1>5, IdlePc DEF IInv, CountIsUpperBound, ErasuresApart, LockKeepsOwners
<1>11. AcceptsOwn'
  <2>. SUFFICES ASSUME NEW d \in Clerks, tx'[d].pc = "accepting"
                PROVE  invite'[tx'[d].invite].for = tx'[d].user
    BY DEF AcceptsOwn
  <2>1. tx'[d] = tx[d] /\ tx[d].invite \in Invites
    BY <1>4, IdlePc, TxShape DEF IInv, Accepting
  <2>. QED
    BY <1>3, <2>1 DEF IInv, AcceptsOwn
<1>. QED
  BY <1>7, <1>9, <1>10, <1>11 DEF IInv

-----------------------------------------------------------------------------
(* Steps on memberships.                                                     *)

\* A step by which nobody joins and the transaction ends.
LEMMA LeaveKeeps ==
  ASSUME IInv, NEW c \in Clerks, Do(c, Idle), UNCHANGED <<invite, unseen>>,
         users' \subseteq users, member' \in [Users -> Rows \cup {None}], Members' \subseteq users',
         \A v \in Members' : v \in Members /\ member'[v].via = member[v].via,
         \A d \in Clerks : d # c /\ tx[d].pc \in {"erasing", "locked"} => tx[d].user \in users',
         \A d \in Clerks : d # c /\ tx[d].pc = "locked" => Owners \subseteq Owners'
  PROVE  IInv'
<1>1. /\ tx' \in [Clerks -> {Idle} \cup Changing \cup Counting \cup Accepting \cup Erasing]
      /\ tx'[c] = Idle /\ \A d \in Clerks : d # c => tx'[d] = tx[d]
  BY DoType DEF IInv
<1>2. TypeOK'
  BY <1>1 DEF IInv, TypeOK
<1>3. SeenMembers' \subseteq SeenMembers /\ SeenInvites' = SeenInvites
  BY DEF SeenMembers, SeenInvites, CountedInvites, Pending
<1>4. Releases
  BY <1>1, <1>3, IdlePc DEF Releases
<1>5. AcceptsOwn'
  BY <1>1, IdlePc DEF IInv, AcceptsOwn
<1>. QED
  BY <1>2, <1>4, <1>5, ReleaseKeeps

LEMMA WriteMemberKeeps == ASSUME IInv, NEW c \in Clerks, WriteMember(c) PROVE IInv'
<1>. DEFINE u == tx[c].user
<1>1. tx[c] \in Changing
  BY TxShape DEF WriteMember, IInv
<1>2. u \in Users /\ tx[c].to \in Roles \cup {"none"}
  BY <1>1 DEF Changing
<1>3. member \in [Users -> Rows \cup {None}] /\ Members \subseteq users
  BY DEF IInv, TypeOK
<1>4. /\ member' = [member EXCEPT ![u] =
           IF @.role = "none" \/ @.via # tx[c].row.via THEN @
           ELSE IF tx[c].to = "none" THEN None ELSE [@ EXCEPT !.role = tx[c].to]]
      /\ UNCHANGED <<users, invite, unseen>> /\ Do(c, Idle) /\ ~TenantLocked
  BY DEF WriteMember
<1>5. \/ member' = member
      \/ member' = [member EXCEPT ![u] = None]
      \/ /\ u \in Members /\ tx[c].to \in Roles
         /\ member' = [member EXCEPT ![u] = [member[u] EXCEPT !.role = tx[c].to]]
  BY <1>2, <1>3, <1>4, RoleOfNone DEF IInv
<1>6. /\ member' \in [Users -> Rows \cup {None}]
      /\ \A v \in Members' : v \in Members /\ member'[v].via = member[v].via
  <2>1. CASE member' = member
    BY <2>1, <1>3 DEF Members
  <2>2. CASE member' = [member EXCEPT ![u] = None]
    BY <2>2, <1>2, <1>3 DEF Members
  <2>3. CASE /\ u \in Members /\ tx[c].to \in Roles
             /\ member' = [member EXCEPT ![u] = [member[u] EXCEPT !.role = tx[c].to]]
    <3>1. member[u] \in Rows
      BY <2>3, <1>2, RoleOfNone DEF IInv
    <3>. DEFINE r == [member[u] EXCEPT !.role = tx[c].to]
    <3>2. r \in Rows /\ r.via = member[u].via
      BY <3>1, <2>3 DEF Rows
    <3>. HIDE DEF r
    <3>3. member' = [member EXCEPT ![u] = r]
      BY <2>3 DEF r
    <3>. QED
      BY <1>2, <1>3, <2>3, <3>2, <3>3 DEF Members
  <2>. QED
    BY <1>5, <2>1, <2>2, <2>3
<1>. QED
  BY <1>3, <1>4, <1>6, LeaveKeeps DEF TenantLocked, IInv, ErasuresApart

\* The user of another erasure stays, and the owners whom another one counted.
LEMMA EraseKeeps == ASSUME IInv, NEW c \in Clerks, Erase(c) PROVE IInv'
<1>. DEFINE u == tx[c].user
<1>1. /\ tx[c].pc \in {"erasing", "locked"}
      /\ tx[c].pc = "locked" \/ ~(TenantLocked /\ u \in Owners)
      /\ users' = users \ {u} /\ member' = [member EXCEPT ![u] = None]
      /\ Do(c, Idle) /\ UNCHANGED <<invite, unseen>>
  BY DEF Erase
<1>2. u \in Users
  BY <1>1, TxShape DEF IInv, Erasing
<1>3. member \in [Users -> Rows \cup {None}] /\ Members \subseteq users
  BY DEF IInv, TypeOK
<1>4. /\ member' \in [Users -> Rows \cup {None}] /\ member'[u] = None
      /\ \A v \in Users : v # u => member'[v] = member[v]
  BY <1>1, <1>2, <1>3
<1>5. /\ \A v \in Members' : v \in Members /\ member'[v].via = member[v].via
      /\ Members' \subseteq users' /\ users' \subseteq users
  BY <1>1, <1>3, <1>4 DEF Members
<1>6. \A d \in Clerks : d # c /\ tx[d].pc \in {"erasing", "locked"} => tx[d].user \in users'
  BY <1>1 DEF IInv, ErasuresApart
<1>7. ASSUME NEW d \in Clerks, d # c, tx[d].pc = "locked" PROVE Owners \subseteq Owners'
  <2>1. u \notin Owners
    BY <1>1, <1>7 DEF IInv, LockKeepsOwners, TenantLocked
  <2>. QED
    BY <1>4, <2>1 DEF Owners
<1>. QED
  BY <1>1, <1>4, <1>5, <1>6, <1>7, LeaveKeeps

\* A seat that was paid as an invitation becomes one of a member; any other is set aside.
LEMMA ClaimKeeps == ASSUME IInv, NEW c \in Clerks, Claim(c) PROVE IInv'
<1>. DEFINE u == tx[c].user
            i == tx[c].invite
<1>1. u \in Users /\ i \in Invites /\ tx[c].pc = "accepting" /\ invite[i].for = u
  BY TxShape DEF Claim, IInv, Accepting, AcceptsOwn
<1>2. UNCHANGED users /\ Do(c, Idle) /\ ~TenantLocked
  BY DEF Claim
<1>3. CASE UNCHANGED <<invite, member, unseen>>
  BY <1>2, <1>3, IdlePc, MoveKeeps
<1>4. CASE /\ invite[i].status = "pending" /\ u \in users
           /\ invite' = [invite EXCEPT ![i].status = "accepted"]
           /\ member' = [member EXCEPT ![u] =
                           IF @ = None THEN [role |-> "member", via |-> i] ELSE @]
           /\ unseen' = IF SeatLocked \/ invite[i].lapsed THEN unseen \cup {i} ELSE unseen
  <2>. DEFINE r == [role |-> "member", via |-> i]
  <2>1. r \in Rows /\ r.via = i /\ r # None /\ i # Founding
    BY <1>1, FoundersAssumption DEF Rows, Roles, None
  <2>2. member' = [member EXCEPT ![u] = IF @ = None THEN r ELSE @]
    BY <1>4
  <2>. HIDE DEF r
  <2>3. /\ users \subseteq Users /\ member \in [Users -> Rows \cup {None}] /\ Members \subseteq users
        /\ invite \in [Invites -> Invitation] /\ unseen \subseteq Invites
    BY DEF IInv, TypeOK
  <2>4. /\ invite' \in [Invites -> Invitation] /\ invite'[i].status = "accepted"
        /\ \A j \in Invites : invite'[j].for = invite[j].for
        /\ \A j \in Invites : j # i => invite'[j] = invite[j]
    BY <1>1, <1>4, <2>3 DEF Invitation
  <2>5. /\ member' \in [Users -> Rows \cup {None}]
        /\ \A v \in Users : v # u => member'[v] = member[v]
        /\ u \in Members => member'[u] = member[u]
        /\ u \notin Members => member'[u] = r
    BY <1>1, <2>1, <2>2, <2>3 DEF Members
  <2>6. Members' = Members \cup {u}
    BY <1>1, <2>1, <2>5 DEF Members
  <2>7. \A v \in Members : member[v].via # Founding =>
          member[v].via \in Invites \ {i} /\ invite[member[v].via].status = "accepted"
    BY <1>4, RoleOfNone DEF IInv, TypeOK, Rows, Members
  <2>8. /\ tx' \in [Clerks -> {Idle} \cup Changing \cup Counting \cup Accepting \cup Erasing]
        /\ tx'[c] = Idle /\ \A d \in Clerks : d # c => tx'[d] = tx[d]
    BY <1>2, DoType DEF IInv
  <2>9. \A v \in Members' : member'[v].via # Founding =>
          invite'[member'[v].via].status = "accepted" /\ invite'[member'[v].via].for = v
    <3>. SUFFICES ASSUME NEW v \in Members', member'[v].via # Founding
                  PROVE  /\ invite'[member'[v].via].status = "accepted"
                         /\ invite'[member'[v].via].for = v
      OBVIOUS
    <3>1. CASE v \in Members
      <4>1. member'[v] = member[v]
        BY <3>1, <2>5 DEF Members
      <4>. QED
        BY <3>1, <4>1, <2>4, <2>7 DEF IInv, TypeOK
    <3>2. CASE v \notin Members
      <4>1. v = u /\ member'[v] = r
        BY <3>2, <2>5, <2>6
      <4>. QED
        BY <4>1, <1>1, <2>1, <2>4
    <3>. QED
      BY <3>1, <3>2
  <2>10. unseen' \subseteq Invites
    BY <1>1, <1>4, <2>3
  <2>11. TypeOK'
    <3>1. users' \subseteq Users /\ Members' \subseteq users'
      BY <1>2, <1>4, <2>3, <2>6
    <3>. QED
      BY <2>4, <2>5, <2>8, <2>9, <2>10, <3>1 DEF TypeOK
  <2>12. AcceptsOwn'
    <3>. SUFFICES ASSUME NEW d \in Clerks, tx'[d].pc = "accepting"
                  PROVE  invite'[tx'[d].invite].for = tx'[d].user
      BY DEF AcceptsOwn
    <3>1. tx'[d] = tx[d] /\ tx[d].invite \in Invites
      BY <2>8, IdlePc, TxShape DEF IInv, Accepting
    <3>. QED
      BY <2>4, <3>1 DEF IInv, AcceptsOwn
  <2>13. CASE i \in unseen' \/ u \in Members
    <3>1. SeenMembers' \subseteq SeenMembers
      BY <2>13, <1>4, <2>1, <2>5, <2>6 DEF SeenMembers
    <3>2. SeenInvites' \subseteq SeenInvites
      BY <1>4, <2>4 DEF SeenInvites, CountedInvites, Pending
    <3>3. Releases
      BY <1>2, <2>8, <3>1, <3>2, IdlePc DEF Releases, IInv, ErasuresApart, TenantLocked
    <3>. QED
      BY <2>11, <2>12, <3>3, ReleaseKeeps
  <2>14. CASE i \notin unseen' /\ u \notin Members
    <3>1. ~SeatLocked /\ ~invite[i].lapsed /\ unseen' = unseen /\ i \notin unseen
      BY <2>14, <1>4
    <3>2. i \in SeenInvites
      BY <1>1, <1>4, <3>1 DEF SeenInvites, CountedInvites, Pending
    <3>3. SeenInvites' = SeenInvites \ {i}
      BY <1>1, <1>4, <2>4, <3>1 DEF SeenInvites, CountedInvites, Pending
    <3>4. SeenMembers' \subseteq SeenMembers \cup {u}
      BY <2>5, <2>6, <3>1 DEF SeenMembers, Members
    <3>5. SeatsPaid'
      <4>1. /\ IsFiniteSet(SeenMembers \cup {u})
            /\ Cardinality(SeenMembers \cup {u}) <= Cardinality(SeenMembers) + 1
        BY CountedIsFinite, OneMore
      <4>2. /\ Cardinality(SeenMembers') <= Cardinality(SeenMembers \cup {u})
            /\ Cardinality(SeenMembers') \in Nat /\ Cardinality(SeenMembers \cup {u}) \in Nat
        BY <3>4, <4>1, FS_Subset, FS_CardinalityType
      <4>3. Cardinality(SeenInvites') = Cardinality(SeenInvites) - 1
        BY <3>2, <3>3, CountedIsFinite, FS_RemoveElement
      <4>4. Cardinality(SeenMembers) + Cardinality(SeenInvites) <= MaxSeats
        BY DEF IInv, SeatsPaid
      <4>. HIDE DEF u, i
      <4>. QED
        BY <4>1, <4>2, <4>3, <4>4, CountedIsFinite, SeatsAssumption DEF SeatsPaid
    <3>6. CountIsUpperBound'
      BY <2>8, <3>1, IdlePc DEF CountIsUpperBound, SeatLocked
    <3>7. ErasuresApart' /\ LockKeepsOwners'
      BY <1>2, <2>8, IdlePc DEF IInv, ErasuresApart, LockKeepsOwners, TenantLocked
    <3>. QED
      BY <2>11, <2>12, <3>5, <3>6, <3>7 DEF IInv
  <2>. QED
    BY <2>13, <2>14
<1>. QED
  BY <1>3, <1>4 DEF Claim, Claimable, Pending

-----------------------------------------------------------------------------
(* The invariant.                                                            *)

LEMMA InitIInv == Init => IInv
<1>. SUFFICES ASSUME Init PROVE IInv
  OBVIOUS
<1>. DEFINE f == [role |-> "owner", via |-> Founding]
<1>1. f \in Rows /\ f.via = Founding /\ f # None
  BY DEF Rows, Roles, None
<1>. HIDE DEF f
<1>2. member = [u \in Users |-> IF u \in Founders THEN f ELSE None]
  BY DEF Init, f
<1>3. /\ users = Users /\ tx = [c \in Clerks |-> Idle] /\ unseen = {}
      /\ invite \in [Invites -> [status : {"none"}, lapsed : {FALSE}, for : Users]]
  BY DEF Init
<1>4. Members = Founders /\ SeenMembers = Founders
  BY <1>1, <1>2, <1>3, FoundersAssumption DEF Members, SeenMembers
<1>5. SeenInvites = {}
  BY <1>3 DEF SeenInvites, CountedInvites, Pending
<1>6. \A i \in Invites : invite[i] \in Invitation
  BY <1>3 DEF Invitation
<1>7. \A u \in Members : member[u] = f
  BY <1>2, <1>4, FoundersAssumption
<1>8. TypeOK
  BY <1>1, <1>2, <1>3, <1>4, <1>6, <1>7, FoundersAssumption DEF TypeOK
<1>9. SeatsPaid
  BY <1>4, <1>5, SeatsAssumption, FiniteAssumption, FoundersAssumption,
     FS_EmptySet, FS_Subset, FS_CardinalityType DEF SeatsPaid
<1>10. CountIsUpperBound /\ ErasuresApart /\ LockKeepsOwners /\ AcceptsOwn
  BY <1>3, IdlePc DEF CountIsUpperBound, ErasuresApart, LockKeepsOwners, AcceptsOwn
<1>. QED
  BY <1>8, <1>9, <1>10 DEF IInv

LEMMA IInvStep == IInv /\ [Next]_vars => IInv'
<1>. SUFFICES ASSUME IInv, [Next]_vars PROVE IInv'
  OBVIOUS
<1>1. CASE UNCHANGED vars
  <2>1. UNCHANGED <<users, member, invite, tx, unseen>>
    BY <1>1 DEF vars
  <2>. QED
    BY <2>1, SameRows
    DEF IInv, TypeOK, SeatsPaid, CountIsUpperBound, ErasuresApart, LockKeepsOwners, AcceptsOwn
<1>2. ASSUME NEW c \in Clerks, NEW u \in Users,
             Find(c, u) \/ CountMembers(c, u) \/ BeginErase(c, u)
      PROVE  IInv'
  BY <1>2, FindKeeps, CountMembersKeeps, BeginEraseKeeps
<1>3. ASSUME NEW c \in Clerks, NEW i \in Invites, ReadInvite(c, i) PROVE IInv'
  BY <1>3, ReadInviteKeeps
<1>4. ASSUME NEW c \in Clerks,
             Decide(c) \/ WriteMember(c) \/ InsertInvite(c) \/ RefuseInvite(c) \/ Claim(c)
      PROVE  IInv'
  BY <1>4, DecideKeeps, WriteMemberKeeps, InsertInviteKeeps, GiveUpKeeps, ClaimKeeps
<1>5. ASSUME NEW c \in Clerks, LockOwners(c) \/ Erase(c) \/ BlockErase(c) \/ Abort(c) PROVE IInv'
  BY <1>5, LockOwnersKeeps, EraseKeeps, GiveUpKeeps
<1>6. ASSUME NEW i \in Invites, RevokeInvite(i) \/ ResendInvite(i) \/ Lapse(i) PROVE IInv'
  BY <1>6, RevokeInviteKeeps, ResendInviteKeeps, LapseKeeps
<1>7. CASE ExpireStaleInvites
  BY <1>7, ExpireKeeps
<1>. QED
  BY <1>1, <1>2, <1>3, <1>4, <1>5, <1>6, <1>7 DEF Next

LEMMA IInvInvariant == Spec => []IInv
  BY InitIInv, IInvStep, PTL DEF Spec

\* A membership belongs to an existing user, and an invitation that made one was
\* accepted by the user it was for, whatever claims, removals and erasures interleave.
THEOREM TypesHold == Spec => []TypeOK
<1>1. IInv => TypeOK
  BY DEF IInv
<1>. QED
  BY <1>1, IInvInvariant, PTL

-----------------------------------------------------------------------------
(* Seats.                                                                    *)

\* Each member who joined unseen did so by an invitation of their own, which is no
\* longer open: unseen seats, of members and of invitations, are as many as `unseen'.
LEMMA UnseenSeats ==
  ASSUME IInv
  PROVE  Cardinality(Members \ SeenMembers) + Cardinality(CountedInvites \ SeenInvites)
           <= Cardinality(unseen)
<1>. DEFINE UM == Members \ SeenMembers
            A == {i \in unseen : invite[i].status = "accepted"}
            B == CountedInvites \ SeenInvites
            f == [u \in UM |-> member[u].via]
<1>1. unseen \subseteq Invites /\ IsFiniteSet(unseen) /\ Cardinality(unseen) \in Nat
  BY FiniteAssumption, FS_Subset, FS_CardinalityType DEF IInv, TypeOK
<1>2. \A u \in UM : /\ u \in Users /\ member[u].via \in A
                    /\ invite[member[u].via].for = u
  BY <1>1, FoundersAssumption DEF SeenMembers, Members, IInv, TypeOK
<1>3. B \subseteq unseen /\ A \cap B = {} /\ A \subseteq unseen
  BY DEF SeenInvites, CountedInvites, Pending
<1>4. IsFiniteSet(A) /\ IsFiniteSet(B) /\ IsFiniteSet(UM)
  BY <1>1, <1>3, CountedIsFinite, FS_Subset
<1>5. f \in Injection(UM, A)
  BY <1>2 DEF Injection, IsInjective
<1>6. Cardinality(UM) <= Cardinality(A)
  BY <1>4, <1>5, FS_Injection DEF ExistsInjection
<1>7. Cardinality(A \cup B) = Cardinality(A) + Cardinality(B)
  <2>1. Cardinality(A \cap B) = 0
    BY <1>3, FS_EmptySet
  <2>2. Cardinality(A) \in Nat /\ Cardinality(B) \in Nat
    BY <1>4, FS_CardinalityType
  <2>. HIDE DEF A, B
  <2>3. Cardinality(A \cup B) = Cardinality(A) + Cardinality(B) - Cardinality(A \cap B)
    BY <1>4, FS_Union
  <2>. QED
    BY <2>1, <2>2, <2>3
<1>8. Cardinality(A \cup B) <= Cardinality(unseen)
  BY <1>1, <1>3, FS_Subset
<1>9. Cardinality(A) \in Nat /\ Cardinality(B) \in Nat /\ Cardinality(UM) \in Nat
  BY <1>4, FS_CardinalityType
<1>. HIDE DEF UM, A, B
<1>10. Cardinality(UM) + Cardinality(B) <= Cardinality(unseen)
  BY <1>1, <1>6, <1>7, <1>8, <1>9
<1>. QED
  BY <1>10 DEF UM, B

\* Members and open invitations exceed the plan by no more than the seats that were
\* taken behind a count's back or came back after they had lapsed.
THEOREM SeatsWithinPlan == Spec => []SeatsAreKept
<1>1. ASSUME IInv PROVE SeatsAreKept
  <2>. DEFINE UM == Members \ SeenMembers
              B == CountedInvites \ SeenInvites
  <2>1. SeenMembers \subseteq Members /\ SeenInvites \subseteq CountedInvites
    BY DEF SeenMembers, SeenInvites
  <2>2. /\ Cardinality(UM) = Cardinality(Members) - Cardinality(SeenMembers)
        /\ Cardinality(B) = Cardinality(CountedInvites) - Cardinality(SeenInvites)
    <3>1. /\ Members \cap SeenMembers = SeenMembers
          /\ CountedInvites \cap SeenInvites = SeenInvites
      BY <2>1
    <3>2. /\ Cardinality(UM) = Cardinality(Members) - Cardinality(Members \cap SeenMembers)
          /\ Cardinality(B) = Cardinality(CountedInvites) - Cardinality(CountedInvites \cap SeenInvites)
      BY CountedIsFinite, FS_Difference
    <3>. QED
      BY <3>1, <3>2
  <2>3. Cardinality(UM) + Cardinality(B) <= Cardinality(unseen)
    BY <1>1, UnseenSeats
  <2>4. /\ Cardinality(Members) \in Nat /\ Cardinality(CountedInvites) \in Nat
        /\ Cardinality(unseen) \in Nat
    BY <1>1, CountedIsFinite, FiniteAssumption, FS_Subset, FS_CardinalityType DEF IInv, TypeOK
  <2>5. Cardinality(SeenMembers) + Cardinality(SeenInvites) <= MaxSeats
    BY <1>1 DEF IInv, SeatsPaid
  <2>. HIDE DEF UM, B
  <2>. QED
    BY <2>2, <2>3, <2>4, <2>5, CountedIsFinite, SeatsAssumption DEF SeatsAreKept
<1>. QED
  BY <1>1, IInvInvariant, PTL

-----------------------------------------------------------------------------
(* Owners, and the use of an invitation.                                     *)

\* Only the erasure of a user removes the user.
LEMMA OnlyEraseRemoves ==
  ASSUME Next PROVE \/ users' = users
                    \/ \E c \in Clerks : Erase(c)
  BY DEF Next, Find, CountMembers, BeginErase, ReadInvite, Decide, WriteMember, InsertInvite,
         RefuseInvite, Claim, LockOwners, BlockErase, Abort, RevokeInvite, ResendInvite, Lapse,
         ExpireStaleInvites

\* The erasure of an owner leaves another one, however many removals, demotions and
\* erasures run beside it: the lock on the tenant's row keeps the owners it counted.
THEOREM ErasureKeepsAnOwner == Spec => ErasureLeavesAnOwner
<1>. DEFINE A == \A c \in Clerks : tx[c].pc = "locked" /\ tx[c].user \notin users' => Owners' # {}
<1>1. ASSUME IInv, [Next]_vars PROVE [A]_vars
  <2>. SUFFICES ASSUME Next, NEW c \in Clerks, tx[c].pc = "locked", tx[c].user \notin users'
                PROVE  Owners' # {}
    BY <1>1
  <2>1. tx[c].user \in users
    BY <1>1 DEF IInv, ErasuresApart
  <2>2. PICK d \in Clerks : Erase(d)
    BY <2>1, OnlyEraseRemoves
  <2>3. tx[d].pc \in {"erasing", "locked"} /\ tx[d].user = tx[c].user
    BY <2>1, <2>2 DEF Erase
  <2>4. d = c
    BY <1>1, <2>3 DEF IInv, ErasuresApart
  <2>5. Owners \ {tx[c].user} # {}
    BY <1>1 DEF IInv, LockKeepsOwners
  <2>6. Owners \ {tx[c].user} \subseteq Owners'
    BY <1>1, <2>2, <2>4 DEF Erase, Owners, IInv, TypeOK
  <2>. QED
    BY <2>5, <2>6
<1>2. IInv /\ [Next]_vars => [A]_vars
  BY <1>1
<1>. QED
  BY <1>2, IInvInvariant, PTL DEF Spec, ErasureLeavesAnOwner

\* Nobody becomes a member but by claiming an invitation that was open until then.
THEOREM JoinsByOpenInvite == Spec => InviteIsUsedOnce
<1>. DEFINE A == \A u \in Users : u \notin Members /\ u \in Members' =>
                   \E i \in Pending : invite'[i].status = "accepted" /\ member'[u].via = i
<1>1. ASSUME IInv, [Next]_vars PROVE [A]_vars
  <2>. SUFFICES ASSUME Next, NEW u \in Users, u \notin Members, u \in Members'
                PROVE  \E i \in Pending : invite'[i].status = "accepted" /\ member'[u].via = i
    BY <1>1
  <2>1. member[u] = None /\ member'[u] # None /\ member \in [Users -> Rows \cup {None}]
    BY <1>1 DEF Members, IInv, TypeOK
  <2>2. member' # member
    BY <2>1
  <2>3. \E c \in Clerks : WriteMember(c) \/ Claim(c) \/ Erase(c)
    BY <2>2 DEF Next, Find, CountMembers, BeginErase, ReadInvite, Decide, InsertInvite,
         RefuseInvite, LockOwners, BlockErase, Abort, RevokeInvite, ResendInvite, Lapse,
         ExpireStaleInvites
  <2>4. PICK c \in Clerks : WriteMember(c) \/ Claim(c) \/ Erase(c)
    BY <2>3
  <2>5. ~WriteMember(c)
    BY <2>1 DEF WriteMember, None
  <2>6. ~Erase(c)
    BY <2>1 DEF Erase
  <2>7. Claim(c)
    BY <2>4, <2>5, <2>6
  <2>8. tx[c].invite \in Invites
    BY <1>1, <2>7, TxShape DEF Claim, IInv, Accepting
  <2>9. /\ tx[c].invite \in Pending
        /\ invite' = [invite EXCEPT ![tx[c].invite].status = "accepted"]
        /\ member' = [member EXCEPT ![tx[c].user] =
                        IF @ = None THEN [role |-> "member", via |-> tx[c].invite] ELSE @]
    BY <2>2, <2>7 DEF Claim, Claimable
  <2>10. member'[u] = [role |-> "member", via |-> tx[c].invite]
    BY <2>1, <2>9
  <2>11. invite'[tx[c].invite].status = "accepted"
    BY <1>1, <2>8, <2>9 DEF IInv, TypeOK, Invitation
  <2>. QED
    BY <2>9, <2>10, <2>11
<1>2. IInv /\ [Next]_vars => [A]_vars
  BY <1>1
<1>. QED
  BY <1>2, IInvInvariant, PTL DEF Spec, InviteIsUsedOnce
=============================================================================
