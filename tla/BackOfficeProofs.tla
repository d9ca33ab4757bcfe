-------------------------- MODULE BackOfficeProofs --------------------------
(***************************************************************************)
(* Proofs about the desks of the back office, one after the other: for any *)
(* number of users, profiles, accounts, invitations, tenants, versions and *)
(* cases, whatever is owed, repaired and deposited, and for any number of  *)
(* requests and of goroutines that serve them.  Names that the desks have  *)
(* in common begin with the desk's.                                        *)
(***************************************************************************)
EXTENDS BackOffice, SequenceTheorems, TLAPS

(***************************************************************************)
(* Memberships: a property keeps an active owner                           *)
(***************************************************************************)

PropertyLock == Members!Lock(Members!Property, "update")

\* Who serves a request about the members.
Busy == {c \in Clerks : tx[c] # None}

MemberRows == [role : Members!Roles, status : Members!MemberStatuses] \union {None}

MemberRequests ==
    [op     : {"add", "update", "revoke"},
     at     : {"locked", "read", "checked"},
     user   : Users,
     role   : Members!Roles \union {None},
     status : Members!MemberStatuses \union {None},
     seen   : MemberRows]

\* db, tx and held have their shape.
MembersShapeOk ==
    /\ db \in [status : {"draft", "active", "archived"}, members : [Users -> MemberRows]]
    /\ tx \in [Clerks -> MemberRequests \union {None}]
    /\ DOMAIN held = Clerks

\* The lock of the property lets one request at a time look at the members.
Alone ==
    /\ \A c \in Busy : PropertyLock \in held[c]
    /\ \A c, d \in Busy : c = d

\* What a request has read, and found, is still so.
Current(t) ==
    /\ IF t.op = "add" THEN t.role \in Members!Roles /\ t.status \in Members!MemberStatuses
                       ELSE db.members[t.user] # None
    /\ t.at # "locked" => t.seen = db.members[t.user]
    /\ t.at = "checked" /\ Members!TakesOwnerAway(t) => Members!AnotherActiveOwner(t.user)

MemberInv ==
    /\ MembersShapeOk
    /\ Alone
    /\ \A c \in Busy : Current(tx[c])
    /\ Members!OwnerRemains

MembersDeskInv == desk = "members" => MemberInv

-----------------------------------------------------------------------------
(* The lock                                                                *)

\* Who gets the lock of the property is alone.
LEMMA LockIsExclusive ==
    ASSUME Alone, NEW c \in Clerks, Members!Free(c, {PropertyLock})
    PROVE  Busy \subseteq {c}
<1>1. \A d \in Clerks \ {c} : PropertyLock \notin held[d]
    BY DEF Members!Free, Members!Clash, PropertyLock, Members!Lock
<1>. QED  BY <1>1 DEF Alone, Busy

-----------------------------------------------------------------------------
(* The start                                                               *)

LEMMA MembersInitHolds == Init => MembersDeskInv
<1>. SUFFICES ASSUME Init, desk = "members" PROVE MemberInv
    BY DEF MembersDeskInv
<1>1. Members!Init
    BY DEF Init
<1>2. PICK u \in Users :
        db = [status |-> "draft",
              members |-> [v \in Users |-> IF v = u THEN Members!ActiveOwner ELSE None]]
    BY <1>1 DEF Members!Init
<1>3. /\ tx = [c \in Clerks |-> None]
      /\ held = [c \in Clerks |-> {}]
    BY <1>1 DEF Members!Init, Members!NobodyServed
<1>4. Members!ActiveOwner \in MemberRows
    BY DEF Members!ActiveOwner, Members!Member, MemberRows, Members!Roles, Members!MemberStatuses
<1>5. MembersShapeOk
    BY <1>2, <1>3, <1>4 DEF MembersShapeOk, MemberRows
<1>6. Busy = {}
    BY <1>3 DEF Busy
<1>7. u \in Members!Owners
    BY <1>2 DEF Members!Owners
<1>. QED  BY <1>5, <1>6, <1>7 DEF MemberInv, Alone, Members!OwnerRemains

-----------------------------------------------------------------------------
(* The steps                                                               *)

\* The lock of the property, and the first request under it.
LEMMA MembersBeginKeeps ==
    ASSUME MemberInv, NEW c \in Clerks, NEW t \in MemberRequests,
           t.at = "locked", Current(t),
           Members!LockMutableProperty(c, t)
    PROVE  MemberInv'
<1>1. /\ Members!Free(c, {PropertyLock})
      /\ tx' = [tx EXCEPT ![c] = t]
      /\ held' = [held EXCEPT ![c] = {PropertyLock}]
      /\ db' = db
    BY DEF Members!LockMutableProperty, Members!Begin, PropertyLock
<1>2. MembersShapeOk'
    BY <1>1 DEF MemberInv, MembersShapeOk
<1>3. /\ tx'[c] = t
      /\ held'[c] = {PropertyLock}
    BY <1>1 DEF MemberInv, MembersShapeOk
<1>4. Busy' \subseteq {c}
    BY <1>1, LockIsExclusive DEF MemberInv, MembersShapeOk, Busy
<1>5. Alone'
    BY <1>3, <1>4 DEF Alone, PropertyLock
<1>6. Current(t)'
    BY <1>1 DEF Current
<1>. QED  BY <1>1, <1>2, <1>3, <1>4, <1>5, <1>6 DEF MemberInv, Current, Members!OwnerRemains, Members!Owners

\* A further statement changes no row, and its request keeps the lock.
LEMMA MembersStatementKeeps ==
    ASSUME MemberInv, NEW c \in Busy, NEW t \in MemberRequests, NEW locks,
           Current(t), Members!Statement(c, t, locks)
    PROVE  MemberInv'
<1>. /\ c \in Clerks
     /\ tx' = [tx EXCEPT ![c] = t]
     /\ held' = [held EXCEPT ![c] = @ \union locks]
     /\ db' = db
    BY DEF Members!Statement, Busy
<1>1. MembersShapeOk'
    BY DEF MemberInv, MembersShapeOk
<1>2. /\ tx'[c] = t
      /\ held'[c] = held[c] \union locks
    BY DEF MemberInv, MembersShapeOk
<1>3. Busy' \subseteq {c}
    BY DEF MemberInv, MembersShapeOk, Alone, Busy
<1>4. Alone'
    BY <1>2, <1>3 DEF MemberInv, Alone, PropertyLock
<1>5. Current(t)'
    BY DEF Current, Members!AnotherActiveOwner, Members!Owners, Members!TakesOwnerAway, Members!Written
<1>. QED  BY <1>1, <1>2, <1>3, <1>4, <1>5 DEF MemberInv, Current, Members!OwnerRemains, Members!Owners

\* COMMIT of the one who is alone: only the member it names is changed.
LEMMA MembersCommitKeeps ==
    ASSUME MemberInv, NEW c \in Busy, NEW u \in Users, NEW row \in MemberRows, NEW locks,
           Members!Commit(c, locks, [db EXCEPT !.members = [@ EXCEPT ![u] = row]]),
           row = Members!ActiveOwner \/ \E v \in Members!Owners : v # u
    PROVE  MemberInv'
<1>. /\ c \in Clerks
     /\ tx' = [tx EXCEPT ![c] = None]
     /\ held' = [held EXCEPT ![c] = {}]
     /\ db' = [db EXCEPT !.members = [@ EXCEPT ![u] = row]]
    BY DEF Members!Commit, Busy
<1>1. db'.members = [db.members EXCEPT ![u] = row]
    BY DEF MemberInv, MembersShapeOk
<1>2. MembersShapeOk'
    BY <1>1 DEF MemberInv, MembersShapeOk
<1>3. Busy' = {}
    BY DEF MemberInv, MembersShapeOk, Alone, Busy
<1>4. Members!OwnerRemains'
    <2>1. CASE row = Members!ActiveOwner
        BY <1>1, <2>1 DEF MemberInv, MembersShapeOk, Members!OwnerRemains, Members!Owners, Members!ActiveOwner, Members!Member
    <2>2. CASE \E v \in Members!Owners : v # u
        BY <1>1, <2>2 DEF MemberInv, MembersShapeOk, Members!OwnerRemains, Members!Owners, Members!ActiveOwner, Members!Member
    <2>. QED  BY <2>1, <2>2
<1>. QED  BY <1>2, <1>3, <1>4 DEF MemberInv, Alone

\* What WriteMember writes is a row, and takes no last owner away.
LEMMA WrittenIsSafe ==
    ASSUME MemberInv, NEW c \in Busy, tx[c].op # "add", tx[c].at = "checked"
    PROVE  /\ Members!Written(tx[c]) \in MemberRows
           /\ \/ Members!Written(tx[c]) = Members!ActiveOwner
              \/ \E v \in Members!Owners : v # tx[c].user
<1>. DEFINE t == tx[c]
<1>1. t \in MemberRequests /\ Current(t)
    BY DEF MemberInv, MembersShapeOk, Busy
<1>2. t.seen = db.members[t.user] /\ t.seen # None
    BY <1>1 DEF Current
<1>3. t.seen \in [role : Members!Roles, status : Members!MemberStatuses]
    BY <1>1, <1>2 DEF MemberRequests, MemberRows
<1>4. Members!Written(t) \in MemberRows
    BY <1>1, <1>3 DEF Members!Written, Members!Member, MemberRequests, MemberRows
<1>5. CASE t.seen = Members!ActiveOwner
    BY <1>1, <1>4, <1>5 DEF Current, Members!TakesOwnerAway, Members!AnotherActiveOwner
<1>6. CASE t.seen # Members!ActiveOwner
    <2>1. PICK v \in Members!Owners : TRUE
        BY DEF MemberInv, Members!OwnerRemains
    <2>2. v # t.user
        BY <1>2, <1>6, <2>1 DEF Members!Owners
    <2>. QED  BY <1>4, <2>1, <2>2
<1>. QED  BY <1>5, <1>6

LEMMA MembersStepKeeps == MembersDeskInv /\ [Next]_vars => MembersDeskInv'
<1>. SUFFICES ASSUME MembersDeskInv, [Next]_vars, desk' = "members" PROVE MemberInv'
    BY DEF MembersDeskInv
<1>1. CASE UNCHANGED vars
    <2>. desk = "members" /\ MemberInv
        BY <1>1 DEF MembersDeskInv, vars
    <2>. QED  BY <1>1 DEF vars, MemberInv, MembersShapeOk, Alone, Busy, Current, PropertyLock, MemberRows, MemberRequests,
                          Members!OwnerRemains, Members!Owners, Members!ActiveOwner, Members!Member,
                          Members!AnotherActiveOwner, Members!TakesOwnerAway, Members!Written,
                          Members!Roles, Members!MemberStatuses
<1>2. CASE Next
    <2>1. MemberInv /\ Members!Next
        BY <1>2 DEF Next, AtDesk, MembersDeskInv
    <2>2. PICK c \in Clerks :
            \/ Members!AskToAdd(c) \/ Members!AskToUpdate(c) \/ Members!AskToRevoke(c)
            \/ Members!ReadMember(c) \/ Members!EnsureAnotherActiveOwner(c)
            \/ Members!AddMember(c) \/ Members!WriteMember(c)
            \/ Members!UpdateProperty(c) \/ Members!Rollback(c)
        BY <2>1 DEF Members!Next
    <2>. DEFINE t == tx[c]
    <2>3. c \in Busy => t \in MemberRequests /\ Current(t)
        BY <2>1 DEF MemberInv, MembersShapeOk, Busy
    <2>4. CASE Members!AskToAdd(c)
        <3>1. PICK u \in Users, r \in Members!Roles :
                Members!LockMutableProperty(c, Members!Request("add", u, r, "active"))
            BY <2>4 DEF Members!AskToAdd
        <3>2. Members!Request("add", u, r, "active") \in MemberRequests
            BY DEF Members!Request, MemberRequests, MemberRows, Members!MemberStatuses
        <3>3. Current(Members!Request("add", u, r, "active")) /\ Members!Request("add", u, r, "active").at = "locked"
            BY <3>1 DEF Current, Members!Request, Members!Roles, Members!MemberStatuses
        <3>. QED  BY <2>1, <3>1, <3>2, <3>3, MembersBeginKeeps
    <2>5. CASE Members!AskToUpdate(c)
        <3>1. PICK u \in Users, r \in Members!Roles \union {None}, s \in Members!MemberStatuses \union {None} :
                /\ db.members[u] # None
                /\ Members!LockMutableProperty(c, Members!Request("update", u, r, s))
            BY <2>5 DEF Members!AskToUpdate
        <3>2. Members!Request("update", u, r, s) \in MemberRequests
            BY DEF Members!Request, MemberRequests, MemberRows
        <3>3. Current(Members!Request("update", u, r, s)) /\ Members!Request("update", u, r, s).at = "locked"
            BY <3>1 DEF Current, Members!Request, Members!Roles, Members!MemberStatuses
        <3>. QED  BY <2>1, <3>1, <3>2, <3>3, MembersBeginKeeps
    <2>6. CASE Members!AskToRevoke(c)
        <3>1. PICK u \in Users :
                /\ db.members[u] # None
                /\ Members!LockMutableProperty(c, Members!Request("revoke", u, None, "revoked"))
            BY <2>6 DEF Members!AskToRevoke
        <3>2. Members!Request("revoke", u, None, "revoked") \in MemberRequests
            BY DEF Members!Request, MemberRequests, MemberRows, Members!MemberStatuses
        <3>3. Current(Members!Request("revoke", u, None, "revoked")) /\ Members!Request("revoke", u, None, "revoked").at = "locked"
            BY <3>1 DEF Current, Members!Request, Members!Roles, Members!MemberStatuses
        <3>. QED  BY <2>1, <3>1, <3>2, <3>3, MembersBeginKeeps
    <2>7. CASE Members!ReadMember(c)
        <3>1. c \in Busy /\ t.at = "locked"
            BY <2>7 DEF Members!ReadMember, Members!At, Busy
        <3>. DEFINE s == [t EXCEPT !.at = "read", !.seen = db.members[t.user]]
        <3>2. s \in MemberRequests
            BY <2>1, <2>3, <3>1 DEF MemberInv, MembersShapeOk, MemberRequests
        <3>3. Current(s)
            BY <2>3, <3>1 DEF Current, MemberRequests
        <3>4. \E locks : Members!Statement(c, s, locks)
            BY <2>7 DEF Members!ReadMember
        <3>. HIDE DEF s
        <3>. QED  BY <2>1, <3>1, <3>2, <3>3, <3>4, MembersStatementKeeps
    <2>8. CASE Members!EnsureAnotherActiveOwner(c)
        <3>1. /\ c \in Busy /\ t.at = "read"
              /\ Members!TakesOwnerAway(t) => Members!AnotherActiveOwner(t.user)
            BY <2>8 DEF Members!EnsureAnotherActiveOwner, Members!At, Busy
        <3>. DEFINE s == [t EXCEPT !.at = "checked"]
        <3>2. s \in MemberRequests
            BY <2>3, <3>1 DEF MemberRequests
        <3>3. Current(s)
            BY <2>3, <3>1 DEF Current, MemberRequests, Members!TakesOwnerAway, Members!Written
        <3>4. \E locks : Members!Statement(c, s, locks)
            BY <2>8 DEF Members!EnsureAnotherActiveOwner
        <3>. HIDE DEF s
        <3>. QED  BY <2>1, <3>1, <3>2, <3>3, <3>4, MembersStatementKeeps
    <2>9. CASE Members!AddMember(c)
        <3>. DEFINE row == Members!Member(t.role, t.status)
        <3>1. /\ c \in Busy /\ t.op = "add" /\ t.at = "read"
              /\ t.seen # None => t.seen.status = "revoked"
              /\ Members!Commit(c, {}, [db EXCEPT !.members[t.user] = row])
            BY <2>9 DEF Members!AddMember, Members!At, Busy
        <3>2. row \in MemberRows /\ t.user \in Users
            BY <2>3, <3>1 DEF Current, MemberRequests, MemberRows, Members!Member
        <3>3. t.seen = db.members[t.user]
            BY <2>3, <3>1 DEF Current
        <3>4. db.members[t.user] # Members!ActiveOwner
            BY <3>1, <3>3, RowAssumption
               DEF Members!ActiveOwner, Members!Member, Members!Roles, Members!MemberStatuses
        <3>5. \E v \in Members!Owners : v # t.user
            BY <2>1, <3>4 DEF MemberInv, Members!OwnerRemains, Members!Owners
        <3>. HIDE DEF row
        <3>. QED  BY <2>1, <3>1, <3>2, <3>5, MembersCommitKeeps
    <2>10. CASE Members!WriteMember(c)
        <3>1. /\ c \in Busy /\ t.op # "add" /\ t.at = "checked"
              /\ Members!Commit(c, {}, [db EXCEPT !.members[t.user] = Members!Written(t)])
            BY <2>10 DEF Members!WriteMember, Members!At, Busy
        <3>2. t.user \in Users
            BY <2>3, <3>1 DEF MemberRequests
        <3>. QED  BY <2>1, <3>1, <3>2, WrittenIsSafe, MembersCommitKeeps
    <2>11. CASE Members!UpdateProperty(c)
        <3>1. PICK s \in {"draft", "active", "archived"} : db' = [db EXCEPT !.status = s]
            BY <2>11 DEF Members!UpdateProperty, Members!Autocommit
        <3>2. tx' = tx /\ held' = held
            BY <2>11 DEF Members!UpdateProperty, Members!Autocommit
        <3>3. MembersShapeOk' /\ db'.members = db.members
            BY <2>1, <3>1, <3>2 DEF MemberInv, MembersShapeOk
        <3>. QED  BY <2>1, <3>2, <3>3
                  DEF MemberInv, Alone, Busy, Current, Members!OwnerRemains, Members!Owners,
                      Members!AnotherActiveOwner, Members!TakesOwnerAway, Members!Written
    <2>12. CASE Members!Rollback(c)
        <3>1. /\ tx' = [tx EXCEPT ![c] = None]
              /\ held' = [held EXCEPT ![c] = {}]
              /\ db' = db
            BY <2>12 DEF Members!Rollback
        <3>2. MembersShapeOk'
            BY <2>1, <3>1 DEF MemberInv, MembersShapeOk
        <3>3. \A d \in Busy' : d \in Busy /\ tx'[d] = tx[d] /\ held'[d] = held[d]
            BY <2>1, <3>1 DEF MemberInv, MembersShapeOk, Busy
        <3>. QED  BY <2>1, <3>1, <3>2, <3>3
                  DEF MemberInv, Alone, Current, Members!OwnerRemains, Members!Owners,
                      Members!AnotherActiveOwner, Members!TakesOwnerAway, Members!Written, PropertyLock
    <2>. QED  BY <2>2, <2>4, <2>5, <2>6, <2>7, <2>8, <2>9, <2>10, <2>11, <2>12
<1>. QED  BY <1>1, <1>2

-----------------------------------------------------------------------------
(* The theorem                                                             *)

\* A property keeps an active owner, whoever is removed, demoted, suspended
\* or brought back at the same time, and however many goroutines serve it.
THEOREM OwnerKept == Spec => []OwnerRemains
<1>1. MembersDeskInv => OwnerRemains
    BY DEF MembersDeskInv, MemberInv, OwnerRemains
<1>. QED  BY MembersInitHolds, MembersStepKeeps, <1>1, PTL DEF Spec

(***************************************************************************)
(* Invitations: one that can be used, and once                             *)
(***************************************************************************)

Profile(p) == db.profiles[p]

Invitation(i) == db.invitations[i]

ProfileLock(p) == Invites!Lock(Invites!ProfileRow(p), "update")

\* Who uses or revokes an invitation holds its row in one of these modes.
HoldsInvitation(locks, i) ==
    \/ Invites!Lock(Invites!InvitationRow(i), "update") \in locks
    \/ Invites!Lock(Invites!InvitationRow(i), "write") \in locks

\* A lock that is held waits for no other.
InvitesLocksOk == \A c \in Clerks, d \in Clerks :
    c # d => \A l \in held[c], m \in held[d] : ~ Invites!Clash(l, m)

InvitesShapeOk ==
    /\ db = [profiles |-> db.profiles, invitations |-> db.invitations,
             consents |-> db.consents, accounts |-> db.accounts]
    /\ db.profiles \in [Phones -> Invites!ProfileRows \union {None}]
    /\ db.invitations \in [Invites!Invitations -> Invites!InvitationRows \union {None}]
    /\ \A i \in Invites!Invitations : Invitation(i) # None => Profile(Invitation(i).phone) # None
    /\ tx = [c \in Clerks |-> tx[c]]
    /\ held = [c \in Clerks |-> held[c]]

\* What a request may rely on, with the locks it holds.
MayInvite(p) == Profile(p) = None \/ Profile(p).status # "active"

InviteOk(t, locks) ==
    /\ t.op = "invite"
    /\ t = [op |-> "invite", at |-> t.at, phone |-> t.phone, email |-> t.email]
    /\ t.phone \in Phones /\ t.email \in People
    /\ t.at = "found" => ProfileLock(t.phone) \in locks /\ MayInvite(t.phone)

RevokeOk(t, locks) ==
    /\ t.op = "revoke"
    /\ t.invitation \in Invites!Invitations
    /\ HoldsInvitation(locks, t.invitation) /\ Invites!Pending(t.invitation)

ActivateOk(t, locks) ==
    /\ t.op = "activate"
    /\ t = [op |-> "activate", at |-> t.at, invitation |-> t.invitation, policy |-> t.policy,
            phone |-> t.phone, existing |-> t.existing]
    /\ t.invitation \in Invites!Invitations
    /\ Invitation(t.invitation) # None /\ Invitation(t.invitation).phone = t.phone
    /\ t.phone \in Phones
    /\ t.at \in {"locked", "linked"} =>
            HoldsInvitation(locks, t.invitation) /\ Invites!Pending(t.invitation)
    /\ t.at = "linked" =>
            ProfileLock(t.phone) \in locks /\ Invites!MayLink(Profile(t.phone), t.existing)

InvitesRequestOk(t, locks) == InviteOk(t, locks) \/ RevokeOk(t, locks) \/ ActivateOk(t, locks)

InvitesRequestsOk == \A c \in Clerks : tx[c] # None => InvitesRequestOk(tx[c], held[c])

InviteInv == InvitesShapeOk /\ InvitesLocksOk /\ InvitesRequestsOk /\ Invites!OnePending

InvitesDeskInv == desk = "invites" => InviteInv

-----------------------------------------------------------------------------
(* Locks                                                                   *)

\* Locks that are taken when they are free clash with none.
LEMMA InvitesLocksKept ==
    ASSUME InvitesShapeOk, InvitesLocksOk, NEW c \in Clerks, NEW locks, NEW more,
           Invites!Free(c, more), locks \subseteq held[c] \union more,
           held' = [held EXCEPT ![c] = locks]
    PROVE  InvitesLocksOk'
<1>1. held'[c] \subseteq held[c] \union more
    BY DEF InvitesShapeOk
<1>2. \A d \in Clerks \ {c} : held'[d] = held[d]
    BY DEF InvitesShapeOk
<1>3. \A d \in Clerks \ {c} : \A m \in held[d], l \in held[c] \union more :
        ~ Invites!Clash(l, m) /\ ~ Invites!Clash(m, l)
    BY DEF InvitesLocksOk, Invites!Free, Invites!Clash
<1>. QED  BY <1>1, <1>2, <1>3 DEF InvitesLocksOk, Invites!Clash

\* Who holds an invitation, or gets it, is the only one to do so.
LEMMA OneHoldsInvitation ==
    ASSUME InvitesLocksOk, NEW c \in Clerks, NEW d \in Clerks, c # d, NEW i,
           \/ HoldsInvitation(held[c], i)
           \/ \E locks : Invites!Lock(Invites!InvitationRow(i), "write") \in locks /\ Invites!Free(c, locks)
    PROVE  ~ HoldsInvitation(held[d], i)
BY DEF InvitesLocksOk, HoldsInvitation, Invites!Free, Invites!Clash, Invites!Lock

\* So it is with a profile.
LEMMA OneHoldsProfile ==
    ASSUME InvitesLocksOk, NEW c \in Clerks, NEW d \in Clerks, c # d, NEW p,
           \/ ProfileLock(p) \in held[c]
           \/ \E locks : Invites!Lock(Invites!ProfileRow(p), "write") \in locks /\ Invites!Free(c, locks)
    PROVE  ProfileLock(p) \notin held[d]
BY DEF InvitesLocksOk, ProfileLock, Invites!Free, Invites!Clash, Invites!Lock

-----------------------------------------------------------------------------
(* Requests                                                                *)

\* What others rely on stays, if what they hold does not change.
LEMMA InvitesRequestStays ==
    ASSUME NEW t, NEW locks, InvitesRequestOk(t, locks),
           \A i \in Invites!Invitations : Invitation(i) # None =>
                Invitation(i)' # None /\ Invitation(i).phone' = Invitation(i).phone,
           \A i \in Invites!Invitations : HoldsInvitation(locks, i) /\ Invites!Pending(i) =>
                Invites!Pending(i)',
           \A p \in Phones : ProfileLock(p) \in locks => Profile(p)' = Profile(p)
    PROVE  InvitesRequestOk(t, locks)'
<1>1. CASE InviteOk(t, locks)
    <2>1. t.at = "found" => MayInvite(t.phone)'
        BY <1>1 DEF InviteOk, MayInvite
    <2>. QED  BY <1>1, <2>1 DEF InvitesRequestOk, InviteOk, ProfileLock
<1>2. CASE RevokeOk(t, locks)
    BY <1>2 DEF InvitesRequestOk, RevokeOk, HoldsInvitation
<1>3. CASE ActivateOk(t, locks)
    <2>1. t.at = "linked" => Invites!MayLink(Profile(t.phone), t.existing)'
        BY <1>3 DEF ActivateOk, Invites!MayLink
    <2>2. t.at \in {"locked", "linked"} => Invites!Pending(t.invitation)'
        BY <1>3 DEF ActivateOk
    <2>. QED  BY <1>3, <2>1, <2>2 DEF InvitesRequestOk, ActivateOk, HoldsInvitation, ProfileLock
<1>. QED  BY <1>1, <1>2, <1>3 DEF InvitesRequestOk

\* A statement that changes no row.
LEMMA InvitesStatementKeeps ==
    ASSUME InviteInv, NEW c \in Clerks, NEW t, NEW locks,
           db' = db, tx' = [tx EXCEPT ![c] = t], held' = [held EXCEPT ![c] = locks],
           InvitesLocksOk', t # None => InvitesRequestOk(t, locks)
    PROVE  InviteInv'
<1>1. InvitesShapeOk'
    BY DEF InviteInv, InvitesShapeOk, Invitation, Profile
<1>2. ASSUME NEW d \in Clerks, tx'[d] # None
      PROVE  InvitesRequestOk(tx[d], held[d])'
    <2>1. InvitesRequestOk(tx'[d], held'[d])
        BY <1>2 DEF InviteInv, InvitesShapeOk, InvitesRequestsOk
    <2>. QED  BY <1>2, <2>1 DEF InvitesRequestOk, InviteOk, RevokeOk, ActivateOk, MayInvite, Invites!MayLink,
                  HoldsInvitation, ProfileLock, Profile, Invitation, Invites!Pending
<1>3. Invites!OnePending'
    BY DEF InviteInv, Invites!OnePending, Invites!PendingOf, Invites!Pending
<1>. QED  BY <1>1, <1>2, <1>3 DEF InviteInv, InvitesRequestsOk

\* The first statement of a request, and a further one.
LEMMA InvitesBeginKeeps ==
    ASSUME InviteInv, NEW c \in Clerks, NEW t, NEW locks,
           Invites!Begin(c, t, locks), InvitesRequestOk(t, locks)
    PROVE  InviteInv'
<1>1. InvitesLocksOk'
    BY InvitesLocksKept DEF InviteInv, Invites!Begin
<1>. QED  BY <1>1, InvitesStatementKeeps DEF Invites!Begin

LEMMA InvitesNextStatementKeeps ==
    ASSUME InviteInv, NEW c \in Clerks, NEW t, NEW locks,
           Invites!Statement(c, t, locks), InvitesRequestOk(t, held[c] \union locks)
    PROVE  InviteInv'
<1>1. held' = [held EXCEPT ![c] = held[c] \union locks]
    BY DEF InviteInv, InvitesShapeOk, Invites!Statement
<1>2. InvitesLocksOk'
    BY <1>1, InvitesLocksKept DEF InviteInv, Invites!Statement
<1>. QED  BY <1>1, <1>2, InvitesStatementKeeps DEF Invites!Statement

\* The requests of the writers end, or are one statement.
Finish(Writers) ==
    \/ \E c \in Clerks :
        /\ Writers = {c}
        /\ tx' = [tx EXCEPT ![c] = None] /\ held' = [held EXCEPT ![c] = {}]
    \/ /\ \A c \in Writers : tx[c] = None
       /\ tx' = tx /\ held' = held

\* A step that changes rows: what is held by the others stands.
LEMMA InvitesWriteKeeps ==
    ASSUME InviteInv, InvitesShapeOk', Invites!OnePending', NEW Writers, Finish(Writers),
           \A i \in Invites!Invitations : Invitation(i) # None =>
                Invitation(i)' # None /\ Invitation(i).phone' = Invitation(i).phone,
           \A i \in Invites!Invitations, d \in Clerks \ Writers :
                HoldsInvitation(held[d], i) /\ Invites!Pending(i) => Invites!Pending(i)',
           \A p \in Phones, d \in Clerks \ Writers : ProfileLock(p) \in held[d] => Profile(p)' = Profile(p)
    PROVE  InviteInv'
<1>1. \A d \in Clerks : tx'[d] # None => d \notin Writers /\ tx'[d] = tx[d] /\ held'[d] = held[d]
    BY DEF InviteInv, InvitesShapeOk, Finish
<1>2. \A d \in Clerks : held'[d] \subseteq held[d]
    BY DEF InviteInv, InvitesShapeOk, Finish
<1>3. InvitesLocksOk'
    BY <1>2 DEF InviteInv, InvitesLocksOk, Invites!Clash
<1>4. ASSUME NEW d \in Clerks, tx'[d] # None
      PROVE  InvitesRequestOk(tx[d], held[d])'
    <2>1. InvitesRequestOk(tx[d], held[d]) /\ d \notin Writers
        BY <1>1, <1>4 DEF InviteInv, InvitesRequestsOk
    <2>. DEFINE t == tx[d]
                locks == held[d]
    <2>. HIDE DEF t, locks
    <2>. QED  BY <1>1, <1>4, <2>1, InvitesRequestStays DEF InviteInv
<1>. QED  BY <1>3, <1>4 DEF InviteInv, InvitesRequestsOk

-----------------------------------------------------------------------------
(* The operations                                                          *)

\* A pending invitation is written, and perhaps the profile that it is for.
Written(i, row, profile) ==
    /\ i \in Invites!Invitations /\ Invites!Pending(i)
    /\ row \in Invites!InvitationRows /\ row.phone = Invitation(i).phone
    /\ profile \in Invites!ProfileRows
    /\ db' = [profiles |-> [db.profiles EXCEPT ![row.phone] = profile],
              invitations |-> [db.invitations EXCEPT ![i] = row],
              consents |-> db'.consents, accounts |-> db'.accounts]

LEMMA InvitationKeeps ==
    ASSUME InviteInv, NEW Writers, Finish(Writers),
           NEW i, NEW row, NEW profile, Written(i, row, profile),
           row.status = "pending" => profile = Profile(row.phone),
           row.status # "pending" => \A d \in Clerks \ Writers : ~ HoldsInvitation(held[d], i),
           profile # Profile(row.phone) =>
                /\ \A d \in Clerks \ Writers : ProfileLock(row.phone) \notin held[d]
                /\ Profile(row.phone).user # None => profile.user = Profile(row.phone).user
    PROVE  InviteInv' /\ Invites!UsedOnce
<1>. DEFINE p == row.phone
<1>0. /\ i \in Invites!Invitations /\ Invites!Pending(i)
      /\ row \in Invites!InvitationRows /\ p = Invitation(i).phone /\ p \in Phones
      /\ profile \in Invites!ProfileRows
      /\ db' = [profiles |-> [db.profiles EXCEPT ![p] = profile],
                invitations |-> [db.invitations EXCEPT ![i] = row],
                consents |-> db'.consents, accounts |-> db'.accounts]
    BY DEF Written, Invites!InvitationRows
<1>1. /\ \A j \in Invites!Invitations \ {i} : Invitation(j)' = Invitation(j)
      /\ Invitation(i)' = row
      /\ \A q \in Phones \ {p} : Profile(q)' = Profile(q)
      /\ Profile(p)' = profile
    BY <1>0 DEF InviteInv, InvitesShapeOk, Invitation, Profile
<1>2. row # None /\ profile # None /\ Invitation(i) # None /\ Profile(p) # None
    BY <1>0, RowAssumption DEF InviteInv, InvitesShapeOk, Invites!Pending, Invitation
<1>3. InvitesShapeOk'
    <2>1. /\ db'.profiles = [db.profiles EXCEPT ![p] = profile]
          /\ db'.invitations = [db.invitations EXCEPT ![i] = row]
        BY <1>0
    <2>2. db'.profiles \in [Phones -> Invites!ProfileRows \union {None}]
        BY <1>0, <2>1 DEF InviteInv, InvitesShapeOk
    <2>3. db'.invitations \in [Invites!Invitations -> Invites!InvitationRows \union {None}]
        BY <1>0, <2>1 DEF InviteInv, InvitesShapeOk
    <2>4. (\A j \in Invites!Invitations : Invitation(j) # None => Profile(Invitation(j).phone) # None)'
        <3>1. \A q \in Phones : Profile(q) # None => Profile(q)' # None
            BY <1>1, <1>2
        <3>2. \A j \in Invites!Invitations : Invitation(j)' # None =>
                Invitation(j) # None /\ Invitation(j)'.phone = Invitation(j).phone
            BY <1>0, <1>1, <1>2
        <3>3. \A j \in Invites!Invitations : Invitation(j) # None => Invitation(j).phone \in Phones
            BY DEF InviteInv, InvitesShapeOk, Invitation, Invites!InvitationRows
        <3>4. \A j \in Invites!Invitations : Invitation(j) # None => Profile(Invitation(j).phone) # None
            BY DEF InviteInv, InvitesShapeOk
        <3>5. ASSUME NEW j \in Invites!Invitations, Invitation(j)' # None
              PROVE  (Profile(Invitation(j).phone) # None)'
            <4>1. PICK q \in Phones : q = Invitation(j).phone /\ Profile(q) # None
                BY <3>2, <3>3, <3>4, <3>5
            <4>2. Profile(q)' # None /\ Invitation(j)'.phone = q
                BY <3>1, <3>2, <3>5, <4>1
            <4>. QED  BY <4>2 DEF Profile, Invitation
        <3>. QED  BY <3>5
    <2>5. db' = [profiles |-> db'.profiles, invitations |-> db'.invitations,
                 consents |-> db'.consents, accounts |-> db'.accounts]
        BY <1>0
    <2>6. tx' = [c \in Clerks |-> tx'[c]] /\ held' = [c \in Clerks |-> held'[c]]
        BY DEF InviteInv, InvitesShapeOk, Finish
    <2>. QED  BY <2>2, <2>3, <2>4, <2>5, <2>6 DEF InvitesShapeOk, Invitation, Profile
<1>4. \A q \in Phones : Invites!PendingOf(q)' \subseteq Invites!PendingOf(q)
    BY <1>0, <1>1, <1>2 DEF Invites!PendingOf, Invites!Pending, Invitation
<1>5. i \in Invites!PendingOf(p)
    BY <1>0 DEF Invites!PendingOf, Invitation
<1>6. Profile(p).status # "active"
    BY <1>0, <1>2, <1>5 DEF InviteInv, Invites!OnePending, Profile
<1>7. Invites!OnePending'
    <2>1. profile.status = "active" => Invites!PendingOf(p)' = {}
        <3>1. profile.status = "active" => row.status # "pending"
            BY <1>6
        <3>2. row.status # "pending" => i \notin Invites!PendingOf(p)'
            BY <1>0, <1>1 DEF Invites!PendingOf, Invites!Pending, Invitation
        <3>. QED  BY <1>0, <1>4, <1>5, <3>1, <3>2 DEF InviteInv, Invites!OnePending
    <2>2. \A q \in Phones \ {p} :
            Profile(q)' # None /\ Profile(q)'.status = "active" => Invites!PendingOf(q)' = {}
        BY <1>1, <1>4 DEF InviteInv, Invites!OnePending, Profile
    <2>. QED  BY <1>1, <1>4, <2>1, <2>2 DEF InviteInv, Invites!OnePending, Profile
<1>8. Invites!UsedOnce
    <2>1. Invitation(i).status \notin Invites!FinalStatuses
        BY <1>0 DEF Invites!Pending, Invites!FinalStatuses, Invitation
    <2>. QED  BY <1>0, <1>1, <1>6, <2>1 DEF Invites!UsedOnce, Invitation, Profile
<1>9. \A j \in Invites!Invitations : Invitation(j) # None =>
        Invitation(j)' # None /\ Invitation(j).phone' = Invitation(j).phone
    BY <1>0, <1>1, <1>2
<1>10. \A j \in Invites!Invitations, d \in Clerks \ Writers :
        HoldsInvitation(held[d], j) /\ Invites!Pending(j) => Invites!Pending(j)'
    BY <1>1, <1>2 DEF Invites!Pending, Invitation
<1>11. \A q \in Phones, d \in Clerks \ Writers : ProfileLock(q) \in held[d] => Profile(q)' = Profile(q)
    BY <1>1
<1>. QED  BY <1>3, <1>7, <1>8, <1>9, <1>10, <1>11, InvitesWriteKeeps

LEMMA RevokeKeeps ==
    ASSUME InviteInv, NEW c \in Clerks, Invites!Revoke(c)
    PROVE  InviteInv' /\ Invites!UsedOnce
<1>. DEFINE i == tx[c].invitation
            p == Invitation(i).phone
            row == [phone |-> p, status |-> "revoked", late |-> Invitation(i).late]
<1>1. /\ tx[c] # None /\ tx[c].op = "revoke"
      /\ db' = [db EXCEPT !.invitations[i].status = "revoked"]
      /\ tx' = [tx EXCEPT ![c] = None]
      /\ held' = [held EXCEPT ![c] = {}]
    BY DEF Invites!Revoke, Invites!At, Invites!Commit
<1>2. RevokeOk(tx[c], held[c])
    BY <1>1 DEF InviteInv, InvitesRequestsOk, InvitesRequestOk, InviteOk, ActivateOk
<1>3. i \in Invites!Invitations /\ Invites!Pending(i) /\ HoldsInvitation(held[c], i)
    BY <1>2 DEF RevokeOk
<1>4. Invitation(i) \in Invites!InvitationRows /\ p \in Phones /\ Profile(p) \in Invites!ProfileRows
    BY <1>3 DEF InviteInv, InvitesShapeOk, Invites!Pending, Invitation, Profile, Invites!InvitationRows
<1>5. row \in Invites!InvitationRows /\ [Invitation(i) EXCEPT !.status = "revoked"] = row
    BY <1>4 DEF Invites!InvitationRows, Invites!FinalStatuses
<1>6. db' = [profiles |-> [db.profiles EXCEPT ![p] = Profile(p)],
             invitations |-> [db.invitations EXCEPT ![i] = row],
             consents |-> db'.consents, accounts |-> db'.accounts]
    <2>1. db' = [db EXCEPT !.invitations[i] = row]
        BY <1>1, <1>5 DEF Invitation
    <2>2. [db.profiles EXCEPT ![p] = Profile(p)] = db.profiles
        BY <1>4 DEF InviteInv, InvitesShapeOk, Profile
    <2>. HIDE DEF row, p, i
    <2>. QED  BY <2>1, <2>2 DEF InviteInv, InvitesShapeOk
<1>7. \A d \in Clerks \ {c} : ~ HoldsInvitation(held[d], i)
    BY <1>3, OneHoldsInvitation DEF InviteInv
<1>8. row.phone = p /\ row.status = "revoked"
    OBVIOUS
<1>. HIDE DEF row
<1>9. Written(i, row, Profile(p)) /\ Finish({c})
    BY <1>1, <1>3, <1>4, <1>5, <1>6, <1>8 DEF Written, Finish
<1>. HIDE DEF p, i
<1>. QED  BY <1>7, <1>8, <1>9, InvitationKeeps

LEMMA ExpireKeeps ==
    ASSUME InviteInv, Invites!Expire
    PROVE  InviteInv' /\ Invites!UsedOnce
<1>. DEFINE yes == TRUE
<1>1. PICK i \in Invites!Invitations :
        /\ Invites!Pending(i)
        /\ db' = [db EXCEPT !.invitations[i].late = yes]
    BY DEF Invites!Expire, Invites!Usable
<1>. DEFINE p == Invitation(i).phone
            row == [phone |-> p, status |-> "pending", late |-> yes]
<1>2. tx' = tx /\ held' = held
    BY DEF Invites!Expire
<1>3. yes \in BOOLEAN
    OBVIOUS
<1>. HIDE DEF yes
<1>4. Invitation(i) \in Invites!InvitationRows /\ p \in Phones /\ Profile(p) \in Invites!ProfileRows
    BY <1>1 DEF InviteInv, InvitesShapeOk, Invites!Pending, Invitation, Profile, Invites!InvitationRows
<1>5. row \in Invites!InvitationRows
    BY <1>3, <1>4 DEF Invites!InvitationRows
<1>6. [Invitation(i) EXCEPT !.late = yes] = row
    BY <1>1, <1>4 DEF Invites!InvitationRows, Invites!Pending, Invitation
<1>7. db' = [profiles |-> [db.profiles EXCEPT ![p] = Profile(p)],
             invitations |-> [db.invitations EXCEPT ![i] = row],
             consents |-> db'.consents, accounts |-> db'.accounts]
    <2>1. db' = [db EXCEPT !.invitations[i] = row]
        BY <1>1, <1>6 DEF Invitation
    <2>2. [db.profiles EXCEPT ![p] = Profile(p)] = db.profiles
        BY <1>4 DEF InviteInv, InvitesShapeOk, Profile
    <2>. HIDE DEF row, p
    <2>. QED  BY <2>1, <2>2 DEF InviteInv, InvitesShapeOk
<1>8. row.phone = p /\ row.status = "pending"
    OBVIOUS
<1>. HIDE DEF row
<1>9. Written(i, row, Profile(p)) /\ Finish({})
    BY <1>1, <1>2, <1>4, <1>5, <1>7, <1>8 DEF Written, Finish
<1>. HIDE DEF p
<1>. QED  BY <1>8, <1>9, InvitationKeeps

LEMMA InvitesActivateKeeps ==
    ASSUME InviteInv, NEW c \in Clerks, Invites!Activate(c)
    PROVE  InviteInv' /\ Invites!UsedOnce
<1>. DEFINE t == tx[c]
            i == t.invitation
            p == t.phone
            e == Profile(p).email
            profile == [email |-> e, status |-> "active", user |-> e]
            row == [phone |-> p, status |-> "accepted", late |-> Invitation(i).late]
            consents == db.consents \union {<<p, t.policy>>}
            accounts == db.accounts \union {e}
<1>1. /\ t # None /\ t.op = "activate" /\ t.at = "linked"
      /\ db' = [db EXCEPT !.profiles[p] = profile,
                          !.invitations[i].status = "accepted",
                          !.consents = consents,
                          !.accounts = accounts]
      /\ tx' = [tx EXCEPT ![c] = None]
      /\ held' = [held EXCEPT ![c] = {}]
    BY DEF Invites!Activate, Invites!At, Invites!Commit, Profile
<1>2. ActivateOk(t, held[c])
    BY <1>1 DEF InviteInv, InvitesRequestsOk, InvitesRequestOk, InviteOk, RevokeOk
<1>3. /\ i \in Invites!Invitations /\ Invites!Pending(i) /\ HoldsInvitation(held[c], i)
      /\ p \in Phones /\ Invitation(i).phone = p /\ Invitation(i) # None
      /\ ProfileLock(p) \in held[c] /\ Invites!MayLink(Profile(p), t.existing)
    BY <1>1, <1>2 DEF ActivateOk
<1>4. Invitation(i) \in Invites!InvitationRows /\ Profile(p) \in Invites!ProfileRows
    BY <1>3 DEF InviteInv, InvitesShapeOk, Invitation, Profile
<1>5. row \in Invites!InvitationRows /\ [Invitation(i) EXCEPT !.status = "accepted"] = row
    BY <1>3, <1>4 DEF Invites!InvitationRows, Invites!FinalStatuses
<1>6. profile \in Invites!ProfileRows
    BY <1>4 DEF Invites!ProfileRows
<1>7. Profile(p).user # None => e = Profile(p).user
    BY <1>3 DEF Invites!MayLink
<1>8. db' = [profiles |-> [db.profiles EXCEPT ![p] = profile],
             invitations |-> [db.invitations EXCEPT ![i] = row],
             consents |-> db'.consents, accounts |-> db'.accounts]
    <2>. HIDE DEF profile, consents, accounts
    <2>1. db' = [db EXCEPT !.profiles[p] = profile, !.invitations[i] = row,
                           !.consents = consents, !.accounts = accounts]
        BY <1>1, <1>5 DEF Invitation
    <2>. HIDE DEF row, p, i
    <2>. QED  BY <2>1 DEF InviteInv, InvitesShapeOk
<1>9. /\ \A d \in Clerks \ {c} : ~ HoldsInvitation(held[d], i)
      /\ \A d \in Clerks \ {c} : ProfileLock(p) \notin held[d]
    BY <1>3, OneHoldsInvitation, OneHoldsProfile DEF InviteInv
<1>10. row.phone = p /\ row.status = "accepted" /\ profile.user = e
    OBVIOUS
<1>. HIDE DEF row, profile
<1>11. Written(i, row, profile) /\ Finish({c})
    BY <1>1, <1>3, <1>5, <1>6, <1>8, <1>10 DEF Written, Finish
<1>. HIDE DEF i, p, e
<1>. QED  BY <1>7, <1>9, <1>10, <1>11, InvitationKeeps

LEMMA DeactivateKeeps ==
    ASSUME InviteInv, NEW c \in Clerks, Invites!Deactivate(c)
    PROVE  InviteInv' /\ Invites!UsedOnce
<1>1. PICK p \in Phones :
        /\ Profile(p) # None /\ Profile(p).status = "active"
        /\ Invites!Autocommit(c, {Invites!Lock(Invites!ProfileRow(p), "write")},
                              [db EXCEPT !.profiles[p].status = "inactive"])
    BY DEF Invites!Deactivate, Profile
<1>. DEFINE profile == [email |-> Profile(p).email, status |-> "inactive", user |-> Profile(p).user]
<1>2. Profile(p) \in Invites!ProfileRows
    BY <1>1 DEF InviteInv, InvitesShapeOk, Profile
<1>3. /\ profile \in Invites!ProfileRows
      /\ [Profile(p) EXCEPT !.status = "inactive"] = profile
      /\ profile.user = Profile(p).user /\ profile.status = "inactive"
    BY <1>2 DEF Invites!ProfileRows
<1>4. db' = [db EXCEPT !.profiles[p] = profile] /\ tx' = tx /\ held' = held /\ tx[c] = None
    BY <1>1, <1>3 DEF Invites!Autocommit, Profile
<1>. HIDE DEF profile
<1>5. /\ db' = [profiles |-> [db.profiles EXCEPT ![p] = profile], invitations |-> db.invitations,
                consents |-> db.consents, accounts |-> db.accounts]
    BY <1>4 DEF InviteInv, InvitesShapeOk
<1>6. /\ db'.invitations = db.invitations
      /\ db'.profiles = [db.profiles EXCEPT ![p] = profile]
      /\ profile # None
    BY <1>3, <1>5, RowAssumption
<1>7. Profile(p)' = profile /\ \A q \in Phones \ {p} : Profile(q)' = Profile(q)
    BY <1>6 DEF InviteInv, InvitesShapeOk, Profile
<1>8. InvitesShapeOk'
    <2>1. db'.profiles \in [Phones -> Invites!ProfileRows \union {None}]
        BY <1>3, <1>6 DEF InviteInv, InvitesShapeOk
    <2>2. \A i \in Invites!Invitations : db.invitations[i] # None =>
            /\ db.invitations[i].phone \in Phones
            /\ db.profiles[db.invitations[i].phone] # None
        BY DEF InviteInv, InvitesShapeOk, Invitation, Profile, Invites!InvitationRows
    <2>3. \A i \in Invites!Invitations : db'.invitations[i] # None =>
            db'.profiles[db'.invitations[i].phone] # None
        BY <1>6, <1>7, <2>2 DEF Profile
    <2>. QED  BY <1>4, <1>5, <1>6, <2>1, <2>3 DEF InviteInv, InvitesShapeOk, Invitation, Profile
<1>9. \A q \in Phones : Invites!PendingOf(q)' = Invites!PendingOf(q)
    BY <1>6 DEF Invites!PendingOf, Invites!Pending
<1>10. Invites!OnePending' /\ Invites!UsedOnce
    BY <1>1, <1>3, <1>6, <1>7, <1>9 DEF InviteInv, Invites!OnePending, Invites!UsedOnce, Profile
<1>11. \A d \in Clerks \ {c} : ProfileLock(p) \notin held[d]
    BY <1>1, OneHoldsProfile DEF InviteInv, Invites!Autocommit
<1>12. Finish({c})
    BY <1>4 DEF Finish
<1>. QED  BY <1>12, <1>6, <1>7, <1>8, <1>10, <1>11, InvitesWriteKeeps DEF Invitation, Invites!Pending

LEMMA RegisterKeeps ==
    ASSUME InviteInv, NEW c \in Clerks, Invites!Register(c)
    PROVE  InviteInv' /\ Invites!UsedOnce
<1>1. PICK accounts : /\ db' = [db EXCEPT !.accounts = accounts]
                      /\ tx' = tx /\ held' = held
    BY DEF Invites!Register, Invites!Autocommit
<1>2. db' = [profiles |-> db.profiles, invitations |-> db.invitations,
             consents |-> db.consents, accounts |-> accounts]
    BY <1>1 DEF InviteInv, InvitesShapeOk
<1>3. db'.profiles = db.profiles /\ db'.invitations = db.invitations
    BY <1>2
<1>4. InvitesShapeOk'
    BY <1>1, <1>2, <1>3 DEF InviteInv, InvitesShapeOk, Invitation, Profile
<1>5. Invites!OnePending' /\ Invites!UsedOnce
    BY <1>3 DEF InviteInv, Invites!OnePending, Invites!PendingOf, Invites!Pending, Invites!UsedOnce
<1>6. Finish({})
    BY <1>1 DEF Finish
<1>. QED  BY <1>3, <1>4, <1>5, <1>6, InvitesWriteKeeps DEF Invitation, Profile, Invites!Pending

\* A new invitation takes the place of those the profile had.
LEMMA InviteKeeps ==
    ASSUME InviteInv, NEW c \in Clerks, Invites!Invite(c)
    PROVE  InviteInv' /\ Invites!UsedOnce
<1>. DEFINE t == tx[c]
<1>0. PICK p : p = t.phone
    OBVIOUS
<1>. DEFINE old == Invites!PendingOf(p)
            profile == Invites!Invited(p, t.email)
            no == FALSE
            row == [phone |-> p, status |-> "pending", late |-> no]
            revoked(j) == [Invitation(j) EXCEPT !.status = "revoked"]
            after(i) == [j \in Invites!Invitations |->
                            IF j = i THEN row ELSE IF j \in old THEN revoked(j) ELSE Invitation(j)]
<1>1. /\ t # None /\ t.op = "invite" /\ t.at = "found"
      /\ Invites!Free(c, {Invites!Lock(Invites!InvitationRow(j), "write") : j \in old})
      /\ tx' = [tx EXCEPT ![c] = None]
      /\ held' = [held EXCEPT ![c] = {}]
    BY <1>0 DEF Invites!Invite, Invites!At, Invites!Commit
<1>2. PICK i \in Invites!Invitations :
        /\ \A j \in Invites!Invitations : db.invitations[j] = None <=> j >= i
        /\ db' = [db EXCEPT !.profiles[p] = profile, !.invitations = after(i)]
    <2>. HIDE DEF after, profile
    <2>1. \E i \in Invites!Invitations :
            /\ \A j \in Invites!Invitations : db.invitations[j] = None <=> j >= i
            /\ db' = [db EXCEPT !.profiles[t.phone] = Invites!Invited(t.phone, t.email),
                                !.invitations = [j \in Invites!Invitations |->
                                    IF j = i
                                    THEN [phone |-> t.phone, status |-> "pending", late |-> FALSE]
                                    ELSE IF j \in Invites!PendingOf(t.phone)
                                    THEN [Invitation(j) EXCEPT !.status = "revoked"]
                                    ELSE Invitation(j)]]
        BY DEF Invites!Invite, Invites!Commit, Invitation
    <2>. QED  BY <1>0, <2>1, Zenon DEF after, profile
<1>3. p \in Phones /\ t.email \in People /\ ProfileLock(p) \in held[c] /\ MayInvite(p)
    BY <1>0, <1>1 DEF InviteInv, InvitesRequestsOk, InvitesRequestOk, InviteOk, RevokeOk, ActivateOk
<1>4. Invitation(i) = None
    BY <1>2 DEF Invites!Invitations, Invitation
<1>5. /\ profile \in Invites!ProfileRows /\ profile.status = "invited"
      /\ Profile(p) # None => profile.user = Profile(p).user
    <2>. DEFINE u == IF Profile(p) = None THEN None ELSE Profile(p).user
    <2>1. u \in People \union {None}
        BY <1>3 DEF InviteInv, InvitesShapeOk, Profile, Invites!ProfileRows
    <2>2. profile = [email |-> t.email, status |-> "invited", user |-> u]
        BY DEF Invites!Invited, Profile
    <2>3. Profile(p) # None => u = Profile(p).user
        OBVIOUS
    <2>. HIDE DEF u, profile
    <2>. QED  BY <1>3, <2>1, <2>2, <2>3 DEF Invites!ProfileRows
<1>6. no \in BOOLEAN
    OBVIOUS
<1>. HIDE DEF no, profile
<1>7. row \in Invites!InvitationRows /\ row.phone = p
    BY <1>3, <1>6 DEF Invites!InvitationRows
<1>. HIDE DEF row
<1>8. /\ db' = [profiles |-> [db.profiles EXCEPT ![p] = profile], invitations |-> after(i),
                consents |-> db.consents, accounts |-> db.accounts]
    <2>. HIDE DEF after
    <2>. QED  BY <1>2 DEF InviteInv, InvitesShapeOk
<1>9. db'.profiles = [db.profiles EXCEPT ![p] = profile] /\ db'.invitations = after(i)
    <2>. HIDE DEF after
    <2>. QED  BY <1>8
<1>10. Profile(p)' = profile /\ \A q \in Phones \ {p} : Profile(q)' = Profile(q)
    BY <1>3, <1>9 DEF InviteInv, InvitesShapeOk, Profile
<1>11. \A j \in old :
        /\ j \in Invites!Invitations /\ Invitation(j) # None /\ j # i
        /\ Invitation(j) \in Invites!InvitationRows /\ Invitation(j).phone = p
        /\ Invitation(j).status = "pending"
    BY <1>4 DEF InviteInv, InvitesShapeOk, Invites!PendingOf, Invites!Pending, Invitation
<1>12. \A j \in old :
        /\ revoked(j) \in Invites!InvitationRows
        /\ revoked(j).phone = p /\ revoked(j).status = "revoked"
    BY <1>11 DEF Invites!InvitationRows, Invites!FinalStatuses
<1>13. /\ Invitation(i)' = row
       /\ \A j \in old : Invitation(j)' = revoked(j)
       /\ \A j \in Invites!Invitations \ (old \union {i}) : Invitation(j)' = Invitation(j)
    <2>1. \A j \in Invites!Invitations :
            Invitation(j)' = IF j = i THEN row ELSE IF j \in old THEN revoked(j) ELSE Invitation(j)
        <3>. HIDE DEF revoked, old
        <3>. QED  BY <1>9 DEF Invitation
    <2>. HIDE DEF revoked
    <2>. QED  BY <1>11, <2>1
<1>. HIDE DEF revoked, after
<1>14. profile # None /\ row # None /\ \A j \in old : revoked(j) # None
    BY <1>5, <1>7, <1>12, RowAssumption
<1>15. \A j \in Invites!Invitations : Invitation(j) # None =>
        Invitation(j)' # None /\ Invitation(j)'.phone = Invitation(j).phone
    BY <1>4, <1>11, <1>12, <1>13, <1>14
<1>16. InvitesShapeOk'
    <2>1. db'.profiles \in [Phones -> Invites!ProfileRows \union {None}]
        BY <1>3, <1>5, <1>9 DEF InviteInv, InvitesShapeOk
    <2>2. \A j \in Invites!Invitations : Invitation(j)' \in Invites!InvitationRows \union {None}
        BY <1>7, <1>12, <1>13 DEF InviteInv, InvitesShapeOk, Invitation
    <2>3. db'.invitations \in [Invites!Invitations -> Invites!InvitationRows \union {None}]
        BY <1>9, <2>2 DEF Invitation, after
    <2>4. ASSUME NEW j \in Invites!Invitations, Invitation(j)' # None
          PROVE  (Profile(Invitation(j).phone) # None)'
        <3>1. CASE j = i
            BY <1>7, <1>10, <1>13, <1>14, <3>1
        <3>2. CASE j # i
            <4>1. Invitation(j) # None /\ Invitation(j)'.phone = Invitation(j).phone
                BY <1>11, <1>13, <1>15, <2>4, <3>2
            <4>2. PICK q \in Phones : q = Invitation(j).phone /\ Profile(q) # None
                BY <4>1 DEF InviteInv, InvitesShapeOk, Invitation, Invites!InvitationRows
            <4>3. Profile(q)' # None
                BY <1>10, <1>14, <4>2
            <4>. QED  BY <4>1, <4>2, <4>3 DEF Profile, Invitation
        <3>. QED  BY <3>1, <3>2
    <2>5. db' = [profiles |-> db'.profiles, invitations |-> db'.invitations,
                 consents |-> db'.consents, accounts |-> db'.accounts]
        BY <1>8
    <2>6. tx' = [d \in Clerks |-> tx'[d]] /\ held' = [d \in Clerks |-> held'[d]]
        BY <1>1 DEF InviteInv, InvitesShapeOk
    <2>. QED  BY <2>1, <2>3, <2>4, <2>5, <2>6 DEF InvitesShapeOk, Invitation, Profile
<1>17. Invites!OnePending'
    <2>1. Invites!PendingOf(p)' \subseteq {i}
        BY <1>12, <1>13 DEF Invites!PendingOf, Invites!Pending, Invitation
    <2>2. \A q \in Phones \ {p} : Invites!PendingOf(q)' \subseteq Invites!PendingOf(q)
        BY <1>7, <1>11, <1>12, <1>13, <1>15 DEF Invites!PendingOf, Invites!Pending, Invitation
    <2>3. \A q \in Phones \ {p} :
            Profile(q)' # None /\ Profile(q)'.status = "active" => Invites!PendingOf(q)' = {}
        BY <1>10, <2>2 DEF InviteInv, Invites!OnePending, Profile
    <2>. QED  BY <1>5, <1>10, <2>1, <2>2, <2>3 DEF InviteInv, Invites!OnePending, Profile
<1>18. Invites!UsedOnce
    <2>1. \A j \in Invites!Invitations :
            Invitation(j) # None /\ Invitation(j).status \in Invites!FinalStatuses
                => Invitation(j)' = Invitation(j)
        BY <1>4, <1>11, <1>13 DEF Invites!FinalStatuses
    <2>2. \A q \in Phones : Profile(q) # None /\ Profile(q).user # None
                => Profile(q)'.user = Profile(q).user
        BY <1>5, <1>10
    <2>3. \A q \in Phones : Profile(q) # None /\ Profile(q).status = "active"
                => Profile(q)'.status # "invited"
        BY <1>3, <1>10 DEF MayInvite
    <2>. QED  BY <2>1, <2>2, <2>3 DEF Invites!UsedOnce, Invitation, Profile
<1>19. \A d \in Clerks \ {c} :
        /\ \A j \in old : ~ HoldsInvitation(held[d], j)
        /\ ProfileLock(p) \notin held[d]
    BY <1>1, <1>3, OneHoldsInvitation, OneHoldsProfile DEF InviteInv
<1>20. \A j \in Invites!Invitations, d \in Clerks \ {c} :
        HoldsInvitation(held[d], j) /\ Invites!Pending(j) => Invites!Pending(j)'
    BY <1>4, <1>13, <1>19 DEF Invites!Pending, Invitation
<1>21. \A q \in Phones, d \in Clerks \ {c} : ProfileLock(q) \in held[d] => Profile(q)' = Profile(q)
    BY <1>10, <1>19
<1>22. Finish({c})
    BY <1>1 DEF Finish
<1>. QED  BY <1>15, <1>16, <1>17, <1>18, <1>20, <1>21, <1>22, InvitesWriteKeeps

-----------------------------------------------------------------------------
(* The statements that change no row                                       *)

LEMMA InviteBegins ==
    ASSUME InviteInv, NEW c \in Clerks, Invites!AskToInvite(c)
    PROVE  InviteInv'
<1>1. PICK p \in Phones, e \in People :
        LET t == [op |-> "invite", at |-> "found", phone |-> p, email |-> e]
        IN  IF Profile(p) = None
            THEN Invites!Begin(c, [t EXCEPT !.at = "absent"], {})
            ELSE Profile(p).status # "active" /\ Invites!Begin(c, t, {ProfileLock(p)})
    BY DEF Invites!AskToInvite, Profile, ProfileLock
<1>. DEFINE t(at) == [op |-> "invite", at |-> at, phone |-> p, email |-> e]
<1>2. [t("found") EXCEPT !.at = "absent"] = t("absent")
    OBVIOUS
<1>3. CASE Profile(p) = None
    <2>1. Invites!Begin(c, t("absent"), {})
        BY <1>1, <1>2, <1>3
    <2>2. InvitesRequestOk(t("absent"), {})
        BY DEF InvitesRequestOk, InviteOk
    <2>. HIDE DEF t
    <2>. QED  BY <2>1, <2>2, InvitesBeginKeeps
<1>4. CASE Profile(p) # None
    <2>1. Profile(p).status # "active" /\ Invites!Begin(c, t("found"), {ProfileLock(p)})
        BY <1>1, <1>4
    <2>2. InvitesRequestOk(t("found"), {ProfileLock(p)})
        BY <2>1 DEF InvitesRequestOk, InviteOk, MayInvite
    <2>. HIDE DEF t
    <2>. QED  BY <2>1, <2>2, InvitesBeginKeeps
<1>. QED  BY <1>3, <1>4

LEMMA ProfileBegins ==
    ASSUME InviteInv, NEW c \in Clerks, Invites!InsertProfile(c)
    PROVE  InviteInv'
<1>. DEFINE t == tx[c]
            s == [t EXCEPT !.at = "found"]
            lock == {ProfileLock(t.phone)}
<1>1. /\ t # None /\ t.op = "invite"
      /\ Profile(t.phone) = None
      /\ Invites!Statement(c, s, lock)
    BY DEF Invites!InsertProfile, Invites!At, Profile, ProfileLock
<1>2. InviteOk(t, held[c])
    BY <1>1 DEF InviteInv, InvitesRequestsOk, InvitesRequestOk, RevokeOk, ActivateOk
<1>3. InviteOk(s, held[c] \union lock)
    BY <1>1, <1>2 DEF InviteOk, MayInvite
<1>. HIDE DEF s, lock
<1>. QED  BY <1>1, <1>3, InvitesNextStatementKeeps DEF InvitesRequestOk

LEMMA RevocationBegins ==
    ASSUME InviteInv, NEW c \in Clerks, Invites!AskToRevoke(c)
    PROVE  InviteInv'
<1>1. PICK i \in Invites!Invitations :
        /\ Invites!Pending(i)
        /\ Invites!Begin(c, [op |-> "revoke", at |-> "updated", invitation |-> i],
                         {Invites!Lock(Invites!InvitationRow(i), "write")})
    BY DEF Invites!AskToRevoke
<1>. DEFINE t == [op |-> "revoke", at |-> "updated", invitation |-> i]
<1>2. InvitesRequestOk(t, {Invites!Lock(Invites!InvitationRow(i), "write")})
    BY <1>1 DEF InvitesRequestOk, RevokeOk, HoldsInvitation
<1>. HIDE DEF t
<1>. QED  BY <1>1, <1>2, InvitesBeginKeeps DEF t

LEMMA ActivationBegins ==
    ASSUME InviteInv, NEW c \in Clerks, Invites!Preview(c)
    PROVE  InviteInv'
<1>1. PICK i \in Invites!Invitations, v \in Policies :
        /\ Invites!Pending(i)
        /\ \E x : Invites!Begin(c, [op |-> "activate", at |-> "previewed", invitation |-> i, policy |-> v,
                                    phone |-> Invitation(i).phone, existing |-> x], {})
    BY DEF Invites!Preview, Invites!Usable, Invitation
<1>2. PICK x : Invites!Begin(c, [op |-> "activate", at |-> "previewed", invitation |-> i, policy |-> v,
                                 phone |-> Invitation(i).phone, existing |-> x], {})
    BY <1>1
<1>. DEFINE t == [op |-> "activate", at |-> "previewed", invitation |-> i, policy |-> v,
                  phone |-> Invitation(i).phone, existing |-> x]
<1>3. Invitation(i) # None /\ Invitation(i).phone \in Phones
    BY <1>1 DEF Invites!Pending, Invitation, InviteInv, InvitesShapeOk, Invites!InvitationRows
<1>4. InvitesRequestOk(t, {})
    BY <1>3 DEF InvitesRequestOk, ActivateOk
<1>. HIDE DEF t
<1>. QED  BY <1>2, <1>4, InvitesBeginKeeps DEF t

LEMMA ActivationGoesOn ==
    ASSUME InviteInv, NEW c \in Clerks, Invites!LockInvitation(c) \/ Invites!LockProfile(c)
    PROVE  InviteInv'
<1>. DEFINE t == tx[c]
<1>1. t # None /\ t.op = "activate"
    BY DEF Invites!LockInvitation, Invites!LockProfile, Invites!At
<1>2. ActivateOk(t, held[c])
    BY <1>1 DEF InviteInv, InvitesRequestsOk, InvitesRequestOk, InviteOk, RevokeOk
<1>3. CASE Invites!LockInvitation(c)
    <2>. DEFINE s == [t EXCEPT !.at = "locked"]
                locks == {Invites!Lock(Invites!InvitationRow(t.invitation), "update")}
    <2>1. Invites!Pending(t.invitation) /\ Invites!Statement(c, s, locks)
        BY <1>3 DEF Invites!LockInvitation, Invites!Usable
    <2>2. ActivateOk(s, held[c] \union locks)
        <3>1. HoldsInvitation(held[c] \union locks, t.invitation)
            BY DEF HoldsInvitation
        <3>. HIDE DEF locks
        <3>. QED  BY <1>2, <2>1, <3>1 DEF ActivateOk
    <2>. HIDE DEF s, locks
    <2>. QED  BY <2>1, <2>2, InvitesNextStatementKeeps DEF InvitesRequestOk
<1>4. CASE Invites!LockProfile(c)
    <2>. DEFINE s == [t EXCEPT !.at = "linked"]
                locks == {ProfileLock(t.phone)}
    <2>1. /\ t.at = "locked" /\ Invites!MayLink(Profile(t.phone), t.existing)
          /\ Invites!Statement(c, s, locks)
        BY <1>4 DEF Invites!LockProfile, Invites!At, Profile, ProfileLock
    <2>2. HoldsInvitation(held[c] \union locks, t.invitation)
        BY <1>2, <2>1 DEF ActivateOk, HoldsInvitation
    <2>3. ActivateOk(s, held[c] \union locks)
        BY <1>2, <2>1, <2>2 DEF ActivateOk
    <2>. HIDE DEF s, locks
    <2>. QED  BY <2>1, <2>3, InvitesNextStatementKeeps DEF InvitesRequestOk
<1>. QED  BY <1>3, <1>4

LEMMA InvitesRollbackKeeps ==
    ASSUME InviteInv, NEW c \in Clerks, Invites!Rollback(c)
    PROVE  InviteInv'
<1>1. Invites!Free(c, {}) /\ held' = [held EXCEPT ![c] = {}]
    BY DEF Invites!Rollback, Invites!Free
<1>2. InvitesLocksOk'
    BY <1>1, InvitesLocksKept DEF InviteInv
<1>. QED  BY <1>1, <1>2, InvitesStatementKeeps DEF Invites!Rollback

\* A statement that changes no row uses no invitation.
LEMMA QuietUses ==
    ASSUME NEW c \in Clerks,
           \/ Invites!AskToInvite(c) \/ Invites!InsertProfile(c) \/ Invites!AskToRevoke(c)
           \/ Invites!Preview(c) \/ Invites!LockInvitation(c) \/ Invites!LockProfile(c)
           \/ Invites!Rollback(c)
    PROVE  Invites!UsedOnce
<1>1. db' = db
    BY DEF Invites!AskToInvite, Invites!InsertProfile, Invites!AskToRevoke, Invites!Preview,
           Invites!LockInvitation, Invites!LockProfile, Invites!Rollback,
           Invites!Begin, Invites!Statement
<1>. QED  BY <1>1 DEF Invites!UsedOnce

-----------------------------------------------------------------------------
(* The start and the steps                                                 *)

LEMMA InvitesInitHolds == Init => InvitesDeskInv
<1>. SUFFICES ASSUME Init, desk = "invites" PROVE InviteInv
    BY DEF InvitesDeskInv
<1>1. Invites!Init
    BY DEF Init
<1>2. db = [profiles    |-> [p \in Phones |-> None],
            invitations |-> [i \in Invites!Invitations |-> None],
            consents    |-> {},
            accounts    |-> {}]
    BY <1>1 DEF Invites!Init
<1>3. tx = [c \in Clerks |-> None] /\ held = [c \in Clerks |-> {}]
    BY <1>1 DEF Invites!Init, Invites!NobodyServed
<1>4. /\ db.profiles = [p \in Phones |-> None]
      /\ db.invitations = [i \in Invites!Invitations |-> None]
    BY <1>2
<1>5. InvitesShapeOk
    BY <1>2, <1>3, <1>4 DEF InvitesShapeOk, Invitation
<1>6. InvitesLocksOk /\ InvitesRequestsOk
    BY <1>3 DEF InvitesLocksOk, InvitesRequestsOk
<1>7. Invites!OnePending
    BY <1>4 DEF Invites!OnePending, Invites!PendingOf, Invites!Pending
<1>. QED  BY <1>5, <1>6, <1>7 DEF InviteInv

LEMMA InvitesStepKeeps == InvitesDeskInv /\ [Next]_vars => InvitesDeskInv' /\ [desk = "invites" => Invites!UsedOnce]_vars
<1>. SUFFICES ASSUME InvitesDeskInv, [Next]_vars
              PROVE  InvitesDeskInv' /\ [desk = "invites" => Invites!UsedOnce]_vars
    OBVIOUS
<1>1. CASE UNCHANGED vars
    <2>1. ASSUME InviteInv PROVE InviteInv'
        <3>1. InvitesShapeOk'
            BY <1>1, <2>1 DEF vars, InviteInv, InvitesShapeOk, Invitation, Profile
        <3>2. InvitesLocksOk'
            BY <1>1, <2>1 DEF vars, InviteInv, InvitesLocksOk
        <3>3. InvitesRequestsOk'
            BY <1>1, <2>1 DEF vars, InviteInv, InvitesRequestsOk, InvitesRequestOk, InviteOk, RevokeOk, ActivateOk,
                MayInvite, Invites!MayLink, HoldsInvitation, ProfileLock, Profile, Invitation, Invites!Pending
        <3>4. Invites!OnePending'
            BY <1>1, <2>1 DEF vars, InviteInv, Invites!OnePending, Invites!PendingOf, Invites!Pending
        <3>. QED  BY <3>1, <3>2, <3>3, <3>4 DEF InviteInv
    <2>. QED  BY <1>1, <2>1 DEF vars, InvitesDeskInv
<1>2. CASE Next /\ desk # "invites"
    BY <1>2 DEF Next, AtDesk, InvitesDeskInv
<1>3. CASE Next /\ desk = "invites"
    <2>. SUFFICES InviteInv' /\ Invites!UsedOnce
        BY DEF InvitesDeskInv
    <2>1. InviteInv /\ Invites!Next
        BY <1>3 DEF Next, AtDesk, InvitesDeskInv
    <2>2. CASE Invites!Expire
        BY <2>1, <2>2, ExpireKeeps
    <2>3. ASSUME NEW c \in Clerks,
                 \/ Invites!AskToInvite(c) \/ Invites!InsertProfile(c) \/ Invites!Invite(c)
                 \/ Invites!AskToRevoke(c) \/ Invites!Revoke(c)
                 \/ Invites!Preview(c) \/ Invites!LockInvitation(c) \/ Invites!LockProfile(c)
                 \/ Invites!Activate(c)
                 \/ Invites!Deactivate(c) \/ Invites!Register(c) \/ Invites!Rollback(c)
          PROVE  InviteInv' /\ Invites!UsedOnce
        <3>1. CASE Invites!AskToInvite(c)
            BY <2>1, <3>1, InviteBegins, QuietUses
        <3>2. CASE Invites!InsertProfile(c)
            BY <2>1, <3>2, ProfileBegins, QuietUses
        <3>3. CASE Invites!Invite(c)
            BY <2>1, <3>3, InviteKeeps
        <3>4. CASE Invites!AskToRevoke(c)
            BY <2>1, <3>4, RevocationBegins, QuietUses
        <3>5. CASE Invites!Revoke(c)
            BY <2>1, <3>5, RevokeKeeps
        <3>6. CASE Invites!Preview(c)
            BY <2>1, <3>6, ActivationBegins, QuietUses
        <3>7. CASE Invites!LockInvitation(c) \/ Invites!LockProfile(c)
            BY <2>1, <3>7, ActivationGoesOn, QuietUses
        <3>8. CASE Invites!Activate(c)
            BY <2>1, <3>8, InvitesActivateKeeps
        <3>9. CASE Invites!Deactivate(c)
            BY <2>1, <3>9, DeactivateKeeps
        <3>10. CASE Invites!Register(c)
            BY <2>1, <3>10, RegisterKeeps
        <3>11. CASE Invites!Rollback(c)
            BY <2>1, <3>11, InvitesRollbackKeeps, QuietUses
        <3>. QED  BY <2>3, <3>1, <3>2, <3>3, <3>4, <3>5, <3>6, <3>7, <3>8, <3>9, <3>10, <3>11
    <2>. QED  BY <2>1, <2>2, <2>3 DEF Invites!Next
<1>. QED  BY <1>1, <1>2, <1>3

-----------------------------------------------------------------------------
(* The theorems                                                            *)

LEMMA InvitesInvAlways == Spec => []InvitesDeskInv
<1>1. InvitesDeskInv /\ [Next]_vars => InvitesDeskInv'
    BY InvitesStepKeeps
<1>. QED  BY InvitesInitHolds, <1>1, PTL DEF Spec

\* A profile has one invitation that can be used, and none once it is active,
\* however invitations, revocations and activations overtake each other.
THEOREM OneInvitation == Spec => []OnePending
<1>1. InvitesDeskInv => OnePending
    BY DEF InvitesDeskInv, InviteInv, OnePending
<1>. QED  BY InvitesInvAlways, <1>1, PTL

\* No request uses an invitation that was used or revoked, whatever it read
\* before, none links a profile to another user, and none invites an active one.
THEOREM InvitationUsedOnce == Spec => UsedOnce
<1>1. InvitesDeskInv /\ [Next]_vars => [desk = "invites" => Invites!UsedOnce]_vars
    BY InvitesStepKeeps
<1>. QED  BY InvitesInvAlways, <1>1, PTL DEF Spec, UsedOnce

(***************************************************************************)
(* House rules: what is signed, in force and followed                      *)
(***************************************************************************)

Statuses == {"draft", "published", "superseded"}

VersionRecords == [status : Statuses, text : Texts]

Number(v) == v \in Rules!VersionNumbers

Version(v) == db.versions[v]

\* A version that is or was in force, which does not change any more.
Final(v) == Number(v) /\ Version(v).status \in {"published", "superseded"}

PublishLock(v) == Rules!Lock(Rules!VersionRow(v), "update")

RulesLocksOk == \A c \in Clerks, d \in Clerks :
    c # d => \A l \in held[c], m \in held[d] : ~ Rules!Clash(l, m)

RulesShapeOk ==
    /\ db = [versions |-> db.versions, acks |-> db.acks, contracts |-> db.contracts,
             follows |-> db.follows]
    /\ db.versions \in Seq(VersionRecords)
    /\ db.follows = [k \in Tenants |-> db.follows[k]]
    /\ tx = [c \in Clerks |-> tx[c]]
    /\ held = [c \in Clerks |-> held[c]]

\* What a request may rely on, with the locks it holds.
SaveOk(t) ==
    /\ t.op = "save"
    /\ t = [op |-> "save", at |-> t.at, text |-> t.text, draft |-> t.draft]
    /\ t.text \in Texts
    /\ t.at = "found" => Number(t.draft)

PublicationOk(t, locks) ==
    /\ t.op = "publish"
    /\ t = [op |-> "publish", at |-> t.at, version |-> t.version]
    /\ PublishLock(t.version) \in locks
    /\ Number(t.version)
    /\ Version(t.version).status = "draft"

SignatureOk(t) ==
    /\ t.op = "sign"
    /\ t.tenant \in Tenants
    /\ t.contract \in Tenants \union {None}
    /\ Final(t.version)

ContractOk(t) ==
    /\ t.op \in {"accept", "activate"}
    /\ t = [op |-> t.op, at |-> t.at, tenant |-> t.tenant, version |-> t.version]
    /\ t.tenant \in Tenants
    /\ t.version # None => Final(t.version)

RulesRequestOk(t, locks) == SaveOk(t) \/ PublicationOk(t, locks) \/ SignatureOk(t) \/ ContractOk(t)

RulesRequestsOk == \A c \in Clerks : tx[c] # None => RulesRequestOk(tx[c], held[c])

\* What was signed has been published.
SignedFinal == \A a \in db.acks : Final(a.version)

RulesRowsOk ==
    /\ SignedFinal
    /\ Rules!SignedAsWritten /\ Rules!NewestInForce /\ Rules!FollowsSigned

RulesInv == RulesShapeOk /\ RulesLocksOk /\ RulesRequestsOk /\ RulesRowsOk

RulesDeskInv == desk = "rules" => RulesInv

-----------------------------------------------------------------------------
(* Locks and requests                                                      *)

\* Locks that are taken when they are free clash with none.
LEMMA RulesLocksKept ==
    ASSUME RulesShapeOk, RulesLocksOk, NEW c \in Clerks, NEW locks, NEW more,
           Rules!Free(c, more), locks \subseteq held[c] \union more,
           held' = [held EXCEPT ![c] = locks]
    PROVE  RulesLocksOk'
<1>1. held'[c] \subseteq held[c] \union more
    BY DEF RulesShapeOk
<1>2. \A d \in Clerks \ {c} : held'[d] = held[d]
    BY DEF RulesShapeOk
<1>3. \A d \in Clerks \ {c} : \A m \in held[d], l \in held[c] \union more :
        ~ Rules!Clash(l, m) /\ ~ Rules!Clash(m, l)
    BY DEF RulesLocksOk, Rules!Free, Rules!Clash
<1>. QED  BY <1>1, <1>2, <1>3 DEF RulesLocksOk, Rules!Clash

\* What a request relies on stays, if what was in force stays so and the draft
\* it holds stays a draft.
LEMMA RulesRequestStays ==
    ASSUME NEW t, NEW locks, RulesRequestOk(t, locks),
           \A v : Number(v) => Number(v)',
           \A v : Final(v) => Final(v)',
           \A v : Number(v) /\ Version(v).status = "draft" /\ PublishLock(v) \in locks
                    => Version(v)'.status = "draft"
    PROVE  RulesRequestOk(t, locks)'
<1>1. CASE SaveOk(t)
    BY <1>1 DEF RulesRequestOk, SaveOk
<1>2. CASE PublicationOk(t, locks)
    BY <1>2 DEF RulesRequestOk, PublicationOk, PublishLock
<1>3. CASE SignatureOk(t)
    BY <1>3 DEF RulesRequestOk, SignatureOk
<1>4. CASE ContractOk(t)
    BY <1>4 DEF RulesRequestOk, ContractOk
<1>. QED  BY <1>1, <1>2, <1>3, <1>4 DEF RulesRequestOk

\* A statement that changes no row.
LEMMA RulesStatementKeeps ==
    ASSUME RulesInv, NEW c \in Clerks, NEW t, NEW locks,
           db' = db, tx' = [tx EXCEPT ![c] = t], held' = [held EXCEPT ![c] = locks],
           RulesLocksOk', t # None => RulesRequestOk(t, locks)
    PROVE  RulesInv'
<1>1. RulesShapeOk'
    BY DEF RulesInv, RulesShapeOk
<1>2. ASSUME NEW d \in Clerks, tx'[d] # None
      PROVE  RulesRequestOk(tx[d], held[d])'
    <2>1. RulesRequestOk(tx'[d], held'[d])
        BY <1>2 DEF RulesInv, RulesShapeOk, RulesRequestsOk
    <2>. QED  BY <2>1 DEF RulesRequestOk, SaveOk, PublicationOk, SignatureOk, ContractOk,
                  Final, Number, Version, Rules!VersionNumbers, PublishLock
<1>3. RulesRowsOk'
    <2>1. SignedFinal'
        BY DEF RulesInv, RulesRowsOk, SignedFinal, Final, Number, Version, Rules!VersionNumbers
    <2>2. Rules!SignedAsWritten'
        BY DEF RulesInv, RulesRowsOk, Rules!SignedAsWritten
    <2>3. Rules!NewestInForce'
        BY DEF RulesInv, RulesRowsOk, Rules!NewestInForce, Rules!VersionNumbers
    <2>4. Rules!FollowsSigned'
        BY DEF RulesInv, RulesRowsOk, Rules!FollowsSigned, Rules!SignedBy
    <2>. QED  BY <2>1, <2>2, <2>3, <2>4 DEF RulesRowsOk
<1>. QED  BY <1>1, <1>2, <1>3 DEF RulesInv, RulesRequestsOk

LEMMA RulesBeginKeeps ==
    ASSUME RulesInv, NEW c \in Clerks, NEW t, NEW locks,
           Rules!Begin(c, t, locks), RulesRequestOk(t, locks)
    PROVE  RulesInv'
<1>1. RulesLocksOk'
    BY RulesLocksKept DEF RulesInv, Rules!Begin
<1>. QED  BY <1>1, RulesStatementKeeps DEF Rules!Begin

LEMMA RulesNextStatementKeeps ==
    ASSUME RulesInv, NEW c \in Clerks, NEW t, NEW locks,
           Rules!Statement(c, t, locks), RulesRequestOk(t, held[c] \union locks)
    PROVE  RulesInv'
<1>1. held' = [held EXCEPT ![c] = held[c] \union locks]
    BY DEF RulesInv, RulesShapeOk, Rules!Statement
<1>2. RulesLocksOk'
    BY <1>1, RulesLocksKept DEF RulesInv, Rules!Statement
<1>. QED  BY <1>1, <1>2, RulesStatementKeeps DEF Rules!Statement

\* COMMIT: the other requests go on.
LEMMA RulesCommitKeeps ==
    ASSUME RulesInv, RulesShapeOk', RulesRowsOk', NEW c \in Clerks,
           tx' = [tx EXCEPT ![c] = None], held' = [held EXCEPT ![c] = {}],
           \A v : Number(v) => Number(v)',
           \A v : Final(v) => Final(v)',
           \A d \in Clerks \ {c} : \A v :
                Number(v) /\ Version(v).status = "draft" /\ PublishLock(v) \in held[d]
                    => Version(v)'.status = "draft"
    PROVE  RulesInv'
<1>1. \A d \in Clerks : tx'[d] # None => d # c /\ tx'[d] = tx[d] /\ held'[d] = held[d]
    BY DEF RulesInv, RulesShapeOk
<1>2. \A d \in Clerks : held'[d] \subseteq held[d]
    BY DEF RulesInv, RulesShapeOk
<1>3. RulesLocksOk'
    BY <1>2 DEF RulesInv, RulesLocksOk, Rules!Clash
<1>4. ASSUME NEW d \in Clerks, tx'[d] # None
      PROVE  RulesRequestOk(tx[d], held[d])'
    <2>1. RulesRequestOk(tx[d], held[d]) /\ tx[d] # None /\ d # c
        BY <1>1, <1>4 DEF RulesInv, RulesRequestsOk
    <2>. DEFINE t == tx[d]
                locks == held[d]
    <2>. HIDE DEF t, locks
    <2>. QED  BY <1>1, <1>4, <2>1, RulesRequestStays
<1>. QED  BY <1>3, <1>4 DEF RulesInv, RulesRequestsOk

-----------------------------------------------------------------------------
(* The operations that write versions                                      *)

\* A version is appended or gets a new text, or the versions change status:
\* the signatures stand when no final version changes.
LEMMA VersionsWritten ==
    ASSUME RulesInv, NEW c \in Clerks, NEW versions \in Seq(VersionRecords),
           db' = [versions |-> versions, acks |-> db.acks, contracts |-> db.contracts,
                  follows |-> db.follows],
           tx' = [tx EXCEPT ![c] = None], held' = [held EXCEPT ![c] = {}],
           Len(versions) >= Len(db.versions),
           \A v \in Rules!VersionNumbers : Final(v) =>
                versions[v].status \in {"published", "superseded"} /\ versions[v].text = Version(v).text,
           \A d \in Clerks \ {c} : \A v \in Rules!VersionNumbers :
                Version(v).status = "draft" /\ PublishLock(v) \in held[d] => versions[v].status = "draft",
           Rules!NewestInForce'
    PROVE  RulesInv'
<1>1. /\ db'.versions = versions /\ db'.acks = db.acks /\ db'.follows = db.follows
    OBVIOUS
<1>2. RulesShapeOk'
    BY <1>1 DEF RulesInv, RulesShapeOk
<1>3. Len(versions) \in Nat /\ Len(db.versions) \in Nat
    BY DEF RulesInv, RulesShapeOk
<1>4. \A v : Number(v) => Number(v)'
    BY <1>1, <1>3 DEF Number, Rules!VersionNumbers
<1>5. \A v : Final(v) => Final(v)' /\ versions[v].text = Version(v).text
    BY <1>1, <1>4 DEF Final, Number, Version
<1>6. SignedFinal'
    BY <1>1, <1>5 DEF RulesInv, RulesRowsOk, SignedFinal
<1>7. Rules!SignedAsWritten'
    BY <1>1, <1>5 DEF RulesInv, RulesRowsOk, SignedFinal, Final, Rules!SignedAsWritten, Version
<1>8. Rules!FollowsSigned'
    BY <1>1 DEF RulesInv, RulesRowsOk, Rules!FollowsSigned, Rules!SignedBy
<1>9. RulesRowsOk'
    BY <1>6, <1>7, <1>8 DEF RulesRowsOk
<1>10. \A d \in Clerks \ {c} : \A v :
        Number(v) /\ Version(v).status = "draft" /\ PublishLock(v) \in held[d]
            => Version(v)'.status = "draft"
    BY <1>1 DEF Number, Version
<1>. QED  BY <1>2, <1>4, <1>5, <1>9, <1>10, RulesCommitKeeps

LEMMA InsertKeeps ==
    ASSUME RulesInv, NEW c \in Clerks, Rules!InsertDraft(c)
    PROVE  RulesInv'
<1>. DEFINE t == tx[c]
            new == Rules!Version("draft", t.text)
            versions == Append(db.versions, new)
<1>1. /\ t # None /\ t.op = "save" /\ Rules!Draft = {}
      /\ db' = [db EXCEPT !.versions = versions]
      /\ tx' = [tx EXCEPT ![c] = None]
      /\ held' = [held EXCEPT ![c] = {}]
    BY DEF Rules!InsertDraft, Rules!At, Rules!Commit
<1>2. SaveOk(t)
    BY <1>1 DEF RulesInv, RulesRequestsOk, RulesRequestOk, PublicationOk, SignatureOk, ContractOk
<1>3. new \in VersionRecords /\ new.status = "draft"
    BY <1>2 DEF SaveOk, Rules!Version, VersionRecords, Statuses
<1>4. db.versions \in Seq(VersionRecords) /\ Len(db.versions) \in Nat
    BY DEF RulesInv, RulesShapeOk
<1>. HIDE DEF new
<1>5. /\ versions \in Seq(VersionRecords)
      /\ Len(versions) = Len(db.versions) + 1
      /\ \A v \in Rules!VersionNumbers : versions[v] = db.versions[v]
      /\ versions[Len(db.versions) + 1] = new
    BY <1>3, <1>4 DEF Rules!VersionNumbers
<1>. HIDE DEF versions
<1>6. db' = [versions |-> versions, acks |-> db.acks, contracts |-> db.contracts,
             follows |-> db.follows]
    BY <1>1 DEF RulesInv, RulesShapeOk
<1>7. Rules!NewestInForce'
    <2>1. db'.versions = versions
        BY <1>6
    <2>2. \A v \in Rules!VersionNumbers' :
            v \in Rules!VersionNumbers \/ v = Len(db.versions) + 1
        BY <1>4, <1>5, <2>1 DEF Rules!VersionNumbers
    <2>3. \A v \in Rules!VersionNumbers' : v = Len(db.versions) + 1 => versions[v].status = "draft"
        BY <1>3, <1>5
    <2>4. \A v \in Rules!VersionNumbers : versions[v].status # "draft"
        BY <1>1, <1>5 DEF Rules!Draft
    <2>5. \A v, w \in Rules!VersionNumbers' : v < w => v \in Rules!VersionNumbers
        BY <1>4, <1>5, <2>1, <2>2 DEF Rules!VersionNumbers
    <2>6. \A v, w \in Rules!VersionNumbers : v < w => versions[v].status = "superseded"
        BY <1>1, <1>5 DEF RulesInv, RulesRowsOk, Rules!NewestInForce, Rules!Draft
    <2>. QED  BY <2>1, <2>2, <2>3, <2>4, <2>5, <2>6 DEF Rules!NewestInForce
<1>8. Len(versions) >= Len(db.versions)
    BY <1>4, <1>5
<1>9. \A v \in Rules!VersionNumbers : Final(v) =>
            versions[v].status \in {"published", "superseded"} /\ versions[v].text = Version(v).text
    BY <1>5 DEF Final, Version
<1>10. \A e \in Clerks \ {c} : \A v \in Rules!VersionNumbers :
            Version(v).status = "draft" /\ PublishLock(v) \in held[e] => versions[v].status = "draft"
    BY <1>5 DEF Version
<1>11. versions \in Seq(VersionRecords) /\ tx' = [tx EXCEPT ![c] = None] /\ held' = [held EXCEPT ![c] = {}]
    BY <1>1, <1>5
<1>. QED  BY <1>6, <1>7, <1>8, <1>9, <1>10, <1>11, VersionsWritten

LEMMA ReplaceKeeps ==
    ASSUME RulesInv, NEW c \in Clerks, Rules!ReplaceItems(c)
    PROVE  RulesInv'
<1>. DEFINE t == tx[c]
            d == t.draft
            new == [status |-> "draft", text |-> t.text]
            versions == [db.versions EXCEPT ![d] = new]
<1>1. /\ t # None /\ t.op = "save" /\ t.at = "found"
      /\ db.versions[d].status = "draft"
      /\ db' = [db EXCEPT !.versions[d].text = t.text]
      /\ tx' = [tx EXCEPT ![c] = None]
      /\ held' = [held EXCEPT ![c] = {}]
    BY DEF Rules!ReplaceItems, Rules!At, Rules!Commit
<1>2. t.text \in Texts /\ d \in Rules!VersionNumbers
    BY <1>1 DEF RulesInv, RulesRequestsOk, RulesRequestOk, SaveOk, PublicationOk, SignatureOk, ContractOk, Number
<1>3. db.versions \in Seq(VersionRecords) /\ db.versions[d] \in VersionRecords
    BY <1>2 DEF RulesInv, RulesShapeOk, Rules!VersionNumbers
<1>4. [db.versions[d] EXCEPT !.text = t.text] = new
    BY <1>1, <1>3 DEF VersionRecords
<1>5. new \in VersionRecords /\ new.status = "draft"
    BY <1>2 DEF VersionRecords, Statuses
<1>. HIDE DEF new
<1>6. /\ versions \in Seq(VersionRecords)
      /\ Len(versions) = Len(db.versions)
      /\ \A v \in Rules!VersionNumbers : versions[v] = IF v = d THEN new ELSE db.versions[v]
    BY <1>2, <1>3, <1>5 DEF Rules!VersionNumbers
<1>. HIDE DEF versions
<1>7. db' = [versions |-> versions, acks |-> db.acks, contracts |-> db.contracts,
             follows |-> db.follows]
    BY <1>1, <1>4 DEF RulesInv, RulesShapeOk, versions
<1>8. Rules!NewestInForce'
    BY <1>1, <1>5, <1>6, <1>7 DEF RulesInv, RulesRowsOk, Rules!NewestInForce, Rules!VersionNumbers
<1>9. Len(versions) >= Len(db.versions)
    BY <1>3, <1>6
<1>10. \A v \in Rules!VersionNumbers : Final(v) =>
            versions[v].status \in {"published", "superseded"} /\ versions[v].text = Version(v).text
    BY <1>1, <1>5, <1>6 DEF Final, Version
<1>11. \A e \in Clerks \ {c} : \A v \in Rules!VersionNumbers :
            Version(v).status = "draft" /\ PublishLock(v) \in held[e] => versions[v].status = "draft"
    BY <1>1, <1>5, <1>6 DEF Version
<1>12. versions \in Seq(VersionRecords) /\ tx' = [tx EXCEPT ![c] = None] /\ held' = [held EXCEPT ![c] = {}]
    BY <1>1, <1>6
<1>. QED  BY <1>7, <1>8, <1>9, <1>10, <1>11, <1>12, VersionsWritten

LEMMA PublishKeeps ==
    ASSUME RulesInv, NEW c \in Clerks, Rules!Publish(c)
    PROVE  RulesInv'
<1>. DEFINE t == tx[c]
            p == t.version
            versions == [v \in Rules!VersionNumbers |->
                IF v = p THEN [db.versions[v] EXCEPT !.status = "published"]
                ELSE IF v \in Rules!Published THEN [db.versions[v] EXCEPT !.status = "superseded"]
                ELSE db.versions[v]]
<1>1. /\ t # None /\ t.op = "publish"
      /\ db' = [db EXCEPT !.versions = versions]
      /\ tx' = [tx EXCEPT ![c] = None]
      /\ held' = [held EXCEPT ![c] = {}]
    BY DEF Rules!Publish, Rules!At, Rules!Commit
<1>2. PublicationOk(t, held[c])
    BY <1>1 DEF RulesInv, RulesRequestsOk, RulesRequestOk, SaveOk, SignatureOk, ContractOk
<1>3. p \in Rules!VersionNumbers /\ db.versions[p].status = "draft"
    BY <1>2 DEF PublicationOk, Number, Version
<1>4. /\ db.versions \in Seq(VersionRecords)
      /\ Len(db.versions) \in Nat
      /\ \A v \in Rules!VersionNumbers : db.versions[v] \in VersionRecords
    BY DEF RulesInv, RulesShapeOk, Rules!VersionNumbers
<1>5. \A v \in Rules!VersionNumbers :
        /\ versions[v] \in VersionRecords
        /\ versions[v].text = db.versions[v].text
        /\ versions[v].status = IF v = p THEN "published"
                                ELSE IF db.versions[v].status = "published" THEN "superseded"
                                ELSE db.versions[v].status
    BY <1>4 DEF VersionRecords, Statuses, Rules!Published
<1>6. DOMAIN versions = 1 .. Len(db.versions)
    BY DEF Rules!VersionNumbers
<1>. HIDE DEF versions
<1>7. versions \in Seq(VersionRecords) /\ Len(versions) = Len(db.versions)
    <2>1. versions = [v \in 1 .. Len(db.versions) |-> versions[v]]
        BY <1>6 DEF versions, Rules!VersionNumbers
    <2>2. versions \in [1 .. Len(db.versions) -> VersionRecords]
        BY <1>5, <2>1 DEF Rules!VersionNumbers
    <2>3. versions \in Seq(VersionRecords)
        BY <1>4, <2>2, SeqDef
    <2>. QED  BY <1>4, <1>6, <2>3, LenProperties
<1>8. db' = [versions |-> versions, acks |-> db.acks, contracts |-> db.contracts,
             follows |-> db.follows]
    BY <1>1 DEF RulesInv, RulesShapeOk
<1>9. Rules!NewestInForce'
    <2>1. ASSUME NEW v \in Rules!VersionNumbers, NEW w \in Rules!VersionNumbers, v < w
          PROVE  versions[v].status = "superseded"
        <3>1. db.versions[v].status # "draft"
            BY <2>1 DEF RulesInv, RulesRowsOk, Rules!NewestInForce
        <3>. QED  BY <1>3, <1>4, <1>5, <3>1 DEF VersionRecords, Statuses
    <2>. QED  BY <1>7, <1>8, <2>1 DEF Rules!NewestInForce, Rules!VersionNumbers
<1>10. \A v \in Rules!VersionNumbers : Final(v) =>
            versions[v].status \in {"published", "superseded"} /\ versions[v].text = Version(v).text
    BY <1>5 DEF Final, Version
<1>11. \A e \in Clerks \ {c} : \A v \in Rules!VersionNumbers :
            Version(v).status = "draft" /\ PublishLock(v) \in held[e] => versions[v].status = "draft"
    <2>1. \A e \in Clerks \ {c} : PublishLock(p) \notin held[e]
        BY <1>2 DEF RulesInv, RulesLocksOk, PublicationOk, Rules!Clash, PublishLock, Rules!Lock
    <2>. QED  BY <1>5, <2>1 DEF Version
<1>12. Len(versions) >= Len(db.versions)
    BY <1>4, <1>7
<1>. QED  BY <1>1, <1>7, <1>8, <1>9, <1>10, <1>11, <1>12, VersionsWritten

-----------------------------------------------------------------------------
(* The operations that sign, and the contracts                             *)

Signed(acks, k, v) ==
    \/ \E a \in acks : a.tenant = k /\ a.version = v /\ a.contract = None
    \/ \E j \in Tenants : \E a \in acks : a.tenant = j /\ a.version = v /\ a.contract = k

\* Signatures are added, and a contract follows what is signed for it.
LEMMA SignaturesWritten ==
    ASSUME RulesInv, NEW c \in Clerks, NEW acks, NEW contracts, NEW follows,
           db' = [versions |-> db.versions, acks |-> acks, contracts |-> contracts,
                  follows |-> follows],
           tx' = [tx EXCEPT ![c] = None], held' = [held EXCEPT ![c] = {}],
           RulesShapeOk',
           db.acks \subseteq acks,
           \A a \in acks \ db.acks : Final(a.version) /\ a.text = Version(a.version).text,
           \A k \in Tenants :
                \/ follows[k] = db.follows[k]
                \/ follows[k] = None
                \/ Signed(acks, k, follows[k])
    PROVE  RulesInv'
<1>1. /\ db'.versions = db.versions /\ db'.acks = acks /\ db'.follows = follows
    OBVIOUS
<1>3. \A v : (Number(v) => Number(v)') /\ (Final(v) => Final(v)') /\ Version(v)' = Version(v)
    BY <1>1 DEF Number, Final, Version, Rules!VersionNumbers
<1>4. SignedFinal'
    BY <1>1, <1>3 DEF RulesInv, RulesRowsOk, SignedFinal
<1>5. Rules!SignedAsWritten'
    BY <1>1 DEF RulesInv, RulesRowsOk, Final, Rules!SignedAsWritten, Version
<1>6. Rules!NewestInForce'
    BY <1>1 DEF RulesInv, RulesRowsOk, Rules!NewestInForce, Rules!VersionNumbers
<1>7. Rules!FollowsSigned'
    BY <1>1 DEF RulesInv, RulesRowsOk, Rules!FollowsSigned, Rules!SignedBy, Signed
<1>8. RulesRowsOk'
    BY <1>4, <1>5, <1>6, <1>7 DEF RulesRowsOk
<1>. QED  BY <1>3, <1>8, RulesCommitKeeps

LEMMA SignKeeps ==
    ASSUME RulesInv, NEW c \in Clerks, Rules!Sign(c)
    PROVE  RulesInv'
<1>. DEFINE t == tx[c]
            k == t.tenant
            v == t.version
            n == t.contract
            a == Rules!Signature(k, v, n)
            acks == db.acks \union {a}
            follows == [j \in Tenants |-> IF j = n THEN v ELSE db.follows[j]]
<1>1. /\ t # None /\ t.op = "sign"
      /\ db' = [db EXCEPT !.acks = acks, !.follows = follows]
      /\ tx' = [tx EXCEPT ![c] = None]
      /\ held' = [held EXCEPT ![c] = {}]
    BY DEF Rules!Sign, Rules!At, Rules!Commit
<1>2. SignatureOk(t)
    BY <1>1 DEF RulesInv, RulesRequestsOk, RulesRequestOk, SaveOk, PublicationOk, ContractOk
<1>3. a.tenant = k /\ a.version = v /\ a.text = Version(v).text /\ a.contract = n
    BY DEF Rules!Signature, Version
<1>. HIDE DEF a
<1>4. db' = [versions |-> db.versions, acks |-> acks, contracts |-> db.contracts, follows |-> follows]
    BY <1>1 DEF RulesInv, RulesShapeOk
<1>5. follows = [j \in Tenants |-> follows[j]]
    BY DEF RulesInv, RulesShapeOk
<1>6. \A j \in Tenants : follows[j] = db.follows[j] \/ (j = n /\ follows[j] = v)
    OBVIOUS
<1>. HIDE DEF follows
<1>7. \A b \in acks \ db.acks : Final(b.version) /\ b.text = Version(b.version).text
    BY <1>2, <1>3 DEF SignatureOk
<1>8. \A j \in Tenants :
        \/ follows[j] = db.follows[j]
        \/ Signed(acks, j, follows[j])
    BY <1>2, <1>3, <1>6 DEF SignatureOk, Signed
<1>9. db.acks \subseteq acks
    OBVIOUS
<1>10. RulesShapeOk'
    BY <1>1, <1>4, <1>5 DEF RulesInv, RulesShapeOk
<1>. HIDE DEF acks
<1>. QED  BY <1>1, <1>4, <1>7, <1>8, <1>9, <1>10, SignaturesWritten

LEMMA AcceptKeeps ==
    ASSUME RulesInv, NEW c \in Clerks, Rules!Accept(c)
    PROVE  RulesInv'
<1>. DEFINE t == tx[c]
            k == t.tenant
            v == t.version
            a == Rules!Signature(k, v, k)
            contracts == [db.contracts EXCEPT ![k] = "scheduled"]
<1>1. /\ t # None /\ t.op = "accept"
      /\ tx' = [tx EXCEPT ![c] = None]
      /\ held' = [held EXCEPT ![c] = {}]
    BY DEF Rules!Accept, Rules!At, Rules!Commit
<1>2. ContractOk(t)
    BY <1>1 DEF RulesInv, RulesRequestsOk, RulesRequestOk, SaveOk, PublicationOk, SignatureOk
<1>3. db.follows = [j \in Tenants |-> db.follows[j]]
    BY DEF RulesInv, RulesShapeOk
<1>4. CASE v = None
    <2>1. db' = [db EXCEPT !.contracts[k] = "scheduled"]
        BY <1>4 DEF Rules!Accept, Rules!Commit
    <2>2. db' = [versions |-> db.versions, acks |-> db.acks, contracts |-> contracts,
                 follows |-> db.follows]
        BY <2>1 DEF RulesInv, RulesShapeOk
    <2>3. RulesShapeOk'
        BY <1>1, <2>2 DEF RulesInv, RulesShapeOk
    <2>. HIDE DEF contracts
    <2>. QED  BY <1>1, <2>2, <2>3, SignaturesWritten
<1>5. CASE v # None
    <2>. DEFINE acks == IF Rules!SignedBy(k, v, k) THEN db.acks ELSE db.acks \union {a}
                follows == [db.follows EXCEPT ![k] = v]
    <2>1. db' = [db EXCEPT !.contracts[k] = "scheduled", !.follows[k] = v, !.acks = acks]
        BY <1>5 DEF Rules!Accept, Rules!Commit
    <2>2. a.tenant = k /\ a.version = v /\ a.text = Version(v).text /\ a.contract = k
        BY DEF Rules!Signature, Version
    <2>. HIDE DEF a
    <2>3. /\ db.acks \subseteq acks
          /\ \A b \in acks \ db.acks : b = a
          /\ Signed(acks, k, v)
        BY <1>2, <2>2 DEF Rules!SignedBy, Signed, ContractOk
    <2>. HIDE DEF acks
    <2>4. db' = [versions |-> db.versions, acks |-> acks, contracts |-> contracts,
                 follows |-> follows]
        BY <2>1 DEF RulesInv, RulesShapeOk
    <2>5. follows = [j \in Tenants |-> follows[j]]
        BY <1>3
    <2>6. \A j \in Tenants : follows[j] = db.follows[j] \/ (j = k /\ follows[j] = v)
        BY <1>3
    <2>. HIDE DEF follows, contracts
    <2>7. \A b \in acks \ db.acks : Final(b.version) /\ b.text = Version(b.version).text
        BY <1>2, <1>5, <2>2, <2>3 DEF ContractOk
    <2>8. \A j \in Tenants :
            \/ follows[j] = db.follows[j]
            \/ Signed(acks, j, follows[j])
        BY <2>3, <2>6
    <2>9. RulesShapeOk'
        BY <1>1, <2>4, <2>5 DEF RulesInv, RulesShapeOk
    <2>. QED  BY <1>1, <2>3, <2>4, <2>7, <2>8, <2>9, SignaturesWritten
<1>. QED  BY <1>4, <1>5

LEMMA RulesActivateKeeps ==
    ASSUME RulesInv, NEW c \in Clerks, Rules!Activate(c)
    PROVE  RulesInv'
<1>. DEFINE t == tx[c]
            k == t.tenant
            v == t.version
            contracts == [db.contracts EXCEPT ![k] = "active"]
            follows == [db.follows EXCEPT ![k] = IF @ = None THEN v ELSE @]
<1>1. /\ t # None /\ t.op = "activate"
      /\ v # None => Rules!SignedBy(k, v, k) \/ Rules!SignedBy(k, v, None)
      /\ db' = [db EXCEPT !.contracts[k] = "active", !.follows[k] = IF @ = None THEN v ELSE @]
      /\ tx' = [tx EXCEPT ![c] = None]
      /\ held' = [held EXCEPT ![c] = {}]
    BY DEF Rules!Activate, Rules!At, Rules!Commit
<1>2. ContractOk(t)
    BY <1>1 DEF RulesInv, RulesRequestsOk, RulesRequestOk, SaveOk, PublicationOk, SignatureOk
<1>3. db' = [versions |-> db.versions, acks |-> db.acks, contracts |-> contracts, follows |-> follows]
    BY <1>1 DEF RulesInv, RulesShapeOk
<1>4. follows = [j \in Tenants |-> follows[j]]
    BY DEF RulesInv, RulesShapeOk
<1>5. \A j \in Tenants : follows[j] = db.follows[j] \/ (j = k /\ follows[j] = v)
    BY DEF RulesInv, RulesShapeOk
<1>. HIDE DEF contracts, follows
<1>6. \A j \in Tenants :
        \/ follows[j] = db.follows[j]
        \/ follows[j] = None
        \/ Signed(db.acks, j, follows[j])
    BY <1>1, <1>5, <1>2 DEF Rules!SignedBy, Signed, ContractOk
<1>7. RulesShapeOk'
    BY <1>1, <1>3, <1>4 DEF RulesInv, RulesShapeOk
<1>. QED  BY <1>1, <1>3, <1>6, <1>7, SignaturesWritten

-----------------------------------------------------------------------------
(* The statements before                                                   *)

LEMMA SaveBegins ==
    ASSUME RulesInv, NEW c \in Clerks, Rules!AskToSave(c) \/ Rules!FindDraft(c)
    PROVE  RulesInv'
<1>1. CASE Rules!AskToSave(c)
    <2>1. PICK x \in Texts :
            Rules!Begin(c, [op |-> "save", at |-> "upserted", text |-> x, draft |-> None],
                        {Rules!Lock(Rules!RuleSet, "write")})
        BY <1>1 DEF Rules!AskToSave
    <2>. DEFINE s == [op |-> "save", at |-> "upserted", text |-> x, draft |-> None]
    <2>2. RulesRequestOk(s, {Rules!Lock(Rules!RuleSet, "write")})
        BY DEF RulesRequestOk, SaveOk
    <2>. HIDE DEF s
    <2>. QED  BY <2>1, <2>2, RulesBeginKeeps DEF s
<1>2. CASE Rules!FindDraft(c)
    <2>. DEFINE t == tx[c]
    <2>1. t # None /\ t.op = "save"
        BY <1>2 DEF Rules!FindDraft, Rules!At
    <2>2. SaveOk(t)
        BY <2>1 DEF RulesInv, RulesRequestsOk, RulesRequestOk, PublicationOk, SignatureOk, ContractOk
    <2>3. CASE Rules!Draft = {}
        <3>. DEFINE s == [t EXCEPT !.at = "none"]
        <3>1. Rules!Statement(c, s, {})
            BY <1>2, <2>3 DEF Rules!FindDraft
        <3>2. SaveOk(s)
            BY <2>2 DEF SaveOk
        <3>. HIDE DEF s
        <3>. QED  BY <3>1, <3>2, RulesNextStatementKeeps DEF RulesRequestOk
    <2>4. CASE Rules!Draft # {}
        <3>1. PICK v \in Rules!Draft :
                Rules!Statement(c, [t EXCEPT !.at = "found", !.draft = v],
                                {Rules!Lock(Rules!VersionRow(v), "update")})
            BY <1>2, <2>4 DEF Rules!FindDraft
        <3>. DEFINE f == [t EXCEPT !.at = "found"]
                    s == [f EXCEPT !.draft = v]
        <3>2. [t EXCEPT !.at = "found", !.draft = v] = s
            BY <2>2 DEF SaveOk
        <3>3. /\ f = [op |-> "save", at |-> "found", text |-> t.text, draft |-> t.draft]
              /\ t.text \in Texts
            BY <2>2 DEF SaveOk
        <3>4. s = [op |-> "save", at |-> "found", text |-> t.text, draft |-> v]
            <4>. HIDE DEF f
            <4>. QED  BY <3>3
        <3>. HIDE DEF s
        <3>5. SaveOk(s)
            BY <3>3, <3>4 DEF SaveOk, Number, Rules!Draft
        <3>. QED  BY <3>1, <3>2, <3>5, RulesNextStatementKeeps DEF RulesRequestOk
    <2>. QED  BY <2>3, <2>4
<1>. QED  BY <1>1, <1>2

LEMMA PublicationBegins ==
    ASSUME RulesInv, NEW c \in Clerks, Rules!AskToPublish(c) \/ Rules!Supersede(c)
    PROVE  RulesInv'
<1>1. CASE Rules!AskToPublish(c)
    <2>1. PICK v \in Rules!VersionNumbers :
            /\ db.versions[v].status = "draft"
            /\ Rules!Begin(c, [op |-> "publish", at |-> "locked", version |-> v],
                           {Rules!Lock(Rules!VersionRow(v), "update")})
        BY <1>1 DEF Rules!AskToPublish, Rules!Publishable
    <2>. DEFINE s == [op |-> "publish", at |-> "locked", version |-> v]
    <2>2. RulesRequestOk(s, {Rules!Lock(Rules!VersionRow(v), "update")})
        BY <2>1 DEF RulesRequestOk, PublicationOk, PublishLock, Number, Version
    <2>. HIDE DEF s
    <2>. QED  BY <2>1, <2>2, RulesBeginKeeps DEF s
<1>2. CASE Rules!Supersede(c)
    <2>. DEFINE t == tx[c]
                s == [t EXCEPT !.at = "superseded"]
    <2>1. t # None /\ t.op = "publish"
        BY <1>2 DEF Rules!Supersede, Rules!At
    <2>2. PublicationOk(t, held[c])
        BY <2>1 DEF RulesInv, RulesRequestsOk, RulesRequestOk, SaveOk, SignatureOk, ContractOk
    <2>3. PICK locks : Rules!Statement(c, s, locks)
        BY <1>2 DEF Rules!Supersede
    <2>4. PublicationOk(s, held[c] \union locks)
        BY <2>2 DEF PublicationOk
    <2>. HIDE DEF s
    <2>. QED  BY <2>3, <2>4, RulesNextStatementKeeps DEF RulesRequestOk
<1>. QED  BY <1>1, <1>2

LEMMA SignatureBegins ==
    ASSUME RulesInv, NEW c \in Clerks, Rules!AskToSign(c)
    PROVE  RulesInv'
<1>1. PICK k \in Tenants, v \in Rules!Published, n \in Tenants \union {None} :
        Rules!Begin(c, [op |-> "sign", at |-> "read", tenant |-> k, version |-> v, contract |-> n], {})
    BY DEF Rules!AskToSign
<1>. DEFINE s == [op |-> "sign", at |-> "read", tenant |-> k, version |-> v, contract |-> n]
<1>2. RulesRequestOk(s, {})
    BY DEF RulesRequestOk, SignatureOk, Final, Number, Version, Rules!Published
<1>. HIDE DEF s
<1>. QED  BY <1>1, <1>2, RulesBeginKeeps DEF s

LEMMA ContractBegins ==
    ASSUME RulesInv, NEW c \in Clerks, Rules!AskOfContract(c) \/ Rules!ReadInForce(c)
    PROVE  RulesInv'
<1>1. CASE Rules!AskOfContract(c)
    <2>1. PICK k \in Tenants, op \in {"accept", "activate"} :
            Rules!Begin(c, [op |-> op, at |-> "locked", tenant |-> k, version |-> None],
                        {Rules!Lock(Rules!ContractRow(k), "update")})
        BY <1>1 DEF Rules!AskOfContract
    <2>. DEFINE s == [op |-> op, at |-> "locked", tenant |-> k, version |-> None]
    <2>2. RulesRequestOk(s, {Rules!Lock(Rules!ContractRow(k), "update")})
        BY DEF RulesRequestOk, ContractOk
    <2>. HIDE DEF s
    <2>. QED  BY <2>1, <2>2, RulesBeginKeeps DEF s
<1>2. CASE Rules!ReadInForce(c)
    <2>. DEFINE t == tx[c]
                f == [t EXCEPT !.at = "read"]
                s == [f EXCEPT !.version = Rules!InForce]
    <2>1. /\ t # None /\ t.op \in {"accept", "activate"}
          /\ Rules!Statement(c, [t EXCEPT !.at = "read", !.version = Rules!InForce], {})
        BY <1>2 DEF Rules!ReadInForce, Rules!At
    <2>2. ContractOk(t)
        BY <2>1 DEF RulesInv, RulesRequestsOk, RulesRequestOk, SaveOk, PublicationOk, SignatureOk
    <2>3. [t EXCEPT !.at = "read", !.version = Rules!InForce] = s
        BY <2>2 DEF ContractOk
    <2>4. f = [op |-> t.op, at |-> "read", tenant |-> t.tenant, version |-> t.version]
        BY <2>2 DEF ContractOk
    <2>5. s = [op |-> t.op, at |-> "read", tenant |-> t.tenant, version |-> Rules!InForce]
        <3>. HIDE DEF f
        <3>. QED  BY <2>4
    <2>6. Rules!InForce # None => Final(Rules!InForce)
        BY DEF Rules!InForce, Rules!Published, Final, Number, Version
    <2>. HIDE DEF s
    <2>7. ContractOk(s)
        BY <2>2, <2>5, <2>6 DEF ContractOk
    <2>. QED  BY <2>1, <2>3, <2>7, RulesNextStatementKeeps DEF RulesRequestOk
<1>. QED  BY <1>1, <1>2

LEMMA RulesRollbackKeeps ==
    ASSUME RulesInv, NEW c \in Clerks, Rules!Rollback(c)
    PROVE  RulesInv'
<1>1. Rules!Free(c, {}) /\ held' = [held EXCEPT ![c] = {}]
    BY DEF Rules!Rollback, Rules!Free
<1>2. RulesLocksOk'
    BY <1>1, RulesLocksKept DEF RulesInv
<1>. QED  BY <1>1, <1>2, RulesStatementKeeps DEF Rules!Rollback

-----------------------------------------------------------------------------
(* The start and the steps                                                 *)

LEMMA RulesInitHolds == Init => RulesDeskInv
<1>. SUFFICES ASSUME Init, desk = "rules" PROVE RulesInv
    BY DEF RulesDeskInv
<1>1. Rules!Init
    BY DEF Init
<1>2. /\ db = [versions |-> <<>>, acks |-> {}, contracts |-> [k \in Tenants |-> "pending_tenant"],
               follows |-> [k \in Tenants |-> None]]
      /\ tx = [c \in Clerks |-> None] /\ held = [c \in Clerks |-> {}]
    BY <1>1 DEF Rules!Init, Rules!NobodyServed
<1>3. RulesShapeOk
    BY <1>2 DEF RulesShapeOk
<1>4. RulesLocksOk /\ RulesRequestsOk
    BY <1>2 DEF RulesLocksOk, RulesRequestsOk
<1>5. RulesRowsOk
    BY <1>2 DEF RulesRowsOk, SignedFinal, Rules!SignedAsWritten, Rules!NewestInForce,
                Rules!VersionNumbers, Rules!FollowsSigned
<1>. QED  BY <1>3, <1>4, <1>5 DEF RulesInv

LEMMA RulesStepKeeps == RulesDeskInv /\ [Next]_vars => RulesDeskInv'
<1>. SUFFICES ASSUME RulesDeskInv, [Next]_vars PROVE RulesDeskInv'
    OBVIOUS
<1>1. CASE UNCHANGED vars
    <2>1. ASSUME RulesInv PROVE RulesInv'
        <3>1. RulesShapeOk' /\ RulesLocksOk'
            BY <1>1, <2>1 DEF vars, RulesInv, RulesShapeOk, RulesLocksOk
        <3>2. RulesRequestsOk'
            BY <1>1, <2>1 DEF vars, RulesInv, RulesRequestsOk, RulesRequestOk, SaveOk, PublicationOk,
                SignatureOk, ContractOk, Final, Number, Version, Rules!VersionNumbers, PublishLock
        <3>3. SignedFinal' /\ Rules!SignedAsWritten'
            BY <1>1, <2>1 DEF vars, RulesInv, RulesRowsOk, SignedFinal, Final, Number, Version,
                Rules!VersionNumbers, Rules!SignedAsWritten
        <3>4. Rules!NewestInForce' /\ Rules!FollowsSigned'
            BY <1>1, <2>1 DEF vars, RulesInv, RulesRowsOk, Rules!NewestInForce, Rules!VersionNumbers,
                Rules!FollowsSigned, Rules!SignedBy
        <3>. QED  BY <3>1, <3>2, <3>3, <3>4 DEF RulesInv, RulesRowsOk
    <2>. QED  BY <1>1, <2>1 DEF vars, RulesDeskInv
<1>2. CASE Next /\ desk # "rules"
    BY <1>2 DEF Next, AtDesk, RulesDeskInv
<1>3. CASE Next /\ desk = "rules"
    <2>. SUFFICES RulesInv'
        BY DEF RulesDeskInv
    <2>1. RulesInv /\ Rules!Next
        BY <1>3 DEF Next, AtDesk, RulesDeskInv
    <2>2. PICK c \in Clerks :
            \/ Rules!AskToSave(c) \/ Rules!FindDraft(c) \/ Rules!InsertDraft(c) \/ Rules!ReplaceItems(c)
            \/ Rules!AskToPublish(c) \/ Rules!Supersede(c) \/ Rules!Publish(c)
            \/ Rules!AskToSign(c) \/ Rules!Sign(c)
            \/ Rules!AskOfContract(c) \/ Rules!ReadInForce(c) \/ Rules!Accept(c) \/ Rules!Activate(c)
            \/ Rules!Rollback(c)
        BY <2>1 DEF Rules!Next
    <2>3. CASE Rules!AskToSave(c) \/ Rules!FindDraft(c)
        BY <2>1, <2>3, SaveBegins
    <2>4. CASE Rules!InsertDraft(c)
        BY <2>1, <2>4, InsertKeeps
    <2>5. CASE Rules!ReplaceItems(c)
        BY <2>1, <2>5, ReplaceKeeps
    <2>6. CASE Rules!AskToPublish(c) \/ Rules!Supersede(c)
        BY <2>1, <2>6, PublicationBegins
    <2>7. CASE Rules!Publish(c)
        BY <2>1, <2>7, PublishKeeps
    <2>8. CASE Rules!AskToSign(c)
        BY <2>1, <2>8, SignatureBegins
    <2>9. CASE Rules!Sign(c)
        BY <2>1, <2>9, SignKeeps
    <2>10. CASE Rules!AskOfContract(c) \/ Rules!ReadInForce(c)
        BY <2>1, <2>10, ContractBegins
    <2>11. CASE Rules!Accept(c)
        BY <2>1, <2>11, AcceptKeeps
    <2>12. CASE Rules!Activate(c)
        BY <2>1, <2>12, RulesActivateKeeps
    <2>13. CASE Rules!Rollback(c)
        BY <2>1, <2>13, RulesRollbackKeeps
    <2>. QED  BY <2>2, <2>3, <2>4, <2>5, <2>6, <2>7, <2>8, <2>9, <2>10, <2>11, <2>12, <2>13
<1>. QED  BY <1>1, <1>2, <1>3

-----------------------------------------------------------------------------
(* The theorems                                                            *)

LEMMA RulesInvAlways == Spec => []RulesDeskInv
BY RulesInitHolds, RulesStepKeeps, PTL DEF Spec

\* What a tenant has signed was in force when it was signed, and says today
\* what it said then.
THEOREM SignaturesHold == Spec => []SignedAsWritten
<1>1. RulesDeskInv => SignedAsWritten
    BY DEF RulesDeskInv, RulesInv, RulesRowsOk, SignedAsWritten
<1>. QED  BY RulesInvAlways, <1>1, PTL

\* One version is in force, and only a draft is newer, however many drafts are
\* saved and published at once.
THEOREM NewestHolds == Spec => []NewestInForce
<1>1. RulesDeskInv => NewestInForce
    BY DEF RulesDeskInv, RulesInv, RulesRowsOk, NewestInForce
<1>. QED  BY RulesInvAlways, <1>1, PTL

\* A contract follows a version that was signed for it, or that its tenant signed
\* for no contract in particular: neither an activation nor a signature that is
\* late, repeated or given for somebody else's contract sets another.
THEOREM ContractsFollow == Spec => []FollowsSigned
<1>1. RulesDeskInv => FollowsSigned
    BY DEF RulesDeskInv, RulesInv, RulesRowsOk, FollowsSigned
<1>. QED  BY RulesInvAlways, <1>1, PTL

(***************************************************************************)
(* Checkouts: one, settled as inspected, handed over for good              *)
(***************************************************************************)

Case(k) == db.cases[k]

\* Who changes or settles a case holds its row in one of these modes.
Holds(locks, k) ==
    \/ Leaving!Lock(Leaving!CaseRow(k), "update") \in locks
    \/ Leaving!Lock(Leaving!CaseRow(k), "write") \in locks

\* A lock that is held waits for no other.
LeavingLocksOk == \A c \in Clerks, d \in Clerks :
    c # d => \A l \in held[c], m \in held[d] : ~ Leaving!Clash(l, m)

CaseShape(r) ==
    r = [status |-> r.status, room |-> r.room, key |-> r.key, override |-> r.override,
         settlement |-> r.settlement]

RoomRecords == [status : Leaving!RoomStatuses, by : {"tenancy", "others"}]

LeavingShapeOk ==
    /\ db = [contract |-> db.contract, home |-> db.home, rooms |-> db.rooms, debt |-> db.debt,
             cases |-> db.cases, items |-> db.items]
    /\ db.home \in Rooms
    /\ db.rooms \in [Rooms -> RoomRecords]
    /\ db.cases = [k \in Leaving!Cases |-> db.cases[k]]
    /\ db.debt \in Debts
    /\ \A k \in Leaving!Cases : CaseShape(Case(k))
    /\ tx = [c \in Clerks |-> tx[c]]
    /\ held = [c \in Clerks |-> held[c]]

\* What an execution has settled is what the inspections left.
Computed(s, k) ==
    /\ \E d \in Debts : s.net = Leaving!NetOf(d, Leaving!Damage(Leaving!ItemsOf(k)), s.utility)
    /\ s.refund = s.net

\* What a request may rely on, with the locks it holds.
NoticeOk(t) == t.op = "notice" /\ t = [op |-> "notice", at |-> t.at, room |-> t.room]

InspectionOk(t) ==
    /\ t.op = "inspect"
    /\ t = [op |-> "inspect", at |-> t.at, case |-> t.case, cost |-> t.cost, utility |-> t.utility,
            key |-> t.key, old |-> t.old, name |-> t.name]
    /\ \A r \in t.old : r.case = t.case

DecisionOk(t) == t.op = "decide" /\ t.status \in {"approved", "cancelled"}

OverrideOk(t, locks) ==
    /\ t.op = "override"
    /\ t.status \in Leaving!RoomStatuses
    /\ Holds(locks, t.case)
    /\ Leaving!Updatable(t.case)

ExecutionOk(t, locks) ==
    /\ t.op = "execute"
    /\ t = [op |-> "execute", at |-> t.at, case |-> t.case, override |-> t.override,
            settlement |-> t.settlement]
    /\ Holds(locks, t.case)
    /\ Case(t.case).key \/ t.override
    /\ t.at = "settled" => Computed(t.settlement, t.case)

LeavingRequestOk(t, locks) ==
    \/ NoticeOk(t)
    \/ /\ t.case \in Leaving!Cases
       /\ Leaving!Given(t.case)
       /\ InspectionOk(t) \/ DecisionOk(t) \/ OverrideOk(t, locks) \/ ExecutionOk(t, locks)

LeavingRequestsOk == \A c \in Clerks : tx[c] # None => LeavingRequestOk(tx[c], held[c])

LeavingRowsOk == Leaving!OneOpenCase /\ Leaving!SettledAsInspected /\ Leaving!HandedOver

CheckoutInv == LeavingShapeOk /\ LeavingLocksOk /\ LeavingRequestsOk /\ LeavingRowsOk

LeavingDeskInv == desk = "checkout" => CheckoutInv

-----------------------------------------------------------------------------
(* Locks                                                                   *)

\* Locks that are taken when they are free clash with none.
LEMMA LeavingLocksKept ==
    ASSUME LeavingShapeOk, LeavingLocksOk, NEW c \in Clerks, NEW locks, NEW more,
           Leaving!Free(c, more), locks \subseteq held[c] \union more,
           held' = [held EXCEPT ![c] = locks]
    PROVE  LeavingLocksOk'
<1>1. held'[c] \subseteq held[c] \union more
    BY DEF LeavingShapeOk
<1>2. \A d \in Clerks \ {c} : held'[d] = held[d]
    BY DEF LeavingShapeOk
<1>3. \A d \in Clerks \ {c} : \A m \in held[d], l \in held[c] \union more :
        ~ Leaving!Clash(l, m) /\ ~ Leaving!Clash(m, l)
    BY DEF LeavingLocksOk, Leaving!Free, Leaving!Clash
<1>. QED  BY <1>1, <1>2, <1>3 DEF LeavingLocksOk, Leaving!Clash

\* Who waits for the row of a case, or holds it, is the only one to do so.
LEMMA OneHolds ==
    ASSUME LeavingLocksOk, NEW c \in Clerks, NEW d \in Clerks, c # d, NEW k,
           \/ Holds(held[c], k)
           \/ \E locks : Leaving!Lock(Leaving!CaseRow(k), "write") \in locks /\ Leaving!Free(c, locks)
    PROVE  ~ Holds(held[d], k)
BY DEF LeavingLocksOk, Holds, Leaving!Free, Leaving!Clash, Leaving!Lock

-----------------------------------------------------------------------------
(* Requests                                                                *)

\* What others rely on stays, if a case whose row they hold does not change,
\* nor do its items.
LEMMA LeavingRequestStays ==
    ASSUME LeavingShapeOk, NEW t, NEW locks, t # None, LeavingRequestOk(t, locks),
           \A k \in Leaving!Cases : Leaving!Given(k) => Leaving!Given(k)',
           \A k \in Leaving!Cases : Holds(locks, k) /\ Leaving!Given(k) =>
                Case(k)' = Case(k) /\ Leaving!ItemsOf(k)' = Leaving!ItemsOf(k)
    PROVE  LeavingRequestOk(t, locks)'
<1>1. CASE NoticeOk(t)
    BY <1>1 DEF LeavingRequestOk, NoticeOk
<1>2. CASE InspectionOk(t) \/ DecisionOk(t)
    BY <1>2 DEF LeavingRequestOk, InspectionOk, DecisionOk, NoticeOk
<1>3. CASE OverrideOk(t, locks)
    BY <1>3 DEF LeavingRequestOk, OverrideOk, NoticeOk, Case, Leaving!Updatable, Holds
<1>4. CASE ExecutionOk(t, locks)
    <2>1. CASE NoticeOk(t)
        BY <2>1 DEF LeavingRequestOk, NoticeOk
    <2>2. CASE t.case \in Leaving!Cases
        <3>1. Case(t.case)' = Case(t.case) /\ Leaving!ItemsOf(t.case)' = Leaving!ItemsOf(t.case)
            BY <1>4, <2>2 DEF LeavingRequestOk, NoticeOk, ExecutionOk
        <3>2. Computed(t.settlement, t.case) => Computed(t.settlement, t.case)'
            BY <3>1 DEF Computed
        <3>3. ExecutionOk(t, locks)'
            BY <1>4, <3>1, <3>2 DEF ExecutionOk, Holds
        <3>. QED  BY <1>4, <2>1, <3>1, <3>3 DEF LeavingRequestOk
    <2>. QED  BY <2>1, <2>2 DEF LeavingRequestOk
<1>. QED  BY <1>1, <1>2, <1>3, <1>4 DEF LeavingRequestOk

\* A statement that changes no row.
LEMMA LeavingStatementKeeps ==
    ASSUME CheckoutInv, NEW c \in Clerks, NEW t, NEW locks,
           db' = db, tx' = [tx EXCEPT ![c] = t], held' = [held EXCEPT ![c] = locks],
           LeavingLocksOk', t # None => LeavingRequestOk(t, locks)
    PROVE  CheckoutInv'
<1>1. LeavingShapeOk'
    BY DEF CheckoutInv, LeavingShapeOk, Case, CaseShape, Leaving!Given
<1>2. ASSUME NEW d \in Clerks, tx'[d] # None
      PROVE  LeavingRequestOk(tx[d], held[d])'
    <2>1. LeavingRequestOk(tx'[d], held'[d])
        BY <1>2 DEF CheckoutInv, LeavingShapeOk, LeavingRequestsOk
    <2>. QED  BY <1>2, <2>1 DEF LeavingRequestOk, NoticeOk, InspectionOk, DecisionOk, OverrideOk, ExecutionOk,
                  Holds, Computed, Case, Leaving!Given, Leaving!Updatable, Leaving!ItemsOf
<1>3. LeavingRowsOk'
    <2>1. Leaving!OneOpenCase'
        BY DEF CheckoutInv, LeavingRowsOk, Leaving!OneOpenCase, Leaving!OpenCases, Leaving!Given
    <2>2. Leaving!SettledAsInspected'
        BY DEF CheckoutInv, LeavingRowsOk, Leaving!SettledAsInspected, Leaving!ItemsOf
    <2>3. Leaving!HandedOver'
        BY DEF CheckoutInv, LeavingRowsOk, Leaving!HandedOver
    <2>. QED  BY <2>1, <2>2, <2>3 DEF LeavingRowsOk
<1>. QED  BY <1>1, <1>2, <1>3 DEF CheckoutInv, LeavingRequestsOk

\* The first statement of a request, and a further one.
LEMMA LeavingBeginKeeps ==
    ASSUME CheckoutInv, NEW c \in Clerks, NEW t, NEW locks,
           Leaving!Begin(c, t, locks), LeavingRequestOk(t, locks)
    PROVE  CheckoutInv'
<1>1. LeavingLocksOk'
    BY LeavingLocksKept DEF CheckoutInv, Leaving!Begin
<1>. QED  BY <1>1, LeavingStatementKeeps DEF Leaving!Begin

LEMMA LeavingNextStatementKeeps ==
    ASSUME CheckoutInv, NEW c \in Clerks, NEW t, NEW locks,
           Leaving!Statement(c, t, locks), LeavingRequestOk(t, held[c] \union locks)
    PROVE  CheckoutInv'
<1>1. held' = [held EXCEPT ![c] = held[c] \union locks]
    BY DEF CheckoutInv, LeavingShapeOk, Leaving!Statement
<1>2. LeavingLocksOk'
    BY <1>1, LeavingLocksKept DEF CheckoutInv, Leaving!Statement
<1>. QED  BY <1>1, <1>2, LeavingStatementKeeps DEF Leaving!Statement

\* A transaction that changes rows ends, or is one statement: the rest of the
\* state is what it was.
LEMMA LeavingWriteKeeps ==
    ASSUME CheckoutInv, LeavingShapeOk', LeavingRowsOk', NEW c \in Clerks,
           \/ tx' = [tx EXCEPT ![c] = None] /\ held' = [held EXCEPT ![c] = {}]
           \/ tx[c] = None /\ tx' = tx /\ held' = held,
           \A k \in Leaving!Cases : Leaving!Given(k) => Leaving!Given(k)',
           \A k \in Leaving!Cases, d \in Clerks \ {c} : Holds(held[d], k) /\ Leaving!Given(k) =>
                Case(k)' = Case(k) /\ Leaving!ItemsOf(k)' = Leaving!ItemsOf(k)
    PROVE  CheckoutInv'
<1>1. \A d \in Clerks : tx'[d] # None => d # c /\ tx'[d] = tx[d] /\ held'[d] = held[d]
    BY DEF CheckoutInv, LeavingShapeOk
<1>2. \A d \in Clerks : held'[d] \subseteq held[d]
    BY DEF CheckoutInv, LeavingShapeOk
<1>3. LeavingLocksOk'
    BY <1>2 DEF CheckoutInv, LeavingLocksOk, Leaving!Clash
<1>4. ASSUME NEW d \in Clerks, tx'[d] # None
      PROVE  LeavingRequestOk(tx[d], held[d])'
    <2>1. LeavingRequestOk(tx[d], held[d]) /\ tx[d] # None /\ d # c
        BY <1>1, <1>4 DEF CheckoutInv, LeavingRequestsOk
    <2>. DEFINE t == tx[d]
                locks == held[d]
    <2>. HIDE DEF t, locks
    <2>. QED  BY <1>1, <1>4, <2>1, LeavingRequestStays DEF CheckoutInv
<1>. QED  BY <1>3, <1>4 DEF CheckoutInv, LeavingRequestsOk

\* COMMIT of a transaction that writes one case, and perhaps its items, the
\* contract and the rooms.
LEMMA CaseCommitKeeps ==
    ASSUME CheckoutInv, NEW c \in Clerks, NEW k \in Leaving!Cases, NEW case, NEW contract, NEW items,
           NEW rooms \in [Rooms -> RoomRecords],
           db' = [contract |-> contract, home |-> db.home, rooms |-> rooms, debt |-> db.debt,
                  cases |-> [db.cases EXCEPT ![k] = case], items |-> items],
           tx' = [tx EXCEPT ![c] = None], held' = [held EXCEPT ![c] = {}],
           CaseShape(case), case.status # "none",
           \A j \in Leaving!Cases \ {k} : {r \in items : r.case = j} = Leaving!ItemsOf(j),
           Leaving!Updatable(k),
           Leaving!Given(k) => \A d \in Clerks \ {c} : ~ Holds(held[d], k),
           LeavingRowsOk'
    PROVE  CheckoutInv' /\ Leaving!CasesStand
<1>1. \A j \in Leaving!Cases \ {k} : Case(j)' = Case(j) /\ Leaving!ItemsOf(j)' = Leaving!ItemsOf(j)
    BY DEF Case, CheckoutInv, LeavingShapeOk, Leaving!ItemsOf
<1>2. Case(k)' = case
    BY DEF Case, CheckoutInv, LeavingShapeOk
<1>3. LeavingShapeOk'
    BY <1>1, <1>2 DEF CheckoutInv, LeavingShapeOk, CaseShape, Case, Leaving!Given
<1>4. Leaving!CasesStand
    BY <1>1 DEF Leaving!CasesStand, Leaving!Updatable, Case
<1>5. \A j \in Leaving!Cases : Leaving!Given(j) => Leaving!Given(j)'
    BY <1>1, <1>2 DEF Leaving!Given, Case
<1>6. \A j \in Leaving!Cases, d \in Clerks \ {c} : Holds(held[d], j) /\ Leaving!Given(j) =>
            Case(j)' = Case(j) /\ Leaving!ItemsOf(j)' = Leaving!ItemsOf(j)
    BY <1>1
<1>. QED  BY <1>3, <1>4, <1>5, <1>6, LeavingWriteKeeps

\* An open case is written and stays unfinished: its properties stand, also when
\* somebody else's word on a room is written with it.
LEMMA UnfinishedKeeps ==
    ASSUME CheckoutInv, NEW c \in Clerks, NEW k \in Leaving!Cases, NEW case, NEW items,
           NEW rooms \in [Rooms -> RoomRecords],
           db' = [contract |-> db.contract, home |-> db.home, rooms |-> rooms, debt |-> db.debt,
                  cases |-> [db.cases EXCEPT ![k] = case], items |-> items],
           tx' = [tx EXCEPT ![c] = None], held' = [held EXCEPT ![c] = {}],
           CaseShape(case), case.status \notin {"none", "completed"},
           \A j \in Leaving!Cases \ {k} : {r \in items : r.case = j} = Leaving!ItemsOf(j),
           Leaving!Given(k), Leaving!Updatable(k),
           \A d \in Clerks \ {c} : ~ Holds(held[d], k),
           rooms[db.home] = db.rooms[db.home] \/ rooms[db.home].by = "others"
    PROVE  CheckoutInv' /\ Leaving!CasesStand
<1>1. /\ \A j \in Leaving!Cases \ {k} : db'.cases[j] = db.cases[j]
      /\ db'.cases[k] = case
      /\ db'.contract = db.contract /\ db'.home = db.home /\ db'.rooms = rooms /\ db'.items = items
    BY DEF CheckoutInv, LeavingShapeOk
<1>2. Leaving!OpenCases' \subseteq Leaving!OpenCases
    BY <1>1 DEF Leaving!OpenCases, Leaving!Updatable, Leaving!Given
<1>3. Leaving!OneOpenCase'
    BY <1>2 DEF CheckoutInv, LeavingRowsOk, Leaving!OneOpenCase
<1>4. Leaving!SettledAsInspected'
    <2>1. \A j \in Leaving!Cases \ {k} : Leaving!ItemsOf(j)' = Leaving!ItemsOf(j)
        BY <1>1 DEF Leaving!ItemsOf
    <2>. QED  BY <1>1, <2>1 DEF CheckoutInv, LeavingRowsOk, Leaving!SettledAsInspected
<1>5. Leaving!HandedOver'
    BY <1>1 DEF CheckoutInv, LeavingRowsOk, Leaving!HandedOver, Leaving!Updatable, Leaving!Terminal
<1>. QED  BY <1>3, <1>4, <1>5, CaseCommitKeeps DEF LeavingRowsOk

-----------------------------------------------------------------------------
(* The operations                                                          *)

LEMMA NoticeKeeps ==
    ASSUME CheckoutInv, NEW c \in Clerks, Leaving!Notice(c)
    PROVE  CheckoutInv' /\ Leaving!CasesStand
<1>. DEFINE case == Leaving!NewCase("submitted", tx[c].room)
<1>1. PICK k \in Leaving!Cases :
        /\ \A j \in Leaving!Cases : ~ Leaving!Given(j) <=> j >= k
        /\ db' = [db EXCEPT !.cases[k] = case]
    BY DEF Leaving!Notice, Leaving!Commit
<1>2. /\ Leaving!OpenCases = {}
      /\ tx' = [tx EXCEPT ![c] = None]
      /\ held' = [held EXCEPT ![c] = {}]
    BY DEF Leaving!Notice, Leaving!OneMore, Leaving!Commit
<1>3. db' = [contract |-> db.contract, home |-> db.home, rooms |-> db.rooms, debt |-> db.debt,
             cases |-> [db.cases EXCEPT ![k] = case], items |-> db.items]
    BY <1>1 DEF CheckoutInv, LeavingShapeOk
<1>4. ~ Leaving!Given(k) /\ Case(k).status = "none"
    BY <1>1 DEF Leaving!Cases, Leaving!Given, Case
<1>5. CaseShape(case) /\ case.status = "submitted"
    BY DEF CaseShape, Leaving!NewCase
<1>6. db.rooms \in [Rooms -> RoomRecords]
    BY DEF CheckoutInv, LeavingShapeOk
<1>. HIDE DEF case
<1>7. /\ \A j \in Leaving!Cases \ {k} : db'.cases[j] = db.cases[j]
      /\ db'.cases[k] = case
      /\ db'.contract = db.contract /\ db'.home = db.home /\ db'.rooms = db.rooms /\ db'.items = db.items
    BY <1>3 DEF CheckoutInv, LeavingShapeOk
<1>8. Leaving!OneOpenCase'
    BY <1>2, <1>7 DEF Leaving!OneOpenCase, Leaving!OpenCases, Leaving!Given
<1>9. Leaving!SettledAsInspected'
    BY <1>4, <1>5, <1>7 DEF CheckoutInv, LeavingRowsOk, Leaving!SettledAsInspected, Leaving!ItemsOf
<1>10. Leaving!HandedOver'
    <2>1. \A j \in Leaving!Cases : db'.cases[j].status = "completed" => db'.cases[j] = db.cases[j]
        BY <1>5, <1>7
    <2>2. \A j \in Leaving!Cases : db.cases[j].status = "completed" => db'.cases[j] = db.cases[j]
        BY <1>4, <1>7 DEF Case
    <2>. QED  BY <1>7, <2>1, <2>2 DEF CheckoutInv, LeavingRowsOk, Leaving!HandedOver
<1>11. Leaving!Updatable(k)
    BY <1>4 DEF Leaving!Updatable, Leaving!Terminal, Case
<1>. QED
    <2>1. \A j \in Leaving!Cases \ {k} : {r \in db.items : r.case = j} = Leaving!ItemsOf(j)
        BY DEF Leaving!ItemsOf
    <2>. QED  BY <1>2, <1>3, <1>4, <1>5, <1>8, <1>9, <1>10, <1>11, <1>6, <2>1, CaseCommitKeeps DEF LeavingRowsOk

LEMMA InspectKeeps ==
    ASSUME CheckoutInv, NEW c \in Clerks, Leaving!Inspect(c)
    PROVE  CheckoutInv' /\ Leaving!CasesStand
<1>. DEFINE t == tx[c]
            k == t.case
            listed == Leaving!Listed(t)
            items == (db.items \ t.old) \union listed
            case == [status |-> "inspection_completed", room |-> Case(k).room,
                     key |-> t.key, override |-> Case(k).override,
                     settlement |-> Leaving!Settlement(t.utility,
                         Leaving!NetOf(db.debt, Leaving!Damage(listed), t.utility))]
<1>1. /\ t # None /\ t.op = "inspect" /\ t.at = "inserted"
      /\ Leaving!Updatable(k)
      /\ Leaving!Free(c, {Leaving!Lock(Leaving!CaseRow(k), "write")})
      /\ tx' = [tx EXCEPT ![c] = None]
      /\ held' = [held EXCEPT ![c] = {}]
    BY DEF Leaving!Inspect, Leaving!At, Leaving!Commit
<1>2. k \in Leaving!Cases /\ Leaving!Given(k) /\ InspectionOk(t)
    BY <1>1 DEF CheckoutInv, LeavingRequestsOk, LeavingRequestOk, NoticeOk, DecisionOk, OverrideOk, ExecutionOk
<1>3. CaseShape(Case(k))
    BY <1>2 DEF CheckoutInv, LeavingShapeOk
<1>4. db' = [contract |-> db.contract, home |-> db.home, rooms |-> db.rooms, debt |-> db.debt,
             cases |-> [db.cases EXCEPT ![k] = case], items |-> items]
    <2>1. db' = [db EXCEPT !.items = items, !.cases[k] = case]
        BY DEF Leaving!Inspect, Leaving!Commit, Case
    <2>. HIDE DEF items
    <2>. HIDE DEF case
    <2>. QED  BY <1>2, <2>1 DEF CheckoutInv, LeavingShapeOk
<1>5. \A r \in listed : r.case = k
    BY DEF Leaving!Listed
<1>6. \A j \in Leaving!Cases \ {k} : {r \in items : r.case = j} = Leaving!ItemsOf(j)
    BY <1>2, <1>5 DEF InspectionOk, Leaving!ItemsOf
<1>7. \A d \in Clerks \ {c} : ~ Holds(held[d], k)
    BY <1>1, OneHolds DEF CheckoutInv
<1>. QED
    <2>. HIDE DEF items
    <2>1. CaseShape(case) /\ case.status \notin {"none", "completed"}
        BY DEF CaseShape
    <2>. HIDE DEF case
    <2>2. db.rooms \in [Rooms -> RoomRecords]
        BY DEF CheckoutInv, LeavingShapeOk
    <2>. QED  BY <1>1, <1>2, <1>4, <1>6, <1>7, <2>1, <2>2, UnfinishedKeeps

LEMMA DecideKeeps ==
    ASSUME CheckoutInv, NEW c \in Clerks, Leaving!Decide(c)
    PROVE  CheckoutInv' /\ Leaving!CasesStand
<1>. DEFINE t == tx[c]
            k == t.case
            case == [status |-> t.status, room |-> Case(k).room, key |-> Case(k).key, override |-> Case(k).override,
                     settlement |-> Case(k).settlement]
<1>1. /\ t # None /\ t.op = "decide"
      /\ Leaving!Updatable(k)
      /\ Leaving!Free(c, {Leaving!Lock(Leaving!CaseRow(k), "write")})
      /\ db' = [db EXCEPT !.cases[k].status = t.status]
      /\ tx' = [tx EXCEPT ![c] = None]
      /\ held' = [held EXCEPT ![c] = {}]
    BY DEF Leaving!Decide, Leaving!At, Leaving!Commit
<1>2. k \in Leaving!Cases /\ Leaving!Given(k) /\ DecisionOk(t)
    BY <1>1 DEF CheckoutInv, LeavingRequestsOk, LeavingRequestOk, NoticeOk, InspectionOk, OverrideOk, ExecutionOk
<1>3. [Case(k) EXCEPT !.status = t.status] = case
    BY <1>2 DEF CheckoutInv, LeavingShapeOk, CaseShape
<1>4. db' = [contract |-> db.contract, home |-> db.home, rooms |-> db.rooms, debt |-> db.debt,
             cases |-> [db.cases EXCEPT ![k] = case], items |-> db.items]
    <2>. HIDE DEF case
    <2>1. db' = [db EXCEPT !.cases[k] = case]
        BY <1>1, <1>3 DEF Case
    <2>. QED  BY <1>2, <2>1 DEF CheckoutInv, LeavingShapeOk
<1>5. \A j \in Leaving!Cases \ {k} : {r \in db.items : r.case = j} = Leaving!ItemsOf(j)
    BY DEF Leaving!ItemsOf
<1>6. \A d \in Clerks \ {c} : ~ Holds(held[d], k)
    BY <1>1, OneHolds DEF CheckoutInv
<1>7. CaseShape(case) /\ case.status \notin {"none", "completed"}
    BY <1>2 DEF CaseShape, DecisionOk
<1>8. db.rooms \in [Rooms -> RoomRecords]
    BY DEF CheckoutInv, LeavingShapeOk
<1>. HIDE DEF case
<1>. QED  BY <1>1, <1>2, <1>4, <1>5, <1>6, <1>7, <1>8, UnfinishedKeeps

LEMMA OverrideKeeps ==
    ASSUME CheckoutInv, NEW c \in Clerks, Leaving!OverrideRoom(c)
    PROVE  CheckoutInv' /\ Leaving!CasesStand
<1>. DEFINE t == tx[c]
            k == t.case
            yes == TRUE
            case == [status |-> Case(k).status, room |-> Case(k).room, key |-> Case(k).key,
                     override |-> yes, settlement |-> Case(k).settlement]
            rooms == [db.rooms EXCEPT ![Case(k).room] = Leaving!RoomRow(t.status, "others")]
<1>1. /\ t # None /\ t.op = "override"
      /\ db' = [db EXCEPT !.cases[k].override = yes, !.rooms = rooms]
      /\ tx' = [tx EXCEPT ![c] = None]
      /\ held' = [held EXCEPT ![c] = {}]
    BY DEF Leaving!OverrideRoom, Leaving!At, Leaving!Commit, Case
<1>2. k \in Leaving!Cases /\ Leaving!Given(k) /\ OverrideOk(t, held[c])
    BY <1>1 DEF CheckoutInv, LeavingRequestsOk, LeavingRequestOk, NoticeOk, InspectionOk, DecisionOk, ExecutionOk
<1>3. [Case(k) EXCEPT !.override = yes] = case
    <2>. HIDE DEF yes
    <2>. QED  BY <1>2 DEF CheckoutInv, LeavingShapeOk, CaseShape
<1>4. db' = [contract |-> db.contract, home |-> db.home, rooms |-> rooms, debt |-> db.debt,
             cases |-> [db.cases EXCEPT ![k] = case], items |-> db.items]
    <2>. HIDE DEF case, rooms
    <2>1. db' = [db EXCEPT !.cases[k] = case, !.rooms = rooms]
        BY <1>1, <1>3 DEF Case
    <2>. QED  BY <1>2, <2>1 DEF CheckoutInv, LeavingShapeOk
<1>5. \A j \in Leaving!Cases \ {k} : {r \in db.items : r.case = j} = Leaving!ItemsOf(j)
    BY DEF Leaving!ItemsOf
<1>6. \A d \in Clerks \ {c} : ~ Holds(held[d], k)
    BY <1>2, OneHolds DEF CheckoutInv, OverrideOk
<1>7. CaseShape(case) /\ case.status \notin {"none", "completed"}
    BY <1>2 DEF CaseShape, OverrideOk, Leaving!Given, Leaving!Updatable, Leaving!Terminal, Case
<1>8. Leaving!Updatable(k)
    BY <1>2 DEF OverrideOk
<1>9. k \in Leaving!Cases /\ Leaving!Given(k) /\ tx' = [tx EXCEPT ![c] = None] /\ held' = [held EXCEPT ![c] = {}]
    BY <1>1, <1>2
<1>10. /\ rooms \in [Rooms -> RoomRecords]
       /\ rooms[db.home] = db.rooms[db.home] \/ rooms[db.home].by = "others"
    <2>1. /\ Leaving!RoomRow(t.status, "others") \in RoomRecords
          /\ Leaving!RoomRow(t.status, "others").by = "others"
        BY <1>2 DEF OverrideOk, RoomRecords, Leaving!RoomRow
    <2>. QED  BY <2>1 DEF CheckoutInv, LeavingShapeOk
<1>. HIDE DEF case, rooms, k, t
<1>. QED  BY <1>4, <1>5, <1>6, <1>7, <1>8, <1>9, <1>10, UnfinishedKeeps

LEMMA ExecuteKeeps ==
    ASSUME CheckoutInv, NEW c \in Clerks, Leaving!Execute(c)
    PROVE  CheckoutInv' /\ Leaving!CasesStand
<1>. DEFINE t == tx[c]
            k == t.case
            home == Case(k).room
            case == [status |-> "completed", room |-> home, key |-> Case(k).key,
                     override |-> t.override, settlement |-> t.settlement]
<1>1. /\ t # None /\ t.op = "execute" /\ t.at = "settled"
      /\ Leaving!Updatable(k)
      /\ tx' = [tx EXCEPT ![c] = None]
      /\ held' = [held EXCEPT ![c] = {}]
    BY DEF Leaving!Execute, Leaving!At, Leaving!Commit
<1>2. PICK s \in Leaving!StatusesAfter, r \in Leaving!RoomsAfter(t) :
        db' = [db EXCEPT !.cases[k] = case, !.contract = s,
                         !.rooms[home] = Leaving!RoomRow(r, "tenancy")]
    BY DEF Leaving!Execute, Leaving!Commit, Case
<1>3. k \in Leaving!Cases /\ Leaving!Given(k) /\ ExecutionOk(t, held[c])
    BY <1>1 DEF CheckoutInv, LeavingRequestsOk, LeavingRequestOk, NoticeOk, InspectionOk, DecisionOk, OverrideOk
<1>. DEFINE row == Leaving!RoomRow(r, "tenancy")
            rooms == [db.rooms EXCEPT ![home] = row]
<1>4. db' = [contract |-> s, home |-> db.home, rooms |-> rooms, debt |-> db.debt,
             cases |-> [db.cases EXCEPT ![k] = case], items |-> db.items]
    <2>. HIDE DEF case, row, home
    <2>1. db' = [db EXCEPT !.cases[k] = case, !.contract = s, !.rooms[home] = row]
        BY <1>2 DEF row
    <2>. HIDE DEF k
    <2>. QED  BY <2>1 DEF CheckoutInv, LeavingShapeOk
<1>5. \A j \in Leaving!Cases \ {k} : {i \in db.items : i.case = j} = Leaving!ItemsOf(j)
    BY DEF Leaving!ItemsOf
<1>6. \A d \in Clerks \ {c} : ~ Holds(held[d], k)
    BY <1>3, OneHolds DEF CheckoutInv, ExecutionOk
<1>7. /\ CaseShape(case) /\ case.status = "completed" /\ case.room = home
      /\ case.settlement = t.settlement /\ case.key = Case(k).key /\ case.override = t.override
    BY DEF CaseShape
<1>. HIDE DEF case
<1>8. /\ \A j \in Leaving!Cases \ {k} : db'.cases[j] = db.cases[j]
      /\ db'.cases[k] = case
      /\ db'.contract = s /\ db'.home = db.home /\ db'.rooms = rooms /\ db'.items = db.items
    BY <1>3, <1>4 DEF CheckoutInv, LeavingShapeOk
<1>9. Leaving!OneOpenCase'
    <2>1. Leaving!OpenCases' \subseteq Leaving!OpenCases
        BY <1>7, <1>8 DEF Leaving!OpenCases, Leaving!Terminal, Leaving!Given
    <2>. QED  BY <2>1 DEF CheckoutInv, LeavingRowsOk, Leaving!OneOpenCase
<1>10. Leaving!SettledAsInspected'
    <2>1. \A j \in Leaving!Cases : Leaving!ItemsOf(j)' = Leaving!ItemsOf(j)
        BY <1>8 DEF Leaving!ItemsOf
    <2>2. Computed(case.settlement, k)
        BY <1>1, <1>3, <1>7 DEF ExecutionOk
    <2>. QED  BY <1>3, <1>7, <1>8, <2>1, <2>2
              DEF CheckoutInv, LeavingRowsOk, Leaving!SettledAsInspected, Computed, ExecutionOk
<1>11. row \in RoomRecords /\ row.status # "occupied"
    BY DEF RoomRecords, Leaving!RoomRow, Leaving!RoomsAfter, Leaving!RoomStatuses
<1>12. /\ rooms \in [Rooms -> RoomRecords]
       /\ home = db.home => rooms[db.home].status # "occupied"
    BY <1>11 DEF CheckoutInv, LeavingShapeOk
<1>. HIDE DEF rooms
<1>13. Leaving!HandedOver'
    BY <1>3, <1>7, <1>8, <1>12 DEF Leaving!HandedOver, Leaving!StatusesAfter, Leaving!Living
<1>. QED  BY <1>1, <1>3, <1>4, <1>5, <1>6, <1>7, <1>9, <1>10, <1>12, <1>13, CaseCommitKeeps DEF LeavingRowsOk

\* The contract, a room or the debt changes beside the checkout.
LEMMA BesideKeeps ==
    ASSUME CheckoutInv, NEW c \in Clerks, NEW contract, NEW debt \in Debts,
           NEW home \in Rooms, NEW rooms \in [Rooms -> RoomRecords],
           db' = [contract |-> contract, home |-> home, rooms |-> rooms, debt |-> debt,
                  cases |-> db.cases, items |-> db.items],
           tx[c] = None, tx' = tx, held' = held,
           contract \in Leaving!Living => db.contract \in Leaving!Living,
           \/ contract = db.contract /\ home = db.home /\ rooms[home] = db.rooms[home]
           \/ rooms[home].by = "others"
           \/ contract = "active" <=> rooms[home].status = "occupied"
    PROVE  CheckoutInv' /\ Leaving!CasesStand
<1>1. /\ db'.cases = db.cases /\ db'.items = db.items
      /\ db'.contract = contract /\ db'.home = home /\ db'.rooms = rooms /\ db'.debt = debt
    OBVIOUS
<1>2. LeavingShapeOk'
    BY <1>1 DEF CheckoutInv, LeavingShapeOk, CaseShape, Case, Leaving!Given
<1>3. Leaving!OpenCases' = Leaving!OpenCases
    BY <1>1 DEF Leaving!OpenCases, Leaving!Given
<1>4. \A k : Leaving!ItemsOf(k)' = Leaving!ItemsOf(k)
    BY <1>1 DEF Leaving!ItemsOf
<1>5. Leaving!SettledAsInspected'
    BY <1>1, <1>4 DEF CheckoutInv, LeavingRowsOk, Leaving!SettledAsInspected
<1>6. Leaving!HandedOver'
    BY <1>1 DEF CheckoutInv, LeavingRowsOk, Leaving!HandedOver
<1>7. LeavingRowsOk'
    BY <1>3, <1>5, <1>6 DEF CheckoutInv, LeavingRowsOk, Leaving!OneOpenCase
<1>8. Leaving!CasesStand
    BY <1>1 DEF Leaving!CasesStand
<1>9. \A k : Case(k)' = Case(k) /\ (Leaving!Given(k) => Leaving!Given(k)')
    BY <1>1 DEF Case, Leaving!Given
<1>. QED  BY <1>2, <1>4, <1>7, <1>8, <1>9, LeavingWriteKeeps

\* The rooms after the tenant has left one of them.
LEMMA RoomsAfterLeaving ==
    ASSUME LeavingShapeOk, NEW h \in Rooms, NEW left \in Leaving!RoomsLeft(h)
    PROVE  /\ left \in [Rooms -> RoomRecords]
           /\ left[h].by = "others" \/ left[h].status # "occupied"
<1>1. db.rooms \in [Rooms -> RoomRecords]
    BY DEF LeavingShapeOk
<1>2. CASE left = Leaving!Vacated(h)
    <2>1. /\ Leaving!RoomRow("available", "tenancy") \in RoomRecords
          /\ Leaving!RoomRow("available", "tenancy").status # "occupied"
        BY DEF RoomRecords, Leaving!RoomRow, Leaving!RoomStatuses
    <2>. QED  BY <1>1, <1>2, <2>1 DEF Leaving!Vacated
<1>3. CASE left = [db.rooms EXCEPT ![h].by = "others"]
    BY <1>1, <1>3 DEF RoomRecords
<1>. QED  BY <1>2, <1>3 DEF Leaving!RoomsLeft

LEMMA OtherKeeps ==
    ASSUME CheckoutInv, NEW c \in Clerks,
           \/ Leaving!ActivateContract(c) \/ Leaving!MoveContract(c)
           \/ Leaving!EndTenantContracts(c) \/ Leaving!WriteRoom(c) \/ Leaving!Bill(c)
    PROVE  CheckoutInv' /\ Leaving!CasesStand
<1>. DEFINE mine == Leaving!RoomRow("occupied", "tenancy")
<1>1. /\ tx[c] = None /\ tx' = tx /\ held' = held
      /\ db.debt \in Debts /\ db.home \in Rooms /\ db.rooms \in [Rooms -> RoomRecords]
      /\ db = [contract |-> db.contract, home |-> db.home, rooms |-> db.rooms, debt |-> db.debt,
               cases |-> db.cases, items |-> db.items]
    BY DEF Leaving!ActivateContract, Leaving!MoveContract, Leaving!EndTenantContracts, Leaving!WriteRoom,
           Leaving!Bill, Leaving!Autocommit, CheckoutInv, LeavingShapeOk
<1>2. mine \in RoomRecords /\ mine.status = "occupied"
    BY DEF RoomRecords, Leaving!RoomRow, Leaving!RoomStatuses
<1>. HIDE DEF mine
<1>3. CASE Leaving!ActivateContract(c)
    <2>. DEFINE rooms == [db.rooms EXCEPT ![db.home] = mine]
    <2>1. /\ db' = [db EXCEPT !.contract = "active", !.rooms = rooms]
          /\ db.contract = "scheduled"
        BY <1>3 DEF Leaving!ActivateContract, Leaving!Autocommit, mine
    <2>2. rooms \in [Rooms -> RoomRecords] /\ rooms[db.home].status = "occupied"
        BY <1>1, <1>2
    <2>. HIDE DEF rooms
    <2>3. db' = [contract |-> "active", home |-> db.home, rooms |-> rooms, debt |-> db.debt,
                 cases |-> db.cases, items |-> db.items]
        BY <1>1, <2>1
    <2>4. db.contract \in Leaving!Living
        BY <2>1 DEF Leaving!Living
    <2>. QED  BY <1>1, <2>2, <2>3, <2>4, BesideKeeps
<1>4. CASE Leaving!MoveContract(c)
    <2>1. PICK r \in Rooms \ {db.home}, left \in Leaving!RoomsLeft(db.home) :
            db' = [db EXCEPT !.home = r, !.rooms = [left EXCEPT ![r] = mine]]
        BY <1>4 DEF Leaving!MoveContract, Leaving!Autocommit, mine
    <2>. DEFINE rooms == [left EXCEPT ![r] = mine]
    <2>2. left \in [Rooms -> RoomRecords]
        BY <1>1, RoomsAfterLeaving DEF CheckoutInv
    <2>3. rooms \in [Rooms -> RoomRecords] /\ rooms[r].status = "occupied"
        BY <1>2, <2>2
    <2>. HIDE DEF rooms
    <2>4. db' = [contract |-> db.contract, home |-> r, rooms |-> rooms, debt |-> db.debt,
                 cases |-> db.cases, items |-> db.items]
        BY <1>1, <2>1 DEF rooms
    <2>5. db.contract = "active"
        BY <1>4 DEF Leaving!MoveContract
    <2>. QED  BY <1>1, <2>3, <2>4, <2>5, BesideKeeps
<1>5. CASE Leaving!EndTenantContracts(c)
    <2>1. PICK s \in {"ended", "terminated"}, left \in Leaving!RoomsLeft(db.home) :
            db' = [db EXCEPT !.contract = s, !.rooms = left]
        BY <1>5 DEF Leaving!EndTenantContracts, Leaving!Autocommit
    <2>2. /\ left \in [Rooms -> RoomRecords]
          /\ left[db.home].by = "others" \/ left[db.home].status # "occupied"
        BY <1>1, RoomsAfterLeaving DEF CheckoutInv
    <2>3. db' = [contract |-> s, home |-> db.home, rooms |-> left, debt |-> db.debt,
                 cases |-> db.cases, items |-> db.items]
        BY <1>1, <2>1
    <2>4. s # "active" /\ s \notin Leaving!Living
        BY DEF Leaving!Living
    <2>. QED  BY <1>1, <2>2, <2>3, <2>4, BesideKeeps
<1>6. CASE Leaving!WriteRoom(c)
    <2>1. PICK r \in Rooms, s \in Leaving!RoomStatuses :
            db' = [db EXCEPT !.rooms = [db.rooms EXCEPT ![r] = Leaving!RoomRow(s, "others")]]
        BY <1>6 DEF Leaving!WriteRoom, Leaving!Autocommit
    <2>. DEFINE rooms == [db.rooms EXCEPT ![r] = Leaving!RoomRow(s, "others")]
    <2>2. Leaving!RoomRow(s, "others") \in RoomRecords /\ Leaving!RoomRow(s, "others").by = "others"
        BY DEF RoomRecords, Leaving!RoomRow
    <2>3. /\ rooms \in [Rooms -> RoomRecords]
          /\ rooms[db.home] = db.rooms[db.home] \/ rooms[db.home].by = "others"
        BY <1>1, <2>2
    <2>. HIDE DEF rooms
    <2>4. db' = [contract |-> db.contract, home |-> db.home, rooms |-> rooms, debt |-> db.debt,
                 cases |-> db.cases, items |-> db.items]
        BY <1>1, <2>1 DEF rooms
    <2>. QED  BY <1>1, <2>3, <2>4, BesideKeeps
<1>7. CASE Leaving!Bill(c)
    <2>1. PICK d \in Debts : db' = [db EXCEPT !.debt = d]
        BY <1>7 DEF Leaving!Bill, Leaving!Autocommit
    <2>2. db' = [contract |-> db.contract, home |-> db.home, rooms |-> db.rooms, debt |-> d,
                 cases |-> db.cases, items |-> db.items]
        BY <1>1, <2>1
    <2>. QED  BY <1>1, <2>2, BesideKeeps
<1>. QED  BY <1>3, <1>4, <1>5, <1>6, <1>7

-----------------------------------------------------------------------------
(* The statements before                                                   *)

LEMMA NoticeBegins ==
    ASSUME CheckoutInv, NEW c \in Clerks, Leaving!AskForNotice(c) \/ Leaving!LookForCase(c)
    PROVE  CheckoutInv'
<1>1. CASE Leaving!AskForNotice(c)
    <2>. DEFINE s == [op |-> "notice", at |-> "living", room |-> db.home]
    <2>1. Leaving!Begin(c, s, {})
        BY <1>1 DEF Leaving!AskForNotice
    <2>2. LeavingRequestOk(s, {})
        BY DEF LeavingRequestOk, NoticeOk
    <2>. HIDE DEF s
    <2>. QED  BY <2>1, <2>2, LeavingBeginKeeps
<1>2. CASE Leaving!LookForCase(c)
    <2>. DEFINE s == [tx[c] EXCEPT !.at = "first"]
    <2>1. tx[c] # None /\ tx[c].op = "notice" /\ Leaving!Statement(c, s, {})
        BY <1>2 DEF Leaving!LookForCase, Leaving!At
    <2>2. NoticeOk(tx[c])
        BY <2>1 DEF CheckoutInv, LeavingRequestsOk, LeavingRequestOk, InspectionOk, DecisionOk, OverrideOk, ExecutionOk
    <2>3. NoticeOk(s)
        BY <2>2 DEF NoticeOk
    <2>. HIDE DEF s
    <2>. QED  BY <2>1, <2>3, LeavingNextStatementKeeps DEF LeavingRequestOk
<1>. QED  BY <1>1, <1>2

LEMMA InspectionBegins ==
    ASSUME CheckoutInv, NEW c \in Clerks, Leaving!AskToInspect(c)
    PROVE  CheckoutInv'
<1>1. PICK k \in Leaving!OpenCases, cost \in Costs \union {None}, u \in Costs, key \in BOOLEAN :
        Leaving!ReadCase(c, [op |-> "inspect", at |-> "read", case |-> k, cost |-> cost, utility |-> u,
                             key |-> key, old |-> {}, name |-> served])
    BY DEF Leaving!AskToInspect
<1>. DEFINE s == [op |-> "inspect", at |-> "read", case |-> k, cost |-> cost, utility |-> u,
                  key |-> key, old |-> {}, name |-> served]
<1>2. Leaving!Begin(c, s, {})
    BY <1>1 DEF Leaving!ReadCase
<1>3. LeavingRequestOk(s, {})
    BY DEF LeavingRequestOk, InspectionOk, Leaving!OpenCases
<1>. HIDE DEF s
<1>. QED  BY <1>2, <1>3, LeavingBeginKeeps

LEMMA InspectionGoesOn ==
    ASSUME CheckoutInv, NEW c \in Clerks,
           Leaving!FindItems(c) \/ Leaving!DeleteItems(c) \/ Leaving!InsertItems(c)
    PROVE  CheckoutInv'
<1>. DEFINE t == tx[c]
<1>1. t # None /\ t.op = "inspect"
    BY DEF Leaving!FindItems, Leaving!DeleteItems, Leaving!InsertItems, Leaving!At
<1>2. t.case \in Leaving!Cases /\ Leaving!Given(t.case) /\ InspectionOk(t)
    BY <1>1 DEF CheckoutInv, LeavingRequestsOk, LeavingRequestOk, NoticeOk, DecisionOk, OverrideOk, ExecutionOk
<1>3. ASSUME NEW at, NEW locks, Leaving!Statement(c, [t EXCEPT !.at = at], locks)
      PROVE  CheckoutInv'
    <2>. DEFINE s == [t EXCEPT !.at = at]
    <2>1. s.case = t.case /\ InspectionOk(s)
        BY <1>2 DEF InspectionOk
    <2>. HIDE DEF s
    <2>. QED  BY <1>2, <1>3, <2>1, LeavingNextStatementKeeps DEF LeavingRequestOk, s
<1>4. CASE Leaving!FindItems(c)
    <2>. DEFINE f == [t EXCEPT !.at = "found"]
                s == [f EXCEPT !.old = Leaving!ItemsOf(t.case)]
    <2>1. [t EXCEPT !.at = "found", !.old = Leaving!ItemsOf(t.case)] = s
        BY <1>2 DEF InspectionOk
    <2>2. Leaving!Statement(c, s, {})
        BY <1>4, <2>1 DEF Leaving!FindItems
    <2>3. \A r \in Leaving!ItemsOf(t.case) : r.case = t.case
        BY DEF Leaving!ItemsOf
    <2>4. f.case = t.case /\ InspectionOk(f)
        BY <1>2 DEF InspectionOk
    <2>. HIDE DEF f
    <2>5. s.case = t.case /\ InspectionOk(s)
        BY <2>3, <2>4 DEF InspectionOk
    <2>. HIDE DEF s
    <2>. QED  BY <1>2, <2>2, <2>5, LeavingNextStatementKeeps DEF LeavingRequestOk
<1>. QED  BY <1>3, <1>4 DEF Leaving!DeleteItems, Leaving!InsertItems

LEMMA DecisionBegins ==
    ASSUME CheckoutInv, NEW c \in Clerks, Leaving!AskToApproveOrCancel(c)
    PROVE  CheckoutInv'
<1>1. PICK k \in Leaving!OpenCases, s \in {"approved", "cancelled"} :
        Leaving!ReadCase(c, [op |-> "decide", at |-> "read", case |-> k, status |-> s])
    BY DEF Leaving!AskToApproveOrCancel
<1>. DEFINE t == [op |-> "decide", at |-> "read", case |-> k, status |-> s]
<1>2. Leaving!Begin(c, t, {})
    BY <1>1 DEF Leaving!ReadCase
<1>3. LeavingRequestOk(t, {})
    BY DEF LeavingRequestOk, DecisionOk, Leaving!OpenCases
<1>. HIDE DEF t
<1>. QED  BY <1>2, <1>3, LeavingBeginKeeps

LEMMA OverrideBegins ==
    ASSUME CheckoutInv, NEW c \in Clerks, Leaving!OverrideCase(c)
    PROVE  CheckoutInv'
<1>1. PICK k \in Leaving!OpenCases, r \in {"available", "cleaning"} :
        Leaving!Begin(c, [op |-> "override", at |-> "marked", case |-> k, status |-> r],
                      {Leaving!Lock(Leaving!CaseRow(k), "write")})
    BY DEF Leaving!OverrideCase
<1>. DEFINE t == [op |-> "override", at |-> "marked", case |-> k, status |-> r]
<1>2. LeavingRequestOk(t, {Leaving!Lock(Leaving!CaseRow(k), "write")})
    BY DEF LeavingRequestOk, OverrideOk, Holds, Leaving!OpenCases, Leaving!Updatable, Leaving!RoomStatuses
<1>. HIDE DEF t
<1>. QED  BY <1>1, <1>2, LeavingBeginKeeps DEF t

LEMMA ExecutionBegins ==
    ASSUME CheckoutInv, NEW c \in Clerks, Leaving!AskToExecute(c)
    PROVE  CheckoutInv'
<1>1. PICK k \in Leaving!Cases, override \in BOOLEAN :
        /\ Leaving!Given(k)
        /\ Case(k).key \/ override
        /\ Leaving!Begin(c, [op |-> "execute", at |-> "locked", case |-> k, override |-> override,
                             settlement |-> None], Leaving!ExecutionLocks(k))
    BY DEF Leaving!AskToExecute, Case
<1>. DEFINE t == [op |-> "execute", at |-> "locked", case |-> k, override |-> override,
                  settlement |-> None]
<1>2. Holds(Leaving!ExecutionLocks(k), k)
    BY DEF Holds, Leaving!ExecutionLocks
<1>3. LeavingRequestOk(t, Leaving!ExecutionLocks(k))
    BY <1>1, <1>2 DEF LeavingRequestOk, ExecutionOk
<1>. HIDE DEF t
<1>. QED  BY <1>1, <1>3, LeavingBeginKeeps DEF t

LEMMA SettleKeeps ==
    ASSUME CheckoutInv, NEW c \in Clerks, Leaving!Settle(c)
    PROVE  CheckoutInv'
<1>. DEFINE t == tx[c]
            k == t.case
            u == Case(k).settlement.utility
            n == Leaving!NetOf(db.debt, Leaving!Damage(Leaving!ItemsOf(k)), u)
            m == [utility |-> u, net |-> n, refund |-> n]
            f == [t EXCEPT !.at = "settled"]
            s == [f EXCEPT !.settlement = m]
<1>1. t # None /\ t.op = "execute"
    BY DEF Leaving!Settle, Leaving!At
<1>2. k \in Leaving!Cases /\ Leaving!Given(k) /\ ExecutionOk(t, held[c])
    BY <1>1 DEF CheckoutInv, LeavingRequestsOk, LeavingRequestOk, NoticeOk, InspectionOk, DecisionOk, OverrideOk
<1>3. Leaving!Executed(u, n) = m
    <2>. HIDE DEF u, n
    <2>. QED  BY DEF Leaving!Executed, Leaving!Settlement
<1>4. Leaving!Statement(c, s, {})
    <2>1. Leaving!Statement(c, [t EXCEPT !.at = "settled", !.settlement = m], {})
        BY <1>3 DEF Leaving!Settle, Case
    <2>2. [t EXCEPT !.at = "settled", !.settlement = m] = s
        <3>. HIDE DEF m
        <3>. QED  BY <1>2 DEF ExecutionOk
    <2>. QED  BY <2>1, <2>2
<1>5. Computed(m, k)
    BY DEF Computed, CheckoutInv, LeavingShapeOk
<1>6. s.case = k /\ ExecutionOk(s, held[c])
    <2>. HIDE DEF m
    <2>1. /\ f.case = k /\ f.op = "execute" /\ f.at = "settled" /\ f.override = t.override
          /\ f = [op |-> "execute", at |-> "settled", case |-> k, override |-> t.override,
                  settlement |-> t.settlement]
        BY <1>2 DEF ExecutionOk
    <2>. HIDE DEF f
    <2>2. s = [op |-> "execute", at |-> "settled", case |-> k, override |-> t.override, settlement |-> m]
        BY <2>1
    <2>. HIDE DEF s
    <2>. QED  BY <1>2, <1>5, <2>2 DEF ExecutionOk
<1>. HIDE DEF s
<1>7. LeavingRequestOk(s, held[c] \union {})
    BY <1>2, <1>6 DEF LeavingRequestOk
<1>. QED  BY <1>4, <1>7, LeavingNextStatementKeeps

\* A statement that changes no row changes no finished case.
LEMMA QuietStands ==
    ASSUME NEW c \in Clerks,
           \/ Leaving!AskForNotice(c) \/ Leaving!LookForCase(c)
           \/ Leaving!AskToInspect(c)
           \/ Leaving!FindItems(c) \/ Leaving!DeleteItems(c) \/ Leaving!InsertItems(c)
           \/ Leaving!AskToApproveOrCancel(c) \/ Leaving!OverrideCase(c)
           \/ Leaving!AskToExecute(c) \/ Leaving!Settle(c) \/ Leaving!Rollback(c)
    PROVE  Leaving!CasesStand
<1>1. db' = db
    BY DEF Leaving!AskForNotice, Leaving!LookForCase, Leaving!AskToInspect, Leaving!FindItems,
           Leaving!DeleteItems, Leaving!InsertItems, Leaving!AskToApproveOrCancel, Leaving!OverrideCase,
           Leaving!AskToExecute, Leaving!Settle, Leaving!Rollback, Leaving!ReadCase,
           Leaving!Begin, Leaving!Statement
<1>. QED  BY <1>1 DEF Leaving!CasesStand

LEMMA LeavingRollbackKeeps ==
    ASSUME CheckoutInv, NEW c \in Clerks, Leaving!Rollback(c)
    PROVE  CheckoutInv'
<1>1. Leaving!Free(c, {}) /\ held' = [held EXCEPT ![c] = {}]
    BY DEF Leaving!Rollback, Leaving!Free
<1>2. LeavingLocksOk'
    BY <1>1, LeavingLocksKept DEF CheckoutInv
<1>. QED  BY <1>1, <1>2, LeavingStatementKeeps DEF Leaving!Rollback

-----------------------------------------------------------------------------
(* The start and the steps                                                 *)

LEMMA LeavingInitHolds == Init => LeavingDeskInv
<1>. SUFFICES ASSUME Init, desk = "checkout" PROVE CheckoutInv
    BY DEF LeavingDeskInv
<1>1. Leaving!Init
    BY DEF Init
<1>. DEFINE none == Leaving!NewCase("none", None)
            rooms(s, h) == [r \in Rooms |-> IF s = "active" /\ r = h
                                           THEN Leaving!RoomRow("occupied", "tenancy")
                                           ELSE Leaving!RoomRow("available", "others")]
<1>3. PICK s \in Leaving!Living, h \in Rooms, d \in Debts :
        db = [contract |-> s, home |-> h, rooms |-> rooms(s, h), debt |-> d,
              cases |-> [k \in Leaving!Cases |-> none], items |-> {}]
    BY <1>1 DEF Leaving!Init
<1>4. tx = [c \in Clerks |-> None] /\ held = [c \in Clerks |-> {}]
    BY <1>1 DEF Leaving!Init, Leaving!NobodyServed
<1>5. CaseShape(none) /\ none.status = "none"
    BY DEF CaseShape, Leaving!NewCase
<1>2. /\ rooms(s, h) \in [Rooms -> RoomRecords]
      /\ rooms(s, h)[h].by = "others" \/ (s = "active" /\ rooms(s, h)[h].status = "occupied")
    <2>1. /\ Leaving!RoomRow("occupied", "tenancy") \in RoomRecords
          /\ Leaving!RoomRow("occupied", "tenancy").status = "occupied"
          /\ Leaving!RoomRow("available", "others") \in RoomRecords
          /\ Leaving!RoomRow("available", "others").by = "others"
        BY DEF RoomRecords, Leaving!RoomRow, Leaving!RoomStatuses
    <2>. QED  BY <2>1
<1>. HIDE DEF none, rooms
<1>6. \A k \in Leaving!Cases : Case(k) = none /\ ~ Leaving!Given(k)
    BY <1>3, <1>5 DEF Case, Leaving!Given
<1>7. LeavingShapeOk
    BY <1>2, <1>3, <1>4, <1>5, <1>6 DEF LeavingShapeOk
<1>8. LeavingLocksOk /\ LeavingRequestsOk
    BY <1>4 DEF LeavingLocksOk, LeavingRequestsOk
<1>9. LeavingRowsOk
    <2>1. Leaving!OneOpenCase
        BY <1>6 DEF Leaving!OneOpenCase, Leaving!OpenCases
    <2>2. Leaving!SettledAsInspected
        BY <1>5, <1>6 DEF Leaving!SettledAsInspected, Case
    <2>3. Leaving!HandedOver
        BY <1>2, <1>3, <1>5, <1>6 DEF Leaving!HandedOver, Case
    <2>. QED  BY <2>1, <2>2, <2>3 DEF LeavingRowsOk
<1>. QED  BY <1>7, <1>8, <1>9 DEF CheckoutInv

LEMMA LeavingStepKeeps == LeavingDeskInv /\ [Next]_vars => LeavingDeskInv' /\ [desk = "checkout" => Leaving!CasesStand]_vars
<1>. SUFFICES ASSUME LeavingDeskInv, [Next]_vars
              PROVE  LeavingDeskInv' /\ [desk = "checkout" => Leaving!CasesStand]_vars
    OBVIOUS
<1>1. CASE UNCHANGED vars
    <2>1. ASSUME CheckoutInv PROVE CheckoutInv'
        <3>1. LeavingShapeOk'
            BY <1>1, <2>1 DEF vars, CheckoutInv, LeavingShapeOk, Case, CaseShape, Leaving!Given
        <3>2. LeavingLocksOk'
            BY <1>1, <2>1 DEF vars, CheckoutInv, LeavingLocksOk
        <3>3. LeavingRequestsOk'
            BY <1>1, <2>1 DEF vars, CheckoutInv, LeavingRequestsOk, LeavingRequestOk, NoticeOk, InspectionOk, DecisionOk,
                OverrideOk, ExecutionOk, Holds, Computed, Case, Leaving!Given, Leaving!Updatable, Leaving!ItemsOf
        <3>4. LeavingRowsOk'
            BY <1>1, <2>1 DEF vars, CheckoutInv, LeavingRowsOk, Leaving!OneOpenCase, Leaving!OpenCases, Leaving!Given,
                Leaving!SettledAsInspected, Leaving!ItemsOf, Leaving!HandedOver
        <3>. QED  BY <3>1, <3>2, <3>3, <3>4 DEF CheckoutInv
    <2>. QED  BY <1>1, <2>1 DEF vars, LeavingDeskInv
<1>2. CASE Next /\ desk # "checkout"
    BY <1>2 DEF Next, AtDesk, LeavingDeskInv
<1>3. CASE Next /\ desk = "checkout"
    <2>. SUFFICES CheckoutInv' /\ Leaving!CasesStand
        BY DEF LeavingDeskInv
    <2>1. CheckoutInv /\ Leaving!Next
        BY <1>3 DEF Next, AtDesk, LeavingDeskInv
    <2>2. PICK c \in Clerks :
            \/ Leaving!AskForNotice(c) \/ Leaving!LookForCase(c) \/ Leaving!Notice(c)
            \/ Leaving!AskToInspect(c) \/ Leaving!FindItems(c) \/ Leaving!DeleteItems(c)
            \/ Leaving!InsertItems(c) \/ Leaving!Inspect(c)
            \/ Leaving!AskToApproveOrCancel(c) \/ Leaving!Decide(c)
            \/ Leaving!OverrideCase(c) \/ Leaving!OverrideRoom(c)
            \/ Leaving!AskToExecute(c) \/ Leaving!Settle(c) \/ Leaving!Execute(c)
            \/ Leaving!ActivateContract(c) \/ Leaving!MoveContract(c) \/ Leaving!EndTenantContracts(c)
            \/ Leaving!WriteRoom(c) \/ Leaving!Bill(c)
            \/ Leaving!Rollback(c)
        BY <2>1 DEF Leaving!Next
    <2>3. CASE Leaving!AskForNotice(c) \/ Leaving!LookForCase(c)
        BY <2>1, <2>3, NoticeBegins, QuietStands
    <2>4. CASE Leaving!Notice(c)
        BY <2>1, <2>4, NoticeKeeps
    <2>5. CASE Leaving!AskToInspect(c)
        BY <2>1, <2>5, InspectionBegins, QuietStands
    <2>6. CASE Leaving!FindItems(c) \/ Leaving!DeleteItems(c) \/ Leaving!InsertItems(c)
        BY <2>1, <2>6, InspectionGoesOn, QuietStands
    <2>7. CASE Leaving!Inspect(c)
        BY <2>1, <2>7, InspectKeeps
    <2>8. CASE Leaving!AskToApproveOrCancel(c)
        BY <2>1, <2>8, DecisionBegins, QuietStands
    <2>9. CASE Leaving!Decide(c)
        BY <2>1, <2>9, DecideKeeps
    <2>10. CASE Leaving!OverrideCase(c)
        BY <2>1, <2>10, OverrideBegins, QuietStands
    <2>11. CASE Leaving!OverrideRoom(c)
        BY <2>1, <2>11, OverrideKeeps
    <2>12. CASE Leaving!AskToExecute(c)
        BY <2>1, <2>12, ExecutionBegins, QuietStands
    <2>13. CASE Leaving!Settle(c)
        BY <2>1, <2>13, SettleKeeps, QuietStands
    <2>14. CASE Leaving!Execute(c)
        BY <2>1, <2>14, ExecuteKeeps
    <2>15. CASE Leaving!ActivateContract(c) \/ Leaving!MoveContract(c) \/ Leaving!EndTenantContracts(c)
            \/ Leaving!WriteRoom(c) \/ Leaving!Bill(c)
        BY <2>1, <2>15, OtherKeeps
    <2>16. CASE Leaving!Rollback(c)
        BY <2>1, <2>16, LeavingRollbackKeeps, QuietStands
    <2>. QED  BY <2>2, <2>3, <2>4, <2>5, <2>6, <2>7, <2>8, <2>9, <2>10, <2>11, <2>12, <2>13, <2>14, <2>15, <2>16
<1>. QED  BY <1>1, <1>2, <1>3

-----------------------------------------------------------------------------
(* The theorems                                                            *)

LEMMA LeavingInvAlways == Spec => []LeavingDeskInv
<1>1. LeavingDeskInv /\ [Next]_vars => LeavingDeskInv'
    BY LeavingStepKeeps
<1>. QED  BY LeavingInitHolds, <1>1, PTL DEF Spec

\* A contract has one open checkout, however many notices are given at once.
THEOREM OneCheckout == Spec => []OneOpenCase
<1>1. LeavingDeskInv => OneOpenCase
    BY DEF LeavingDeskInv, CheckoutInv, LeavingRowsOk, OneOpenCase
<1>. QED  BY LeavingInvAlways, <1>1, PTL

\* A completed checkout refunds what its inspections left of the deposit,
\* though inspections, executions and payments overtake each other, and the
\* key was back or an override says why not.
THEOREM SettlementIsDue == Spec => []SettledAsInspected
<1>1. LeavingDeskInv => SettledAsInspected
    BY DEF LeavingDeskInv, CheckoutInv, LeavingRowsOk, SettledAsInspected
<1>. QED  BY LeavingInvAlways, <1>1, PTL

\* Whoever lives in the room has it, and whose checkout is completed does not
\* live there, nor move in again.
THEOREM RoomHandedOver == Spec => []HandedOver
<1>1. LeavingDeskInv => HandedOver
    BY DEF LeavingDeskInv, CheckoutInv, LeavingRowsOk, HandedOver
<1>. QED  BY LeavingInvAlways, <1>1, PTL

\* No request changes a case that is finished, whatever it read before.
THEOREM FinishedStands == Spec => CasesStand
<1>1. LeavingDeskInv /\ [Next]_vars => [desk = "checkout" => Leaving!CasesStand]_vars
    BY LeavingStepKeeps
<1>. QED  BY LeavingInvAlways, <1>1, PTL DEF Spec, CasesStand

=============================================================================
