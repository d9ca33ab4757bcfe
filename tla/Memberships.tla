---------------------------- MODULE Memberships ----------------------------
(***************************************************************************)
(* The members of one property: who they are, in which role, and that it   *)
(* keeps an owner.                                                         *)
(*                                                                         *)
(* Source: backend/internal/repository/property_repository.go.  Every      *)
(* change of a member locks the row of the property first.                 *)
(***************************************************************************)
EXTENDS Transactions

CONSTANT Users

\* One role stands for manager, finance, maintenance and viewer.
Roles == {"property_owner", "viewer"}
MemberStatuses == {"active", "suspended", "revoked"}

Member(role, status) == [role |-> role, status |-> status]

ActiveOwner == Member("property_owner", "active")

Owners == {u \in Users : db.members[u] = ActiveOwner}

\* CreateWithOwner: the property and its first member are one transaction.
Init ==
    /\ NobodyServed
    /\ \E u \in Users : db = [status  |-> "draft",
                              members |-> [v \in Users |-> IF v = u THEN ActiveOwner ELSE None]]

-----------------------------------------------------------------------------
(* The handlers                                                            *)

Property == <<"property">>
MemberRow(u) == <<"member", u>>

\* Mutant: the row of the property is read and not locked.
ReadMutableProperty(c, t) == db.status # "archived" /\ Begin(c, t, {})

\* The members of an archived property are not changed.
LockMutableProperty(c, t) ==
    /\ db.status # "archived"
    /\ Begin(c, t, {Lock(Property, "update")})

Request(op, u, role, status) ==
    [op |-> op, at |-> "locked", user |-> u, role |-> role, status |-> status, seen |-> None]

AskToAdd(c) ==
    \E u \in Users, r \in Roles : LockMutableProperty(c, Request("add", u, r, "active"))

\* A field the request leaves out keeps its value.
AskToUpdate(c) ==
    \E u \in Users, r \in Roles \union {None}, s \in MemberStatuses \union {None} :
        /\ db.members[u] # None /\ (r # None \/ s # None)
        /\ LockMutableProperty(c, Request("update", u, r, s))

AskToRevoke(c) ==
    \E u \in Users :
        /\ db.members[u] # None
        /\ LockMutableProperty(c, Request("revoke", u, None, "revoked"))

ReadMember(c) ==
    LET t == tx[c]
    IN  /\ \E op \in {"add", "update", "revoke"} : At(c, op, "locked")
        /\ Statement(c, [t EXCEPT !.at = "read", !.seen = db.members[t.user]],
                     IF db.members[t.user] = None THEN {}
                     ELSE {Lock(MemberRow(t.user), "update")})

\* AddMemberByEmail inserts the member or brings a revoked one back; who is a
\* member already, suspended or not, is refused.
AddMember(c) ==
    LET t == tx[c]
    IN  /\ At(c, "add", "read")
        /\ t.seen # None => t.seen.status = "revoked"
        /\ Commit(c, {}, [db EXCEPT !.members[t.user] = Member(t.role, t.status)])

Written(t) == Member(IF t.role = None THEN t.seen.role ELSE t.role,
                     IF t.status = None THEN t.seen.status ELSE t.status)

TakesOwnerAway(t) == t.seen = ActiveOwner /\ Written(t) # ActiveOwner

AnotherActiveOwner(u) == Owners \ {u} # {}

EnsureAnotherActiveOwner(c) ==
    LET t == tx[c]
    IN  /\ At(c, "update", "read") \/ At(c, "revoke", "read")
        /\ TakesOwnerAway(t) => AnotherActiveOwner(t.user)
        /\ Statement(c, [t EXCEPT !.at = "checked"], {})

\* UpdateMember and RevokeMember.  To revoke who is revoked changes nothing.
WriteMember(c) ==
    LET t == tx[c]
    IN  /\ At(c, "update", "checked") \/ At(c, "revoke", "checked")
        /\ Commit(c, {}, [db EXCEPT !.members[t.user] = Written(t)])

\* PUT /properties/:id, which may also archive the property and bring it back.
UpdateProperty(c) ==
    \E s \in {"draft", "active", "archived"} :
        Autocommit(c, {Lock(Property, "write")}, [db EXCEPT !.status = s])

Next ==
    \E c \in Clerks :
        \/ AskToAdd(c) \/ AskToUpdate(c) \/ AskToRevoke(c)
        \/ ReadMember(c) \/ EnsureAnotherActiveOwner(c)
        \/ AddMember(c) \/ WriteMember(c)
        \/ UpdateProperty(c) \/ Rollback(c)

-----------------------------------------------------------------------------
(* Properties                                                              *)

\* A property keeps an active owner (ErrLastPropertyOwner), though two owners
\* may be removed, demoted or suspended at the same time: each is counted as
\* the other's replacement by ensureAnotherActiveOwner.
OwnerRemains == Owners # {}
=============================================================================
