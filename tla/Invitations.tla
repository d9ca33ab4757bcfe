---------------------------- MODULE Invitations ----------------------------
(***************************************************************************)
(* Tenant profiles of one property and the invitations to activate them.   *)
(*                                                                         *)
(* Source: backend/internal/repository/tenant_lifecycle_repository.go,     *)
(* handler/tenant_lifecycle_handler.go (ActivateInvitation),               *)
(* repository/tenant_session_policy.go, migrations 016 and 019.            *)
(*                                                                         *)
(* A profile is named by its phone number, by which a new invitation finds *)
(* it.  Its e-mail address is one of People, and who has an account is     *)
(* known by the address of the account.                                    *)
(***************************************************************************)
EXTENDS Transactions

CONSTANTS
    Phones, People,
    Policies,       \* versions of the policy a tenant agrees to
    MaxInvitations

Invitations == 1 .. MaxInvitations

FinalStatuses == {"accepted", "revoked"}

ProfileRows ==
    [email : People, status : {"invited", "active", "inactive"}, user : People \union {None}]

InvitationRows == [phone : Phones, status : {"pending"} \union FinalStatuses, late : BOOLEAN]

Pending(i) == db.invitations[i] # None /\ db.invitations[i].status = "pending"

PendingOf(p) == {i \in Invitations : Pending(i) /\ db.invitations[i].phone = p}

Usable(i) == Pending(i) /\ ~ db.invitations[i].late

Init ==
    /\ NobodyServed
    /\ db = [profiles    |-> [p \in Phones |-> None],
             invitations |-> [i \in Invitations |-> None],
             consents    |-> {},
             accounts    |-> {}]

ProfileRow(p) == <<"profile", p>>
InvitationRow(i) == <<"invitation", i>>

-----------------------------------------------------------------------------
(* CreateInvitation                                                        *)

\* An address belongs to one profile: a request that names the phone of one
\* and the address of another is refused (ErrInvitationContactConflict).  The
\* change of a profile's phone by an invitation to its address is left out.
AddressFree(p, e) ==
    \A q \in Phones \ {p} : db.profiles[q] # None => db.profiles[q].email # e

Invited(p, e) ==
    [email |-> e, status |-> "invited",
     user  |-> IF db.profiles[p] = None THEN None ELSE db.profiles[p].user]

\* SELECT ... FOR UPDATE finds the profile, or nothing to lock.
AskToInvite(c) ==
    \E p \in Phones, e \in People :
        LET t == [op |-> "invite", at |-> "found", phone |-> p, email |-> e]
        IN  /\ AddressFree(p, e)
            /\ IF db.profiles[p] = None
               THEN Begin(c, [t EXCEPT !.at = "absent"], {})
               ELSE db.profiles[p].status # "active"
                      /\ Begin(c, t, {Lock(ProfileRow(p), "update")})

\* The unique indexes on phone and address let one of two INSERTs through.
InsertProfile(c) ==
    LET t == tx[c]
    IN  /\ At(c, "invite", "absent")
        /\ db.profiles[t.phone] = None /\ AddressFree(t.phone, t.email)
        /\ Statement(c, [t EXCEPT !.at = "found"], {Lock(ProfileRow(t.phone), "update")})

\* The pending invitations are revoked, and the new one inserted.
Invite(c) ==
    LET t == tx[c]
    IN  /\ At(c, "invite", "found")
        /\ AddressFree(t.phone, t.email)
        /\ \E i \in Invitations :
            /\ \A j \in Invitations : db.invitations[j] = None <=> j >= i
            /\ Commit(c, {Lock(InvitationRow(j), "write") : j \in PendingOf(t.phone)},
                 [db EXCEPT
                    !.profiles[t.phone] = Invited(t.phone, t.email),
                    !.invitations = [j \in Invitations |->
                        IF j = i
                        THEN [phone |-> t.phone, status |-> "pending", late |-> FALSE]
                        ELSE IF j \in PendingOf(t.phone)
                        THEN [@[j] EXCEPT !.status = "revoked"]
                        ELSE @[j]]])

-----------------------------------------------------------------------------
(* RevokeInvitation, and the end of its validity                           *)

AskToRevoke(c) ==
    \E i \in Invitations :
        /\ Pending(i)
        /\ Begin(c, [op |-> "revoke", at |-> "updated", invitation |-> i],
                 {Lock(InvitationRow(i), "write")})

\* The row of the audit log refers to the profile.
Revoke(c) ==
    LET i == tx[c].invitation
    IN  /\ At(c, "revoke", "updated")
        /\ Commit(c, {Lock(ProfileRow(db.invitations[i].phone), "share")},
                  [db EXCEPT !.invitations[i].status = "revoked"])

\* expires_at has passed.
Expire ==
    \E i \in Invitations :
        /\ Usable(i)
        /\ db' = [db EXCEPT !.invitations[i].late = TRUE]
        /\ UNCHANGED <<tx, held, served>>

-----------------------------------------------------------------------------
(* ActivateInvitation                                                      *)

\* The handler looks at the invitation and for the account of the address
\* before the transaction; the owner of the account has given the password.
Preview(c) ==
    \E i \in Invitations, v \in Policies :
        /\ Usable(i)
        /\ LET e == db.profiles[db.invitations[i].phone].email
           IN  Begin(c, [op |-> "activate", at |-> "previewed", invitation |-> i, policy |-> v,
                         phone |-> db.invitations[i].phone,
                         existing |-> IF e \in db.accounts THEN e ELSE None], {})

\* Mutant: the invitation is read and not locked.
ReadInvitation(c) ==
    /\ At(c, "activate", "previewed")
    /\ Usable(tx[c].invitation)
    /\ Statement(c, [tx[c] EXCEPT !.at = "locked"], {})

LockInvitation(c) ==
    LET t == tx[c]
    IN  /\ At(c, "activate", "previewed")
        /\ Usable(t.invitation)
        /\ Statement(c, [t EXCEPT !.at = "locked"], {Lock(InvitationRow(t.invitation), "update")})

\* A profile that was linked once is activated by the same user only.
MayLink(profile, existing) ==
    /\ profile.status # "active"
    /\ profile.user # None => existing = profile.user
    /\ existing # None => existing = profile.email

\* A user has one profile in a property: a unique index.
UserFree(p, u) == \A q \in Phones \ {p} : db.profiles[q] # None => db.profiles[q].user # u

\* Mutant: the profile is read and not locked.
ReadProfile(c) ==
    /\ At(c, "activate", "locked")
    /\ MayLink(db.profiles[tx[c].phone], tx[c].existing)
    /\ Statement(c, [tx[c] EXCEPT !.at = "linked"], {})

LockProfile(c) ==
    LET t == tx[c]
    IN  /\ At(c, "activate", "locked")
        /\ MayLink(db.profiles[t.phone], t.existing)
        /\ Statement(c, [t EXCEPT !.at = "linked"], {Lock(ProfileRow(t.phone), "update")})

\* A new account's address must be new, and a tenant agrees to a version of
\* the policy once; each is a unique index.
Activate(c) ==
    LET t == tx[c]
        e == db.profiles[t.phone].email
    IN  /\ At(c, "activate", "linked")
        /\ t.existing = None => e \notin db.accounts
        /\ UserFree(t.phone, e)
        /\ <<t.phone, t.policy>> \notin db.consents
        /\ Commit(c, {},
             [db EXCEPT !.profiles[t.phone] = [email |-> e, status |-> "active", user |-> e],
                        !.invitations[t.invitation].status = "accepted",
                        !.consents = @ \union {<<t.phone, t.policy>>},
                        !.accounts = @ \union {e}])

\* revokeTenantSessionForProperty, when a tenancy ends.
Deactivate(c) ==
    \E p \in Phones :
        /\ db.profiles[p] # None /\ db.profiles[p].status = "active"
        /\ Autocommit(c, {Lock(ProfileRow(p), "write")},
                      [db EXCEPT !.profiles[p].status = "inactive"])

\* Somebody signs up.
Register(c) ==
    \E e \in People \ db.accounts : Autocommit(c, {}, [db EXCEPT !.accounts = @ \union {e}])

Next ==
    \/ Expire
    \/ \E c \in Clerks :
        \/ AskToInvite(c) \/ InsertProfile(c) \/ Invite(c)
        \/ AskToRevoke(c) \/ Revoke(c)
        \/ Preview(c) \/ LockInvitation(c) \/ LockProfile(c) \/ Activate(c)
        \/ Deactivate(c) \/ Register(c) \/ Rollback(c)

-----------------------------------------------------------------------------
(* Properties                                                              *)

\* No index says so: the locks of the invitation and the profile are all that
\* keeps a new invitation and an activation from leaving two invitations that
\* could be used, or one for a tenant who is active already.
OnePending ==
    \A p \in Phones :
        /\ \A i, j \in PendingOf(p) : i = j
        /\ db.profiles[p] # None /\ db.profiles[p].status = "active" => PendingOf(p) = {}

\* An invitation that was used or revoked is never used, whatever was read of
\* it before (epic 02); a profile stays with the user it was linked to, and an
\* active one is not invited anew by a request that saw it inactive.
UsedOnce ==
    /\ \A i \in Invitations :
        db.invitations[i] # None /\ db.invitations[i].status \in FinalStatuses
          => db'.invitations[i] = db.invitations[i]
    /\ \A p \in Phones :
        db.profiles[p] # None /\ db.profiles[p].user # None
          => db'.profiles[p].user = db.profiles[p].user
    /\ \A p \in Phones :
        db.profiles[p] # None /\ db.profiles[p].status = "active"
          => db'.profiles[p].status # "invited"
=============================================================================
