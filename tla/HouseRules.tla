----------------------------- MODULE HouseRules -----------------------------
(***************************************************************************)
(* The house rules of one property: versions that are drafted, published   *)
(* and superseded, and what the tenants have signed.                       *)
(*                                                                         *)
(* Source: backend/internal/repository/house_rule_repository.go, the part  *)
(* of contract_lifecycle_repository.go that records and asks for           *)
(* acknowledgements, and migration 028 (indexes and triggers).             *)
(***************************************************************************)
EXTENDS Transactions, Sequences

CONSTANTS
    Tenants,        \* each with a contract of this property
    Texts,          \* what the items of a version may say
    MaxVersions

VersionNumbers == 1 .. Len(db.versions)

Version(status, text) == [status |-> status, text |-> text]

Draft == {v \in VersionNumbers : db.versions[v].status = "draft"}
Published == {v \in VersionNumbers : db.versions[v].status = "published"}

\* Tenant k signs version v for the contract of tenant n, or for none.
Signature(k, v, n) == [tenant |-> k, version |-> v, contract |-> n, text |-> db.versions[v].text]

SignedBy(k, v, n) ==
    \E a \in db.acks : a.tenant = k /\ a.version = v /\ a.contract = n

Init ==
    /\ NobodyServed
    /\ db = [versions  |-> <<>>,
             acks      |-> {},
             contracts |-> [k \in Tenants |-> "pending_tenant"],
             follows   |-> [k \in Tenants |-> None]]

RuleSet == <<"rule set">>
VersionRow(v) == <<"version", v>>
ContractRow(k) == <<"contract", k>>

-----------------------------------------------------------------------------
(* SaveDraft                                                               *)

\* The upsert of the rule set lets one SaveDraft of a property go on.
AskToSave(c) ==
    \E x \in Texts :
        Begin(c, [op |-> "save", at |-> "upserted", text |-> x, draft |-> None],
              {Lock(RuleSet, "write")})

\* SELECT ... WHERE status = 'draft' FOR UPDATE: it waits for a publication
\* and does not find what is published by then.
FindDraft(c) ==
    LET t == tx[c]
    IN  /\ At(c, "save", "upserted")
        /\ IF Draft = {}
           THEN Statement(c, [t EXCEPT !.at = "none"], {})
           ELSE \E v \in Draft :
                    Statement(c, [t EXCEPT !.at = "found", !.draft = v],
                              {Lock(VersionRow(v), "update")})

\* version_number is MAX + 1; a second draft would break a unique index.
InsertDraft(c) ==
    LET t == tx[c]
    IN  /\ At(c, "save", "none")
        /\ Draft = {} /\ Len(db.versions) < MaxVersions
        /\ Commit(c, {}, [db EXCEPT !.versions = Append(@, Version("draft", t.text))])

\* The items are deleted and inserted anew; the trigger refuses to delete
\* those of a version that is no draft.
ReplaceItems(c) ==
    LET t == tx[c]
    IN  /\ At(c, "save", "found")
        /\ db.versions[t.draft].status = "draft"
        /\ Commit(c, {}, [db EXCEPT !.versions[t.draft].text = t.text])

-----------------------------------------------------------------------------
(* PublishDraft                                                            *)

\* Mutant: the status of the version is not asked for.
PublishableAnyway(v) == v \in VersionNumbers

\* The handler refuses what is no draft, and so does the trigger, which keeps
\* what a published version says.
Publishable(v) == db.versions[v].status = "draft"

AskToPublish(c) ==
    \E v \in VersionNumbers :
        /\ Publishable(v)
        /\ Begin(c, [op |-> "publish", at |-> "locked", version |-> v],
                 {Lock(VersionRow(v), "update")})

Supersede(c) ==
    LET t == tx[c]
    IN  /\ At(c, "publish", "locked")
        /\ Statement(c, [t EXCEPT !.at = "superseded"],
                     {Lock(VersionRow(v), "write") : v \in Published})

Publish(c) ==
    LET t == tx[c]
    IN  /\ At(c, "publish", "superseded")
        /\ Commit(c, {},
             [db EXCEPT !.versions = [v \in VersionNumbers |->
                IF v = t.version THEN [@[v] EXCEPT !.status = "published"]
                ELSE IF v \in Published THEN [@[v] EXCEPT !.status = "superseded"]
                ELSE @[v]]])

-----------------------------------------------------------------------------
(* AcknowledgeVersion, and the contract that is accepted and activated     *)

\* Mutant: a version that was never published is signed as well.
AskToSignAny(c) ==
    \E k \in Tenants, v \in VersionNumbers, n \in Tenants \union {None} :
        /\ ~ SignedBy(k, v, n)
        /\ Begin(c, [op |-> "sign", at |-> "read", tenant |-> k, version |-> v, contract |-> n], {})

\* The tenant has the version on the screen, which was published.  Nobody asks
\* whose contract the request names.
AskToSign(c) ==
    \E k \in Tenants, v \in Published, n \in Tenants \union {None} :
        /\ ~ SignedBy(k, v, n)
        /\ Begin(c, [op |-> "sign", at |-> "read", tenant |-> k, version |-> v, contract |-> n], {})

\* A contract that is named follows the version from now on, be it superseded
\* by then, and be it somebody else's.
Sign(c) ==
    LET t == tx[c]
    IN  /\ At(c, "sign", "read")
        /\ ~ SignedBy(t.tenant, t.version, t.contract)
        /\ Commit(c, {Lock(VersionRow(t.version), "share")}
                       \union {Lock(ContractRow(n), "write") : n \in {t.contract} \ {None}},
             [db EXCEPT !.acks = @ \union {Signature(t.tenant, t.version, t.contract)},
                        !.follows = [n \in Tenants |-> IF n = t.contract THEN t.version ELSE @[n]]])

\* AcceptByTenant and the activation lock the contract and ask which version
\* is published.
AskOfContract(c) ==
    \E k \in Tenants, op \in {"accept", "activate"} :
        /\ db.contracts[k] = IF op = "accept" THEN "pending_tenant" ELSE "scheduled"
        /\ Begin(c, [op |-> op, at |-> "locked", tenant |-> k, version |-> None],
                 {Lock(ContractRow(k), "update")})

InForce == IF Published = {} THEN None ELSE CHOOSE v \in Published : TRUE

ReadInForce(c) ==
    LET t == tx[c]
    IN  /\ At(c, "accept", "locked") \/ At(c, "activate", "locked")
        /\ Statement(c, [t EXCEPT !.at = "read", !.version = InForce], {})

Accept(c) ==
    LET t == tx[c]
        k == t.tenant
        v == t.version
    IN  /\ At(c, "accept", "read")
        /\ IF v = None
           THEN Commit(c, {}, [db EXCEPT !.contracts[k] = "scheduled"])
           ELSE Commit(c, {Lock(VersionRow(v), "share")},
                  [db EXCEPT !.contracts[k] = "scheduled",
                             !.follows[k] = v,
                             !.acks = IF SignedBy(k, v, k) THEN @
                                      ELSE @ \union {Signature(k, v, k)}])

\* Mutant: the activation does not ask for the acknowledgement.
ActivateUnsigned(c) ==
    LET t == tx[c]
    IN  /\ At(c, "activate", "read")
        /\ Commit(c, {}, [db EXCEPT !.contracts[t.tenant] = "active",
                                    !.follows[t.tenant] = IF @ = None THEN t.version ELSE @])

Activate(c) ==
    LET t == tx[c]
        k == t.tenant
        v == t.version
    IN  /\ At(c, "activate", "read")
        /\ v # None => SignedBy(k, v, k) \/ SignedBy(k, v, None)
        /\ Commit(c, IF v # None /\ db.follows[k] = None
                     THEN {Lock(VersionRow(v), "share")} ELSE {},
             [db EXCEPT !.contracts[k] = "active",
                        !.follows[k] = IF @ = None THEN v ELSE @])

Next ==
    \E c \in Clerks :
        \/ AskToSave(c) \/ FindDraft(c) \/ InsertDraft(c) \/ ReplaceItems(c)
        \/ AskToPublish(c) \/ Supersede(c) \/ Publish(c)
        \/ AskToSign(c) \/ Sign(c)
        \/ AskOfContract(c) \/ ReadInForce(c) \/ Accept(c) \/ Activate(c)
        \/ Rollback(c)

-----------------------------------------------------------------------------
(* Properties                                                              *)

\* What a tenant has signed is what the version says today: it was published
\* when it was signed, and SaveDraft and PublishDraft cannot meet in a version
\* that changes after it is in force (epic 11).
SignedAsWritten ==
    \A a \in db.acks :
        /\ db.versions[a.version].status \in {"published", "superseded"}
        /\ db.versions[a.version].text = a.text

\* One version is in force and none is newer, except a single draft; and no
\* version before it is still a draft.
NewestInForce ==
    \A v \in VersionNumbers, w \in VersionNumbers :
        v < w => /\ db.versions[v].status = "superseded" \/ db.versions[w].status = "draft"
                 /\ db.versions[v].status # "draft"

\* A version that a contract follows was signed for that contract, by its tenant
\* or by whoever named it, or by its tenant for no contract in particular.
FollowsSigned ==
    \A k \in Tenants :
        db.follows[k] # None =>
            \/ SignedBy(k, db.follows[k], None)
            \/ \E j \in Tenants : SignedBy(j, db.follows[k], k)
=============================================================================
