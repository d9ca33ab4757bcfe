----------------------------- MODULE BackOffice -----------------------------
(***************************************************************************)
(* The desks of the back office.  They share no rows but those of a        *)
(* contract, of which each desk has its own part; what is common to them   *)
(* is how their handlers are served, which is Transactions.                *)
(***************************************************************************)
EXTENDS Naturals, FiniteSets

CONSTANTS
    Clerks, None,                           \* Transactions
    Requests,                               \* bounds the requests of each desk
    Users,                                  \* Memberships
    Phones, People, Policies, MaxInvitations,   \* Invitations
    Tenants, Texts, MaxVersions,            \* HouseRules
    Rooms, Deposit, Costs, Debts, MaxCases  \* Checkout

Desks == {"members", "invites", "rules", "checkout"}

ASSUME ServingAssumption == None \notin Clerks /\ Requests \in [Desks -> Nat]

VARIABLES
    db, tx, held, served,                   \* Transactions
    desk                                    \* the desk that is looked at

vars == <<db, tx, held, served, desk>>

Members == INSTANCE Memberships WITH MaxRequests <- Requests["members"]
Invites == INSTANCE Invitations WITH MaxRequests <- Requests["invites"]
Rules   == INSTANCE HouseRules WITH MaxRequests <- Requests["rules"]
Leaving == INSTANCE Checkout WITH MaxRequests <- Requests["checkout"]

\* "No row" is not a row.
ASSUME RowAssumption ==
    /\ None \notin [role : Members!Roles, status : Members!MemberStatuses]
    /\ None \notin People \union Invites!ProfileRows \union Invites!InvitationRows

Init ==
    /\ desk \in Desks
    /\ CASE desk = "members"  -> Members!Init
         [] desk = "invites"  -> Invites!Init
         [] desk = "rules"    -> Rules!Init
         [] desk = "checkout" -> Leaving!Init

AtDesk(d) == desk = d /\ UNCHANGED desk

Next ==
    \/ AtDesk("members") /\ Members!Next
    \/ AtDesk("invites") /\ Invites!Next
    \/ AtDesk("rules") /\ Rules!Next
    \/ AtDesk("checkout") /\ Leaving!Next

Spec == Init /\ [][Next]_vars

-----------------------------------------------------------------------------
(* Properties                                                              *)

\* A property keeps an active owner: Memberships.
OwnerRemains == desk = "members" => Members!OwnerRemains

\* A profile has one invitation that can be used, and none once it is
\* active: Invitations.
OnePending == desk = "invites" => Invites!OnePending

\* An invitation is used once, and a profile keeps its user: Invitations.
UsedOnce == [][desk = "invites" => Invites!UsedOnce]_vars

\* What was signed is what was published, unchanged: HouseRules.
SignedAsWritten == desk = "rules" => Rules!SignedAsWritten

\* One version is in force, the newest: HouseRules.
NewestInForce == desk = "rules" => Rules!NewestInForce

\* A contract follows a version that was signed for it: HouseRules.
FollowsSigned == desk = "rules" => Rules!FollowsSigned

\* A contract has one open checkout: Checkout.
OneOpenCase == desk = "checkout" => Leaving!OneOpenCase

\* A checkout settles what was inspected: Checkout.
SettledAsInspected == desk = "checkout" => Leaving!SettledAsInspected

\* The contract, and the room it has, follow the checkout: Checkout.
HandedOver == desk = "checkout" => Leaving!HandedOver

\* A finished checkout stays finished: Checkout.
CasesStand == [][desk = "checkout" => Leaving!CasesStand]_vars
=============================================================================
