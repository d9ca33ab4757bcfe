---------------------------- MODULE WebClientMC ----------------------------
(***************************************************************************)
(* Instances of the web client for TLC: all pages, and how many steps less *)
(* the user takes in those that offer the most.                            *)
(***************************************************************************)
EXTENDS WebClient

FewerSteps ==
    [p \in Pages |->
        CASE p = "notifications" -> 3
          [] p \in {"payments", "checkouts", "permits", "expenses", "tenants", "profile"} -> 2
          [] OTHER -> 0]
=============================================================================
