----------------------------- MODULE MCAccounts -----------------------------
(***************************************************************************)
(* Two members, one with an account and one to be invited, and two callers *)
(* at a time.  A behaviour is made of the operations of one workload; in   *)
(* that of a browser the callers are the requests of its two tabs.         *)
(***************************************************************************)
EXTENDS Accounts, Browser, TLC

CONSTANTS kim, lee, e1, e2, e3

Addresses == kim :> e1 @@ lee :> e2
Accounted == kim :> 1 @@ lee :> None

Overlaps ==
    {{"login", "change", "expire"}, {"login", "reset", "crash"}, {"reset", "verify"},
     {"register", "invite", "crash"}, {"invite", "edit"}, {"register", "erase"},
     {"login", "erase", "crash"}, {"reset", "invite", "erase"}, {"browse"}}

Logins == {{"login"}}

MCInit == AccountsInit /\ BrowserInit

MCNext ==
    \/ /\ workload # {"browse"}
       /\ AccountsNext
       /\ UNCHANGED browserVars
    \/ /\ workload = {"browse"}
       /\ BrowserNext

MCSpec == MCInit /\ [][MCNext]_<<accountsVars, browserVars>>

Interchangeable == Permutations(Callers) \cup Permutations(Tabs)
=============================================================================
