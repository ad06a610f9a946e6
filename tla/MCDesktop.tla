----------------------------- MODULE MCDesktop -----------------------------
(***************************************************************************)
(* The desktop manager: one job, two request threads and the main thread,  *)
(* and a second manager after the first has ended.  Beside it what limits  *)
(* a worker: the guard inside its process, and the admission of writers to *)
(* the workspace (two jobs, one of them with research and exports below    *)
(* it, and evidence retained from an earlier manager).  A behaviour is one *)
(* of the three, as `part` says.                                           *)
(***************************************************************************)
EXTENDS Desktop, WorkerGuard, TLC

CONSTANTS Paths, Retained, Peaks, Limit, MinJob, MaxJobs, MaxEntries

VARIABLES part, size, reservations

Budget == INSTANCE WorkspaceBudget

MCPaths == {<<"j1">>, <<"j1", "research">>, <<"j1", "exports">>, <<"j2">>}
MCRetained == (<<"j1">> :> 1) @@ (<<"j1", "exports">> :> 1)

ManagerInit ==
    /\ part \in {"manager", "guard", "budget"}
    /\ Init
    /\ GuardInit
    /\ Budget!Init

ManagerNext ==
    \/ part = "manager" /\ Next /\ UNCHANGED <<part, size, reservations, guardVars>>
    \/ part = "guard" /\ GuardNext /\ UNCHANGED <<part, vars, size, reservations>>
    \/ part = "budget" /\ Budget!Next /\ UNCHANGED <<part, vars, guardVars>>

ManagerSpec ==
    /\ ManagerInit
    /\ [][ManagerNext]_<<part, vars, size, reservations, guardVars>>
    /\ ManagerFairness

\* See WorkspaceBudget: admitted writers together stay within the disk budget.
WithinBudget == Budget!WithinBudget
=============================================================================
