-------------------------- MODULE ScheduleRefinement --------------------------
(* The lifecycle of routines keeps the contract the runs rely on.          *)
EXTENDS ScheduleLifecycle

(* What the lifecycle shows of each routine: the row, and whether the      *)
(* grant of its current revision is active.                                *)
Shown == [s \in Schedules |->
    [status |-> schedule[s].status, revision |-> schedule[s].revision,
     authorised |-> ActiveGrant(s), due |-> schedule[s].scheduled,
     ran |-> schedule[s].ran]]

RC == INSTANCE RoutineContract WITH routine <- Shown

(* Every order of the tools, answers, expiries, dispatches and failures    *)
(* looks, to the worker that runs the routines, like steps of the          *)
(* contract.                                                               *)
KeepsContract == RC!Contract
=============================================================================
