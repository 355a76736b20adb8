--------------------------- MODULE RoutineContract ---------------------------
(***************************************************************************)
(* What ScheduleLifecycle promises about a routine to those who run it: a  *)
(* routine that can be dispatched is authorised, its authorisation is for  *)
(* its current revision, and only a deletion takes it away without putting *)
(* that of a later revision in its place.                                  *)
(*                                                                         *)
(* Grants, confirmations, drafts and clocks are hidden: of all a user and  *)
(* the expiry scan do, only the effect on the row of the routine is left.  *)
(***************************************************************************)
EXTENDS Integers

CONSTANTS Schedules,     (* ids of scheduled_automations                   *)
          MaxRevision    (* bound on automation revisions                  *)

ContractAssumption == MaxRevision \in Nat \ {0}

VARIABLE routine   (* [Schedules -> what the worker reads of a routine]    *)

(* authorised: the grant of the current revision is active; due: there is  *)
(* a next_run_at; ran: a row of scheduled_runs exists.                     *)
RoutineRow == [status: {"none", "awaiting_confirmation", "active", "paused",
                        "needs_attention", "completed", "expired", "deleted"},
               revision: 0..MaxRevision,
               authorised: BOOLEAN, due: BOOLEAN, ran: BOOLEAN]

ContractTypeOK == routine \in [Schedules -> RoutineRow]

ContractInit ==
    routine = [s \in Schedules |-> [status |-> "none", revision |-> 0,
                    authorised |-> FALSE, due |-> FALSE, ran |-> FALSE]]

(* A version comes into force: a new routine, an update, or the answer to  *)
(* a confirmation.  A revision comes into force once.                      *)
Publish(s, r) ==
    /\ \/ r > routine[s].revision
       \/ r = routine[s].revision /\ routine[s].status = "awaiting_confirmation"
    /\ routine' = [routine EXCEPT ![s] = [@ EXCEPT !.status = "active",
            !.revision = r, !.authorised = TRUE, !.due = TRUE]]

(* A routine with external effects begins as a draft, and may end as one.  *)
Draft(s) ==
    /\ routine[s].status = "none"
    /\ routine' = [routine EXCEPT ![s] = [@ EXCEPT !.status = "awaiting_confirmation",
            !.revision = 1, !.due = TRUE]]
DropDraft(s) ==
    /\ routine[s].status = "awaiting_confirmation"
    /\ \E status \in {"expired", "deleted"} :
            routine' = [routine EXCEPT ![s] = [@ EXCEPT !.status = status, !.due = FALSE]]

Pause(s) ==
    /\ routine[s].status = "active"
    /\ routine' = [routine EXCEPT ![s].status = "paused"]

Resume(s) ==
    /\ routine[s].authorised
    /\ \E goesOn \in BOOLEAN :
            routine' = [routine EXCEPT ![s] = [@ EXCEPT !.due = goesOn,
                    !.status = IF goesOn THEN "active" ELSE "completed"]]

Delete(s) ==
    /\ routine[s].status # "none"
    /\ routine' = [routine EXCEPT ![s] = [@ EXCEPT !.status = "deleted",
            !.authorised = FALSE, !.due = FALSE]]

UserChange(s) ==
    \/ \E r \in 1..MaxRevision : Publish(s, r)
    \/ Draft(s) \/ DropDraft(s) \/ Pause(s) \/ Resume(s) \/ Delete(s)

(* run_schedule_now, dispatch_due_schedule and the last failure of a run,  *)
(* as far as the row of the routine is concerned.                          *)
RunNow(s) ==
    /\ routine[s].status \in {"active", "paused"} /\ routine[s].authorised
    /\ routine' = [routine EXCEPT ![s].ran = TRUE]

Dispatch(s) ==
    /\ routine[s].status = "active" /\ routine[s].due
    /\ \E following \in BOOLEAN :
            routine' = [routine EXCEPT ![s] = [@ EXCEPT !.ran = TRUE, !.due = following,
                    !.status = IF following THEN "active" ELSE "completed"]]

Flag(s) ==
    /\ routine[s].ran
    /\ routine' = [routine EXCEPT ![s].status = "needs_attention"]

ContractNext == \E s \in Schedules : UserChange(s) \/ RunNow(s) \/ Dispatch(s) \/ Flag(s)

Contract == ContractInit /\ [][ContractNext]_routine
=============================================================================
