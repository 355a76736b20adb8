---------------------------- MODULE ScheduledRuns ----------------------------
(***************************************************************************)
(* The runs of routines: a due routine (or a user's run_schedule_now)      *)
(* leaves a row of scheduled_runs, a worker claims it under a lease, and   *)
(* materialises it as an orchestration task, whose end is written back to  *)
(* the run.  What users do to the routine meanwhile is RoutineContract.    *)
(*                                                                         *)
(* All routines belong to one user.  A claim is two steps, because it      *)
(* counts the user's running runs before it commits its own, and so is a   *)
(* materialisation: the routine, the grant and the commit are separate     *)
(* statements, and nothing locks the routine between them.                 *)
(***************************************************************************)
EXTENDS RoutineContract, FiniteSets

CONSTANTS Runs,          (* ids of scheduled_runs: bounds their number     *)
          Workers,       (* worker processes                               *)
          NoRun,         (* the run of an idle worker                      *)
          MaxAttempts,   (* schedule_max_run_attempts                      *)
          MaxConcurrent, (* schedule_max_concurrent_runs_per_user          *)
          MaxCrashes,    (* bound on crashes and cancelled cycles          *)
          Overrun        (* may a lease run out while its worker is busy?  *)

RunsAssumption ==
    /\ NoRun \notin Runs
    /\ MaxAttempts \in Nat \ {0} /\ MaxConcurrent \in Nat \ {0}
    /\ MaxCrashes \in Nat /\ Overrun \in BOOLEAN

VARIABLES run,       (* [Runs -> row of scheduled_runs]                    *)
          task,      (* [Runs -> its orchestration task and what it runs]  *)
          notified,  (* [Runs -> was a failed materialisation reported?]   *)
          worker,    (* [Workers -> what a worker is doing]                *)
          crashes

runVars == <<run, task, notified, worker, crashes>>
allVars == <<routine, run, task, notified, worker, crashes>>

(* ready stands for queued and retrying.                                   *)
RunRow == [status: {"none", "ready", "running", "completed", "failed", "skipped"},
           lease: {"none", "held", "lapsed"}, attempts: 0..MaxAttempts,
           routine: Schedules \cup {NoRun}, revision: 0..MaxRevision, manual: BOOLEAN]

(* revision is that of the specification the task was given.               *)
TaskRow == [status: {"none", "queued", "done", "failed"}, revision: 0..MaxRevision]

(* known: the run had its task when it was claimed; room: what the claim   *)
(* counted; seen: the revision the routine had when it was read.           *)
Job == [run: Runs \cup {NoRun},
        phase: {"idle", "counted", "claimed", "read", "granted", "failing"},
        known: BOOLEAN, room: BOOLEAN, seen: 0..MaxRevision]

Idle == [run |-> NoRun, phase |-> "idle", known |-> FALSE, room |-> FALSE, seen |-> 0]
NoRunRow == [status |-> "none", lease |-> "none", attempts |-> 0,
             routine |-> NoRun, revision |-> 0, manual |-> FALSE]
NoTask == [status |-> "none", revision |-> 0]

TypeOK ==
    /\ ContractTypeOK
    /\ run \in [Runs -> RunRow]
    /\ task \in [Runs -> TaskRow]
    /\ notified \in [Runs -> BOOLEAN]
    /\ worker \in [Workers -> Job]
    /\ crashes \in 0..MaxCrashes

Init ==
    /\ ContractInit
    /\ run = [i \in Runs |-> NoRunRow]
    /\ task = [i \in Runs |-> NoTask]
    /\ notified = [i \in Runs |-> FALSE]
    /\ worker = [w \in Workers |-> Idle]
    /\ crashes = 0

Exists(i) == run[i].status # "none"
Ended(i) == run[i].status \in {"completed", "failed", "skipped"}
Locked(i) == \E w \in Workers : worker[w].run = i /\ worker[w].phase = "counted"
Release(w) == worker' = [worker EXCEPT ![w] = Idle]

-----------------------------------------------------------------------------
(* New runs.                                                               *)

AddRun_Faulty(i, s, status, manual) ==
    /\ ~Exists(i)
    /\ run' = [run EXCEPT ![i] = [NoRunRow EXCEPT !.status = status, !.routine = s,
            !.revision = routine[s].revision + 1, !.manual = manual]]
AddRun(i, s, status, manual) ==
    /\ ~Exists(i)
    /\ run' = [run EXCEPT ![i] = [NoRunRow EXCEPT !.status = status, !.routine = s,
            !.revision = routine[s].revision, !.manual = manual]]

(* dispatch_due_schedule: the run and the next occurrence are one commit;  *)
(* an occurrence that is too late leaves a run that is skipped.            *)
DispatchRun(s, i) ==
    /\ Dispatch(s)
    /\ \E status \in {"ready", "skipped"} : AddRun(i, s, status, FALSE)
    /\ UNCHANGED <<task, notified, worker, crashes>>

RunScheduleNow(s, i) ==
    /\ RunNow(s)
    /\ AddRun(i, s, "ready", TRUE)
    /\ UNCHANGED <<task, notified, worker, crashes>>

UserChanges(s) == UserChange(s) /\ UNCHANGED runVars

-----------------------------------------------------------------------------
(* claim_scheduled_run.                                                    *)

Claimable(i) == /\ ~Locked(i)
                /\ \/ run[i].status = "ready"
                   \/ run[i].status = "running" /\ run[i].lease = "lapsed"

(* The runs of the user that count against the limit.                      *)
Running(others) == {i \in others : run[i].status = "running" /\ run[i].lease = "held"}

CountRuns(w, i) ==
    /\ worker[w] = Idle
    /\ Claimable(i)
    /\ worker' = [worker EXCEPT ![w] = [Idle EXCEPT !.run = i, !.phase = "counted",
            !.room = Cardinality(Running(Runs \ {i})) < MaxConcurrent]]
    /\ UNCHANGED <<routine, run, task, notified, crashes>>

(* Without room the run is only put off: available_at.                     *)
ClaimRun(w) ==
    LET i == worker[w].run
        tried == run[i].attempts
    IN /\ worker[w].phase = "counted"
       /\ \/ /\ worker[w].room
             /\ run' = [run EXCEPT ![i] = [@ EXCEPT !.status = "running", !.lease = "held",
                    !.attempts = IF tried < MaxAttempts THEN tried + 1 ELSE tried]]
             /\ worker' = [worker EXCEPT ![w] = [@ EXCEPT !.phase = "claimed",
                    !.known = task[i].status # "none"]]
          \/ /\ ~worker[w].room
             /\ Release(w) /\ UNCHANGED run
       /\ UNCHANGED <<routine, task, notified, crashes>>

-----------------------------------------------------------------------------
(* materialize_scheduled_run.                                              *)

(* The routine is read; a run of its own accord ends here when the routine *)
(* has been paused or deleted.                                             *)
ReadRoutine(w) ==
    LET i == worker[w].run
        s == run[i].routine
        stopped == ~run[i].manual /\ routine[s].status \in {"paused", "deleted"}
    IN /\ worker[w].phase = "claimed"
       /\ stopped => ~Locked(i)
       /\ run' = [run EXCEPT ![i].status = IF stopped THEN "skipped" ELSE @]
       /\ worker' = [worker EXCEPT ![w].phase = IF stopped THEN "failing" ELSE "read",
                                   ![w].seen = routine[s].revision]
       /\ UNCHANGED <<routine, task, notified, crashes>>

Granted_Faulty(i) == routine[run[i].routine].authorised
Granted(i) == /\ routine[run[i].routine].authorised
              /\ routine[run[i].routine].revision = run[i].revision

(* The grant of the revision the run was made for; a run that has its task *)
(* needs nothing more.                                                     *)
ReadGrant(w) ==
    LET i == worker[w].run
    IN /\ worker[w].phase = "read"
       /\ worker' = [worker EXCEPT ![w] =
            IF ~Granted(i) THEN [@ EXCEPT !.phase = "failing"]
            ELSE IF @.known THEN Idle
            ELSE [@ EXCEPT !.phase = "granted"]]
       /\ UNCHANGED <<routine, run, task, notified, crashes>>

(* schedule:<run> and scheduled-run:<run>:v1 are unique: of two workers    *)
(* with the same run, the later one fails.                                 *)
TaskFree_Faulty(i) == TRUE
TaskFree(i) == task[i].status = "none"

Materialise(w) ==
    LET i == worker[w].run
    IN /\ worker[w].phase = "granted"
       /\ ~Locked(i)
       /\ \/ /\ TaskFree(i)
             /\ task' = [task EXCEPT ![i] = [status |-> "queued", revision |-> worker[w].seen]]
             /\ Release(w)
          \/ /\ ~TaskFree(i)
             /\ worker' = [worker EXCEPT ![w].phase = "failing"]
             /\ UNCHANGED task
       /\ UNCHANGED <<routine, run, notified, crashes>>

(* Anything else that goes wrong, an inactive conversation for one.        *)
Break(w) ==
    /\ worker[w].phase \in {"claimed", "read", "granted"}
    /\ worker' = [worker EXCEPT ![w].phase = "failing"]
    /\ UNCHANGED <<routine, run, task, notified, crashes>>

(* One message to the user for each run, whatever is notified again.       *)
NotifyFailure(i) == notified' = [notified EXCEPT ![i] = TRUE]

(* The handler of process_scheduled_run_job: what the attempt wrote is     *)
(* rolled back, the run is read again and set to retry or to failed.  The  *)
(* last failure flags the routine and tells the user.                      *)
HandleFailure(w) ==
    LET i == worker[w].run
        retry == run[i].attempts < MaxAttempts
    IN /\ worker[w].phase = "failing"
       /\ ~Locked(i)
       /\ \/ /\ run[i].status = "skipped"
             /\ UNCHANGED <<routine, run, notified>>
          \/ /\ run[i].status # "skipped" /\ retry
             /\ run' = [run EXCEPT ![i].status = "ready", ![i].lease = "none"]
             /\ UNCHANGED <<routine, notified>>
          \/ /\ run[i].status # "skipped" /\ ~retry
             /\ run' = [run EXCEPT ![i].status = "failed", ![i].lease = "none"]
             /\ NotifyFailure(i)
             /\ Flag(run[i].routine)
       /\ Release(w)
       /\ UNCHANGED <<task, crashes>>

-----------------------------------------------------------------------------
(* The task ends (ChannelPipeline says how), and with it the run, whatever *)
(* the run has become: finish_scheduled_run_for_task.  A task can end well *)
(* with one of its tools failed; a task that fails flags the routine.      *)

EndTask(i, status) ==
    /\ task[i].status = "queued"
    /\ ~Locked(i)
    /\ task' = [task EXCEPT ![i].status = status]
    /\ \E toolsOk \in BOOLEAN :
            run' = [run EXCEPT ![i].lease = "none",
                ![i].status = IF status = "done" /\ toolsOk THEN "completed" ELSE "failed"]
    /\ IF status = "failed" THEN Flag(run[i].routine) ELSE UNCHANGED routine
    /\ UNCHANGED <<notified, worker, crashes>>

(* The process dies, or asyncio.timeout cancels the cycle.                 *)
Crash(w) ==
    /\ worker[w] # Idle
    /\ crashes < MaxCrashes
    /\ crashes' = crashes + 1
    /\ Release(w)
    /\ UNCHANGED <<routine, run, task, notified>>

(* Ten minutes, whether the worker, or the task, is still busy or not.     *)
Lapse(i) ==
    /\ run[i].lease = "held"
    /\ Overrun \/ \A w \in Workers : worker[w].run # i
    /\ run' = [run EXCEPT ![i].lease = "lapsed"]
    /\ UNCHANGED <<routine, task, notified, worker, crashes>>

-----------------------------------------------------------------------------
Step(w) ==
    \/ ClaimRun(w) \/ ReadRoutine(w) \/ ReadGrant(w) \/ Materialise(w)
    \/ Break(w) \/ HandleFailure(w)

Next ==
    \/ \E s \in Schedules :
            \/ UserChanges(s)
            \/ \E i \in Runs : DispatchRun(s, i) \/ RunScheduleNow(s, i)
    \/ \E w \in Workers : Step(w) \/ Crash(w) \/ \E i \in Runs : CountRuns(w, i)
    \/ \E i \in Runs : Lapse(i) \/ \E status \in {"done", "failed"} : EndTask(i, status)

Spec == Init /\ [][Next]_allVars

(* A worker goes on with its run, leases run out, every cycle looks for    *)
(* the run that has been available longest, and tasks end.                 *)
FairSpec ==
    /\ Spec
    /\ \A w \in Workers : WF_allVars(Step(w))
    /\ \A i \in Runs :
        /\ SF_allVars(\E w \in Workers : CountRuns(w, i) /\ worker'[w].room)
        /\ WF_allVars(Lapse(i))
        /\ SF_allVars(\E status \in {"done", "failed"} : EndTask(i, status))
-----------------------------------------------------------------------------
(* Properties.                                                             *)

(* A task is given the specification of the revision its run was made for: *)
(* the routine may be updated between the dispatch, the claim, the reading *)
(* of the routine and that of its grant, and the task then must not exist. *)
TaskRunsItsRevision ==
    \A i \in Runs : task[i].status # "none" => task[i].revision = run[i].revision

(* A run has one task for all its retries, lapsed leases and crashes: the  *)
(* task of a run is never replaced or started again.                       *)
OneTaskPerRun ==
    [][\A i \in Runs : task[i].status # "none" =>
            /\ task'[i].revision = task[i].revision
            /\ task[i].status # "queued" => task'[i] = task[i]]_allVars

(* A run is completed only by a task that ended well, and one that failed  *)
(* has told the user: by the task's answer, or by a notification.          *)
OutcomeIsTrue ==
    \A i \in Runs :
        /\ run[i].status = "completed" => task[i].status = "done"
        /\ run[i].status = "failed" => notified[i] \/ task[i].status \in {"done", "failed"}

(* docs/12-scheduled-automations.md:339: no more runs of a user at a time  *)
(* than the limit, as long as one worker claims them.                      *)
WithinLimit == Cardinality(Running(Runs)) <= MaxConcurrent

(* Every run gets its task or ends, whatever crashes or breaks.            *)
RunsResolve ==
    \A i \in Runs : run[i].status = "ready" ~> Ended(i) \/ task[i].status # "none"

(* docs/12-scheduled-automations.md:428: an occurrence has one final       *)
(* delivery at most.                                                       *)
OneFinalDelivery == \A i \in Runs : ~(notified[i] /\ task[i].status = "done")

(* docs/12-scheduled-automations.md:338: one occurrence of a routine at a  *)
(* time.                                                                   *)
OneOccurrencePerRoutine ==
    \A i, j \in Runs : i # j /\ {i, j} \subseteq Running(Runs) =>
        run[i].routine # run[j].routine

(* docs/12-scheduled-automations.md:203: deleting is an explicit removal:  *)
(* what the worker does afterwards does not bring the routine back.        *)
DeletedStays ==
    [][\A s \in Schedules : routine[s].status = "deleted" =>
            routine'[s].status = "deleted" \/ routine'[s].revision > routine[s].revision]_allVars
=============================================================================
