------------------------- MODULE ScheduledRunsProofs -------------------------
(***************************************************************************)
(* Proofs about the runs of routines, for any routines, runs and workers:  *)
(* a run has one task, the task was given the revision the run was made    *)
(* for, and the outcome written to the run is that of the task.  None of   *)
(* it depends on how long leases last.                                     *)
(***************************************************************************)
EXTENDS ScheduledRuns, FiniteSetTheorems, TLAPS

-----------------------------------------------------------------------------
(* The routine, as users, the dispatcher and failures change it.           *)

Statuses == {"none", "awaiting_confirmation", "active", "paused",
             "needs_attention", "completed", "expired", "deleted"}

(* A routine that does not exist yet has no revision; revisions only grow. *)
Unborn == \A s \in Schedules : routine[s].status = "none" => routine[s].revision = 0
RoutineGrows ==
    /\ ContractTypeOK' /\ Unborn'
    /\ \A s \in Schedules : routine[s].revision <= routine'[s].revision

LEMMA RoutineRows ==
    ASSUME ContractAssumption, ContractTypeOK, NEW s \in Schedules
    PROVE  /\ routine[s] \in RoutineRow
           /\ routine[s].revision \in 0..MaxRevision /\ MaxRevision \in Nat
           /\ routine[s].status \in Statuses
  BY DEF ContractTypeOK, ContractAssumption, RoutineRow, Statuses

LEMMA RoutineKept ==
    ASSUME ContractAssumption, ContractTypeOK, Unborn, routine' = routine
    PROVE  RoutineGrows
  BY RoutineRows DEF RoutineGrows, ContractTypeOK, Unborn

LEMMA RoutineStored ==
    ASSUME ContractAssumption, ContractTypeOK, Unborn, NEW s \in Schedules,
           NEW r \in RoutineRow, routine[s].revision <= r.revision, r.status # "none",
           routine' = [routine EXCEPT ![s] = r]
    PROVE  RoutineGrows
  <1>1. ContractTypeOK'
    BY DEF ContractTypeOK
  <1>2. /\ routine'[s] = r
        /\ \A t \in Schedules \ {s} : routine'[t] = routine[t]
    BY DEF ContractTypeOK
  <1>3. Unborn'
    BY <1>2 DEF Unborn
  <1>4. \A t \in Schedules : routine[t].revision <= routine'[t].revision
    BY <1>2, RoutineRows
  <1>5. QED
    BY <1>1, <1>3, <1>4 DEF RoutineGrows

LEMMA PublishGrows ==
    ASSUME ContractAssumption, ContractTypeOK, Unborn, NEW s \in Schedules,
           NEW r \in 1..MaxRevision, Publish(s, r)
    PROVE  RoutineGrows
  <1> DEFINE new == [routine[s] EXCEPT !.status = "active", !.revision = r,
                                       !.authorised = TRUE, !.due = TRUE]
  <1>1. routine' = [routine EXCEPT ![s] = new]
    BY DEF Publish
  <1>2. r \in 0..MaxRevision
    BY DEF ContractAssumption
  <1>3. new \in RoutineRow /\ new.revision = r /\ new.status = "active"
    BY <1>2, RoutineRows DEF RoutineRow
  <1>4. routine[s].revision <= r
    <2>1. r > routine[s].revision \/ r = routine[s].revision
      BY DEF Publish
    <2>2. QED
      BY <1>2, <2>1, RoutineRows
  <1> HIDE DEF new
  <1>5. QED
    BY <1>1, <1>3, <1>4, RoutineStored

LEMMA DraftGrows ==
    ASSUME ContractAssumption, ContractTypeOK, Unborn, NEW s \in Schedules, Draft(s)
    PROVE  RoutineGrows
  <1> DEFINE new == [routine[s] EXCEPT !.status = "awaiting_confirmation",
                                       !.revision = 1, !.due = TRUE]
  <1>1. routine' = [routine EXCEPT ![s] = new] /\ routine[s].revision = 0
    BY DEF Draft, Unborn
  <1>2. 1 \in 0..MaxRevision
    BY DEF ContractAssumption
  <1>3. new \in RoutineRow /\ new.revision = 1 /\ new.status = "awaiting_confirmation"
    BY <1>2, RoutineRows DEF RoutineRow
  <1>4. routine[s].revision <= new.revision
    BY <1>1, <1>3
  <1> HIDE DEF new
  <1>5. QED
    BY <1>1, <1>3, <1>4, RoutineStored

(* Anything else keeps the revision.                                       *)
LEMMA StatusGrows ==
    ASSUME ContractAssumption, ContractTypeOK, Unborn, NEW s \in Schedules,
           NEW r \in RoutineRow, r.revision = routine[s].revision, r.status # "none",
           routine' = [routine EXCEPT ![s] = r]
    PROVE  RoutineGrows
  <1>1. routine[s].revision <= r.revision
    BY RoutineRows
  <1>2. QED
    BY <1>1, RoutineStored

LEMMA UserChangeGrows ==
    ASSUME ContractAssumption, ContractTypeOK, Unborn, NEW s \in Schedules, UserChange(s)
    PROVE  RoutineGrows
  <1>1. CASE \E r \in 1..MaxRevision : Publish(s, r)
    BY <1>1, PublishGrows
  <1>2. CASE Draft(s)
    BY <1>2, DraftGrows
  <1>3. CASE DropDraft(s)
    <2> PICK status \in {"expired", "deleted"} :
            routine' = [routine EXCEPT ![s] = [routine[s] EXCEPT !.status = status, !.due = FALSE]]
      BY <1>3 DEF DropDraft
    <2> DEFINE new == [routine[s] EXCEPT !.status = status, !.due = FALSE]
    <2>1. new \in RoutineRow /\ new.revision = routine[s].revision /\ new.status # "none"
      BY RoutineRows DEF RoutineRow
    <2>2. routine' = [routine EXCEPT ![s] = new]
      OBVIOUS
    <2> HIDE DEF new
    <2>3. QED
      BY <2>1, <2>2, StatusGrows
  <1>4. CASE Pause(s)
    <2> DEFINE new == [routine[s] EXCEPT !.status = "paused"]
    <2>1. new \in RoutineRow /\ new.revision = routine[s].revision /\ new.status # "none"
      BY RoutineRows DEF RoutineRow
    <2>2. routine' = [routine EXCEPT ![s] = new]
      BY <1>4 DEF Pause
    <2> HIDE DEF new
    <2>3. QED
      BY <2>1, <2>2, StatusGrows
  <1>5. CASE Resume(s)
    <2> PICK goesOn \in BOOLEAN :
            routine' = [routine EXCEPT ![s] = [routine[s] EXCEPT !.due = goesOn,
                            !.status = IF goesOn THEN "active" ELSE "completed"]]
      BY <1>5 DEF Resume
    <2> DEFINE new == [routine[s] EXCEPT !.due = goesOn,
                            !.status = IF goesOn THEN "active" ELSE "completed"]
    <2>1. new \in RoutineRow /\ new.revision = routine[s].revision /\ new.status # "none"
      BY RoutineRows DEF RoutineRow
    <2>2. routine' = [routine EXCEPT ![s] = new]
      OBVIOUS
    <2> HIDE DEF new
    <2>3. QED
      BY <2>1, <2>2, StatusGrows
  <1>6. CASE Delete(s)
    <2> DEFINE new == [routine[s] EXCEPT !.status = "deleted", !.authorised = FALSE, !.due = FALSE]
    <2>1. new \in RoutineRow /\ new.revision = routine[s].revision /\ new.status # "none"
      BY RoutineRows DEF RoutineRow
    <2>2. routine' = [routine EXCEPT ![s] = new]
      BY <1>6 DEF Delete
    <2> HIDE DEF new
    <2>3. QED
      BY <2>1, <2>2, StatusGrows
  <1>7. QED
    BY <1>1, <1>2, <1>3, <1>4, <1>5, <1>6 DEF UserChange

(* What the worker does to it; a routine that runs is not a draft.         *)
LEMMA RunNowGrows ==
    ASSUME ContractAssumption, ContractTypeOK, Unborn, NEW s \in Schedules, RunNow(s)
    PROVE  RoutineGrows /\ routine'[s].revision = routine[s].revision
  <1> DEFINE new == [routine[s] EXCEPT !.ran = TRUE]
  <1>1. new \in RoutineRow /\ new.revision = routine[s].revision /\ new.status # "none"
    BY RoutineRows DEF RoutineRow, RunNow
  <1>2. routine' = [routine EXCEPT ![s] = new]
    BY DEF RunNow
  <1> HIDE DEF new
  <1>3. QED
    BY <1>1, <1>2, StatusGrows DEF ContractTypeOK

LEMMA DispatchGrows ==
    ASSUME ContractAssumption, ContractTypeOK, Unborn, NEW s \in Schedules, Dispatch(s)
    PROVE  RoutineGrows /\ routine'[s].revision = routine[s].revision
  <1> PICK following \in BOOLEAN :
            routine' = [routine EXCEPT ![s] = [routine[s] EXCEPT !.ran = TRUE, !.due = following,
                            !.status = IF following THEN "active" ELSE "completed"]]
    BY DEF Dispatch
  <1> DEFINE new == [routine[s] EXCEPT !.ran = TRUE, !.due = following,
                            !.status = IF following THEN "active" ELSE "completed"]
  <1>1. new \in RoutineRow /\ new.revision = routine[s].revision /\ new.status # "none"
    BY RoutineRows DEF RoutineRow
  <1>2. routine' = [routine EXCEPT ![s] = new]
    OBVIOUS
  <1> HIDE DEF new
  <1>3. QED
    BY <1>1, <1>2, StatusGrows DEF ContractTypeOK

LEMMA FlagGrows ==
    ASSUME ContractAssumption, ContractTypeOK, Unborn, NEW s \in Schedules, Flag(s)
    PROVE  RoutineGrows
  <1> DEFINE new == [routine[s] EXCEPT !.status = "needs_attention"]
  <1>1. new \in RoutineRow /\ new.revision = routine[s].revision /\ new.status # "none"
    BY RoutineRows DEF RoutineRow
  <1>2. routine' = [routine EXCEPT ![s] = new]
    BY DEF Flag
  <1> HIDE DEF new
  <1>3. QED
    BY <1>1, <1>2, StatusGrows

-----------------------------------------------------------------------------
(* The inductive invariant.                                                *)

(* A run is made for a revision the routine has had, and a worker's job is *)
(* a run: once it has read the routine, the revision it has seen lies      *)
(* between the run's and the routine's, and once it has read the grant of  *)
(* the run's revision, the three were one.                                 *)
RunsBehind ==
    \A i \in Runs : Exists(i) =>
        /\ run[i].routine \in Schedules
        /\ run[i].revision <= routine[run[i].routine].revision
JobFits(job) ==
    job.phase # "idle" =>
        /\ job.run \in Runs /\ Exists(job.run)
        /\ job.phase \in {"read", "granted"} =>
            /\ run[job.run].revision <= job.seen
            /\ job.seen <= routine[run[job.run].routine].revision
        /\ job.phase = "granted" => job.seen = run[job.run].revision
JobsFit == \A w \in Workers : JobFits(worker[w])
TaskOfRun == \A i \in Runs : task[i].status # "none" => Exists(i)

RunsInvariant ==
    /\ TypeOK /\ Unborn /\ RunsBehind /\ JobsFit /\ TaskOfRun
    /\ TaskRunsItsRevision /\ OutcomeIsTrue

RowsTyped == run \in [Runs -> RunRow]

LEMMA RunRows ==
    ASSUME RunsAssumption, RowsTyped, NEW i \in Runs
    PROVE  /\ run[i] \in RunRow /\ run[i].revision \in 0..MaxRevision
           /\ run[i].attempts \in 0..MaxAttempts /\ MaxAttempts \in Nat
           /\ run[i].routine \in Schedules \cup {NoRun}
  BY DEF RowsTyped, RunRow, RunsAssumption

-----------------------------------------------------------------------------
(* What a step may do to runs and tasks.                                   *)

(* A run stays the run of that revision of that routine.                   *)
RunsStay ==
    /\ RowsTyped'
    /\ \A i \in Runs : Exists(i) =>
            /\ run'[i].status # "none"
            /\ run'[i].routine = run[i].routine /\ run'[i].revision = run[i].revision

(* No run is made or ends.                                                 *)
NoneMade == \A i \in Runs : run'[i].status # "none" => Exists(i)
NoneEnds ==
    \A i \in Runs : run'[i].status \in {"completed", "failed"} => run'[i].status = run[i].status

LEMMA RunsBehindStays ==
    ASSUME ContractAssumption, RunsAssumption, ContractTypeOK, RowsTyped,
           RunsBehind, RoutineGrows, RunsStay, NoneMade
    PROVE  RunsBehind'
  <1> SUFFICES ASSUME NEW i \in Runs, run'[i].status # "none"
               PROVE  /\ run'[i].routine \in Schedules
                      /\ run'[i].revision <= routine'[run'[i].routine].revision
    BY DEF RunsBehind, Exists
  <1>1. /\ run[i].routine \in Schedules /\ run[i].revision <= routine[run[i].routine].revision
        /\ run'[i].routine = run[i].routine /\ run'[i].revision = run[i].revision
    BY DEF NoneMade, RunsBehind, RunsStay
  <1> PICK s : s = run[i].routine
    OBVIOUS
  <1>2. /\ run[i].revision \in Nat /\ routine[s].revision \in Nat
        /\ routine[s].revision <= routine'[s].revision /\ routine'[s].revision \in Nat
    <2>1. /\ run[i].revision \in 0..MaxRevision /\ routine[s].revision \in 0..MaxRevision
          /\ routine[s].revision <= routine'[s].revision
      BY <1>1, RoutineRows, RunRows DEF RoutineGrows
    <2>2. routine'[s].revision \in 0..MaxRevision
      BY <1>1 DEF RoutineGrows, ContractTypeOK, RoutineRow
    <2>3. QED
      BY <2>1, <2>2
  <1>3. QED
    BY <1>1, <1>2

LEMMA JobStays ==
    ASSUME ContractAssumption, RunsAssumption, ContractTypeOK, RowsTyped,
           RunsBehind, RoutineGrows, RunsStay, NEW job \in Job, JobFits(job)
    PROVE  JobFits(job)'
  <1> SUFFICES ASSUME job.phase # "idle"
               PROVE  /\ job.run \in Runs /\ run'[job.run].status # "none"
                      /\ job.phase \in {"read", "granted"} =>
                            /\ run'[job.run].revision <= job.seen
                            /\ job.seen <= routine'[run'[job.run].routine].revision
                      /\ job.phase = "granted" => job.seen = run'[job.run].revision
    BY DEF JobFits, Exists
  <1> PICK i : i = job.run
    OBVIOUS
  <1>1. /\ i \in Runs /\ Exists(i) /\ run[i].routine \in Schedules
        /\ run'[i].status # "none"
        /\ run'[i].routine = run[i].routine /\ run'[i].revision = run[i].revision
    BY DEF JobFits, RunsBehind, RunsStay
  <1> PICK s : s = run[i].routine
    OBVIOUS
  <1>2. /\ routine[s].revision \in 0..MaxRevision /\ MaxRevision \in Nat
        /\ routine[s].revision <= routine'[s].revision
        /\ routine'[s].revision \in 0..MaxRevision
        /\ job.seen \in 0..MaxRevision
    BY <1>1, RoutineRows DEF RoutineGrows, ContractTypeOK, RoutineRow, Job
  <1>3. ASSUME job.phase \in {"read", "granted"}
        PROVE  run[i].revision <= job.seen /\ job.seen <= routine'[s].revision
    <2>1. run[i].revision <= job.seen /\ job.seen <= routine[s].revision
      BY <1>3 DEF JobFits
    <2>2. QED
      BY <1>2, <2>1
  <1>4. job.phase = "granted" => job.seen = run[i].revision
    BY DEF JobFits
  <1>5. QED
    BY <1>1, <1>3, <1>4

LEMMA JobsStay ==
    ASSUME ContractAssumption, RunsAssumption, TypeOK, RunsBehind, JobsFit,
           RoutineGrows, RunsStay, NEW w \in Workers, NEW job, JobFits(job)',
           worker' = [worker EXCEPT ![w] = job]
    PROVE  JobsFit'
  <1>1. RowsTyped /\ ContractTypeOK
    BY DEF TypeOK, RowsTyped
  <1>2. ASSUME NEW v \in Workers
        PROVE  JobFits(worker[v])'
    <2>1. CASE v = w
      <3>1. worker'[v] = job
        BY <2>1 DEF TypeOK
      <3>2. QED
        BY <3>1 DEF JobFits
    <2>2. CASE v # w
      <3> PICK other : other = worker[v]
        OBVIOUS
      <3>1. worker'[v] = other /\ other \in Job
        BY <2>2 DEF TypeOK
      <3>2. JobFits(other)
        BY DEF JobsFit, JobFits
      <3>3. JobFits(other)'
        BY <1>1, <3>1, <3>2, JobStays
      <3>4. QED
        BY <3>1, <3>3 DEF JobFits
    <2>3. QED
      BY <2>1, <2>2
  <1>3. QED
    BY <1>2 DEF JobsFit, JobFits

-----------------------------------------------------------------------------
(* Preservation, in parts.                                                 *)

(* A step that keeps the rows of runs keeps the workers' jobs and the      *)
(* runs' place behind their routines.                                      *)
WorkersTyped == worker \in [Workers -> Job] /\ crashes \in 0..MaxCrashes
Reported ==
    /\ notified' \in [Runs -> BOOLEAN]
    /\ \A i \in Runs : notified[i] => notified'[i]
TasksSame == task' = task
OutcomeKept ==
    \A i \in Runs :
        /\ run'[i].status = "completed" => task'[i].status = "done"
        /\ run'[i].status = "failed" => notified'[i] \/ task'[i].status \in {"done", "failed"}

LEMMA OutcomeStays ==
    ASSUME OutcomeIsTrue, NoneEnds, TasksSame, Reported
    PROVE  OutcomeKept
  BY DEF OutcomeIsTrue, NoneEnds, TasksSame, Reported, OutcomeKept

LEMMA TasksStay ==
    ASSUME RunsInvariant, RunsStay, TasksSame
    PROVE  task' \in [Runs -> TaskRow] /\ TaskOfRun' /\ TaskRunsItsRevision'
  <1>1. task' \in [Runs -> TaskRow]
    BY DEF RunsInvariant, TypeOK, TasksSame
  <1>2. TaskOfRun'
    BY DEF RunsInvariant, TaskOfRun, Exists, RunsStay, TasksSame
  <1>3. TaskRunsItsRevision'
    BY DEF RunsInvariant, TaskOfRun, TaskRunsItsRevision, RunsStay, TasksSame
  <1>4. QED
    BY <1>1, <1>2, <1>3

LEMMA InvariantStays ==
    ASSUME RunsInvariant, RoutineGrows, RunsStay, RunsBehind', JobsFit', WorkersTyped',
           task' \in [Runs -> TaskRow], TaskOfRun', TaskRunsItsRevision', Reported, OutcomeKept
    PROVE  RunsInvariant'
  <1>1. TypeOK'
    BY DEF TypeOK, RoutineGrows, RunsStay, RowsTyped, WorkersTyped, Reported
  <1>2. OutcomeIsTrue'
    BY DEF OutcomeIsTrue, OutcomeKept
  <1>3. QED
    BY <1>1, <1>2 DEF RunsInvariant, RoutineGrows

LEMMA Parts ==
    ASSUME RunsInvariant
    PROVE  /\ TypeOK /\ ContractTypeOK /\ RowsTyped /\ Unborn /\ RunsBehind /\ JobsFit
           /\ TaskOfRun /\ TaskRunsItsRevision /\ OutcomeIsTrue
           /\ task \in [Runs -> TaskRow] /\ notified \in [Runs -> BOOLEAN]
           /\ worker \in [Workers -> Job] /\ crashes \in 0..MaxCrashes
  BY DEF RunsInvariant, TypeOK, RowsTyped

(* A step of worker w, that makes no run and ends none.                    *)
LEMMA WorkerStep ==
    ASSUME ContractAssumption, RunsAssumption, RunsInvariant, RoutineGrows, RunsStay,
           NoneMade, NoneEnds, TasksSame, Reported, crashes' \in 0..MaxCrashes,
           NEW w \in Workers, NEW job \in Job, JobFits(job)',
           worker' = [worker EXCEPT ![w] = job]
    PROVE  RunsInvariant'
  <1>1. JobsFit'
    BY Parts, JobsStay
  <1>2. WorkersTyped'
    BY Parts DEF WorkersTyped
  <1>3. RunsBehind'
    BY Parts, RunsBehindStays
  <1>4. task' \in [Runs -> TaskRow] /\ TaskOfRun' /\ TaskRunsItsRevision'
    BY TasksStay
  <1>5. OutcomeKept
    BY Parts, OutcomeStays
  <1>6. QED
    BY <1>1, <1>2, <1>3, <1>4, <1>5, InvariantStays

(* A step of no worker.                                                    *)
LEMMA WorkersKept ==
    ASSUME ContractAssumption, RunsAssumption, RunsInvariant, RoutineGrows, RunsStay,
           UNCHANGED <<worker, crashes>>
    PROVE  JobsFit' /\ WorkersTyped'
  <1>1. WorkersTyped'
    BY Parts DEF WorkersTyped
  <1>2. ASSUME NEW v \in Workers PROVE JobFits(worker[v])'
    <2> PICK job : job = worker[v]
      OBVIOUS
    <2>1. job \in Job /\ JobFits(job)
      BY Parts DEF JobsFit, JobFits
    <2>2. JobFits(job)'
      BY <2>1, Parts, JobStays
    <2>3. worker'[v] = job
      OBVIOUS
    <2>4. QED
      BY <2>2, <2>3 DEF JobFits
  <1>3. QED
    BY <1>1, <1>2 DEF JobsFit

LEMMA NoRunWritten ==
    ASSUME RunsInvariant, UNCHANGED run
    PROVE  RunsStay /\ NoneMade /\ NoneEnds
  BY DEF RunsInvariant, TypeOK, RunsStay, RowsTyped, NoneMade, NoneEnds, Exists

(* A run's row is written, of the same revision of the same routine.       *)
LEMMA RunWritten ==
    ASSUME RunsInvariant, NEW i \in Runs, Exists(i), NEW r \in RunRow,
           r.status # "none", r.routine = run[i].routine, r.revision = run[i].revision,
           run' = [run EXCEPT ![i] = r]
    PROVE  /\ RunsStay /\ NoneMade
           /\ r.status \notin {"completed", "failed"} => NoneEnds
           /\ run'[i] = r /\ \A k \in Runs \ {i} : run'[k] = run[k]
  <1>1. RowsTyped' /\ run'[i] = r /\ \A k \in Runs \ {i} : run'[k] = run[k]
    BY Parts DEF RowsTyped
  <1>2. RunsStay
    BY <1>1 DEF RunsStay, Exists
  <1>3. NoneMade
    BY <1>1 DEF NoneMade, Exists
  <1>4. r.status \notin {"completed", "failed"} => NoneEnds
    BY <1>1 DEF NoneEnds
  <1>5. QED
    BY <1>1, <1>2, <1>3, <1>4

LEMMA NothingReported == RunsInvariant /\ UNCHANGED notified => Reported
  BY DEF RunsInvariant, TypeOK, Reported

LEMMA IdleFits ==
    ASSUME ContractAssumption
    PROVE  /\ Idle \in Job /\ Idle.phase = "idle" /\ Idle.run = NoRun
           /\ JobFits(Idle) /\ JobFits(Idle)'
  <1>1. 0 \in 0..MaxRevision /\ Idle.phase = "idle" /\ Idle.run = NoRun
    BY DEF Idle, ContractAssumption
  <1>2. JobFits(Idle) /\ JobFits(Idle)'
    BY DEF Idle, JobFits
  <1>3. QED
    BY <1>1, <1>2 DEF Idle, Job

(* A worker lets go of its run; nothing else changes, but what is reported.*)
LEMMA ReleaseStep ==
    ASSUME ContractAssumption, RunsAssumption, RunsInvariant, RoutineGrows, RunsStay,
           NoneMade, NoneEnds, TasksSame, Reported, crashes' \in 0..MaxCrashes,
           NEW w \in Workers, Release(w)
    PROVE  RunsInvariant'
  <1> PICK job : job = Idle
    OBVIOUS
  <1>1. job \in Job /\ job.phase = "idle"
    BY IdleFits
  <1>2. JobFits(job)'
    BY <1>1 DEF JobFits
  <1>3. worker' = [worker EXCEPT ![w] = job]
    BY DEF Release
  <1>4. QED
    BY <1>1, <1>2, <1>3, WorkerStep

-----------------------------------------------------------------------------
(* The steps of a worker.                                                  *)

LEMMA CountRunsKeeps ==
    ASSUME ContractAssumption, RunsAssumption, RunsInvariant,
           NEW w \in Workers, NEW i \in Runs, CountRuns(w, i)
    PROVE  RunsInvariant'
  <1> DEFINE room == Cardinality(Running(Runs \ {i})) < MaxConcurrent
  <1> PICK job : job = [Idle EXCEPT !.run = i, !.phase = "counted", !.room = room]
    OBVIOUS
  <1>1. /\ worker' = [worker EXCEPT ![w] = job]
        /\ UNCHANGED <<routine, run, task, notified, crashes>>
        /\ Exists(i)
    BY DEF CountRuns, Claimable, Exists
  <1>2. room \in BOOLEAN
    OBVIOUS
  <1> HIDE DEF room
  <1>3. job \in Job /\ job.run = i /\ job.phase = "counted"
    BY <1>2, IdleFits DEF Job
  <1>4. JobFits(job)'
    BY <1>1, <1>3 DEF JobFits, Exists
  <1>5. RoutineGrows /\ RunsStay /\ NoneMade /\ NoneEnds /\ TasksSame /\ Reported
    BY <1>1, Parts, RoutineKept, NoRunWritten, NothingReported DEF TasksSame
  <1>6. QED
    BY <1>1, <1>3, <1>4, <1>5, Parts, WorkerStep

LEMMA JobAtHand ==
    ASSUME RunsInvariant, NEW w \in Workers, worker[w].phase # "idle"
    PROVE  /\ worker[w] \in Job /\ worker[w].run \in Runs /\ Exists(worker[w].run)
           /\ run[worker[w].run] \in RunRow
  <1>1. worker[w] \in Job
    BY Parts
  <1>2. worker[w].run \in Runs /\ Exists(worker[w].run)
    BY Parts DEF JobsFit, JobFits
  <1>3. QED
    BY <1>1, <1>2, Parts DEF RowsTyped

LEMMA ClaimRunKeeps ==
    ASSUME ContractAssumption, RunsAssumption, RunsInvariant, NEW w \in Workers, ClaimRun(w)
    PROVE  RunsInvariant'
  <1> PICK i : i = worker[w].run
    OBVIOUS
  <1>1. worker[w].phase = "counted"
    BY DEF ClaimRun
  <1>2. worker[w] \in Job /\ i \in Runs /\ Exists(i) /\ run[i] \in RunRow
    BY <1>1, JobAtHand
  <1>3. /\ UNCHANGED <<routine, task, notified, crashes>>
        /\ RoutineGrows /\ TasksSame /\ Reported
    BY Parts, RoutineKept, NothingReported DEF ClaimRun, TasksSame
  <1>4. CASE /\ run' = [run EXCEPT ![i] = [run[i] EXCEPT !.status = "running", !.lease = "held",
                    !.attempts = IF run[i].attempts < MaxAttempts
                                 THEN run[i].attempts + 1 ELSE run[i].attempts]]
             /\ worker' = [worker EXCEPT ![w] = [worker[w] EXCEPT !.phase = "claimed",
                    !.known = task[i].status # "none"]]
    <2> DEFINE tries == IF run[i].attempts < MaxAttempts
                        THEN run[i].attempts + 1 ELSE run[i].attempts
               known == task[i].status # "none"
    <2> PICK r : r = [run[i] EXCEPT !.status = "running", !.lease = "held", !.attempts = tries]
      OBVIOUS
    <2> PICK job : job = [worker[w] EXCEPT !.phase = "claimed", !.known = known]
      OBVIOUS
    <2>1. tries \in 0..MaxAttempts /\ known \in BOOLEAN
      BY <1>2, Parts, RunRows
    <2>2. run' = [run EXCEPT ![i] = r] /\ worker' = [worker EXCEPT ![w] = job]
      BY <1>4
    <2> HIDE DEF tries, known
    <2>3. /\ r \in RunRow /\ r.status = "running"
          /\ r.routine = run[i].routine /\ r.revision = run[i].revision
      BY <1>2, <2>1 DEF RunRow
    <2>4. job \in Job /\ job.phase = "claimed" /\ job.run = i
      BY <1>2, <2>1 DEF Job
    <2>5. RunsStay /\ NoneMade /\ NoneEnds
      <3>1. r.status # "none" /\ r.status \notin {"completed", "failed"}
        BY <2>3
      <3>2. QED
        BY <1>2, <2>2, <2>3, <3>1, RunWritten
    <2>6. JobFits(job)'
      BY <1>2, <2>4, <2>5 DEF JobFits, RunsStay, Exists
    <2>7. QED
      BY <1>3, <2>2, <2>4, <2>5, <2>6, Parts, WorkerStep
  <1>5. CASE Release(w) /\ UNCHANGED run
    BY <1>3, <1>5, NoRunWritten, Parts, ReleaseStep
  <1>6. QED
    BY <1>4, <1>5 DEF ClaimRun

LEMMA ReadRoutineKeeps ==
    ASSUME ContractAssumption, RunsAssumption, RunsInvariant, NEW w \in Workers, ReadRoutine(w)
    PROVE  RunsInvariant'
  <1> PICK i : i = worker[w].run
    OBVIOUS
  <1> PICK s : s = run[i].routine
    OBVIOUS
  <1> DEFINE stopped == ~run[i].manual /\ routine[s].status \in {"paused", "deleted"}
             status == IF stopped THEN "skipped" ELSE run[i].status
             phase == IF stopped THEN "failing" ELSE "read"
  <1> PICK r : r = [run[i] EXCEPT !.status = status]
    OBVIOUS
  <1> PICK job : job = [worker[w] EXCEPT !.phase = phase, !.seen = routine[s].revision]
    OBVIOUS
  <1>1. /\ worker[w].phase = "claimed"
        /\ run' = [run EXCEPT ![i] = r]
        /\ worker' = [worker EXCEPT ![w] = job]
        /\ UNCHANGED <<routine, task, notified, crashes>>
    BY DEF ReadRoutine
  <1>2. worker[w] \in Job /\ i \in Runs /\ Exists(i) /\ run[i] \in RunRow
    BY <1>1, JobAtHand
  <1>3. /\ s \in Schedules /\ run[i].revision <= routine[s].revision
        /\ routine[s].revision \in 0..MaxRevision
    BY <1>2, Parts, RoutineRows DEF RunsBehind
  <1>4. /\ status \in {"skipped", run[i].status} /\ status # "none"
        /\ status \in {"none", "ready", "running", "completed", "failed", "skipped"}
        /\ phase \in {"failing", "read"}
    BY <1>2 DEF RunRow, Exists
  <1> HIDE DEF stopped, status, phase
  <1>5. /\ r \in RunRow /\ r.status = status
        /\ r.routine = run[i].routine /\ r.revision = run[i].revision
    BY <1>2, <1>4 DEF RunRow
  <1>6. job \in Job /\ job.phase = phase /\ job.run = i /\ job.seen = routine[s].revision
    BY <1>2, <1>3, <1>4 DEF Job
  <1>7. RunsStay /\ NoneMade /\ run'[i] = r /\ \A k \in Runs \ {i} : run'[k] = run[k]
    BY <1>1, <1>2, <1>4, <1>5, RunWritten
  <1>8. NoneEnds
    BY <1>4, <1>5, <1>7 DEF NoneEnds
  <1>9. JobFits(job)'
    <2>1. /\ routine'[s].revision = routine[s].revision
          /\ routine[s].revision <= routine[s].revision
      BY <1>1, <1>3, RoutineRows, Parts
    <2>2. /\ job.run = i /\ run'[i] = r /\ r.status # "none" /\ r.routine = s
          /\ r.revision <= job.seen /\ job.seen <= routine'[s].revision
      BY <1>3, <1>4, <1>5, <1>6, <1>7, <2>1
    <2>3. job.phase # "granted" /\ i \in Runs
      BY <1>2, <1>4, <1>6
    <2>4. QED
      BY <2>2, <2>3 DEF JobFits, Exists
  <1>10. RoutineGrows /\ TasksSame /\ Reported
    BY <1>1, Parts, RoutineKept, NothingReported DEF TasksSame
  <1>11. QED
    BY <1>1, <1>6, <1>7, <1>8, <1>9, <1>10, Parts, WorkerStep

LEMMA ReadGrantKeeps ==
    ASSUME ContractAssumption, RunsAssumption, RunsInvariant, NEW w \in Workers, ReadGrant(w)
    PROVE  RunsInvariant'
  <1> PICK i : i = worker[w].run
    OBVIOUS
  <1> PICK job : job = IF ~Granted(i) THEN [worker[w] EXCEPT !.phase = "failing"]
                       ELSE IF worker[w].known THEN Idle
                       ELSE [worker[w] EXCEPT !.phase = "granted"]
    OBVIOUS
  <1>1. /\ worker[w].phase = "read"
        /\ worker' = [worker EXCEPT ![w] = job]
        /\ UNCHANGED <<routine, run, task, notified, crashes>>
    BY DEF ReadGrant
  <1>2. worker[w] \in Job /\ i \in Runs /\ Exists(i)
    BY <1>1, JobAtHand
  <1>3. JobFits(worker[w]) /\ run[i].routine \in Schedules
    BY <1>2, Parts DEF JobsFit, RunsBehind
  <1>4. ASSUME job = [worker[w] EXCEPT !.phase = "failing"]
        PROVE  job \in Job /\ JobFits(job)
    <2>1. job \in Job /\ job.run = i /\ job.phase = "failing"
      BY <1>2, <1>4 DEF Job
    <2>2. JobFits(job)
      BY <1>2, <2>1 DEF JobFits
    <2>3. QED
      BY <2>1, <2>2
  <1>5. ASSUME Granted(i), job = [worker[w] EXCEPT !.phase = "granted"]
        PROVE  job \in Job /\ JobFits(job)
    <2> PICK s : s = run[i].routine
      OBVIOUS
    <2>1. job \in Job /\ job.run = i /\ job.phase = "granted" /\ job.seen = worker[w].seen
      BY <1>2, <1>5 DEF Job
    <2>2. /\ run[i].revision <= worker[w].seen /\ worker[w].seen <= routine[s].revision
          /\ routine[s].revision = run[i].revision
      BY <1>1, <1>3, <1>5 DEF JobFits, Granted
    <2>3. run[i].revision \in Nat /\ worker[w].seen \in Nat
      BY <1>2, <1>3, Parts, RunRows, RoutineRows DEF Job
    <2>4. worker[w].seen = run[i].revision
      BY <2>2, <2>3
    <2>5. JobFits(job)
      BY <1>2, <2>1, <2>2, <2>4 DEF JobFits
    <2>6. QED
      BY <2>1, <2>5
  <1>6. job \in Job /\ JobFits(job)
    BY <1>4, <1>5, IdleFits
  <1>7. RoutineGrows /\ RunsStay /\ NoneMade /\ NoneEnds /\ TasksSame /\ Reported
    BY <1>1, Parts, RoutineKept, NoRunWritten, NothingReported DEF TasksSame
  <1>8. JobFits(job)'
    BY <1>6, <1>7, Parts, JobStays
  <1>9. QED
    BY <1>1, <1>6, <1>7, <1>8, Parts, WorkerStep

(* A worker that has found something wrong, wherever it had got.           *)
LEMMA FailingStep ==
    ASSUME ContractAssumption, RunsAssumption, RunsInvariant,
           NEW w \in Workers, worker[w].phase # "idle",
           worker' = [worker EXCEPT ![w].phase = "failing"],
           UNCHANGED <<routine, run, task, notified, crashes>>
    PROVE  RunsInvariant'
  <1> PICK job : job = [worker[w] EXCEPT !.phase = "failing"]
    OBVIOUS
  <1>1. worker' = [worker EXCEPT ![w] = job]
    OBVIOUS
  <1>2. worker[w] \in Job /\ worker[w].run \in Runs /\ Exists(worker[w].run)
    BY JobAtHand
  <1>3. job \in Job /\ job.phase = "failing" /\ job.run = worker[w].run
    BY <1>2 DEF Job
  <1>4. JobFits(job)'
    BY <1>2, <1>3 DEF JobFits, Exists
  <1>5. RoutineGrows /\ RunsStay /\ NoneMade /\ NoneEnds /\ TasksSame /\ Reported
    BY Parts, RoutineKept, NoRunWritten, NothingReported DEF TasksSame
  <1>6. QED
    BY <1>1, <1>3, <1>4, <1>5, Parts, WorkerStep

LEMMA BreakKeeps ==
    ASSUME ContractAssumption, RunsAssumption, RunsInvariant, NEW w \in Workers, Break(w)
    PROVE  RunsInvariant'
  BY FailingStep DEF Break

(* The task of a run that has none yet is given the revision the worker    *)
(* has seen, which is the run's.                                           *)
LEMMA MaterialiseKeeps ==
    ASSUME ContractAssumption, RunsAssumption, RunsInvariant, NEW w \in Workers, Materialise(w)
    PROVE  RunsInvariant'
  <1> PICK i : i = worker[w].run
    OBVIOUS
  <1>1. worker[w].phase = "granted" /\ UNCHANGED <<routine, run, notified, crashes>>
    BY DEF Materialise
  <1>2. /\ worker[w] \in Job /\ i \in Runs /\ Exists(i)
        /\ worker[w].seen = run[i].revision
    <2>1. worker[w] \in Job /\ i \in Runs /\ Exists(i)
      BY <1>1, JobAtHand
    <2>2. QED
      BY <1>1, <2>1, Parts DEF JobsFit, JobFits
  <1>3. CASE /\ TaskFree(i) /\ Release(w)
             /\ task' = [task EXCEPT ![i] = [status |-> "queued", revision |-> worker[w].seen]]
    <2> PICK new : new = [status |-> "queued", revision |-> worker[w].seen]
      OBVIOUS
    <2>1. new \in TaskRow /\ new.status = "queued" /\ new.revision = run[i].revision
      BY <1>2 DEF TaskRow, Job
    <2>2. /\ task' \in [Runs -> TaskRow] /\ task'[i] = new
          /\ \A k \in Runs \ {i} : task'[k] = task[k]
          /\ task[i].status = "none"
      BY <1>2, <1>3, <2>1, Parts DEF TaskFree
    <2>3. RoutineGrows /\ RunsStay /\ NoneMade /\ Reported
      BY <1>1, Parts, RoutineKept, NoRunWritten, NothingReported
    <2>4. TaskOfRun' /\ TaskRunsItsRevision'
      BY <1>1, <1>2, <2>1, <2>2, Parts DEF TaskOfRun, TaskRunsItsRevision, Exists
    <2>5. OutcomeKept
      BY <1>1, <2>2, Parts DEF OutcomeIsTrue, OutcomeKept
    <2>6. RunsBehind'
      BY <2>3, Parts, RunsBehindStays
    <2>7. WorkersTyped' /\ JobsFit'
      <3> PICK job : job = Idle
        OBVIOUS
      <3>1. job \in Job /\ job.phase = "idle"
        BY IdleFits
      <3>2. JobFits(job)' /\ worker' = [worker EXCEPT ![w] = job]
        BY <1>3, <3>1 DEF JobFits, Release
      <3>3. WorkersTyped'
        BY <1>1, <3>1, <3>2, Parts DEF WorkersTyped
      <3>4. QED
        BY <2>3, <3>2, <3>3, Parts, JobsStay
    <2>8. QED
      BY <2>2, <2>3, <2>4, <2>5, <2>6, <2>7, InvariantStays
  <1>4. CASE worker' = [worker EXCEPT ![w].phase = "failing"] /\ UNCHANGED task
    BY <1>1, <1>4, FailingStep
  <1>5. QED
    BY <1>3, <1>4 DEF Materialise

LEMMA HandleFailureKeeps ==
    ASSUME ContractAssumption, RunsAssumption, RunsInvariant, NEW w \in Workers,
           HandleFailure(w)
    PROVE  RunsInvariant'
  <1> PICK i : i = worker[w].run
    OBVIOUS
  <1>1. worker[w].phase = "failing" /\ Release(w) /\ UNCHANGED <<task, crashes>>
    BY DEF HandleFailure
  <1>2. i \in Runs /\ Exists(i) /\ run[i] \in RunRow
    BY <1>1, JobAtHand
  <1>3. ASSUME NEW status \in {"ready", "failed"},
               run' = [run EXCEPT ![i].status = status, ![i].lease = "none"]
        PROVE  /\ RunsStay /\ NoneMade /\ (status = "ready" => NoneEnds)
               /\ run'[i].status = status /\ \A k \in Runs \ {i} : run'[k] = run[k]
    <2> PICK r : r = [run[i] EXCEPT !.status = status, !.lease = "none"]
      OBVIOUS
    <2>1. run' = [run EXCEPT ![i] = r]
      BY <1>2, <1>3, Parts DEF RowsTyped, RunRow
    <2>2. /\ r \in RunRow /\ r.status = status /\ r.status # "none"
          /\ r.routine = run[i].routine /\ r.revision = run[i].revision
      BY <1>2 DEF RunRow
    <2>3. status = "ready" => r.status \notin {"completed", "failed"}
      BY <2>2
    <2>4. QED
      BY <1>2, <2>1, <2>2, <2>3, RunWritten
  <1>4. CASE UNCHANGED <<routine, run, notified>>
    <2>1. RoutineGrows /\ RunsStay /\ NoneMade /\ NoneEnds /\ TasksSame /\ Reported
      BY <1>1, <1>4, Parts, RoutineKept, NoRunWritten, NothingReported DEF TasksSame
    <2>2. QED
      BY <1>1, <2>1, Parts, ReleaseStep
  <1>5. CASE /\ run' = [run EXCEPT ![i].status = "ready", ![i].lease = "none"]
             /\ UNCHANGED <<routine, notified>>
    <2>1. RoutineGrows /\ RunsStay /\ NoneMade /\ NoneEnds /\ TasksSame /\ Reported
      BY <1>1, <1>3, <1>5, Parts, RoutineKept, NothingReported DEF TasksSame
    <2>2. QED
      BY <1>1, <2>1, Parts, ReleaseStep
  <1>6. CASE /\ run' = [run EXCEPT ![i].status = "failed", ![i].lease = "none"]
             /\ NotifyFailure(i) /\ Flag(run[i].routine)
    <2>1. run[i].routine \in Schedules
      BY <1>2, Parts DEF RunsBehind
    <2>2. RoutineGrows
      BY <1>6, <2>1, Parts, FlagGrows
    <2>3. /\ RunsStay /\ NoneMade /\ run'[i].status = "failed"
          /\ \A k \in Runs \ {i} : run'[k] = run[k]
      BY <1>3, <1>6
    <2>4. Reported /\ notified'[i]
      BY <1>2, <1>6, Parts DEF NotifyFailure, Reported
    <2>5. task' \in [Runs -> TaskRow] /\ TaskOfRun' /\ TaskRunsItsRevision'
      BY <1>1, <2>3, TasksStay DEF TasksSame
    <2>6. OutcomeKept
      BY <1>1, <2>3, <2>4, Parts DEF OutcomeIsTrue, OutcomeKept, Reported
    <2>7. RunsBehind'
      BY <2>2, <2>3, Parts, RunsBehindStays
    <2>8. WorkersTyped' /\ JobsFit'
      <3> PICK job : job = Idle
        OBVIOUS
      <3>1. job \in Job /\ job.phase = "idle"
        BY IdleFits
      <3>2. JobFits(job)' /\ worker' = [worker EXCEPT ![w] = job]
        BY <1>1, <3>1 DEF JobFits, Release
      <3>3. WorkersTyped'
        BY <1>1, <3>1, <3>2, Parts DEF WorkersTyped
      <3>4. QED
        BY <2>2, <2>3, <3>2, <3>3, Parts, JobsStay
    <2>9. QED
      BY <2>2, <2>3, <2>4, <2>5, <2>6, <2>7, <2>8, InvariantStays
  <1>7. QED
    BY <1>4, <1>5, <1>6 DEF HandleFailure

LEMMA CrashKeeps ==
    ASSUME ContractAssumption, RunsAssumption, RunsInvariant, NEW w \in Workers, Crash(w)
    PROVE  RunsInvariant'
  <1>1. Release(w) /\ UNCHANGED <<routine, run, task, notified>>
    BY DEF Crash
  <1>2. crashes' \in 0..MaxCrashes
    BY Parts DEF Crash, RunsAssumption
  <1>3. RoutineGrows /\ RunsStay /\ NoneMade /\ NoneEnds /\ TasksSame /\ Reported
    BY <1>1, Parts, RoutineKept, NoRunWritten, NothingReported DEF TasksSame
  <1>4. QED
    BY <1>1, <1>2, <1>3, ReleaseStep

-----------------------------------------------------------------------------
(* The other steps.                                                        *)

(* A run is made, of the revision the routine has.                         *)
LEMMA AddRunKeeps ==
    ASSUME ContractAssumption, RunsAssumption, RunsInvariant, RoutineGrows,
           NEW s \in Schedules, routine'[s].revision = routine[s].revision,
           NEW i \in Runs, NEW status \in {"ready", "skipped"}, NEW manual \in BOOLEAN,
           AddRun(i, s, status, manual), UNCHANGED <<task, notified, worker, crashes>>
    PROVE  RunsInvariant'
  <1> PICK r : r = [NoRunRow EXCEPT !.status = status, !.routine = s,
                        !.revision = routine[s].revision, !.manual = manual]
    OBVIOUS
  <1>1. run' = [run EXCEPT ![i] = r] /\ ~Exists(i)
    BY DEF AddRun
  <1>2. NoRunRow \in RunRow
    <2>1. 0 \in 0..MaxAttempts /\ 0 \in 0..MaxRevision
      BY DEF RunsAssumption, ContractAssumption
    <2>2. QED
      BY <2>1 DEF NoRunRow, RunRow
  <1>3. routine[s].revision \in 0..MaxRevision
    BY Parts, RoutineRows
  <1>4. /\ r \in RunRow /\ r.status = status
        /\ r.routine = s /\ r.revision = routine[s].revision
    BY <1>2, <1>3 DEF RunRow
  <1>5. /\ RowsTyped' /\ run'[i] = r /\ \A k \in Runs \ {i} : run'[k] = run[k]
    BY <1>1, <1>4, Parts DEF RowsTyped
  <1>6. RunsStay
    BY <1>1, <1>5 DEF RunsStay, Exists
  <1>7. RunsBehind'
    <2> SUFFICES ASSUME NEW k \in Runs, run'[k].status # "none"
                 PROVE  /\ run'[k].routine \in Schedules
                        /\ run'[k].revision <= routine'[run'[k].routine].revision
      BY DEF RunsBehind, Exists
    <2>1. CASE k = i
      <3>1. routine[s].revision <= routine[s].revision
        BY <1>3, RoutineRows, Parts
      <3>2. QED
        BY <1>4, <1>5, <2>1, <3>1
    <2>2. CASE k # i
      <3> PICK t : t = run[k].routine
        OBVIOUS
      <3>1. /\ run'[k] = run[k] /\ t \in Schedules /\ run[k].revision <= routine[t].revision
        BY <1>5, <2>2, Parts DEF RunsBehind, Exists
      <3>2. /\ run[k].revision \in 0..MaxRevision /\ routine[t].revision \in 0..MaxRevision
            /\ MaxRevision \in Nat
            /\ routine[t].revision <= routine'[t].revision
            /\ routine'[t].revision \in 0..MaxRevision
        BY <3>1, RunRows, RoutineRows, Parts DEF RoutineGrows, ContractTypeOK, RoutineRow
      <3>3. run[k].revision <= routine'[t].revision
        BY <3>1, <3>2
      <3>4. QED
        BY <3>1, <3>3
    <2>3. QED
      BY <2>1, <2>2
  <1>8. JobsFit' /\ WorkersTyped'
    BY <1>6, WorkersKept
  <1>9. task' \in [Runs -> TaskRow] /\ TaskOfRun' /\ TaskRunsItsRevision'
    BY <1>6, TasksStay DEF TasksSame
  <1>10. OutcomeKept
    BY <1>4, <1>5, Parts DEF OutcomeKept, OutcomeIsTrue
  <1>11. Reported
    BY NothingReported
  <1>12. QED
    BY <1>6, <1>7, <1>8, <1>9, <1>10, <1>11, InvariantStays

LEMMA DispatchRunKeeps ==
    ASSUME ContractAssumption, RunsAssumption, RunsInvariant,
           NEW s \in Schedules, NEW i \in Runs, DispatchRun(s, i)
    PROVE  RunsInvariant'
  <1>1. RoutineGrows /\ routine'[s].revision = routine[s].revision
    BY Parts, DispatchGrows DEF DispatchRun
  <1>2. QED
    BY <1>1, AddRunKeeps DEF DispatchRun

LEMMA RunScheduleNowKeeps ==
    ASSUME ContractAssumption, RunsAssumption, RunsInvariant,
           NEW s \in Schedules, NEW i \in Runs, RunScheduleNow(s, i)
    PROVE  RunsInvariant'
  <1>1. RoutineGrows /\ routine'[s].revision = routine[s].revision
    BY Parts, RunNowGrows DEF RunScheduleNow
  <1>2. QED
    BY <1>1, AddRunKeeps DEF RunScheduleNow

LEMMA UserChangesKeeps ==
    ASSUME ContractAssumption, RunsAssumption, RunsInvariant,
           NEW s \in Schedules, UserChanges(s)
    PROVE  RunsInvariant'
  <1>1. RoutineGrows
    BY Parts, UserChangeGrows DEF UserChanges
  <1>2. UNCHANGED <<run, task, notified, worker, crashes>>
    BY DEF UserChanges, runVars
  <1>3. RunsStay /\ NoneMade /\ NoneEnds /\ TasksSame /\ Reported
    BY <1>2, NoRunWritten, NothingReported DEF TasksSame
  <1>4. RunsBehind' /\ JobsFit' /\ WorkersTyped'
    BY <1>1, <1>2, <1>3, Parts, RunsBehindStays, WorkersKept
  <1>5. task' \in [Runs -> TaskRow] /\ TaskOfRun' /\ TaskRunsItsRevision' /\ OutcomeKept
    BY <1>3, Parts, TasksStay, OutcomeStays
  <1>6. QED
    BY <1>1, <1>3, <1>4, <1>5, InvariantStays

LEMMA LapseKeeps ==
    ASSUME ContractAssumption, RunsAssumption, RunsInvariant, NEW i \in Runs, Lapse(i)
    PROVE  RunsInvariant'
  <1> PICK r : r = [run[i] EXCEPT !.lease = "lapsed"]
    OBVIOUS
  <1>1. run' = [run EXCEPT ![i] = r] /\ UNCHANGED <<routine, task, notified, worker, crashes>>
    BY DEF Lapse
  <1>2. /\ r \in RunRow /\ r.status = run[i].status
        /\ r.routine = run[i].routine /\ r.revision = run[i].revision
    BY Parts, RunRows DEF RunRow
  <1>3. RowsTyped' /\ run'[i] = r /\ \A k \in Runs \ {i} : run'[k] = run[k]
    BY <1>1, <1>2, Parts DEF RowsTyped
  <1>4. RunsStay /\ NoneMade /\ NoneEnds
    BY <1>2, <1>3 DEF RunsStay, NoneMade, NoneEnds, Exists
  <1>5. RoutineGrows /\ TasksSame /\ Reported
    BY <1>1, Parts, RoutineKept, NothingReported DEF TasksSame
  <1>6. RunsBehind' /\ JobsFit' /\ WorkersTyped'
    BY <1>1, <1>4, <1>5, Parts, RunsBehindStays, WorkersKept
  <1>7. task' \in [Runs -> TaskRow] /\ TaskOfRun' /\ TaskRunsItsRevision' /\ OutcomeKept
    BY <1>4, <1>5, Parts, TasksStay, OutcomeStays
  <1>8. QED
    BY <1>4, <1>5, <1>6, <1>7, InvariantStays

LEMMA EndTaskKeeps ==
    ASSUME ContractAssumption, RunsAssumption, RunsInvariant, NEW i \in Runs,
           NEW status \in {"done", "failed"}, EndTask(i, status)
    PROVE  RunsInvariant'
  <1>1. /\ task[i].status = "queued" /\ UNCHANGED <<notified, worker, crashes>>
        /\ task' = [task EXCEPT ![i].status = status]
    BY DEF EndTask
  <1>2. Exists(i) /\ run[i].routine \in Schedules /\ run[i] \in RunRow
    BY <1>1, Parts DEF TaskOfRun, RunsBehind, RowsTyped
  <1> PICK toolsOk \in BOOLEAN :
            run' = [run EXCEPT ![i].lease = "none",
                ![i].status = IF status = "done" /\ toolsOk THEN "completed" ELSE "failed"]
    BY DEF EndTask
  <1> DEFINE ended == IF status = "done" /\ toolsOk THEN "completed" ELSE "failed"
  <1> PICK r : r = [run[i] EXCEPT !.lease = "none", !.status = ended]
    OBVIOUS
  <1>3. run' = [run EXCEPT ![i] = r]
    BY <1>2, Parts DEF RowsTyped, RunRow
  <1>4. ended \in {"completed", "failed"} /\ (ended = "completed" => status = "done")
    OBVIOUS
  <1> HIDE DEF ended
  <1>5. /\ r \in RunRow /\ r.status = ended /\ r.status # "none"
        /\ r.routine = run[i].routine /\ r.revision = run[i].revision
    BY <1>2, <1>4 DEF RunRow
  <1>6. RunsStay /\ NoneMade /\ run'[i] = r /\ \A k \in Runs \ {i} : run'[k] = run[k]
    BY <1>2, <1>3, <1>5, RunWritten
  <1>7. /\ task' \in [Runs -> TaskRow] /\ task'[i].status = status
        /\ task'[i].revision = task[i].revision
        /\ \A k \in Runs \ {i} : task'[k] = task[k]
    BY <1>1, Parts DEF TaskRow
  <1>8. RoutineGrows
    BY <1>2, Parts, FlagGrows, RoutineKept DEF EndTask
  <1>9. Reported
    BY <1>1, NothingReported
  <1>10. RunsBehind' /\ JobsFit' /\ WorkersTyped'
    BY <1>1, <1>6, <1>8, Parts, RunsBehindStays, WorkersKept
  <1>11. TaskOfRun' /\ TaskRunsItsRevision'
    BY <1>1, <1>2, <1>5, <1>6, <1>7, Parts DEF TaskOfRun, TaskRunsItsRevision, Exists
  <1>12. OutcomeKept
    <2> SUFFICES ASSUME NEW k \in Runs
                 PROVE  /\ run'[k].status = "completed" => task'[k].status = "done"
                        /\ run'[k].status = "failed" =>
                                notified'[k] \/ task'[k].status \in {"done", "failed"}
      BY DEF OutcomeKept
    <2>1. CASE k = i
      BY <1>4, <1>5, <1>6, <1>7, <2>1
    <2>2. CASE k # i
      BY <1>1, <1>6, <1>7, <2>2, Parts DEF OutcomeIsTrue
    <2>3. QED
      BY <2>1, <2>2
  <1>13. QED
    BY <1>6, <1>7, <1>8, <1>9, <1>10, <1>11, <1>12, InvariantStays

-----------------------------------------------------------------------------
(* The invariant and what follows from it.                                 *)

LEMMA InitKeeps ==
    ASSUME ContractAssumption, RunsAssumption, Init
    PROVE  RunsInvariant
  <1>1. 0 \in 0..MaxAttempts /\ 0 \in 0..MaxRevision /\ 0 \in 0..MaxCrashes
    BY DEF RunsAssumption, ContractAssumption
  <1>2. ContractTypeOK /\ Unborn
    <2>1. \A s \in Schedules : routine[s].revision = 0
      BY DEF Init, ContractInit
    <2>2. ContractTypeOK
      BY <1>1 DEF Init, ContractInit, ContractTypeOK, RoutineRow
    <2>3. QED
      BY <2>1, <2>2 DEF Unborn
  <1>3. NoRunRow \in RunRow /\ NoRunRow.status = "none"
    BY <1>1 DEF NoRunRow, RunRow
  <1>4. NoTask \in TaskRow /\ NoTask.status = "none"
    BY <1>1 DEF NoTask, TaskRow
  <1>5. /\ \A i \in Runs : run[i] = NoRunRow /\ task[i] = NoTask
        /\ \A w \in Workers : worker[w] = Idle
    BY DEF Init
  <1>6. /\ run \in [Runs -> RunRow] /\ task \in [Runs -> TaskRow]
        /\ worker \in [Workers -> Job] /\ crashes \in 0..MaxCrashes
        /\ notified \in [Runs -> BOOLEAN]
    <2> HIDE DEF NoRunRow, NoTask, Idle
    <2>1. QED
      BY <1>1, <1>3, <1>4, IdleFits DEF Init
  <1>7. RunsBehind /\ TaskOfRun /\ TaskRunsItsRevision /\ OutcomeIsTrue
    BY <1>3, <1>4, <1>5 DEF RunsBehind, TaskOfRun, TaskRunsItsRevision, OutcomeIsTrue, Exists
  <1>8. JobsFit
    BY <1>5, IdleFits DEF JobsFit, JobFits
  <1>9. QED
    BY <1>2, <1>6, <1>7, <1>8 DEF RunsInvariant, TypeOK

LEMMA NextKeeps ==
    ASSUME ContractAssumption, RunsAssumption, RunsInvariant, [Next]_allVars
    PROVE  RunsInvariant'
  <1>1. ASSUME NEW s \in Schedules, UserChanges(s) PROVE RunsInvariant'
    BY <1>1, UserChangesKeeps
  <1>2. ASSUME NEW s \in Schedules, NEW i \in Runs, DispatchRun(s, i) PROVE RunsInvariant'
    BY <1>2, DispatchRunKeeps
  <1>3. ASSUME NEW s \in Schedules, NEW i \in Runs, RunScheduleNow(s, i) PROVE RunsInvariant'
    BY <1>3, RunScheduleNowKeeps
  <1>4. ASSUME NEW w \in Workers, Step(w) PROVE RunsInvariant'
    BY <1>4, ClaimRunKeeps, ReadRoutineKeeps, ReadGrantKeeps, MaterialiseKeeps, BreakKeeps,
       HandleFailureKeeps DEF Step
  <1>5. ASSUME NEW w \in Workers, Crash(w) PROVE RunsInvariant'
    BY <1>5, CrashKeeps
  <1>6. ASSUME NEW w \in Workers, NEW i \in Runs, CountRuns(w, i) PROVE RunsInvariant'
    BY <1>6, CountRunsKeeps
  <1>7. ASSUME NEW i \in Runs, Lapse(i) PROVE RunsInvariant'
    BY <1>7, LapseKeeps
  <1>8. ASSUME NEW i \in Runs, NEW status \in {"done", "failed"}, EndTask(i, status)
        PROVE  RunsInvariant'
    BY <1>8, EndTaskKeeps
  <1>9. CASE UNCHANGED allVars
    <2>1. UNCHANGED <<routine, run, task, notified, worker, crashes>>
      BY <1>9 DEF allVars
    <2>2. /\ RoutineGrows /\ RunsStay /\ NoneMade /\ NoneEnds /\ TasksSame /\ Reported
      BY <2>1, Parts, RoutineKept, NoRunWritten, NothingReported DEF TasksSame
    <2>3. RunsBehind' /\ JobsFit' /\ WorkersTyped'
      BY <2>1, <2>2, Parts, RunsBehindStays, WorkersKept
    <2>4. task' \in [Runs -> TaskRow] /\ TaskOfRun' /\ TaskRunsItsRevision' /\ OutcomeKept
      BY <2>2, Parts, TasksStay, OutcomeStays
    <2>5. QED
      BY <2>2, <2>3, <2>4, InvariantStays
  <1>10. QED
    BY <1>1, <1>2, <1>3, <1>4, <1>5, <1>6, <1>7, <1>8, <1>9 DEF Next

LEMMA RunsInvariantHolds ==
    ASSUME ContractAssumption, RunsAssumption
    PROVE  Spec => []RunsInvariant
  <1>1. Init => RunsInvariant
    BY InitKeeps
  <1>2. RunsInvariant /\ [Next]_allVars => RunsInvariant'
    BY NextKeeps
  <1>3. QED
    BY <1>1, <1>2, PTL DEF Spec

(* The rows of runs and tasks keep their shape, and no run is tried more   *)
(* often than the setting allows.                                          *)
THEOREM RunsTyped ==
    ASSUME ContractAssumption, RunsAssumption
    PROVE  Spec => []TypeOK
  <1>1. RunsInvariant => TypeOK
    BY DEF RunsInvariant
  <1>2. QED
    BY <1>1, RunsInvariantHolds, PTL

(* A task is given the specification of the revision its run was made for, *)
(* though the routine is read, its grant is read and the task is committed *)
(* in separate statements, with users changing the routine in between.     *)
THEOREM TasksRunTheirRevision ==
    ASSUME ContractAssumption, RunsAssumption
    PROVE  Spec => []TaskRunsItsRevision
  <1>1. RunsInvariant => TaskRunsItsRevision
    BY DEF RunsInvariant
  <1>2. QED
    BY <1>1, RunsInvariantHolds, PTL

(* A run is completed only by a task that ended well, and one that failed  *)
(* has told the user.                                                      *)
THEOREM OutcomesAreTrue ==
    ASSUME ContractAssumption, RunsAssumption
    PROVE  Spec => []OutcomeIsTrue
  <1>1. RunsInvariant => OutcomeIsTrue
    BY DEF RunsInvariant
  <1>2. QED
    BY <1>1, RunsInvariantHolds, PTL

OneTask ==
    \A i \in Runs : task[i].status # "none" =>
        /\ task'[i].revision = task[i].revision
        /\ task[i].status # "queued" => task'[i] = task[i]

LEMMA TasksSameIsOne == task' = task => OneTask
  BY DEF OneTask

LEMMA NextOneTask ==
    ASSUME RunsInvariant, [Next]_allVars
    PROVE  [OneTask]_allVars
  <1>1. ASSUME NEW s \in Schedules,
               \/ UserChanges(s)
               \/ \E i \in Runs : DispatchRun(s, i) \/ RunScheduleNow(s, i)
        PROVE  OneTask
    BY <1>1, TasksSameIsOne DEF UserChanges, runVars, DispatchRun, RunScheduleNow
  <1>2. ASSUME NEW w \in Workers, Materialise(w)
        PROVE  OneTask
    <2>1. CASE UNCHANGED task
      BY <2>1, TasksSameIsOne
    <2>2. CASE /\ TaskFree(worker[w].run)
               /\ task' = [task EXCEPT ![worker[w].run] =
                                [status |-> "queued", revision |-> worker[w].seen]]
      BY <2>2, Parts DEF TaskFree, OneTask
    <2>3. QED
      BY <1>2, <2>1, <2>2 DEF Materialise
  <1>3. ASSUME NEW w \in Workers,
               \/ ClaimRun(w) \/ ReadRoutine(w) \/ ReadGrant(w) \/ Break(w) \/ HandleFailure(w)
               \/ Crash(w) \/ \E i \in Runs : CountRuns(w, i)
        PROVE  OneTask
    BY <1>3, TasksSameIsOne
       DEF ClaimRun, ReadRoutine, ReadGrant, Break, HandleFailure, Crash, CountRuns
  <1>4. ASSUME NEW i \in Runs, NEW status \in {"done", "failed"}, EndTask(i, status)
        PROVE  OneTask
    BY <1>4, Parts DEF EndTask, OneTask, TaskRow
  <1>5. ASSUME NEW i \in Runs, Lapse(i) PROVE OneTask
    BY <1>5, TasksSameIsOne DEF Lapse
  <1>6. QED
    BY <1>1, <1>2, <1>3, <1>4, <1>5 DEF Next, Step

(* A run has one task for all its retries, lapsed leases and crashes: it   *)
(* is never replaced or started again.                                     *)
THEOREM TasksAreOne ==
    ASSUME ContractAssumption, RunsAssumption
    PROVE  Spec => OneTaskPerRun
  <1>1. RunsInvariant /\ [Next]_allVars => [OneTask]_allVars
    BY NextOneTask
  <1>2. Spec => [][OneTask]_allVars
    BY <1>1, RunsInvariantHolds, PTL DEF Spec
  <1>3. QED
    BY <1>2 DEF OneTaskPerRun, OneTask

-----------------------------------------------------------------------------
(* One worker keeps the limit: what it counted still bounds the others     *)
(* when it commits its claim, because nobody else makes a run running.     *)

Held(r) == r.status = "running" /\ r.lease = "held"

Counted ==
    \A w \in Workers : worker[w].phase = "counted" /\ worker[w].room =>
        Cardinality(Running(Runs \ {worker[w].run})) < MaxConcurrent
Limited == WithinLimit /\ Counted

NoMoreRun == \A k \in Runs : Held(run'[k]) => Held(run[k])
NoNewCount == \A w \in Workers : worker'[w].phase = "counted" => worker'[w] = worker[w]

LEMMA FewerRun ==
    ASSUME IsFiniteSet(Runs), NoMoreRun, NEW S \in SUBSET Runs
    PROVE  /\ Cardinality(Running(S)) \in Nat /\ Cardinality(Running(S)') \in Nat
           /\ Cardinality(Running(S)') <= Cardinality(Running(S))
  <1> PICK before : before = Running(S)
    OBVIOUS
  <1> PICK after : after = Running(S)'
    OBVIOUS
  <1>1. before \in SUBSET Runs /\ after \in SUBSET before
    BY DEF Running, NoMoreRun, Held
  <1>2. IsFiniteSet(before) /\ IsFiniteSet(after)
    BY <1>1, FS_Subset
  <1>3. Cardinality(after) <= Cardinality(before)
    BY <1>1, <1>2, FS_Subset
  <1>4. QED
    BY <1>2, <1>3, FS_CardinalityType

LEMMA LimitStays ==
    ASSUME RunsAssumption, IsFiniteSet(Runs), Limited, NoMoreRun, NoNewCount
    PROVE  Limited'
  <1>1. WithinLimit'
    BY FewerRun DEF Limited, WithinLimit, RunsAssumption
  <1>2. ASSUME NEW w \in Workers, worker'[w].phase = "counted", worker'[w].room
        PROVE  Cardinality(Running(Runs \ {worker[w].run}))' < MaxConcurrent
    <2>1. /\ Cardinality(Running(Runs \ {worker[w].run})) < MaxConcurrent
          /\ worker'[w] = worker[w]
      BY <1>2 DEF NoNewCount, Limited, Counted
    <2> PICK S : S = Runs \ {worker[w].run}
      OBVIOUS
    <2>2. S \in SUBSET Runs /\ S = Runs \ {worker'[w].run}
      BY <2>1
    <2>3. /\ Cardinality(Running(S)) \in Nat /\ Cardinality(Running(S)') \in Nat
          /\ Cardinality(Running(S)') <= Cardinality(Running(S))
      BY <2>2, FewerRun
    <2>4. Cardinality(Running(S)) < MaxConcurrent
      BY <2>1 DEF Running
    <2>5. Cardinality(Running(S)') < MaxConcurrent
      BY <2>3, <2>4 DEF RunsAssumption
    <2>6. QED
      BY <2>2, <2>5 DEF Running
  <1>3. QED
    BY <1>1, <1>2 DEF Limited, Counted

(* The worker w counts, and all others do what they did.                   *)
LEMMA CountKeepsLimit ==
    ASSUME RunsAssumption, IsFiniteSet(Runs), RunsInvariant, Limited,
           NEW w \in Workers, NEW i \in Runs, CountRuns(w, i)
    PROVE  Limited'
  <1> DEFINE room == Cardinality(Running(Runs \ {i})) < MaxConcurrent
  <1> PICK job : job = [Idle EXCEPT !.run = i, !.phase = "counted", !.room = room]
    OBVIOUS
  <1>1. worker' = [worker EXCEPT ![w] = job] /\ UNCHANGED run
    BY DEF CountRuns
  <1>2. room \in BOOLEAN
    OBVIOUS
  <1>3. room => Cardinality(Running(Runs \ {i})) < MaxConcurrent
    OBVIOUS
  <1> HIDE DEF room
  <1>4. job.run = i /\ (job.room => room)
    BY <1>2 DEF Idle
  <1>5. ASSUME NEW v \in Workers, worker'[v].phase = "counted", worker'[v].room
        PROVE  Cardinality(Running(Runs \ {worker[v].run}))' < MaxConcurrent
    <2>1. CASE v = w
      <3>1. worker'[v] = job
        BY <1>1, <2>1, Parts
      <3>2. QED
        BY <1>1, <1>3, <1>4, <1>5, <3>1 DEF Running
    <2>2. CASE v # w
      <3>1. worker'[v] = worker[v]
        BY <1>1, <2>2, Parts
      <3>2. QED
        BY <1>1, <1>5, <3>1 DEF Limited, Counted, Running
    <2>3. QED
      BY <2>1, <2>2
  <1>6. WithinLimit'
    BY <1>1 DEF Limited, WithinLimit, Running
  <1>7. QED
    BY <1>5, <1>6 DEF Limited, Counted

(* The claim is committed: one more run is running than was counted.       *)
LEMMA ClaimKeepsLimit ==
    ASSUME RunsAssumption, IsFiniteSet(Runs), \A v, u \in Workers : v = u,
           RunsInvariant, Limited, NEW w \in Workers, ClaimRun(w)
    PROVE  Limited'
  <1>1. worker[w].phase = "counted"
    BY DEF ClaimRun
  <1>2. worker[w] \in Job /\ worker[w].run \in Runs
    BY <1>1, JobAtHand
  <1>3. worker'[w].phase # "counted"
    <2>1. worker \in [Workers -> Job]
      BY Parts
    <2>2. ASSUME NEW job, job.phase # "counted", worker' = [worker EXCEPT ![w] = job]
          PROVE  worker'[w].phase # "counted"
      BY <2>1, <2>2
    <2>3. CASE worker[w].room
      <3> PICK known : known = (task[worker[w].run].status # "none")
        OBVIOUS
      <3> PICK old : old = worker[w]
        OBVIOUS
      <3> PICK job : job = [old EXCEPT !.phase = "claimed", !.known = known]
        OBVIOUS
      <3>1. worker' = [worker EXCEPT ![w] = job]
        BY <1>1, <2>3 DEF ClaimRun
      <3>2. job.phase = "claimed"
        BY <1>2 DEF Job
      <3>3. QED
        BY <2>2, <3>1, <3>2
    <2>4. CASE ~worker[w].room
      BY <2>2, <2>4 DEF ClaimRun, Release, Idle
    <2>5. QED
      BY <2>3, <2>4
  <1>4. Counted'
    BY <1>3 DEF Counted
  <1> PICK i : i = worker[w].run
    OBVIOUS
  <1>5. CASE worker[w].room
    <2> PICK S : S = Running(Runs \ {i})
      OBVIOUS
    <2> PICK after : after = Running(Runs)'
      OBVIOUS
    <2>1. IsFiniteSet(S)
      <3>1. S \in SUBSET Runs
        BY DEF Running
      <3>2. QED
        BY <3>1, FS_Subset
    <2>2. Cardinality(S) < MaxConcurrent
      BY <1>1, <1>5 DEF Limited, Counted
    <2>3. \A k \in Runs \ {i} : run'[k] = run[k]
      BY <1>1, <1>5, Parts DEF ClaimRun, RowsTyped
    <2>4. after \in SUBSET (S \cup {i})
      BY <2>3 DEF Running
    <2>5. /\ IsFiniteSet(S \cup {i})
          /\ Cardinality(S \cup {i}) = IF i \in S THEN Cardinality(S) ELSE Cardinality(S) + 1
      BY <2>1, FS_AddElement
    <2>6. IsFiniteSet(after) /\ Cardinality(after) <= Cardinality(S \cup {i})
      BY <2>4, <2>5, FS_Subset
    <2>7. Cardinality(S) \in Nat /\ Cardinality(after) \in Nat
      BY <2>1, <2>6, FS_CardinalityType
    <2>8. Cardinality(after) <= MaxConcurrent
      BY <2>2, <2>5, <2>6, <2>7 DEF RunsAssumption
    <2>9. QED
      BY <1>4, <2>8 DEF Limited, WithinLimit
  <1>6. CASE ~worker[w].room
    <2>1. UNCHANGED run
      BY <1>1, <1>6 DEF ClaimRun
    <2>2. QED
      BY <1>4, <2>1 DEF Limited, WithinLimit, Running
  <1>7. QED
    BY <1>5, <1>6

(* Nothing else makes a run running, or counts.                            *)
LEMMA OthersKeepLimit ==
    ASSUME RunsAssumption, ContractAssumption, RunsInvariant,
           \/ \E w \in Workers :
                \/ ReadRoutine(w) \/ ReadGrant(w) \/ Materialise(w)
                \/ Break(w) \/ HandleFailure(w) \/ Crash(w)
           \/ \E s \in Schedules : UserChanges(s)
           \/ \E s \in Schedules, i \in Runs : DispatchRun(s, i) \/ RunScheduleNow(s, i)
           \/ \E i \in Runs : Lapse(i) \/ \E status \in {"done", "failed"} : EndTask(i, status)
    PROVE  NoMoreRun /\ NoNewCount
  <1>1. ASSUME UNCHANGED run PROVE NoMoreRun
    BY <1>1 DEF NoMoreRun
  <1>2. ASSUME UNCHANGED worker PROVE NoNewCount
    BY <1>2 DEF NoNewCount
  <1>3. ASSUME NEW w \in Workers, Release(w) PROVE NoNewCount
    BY <1>3, Parts DEF Release, Idle, NoNewCount
  <1>4. ASSUME NEW i \in Runs, NEW r, run' = [run EXCEPT ![i] = r],
               Held(r) => Held(run[i])
        PROVE  NoMoreRun
    BY <1>4, Parts DEF RowsTyped, NoMoreRun
  <1>5. ASSUME NEW w \in Workers, ReadRoutine(w) PROVE NoMoreRun /\ NoNewCount
    <2>1. worker[w].phase = "claimed"
      BY <1>5 DEF ReadRoutine
    <2>2. worker[w] \in Job /\ worker[w].run \in Runs /\ run[worker[w].run] \in RunRow
      BY <2>1, JobAtHand
    <2>3. NoNewCount
      BY <1>5, <2>1, <2>2, Parts DEF ReadRoutine, NoNewCount, Job
    <2>4. NoMoreRun
      BY <1>5, <2>2, Parts DEF ReadRoutine, NoMoreRun, Held, RunRow, RowsTyped
    <2>5. QED
      BY <2>3, <2>4
  <1>6. ASSUME NEW w \in Workers, ReadGrant(w) PROVE NoMoreRun /\ NoNewCount
    <2>1. worker[w] \in Job
      BY Parts
    <2>2. NoNewCount
      BY <1>6, <2>1, Parts DEF ReadGrant, NoNewCount, Job, Idle
    <2>3. QED
      BY <1>1, <1>6, <2>2 DEF ReadGrant
  <1>7. ASSUME NEW w \in Workers, Materialise(w) \/ Break(w) PROVE NoMoreRun /\ NoNewCount
    <2>1. worker[w] \in Job
      BY Parts
    <2>2. ASSUME worker' = [worker EXCEPT ![w].phase = "failing"] PROVE NoNewCount
      BY <2>1, <2>2, Parts DEF NoNewCount, Job
    <2>3. QED
      BY <1>1, <1>3, <1>7, <2>2 DEF Materialise, Break
  <1>8. ASSUME NEW w \in Workers, HandleFailure(w) PROVE NoMoreRun /\ NoNewCount
    <2>1. worker[w].run \in Runs /\ run[worker[w].run] \in RunRow
      BY <1>8, JobAtHand DEF HandleFailure
    <2>2. NoMoreRun
      <3>1. ASSUME NEW status \in {"ready", "failed"},
                   run' = [run EXCEPT ![worker[w].run].status = status,
                                      ![worker[w].run].lease = "none"]
            PROVE  NoMoreRun
        BY <2>1, <3>1, Parts DEF NoMoreRun, Held, RunRow, RowsTyped
      <3>2. QED
        BY <1>1, <1>8, <3>1 DEF HandleFailure
    <2>3. QED
      BY <1>3, <1>8, <2>2 DEF HandleFailure
  <1>9. ASSUME NEW w \in Workers, Crash(w) PROVE NoMoreRun /\ NoNewCount
    BY <1>1, <1>3, <1>9 DEF Crash
  <1>10. ASSUME NEW s \in Schedules, UserChanges(s) PROVE NoMoreRun /\ NoNewCount
    BY <1>1, <1>2, <1>10 DEF UserChanges, runVars
  <1>11. ASSUME NEW s \in Schedules, NEW i \in Runs, DispatchRun(s, i) \/ RunScheduleNow(s, i)
         PROVE  NoMoreRun /\ NoNewCount
    <2>1. ASSUME NEW status, NEW manual, AddRun(i, s, status, manual), status # "running"
          PROVE  NoMoreRun
      <3> PICK r : r = [NoRunRow EXCEPT !.status = status, !.routine = s,
                            !.revision = routine[s].revision, !.manual = manual]
        OBVIOUS
      <3>1. run' = [run EXCEPT ![i] = r] /\ ~Held(r)
        BY <2>1 DEF AddRun, NoRunRow, Held
      <3>2. QED
        BY <1>4, <3>1
    <2>2. QED
      BY <1>2, <1>11, <2>1 DEF DispatchRun, RunScheduleNow
  <1>12. ASSUME NEW i \in Runs, Lapse(i) PROVE NoMoreRun /\ NoNewCount
    <2>1. NoMoreRun
      BY <1>12, Parts DEF Lapse, NoMoreRun, Held, RunRow, RowsTyped
    <2>2. QED
      BY <1>2, <1>12, <2>1 DEF Lapse
  <1>13. ASSUME NEW i \in Runs, NEW status \in {"done", "failed"}, EndTask(i, status)
         PROVE  NoMoreRun /\ NoNewCount
    <2>1. NoMoreRun
      BY <1>13, Parts DEF EndTask, NoMoreRun, Held, RunRow, RowsTyped
    <2>2. QED
      BY <1>2, <1>13, <2>1 DEF EndTask
  <1>14. QED
    BY <1>5, <1>6, <1>7, <1>8, <1>9, <1>10, <1>11, <1>12, <1>13

(* docs/12-scheduled-automations.md:339: no more runs of a user at a time  *)
(* than the limit.  It needs that one worker claims them: the count and    *)
(* the commit of a claim are two steps, and of two workers each would      *)
(* count before the other commits.  Leases may run out all the same.       *)
THEOREM LimitIsKept ==
    ASSUME ContractAssumption, RunsAssumption, IsFiniteSet(Runs),
           \A v, u \in Workers : v = u
    PROVE  Spec => []WithinLimit
  <1>1. Init => Limited
    <2> SUFFICES ASSUME Init PROVE Limited
      OBVIOUS
    <2>1. Counted
      BY DEF Init, Idle, Counted
    <2>2. Running(Runs) = {}
      BY DEF Init, Running, NoRunRow
    <2>3. Cardinality({}) = 0
      BY FS_EmptySet
    <2>4. QED
      BY <2>1, <2>2, <2>3 DEF Limited, WithinLimit, RunsAssumption
  <1>2. ASSUME RunsInvariant, Limited, [Next]_allVars
        PROVE  Limited'
    <2>1. ASSUME NEW w \in Workers, ClaimRun(w) PROVE Limited'
      BY <1>2, <2>1, ClaimKeepsLimit
    <2>2. ASSUME NEW w \in Workers, NEW i \in Runs, CountRuns(w, i) PROVE Limited'
      BY <1>2, <2>2, CountKeepsLimit
    <2>3. CASE UNCHANGED allVars
      BY <1>2, <2>3, LimitStays DEF allVars, NoMoreRun, NoNewCount
    <2>4. QED
      BY <1>2, <2>1, <2>2, <2>3, OthersKeepLimit, LimitStays DEF Next, Step
  <1>3. Limited => WithinLimit
    BY DEF Limited
  <1>4. RunsInvariant /\ Limited /\ [Next]_allVars => Limited'
    BY <1>2
  <1>5. QED
    BY <1>1, <1>3, <1>4, RunsInvariantHolds, PTL DEF Spec
=============================================================================
