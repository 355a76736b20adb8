----------------------------- MODULE RoutineClock -----------------------------
(***************************************************************************)
(* When a routine runs: next_occurrence, the misfire policy and what the   *)
(* dispatcher does with an occurrence that is due, late or missed, in a    *)
(* zone whose clocks may go back.                                          *)
(*                                                                         *)
(* One routine.  Instants are numbers; a recurrence rule is the set of     *)
(* local times it generates from starts_at on.  No two transactions read   *)
(* the same instant of the clock: every step takes one.                    *)
(***************************************************************************)
EXTENDS Integers, FiniteSetsExt

CONSTANTS Specs,      (* the ScheduleSpecs users write                     *)
          Horizon,    (* bound on the clock                                *)
          Fold,       (* instant at which local clocks go back ...         *)
          FoldBy,     (* ... and by how much; 0 for a zone without         *)
          MinGap,     (* least interval between occurrences: 300 s         *)
          OnTime,     (* MINIMUM_ON_TIME_WINDOW_SECONDS                    *)
          Poll,       (* scheduler_poll_interval_seconds                   *)
          Never       (* no next_run_at, no ends_at, no max_runs           *)

Instants == 0..Horizon

ScheduleSpec == [recurring: BOOLEAN, times: (SUBSET Instants) \ {{}},
                 ends: Instants \cup {Never}, policy: {"latest", "skip"},
                 grace: Nat, maxRuns: (Nat \ {0}) \cup {Never}]

ClockAssumption ==
    /\ Specs \subseteq ScheduleSpec
    /\ \A sp \in Specs : ~sp.recurring => \E t \in Instants : sp.times = {t}
    /\ Never \notin Int
    /\ Horizon \in Nat /\ Fold \in Instants /\ FoldBy \in 0..Fold
    /\ MinGap \in Nat /\ OnTime \in Nat /\ Poll \in Nat

VARIABLES now,      (* the wall clock                                      *)
          routine,  (* status, specification in force, next_run_at, count  *)
          runs      (* rows of scheduled_runs                              *)

vars == <<now, routine, runs>>

RoutineRow == [status: {"active", "paused", "completed"}, spec: Specs,
               next: 0..(Horizon + FoldBy) \cup {Never}, count: Nat]
NoRoutine == [status |-> "none"]
(* due: scheduled_for; at: when it was dispatched.                         *)
RunRow == [due: Instants, at: Instants, skipped: BOOLEAN, spec: Specs]

TypeOK ==
    /\ now \in 0..Horizon + 1
    /\ \/ routine = NoRoutine
       \/ /\ routine \in RoutineRow
          /\ routine.status = "active" => routine.next # Never
    /\ runs \subseteq RunRow

Init == now = 0 /\ routine = NoRoutine /\ runs = {}

-----------------------------------------------------------------------------
(* recurrence.py.                                                          *)

Local(t) == IF t < Fold THEN t ELSE t - FoldBy

(* The instant of a local time: of two, the first (fold=0).                *)
Instant(l) == IF l < Fold THEN l ELSE l + FoldBy

Starts(sp) == Min(sp.times)

(* rule.after compares local times: both are in one zone.                  *)
After(sp, t, inclusive) ==
    {l \in sp.times : l > Local(t) \/ (inclusive /\ l = Local(t))}

NextOccurrence(sp, t, inclusive) ==
    IF ~sp.recurring
    THEN IF Starts(sp) > t \/ (inclusive /\ Starts(sp) = t) THEN Starts(sp) ELSE Never
    ELSE LET later == After(sp, t, inclusive)
         IN IF later = {} THEN Never
            ELSE LET result == Instant(Min(later))
                 IN IF sp.ends # Never /\ result > sp.ends THEN Never ELSE result

(* validate_trigger: the interval is that of the first two occurrences.    *)
Valid(sp) ==
    /\ sp.ends # Never => sp.ends > Starts(sp)
    /\ sp.recurring /\ sp.times # {Starts(sp)} =>
            Min(sp.times \ {Starts(sp)}) - Starts(sp) >= MinGap

(* _should_skip_misfire.                                                   *)
OnTimeWindow == IF OnTime > 2 * Poll THEN OnTime ELSE 2 * Poll
ShouldSkipMisfire_Faulty(sp, late) ==
    \/ late > sp.grace
    \/ sp.policy = "skip" /\ late > OnTimeWindow
ShouldSkipMisfire(sp, late) ==
    /\ late > OnTimeWindow
    /\ late > sp.grace \/ sp.policy = "skip"

-----------------------------------------------------------------------------
(* Operations.                                                             *)

ClockMoves == now < Horizon /\ now' = now + 1

(* create_schedule, without a confirmation: late, but within the grace, is *)
(* at once.                                                                *)
FirstRun(sp) ==
    LET next == NextOccurrence(sp, now, TRUE)
        late == now - Starts(sp)
    IN IF next = Never /\ 0 <= late /\ late <= sp.grace THEN now ELSE next

CreateSchedule(sp) ==
    /\ routine = NoRoutine
    /\ Valid(sp) /\ FirstRun(sp) # Never
    /\ routine' = [status |-> "active", spec |-> sp, next |-> FirstRun(sp), count |-> 0]
    /\ ClockMoves /\ UNCHANGED runs

(* The count of runs goes on.                                              *)
UpdateSchedule(sp) ==
    /\ routine # NoRoutine
    /\ Valid(sp) /\ NextOccurrence(sp, now, TRUE) # Never
    /\ routine' = [routine EXCEPT !.status = "active", !.spec = sp,
            !.next = NextOccurrence(sp, now, TRUE)]
    /\ ClockMoves /\ UNCHANGED runs

PauseSchedule ==
    /\ routine # NoRoutine /\ routine.status = "active"
    /\ routine' = [routine EXCEPT !.status = "paused"]
    /\ ClockMoves /\ UNCHANGED runs

ResumeSchedule ==
    /\ routine # NoRoutine
    /\ LET next == NextOccurrence(routine.spec, now, TRUE)
       IN routine' = [routine EXCEPT !.next = next,
                !.status = IF next = Never THEN "completed" ELSE "active"]
    /\ ClockMoves /\ UNCHANGED runs

IsDue == /\ routine # NoRoutine /\ routine.status = "active"
         /\ routine.next # Never /\ routine.next <= now

(* What follows a run: from the wall clock, and no more than max_runs.     *)
Following(sp, count) ==
    IF sp.maxRuns # Never /\ count >= sp.maxRuns THEN Never
    ELSE NextOccurrence(sp, now, FALSE)

(* uq_scheduled_run_occurrence.                                            *)
Taken(due) == \E r \in runs : r.due = due

(* dispatch_due_schedule.                                                  *)
DispatchDueSchedule ==
    /\ IsDue
    /\ ~Taken(routine.next)
    /\ LET sp == routine.spec
           following == Following(sp, routine.count + 1)
       IN /\ runs' = runs \cup {[due |-> routine.next, at |-> now, spec |-> sp,
                skipped |-> ShouldSkipMisfire(sp, now - routine.next)]}
          /\ routine' = [routine EXCEPT !.count = @ + 1, !.next = following,
                !.status = IF following = Never THEN "completed" ELSE @]
    /\ ClockMoves

(* The unique key refuses the run, and the exception ends the cycle of the *)
(* worker: nothing has changed, and the next cycle finds the same routine. *)
DispatchCollides == IsDue /\ Taken(routine.next) /\ ClockMoves /\ UNCHANGED <<routine, runs>>

TimePasses == ClockMoves /\ UNCHANGED <<routine, runs>>

Next ==
    \/ \E sp \in Specs : CreateSchedule(sp) \/ UpdateSchedule(sp)
    \/ PauseSchedule \/ ResumeSchedule
    \/ DispatchDueSchedule \/ DispatchCollides
    \/ TimePasses

Spec == Init /\ [][Next]_vars

-----------------------------------------------------------------------------
(* Properties.                                                             *)

(* dispatcher.py:209: however many occurrences were missed, a dispatch     *)
(* leaves none of them to be caught up with: the next one is yet to come.  *)
NoneLeft == runs' # runs => routine'.next = Never \/ routine'.next > now
NoCatchUp == [][NoneLeft]_vars

(* Where clocks do not go back, the same occurrence is never due again,    *)
(* however the routine is paused, resumed and updated: a dispatch that     *)
(* collides would be tried, and fail, in every cycle of every worker.      *)
NeverDueTwice == IsDue => ~Taken(routine.next)

(* docs/12-scheduled-automations.md:246: the delay of the polling is no    *)
(* misfire, latest runs within the grace, skip does not run late, and      *)
(* nothing runs before it is due, for the specification in force when it   *)
(* was dispatched.                                                         *)
MisfireAsPromised ==
    \A r \in runs :
        LET late == r.at - r.due
        IN /\ late >= 0
           /\ late <= OnTimeWindow => ~r.skipped
           /\ r.spec.policy = "latest" /\ late <= r.spec.grace => ~r.skipped
           /\ r.spec.policy = "skip" /\ late > OnTimeWindow => r.skipped

(* docs/12-scheduled-automations.md:246: latest processes a late           *)
(* occurrence as long as it is within the grace.                           *)
LateWithinGraceRuns ==
    [][\A r \in runs' \ runs : r.spec.policy = "latest" /\ r.skipped =>
            \A l \in r.spec.times :
                Instant(l) \in r.due..now => now - Instant(l) > r.spec.grace]_vars

(* docs/12-scheduled-automations.md:340: no routine runs more often than   *)
(* every five minutes.                                                     *)
MinimumInterval ==
    \A r, q \in runs : r.spec = q.spec /\ r.due < q.due => q.due - r.due >= MinGap
=============================================================================
