------------------------------ MODULE MCRoutines ------------------------------
(* Small instances of the routines after they were asked for, in one       *)
(* model: their drafts, their runs and their clock.  A behaviour runs the  *)
(* one part its first state names and leaves the others as they begin:     *)
(* their sum, not their product, is checked.  ScheduleRefinement relates   *)
(* the first two.  The parts are instances of the modules that prove them, *)
(* so that SuiteProofs may cite what is proved of each.                    *)
EXTENDS Integers, FiniteSets, TLC

CONSTANTS None, Runs

VARIABLES part,
          schedule, grant, action, horizon,
          qRoutine, qRun, qTask, qNotified, qWorker, qCrashes,
          oRoutine, oRun, oTask, oNotified, oWorker, oCrashes,
          cNow, cRoutine, cRuns

drafts == <<schedule, grant, action, horizon>>
queued == <<qRoutine, qRun, qTask, qNotified, qWorker, qCrashes>>
overlapping == <<oRoutine, oRun, oTask, oNotified, oWorker, oCrashes>>
clock == <<cNow, cRoutine, cRuns>>
vars == <<part, drafts, queued, overlapping, clock>>

(* One specification of each risk, the risky one one-shot, and two "yes",  *)
(* of which the second may be read as a cancellation.                      *)
Drafts == INSTANCE ScheduleLifecycleProofs WITH
    Schedules <- {"s"}, Messages <- 1..2, Confirms <- 1..2, Cancels <- {2},
    Specs <- {"digest", "mailing"}, R2Specs <- {"mailing"}, OneShot <- {"mailing"},
    ActionIds <- {"a1", "a2"}, MaxRevision <- 2

(* Two runs for one worker that crashes; and one run of a routine that is  *)
(* updated, for two workers, of which one may lose its lease as it works.  *)
Queued == INSTANCE ScheduledRunsProofs WITH
    routine <- qRoutine, run <- qRun, task <- qTask, notified <- qNotified,
    worker <- qWorker, crashes <- qCrashes,
    Schedules <- {"s"}, MaxRevision <- 1, Workers <- {"w"}, NoRun <- None,
    MaxAttempts <- 2, MaxConcurrent <- 1, MaxCrashes <- 1, Overrun <- FALSE
Overlapping == INSTANCE ScheduledRunsProofs WITH
    routine <- oRoutine, run <- oRun, task <- oTask, notified <- oNotified,
    worker <- oWorker, crashes <- oCrashes,
    Schedules <- {"s"}, MaxRevision <- 2, Runs <- {"r"}, Workers <- {"w1", "w2"},
    NoRun <- None, MaxAttempts <- 2, MaxConcurrent <- 2, MaxCrashes <- 0, Overrun <- TRUE

(* Every second instant, by both policies, with an end and with a limit;   *)
(* one point in time; and, where clocks go back by two, every instant.     *)
Recurring(times, policy, grace, maxRuns) ==
    [recurring |-> TRUE, times |-> times, ends |-> None,
     policy |-> policy, grace |-> grace, maxRuns |-> maxRuns]
Clock == INSTANCE RoutineClockProofs WITH
    now <- cNow, routine <- cRoutine, runs <- cRuns,
    Specs <- {Recurring({2, 4, 6, 8}, "latest", 4, None), Recurring({3, 5, 7, 9}, "skip", 1, 2),
              [Recurring({2, 4, 6, 8}, "skip", 5, None) EXCEPT !.ends = 6],
              [Recurring({4}, "latest", 2, None) EXCEPT !.recurring = FALSE]},
    Horizon <- 10, Fold <- 6, FoldBy <- 0, MinGap <- 2, OnTime <- 1, Poll <- 1, Never <- None
FoldedClock == INSTANCE RoutineClockProofs WITH
    now <- cNow, routine <- cRoutine, runs <- cRuns,
    Specs <- {Recurring(2..8, "latest", 3, None), Recurring({3, 5, 7}, "skip", 1, 2)},
    Horizon <- 12, Fold <- 6, FoldBy <- 2, MinGap <- 1, OnTime <- 1, Poll <- 1, Never <- None

ASSUME RoutineAssumptions ==
    /\ IsFiniteSet(Runs) /\ Drafts!LifecycleAssumption
    /\ Queued!ContractAssumption /\ Queued!RunsAssumption
    /\ Overlapping!ContractAssumption /\ Overlapping!RunsAssumption
    /\ Clock!ClockAssumption /\ FoldedClock!ClockAssumption

-----------------------------------------------------------------------------
Init ==
    /\ part \in {"drafts", "queued", "overlapping", "clock", "folded clock"}
    /\ Drafts!Init /\ Queued!Init /\ Overlapping!Init /\ Clock!Init

Drafting == part = "drafts" /\ Drafts!Next /\ UNCHANGED <<part, queued, overlapping, clock>>
Queueing == part = "queued" /\ Queued!Next /\ UNCHANGED <<part, drafts, overlapping, clock>>
Overlap == part = "overlapping" /\ Overlapping!Next /\ UNCHANGED <<part, drafts, queued, clock>>
Ticking == /\ \/ part = "clock" /\ Clock!Next
              \/ part = "folded clock" /\ FoldedClock!Next
           /\ UNCHANGED <<part, drafts, queued, overlapping>>

Next == Drafting \/ Queueing \/ Overlap \/ Ticking

Spec == Init /\ [][Next]_vars

(* What ScheduleLifecycle and ScheduledRuns assume: the worker goes on     *)
(* with its run, repeats its scan of the drafts and looks for the run that *)
(* has been available longest, leases run out, and tasks end.              *)
FairSpec ==
    /\ Spec
    /\ WF_drafts(part = "drafts" /\ Drafts!ExpireDraft("s"))
    /\ WF_queued(part = "queued" /\ Queued!Step("w"))
    /\ \A i \in Runs :
        /\ SF_queued(part = "queued" /\ Queued!CountRuns("w", i) /\ qWorker'["w"].room)
        /\ WF_queued(part = "queued" /\ Queued!Lapse(i))
        /\ SF_queued(part = "queued" /\ \E status \in {"done", "failed"} : Queued!EndTask(i, status))

-----------------------------------------------------------------------------
(* Properties.                                                             *)

TypeOK ==
    CASE part = "drafts" -> Drafts!TypeOK
      [] part = "queued" -> Queued!TypeOK
      [] part = "overlapping" -> Overlapping!TypeOK
      [] part = "clock" -> Clock!TypeOK
      [] part = "folded clock" -> FoldedClock!TypeOK

(* A task is given the specification of the revision its run was made for, *)
(* however the routine is updated between the dispatch, the claim and the  *)
(* reading of the routine and of its grant.  A run is completed only by a  *)
(* task that ended well, and one that failed has told the user.  One       *)
(* worker never has more of a user running than the limit.                 *)
RunsAreTrue ==
    /\ part = "queued" => Queued!OutcomeIsTrue /\ Queued!WithinLimit
    /\ part = "overlapping" => Overlapping!TaskRunsItsRevision /\ Overlapping!OutcomeIsTrue

(* The delay of the polling is no misfire, latest runs within the grace,   *)
(* skip does not run late, and nothing runs before it is due, also where   *)
(* clocks go back; where they do not, no occurrence is due twice.          *)
MisfireAsPromised ==
    /\ part = "clock" => Clock!MisfireAsPromised /\ Clock!NeverDueTwice
    /\ part = "folded clock" => FoldedClock!MisfireAsPromised

(* A run has one task for all its retries, lapsed leases and crashes, that *)
(* is never replaced or started again; and however many occurrences were   *)
(* missed, a dispatch leaves none of them to be caught up with.            *)
NothingRunsTwice ==
    /\ Queued!OneTaskPerRun /\ Overlapping!OneTaskPerRun
    /\ [][part = "clock" => Clock!NoneLeft]_vars

(* A draft whose confirmation nobody can answer any more does not stay,    *)
(* and a run gets its task or ends, whatever crashes or breaks.            *)
RoutinesSettle == Drafts!DraftsResolve /\ Queued!RunsResolve

(* dispatcher.py:209: the next occurrence is computed from the present to  *)
(* avoid catch-up storms; also where clocks go back.                       *)
NoCatchUp == [][part = "folded clock" => FoldedClock!NoneLeft]_vars
=============================================================================
