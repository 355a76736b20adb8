----------------------------- MODULE WorkerCycle -----------------------------
(***************************************************************************)
(* The loop of a worker process: worker/main.py.  A cycle goes through its *)
(* stages in their order, each in a session of its own and with at most    *)
(* one item of its queue; some stages run only when their interval is      *)
(* over.  An exception, or the timeout of the cycle, ends the cycle where  *)
(* it is.  A process that has failed too often in a row exits, and the     *)
(* platform starts it again.                                               *)
(***************************************************************************)
EXTENDS Naturals

CONSTANTS Last,         \* the number of stages
          Scans,        \* stages that run when their interval is over
          MaxFailures,  \* worker_max_consecutive_infra_failures
          Slow          \* whether a job may last longer than a cycle

CycleAssumption == /\ Last \in Nat \ {0} /\ Scans \subseteq 1..Last
                          /\ MaxFailures \in Nat \ {0} /\ Slow \in BOOLEAN

VARIABLES up,           \* the database answers
          waiting,      \* stages with an item to claim
          stage,        \* 0 between cycles, Last + 1 after the stages, Last + 2 at the heartbeat
          due,          \* scans whose interval is over
          scanning,     \* scans the cycle has decided on
          ran,          \* stages the cycle has gone through
          failures,     \* consecutive_failures
          causes,       \* what made the cycles fail since one did not
          exited

vars == <<up, waiting, stage, due, scanning, ran, failures, causes, exited>>

Stages == 1..Last

\* The scans the cycle goes past.
Skipped == Scans \ scanning

Init == /\ up = TRUE /\ waiting = {} /\ stage = 0 /\ due = Scans /\ scanning = {} /\ ran = {}
        /\ failures = 0 /\ causes = {} /\ exited = FALSE

-----------------------------------------------------------------------------
(* The loop *)

\* The time of the last scan is set by a cycle that has ended.
DueAfterStart == due

StartCycle == /\ ~exited /\ stage = 0 /\ stage' = 1
              /\ scanning' = due /\ ran' = {}
              /\ due' = DueAfterStart
              /\ UNCHANGED <<up, waiting, failures, causes, exited>>

\* A stage that had an item is followed by the next one all the same.
NextStage(s) == s + 1

\* A stage with its claim, the work on the item and the recording of its
\* outcome, a failure of the job included.
RunStage == /\ stage \in Stages \ Skipped /\ up
            /\ waiting' = waiting \ {stage} /\ ran' = ran \cup {stage}
            /\ stage' = NextStage(stage)
            /\ UNCHANGED <<up, due, scanning, failures, causes, exited>>

SkipScan == /\ stage \in Skipped /\ stage' = stage + 1
            /\ UNCHANGED <<up, waiting, due, scanning, ran, failures, causes, exited>>

\* The stages are over: what follows is the heartbeat, if it is time for one.
EndCycle == /\ stage = Last + 1 /\ stage' \in {Last + 2, 0}
            /\ due' = due \ scanning /\ failures' = 0 /\ causes' = {}
            /\ UNCHANGED <<up, waiting, scanning, ran, exited>>

Heartbeat == /\ stage = Last + 2 /\ stage' = 0 /\ up
             /\ UNCHANGED <<up, waiting, due, scanning, ran, failures, causes, exited>>

Counted == failures + 1

LimitReached_Faulty == failures >= MaxFailures

LimitReached == Counted >= MaxFailures

Fail(cause) == /\ failures' = Counted /\ causes' = causes \cup {cause}
               /\ stage' = 0 /\ exited' = LimitReached
               /\ UNCHANGED <<up, waiting, due, scanning, ran>>

\* The database raises, in a stage or in the heartbeat.
LoseDatabase == ~up /\ stage \in ((Stages \ Skipped) \cup {Last + 2}) /\ Fail("database")

\* The timeout of the cycle cancels the work on an item, which is claimed again.
TimeOut == Slow /\ stage \in waiting \ Skipped /\ up /\ Fail("job")

\* The platform starts a process that has exited: nothing of its memory is left.
Restart == /\ exited /\ exited' = FALSE
           /\ failures' = 0 /\ causes' = {} /\ stage' = 0 /\ due' = Scans
           /\ UNCHANGED <<up, waiting, scanning, ran>>

-----------------------------------------------------------------------------
(* Its environment *)

Arrive(s) == /\ s \in Stages \ waiting /\ waiting' = waiting \cup {s}
             /\ UNCHANGED <<up, stage, due, scanning, ran, failures, causes, exited>>

Tick(s) == /\ s \in Scans \ due /\ due' = due \cup {s}
           /\ UNCHANGED <<up, waiting, stage, scanning, ran, failures, causes, exited>>

Database == /\ up' = ~up
            /\ UNCHANGED <<waiting, stage, due, scanning, ran, failures, causes, exited>>

Worker == StartCycle \/ RunStage \/ SkipScan \/ EndCycle \/ Heartbeat \/ LoseDatabase \/ TimeOut \/ Restart

Next == Worker \/ Database \/ \E s \in Stages : Arrive(s) \/ Tick(s)

Spec == Init /\ [][Next]_vars

\* The process runs, is started again, and time passes.
FairSpec == Spec /\ WF_vars(Worker) /\ \A s \in Scans : WF_vars(Tick(s))

-----------------------------------------------------------------------------
(* Properties *)

\* A process that has not exited has failed less often than its limit, and has
\* a cause for its failures.
TypeOK == /\ stage \in 0..(Last + 2) /\ waiting \subseteq Stages /\ ran \subseteq Stages
          /\ (scanning \cup due) \subseteq Scans
          /\ exited <=> failures >= MaxFailures
          /\ (failures = 0) <=> (causes = {})

\* A scan is taken for done only after the cycle has gone through its stage.
ScanIsDone == [][\A s \in due \ due' : s \in ran]_vars

\* While the database answers, an item of any stage is claimed in the end,
\* however busy the stages before it are.
StagesServed == <>[]up => \A s \in Stages : []<>(s \notin waiting)

\* A process whose database is gone does not go on for ever: it exits.
ExitsWhenUseless == <>[]~up => []<>exited

\* What makes a process exit is the database, not a job.
JobFailureIsItsOwn == exited => "database" \in causes
=============================================================================
