------------------------------ MODULE SuiteProofs ------------------------------
(***************************************************************************)
(* The properties of MCRoutines and MCQueues.  A behaviour of a suite is   *)
(* one of each of its parts.  Routines keep what their own modules prove;  *)
(* sources, voice messages and the edge have an inductive invariant each,  *)
(* SourcesInv, AudioInv, TextsInv and VoicesInv, proved here for any       *)
(* sources, workers, transcripts, messages and instances.                  *)
(***************************************************************************)
EXTENDS MCRoutines, MCQueues, FiniteSetTheorems, SequenceTheorems, TLAPS

-----------------------------------------------------------------------------
(* A behaviour of the routines is one of each part.                        *)

LEMMA PartStays == [Next]_vars => part' = part
  BY DEF Next, Drafting, Queueing, Overlap, Ticking, vars

LEMMA DraftsGoOn == Spec => Drafts!Spec
  <1>1. Init => Drafts!Init
    BY DEF Init
  <1>2. [Next]_vars => [Drafts!Next]_(Drafts!vars)
    BY DEF Next, vars, drafts, Drafts!vars, Drafting, Queueing, Overlap, Ticking
  <1>3. QED
    BY <1>1, <1>2, PTL DEF Spec, Drafts!Spec

LEMMA QueuedGoOn == Spec => Queued!Spec
  <1>1. Init => Queued!Init
    BY DEF Init
  <1>2. [Next]_vars => [Queued!Next]_(Queued!allVars)
    BY DEF Next, vars, queued, Queued!allVars, Drafting, Queueing, Overlap, Ticking
  <1>3. QED
    BY <1>1, <1>2, PTL DEF Spec, Queued!Spec

LEMMA OverlappingGoOn == Spec => Overlapping!Spec
  <1>1. Init => Overlapping!Init
    BY DEF Init
  <1>2. [Next]_vars => [Overlapping!Next]_(Overlapping!allVars)
    BY DEF Next, vars, overlapping, Overlapping!allVars, Drafting, Queueing, Overlap, Ticking
  <1>3. QED
    BY <1>1, <1>2, PTL DEF Spec, Overlapping!Spec

LEMMA ClockGoesOn == Spec => (part = "clock" => Clock!Spec)
  <1> DEFINE This == part = "clock"
  <1>1. Init => Clock!Init
    BY DEF Init
  <1>2. [Next]_vars => (This => [Clock!Next]_(Clock!vars)) /\ (This' <=> This)
    BY DEF Next, vars, clock, Clock!vars, Drafting, Queueing, Overlap, Ticking
  <1>3. QED
    BY <1>1, <1>2, PTL DEF Spec, Clock!Spec

LEMMA FoldedClockGoesOn == Spec => (part = "folded clock" => FoldedClock!Spec)
  <1> DEFINE This == part = "folded clock"
  <1>1. Init => FoldedClock!Init
    BY DEF Init, Clock!Init, FoldedClock!Init, Clock!NoRoutine, FoldedClock!NoRoutine
  <1>2. [Next]_vars => (This => [FoldedClock!Next]_(FoldedClock!vars)) /\ (This' <=> This)
    BY DEF Next, vars, clock, FoldedClock!vars, Drafting, Queueing, Overlap, Ticking
  <1>3. QED
    BY <1>1, <1>2, PTL DEF Spec, FoldedClock!Spec

-----------------------------------------------------------------------------
(* About routines.                                                         *)

(* Every part keeps the shapes of its rows.                                *)
THEOREM RoutinesTyped == Spec => []TypeOK
  <1> DEFINE Kind == part \in {"drafts", "queued", "overlapping", "clock", "folded clock"}
             OnClock == part = "clock"
             OnFolded == part = "folded clock"
  <1>1. (Init => Kind) /\ ([Next]_vars /\ Kind => Kind')
    BY PartStays DEF Init
  <1>2. [Next]_vars => (OnClock' <=> OnClock) /\ (OnFolded' <=> OnFolded)
    BY PartStays
  <1>3. Drafts!Spec => []Drafts!TypeOK
    BY RoutineAssumptions, Drafts!TypeCorrect
  <1>4. Queued!Spec => []Queued!TypeOK
    BY RoutineAssumptions, Queued!RunsTyped
  <1>5. Overlapping!Spec => []Overlapping!TypeOK
    BY RoutineAssumptions, Overlapping!RunsTyped
  <1>6. (Clock!Spec => []Clock!TypeOK) /\ (FoldedClock!Spec => []FoldedClock!TypeOK)
    BY RoutineAssumptions, Clock!ClockTyped, FoldedClock!ClockTyped
  <1>7. /\ Kind /\ Drafts!TypeOK /\ Queued!TypeOK /\ Overlapping!TypeOK
        /\ OnClock => Clock!TypeOK
        /\ OnFolded => FoldedClock!TypeOK
        => TypeOK
    BY DEF TypeOK
  <1>8. QED
    BY <1>1, <1>2, <1>3, <1>4, <1>5, <1>6, <1>7, DraftsGoOn, QueuedGoOn, OverlappingGoOn,
       ClockGoesOn, FoldedClockGoesOn, PTL DEF Spec

(* A task runs the revision of its run, the outcome of a run is that of    *)
(* its task, and one worker keeps to the limit of its user, however        *)
(* workers crash, lose their leases and race with the user.                *)
THEOREM RoutineRunsAreTrue == Spec => []RunsAreTrue
  <1>1. Queued!Spec => []Queued!OutcomeIsTrue
    BY RoutineAssumptions, Queued!OutcomesAreTrue
  <1>2. Queued!Spec => []Queued!WithinLimit
    <2>1. \A v, u \in {"w"} : v = u
      OBVIOUS
    <2>2. Queued!IsFiniteSet(Runs)
      BY RoutineAssumptions DEF IsFiniteSet, Queued!IsFiniteSet
    <2>3. QED
      BY <2>1, <2>2, RoutineAssumptions, Queued!LimitIsKept
  <1>3. Overlapping!Spec => []Overlapping!TaskRunsItsRevision
    BY RoutineAssumptions, Overlapping!TasksRunTheirRevision
  <1>4. Overlapping!Spec => []Overlapping!OutcomeIsTrue
    BY RoutineAssumptions, Overlapping!OutcomesAreTrue
  <1>5. /\ Queued!OutcomeIsTrue /\ Queued!WithinLimit
        /\ Overlapping!TaskRunsItsRevision /\ Overlapping!OutcomeIsTrue
        => RunsAreTrue
    BY DEF RunsAreTrue
  <1>6. QED
    BY <1>1, <1>2, <1>3, <1>4, <1>5, QueuedGoOn, OverlappingGoOn, PTL

(* The misfire policy is kept in every zone, and where clocks do not go    *)
(* back no occurrence is due twice.                                        *)
THEOREM RoutinesRunWhenPromised == Spec => []MisfireAsPromised
  <1> DEFINE OnClock == part = "clock"
             OnFolded == part = "folded clock"
  <1>1. [Next]_vars => (OnClock' <=> OnClock) /\ (OnFolded' <=> OnFolded)
    BY PartStays
  <1>2. Clock!Spec => []Clock!MisfireAsPromised
    BY RoutineAssumptions, Clock!PolicyIsKept
  <1>3. Clock!Spec => []Clock!NeverDueTwice
    BY RoutineAssumptions, Clock!OccurrencesAreNew
  <1>4. FoldedClock!Spec => []FoldedClock!MisfireAsPromised
    BY RoutineAssumptions, FoldedClock!PolicyIsKept
  <1>5. /\ OnClock => Clock!MisfireAsPromised /\ Clock!NeverDueTwice
        /\ OnFolded => FoldedClock!MisfireAsPromised
        => MisfireAsPromised
    BY DEF MisfireAsPromised
  <1>6. QED
    BY <1>1, <1>2, <1>3, <1>4, <1>5, ClockGoesOn, FoldedClockGoesOn, PTL DEF Spec

(* A run has one task for all its retries, and a dispatch leaves nothing   *)
(* to catch up with.                                                       *)
THEOREM RoutinesRunOnce == Spec => NothingRunsTwice
  <1> DEFINE OnClock == part = "clock"
  <1>1. [Next]_vars => (OnClock' <=> OnClock)
    BY PartStays
  <1>2. Queued!Spec => Queued!OneTaskPerRun
    BY RoutineAssumptions, Queued!TasksAreOne
  <1>3. Overlapping!Spec => Overlapping!OneTaskPerRun
    BY RoutineAssumptions, Overlapping!TasksAreOne
  <1>4. Clock!Spec => Clock!NoCatchUp
    BY RoutineAssumptions, Clock!NothingToCatchUp
  <1>5. [Clock!NoneLeft]_(Clock!vars) => Clock!NoneLeft
    BY DEF Clock!vars, Clock!NoneLeft
  <1>6. Spec => [][OnClock => Clock!NoneLeft]_vars
    <2>1. [Clock!NoneLeft]_(Clock!vars) => [OnClock => Clock!NoneLeft]_vars
      BY <1>5
    <2>2. ~OnClock => [OnClock => Clock!NoneLeft]_vars
      OBVIOUS
    <2>3. QED
      BY <1>1, <1>4, <2>1, <2>2, ClockGoesOn, PTL DEF Spec, Clock!NoCatchUp
  <1>7. QED
    BY <1>2, <1>3, <1>6, QueuedGoOn, OverlappingGoOn, PTL DEF NothingRunsTwice

-----------------------------------------------------------------------------
(* The queues of MCQueues.                                                 *)

(* One part runs, and a step of the suite is one of its own.               *)
LEMMA QueueStays == [QueuesNext]_queueVars => queue' = queue
  BY DEF QueuesNext, Working, Extracting, ExtractingOn, Transcribing, TranscribingAgain, Receiving,
     ReceivingVoice, Cycling, CyclingSlowly, Acting, Connecting, Searching, Rest, queueVars

LEMMA QueueSteps ==
    ASSUME [QueuesNext]_queueVars
    PROVE  /\ queue = "sources" => [Ingestion!Next]_(Ingestion!vars)
           /\ [Ingestion!Next \/ Overextended!Next]_(Ingestion!vars)
           /\ [Audio!Next \/ CrashingAudio!Next]_(AnyAudio!vars)
           /\ queue = "texts" => [Texts!Next]_(Texts!vars)
           /\ queue = "voices" => [VoiceMessages!Next]_(VoiceMessages!vars)
           /\ [Cycle!Next \/ SlowCycle!Next]_(SlowCycle!vars)
  BY DEF QueuesNext, Working, Extracting, ExtractingOn, Transcribing, TranscribingAgain, Receiving,
     ReceivingVoice, Cycling, CyclingSlowly, Acting, Connecting, Searching, Rest, queueVars, sources,
     audio, edge, cycle, Ingestion!vars, Overextended!vars, AnyAudio!vars, Texts!vars,
     VoiceMessages!vars, SlowCycle!vars

-----------------------------------------------------------------------------
(* The cycle: a scan that is to be done and whose stage is past was done.  *)

PastIsDone ==
    /\ wStage \in 0..(LastStage + 2) /\ (wScanning \cup wDue) \subseteq ScanStages
    /\ wStage \in 1..(LastStage + 1) => \A s \in wScanning : s < wStage => s \in wRan

LEMMA SlowAsWell == Cycle!Next => SlowCycle!Next
  BY DEF Cycle!Next, SlowCycle!Next, Cycle!Worker, SlowCycle!Worker, Cycle!StartCycle,
     SlowCycle!StartCycle, Cycle!DueAfterStart, SlowCycle!DueAfterStart, Cycle!RunStage,
     SlowCycle!RunStage, Cycle!NextStage, SlowCycle!NextStage, Cycle!SkipScan, SlowCycle!SkipScan,
     Cycle!EndCycle, SlowCycle!EndCycle, Cycle!Heartbeat, SlowCycle!Heartbeat, Cycle!LoseDatabase,
     SlowCycle!LoseDatabase, Cycle!TimeOut, SlowCycle!TimeOut, Cycle!Fail, SlowCycle!Fail,
     Cycle!Counted, SlowCycle!Counted, Cycle!LimitReached, SlowCycle!LimitReached, Cycle!Restart,
     SlowCycle!Restart, Cycle!Database, SlowCycle!Database, Cycle!Arrive, SlowCycle!Arrive,
     Cycle!Tick, SlowCycle!Tick, Cycle!Stages, SlowCycle!Stages, Cycle!Skipped, SlowCycle!Skipped

LEMMA PastStaysDone ==
    ASSUME PastIsDone, SlowCycle!Next
    PROVE  PastIsDone' /\ \A s \in wDue \ wDue' : s \in wRan
  <1>0. LastStage \in Nat \ {0} /\ \A s \in ScanStages : s \in Nat /\ s >= 1 /\ s <= LastStage
    BY QueueAssumptions DEF SlowCycle!CycleAssumption
  <1> USE <1>0 DEF PastIsDone, SlowCycle!Stages
  <1>1. CASE SlowCycle!StartCycle
    BY <1>1 DEF SlowCycle!StartCycle, SlowCycle!DueAfterStart
  <1>2. CASE SlowCycle!RunStage
    BY <1>2 DEF SlowCycle!RunStage, SlowCycle!NextStage
  <1>3. CASE SlowCycle!SkipScan
    <2>1. /\ wStage \in 1..LastStage /\ wStage \notin wScanning /\ wStage' = wStage + 1
          /\ UNCHANGED <<wScanning, wDue, wRan>>
      BY <1>3 DEF SlowCycle!SkipScan, SlowCycle!Skipped
    <2>2. \A s \in wScanning : s < wStage + 1 => s < wStage
      BY <2>1
    <2>3. QED
      BY <2>1, <2>2
  <1>4. CASE SlowCycle!EndCycle
    BY <1>4 DEF SlowCycle!EndCycle
  <1>5. CASE SlowCycle!Heartbeat \/ SlowCycle!Database
    BY <1>5 DEF SlowCycle!Heartbeat, SlowCycle!Database
  <1>6. CASE SlowCycle!LoseDatabase \/ SlowCycle!TimeOut
    BY <1>6 DEF SlowCycle!LoseDatabase, SlowCycle!TimeOut, SlowCycle!Fail
  <1>7. CASE SlowCycle!Restart
    BY <1>7 DEF SlowCycle!Restart
  <1>8. CASE \E s \in SlowCycle!Stages : SlowCycle!Arrive(s) \/ SlowCycle!Tick(s)
    BY <1>8 DEF SlowCycle!Arrive, SlowCycle!Tick
  <1>9. QED
    BY <1>1, <1>2, <1>3, <1>4, <1>5, <1>6, <1>7, <1>8 DEF SlowCycle!Next, SlowCycle!Worker

LEMMA ScansAreDone ==
    PastIsDone /\ [QueuesNext]_queueVars =>
        PastIsDone' /\ [\A s \in wDue \ wDue' : s \in wRan]_(SlowCycle!vars)
  <1>1. PastIsDone /\ UNCHANGED (SlowCycle!vars) => PastIsDone'
    BY DEF PastIsDone, SlowCycle!vars
  <1>2. QED
    BY <1>1, QueueSteps, SlowAsWell, PastStaysDone

LEMMA CycleBegins == QueuesInit => PastIsDone
  BY QueueAssumptions DEF QueuesInit, Cycle!Init, PastIsDone, SlowCycle!CycleAssumption

-----------------------------------------------------------------------------
(* Sources: who is asked to read one was told that it is there.            *)

Readers == sWorker \in [Extractors -> [source : Sources \cup SlowSources \cup {Nothing},
                                       phase : {"idle", "claimed", "extracting"}]]

NotRead == \A s \in SlowSources :
    sSource[s].erased /\ ~Overextended!Extracting(s) => ~Overextended!Extracting(s)'

LEMMA ReadersStay ==
    ASSUME Readers, Ingestion!Next \/ Overextended!Next
    PROVE  Readers' /\ NotRead
  <1> DEFINE Begun(w) == /\ sWorker' = [sWorker EXCEPT ![w].phase = "extracting"]
                         /\ ~sSource[sWorker[w].source].erased
  <1>1. \/ UNCHANGED sWorker
        \/ \E w \in Extractors : Begun(w)
        \/ \E w \in Extractors : sWorker' = [sWorker EXCEPT ![w] = Ingestion!Idle]
        \/ \E w \in Extractors, s \in Sources \cup SlowSources :
              sWorker' = [sWorker EXCEPT ![w] = [source |-> s, phase |-> "claimed"]]
    <2>1. CASE Ingestion!Next
      BY <2>1 DEF Ingestion!Next, Ingestion!Step, Ingestion!IngestTranscript, Ingestion!DeleteSource,
         Ingestion!Lapse, Ingestion!Begin, Ingestion!Finish, Ingestion!Fail, Ingestion!Crash,
         Ingestion!ClaimJob, Ingestion!Release, Ingestion!Unavailable
    <2>2. CASE Overextended!Next
      BY <2>2 DEF Overextended!Next, Overextended!Step, Overextended!IngestTranscript,
         Overextended!DeleteSource, Overextended!Lapse, Overextended!Begin, Overextended!Finish,
         Overextended!Fail, Overextended!Crash, Overextended!ClaimJob, Overextended!Release,
         Overextended!Unavailable, Overextended!Idle, Ingestion!Idle
    <2>3. QED
      BY <2>1, <2>2
  <1>2. Readers'
    BY <1>1 DEF Readers, Ingestion!Idle
  <1>3. NotRead
    BY <1>1 DEF NotRead, Overextended!Extracting, Readers, Ingestion!Idle
  <1>4. QED
    BY <1>2, <1>3

LEMMA ReadersGoOn ==
    Readers /\ [QueuesNext]_queueVars => Readers' /\ [NotRead]_(Overextended!vars)
  <1>1. Readers /\ UNCHANGED (Ingestion!vars) => Readers' /\ UNCHANGED (Overextended!vars)
    BY DEF Readers, Ingestion!vars, Overextended!vars
  <1>2. QED
    BY <1>1, QueueSteps, ReadersStay

LEMMA ReadersBegin == QueuesInit => Readers
  BY DEF QueuesInit, Overextended!Init, Ingestion!Init, Readers, Ingestion!Idle, Overextended!Idle

(* A deleted source is not handed to the model again, although a failure   *)
(* puts its job back in the queue and a lease may end before the work, and *)
(* a scan is taken for done only after its stage, although a cycle may     *)
(* fail or time out on the way: worker/service.py and worker/main.py.      *)
THEOREM DoneStaysInQueues == QueuesSpec => DoneIsDone
  <1> DEFINE Scanned == \A s \in wDue \ wDue' : s \in wRan
  <1>1. Overextended!ErasedIsNotRead <=> [][NotRead]_(Overextended!vars)
    BY DEF Overextended!ErasedIsNotRead, NotRead
  <1>2. SlowCycle!ScanIsDone <=> [][Scanned]_(SlowCycle!vars)
    BY DEF SlowCycle!ScanIsDone
  <1>3. QED
    BY <1>1, <1>2, ReadersBegin, ReadersGoOn, CycleBegins, ScansAreDone, PTL
       DEF QueuesSpec, DoneIsDone
-----------------------------------------------------------------------------
(* Sources whose workers keep their lease.  A worker has its source for    *)
(* itself, and its job is running, or was failed with the deletion of the  *)
(* source; what the tables say of a source that was not deleted agrees;    *)
(* and a job of which the end was told is never taken again.               *)

SourceJob == [status : {"none", "ready", "running", "completed", "failed"},
              lease : {"none", "held", "lapsed"}, attempts : Nat]

SourceTypes ==
    /\ sSource \in [Sources -> Ingestion!SourceRow]
    /\ sJob \in [Sources -> SourceJob]
    /\ sEvidence \subseteq Sources
    /\ sNotices \subseteq Announced \X {"processed", "failed"}
    /\ sWorker \in [Extractors -> Ingestion!Busy]

(* The rows of a source that its worker may have in hand.                  *)
Workable(src, row) == \/ row.status = "running" /\ row.lease = "held"
                      \/ row.status = "failed" /\ src.erased

SourcesInHand == \A w \in Extractors :
    \/ sWorker[w] = Ingestion!Idle
    \/ /\ sWorker[w].source \in Sources /\ sWorker[w].phase # "idle"
       /\ \A v \in Extractors : sWorker[v].source = sWorker[w].source => v = w
       /\ Workable(sSource[sWorker[w].source], sJob[sWorker[w].source])

Agree(src, row, evident) ==
    /\ src.status = "none" => ~src.erased /\ row.status = "none"
    /\ ~src.erased =>
          /\ src.status # "deleted"
          /\ (src.status = "processed") <=> (row.status = "completed")
          /\ (src.status = "failed") <=> (row.status = "failed")
          /\ evident <=> (src.status = "processed")

Agrees(s) == Agree(sSource[s], sJob[s], s \in sEvidence)

Told(s) ==
    /\ <<s, "processed">> \in sNotices => sJob[s].status = "completed"
    /\ <<s, "failed">> \in sNotices => sJob[s].status = "failed" /\ ~Ingestion!InHand(s)
    /\ sSource[s].status \in {"processed", "failed"} /\ ~sSource[s].erased
          => <<s, sSource[s].status>> \in sNotices

SourcesInv == /\ SourceTypes /\ SourcesInHand
              /\ \A s \in Sources : Agrees(s)
              /\ \A s \in Announced : Told(s)

LEMMA SourceConstants == Announced \subseteq Sources /\ Nothing \notin Sources
  BY QueueAssumptions DEF Ingestion!IngestionAssumption

LEMMA SourcesBegin == Ingestion!Init => SourcesInv
  BY SourceConstants DEF Ingestion!Init, SourcesInv, SourceTypes, SourceJob, SourcesInHand, Agrees,
     Agree, Told, Ingestion!SourceRow, Ingestion!Busy, Ingestion!Idle

(* The rows of one source are written, in a step that says nothing of      *)
(* another and takes up none.                                              *)
Written(s, src, row) ==
    /\ sSource' = [sSource EXCEPT ![s] = src] /\ sJob' = [sJob EXCEPT ![s] = row]
    /\ sEvidence' \subseteq Sources /\ sNotices' \subseteq Announced \X {"processed", "failed"}
    /\ \A r \in Sources \ {s} :
          /\ (r \in sEvidence') <=> (r \in sEvidence)
          /\ \A outcome \in {"processed", "failed"} :
                (<<r, outcome>> \in sNotices') <=> (<<r, outcome>> \in sNotices)

LEMMA SourceIsWritten ==
    ASSUME SourcesInv, NEW s \in Sources, NEW src \in Ingestion!SourceRow, NEW row \in SourceJob,
           Written(s, src, row), sWorker' \in [Extractors -> Ingestion!Busy], SourcesInHand',
           \A r \in Sources \ {s} : Ingestion!InHand(r)' => Ingestion!InHand(r),
           Agree(src, row, s \in sEvidence'),
           s \in Announced => Told(s)'
    PROVE  SourcesInv'
  <1>1. /\ sSource'[s] = src /\ sJob'[s] = row
        /\ \A r \in Sources \ {s} : sSource'[r] = sSource[r] /\ sJob'[r] = sJob[r]
    BY DEF SourcesInv, SourceTypes, Written
  <1>2. SourceTypes'
    <2>1. sSource' \in [Sources -> Ingestion!SourceRow] /\ sJob' \in [Sources -> SourceJob]
      BY DEF SourcesInv, SourceTypes, Written
    <2>2. QED
      BY <2>1 DEF SourceTypes, Written
  <1>3. \A r \in Sources : Agrees(r)'
    BY <1>1 DEF SourcesInv, Agrees, Written, Agree
  <1>4. \A r \in Announced \ {s} : Told(r)'
    BY <1>1, SourceConstants DEF SourcesInv, Told, Written
  <1>5. QED
    BY <1>2, <1>3, <1>4 DEF SourcesInv

(* A row whose worker is left as it is.                                    *)
LEMMA SourceOutOfHand ==
    ASSUME SourcesInv, NEW s \in Sources, NEW src \in Ingestion!SourceRow, NEW row \in SourceJob,
           Written(s, src, row), UNCHANGED sWorker,
           Ingestion!InHand(s) => Workable(src, row),
           Agree(src, row, s \in sEvidence'),
           s \in Announced => Told(s)'
    PROVE  SourcesInv'
  <1>1. /\ sSource'[s] = src /\ sJob'[s] = row
        /\ \A r \in Sources \ {s} : sSource'[r] = sSource[r] /\ sJob'[r] = sJob[r]
    BY DEF SourcesInv, SourceTypes, Written
  <1>2. SourcesInHand'
    BY <1>1 DEF SourcesInv, SourcesInHand, Ingestion!InHand, Ingestion!Idle
  <1>3. \A r \in Sources : Ingestion!InHand(r)' => Ingestion!InHand(r)
    BY DEF Ingestion!InHand
  <1>4. QED
    BY <1>2, <1>3, SourceIsWritten DEF SourcesInv, SourceTypes

LEMMA IngestKeeps ==
    ASSUME SourcesInv, NEW s \in Sources, Ingestion!IngestTranscript(s)
    PROVE  SourcesInv'
  <1> DEFINE src == [sSource[s] EXCEPT !.status = "received"]
             row == [sJob[s] EXCEPT !.status = "ready"]
  <1>1. /\ src \in Ingestion!SourceRow /\ src.status = "received"
        /\ src.erased = sSource[s].erased
        /\ row \in SourceJob /\ row.status = "ready"
    BY DEF SourcesInv, SourceTypes, Ingestion!SourceRow, SourceJob
  <1>2. /\ Written(s, src, row) /\ UNCHANGED <<sWorker, sEvidence, sNotices>>
        /\ sSource[s].status = "none"
    BY DEF Ingestion!IngestTranscript, Written, SourcesInv, SourceTypes
  <1> HIDE DEF src, row
  <1>3. Agree(src, row, s \in sEvidence')
    BY <1>1, <1>2 DEF SourcesInv, Agrees, Agree
  <1>4. ~Ingestion!InHand(s)
    BY <1>2, SourceConstants DEF SourcesInv, Agrees, Agree, SourcesInHand, Ingestion!InHand,
       Ingestion!Idle, Workable
  <1>5. s \in Announced => Told(s)'
    <2>1. sSource'[s] = src /\ sJob'[s] = row
      BY <1>2 DEF SourcesInv, SourceTypes, Written
    <2>2. QED
      BY <1>1, <1>2, <2>1 DEF SourcesInv, Told, Agrees, Agree
  <1>6. QED
    BY <1>1, <1>2, <1>3, <1>4, <1>5, SourceOutOfHand

(* What the user sees of a source goes, and its worker goes on.            *)
LEMMA DeleteKeeps ==
    ASSUME SourcesInv, NEW s \in Sources, Ingestion!DeleteSource(s)
    PROVE  SourcesInv'
  <1> DEFINE src == [status |-> "deleted", erased |-> TRUE]
             ended == IF sJob[s].status \in {"ready", "running"} THEN "failed" ELSE sJob[s].status
             row == [sJob[s] EXCEPT !.status = ended]
  <1>1. /\ src \in Ingestion!SourceRow /\ src.status = "deleted" /\ src.erased
        /\ row \in SourceJob /\ row.status = ended
    BY DEF SourcesInv, SourceTypes, Ingestion!SourceRow, SourceJob
  <1>2. /\ Written(s, src, row) /\ UNCHANGED <<sWorker, sNotices>>
        /\ sEvidence' = sEvidence \ {s}
    BY DEF Ingestion!DeleteSource, Written, SourcesInv, SourceTypes
  <1>3. ended \notin {"ready", "running"} /\ (sJob[s].status \in {"completed", "failed"} =>
              ended = sJob[s].status) /\ (sJob[s].status = "running" => ended = "failed")
    OBVIOUS
  <1> HIDE DEF src, row, ended
  <1>4. Agree(src, row, s \in sEvidence')
    BY <1>1 DEF Agree
  <1>5. Ingestion!InHand(s) => Workable(src, row)
    BY <1>1, <1>3, SourceConstants DEF SourcesInv, SourcesInHand, Ingestion!InHand, Ingestion!Idle,
       Workable
  <1>6. s \in Announced => Told(s)'
    <2>1. /\ sSource'[s] = src /\ sJob'[s] = row
          /\ Ingestion!InHand(s)' => Ingestion!InHand(s)
      BY <1>2 DEF SourcesInv, SourceTypes, Written, Ingestion!InHand
    <2>2. QED
      BY <1>1, <1>2, <1>3, <2>1 DEF SourcesInv, Told
  <1>7. QED
    BY <1>1, <1>2, <1>4, <1>5, <1>6, SourceOutOfHand

LEMMA LapseKeeps ==
    ASSUME SourcesInv, NEW s \in Sources, Ingestion!Lapse(s)
    PROVE  SourcesInv'
  <1> DEFINE row == [sJob[s] EXCEPT !.lease = "lapsed"]
  <1>1. row \in SourceJob /\ row.status = sJob[s].status
    BY DEF SourcesInv, SourceTypes, SourceJob
  <1>2. /\ Written(s, sSource[s], row) /\ UNCHANGED <<sWorker, sEvidence, sNotices, sSource>>
        /\ ~Ingestion!InHand(s) /\ sSource[s] \in Ingestion!SourceRow
    BY DEF Ingestion!Lapse, Written, SourcesInv, SourceTypes
  <1> HIDE DEF row
  <1>3. Agree(sSource[s], row, s \in sEvidence')
    BY <1>1, <1>2 DEF SourcesInv, Agrees, Agree
  <1>4. s \in Announced => Told(s)'
    <2>1. sJob'[s] = row /\ ~Ingestion!InHand(s)'
      BY <1>2 DEF SourcesInv, SourceTypes, Written, Ingestion!InHand
    <2>2. QED
      BY <1>1, <1>2, <2>1 DEF SourcesInv, Told
  <1>5. QED
    BY <1>1, <1>2, <1>3, <1>4, SourceOutOfHand

LEMMA ClaimKeeps ==
    ASSUME SourcesInv, NEW w \in Extractors, NEW s \in Sources, Ingestion!ClaimJob(w, s)
    PROVE  SourcesInv'
  <1> DEFINE more == sJob[s].attempts + 1
             row == [status |-> "running", lease |-> "held", attempts |-> more]
             busy == [source |-> s, phase |-> "claimed"]
  <1>1. more \in Nat
    BY DEF SourcesInv, SourceTypes, SourceJob
  <1>2. sJob' = [sJob EXCEPT ![s] = row]
    BY DEF Ingestion!ClaimJob
  <1> HIDE DEF more
  <1>3. /\ row \in SourceJob /\ row.status = "running" /\ row.lease = "held"
        /\ busy \in Ingestion!Busy /\ busy.source = s /\ busy.phase = "claimed"
    BY <1>1 DEF SourceJob, Ingestion!Busy
  <1>4. /\ Written(s, sSource[s], row) /\ UNCHANGED <<sEvidence, sNotices, sSource>>
        /\ sSource[s] \in Ingestion!SourceRow
        /\ sWorker[w] = Ingestion!Idle /\ sWorker' = [sWorker EXCEPT ![w] = busy]
        /\ \/ sJob[s].status = "ready"
           \/ sJob[s].status = "running" /\ sJob[s].lease = "lapsed"
    BY <1>2 DEF Ingestion!ClaimJob, Ingestion!Claimable, Written, SourcesInv, SourceTypes
  <1> HIDE DEF row, busy
  <1>5. /\ sJob'[s] = row /\ sWorker'[w] = busy
        /\ \A r \in Sources \ {s} : sJob'[r] = sJob[r]
        /\ \A v \in Extractors \ {w} : sWorker'[v] = sWorker[v]
        /\ sWorker' \in [Extractors -> Ingestion!Busy]
    BY <1>3, <1>4 DEF SourcesInv, SourceTypes, Written
  <1>6. \A v \in Extractors : sWorker[v].source # s
    BY <1>4, SourceConstants DEF SourcesInv, SourcesInHand, Ingestion!Idle, Workable
  <1>7. SourcesInHand'
    BY <1>3, <1>4, <1>5, <1>6, SourceConstants
       DEF SourcesInv, SourcesInHand, Ingestion!Idle, Workable
  <1>8. \A r \in Sources \ {s} : Ingestion!InHand(r)' => Ingestion!InHand(r)
    BY <1>3, <1>5 DEF Ingestion!InHand
  <1>9. Agree(sSource[s], row, s \in sEvidence')
    BY <1>3, <1>4 DEF SourcesInv, Agrees, Agree
  <1>10. s \in Announced => Told(s)'
    BY <1>3, <1>4, <1>5 DEF SourcesInv, Told
  <1>11. QED
    BY <1>3, <1>4, <1>5, <1>7, <1>8, <1>9, <1>10, SourceIsWritten

(* A worker that lays its source down was the only one that had it.        *)
LEMMA SourceLaidDown ==
    ASSUME SourcesInv, NEW w \in Extractors, sWorker[w] # Ingestion!Idle,
           NEW s, s = sWorker[w].source,
           NEW src \in Ingestion!SourceRow, NEW row \in SourceJob,
           Written(s, src, row), sWorker' = [sWorker EXCEPT ![w] = Ingestion!Idle],
           Agree(src, row, s \in sEvidence'),
           s \in Announced /\ ~Ingestion!InHand(s)' => Told(s)'
    PROVE  SourcesInv'
  <1>1. /\ s \in Sources
        /\ \A v \in Extractors \ {w} : sWorker[v].source # s
    BY DEF SourcesInv, SourcesInHand
  <1>2. /\ sWorker'[w] = Ingestion!Idle /\ sWorker' \in [Extractors -> Ingestion!Busy]
        /\ \A v \in Extractors \ {w} : sWorker'[v] = sWorker[v]
    BY DEF SourcesInv, SourceTypes, Ingestion!Idle, Ingestion!Busy
  <1>3. /\ sSource'[s] = src /\ sJob'[s] = row
        /\ \A r \in Sources \ {s} : sSource'[r] = sSource[r] /\ sJob'[r] = sJob[r]
    BY <1>1 DEF SourcesInv, SourceTypes, Written
  <1>4. SourcesInHand'
    BY <1>1, <1>2, <1>3, SourceConstants DEF SourcesInv, SourcesInHand, Ingestion!Idle
  <1>5. /\ ~Ingestion!InHand(s)'
        /\ \A r \in Sources : Ingestion!InHand(r)' => Ingestion!InHand(r)
    BY <1>1, <1>2, SourceConstants DEF Ingestion!InHand, Ingestion!Idle
  <1>6. QED
    BY <1>1, <1>2, <1>4, <1>5, SourceIsWritten

(* What is so of the source of a worker.                                   *)
LEMMA SourceOfWorker ==
    ASSUME SourcesInv, NEW w \in Extractors, sWorker[w].phase # "idle"
    PROVE  /\ sWorker[w] # Ingestion!Idle /\ sWorker[w].source \in Sources
           /\ Workable(sSource[sWorker[w].source], sJob[sWorker[w].source])
           /\ sSource[sWorker[w].source] \in Ingestion!SourceRow
           /\ sJob[sWorker[w].source] \in SourceJob
           /\ \A outcome \in {"processed", "failed"} :
                 <<sWorker[w].source, outcome>> \notin sNotices
  <1>1. /\ sWorker[w] # Ingestion!Idle /\ sWorker[w].source \in Sources
        /\ Workable(sSource[sWorker[w].source], sJob[sWorker[w].source])
    BY DEF SourcesInv, SourcesInHand, Ingestion!Idle
  <1>2. Ingestion!InHand(sWorker[w].source)
    BY DEF Ingestion!InHand
  <1>3. \A outcome \in {"processed", "failed"} : <<sWorker[w].source, outcome>> \notin sNotices
    <2>1. CASE sWorker[w].source \in Announced
      BY <1>1, <1>2, <2>1 DEF SourcesInv, Told, Workable
    <2>2. CASE sWorker[w].source \notin Announced
      BY <2>2 DEF SourcesInv, SourceTypes
    <2>3. QED
      BY <2>1, <2>2
  <1>4. QED
    BY <1>1, <1>3 DEF SourcesInv, SourceTypes

LEMMA CrashKeepsSources ==
    ASSUME SourcesInv, NEW w \in Extractors, Ingestion!Crash(w)
    PROVE  SourcesInv'
  <1>1. PICK s : s = sWorker[w].source
    OBVIOUS
  <1>2. sWorker[w].phase # "idle"
    BY DEF Ingestion!Crash, SourcesInv, SourcesInHand, Ingestion!Idle
  <1>3. /\ s \in Sources /\ sSource[s] \in Ingestion!SourceRow /\ sJob[s] \in SourceJob
        /\ sWorker[w] # Ingestion!Idle
        /\ \A outcome \in {"processed", "failed"} : <<s, outcome>> \notin sNotices
    BY <1>1, <1>2, SourceOfWorker
  <1>4. /\ Written(s, sSource[s], sJob[s]) /\ UNCHANGED <<sSource, sJob, sEvidence, sNotices>>
        /\ sWorker' = [sWorker EXCEPT ![w] = Ingestion!Idle]
    BY <1>3 DEF Ingestion!Crash, Ingestion!Release, Written, SourcesInv, SourceTypes
  <1>5. Agree(sSource[s], sJob[s], s \in sEvidence')
    BY <1>3, <1>4 DEF SourcesInv, Agrees
  <1>6. s \in Announced => Told(s)'
    BY <1>3, <1>4 DEF SourcesInv, Told
  <1>7. QED
    BY <1>1, <1>3, <1>4, <1>5, <1>6, SourceLaidDown

LEMMA BeginKeeps ==
    ASSUME SourcesInv, NEW w \in Extractors, Ingestion!Begin(w)
    PROVE  SourcesInv'
  <1>1. PICK s : s = sWorker[w].source
    OBVIOUS
  <1>2. /\ s \in Sources /\ sSource[s] \in Ingestion!SourceRow /\ sJob[s] \in SourceJob
        /\ sWorker[w] # Ingestion!Idle
        /\ \A outcome \in {"processed", "failed"} : <<s, outcome>> \notin sNotices
        /\ Workable(sSource[s], sJob[s]) /\ Agree(sSource[s], sJob[s], s \in sEvidence)
    BY <1>1, SourceOfWorker DEF Ingestion!Begin, SourcesInv, Agrees
  <1>3. CASE Ingestion!Unavailable(s)
    <2> DEFINE row == [sJob[s] EXCEPT !.status = "failed"]
    <2>1. row \in SourceJob /\ row.status = "failed"
      BY <1>2 DEF SourceJob
    <2>2. /\ Written(s, sSource[s], row) /\ UNCHANGED <<sSource, sEvidence, sNotices>>
          /\ sWorker' = [sWorker EXCEPT ![w] = Ingestion!Idle]
      BY <1>1, <1>2, <1>3 DEF Ingestion!Begin, Ingestion!Release, Written, SourcesInv, SourceTypes
    <2> HIDE DEF row
    <2>3. sSource[s].erased
      BY <1>2, <1>3 DEF Ingestion!Unavailable, Agree, Workable
    <2>4. Agree(sSource[s], row, s \in sEvidence')
      BY <1>2, <2>3 DEF Agree, Workable
    <2>5. s \in Announced => Told(s)'
      BY <1>2, <2>2, <2>3 DEF Told
    <2>6. QED
      BY <1>1, <1>2, <2>1, <2>2, <2>4, <2>5, SourceLaidDown
  <1>4. CASE ~Ingestion!Unavailable(s)
    <2> DEFINE src == [sSource[s] EXCEPT !.status = "processing"]
    <2>1. /\ src \in Ingestion!SourceRow /\ src.status = "processing"
          /\ src.erased = sSource[s].erased
      BY <1>2 DEF Ingestion!SourceRow
    <2>2. /\ Written(s, src, sJob[s]) /\ UNCHANGED <<sJob, sEvidence, sNotices>>
          /\ sWorker' = [sWorker EXCEPT ![w].phase = "extracting"]
          /\ ~sSource[s].erased
      BY <1>1, <1>2, <1>4 DEF Ingestion!Begin, Ingestion!Unavailable, Written, SourcesInv,
         SourceTypes
    <2> HIDE DEF src
    <2>3. /\ sSource'[s] = src
          /\ \A r \in Sources \ {s} : sSource'[r] = sSource[r]
      BY <1>2, <2>2 DEF SourcesInv, SourceTypes, Written
    <2>4. /\ sWorker' \in [Extractors -> Ingestion!Busy]
          /\ \A v \in Extractors : sWorker'[v].source = sWorker[v].source
          /\ sWorker'[w].phase = "extracting"
          /\ \A v \in Extractors \ {w} : sWorker'[v] = sWorker[v]
      BY <2>2 DEF SourcesInv, SourceTypes, Ingestion!Busy
    <2>5. SourcesInHand'
      BY <1>1, <1>2, <2>1, <2>2, <2>3, <2>4
         DEF SourcesInv, SourcesInHand, Ingestion!Idle, Workable
    <2>6. \A r \in Sources : Ingestion!InHand(r)' => Ingestion!InHand(r)
      BY <2>4 DEF Ingestion!InHand
    <2>7. Agree(src, sJob[s], s \in sEvidence')
      BY <1>2, <2>1, <2>2 DEF Agree, Workable
    <2>8. s \in Announced => Told(s)'
      BY <1>2, <2>1, <2>2, <2>3 DEF Told
    <2>9. QED
      BY <1>2, <2>1, <2>2, <2>4, <2>5, <2>6, <2>7, <2>8, SourceIsWritten
  <1>5. QED
    BY <1>3, <1>4

LEMMA FinishKeeps ==
    ASSUME SourcesInv, NEW w \in Extractors, Ingestion!Finish(w)
    PROVE  SourcesInv'
  <1>1. PICK s : s = sWorker[w].source
    OBVIOUS
  <1>2. /\ s \in Sources /\ sSource[s] \in Ingestion!SourceRow /\ sJob[s] \in SourceJob
        /\ sWorker[w] # Ingestion!Idle
        /\ \A outcome \in {"processed", "failed"} : <<s, outcome>> \notin sNotices
    BY <1>1, SourceOfWorker DEF Ingestion!Finish
  <1> DEFINE src == [sSource[s] EXCEPT !.status = "processed"]
             row == [sJob[s] EXCEPT !.status = "completed", !.lease = "none"]
  <1>3. /\ src \in Ingestion!SourceRow /\ src.status = "processed"
        /\ row \in SourceJob /\ row.status = "completed"
    BY <1>2 DEF Ingestion!SourceRow, SourceJob
  <1>4. /\ sSource' = [sSource EXCEPT ![s] = src] /\ sJob' = [sJob EXCEPT ![s] = row]
        /\ sEvidence' = sEvidence \cup {s}
        /\ sNotices' = sNotices \cup ({<<s, "processed">>} \cap (Announced \X {"processed"}))
        /\ sWorker' = [sWorker EXCEPT ![w] = Ingestion!Idle]
    BY <1>1 DEF Ingestion!Finish, Ingestion!Tell, Ingestion!Release
  <1> HIDE DEF src, row
  <1>5. Written(s, src, row) /\ sSource'[s] = src /\ sJob'[s] = row
    BY <1>2, <1>4 DEF Written, SourcesInv, SourceTypes
  <1>6. Agree(src, row, s \in sEvidence')
    BY <1>3, <1>4 DEF Agree
  <1>7. s \in Announced => Told(s)'
    BY <1>2, <1>3, <1>4, <1>5 DEF Told
  <1>8. QED
    BY <1>1, <1>2, <1>3, <1>4, <1>5, <1>6, <1>7, SourceLaidDown

LEMMA FailKeeps ==
    ASSUME SourcesInv, NEW w \in Extractors, Ingestion!Fail(w)
    PROVE  SourcesInv'
  <1>1. PICK s : s = sWorker[w].source
    OBVIOUS
  <1>2. /\ s \in Sources /\ sSource[s] \in Ingestion!SourceRow /\ sJob[s] \in SourceJob
        /\ sWorker[w] # Ingestion!Idle
        /\ \A outcome \in {"processed", "failed"} : <<s, outcome>> \notin sNotices
        /\ Workable(sSource[s], sJob[s]) /\ Agree(sSource[s], sJob[s], s \in sEvidence)
    BY <1>1, SourceOfWorker DEF Ingestion!Fail, SourcesInv, Agrees
  <1>3. PICK retry \in BOOLEAN : retry <=> (sJob[s].attempts < MaxTries)
    <2>1. CASE sJob[s].attempts < MaxTries
      BY <2>1
    <2>2. CASE ~(sJob[s].attempts < MaxTries)
      BY <2>2
    <2>3. QED
      BY <2>1, <2>2
  <1> DEFINE src == [sSource[s] EXCEPT !.status = IF retry THEN "received" ELSE "failed"]
             row == [sJob[s] EXCEPT !.lease = "none", !.status = IF retry THEN "ready" ELSE "failed"]
  <1>4. /\ src \in Ingestion!SourceRow /\ src.status = IF retry THEN "received" ELSE "failed"
        /\ src.erased = sSource[s].erased
        /\ row \in SourceJob /\ row.status = IF retry THEN "ready" ELSE "failed"
    BY <1>2 DEF Ingestion!SourceRow, SourceJob
  <1>5. /\ sSource' = [sSource EXCEPT ![s] = src] /\ sJob' = [sJob EXCEPT ![s] = row]
        /\ UNCHANGED sEvidence
        /\ IF retry \/ sSource[s].erased THEN UNCHANGED sNotices
           ELSE sNotices' = sNotices \cup ({<<s, "failed">>} \cap (Announced \X {"failed"}))
        /\ sWorker' = [sWorker EXCEPT ![w] = Ingestion!Idle]
    BY <1>1, <1>3 DEF Ingestion!Fail, Ingestion!Tell, Ingestion!Release
  <1> HIDE DEF src, row
  <1>6. Written(s, src, row) /\ sSource'[s] = src /\ sJob'[s] = row
    BY <1>2, <1>5 DEF Written, SourcesInv, SourceTypes
  <1>7. Agree(src, row, s \in sEvidence')
    BY <1>2, <1>4, <1>5 DEF Agree, Workable
  <1>8. s \in Announced /\ ~Ingestion!InHand(s)' => Told(s)'
    BY <1>2, <1>4, <1>5, <1>6 DEF Told
  <1>9. QED
    BY <1>1, <1>2, <1>4, <1>5, <1>6, <1>7, <1>8, SourceLaidDown

LEMMA SourcesStep ==
    SourcesInv /\ [Ingestion!Next]_(Ingestion!vars) => SourcesInv'
  <1>1. SourcesInv /\ UNCHANGED (Ingestion!vars) => SourcesInv'
    BY DEF SourcesInv, SourceTypes, SourcesInHand, Agrees, Told, Ingestion!InHand, Ingestion!vars
  <1>2. QED
    BY <1>1, IngestKeeps, DeleteKeeps, LapseKeeps, ClaimKeeps, BeginKeeps, CrashKeepsSources,
       FinishKeeps, FailKeeps DEF Ingestion!Next, Ingestion!Step

-----------------------------------------------------------------------------
(* Voice messages.  A worker has its job for itself, and goes on from what *)
(* it claimed, which is still so; a transcript is of one job, or of the    *)
(* worker that has just asked for it, and a new one is of none.            *)

Handles(busy, row) ==
    /\ busy.phase \in {"claimed", "submitted"} =>
          row.status = "running" /\ row.lease = "held" /\ row.stage = busy.stage
    /\ busy.phase = "claimed" => row.transcript = busy.transcript
    /\ busy.phase = "submitted" => busy.stage = "submit" /\ busy.transcript \in Transcripts
    /\ busy.phase \in {"cleaning", "cleaned"} => row.status = "completed" /\ row.stage = "poll"

VoicesInHand == \A w \in Listeners :
    \/ aWorker[w] = AnyAudio!Idle
    \/ /\ aWorker[w].job \in VoiceJobs /\ aWorker[w].phase # "idle"
       /\ \A v \in Listeners : aWorker[v].job = aWorker[w].job => v = w
       /\ Handles(aWorker[w], aJob[aWorker[w].job])

Outcome(message_, row, told_) ==
    /\ (message_ = "transcribing") <=> (row.status \in {"ready", "running"})
    /\ (message_ \in {"received", "answered"}) <=> (row.status = "completed")
    /\ (message_ = "failed") <=> told_

Resumes(row) == /\ row.stage = "submit" => row.url
                /\ row.stage = "poll" => row.transcript # Nothing

Submitted(w) == aWorker[w].phase = "submitted"

ApartTranscripts ==
    /\ \A j \in VoiceJobs : aJob[j].transcript # Nothing =>
          /\ aProvider[aJob[j].transcript] # "none"
          /\ \A k \in VoiceJobs \ {j} : aJob[k].transcript # aJob[j].transcript
    /\ \A w \in Listeners : Submitted(w) =>
          /\ aProvider[aWorker[w].transcript] # "none"
          /\ \A j \in VoiceJobs : aJob[j].transcript # aWorker[w].transcript
          /\ \A v \in Listeners \ {w} : Submitted(v) => aWorker[v].transcript # aWorker[w].transcript

AudioInv ==
    /\ AnyAudio!TypeOK /\ VoicesInHand /\ ApartTranscripts
    /\ \A j \in VoiceJobs : Outcome(aMessage[j], aJob[j], j \in aNotices) /\ Resumes(aJob[j])

LEMMA AudioConstants ==
    /\ Nothing \notin VoiceJobs /\ Nothing \notin Transcripts /\ FewTranscripts \subseteq Transcripts
    /\ MaxTries \in Nat /\ MaxStops \in Nat
  BY QueueAssumptions DEF AnyAudio!AudioAssumption

LEMMA AudioBegins == AnyAudio!Init => AudioInv
  <1> SUFFICES ASSUME AnyAudio!Init PROVE AudioInv
    OBVIOUS
  <1> DEFINE row == [status |-> "ready", stage |-> "upload", lease |-> "none", attempts |-> 0,
                     url |-> FALSE, transcript |-> Nothing]
  <1>1. /\ row \in AnyAudio!JobRow /\ row.status = "ready" /\ row.stage = "upload"
        /\ row.transcript = Nothing
    BY AudioConstants DEF AnyAudio!JobRow, AnyAudio!Stages
  <1>2. aJob = [j \in VoiceJobs |-> row]
    BY DEF AnyAudio!Init
  <1> HIDE DEF row
  <1>3. AnyAudio!TypeOK
    <2>1. AnyAudio!Idle \in AnyAudio!Busy
      BY DEF AnyAudio!Idle, AnyAudio!Busy, AnyAudio!Stages
    <2>2. aJob \in [VoiceJobs -> AnyAudio!JobRow] /\ aWorker \in [Listeners -> AnyAudio!Busy]
      BY <1>1, <1>2, <2>1 DEF AnyAudio!Init
    <2>3. /\ aMessage \in [VoiceJobs -> {"transcribing", "received", "answered", "failed"}]
          /\ aProvider \in [Transcripts -> AnyAudio!Transcript]
      BY DEF AnyAudio!Init, AnyAudio!Transcript
    <2>4. aCrashes \in 0..MaxStops /\ aNotices \subseteq VoiceJobs
      BY AudioConstants DEF AnyAudio!Init
    <2>5. QED
      BY <2>2, <2>3, <2>4 DEF AnyAudio!TypeOK
  <1>4. QED
    BY <1>1, <1>2, <1>3 DEF AnyAudio!Init, AudioInv, VoicesInHand, ApartTranscripts, Outcome,
       Resumes, Submitted, AnyAudio!Idle

LEMMA OneKindOfAudio ==
    ASSUME AudioInv, Audio!Next \/ CrashingAudio!Next
    PROVE  AnyAudio!Next
  <1>1. ~(aCrashes < 0)
    BY DEF AudioInv, AnyAudio!TypeOK
  <1>2. \A w : Audio!Step(w) => AnyAudio!Step(w)
    BY DEF Audio!Step, AnyAudio!Step, Audio!Upload, AnyAudio!Upload, Audio!SaveSubmit,
       AnyAudio!SaveSubmit, Audio!PollAgain, AnyAudio!PollAgain, Audio!Transcribe,
       AnyAudio!Transcribe, Audio!DeleteTranscript, AnyAudio!DeleteTranscript, Audio!SaveCleanup,
       AnyAudio!SaveCleanup, Audio!Fail, AnyAudio!Fail, Audio!Permanent, AnyAudio!Permanent,
       Audio!HandleFailure, AnyAudio!HandleFailure, Audio!PersistFailure, AnyAudio!PersistFailure,
       Audio!CallSubmit, AnyAudio!CallSubmit, Audio!At, AnyAudio!At, Audio!Release,
       AnyAudio!Release, Audio!Requeued, AnyAudio!Requeued, Audio!Idle, AnyAudio!Idle
  <1>3. \A w : CrashingAudio!Step(w) => AnyAudio!Step(w)
    BY AudioConstants DEF CrashingAudio!Step, AnyAudio!Step, CrashingAudio!Upload, AnyAudio!Upload,
       CrashingAudio!SaveSubmit, AnyAudio!SaveSubmit, CrashingAudio!PollAgain, AnyAudio!PollAgain,
       CrashingAudio!Transcribe, AnyAudio!Transcribe, CrashingAudio!DeleteTranscript,
       AnyAudio!DeleteTranscript, CrashingAudio!SaveCleanup, AnyAudio!SaveCleanup,
       CrashingAudio!Fail, AnyAudio!Fail, CrashingAudio!Permanent, AnyAudio!Permanent,
       CrashingAudio!HandleFailure, AnyAudio!HandleFailure, CrashingAudio!PersistFailure,
       AnyAudio!PersistFailure, CrashingAudio!CallSubmit, AnyAudio!CallSubmit, CrashingAudio!At,
       AnyAudio!At, CrashingAudio!Release, AnyAudio!Release, CrashingAudio!Requeued,
       AnyAudio!Requeued, CrashingAudio!Idle, AnyAudio!Idle
  <1>4. CASE Audio!Next
    BY <1>1, <1>2, <1>4 DEF Audio!Next, AnyAudio!Next, Audio!Crash, Audio!ClaimJob,
       AnyAudio!ClaimJob, Audio!Claimable, AnyAudio!Claimable, Audio!Lapse, AnyAudio!Lapse,
       Audio!InHand, AnyAudio!InHand, Audio!AnswerMessage, AnyAudio!AnswerMessage,
       Audio!ProviderEnds, AnyAudio!ProviderEnds, Audio!Idle, AnyAudio!Idle
  <1>5. CASE CrashingAudio!Next
    BY <1>3, <1>5, AudioConstants DEF CrashingAudio!Next, AnyAudio!Next, CrashingAudio!Crash,
       AnyAudio!Crash, CrashingAudio!ClaimJob, AnyAudio!ClaimJob, CrashingAudio!Claimable,
       AnyAudio!Claimable, CrashingAudio!Lapse, AnyAudio!Lapse, CrashingAudio!InHand,
       AnyAudio!InHand, CrashingAudio!AnswerMessage, AnyAudio!AnswerMessage,
       CrashingAudio!ProviderEnds, AnyAudio!ProviderEnds, CrashingAudio!Release, AnyAudio!Release,
       CrashingAudio!Idle, AnyAudio!Idle
  <1>6. QED
    BY <1>4, <1>5

(* What is so of the job of a worker.                                      *)
LEMMA VoiceOfWorker ==
    ASSUME AudioInv, NEW w \in Listeners, NEW j, j = aWorker[w].job, aWorker[w].phase # "idle"
    PROVE  /\ aWorker[w] # AnyAudio!Idle /\ j \in VoiceJobs /\ Handles(aWorker[w], aJob[j])
           /\ \A v \in Listeners \ {w} : aWorker[v].job # j
           /\ aJob[j] \in AnyAudio!JobRow
           /\ Outcome(aMessage[j], aJob[j], j \in aNotices) /\ Resumes(aJob[j])
  <1>1. aWorker[w] # AnyAudio!Idle
    BY DEF AnyAudio!Idle
  <1>2. QED
    BY <1>1 DEF AudioInv, VoicesInHand, AnyAudio!TypeOK

(* The rows of one message are written by the only worker that has it.     *)
LEMMA VoiceIsWritten ==
    ASSUME AudioInv, NEW w \in Listeners, NEW j \in VoiceJobs,
           \A v \in Listeners \ {w} : aWorker[v].job # j,
           NEW row \in AnyAudio!JobRow, aJob' = [aJob EXCEPT ![j] = row],
           NEW busy \in AnyAudio!Busy, aWorker' = [aWorker EXCEPT ![w] = busy],
           busy = AnyAudio!Idle \/ (busy.job = j /\ busy.phase \in {"claimed", "cleaning"}
                                     /\ Handles(busy, row)),
           NEW text \in {"transcribing", "received", "answered", "failed"},
           aMessage' = [aMessage EXCEPT ![j] = text],
           aNotices' \subseteq VoiceJobs,
           \A k \in VoiceJobs \ {j} : (k \in aNotices') <=> (k \in aNotices),
           Outcome(text, row, j \in aNotices'), Resumes(row),
           \/ row.transcript = aJob[j].transcript
           \/ Submitted(w) /\ row.transcript = aWorker[w].transcript,
           UNCHANGED <<aProvider, aCrashes>>
    PROVE  AudioInv'
  <1>1. /\ aJob'[j] = row /\ aMessage'[j] = text /\ aWorker'[w] = busy
        /\ \A k \in VoiceJobs \ {j} : aJob'[k] = aJob[k] /\ aMessage'[k] = aMessage[k]
        /\ \A v \in Listeners \ {w} : aWorker'[v] = aWorker[v]
    BY DEF AudioInv, AnyAudio!TypeOK
  <1>2. AnyAudio!TypeOK'
    <2>1. /\ aJob' \in [VoiceJobs -> AnyAudio!JobRow] /\ aWorker' \in [Listeners -> AnyAudio!Busy]
          /\ aMessage' \in [VoiceJobs -> {"transcribing", "received", "answered", "failed"}]
      BY DEF AudioInv, AnyAudio!TypeOK
    <2>2. QED
      BY <2>1 DEF AudioInv, AnyAudio!TypeOK
  <1>3. VoicesInHand'
    BY <1>1, AudioConstants DEF AudioInv, VoicesInHand, AnyAudio!Idle
  <1>4. ~Submitted(w)' /\ \A v \in Listeners \ {w} : Submitted(v)' => Submitted(v)
    BY <1>1 DEF Submitted, AnyAudio!Idle
  <1>5. ApartTranscripts'
    <2>1. CASE row.transcript = aJob[j].transcript
      <3>1. \A k \in VoiceJobs : aJob'[k].transcript = aJob[k].transcript
        BY <1>1, <2>1
      <3>2. QED
        BY <1>1, <1>4, <3>1 DEF AudioInv, ApartTranscripts, Submitted
    <2>2. CASE Submitted(w) /\ row.transcript = aWorker[w].transcript
      BY <1>1, <1>4, <2>2 DEF AudioInv, ApartTranscripts, Submitted
    <2>3. QED
      BY <2>1, <2>2
  <1>6. \A k \in VoiceJobs : Outcome(aMessage[k], aJob[k], k \in aNotices)' /\ Resumes(aJob[k])'
    BY <1>1 DEF AudioInv, Outcome, Resumes
  <1>7. QED
    BY <1>2, <1>3, <1>5, <1>6 DEF AudioInv

LEMMA IdleListener == AnyAudio!Idle \in AnyAudio!Busy /\ AnyAudio!Idle.job = Nothing
  BY DEF AnyAudio!Idle, AnyAudio!Busy, AnyAudio!Stages

(* A job that its worker lays down.                                        *)
LEMMA VoiceIsLaidDown ==
    ASSUME AudioInv, NEW w \in Listeners, aWorker[w].phase # "idle",
           NEW j, j = aWorker[w].job,
           NEW row \in AnyAudio!JobRow, aJob' = [aJob EXCEPT ![j] = row],
           aWorker' = [aWorker EXCEPT ![w] = AnyAudio!Idle],
           NEW text \in {"transcribing", "received", "answered", "failed"},
           aMessage' = [aMessage EXCEPT ![j] = text],
           aNotices' \subseteq VoiceJobs,
           \A k \in VoiceJobs \ {j} : (k \in aNotices') <=> (k \in aNotices),
           Outcome(text, row, j \in aNotices'), Resumes(row),
           \/ row.transcript = aJob[j].transcript
           \/ Submitted(w) /\ row.transcript = aWorker[w].transcript,
           UNCHANGED <<aProvider, aCrashes>>
    PROVE  AudioInv'
  <1>1. j \in VoiceJobs /\ \A v \in Listeners \ {w} : aWorker[v].job # j
    BY VoiceOfWorker
  <1>2. QED
    BY <1>1, VoiceIsWritten, IdleListener

LEMMA VoiceClaimed ==
    ASSUME AudioInv, NEW w \in Listeners, NEW j \in VoiceJobs, AnyAudio!ClaimJob(w, j)
    PROVE  AudioInv'
  <1> DEFINE row == [aJob[j] EXCEPT !.status = "running", !.lease = "held"]
             busy == [job |-> j, stage |-> aJob[j].stage, transcript |-> aJob[j].transcript,
                      phase |-> "claimed"]
  <1>1. aJob[j] \in AnyAudio!JobRow /\ aMessage[j] \in {"transcribing", "received", "answered", "failed"}
    BY DEF AudioInv, AnyAudio!TypeOK
  <1>2. /\ row \in AnyAudio!JobRow /\ row.status = "running" /\ row.lease = "held"
        /\ row.stage = aJob[j].stage /\ row.url = aJob[j].url
        /\ row.transcript = aJob[j].transcript
    BY <1>1 DEF AnyAudio!JobRow
  <1>3. /\ busy \in AnyAudio!Busy /\ busy.job = j /\ busy.phase = "claimed"
        /\ busy.stage = aJob[j].stage /\ busy.transcript = aJob[j].transcript
    BY <1>1 DEF AnyAudio!Busy, AnyAudio!JobRow
  <1>4. aJob' = [aJob EXCEPT ![j] = row]
    BY DEF AnyAudio!ClaimJob, AudioInv, AnyAudio!TypeOK
  <1>5. /\ aWorker' = [aWorker EXCEPT ![w] = busy] /\ aWorker[w] = AnyAudio!Idle
        /\ UNCHANGED <<aMessage, aNotices, aProvider, aCrashes>>
        /\ \/ aJob[j].status = "ready"
           \/ aJob[j].status = "running" /\ aJob[j].lease = "lapsed"
    BY DEF AnyAudio!ClaimJob, AnyAudio!Claimable
  <1> HIDE DEF row, busy
  <1>6. \A v \in Listeners : aWorker[v].job # j
    BY <1>5, AudioConstants DEF AudioInv, VoicesInHand, Handles, AnyAudio!Idle, AnyAudio!TypeOK,
       AnyAudio!Busy
  <1>7. /\ aMessage' = [aMessage EXCEPT ![j] = aMessage[j]] /\ aNotices' \subseteq VoiceJobs
        /\ Outcome(aMessage[j], row, j \in aNotices') /\ Resumes(row) /\ Handles(busy, row)
    BY <1>2, <1>3, <1>5 DEF AudioInv, AnyAudio!TypeOK, Outcome, Resumes, Handles
  <1>8. QED
    BY <1>1, <1>2, <1>3, <1>4, <1>5, <1>6, <1>7, VoiceIsWritten

(* Upload, SaveSubmit, PollAgain: the job is queued for its next stage.    *)
LEMMA VoiceQueuedAgain ==
    ASSUME AudioInv, NEW w \in Listeners,
           AnyAudio!Upload(w) \/ AnyAudio!SaveSubmit(w) \/ AnyAudio!PollAgain(w)
    PROVE  AudioInv'
  <1>1. PICK j : j = aWorker[w].job
    OBVIOUS
  <1>2. aWorker[w].phase \in {"claimed", "submitted"}
    BY DEF AnyAudio!Upload, AnyAudio!SaveSubmit, AnyAudio!PollAgain, AnyAudio!At
  <1>3. /\ j \in VoiceJobs /\ aJob[j] \in AnyAudio!JobRow /\ aJob[j].status = "running"
        /\ Outcome(aMessage[j], aJob[j], j \in aNotices) /\ Resumes(aJob[j])
        /\ Handles(aWorker[w], aJob[j])
    BY <1>1, <1>2, VoiceOfWorker DEF Handles
  <1>4. PICK row \in AnyAudio!JobRow :
           /\ aJob' = [aJob EXCEPT ![j] = row] /\ row.status = "ready" /\ Resumes(row)
           /\ \/ row.transcript = aJob[j].transcript
              \/ Submitted(w) /\ row.transcript = aWorker[w].transcript
    <2>1. CASE AnyAudio!Upload(w)
      <3> DEFINE next == [aJob[j] EXCEPT !.stage = "submit", !.url = TRUE]
                 row == [next EXCEPT !.status = "ready", !.lease = "none"]
      <3>1. aJob' = [aJob EXCEPT ![j] = row]
        BY <1>1, <2>1 DEF AnyAudio!Upload, AnyAudio!Requeued
      <3>2. /\ row \in AnyAudio!JobRow /\ row.status = "ready" /\ row.stage = "submit" /\ row.url
            /\ row.transcript = aJob[j].transcript
        BY <1>3 DEF AnyAudio!JobRow, AnyAudio!Stages
      <3> HIDE DEF row
      <3>3. QED
        BY <3>1, <3>2 DEF Resumes
    <2>2. CASE AnyAudio!SaveSubmit(w)
      <3> DEFINE next == [aJob[j] EXCEPT !.stage = "poll", !.transcript = aWorker[w].transcript]
                 row == [next EXCEPT !.status = "ready", !.lease = "none"]
      <3>1. aJob' = [aJob EXCEPT ![j] = row] /\ Submitted(w)
        BY <1>1, <2>2 DEF AnyAudio!SaveSubmit, AnyAudio!Requeued, Submitted
      <3>2. aWorker[w].transcript \in Transcripts /\ aWorker[w].transcript # Nothing
        BY <1>3, <3>1, AudioConstants DEF Handles, Submitted
      <3>3. /\ row \in AnyAudio!JobRow /\ row.status = "ready" /\ row.stage = "poll"
            /\ row.transcript = aWorker[w].transcript
        BY <1>3, <3>2 DEF AnyAudio!JobRow, AnyAudio!Stages
      <3> HIDE DEF row
      <3>4. QED
        BY <3>1, <3>2, <3>3 DEF Resumes
    <2>3. CASE AnyAudio!PollAgain(w)
      <3> DEFINE row == [aJob[j] EXCEPT !.status = "ready", !.lease = "none"]
      <3>1. aJob' = [aJob EXCEPT ![j] = row]
        BY <1>1, <2>3 DEF AnyAudio!PollAgain, AnyAudio!Requeued
      <3>2. /\ row \in AnyAudio!JobRow /\ row.status = "ready" /\ row.stage = aJob[j].stage
            /\ row.url = aJob[j].url /\ row.transcript = aJob[j].transcript
        BY <1>3 DEF AnyAudio!JobRow
      <3> HIDE DEF row
      <3>3. QED
        BY <1>3, <3>1, <3>2 DEF Resumes
    <2>4. QED
      BY <2>1, <2>2, <2>3
  <1>5. /\ aWorker' = [aWorker EXCEPT ![w] = AnyAudio!Idle]
        /\ UNCHANGED <<aMessage, aNotices, aProvider, aCrashes>>
    BY DEF AnyAudio!Upload, AnyAudio!SaveSubmit, AnyAudio!PollAgain, AnyAudio!Release
  <1>6. /\ aMessage[j] \in {"transcribing", "received", "answered", "failed"}
        /\ aMessage' = [aMessage EXCEPT ![j] = aMessage[j]] /\ aNotices' \subseteq VoiceJobs
    BY <1>3, <1>5 DEF AudioInv, AnyAudio!TypeOK
  <1>7. Outcome(aMessage[j], row, j \in aNotices')
    BY <1>3, <1>4, <1>5 DEF Outcome
  <1>8. /\ aWorker[w].phase # "idle"
        /\ \A k \in VoiceJobs \ {j} : (k \in aNotices') <=> (k \in aNotices)
        /\ UNCHANGED <<aProvider, aCrashes>>
        /\ \/ row.transcript = aJob[j].transcript
           \/ Submitted(w) /\ row.transcript = aWorker[w].transcript
    BY <1>2, <1>4, <1>5
  <1>9. PICK tt \in {"transcribing", "received", "answered", "failed"} : tt = aMessage[j]
    BY <1>6
  <1>10. /\ aMessage' = [aMessage EXCEPT ![j] = tt] /\ Outcome(tt, row, j \in aNotices')
         /\ aJob' = [aJob EXCEPT ![j] = row] /\ Resumes(row)
         /\ aWorker' = [aWorker EXCEPT ![w] = AnyAudio!Idle] /\ aNotices' \subseteq VoiceJobs
         /\ \/ row.transcript = aJob[j].transcript
            \/ Submitted(w) /\ row.transcript = aWorker[w].transcript
    BY <1>4, <1>5, <1>6, <1>7, <1>8, <1>9, Zenon
  <1>11. aWorker[w].phase # "idle" /\ UNCHANGED <<aProvider, aCrashes>>
    BY <1>8
  <1>12. \A k \in VoiceJobs \ {j} : (k \in aNotices') <=> (k \in aNotices)
    BY <1>8
  <1>13. QED
    BY <1>1, <1>10, <1>11, <1>12, VoiceIsLaidDown, Zenon

LEMMA VoiceTranscribed ==
    ASSUME AudioInv, NEW w \in Listeners, AnyAudio!Transcribe(w)
    PROVE  AudioInv'
  <1>1. PICK j : j = aWorker[w].job
    OBVIOUS
  <1>2. aWorker[w].phase = "claimed" /\ aWorker[w].stage = "poll"
    BY DEF AnyAudio!Transcribe, AnyAudio!At
  <1>3. /\ j \in VoiceJobs /\ aJob[j] \in AnyAudio!JobRow /\ aJob[j].status = "running"
        /\ aJob[j].stage = "poll"
        /\ Outcome(aMessage[j], aJob[j], j \in aNotices) /\ Resumes(aJob[j])
        /\ \A v \in Listeners \ {w} : aWorker[v].job # j
        /\ aWorker[w] \in AnyAudio!Busy
    BY <1>1, <1>2, VoiceOfWorker DEF Handles, AudioInv, AnyAudio!TypeOK
  <1> DEFINE row == [aJob[j] EXCEPT !.status = "completed", !.lease = "none"]
             busy == [aWorker[w] EXCEPT !.phase = "cleaning"]
  <1>4. /\ row \in AnyAudio!JobRow /\ row.status = "completed" /\ row.stage = "poll"
        /\ row.transcript = aJob[j].transcript
    BY <1>3 DEF AnyAudio!JobRow
  <1>5. busy \in AnyAudio!Busy /\ busy.job = j /\ busy.phase = "cleaning"
    BY <1>1, <1>3 DEF AnyAudio!Busy
  <1>6. /\ aJob' = [aJob EXCEPT ![j] = row] /\ aWorker' = [aWorker EXCEPT ![w] = busy]
        /\ aMessage' = [aMessage EXCEPT ![j] = "received"]
        /\ UNCHANGED <<aNotices, aProvider, aCrashes>>
    BY <1>1 DEF AnyAudio!Transcribe
  <1> HIDE DEF row, busy
  <1>7. Handles(busy, row) /\ Outcome("received", row, j \in aNotices') /\ Resumes(row)
    BY <1>3, <1>4, <1>5, <1>6 DEF Handles, Outcome, Resumes
  <1>8. aNotices' \subseteq VoiceJobs
    BY <1>6 DEF AudioInv, AnyAudio!TypeOK
  <1>9. QED
    BY <1>3, <1>4, <1>5, <1>6, <1>7, <1>8, VoiceIsWritten

LEMMA VoiceCleaned ==
    ASSUME AudioInv, NEW w \in Listeners, AnyAudio!SaveCleanup(w)
    PROVE  AudioInv'
  <1>1. PICK j : j = aWorker[w].job
    OBVIOUS
  <1>2. aWorker[w].phase = "cleaned"
    BY DEF AnyAudio!SaveCleanup
  <1>3. /\ j \in VoiceJobs /\ aJob[j] \in AnyAudio!JobRow /\ aJob[j].stage = "poll"
        /\ Outcome(aMessage[j], aJob[j], j \in aNotices) /\ Resumes(aJob[j])
    BY <1>1, <1>2, VoiceOfWorker DEF Handles
  <1> DEFINE row == [aJob[j] EXCEPT !.url = FALSE]
  <1>4. /\ row \in AnyAudio!JobRow /\ row.status = aJob[j].status /\ row.stage = aJob[j].stage
        /\ row.transcript = aJob[j].transcript
    BY <1>3 DEF AnyAudio!JobRow
  <1>5. /\ aJob' = [aJob EXCEPT ![j] = row] /\ aWorker' = [aWorker EXCEPT ![w] = AnyAudio!Idle]
        /\ UNCHANGED <<aMessage, aNotices, aProvider, aCrashes>>
    BY <1>1 DEF AnyAudio!SaveCleanup, AnyAudio!Release
  <1> HIDE DEF row
  <1>6. Outcome(aMessage[j], row, j \in aNotices') /\ Resumes(row)
    BY <1>3, <1>4, <1>5 DEF Outcome, Resumes
  <1>7. /\ aMessage[j] \in {"transcribing", "received", "answered", "failed"}
        /\ aMessage' = [aMessage EXCEPT ![j] = aMessage[j]] /\ aNotices' \subseteq VoiceJobs
    BY <1>3, <1>5 DEF AudioInv, AnyAudio!TypeOK
  <1>8. /\ aWorker[w].phase # "idle"
        /\ \A k \in VoiceJobs \ {j} : (k \in aNotices') <=> (k \in aNotices)
        /\ UNCHANGED <<aProvider, aCrashes>>
        /\ \/ row.transcript = aJob[j].transcript
           \/ Submitted(w) /\ row.transcript = aWorker[w].transcript
    BY <1>2, <1>4, <1>5
  <1>9. PICK tt \in {"transcribing", "received", "answered", "failed"} : tt = aMessage[j]
    BY <1>7
  <1>10. PICK rr \in AnyAudio!JobRow : rr = row
    BY <1>4
  <1>11. /\ aMessage' = [aMessage EXCEPT ![j] = tt] /\ Outcome(tt, rr, j \in aNotices')
         /\ aJob' = [aJob EXCEPT ![j] = rr] /\ Resumes(rr)
         /\ aWorker' = [aWorker EXCEPT ![w] = AnyAudio!Idle] /\ aNotices' \subseteq VoiceJobs
         /\ \/ rr.transcript = aJob[j].transcript
            \/ Submitted(w) /\ rr.transcript = aWorker[w].transcript
    BY <1>5, <1>6, <1>7, <1>8, <1>9, <1>10, Zenon
  <1>12. QED
    BY <1>1, <1>8, <1>11, VoiceIsLaidDown, Zenon

LEMMA VoiceFailed ==
    ASSUME AudioInv, NEW w \in Listeners, AnyAudio!Fail(w)
    PROVE  AudioInv'
  <1>1. PICK j : j = aWorker[w].job
    OBVIOUS
  <1>2. PICK transient \in BOOLEAN : AnyAudio!HandleFailure(w, transient)
    BY DEF AnyAudio!Fail
  <1>3. aWorker[w].phase \in {"claimed", "submitted"}
    BY DEF AnyAudio!Fail, AnyAudio!Permanent, AnyAudio!At
  <1>4. /\ j \in VoiceJobs /\ aJob[j] \in AnyAudio!JobRow /\ aJob[j].status = "running"
        /\ Outcome(aMessage[j], aJob[j], j \in aNotices) /\ Resumes(aJob[j])
    BY <1>1, <1>3, VoiceOfWorker DEF Handles
  <1> DEFINE again == transient /\ aJob[j].attempts + 1 < MaxTries
             status == IF again THEN "ready" ELSE "failed"
             count == IF aJob[j].attempts < MaxTries THEN aJob[j].attempts + 1 ELSE aJob[j].attempts
             row == [aJob[j] EXCEPT !.lease = "none", !.attempts = count, !.status = status]
             text == IF again THEN aMessage[j] ELSE "failed"
  <1>5. count \in 0..MaxTries
    <2>1. aJob[j].attempts \in 0..MaxTries /\ MaxTries \in Nat
      BY <1>4, AudioConstants DEF AnyAudio!JobRow
    <2>2. CASE aJob[j].attempts < MaxTries
      <3>1. aJob[j].attempts + 1 \in 0..MaxTries
        BY <2>1, <2>2
      <3>2. count = aJob[j].attempts + 1
        BY <2>2, Zenon
      <3>3. QED
        BY <3>1, <3>2, Zenon
    <2>3. CASE ~(aJob[j].attempts < MaxTries)
      <3>1. count = aJob[j].attempts
        BY <2>3, Zenon
      <3>2. QED
        BY <2>1, <3>1, Zenon
    <2>4. QED
      BY <2>2, <2>3
  <1>6. aJob' = [aJob EXCEPT ![j] = row]
    BY <1>1, <1>2 DEF AnyAudio!HandleFailure
  <1>7. /\ aWorker' = [aWorker EXCEPT ![w] = AnyAudio!Idle] /\ UNCHANGED <<aProvider, aCrashes>>
        /\ IF again THEN UNCHANGED <<aMessage, aNotices>>
           ELSE /\ aMessage' = [aMessage EXCEPT ![j] = "failed"]
                /\ aNotices' = aNotices \cup {j}
    BY <1>1, <1>2 DEF AnyAudio!HandleFailure, AnyAudio!PersistFailure, AnyAudio!Release
  <1> HIDE DEF count, again
  <1>8. status \in {"ready", "failed"} /\ ((status = "ready") <=> again)
    OBVIOUS
  <1> HIDE DEF status
  <1>9. /\ row \in AnyAudio!JobRow /\ row.status = status /\ row.stage = aJob[j].stage
        /\ row.url = aJob[j].url /\ row.transcript = aJob[j].transcript
    BY <1>4, <1>5, <1>8 DEF AnyAudio!JobRow
  <1> HIDE DEF row
  <1>10. /\ text \in {"transcribing", "received", "answered", "failed"}
         /\ aMessage' = [aMessage EXCEPT ![j] = text] /\ aNotices' \subseteq VoiceJobs
         /\ \A k \in VoiceJobs \ {j} : (k \in aNotices') <=> (k \in aNotices)
    BY <1>4, <1>7 DEF AudioInv, AnyAudio!TypeOK
  <1>11. Outcome(text, row, j \in aNotices') /\ Resumes(row)
    BY <1>4, <1>7, <1>8, <1>9 DEF Outcome, Resumes
  <1> HIDE DEF text
  <1>12. /\ aWorker[w].phase # "idle"
         /\ UNCHANGED <<aProvider, aCrashes>>
         /\ \/ row.transcript = aJob[j].transcript
            \/ Submitted(w) /\ row.transcript = aWorker[w].transcript
    BY <1>3, <1>7, <1>9
  <1>13. PICK tt \in {"transcribing", "received", "answered", "failed"} : tt = text
    BY <1>10
  <1>14. PICK rr \in AnyAudio!JobRow : rr = row
    BY <1>9
  <1>15. /\ aMessage' = [aMessage EXCEPT ![j] = tt] /\ Outcome(tt, rr, j \in aNotices')
         /\ aJob' = [aJob EXCEPT ![j] = rr] /\ Resumes(rr)
         /\ aWorker' = [aWorker EXCEPT ![w] = AnyAudio!Idle] /\ aNotices' \subseteq VoiceJobs
         /\ \/ rr.transcript = aJob[j].transcript
            \/ Submitted(w) /\ rr.transcript = aWorker[w].transcript
    BY <1>6, <1>7, <1>10, <1>11, <1>12, <1>13, <1>14, Zenon
  <1>16. \A k \in VoiceJobs \ {j} : (k \in aNotices') <=> (k \in aNotices)
    BY <1>10
  <1>17. aWorker[w].phase # "idle" /\ UNCHANGED <<aProvider, aCrashes>>
    BY <1>12
  <1>18. QED
    BY <1>1, <1>15, <1>16, <1>17, VoiceIsLaidDown, Zenon

(* A worker goes on, or ends, and the rows of the message stay.            *)
LEMMA ListenerMoves ==
    ASSUME AudioInv, NEW w \in Listeners, NEW busy \in AnyAudio!Busy,
           aWorker' = [aWorker EXCEPT ![w] = busy],
           \/ busy = AnyAudio!Idle
           \/ /\ busy.job = aWorker[w].job /\ aWorker[w].phase # "idle" /\ busy.phase # "idle"
              /\ Handles(busy, aJob[busy.job]),
           busy.phase = "submitted" =>
              aProvider[busy.transcript] = "none" /\ aProvider'[busy.transcript] # "none",
           aProvider' \in [Transcripts -> AnyAudio!Transcript],
           \A t \in Transcripts : aProvider[t] # "none" => aProvider'[t] # "none",
           aCrashes' \in 0..MaxStops, UNCHANGED <<aJob, aMessage, aNotices>>
    PROVE  AudioInv'
  <1>1. aWorker'[w] = busy /\ \A v \in Listeners \ {w} : aWorker'[v] = aWorker[v]
    BY DEF AudioInv, AnyAudio!TypeOK
  <1>2. AnyAudio!TypeOK'
    <2>1. aWorker' \in [Listeners -> AnyAudio!Busy]
      BY DEF AudioInv, AnyAudio!TypeOK
    <2>2. QED
      BY <2>1 DEF AudioInv, AnyAudio!TypeOK
  <1>3. aWorker[w].phase # "idle" =>
           /\ aWorker[w].job \in VoiceJobs
           /\ \A v \in Listeners : aWorker[v].job = aWorker[w].job => v = w
    BY DEF AudioInv, VoicesInHand, AnyAudio!Idle
  <1>4. VoicesInHand'
    BY <1>1, <1>3, AudioConstants DEF AudioInv, VoicesInHand, AnyAudio!Idle
  <1>5. \A v \in Listeners \ {w} : Submitted(v)' => Submitted(v) /\ aWorker'[v] = aWorker[v]
    BY <1>1 DEF Submitted
  <1>6. \A j \in VoiceJobs : aJob[j].transcript # Nothing => aJob[j].transcript \in Transcripts
    BY DEF AudioInv, AnyAudio!TypeOK, AnyAudio!JobRow
  <1>7. \A v \in Listeners : Submitted(v) => aWorker[v].transcript \in Transcripts
    BY DEF AudioInv, VoicesInHand, Handles, Submitted, AnyAudio!Idle
  <1>8. ApartTranscripts'
    <2>1. \A j \in VoiceJobs : aJob'[j].transcript # Nothing =>
            /\ aProvider'[aJob'[j].transcript] # "none"
            /\ \A k \in VoiceJobs \ {j} : aJob'[k].transcript # aJob'[j].transcript
      BY <1>6 DEF AudioInv, ApartTranscripts
    <2>2. ASSUME NEW v \in Listeners, Submitted(v)'
          PROVE  /\ aProvider'[aWorker'[v].transcript] # "none"
                 /\ \A j \in VoiceJobs : aJob'[j].transcript # aWorker'[v].transcript
                 /\ \A u \in Listeners \ {v} : Submitted(u)' =>
                       aWorker'[u].transcript # aWorker'[v].transcript
      <3>1. CASE v = w
        <4>1. /\ aWorker'[v] = busy /\ aProvider[busy.transcript] = "none"
              /\ aProvider'[busy.transcript] # "none"
          BY <1>1, <2>2, <3>1 DEF Submitted
        <4>2. busy.transcript # Nothing
          <5>1. busy # AnyAudio!Idle /\ busy.phase = "submitted"
            BY <1>1, <2>2, <3>1 DEF Submitted, AnyAudio!Idle
          <5>2. QED
            BY <5>1, AudioConstants DEF Handles
        <4>3. \A j \in VoiceJobs : aJob[j].transcript # busy.transcript
          BY <4>1, <4>2 DEF AudioInv, ApartTranscripts
        <4>4. \A u \in Listeners \ {v} : Submitted(u)' =>
                 aWorker'[u].transcript # aWorker'[v].transcript
          BY <1>5, <3>1, <4>1 DEF AudioInv, ApartTranscripts
        <4>5. QED
          BY <4>1, <4>3, <4>4
      <3>2. CASE v # w
        <4>1. Submitted(v) /\ aWorker'[v] = aWorker[v]
          BY <1>5, <2>2, <3>2
        <4>2. /\ aProvider[aWorker[v].transcript] # "none" /\ aWorker[v].transcript \in Transcripts
              /\ \A j \in VoiceJobs : aJob[j].transcript # aWorker[v].transcript
              /\ \A u \in Listeners \ {v} : Submitted(u) =>
                    aWorker[u].transcript # aWorker[v].transcript
          BY <1>7, <4>1 DEF AudioInv, ApartTranscripts
        <4>3. ASSUME NEW u \in Listeners \ {v}, Submitted(u)'
              PROVE  aWorker'[u].transcript # aWorker'[v].transcript
          <5>1. CASE u = w
            BY <1>1, <4>1, <4>2, <4>3, <5>1 DEF Submitted
          <5>2. CASE u # w
            BY <1>5, <4>1, <4>2, <4>3, <5>2
          <5>3. QED
            BY <5>1, <5>2
        <4>4. QED
          BY <4>1, <4>2, <4>3
      <3>3. QED
        BY <3>1, <3>2
    <2>3. QED
      BY <2>1, <2>2 DEF ApartTranscripts
  <1>9. \A k \in VoiceJobs : Outcome(aMessage[k], aJob[k], k \in aNotices)' /\ Resumes(aJob[k])'
    BY DEF AudioInv, Outcome, Resumes
  <1>10. QED
    BY <1>2, <1>4, <1>8, <1>9 DEF AudioInv

LEMMA VoiceSubmitted ==
    ASSUME AudioInv, NEW w \in Listeners, NEW t \in Transcripts, AnyAudio!CallSubmit(w, t)
    PROVE  AudioInv'
  <1> DEFINE busy == [aWorker[w] EXCEPT !.phase = "submitted", !.transcript = t]
  <1>1. PICK j : j = aWorker[w].job
    OBVIOUS
  <1>2. /\ aWorker[w].phase = "claimed" /\ aWorker[w].stage = "submit" /\ aProvider[t] = "none"
        /\ aWorker' = [aWorker EXCEPT ![w] = busy]
        /\ aProvider' = [aProvider EXCEPT ![t] = "working"]
        /\ UNCHANGED <<aJob, aMessage, aNotices, aCrashes>>
    BY DEF AnyAudio!CallSubmit, AnyAudio!At, AudioInv, AnyAudio!TypeOK
  <1>3. /\ j \in VoiceJobs /\ aJob[j].status = "running" /\ aJob[j].lease = "held"
        /\ aJob[j].stage = "submit" /\ aWorker[w] \in AnyAudio!Busy
    BY <1>1, <1>2, VoiceOfWorker DEF Handles, AudioInv, AnyAudio!TypeOK
  <1>4. /\ busy \in AnyAudio!Busy /\ busy.job = j /\ busy.phase = "submitted"
        /\ busy.stage = "submit" /\ busy.transcript = t
    BY <1>1, <1>2, <1>3 DEF AnyAudio!Busy
  <1>5. /\ aProvider' \in [Transcripts -> AnyAudio!Transcript] /\ aProvider'[t] # "none"
        /\ \A s \in Transcripts : aProvider[s] # "none" => aProvider'[s] # "none"
        /\ aCrashes' \in 0..MaxStops
    BY <1>2 DEF AudioInv, AnyAudio!TypeOK, AnyAudio!Transcript
  <1> HIDE DEF busy
  <1>6. PICK bb \in AnyAudio!Busy : bb = busy
    BY <1>4
  <1>7. /\ aWorker' = [aWorker EXCEPT ![w] = bb] /\ bb.job = aWorker[w].job
        /\ aWorker[w].phase # "idle" /\ bb.phase # "idle"
        /\ bb.phase = "submitted" => aProvider[bb.transcript] = "none"
                                       /\ aProvider'[bb.transcript] # "none"
    BY <1>1, <1>2, <1>4, <1>5, <1>6
  <1>8. Handles(bb, aJob[bb.job])
    BY <1>3, <1>4, <1>6 DEF Handles
  <1>9. UNCHANGED <<aJob, aMessage, aNotices>>
    BY <1>2
  <1>10. QED
    BY <1>5, <1>7, <1>8, <1>9, ListenerMoves, Zenon

LEMMA VoiceLeft ==
    ASSUME AudioInv, NEW w \in Listeners, AnyAudio!DeleteTranscript(w) \/ AnyAudio!Crash(w)
    PROVE  AudioInv'
  <1>1. PICK busy \in AnyAudio!Busy :
           /\ aWorker' = [aWorker EXCEPT ![w] = busy]
           /\ \/ busy = AnyAudio!Idle
              \/ /\ busy.job = aWorker[w].job /\ aWorker[w].phase = "cleaning"
                 /\ busy.phase = "cleaned"
    <2>1. CASE aWorker' = [aWorker EXCEPT ![w] = AnyAudio!Idle]
      BY <2>1, IdleListener
    <2>2. CASE AnyAudio!DeleteTranscript(w) /\ aWorker' = [aWorker EXCEPT ![w].phase = "cleaned"]
      <3> DEFINE busy == [aWorker[w] EXCEPT !.phase = "cleaned"]
      <3>1. aWorker[w] \in AnyAudio!Busy /\ aWorker' = [aWorker EXCEPT ![w] = busy]
        BY <2>2 DEF AudioInv, AnyAudio!TypeOK
      <3>2. busy \in AnyAudio!Busy /\ busy.job = aWorker[w].job /\ busy.phase = "cleaned"
        BY <3>1 DEF AnyAudio!Busy
      <3>3. aWorker[w].phase = "cleaning"
        BY <2>2 DEF AnyAudio!DeleteTranscript
      <3> HIDE DEF busy
      <3>4. QED
        BY <3>1, <3>2, <3>3
    <2>3. QED
      BY <2>1, <2>2 DEF AnyAudio!DeleteTranscript, AnyAudio!Crash, AnyAudio!Release
  <1>2. /\ aProvider' \in [Transcripts -> AnyAudio!Transcript]
        /\ \A t \in Transcripts : aProvider[t] # "none" => aProvider'[t] # "none"
    <2>1. \/ UNCHANGED aProvider
          \/ aProvider' = [aProvider EXCEPT ![aWorker[w].transcript] = "deleted"]
      BY DEF AnyAudio!DeleteTranscript, AnyAudio!Crash
    <2>2. PICK s : s = aWorker[w].transcript
      OBVIOUS
    <2>3. UNCHANGED aProvider \/ aProvider' = [aProvider EXCEPT ![s] = "deleted"]
      BY <2>1, <2>2
    <2>4. QED
      BY <2>3 DEF AudioInv, AnyAudio!TypeOK, AnyAudio!Transcript
  <1>3. aCrashes' \in 0..MaxStops /\ UNCHANGED <<aJob, aMessage, aNotices>>
    BY AudioConstants DEF AnyAudio!DeleteTranscript, AnyAudio!Crash, AudioInv, AnyAudio!TypeOK
  <1>4. busy.phase # "submitted"
    BY <1>1 DEF AnyAudio!Idle
  <1>5. busy # AnyAudio!Idle => /\ aWorker[w].phase # "idle" /\ busy.phase # "idle"
                                /\ Handles(busy, aJob[busy.job])
    <2> SUFFICES ASSUME busy # AnyAudio!Idle
                 PROVE  /\ aWorker[w].phase # "idle" /\ busy.phase # "idle"
                        /\ Handles(busy, aJob[busy.job])
      OBVIOUS
    <2>1. PICK j : j = aWorker[w].job
      OBVIOUS
    <2>2. aWorker[w].phase = "cleaning" /\ busy.phase = "cleaned" /\ busy.job = j
      BY <1>1, <2>1
    <2>3. Handles(aWorker[w], aJob[j])
      BY <2>1, <2>2, VoiceOfWorker
    <2>4. QED
      BY <2>2, <2>3 DEF Handles
  <1>6. \/ busy = AnyAudio!Idle
        \/ /\ busy.job = aWorker[w].job /\ aWorker[w].phase # "idle" /\ busy.phase # "idle"
           /\ Handles(busy, aJob[busy.job])
    BY <1>1, <1>5
  <1>7. QED
    BY <1>1, <1>2, <1>3, <1>4, <1>6, ListenerMoves, Zenon

(* Of a message that no worker has: its lease runs out, it is answered,    *)
(* or the provider ends its transcript.                                    *)
LEMMA VoiceWaits ==
    ASSUME AudioInv,
           \/ \E j \in VoiceJobs : AnyAudio!Lapse(j) \/ AnyAudio!AnswerMessage(j)
           \/ \E t \in Transcripts : AnyAudio!ProviderEnds(t)
    PROVE  AudioInv'
  <1>1. ASSUME NEW j \in VoiceJobs, AnyAudio!Lapse(j)
        PROVE  AudioInv'
    <2> DEFINE row == [aJob[j] EXCEPT !.lease = "lapsed"]
    <2>1. /\ aJob' = [aJob EXCEPT ![j] = row] /\ aJob[j] \in AnyAudio!JobRow
          /\ \A w \in Listeners : aWorker[w].job # j
          /\ UNCHANGED <<aMessage, aNotices, aProvider, aWorker, aCrashes>>
      BY <1>1 DEF AnyAudio!Lapse, AnyAudio!InHand, AudioInv, AnyAudio!TypeOK
    <2>2. /\ row \in AnyAudio!JobRow /\ row.status = aJob[j].status /\ row.stage = aJob[j].stage
          /\ row.url = aJob[j].url /\ row.transcript = aJob[j].transcript
      BY <2>1 DEF AnyAudio!JobRow
    <2> HIDE DEF row
    <2>3. /\ aJob' \in [VoiceJobs -> AnyAudio!JobRow] /\ aJob'[j] = row
          /\ \A k \in VoiceJobs \ {j} : aJob'[k] = aJob[k]
      BY <2>1, <2>2 DEF AudioInv, AnyAudio!TypeOK
    <2>4. AnyAudio!TypeOK'
      BY <2>1, <2>3 DEF AudioInv, AnyAudio!TypeOK
    <2>5. VoicesInHand'
      BY <2>1, <2>3 DEF AudioInv, VoicesInHand
    <2>6. \A k \in VoiceJobs : /\ aJob'[k].transcript = aJob[k].transcript
                               /\ Outcome(aMessage[k], aJob[k], k \in aNotices)'
                               /\ Resumes(aJob[k])'
      BY <2>1, <2>2, <2>3 DEF AudioInv, Outcome, Resumes
    <2>7. ApartTranscripts'
      BY <2>1, <2>6 DEF AudioInv, ApartTranscripts, Submitted
    <2>8. QED
      BY <2>4, <2>5, <2>6, <2>7 DEF AudioInv
  <1>2. ASSUME NEW j \in VoiceJobs, AnyAudio!AnswerMessage(j)
        PROVE  AudioInv'
    <2>1. /\ aMessage[j] = "received" /\ aMessage' = [aMessage EXCEPT ![j] = "answered"]
          /\ UNCHANGED <<aJob, aNotices, aProvider, aWorker, aCrashes>>
      BY <1>2 DEF AnyAudio!AnswerMessage
    <2>2. AnyAudio!TypeOK'
      BY <2>1 DEF AudioInv, AnyAudio!TypeOK
    <2>3. VoicesInHand' /\ ApartTranscripts'
      BY <2>1 DEF AudioInv, VoicesInHand, ApartTranscripts, Submitted
    <2>4. \A k \in VoiceJobs : Outcome(aMessage[k], aJob[k], k \in aNotices)' /\ Resumes(aJob[k])'
      BY <2>1 DEF AudioInv, AnyAudio!TypeOK, Outcome, Resumes
    <2>5. QED
      BY <2>2, <2>3, <2>4 DEF AudioInv
  <1>3. ASSUME NEW t \in Transcripts, AnyAudio!ProviderEnds(t)
        PROVE  AudioInv'
    <2>1. /\ aProvider' \in [Transcripts -> AnyAudio!Transcript]
          /\ \A s : aProvider[s] # "none" => aProvider'[s] # "none" \/ s \notin Transcripts
          /\ UNCHANGED <<aJob, aMessage, aNotices, aWorker, aCrashes>>
      BY <1>3 DEF AnyAudio!ProviderEnds, AudioInv, AnyAudio!TypeOK, AnyAudio!Transcript
    <2>2. AnyAudio!TypeOK'
      BY <2>1 DEF AudioInv, AnyAudio!TypeOK
    <2>3. \A j \in VoiceJobs : aJob[j].transcript # Nothing => aJob[j].transcript \in Transcripts
      BY DEF AudioInv, AnyAudio!TypeOK, AnyAudio!JobRow
    <2>4. \A v \in Listeners : Submitted(v) => aWorker[v].transcript \in Transcripts
      BY DEF AudioInv, VoicesInHand, Handles, Submitted, AnyAudio!Idle
    <2>5. VoicesInHand' /\ ApartTranscripts'
      BY <2>1, <2>3, <2>4 DEF AudioInv, VoicesInHand, ApartTranscripts, Submitted
    <2>6. \A k \in VoiceJobs : Outcome(aMessage[k], aJob[k], k \in aNotices)' /\ Resumes(aJob[k])'
      BY <2>1 DEF AudioInv, Outcome, Resumes
    <2>7. QED
      BY <2>2, <2>5, <2>6 DEF AudioInv
  <1>4. QED
    BY <1>1, <1>2, <1>3

LEMMA AudioStep ==
    ASSUME AudioInv, [Audio!Next \/ CrashingAudio!Next]_(AnyAudio!vars)
    PROVE  AudioInv'
  <1>1. CASE UNCHANGED AnyAudio!vars
    <2>1. UNCHANGED <<aJob, aMessage, aNotices, aProvider, aWorker, aCrashes>>
      BY <1>1 DEF AnyAudio!vars
    <2>2. AnyAudio!TypeOK' /\ VoicesInHand' /\ ApartTranscripts'
      BY <2>1 DEF AudioInv, AnyAudio!TypeOK, VoicesInHand, ApartTranscripts, Submitted
    <2>3. \A k \in VoiceJobs : Outcome(aMessage[k], aJob[k], k \in aNotices)' /\ Resumes(aJob[k])'
      BY <2>1 DEF AudioInv, Outcome, Resumes
    <2>4. QED
      BY <2>2, <2>3 DEF AudioInv
  <1>2. CASE Audio!Next \/ CrashingAudio!Next
    <2>1. AnyAudio!Next
      BY <1>2, OneKindOfAudio
    <2>2. QED
      BY <2>1, VoiceQueuedAgain, VoiceTranscribed, VoiceCleaned, VoiceFailed, VoiceSubmitted,
         VoiceLeft, VoiceWaits, VoiceClaimed DEF AnyAudio!Next, AnyAudio!Step
  <1>3. QED
    BY <1>1, <1>2

LEMMA AudioShown == AudioInv => AnyAudio!OutcomeShown /\ AnyAudio!StagesResume
  BY DEF AudioInv, VoicesInHand, Handles, Outcome, Resumes, ApartTranscripts,
     AnyAudio!OutcomeShown, AnyAudio!StagesResume, AnyAudio!Idle

-----------------------------------------------------------------------------
(* The edge.  A message has one row exactly when it is stored.             *)

Entries == {"transcribing", "received", "handled"}

RowsAreKept ==
    /\ eStored \in [EdgeMessages -> Entries \cup {Nothing}] /\ eArrived \in Seq(EdgeMessages)
    /\ \A m \in EdgeMessages : (eStored[m] # Nothing) <=> (\E i \in 1..Len(eArrived) : eArrived[i] = m)
    /\ \A i, j \in 1..Len(eArrived) : eArrived[i] = eArrived[j] => i = j

LEMMA EdgeConstants ==
    /\ Nothing \notin Entries /\ EdgeVoices \subseteq EdgeMessages
    /\ Nothing \notin [msg : EdgeMessages, step : Texts!Steps]
    /\ VoiceMessages!Steps = Texts!Steps
  BY QueueAssumptions DEF Texts!IngressAssumption, VoiceMessages!IngressAssumption, Entries,
     Texts!Steps, VoiceMessages!Steps

LEMMA RowIsAdded ==
    ASSUME RowsAreKept, NEW m \in EdgeMessages, eStored[m] = Nothing, NEW s \in Entries,
           eStored' = [eStored EXCEPT ![m] = s], eArrived' = Append(eArrived, m)
    PROVE  RowsAreKept'
  <1>1. /\ eStored' \in [EdgeMessages -> Entries \cup {Nothing}] /\ eStored'[m] = s
        /\ \A k \in EdgeMessages \ {m} : eStored'[k] = eStored[k]
        /\ s # Nothing /\ Len(eArrived) \in Nat /\ eArrived' \in Seq(EdgeMessages)
        /\ Len(eArrived') = Len(eArrived) + 1 /\ eArrived'[Len(eArrived) + 1] = m
        /\ \A i \in 1..Len(eArrived) : eArrived'[i] = eArrived[i] /\ eArrived[i] # m
    BY EdgeConstants DEF RowsAreKept
  <1>2. \A i \in 1..Len(eArrived') : i \in 1..Len(eArrived) \/ i = Len(eArrived) + 1
    BY <1>1
  <1>3. \A k \in EdgeMessages :
            (eStored'[k] # Nothing) <=> (\E i \in 1..Len(eArrived') : eArrived'[i] = k)
    BY <1>1, <1>2 DEF RowsAreKept
  <1>4. \A i, j \in 1..Len(eArrived') : eArrived'[i] = eArrived'[j] => i = j
    BY <1>1, <1>2 DEF RowsAreKept
  <1>5. QED
    BY <1>1, <1>3, <1>4 DEF RowsAreKept

LEMMA RowGoesOn ==
    ASSUME RowsAreKept, NEW m \in EdgeMessages, eStored[m] # Nothing, NEW s \in Entries,
           eStored' = [eStored EXCEPT ![m] = s], eArrived' = eArrived
    PROVE  RowsAreKept'
  BY EdgeConstants DEF RowsAreKept

LEMMA RowsStay == RowsAreKept /\ UNCHANGED <<eStored, eArrived>> => RowsAreKept'
  BY DEF RowsAreKept

(* What is left of a sequence of different elements when one is removed.   *)
LEMMA RowIsRemoved ==
    ASSUME RowsAreKept, NEW m \in EdgeMessages, eStored[m] # Nothing,
           eStored' = [eStored EXCEPT ![m] = Nothing],
           eArrived' = VoiceMessages!RemoveAt(eArrived, VoiceMessages!Place(m))
    PROVE  RowsAreKept'
  <1> DEFINE n == Len(eArrived)
  <1>1. n \in Nat /\ eArrived \in Seq(EdgeMessages) /\ DOMAIN eArrived = 1..n
    BY DEF RowsAreKept
  <1>2. PICK p : p = VoiceMessages!Place(m)
    OBVIOUS
  <1>3. p \in 1..n /\ eArrived[p] = m
    BY <1>1, <1>2 DEF RowsAreKept, VoiceMessages!Place
  <1>4. PICK a, b : a = SubSeq(eArrived, 1, p - 1) /\ b = SubSeq(eArrived, p + 1, n)
    OBVIOUS
  <1>5. eArrived' = a \o b
    BY <1>2, <1>4 DEF VoiceMessages!RemoveAt
  <1>6. /\ a \in Seq(EdgeMessages) /\ Len(a) = p - 1
        /\ \A i \in 1..p - 1 : a[i] = eArrived[i]
    <2>1. 1 \in Int /\ p - 1 \in Int /\ \A i \in 1..p - 1 : eArrived[i] \in EdgeMessages
      BY <1>1, <1>3
    <2>2. /\ SubSeq(eArrived, 1, p - 1) \in Seq(EdgeMessages)
          /\ Len(SubSeq(eArrived, 1, p - 1)) = IF 1 <= p - 1 THEN p - 1 - 1 + 1 ELSE 0
          /\ \A i \in 1..p - 1 - 1 + 1 : SubSeq(eArrived, 1, p - 1)[i] = eArrived[1 + i - 1]
      BY <2>1, SubSeqProperties
    <2>3. QED
      BY <1>1, <1>3, <1>4, <2>2
  <1>7. /\ b \in Seq(EdgeMessages) /\ Len(b) = n - p
        /\ \A i \in 1..n - p : b[i] = eArrived[p + i]
    <2>1. p + 1 \in Int /\ n \in Int /\ \A i \in p + 1..n : eArrived[i] \in EdgeMessages
      BY <1>1, <1>3
    <2>2. /\ SubSeq(eArrived, p + 1, n) \in Seq(EdgeMessages)
          /\ Len(SubSeq(eArrived, p + 1, n)) = IF p + 1 <= n THEN n - (p + 1) + 1 ELSE 0
          /\ \A i \in 1..n - (p + 1) + 1 : SubSeq(eArrived, p + 1, n)[i] = eArrived[p + 1 + i - 1]
      BY <2>1, SubSeqProperties
    <2>3. QED
      BY <1>1, <1>3, <1>4, <2>2
  <1>8. /\ eArrived' \in Seq(EdgeMessages) /\ Len(eArrived') = n - 1
        /\ \A i \in 1..p - 1 : eArrived'[i] = eArrived[i]
        /\ \A i \in p..n - 1 : eArrived'[i] = eArrived[i + 1]
    <2>1. /\ a \o b \in Seq(EdgeMessages) /\ Len(a \o b) = Len(a) + Len(b)
          /\ \A i \in 1..Len(a) + Len(b) :
                (a \o b)[i] = IF i <= Len(a) THEN a[i] ELSE b[i - Len(a)]
      BY <1>6, <1>7, ConcatProperties
    <2>2. \A i \in 1..p - 1 : i \in 1..Len(a) + Len(b) /\ i <= Len(a)
      BY <1>1, <1>3, <1>6, <1>7
    <2>3. \A i \in p..n - 1 : /\ i \in 1..Len(a) + Len(b) /\ ~(i <= Len(a))
                              /\ i - Len(a) \in 1..n - p /\ p + (i - Len(a)) = i + 1
      BY <1>1, <1>3, <1>6, <1>7
    <2>4. \A i \in 1..p - 1 : eArrived'[i] = eArrived[i]
      BY <1>5, <1>6, <2>1, <2>2
    <2>5. ASSUME NEW i \in p..n - 1 PROVE eArrived'[i] = eArrived[i + 1]
      <3>1. (a \o b)[i] = b[i - Len(a)]
        BY <2>1, <2>3
      <3>2. b[i - Len(a)] = eArrived[p + (i - Len(a))]
        BY <1>7, <2>3
      <3>3. QED
        BY <1>5, <2>3, <3>1, <3>2
    <2>6. QED
      BY <1>1, <1>3, <1>5, <1>6, <1>7, <2>1, <2>4, <2>5
  <1>9. /\ eStored' \in [EdgeMessages -> Entries \cup {Nothing}] /\ eStored'[m] = Nothing
        /\ \A k \in EdgeMessages \ {m} : eStored'[k] = eStored[k]
    BY DEF RowsAreKept
  <1>10. \A i \in 1..n - 1 : \/ i \in 1..p - 1 /\ i \in 1..n /\ i # p /\ eArrived'[i] = eArrived[i]
                             \/ /\ i \in p..n - 1 /\ i + 1 \in 1..n /\ i + 1 # p
                                /\ eArrived'[i] = eArrived[i + 1]
    BY <1>1, <1>3, <1>8
  <1>11. \A i, j \in 1..Len(eArrived') : eArrived'[i] = eArrived'[j] => i = j
    <2>1. \A i, j \in 1..n : eArrived[i] = eArrived[j] => i = j
      BY DEF RowsAreKept
    <2>2. QED
      BY <1>1, <1>3, <1>8, <1>10, <2>1
  <1>12. \A i \in 1..n : i # p => eArrived[i] # m
    BY <1>3 DEF RowsAreKept
  <1>13. ASSUME NEW k \in EdgeMessages
         PROVE  (eStored'[k] # Nothing) <=> (\E i \in 1..Len(eArrived') : eArrived'[i] = k)
    <2>1. CASE k = m
      BY <1>8, <1>9, <1>10, <1>12, <2>1
    <2>2. CASE k # m
      <3>1. (\E i \in 1..n : eArrived[i] = k) => \E i \in 1..n - 1 : eArrived'[i] = k
        <4> SUFFICES ASSUME NEW i \in 1..n, eArrived[i] = k
                     PROVE  \E h \in 1..n - 1 : eArrived'[h] = k
          OBVIOUS
        <4>1. i # p
          BY <1>3, <2>2
        <4>2. CASE i < p
          <5>1. i \in 1..p - 1 /\ i \in 1..n - 1
            BY <1>1, <1>3, <4>2
          <5>2. QED
            BY <1>8, <5>1
        <4>3. CASE i > p
          <5>1. i - 1 \in p..n - 1 /\ i - 1 \in 1..n - 1 /\ (i - 1) + 1 = i
            BY <1>1, <1>3, <4>3
          <5>2. eArrived'[i - 1] = eArrived[(i - 1) + 1]
            BY <1>8, <5>1
          <5>3. QED
            BY <5>1, <5>2
        <4>4. QED
          BY <1>1, <1>3, <4>1, <4>2, <4>3
      <3>2. (\E i \in 1..n - 1 : eArrived'[i] = k) => \E i \in 1..n : eArrived[i] = k
        BY <1>10
      <3>3. (eStored[k] # Nothing) <=> (\E i \in 1..n : eArrived[i] = k)
        BY DEF RowsAreKept
      <3>4. eStored'[k] = eStored[k] /\ Len(eArrived') = n - 1
        BY <1>8, <1>9, <2>2
      <3> HIDE DEF n
      <3>5. QED
        BY <3>1, <3>2, <3>3, <3>4
    <2>3. QED
      BY <2>1, <2>2
  <1>14. QED
    BY <1>8, <1>9, <1>11, <1>13 DEF RowsAreKept

Asked == [msg : EdgeMessages, step : Texts!Steps]

(* Texts, for several instances: what Telegram is answered is stored, as   *)
(* long as the account is active.                                          *)
TextsInv ==
    /\ RowsAreKept /\ eActive \in BOOLEAN /\ eAcked \subseteq EdgeMessages
    /\ eReq \in [Instances -> Asked \cup {Nothing}]
    /\ \A r \in Instances : eReq[r] # Nothing => eReq[r].step \notin {"job", "undo"}
    /\ eActive => /\ \A m \in eAcked : eStored[m] # Nothing
                  /\ \A r \in Instances : eReq[r] # Nothing /\ eReq[r].step = "answer" =>
                        eStored[eReq[r].msg] # Nothing

LEMMA TextsBegin == Texts!Init => TextsInv
  <1> SUFFICES ASSUME Texts!Init PROVE TextsInv
    OBVIOUS
  <1>1. Len(<<>>) = 0 /\ <<>> \in Seq(EdgeMessages) /\ 1..0 = {}
    OBVIOUS
  <1>2. RowsAreKept
    BY <1>1 DEF Texts!Init, RowsAreKept
  <1>3. QED
    BY <1>2 DEF Texts!Init, TextsInv

(* An instance goes on with what it was asked.                             *)
LEMMA TextGoesOn ==
    ASSUME TextsInv, NEW r \in Instances, eReq[r] # Nothing,
           NEW step \in Texts!Steps \ {"job", "undo"}, eReq' = [eReq EXCEPT ![r].step = step],
           RowsAreKept', eActive' = eActive, eAcked' = eAcked,
           \A m \in EdgeMessages : eStored[m] # Nothing => eStored'[m] # Nothing,
           eActive /\ step = "answer" => eStored'[eReq[r].msg] # Nothing
    PROVE  TextsInv'
  <1> DEFINE row == [eReq[r] EXCEPT !.step = step]
  <1>1. eReq' = [eReq EXCEPT ![r] = row] /\ eReq[r] \in Asked
    BY DEF TextsInv
  <1>2. row \in Asked /\ row.step = step /\ row.msg = eReq[r].msg
    BY <1>1 DEF Asked
  <1> HIDE DEF row
  <1>3. /\ eReq' \in [Instances -> Asked \cup {Nothing}] /\ eReq'[r] = row
        /\ \A q \in Instances \ {r} : eReq'[q] = eReq[q]
    BY <1>1, <1>2 DEF TextsInv
  <1>4. \A q \in Instances : eReq[q] # Nothing => eReq[q].msg \in EdgeMessages
    BY DEF TextsInv, Asked
  <1>5. QED
    BY <1>2, <1>3, <1>4 DEF TextsInv

(* An instance ends, has its answer, or is asked for a message.            *)
LEMMA TextChanges ==
    ASSUME TextsInv, NEW r \in Instances,
           NEW row \in Asked \cup {Nothing}, row # Nothing => row.step = "account",
           eReq' = [eReq EXCEPT ![r] = row], UNCHANGED <<eActive, eStored, eArrived>>,
           \/ eAcked' = eAcked
           \/ /\ eReq[r] # Nothing /\ eReq[r].step = "answer"
              /\ eAcked' = eAcked \cup {eReq[r].msg}
    PROVE  TextsInv'
  <1>1. /\ eReq' \in [Instances -> Asked \cup {Nothing}] /\ eReq'[r] = row
        /\ \A q \in Instances \ {r} : eReq'[q] = eReq[q]
    BY DEF TextsInv
  <1>2. RowsAreKept'
    BY RowsStay DEF TextsInv
  <1>3. eReq[r] # Nothing => eReq[r].msg \in EdgeMessages
    BY DEF TextsInv, Asked
  <1>4. QED
    BY <1>1, <1>2, <1>3 DEF TextsInv

LEMMA TextStep ==
    ASSUME TextsInv, NEW r \in Instances, Texts!Step(r)
    PROVE  TextsInv'
  <1>1. PICK m : m = eReq[r].msg
    OBVIOUS
  <1>2. eReq[r] # Nothing => m \in EdgeMessages
    BY <1>1 DEF TextsInv, Asked
  <1>3. ~Texts!InsertJob(r) /\ ~Texts!Undo(r)
    BY DEF TextsInv, Texts!InsertJob, Texts!Undo, Texts!At
  <1>4. CASE \/ Texts!FindAccount(r) \/ Texts!FindMessage(r) \/ Texts!FindConversation(r)
             \/ Texts!CreateConversation(r)
    <2>1. PICK step \in Texts!Steps \ {"job", "undo"} :
             /\ eReq' = [eReq EXCEPT ![r].step = step]
             /\ step = "answer" => ~eActive \/ eStored[m] # Nothing
      BY <1>1, <1>4 DEF Texts!FindAccount, Texts!FindMessage, Texts!FindConversation,
         Texts!CreateConversation, Texts!Go, Texts!Created, Texts!Msg, Texts!Steps
    <2>2. eReq[r] # Nothing /\ UNCHANGED <<eActive, eStored, eArrived, eAcked>>
      BY <1>4 DEF Texts!FindAccount, Texts!FindMessage, Texts!FindConversation,
         Texts!CreateConversation, Texts!At
    <2>3. RowsAreKept'
      BY <2>2, RowsStay DEF TextsInv
    <2>4. /\ eActive' = eActive /\ eAcked' = eAcked
          /\ \A k \in EdgeMessages : eStored[k] # Nothing => eStored'[k] # Nothing
          /\ eActive /\ step = "answer" => eStored'[eReq[r].msg] # Nothing
      BY <1>1, <2>1, <2>2
    <2>5. QED
      BY <2>1, <2>2, <2>3, <2>4, TextGoesOn, Zenon
  <1>5. CASE Texts!InsertMessage(r)
    <2>1. /\ eReq[r] # Nothing /\ m \in EdgeMessages /\ eActive' = eActive /\ eAcked' = eAcked
          /\ IF eStored[m] # Nothing
             THEN /\ eReq' = [eReq EXCEPT ![r].step = "answer"]
                  /\ UNCHANGED <<eStored, eArrived>>
             ELSE /\ eStored' = [eStored EXCEPT ![m] = "received"]
                  /\ eArrived' = Append(eArrived, m)
                  /\ eReq' = [eReq EXCEPT ![r].step = "answer"]
      BY <1>1, <1>2, <1>5 DEF Texts!InsertMessage, Texts!At, Texts!Msg, Texts!Refused, Texts!Go,
         Texts!Entered
    <2>2. /\ RowsAreKept' /\ eStored'[m] # Nothing
          /\ \A k \in EdgeMessages : eStored[k] # Nothing => eStored'[k] # Nothing
      <3>1. CASE eStored[m] # Nothing
        BY <2>1, <3>1, RowsStay DEF TextsInv
      <3>2. CASE eStored[m] = Nothing
        <4>1. "received" \in Entries /\ "received" # Nothing
          BY EdgeConstants DEF Entries
        <4>2. RowsAreKept'
          BY <2>1, <3>2, <4>1, RowIsAdded DEF TextsInv
        <4>3. QED
          BY <2>1, <3>2, <4>1, <4>2 DEF TextsInv, RowsAreKept
      <3>3. QED
        BY <3>1, <3>2
    <2>3. eReq' = [eReq EXCEPT ![r].step = "answer"] /\ "answer" \in Texts!Steps \ {"job", "undo"}
      BY <2>1 DEF Texts!Steps
    <2>4. PICK step \in Texts!Steps \ {"job", "undo"} : step = "answer"
      BY <2>3
    <2>5. /\ eReq' = [eReq EXCEPT ![r].step = step]
          /\ eActive /\ step = "answer" => eStored'[eReq[r].msg] # Nothing
      BY <1>1, <2>2, <2>3, <2>4
    <2>6. QED
      BY <2>1, <2>2, <2>5, TextGoesOn, Zenon
  <1>6. CASE Texts!Answer(r)
    <2>1. /\ eReq[r] # Nothing /\ eReq[r].step = "answer"
          /\ eReq' = [eReq EXCEPT ![r] = Nothing] /\ eAcked' = eAcked \cup {eReq[r].msg}
          /\ UNCHANGED <<eActive, eStored, eArrived>>
      BY <1>6 DEF Texts!Answer, Texts!At, Texts!Msg
    <2>2. QED
      BY <2>1, TextChanges
  <1>7. QED
    BY <1>3, <1>4, <1>5, <1>6 DEF Texts!Step

LEMMA TextsStep ==
    ASSUME TextsInv, [Texts!Next]_(Texts!vars)
    PROVE  TextsInv'
  <1>1. CASE UNCHANGED Texts!vars
    <2>1. UNCHANGED <<eActive, eStored, eArrived, eReq, eAcked>>
      BY <1>1 DEF Texts!vars
    <2>2. QED
      BY <2>1, RowsStay DEF TextsInv
  <1>2. CASE \E r \in Instances : Texts!Step(r)
    BY <1>2, TextStep
  <1>3. ASSUME NEW r \in Instances, Texts!Crash(r)
        PROVE  TextsInv'
    BY <1>3, TextChanges DEF Texts!Crash
  <1>4. ASSUME NEW r \in Instances, NEW m \in EdgeMessages, Texts!Deliver(r, m)
        PROVE  TextsInv'
    <2> DEFINE row == [msg |-> m, step |-> "account"]
    <2>1. row \in Asked /\ row.step = "account"
      BY DEF Asked, Texts!Steps
    <2>2. eReq' = [eReq EXCEPT ![r] = row] /\ UNCHANGED <<eActive, eStored, eArrived, eAcked>>
      BY <1>4 DEF Texts!Deliver
    <2> HIDE DEF row
    <2>3. QED
      BY <2>1, <2>2, TextChanges
  <1>5. ASSUME NEW m \in EdgeMessages, Texts!Transcribe(m) \/ Texts!Handle(m)
        PROVE  TextsInv'
    <2>1. PICK s \in Entries : eStored' = [eStored EXCEPT ![m] = s]
      BY <1>5 DEF Texts!Transcribe, Texts!Handle, Entries
    <2>2. eStored[m] # Nothing /\ UNCHANGED <<eActive, eArrived, eReq, eAcked>>
      BY <1>5, EdgeConstants DEF Texts!Transcribe, Texts!Handle, Entries
    <2>3. RowsAreKept'
      BY <2>1, <2>2, RowGoesOn DEF TextsInv
    <2>4. \A k \in EdgeMessages : eStored[k] # Nothing => eStored'[k] # Nothing
      BY <2>1, <2>2, EdgeConstants DEF TextsInv, RowsAreKept
    <2>5. \A r \in Instances : eReq[r] # Nothing => eReq[r].msg \in EdgeMessages
      BY DEF TextsInv, Asked
    <2>6. QED
      BY <2>2, <2>3, <2>4, <2>5 DEF TextsInv
  <1>6. CASE Texts!Suspend
    <2>1. eActive' = FALSE /\ UNCHANGED <<eStored, eArrived, eReq, eAcked>>
      BY <1>6 DEF Texts!Suspend
    <2>2. QED
      BY <2>1, RowsStay DEF TextsInv
  <1>7. QED
    BY <1>1, <1>2, <1>3, <1>4, <1>5, <1>6 DEF Texts!Next

LEMMA TextsShown == TextsInv => Texts!OneRow /\ Texts!AcknowledgedIsKept
  BY DEF TextsInv, RowsAreKept, Texts!OneRow, Texts!AcknowledgedIsKept

-----------------------------------------------------------------------------
(* One instance, whose jobs may be refused: it takes back only what        *)
(* Telegram has no answer for.                                             *)

VoicesInv ==
    /\ RowsAreKept /\ eActive \in BOOLEAN /\ eAcked \subseteq EdgeMessages
    /\ eReq \in [{1} -> Asked \cup {Nothing}]
    /\ eReq[1] # Nothing => eReq[1].msg \notin eAcked
    /\ eReq[1] # Nothing /\ eReq[1].step \in {"job", "undo"} => eStored[eReq[1].msg] # Nothing
    /\ eActive => /\ \A m \in eAcked : eStored[m] # Nothing
                  /\ eReq[1] # Nothing /\ eReq[1].step = "answer" => eStored[eReq[1].msg] # Nothing

LEMMA VoicesBegin == VoiceMessages!Init => VoicesInv
  <1> SUFFICES ASSUME VoiceMessages!Init PROVE VoicesInv
    OBVIOUS
  <1>1. Len(<<>>) = 0 /\ <<>> \in Seq(EdgeMessages) /\ 1..0 = {}
    OBVIOUS
  <1>2. RowsAreKept
    BY <1>1 DEF VoiceMessages!Init, RowsAreKept
  <1>3. QED
    BY <1>2 DEF VoiceMessages!Init, VoicesInv

LEMMA VoiceGoesOn ==
    ASSUME VoicesInv, eReq[1] # Nothing,
           NEW step \in Texts!Steps, eReq' = [eReq EXCEPT ![1].step = step],
           RowsAreKept', eActive' = eActive, eAcked' = eAcked,
           \A m \in EdgeMessages : eStored[m] # Nothing => eStored'[m] # Nothing,
           eActive /\ step = "answer" => eStored'[eReq[1].msg] # Nothing,
           step \in {"job", "undo"} => eStored'[eReq[1].msg] # Nothing
    PROVE  VoicesInv'
  <1> DEFINE row == [eReq[1] EXCEPT !.step = step]
  <1>1. eReq' = [eReq EXCEPT ![1] = row] /\ eReq[1] \in Asked
    BY DEF VoicesInv
  <1>2. row \in Asked /\ row.step = step /\ row.msg = eReq[1].msg
    BY <1>1 DEF Asked
  <1> HIDE DEF row
  <1>3. eReq' \in [{1} -> Asked \cup {Nothing}] /\ eReq'[1] = row
    BY <1>1, <1>2 DEF VoicesInv
  <1>4. QED
    BY <1>2, <1>3 DEF VoicesInv

LEMMA VoiceTaken ==
    ASSUME VoicesInv, VoiceMessages!Step(1)
    PROVE  VoicesInv'
  <1>1. PICK m : m = eReq[1].msg
    OBVIOUS
  <1>2. eReq[1] # Nothing /\ m \in EdgeMessages
    BY <1>1 DEF VoicesInv, Asked, VoiceMessages!Step, VoiceMessages!FindAccount,
       VoiceMessages!FindMessage, VoiceMessages!FindConversation, VoiceMessages!CreateConversation,
       VoiceMessages!InsertMessage, VoiceMessages!InsertJob, VoiceMessages!Undo,
       VoiceMessages!Answer, VoiceMessages!At
  <1>3. CASE \/ VoiceMessages!FindAccount(1) \/ VoiceMessages!FindMessage(1)
             \/ VoiceMessages!FindConversation(1) \/ VoiceMessages!CreateConversation(1)
    <2>1. PICK step \in Texts!Steps \ {"job", "undo"} :
             /\ eReq' = [eReq EXCEPT ![1].step = step]
             /\ step = "answer" => ~eActive \/ eStored[m] # Nothing
      BY <1>1, <1>3 DEF VoiceMessages!FindAccount, VoiceMessages!FindMessage,
         VoiceMessages!FindConversation, VoiceMessages!CreateConversation, VoiceMessages!Go,
         VoiceMessages!Created, VoiceMessages!Msg, Texts!Steps
    <2>2. UNCHANGED <<eActive, eStored, eArrived, eAcked>>
      BY <1>3 DEF VoiceMessages!FindAccount, VoiceMessages!FindMessage,
         VoiceMessages!FindConversation, VoiceMessages!CreateConversation
    <2>3. RowsAreKept'
      BY <2>2, RowsStay DEF VoicesInv
    <2>4. /\ eActive' = eActive /\ eAcked' = eAcked
          /\ \A k \in EdgeMessages : eStored[k] # Nothing => eStored'[k] # Nothing
          /\ eActive /\ step = "answer" => eStored'[eReq[1].msg] # Nothing
          /\ step \in {"job", "undo"} => eStored'[eReq[1].msg] # Nothing
      BY <1>1, <2>1, <2>2
    <2>5. QED
      BY <1>2, <2>1, <2>3, <2>4, VoiceGoesOn, Zenon
  <1>4. CASE VoiceMessages!InsertMessage(1)
    <2>1. PICK s \in {"transcribing", "received"}, step \in {"job", "answer"} :
             /\ eActive' = eActive /\ eAcked' = eAcked
             /\ \/ /\ eStored[m] # Nothing /\ UNCHANGED <<eStored, eArrived>>
                   /\ eReq' = [eReq EXCEPT ![1].step = "answer"] /\ step = "answer"
                \/ /\ eStored[m] = Nothing /\ eStored' = [eStored EXCEPT ![m] = s]
                   /\ eArrived' = Append(eArrived, m)
                   /\ eReq' = [eReq EXCEPT ![1].step = step]
      BY <1>1, <1>2, <1>4 DEF VoiceMessages!InsertMessage, VoiceMessages!Msg,
         VoiceMessages!Refused, VoiceMessages!Go, VoiceMessages!Entered
    <2>2. s \in Entries /\ s # Nothing
      BY EdgeConstants DEF Entries
    <2>3. /\ RowsAreKept' /\ eStored'[m] # Nothing
          /\ \A k \in EdgeMessages : eStored[k] # Nothing => eStored'[k] # Nothing
      <3>1. CASE eStored[m] # Nothing
        BY <2>1, <3>1, RowsStay DEF VoicesInv
      <3>2. CASE eStored[m] = Nothing
        <4>1. RowsAreKept'
          BY <1>2, <2>1, <2>2, <3>2, RowIsAdded DEF VoicesInv
        <4>2. QED
          BY <1>2, <2>1, <2>2, <3>2, <4>1 DEF VoicesInv, RowsAreKept
      <3>3. QED
        BY <3>1, <3>2
    <2>4. PICK next \in Texts!Steps : next = step
      BY DEF Texts!Steps
    <2>5. /\ eReq' = [eReq EXCEPT ![1].step = next] /\ eActive' = eActive /\ eAcked' = eAcked
          /\ eActive /\ next = "answer" => eStored'[eReq[1].msg] # Nothing
          /\ next \in {"job", "undo"} => eStored'[eReq[1].msg] # Nothing
      BY <1>1, <2>1, <2>3, <2>4
    <2>6. QED
      BY <1>2, <2>3, <2>5, VoiceGoesOn, Zenon
  <1>5. CASE VoiceMessages!InsertJob(1)
    <2>1. PICK step \in {"answer", "undo"} : eReq' = [eReq EXCEPT ![1].step = step]
      BY <1>5 DEF VoiceMessages!InsertJob, VoiceMessages!Go
    <2>2. /\ eReq[1].step = "job" /\ UNCHANGED <<eActive, eStored, eArrived, eAcked>>
      BY <1>5 DEF VoiceMessages!InsertJob, VoiceMessages!At
    <2>3. RowsAreKept' /\ eStored[m] # Nothing
      BY <1>1, <1>2, <2>2, RowsStay DEF VoicesInv
    <2>4. PICK next \in Texts!Steps : next = step
      BY DEF Texts!Steps
    <2>5. /\ eReq' = [eReq EXCEPT ![1].step = next] /\ eActive' = eActive /\ eAcked' = eAcked
          /\ \A k \in EdgeMessages : eStored[k] # Nothing => eStored'[k] # Nothing
          /\ eActive /\ next = "answer" => eStored'[eReq[1].msg] # Nothing
          /\ next \in {"job", "undo"} => eStored'[eReq[1].msg] # Nothing
      BY <1>1, <2>1, <2>2, <2>3, <2>4
    <2>6. QED
      BY <1>2, <2>3, <2>5, VoiceGoesOn, Zenon
  <1>6. CASE VoiceMessages!Undo(1)
    <2>1. /\ eReq[1].step = "undo" /\ eReq' = [eReq EXCEPT ![1] = Nothing]
          /\ eStored' = [eStored EXCEPT ![m] = Nothing]
          /\ eArrived' = VoiceMessages!RemoveAt(eArrived, VoiceMessages!Place(m))
          /\ UNCHANGED <<eActive, eAcked>>
      BY <1>1, <1>6 DEF VoiceMessages!Undo, VoiceMessages!At, VoiceMessages!Undone,
         VoiceMessages!Msg
    <2>2. eStored[m] # Nothing /\ m \notin eAcked
      BY <1>1, <1>2, <2>1 DEF VoicesInv
    <2>3. RowsAreKept'
      BY <1>2, <2>1, <2>2, RowIsRemoved DEF VoicesInv
    <2>4. \A k \in eAcked : eStored'[k] = eStored[k]
      BY <2>1, <2>2 DEF VoicesInv, RowsAreKept
    <2>5. eReq' \in [{1} -> Asked \cup {Nothing}] /\ eReq'[1] = Nothing
      BY <2>1 DEF VoicesInv
    <2>6. QED
      BY <2>1, <2>3, <2>4, <2>5 DEF VoicesInv
  <1>7. CASE VoiceMessages!Answer(1)
    <2>1. /\ eReq[1].step = "answer" /\ eReq' = [eReq EXCEPT ![1] = Nothing]
          /\ eAcked' = eAcked \cup {m} /\ UNCHANGED <<eActive, eStored, eArrived>>
      BY <1>1, <1>7 DEF VoiceMessages!Answer, VoiceMessages!At, VoiceMessages!Msg
    <2>2. RowsAreKept' /\ (eActive => eStored[m] # Nothing)
      BY <1>1, <1>2, <2>1, RowsStay DEF VoicesInv
    <2>3. eReq' \in [{1} -> Asked \cup {Nothing}] /\ eReq'[1] = Nothing
      BY <2>1 DEF VoicesInv
    <2>4. QED
      BY <1>2, <2>1, <2>2, <2>3 DEF VoicesInv
  <1>8. QED
    BY <1>3, <1>4, <1>5, <1>6, <1>7 DEF VoiceMessages!Step

LEMMA VoicesStep ==
    ASSUME VoicesInv, [VoiceMessages!Next]_(VoiceMessages!vars)
    PROVE  VoicesInv'
  <1>1. CASE UNCHANGED VoiceMessages!vars
    <2>1. UNCHANGED <<eActive, eStored, eArrived, eReq, eAcked>>
      BY <1>1 DEF VoiceMessages!vars
    <2>2. QED
      BY <2>1, RowsStay DEF VoicesInv
  <1>2. CASE VoiceMessages!Step(1)
    BY <1>2, VoiceTaken
  <1>3. ~VoiceMessages!Crash(1)
    BY DEF VoiceMessages!Crash
  <1>4. ASSUME NEW m \in EdgeMessages, VoiceMessages!Deliver(1, m)
        PROVE  VoicesInv'
    <2> DEFINE row == [msg |-> m, step |-> "account"]
    <2>1. row \in Asked /\ row.step = "account" /\ row.msg = m
      BY DEF Asked, Texts!Steps
    <2>2. /\ eReq' = [eReq EXCEPT ![1] = row] /\ UNCHANGED <<eActive, eStored, eArrived, eAcked>>
          /\ m \notin eAcked
      BY <1>4 DEF VoiceMessages!Deliver
    <2> HIDE DEF row
    <2>3. eReq' \in [{1} -> Asked \cup {Nothing}] /\ eReq'[1] = row
      BY <2>1, <2>2 DEF VoicesInv
    <2>4. QED
      BY <2>1, <2>2, <2>3, RowsStay DEF VoicesInv
  <1>5. ASSUME NEW m \in EdgeMessages, VoiceMessages!Transcribe(m) \/ VoiceMessages!Handle(m)
        PROVE  VoicesInv'
    <2>1. PICK s \in Entries : eStored' = [eStored EXCEPT ![m] = s]
      BY <1>5 DEF VoiceMessages!Transcribe, VoiceMessages!Handle, Entries
    <2>2. eStored[m] # Nothing /\ UNCHANGED <<eActive, eArrived, eReq, eAcked>>
      BY <1>5, EdgeConstants DEF VoiceMessages!Transcribe, VoiceMessages!Handle, Entries
    <2>3. RowsAreKept'
      BY <2>1, <2>2, RowGoesOn DEF VoicesInv
    <2>4. \A k \in EdgeMessages : eStored[k] # Nothing => eStored'[k] # Nothing
      BY <2>1, <2>2, EdgeConstants DEF VoicesInv, RowsAreKept
    <2>5. eReq[1] # Nothing => eReq[1].msg \in EdgeMessages
      BY DEF VoicesInv, Asked
    <2>6. QED
      BY <2>2, <2>3, <2>4, <2>5 DEF VoicesInv
  <1>6. CASE VoiceMessages!Suspend
    <2>1. eActive' = FALSE /\ UNCHANGED <<eStored, eArrived, eReq, eAcked>>
      BY <1>6 DEF VoiceMessages!Suspend
    <2>2. QED
      BY <2>1, RowsStay DEF VoicesInv
  <1>7. QED
    BY <1>1, <1>2, <1>3, <1>4, <1>5, <1>6 DEF VoiceMessages!Next

LEMMA VoicesShown == VoicesInv => VoiceMessages!OneRow /\ VoiceMessages!AcknowledgedIsKept
  BY DEF VoicesInv, RowsAreKept, VoiceMessages!OneRow, VoiceMessages!AcknowledgedIsKept

-----------------------------------------------------------------------------
(* What is so of the part that runs.                                       *)

PartInv ==
    /\ queue = "sources" => SourcesInv
    /\ AudioInv
    /\ queue = "texts" => TextsInv
    /\ queue = "voices" => VoicesInv

LEMMA PartBegins == QueuesInit => PartInv
  BY SourcesBegin, AudioBegins, TextsBegin, VoicesBegin DEF QueuesInit, PartInv

LEMMA PartGoesOn == PartInv /\ [QueuesNext]_queueVars => PartInv'
  <1> SUFFICES ASSUME PartInv, [QueuesNext]_queueVars PROVE PartInv'
    OBVIOUS
  <1>1. AudioInv'
    BY QueueSteps, AudioStep DEF PartInv
  <1>2. CASE queue = "sources"
    BY <1>1, <1>2, QueueStays, QueueSteps, SourcesStep DEF PartInv
  <1>3. CASE queue = "texts"
    BY <1>1, <1>3, QueueStays, QueueSteps, TextsStep DEF PartInv
  <1>4. CASE queue = "voices"
    BY <1>1, <1>4, QueueStays, QueueSteps, VoicesStep DEF PartInv
  <1>5. QED
    BY <1>1, <1>2, <1>3, <1>4, QueueStays DEF PartInv

LEMMA SourcesShown == SourcesInv => Ingestion!JobAndSourceAgree /\ Ingestion!OneOutcomeTold
  BY DEF SourcesInv, Agrees, Agree, Told, Ingestion!JobAndSourceAgree, Ingestion!OneOutcomeTold

(* A source and its job, and a voice message and its job, tell the same,   *)
(* through retries, crashes and lapsed leases, and the user one outcome; a *)
(* message delivered again has one row, and Telegram forgets none that has *)
(* no row: worker/service.py, transcription/service.py and                 *)
(* telegram-webhook/index.ts.                                              *)
THEOREM RowsAgreeInQueues == QueuesSpec => []RowsAgree
  <1>1. PartInv => RowsAgree
    BY SourcesShown, AudioShown, TextsShown, VoicesShown DEF PartInv, RowsAgree
  <1>2. QED
    BY <1>1, PartBegins, PartGoesOn, PTL DEF QueuesSpec

-----------------------------------------------------------------------------
(* How often a source was claimed: a retry follows fewer failures than the *)
(* limit, and a claim without its end has cost a crash.                    *)

Spare(s) == \/ sJob[s].status \in {"none", "ready"}
            \/ sJob[s].status = "running" /\ ~Ingestion!InHand(s)

TriesCounted ==
    /\ sCrashes \in 0..MaxStops
    /\ \A s \in Sources : /\ sJob[s].attempts <= MaxTries + sCrashes
                          /\ Spare(s) => sJob[s].attempts < MaxTries + sCrashes

LEMMA TriesBegin == Ingestion!Init => TriesCounted
  BY QueueAssumptions DEF Ingestion!IngestionAssumption, Ingestion!Init, TriesCounted, Spare

(* The row of one source is written, and no crash is counted.              *)
LEMMA TriesOfOthers ==
    ASSUME SourcesInv, TriesCounted, NEW s \in Sources, NEW row \in SourceJob,
           sJob' = [sJob EXCEPT ![s] = row], sCrashes' = sCrashes,
           \A r \in Sources \ {s} : Ingestion!InHand(r) => Ingestion!InHand(r)',
           row.attempts <= MaxTries + sCrashes,
           Spare(s)' => row.attempts < MaxTries + sCrashes
    PROVE  TriesCounted'
  <1>1. sJob'[s] = row /\ \A r \in Sources \ {s} : sJob'[r] = sJob[r]
    BY DEF SourcesInv, SourceTypes
  <1>2. \A r \in Sources \ {s} : Spare(r)' => Spare(r)
    BY <1>1 DEF Spare
  <1>3. QED
    BY <1>1, <1>2 DEF TriesCounted

LEMMA TriesStep ==
    ASSUME SourcesInv, TriesCounted, [Ingestion!Next]_(Ingestion!vars)
    PROVE  TriesCounted'
  <1>0. MaxTries \in Nat \ {0} /\ MaxStops \in Nat /\ sCrashes \in Nat
    BY QueueAssumptions DEF Ingestion!IngestionAssumption, TriesCounted
  <1>1. CASE UNCHANGED Ingestion!vars
    BY <1>1 DEF Ingestion!vars, TriesCounted, Spare, Ingestion!InHand
  <1>2. ASSUME NEW s \in Sources,
               Ingestion!IngestTranscript(s) \/ Ingestion!DeleteSource(s) \/ Ingestion!Lapse(s)
        PROVE  TriesCounted'
    <2>1. sJob[s] \in SourceJob /\ UNCHANGED <<sWorker, sCrashes>>
      BY <1>2 DEF SourcesInv, SourceTypes, Ingestion!IngestTranscript, Ingestion!DeleteSource,
         Ingestion!Lapse
    <2>2. PICK row \in SourceJob :
             /\ sJob' = [sJob EXCEPT ![s] = row] /\ row.attempts = sJob[s].attempts
             /\ \/ Spare(s) \/ row.status \notin {"none", "ready", "running"}
                \/ row.status = sJob[s].status
      <3>1. CASE Ingestion!IngestTranscript(s)
        <4> DEFINE row == [sJob[s] EXCEPT !.status = "ready"]
        <4>1. row \in SourceJob /\ row.attempts = sJob[s].attempts
          BY <2>1 DEF SourceJob
        <4>2. sJob' = [sJob EXCEPT ![s] = row] /\ Spare(s)
          BY <3>1 DEF Ingestion!IngestTranscript, SourcesInv, Agrees, Agree, Spare
        <4> HIDE DEF row
        <4>3. QED
          BY <4>1, <4>2
      <3>2. CASE Ingestion!DeleteSource(s)
        <4> DEFINE row == [sJob[s] EXCEPT !.status = IF sJob[s].status \in {"ready", "running"}
                                                     THEN "failed" ELSE sJob[s].status]
        <4>1. /\ row \in SourceJob /\ row.attempts = sJob[s].attempts
              /\ row.status \in {"none", "completed", "failed"}
              /\ row.status = "none" => sJob[s].status = "none"
          BY <2>1 DEF SourceJob
        <4>2. sJob' = [sJob EXCEPT ![s] = row]
          BY <3>2 DEF Ingestion!DeleteSource
        <4> HIDE DEF row
        <4>3. QED
          BY <4>1, <4>2
      <3>3. CASE Ingestion!Lapse(s)
        <4> DEFINE row == [sJob[s] EXCEPT !.lease = "lapsed"]
        <4>1. row \in SourceJob /\ row.attempts = sJob[s].attempts /\ row.status = sJob[s].status
          BY <2>1 DEF SourceJob
        <4>2. sJob' = [sJob EXCEPT ![s] = row]
          BY <3>3 DEF Ingestion!Lapse
        <4> HIDE DEF row
        <4>3. QED
          BY <4>1, <4>2
      <3>4. QED
        BY <1>2, <3>1, <3>2, <3>3
    <2>3. \A r \in Sources : Ingestion!InHand(r)' <=> Ingestion!InHand(r)
      BY <2>1 DEF Ingestion!InHand
    <2>4. sJob'[s] = row
      BY <2>2 DEF SourcesInv, SourceTypes
    <2>5. Spare(s)' => Spare(s)
      BY <2>2, <2>3, <2>4 DEF Spare
    <2>6. QED
      BY <2>1, <2>2, <2>3, <2>5, TriesOfOthers DEF TriesCounted
  <1>3. ASSUME NEW w \in Extractors, NEW s \in Sources, Ingestion!ClaimJob(w, s)
        PROVE  TriesCounted'
    <2> DEFINE row == [status |-> "running", lease |-> "held", attempts |-> sJob[s].attempts + 1]
    <2>1. sJob[s] \in SourceJob /\ row \in SourceJob /\ row.status = "running"
          /\ row.attempts = sJob[s].attempts + 1 /\ sJob[s].attempts \in Nat
      BY DEF SourcesInv, SourceTypes, SourceJob
    <2>2. /\ sJob' = [sJob EXCEPT ![s] = row] /\ sCrashes' = sCrashes
          /\ sWorker' = [sWorker EXCEPT ![w] = [source |-> s, phase |-> "claimed"]]
          /\ sWorker[w] = Ingestion!Idle /\ Ingestion!Claimable(s)
      BY <1>3 DEF Ingestion!ClaimJob
    <2> HIDE DEF row
    <2>3. Spare(s)
      <3>1. CASE sJob[s].status = "ready"
        BY <3>1 DEF Spare
      <3>2. CASE sJob[s].status = "running" /\ sJob[s].lease = "lapsed"
        BY <3>2, SourceConstants DEF Spare, SourcesInv, SourcesInHand, Ingestion!InHand,
           Ingestion!Idle, Workable
      <3>3. QED
        BY <2>2, <3>1, <3>2 DEF Ingestion!Claimable
    <2>4. sWorker' \in [Extractors -> Ingestion!Busy] /\ sWorker'[w].source = s
          /\ \A v \in Extractors \ {w} : sWorker'[v] = sWorker[v]
      BY <2>2 DEF SourcesInv, SourceTypes, Ingestion!Busy
    <2>5. Ingestion!InHand(s)'
      BY <2>4 DEF Ingestion!InHand
    <2>6. \A r \in Sources \ {s} : Ingestion!InHand(r) => Ingestion!InHand(r)'
      BY <2>2, <2>4, SourceConstants DEF Ingestion!InHand, Ingestion!Idle
    <2>7. sJob'[s] = row
      BY <2>2 DEF SourcesInv, SourceTypes
    <2>8. ~Spare(s)'
      BY <2>1, <2>5, <2>7 DEF Spare
    <2>9. row.attempts <= MaxTries + sCrashes
      BY <1>0, <2>1, <2>3 DEF TriesCounted
    <2>10. QED
      BY <2>1, <2>2, <2>6, <2>8, <2>9, TriesOfOthers
  <1>4. ASSUME NEW w \in Extractors, Ingestion!Step(w)
        PROVE  TriesCounted'
    <2>1. PICK s : s = sWorker[w].source
      OBVIOUS
    <2>2. s \in Sources /\ sJob[s] \in SourceJob /\ sJob[s].attempts \in Nat /\ Ingestion!InHand(s)
          /\ Workable(sSource[s], sJob[s])
      BY <1>4, <2>1, SourceOfWorker DEF Ingestion!Step, Ingestion!Begin, Ingestion!Finish,
         Ingestion!Fail, SourceJob, Ingestion!InHand
    <2>3. CASE UNCHANGED sJob /\ sWorker' = [sWorker EXCEPT ![w].phase = "extracting"]
      <3>1. \A v \in Extractors : sWorker'[v].source = sWorker[v].source
        BY <2>3 DEF SourcesInv, SourceTypes, Ingestion!Busy
      <3>2. \A r \in Sources : Ingestion!InHand(r)' <=> Ingestion!InHand(r)
        BY <3>1 DEF Ingestion!InHand
      <3>3. sCrashes' = sCrashes
        BY <1>4 DEF Ingestion!Step, Ingestion!Begin, Ingestion!Finish, Ingestion!Fail
      <3>4. QED
        BY <2>3, <3>2, <3>3 DEF TriesCounted, Spare
    <2>4. ASSUME NEW row \in SourceJob,
                 sJob' = [sJob EXCEPT ![s] = row], row.attempts = sJob[s].attempts,
                 \/ row.status \in {"completed", "failed"}
                 \/ row.status = "ready" /\ row.attempts < MaxTries,
                 sWorker' = [sWorker EXCEPT ![w] = Ingestion!Idle]
          PROVE  TriesCounted'
      <3>2. \A v \in Extractors \ {w} : sWorker'[v] = sWorker[v]
        BY <2>4 DEF SourcesInv, SourceTypes
      <3>3. \A r \in Sources \ {s} : Ingestion!InHand(r) => Ingestion!InHand(r)'
        BY <2>1, <3>2 DEF Ingestion!InHand
      <3>4. sJob'[s] = row /\ sCrashes' = sCrashes
        BY <1>4, <2>2, <2>4 DEF SourcesInv, SourceTypes, Ingestion!Step, Ingestion!Begin,
           Ingestion!Finish, Ingestion!Fail
      <3>5. row.attempts <= MaxTries + sCrashes
            /\ (row.status = "ready" => row.attempts < MaxTries + sCrashes)
        BY <1>0, <2>2, <2>4 DEF TriesCounted
      <3>6. Spare(s)' => row.attempts < MaxTries + sCrashes
        BY <2>4, <3>4, <3>5 DEF Spare
      <3>7. QED
        BY <2>2, <2>4, <3>3, <3>4, <3>5, <3>6, TriesOfOthers
    <2>5. CASE Ingestion!Begin(w) /\ ~(UNCHANGED sJob)
      <3> DEFINE row == [sJob[s] EXCEPT !.status = "failed"]
      <3>1. row \in SourceJob /\ row.attempts = sJob[s].attempts /\ row.status = "failed"
        BY <2>2 DEF SourceJob
      <3>2. sJob' = [sJob EXCEPT ![s] = row] /\ sWorker' = [sWorker EXCEPT ![w] = Ingestion!Idle]
        BY <2>1, <2>5 DEF Ingestion!Begin, Ingestion!Release
      <3> HIDE DEF row
      <3>3. QED
        BY <2>4, <3>1, <3>2
    <2>6. CASE Ingestion!Begin(w) /\ UNCHANGED sJob
      <3>1. CASE sWorker' = [sWorker EXCEPT ![w].phase = "extracting"]
        BY <2>3, <2>6, <3>1
      <3>2. CASE sJob' = [sJob EXCEPT ![s].status = "failed"]
                 /\ sWorker' = [sWorker EXCEPT ![w] = Ingestion!Idle]
        <4> DEFINE row == [sJob[s] EXCEPT !.status = "failed"]
        <4>1. row \in SourceJob /\ row.attempts = sJob[s].attempts /\ row.status = "failed"
          BY <2>2 DEF SourceJob
        <4>2. sJob' = [sJob EXCEPT ![s] = row]
          BY <3>2
        <4> HIDE DEF row
        <4>3. QED
          BY <2>4, <3>2, <4>1, <4>2
      <3>3. QED
        BY <2>1, <2>6, <3>1, <3>2 DEF Ingestion!Begin, Ingestion!Release
    <2>7. CASE Ingestion!Finish(w)
      <3> DEFINE row == [sJob[s] EXCEPT !.status = "completed", !.lease = "none"]
      <3>1. row \in SourceJob /\ row.attempts = sJob[s].attempts /\ row.status = "completed"
        BY <2>2 DEF SourceJob
      <3>2. sJob' = [sJob EXCEPT ![s] = row] /\ sWorker' = [sWorker EXCEPT ![w] = Ingestion!Idle]
        BY <2>1, <2>7 DEF Ingestion!Finish, Ingestion!Release
      <3> HIDE DEF row
      <3>3. QED
        BY <2>4, <3>1, <3>2
    <2>8. CASE Ingestion!Fail(w)
      <3>1. PICK status \in {"ready", "failed"} :
               /\ status = "ready" => sJob[s].attempts < MaxTries
               /\ sJob' = [sJob EXCEPT ![s] = [sJob[s] EXCEPT !.lease = "none", !.status = status]]
        BY <2>1, <2>8 DEF Ingestion!Fail
      <3> DEFINE row == [sJob[s] EXCEPT !.lease = "none", !.status = status]
      <3>2. row \in SourceJob /\ row.attempts = sJob[s].attempts /\ row.status = status
        BY <2>2 DEF SourceJob
      <3>3. sJob' = [sJob EXCEPT ![s] = row] /\ sWorker' = [sWorker EXCEPT ![w] = Ingestion!Idle]
        BY <2>8, <3>1 DEF Ingestion!Fail, Ingestion!Release
      <3> HIDE DEF row
      <3>4. QED
        BY <2>4, <3>1, <3>2, <3>3
    <2>9. QED
      BY <1>4, <2>5, <2>6, <2>7, <2>8 DEF Ingestion!Step
  <1>5. ASSUME NEW w \in Extractors, Ingestion!Crash(w)
        PROVE  TriesCounted'
    <2>1. /\ UNCHANGED sJob /\ sCrashes' = sCrashes + 1 /\ sCrashes < MaxStops
      BY <1>5 DEF Ingestion!Crash
    <2>2. \A s \in Sources : sJob[s].attempts \in Nat
      BY DEF SourcesInv, SourceTypes, SourceJob
    <2>3. \A s \in Sources : sJob'[s].attempts < MaxTries + sCrashes'
      BY <1>0, <2>1, <2>2 DEF TriesCounted
    <2>4. QED
      BY <1>0, <2>1, <2>2, <2>3 DEF TriesCounted
  <1>6. QED
    BY <1>1, <1>2, <1>3, <1>4, <1>5 DEF Ingestion!Next

LEMMA SourcesTyped == SourcesInv /\ TriesCounted => Ingestion!TypeOK
  <1> SUFFICES ASSUME SourcesInv, TriesCounted PROVE Ingestion!TypeOK
    OBVIOUS
  <1>1. MaxTries \in Nat /\ MaxStops \in Nat /\ sCrashes \in 0..MaxStops
    BY QueueAssumptions DEF Ingestion!IngestionAssumption, TriesCounted
  <1>2. ASSUME NEW s \in Sources PROVE sJob[s] \in Ingestion!JobRow
    <2>1. sJob[s] \in SourceJob /\ sJob[s].attempts <= MaxTries + sCrashes
      BY DEF SourcesInv, SourceTypes, TriesCounted
    <2>2. sJob[s].attempts \in 0..MaxTries + MaxStops
      BY <1>1, <2>1 DEF SourceJob
    <2>3. QED
      BY <2>1, <2>2 DEF SourceJob, Ingestion!JobRow
  <1>3. sJob \in [Sources -> Ingestion!JobRow]
    BY <1>2 DEF SourcesInv, SourceTypes
  <1>4. QED
    BY <1>1, <1>3 DEF SourcesInv, SourceTypes, Ingestion!TypeOK

-----------------------------------------------------------------------------
(* A voice message that was transcribed had a job.                         *)

HeardHaveJobs == \A m \in EdgeVoices : eStored[m] \in {"received", "handled"} => m \in eJobs

LEMMA HeardBegin == VoiceMessages!Init => HeardHaveJobs
  BY EdgeConstants DEF VoiceMessages!Init, HeardHaveJobs, Entries

LEMMA HeardStep ==
    ASSUME VoicesInv, HeardHaveJobs, [VoiceMessages!Next]_(VoiceMessages!vars)
    PROVE  HeardHaveJobs'
  <1>1. CASE \/ UNCHANGED VoiceMessages!vars \/ VoiceMessages!Suspend
             \/ \E r \in {1} : \/ VoiceMessages!FindAccount(r) \/ VoiceMessages!FindMessage(r)
                               \/ VoiceMessages!FindConversation(r)
                               \/ VoiceMessages!CreateConversation(r)
                               \/ VoiceMessages!Answer(r) \/ VoiceMessages!Crash(r)
                               \/ \E m \in EdgeMessages : VoiceMessages!Deliver(r, m)
    <2>1. UNCHANGED <<eStored, eJobs>>
      BY <1>1 DEF VoiceMessages!vars, VoiceMessages!Suspend, VoiceMessages!FindAccount,
         VoiceMessages!FindMessage, VoiceMessages!FindConversation,
         VoiceMessages!CreateConversation, VoiceMessages!Answer, VoiceMessages!Crash,
         VoiceMessages!Deliver
    <2>2. QED
      BY <2>1 DEF HeardHaveJobs
  <1>2. CASE VoiceMessages!InsertJob(1)
    BY <1>2 DEF VoiceMessages!InsertJob, VoiceMessages!JobStored, HeardHaveJobs
  <1>3. ASSUME NEW m \in EdgeMessages, NEW entry, eStored' = [eStored EXCEPT ![m] = entry],
               eJobs' = eJobs,
               m \in EdgeVoices /\ entry \in {"received", "handled"} => m \in eJobs
        PROVE  HeardHaveJobs'
    BY <1>3 DEF HeardHaveJobs, VoicesInv, RowsAreKept
  <1>4. eReq[1] # Nothing => eReq[1].msg \in EdgeMessages
    BY DEF VoicesInv, Asked
  <1>5. CASE VoiceMessages!InsertMessage(1)
    <2>1. CASE UNCHANGED eStored
      BY <1>5, <2>1 DEF VoiceMessages!InsertMessage, HeardHaveJobs
    <2>2. CASE ~(UNCHANGED eStored)
      <3>1. /\ eReq[1] # Nothing /\ eJobs' = eJobs
            /\ eStored' = [eStored EXCEPT ![eReq[1].msg] = VoiceMessages!Entered(eReq[1].msg)]
        BY <1>5, <2>2 DEF VoiceMessages!InsertMessage, VoiceMessages!At, VoiceMessages!Msg
      <3>2. eReq[1].msg \in EdgeVoices => VoiceMessages!Entered(eReq[1].msg) = "transcribing"
        BY DEF VoiceMessages!Entered
      <3>3. QED
        BY <1>3, <1>4, <3>1, <3>2
    <2>3. QED
      BY <2>1, <2>2
  <1>6. CASE VoiceMessages!Undo(1)
    <2>1. /\ eReq[1] # Nothing /\ eJobs' = eJobs
          /\ eStored' = [eStored EXCEPT ![eReq[1].msg] = Nothing]
      BY <1>6 DEF VoiceMessages!Undo, VoiceMessages!At, VoiceMessages!Msg
    <2>2. QED
      BY <1>3, <1>4, <2>1, EdgeConstants DEF Entries
  <1>7. ASSUME NEW m \in EdgeMessages, VoiceMessages!Transcribe(m) \/ VoiceMessages!Handle(m)
        PROVE  HeardHaveJobs'
    <2>1. CASE VoiceMessages!Transcribe(m)
      BY <1>3, <2>1 DEF VoiceMessages!Transcribe
    <2>2. CASE VoiceMessages!Handle(m)
      <3>1. /\ eStored[m] = "received" /\ eStored' = [eStored EXCEPT ![m] = "handled"]
            /\ eJobs' = eJobs
        BY <2>2 DEF VoiceMessages!Handle
      <3>2. m \in EdgeVoices => m \in eJobs
        BY <3>1 DEF HeardHaveJobs
      <3>3. QED
        BY <1>3, <3>1, <3>2
    <2>3. QED
      BY <1>7, <2>1, <2>2
  <1>8. QED
    BY <1>1, <1>2, <1>5, <1>6, <1>7 DEF VoiceMessages!Next, VoiceMessages!Step

LEMMA EdgeTyped == /\ TextsInv => Texts!TypeOK
                   /\ VoicesInv /\ HeardHaveJobs => VoiceMessages!TypeOK
  <1>1. eArrived \in Seq(EdgeMessages) => DOMAIN eArrived = 1..Len(eArrived)
    OBVIOUS
  <1>2. RowsAreKept => \A m \in EdgeMessages :
            eStored[m] # Nothing <=> \E i \in DOMAIN eArrived : eArrived[i] = m
    BY <1>1 DEF RowsAreKept
  <1>3. TextsInv => Texts!TypeOK
    BY <1>2 DEF TextsInv, Texts!TypeOK, Asked
  <1>4. VoicesInv /\ HeardHaveJobs => VoiceMessages!TypeOK
    BY <1>2, EdgeConstants DEF VoicesInv, HeardHaveJobs, VoiceMessages!TypeOK, Asked
  <1>5. QED
    BY <1>3, <1>4

-----------------------------------------------------------------------------
(* A process has failed less often than its limit, or it has exited and is *)
(* between two cycles.                                                     *)

CycleCounts ==
    /\ SlowCycle!TypeOK /\ wFailures \in Nat
    /\ wExited => wStage = 0

LEMMA CountsBegin == QueuesInit => CycleCounts
  BY QueueAssumptions DEF QueuesInit, Cycle!Init, CycleCounts, SlowCycle!TypeOK,
     SlowCycle!CycleAssumption

LEMMA CountsStep ==
    ASSUME CycleCounts, SlowCycle!Next
    PROVE  CycleCounts'
  <1>0. /\ LastStage \in Nat \ {0} /\ MaxFailed \in Nat \ {0}
        /\ \A s \in ScanStages : s \in 1..LastStage
    BY QueueAssumptions DEF SlowCycle!CycleAssumption
  <1> USE <1>0 DEF CycleCounts, SlowCycle!TypeOK, SlowCycle!Stages
  <1>1. CASE SlowCycle!StartCycle
    BY <1>1 DEF SlowCycle!StartCycle, SlowCycle!DueAfterStart
  <1>2. CASE SlowCycle!RunStage
    BY <1>2 DEF SlowCycle!RunStage, SlowCycle!NextStage
  <1>3. CASE SlowCycle!SkipScan
    BY <1>3 DEF SlowCycle!SkipScan, SlowCycle!Skipped
  <1>4. CASE SlowCycle!EndCycle
    <2>1. /\ wFailures' = 0 /\ wCauses' = {} /\ wStage' \in {LastStage + 2, 0}
          /\ wDue' \subseteq wDue /\ wStage = LastStage + 1
          /\ UNCHANGED <<wUp, wWaiting, wScanning, wRan, wExited>>
      BY <1>4 DEF SlowCycle!EndCycle
    <2>2. ~wExited /\ ~(0 >= MaxFailed) /\ 0 \in Nat /\ wStage' \in 0..(LastStage + 2)
      BY <2>1
    <2>3. QED
      BY <2>1, <2>2
  <1>5. CASE SlowCycle!Heartbeat \/ SlowCycle!Database
    <2>1. /\ wStage' \in {wStage, 0}
          /\ UNCHANGED <<wWaiting, wDue, wScanning, wRan, wFailures, wCauses, wExited>>
      BY <1>5 DEF SlowCycle!Heartbeat, SlowCycle!Database
    <2>2. QED
      BY <2>1
  <1>6. CASE SlowCycle!LoseDatabase \/ SlowCycle!TimeOut
    <2>1. PICK cause : SlowCycle!Fail(cause)
      BY <1>6 DEF SlowCycle!LoseDatabase, SlowCycle!TimeOut
    <2>2. /\ wFailures' = wFailures + 1 /\ wCauses' # {} /\ wStage' = 0
          /\ wExited' <=> (wFailures + 1 >= MaxFailed)
          /\ UNCHANGED <<wUp, wWaiting, wDue, wScanning, wRan>>
      BY <2>1 DEF SlowCycle!Fail, SlowCycle!Counted, SlowCycle!LimitReached
    <2>3. wFailures' \in Nat /\ wFailures' # 0 /\ (wExited' <=> wFailures' >= MaxFailed)
      BY <2>2
    <2>4. wStage' \in 0..(LastStage + 2)
      BY <2>2
    <2>5. QED
      BY <2>2, <2>3, <2>4
  <1>7. CASE SlowCycle!Restart
    BY <1>7 DEF SlowCycle!Restart
  <1>8. CASE \E s \in SlowCycle!Stages : SlowCycle!Arrive(s) \/ SlowCycle!Tick(s)
    <2>1. /\ wWaiting' \subseteq SlowCycle!Stages /\ (wScanning' \cup wDue') \subseteq ScanStages
          /\ UNCHANGED <<wStage, wRan, wFailures, wCauses, wExited>>
      BY <1>8 DEF SlowCycle!Arrive, SlowCycle!Tick
    <2>2. QED
      BY <2>1
  <1>9. QED
    BY <1>1, <1>2, <1>3, <1>4, <1>5, <1>6, <1>7, <1>8 DEF SlowCycle!Next, SlowCycle!Worker

-----------------------------------------------------------------------------
(* What is so of every part that runs.                                     *)

TypesInv == /\ PartInv /\ CycleCounts
            /\ queue = "sources" => TriesCounted
            /\ queue = "voices" => HeardHaveJobs

LEMMA TypesGoOn == TypesInv /\ [QueuesNext]_queueVars => TypesInv'
  <1> SUFFICES ASSUME TypesInv, [QueuesNext]_queueVars PROVE TypesInv'
    OBVIOUS
  <1>1. PartInv' /\ queue' = queue
    BY PartGoesOn, QueueStays DEF TypesInv
  <1>2. CycleCounts'
    <2>1. CASE UNCHANGED SlowCycle!vars
      BY <2>1 DEF SlowCycle!vars, CycleCounts, SlowCycle!TypeOK, TypesInv
    <2>2. CASE SlowCycle!Next
      BY <2>2, CountsStep DEF TypesInv
    <2>3. QED
      BY <2>1, <2>2, QueueSteps, SlowAsWell
  <1>3. queue = "sources" => TriesCounted'
    BY QueueSteps, TriesStep DEF TypesInv, PartInv
  <1>4. queue = "voices" => HeardHaveJobs'
    BY QueueSteps, HeardStep DEF TypesInv, PartInv
  <1>5. QED
    BY <1>1, <1>2, <1>3, <1>4 DEF TypesInv

(* The rows of sources, voice messages and messages at the edge have the   *)
(* values they are given, no source is claimed more often than retries and *)
(* crashes allow, a transcribed voice had a job, and a process that goes   *)
(* on has failed less often than its limit: worker/service.py,             *)
(* transcription/service.py, telegram-webhook/index.ts and worker/main.py. *)
THEOREM QueuesTyped == QueuesSpec => []QueueTypes
  <1>1. QueuesInit => TypesInv
    BY PartBegins, CountsBegin, TriesBegin, HeardBegin DEF QueuesInit, TypesInv
  <1>2. TypesInv => QueueTypes
    <2>1. SlowCycle!TypeOK => Cycle!TypeOK
      BY DEF SlowCycle!TypeOK, Cycle!TypeOK, SlowCycle!Stages, Cycle!Stages
    <2>2. QED
      BY <2>1, SourcesTyped, EdgeTyped DEF TypesInv, PartInv, CycleCounts, AudioInv, QueueTypes
  <1>3. QED
    BY <1>1, <1>2, TypesGoOn, PTL DEF QueuesSpec
================================================================================
