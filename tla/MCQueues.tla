------------------------------- MODULE MCQueues -------------------------------
(* Small instances of what must go on whatever crashes, in one model: the  *)
(* entrance of messages, the queues of the worker, its cycle, and what     *)
(* waits for the user.  A behaviour runs the one part its first state      *)
(* names and leaves the others as they begin: their sum, not their         *)
(* product, is checked.  The names are those of no other suite, so that    *)
(* one module may extend several.                                          *)
EXTENDS Naturals, Sequences, FiniteSets, TLC

CONSTANTS Nothing, MaxTries, MaxStops,
          Extractors, Sources, SlowSources, Announced,                 \* sources
          Listeners, VoiceJobs, Transcripts, FewTranscripts,           \* voice messages
          EdgeMessages, EdgeVoices, Instances, MaxFaults, MaxRefusals, \* the edge
          LastStage, ScanStages, MaxFailed                             \* the cycle

VARIABLES queue,
          pRow, pSettled, pAck, pDep, pWorker, pDelivered, pCrashes,
          sSource, sJob, sEvidence, sNotices, sWorker, sCrashes,
          aJob, aMessage, aNotices, aProvider, aWorker, aCrashes,
          eActive, eConversation, eStored, eArrived, eJobs, eReq, eAcked, eFaults,
          wUp, wWaiting, wStage, wDue, wScanning, wRan, wFailures, wCauses, wExited,
          xTask, xAttempts, xAt, xDone, xExecutions, xActions, xPendings, xLapsed,
          xLapsing, xMessage, xAsked, xAccount, xGrant, xCall, xReached,
          xSent, xCrashes,
          bRow, bRecent, bTries, bValidating, bClosed, bLate, bSnap, bOff, bWrite,
          bCalling, bReached, bSent, bCrashes,
          mRow, mSearch

inbound == <<pRow, pSettled, pAck, pDep, pWorker, pDelivered, pCrashes>>
sources == <<sSource, sJob, sEvidence, sNotices, sWorker, sCrashes>>
audio == <<aJob, aMessage, aNotices, aProvider, aWorker, aCrashes>>
edge == <<eActive, eConversation, eStored, eArrived, eJobs, eReq, eAcked,
          eFaults>>
cycle == <<wUp, wWaiting, wStage, wDue, wScanning, wRan, wFailures, wCauses,
           wExited>>
actions == <<xTask, xAttempts, xAt, xDone, xExecutions, xActions, xPendings,
             xLapsed, xLapsing, xMessage, xAsked, xAccount, xGrant, xCall,
             xReached, xSent, xCrashes>>
bitrix == <<bRow, bRecent, bTries, bValidating, bClosed, bLate, bSnap, bOff,
            bWrite, bCalling, bReached, bSent, bCrashes>>
listing == <<mRow, mSearch>>
queueVars == <<queue, inbound, sources, audio, edge, cycle, actions, bitrix, listing>>

(* One message for two workers, whose jobs are tried twice.                *)
Pipeline == INSTANCE ChannelPipeline WITH
    row <- pRow, settled <- pSettled, ack <- pAck, dep <- pDep,
    worker <- pWorker, delivered <- pDelivered, crashes <- pCrashes,
    Messages <- 1..1, Workers <- 1..2, NoJob <- Nothing,
    MaxAttempts <- [k \in {"message", "task", "reply", "result"} |-> 2],
    MaxCrashes <- 1, Overrun <- FALSE

(* Sources, the outcome of some of which is told to the user; and some     *)
(* whose worker may lose its lease as it works.                            *)
Ingestion == INSTANCE SourceIngestion WITH
    source <- sSource, job <- sJob, evidence <- sEvidence,
    notices <- sNotices, worker <- sWorker, crashes <- sCrashes,
    MacWhisper <- Announced, Workers <- Extractors,
    NoSource <- Nothing, MaxAttempts <- MaxTries, MaxCrashes <- MaxStops, Overrun <- FALSE
Overextended == INSTANCE SourceIngestion WITH
    source <- sSource, job <- sJob, evidence <- sEvidence,
    notices <- sNotices, worker <- sWorker, crashes <- sCrashes,
    Sources <- SlowSources, MacWhisper <- Announced \cap SlowSources, Workers <- Extractors,
    NoSource <- Nothing, MaxAttempts <- MaxTries, MaxCrashes <- MaxStops, Overrun <- TRUE

(* Voice messages: each with transcripts to spare, or with fewer of them   *)
(* and crashes.  Both are of AnyAudio, which has the one and the other.    *)
AnyAudio == INSTANCE AudioTranscription WITH
    job <- aJob, message <- aMessage, notices <- aNotices,
    provider <- aProvider, worker <- aWorker, crashes <- aCrashes,
    Jobs <- VoiceJobs, Workers <- Listeners, MaxAttempts <- MaxTries,
    MaxCrashes <- MaxStops, Overrun <- FALSE, CommitFails <- FALSE, None <- Nothing
Audio == INSTANCE AudioTranscription WITH
    job <- aJob, message <- aMessage, notices <- aNotices,
    provider <- aProvider, worker <- aWorker, crashes <- aCrashes,
    Jobs <- VoiceJobs, Workers <- Listeners, MaxAttempts <- MaxTries,
    MaxCrashes <- 0, Overrun <- FALSE, CommitFails <- FALSE, None <- Nothing
CrashingAudio == INSTANCE AudioTranscription WITH
    job <- aJob, message <- aMessage, notices <- aNotices,
    provider <- aProvider, worker <- aWorker, crashes <- aCrashes,
    Jobs <- VoiceJobs, Transcripts <- FewTranscripts,
    Workers <- Listeners, MaxAttempts <- MaxTries, MaxCrashes <- MaxStops, Overrun <- FALSE,
    CommitFails <- FALSE, None <- Nothing

(* Messages at the edge, for instances of which some may end at any point; *)
(* and, for one, texts and voices whose jobs may be refused.               *)
Texts == INSTANCE EdgeIngress WITH
    active <- eActive, conversation <- eConversation, stored <- eStored,
    arrived <- eArrived, jobs <- eJobs, req <- eReq, acked <- eAcked,
    faults <- eFaults,
    Messages <- EdgeMessages, Voices <- {}, Requests <- Instances,
    Crashes <- TRUE, JobFails <- FALSE, None <- Nothing
VoiceMessages == INSTANCE EdgeIngress WITH
    active <- eActive, conversation <- eConversation, stored <- eStored,
    arrived <- eArrived, jobs <- eJobs, req <- eReq, acked <- eAcked,
    faults <- eFaults,
    Messages <- EdgeMessages, Voices <- EdgeVoices, Requests <- {1},
    Crashes <- FALSE, JobFails <- TRUE, MaxFaults <- MaxRefusals, None <- Nothing

(* The stages of a cycle, of which some are scans; where jobs are slow,    *)
(* they may make the cycle time out.                                       *)
Cycle == INSTANCE WorkerCycle WITH
    up <- wUp, waiting <- wWaiting, stage <- wStage, due <- wDue,
    scanning <- wScanning, ran <- wRan, failures <- wFailures,
    causes <- wCauses, exited <- wExited,
    Last <- LastStage, Scans <- ScanStages, MaxFailures <- MaxFailed, Slow <- FALSE
SlowCycle == INSTANCE WorkerCycle WITH
    up <- wUp, waiting <- wWaiting, stage <- wStage, due <- wDue,
    scanning <- wScanning, ran <- wRan, failures <- wFailures,
    causes <- wCauses, exited <- wExited,
    Last <- LastStage, Scans <- ScanStages, MaxFailures <- MaxFailed, Slow <- TRUE

(* A task that reads and writes, and two links to Bitrix24.                *)
Actions == INSTANCE ExternalActions WITH
    task <- xTask, attempts <- xAttempts, at <- xAt, done <- xDone,
    executions <- xExecutions, actions <- xActions, pendings <- xPendings,
    lapsed <- xLapsed, lapsing <- xLapsing, message <- xMessage,
    asked <- xAsked, account <- xAccount, grant <- xGrant, call <- xCall,
    reached <- xReached, sent <- xSent, crashes <- xCrashes,
    Workers <- {"w"}, Turn <- "turn", CallIds <- {"c"}, Reads <- {"r"},
    Writes <- {"x"}, Scheduled <- FALSE, MaxWrites <- 0, MaxAttempts <- 1,
    Overrun <- FALSE, MaxCrashes <- 1, MaxSent <- 1, None <- Nothing
Bitrix == INSTANCE BitrixConnections WITH
    row <- bRow, recent <- bRecent, tries <- bTries,
    validating <- bValidating, closed <- bClosed, late <- bLate,
    snap <- bSnap, off <- bOff, write <- bWrite, calling <- bCalling,
    reached <- bReached, sent <- bSent, crashes <- bCrashes,
    MaxLinks <- 2, MaxTries <- 2, Tasks <- {"t"}, Writes <- {},
    Overlap <- FALSE, MaxCrashes <- 0, None <- Nothing

(* A client that asks for all the pages of a listing.                      *)
Search == INSTANCE MemorySearch WITH
    row <- mRow, search <- mSearch,
    Rows <- 1..4, Facts <- {1, 3}, Words <- {}, Recognised <- {},
    HasWord <- [r \in 1..4 |-> {}], Queries <- {{}}, Limit <- 1

ASSUME QueueAssumptions ==
    /\ Pipeline!PipelineAssumption
    /\ Ingestion!IngestionAssumption /\ Overextended!IngestionAssumption
    /\ AnyAudio!AudioAssumption /\ FewTranscripts \subseteq Transcripts
    /\ Texts!IngressAssumption /\ VoiceMessages!IngressAssumption
    /\ Cycle!CycleAssumption /\ SlowCycle!CycleAssumption
    /\ Actions!ActionsAssumption /\ Bitrix!BitrixAssumption
    /\ Search!SearchAssumption

-----------------------------------------------------------------------------
Parts == {"pipeline", "sources", "overrun", "audio", "crash", "texts", "voices", "cycle",
          "slow cycle", "actions", "bitrix", "search"}

QueuesInit ==
    /\ queue \in Parts
    /\ Pipeline!Init /\ Cycle!Init /\ Actions!Init /\ Bitrix!Init /\ Search!Init /\ AnyAudio!Init
    /\ IF queue = "overrun" THEN Overextended!Init ELSE Ingestion!Init
    /\ IF queue = "voices" THEN VoiceMessages!Init ELSE Texts!Init

(* The part that runs leaves what belongs to the others.                   *)
Rest ==
    /\ UNCHANGED queue
    /\ IF queue = "pipeline" THEN TRUE ELSE UNCHANGED inbound
    /\ IF queue \in {"sources", "overrun"} THEN TRUE ELSE UNCHANGED sources
    /\ IF queue \in {"audio", "crash"} THEN TRUE ELSE UNCHANGED audio
    /\ IF queue \in {"texts", "voices"} THEN TRUE ELSE UNCHANGED edge
    /\ IF queue \in {"cycle", "slow cycle"} THEN TRUE ELSE UNCHANGED cycle
    /\ IF queue = "actions" THEN TRUE ELSE UNCHANGED actions
    /\ IF queue = "bitrix" THEN TRUE ELSE UNCHANGED bitrix
    /\ IF queue = "search" THEN TRUE ELSE UNCHANGED listing

Working == queue = "pipeline" /\ Pipeline!Next /\ Rest
Extracting == queue = "sources" /\ Ingestion!Next /\ Rest
ExtractingOn == queue = "overrun" /\ Overextended!Next /\ Rest
Transcribing == queue = "audio" /\ Audio!Next /\ Rest
TranscribingAgain == queue = "crash" /\ CrashingAudio!Next /\ Rest
Receiving == queue = "texts" /\ Texts!Next /\ Rest
ReceivingVoice == queue = "voices" /\ VoiceMessages!Next /\ Rest
Cycling == queue = "cycle" /\ Cycle!Next /\ Rest
CyclingSlowly == queue = "slow cycle" /\ SlowCycle!Next /\ Rest
Acting == queue = "actions" /\ Actions!Next /\ Rest
Connecting == queue = "bitrix" /\ Bitrix!Next /\ Rest
Searching == queue = "search" /\ Search!Next /\ Rest

QueuesNext ==
    \/ Working \/ Extracting \/ ExtractingOn \/ Transcribing \/ TranscribingAgain
    \/ Receiving \/ ReceivingVoice \/ Cycling \/ CyclingSlowly \/ Acting \/ Connecting
    \/ Searching

QueuesSpec == QueuesInit /\ [][QueuesNext]_queueVars

-----------------------------------------------------------------------------
(* Fairness: what each component assumes.  Conditions of different parts   *)
(* share a number, as only one of them runs: each number is a condition on *)
(* the one action of that part.                                            *)

PipelineKinds == <<"message", "task", "reply", "result">>
Calls == <<<<"c", "r">>, <<"c", "x">>>>

(* A worker, or an instance at the edge, that has not ended goes on.       *)
GoesOn(i) ==
    /\ \/ queue = "pipeline" /\ i \in 1..2 /\ Pipeline!Step(i)
       \/ queue = "sources" /\ i \in Extractors /\ Ingestion!Step(i)
       \/ queue = "audio" /\ i \in Listeners /\ Audio!Step(i)
       \/ queue = "crash" /\ i \in Listeners /\ CrashingAudio!Step(i)
       \/ queue = "texts" /\ i \in Instances /\ Texts!Step(i)
       \/ i = 1 /\ \/ queue = "voices" /\ VoiceMessages!Step(1)
                   \/ queue = "cycle" /\ Cycle!Worker
                   \/ queue = "actions" /\ Actions!Run("w")
                   \/ queue = "bitrix" /\ (Bitrix!Connect("t") \/ Bitrix!Disconnect("t"))
                   \/ queue = "search" /\ Search!SearchMemory
    /\ Rest

(* Leases and intervals run out, and the worker handles what was received. *)
Elapses(i) ==
    /\ \/ queue = "pipeline" /\ i \in 1..4 /\ Pipeline!Lapse(<<PipelineKinds[i], 1>>)
       \/ queue = "sources" /\ i \in Sources /\ Ingestion!Lapse(i)
       \/ queue = "crash" /\ i \in VoiceJobs /\ CrashingAudio!Lapse(i)
       \/ queue = "texts" /\ i \in EdgeMessages /\ Texts!Handle(i)
       \/ queue = "voices" /\ i \in EdgeMessages /\ VoiceMessages!Handle(i)
       \/ queue = "cycle" /\ i \in ScanStages /\ Cycle!Tick(i)
       \/ queue = "actions" /\ i \in 1..2 /\ Actions!Lapse(Calls[i])
       \/ queue = "bitrix" /\ i \in 1..2 /\ Bitrix!Lapse(i)
    /\ Rest

Confirming == Actions!BeginConfirm \/ Actions!ConfirmInVain \/ Actions!AnswerConfirm

(* The provider ends a transcript, a job is worked off, and the user, or   *)
(* the scan of the pending actions that lapsed, answers.                   *)
Answers(i) ==
    /\ \/ queue = "audio" /\ i \in Transcripts /\ Audio!ProviderEnds(i)
       \/ queue = "crash" /\ i \in FewTranscripts /\ CrashingAudio!ProviderEnds(i)
       \/ queue = "voices" /\ i \in EdgeVoices /\ VoiceMessages!Transcribe(i)
       \/ queue = "actions" /\ \/ i \in 1..2 /\ Actions!MarkLapsed(Calls[i])
                               \/ i \in 3..4 /\ Actions!Reconcile(Calls[i - 2])
                               \/ i = 5 /\ Confirming
    /\ Rest

(* Every cycle takes of each queue what has waited longest, Telegram goes  *)
(* on delivering, a run concludes, and connections are looked through.     *)
IsTaken(i) ==
    /\ \/ queue = "pipeline" /\ i \in 1..4
                /\ \E w \in 1..2 : Pipeline!Claim(w, <<PipelineKinds[i], 1>>)
       \/ queue = "sources" /\ i \in Sources /\ \E w \in Extractors : Ingestion!ClaimJob(w, i)
       \/ queue \in {"audio", "crash"} /\ i \in VoiceJobs
                /\ \E w \in Listeners : Audio!ClaimJob(w, i)
       \/ queue \in {"texts", "voices"} /\ i \in EdgeMessages
                /\ \E r \in DOMAIN eReq : Texts!Deliver(r, i)
       \/ i = 1 /\ \/ queue = "actions" /\ Actions!Conclude("w")
                   \/ queue = "bitrix" /\ Bitrix!ExpireStale
    /\ Rest

(* A member of any of the sets may have a condition; the instances that    *)
(* TLC checks use the same numbers for the members of all.                 *)
Workers == Extractors \cup Listeners \cup Instances
Works == Sources \cup VoiceJobs \cup EdgeMessages \cup ScanStages
Endings == Transcripts \cup EdgeVoices

QueuesFairSpec ==
    /\ QueuesSpec
    /\ \A i \in Workers \cup 1..2 : WF_queueVars(GoesOn(i))
    /\ \A i \in Works \cup 1..4 : WF_queueVars(Elapses(i)) /\ SF_queueVars(IsTaken(i))
    /\ \A i \in Endings \cup 1..5 : WF_queueVars(Answers(i))

-----------------------------------------------------------------------------
(* Properties.                                                             *)

(* The values of the records of sources, voice messages, the edge and the  *)
(* cycle.  Those of the other parts are instances of what the runs of      *)
(* MCChannelPipeline, MCIntegrations and MCMemory check.                   *)
QueueTypes ==
    /\ queue = "sources" => Ingestion!TypeOK
    /\ queue \in {"audio", "crash"} => AnyAudio!TypeOK
    /\ queue = "texts" => Texts!TypeOK
    /\ queue = "voices" => VoiceMessages!TypeOK
    /\ queue = "cycle" => Cycle!TypeOK
    /\ queue = "slow cycle" => SlowCycle!TypeOK

(* The rows of one piece of work tell the same of it, through retries,     *)
(* crashes and lapsed leases: a source and its job, a voice message and    *)
(* its job; the user is told one outcome, and told of every failure; what  *)
(* was delivered again has one row, and has one when Telegram forgets it.  *)
RowsAgree ==
    /\ queue = "sources" => Ingestion!JobAndSourceAgree /\ Ingestion!OneOutcomeTold
    /\ queue \in {"audio", "crash"} => AnyAudio!OutcomeShown /\ AnyAudio!StagesResume
    /\ queue = "texts" => Texts!OneRow /\ Texts!AcknowledgedIsKept
    /\ queue = "voices" => VoiceMessages!OneRow /\ VoiceMessages!AcknowledgedIsKept

(* A deleted source is not handed to the model again, although a failure   *)
(* puts its job back in the queue; and a scan is taken for done only after *)
(* the cycle has gone through it, although a cycle may fail on the way.    *)
DoneIsDone == Overextended!ErasedIsNotRead /\ SlowCycle!ScanIsDone

(* Everything ends, whatever crashes, is refused or is lost: the tasks and *)
(* the replies of a conversation, the extraction of a source, a voice      *)
(* message, what an active user sends, a task with calls and pending       *)
(* actions, a token that nobody confirms, the pages of a search; while the *)
(* database answers, every stage is served, and while it does not, the     *)
(* worker does not go on for ever.  These are the liveness properties of   *)
(* the components, in one form.                                            *)
Unsettled(i) ==
    \/ queue = "pipeline" /\ i = 1 /\ Pipeline!Exists(<<"task", 1>>)
            /\ pRow[<<"task", 1>>].status \notin {"waiting", "done", "failed"}
    \/ queue = "pipeline" /\ i = 2 /\ Pipeline!Exists(<<"reply", 1>>)
            /\ pRow[<<"reply", 1>>].status \notin {"done", "failed"}
    \/ queue = "sources" /\ i \in Sources /\ sJob[i].status \in {"ready", "running"}
    \/ queue \in {"audio", "crash"} /\ i \in VoiceJobs /\ aMessage[i] = "transcribing"
    \/ queue \in {"texts", "voices"} /\ i \in EdgeMessages /\ eActive /\ eStored[i] # "handled"
    \/ queue = "actions" /\ i = 1 /\ xTask \notin {"completed", "failed", "cancelled"}
    \/ queue = "bitrix" /\ i \in 1..2 /\ bRow[i].held /\ bRow[i].status = "awaiting_confirmation"
    \/ queue = "search" /\ i = 1 /\ mSearch.phase # "done"
    \/ queue = "cycle" /\ i \in 1..LastStage /\ wUp /\ i \in wWaiting
    \/ queue = "cycle" /\ i = LastStage + 1 /\ ~wUp /\ ~wExited

EverythingSettles ==
    \A i \in Works \cup 1..LastStage + 1 : Unsettled(i) ~> ~Unsettled(i)
=============================================================================
