--------------------------- MODULE AudioTranscription ---------------------------
(***************************************************************************)
(* Voice messages: a job per message takes the audio to AssemblyAI in      *)
(* three stages, upload, submit and poll, each claimed on its own under a  *)
(* lease of two minutes and committed before the next; then the message is *)
(* received with its text, or failed with one notice to the user.          *)
(*                                                                         *)
(* provider is AssemblyAI as the client uses it: transcripts that end, and *)
(* that can be deleted.                                                    *)
(***************************************************************************)
EXTENDS Integers, FiniteSets

CONSTANTS Jobs,          (* one per voice message                          *)
          Transcripts,   (* ids the provider gives out: bounds the submits *)
          None,
          Workers,
          MaxAttempts,   (* worker_max_attempts                            *)
          MaxCrashes,    (* bound on crashes and cancelled cycles          *)
          Overrun,       (* may a lease run out while its worker is busy?  *)
          CommitFails    (* may the commit after the cleanup fail?         *)

AudioAssumption ==
    /\ None \notin Jobs \cup Transcripts
    /\ MaxAttempts \in Nat \ {0} /\ MaxCrashes \in Nat
    /\ {Overrun, CommitFails} \subseteq BOOLEAN

VARIABLES job,       (* [Jobs -> row of audio_transcription_jobs]          *)
          message,   (* [Jobs -> the status of its message]                *)
          notices,   (* the jobs whose failure was told                    *)
          provider,  (* [Transcripts -> what it is at the provider]        *)
          worker,    (* [Workers -> the row it claimed and where it is]    *)
          crashes

vars == <<job, message, notices, provider, worker, crashes>>

Stages == {"upload", "submit", "poll"}

(* What the client finds a transcript to be.                               *)
Transcript == {"none", "working", "done", "error", "deleted"}

(* ready stands for queued and retrying.                                   *)
JobRow == [status: {"ready", "running", "completed", "failed"}, stage: Stages,
           lease: {"none", "held", "lapsed"}, attempts: 0..MaxAttempts,
           url: BOOLEAN, transcript: Transcripts \cup {None}]

(* submitted, cleaning: an external call has been made for the row.        *)
Busy == [job: Jobs \cup {None}, stage: Stages, transcript: Transcripts \cup {None},
         phase: {"idle", "claimed", "submitted", "cleaning", "cleaned"}]
Idle == [job |-> None, stage |-> "upload", transcript |-> None, phase |-> "idle"]

TypeOK ==
    /\ job \in [Jobs -> JobRow]
    /\ message \in [Jobs -> {"transcribing", "received", "answered", "failed"}]
    /\ notices \subseteq Jobs
    /\ provider \in [Transcripts -> Transcript]
    /\ worker \in [Workers -> Busy]
    /\ crashes \in 0..MaxCrashes

(* ingest_telegram_voice stores the message and the job in one commit.     *)
Init ==
    /\ job = [j \in Jobs |-> [status |-> "ready", stage |-> "upload", lease |-> "none",
                              attempts |-> 0, url |-> FALSE, transcript |-> None]]
    /\ message = [j \in Jobs |-> "transcribing"]
    /\ notices = {}
    /\ provider = [t \in Transcripts |-> "none"]
    /\ worker = [w \in Workers |-> Idle]
    /\ crashes = 0

Release(w) == worker' = [worker EXCEPT ![w] = Idle]
At(w, stage) == worker[w].phase = "claimed" /\ worker[w].stage = stage
InHand(j) == \E w \in Workers : worker[w].job = j

Claimable(j) == \/ job[j].status = "ready"
                \/ job[j].status = "running" /\ job[j].lease = "lapsed"

(* claim_audio_transcription_job: attempts are not counted here.           *)
ClaimJob(w, j) ==
    /\ worker[w] = Idle /\ Claimable(j)
    /\ job' = [job EXCEPT ![j].status = "running", ![j].lease = "held"]
    /\ worker' = [worker EXCEPT ![w] = [job |-> j, stage |-> job[j].stage,
            transcript |-> job[j].transcript, phase |-> "claimed"]]
    /\ UNCHANGED <<message, notices, provider, crashes>>

-----------------------------------------------------------------------------
(* process_audio_transcription_job.                                        *)

Requeued(j, row) == [job EXCEPT ![j] = [row EXCEPT !.status = "ready", !.lease = "none"]]

Upload(w) ==
    LET j == worker[w].job
    IN /\ At(w, "upload") /\ message[j] # "failed"
       /\ job' = Requeued(j, [job[j] EXCEPT !.stage = "submit", !.url = TRUE])
       /\ Release(w)
       /\ UNCHANGED <<message, notices, provider, crashes>>

CallSubmit(w, t) ==
    /\ At(w, "submit") /\ message[worker[w].job] # "failed"
    /\ provider[t] = "none"
    /\ provider' = [provider EXCEPT ![t] = "working"]
    /\ worker' = [worker EXCEPT ![w].phase = "submitted", ![w].transcript = t]
    /\ UNCHANGED <<job, message, notices, crashes>>

SaveSubmit(w) ==
    LET j == worker[w].job
    IN /\ worker[w].phase = "submitted"
       /\ job' = Requeued(j, [job[j] EXCEPT !.stage = "poll", !.transcript = worker[w].transcript])
       /\ Release(w)
       /\ UNCHANGED <<message, notices, provider, crashes>>

PollAgain(w) ==
    LET j == worker[w].job
    IN /\ At(w, "poll") /\ message[j] # "failed"
       /\ provider[worker[w].transcript] = "working"
       /\ job' = Requeued(j, job[j])
       /\ Release(w)
       /\ UNCHANGED <<message, notices, provider, crashes>>

(* The text becomes the content of the message, whatever its status was.   *)
Transcribe(w) ==
    LET j == worker[w].job
    IN /\ At(w, "poll") /\ message[j] # "failed"
       /\ provider[worker[w].transcript] = "done"
       /\ message' = [message EXCEPT ![j] = "received"]
       /\ job' = [job EXCEPT ![j] = [@ EXCEPT !.status = "completed", !.lease = "none"]]
       /\ worker' = [worker EXCEPT ![w].phase = "cleaning"]
       /\ UNCHANGED <<notices, provider, crashes>>

(* delete_transcript succeeds, or its failure is logged and that is all.   *)
DeleteTranscript(w) ==
    /\ worker[w].phase = "cleaning"
    /\ \/ /\ provider' = [provider EXCEPT ![worker[w].transcript] = "deleted"]
          /\ worker' = [worker EXCEPT ![w].phase = "cleaned"]
       \/ Release(w) /\ UNCHANGED provider
    /\ UNCHANGED <<job, message, notices, crashes>>

SaveCleanup(w) ==
    /\ worker[w].phase = "cleaned"
    /\ job' = [job EXCEPT ![worker[w].job].url = FALSE]
    /\ Release(w)
    /\ UNCHANGED <<message, notices, provider, crashes>>

(* What no retry mends: limits of size and length, no speech, an error of  *)
(* the provider, a transcript it no longer has.                            *)
Permanent(w) ==
    \/ At(w, "upload")
    \/ worker[w].phase = "claimed" /\ message[worker[w].job] = "failed"
    \/ At(w, "poll") /\ provider[worker[w].transcript] \in {"done", "error", "deleted"}

(* The message fails and one notice is queued, whatever fails again.       *)
PersistFailure(j) ==
    /\ message' = [message EXCEPT ![j] = "failed"]
    /\ notices' = notices \cup {j}

(* _handle_failure, of a row read again, and _persist_terminal_failure,    *)
(* whose notice is queued once.                                            *)
HandleFailure_Faulty(w, transient) ==
    LET j == worker[w].job
        retry == transient /\ job[j].attempts + 1 < MaxAttempts
    IN /\ job' = [job EXCEPT ![j] = [@ EXCEPT !.lease = "none", !.attempts = @ + 1,
                !.status = IF retry THEN "ready" ELSE "failed"]]
       /\ message' = [message EXCEPT ![j] = "failed"]
       /\ notices' = IF retry THEN notices ELSE notices \cup {j}
       /\ Release(w)
       /\ UNCHANGED <<provider, crashes>>

HandleFailure(w, transient) ==
    LET j == worker[w].job
        retry == transient /\ job[j].attempts + 1 < MaxAttempts
    IN /\ job' = [job EXCEPT ![j] = [job[j] EXCEPT !.lease = "none",
                !.attempts = IF @ < MaxAttempts THEN @ + 1 ELSE @,
                !.status = IF retry THEN "ready" ELSE "failed"]]
       /\ IF retry THEN UNCHANGED <<message, notices>> ELSE PersistFailure(j)
       /\ Release(w)
       /\ UNCHANGED <<provider, crashes>>

(* An outage, before or after the provider has done what it was asked, or  *)
(* a failed commit.                                                        *)
Fail(w) ==
    \/ /\ worker[w].phase \in {"claimed", "submitted"}
       /\ HandleFailure(w, TRUE)
    \/ Permanent(w) /\ HandleFailure(w, FALSE)
    \/ CommitFails /\ worker[w].phase = "cleaned" /\ HandleFailure(w, TRUE)

-----------------------------------------------------------------------------
Crash(w) ==
    /\ worker[w] # Idle /\ crashes < MaxCrashes
    /\ crashes' = crashes + 1
    /\ Release(w)
    /\ UNCHANGED <<job, message, notices, provider>>

Lapse(j) ==
    /\ job[j].status = "running" /\ job[j].lease = "held"
    /\ Overrun \/ ~InHand(j)
    /\ job' = [job EXCEPT ![j].lease = "lapsed"]
    /\ UNCHANGED <<message, notices, provider, worker, crashes>>

ProviderEnds(t) ==
    /\ provider[t] = "working"
    /\ provider' \in {[provider EXCEPT ![t] = "done"], [provider EXCEPT ![t] = "error"]}
    /\ UNCHANGED <<job, message, notices, worker, crashes>>

(* The agent answers the message: ChannelPipeline.                         *)
AnswerMessage(j) ==
    /\ message[j] = "received"
    /\ message' = [message EXCEPT ![j] = "answered"]
    /\ UNCHANGED <<job, notices, provider, worker, crashes>>

Step(w) ==
    \/ Upload(w) \/ SaveSubmit(w) \/ PollAgain(w) \/ Transcribe(w)
    \/ DeleteTranscript(w) \/ SaveCleanup(w) \/ Fail(w)
    \/ \E t \in Transcripts : CallSubmit(w, t)

Next ==
    \/ \E w \in Workers : Step(w) \/ Crash(w) \/ \E j \in Jobs : ClaimJob(w, j)
    \/ \E j \in Jobs : Lapse(j) \/ AnswerMessage(j)
    \/ \E t \in Transcripts : ProviderEnds(t)

Spec == Init /\ [][Next]_vars

(* The claims take the job that has waited longest; the provider ends its  *)
(* transcripts.                                                            *)
FairSpec ==
    /\ Spec
    /\ \A w \in Workers : WF_vars(Step(w))
    /\ \A j \in Jobs : WF_vars(Lapse(j)) /\ SF_vars(\E w \in Workers : ClaimJob(w, j))
    /\ \A t \in Transcripts : WF_vars(ProviderEnds(t))

-----------------------------------------------------------------------------
(* Properties.                                                             *)

(* The message waits in the order of its conversation exactly as long as   *)
(* its job is not over, and a failure is told exactly when there is one.   *)
OutcomeShown ==
    \A j \in Jobs :
        /\ message[j] = "transcribing" <=> job[j].status \in {"ready", "running"}
        /\ message[j] \in {"received", "answered"} <=> job[j].status = "completed"
        /\ message[j] = "failed" <=> j \in notices

(* Each stage resumes from what the one before has committed, and two      *)
(* messages never get the text of one transcript.                          *)
StagesResume ==
    \A j \in Jobs :
        /\ job[j].stage = "submit" => job[j].url
        /\ job[j].stage = "poll" => job[j].transcript # None
        /\ \A k \in Jobs \ {j} : job[j].transcript # None => job[j].transcript # job[k].transcript

(* Transient failures are counted over all the stages, and end.            *)
VoiceSettles == \A j \in Jobs : message[j] = "transcribing" ~> message[j] # "transcribing"

(* docs/14-telegram-voice-transcription.md:25: a message is transcribed    *)
(* once: it does not come back to the agent, nor fail, when it was ready.  *)
TranscribedOnce ==
    [][\A j \in Jobs : message[j] = "received" => message'[j] \in {"received", "answered"}]_vars

(* docs/14-telegram-voice-transcription.md:25: nor when it was answered.   *)
AnsweredOnce ==
    [][\A j \in Jobs : message[j] = "answered" => message'[j] = "answered"]_vars

(* docs/14-telegram-voice-transcription.md:62: the provider keeps nothing  *)
(* of a message that was transcribed.                                      *)
NothingLeft ==
    \A j \in Jobs : job[j].status = "completed" /\ ~InHand(j) =>
        ~job[j].url /\ provider[job[j].transcript] = "deleted"
=============================================================================
