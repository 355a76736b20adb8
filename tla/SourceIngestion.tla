--------------------------- MODULE SourceIngestion ---------------------------
(***************************************************************************)
(* Sources and their extraction jobs: ingest_transcript stores both in one *)
(* commit, a worker claims the job under a lease, marks the source and     *)
(* asks the model outside any transaction, and one more commit stores what *)
(* was learnt.  Meanwhile the user may delete the source.                  *)
(*                                                                         *)
(* What is learnt is only that there is evidence from the source:          *)
(* FactLedger says what becomes of it.                                     *)
(***************************************************************************)
EXTENDS Integers

CONSTANTS Sources,     (* capture ids                                      *)
          MacWhisper,  (* those whose outcome is told to the user          *)
          Workers,
          NoSource,    (* the source of an idle worker                     *)
          MaxAttempts, (* worker_max_attempts                              *)
          MaxCrashes,  (* bound on crashes and cancelled cycles            *)
          Overrun      (* may a lease run out while its worker is busy?    *)

IngestionAssumption ==
    /\ MacWhisper \subseteq Sources
    /\ NoSource \notin Sources
    /\ MaxAttempts \in Nat \ {0} /\ MaxCrashes \in Nat /\ Overrun \in BOOLEAN

VARIABLES source,   (* [Sources -> row of sources]                         *)
          job,      (* [Sources -> its row of jobs]                        *)
          evidence, (* the sources that rows of evidence refer to          *)
          notices,  (* <<source, outcome>> of the notices queued           *)
          worker, crashes

vars == <<source, job, evidence, notices, worker, crashes>>

(* erased: the transcript is gone and deleted_at is set.                   *)
SourceRow == [status: {"none", "received", "processing", "processed", "failed", "deleted"},
              erased: BOOLEAN]

(* ready stands for queued and retrying.                                   *)
JobRow == [status: {"none", "ready", "running", "completed", "failed"},
           lease: {"none", "held", "lapsed"}, attempts: 0..MaxAttempts + MaxCrashes]

Busy == [source: Sources \cup {NoSource}, phase: {"idle", "claimed", "extracting"}]
Idle == [source |-> NoSource, phase |-> "idle"]

TypeOK ==
    /\ source \in [Sources -> SourceRow]
    /\ job \in [Sources -> JobRow]
    /\ evidence \subseteq Sources
    /\ notices \subseteq MacWhisper \X {"processed", "failed"}
    /\ worker \in [Workers -> Busy]
    /\ crashes \in 0..MaxCrashes

Init ==
    /\ source = [s \in Sources |-> [status |-> "none", erased |-> FALSE]]
    /\ job = [s \in Sources |-> [status |-> "none", lease |-> "none", attempts |-> 0]]
    /\ evidence = {} /\ notices = {}
    /\ worker = [w \in Workers |-> Idle]
    /\ crashes = 0

Release(w) == worker' = [worker EXCEPT ![w] = Idle]
Extracting(s) == \E w \in Workers : worker[w] = [source |-> s, phase |-> "extracting"]
InHand(s) == \E w \in Workers : worker[w].source = s
Tell(s, outcome) == notices' = notices \cup ({<<s, outcome>>} \cap (MacWhisper \X {outcome}))

-----------------------------------------------------------------------------
(* ingest_transcript: a capture that is known is answered, or refused when *)
(* its content differs, and nothing is stored.                             *)
IngestTranscript(s) ==
    /\ source[s].status = "none"
    /\ source' = [source EXCEPT ![s].status = "received"]
    /\ job' = [job EXCEPT ![s].status = "ready"]
    /\ UNCHANGED <<evidence, notices, worker, crashes>>

Claimable(s) == \/ job[s].status = "ready"
                \/ job[s].status = "running" /\ job[s].lease = "lapsed"

(* claim_job: attempts are counted here and compared only in Fail.         *)
ClaimJob(w, s) ==
    /\ worker[w] = Idle
    /\ Claimable(s)
    /\ job' = [job EXCEPT ![s] = [status |-> "running", lease |-> "held",
            attempts |-> @.attempts + 1]]
    /\ worker' = [worker EXCEPT ![w] = [source |-> s, phase |-> "claimed"]]
    /\ UNCHANGED <<source, evidence, notices, crashes>>

-----------------------------------------------------------------------------
(* process_job.                                                            *)

Unavailable_Faulty(s) == source[s].status \in {"none", "deleted"}
Unavailable(s) == source[s].status \in {"none", "deleted"} \/ source[s].erased

Begin(w) ==
    LET s == worker[w].source
    IN /\ worker[w].phase = "claimed"
       /\ \/ /\ Unavailable(s)
             /\ job' = [job EXCEPT ![s].status = "failed"]
             /\ Release(w) /\ UNCHANGED source
          \/ /\ ~Unavailable(s)
             /\ source' = [source EXCEPT ![s].status = "processing"]
             /\ worker' = [worker EXCEPT ![w].phase = "extracting"]
             /\ UNCHANGED job
       /\ UNCHANGED <<evidence, notices, crashes>>

(* One commit, of rows as they were read before the model was asked.       *)
Finish(w) ==
    LET s == worker[w].source
    IN /\ worker[w].phase = "extracting"
       /\ evidence' = evidence \cup {s}
       /\ source' = [source EXCEPT ![s].status = "processed"]
       /\ job' = [job EXCEPT ![s] = [@ EXCEPT !.status = "completed", !.lease = "none"]]
       /\ Tell(s, "processed")
       /\ Release(w)
       /\ UNCHANGED crashes

(* The model, the validation or the commit fails: the rows are read again. *)
(* The notice needs the credential in the metadata, gone when erased.      *)
Fail(w) ==
    LET s == worker[w].source
        retry == job[s].attempts < MaxAttempts
    IN /\ worker[w].phase = "extracting"
       /\ job' = [job EXCEPT ![s] = [@ EXCEPT !.lease = "none",
                !.status = IF retry THEN "ready" ELSE "failed"]]
       /\ source' = [source EXCEPT ![s].status = IF retry THEN "received" ELSE "failed"]
       /\ IF retry \/ source[s].erased THEN UNCHANGED notices ELSE Tell(s, "failed")
       /\ Release(w)
       /\ UNCHANGED <<evidence, crashes>>

-----------------------------------------------------------------------------
(* delete_source, by its owner; a job in progress is set to failed, but    *)
(* nothing stops its worker.                                               *)
DeleteSource(s) ==
    /\ source[s].status \notin {"none", "deleted"}
    /\ source' = [source EXCEPT ![s] = [status |-> "deleted", erased |-> TRUE]]
    /\ evidence' = evidence \ {s}
    /\ job' = [job EXCEPT ![s].status =
            IF @ \in {"ready", "running"} THEN "failed" ELSE @]
    /\ UNCHANGED <<notices, worker, crashes>>

(* The process dies, or asyncio.timeout cancels the cycle.                 *)
Crash(w) ==
    /\ worker[w] # Idle
    /\ crashes < MaxCrashes
    /\ crashes' = crashes + 1
    /\ Release(w)
    /\ UNCHANGED <<source, job, evidence, notices>>

(* Five minutes.                                                           *)
Lapse(s) ==
    /\ job[s].status = "running" /\ job[s].lease = "held"
    /\ Overrun \/ ~InHand(s)
    /\ job' = [job EXCEPT ![s].lease = "lapsed"]
    /\ UNCHANGED <<source, evidence, notices, worker, crashes>>

Step(w) == Begin(w) \/ Finish(w) \/ Fail(w)

Next ==
    \/ \E s \in Sources : IngestTranscript(s) \/ DeleteSource(s) \/ Lapse(s)
    \/ \E w \in Workers : Step(w) \/ Crash(w) \/ \E s \in Sources : ClaimJob(w, s)

Spec == Init /\ [][Next]_vars

(* Every cycle takes the job that has been available longest, and a claim  *)
(* that nobody works on runs out.                                          *)
FairSpec ==
    /\ Spec
    /\ \A w \in Workers : WF_vars(Step(w))
    /\ \A s \in Sources : WF_vars(Lapse(s)) /\ SF_vars(\E w \in Workers : ClaimJob(w, s))

-----------------------------------------------------------------------------
(* Properties.                                                             *)

(* The job and the source tell the client the same, through retries,       *)
(* crashes and lapsed leases, and evidence is that of a processed source.  *)
JobAndSourceAgree ==
    \A s \in Sources : source[s].status # "none" /\ ~source[s].erased =>
        /\ job[s].status = "completed" <=> source[s].status = "processed"
        /\ job[s].status = "failed" <=> source[s].status = "failed"
        /\ s \in evidence <=> source[s].status = "processed"

(* The user is told one outcome of a source, and told of every end that is *)
(* not a deletion.                                                         *)
OneOutcomeTold ==
    \A s \in MacWhisper :
        /\ ~({<<s, "processed">>, <<s, "failed">>} \subseteq notices)
        /\ source[s].status \in {"processed", "failed"} /\ ~source[s].erased =>
                <<s, source[s].status>> \in notices

(* A source that was deleted is not handed to the model again once those   *)
(* who had its transcript are done, although a failure puts the source     *)
(* back to received and its job in the queue.                              *)
ErasedIsNotRead ==
    [][\A s \in Sources : source[s].erased /\ ~Extracting(s) => ~Extracting(s)']_vars

(* Every job ends, completed or failed.                                    *)
JobsSettle ==
    \A s \in Sources : job[s].status = "ready" ~> job[s].status \in {"completed", "failed"}

(* docs/02-ingestion-and-memory.md:68: a deletion makes the content        *)
(* unavailable at once, and a deleted source is no source of evidence.     *)
DeletedIsUnavailable == \A s \in Sources : source[s].erased => s \notin evidence

(* docs/02-ingestion-and-memory.md:112: retries respect the limit of the   *)
(* job.                                                                    *)
AttemptsWithinLimit == \A s \in Sources : job[s].attempts <= MaxAttempts
=============================================================================
