--------------------------- MODULE ChannelPipeline ---------------------------
(***************************************************************************)
(* One conversation through the worker's queues: the inbound messages, the *)
(* orchestration task a message may be delegated to, and the outbox rows   *)
(* of the immediate reply (the acknowledgment, if there is a task) and of  *)
(* the task's result.                                                      *)
(*                                                                         *)
(* The rows of channel_messages, orchestration_tasks and outbox_messages   *)
(* are claimed the same way: one transaction takes a row that is ready, or *)
(* taken under a lease that has run out, and commits the lease; the work   *)
(* is done outside that transaction, over several commits; a last          *)
(* transaction closes the row without looking at who holds it by then.     *)
(* Workers may crash, or have their cycle cancelled, between any two of    *)
(* those commits.                                                          *)
(***************************************************************************)
EXTENDS Integers

CONSTANTS Messages,      (* inbound messages, numbered by created_at       *)
          Workers,       (* worker processes                               *)
          NoJob,         (* the job of an idle worker                      *)
          MaxAttempts,   (* [Kinds -> max_attempts of that queue]          *)
          MaxCrashes,    (* bound on crashes and cancelled cycles          *)
          Overrun        (* may a lease run out while its worker is busy?  *)

ASSUME PipelineAssumption ==
    /\ Messages \subseteq Nat \ {0}
    /\ MaxCrashes \in Nat
    /\ Overrun \in BOOLEAN

Kinds == {"message", "task", "reply", "result"}
Jobs == Kinds \X Messages
Outbox == {"reply", "result"} \X Messages

ASSUME JobAssumption == NoJob \notin Jobs /\ MaxAttempts \in [Kinds -> Nat \ {0}]

VARIABLES row,        (* [Jobs -> row of the job's table]                  *)
          settled,    (* [Messages -> AgentRun "conversation" completed?]  *)
          ack,        (* [Messages -> task.ack_outbox_id is set?]          *)
          dep,        (* [Messages -> the result's depends_on is set?]     *)
          worker,     (* [Workers -> what a worker is doing]               *)
          delivered,  (* observation: sends the channel accepted, 2 = more *)
          crashes

vars == <<row, settled, ack, dep, worker, delivered, crashes>>

(* ready stands for received, queued, pending and retrying; taken for      *)
(* processing, running and sending; waiting for waiting_confirmation; done *)
(* for completed, cancelled and sent.  attempts stops at the row's         *)
(* max_attempts, the only value it is compared with.                       *)
Row == [status: {"none", "transcribing", "ready", "taken", "waiting", "done", "failed"},
        attempts: Nat, lease: {"none", "held", "lapsed"}]

(* phase is how far the job at hand has got.  known is what the worker's   *)
(* session has read and will write from: for a task, that                  *)
(* task.ack_outbox_id was set when it was claimed; for a message, that it  *)
(* had a task when the agent's run was settled.                            *)
WorkerState == [job: Jobs \cup {NoJob},
                phase: {"idle", "claimed", "routing", "delegated", "answered", "sent"},
                known: BOOLEAN]

NoRow == [status |-> "none", attempts |-> 0, lease |-> "none"]
NewRow == [NoRow EXCEPT !.status = "ready"]
Idle == [job |-> NoJob, phase |-> "idle", known |-> FALSE]

TypeOK ==
    /\ row \in [Jobs -> Row]
    /\ \A j \in Jobs : row[j].attempts <= MaxAttempts[j[1]]
    /\ settled \in [Messages -> BOOLEAN]
    /\ ack \in [Messages -> BOOLEAN] /\ dep \in [Messages -> BOOLEAN]
    /\ worker \in [Workers -> WorkerState]
    /\ \A w \in Workers : worker[w].phase = "idle" <=> worker[w].job = NoJob
    /\ delivered \in [Outbox -> 0..2]
    /\ crashes \in 0..MaxCrashes

Init ==
    /\ row = [j \in Jobs |-> NoRow]
    /\ settled = [m \in Messages |-> FALSE]
    /\ ack = [m \in Messages |-> FALSE] /\ dep = [m \in Messages |-> FALSE]
    /\ worker = [w \in Workers |-> Idle]
    /\ delivered = [j \in Outbox |-> 0]
    /\ crashes = 0

Exists(j) == row[j].status # "none"
Closed(j, status) == [row[j] EXCEPT !.status = status, !.lease = "none"]
Release(w) == worker' = [worker EXCEPT ![w] = Idle]

-----------------------------------------------------------------------------
(* Arrival.                                                                *)

(* The webhook stores a message once; a voice message is transcribed first *)
(* and keeps its place in the conversation meanwhile.                      *)
Arrive(m, status) ==
    /\ ~Exists(<<"message", m>>)
    /\ \A e \in Messages : e < m => Exists(<<"message", e>>)
    /\ status \in {"ready", "transcribing"}
    /\ row' = [row EXCEPT ![<<"message", m>>].status = status]
    /\ UNCHANGED <<settled, ack, dep, worker, delivered, crashes>>

(* The transcription job ends with the text, or with a message that says   *)
(* it failed.                                                              *)
Transcribed(m) ==
    /\ row[<<"message", m>>].status = "transcribing"
    /\ \/ row' = [row EXCEPT ![<<"message", m>>].status = "ready"]
       \/ row' = [row EXCEPT ![<<"message", m>>].status = "failed",
                             ![<<"reply", m>>] = NewRow]
    /\ UNCHANGED <<settled, ack, dep, worker, delivered, crashes>>

-----------------------------------------------------------------------------
(* Claiming.                                                               *)

Unfinished(m) == row[<<"message", m>>].status \in {"transcribing", "ready", "taken"}

(* Definitions named ..._Faulty or ..._Dropped are plausible mistakes in   *)
(* the definition that follows; no action uses them, the properties are    *)
(* shown to fail when one is put in its place.                             *)
Available_Faulty(j) == row[j].status \in {"ready", "taken"}
Available_Dropped(j) == row[j].status = "ready"
Available(j) == \/ row[j].status = "ready"
                \/ row[j].status = "taken" /\ row[j].lease = "lapsed"

Claimable_Faulty(j) ==
    /\ Available(j)
    /\ \A m \in Messages : j = <<"message", m>> =>
            \A e \in Messages : e < m => ~Unfinished(e)

(* A message waits for the earlier ones of its conversation, a result for  *)
(* the reply it depends on.                                                *)
Claimable(j) ==
    /\ Available(j)
    /\ \A m \in Messages : j = <<"message", m>> =>
            \A e \in Messages : e < m => ~Unfinished(e)
    /\ \A m \in Messages : j = <<"result", m>> =>
            (dep[m] => row[<<"reply", m>>].status = "done")

MayRetry_Faulty(j) == row[j].attempts <= MaxAttempts[j[1]]
MayRetry(j) == row[j].attempts < MaxAttempts[j[1]]
CountAttempt(j) == IF MayRetry(j) THEN row[j].attempts + 1 ELSE row[j].attempts

Claim(w, j) ==
    /\ worker[w] = Idle
    /\ Claimable(j)
    /\ row' = [row EXCEPT ![j] = [status |-> "taken", lease |-> "held",
                                  attempts |-> CountAttempt(j)]]
    /\ worker' = [worker EXCEPT ![w] = [job |-> j, phase |-> "claimed",
                        known |-> \E m \in Messages : j = <<"task", m>> /\ ack[m]]]
    /\ UNCHANGED <<settled, ack, dep, delivered, crashes>>

-----------------------------------------------------------------------------
(* An inbound message: process_channel_message.                            *)

Outbound(m) == Exists(<<"reply", m>>) \/ Exists(<<"result", m>>)

(* Something already replies to the message: the job returns, and leaves   *)
(* the row as the claim left it.                                           *)
AlreadyAnswered(w, m) ==
    /\ worker[w].job = <<"message", m>> /\ worker[w].phase = "claimed"
    /\ Outbound(m)
    /\ Release(w)
    /\ UNCHANGED <<row, settled, ack, dep, delivered, crashes>>

(* Nothing replies to it yet: the agent's run is started, or replayed when *)
(* it had been completed.                                                  *)
Begin(w, m) ==
    /\ worker[w].job = <<"message", m>> /\ worker[w].phase = "claimed"
    /\ ~Outbound(m)
    /\ worker' = [worker EXCEPT
            ![w].phase = IF settled[m] THEN "answered" ELSE "routing",
            ![w].known = settled[m] /\ Exists(<<"task", m>>)]
    /\ UNCHANGED <<row, settled, ack, dep, delivered, crashes>>

(* The router delegates: the tool registry commits the task (once per      *)
(* message) before the acknowledgment exists.                              *)
Delegate(w, m) ==
    /\ worker[w].job = <<"message", m>> /\ worker[w].phase = "routing"
    /\ row' = [row EXCEPT ![<<"task", m>>] = IF Exists(<<"task", m>>) THEN @ ELSE NewRow]
    /\ worker' = [worker EXCEPT ![w].phase = "delegated"]
    /\ UNCHANGED <<settled, ack, dep, delivered, crashes>>

(* The agent's run is committed with its answer.                           *)
Settle(w, m) ==
    /\ worker[w].job = <<"message", m>>
    /\ worker[w].phase \in {"routing", "delegated"}
    /\ settled' = [settled EXCEPT ![m] = TRUE]
    /\ worker' = [worker EXCEPT ![w].phase = "answered",
                               ![w].known = Exists(<<"task", m>>)]
    /\ UNCHANGED <<row, ack, dep, delivered, crashes>>

Reply_Faulty(w, m) ==
    /\ worker[w].job = <<"message", m>> /\ worker[w].phase = "answered"
    /\ ~Exists(<<"reply", m>>)
    /\ row' = [row EXCEPT ![<<"reply", m>>] = NewRow,
                          ![<<"message", m>>] = Closed(<<"message", m>>, "done")]
    /\ Release(w)
    /\ UNCHANGED <<settled, ack, dep, delivered, crashes>>

(* The reply, its outbox row, the task's link to it and the end of the     *)
(* message are one commit; the key reply:<message> is unique.              *)
Reply(w, m) ==
    /\ worker[w].job = <<"message", m>> /\ worker[w].phase = "answered"
    /\ ~Exists(<<"reply", m>>)
    /\ row' = [row EXCEPT ![<<"reply", m>>] = NewRow,
                          ![<<"message", m>>] = Closed(<<"message", m>>, "done")]
    /\ ack' = [ack EXCEPT ![m] = @ \/ worker[w].known]
    /\ Release(w)
    /\ UNCHANGED <<settled, dep, delivered, crashes>>

-----------------------------------------------------------------------------
(* A task: OrchestrationService.                                           *)

(* _persist_result: the result's outbox row, unless there is one.          *)
PersistResult(m, rows, ackKnown) ==
    IF Exists(<<"result", m>>)
    THEN row' = rows /\ UNCHANGED dep
    ELSE /\ row' = [rows EXCEPT ![<<"result", m>>] = NewRow]
         /\ dep' = [dep EXCEPT ![m] = ackKnown]

(* The task ends, or asks for a confirmation; either way its answer goes   *)
(* out.                                                                    *)
Finish(w, m, status) ==
    /\ worker[w].job = <<"task", m>> /\ worker[w].phase = "claimed"
    /\ status \in {"done", "waiting"}
    /\ PersistResult(m, [row EXCEPT ![<<"task", m>>] = Closed(<<"task", m>>, status)],
                     worker[w].known)
    /\ Release(w)
    /\ UNCHANGED <<settled, ack, delivered, crashes>>

(* reconcile_closed_pending_task, once the pending action is closed.       *)
Reconcile(m, status) ==
    /\ row[<<"task", m>>].status = "waiting"
    /\ status \in {"done", "failed"}
    /\ row' = [row EXCEPT ![<<"task", m>>] = Closed(<<"task", m>>, status)]
    /\ UNCHANGED <<settled, ack, dep, worker, delivered, crashes>>

-----------------------------------------------------------------------------
(* The outbox: process_outbox_message.                                     *)

Send(w, j) ==
    /\ j \in Outbox
    /\ worker[w].job = j /\ worker[w].phase = "claimed"
    /\ delivered' = [delivered EXCEPT ![j] = IF @ < 2 THEN @ + 1 ELSE @]
    /\ worker' = [worker EXCEPT ![w].phase = "sent"]
    /\ UNCHANGED <<row, settled, ack, dep, crashes>>

CommitSent(w, j) ==
    /\ worker[w].job = j /\ worker[w].phase = "sent"
    /\ row' = [row EXCEPT ![j] = Closed(j, "done")]
    /\ Release(w)
    /\ UNCHANGED <<settled, ack, dep, delivered, crashes>>

-----------------------------------------------------------------------------
(* Failures.                                                               *)

Failed(j) == Closed(j, IF MayRetry(j) THEN "ready" ELSE "failed")

Fail_Faulty(w) ==
    LET j == worker[w].job
    IN /\ j # NoJob
       /\ row' = [row EXCEPT ![j] = Failed(j)]
       /\ Release(w)
       /\ UNCHANGED <<settled, ack, dep, delivered, crashes>>

(* An exception anywhere in a job: the row is read again and set to retry  *)
(* or to failed, whatever it has become.  The agent's run fails with the   *)
(* message; a task that fails for good answers, with the row as it now is. *)
Fail(w) ==
    LET j == worker[w].job
        rows == [row EXCEPT ![j] = Failed(j)]
    IN /\ j # NoJob
       /\ \/ /\ j[1] = "task" /\ ~MayRetry(j)
             /\ PersistResult(j[2], rows, ack[j[2]])
          \/ /\ ~(j[1] = "task" /\ ~MayRetry(j))
             /\ row' = rows /\ UNCHANGED dep
       /\ settled' = [m \in Messages |->
                settled[m] /\ ~(j = <<"message", m>>
                                 /\ worker[w].phase \in {"routing", "delegated"})]
       /\ Release(w)
       /\ UNCHANGED <<ack, delivered, crashes>>

(* The process dies, or asyncio.timeout cancels the cycle.                 *)
Crash(w) ==
    /\ worker[w] # Idle
    /\ crashes < MaxCrashes
    /\ crashes' = crashes + 1
    /\ Release(w)
    /\ UNCHANGED <<row, settled, ack, dep, delivered>>

Lapse(j) ==
    /\ row[j].lease = "held"
    /\ Overrun \/ \A w \in Workers : worker[w].job # j
    /\ row' = [row EXCEPT ![j].lease = "lapsed"]
    /\ UNCHANGED <<settled, ack, dep, worker, delivered, crashes>>

-----------------------------------------------------------------------------
Step(w) ==
    \/ \E m \in Messages :
            \/ AlreadyAnswered(w, m) \/ Begin(w, m)
            \/ Delegate(w, m) \/ Settle(w, m) \/ Reply(w, m)
            \/ \E status \in {"done", "waiting"} : Finish(w, m, status)
    \/ \E j \in Outbox : Send(w, j) \/ CommitSent(w, j)
    \/ Fail(w)

Next ==
    \/ \E m \in Messages :
            \/ \E status \in {"ready", "transcribing"} : Arrive(m, status)
            \/ Transcribed(m)
            \/ \E status \in {"done", "failed"} : Reconcile(m, status)
    \/ \E w \in Workers : Step(w) \/ Crash(w) \/ \E j \in Jobs : Claim(w, j)
    \/ \E j \in Jobs : Lapse(j)

Spec == Init /\ [][Next]_vars

(* A worker goes on with its job, leases run out, and every cycle of the   *)
(* worker visits every queue and takes the row that has waited longest.    *)
FairSpec ==
    /\ Spec
    /\ \A w \in Workers : WF_vars(Step(w))
    /\ \A j \in Jobs : /\ SF_vars(\E w \in Workers : Claim(w, j))
                       /\ WF_vars(Lapse(j))
-----------------------------------------------------------------------------
(* Properties.                                                             *)

(* While leases outlast the work they cover, no two workers have the same  *)
(* row in hand, and a message is only worked on once the earlier ones of   *)
(* its conversation are finished: crashes and retries do not change that.  *)
ExclusiveInOrder ==
    \A w \in Workers :
        /\ \A v \in Workers \ {w} : worker[w].job = NoJob \/ worker[w].job # worker[v].job
        /\ \A m \in Messages : worker[w].job = <<"message", m>> =>
                \A e \in Messages : e < m => ~Unfinished(e)

(* A completed message has its reply in the outbox, and the task it was    *)
(* delegated to knows the acknowledgment.                                  *)
CompletedIsAnswered ==
    \A m \in Messages : row[<<"message", m>>].status = "done" =>
        /\ Exists(<<"reply", m>>)
        /\ Exists(<<"task", m>>) => ack[m]

(* A task that ended, or that waits for the user, has an answer in the     *)
(* outbox, and a result that depends on an acknowledgment goes out only    *)
(* after the channel accepted that acknowledgment.                         *)
TaskIsReported ==
    \A m \in Messages : row[<<"task", m>>].status \in {"waiting", "done", "failed"} =>
        Exists(<<"result", m>>)
DependencyKept ==
    \A m \in Messages : dep[m] /\ delivered[<<"result", m>>] > 0 =>
        delivered[<<"reply", m>>] > 0

(* Whatever crashes, every task is worked off and every reply is sent or   *)
(* given up.                                                               *)
TasksSettle ==
    \A m \in Messages : Exists(<<"task", m>>) ~>
        row[<<"task", m>>].status \in {"waiting", "done", "failed"}
RepliesSettle ==
    \A m \in Messages : Exists(<<"reply", m>>) ~>
        row[<<"reply", m>>].status \in {"done", "failed"}

(* docs/09-orchestrated-agent-architecture.md:440: the acknowledgment      *)
(* precedes the final message, even with retries.                          *)
AckBeforeResult ==
    \A m \in Messages :
        delivered[<<"result", m>>] > 0 => delivered[<<"reply", m>>] > 0

(* docs/09-orchestrated-agent-architecture.md:451: replays do not          *)
(* duplicate a send.                                                       *)
NoDuplicateSend == \A j \in Outbox : delivered[j] < 2

(* docs/09-orchestrated-agent-architecture.md:448: the user receives the   *)
(* outcome of a task after its acknowledgment.                             *)
ResultsSettle ==
    \A m \in Messages : Exists(<<"result", m>>) ~>
        row[<<"result", m>>].status \in {"done", "failed"}

(* docs/13-backend-hosting-transition-spec.md:350: expired leases are      *)
(* recovered automatically, so a message that was claimed is finished.     *)
TurnsRecover ==
    \A m \in Messages : row[<<"message", m>>].status = "taken" ~>
        row[<<"message", m>>].status \in {"done", "failed"}
=============================================================================
