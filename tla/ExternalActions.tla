--------------------------- MODULE ExternalActions ---------------------------
(***************************************************************************)
(* The calls an orchestration task makes to the services its user has      *)
(* connected through Composio: ToolRegistry.execute and confirm_action in  *)
(* conversation/tools.py, execute_policy and _execute_action in            *)
(* integrations/composio/service.py, one run of the agent as it is         *)
(* attempted again after failures and crashes.                             *)
(*                                                                         *)
(* A call is <<call id, arguments>>: the idempotency key of its tool       *)
(* execution and of its external action.  The provider is reached from     *)
(* inside a transaction that is committed only after its answer, so a call *)
(* takes three steps (Begin, Reach, one of the answers) and a crash before *)
(* the last leaves at the provider what the database does not know of.     *)
(* The confirmation of a proposed write is another task of the             *)
(* conversation, one at a time: the process Turn.                          *)
(***************************************************************************)
EXTENDS Naturals, FiniteSets

CONSTANTS Workers,      \* processes that may hold the task
          Turn,         \* the process that handles the messages of the user
          CallIds,      \* bound on the calls of the model: their ids
          Reads, Writes,\* arguments of calls of risk R0 and of risk R2
          Scheduled,    \* whether the task is a run of a routine with a grant
          MaxWrites,    \* maximum_external_writes_per_run of that grant
          MaxAttempts,  \* max_attempts of the task
          Overrun,      \* whether a lease may end while its holder works
          MaxCrashes,   \* bound on crashes
          MaxSent,      \* bound on the times one call reaches the provider
          None

ActionsAssumption ==
    /\ Turn \notin Workers /\ Reads \cap Writes = {} /\ None \notin CallIds \X (Reads \cup Writes)
    /\ None \notin {"ok", "refused", "retryable", "proposed", "completed", "failed", "cancelled",
                    "pending", "executed", "expired"}
    /\ MaxWrites \in Nat /\ MaxAttempts \in Nat \ {0} /\ MaxCrashes \in Nat /\ MaxSent \in Nat
    /\ Scheduled \in BOOLEAN /\ Overrun \in BOOLEAN

VARIABLES task,         \* status of the orchestration task
          attempts,     \* its claims
          at,           \* what each worker does for it
          done,         \* whether the run has its answer recorded
          executions,   \* outcome recorded for each call
          actions,      \* the external action of each call
          pendings,     \* the pending action of each proposed write
          lapsed,       \* pending actions whose time is over
          lapsing,      \* those some other task has read as lapsed
          message,      \* the call the message in hand confirms
          asked,        \* the calls the user has confirmed
          account,      \* the connected account can be used
          grant,        \* the grant of the routine is active
          call,         \* the call each process has in its transaction
          reached,      \* the processes whose call the provider has done
          sent,         \* how often the provider did each call
          crashes

data  == <<executions, actions, pendings>>
world == <<account, grant>>
user  == <<message, asked>>
time  == <<lapsed, lapsing>>
vars  == <<task, attempts, at, done, data, time, user, world, call, reached, sent, crashes>>

Keys      == CallIds \X (Reads \cup Writes)
Processes == Workers \cup {Turn}
Write(k)  == k[2] \in Writes
Ended     == {"completed", "failed", "cancelled"}
Closed    == {"executed", "failed", "cancelled", "expired"}

\* A row of tool_executions and one of external_actions, None if there is none.
ExecutionStatus == {None, "ok", "refused", "retryable"}
ActionStatus == {None, "proposed", "completed", "failed", "cancelled"}

Init == /\ task = "queued" /\ attempts = 0 /\ done = FALSE
        /\ at = [w \in Workers |-> "idle"]
        /\ executions = [k \in Keys |-> None]
        /\ actions = [k \in Keys |-> None]
        /\ pendings = [k \in Keys |-> None]
        /\ lapsed = {} /\ lapsing = {} /\ message = None /\ asked = {}
        /\ account = TRUE /\ grant = TRUE
        /\ call = [p \in Processes |-> None] /\ reached = {}
        /\ sent = [k \in Keys |-> 0] /\ crashes = 0

-----------------------------------------------------------------------------
(* The task and its run *)

Claim(w) == /\ at[w] = "idle"
            /\ \/ task = "queued"
               \/ task = "running" /\ (Overrun \/ \A v \in Workers : at[v] = "idle")
            /\ task' = "running"
            /\ attempts' = IF attempts < MaxAttempts THEN attempts + 1 ELSE attempts
            /\ at' = [at EXCEPT ![w] = IF done THEN "concluded" ELSE "calling"]
            /\ UNCHANGED <<done, data, time, user, world, call, reached, sent, crashes>>

Calling(w) == at[w] = "calling" /\ call[w] = None

\* The model answers without a call and the answer of the run is committed.
Conclude(w) == /\ Calling(w)
               /\ at' = [at EXCEPT ![w] = "concluded"] /\ done' = TRUE
               /\ UNCHANGED <<task, attempts, data, time, user, world, call, reached, sent, crashes>>

Finish(w) == /\ at[w] = "concluded"
             /\ task' = IF \E k \in Keys \ lapsed : pendings[k] = "pending"
                        THEN "waiting" ELSE "completed"
             /\ at' = [at EXCEPT ![w] = "idle"]
             /\ UNCHANGED <<attempts, done, data, time, user, world, call, reached, sent, crashes>>

FailRun(w) == /\ Calling(w)
              /\ task' = IF attempts < MaxAttempts THEN "queued" ELSE "failed"
              /\ at' = [at EXCEPT ![w] = "idle"] /\ done' = FALSE
              /\ UNCHANGED <<attempts, data, time, user, world, call, reached, sent, crashes>>

-----------------------------------------------------------------------------
(* One call of a tool *)

\* The recorded executions of the run with the same arguments: the query of the
\* registry has no order, any one of them may be the one it looks at.
Matches(k) == {e \in Keys : executions[e] # None /\ e[2] = k[2]}

\* The call is not answered from what is recorded.
Proceeds(k) == \/ Matches(k) = {}
               \/ \E e \in Matches(k) : /\ executions[e] = "retryable"
                                        /\ e = k \/ executions[k] = None

\* What execute_policy asks before it looks for the account's own action.
Permitted == (Scheduled => grant) /\ account

TooMany(k) == /\ Scheduled /\ Write(k) /\ actions[k] = None
              /\ Cardinality({j \in Keys : Write(j) /\ actions[j] # None}) >= MaxWrites

NotRetried(k) == Scheduled /\ Write(k) /\ actions[k] = "failed"

Refuse(w, k) == /\ Calling(w) /\ Proceeds(k)
                /\ ~Permitted \/ TooMany(k) \/ NotRetried(k)
                /\ executions' = [executions EXCEPT ![k] = "refused"]
                /\ UNCHANGED <<task, attempts, at, done, actions, pendings, time, user, world, call,
                               reached, sent, crashes>>

Standing_Faulty(k) == TRUE

\* The write waits for a confirmation, unless a grant stands for it.
Standing(k) == Write(k) => Scheduled

Propose(w, k) == /\ Calling(w) /\ Proceeds(k) /\ Permitted
                 /\ ~Standing(k) /\ actions[k] = None
                 /\ actions' = [actions EXCEPT ![k] = "proposed"]
                 /\ pendings' = [pendings EXCEPT ![k] = "pending"]
                 /\ executions' = [executions EXCEPT ![k] = "ok"]
                 /\ UNCHANGED <<task, attempts, at, done, time, user, world, call, reached, sent, crashes>>

\* The action is flushed, not committed, and the provider is called.  Another
\* process that inserts the same key waits for this transaction.
Begin(w, k) == /\ Calling(w) /\ Proceeds(k) /\ Permitted /\ Standing(k)
               /\ ~TooMany(k) /\ ~NotRetried(k)
               /\ sent[k] < MaxSent
               /\ \A p \in Processes : call[p] # k
               /\ call' = [call EXCEPT ![w] = k]
               /\ UNCHANGED <<task, attempts, at, done, data, time, user, world, reached, sent, crashes>>

Reach(p) == /\ call[p] # None /\ p \notin reached
            /\ reached' = reached \cup {p}
            /\ sent' = [sent EXCEPT ![call[p]] = @ + 1]
            /\ UNCHANGED <<task, attempts, at, done, data, time, user, world, call, crashes>>

EndCall(p) == /\ call' = [call EXCEPT ![p] = None] /\ reached' = reached \ {p}
              /\ UNCHANGED <<attempts, at, done, time, world, sent, crashes>>

\* The provider's result, its refusal of the arguments, or neither: then the
\* call may have been done or not, and it is recorded as failed and retryable.
Outcomes(p) == {[action |-> "failed", execution |-> "retryable"]} \cup
               IF p \in reached THEN {[action |-> "completed", execution |-> "ok"]}
                                ELSE {[action |-> "failed", execution |-> "refused"]}

Answer(w) == /\ call[w] # None
             /\ \E o \in Outcomes(w) :
                   /\ actions' = [actions EXCEPT ![call[w]] = o.action]
                   /\ executions' = [executions EXCEPT ![call[w]] = o.execution]
             /\ EndCall(w) /\ UNCHANGED <<task, pendings, user>>

-----------------------------------------------------------------------------
(* The confirmation *)

\* The user may confirm again what is confirmed, cancelled or too old.
Ask(k) == /\ message = None /\ pendings[k] # None
          /\ message' = k /\ asked' = asked \cup {k}
          /\ UNCHANGED <<task, attempts, at, done, data, time, world, call, reached, sent, crashes>>

Confirmable(k) == pendings[k] = "pending" /\ k \notin lapsed

BeginConfirm == /\ message # None /\ call[Turn] = None
                /\ Confirmable(message) /\ account
                /\ call' = [call EXCEPT ![Turn] = message]
                /\ UNCHANGED <<task, attempts, at, done, data, time, user, world, reached, sent, crashes>>

\* There is no pending action to confirm any more, or the account is gone.
ConfirmInVain ==
    /\ message # None /\ call[Turn] = None
    /\ \/ ~Confirmable(message) /\ UNCHANGED <<actions, pendings>>
       \/ /\ Confirmable(message) /\ ~account
          /\ actions' = [actions EXCEPT ![message] = "failed"]
          /\ pendings' = [pendings EXCEPT ![message] = "failed"]
    /\ message' = None
    /\ UNCHANGED <<task, attempts, at, done, executions, time, asked, world, call, reached, sent, crashes>>

\* A failure of the external action closes the pending action and leaves the
\* task to the reconciliation.
AnswerConfirm ==
    /\ call[Turn] # None
    /\ \E o \in Outcomes(Turn) :
          /\ actions' = [actions EXCEPT ![call[Turn]] = o.action]
          /\ IF o.action = "completed"
             THEN pendings' = [pendings EXCEPT ![call[Turn]] = "executed"] /\ task' = "completed"
             ELSE pendings' = [pendings EXCEPT ![call[Turn]] = "failed"] /\ task' = task
    /\ EndCall(Turn) /\ message' = None /\ UNCHANGED <<executions, asked>>

Free_Faulty(k) == TRUE

\* cancel_action waits for a confirmation that holds the row.
Free(k) == call[Turn] # k

Cancel_Faulty(k) == /\ Confirmable(k) /\ Free(k)
                    /\ pendings' = [pendings EXCEPT ![k] = "cancelled"]
                    /\ task' = "cancelled"
                    /\ UNCHANGED <<attempts, at, done, executions, actions, time, user, world, call, reached,
                                   sent, crashes>>

Cancel(k) == /\ Confirmable(k) /\ Free(k)
             /\ pendings' = [pendings EXCEPT ![k] = "cancelled"]
             /\ actions' = [actions EXCEPT ![k] = "cancelled"]
             /\ task' = "cancelled"
             /\ UNCHANGED <<attempts, at, done, executions, time, user, world, call, reached, sent, crashes>>

Lapse(k) == /\ pendings[k] = "pending" /\ k \notin lapsed
            /\ lapsed' = lapsed \cup {k}
            /\ UNCHANGED <<task, attempts, at, done, data, lapsing, user, world, call, reached, sent, crashes>>

\* Another tool of the conversation reads the lapsed pending actions without a
\* lock, and writes what it has read when it flushes: the update waits for the
\* row and does not look at it again.
SeeLapsed(k) == /\ k \in lapsed \ lapsing /\ pendings[k] = "pending"
                /\ lapsing' = lapsing \cup {k}
                /\ UNCHANGED <<task, attempts, at, done, data, lapsed, user, world, call, reached, sent,
                               crashes>>

MarkLapsed(k) == /\ k \in lapsing /\ Free(k)
                 /\ pendings' = [pendings EXCEPT ![k] = "expired"]
                 /\ lapsing' = lapsing \ {k}
                 /\ UNCHANGED <<task, attempts, at, done, executions, actions, lapsed, user, world, call,
                                reached, sent, crashes>>

\* A waiting task one of whose pending actions is closed, or lapsed.
Reconcilable(k) == pendings[k] \in Closed \/ (pendings[k] = "pending" /\ k \in lapsed)

Reconcile(k) ==
    /\ task = "waiting" /\ Reconcilable(k) /\ Free(k)
    /\ task' = CASE pendings[k] = "executed" -> "completed"
                 [] pendings[k] = "cancelled" -> "cancelled"
                 [] OTHER -> "failed"
    /\ pendings' = [pendings EXCEPT ![k] = IF @ = "pending" THEN "expired" ELSE @]
    /\ UNCHANGED <<attempts, at, done, executions, actions, time, user, world, call, reached, sent, crashes>>

-----------------------------------------------------------------------------
(* What happens meanwhile *)

LoseAccount == /\ account /\ account' = FALSE
               /\ UNCHANGED <<task, attempts, at, done, data, time, user, grant, call, reached, sent, crashes>>

RevokeGrant == /\ Scheduled /\ grant /\ grant' = FALSE
               /\ UNCHANGED <<task, attempts, at, done, data, time, user, account, call, reached, sent, crashes>>

\* The transaction is rolled back; what the provider has done stays.
Crash(p) == /\ crashes < MaxCrashes /\ crashes' = crashes + 1
            /\ call[p] # None \/ (p \in Workers /\ at[p] # "idle")
            /\ at' = [w \in Workers |-> IF w = p THEN "idle" ELSE at[w]]
            /\ call' = [call EXCEPT ![p] = None] /\ reached' = reached \ {p}
            /\ UNCHANGED <<task, attempts, done, data, time, user, world, sent>>

Run(w) == \/ Claim(w) \/ Finish(w) \/ FailRun(w) \/ Answer(w) \/ Reach(w)
          \/ \E k \in Keys : Refuse(w, k) \/ Propose(w, k) \/ Begin(w, k)

Next == \/ \E w \in Workers : Run(w) \/ Conclude(w)
        \/ \E k \in Keys : \/ Ask(k) \/ Cancel(k) \/ Lapse(k) \/ SeeLapsed(k)
                           \/ MarkLapsed(k) \/ Reconcile(k)
        \/ BeginConfirm \/ ConfirmInVain \/ Reach(Turn) \/ AnswerConfirm
        \/ LoseAccount \/ RevokeGrant
        \/ \E p \in Processes : Crash(p)

Spec == Init /\ [][Next]_vars

\* The loops of the worker go on, time passes, the provider answers or the call
\* times out, and the loop of the agent has a limit of steps: it concludes.
FairSpec == /\ Spec
            /\ \A w \in Workers : WF_vars(Run(w)) /\ SF_vars(Conclude(w))
            /\ WF_vars(BeginConfirm \/ ConfirmInVain \/ AnswerConfirm)
            /\ \A k \in Keys : WF_vars(Lapse(k)) /\ WF_vars(MarkLapsed(k)) /\ WF_vars(Reconcile(k))

-----------------------------------------------------------------------------
(* Properties *)

\* The values of the records, and that a proposed write has its pending action.
TypeOK == /\ task \in Ended \cup {"queued", "running", "waiting"}
          /\ \A k \in Keys : /\ executions[k] \in ExecutionStatus
                             /\ actions[k] \in ActionStatus
                             /\ pendings[k] \in Closed \cup {None, "pending"}
                             /\ actions[k] = "proposed" => pendings[k] \in {"pending", "expired"}
          /\ \A p \in Processes : call[p] \in Keys \cup {None}

\* Nothing is written outside a routine without the user's confirmation of that
\* very call, whatever the model asks, repeats or is answered from the records.
WritesAreConfirmed == ~Scheduled => \A k \in Keys : Write(k) /\ sent[k] > 0 => k \in asked

\* A pending action is consumed by the write it confirms: however often the
\* user confirms it, the write is made once.
ConsumedOnce == ~Scheduled => \A k \in Keys : Write(k) => sent[k] <= 1

\* A pending action that was consumed, cancelled or has expired writes no more.
NothingAfterClose == [][\A k \in Keys : pendings[k] \in Closed => sent'[k] = sent[k]]_vars

\* A confirmed write that was made is not called expired afterwards.
ExecutedStays == [][\A k \in Keys : pendings[k] = "executed" => pendings'[k] = "executed"]_vars

\* A run of a routine does not record more writes than its grant has of them.
WithinLimit == Scheduled => Cardinality({k \in Keys : Write(k) /\ actions[k] # None}) <= MaxWrites

Made(a) == \E k \in Keys : k[2] = a /\ executions[k] = "ok" /\ actions[k] = "completed"

\* docs/08-whatsapp-agent-tools-plan.md:104: effects that are done are not repeated, not in
\* a later step of the agent, not in a later attempt of the task.
DoneNotRepeated ==
    [][\A k \in Keys : Write(k) /\ Made(k[2]) => sent'[k] = sent[k]]_vars

Hidden(a) == \E k \in Keys : k[2] = a /\ executions[k] = "retryable"

\* What there is of it: a write that a run has made and recorded it does not make again, as
\* long as no failed execution with the same arguments may hide the record.
KnownNotRepeated ==
    [][\A k \in Keys : Write(k) /\ Made(k[2]) /\ ~Hidden(k[2]) => sent'[k] = sent[k]]_vars

\* A write whose outcome was lost is not repeated by the run.
UncertainNotRepeated ==
    \A a \in Writes : \A k, j \in CallIds \X {a} : k # j /\ sent[k] > 0 => sent[j] = 0

\* A task comes to an end, whatever becomes of its calls and of the pending
\* actions it waits for.
TaskSettles == <>[](task \in Ended)
=============================================================================
