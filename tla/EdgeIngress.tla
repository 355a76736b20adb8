----------------------------- MODULE EdgeIngress -----------------------------
(***************************************************************************)
(* The entrance of messages at the edge:                                   *)
(* supabase/functions/telegram-webhook/index.ts.  Telegram delivers a      *)
(* message again until it gets an answer of success, to another instance   *)
(* of the function if it likes; every statement of an instance commits by  *)
(* itself, and an instance may end between two of them.  The worker takes  *)
(* the messages of the conversation in their order.                        *)
(***************************************************************************)
EXTENDS Naturals, Sequences, SequencesExt

CONSTANTS Messages,     \* messages of one chat
          Voices,       \* those of them that are voice messages
          Requests,     \* instances of the function that run at the same time
          Crashes,      \* whether an instance may end between two statements
          JobFails,     \* whether the insert of a job may be refused
          MaxFaults,    \* bound on both
          None

Steps == {"account", "known", "conversation", "create", "insert", "job", "undo", "answer"}

IngressAssumption == /\ Voices \subseteq Messages /\ MaxFaults \in Nat
                     /\ Crashes \in BOOLEAN /\ JobFails \in BOOLEAN
                     /\ None \notin {"transcribing", "received", "handled"}
                                    \cup [msg : Messages, step : Steps]

VARIABLES active,       \* the chat has an active account
          conversation, \* its conversation exists
          stored,       \* status of each message, None if it is not stored
          arrived,      \* the messages in the order of their rows
          jobs,         \* messages with a transcription job
          req,          \* what each instance does
          acked,        \* messages Telegram has an answer of success for
          faults

vars == <<active, conversation, stored, arrived, jobs, req, acked, faults>>

Init == /\ active = TRUE /\ conversation = FALSE
        /\ stored = [m \in Messages |-> None] /\ arrived = <<>> /\ jobs = {}
        /\ req = [r \in Requests |-> None] /\ acked = {} /\ faults = 0

At(r, step) == req[r] # None /\ req[r].step = step
Msg(r)      == req[r].msg
Go(r, step) == req' = [req EXCEPT ![r].step = step]

Deliver(r, m) == /\ req[r] = None /\ m \notin acked
                 /\ req' = [req EXCEPT ![r] = [msg |-> m, step |-> "account"]]
                 /\ UNCHANGED <<active, conversation, stored, arrived, jobs, acked, faults>>

-----------------------------------------------------------------------------
(* ingestMessage *)

\* A message of a chat without an active account is ignored, with success.
FindAccount(r) == /\ At(r, "account") /\ Go(r, IF active THEN "known" ELSE "answer")
                  /\ UNCHANGED <<active, conversation, stored, arrived, jobs, acked, faults>>

FindMessage(r) == /\ At(r, "known")
                  /\ Go(r, IF stored[Msg(r)] # None THEN "answer" ELSE "conversation")
                  /\ UNCHANGED <<active, conversation, stored, arrived, jobs, acked, faults>>

FindConversation(r) == /\ At(r, "conversation")
                       /\ Go(r, IF conversation THEN "insert" ELSE "create")
                       /\ UNCHANGED <<active, conversation, stored, arrived, jobs, acked, faults>>

\* After a unique violation (23505) the conversation of the other instance is used.
Created == "insert"

CreateConversation(r) == /\ At(r, "create") /\ conversation' = TRUE /\ Go(r, Created)
                         /\ UNCHANGED <<active, stored, arrived, jobs, acked, faults>>

\* The unique external id: code 23505 is a duplicate.
Refused(m) == stored[m] # None

Entered(m) == IF m \in Voices THEN "transcribing" ELSE "received"

InsertMessage(r) ==
    /\ At(r, "insert")
    /\ LET m == Msg(r)
       IN  IF Refused(m) THEN Go(r, "answer") /\ UNCHANGED <<stored, arrived>>
           ELSE /\ stored' = [stored EXCEPT ![m] = Entered(m)]
                /\ arrived' = Append(arrived, m)
                /\ Go(r, IF m \in Voices THEN "job" ELSE "answer")
    /\ UNCHANGED <<active, conversation, jobs, acked, faults>>

JobStored(r) == jobs' = jobs \cup {Msg(r)}

InsertJob(r) == /\ At(r, "job")
                /\ \/ JobStored(r) /\ Go(r, "answer") /\ UNCHANGED faults
                   \/ /\ JobFails /\ faults < MaxFaults /\ faults' = faults + 1
                      /\ Go(r, "undo") /\ UNCHANGED jobs
                /\ UNCHANGED <<active, conversation, stored, arrived, acked>>

\* The answer is an error.
Undone(r) == req' = [req EXCEPT ![r] = None]

\* Where the row of a message is.
Place(m) == CHOOSE i \in DOMAIN arrived : arrived[i] = m

\* The message is deleted.
Undo(r) == /\ At(r, "undo") /\ Undone(r)
           /\ stored' = [stored EXCEPT ![Msg(r)] = None]
           /\ arrived' = RemoveAt(arrived, Place(Msg(r)))
           /\ UNCHANGED <<active, conversation, jobs, acked, faults>>

Answer(r) == /\ At(r, "answer") /\ req' = [req EXCEPT ![r] = None]
             /\ acked' = acked \cup {Msg(r)}
             /\ UNCHANGED <<active, conversation, stored, arrived, jobs, faults>>

\* An instance ends, a statement raises, or the answer is lost.
Crash(r) == /\ Crashes /\ faults < MaxFaults /\ faults' = faults + 1
            /\ req[r] # None /\ req' = [req EXCEPT ![r] = None]
            /\ UNCHANGED <<active, conversation, stored, arrived, jobs, acked>>

Suspend == /\ active /\ active' = FALSE
           /\ UNCHANGED <<conversation, stored, arrived, jobs, req, acked, faults>>

-----------------------------------------------------------------------------
(* The worker *)

Transcribe(m) == /\ m \in jobs /\ stored[m] = "transcribing"
                 /\ stored' = [stored EXCEPT ![m] = "received"]
                 /\ UNCHANGED <<active, conversation, arrived, jobs, req, acked, faults>>

\* claim_channel_message: no earlier message of the conversation is open.
First(m) == \E i \in DOMAIN arrived :
               arrived[i] = m /\ \A j \in 1..(i - 1) : stored[arrived[j]] = "handled"

Handle(m) == /\ stored[m] = "received" /\ First(m)
             /\ stored' = [stored EXCEPT ![m] = "handled"]
             /\ UNCHANGED <<active, conversation, arrived, jobs, req, acked, faults>>

Step(r) == \/ FindAccount(r) \/ FindMessage(r) \/ FindConversation(r) \/ CreateConversation(r)
           \/ InsertMessage(r) \/ InsertJob(r) \/ Undo(r) \/ Answer(r)

Next == \/ \E r \in Requests : Step(r) \/ Crash(r) \/ \E m \in Messages : Deliver(r, m)
        \/ \E m \in Messages : Transcribe(m) \/ Handle(m)
        \/ Suspend

Spec == Init /\ [][Next]_vars

\* Telegram goes on delivering a message without an answer of success, an
\* instance that does not end goes on, and so does the worker.
FairSpec == /\ Spec
            /\ \A r \in Requests : WF_vars(Step(r))
            /\ \A m \in Messages : /\ SF_vars(\E r \in Requests : Deliver(r, m))
                                   /\ WF_vars(Transcribe(m)) /\ WF_vars(Handle(m))

-----------------------------------------------------------------------------
(* Properties *)

\* A message that is stored has its row, and a job is that of a voice message.
TypeOK == /\ \A r \in Requests : req[r] # None => req[r].step \in Steps
          /\ \A m \in Messages : stored[m] # None <=> \E i \in DOMAIN arrived : arrived[i] = m
          /\ \A m \in Voices : stored[m] \in {"received", "handled"} => m \in jobs

\* A message delivered again, at the same time or after a fault, has one row.
OneRow == \A i, j \in DOMAIN arrived : arrived[i] = arrived[j] => i = j

\* Telegram forgets a message only after it was stored, as long as its account
\* is active.
AcknowledgedIsKept == active => \A m \in acked : stored[m] # None

\* What an active user sends is answered in the end, voice or text.
MessageHandled == \A m \in Messages : <>(stored[m] = "handled" \/ ~active)
=============================================================================
