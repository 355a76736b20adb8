------------------------- MODULE ExternalActionsProofs -------------------------
(***************************************************************************)
(* What ExternalActions promises of the writes of a task, for any workers, *)
(* calls, grants and bounds.                                               *)
(*                                                                         *)
(* ActionsInvariant ties the records of a call to each other and to the    *)
(* transactions that are open: a proposed write has a pending action that  *)
(* no worker's call touches, and the write that is being confirmed is the  *)
(* one of the message in hand, still pending.  It holds however many       *)
(* workers have the task.  On top of it, Consumed bounds what the provider *)
(* has done for a confirmed write, and Exclusive (where no lease ends      *)
(* under its holder) what one worker counted or looked up before its call. *)
(***************************************************************************)
EXTENDS ExternalActions, FiniteSetTheorems, TLAPS

Values == {"ok", "refused", "retryable", "proposed", "completed", "failed", "cancelled",
           "pending", "executed", "expired"}

DataTyped ==
    /\ executions \in [Keys -> ExecutionStatus]
    /\ actions \in [Keys -> ActionStatus]
    /\ pendings \in [Keys -> Closed \cup {None, "pending"}]
CallsTyped ==
    /\ at \in [Workers -> {"idle", "calling", "concluded"}]
    /\ call \in [Processes -> Keys \cup {None}]
    /\ reached \in SUBSET Processes
    /\ sent \in [Keys -> Nat]
    /\ message \in Keys \cup {None} /\ asked \in SUBSET Keys
TimeTyped == lapsed \in SUBSET Keys /\ lapsing \in SUBSET Keys /\ lapsing \subseteq lapsed
TaskTyped == task \in Ended \cup {"queued", "running", "waiting"}
Shapes == DataTyped /\ CallsTyped /\ TimeTyped /\ TaskTyped

(* What is recorded of one call agrees: only a write outside a routine has *)
(* a pending action, it has been answered as proposed, and it is pending   *)
(* only as long as its external action is; only such a one is marked as    *)
(* expired.                                                                *)
Fits(k) ==
    /\ pendings[k] # None =>
        Write(k) /\ ~Scheduled /\ executions[k] = "ok" /\ actions[k] # None
    /\ pendings[k] = "pending" => actions[k] = "proposed"
    /\ actions[k] = "proposed" => pendings[k] \in {"pending", "expired"}
    /\ Write(k) /\ ~Scheduled =>
        /\ executions[k] # "retryable"
        /\ actions[k] # None => pendings[k] # None
    /\ k \in lapsing => pendings[k] # None
Proposals == \A k \in Keys : Fits(k)

(* A write is proposed once, whatever call ids the model gives it.         *)
ProposedOnce ==
    \A j, k \in Keys : pendings[j] # None /\ pendings[k] # None /\ j[2] = k[2] => j = k

(* What a transaction has open: a worker nothing that waits for a user,    *)
(* and the turn the write its message confirms.                            *)
Calls ==
    /\ \A w \in Workers : call[w] # None => Standing(call[w]) /\ at[w] = "calling"
    /\ \A p \in reached : call[p] # None
Turns ==
    /\ message # None => message \in asked /\ pendings[message] # None
    /\ call[Turn] # None => call[Turn] = message /\ pendings[message] = "pending"

ActionsInvariant ==
    Shapes /\ Proposals /\ ProposedOnce /\ Calls /\ Turns /\ WritesAreConfirmed

-----------------------------------------------------------------------------
(* What a step may do.                                                     *)

LEMMA Names ==
    ASSUME ActionsAssumption
    PROVE  /\ None \notin Keys /\ Turn \notin Workers /\ Turn \in Processes
           /\ \A w \in Workers : w \in Processes /\ w # Turn
           /\ None \notin Values
  BY DEF ActionsAssumption, Keys, Processes, Values

(* No record is written but that of the call k.                            *)
Written(k) == \A j \in Keys \ {k} :
    executions'[j] = executions[j] /\ actions'[j] = actions[j] /\ pendings'[j] = pendings[j]

LEMMA OneRecord ==
    ASSUME Proposals, ProposedOnce, NEW k \in Keys, Written(k), Fits(k)', lapsing' \subseteq lapsing,
           pendings'[k] # None =>
                \A j \in Keys : pendings[j] # None /\ j[2] = k[2] => j = k
    PROVE  Proposals' /\ ProposedOnce'
  <1>1. ASSUME NEW j \in Keys PROVE Fits(j)'
    BY DEF Proposals, Fits, Written
  <1>2. ASSUME NEW i \in Keys, NEW j \in Keys,
               pendings'[i] # None, pendings'[j] # None, i[2] = j[2]
        PROVE  i = j
    BY <1>2 DEF ProposedOnce, Written
  <1>3. QED
    BY <1>1, <1>2 DEF Proposals, ProposedOnce

LEMMA RecordsKept ==
    ASSUME DataTyped, Proposals, ProposedOnce, UNCHANGED <<data, lapsing>>
    PROVE  DataTyped' /\ Proposals' /\ ProposedOnce'
  BY DEF data, DataTyped, Proposals, ProposedOnce, Fits

LEMMA Parts ==
    ASSUME ActionsInvariant
    PROVE  /\ Shapes /\ DataTyped /\ CallsTyped /\ TimeTyped /\ TaskTyped
           /\ Proposals /\ ProposedOnce /\ Calls /\ Turns /\ WritesAreConfirmed
  BY DEF ActionsInvariant, Shapes

-----------------------------------------------------------------------------
(* Steps that write no record and have no call.                            *)

LEMMA TaskKeeps ==
    ASSUME ActionsAssumption, ActionsInvariant, NEW w \in Workers,
           Claim(w) \/ Conclude(w) \/ Finish(w) \/ FailRun(w)
    PROVE  ActionsInvariant'
  <1>1. UNCHANGED <<executions, actions, pendings, lapsed, lapsing, message, asked, call,
                    reached, sent>>
    BY DEF Claim, Conclude, Finish, FailRun, data, time, user
  <1>2. TaskTyped' /\ at' \in [Workers -> {"idle", "calling", "concluded"}]
    BY Parts DEF Claim, Conclude, Finish, FailRun, TaskTyped, CallsTyped, Ended
  <1>3. Shapes'
    BY <1>1, <1>2, Parts DEF Shapes, DataTyped, CallsTyped, TimeTyped
  <1>4. call[w] = None
    BY Parts DEF Calls, Claim, Conclude, Finish, FailRun, Calling
  <1>5. \A v \in Workers \ {w} : at'[v] = at[v]
    BY Parts DEF Claim, Conclude, Finish, FailRun, CallsTyped
  <1>6. Calls'
    BY <1>1, <1>4, <1>5, Parts DEF Calls, Standing
  <1>7. Proposals' /\ ProposedOnce' /\ Turns' /\ WritesAreConfirmed'
    BY <1>1, Parts DEF Proposals, ProposedOnce, Fits, Turns, WritesAreConfirmed
  <1>8. QED
    BY <1>3, <1>6, <1>7 DEF ActionsInvariant

LEMMA MeanwhileKeeps ==
    ASSUME ActionsAssumption, ActionsInvariant,
           \/ \E k \in Keys : Lapse(k) \/ SeeLapsed(k)
           \/ LoseAccount \/ RevokeGrant
    PROVE  ActionsInvariant'
  <1>1. UNCHANGED <<task, at, executions, actions, pendings, message, asked, call, reached, sent>>
    BY DEF Lapse, SeeLapsed, LoseAccount, RevokeGrant, data, user
  <1>2. TimeTyped'
    BY Parts DEF Lapse, SeeLapsed, LoseAccount, RevokeGrant, TimeTyped, time
  <1>3. Shapes'
    BY <1>1, <1>2, Parts DEF Shapes, DataTyped, CallsTyped, TaskTyped
  <1>4. \A k \in lapsing' \ lapsing : pendings[k] # None
    BY Names DEF Lapse, SeeLapsed, LoseAccount, RevokeGrant, time, Values
  <1>5. Proposals' /\ ProposedOnce' /\ Calls' /\ Turns' /\ WritesAreConfirmed'
    BY <1>1, <1>4, Parts
       DEF Proposals, ProposedOnce, Fits, Calls, Standing, Turns, WritesAreConfirmed
  <1>6. QED
    BY <1>3, <1>5 DEF ActionsInvariant

-----------------------------------------------------------------------------
(* One call of a tool.                                                     *)

LEMMA RefuseKeeps ==
    ASSUME ActionsAssumption, ActionsInvariant, NEW w \in Workers, NEW k \in Keys, Refuse(w, k)
    PROVE  ActionsInvariant'
  <1>1. UNCHANGED <<task, at, actions, pendings, lapsed, lapsing, message, asked, call,
                    reached, sent>>
    BY DEF Refuse, time, user
  <1>2. /\ DataTyped' /\ executions'[k] = "refused"
        /\ \A j \in Keys \ {k} : executions'[j] = executions[j]
    BY Parts DEF Refuse, DataTyped, ExecutionStatus
  <1>3. executions[k] # "ok"
    BY Names DEF Refuse, Proceeds, Matches, Values
  <1>4. pendings[k] = None
    BY <1>3, Parts DEF Proposals, Fits
  <1>5. Fits(k)'
    BY <1>1, <1>2, <1>4, Names, Parts DEF Proposals, Fits, Values
  <1>6. Proposals' /\ ProposedOnce'
    BY <1>1, <1>2, <1>4, <1>5, Parts, OneRecord DEF Written
  <1>7. Shapes'
    BY <1>1, <1>2, Parts DEF Shapes, CallsTyped, TimeTyped, TaskTyped
  <1>8. Calls' /\ Turns' /\ WritesAreConfirmed'
    BY <1>1, Parts DEF Calls, Standing, Turns, WritesAreConfirmed
  <1>9. QED
    BY <1>6, <1>7, <1>8 DEF ActionsInvariant

LEMMA ProposeKeeps ==
    ASSUME ActionsAssumption, ActionsInvariant, NEW w \in Workers, NEW k \in Keys, Propose(w, k)
    PROVE  ActionsInvariant'
  <1>1. UNCHANGED <<task, at, lapsed, lapsing, message, asked, call, reached, sent>>
    BY DEF Propose, time, user
  <1>2. /\ DataTyped' /\ Written(k)
        /\ executions'[k] = "ok" /\ actions'[k] = "proposed" /\ pendings'[k] = "pending"
    BY Parts DEF Propose, DataTyped, ExecutionStatus, ActionStatus, Written
  <1>3. Write(k) /\ ~Scheduled /\ actions[k] = None
    BY DEF Propose, Standing
  <1>4. Fits(k)'
    BY <1>2, <1>3, Names DEF Fits, Values
  <1>5. ASSUME NEW j \in Keys, pendings[j] # None, j[2] = k[2] PROVE j = k
    <2>1. j \in Matches(k)
      BY <1>5, Parts, Names DEF Matches, Proposals, Fits, Values
    <2>2. PICK e \in Keys : e[2] = k[2] /\ executions[e] = "retryable"
      BY <2>1 DEF Propose, Proceeds, Matches
    <2>3. Write(e)
      BY <1>3, <2>2 DEF Write
    <2>4. QED
      BY <1>3, <2>2, <2>3, Parts DEF Proposals, Fits
  <1>6. Proposals' /\ ProposedOnce'
    BY <1>1, <1>2, <1>4, <1>5, Parts, OneRecord
  <1>7. Shapes'
    BY <1>1, <1>2, Parts DEF Shapes, CallsTyped, TimeTyped, TaskTyped
  <1>8. pendings[k] = None
    BY <1>3, Parts DEF Proposals, Fits
  <1>9. Turns'
    BY <1>1, <1>2, <1>8, Names, Parts DEF Turns, Written, Values, CallsTyped
  <1>10. Calls' /\ WritesAreConfirmed'
    BY <1>1, Parts DEF Calls, Standing, WritesAreConfirmed
  <1>11. QED
    BY <1>6, <1>7, <1>9, <1>10 DEF ActionsInvariant

LEMMA BeginKeeps ==
    ASSUME ActionsAssumption, ActionsInvariant, NEW w \in Workers, NEW k \in Keys, Begin(w, k)
    PROVE  ActionsInvariant'
  <1>1. UNCHANGED <<task, at, executions, actions, pendings, lapsed, lapsing, message, asked,
                    reached, sent>>
    BY DEF Begin, data, time, user
  <1>2. /\ call' \in [Processes -> Keys \cup {None}] /\ call'[w] = k
        /\ \A p \in Processes \ {w} : call'[p] = call[p]
    BY Names, Parts DEF Begin, CallsTyped
  <1>3. Shapes'
    BY <1>1, <1>2, Parts DEF Shapes, DataTyped, CallsTyped, TimeTyped, TaskTyped
  <1>4. Proposals' /\ ProposedOnce' /\ Turns' /\ WritesAreConfirmed'
    BY <1>1, <1>2, Names, Parts DEF Proposals, ProposedOnce, Fits, Turns, WritesAreConfirmed
  <1>5. Standing(k) /\ at[w] = "calling"
    BY DEF Begin, Calling
  <1>6. call[w] = None
    BY DEF Begin, Calling
  <1>7. Calls'
    <2>1. ASSUME NEW v \in Workers, call'[v] # None
          PROVE  Standing(call'[v]) /\ at[v] = "calling"
      BY <1>2, <1>5, <2>1, Names, Parts DEF Calls
    <2>2. ASSUME NEW p \in reached PROVE call'[p] # None
      BY <1>2, <1>6, <2>2, Names, Parts DEF Calls, CallsTyped
    <2>3. QED
      BY <1>1, <2>1, <2>2 DEF Calls, Standing
  <1>8. QED
    BY <1>3, <1>4, <1>7 DEF ActionsInvariant

(* What the provider is asked to do has been asked for: by a worker, only  *)
(* what needs no confirmation.                                             *)
LEMMA CallIsAuthorised ==
    ASSUME ActionsAssumption, ActionsInvariant, NEW p \in Processes, call[p] # None
    PROVE  /\ call[p] \in Keys
           /\ ~Scheduled /\ Write(call[p]) => p = Turn /\ call[p] \in asked
  <1>1. call[p] \in Keys
    BY Parts DEF CallsTyped
  <1>2. ASSUME ~Scheduled, Write(call[p]) PROVE p = Turn
    BY <1>2, Parts DEF Processes, Calls, Standing
  <1>3. QED
    BY <1>1, <1>2, Names, Parts DEF Turns

LEMMA ReachKeeps ==
    ASSUME ActionsAssumption, ActionsInvariant, NEW p \in Processes, Reach(p)
    PROVE  ActionsInvariant'
  <1>1. UNCHANGED <<task, at, executions, actions, pendings, lapsed, lapsing, message, asked,
                    call>>
    BY DEF Reach, data, time, user
  <1>2. call[p] \in Keys /\ (~Scheduled /\ Write(call[p]) => call[p] \in asked)
    BY CallIsAuthorised DEF Reach
  <1>3. /\ sent' \in [Keys -> Nat] /\ reached' = reached \cup {p} /\ call[p] # None
        /\ \A k \in Keys \ {call[p]} : sent'[k] = sent[k]
    BY <1>2, Parts DEF Reach, CallsTyped
  <1>4. Shapes'
    BY <1>1, <1>3, Parts DEF Shapes, DataTyped, CallsTyped, TimeTyped, TaskTyped
  <1>5. Proposals' /\ ProposedOnce' /\ Turns' /\ Calls'
    BY <1>1, <1>3, Parts DEF Proposals, ProposedOnce, Fits, Turns, Calls, Standing
  <1>6. WritesAreConfirmed'
    BY <1>1, <1>2, <1>3, Parts DEF WritesAreConfirmed
  <1>7. QED
    BY <1>4, <1>5, <1>6 DEF ActionsInvariant

(* A call ends, with an answer or with its process.                        *)
LEMMA CallEnds ==
    ASSUME ActionsInvariant, NEW p \in Processes,
           call' = [call EXCEPT ![p] = None], reached' = reached \ {p},
           \A w \in Workers \ {p} : at'[w] = at[w]
    PROVE  /\ call' \in [Processes -> Keys \cup {None}] /\ reached' \in SUBSET Processes
           /\ call'[p] = None /\ \A q \in Processes \ {p} : call'[q] = call[q]
           /\ Calls'
  <1>1. /\ call' \in [Processes -> Keys \cup {None}] /\ reached' \in SUBSET Processes
        /\ call'[p] = None /\ \A q \in Processes \ {p} : call'[q] = call[q]
    BY Parts DEF CallsTyped
  <1>2. \A w \in Workers : w \in Processes
    BY DEF Processes
  <1>3. Calls'
    BY <1>1, <1>2, Parts DEF Calls, Standing, CallsTyped
  <1>4. QED
    BY <1>1, <1>3

(* A worker's answer is to a call that has no pending action.              *)
LEMMA AnswerKeeps ==
    ASSUME ActionsAssumption, ActionsInvariant, NEW w \in Workers, Answer(w)
    PROVE  ActionsInvariant'
  <1> PICK k : k = call[w]
    OBVIOUS
  <1>1. UNCHANGED <<task, at, pendings, lapsed, lapsing, message, asked, sent>>
    BY DEF Answer, EndCall, time, user
  <1>2. k \in Keys /\ Standing(k) /\ w \in Processes /\ w # Turn
    BY Names, Parts DEF Answer, Calls, CallsTyped
  <1>3. PICK o \in Outcomes(w) : /\ actions' = [actions EXCEPT ![k] = o.action]
                                 /\ executions' = [executions EXCEPT ![k] = o.execution]
    BY DEF Answer
  <1>4. /\ o.action \in {"failed", "completed"}
        /\ o.execution \in {"retryable", "ok", "refused"}
    BY DEF Outcomes
  <1>5. DataTyped' /\ Written(k) /\ actions'[k] \in {"failed", "completed"}
    BY <1>1, <1>2, <1>3, <1>4, Parts DEF DataTyped, ExecutionStatus, ActionStatus, Written
  <1>6. pendings[k] = None
    BY <1>2, Parts DEF Proposals, Fits, Standing
  <1>7. Fits(k)'
    BY <1>1, <1>2, <1>5, <1>6, Names, Parts DEF Proposals, Fits, Standing, Values
  <1>8. Proposals' /\ ProposedOnce'
    BY <1>1, <1>2, <1>5, <1>6, <1>7, Parts, OneRecord
  <1>9. /\ call' \in [Processes -> Keys \cup {None}] /\ reached' \in SUBSET Processes
        /\ call'[Turn] = call[Turn] /\ Calls'
    BY <1>1, <1>2, Names, CallEnds DEF Answer, EndCall
  <1>10. Shapes'
    BY <1>1, <1>5, <1>9, Parts DEF Shapes, CallsTyped, TimeTyped, TaskTyped
  <1>11. Turns' /\ WritesAreConfirmed'
    BY <1>1, <1>9, Parts DEF Turns, WritesAreConfirmed
  <1>12. QED
    BY <1>8, <1>9, <1>10, <1>11 DEF ActionsInvariant

-----------------------------------------------------------------------------
(* The confirmation.                                                       *)

LEMMA AskKeeps ==
    ASSUME ActionsAssumption, ActionsInvariant, NEW k \in Keys, Ask(k)
    PROVE  ActionsInvariant'
  <1>1. UNCHANGED <<task, at, executions, actions, pendings, lapsed, lapsing, call, reached, sent>>
    BY DEF Ask, data, time
  <1>2. message = None /\ message' = k /\ asked' = asked \cup {k} /\ pendings[k] # None
    BY DEF Ask
  <1>3. Shapes'
    BY <1>1, <1>2, Parts DEF Shapes, DataTyped, CallsTyped, TimeTyped, TaskTyped
  <1>4. call[Turn] = None
    BY <1>2, Names, Parts DEF Turns, CallsTyped
  <1>5. Turns'
    BY <1>1, <1>2, <1>4 DEF Turns
  <1>6. Proposals' /\ ProposedOnce' /\ Calls' /\ WritesAreConfirmed'
    BY <1>1, <1>2, Parts DEF Proposals, ProposedOnce, Fits, Calls, Standing, WritesAreConfirmed
  <1>7. QED
    BY <1>3, <1>5, <1>6 DEF ActionsInvariant

LEMMA BeginConfirmKeeps ==
    ASSUME ActionsAssumption, ActionsInvariant, BeginConfirm
    PROVE  ActionsInvariant'
  <1>1. UNCHANGED <<task, at, executions, actions, pendings, lapsed, lapsing, message, asked,
                    reached, sent>>
    BY DEF BeginConfirm, data, time, user
  <1>2. message \in Keys /\ pendings[message] = "pending"
    BY Parts DEF BeginConfirm, Confirmable, CallsTyped
  <1>3. /\ call' \in [Processes -> Keys \cup {None}] /\ call'[Turn] = message
        /\ \A p \in Processes \ {Turn} : call'[p] = call[p]
    BY <1>2, Names, Parts DEF BeginConfirm, CallsTyped
  <1>4. Shapes'
    BY <1>1, <1>3, Parts DEF Shapes, DataTyped, CallsTyped, TimeTyped, TaskTyped
  <1>5. Proposals' /\ ProposedOnce' /\ WritesAreConfirmed'
    BY <1>1, Parts DEF Proposals, ProposedOnce, Fits, WritesAreConfirmed
  <1>6. Turns'
    BY <1>1, <1>2, <1>3, Parts DEF Turns
  <1>7. \A w \in Workers : call'[w] = call[w]
    BY <1>3, Names
  <1>8. \A p \in reached : call'[p] # None
    BY <1>2, <1>3, Names, Parts DEF Calls, CallsTyped
  <1>9. Calls'
    BY <1>1, <1>7, <1>8, Parts DEF Calls, Standing
  <1>10. QED
    BY <1>4, <1>5, <1>6, <1>9 DEF ActionsInvariant

LEMMA ConfirmInVainKeeps ==
    ASSUME ActionsAssumption, ActionsInvariant, ConfirmInVain
    PROVE  ActionsInvariant'
  <1> PICK k : k = message
    OBVIOUS
  <1>1. UNCHANGED <<task, at, executions, lapsed, lapsing, asked, call, reached, sent>>
    BY DEF ConfirmInVain, time
  <1>2. k \in Keys /\ message' = None /\ call[Turn] = None
    BY Parts DEF ConfirmInVain, CallsTyped
  <1>3. DataTyped' /\ Proposals' /\ ProposedOnce'
    <2>1. CASE UNCHANGED <<actions, pendings>>
      BY <1>1, <2>1, Parts, RecordsKept DEF data
    <2>2. CASE /\ Confirmable(k)
               /\ actions' = [actions EXCEPT ![k] = "failed"]
               /\ pendings' = [pendings EXCEPT ![k] = "failed"]
      <3>1. /\ DataTyped' /\ Written(k)
            /\ executions'[k] = executions[k] /\ actions'[k] = "failed" /\ pendings'[k] = "failed"
        BY <1>1, <1>2, <2>2, Parts DEF DataTyped, ActionStatus, Closed, Written
      <3>2. pendings[k] = "pending" /\ "pending" # None
        BY <2>2, Names DEF Confirmable, Values
      <3>3. Fits(k)'
        BY <1>2, <3>1, <3>2, Names, Parts DEF Proposals, Fits, Values
      <3>4. QED
        BY <1>1, <1>2, <3>1, <3>2, <3>3, Parts, OneRecord DEF ProposedOnce
    <2>3. QED
      BY <2>1, <2>2 DEF ConfirmInVain
  <1>4. Shapes'
    BY <1>1, <1>2, <1>3, Parts DEF Shapes, CallsTyped, TimeTyped, TaskTyped
  <1>5. Turns' /\ Calls' /\ WritesAreConfirmed'
    BY <1>1, <1>2, Parts DEF Turns, Calls, Standing, WritesAreConfirmed
  <1>6. QED
    BY <1>3, <1>4, <1>5 DEF ActionsInvariant

LEMMA AnswerConfirmKeeps ==
    ASSUME ActionsAssumption, ActionsInvariant, AnswerConfirm
    PROVE  ActionsInvariant'
  <1> PICK k : k = call[Turn]
    OBVIOUS
  <1>1. UNCHANGED <<at, executions, lapsed, lapsing, asked, sent>> /\ message' = None
    BY DEF AnswerConfirm, EndCall, time
  <1>2. k \in Keys /\ pendings[k] = "pending" /\ "pending" # None
    BY Names, Parts DEF AnswerConfirm, Turns, CallsTyped, Values
  <1>3. PICK o \in Outcomes(Turn) :
            /\ actions' = [actions EXCEPT ![k] = o.action]
            /\ IF o.action = "completed"
               THEN pendings' = [pendings EXCEPT ![k] = "executed"] /\ task' = "completed"
               ELSE pendings' = [pendings EXCEPT ![k] = "failed"] /\ task' = task
    BY DEF AnswerConfirm
  <1>4. o.action \in {"failed", "completed"}
    BY DEF Outcomes
  <1>5. /\ DataTyped' /\ Written(k)
        /\ executions'[k] = executions[k] /\ actions'[k] \in {"failed", "completed"}
        /\ pendings'[k] \in {"executed", "failed"}
    BY <1>1, <1>2, <1>3, <1>4, Parts DEF DataTyped, ActionStatus, Closed, Written
  <1>6. Fits(k)'
    BY <1>2, <1>5, Names, Parts DEF Proposals, Fits, Values
  <1>7. Proposals' /\ ProposedOnce'
    BY <1>1, <1>2, <1>5, <1>6, Parts, OneRecord DEF ProposedOnce
  <1>8. TaskTyped'
    BY <1>3, Parts DEF TaskTyped, Ended
  <1>9. /\ call' \in [Processes -> Keys \cup {None}] /\ reached' \in SUBSET Processes
        /\ call'[Turn] = None /\ Calls'
    BY <1>1, Names, CallEnds DEF AnswerConfirm, EndCall
  <1>10. Shapes'
    BY <1>1, <1>5, <1>8, <1>9, Parts DEF Shapes, CallsTyped, TimeTyped
  <1>11. Turns' /\ WritesAreConfirmed'
    BY <1>1, <1>9, Parts DEF Turns, WritesAreConfirmed
  <1>12. QED
    BY <1>7, <1>9, <1>10, <1>11 DEF ActionsInvariant

LEMMA CancelKeeps ==
    ASSUME ActionsAssumption, ActionsInvariant, NEW k \in Keys, Cancel(k)
    PROVE  ActionsInvariant'
  <1>1. UNCHANGED <<at, executions, lapsed, lapsing, message, asked, call, reached, sent>>
    BY DEF Cancel, time, user
  <1>2. pendings[k] = "pending" /\ "pending" # None /\ call[Turn] # k
    BY Names DEF Cancel, Confirmable, Free, Values
  <1>3. /\ DataTyped' /\ Written(k) /\ TaskTyped'
        /\ executions'[k] = executions[k] /\ actions'[k] = "cancelled"
        /\ pendings'[k] = "cancelled"
    BY Parts DEF Cancel, DataTyped, TaskTyped, Ended, ActionStatus, Closed, Written
  <1>4. Fits(k)'
    BY <1>2, <1>3, Names, Parts DEF Proposals, Fits, Values
  <1>5. Proposals' /\ ProposedOnce'
    BY <1>1, <1>2, <1>3, <1>4, Parts, OneRecord DEF ProposedOnce
  <1>6. Shapes'
    BY <1>1, <1>3, Parts DEF Shapes, CallsTyped, TimeTyped
  <1>7. Turns'
    BY <1>1, <1>2, <1>3, Names, Parts DEF Turns, CallsTyped, Written, Values
  <1>8. Calls' /\ WritesAreConfirmed'
    BY <1>1, Parts DEF Calls, Standing, WritesAreConfirmed
  <1>9. QED
    BY <1>5, <1>6, <1>7, <1>8 DEF ActionsInvariant

(* What was read as lapsed is written without being looked at again: it    *)
(* may have been consumed, but not while it is being confirmed.            *)
LEMMA MarkLapsedKeeps ==
    ASSUME ActionsAssumption, ActionsInvariant, NEW k \in Keys, MarkLapsed(k)
    PROVE  ActionsInvariant'
  <1>1. /\ UNCHANGED <<task, at, executions, actions, lapsed, message, asked, call, reached, sent>>
        /\ lapsing' = lapsing \ {k}
    BY DEF MarkLapsed, user
  <1>2. pendings[k] # None /\ call[Turn] # k
    BY Parts DEF MarkLapsed, Free, Proposals, Fits
  <1>3. DataTyped' /\ Written(k) /\ pendings'[k] = "expired"
    BY <1>1, Parts DEF MarkLapsed, DataTyped, Closed, Written
  <1>4. Fits(k)'
    BY <1>1, <1>2, <1>3, Names, Parts DEF Proposals, Fits, Values
  <1>5. Proposals' /\ ProposedOnce'
    BY <1>1, <1>2, <1>3, <1>4, Parts, OneRecord DEF ProposedOnce
  <1>6. Shapes'
    BY <1>1, <1>3, Parts DEF Shapes, CallsTyped, TimeTyped, TaskTyped
  <1>7. Turns'
    BY <1>1, <1>2, <1>3, Names, Parts DEF Turns, CallsTyped, Written, Values
  <1>8. Calls' /\ WritesAreConfirmed'
    BY <1>1, Parts DEF Calls, Standing, WritesAreConfirmed
  <1>9. QED
    BY <1>5, <1>6, <1>7, <1>8 DEF ActionsInvariant

LEMMA ReconcileKeeps ==
    ASSUME ActionsAssumption, ActionsInvariant, NEW k \in Keys, Reconcile(k)
    PROVE  ActionsInvariant'
  <1>1. UNCHANGED <<at, executions, actions, lapsed, lapsing, message, asked, call, reached, sent>>
    BY DEF Reconcile, time, user
  <1>2. pendings[k] # None /\ call[Turn] # k
    BY Names DEF Reconcile, Reconcilable, Free, Closed, Values
  <1>3. /\ DataTyped' /\ Written(k) /\ TaskTyped'
        /\ pendings'[k] = IF pendings[k] = "pending" THEN "expired" ELSE pendings[k]
    BY <1>1, Parts DEF Reconcile, DataTyped, TaskTyped, Ended, Closed, Written
  <1>4. Fits(k)'
    BY <1>1, <1>2, <1>3, Names, Parts DEF Proposals, Fits, Values
  <1>5. Proposals' /\ ProposedOnce'
    BY <1>1, <1>2, <1>3, <1>4, Parts, OneRecord DEF ProposedOnce
  <1>6. Shapes'
    BY <1>1, <1>3, Parts DEF Shapes, CallsTyped, TimeTyped
  <1>7. Turns'
    BY <1>1, <1>2, <1>3, Names, Parts DEF Turns, CallsTyped, Written, Values
  <1>8. Calls' /\ WritesAreConfirmed'
    BY <1>1, Parts DEF Calls, Standing, WritesAreConfirmed
  <1>9. QED
    BY <1>5, <1>6, <1>7, <1>8 DEF ActionsInvariant

LEMMA CrashKeeps ==
    ASSUME ActionsAssumption, ActionsInvariant, NEW p \in Processes, Crash(p)
    PROVE  ActionsInvariant'
  <1>1. UNCHANGED <<task, executions, actions, pendings, lapsed, lapsing, message, asked, sent>>
    BY DEF Crash, data, time, user
  <1>2. /\ at' \in [Workers -> {"idle", "calling", "concluded"}]
        /\ \A w \in Workers \ {p} : at'[w] = at[w]
    BY Parts DEF Crash, CallsTyped
  <1>3. /\ call' \in [Processes -> Keys \cup {None}] /\ reached' \in SUBSET Processes
        /\ call'[p] = None /\ \A q \in Processes \ {p} : call'[q] = call[q]
        /\ Calls'
    BY <1>2, CallEnds DEF Crash
  <1>4. Shapes'
    BY <1>1, <1>2, <1>3, Parts DEF Shapes, DataTyped, CallsTyped, TimeTyped, TaskTyped
  <1>5. Proposals' /\ ProposedOnce' /\ WritesAreConfirmed'
    BY <1>1, Parts DEF Proposals, ProposedOnce, Fits, WritesAreConfirmed
  <1>6. Turns'
    BY <1>1, <1>3, Names, Parts DEF Turns
  <1>7. QED
    BY <1>3, <1>4, <1>5, <1>6 DEF ActionsInvariant

-----------------------------------------------------------------------------
(* The invariant holds.                                                    *)

LEMMA InitKeeps == ASSUME ActionsAssumption, Init PROVE ActionsInvariant
  <1>1. Shapes
    BY DEF Init, Shapes, DataTyped, CallsTyped, TimeTyped, TaskTyped, ExecutionStatus, ActionStatus
  <1>2. Proposals /\ ProposedOnce
    BY Names DEF Init, Proposals, ProposedOnce, Fits, Values
  <1>3. Calls /\ Turns
    BY Names DEF Init, Calls, Turns, Processes
  <1>4. WritesAreConfirmed
    BY DEF Init, WritesAreConfirmed
  <1>5. QED
    BY <1>1, <1>2, <1>3, <1>4 DEF ActionsInvariant

LEMMA NextKeeps ==
    ASSUME ActionsAssumption, ActionsInvariant, [Next]_vars
    PROVE  ActionsInvariant'
  <1>1. ASSUME NEW w \in Workers, Run(w) \/ Conclude(w) PROVE ActionsInvariant'
    <2>1. w \in Processes
      BY Names
    <2>2. QED
      BY <1>1, <2>1, TaskKeeps, RefuseKeeps, ProposeKeeps, BeginKeeps, ReachKeeps, AnswerKeeps
         DEF Run
  <1>2. ASSUME NEW k \in Keys,
               \/ Ask(k) \/ Cancel(k) \/ Lapse(k) \/ SeeLapsed(k)
               \/ MarkLapsed(k) \/ Reconcile(k)
        PROVE  ActionsInvariant'
    BY <1>2, AskKeeps, CancelKeeps, MeanwhileKeeps, MarkLapsedKeeps, ReconcileKeeps
  <1>3. CASE BeginConfirm \/ ConfirmInVain \/ Reach(Turn) \/ AnswerConfirm
    BY <1>3, Names, BeginConfirmKeeps, ConfirmInVainKeeps, ReachKeeps, AnswerConfirmKeeps
  <1>4. CASE LoseAccount \/ RevokeGrant
    BY <1>4, MeanwhileKeeps
  <1>5. ASSUME NEW p \in Processes, Crash(p) PROVE ActionsInvariant'
    BY <1>5, CrashKeeps
  <1>6. CASE UNCHANGED vars
    BY <1>6
       DEF vars, data, time, user, ActionsInvariant, Shapes, DataTyped, CallsTyped, TimeTyped,
           TaskTyped, Proposals, Fits, ProposedOnce, Calls, Standing, Turns, WritesAreConfirmed
  <1>7. QED
    BY <1>1, <1>2, <1>3, <1>4, <1>5, <1>6 DEF Next

LEMMA ActionsInvariantHolds ==
    ASSUME ActionsAssumption
    PROVE  Spec => []ActionsInvariant
  <1>1. Init => ActionsInvariant
    BY InitKeeps
  <1>2. ActionsInvariant /\ [Next]_vars => ActionsInvariant'
    BY NextKeeps
  <1>3. QED
    BY <1>1, <1>2, PTL DEF Spec

(* The records of calls keep their shape, and a proposed write has its     *)
(* pending action.                                                         *)
THEOREM ActionsTyped ==
    ASSUME ActionsAssumption
    PROVE  Spec => []TypeOK
  <1>1. ActionsInvariant => TypeOK
    <2> SUFFICES ASSUME ActionsInvariant PROVE TypeOK
      OBVIOUS
    <2>1. ASSUME NEW k \in Keys PROVE actions[k] = "proposed" => pendings[k] \in {"pending", "expired"}
      BY Parts DEF Proposals, Fits
    <2>2. QED
      BY <2>1, Parts DEF TypeOK, DataTyped, CallsTyped, TaskTyped
  <1>2. QED
    BY <1>1, ActionsInvariantHolds, PTL

(* Nothing is written outside a routine without the user's confirmation of *)
(* that very call: a worker reaches the provider only with what needs no   *)
(* confirmation, and the turn only with the call of the message in hand.   *)
(* It holds for any number of workers, crashes and leases that run out.    *)
THEOREM ConfirmedBeforeWritten ==
    ASSUME ActionsAssumption
    PROVE  Spec => []WritesAreConfirmed
  <1>1. ActionsInvariant => WritesAreConfirmed
    BY DEF ActionsInvariant
  <1>2. QED
    BY <1>1, ActionsInvariantHolds, PTL

-----------------------------------------------------------------------------
(* What is closed writes no more.                                          *)

LEMMA OnlyReachSends ==
    ASSUME ActionsInvariant, [Next]_vars
    PROVE  UNCHANGED sent \/ \E p \in Processes : Reach(p)
  <1>1. \A w \in Workers : w \in Processes
    BY DEF Processes
  <1>2. ASSUME NEW w \in Workers, Run(w) \/ Conclude(w)
        PROVE  UNCHANGED sent \/ \E p \in Processes : Reach(p)
    BY <1>1, <1>2
       DEF Run, Claim, Conclude, Finish, FailRun, Refuse, Propose, Begin, Answer, EndCall
  <1>3. CASE Reach(Turn)
    BY <1>3 DEF Processes
  <1>4. QED
    BY <1>2, <1>3
       DEF Next, vars, Ask, Cancel, Lapse, SeeLapsed, MarkLapsed, Reconcile, BeginConfirm,
           ConfirmInVain, AnswerConfirm, EndCall, LoseAccount, RevokeGrant, Crash

LEMMA ReachSends ==
    ASSUME ActionsInvariant, NEW p \in Processes, Reach(p)
    PROVE  /\ call[p] \in Keys /\ p \notin reached /\ reached' = reached \cup {p}
           /\ sent'[call[p]] = sent[call[p]] + 1
           /\ \A k \in Keys \ {call[p]} : sent'[k] = sent[k]
  BY Parts DEF Reach, CallsTyped

(* A pending action that was consumed, cancelled or has expired writes no  *)
(* more: its confirmation holds the row as long as it is under way.        *)
THEOREM ClosedWritesNoMore ==
    ASSUME ActionsAssumption
    PROVE  Spec => NothingAfterClose
  <1> DEFINE Quiet == \A k \in Keys : pendings[k] \in Closed => sent'[k] = sent[k]
  <1>1. ASSUME ActionsInvariant, [Next]_vars PROVE Quiet
    <2>1. ASSUME NEW p \in Processes, Reach(p) PROVE pendings[call[p]] \notin Closed
      <3>1. call[p] \in Keys /\ call[p] # None
        BY <1>1, <2>1, ReachSends DEF Reach
      <3>2. CASE p = Turn
        BY <1>1, <3>1, <3>2, Parts DEF Turns, Closed
      <3>3. CASE p \in Workers
        <4>1. pendings[call[p]] = None
          BY <1>1, <3>1, <3>3, Parts DEF Calls, Standing, Proposals, Fits
        <4>2. QED
          BY <4>1, Names DEF Closed, Values
      <3>4. QED
        BY <3>2, <3>3 DEF Processes
    <2>2. QED
      BY <1>1, <2>1, OnlyReachSends, ReachSends
  <1>2. ActionsInvariant /\ [Next]_vars => [Quiet]_vars
    BY <1>1
  <1>3. Spec => [][Quiet]_vars
    BY <1>2, ActionsInvariantHolds, PTL DEF Spec
  <1>4. QED
    BY <1>3 DEF NothingAfterClose

-----------------------------------------------------------------------------
(* A confirmed write is made once.                                         *)

Consuming(k) == call[Turn] = k /\ Turn \in reached
Consumed ==
    /\ crashes = 0
    /\ \A k \in Keys : Write(k) =>
        /\ sent[k] <= 1
        /\ sent[k] > 0 => pendings[k] \in Closed \/ Consuming(k)

(* What was done for a call stays accounted for: its pending action stays  *)
(* closed, or is closed by the answer to the call.                         *)
StaysConsumed == \A k \in Keys :
    pendings[k] \in Closed \/ Consuming(k) => (pendings[k] \in Closed \/ Consuming(k))'

LEMMA ConsumedStays ==
    ASSUME ActionsAssumption, ActionsInvariant, [Next]_vars, \A p \in Processes : ~Crash(p)
    PROVE  StaysConsumed
  <1>1. Turn \in Processes /\ \A w \in Workers : w \in Processes /\ w # Turn
    BY Names
  <1>2. ASSUME UNCHANGED pendings, call'[Turn] = call[Turn], Turn \in reached => Turn \in reached'
        PROVE  StaysConsumed
    BY <1>2 DEF StaysConsumed, Consuming
  <1>3. ASSUME NEW w \in Workers, Run(w) \/ Conclude(w) PROVE StaysConsumed
    <2>1. CASE \/ Claim(w) \/ Conclude(w) \/ Finish(w) \/ FailRun(w) \/ Reach(w)
               \/ \E k \in Keys : Refuse(w, k)
      BY <1>2, <2>1 DEF Claim, Conclude, Finish, FailRun, Reach, Refuse, data
    <2>2. ASSUME NEW k \in Keys, Begin(w, k) PROVE StaysConsumed
      BY <1>1, <1>2, <2>2, Parts DEF Begin, data, CallsTyped
    <2>3. CASE Answer(w)
      BY <1>1, <1>2, <2>3, Parts DEF Answer, EndCall, CallsTyped
    <2>4. ASSUME NEW k \in Keys, Propose(w, k) PROVE StaysConsumed
      <3>1. pendings[k] = None /\ None \notin Closed /\ "pending" # None
        BY <2>4, Names, Parts DEF Propose, Standing, Proposals, Fits, Closed, Values
      <3>2. \A j \in Keys \ {k} : pendings'[j] = pendings[j]
        BY <2>4, Parts DEF Propose, DataTyped
      <3>3. ~Consuming(k)
        BY <3>1, Names, Parts DEF Consuming, Turns, CallsTyped
      <3>4. UNCHANGED <<call, reached>>
        BY <2>4 DEF Propose
      <3>5. QED
        BY <3>1, <3>2, <3>3, <3>4 DEF StaysConsumed, Consuming
    <2>5. QED
      BY <1>3, <2>1, <2>2, <2>3, <2>4 DEF Run
  <1>4. ASSUME NEW k \in Keys, Ask(k) \/ Lapse(k) \/ SeeLapsed(k) PROVE StaysConsumed
    BY <1>2, <1>4 DEF Ask, Lapse, SeeLapsed, data
  <1>5. ASSUME NEW k \in Keys, Cancel(k) \/ MarkLapsed(k) \/ Reconcile(k) PROVE StaysConsumed
    <2>1. UNCHANGED <<call, reached>>
      BY <1>5 DEF Cancel, MarkLapsed, Reconcile
    <2>2. \A j \in Keys : pendings'[j] = pendings[j] \/ pendings'[j] \in Closed
      BY <1>5, Parts DEF Cancel, MarkLapsed, Reconcile, DataTyped, Closed
    <2>3. QED
      BY <2>1, <2>2 DEF StaysConsumed, Consuming
  <1>6. CASE BeginConfirm
    <2>1. UNCHANGED <<pendings, reached>> /\ call[Turn] = None
      BY <1>6 DEF BeginConfirm, data
    <2>2. \A k \in Keys : ~Consuming(k)
      BY <2>1, Names DEF Consuming
    <2>3. QED
      BY <2>1, <2>2 DEF StaysConsumed
  <1>7. CASE ConfirmInVain
    <2>1. UNCHANGED <<call, reached>>
      BY <1>7 DEF ConfirmInVain
    <2>2. \A j \in Keys : pendings'[j] = pendings[j] \/ pendings'[j] \in Closed
      BY <1>7, Parts DEF ConfirmInVain, DataTyped, Closed
    <2>3. QED
      BY <2>1, <2>2 DEF StaysConsumed, Consuming
  <1>8. CASE AnswerConfirm
    <2>1. call[Turn] \in Keys
      BY <1>1, <1>8, Parts DEF AnswerConfirm, CallsTyped
    <2>2. /\ pendings'[call[Turn]] \in Closed
          /\ \A j \in Keys \ {call[Turn]} : pendings'[j] = pendings[j]
      BY <1>8, <2>1, Parts DEF AnswerConfirm, DataTyped, Closed
    <2>3. QED
      BY <2>2 DEF StaysConsumed, Consuming
  <1>9. CASE Reach(Turn) \/ LoseAccount \/ RevokeGrant
    BY <1>2, <1>9 DEF Reach, LoseAccount, RevokeGrant, data
  <1>10. CASE UNCHANGED vars
    BY <1>2, <1>10 DEF vars, data
  <1>11. QED
    BY <1>3, <1>4, <1>5, <1>6, <1>7, <1>8, <1>9, <1>10 DEF Next

LEMMA ConsumedKept ==
    ASSUME ActionsAssumption, ~Scheduled, MaxCrashes = 0,
           ActionsInvariant, Consumed, [Next]_vars
    PROVE  Consumed'
  <1>1. \A p \in Processes : ~Crash(p)
    BY DEF Crash, Consumed
  <1>2. crashes' = 0
    BY <1>1
       DEF Consumed, Next, vars, Run, Claim, Conclude, Finish, FailRun, Reach, Answer, EndCall,
           Refuse, Propose, Begin, Ask, Cancel, Lapse, SeeLapsed, MarkLapsed, Reconcile,
           BeginConfirm, ConfirmInVain, AnswerConfirm, LoseAccount, RevokeGrant
  <1>3. StaysConsumed
    BY <1>1, ConsumedStays
  <1>4. CASE UNCHANGED sent
    BY <1>2, <1>3, <1>4 DEF Consumed, StaysConsumed
  <1>5. ASSUME NEW p \in Processes, Reach(p) PROVE Consumed'
    <2> PICK k : k = call[p]
      OBVIOUS
    <2>1. /\ k \in Keys /\ p \notin reached /\ reached' = reached \cup {p}
          /\ sent'[k] = sent[k] + 1 /\ \A j \in Keys \ {k} : sent'[j] = sent[j]
      BY <1>5, ReachSends
    <2>2. ASSUME Write(k) PROVE sent'[k] <= 1 /\ Consuming(k)'
      <3>1. p = Turn
        BY <1>5, <2>2, CallIsAuthorised DEF Reach
      <3>2. call[Turn] = k /\ pendings[k] = "pending" /\ Turn \notin reached
        BY <1>5, <2>1, <3>1, Parts DEF Turns, Reach
      <3>3. ~(sent[k] > 0) /\ sent[k] \in Nat
        BY <2>1, <2>2, <3>2, Parts DEF Consumed, Consuming, Closed, CallsTyped
      <3>4. call'[Turn] = k /\ Turn \in reached'
        BY <1>5, <2>1, <3>1, <3>2 DEF Reach
      <3>5. QED
        BY <2>1, <3>3, <3>4 DEF Consuming
    <2>3. QED
      BY <1>2, <1>3, <2>1, <2>2 DEF Consumed, StaysConsumed
  <1>6. QED
    BY <1>4, <1>5, OnlyReachSends

(* A pending action is consumed by the write it confirms: however often    *)
(* the user confirms it, and whatever is cancelled or expires meanwhile,   *)
(* the write is made once.  A crash after the provider's answer loses the  *)
(* record of it, and a confirmation would make it again: MaxCrashes = 0.   *)
THEOREM WriteConsumesConfirmation ==
    ASSUME ActionsAssumption, ~Scheduled, MaxCrashes = 0
    PROVE  Spec => []ConsumedOnce
  <1>1. Init => Consumed
    BY DEF Init, Consumed
  <1>2. ActionsInvariant /\ Consumed /\ [Next]_vars => Consumed'
    BY ConsumedKept
  <1>3. Consumed => ConsumedOnce
    BY DEF Consumed, ConsumedOnce
  <1>4. QED
    BY <1>1, <1>2, <1>3, ActionsInvariantHolds, PTL DEF Spec

-----------------------------------------------------------------------------
(* Where no lease ends under its holder, one worker at a time has the      *)
(* task, and what it looked up before its call is still so.                *)

Exclusive ==
    /\ \A v, w \in Workers : at[v] # "idle" /\ at[w] # "idle" => v = w
    /\ task = "queued" => \A w \in Workers : at[w] = "idle"

(* What a worker is about to write is not, as far as it can see, done.     *)
Unknown == \A w \in Workers : call[w] # None => Matches(call[w]) = {} \/ Hidden(call[w][2])

(* And there is room for it in the grant.                                  *)
Recorded == {k \in Keys : Write(k) /\ actions[k] # None}
Room == \A w \in Workers :
    /\ Scheduled /\ call[w] # None /\ Write(call[w]) /\ actions[call[w]] = None
        => Cardinality(Recorded) < MaxWrites

LEMMA OthersAreIdle ==
    ASSUME ActionsInvariant, Exclusive, NEW w \in Workers, at[w] # "idle"
    PROVE  \A v \in Workers \ {w} : at[v] = "idle" /\ call[v] = None
  BY Parts DEF Exclusive, Calls

LEMMA ExclusiveKept ==
    ASSUME ActionsAssumption, ~Overrun, ActionsInvariant, Exclusive, [Next]_vars
    PROVE  Exclusive'
  <1>1. ASSUME NEW w \in Workers, Claim(w) PROVE Exclusive'
    <2>1. \A v \in Workers : at[v] = "idle"
      BY <1>1 DEF Claim, Exclusive
    <2>2. task' = "running" /\ \A v \in Workers \ {w} : at'[v] = at[v]
      BY <1>1, Parts DEF Claim, CallsTyped
    <2>3. QED
      BY <2>1, <2>2 DEF Exclusive
  <1>2. ASSUME NEW w \in Workers, Conclude(w) \/ Finish(w) \/ FailRun(w) PROVE Exclusive'
    <2>1. /\ at[w] # "idle" /\ \A v \in Workers \ {w} : at'[v] = at[v]
          /\ task' = "queued" => task = "queued" \/ at'[w] = "idle"
      BY <1>2, Parts DEF Conclude, Finish, FailRun, Calling, CallsTyped
    <2>2. \A v \in Workers \ {w} : at'[v] = "idle"
      BY <2>1, OthersAreIdle
    <2>3. QED
      BY <2>1, <2>2 DEF Exclusive
  <1>3. ASSUME \A w \in Workers : at'[w] = at[w] \/ at'[w] = "idle",
               task' = "queued" => task = "queued"
        PROVE  Exclusive'
    BY <1>3 DEF Exclusive
  <1>4. ASSUME NEW p \in Processes, Crash(p) PROVE Exclusive'
    BY <1>3, <1>4 DEF Crash
  <1>5. ASSUME NEW w \in Workers, Run(w) PROVE Exclusive'
    BY <1>1, <1>2, <1>3, <1>5 DEF Run, Refuse, Propose, Begin, Reach, Answer, EndCall
  <1>6. CASE UNCHANGED vars
    BY <1>3, <1>6 DEF vars
  <1>7. CASE AnswerConfirm
    BY <1>3, <1>7 DEF AnswerConfirm, EndCall
  <1>8. ASSUME NEW k \in Keys, Cancel(k) \/ Reconcile(k) PROVE Exclusive'
    BY <1>3, <1>8 DEF Cancel, Reconcile
  <1>9. QED
    BY <1>2, <1>3, <1>4, <1>5, <1>6, <1>7, <1>8
       DEF Next, Ask, Lapse, SeeLapsed, MarkLapsed, BeginConfirm, ConfirmInVain, Reach,
           LoseAccount, RevokeGrant

(* No other step writes an execution while a worker has its call.          *)
LEMMA ExecutionsHeld ==
    ASSUME ActionsAssumption, ActionsInvariant, Exclusive, [Next]_vars,
           NEW w \in Workers, call'[w] # None
    PROVE  \/ call'[w] = call[w] /\ UNCHANGED executions
           \/ \E k \in Keys : Begin(w, k)
  <1>1. Turn \in Processes /\ \A v \in Workers : v \in Processes /\ v # Turn
    BY Names
  <1>2. ASSUME NEW v \in Workers, Run(v) \/ Conclude(v)
        PROVE  \/ call'[w] = call[w] /\ UNCHANGED executions
               \/ \E k \in Keys : Begin(w, k)
    <2>1. CASE Claim(v) \/ Conclude(v) \/ Finish(v) \/ FailRun(v) \/ Reach(v)
      BY <2>1 DEF Claim, Conclude, Finish, FailRun, Reach, data
    <2>2. ASSUME NEW k \in Keys, Begin(v, k) PROVE v = w
      <3>1. call'[w] = call[w] \/ v = w
        BY <1>1, <2>2, Parts DEF Begin, CallsTyped
      <3>2. at[v] # "idle"
        BY <2>2 DEF Begin, Calling
      <3>3. QED
        BY <3>1, <3>2, OthersAreIdle
    <2>3. ASSUME NEW k \in Keys, Refuse(v, k) \/ Propose(v, k) PROVE FALSE
      <3>1. at[v] # "idle" /\ call[v] = None /\ call' = call
        BY <2>3 DEF Refuse, Propose, Calling
      <3>2. QED
        BY <3>1, OthersAreIdle
    <2>4. CASE Answer(v)
      <3>1. at[v] # "idle"
        BY <2>4, Parts DEF Answer, Calls
      <3>2. call'[v] = None /\ (v # w => call'[w] = call[w])
        BY <1>1, <2>4, Parts DEF Answer, EndCall, CallsTyped
      <3>3. QED
        BY <3>1, <3>2, OthersAreIdle
    <2>5. QED
      BY <1>2, <2>1, <2>2, <2>3, <2>4 DEF Run
  <1>3. CASE BeginConfirm
    BY <1>1, <1>3, Parts DEF BeginConfirm, data, CallsTyped
  <1>4. CASE AnswerConfirm
    BY <1>1, <1>4, Parts DEF AnswerConfirm, EndCall, CallsTyped
  <1>5. ASSUME NEW p \in Processes, Crash(p)
        PROVE  call'[w] = call[w] /\ UNCHANGED executions
    BY <1>1, <1>5, Parts DEF Crash, data, CallsTyped
  <1>6. ASSUME NEW k \in Keys,
               \/ Ask(k) \/ Cancel(k) \/ Lapse(k) \/ SeeLapsed(k)
               \/ MarkLapsed(k) \/ Reconcile(k)
        PROVE  call'[w] = call[w] /\ UNCHANGED executions
    BY <1>6 DEF Ask, Cancel, Lapse, SeeLapsed, MarkLapsed, Reconcile, data
  <1>7. CASE ConfirmInVain \/ Reach(Turn) \/ LoseAccount \/ RevokeGrant \/ UNCHANGED vars
    BY <1>7 DEF ConfirmInVain, Reach, LoseAccount, RevokeGrant, vars, data
  <1>8. QED
    BY <1>2, <1>3, <1>4, <1>5, <1>6, <1>7 DEF Next

LEMMA UnknownKept ==
    ASSUME ActionsAssumption, ActionsInvariant, Exclusive, Unknown, [Next]_vars
    PROVE  Unknown'
  <1> SUFFICES ASSUME NEW w \in Workers, call'[w] # None
               PROVE  Matches(call[w])' = {} \/ Hidden(call[w][2])'
    BY DEF Unknown
  <1> PICK k : k = call'[w]
    OBVIOUS
  <1>1. ASSUME Matches(k) = {} \/ Hidden(k[2]), UNCHANGED executions
        PROVE  Matches(call[w])' = {} \/ Hidden(call[w][2])'
    BY <1>1 DEF Matches, Hidden
  <1>2. CASE call'[w] = call[w] /\ UNCHANGED executions
    BY <1>1, <1>2 DEF Unknown
  <1>3. ASSUME NEW j \in Keys, Begin(w, j) PROVE Matches(call[w])' = {} \/ Hidden(call[w][2])'
    <2>1. call'[w] = j /\ UNCHANGED executions
      BY <1>3, Names, Parts DEF Begin, data, CallsTyped
    <2>2. Matches(j) = {} \/ Hidden(j[2])
      BY <1>3 DEF Begin, Proceeds, Matches, Hidden
    <2>3. QED
      BY <1>1, <2>1, <2>2
  <1>4. QED
    BY <1>2, <1>3, ExecutionsHeld

LEMMA ExclusiveHolds ==
    ASSUME ActionsAssumption, ~Overrun
    PROVE  Spec => []Exclusive
  <1>1. Init => Exclusive
    BY DEF Init, Exclusive
  <1>2. ActionsInvariant /\ Exclusive /\ [Next]_vars => Exclusive'
    BY ExclusiveKept
  <1>3. QED
    BY <1>1, <1>2, ActionsInvariantHolds, PTL DEF Spec

LEMMA UnknownHolds ==
    ASSUME ActionsAssumption, ~Overrun
    PROVE  Spec => []Unknown
  <1>1. Init => Unknown
    BY Names DEF Init, Unknown
  <1>2. ActionsInvariant /\ Exclusive /\ Unknown /\ [Next]_vars => Unknown'
    BY UnknownKept
  <1>3. QED
    BY <1>1, <1>2, ActionsInvariantHolds, ExclusiveHolds, PTL DEF Spec

(* A write that was made and recorded is not made again, in a later step   *)
(* of the agent or in a later attempt of the task, as long as no failed    *)
(* execution with the same arguments may hide the record: for a worker,    *)
(* because it found none before its call, and nobody records one while it  *)
(* has the task; for the turn, because a write is proposed once.           *)
THEOREM KnownWriteNotRepeated ==
    ASSUME ActionsAssumption, ~Overrun
    PROVE  Spec => KnownNotRepeated
  <1> DEFINE Kept == \A k \in Keys : Write(k) /\ Made(k[2]) /\ ~Hidden(k[2]) => sent'[k] = sent[k]
  <1>1. ASSUME ActionsInvariant, Unknown, [Next]_vars PROVE Kept
    <2>1. ASSUME NEW p \in Processes, Reach(p), Write(call[p])
          PROVE  ~Made(call[p][2]) \/ Hidden(call[p][2])
      <3> PICK k : k = call[p]
        OBVIOUS
      <3> SUFFICES ASSUME NEW e \in Keys, e[2] = k[2], executions[e] = "ok",
                          actions[e] = "completed", ~Hidden(k[2])
                   PROVE  FALSE
        BY DEF Made
      <3>1. k \in Keys /\ k # None /\ Write(k) /\ Write(e)
        BY <1>1, <2>1, ReachSends DEF Reach, Write
      <3>2. CASE p \in Workers
        <4>1. e \in Matches(k)
          BY Names DEF Matches, Values
        <4>2. QED
          BY <1>1, <3>1, <3>2, <4>1 DEF Unknown
      <3>3. CASE p = Turn
        <4>1. pendings[k] = "pending" /\ "pending" # None
          BY <1>1, <3>1, <3>3, Names, Parts DEF Turns, Values
        <4>2. ~Scheduled /\ actions[k] = "proposed"
          BY <1>1, <3>1, <4>1, Parts DEF Proposals, Fits
        <4>3. actions[e] # None
          BY Names DEF Values
        <4>4. pendings[e] # None
          BY <1>1, <3>1, <4>2, <4>3, Parts DEF Proposals, Fits
        <4>5. e = k
          BY <1>1, <3>1, <4>1, <4>4, Parts DEF ProposedOnce
        <4>6. QED
          BY <4>2, <4>5
      <3>4. QED
        BY <3>2, <3>3 DEF Processes
    <2>2. QED
      BY <1>1, <2>1, OnlyReachSends, ReachSends
  <1>2. ActionsInvariant /\ Unknown /\ [Next]_vars => [Kept]_vars
    BY <1>1
  <1>3. Spec => [][Kept]_vars
    BY <1>2, ActionsInvariantHolds, UnknownHolds, PTL DEF Spec
  <1>4. QED
    BY <1>3 DEF KnownNotRepeated

-----------------------------------------------------------------------------
(* The grant of a routine.                                                 *)

(* A routine's run writes actions only as it answers its calls.            *)
LEMMA OnlyAnswerRecords ==
    ASSUME ActionsAssumption, Scheduled, ActionsInvariant, [Next]_vars
    PROVE  UNCHANGED actions \/ \E w \in Workers : Answer(w)
  <1>1. \A k \in Keys : pendings[k] = None
    BY Parts DEF Proposals, Fits
  <1>2. message = None /\ call[Turn] = None
    BY <1>1, Names, Parts DEF Turns, CallsTyped
  <1>3. ASSUME NEW w \in Workers, Run(w) \/ Conclude(w), ~Answer(w)
        PROVE  UNCHANGED actions
    BY <1>3
       DEF Run, Claim, Conclude, Finish, FailRun, Reach, Refuse, Propose, Standing, Begin, data
  <1>4. ASSUME NEW k \in Keys, Cancel(k) PROVE FALSE
    BY <1>1, <1>4, Names DEF Cancel, Confirmable, Values
  <1>5. QED
    BY <1>2, <1>3, <1>4
       DEF Next, vars, data, Ask, Lapse, SeeLapsed, MarkLapsed, Reconcile, BeginConfirm,
           ConfirmInVain, AnswerConfirm, Reach, LoseAccount, RevokeGrant, Crash

Limited == Cardinality(Recorded) <= MaxWrites /\ Room

LEMMA LimitedKept ==
    ASSUME ActionsAssumption, Scheduled, IsFiniteSet(Keys), ActionsInvariant, Exclusive,
           Limited, [Next]_vars
    PROVE  Limited'
  <1> PICK before : before = Recorded
    OBVIOUS
  <1> PICK after : after = Recorded'
    OBVIOUS
  <1>1. MaxWrites \in Nat
    BY DEF ActionsAssumption
  <1>2. IsFiniteSet(before) /\ IsFiniteSet(after) /\ Cardinality(before) \in Nat
    <2>1. before \in SUBSET Keys /\ after \in SUBSET Keys
      BY DEF Recorded
    <2>2. QED
      BY <2>1, FS_Subset, FS_CardinalityType
  <1>3. CASE UNCHANGED actions
    <2>1. after = before
      BY <1>3 DEF Recorded
    <2>2. ASSUME NEW w \in Workers, call'[w] # None, Write(call'[w]), actions[call'[w]] = None
          PROVE  Cardinality(before) < MaxWrites
      <3>1. CASE call'[w] = call[w]
        BY <2>2, <3>1 DEF Limited, Room
      <3>2. ASSUME NEW k \in Keys, Begin(w, k) PROVE Cardinality(before) < MaxWrites
        <4>1. call'[w] = k
          BY <3>2, Names, Parts DEF Begin, CallsTyped
        <4>2. ~(Cardinality(before) >= MaxWrites)
          BY <2>2, <3>2, <4>1 DEF Begin, TooMany, Recorded
        <4>3. QED
          BY <1>1, <1>2, <4>2
      <3>3. QED
        BY <2>2, <3>1, <3>2, ExecutionsHeld
    <2>3. QED
      BY <1>3, <2>1, <2>2 DEF Limited, Room, Recorded
  <1>4. ASSUME NEW w \in Workers, Answer(w) PROVE Limited'
    <2> PICK k : k = call[w]
      OBVIOUS
    <2>1. k \in Keys /\ k # None /\ at[w] # "idle" /\ w \in Processes
      BY <1>4, Names, Parts DEF Answer, Calls, CallsTyped
    <2>2. \A j \in Keys \ {k} : actions'[j] = actions[j]
      BY <1>4, <2>1, Parts DEF Answer, DataTyped
    <2>3. Cardinality(after) <= MaxWrites
      <3>1. CASE Write(k) /\ actions[k] = None
        <4>1. Cardinality(before) < MaxWrites
          BY <2>1, <3>1 DEF Limited, Room
        <4>2. after \in SUBSET (before \cup {k})
          BY <2>2 DEF Recorded
        <4>3. /\ IsFiniteSet(before \cup {k})
              /\ Cardinality(before \cup {k}) =
                    IF k \in before THEN Cardinality(before) ELSE Cardinality(before) + 1
          BY <1>2, FS_AddElement
        <4>4. Cardinality(after) <= Cardinality(before \cup {k})
          BY <4>2, <4>3, FS_Subset
        <4>5. Cardinality(after) \in Nat
          BY <1>2, FS_CardinalityType
        <4>6. Cardinality(before \cup {k}) \in Nat
          BY <4>3, FS_CardinalityType
        <4>7. QED
          BY <1>1, <1>2, <4>1, <4>3, <4>4, <4>5, <4>6
      <3>2. CASE ~(Write(k) /\ actions[k] = None)
        <4>1. after \in SUBSET before
          BY <2>1, <2>2, <3>2 DEF Recorded
        <4>2. Cardinality(after) <= Cardinality(before)
          BY <1>2, <4>1, FS_Subset
        <4>3. Cardinality(after) \in Nat
          BY <1>2, FS_CardinalityType
        <4>4. QED
          BY <1>1, <1>2, <4>2, <4>3 DEF Limited
      <3>3. QED
        BY <3>1, <3>2
    <2>4. \A v \in Workers : call'[v] = None
      <3>1. \A v \in Workers \ {w} : call[v] = None
        BY <2>1, OthersAreIdle
      <3>2. call'[w] = None /\ \A v \in Workers \ {w} : call'[v] = call[v]
        BY <1>4, Names, Parts DEF Answer, EndCall, CallsTyped
      <3>3. QED
        BY <3>1, <3>2
    <2>5. QED
      BY <2>3, <2>4 DEF Limited, Room
  <1>5. QED
    BY <1>3, <1>4, OnlyAnswerRecords

(* A run of a routine does not record more writes than its grant has of    *)
(* them.  The rows are counted before the provider is called and the row   *)
(* of the call is added after: of two workers with the task, each would    *)
(* find room for its own, hence no lease may end under its holder.         *)
THEOREM GrantIsKept ==
    ASSUME ActionsAssumption, ~Overrun, IsFiniteSet(Keys)
    PROVE  Spec => []WithinLimit
  <1>1. CASE Scheduled
    <2>1. Init => Limited
      <3> SUFFICES ASSUME Init PROVE Limited
        OBVIOUS
      <3>1. Recorded = {}
        BY DEF Init, Recorded
      <3>2. Room
        BY Names DEF Init, Room
      <3>3. QED
        BY <3>1, <3>2, FS_EmptySet DEF Limited, ActionsAssumption
    <2>2. ActionsInvariant /\ Exclusive /\ Limited /\ [Next]_vars => Limited'
      BY <1>1, LimitedKept
    <2>3. Limited => WithinLimit
      BY DEF Limited, WithinLimit, Recorded
    <2>4. QED
      BY <2>1, <2>2, <2>3, ActionsInvariantHolds, ExclusiveHolds, PTL DEF Spec
  <1>2. CASE ~Scheduled
    <2>1. WithinLimit
      BY <1>2 DEF WithinLimit
    <2>2. QED
      BY <2>1, PTL
  <1>3. QED
    BY <1>1, <1>2
=============================================================================
