------------------------ MODULE ChannelPipelineProofs ------------------------
(***************************************************************************)
(* Proofs about the channel's queues, for any messages, workers, attempts  *)
(* and crashes.  What leases give is proved for leases that outlast the    *)
(* work they cover (~Overrun); the rest holds of workers that overtake     *)
(* each other as well.                                                     *)
(***************************************************************************)
EXTENDS ChannelPipeline, TLAPS

-----------------------------------------------------------------------------
(* Rows.                                                                   *)

Statuses == {"none", "transcribing", "ready", "taken", "waiting", "done", "failed"}

LEMMA JobKinds ==
    /\ \A k \in Kinds, m \in Messages : <<k, m>> \in Jobs
    /\ \A m \in Messages : <<"reply", m>> \in Outbox /\ <<"result", m>> \in Outbox
    /\ \A j \in Outbox : j \in Jobs
    /\ \A j \in Jobs : j[1] \in Kinds /\ j[2] \in Messages /\ j = <<j[1], j[2]>>
    /\ NoJob \notin Jobs
  BY JobAssumption DEF Jobs, Outbox, Kinds

LEMMA NewRowFields ==
    /\ NewRow \in Row
    /\ NewRow.status = "ready" /\ NewRow.attempts = 0 /\ NewRow.lease = "none"
  BY DEF NewRow, NoRow, Row

(* A closed row keeps its attempts.                                        *)
LEMMA ClosedFields ==
    ASSUME TypeOK, NEW j \in Jobs, NEW status \in Statuses
    PROVE  /\ Closed(j, status) \in Row
           /\ Closed(j, status).status = status
           /\ Closed(j, status).attempts = row[j].attempts
           /\ Closed(j, status).lease = "none"
  BY DEF TypeOK, Closed, Row, Statuses

(* A row is stored in place of the one it was, with no more attempts than  *)
(* its queue allows.                                                       *)
RowFits(j, r) == r \in Row /\ r.attempts <= MaxAttempts[j[1]]
RowsFit(rows) == rows \in [Jobs -> Row] /\ \A j \in Jobs : RowFits(j, rows[j])

LEMMA RowStored ==
    ASSUME NEW rows, RowsFit(rows), NEW j \in Jobs, NEW r, RowFits(j, r)
    PROVE  RowsFit([rows EXCEPT ![j] = r])
  BY DEF RowsFit, RowFits

LEMMA NewRowFits == \A j \in Jobs : RowFits(j, NewRow)
  BY NewRowFields, JobKinds, JobAssumption DEF RowFits

LEMMA ClosedFits ==
    ASSUME TypeOK, NEW j \in Jobs, NEW status \in Statuses
    PROVE  RowFits(j, Closed(j, status))
  BY ClosedFields DEF RowFits, TypeOK

LEMMA RowsTyped == TypeOK => RowsFit(row)
  BY DEF TypeOK, RowsFit, RowFits

(* A change of one field of a row.                                         *)
LEMMA StatusFits ==
    ASSUME TypeOK, NEW j \in Jobs, NEW status \in Statuses
    PROVE  /\ RowFits(j, [row[j] EXCEPT !.status = status])
           /\ [row[j] EXCEPT !.status = status].status = status
           /\ [row[j] EXCEPT !.status = status].lease = row[j].lease
  BY DEF RowFits, TypeOK, Row, Statuses

LEMMA LeaseFits ==
    ASSUME TypeOK, NEW j \in Jobs
    PROVE  /\ RowFits(j, [row[j] EXCEPT !.lease = "lapsed"])
           /\ [row[j] EXCEPT !.lease = "lapsed"].status = row[j].status
           /\ [row[j] EXCEPT !.lease = "lapsed"].lease = "lapsed"
  BY DEF RowFits, TypeOK, Row

LEMMA ClaimedFits ==
    ASSUME TypeOK, NEW j \in Jobs
    PROVE  RowFits(j, [status |-> "taken", lease |-> "held", attempts |-> CountAttempt(j)])
  <1>1. /\ row[j].attempts \in Nat /\ row[j].attempts <= MaxAttempts[j[1]]
        /\ MaxAttempts[j[1]] \in Nat
    BY JobKinds, JobAssumption DEF TypeOK, Row
  <1>2. CountAttempt(j) \in Nat /\ CountAttempt(j) <= MaxAttempts[j[1]]
    BY <1>1 DEF CountAttempt, MayRetry
  <1>3. QED
    BY <1>2 DEF RowFits, Row

(* The result of a task is stored once, and says then whether it depends   *)
(* on the acknowledgment.                                                  *)
LEMMA ResultStored ==
    ASSUME TypeOK, NEW m \in Messages, NEW rows, RowsFit(rows), NEW known \in BOOLEAN,
           PersistResult(m, rows, known)
    PROVE  RowsFit(row') /\ dep' \in [Messages -> BOOLEAN]
  BY RowStored, NewRowFits, JobKinds DEF PersistResult, TypeOK, Kinds

-----------------------------------------------------------------------------
(* Types.                                                                  *)

(* The rows and flags, and what is at hand and was sent.                   *)
StoreTyped ==
    /\ RowsFit(row)
    /\ settled \in [Messages -> BOOLEAN]
    /\ ack \in [Messages -> BOOLEAN] /\ dep \in [Messages -> BOOLEAN]

WorkersTyped ==
    /\ worker \in [Workers -> WorkerState]
    /\ \A w \in Workers : worker[w].phase = "idle" <=> worker[w].job = NoJob
    /\ delivered \in [Outbox -> 0..2]
    /\ crashes \in 0..MaxCrashes

LEMMA TypeParts == TypeOK <=> StoreTyped /\ WorkersTyped
  BY DEF TypeOK, StoreTyped, WorkersTyped, RowsFit, RowFits

LEMMA WorkerFields ==
    ASSUME TypeOK, NEW w \in Workers
    PROVE  /\ worker[w] \in WorkerState
           /\ worker[w].job \in Jobs \cup {NoJob} /\ worker[w].known \in BOOLEAN
           /\ worker[w].job # NoJob => worker[w].job \in Jobs
  BY DEF TypeOK, WorkerState

LEMMA IdleFields ==
    /\ Idle \in WorkerState
    /\ Idle.job = NoJob /\ Idle.phase = "idle" /\ Idle.known = FALSE
  BY DEF Idle, WorkerState

(* A worker takes up a state of its own.                                   *)
LEMMA WorkerStored ==
    ASSUME TypeOK, NEW w \in Workers, NEW state \in WorkerState,
           state.phase = "idle" <=> state.job = NoJob,
           worker' = [worker EXCEPT ![w] = state]
    PROVE  /\ worker' \in [Workers -> WorkerState]
           /\ \A v \in Workers : worker'[v].phase = "idle" <=> worker'[v].job = NoJob
  BY DEF TypeOK

LEMMA ReleaseTyped ==
    ASSUME TypeOK, NEW w \in Workers, Release(w), UNCHANGED <<delivered, crashes>>
    PROVE  WorkersTyped'
  <1>1. worker' = [worker EXCEPT ![w] = Idle]
    BY DEF Release
  <1>2. /\ worker' \in [Workers -> WorkerState]
        /\ \A v \in Workers : worker'[v].phase = "idle" <=> worker'[v].job = NoJob
    BY <1>1, IdleFields, WorkerStored
  <1>3. QED
    BY <1>2 DEF WorkersTyped, TypeOK

(* A worker goes on with the job it has.                                   *)
LEMMA PhaseFields ==
    ASSUME TypeOK, NEW w \in Workers, worker[w].job # NoJob, NEW known \in BOOLEAN,
           NEW phase \in {"claimed", "routing", "delegated", "answered", "sent"}
    PROVE  LET state == [worker[w] EXCEPT !.phase = phase, !.known = known]
           IN  /\ state \in WorkerState
               /\ state.job = worker[w].job /\ state.phase = phase
               /\ state.known <=> known
  <1> DEFINE state == [worker[w] EXCEPT !.phase = phase, !.known = known]
  <1>1. worker[w] \in WorkerState
    BY WorkerFields
  <1>2. state \in WorkerState /\ state.job = worker[w].job /\ state.phase = phase
    BY <1>1 DEF WorkerState
  <1>3. state.known = known
    BY <1>1 DEF WorkerState
  <1>4. QED
    BY <1>2, <1>3

-----------------------------------------------------------------------------
(* What an action does to the worker that takes it.                        *)

(* Worker w has that job, at that phase, and no other worker moved.        *)
Moves(w, job, phase) ==
    /\ worker' \in [Workers -> WorkerState]
    /\ worker'[w].job = job /\ worker'[w].phase = phase
    /\ \A v \in Workers \ {w} : worker'[v] = worker[v]

LEMMA MovesTyped ==
    ASSUME TypeOK, NEW w \in Workers, NEW job, NEW phase, Moves(w, job, phase),
           phase = "idle" <=> job = NoJob,
           delivered' \in [Outbox -> 0..2], crashes' \in 0..MaxCrashes
    PROVE  WorkersTyped'
  <1>1. ASSUME NEW v \in Workers
        PROVE  worker'[v].phase = "idle" <=> worker'[v].job = NoJob
    <2>1. CASE v = w
      BY <2>1 DEF Moves
    <2>2. CASE v # w
      BY <2>2 DEF Moves, TypeOK
    <2>3. QED
      BY <2>1, <2>2
  <1>2. QED
    BY <1>1 DEF Moves, WorkersTyped

LEMMA ReleaseMoves ==
    ASSUME TypeOK, NEW w \in Workers, Release(w)
    PROVE  Moves(w, NoJob, "idle")
  <1>1. worker' = [worker EXCEPT ![w] = Idle]
    BY DEF Release
  <1> HIDE DEF Idle
  <1>2. QED
    BY <1>1, IdleFields DEF Moves, TypeOK

LEMMA ClaimMoves ==
    ASSUME TypeOK, NEW w \in Workers, NEW j \in Jobs, Claim(w, j)
    PROVE  Moves(w, j, "claimed")
  <1> DEFINE known == \E m \in Messages : j = <<"task", m>> /\ ack[m]
             state == [job |-> j, phase |-> "claimed", known |-> known]
  <1>1. known \in BOOLEAN
    OBVIOUS
  <1>2. worker' = [worker EXCEPT ![w] = state]
    BY DEF Claim
  <1> HIDE DEF known
  <1>3. state \in WorkerState /\ state.job = j /\ state.phase = "claimed"
    BY <1>1 DEF WorkerState
  <1> HIDE DEF state
  <1>4. QED
    BY <1>2, <1>3 DEF Moves, TypeOK

LEMMA BeginMoves ==
    ASSUME TypeOK, NEW w \in Workers, NEW m \in Messages, Begin(w, m)
    PROVE  /\ Moves(w, <<"message", m>>, IF settled[m] THEN "answered" ELSE "routing")
           /\ settled[m] => (worker'[w].known <=> Exists(<<"task", m>>))
  <1> DEFINE phase == IF settled[m] THEN "answered" ELSE "routing"
             known == settled[m] /\ Exists(<<"task", m>>)
             state == [worker[w] EXCEPT !.phase = phase, !.known = known]
  <1>1. /\ known \in BOOLEAN
        /\ phase \in {"claimed", "routing", "delegated", "answered", "sent"}
    BY DEF TypeOK
  <1>2. /\ worker' = [worker EXCEPT ![w] = state]
        /\ worker[w].job = <<"message", m>> /\ worker[w].job # NoJob
    BY JobKinds DEF Begin, Kinds
  <1>3. settled[m] => (known <=> Exists(<<"task", m>>))
    OBVIOUS
  <1> HIDE DEF known, phase
  <1>4. /\ state \in WorkerState /\ state.job = <<"message", m>> /\ state.phase = phase
        /\ state.known <=> known
    <2>1. worker[w] \in WorkerState
      BY WorkerFields
    <2>2. /\ state \in WorkerState /\ state.job = <<"message", m>>
          /\ state.phase = phase
      BY <1>1, <1>2, <2>1 DEF WorkerState
    <2>3. state.known = known
      BY <1>1, <2>1 DEF WorkerState
    <2>4. QED
      BY <2>2, <2>3
  <1> HIDE DEF state
  <1>5. Moves(w, <<"message", m>>, phase) /\ worker'[w] = state
    BY <1>2, <1>4 DEF Moves, TypeOK
  <1>6. QED
    BY <1>3, <1>4, <1>5 DEF phase

LEMMA DelegateMoves ==
    ASSUME TypeOK, NEW w \in Workers, NEW m \in Messages, Delegate(w, m)
    PROVE  Moves(w, <<"message", m>>, "delegated")
  <1> DEFINE state == [worker[w] EXCEPT !.phase = "delegated"]
  <1>1. worker' = [worker EXCEPT ![w] = state]
    BY DEF Delegate
  <1>2. state \in WorkerState /\ state.job = <<"message", m>> /\ state.phase = "delegated"
    BY WorkerFields DEF WorkerState, Delegate
  <1> HIDE DEF state
  <1>3. QED
    BY <1>1, <1>2 DEF Moves, TypeOK

LEMMA SettleMoves ==
    ASSUME TypeOK, NEW w \in Workers, NEW m \in Messages, Settle(w, m)
    PROVE  /\ Moves(w, <<"message", m>>, "answered")
           /\ worker'[w].known <=> Exists(<<"task", m>>)
  <1> DEFINE known == Exists(<<"task", m>>)
             state == [worker[w] EXCEPT !.phase = "answered", !.known = known]
  <1>1. known \in BOOLEAN
    BY DEF Exists
  <1>2. /\ worker' = [worker EXCEPT ![w] = state]
        /\ worker[w].job = <<"message", m>> /\ worker[w].job # NoJob
    BY JobKinds DEF Settle, Kinds
  <1> HIDE DEF known
  <1>3. /\ state \in WorkerState /\ state.job = <<"message", m>>
        /\ state.phase = "answered" /\ (state.known <=> known)
    BY <1>1, <1>2, PhaseFields
  <1> HIDE DEF state
  <1>4. Moves(w, <<"message", m>>, "answered") /\ worker'[w] = state
    BY <1>2, <1>3 DEF Moves, TypeOK
  <1>5. QED
    BY <1>3, <1>4 DEF known

LEMMA SendMoves ==
    ASSUME TypeOK, NEW w \in Workers, NEW j \in Outbox, Send(w, j)
    PROVE  Moves(w, j, "sent")
  <1> DEFINE state == [worker[w] EXCEPT !.phase = "sent"]
  <1>1. worker' = [worker EXCEPT ![w] = state]
    BY DEF Send
  <1>2. state \in WorkerState /\ state.job = j /\ state.phase = "sent"
    BY WorkerFields DEF WorkerState, Send
  <1> HIDE DEF state
  <1>3. QED
    BY <1>1, <1>2 DEF Moves, TypeOK

-----------------------------------------------------------------------------
(* What an action does to the rows.                                        *)

(* Row j gets that status and lease, or rows j and k do, and no other row  *)
(* changes.                                                                *)
Becomes(j, status, lease) ==
    /\ RowsFit(row')
    /\ row'[j].status = status /\ row'[j].lease = lease
    /\ \A i \in Jobs \ {j} : row'[i] = row[i]

BothBecome(j, status, k, other) ==
    /\ RowsFit(row')
    /\ row'[j].status = status /\ row'[j].lease = "none"
    /\ row'[k].status = other /\ row'[k].lease = "none"
    /\ \A i \in Jobs \ {j, k} : row'[i] = row[i]

LEMMA StoringOne ==
    ASSUME TypeOK, NEW j \in Jobs, NEW r, RowFits(j, r), row' = [row EXCEPT ![j] = r]
    PROVE  Becomes(j, r.status, r.lease)
  BY RowsTyped, RowStored DEF Becomes, RowsFit

LEMMA StoringTwo ==
    ASSUME TypeOK, NEW j \in Jobs, NEW r, RowFits(j, r), NEW k \in Jobs \ {j},
           NEW q, RowFits(k, q), r.lease = "none", q.lease = "none",
           row' = [[row EXCEPT ![j] = r] EXCEPT ![k] = q]
    PROVE  BothBecome(j, r.status, k, q.status)
  <1> DEFINE rows == [row EXCEPT ![j] = r]
  <1>1. RowsFit(rows) /\ rows[j] = r /\ \A i \in Jobs \ {j} : rows[i] = row[i]
    BY RowsTyped, RowStored DEF RowsFit
  <1>2. row' = [rows EXCEPT ![k] = q]
    OBVIOUS
  <1> HIDE DEF rows
  <1>3. k \in Jobs
    OBVIOUS
  <1>4. RowsFit(row')
    <2>1. RowsFit(rows) /\ RowFits(k, q)
      BY <1>1
    <2>2. RowsFit([rows EXCEPT ![k] = q])
      BY <1>3, <2>1, RowStored
    <2>3. QED
      BY <1>2, <2>2
  <1>5. row'[k] = q /\ \A i \in Jobs \ {k} : row'[i] = rows[i]
    BY <1>1, <1>2, <1>3 DEF RowsFit
  <1>6. QED
    BY <1>1, <1>4, <1>5 DEF BothBecome

LEMMA ArriveRows ==
    ASSUME TypeOK, NEW m \in Messages, NEW status \in {"ready", "transcribing"},
           Arrive(m, status)
    PROVE  Becomes(<<"message", m>>, status, row[<<"message", m>>].lease)
  <1> DEFINE j == <<"message", m>>
             r == [row[j] EXCEPT !.status = status]
  <1>1. j \in Jobs /\ status \in Statuses
    BY JobKinds DEF Kinds, Statuses
  <1>2. row' = [row EXCEPT ![j] = r]
    BY DEF Arrive
  <1> HIDE DEF j
  <1>3. RowFits(j, r) /\ r.status = status /\ r.lease = row[j].lease
    BY <1>1, StatusFits
  <1> HIDE DEF r
  <1>4. Becomes(j, r.status, r.lease)
    BY <1>1, <1>2, <1>3, StoringOne
  <1>5. QED
    BY <1>3, <1>4 DEF j

LEMMA TranscribedRows ==
    ASSUME TypeOK, NEW m \in Messages, Transcribed(m)
    PROVE  \/ Becomes(<<"message", m>>, "ready", row[<<"message", m>>].lease)
           \/ /\ RowsFit(row')
              /\ row'[<<"message", m>>].status = "failed"
              /\ row'[<<"message", m>>].lease = row[<<"message", m>>].lease
              /\ row'[<<"reply", m>>].status = "ready"
              /\ row'[<<"reply", m>>].lease = "none"
              /\ \A i \in Jobs \ {<<"message", m>>, <<"reply", m>>} : row'[i] = row[i]
  <1> DEFINE j == <<"message", m>>
             k == <<"reply", m>>
             r(status) == [row[j] EXCEPT !.status = status]
  <1>1. j \in Jobs /\ k \in Jobs /\ j # k
    BY JobKinds DEF Kinds
  <1>2. \/ row' = [row EXCEPT ![j] = r("ready")]
        \/ row' = [[row EXCEPT ![j] = r("failed")] EXCEPT ![k] = NewRow]
    BY DEF Transcribed
  <1> HIDE DEF j, k
  <1>3. \A status \in Statuses :
            /\ RowFits(j, r(status))
            /\ r(status).status = status /\ r(status).lease = row[j].lease
    BY <1>1, StatusFits
  <1>4. "ready" \in Statuses /\ "failed" \in Statuses
    BY DEF Statuses
  <1> HIDE DEF r
  <1>5. CASE row' = [row EXCEPT ![j] = r("ready")]
    <2>1. Becomes(j, r("ready").status, r("ready").lease)
      BY <1>1, <1>3, <1>4, <1>5, StoringOne
    <2>2. Becomes(j, "ready", row[j].lease)
      BY <2>1, <1>3, <1>4
    <2>3. QED
      BY <2>2 DEF j
  <1>6. CASE row' = [[row EXCEPT ![j] = r("failed")] EXCEPT ![k] = NewRow]
    <2> DEFINE rows == [row EXCEPT ![j] = r("failed")]
    <2>1. RowsFit(rows)
      BY <1>1, <1>3, <1>4, RowsTyped, RowStored
    <2>2. /\ rows[j].status = "failed" /\ rows[j].lease = row[j].lease
          /\ \A i \in Jobs \ {j} : rows[i] = row[i]
      BY <1>1, <1>3, <1>4 DEF TypeOK
    <2>3. row' = [rows EXCEPT ![k] = NewRow]
      BY <1>6
    <2> HIDE DEF rows
    <2>4. RowsFit(row') /\ row'[k] = NewRow /\ \A i \in Jobs \ {k} : row'[i] = rows[i]
      BY <1>1, <2>1, <2>3, RowStored, NewRowFits DEF RowsFit
    <2>5. /\ row'[j].status = "failed" /\ row'[j].lease = row[j].lease
          /\ row'[k].status = "ready" /\ row'[k].lease = "none"
          /\ \A i \in Jobs \ {j, k} : row'[i] = row[i]
      BY <1>1, <2>2, <2>4, NewRowFields
    <2>6. QED
      BY <2>4, <2>5 DEF j, k
  <1>7. QED
    BY <1>2, <1>5, <1>6

LEMMA ClaimRows ==
    ASSUME TypeOK, NEW w \in Workers, NEW j \in Jobs, Claim(w, j)
    PROVE  Becomes(j, "taken", "held")
  <1> DEFINE r == [status |-> "taken", lease |-> "held", attempts |-> CountAttempt(j)]
  <1>1. row' = [row EXCEPT ![j] = r]
    BY DEF Claim
  <1>2. RowFits(j, r)
    BY ClaimedFits
  <1>3. r.status = "taken" /\ r.lease = "held"
    OBVIOUS
  <1> HIDE DEF r
  <1>4. Becomes(j, r.status, r.lease)
    BY <1>1, <1>2, StoringOne
  <1>5. QED
    BY <1>3, <1>4

LEMMA DelegateRows ==
    ASSUME TypeOK, NEW w \in Workers, NEW m \in Messages, Delegate(w, m)
    PROVE  IF Exists(<<"task", m>>) THEN row' = row ELSE Becomes(<<"task", m>>, "ready", "none")
  <1> DEFINE j == <<"task", m>>
  <1>1. j \in Jobs
    BY JobKinds DEF Kinds
  <1>2. row' = [row EXCEPT ![j] = IF Exists(j) THEN row[j] ELSE NewRow]
    BY DEF Delegate
  <1> HIDE DEF j
  <1>3. CASE Exists(j)
    BY <1>2, <1>3 DEF TypeOK, j
  <1>4. CASE ~Exists(j)
    <2>1. Becomes(j, NewRow.status, NewRow.lease)
      BY <1>1, <1>2, <1>4, NewRowFits, StoringOne
    <2>2. QED
      BY <1>4, <2>1, NewRowFields DEF j
  <1>5. QED
    BY <1>3, <1>4

LEMMA ReplyRows ==
    ASSUME TypeOK, NEW w \in Workers, NEW m \in Messages, Reply(w, m)
    PROVE  BothBecome(<<"reply", m>>, "ready", <<"message", m>>, "done")
  <1> DEFINE j == <<"reply", m>>
             k == <<"message", m>>
             q == Closed(k, "done")
  <1>1. j \in Jobs /\ k \in Jobs \ {j} /\ k \in Jobs /\ "done" \in Statuses
    BY JobKinds DEF Kinds, Statuses
  <1>2. row' = [[row EXCEPT ![j] = NewRow] EXCEPT ![k] = q]
    BY DEF Reply
  <1> HIDE DEF j, k
  <1>3. RowFits(k, q) /\ q.status = "done" /\ q.lease = "none"
    BY <1>1, ClosedFits, ClosedFields
  <1>4. RowFits(j, NewRow) /\ NewRow.status = "ready" /\ NewRow.lease = "none"
    BY <1>1, NewRowFits, NewRowFields
  <1> HIDE DEF q
  <1>5. BothBecome(j, NewRow.status, k, q.status)
    BY <1>1, <1>2, <1>3, <1>4, StoringTwo
  <1>6. QED
    BY <1>3, <1>4, <1>5 DEF j, k

LEMMA CloseRows ==
    ASSUME TypeOK, NEW j \in Jobs, NEW status \in Statuses,
           row' = [row EXCEPT ![j] = Closed(j, status)]
    PROVE  Becomes(j, status, "none")
  BY StoringOne, ClosedFits, ClosedFields

(* A job is closed and, when it is a task, its result stored.              *)
LEMMA CloseWithResultRows ==
    ASSUME TypeOK, NEW m \in Messages, NEW status \in Statuses, NEW known \in BOOLEAN,
           PersistResult(m, [row EXCEPT ![<<"task", m>>] = Closed(<<"task", m>>, status)], known)
    PROVE  IF Exists(<<"result", m>>)
           THEN Becomes(<<"task", m>>, status, "none") /\ dep' = dep
           ELSE /\ BothBecome(<<"task", m>>, status, <<"result", m>>, "ready")
                /\ dep' = [dep EXCEPT ![m] = known]
  <1> DEFINE j == <<"task", m>>
             k == <<"result", m>>
             r == Closed(j, status)
  <1>1. j \in Jobs /\ k \in Jobs \ {j} /\ k \in Jobs
    BY JobKinds DEF Kinds
  <1>2. IF Exists(k)
        THEN row' = [row EXCEPT ![j] = r] /\ dep' = dep
        ELSE /\ row' = [[row EXCEPT ![j] = r] EXCEPT ![k] = NewRow]
             /\ dep' = [dep EXCEPT ![m] = known]
    BY DEF PersistResult
  <1> HIDE DEF j, k
  <1>3. RowFits(j, r) /\ r.status = status /\ r.lease = "none"
    BY <1>1, ClosedFits, ClosedFields
  <1>4. RowFits(k, NewRow) /\ NewRow.status = "ready" /\ NewRow.lease = "none"
    BY <1>1, NewRowFits, NewRowFields
  <1>5. CASE Exists(k)
    <2>1. Becomes(j, status, "none")
      BY <1>1, <1>2, <1>5, CloseRows
    <2>2. QED
      BY <1>2, <1>5, <2>1 DEF j, k
  <1> HIDE DEF r
  <1>6. CASE ~Exists(k)
    <2>1. BothBecome(j, r.status, k, NewRow.status)
      BY <1>1, <1>2, <1>3, <1>4, <1>6, StoringTwo
    <2>2. QED
      BY <1>2, <1>3, <1>4, <1>6, <2>1 DEF j, k
  <1>7. QED
    BY <1>5, <1>6

(* A failed job may be tried again, or has failed for good; only then has  *)
(* a task an answer.                                                       *)
LEMMA FailRows ==
    ASSUME TypeOK, NEW w \in Workers, Fail(w), NEW j, j = worker[w].job
    PROVE  /\ j \in Jobs
           /\ \/ /\ ~(j[1] = "task" /\ ~MayRetry(j))
                 /\ Becomes(j, IF MayRetry(j) THEN "ready" ELSE "failed", "none")
                 /\ dep' = dep
              \/ \E m \in Messages :
                    /\ j = <<"task", m>> /\ ~MayRetry(j)
                    /\ IF Exists(<<"result", m>>)
                       THEN Becomes(<<"task", m>>, "failed", "none") /\ dep' = dep
                       ELSE /\ BothBecome(<<"task", m>>, "failed", <<"result", m>>, "ready")
                            /\ dep' = [dep EXCEPT ![m] = ack[m]]
  <1> DEFINE status == IF MayRetry(j) THEN "ready" ELSE "failed"
             rows == [row EXCEPT ![j] = Closed(j, status)]
  <1>1. j \in Jobs /\ status \in Statuses
    BY WorkerFields DEF Fail, Statuses
  <1>2. \/ j[1] = "task" /\ ~MayRetry(j) /\ PersistResult(j[2], rows, ack[j[2]])
        \/ ~(j[1] = "task" /\ ~MayRetry(j)) /\ row' = rows /\ dep' = dep
    BY DEF Fail, Failed
  <1>3. CASE ~(j[1] = "task" /\ ~MayRetry(j)) /\ row' = rows /\ dep' = dep
    <2>1. Becomes(j, status, "none")
      BY <1>1, <1>3, CloseRows
    <2>2. QED
      BY <1>1, <1>3, <2>1
  <1>4. CASE j[1] = "task" /\ ~MayRetry(j) /\ PersistResult(j[2], rows, ack[j[2]])
    <2> DEFINE m == j[2]
    <2>1. m \in Messages /\ j = <<"task", m>> /\ ack[m] \in BOOLEAN
      BY <1>1, <1>4, JobKinds DEF TypeOK
    <2>2. status = "failed" /\ "failed" \in Statuses
      BY <1>4 DEF Statuses
    <2>3. PersistResult(m, [row EXCEPT ![<<"task", m>>] = Closed(<<"task", m>>, "failed")],
                        ack[m])
      BY <1>4, <2>1, <2>2
    <2>4. IF Exists(<<"result", m>>)
          THEN Becomes(<<"task", m>>, "failed", "none") /\ dep' = dep
          ELSE /\ BothBecome(<<"task", m>>, "failed", <<"result", m>>, "ready")
               /\ dep' = [dep EXCEPT ![m] = ack[m]]
      BY <2>1, <2>2, <2>3, CloseWithResultRows
    <2>5. QED
      BY <1>1, <1>4, <2>1, <2>4
  <1>5. QED
    BY <1>2, <1>3, <1>4

LEMMA LapseRows ==
    ASSUME TypeOK, NEW j \in Jobs, Lapse(j)
    PROVE  Becomes(j, row[j].status, "lapsed")
  <1> DEFINE r == [row[j] EXCEPT !.lease = "lapsed"]
  <1>1. row' = [row EXCEPT ![j] = r]
    BY DEF Lapse
  <1>2. RowFits(j, r) /\ r.status = row[j].status /\ r.lease = "lapsed"
    BY LeaseFits
  <1> HIDE DEF r
  <1>3. Becomes(j, r.status, r.lease)
    BY <1>1, <1>2, StoringOne
  <1>4. QED
    BY <1>2, <1>3

-----------------------------------------------------------------------------
(* Type correctness.                                                       *)

LEMMA MovesStaysTyped ==
    ASSUME TypeOK, NEW w \in Workers, NEW job, NEW phase, Moves(w, job, phase),
           phase = "idle" <=> job = NoJob,
           delivered' \in [Outbox -> 0..2], crashes' \in 0..MaxCrashes, StoreTyped'
    PROVE  TypeOK'
  <1>1. WorkersTyped'
    BY MovesTyped
  <1>2. (TypeOK <=> StoreTyped /\ WorkersTyped)'
    BY TypeParts, PTL
  <1>3. QED
    BY <1>1, <1>2

LEMMA RowsStayTyped ==
    ASSUME TypeOK, RowsFit(row'), UNCHANGED <<settled, ack, dep, worker, delivered, crashes>>
    PROVE  TypeOK'
  BY DEF TypeOK, RowsFit, RowFits

LEMMA InitTyped == Init => TypeOK
  <1> SUFFICES ASSUME Init PROVE TypeOK
    OBVIOUS
  <1>1. NoRow \in Row /\ NoRow.attempts = 0
    BY DEF NoRow, Row
  <1>2. RowsFit(row)
    <2>1. \A j \in Jobs : row[j] = NoRow
      BY DEF Init
    <2>2. \A j \in Jobs : MaxAttempts[j[1]] \in Nat
      BY JobKinds, JobAssumption
    <2> HIDE DEF NoRow
    <2>3. row \in [Jobs -> Row]
      BY <1>1 DEF Init
    <2>4. QED
      BY <1>1, <2>1, <2>2, <2>3 DEF RowsFit, RowFits
  <1>3. StoreTyped
    BY <1>2 DEF Init, StoreTyped
  <1>4. WorkersTyped
    BY IdleFields, PipelineAssumption DEF Init, WorkersTyped
  <1>5. QED
    BY <1>3, <1>4, TypeParts

LEMMA NextTyped == TypeOK /\ [Next]_vars => TypeOK'
  <1> SUFFICES ASSUME TypeOK, [Next]_vars PROVE TypeOK'
    OBVIOUS
  <1> USE DEF StoreTyped
  <1>0. /\ RowsFit(row) /\ settled \in [Messages -> BOOLEAN]
        /\ ack \in [Messages -> BOOLEAN] /\ dep \in [Messages -> BOOLEAN]
        /\ delivered \in [Outbox -> 0..2] /\ crashes \in 0..MaxCrashes
        /\ \A m \in Messages : <<"message", m>> # NoJob
        /\ \A j \in Jobs : j # NoJob
    BY RowsTyped, JobKinds DEF TypeOK, Kinds
  <1>1. ASSUME NEW m \in Messages, NEW status \in {"ready", "transcribing"}, Arrive(m, status)
        PROVE  TypeOK'
    <2>1. RowsFit(row')
      BY <1>1, ArriveRows DEF Becomes
    <2>2. QED
      BY <1>1, <2>1, RowsStayTyped DEF Arrive
  <1>2. ASSUME NEW m \in Messages, Transcribed(m) PROVE TypeOK'
    <2>1. RowsFit(row')
      BY <1>2, TranscribedRows DEF Becomes
    <2>2. QED
      BY <1>2, <2>1, RowsStayTyped DEF Transcribed
  <1>3. ASSUME NEW m \in Messages, NEW status \in {"done", "failed"}, Reconcile(m, status)
        PROVE  TypeOK'
    <2>1. <<"task", m>> \in Jobs /\ status \in Statuses
      BY JobKinds DEF Kinds, Statuses
    <2>2. RowsFit(row')
      BY <1>3, <2>1, CloseRows DEF Reconcile, Becomes
    <2>3. QED
      BY <1>3, <2>2, RowsStayTyped DEF Reconcile
  <1>4. ASSUME NEW w \in Workers, NEW m \in Messages, AlreadyAnswered(w, m) PROVE TypeOK'
    BY <1>0, <1>4, ReleaseMoves, MovesStaysTyped DEF AlreadyAnswered
  <1>5. ASSUME NEW w \in Workers, NEW m \in Messages, Begin(w, m) PROVE TypeOK'
    <2> DEFINE phase == IF settled[m] THEN "answered" ELSE "routing"
    <2>1. Moves(w, <<"message", m>>, phase) /\ phase # "idle"
      BY <1>5, BeginMoves
    <2>2. UNCHANGED <<row, settled, ack, dep, delivered, crashes>>
      BY <1>5 DEF Begin
    <2> HIDE DEF phase
    <2>3. QED
      BY <1>0, <2>1, <2>2, MovesStaysTyped
  <1>6. ASSUME NEW w \in Workers, NEW m \in Messages, Delegate(w, m) PROVE TypeOK'
    <2>1. Moves(w, <<"message", m>>, "delegated")
      BY <1>6, DelegateMoves
    <2>2. RowsFit(row')
      BY <1>0, <1>6, DelegateRows DEF Becomes
    <2>3. QED
      BY <1>0, <1>6, <2>1, <2>2, MovesStaysTyped DEF Delegate
  <1>7. ASSUME NEW w \in Workers, NEW m \in Messages, Settle(w, m) PROVE TypeOK'
    <2>1. Moves(w, <<"message", m>>, "answered")
      BY <1>7, SettleMoves
    <2>2. QED
      BY <1>0, <1>7, <2>1, MovesStaysTyped DEF Settle
  <1>8. ASSUME NEW w \in Workers, NEW m \in Messages, Reply(w, m) PROVE TypeOK'
    <2>1. Moves(w, NoJob, "idle")
      BY <1>8, ReleaseMoves DEF Reply
    <2>2. RowsFit(row')
      BY <1>8, ReplyRows DEF BothBecome
    <2>3. ack' \in [Messages -> BOOLEAN]
      <3>1. worker[w].known \in BOOLEAN
        BY WorkerFields
      <3>2. QED
        BY <1>0, <1>8, <3>1 DEF Reply
    <2>4. QED
      BY <1>0, <1>8, <2>1, <2>2, <2>3, MovesStaysTyped DEF Reply
  <1>9. ASSUME NEW w \in Workers, NEW m \in Messages, NEW status \in {"done", "waiting"},
               Finish(w, m, status)
        PROVE  TypeOK'
    <2>1. Moves(w, NoJob, "idle")
      BY <1>9, ReleaseMoves DEF Finish
    <2>2. status \in Statuses /\ <<"task", m>> \in Jobs /\ worker[w].known \in BOOLEAN
      BY JobKinds, WorkerFields DEF Kinds, Statuses
    <2>3. RowsFit([row EXCEPT ![<<"task", m>>] = Closed(<<"task", m>>, status)])
      BY <1>0, <2>2, ClosedFits, RowStored
    <2>4. RowsFit(row') /\ dep' \in [Messages -> BOOLEAN]
      BY <1>9, <2>2, <2>3, ResultStored DEF Finish
    <2>5. QED
      BY <1>0, <1>9, <2>1, <2>4, MovesStaysTyped DEF Finish
  <1>10. ASSUME NEW w \in Workers, NEW j \in Outbox, Send(w, j) PROVE TypeOK'
    <2>1. Moves(w, j, "sent") /\ j # NoJob
      BY <1>0, <1>10, SendMoves, JobKinds
    <2>2. delivered' \in [Outbox -> 0..2]
      BY <1>0, <1>10 DEF Send
    <2>3. QED
      BY <1>0, <1>10, <2>1, <2>2, MovesStaysTyped DEF Send
  <1>11. ASSUME NEW w \in Workers, NEW j \in Outbox, CommitSent(w, j) PROVE TypeOK'
    <2>1. Moves(w, NoJob, "idle")
      BY <1>11, ReleaseMoves DEF CommitSent
    <2>2. j \in Jobs /\ "done" \in Statuses
      BY JobKinds DEF Statuses
    <2>3. RowsFit(row')
      BY <1>11, <2>2, CloseRows DEF CommitSent, Becomes
    <2>4. QED
      BY <1>0, <1>11, <2>1, <2>3, MovesStaysTyped DEF CommitSent
  <1>12. ASSUME NEW w \in Workers, Fail(w) PROVE TypeOK'
    <2>1. Moves(w, NoJob, "idle")
      BY <1>12, ReleaseMoves DEF Fail
    <2>2. RowsFit(row') /\ dep' \in [Messages -> BOOLEAN]
      <3> PICK j : j = worker[w].job
        OBVIOUS
      <3>1. CASE \E m \in Messages :
                    /\ j = <<"task", m>> /\ ~MayRetry(j)
                    /\ IF Exists(<<"result", m>>)
                       THEN Becomes(<<"task", m>>, "failed", "none") /\ dep' = dep
                       ELSE /\ BothBecome(<<"task", m>>, "failed", <<"result", m>>, "ready")
                            /\ dep' = [dep EXCEPT ![m] = ack[m]]
        BY <1>0, <3>1 DEF Becomes, BothBecome
      <3>2. CASE /\ Becomes(j, IF MayRetry(j) THEN "ready" ELSE "failed", "none")
                 /\ dep' = dep
        BY <1>0, <3>2 DEF Becomes
      <3>3. QED
        BY <1>12, <3>1, <3>2, FailRows
    <2>3. settled' \in [Messages -> BOOLEAN]
      BY <1>0, <1>12 DEF Fail
    <2>4. QED
      BY <1>0, <1>12, <2>1, <2>2, <2>3, MovesStaysTyped DEF Fail
  <1>13. ASSUME NEW w \in Workers, Crash(w) PROVE TypeOK'
    <2>1. Moves(w, NoJob, "idle")
      BY <1>13, ReleaseMoves DEF Crash
    <2>2. crashes' \in 0..MaxCrashes
      BY <1>0, <1>13, PipelineAssumption DEF Crash
    <2>3. QED
      BY <1>0, <1>13, <2>1, <2>2, MovesStaysTyped DEF Crash
  <1>14. ASSUME NEW w \in Workers, NEW j \in Jobs, Claim(w, j) PROVE TypeOK'
    <2>1. Moves(w, j, "claimed") /\ RowsFit(row')
      BY <1>14, ClaimMoves, ClaimRows DEF Becomes
    <2>2. QED
      BY <1>0, <1>14, <2>1, MovesStaysTyped DEF Claim
  <1>15. ASSUME NEW j \in Jobs, Lapse(j) PROVE TypeOK'
    <2>1. RowsFit(row')
      BY <1>15, LapseRows DEF Becomes
    <2>2. QED
      BY <1>15, <2>1, RowsStayTyped DEF Lapse
  <1>16. CASE UNCHANGED vars
    BY <1>16 DEF vars, TypeOK, Exists
  <1>17. CASE Next
    BY <1>17, <1>1, <1>2, <1>3, <1>4, <1>5, <1>6, <1>7, <1>8, <1>9, <1>10, <1>11,
       <1>12, <1>13, <1>14, <1>15 DEF Next, Step
  <1>18. QED
    BY <1>16, <1>17

(* Rows, flags and workers keep the shape the tables and the worker's code *)
(* give them, and no row is tried more often than its queue allows.        *)
THEOREM PipelineTyped == Spec => []TypeOK
  BY InitTyped, NextTyped, PTL DEF Spec

-----------------------------------------------------------------------------
(* Answers and their order, whether or not workers overtake each other.    *)

(* A job at hand is a row; one that was handed to the channel, or whose    *)
(* row says so, was accepted by it; and only what is in the outbox is.     *)
JobsExist == \A w \in Workers : worker[w].job # NoJob => Exists(worker[w].job)
SentWasDelivered ==
    /\ \A w \in Workers : worker[w].phase = "sent" /\ worker[w].job \in Outbox =>
            delivered[worker[w].job] > 0
    /\ \A j \in Outbox : row[j].status = "done" => delivered[j] > 0
DeliveredExists == \A j \in Outbox : delivered[j] > 0 => Exists(j)

(* A result that depends on an acknowledgment is only taken up after the   *)
(* channel accepted that.                                                  *)
TakenAfterAck ==
    \A m \in Messages : dep[m] =>
        \A w \in Workers : worker[w].job = <<"result", m>> => delivered[<<"reply", m>>] > 0

Answers ==
    /\ TaskIsReported /\ JobsExist /\ SentWasDelivered /\ DeliveredExists
    /\ TakenAfterAck /\ DependencyKept

(* What keeps them: rows stay, only the channel's own send counts as one,  *)
(* and tasks end with a result.                                            *)
RowsRemain == \A j \in Jobs : Exists(j) => row'[j].status # "none"
DoneStays == \A j \in Outbox : row'[j].status = "done" => row[j].status = "done"
EndReported ==
    \A m \in Messages : row'[<<"task", m>>].status \in {"waiting", "done", "failed"} =>
        \/ row[<<"task", m>>].status \in {"waiting", "done", "failed"}
        \/ row'[<<"result", m>>].status # "none"

(* Nothing was sent, and a dependency is only written with the result.     *)
DepWritten == \A m \in Messages : dep'[m] => dep[m] \/ ~Exists(<<"result", m>>)
NothingSent == RowsRemain /\ DoneStays /\ EndReported /\ DepWritten /\ UNCHANGED delivered

LEMMA ReportKept ==
    TaskIsReported /\ RowsRemain /\ EndReported => TaskIsReported'
  BY JobKinds DEF TaskIsReported, RowsRemain, EndReported, Exists, Kinds

(* No job is taken up.                                                     *)
LEMMA AnswersKept ==
    ASSUME TypeOK, TypeOK', Answers, NothingSent,
           \A w \in Workers : worker'[w].job \in {NoJob, worker[w].job},
           \A w \in Workers : worker'[w].phase = "sent" => worker'[w] = worker[w]
    PROVE  Answers'
  <1> USE DEF NothingSent
  <1>1. TaskIsReported'
    BY ReportKept DEF Answers
  <1>2. JobsExist'
    BY WorkerFields DEF Answers, JobsExist, RowsRemain, Exists
  <1>3. SentWasDelivered'
    BY DEF Answers, SentWasDelivered, DoneStays
  <1>4. DeliveredExists'
    BY JobKinds DEF Answers, DeliveredExists, RowsRemain, Exists
  <1>5. TakenAfterAck'
    <2> SUFFICES ASSUME NEW m \in Messages, dep'[m], NEW w \in Workers,
                        worker'[w].job = <<"result", m>>
                 PROVE  delivered'[<<"reply", m>>] > 0
      BY DEF TakenAfterAck
    <2>1. <<"result", m>> # NoJob
      BY JobKinds DEF Kinds
    <2>2. worker[w].job = <<"result", m>>
      BY <2>1
    <2>3. Exists(<<"result", m>>)
      BY <2>1, <2>2 DEF Answers, JobsExist
    <2>4. dep[m]
      BY <2>3 DEF DepWritten
    <2>5. QED
      BY <2>2, <2>4 DEF Answers, TakenAfterAck
  <1>6. DependencyKept'
    <2> SUFFICES ASSUME NEW m \in Messages, dep'[m], delivered[<<"result", m>>] > 0
                 PROVE  delivered[<<"reply", m>>] > 0
      BY DEF DependencyKept
    <2>1. Exists(<<"result", m>>)
      BY JobKinds DEF Answers, DeliveredExists
    <2>2. dep[m]
      BY <2>1 DEF DepWritten
    <2>3. QED
      BY <2>2 DEF Answers, DependencyKept
  <1>7. QED
    BY <1>1, <1>2, <1>3, <1>4, <1>5, <1>6 DEF Answers

LEMMA NothingDone ==
    ASSUME row' = row, dep' = dep, delivered' = delivered
    PROVE  NothingSent
  BY DEF NothingSent, RowsRemain, DoneStays, EndReported, DepWritten, Exists

(* A row is written that is neither a new end of a task nor the end of a   *)
(* send.                                                                   *)
LEMMA OneRowWritten ==
    ASSUME NEW j \in Jobs, NEW status, NEW lease, Becomes(j, status, lease),
           status = "none" => ~Exists(j),
           j \in Outbox /\ status = "done" => row[j].status = "done",
           \A m \in Messages : j = <<"task", m>> =>
                \/ status \notin {"waiting", "done", "failed"}
                \/ row[j].status \in {"waiting", "done", "failed"}
                \/ Exists(<<"result", m>>),
           dep' = dep, delivered' = delivered
    PROVE  NothingSent
  <1>1. RowsRemain
    BY DEF RowsRemain, Becomes, Exists
  <1>2. DoneStays
    BY JobKinds DEF DoneStays, Becomes
  <1>3. EndReported
    BY JobKinds DEF EndReported, Becomes, Exists, Kinds
  <1>4. QED
    BY <1>1, <1>2, <1>3 DEF NothingSent, DepWritten

(* A message or a task joins its queue.                                    *)
LEMMA RowQueued ==
    ASSUME NEW k \in {"message", "task"}, NEW m \in Messages, NEW lease,
           NEW status \in {"ready", "transcribing"},
           Becomes(<<k, m>>, status, lease), dep' = dep, delivered' = delivered
    PROVE  NothingSent
  <1> DEFINE j == <<k, m>>
  <1>1. j \in Jobs
    BY JobKinds DEF Kinds
  <1>2. /\ status # "none" /\ status # "done"
        /\ \A n \in Messages : j = <<"task", n>> => status \notin {"waiting", "done", "failed"}
    OBVIOUS
  <1>3. Becomes(j, status, lease)
    OBVIOUS
  <1> HIDE DEF j
  <1>4. QED
    BY <1>1, <1>2, <1>3, OneRowWritten

LEMMA TwoRowsWritten ==
    ASSUME NEW j \in Jobs, NEW status, NEW k \in Jobs, NEW other, j # k,
           BothBecome(j, status, k, other), status # "none", other # "none",
           j \in Outbox => status # "done", k \in Outbox => other # "done",
           \A m \in Messages : j = <<"task", m>> => k = <<"result", m>>,
           k[1] # "task", DepWritten, delivered' = delivered
    PROVE  NothingSent
  <1>1. RowsRemain
    BY DEF RowsRemain, BothBecome, Exists
  <1>2. DoneStays
    BY JobKinds DEF DoneStays, BothBecome
  <1>3. EndReported
    <2> SUFFICES ASSUME NEW m \in Messages,
                        row'[<<"task", m>>].status \in {"waiting", "done", "failed"},
                        row[<<"task", m>>].status \notin {"waiting", "done", "failed"}
                 PROVE  row'[<<"result", m>>].status # "none"
      BY DEF EndReported
    <2>1. <<"task", m>> \in Jobs /\ k # <<"task", m>>
      BY JobKinds DEF Kinds
    <2>2. j = <<"task", m>>
      BY <2>1 DEF BothBecome
    <2>3. QED
      BY <2>2 DEF BothBecome
  <1>4. QED
    BY <1>1, <1>2, <1>3 DEF NothingSent

LEMMA ClaimKeepsAnswers ==
    ASSUME TypeOK, TypeOK', Answers, NEW w \in Workers, NEW j \in Jobs, Claim(w, j)
    PROVE  Answers'
  <1>1. Moves(w, j, "claimed") /\ Becomes(j, "taken", "held")
    BY ClaimMoves, ClaimRows
  <1>2. dep' = dep /\ delivered' = delivered /\ Claimable(j)
    BY DEF Claim
  <1>3. NothingSent
    BY <1>1, <1>2, OneRowWritten
  <1>4. TaskIsReported'
    BY <1>3, ReportKept DEF Answers, NothingSent
  <1>5. JobsExist'
    BY <1>1, WorkerFields DEF Answers, JobsExist, Moves, Becomes, Exists
  <1>6. SentWasDelivered'
    <2>1. ASSUME NEW v \in Workers, worker'[v].phase = "sent" PROVE worker'[v] = worker[v]
      BY <1>1, <2>1 DEF Moves
    <2>2. QED
      BY <1>2, <1>3, <2>1 DEF Answers, SentWasDelivered, NothingSent, DoneStays
  <1>7. DeliveredExists'
    BY <1>2, <1>3, JobKinds DEF Answers, DeliveredExists, NothingSent, RowsRemain, Exists
  <1>8. TakenAfterAck'
    <2> SUFFICES ASSUME NEW m \in Messages, dep[m], NEW v \in Workers,
                        worker'[v].job = <<"result", m>>
                 PROVE  delivered[<<"reply", m>>] > 0
      BY <1>2 DEF TakenAfterAck
    <2>1. CASE v = w
      <3>1. row[<<"reply", m>>].status = "done"
        BY <1>1, <1>2, <2>1 DEF Moves, Claimable
      <3>2. QED
        BY <3>1, JobKinds DEF Answers, SentWasDelivered
    <2>2. CASE v # w
      BY <1>1, <2>2 DEF Moves, Answers, TakenAfterAck
    <2>3. QED
      BY <2>1, <2>2
  <1>9. DependencyKept'
    BY <1>2 DEF Answers, DependencyKept
  <1>10. QED
    BY <1>4, <1>5, <1>6, <1>7, <1>8, <1>9 DEF Answers

LEMMA SendKeepsAnswers ==
    ASSUME TypeOK, TypeOK', Answers, NEW w \in Workers, NEW j \in Outbox, Send(w, j)
    PROVE  Answers'
  <1>1. Moves(w, j, "sent") /\ worker[w].job = j /\ j \in Jobs /\ j # NoJob
    BY SendMoves, JobKinds DEF Send
  <1>2. row' = row /\ dep' = dep
    BY DEF Send
  <1>3. /\ delivered'[j] > 0
        /\ \A i \in Outbox : delivered[i] > 0 => delivered'[i] > 0
        /\ \A i \in Outbox \ {j} : delivered'[i] = delivered[i]
    BY DEF Send, TypeOK
  <1>4. \A v \in Workers : worker'[v].job = worker[v].job
    BY <1>1 DEF Moves
  <1>5. TaskIsReported'
    BY <1>2 DEF Answers, TaskIsReported, Exists
  <1>6. JobsExist'
    BY <1>2, <1>4 DEF Answers, JobsExist, Exists
  <1>7. SentWasDelivered'
    BY <1>1, <1>2, <1>3 DEF Answers, SentWasDelivered, Moves
  <1>8. DeliveredExists'
    BY <1>1, <1>2, <1>3, JobKinds DEF Answers, DeliveredExists, JobsExist, Exists
  <1>9. TakenAfterAck'
    BY <1>2, <1>3, <1>4, JobKinds DEF Answers, TakenAfterAck
  <1>10. DependencyKept'
    <2> SUFFICES ASSUME NEW m \in Messages, dep[m], delivered'[<<"result", m>>] > 0
                 PROVE  delivered'[<<"reply", m>>] > 0
      BY <1>2 DEF DependencyKept
    <2>1. CASE j = <<"result", m>>
      BY <1>1, <1>3, <2>1, JobKinds DEF Answers, TakenAfterAck
    <2>2. CASE j # <<"result", m>>
      BY <1>3, <2>2, JobKinds DEF Answers, DependencyKept
    <2>3. QED
      BY <2>1, <2>2
  <1>11. QED
    BY <1>5, <1>6, <1>7, <1>8, <1>9, <1>10 DEF Answers

LEMMA CommitSentKeepsAnswers ==
    ASSUME TypeOK, TypeOK', Answers, NEW w \in Workers, NEW j \in Outbox, CommitSent(w, j)
    PROVE  Answers'
  <1>1. Moves(w, NoJob, "idle")
    BY ReleaseMoves DEF CommitSent
  <1>2. j \in Jobs /\ "done" \in Statuses
    BY JobKinds DEF Statuses
  <1>3. Becomes(j, "done", "none")
    BY <1>2, CloseRows DEF CommitSent
  <1>4. dep' = dep /\ delivered' = delivered /\ delivered[j] > 0
    BY DEF CommitSent, Answers, SentWasDelivered
  <1>5. RowsRemain
    BY <1>3 DEF RowsRemain, Becomes, Exists
  <1>6. EndReported
    BY <1>2, <1>3, JobKinds DEF EndReported, Becomes, Exists, Outbox, Kinds
  <1>7. TaskIsReported'
    BY <1>5, <1>6, ReportKept DEF Answers
  <1>8. JobsExist'
    BY <1>1, <1>5, WorkerFields DEF Answers, JobsExist, Moves, RowsRemain, Exists
  <1>9. SentWasDelivered'
    BY <1>1, <1>3, <1>4, JobKinds DEF Answers, SentWasDelivered, Moves, Becomes
  <1>10. DeliveredExists'
    BY <1>4, <1>5, JobKinds DEF Answers, DeliveredExists, RowsRemain, Exists
  <1>11. TakenAfterAck'
    BY <1>1, <1>4, JobKinds DEF Answers, TakenAfterAck, Moves, Kinds
  <1>12. DependencyKept'
    BY <1>4 DEF Answers, DependencyKept
  <1>13. QED
    BY <1>7, <1>8, <1>9, <1>10, <1>11, <1>12 DEF Answers

(* Any other step of a worker.                                             *)
LEMMA MoveKeepsAnswers ==
    ASSUME TypeOK, TypeOK', Answers, NEW w \in Workers, NEW job, NEW phase,
           Moves(w, job, phase), job \in {NoJob, worker[w].job}, phase # "sent", NothingSent
    PROVE  Answers'
  BY AnswersKept DEF Moves

LEMMA InitAnswers == Init => Answers
  <1> SUFFICES ASSUME Init PROVE Answers
    OBVIOUS
  <1>1. NoRow.status = "none"
    BY DEF NoRow
  <1>2. \A j \in Jobs : row[j].status = "none"
    BY <1>1 DEF Init
  <1>3. \A w \in Workers : worker[w].job = NoJob /\ worker[w].phase = "idle"
    BY IdleFields DEF Init
  <1>4. \A j \in Outbox : delivered[j] = 0
    BY DEF Init
  <1>5. \A m \in Messages : dep[m] = FALSE
    BY DEF Init
  <1>6. TaskIsReported
    BY <1>2, JobKinds DEF TaskIsReported, Kinds
  <1>7. SentWasDelivered
    BY <1>2, <1>3, JobKinds DEF SentWasDelivered
  <1>8. JobsExist /\ DeliveredExists /\ TakenAfterAck /\ DependencyKept
    BY <1>3, <1>4, <1>5 DEF JobsExist, DeliveredExists, TakenAfterAck, DependencyKept
  <1>9. QED
    BY <1>6, <1>7, <1>8 DEF Answers

LEMMA FinishSendsNothing ==
    ASSUME TypeOK, NEW m \in Messages, NEW status \in {"done", "waiting", "failed"},
           NEW known \in BOOLEAN, delivered' = delivered,
           IF Exists(<<"result", m>>)
           THEN Becomes(<<"task", m>>, status, "none") /\ dep' = dep
           ELSE /\ BothBecome(<<"task", m>>, status, <<"result", m>>, "ready")
                /\ dep' = [dep EXCEPT ![m] = known]
    PROVE  NothingSent
  <1> DEFINE j == <<"task", m>>
             k == <<"result", m>>
  <1>1. /\ j \in Jobs /\ k \in Jobs /\ j # k /\ j \notin Outbox /\ k[1] # "task"
        /\ \A n \in Messages : j = <<"task", n>> => n = m
    BY JobKinds DEF Kinds, Outbox
  <1>2. CASE Exists(k)
    <2>1. Becomes(j, status, "none") /\ dep' = dep
      BY <1>2
    <2>2. \A n \in Messages : j = <<"task", n>> => Exists(<<"result", n>>)
      BY <1>1, <1>2
    <2> HIDE DEF j, k
    <2>3. QED
      BY <1>1, <2>1, <2>2, OneRowWritten
  <1>3. CASE ~Exists(k)
    <2>1. BothBecome(j, status, k, "ready") /\ dep' = [dep EXCEPT ![m] = known]
      BY <1>3
    <2>2. DepWritten
      BY <1>3, <2>1 DEF DepWritten, TypeOK
    <2>3. \A n \in Messages : j = <<"task", n>> => k = <<"result", n>>
      BY <1>1
    <2> HIDE DEF j, k
    <2>4. QED
      BY <1>1, <2>1, <2>2, <2>3, TwoRowsWritten
  <1>4. QED
    BY <1>2, <1>3

(* A step that only changes rows, of jobs nobody takes up.                 *)
LEMMA RowsKeepAnswers ==
    ASSUME TypeOK, TypeOK', Answers, NothingSent, worker' = worker
    PROVE  Answers'
  BY AnswersKept

LEMMA NextAnswers == TypeOK /\ TypeOK' /\ Answers /\ [Next]_vars => Answers'
  <1> SUFFICES ASSUME TypeOK, TypeOK', Answers, [Next]_vars PROVE Answers'
    OBVIOUS
  <1>0. /\ \A m \in Messages : /\ <<"message", m>> \in Jobs /\ <<"message", m>> \notin Outbox
                               /\ <<"task", m>> \in Jobs /\ <<"task", m>> \notin Outbox
                               /\ <<"reply", m>> \in Jobs /\ <<"result", m>> \in Jobs
        /\ \A m, n \in Messages : <<"message", m>> # <<"task", n>> /\ <<"reply", m>> # <<"task", n>>
    BY JobKinds DEF Kinds, Outbox
  <1>1. ASSUME NEW m \in Messages, NEW status \in {"ready", "transcribing"}, Arrive(m, status)
        PROVE  Answers'
    <2>1. Becomes(<<"message", m>>, status, row[<<"message", m>>].lease)
      BY <1>1, ArriveRows
    <2>2. UNCHANGED <<dep, delivered, worker>>
      BY <1>1 DEF Arrive
    <2>3. NothingSent
      BY <2>1, <2>2, RowQueued
    <2>4. QED
      BY <2>2, <2>3, RowsKeepAnswers
  <1>2. ASSUME NEW m \in Messages, Transcribed(m) PROVE Answers'
    <2>1. UNCHANGED <<dep, delivered, worker>>
      BY <1>2 DEF Transcribed
    <2>2. CASE Becomes(<<"message", m>>, "ready", row[<<"message", m>>].lease)
      <3>1. NothingSent
        BY <2>1, <2>2, RowQueued
      <3>2. QED
        BY <2>1, <3>1, RowsKeepAnswers
    <2>3. CASE /\ RowsFit(row')
               /\ row'[<<"message", m>>].status = "failed"
               /\ row'[<<"reply", m>>].status = "ready"
               /\ \A i \in Jobs \ {<<"message", m>>, <<"reply", m>>} : row'[i] = row[i]
      <3>1. RowsRemain
        BY <1>0, <2>3 DEF RowsRemain, Exists
      <3>2. DoneStays
        BY <1>0, <2>3, JobKinds DEF DoneStays
      <3>3. EndReported
        BY <1>0, <2>3 DEF EndReported
      <3>4. NothingSent
        BY <2>1, <3>1, <3>2, <3>3 DEF NothingSent, DepWritten
      <3>5. QED
        BY <2>1, <3>4, RowsKeepAnswers
    <2>4. QED
      BY <1>2, <2>2, <2>3, TranscribedRows
  <1>3. ASSUME NEW m \in Messages, NEW status \in {"done", "failed"}, Reconcile(m, status)
        PROVE  Answers'
    <2>1. UNCHANGED <<dep, delivered, worker>> /\ row[<<"task", m>>].status = "waiting"
      BY <1>3 DEF Reconcile
    <2>2. status \in Statuses
      BY DEF Statuses
    <2>3. Becomes(<<"task", m>>, status, "none")
      BY <1>0, <1>3, <2>2, CloseRows DEF Reconcile
    <2>4. NothingSent
      BY <1>0, <2>1, <2>3, OneRowWritten
    <2>5. QED
      BY <2>1, <2>4, RowsKeepAnswers
  <1>4. ASSUME NEW w \in Workers, NEW m \in Messages, AlreadyAnswered(w, m) PROVE Answers'
    <2>1. Moves(w, NoJob, "idle")
      BY <1>4, ReleaseMoves DEF AlreadyAnswered
    <2>2. NothingSent
      BY <1>4, NothingDone DEF AlreadyAnswered
    <2>3. QED
      BY <2>1, <2>2, MoveKeepsAnswers
  <1>5. ASSUME NEW w \in Workers, NEW m \in Messages, Begin(w, m) PROVE Answers'
    <2> DEFINE phase == IF settled[m] THEN "answered" ELSE "routing"
    <2>1. Moves(w, <<"message", m>>, phase) /\ phase # "sent"
      BY <1>5, BeginMoves
    <2>2. NothingSent /\ worker[w].job = <<"message", m>>
      BY <1>5, NothingDone DEF Begin
    <2> HIDE DEF phase
    <2>3. QED
      BY <2>1, <2>2, MoveKeepsAnswers
  <1>6. ASSUME NEW w \in Workers, NEW m \in Messages, Delegate(w, m) PROVE Answers'
    <2>1. Moves(w, <<"message", m>>, "delegated")
      BY <1>6, DelegateMoves
    <2>2. dep' = dep /\ delivered' = delivered /\ worker[w].job = <<"message", m>>
      BY <1>6 DEF Delegate
    <2>3. CASE row' = row
      <3>1. NothingSent
        BY <2>2, <2>3, NothingDone
      <3>2. QED
        BY <2>1, <2>2, <3>1, MoveKeepsAnswers
    <2>4. CASE Becomes(<<"task", m>>, "ready", "none")
      <3>1. NothingSent
        BY <2>2, <2>4, RowQueued
      <3>2. QED
        BY <2>1, <2>2, <3>1, MoveKeepsAnswers
    <2>5. QED
      BY <1>6, <2>3, <2>4, DelegateRows
  <1>7. ASSUME NEW w \in Workers, NEW m \in Messages, Settle(w, m) PROVE Answers'
    <2>1. Moves(w, <<"message", m>>, "answered") /\ worker[w].job = <<"message", m>>
      BY <1>7, SettleMoves DEF Settle
    <2>2. NothingSent
      BY <1>7, NothingDone DEF Settle
    <2>3. QED
      BY <2>1, <2>2, MoveKeepsAnswers
  <1>8. ASSUME NEW w \in Workers, NEW m \in Messages, Reply(w, m) PROVE Answers'
    <2>1. Moves(w, NoJob, "idle")
      BY <1>8, ReleaseMoves DEF Reply
    <2>2. BothBecome(<<"reply", m>>, "ready", <<"message", m>>, "done")
      BY <1>8, ReplyRows
    <2>3. dep' = dep /\ delivered' = delivered
      BY <1>8 DEF Reply
    <2>4. RowsRemain /\ DoneStays /\ EndReported
      BY <1>0, <2>2, JobKinds DEF BothBecome, RowsRemain, DoneStays, EndReported, Exists
    <2>5. NothingSent
      BY <2>3, <2>4 DEF NothingSent, DepWritten
    <2>6. QED
      BY <2>1, <2>5, MoveKeepsAnswers
  <1>9. ASSUME NEW w \in Workers, NEW m \in Messages, NEW status \in {"done", "waiting"},
               Finish(w, m, status)
        PROVE  Answers'
    <2>1. Moves(w, NoJob, "idle")
      BY <1>9, ReleaseMoves DEF Finish
    <2>2. status \in Statuses /\ worker[w].known \in BOOLEAN
      BY WorkerFields DEF Statuses
    <2>3. delivered' = delivered
      BY <1>9 DEF Finish
    <2>4. IF Exists(<<"result", m>>)
          THEN Becomes(<<"task", m>>, status, "none") /\ dep' = dep
          ELSE /\ BothBecome(<<"task", m>>, status, <<"result", m>>, "ready")
               /\ dep' = [dep EXCEPT ![m] = worker[w].known]
      BY <1>9, <2>2, CloseWithResultRows DEF Finish
    <2>5. NothingSent
      BY <2>2, <2>3, <2>4, FinishSendsNothing
    <2>6. QED
      BY <2>1, <2>5, MoveKeepsAnswers
  <1>10. ASSUME NEW w \in Workers, NEW j \in Outbox, Send(w, j) PROVE Answers'
    BY <1>10, SendKeepsAnswers
  <1>11. ASSUME NEW w \in Workers, NEW j \in Outbox, CommitSent(w, j) PROVE Answers'
    BY <1>11, CommitSentKeepsAnswers
  <1>12. ASSUME NEW w \in Workers, Fail(w) PROVE Answers'
    <2>1. Moves(w, NoJob, "idle") /\ delivered' = delivered
      BY <1>12, ReleaseMoves DEF Fail
    <2> PICK j : j = worker[w].job
      OBVIOUS
    <2>2. j \in Jobs
      BY <1>12, FailRows
    <2>3. ASSUME ~(j[1] = "task" /\ ~MayRetry(j)), dep' = dep,
                 Becomes(j, IF MayRetry(j) THEN "ready" ELSE "failed", "none")
          PROVE  NothingSent
      <3> DEFINE status == IF MayRetry(j) THEN "ready" ELSE "failed"
      <3>1. /\ Becomes(j, status, "none") /\ status # "none" /\ status # "done"
            /\ \A m \in Messages : j = <<"task", m>> => status \notin {"waiting", "done", "failed"}
        BY <2>3
      <3> HIDE DEF status
      <3>2. QED
        BY <2>1, <2>2, <2>3, <3>1, OneRowWritten
    <2>4. ASSUME NEW m \in Messages,
                 IF Exists(<<"result", m>>)
                 THEN Becomes(<<"task", m>>, "failed", "none") /\ dep' = dep
                 ELSE /\ BothBecome(<<"task", m>>, "failed", <<"result", m>>, "ready")
                      /\ dep' = [dep EXCEPT ![m] = ack[m]]
          PROVE  NothingSent
      <3>1. ack[m] \in BOOLEAN
        BY DEF TypeOK
      <3>2. QED
        BY <2>1, <2>4, <3>1, FinishSendsNothing
    <2>5. NothingSent
      BY <1>12, <2>3, <2>4, FailRows
    <2>6. QED
      BY <2>1, <2>5, MoveKeepsAnswers
  <1>13. ASSUME NEW w \in Workers, Crash(w) PROVE Answers'
    <2>1. Moves(w, NoJob, "idle")
      BY <1>13, ReleaseMoves DEF Crash
    <2>2. NothingSent
      BY <1>13, NothingDone DEF Crash
    <2>3. QED
      BY <2>1, <2>2, MoveKeepsAnswers
  <1>14. ASSUME NEW w \in Workers, NEW j \in Jobs, Claim(w, j) PROVE Answers'
    BY <1>14, ClaimKeepsAnswers
  <1>15. ASSUME NEW j \in Jobs, Lapse(j) PROVE Answers'
    <2>1. Becomes(j, row[j].status, "lapsed")
      BY <1>15, LapseRows
    <2>2. UNCHANGED <<dep, delivered, worker>>
      BY <1>15 DEF Lapse
    <2>3. \A m \in Messages : j = <<"task", m>> =>
                \/ row[j].status \notin {"waiting", "done", "failed"}
                \/ row[j].status \in {"waiting", "done", "failed"}
      OBVIOUS
    <2>4. NothingSent
      BY <2>1, <2>2, <2>3, OneRowWritten DEF Exists
    <2>5. QED
      BY <2>2, <2>4, RowsKeepAnswers
  <1>16. CASE UNCHANGED vars
    <2>1. NothingSent
      BY <1>16, NothingDone DEF vars
    <2>2. QED
      BY <1>16, <2>1, RowsKeepAnswers DEF vars
  <1>17. CASE Next
    BY <1>17, <1>1, <1>2, <1>3, <1>4, <1>5, <1>6, <1>7, <1>8, <1>9, <1>10, <1>11,
       <1>12, <1>13, <1>14, <1>15 DEF Next, Step
  <1>18. QED
    BY <1>16, <1>17

LEMMA AnswersHold == Spec => []Answers
  BY PipelineTyped, InitAnswers, NextAnswers, PTL DEF Spec

(* A task that ended, or that waits for the user, has its answer in the    *)
(* outbox, though workers that overtake each other close the same task     *)
(* more than once.                                                         *)
THEOREM TasksAreReported == Spec => []TaskIsReported
  BY AnswersHold, PTL DEF Answers

(* The channel has accepted the acknowledgment a result depends on before  *)
(* it is given the result, though workers overtake each other and rows are *)
(* claimed and sent again.                                                 *)
THEOREM DependenciesAreKept == Spec => []DependencyKept
  BY AnswersHold, PTL DEF Answers

-----------------------------------------------------------------------------
(* What leases give, while they outlast the work they cover.               *)

(* Whoever has a job in hand holds its lease, alone; a message is taken up *)
(* once the earlier ones, which have all arrived, are finished.            *)
HoldsLease ==
    \A w \in Workers : worker[w].job # NoJob =>
        row[worker[w].job].status = "taken" /\ row[worker[w].job].lease = "held"
Exclusive ==
    \A w \in Workers : \A v \in Workers \ {w} :
        worker[w].job = NoJob \/ worker[w].job # worker[v].job
InOrder ==
    \A w \in Workers, m \in Messages : worker[w].job = <<"message", m>> =>
        \A e \in Messages : e < m => ~Unfinished(e)
EarlierArrived ==
    \A m \in Messages : Exists(<<"message", m>>) =>
        \A e \in Messages : e < m => Exists(<<"message", e>>)

(* A message has no reply before its text is there, and whoever is about   *)
(* to reply knows whether it was delegated.                                *)
TextFirst ==
    \A m \in Messages : row[<<"message", m>>].status \in {"none", "transcribing"} =>
        ~Exists(<<"reply", m>>)
KnowsItsTask ==
    \A w \in Workers, m \in Messages :
        worker[w].job = <<"message", m>> /\ worker[w].phase = "answered" =>
            (worker[w].known <=> Exists(<<"task", m>>))

Leases ==
    /\ HoldsLease /\ Exclusive /\ InOrder /\ EarlierArrived
    /\ TextFirst /\ KnowsItsTask /\ CompletedIsAnswered

(* What keeps them.                                                        *)
HandsKept ==
    \A w \in Workers : \/ worker'[w].job = NoJob
                       \/ /\ worker'[w].job = worker[w].job
                          /\ row'[worker[w].job] = row[worker[w].job]
NoneReopened == \A m \in Messages : Unfinished(m)' => Unfinished(m) \/ ~Exists(<<"message", m>>)
SameMessages == \A m \in Messages : Exists(<<"message", m>>)' <=> Exists(<<"message", m>>)
TextKept ==
    \A m \in Messages : row'[<<"message", m>>].status \in {"none", "transcribing"} =>
        /\ row[<<"message", m>>].status \in {"none", "transcribing"}
        /\ Exists(<<"reply", m>>)' => Exists(<<"reply", m>>)
SameTasks == \A m \in Messages : Exists(<<"task", m>>)' <=> Exists(<<"task", m>>)
SameAnswers == \A w \in Workers : worker'[w].phase = "answered" => worker'[w] = worker[w]
DoneKept ==
    \A m \in Messages :
        /\ row'[<<"message", m>>].status = "done" => row[<<"message", m>>].status = "done"
        /\ Exists(<<"reply", m>>) => Exists(<<"reply", m>>)'
        /\ ack[m] => ack'[m]

LEMMA HandsStay == HoldsLease /\ Exclusive /\ HandsKept => HoldsLease' /\ Exclusive'
  <1> SUFFICES ASSUME HoldsLease, Exclusive, HandsKept PROVE HoldsLease' /\ Exclusive'
    OBVIOUS
  <1>1. HoldsLease'
    BY DEF HoldsLease, HandsKept
  <1>2. Exclusive'
    BY DEF Exclusive, HandsKept
  <1>3. QED
    BY <1>1, <1>2

LEMMA HeldExists ==
    ASSUME HoldsLease, NEW w \in Workers, worker[w].job # NoJob
    PROVE  Exists(worker[w].job)
  BY DEF HoldsLease, Exists

LEMMA OrderStays ==
    ASSUME HoldsLease, InOrder, EarlierArrived, NoneReopened,
           \A w \in Workers : worker'[w].job \in {NoJob, worker[w].job}
    PROVE  InOrder'
  <1> SUFFICES ASSUME NEW w \in Workers, NEW m \in Messages, worker'[w].job = <<"message", m>>,
                      NEW e \in Messages, e < m
               PROVE  ~Unfinished(e)'
    BY DEF InOrder
  <1>0. <<"message", m>> # NoJob
    BY JobKinds DEF Kinds
  <1>1. worker[w].job = <<"message", m>> /\ worker[w].job # NoJob
    BY <1>0
  <1>2. Exists(<<"message", m>>)
    BY <1>1, HeldExists
  <1>3. Exists(<<"message", e>>) /\ ~Unfinished(e)
    BY <1>1, <1>2 DEF EarlierArrived, InOrder
  <1>4. QED
    BY <1>3 DEF NoneReopened

LEMMA ArrivalsStay == EarlierArrived /\ SameMessages => EarlierArrived'
  BY DEF EarlierArrived, SameMessages

LEMMA TextStays == TextFirst /\ TextKept => TextFirst'
  BY DEF TextFirst, TextKept

LEMMA KnowledgeStays == KnowsItsTask /\ SameTasks /\ SameAnswers => KnowsItsTask'
  BY DEF KnowsItsTask, SameTasks, SameAnswers

LEMMA CompletedStays == CompletedIsAnswered /\ SameTasks /\ DoneKept => CompletedIsAnswered'
  BY DEF CompletedIsAnswered, SameTasks, DoneKept

(* A step that takes up no job, delegates nothing and answers nothing.     *)
LEMMA LeasesStay ==
    ASSUME Leases, HandsKept, NoneReopened, SameMessages, TextKept, SameTasks,
           SameAnswers, DoneKept
    PROVE  Leases'
  <1>1. HoldsLease' /\ Exclusive'
    BY HandsStay DEF Leases
  <1>2. InOrder'
    BY OrderStays DEF Leases, HandsKept
  <1>3. EarlierArrived' /\ TextFirst' /\ KnowsItsTask' /\ CompletedIsAnswered'
    BY ArrivalsStay, TextStays, KnowledgeStays, CompletedStays DEF Leases
  <1>4. QED
    BY <1>1, <1>2, <1>3 DEF Leases

(* The rows of a step, seen from the messages: those of other queues do    *)
(* not matter.                                                             *)
LEMMA OtherRowsWritten ==
    ASSUME \A m \in Messages : row'[<<"message", m>>] = row[<<"message", m>>],
           \A m \in Messages : Exists(<<"reply", m>>)' <=> Exists(<<"reply", m>>),
           ack' = ack
    PROVE  NoneReopened /\ SameMessages /\ TextKept /\ DoneKept
  BY DEF NoneReopened, SameMessages, TextKept, DoneKept, Unfinished, Exists

LEMMA NoRowWritten ==
    ASSUME row' = row, ack' = ack
    PROVE  NoneReopened /\ SameMessages /\ TextKept /\ DoneKept /\ SameTasks
  BY DEF NoneReopened, SameMessages, TextKept, DoneKept, SameTasks, Unfinished, Exists

(* A worker moved, and no row that another one has in hand.                *)
LEMMA OneHandMoved ==
    ASSUME TypeOK, Leases, NEW w \in Workers, NEW job, NEW phase, Moves(w, job, phase),
           \/ job = NoJob
           \/ job = worker[w].job /\ row'[job] = row[job],
           \A j \in Jobs : j = worker[w].job \/ ~(row[j].status = "taken" /\ row[j].lease = "held")
                           \/ row'[j] = row[j]
    PROVE  HandsKept
  <1> SUFFICES ASSUME NEW v \in Workers, worker'[v].job # NoJob
               PROVE  /\ worker'[v].job = worker[v].job
                      /\ row'[worker[v].job] = row[worker[v].job]
    BY DEF HandsKept
  <1>1. CASE v = w
    BY <1>1 DEF Moves
  <1>2. CASE v # w
    <2>1. worker'[v] = worker[v]
      BY <1>2 DEF Moves
    <2>2. /\ worker[v].job \in Jobs /\ worker[v].job # worker[w].job
          /\ row[worker[v].job].status = "taken" /\ row[worker[v].job].lease = "held"
      BY <1>2, <2>1, WorkerFields DEF Leases, HoldsLease, Exclusive
    <2>3. QED
      BY <2>1, <2>2
  <1>3. QED
    BY <1>1, <1>2

LEMMA OneAnswerMoved ==
    ASSUME NEW w \in Workers, NEW job, NEW phase, Moves(w, job, phase), phase # "answered"
    PROVE  SameAnswers
  BY DEF SameAnswers, Moves

(* One row is written, of a status it had as far as the others can tell.   *)
LEMMA OneRowKeeps ==
    ASSUME NEW j \in Jobs, NEW status, NEW lease, Becomes(j, status, lease),
           Exists(j), status # "none", ack' = ack,
           \A m \in Messages : j = <<"message", m>> =>
                /\ status \in {"transcribing", "ready", "taken"} => Unfinished(m)
                /\ status \in {"transcribing", "done"} => status = row[j].status
    PROVE  NoneReopened /\ SameMessages /\ TextKept /\ DoneKept /\ SameTasks
  <1>1. \A i \in Jobs : Exists(i)' <=> Exists(i)
    BY DEF Becomes, Exists
  <1>2. \A m \in Messages : <<"message", m>> \in Jobs /\ <<"reply", m>> \in Jobs /\ <<"task", m>> \in Jobs
    BY JobKinds DEF Kinds
  <1>3. SameMessages /\ SameTasks
    BY <1>1, <1>2 DEF SameMessages, SameTasks
  <1>4. ASSUME NEW m \in Messages
        PROVE  /\ Unfinished(m)' => Unfinished(m)
               /\ row'[<<"message", m>>].status \in {"none", "transcribing"} =>
                    row[<<"message", m>>].status \in {"none", "transcribing"}
               /\ row'[<<"message", m>>].status = "done" => row[<<"message", m>>].status = "done"
    <2>1. CASE j = <<"message", m>>
      BY <2>1 DEF Becomes, Unfinished
    <2>2. CASE j # <<"message", m>>
      BY <1>2, <2>2 DEF Becomes, Unfinished
    <2>3. QED
      BY <2>1, <2>2
  <1>5. NoneReopened
    BY <1>4 DEF NoneReopened
  <1>6. TextKept
    BY <1>1, <1>2, <1>4 DEF TextKept
  <1>7. DoneKept
    BY <1>1, <1>2, <1>4 DEF DoneKept
  <1>8. QED
    BY <1>3, <1>5, <1>6, <1>7

(* The end of a task, and the result that may come with it.                *)
LEMMA TaskEndKeeps ==
    ASSUME TypeOK, NEW m \in Messages, NEW status \in {"done", "waiting", "failed"},
           Exists(<<"task", m>>), ack' = ack,
           IF Exists(<<"result", m>>)
           THEN Becomes(<<"task", m>>, status, "none")
           ELSE BothBecome(<<"task", m>>, status, <<"result", m>>, "ready")
    PROVE  /\ NoneReopened /\ SameMessages /\ TextKept /\ DoneKept /\ SameTasks
           /\ \A i \in Jobs : i = <<"task", m>> \/ ~Exists(i) \/ row'[i] = row[i]
  <1> DEFINE j == <<"task", m>>
             k == <<"result", m>>
  <1>1. j \in Jobs /\ k \in Jobs /\ j # k
    BY JobKinds DEF Kinds
  <1>2. /\ \A i \in Jobs \ {j, k} : row'[i] = row[i]
        /\ row'[j].status # "none"
        /\ Exists(k) => row'[k] = row[k]
    BY <1>1 DEF Becomes, BothBecome
  <1>3. \A n \in Messages :
            /\ <<"message", n>> \in Jobs \ {j, k} /\ <<"reply", n>> \in Jobs \ {j, k}
            /\ <<"task", n>> \in Jobs \ {k} /\ (<<"task", n>> = j => n = m)
    BY JobKinds DEF Kinds
  <1>4. Exists(j)
    OBVIOUS
  <1> HIDE DEF j, k
  <1>5. SameTasks
    BY <1>2, <1>3, <1>4 DEF SameTasks, Exists
  <1>6. NoneReopened /\ SameMessages /\ TextKept /\ DoneKept
    <2>1. /\ \A n \in Messages : row'[<<"message", n>>] = row[<<"message", n>>]
          /\ \A n \in Messages : Exists(<<"reply", n>>)' <=> Exists(<<"reply", n>>)
      BY <1>2, <1>3 DEF Exists
    <2>2. QED
      BY <2>1, OtherRowsWritten
  <1>7. \A i \in Jobs : i = j \/ ~Exists(i) \/ row'[i] = row[i]
    BY <1>2
  <1>8. QED
    BY <1>5, <1>6, <1>7 DEF j

LEMMA TranscribedKeepsLeases ==
    ASSUME TypeOK, Leases, NEW m \in Messages, Transcribed(m)
    PROVE  Leases'
  <1> DEFINE j == <<"message", m>>
             k == <<"reply", m>>
  <1>1. /\ j \in Jobs /\ k \in Jobs /\ j # k
        /\ \A n \in Messages : /\ <<"task", n>> \in Jobs \ {j, k}
                               /\ <<"message", n>> \in Jobs \ {k} /\ <<"reply", n>> \in Jobs \ {j}
                               /\ <<"message", n>> = j => n = m
                               /\ <<"reply", n>> = k => n = m
    BY JobKinds DEF Kinds
  <1>2. /\ row[j].status = "transcribing" /\ worker' = worker /\ ack' = ack
        /\ ~Exists(k)
    BY DEF Transcribed, Leases, TextFirst
  <1>3. /\ row'[j].status \in {"ready", "failed"}
        /\ \A i \in Jobs \ {j, k} : row'[i] = row[i]
    BY <1>1, TranscribedRows DEF Becomes
  <1>4. Unfinished(m) /\ Exists(j) /\ row'[j].status # "none"
    BY <1>2, <1>3 DEF Unfinished, Exists
  <1> HIDE DEF j, k
  <1>5. HandsKept
    BY <1>2, <1>3, WorkerFields DEF HandsKept, Leases, HoldsLease, Exists
  <1>6. SameMessages
    BY <1>1, <1>3, <1>4 DEF SameMessages, Exists
  <1>7. SameTasks
    BY <1>1, <1>3 DEF SameTasks, Exists
  <1>8. NoneReopened
    BY <1>1, <1>3, <1>4 DEF NoneReopened, Unfinished
  <1>9. TextKept
    <2> SUFFICES ASSUME NEW n \in Messages,
                        row'[<<"message", n>>].status \in {"none", "transcribing"}
                 PROVE  /\ row[<<"message", n>>].status \in {"none", "transcribing"}
                        /\ Exists(<<"reply", n>>)' => Exists(<<"reply", n>>)
      BY DEF TextKept
    <2>1. n # m
      BY <1>3 DEF j
    <2>2. <<"message", n>> \in Jobs \ {j, k} /\ <<"reply", n>> \in Jobs \ {j, k}
      BY <1>1, <2>1
    <2>3. QED
      BY <1>3, <2>2 DEF Exists
  <1>10. DoneKept
    <2>1. ASSUME NEW n \in Messages
          PROVE  row'[<<"message", n>>].status = "done" => row[<<"message", n>>].status = "done"
      BY <1>1, <1>3
    <2>2. ASSUME NEW n \in Messages, Exists(<<"reply", n>>) PROVE Exists(<<"reply", n>>)'
      BY <1>1, <1>2, <1>3, <2>2 DEF Exists
    <2>3. QED
      BY <1>2, <2>1, <2>2 DEF DoneKept
  <1>11. SameAnswers
    BY <1>2 DEF SameAnswers
  <1>12. QED
    BY <1>5, <1>6, <1>7, <1>8, <1>9, <1>10, <1>11, LeasesStay

(* A worker gives up its job, or goes on with it, and writes nothing.      *)
LEMMA QuietStepKeepsLeases ==
    ASSUME TypeOK, Leases, NEW w \in Workers, NEW job, NEW phase, Moves(w, job, phase),
           job \in {NoJob, worker[w].job}, phase # "answered", row' = row, ack' = ack
    PROVE  Leases'
  <1>1. HandsKept
    BY OneHandMoved
  <1>2. SameAnswers
    BY OneAnswerMoved
  <1>3. QED
    BY <1>1, <1>2, NoRowWritten, LeasesStay

LEMMA FinishKeepsLeases ==
    ASSUME TypeOK, Leases, NEW w \in Workers, NEW m \in Messages,
           worker[w].job = <<"task", m>>, Moves(w, NoJob, "idle"), ack' = ack,
           NEW status \in {"done", "waiting", "failed"},
           IF Exists(<<"result", m>>)
           THEN Becomes(<<"task", m>>, status, "none")
           ELSE BothBecome(<<"task", m>>, status, <<"result", m>>, "ready")
    PROVE  Leases'
  <1>1. Exists(<<"task", m>>)
    <2>1. <<"task", m>> # NoJob
      BY JobKinds DEF Kinds
    <2>2. QED
      BY <2>1, HeldExists DEF Leases
  <1>2. /\ NoneReopened /\ SameMessages /\ TextKept /\ DoneKept /\ SameTasks
        /\ \A i \in Jobs : i = <<"task", m>> \/ ~Exists(i) \/ row'[i] = row[i]
    BY <1>1, TaskEndKeeps
  <1>3. HandsKept
    BY <1>2, OneHandMoved DEF Exists
  <1>4. SameAnswers
    BY OneAnswerMoved
  <1>5. QED
    BY <1>2, <1>3, <1>4, LeasesStay

LEMMA ReconcileKeepsLeases ==
    ASSUME TypeOK, Leases, NEW m \in Messages, NEW status \in {"done", "failed"},
           Reconcile(m, status)
    PROVE  Leases'
  <1> DEFINE j == <<"task", m>>
  <1>1. j \in Jobs /\ status \in Statuses /\ \A n \in Messages : j # <<"message", n>>
    BY JobKinds DEF Kinds, Statuses
  <1>2. row' = [row EXCEPT ![j] = Closed(j, status)] /\ row[j].status = "waiting"
    BY DEF Reconcile
  <1> HIDE DEF j
  <1>3. Becomes(j, status, "none") /\ Exists(j) /\ status # "none"
    BY <1>1, <1>2, CloseRows DEF Exists
  <1>4. ack' = ack /\ worker' = worker
    BY DEF Reconcile
  <1>5. NoneReopened /\ SameMessages /\ TextKept /\ DoneKept /\ SameTasks
    BY <1>1, <1>3, <1>4, OneRowKeeps
  <1>6. HandsKept
    BY <1>2, <1>3, <1>4, WorkerFields DEF HandsKept, Leases, HoldsLease, Becomes
  <1>7. SameAnswers
    BY <1>4 DEF SameAnswers
  <1>8. QED
    BY <1>5, <1>6, <1>7, LeasesStay

(* A job in hand is closed, done or to be tried again.                     *)
LEMMA CloseKeepsLeases ==
    ASSUME TypeOK, Leases, NEW w \in Workers, NEW j \in Jobs, worker[w].job = j,
           Moves(w, NoJob, "idle"), ack' = ack, NEW status, Becomes(j, status, "none"),
           status # "none",
           \A m \in Messages : j = <<"message", m>> => status \in {"ready", "failed"}
    PROVE  Leases'
  <1>1. row[j].status = "taken" /\ Exists(j)
    BY JobKinds DEF Leases, HoldsLease, Exists
  <1>2. \A m \in Messages : j = <<"message", m>> => Unfinished(m)
    BY <1>1 DEF Unfinished
  <1>3. NoneReopened /\ SameMessages /\ TextKept /\ DoneKept /\ SameTasks
    BY <1>1, <1>2, OneRowKeeps
  <1>4. HandsKept
    <2>1. \A i \in Jobs : i = worker[w].job \/ row'[i] = row[i]
      BY DEF Becomes
    <2>2. QED
      BY <2>1, OneHandMoved
  <1>5. SameAnswers
    BY OneAnswerMoved
  <1>6. QED
    BY <1>3, <1>4, <1>5, LeasesStay

LEMMA FailKeepsLeases ==
    ASSUME TypeOK, Leases, NEW w \in Workers, Fail(w)
    PROVE  Leases'
  <1>1. Moves(w, NoJob, "idle") /\ ack' = ack
    BY ReleaseMoves DEF Fail
  <1> PICK j : j = worker[w].job
    OBVIOUS
  <1>2. j \in Jobs
    BY FailRows
  <1>3. ASSUME Becomes(j, IF MayRetry(j) THEN "ready" ELSE "failed", "none")
        PROVE  Leases'
    <2> DEFINE status == IF MayRetry(j) THEN "ready" ELSE "failed"
    <2>1. Becomes(j, status, "none") /\ status \in {"ready", "failed"} /\ status # "none"
      BY <1>3
    <2> HIDE DEF status
    <2>2. QED
      BY <1>1, <1>2, <2>1, CloseKeepsLeases
  <1>4. ASSUME NEW m \in Messages, j = <<"task", m>>,
               IF Exists(<<"result", m>>)
               THEN Becomes(<<"task", m>>, "failed", "none")
               ELSE BothBecome(<<"task", m>>, "failed", <<"result", m>>, "ready")
        PROVE  Leases'
    BY <1>1, <1>4, FinishKeepsLeases
  <1>5. QED
    BY <1>3, <1>4, FailRows

LEMMA LapseKeepsLeases ==
    ASSUME ~Overrun, TypeOK, Leases, NEW j \in Jobs, Lapse(j)
    PROVE  Leases'
  <1>1. Becomes(j, row[j].status, "lapsed")
    BY LapseRows
  <1>2. /\ worker' = worker /\ ack' = ack
        /\ \A w \in Workers : worker[w].job # j
    BY DEF Lapse
  <1>3. /\ \A i \in Jobs : row'[i].status = row[i].status
        /\ \A i \in Jobs \ {j} : row'[i] = row[i]
    BY <1>1 DEF Becomes
  <1>4. \A i \in Jobs : Exists(i)' <=> Exists(i)
    BY <1>3 DEF Exists
  <1>5. \A m \in Messages : <<"message", m>> \in Jobs /\ <<"reply", m>> \in Jobs /\ <<"task", m>> \in Jobs
    BY JobKinds DEF Kinds
  <1>6. SameMessages /\ SameTasks /\ TextKept /\ DoneKept /\ NoneReopened
    BY <1>2, <1>3, <1>4, <1>5
       DEF SameMessages, SameTasks, TextKept, DoneKept, NoneReopened, Unfinished
  <1>7. HandsKept
    BY <1>2, <1>3, WorkerFields DEF HandsKept
  <1>8. SameAnswers
    BY <1>2 DEF SameAnswers
  <1>9. QED
    BY <1>6, <1>7, <1>8, LeasesStay

LEMMA ArriveKeepsLeases ==
    ASSUME TypeOK, Leases, NEW m \in Messages, NEW status \in {"ready", "transcribing"},
           Arrive(m, status)
    PROVE  Leases'
  <1> DEFINE j == <<"message", m>>
  <1>1. /\ j \in Jobs
        /\ \A n \in Messages : /\ <<"task", n>> \in Jobs \ {j} /\ <<"reply", n>> \in Jobs \ {j}
                               /\ <<"message", n>> \in Jobs /\ (<<"message", n>> = j => n = m)
    BY JobKinds DEF Kinds
  <1>2. /\ Becomes(j, status, row[j].lease) /\ ~Exists(j)
        /\ worker' = worker /\ ack' = ack
        /\ \A e \in Messages : e < m => Exists(<<"message", e>>)
    BY ArriveRows DEF Arrive
  <1>3. /\ row'[j].status \in {"ready", "transcribing"}
        /\ \A i \in Jobs \ {j} : row'[i] = row[i]
    BY <1>2 DEF Becomes
  <1> HIDE DEF j
  <1>4. HandsKept
    BY <1>2, <1>3, WorkerFields DEF HandsKept, Leases, HoldsLease, Exists
  <1>5. NoneReopened
    BY <1>1, <1>2, <1>3 DEF NoneReopened, Unfinished
  <1>6. EarlierArrived'
    <2> SUFFICES ASSUME NEW n \in Messages, Exists(<<"message", n>>)',
                        NEW e \in Messages, e < n
                 PROVE  Exists(<<"message", e>>)'
      BY DEF EarlierArrived
    <2>1. Exists(<<"message", e>>)
      <3>1. CASE n = m
        BY <1>2, <3>1
      <3>2. CASE n # m
        BY <1>1, <1>3, <3>2 DEF Exists, Leases, EarlierArrived
      <3>3. QED
        BY <3>1, <3>2
    <2>2. QED
      BY <1>1, <1>2, <1>3, <2>1 DEF Exists
  <1>7. TextKept
    <2> SUFFICES ASSUME NEW n \in Messages,
                        row'[<<"message", n>>].status \in {"none", "transcribing"}
                 PROVE  /\ row[<<"message", n>>].status \in {"none", "transcribing"}
                        /\ Exists(<<"reply", n>>)' => Exists(<<"reply", n>>)
      BY DEF TextKept
    <2>1. row[<<"message", n>>].status \in {"none", "transcribing"}
      BY <1>1, <1>2, <1>3 DEF Exists
    <2>2. QED
      BY <1>1, <1>3, <2>1 DEF Exists
  <1>8. SameTasks
    BY <1>1, <1>3 DEF SameTasks, Exists
  <1>9. DoneKept
    BY <1>1, <1>2, <1>3 DEF DoneKept, Exists
  <1>10. SameAnswers
    BY <1>2 DEF SameAnswers
  <1>11. HoldsLease' /\ Exclusive'
    BY <1>4, HandsStay DEF Leases
  <1>12. InOrder'
    BY <1>2, <1>5, OrderStays DEF Leases
  <1>13. TextFirst' /\ KnowsItsTask' /\ CompletedIsAnswered'
    BY <1>7, <1>8, <1>9, <1>10, TextStays, KnowledgeStays, CompletedStays DEF Leases
  <1>14. QED
    BY <1>6, <1>11, <1>12, <1>13 DEF Leases

LEMMA ClaimKeepsLeases ==
    ASSUME TypeOK, Leases, NEW w \in Workers, NEW j \in Jobs, Claim(w, j)
    PROVE  Leases'
  <1>1. Moves(w, j, "claimed") /\ Becomes(j, "taken", "held")
    BY ClaimMoves, ClaimRows
  <1>2. /\ Claimable(j) /\ ack' = ack
        /\ row[j].status = "ready" \/ (row[j].status = "taken" /\ row[j].lease = "lapsed")
    BY DEF Claim, Claimable, Available
  <1>3. \A v \in Workers : worker[v].job # j
    BY <1>2, JobKinds DEF Leases, HoldsLease
  <1>4. /\ \A v \in Workers \ {w} : worker'[v] = worker[v]
        /\ worker'[w].job = j /\ worker'[w].phase = "claimed"
        /\ row'[j].status = "taken" /\ row'[j].lease = "held"
        /\ \A i \in Jobs \ {j} : row'[i] = row[i]
    BY <1>1 DEF Moves, Becomes
  <1>5. \A m \in Messages : j = <<"message", m>> => Unfinished(m)
    BY <1>2 DEF Unfinished
  <1>6. NoneReopened /\ SameMessages /\ TextKept /\ DoneKept /\ SameTasks
    <2>1. Exists(j)
      BY <1>2 DEF Exists
    <2>2. QED
      BY <1>1, <1>2, <1>5, <2>1, OneRowKeeps
  <1>7. SameAnswers
    BY <1>1, OneAnswerMoved
  <1>8. HoldsLease'
    BY <1>3, <1>4, WorkerFields DEF Leases, HoldsLease
  <1>9. Exclusive'
    BY <1>3, <1>4, JobKinds DEF Leases, Exclusive
  <1>10. InOrder'
    <2> SUFFICES ASSUME NEW v \in Workers, NEW m \in Messages, worker'[v].job = <<"message", m>>,
                        NEW e \in Messages, e < m
                 PROVE  ~Unfinished(e)'
      BY DEF InOrder
    <2>1. Exists(<<"message", m>>) /\ ~Unfinished(e)
      <3>1. CASE v = w
        BY <1>2, <1>4, <3>1 DEF Claimable, Exists
      <3>2. CASE v # w
        <4>1. <<"message", m>> # NoJob /\ worker[v].job = <<"message", m>>
          BY <1>4, <3>2, JobKinds DEF Kinds
        <4>2. QED
          BY <4>1, HeldExists DEF Leases, InOrder
      <3>3. QED
        BY <3>1, <3>2
    <2>2. Exists(<<"message", e>>)
      BY <2>1 DEF Leases, EarlierArrived
    <2>3. QED
      BY <1>6, <2>1, <2>2 DEF NoneReopened
  <1>11. EarlierArrived' /\ TextFirst' /\ KnowsItsTask' /\ CompletedIsAnswered'
    BY <1>6, <1>7, ArrivalsStay, TextStays, KnowledgeStays, CompletedStays DEF Leases
  <1>12. QED
    BY <1>8, <1>9, <1>10, <1>11 DEF Leases

(* A worker that goes on with a message may come to answer it, knowing     *)
(* whether it has a task.                                                  *)
LEMMA AnswerKeepsLeases ==
    ASSUME TypeOK, Leases, NEW w \in Workers, NEW m \in Messages, NEW phase,
           worker[w].job = <<"message", m>>, Moves(w, <<"message", m>>, phase),
           phase = "answered" => (worker'[w].known <=> Exists(<<"task", m>>)),
           row' = row, ack' = ack
    PROVE  Leases'
  <1>1. HandsKept
    BY OneHandMoved
  <1>2. NoneReopened /\ SameMessages /\ TextKept /\ DoneKept /\ SameTasks
    BY NoRowWritten
  <1>3. KnowsItsTask'
    <2> SUFFICES ASSUME NEW v \in Workers, NEW n \in Messages,
                        worker'[v].job = <<"message", n>>, worker'[v].phase = "answered"
                 PROVE  worker'[v].known <=> Exists(<<"task", n>>)
      BY DEF KnowsItsTask, Exists
    <2>1. CASE v = w
      BY <2>1 DEF Moves
    <2>2. CASE v # w
      BY <2>2 DEF Moves, Leases, KnowsItsTask
    <2>3. QED
      BY <2>1, <2>2
  <1>4. HoldsLease' /\ Exclusive'
    BY <1>1, HandsStay DEF Leases
  <1>5. InOrder'
    BY <1>1, <1>2, OrderStays DEF Leases, HandsKept
  <1>6. EarlierArrived' /\ TextFirst' /\ CompletedIsAnswered'
    BY <1>2, ArrivalsStay, TextStays, CompletedStays DEF Leases
  <1>7. QED
    BY <1>3, <1>4, <1>5, <1>6 DEF Leases

LEMMA DelegateKeepsLeases ==
    ASSUME TypeOK, Leases, NEW w \in Workers, NEW m \in Messages, Delegate(w, m)
    PROVE  Leases'
  <1> DEFINE j == <<"task", m>>
             k == <<"message", m>>
  <1>1. /\ Moves(w, k, "delegated") /\ worker[w].job = k /\ ack' = ack
    BY DelegateMoves DEF Delegate
  <1>2. IF Exists(j) THEN row' = row ELSE Becomes(j, "ready", "none")
    BY DelegateRows
  <1>3. CASE Exists(j)
    BY <1>1, <1>2, <1>3, QuietStepKeepsLeases
  <1>4. CASE ~Exists(j)
    <2>1. /\ j \in Jobs /\ k \in Jobs /\ j # k
          /\ \A n \in Messages : /\ <<"message", n>> \in Jobs \ {j} /\ <<"reply", n>> \in Jobs \ {j}
                                 /\ <<"task", n>> \in Jobs /\ (<<"task", n>> = j => n = m)
                                 /\ <<"message", n>> = k => n = m
          /\ k # NoJob
      BY JobKinds DEF Kinds
    <2>2. /\ \A i \in Jobs \ {j} : row'[i] = row[i]
          /\ \A v \in Workers \ {w} : worker'[v] = worker[v]
          /\ worker'[w].job = k /\ worker'[w].phase = "delegated"
      BY <1>1, <1>2, <1>4 DEF Becomes, Moves
    <2>3. row[k].status = "taken"
      BY <1>1, <2>1 DEF Leases, HoldsLease
    <2>4. \A v \in Workers \ {w} : worker[v].job # k
      BY <1>1, <2>1 DEF Leases, Exclusive
    <2>5. ~Exists(j)
      BY <1>4
    <2> HIDE DEF j, k
    <2>6. HandsKept
      BY <1>1, <2>1, <2>2, <2>5, OneHandMoved DEF Exists
    <2>7. NoneReopened /\ SameMessages /\ TextKept /\ DoneKept
      <3>1. /\ \A n \in Messages : row'[<<"message", n>>] = row[<<"message", n>>]
            /\ \A n \in Messages : Exists(<<"reply", n>>)' <=> Exists(<<"reply", n>>)
        BY <2>1, <2>2 DEF Exists
      <3>2. QED
        BY <1>1, <3>1, OtherRowsWritten
    <2>8. KnowsItsTask'
      <3> SUFFICES ASSUME NEW v \in Workers, NEW n \in Messages,
                          worker'[v].job = <<"message", n>>, worker'[v].phase = "answered"
                   PROVE  worker'[v].known <=> Exists(<<"task", n>>)'
        BY DEF KnowsItsTask
      <3>1. v # w /\ worker'[v] = worker[v]
        BY <2>2
      <3>2. n # m
        BY <2>4, <3>1 DEF k
      <3>3. Exists(<<"task", n>>)' <=> Exists(<<"task", n>>)
        BY <2>1, <2>2, <3>2 DEF Exists
      <3>4. QED
        BY <3>1, <3>3 DEF Leases, KnowsItsTask
    <2>9. CompletedIsAnswered'
      <3> SUFFICES ASSUME NEW n \in Messages, row'[<<"message", n>>].status = "done"
                   PROVE  Exists(<<"reply", n>>)' /\ (Exists(<<"task", n>>)' => ack'[n])
        BY DEF CompletedIsAnswered
      <3>1. row[<<"message", n>>].status = "done"
        BY <2>1, <2>2
      <3>2. n # m
        BY <2>3, <3>1 DEF k
      <3>3. /\ Exists(<<"task", n>>)' <=> Exists(<<"task", n>>)
            /\ Exists(<<"reply", n>>)' <=> Exists(<<"reply", n>>)
        BY <2>1, <2>2, <3>2 DEF Exists
      <3>4. QED
        BY <1>1, <3>1, <3>3 DEF Leases, CompletedIsAnswered
    <2>10. HoldsLease' /\ Exclusive'
      BY <2>6, HandsStay DEF Leases
    <2>11. InOrder'
      BY <2>6, <2>7, OrderStays DEF Leases, HandsKept
    <2>12. EarlierArrived' /\ TextFirst'
      BY <2>7, ArrivalsStay, TextStays DEF Leases
    <2>13. QED
      BY <2>8, <2>9, <2>10, <2>11, <2>12 DEF Leases
  <1>5. QED
    BY <1>3, <1>4

LEMMA ReplyKeepsLeases ==
    ASSUME TypeOK, Leases, NEW w \in Workers, NEW m \in Messages, Reply(w, m)
    PROVE  Leases'
  <1> DEFINE j == <<"reply", m>>
             k == <<"message", m>>
  <1>1. /\ j \in Jobs /\ k \in Jobs /\ j # k /\ k # NoJob
        /\ \A n \in Messages : /\ <<"message", n>> \in Jobs \ {j} /\ <<"reply", n>> \in Jobs \ {k}
                               /\ <<"task", n>> \in Jobs \ {j, k}
                               /\ <<"message", n>> = k => n = m
                               /\ <<"reply", n>> = j => n = m
    BY JobKinds DEF Kinds
  <1>2. /\ Moves(w, NoJob, "idle") /\ BothBecome(j, "ready", k, "done")
        /\ worker[w].job = k /\ worker[w].phase = "answered" /\ ~Exists(j)
    BY ReleaseMoves, ReplyRows DEF Reply
  <1>3. /\ \A i \in Jobs \ {j, k} : row'[i] = row[i]
        /\ row'[j].status = "ready" /\ row'[k].status = "done"
    BY <1>2 DEF BothBecome
  <1>4. row[k].status = "taken"
    BY <1>1, <1>2 DEF Leases, HoldsLease
  <1>5. worker[w].known <=> Exists(<<"task", m>>)
    BY <1>2 DEF Leases, KnowsItsTask
  <1>6. /\ ack'[m] <=> ack[m] \/ worker[w].known
        /\ \A n \in Messages \ {m} : ack'[n] = ack[n]
    BY DEF Reply, TypeOK
  <1> HIDE DEF j, k
  <1>7. HandsKept
    BY <1>2, <1>3, OneHandMoved DEF Exists
  <1>8. SameTasks
    BY <1>1, <1>3 DEF SameTasks, Exists
  <1>9. SameMessages
    BY <1>1, <1>3, <1>4 DEF SameMessages, Exists
  <1>10. NoneReopened
    BY <1>1, <1>3, <1>4 DEF NoneReopened, Unfinished
  <1>11. TextKept
    <2> SUFFICES ASSUME NEW n \in Messages,
                        row'[<<"message", n>>].status \in {"none", "transcribing"}
                 PROVE  /\ row[<<"message", n>>].status \in {"none", "transcribing"}
                        /\ Exists(<<"reply", n>>)' => Exists(<<"reply", n>>)
      BY DEF TextKept
    <2>1. n # m
      BY <1>3 DEF k
    <2>2. <<"message", n>> \in Jobs \ {j, k} /\ <<"reply", n>> \in Jobs \ {j, k}
      BY <1>1, <2>1
    <2>3. QED
      BY <1>3, <2>2 DEF Exists
  <1>12. SameAnswers
    BY <1>2, OneAnswerMoved
  <1>13. CompletedIsAnswered'
    <2> SUFFICES ASSUME NEW n \in Messages, row'[<<"message", n>>].status = "done"
                 PROVE  Exists(<<"reply", n>>)' /\ (Exists(<<"task", n>>)' => ack'[n])
      BY DEF CompletedIsAnswered
    <2>1. Exists(<<"task", n>>)' <=> Exists(<<"task", n>>)
      BY <1>8 DEF SameTasks
    <2>2. CASE n = m
      BY <1>3, <1>5, <1>6, <2>1, <2>2 DEF Exists, j
    <2>3. CASE n # m
      <3>1. <<"message", n>> \in Jobs \ {j, k} /\ <<"reply", n>> \in Jobs \ {j, k}
        BY <1>1, <2>3
      <3>2. /\ row[<<"message", n>>].status = "done"
            /\ Exists(<<"reply", n>>)' <=> Exists(<<"reply", n>>)
        BY <1>3, <3>1 DEF Exists
      <3>3. QED
        BY <1>6, <2>1, <2>3, <3>2 DEF Leases, CompletedIsAnswered
    <2>4. QED
      BY <2>2, <2>3
  <1>14. HoldsLease' /\ Exclusive'
    BY <1>7, HandsStay DEF Leases
  <1>15. InOrder'
    BY <1>7, <1>10, OrderStays DEF Leases, HandsKept
  <1>16. EarlierArrived' /\ TextFirst' /\ KnowsItsTask'
    BY <1>8, <1>9, <1>11, <1>12, ArrivalsStay, TextStays, KnowledgeStays DEF Leases
  <1>17. QED
    BY <1>13, <1>14, <1>15, <1>16 DEF Leases

LEMMA InitLeases == Init => Leases
  <1> SUFFICES ASSUME Init PROVE Leases
    OBVIOUS
  <1>1. NoRow.status = "none"
    BY DEF NoRow
  <1>2. \A j \in Jobs : row[j].status = "none"
    BY <1>1 DEF Init
  <1>3. \A w \in Workers : worker[w].job = NoJob /\ worker[w].phase = "idle"
    BY IdleFields DEF Init
  <1>4. \A m \in Messages : ~Exists(<<"message", m>>) /\ ~Exists(<<"reply", m>>)
    BY <1>2, JobKinds DEF Exists, Kinds
  <1>5. HoldsLease /\ Exclusive
    BY <1>3 DEF HoldsLease, Exclusive
  <1>6. InOrder
    <2>1. \A m \in Messages : <<"message", m>> # NoJob
      BY JobKinds DEF Kinds
    <2>2. QED
      BY <1>3, <2>1 DEF InOrder
  <1>7. EarlierArrived /\ TextFirst /\ KnowsItsTask
    BY <1>3, <1>4 DEF EarlierArrived, TextFirst, KnowsItsTask
  <1>8. CompletedIsAnswered
    BY <1>4 DEF CompletedIsAnswered, Exists
  <1>9. QED
    BY <1>5, <1>6, <1>7, <1>8 DEF Leases

LEMMA NextLeases ==
    ASSUME ~Overrun, TypeOK, Leases, [Next]_vars
    PROVE  Leases'
  <1>1. ASSUME NEW m \in Messages, NEW status \in {"ready", "transcribing"}, Arrive(m, status)
        PROVE  Leases'
    BY <1>1, ArriveKeepsLeases
  <1>2. ASSUME NEW m \in Messages, Transcribed(m) PROVE Leases'
    BY <1>2, TranscribedKeepsLeases
  <1>3. ASSUME NEW m \in Messages, NEW status \in {"done", "failed"}, Reconcile(m, status)
        PROVE  Leases'
    BY <1>3, ReconcileKeepsLeases
  <1>4. ASSUME NEW w \in Workers, NEW m \in Messages, AlreadyAnswered(w, m) PROVE Leases'
    BY <1>4, ReleaseMoves, QuietStepKeepsLeases DEF AlreadyAnswered
  <1>5. ASSUME NEW w \in Workers, NEW m \in Messages, Begin(w, m) PROVE Leases'
    <2> DEFINE phase == IF settled[m] THEN "answered" ELSE "routing"
    <2>1. /\ Moves(w, <<"message", m>>, phase)
          /\ phase = "answered" => (worker'[w].known <=> Exists(<<"task", m>>))
      BY <1>5, BeginMoves
    <2>2. worker[w].job = <<"message", m>> /\ row' = row /\ ack' = ack
      BY <1>5 DEF Begin
    <2> HIDE DEF phase
    <2>3. QED
      BY <2>1, <2>2, AnswerKeepsLeases
  <1>6. ASSUME NEW w \in Workers, NEW m \in Messages, Delegate(w, m) PROVE Leases'
    BY <1>6, DelegateKeepsLeases
  <1>7. ASSUME NEW w \in Workers, NEW m \in Messages, Settle(w, m) PROVE Leases'
    <2>1. worker[w].job = <<"message", m>> /\ row' = row /\ ack' = ack
      BY <1>7 DEF Settle
    <2>2. QED
      BY <1>7, <2>1, SettleMoves, AnswerKeepsLeases
  <1>8. ASSUME NEW w \in Workers, NEW m \in Messages, Reply(w, m) PROVE Leases'
    BY <1>8, ReplyKeepsLeases
  <1>9. ASSUME NEW w \in Workers, NEW m \in Messages, NEW status \in {"done", "waiting"},
               Finish(w, m, status)
        PROVE  Leases'
    <2>1. /\ Moves(w, NoJob, "idle") /\ worker[w].job = <<"task", m>> /\ ack' = ack
          /\ status \in Statuses /\ status \in {"done", "waiting", "failed"}
          /\ worker[w].known \in BOOLEAN
      BY <1>9, ReleaseMoves, WorkerFields DEF Finish, Statuses
    <2>2. IF Exists(<<"result", m>>)
          THEN Becomes(<<"task", m>>, status, "none")
          ELSE BothBecome(<<"task", m>>, status, <<"result", m>>, "ready")
      BY <1>9, <2>1, CloseWithResultRows DEF Finish
    <2>3. QED
      BY <2>1, <2>2, FinishKeepsLeases
  <1>10. ASSUME NEW w \in Workers, NEW j \in Outbox, Send(w, j) PROVE Leases'
    <2>1. Moves(w, j, "sent") /\ worker[w].job = j /\ row' = row /\ ack' = ack
      BY <1>10, SendMoves DEF Send
    <2>2. QED
      BY <2>1, QuietStepKeepsLeases
  <1>11. ASSUME NEW w \in Workers, NEW j \in Outbox, CommitSent(w, j) PROVE Leases'
    <2>1. /\ Moves(w, NoJob, "idle") /\ worker[w].job = j /\ ack' = ack
          /\ j \in Jobs /\ \A m \in Messages : j # <<"message", m>>
      BY <1>11, ReleaseMoves, JobKinds DEF CommitSent, Outbox
    <2>2. Becomes(j, "done", "none")
      BY <1>11, <2>1, CloseRows DEF CommitSent, Statuses
    <2>3. QED
      BY <2>1, <2>2, CloseKeepsLeases
  <1>12. ASSUME NEW w \in Workers, Fail(w) PROVE Leases'
    BY <1>12, FailKeepsLeases
  <1>13. ASSUME NEW w \in Workers, Crash(w) PROVE Leases'
    BY <1>13, ReleaseMoves, QuietStepKeepsLeases DEF Crash
  <1>14. ASSUME NEW w \in Workers, NEW j \in Jobs, Claim(w, j) PROVE Leases'
    BY <1>14, ClaimKeepsLeases
  <1>15. ASSUME NEW j \in Jobs, Lapse(j) PROVE Leases'
    BY <1>15, LapseKeepsLeases
  <1>16. CASE UNCHANGED vars
    <2>1. HandsKept /\ SameAnswers /\ row' = row /\ ack' = ack
      BY <1>16 DEF vars, HandsKept, SameAnswers
    <2>2. QED
      BY <2>1, NoRowWritten, LeasesStay
  <1>17. CASE Next
    BY <1>17, <1>1, <1>2, <1>3, <1>4, <1>5, <1>6, <1>7, <1>8, <1>9, <1>10, <1>11,
       <1>12, <1>13, <1>14, <1>15 DEF Next, Step
  <1>18. QED
    BY <1>16, <1>17

LEMMA LeasesHold ==
    ASSUME ~Overrun
    PROVE  Spec => []Leases
  <1>1. TypeOK /\ Leases /\ [Next]_vars => Leases'
    BY NextLeases
  <1>2. QED
    BY <1>1, PipelineTyped, InitLeases, PTL DEF Spec

(* While leases outlast the work they cover, no two workers have the same  *)
(* row in hand and a message waits for the earlier ones, whatever crashes, *)
(* fails or is tried again.                                                *)
THEOREM MessagesInOrder ==
    ASSUME ~Overrun
    PROVE  Spec => []ExclusiveInOrder
  <1>1. Leases => ExclusiveInOrder
    BY DEF Leases, Exclusive, InOrder, ExclusiveInOrder
  <1>2. QED
    BY <1>1, LeasesHold, PTL

(* And a completed message has its reply in the outbox, linked to the task *)
(* it was delegated to: under leases that run out a second worker could    *)
(* delegate the message after the first one closed it.                     *)
THEOREM CompletedMessagesAnswered ==
    ASSUME ~Overrun
    PROVE  Spec => []CompletedIsAnswered
  <1>1. Leases => CompletedIsAnswered
    BY DEF Leases
  <1>2. QED
    BY <1>1, LeasesHold, PTL
=============================================================================
