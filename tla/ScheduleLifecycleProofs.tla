----------------------- MODULE ScheduleLifecycleProofs -----------------------
(***************************************************************************)
(* Proofs about ScheduleLifecycle, for every set of schedules, messages    *)
(* and specifications and every bound on revisions and pending actions:    *)
(* that its tables keep their shape, that no revision of a routine runs    *)
(* without the authorisation the user gave to exactly that revision, what  *)
(* may become of a grant, and that it implements the contract the worker   *)
(* relies on.                                                              *)
(***************************************************************************)
EXTENDS ScheduleRefinement, TLAPS

-----------------------------------------------------------------------------
(* Type correctness.                                                       *)

(* Facts about the bound on revisions.                                     *)
LEMMA Bounds ==
    /\ MaxRevision \in Nat
    /\ 0 \in 0..MaxRevision /\ 1 \in Revisions /\ 1 \in 0..MaxRevision
    /\ Revisions \subseteq 0..MaxRevision
    /\ None \in Specs \cup {None}
  BY LifecycleAssumption DEF Revisions

(* Replacing one value of a function keeps its type.                       *)
LEMMA SetRow ==
    ASSUME NEW S, NEW T, NEW f \in [S -> T], NEW x \in S, NEW v \in T
    PROVE  [f EXCEPT ![x] = v] \in [S -> T]
  OBVIOUS

(* The updates of a row that the actions make keep it well formed.         *)
LEMMA ScheduleRows ==
    ASSUME NEW row \in ScheduleRow, NEW st \in Statuses, NEW b \in BOOLEAN, NEW c \in BOOLEAN
    PROVE  /\ [row EXCEPT !.status = st] \in ScheduleRow
           /\ [row EXCEPT !.status = st, !.scheduled = b] \in ScheduleRow
           /\ [row EXCEPT !.ran = c] \in ScheduleRow
           /\ [row EXCEPT !.ran = c, !.scheduled = b, !.status = st] \in ScheduleRow
           /\ ClearPendingUpdate(row) \in ScheduleRow
  BY Bounds DEF ScheduleRow, ClearPendingUpdate

LEMMA VersionRows ==
    ASSUME NEW row \in ScheduleRow, NEW r \in 0..MaxRevision,
           NEW sp \in Specs \cup {None}, NEW st \in Statuses
    PROVE  /\ [row EXCEPT !.status = st, !.revision = r, !.spec = sp,
                          !.scheduled = TRUE] \in ScheduleRow
           /\ [row EXCEPT !.status = st, !.spec = sp, !.revision = r,
                          !.scheduled = TRUE] \in ScheduleRow
           /\ [row EXCEPT !.pendingRevision = r, !.pendingSpec = sp] \in ScheduleRow
  BY DEF ScheduleRow

LEMMA GrantRows ==
    ASSUME NEW row \in GrantRow, NEW st \in {"none", "pending", "active", "revoked"},
           NEW sp \in Specs \cup {None}, NEW m \in Messages \cup {0}
    PROVE  /\ NewGrant(st, sp, m) \in GrantRow
           /\ [row EXCEPT !.status = st] \in GrantRow
           /\ [status |-> st, spec |-> row.spec, by |-> m] \in GrantRow
  BY DEF GrantRow, NewGrant

(* A table of pending actions: well-formed rows, and references to a       *)
(* schedule, a revision and a message in every row in use.                 *)
Referenced(acts) ==
    \A a \in ActionIds : acts[a].status # "none" =>
        /\ acts[a].schedule \in Schedules
        /\ acts[a].revision \in Revisions
        /\ acts[a].createdBy \in Messages
ActionTable(acts) == acts \in [ActionIds -> ActionRow] /\ Referenced(acts)

(* The helpers that close pending actions return such a table.             *)
LEMMA CloseTables ==
    ASSUME NEW acts, ActionTable(acts), NEW s
    PROVE  /\ ActionTable(MarkLapsed(acts))
           /\ ActionTable(Supersede(acts, s))
           /\ ActionTable(ExpireActions(acts, s))
  BY DEF ActionTable, Referenced, MarkLapsed, Supersede, ExpireActions, ActionRow, Pending

(* So does closing one action in use with a final status.                  *)
LEMMA CloseOneTable ==
    ASSUME ActionTable(action), NEW a \in ActionIds, Live(action[a]),
           NEW st \in {"executed", "failed", "cancelled"}
    PROVE  ActionTable(Close(a, st))
  BY CloseTables DEF ActionTable, Referenced, Close, MarkLapsed, ActionRow, Live, Pending

(* create_pending_action leaves such a table.                              *)
LEMMA CreateTable ==
    ASSUME NEW acts, ActionTable(acts), NEW s \in Schedules,
           NEW r \in Revisions, NEW m \in Messages,
           CreatePendingAction(acts, s, r, m)
    PROVE  ActionTable(action')
  <1> DEFINE row == [status |-> "pending", schedule |-> s, revision |-> r,
                     createdBy |-> m, lapsed |-> FALSE]
  <1>1. row \in ActionRow
    BY LifecycleAssumption DEF ActionRow, Revisions
  <1>2. CASE action' = acts
    BY <1>2
  <1>3. CASE \E a \in ActionIds : action' = [acts EXCEPT ![a] = row]
    BY <1>1, <1>3 DEF ActionTable, Referenced
  <1>4. QED
    BY <1>2, <1>3 DEF CreatePendingAction

(* Revoking some grants of a schedule keeps its grants well formed.        *)
LEMMA RevokeType ==
    ASSUME NEW grants \in [Revisions -> GrantRow], NEW st
    PROVE  Revoke(grants, st) \in [Revisions -> GrantRow]
  BY DEF Revoke, GrantRow

LEMMA TypeInit == Init => TypeOK
  BY LifecycleAssumption
  DEF Init, TypeOK, NoSchedule, NoGrant, NoAction, ScheduleRow, GrantRow,
      ActionRow, Statuses, Revisions

(* A step that writes one row of each table keeps the types if the rows it *)
(* writes are well formed.                                                 *)
LEMMA RowsWritten ==
    ASSUME TypeOK, NEW s \in Schedules, NEW row \in ScheduleRow,
           NEW grants \in [Revisions -> GrantRow],
           schedule' = schedule \/ schedule' = [schedule EXCEPT ![s] = row],
           grant' = grant \/ grant' = [grant EXCEPT ![s] = grants],
           ActionTable(action'),
           UNCHANGED horizon
    PROVE  TypeOK'
  <1>1. schedule' \in [Schedules -> ScheduleRow]
    BY SetRow DEF TypeOK
  <1>2. grant' \in [Schedules -> [Revisions -> GrantRow]]
    BY SetRow DEF TypeOK
  <1>3. QED
    BY <1>1, <1>2 DEF TypeOK, ActionTable, Referenced

(* What an action may refer to, and what the tables hold there.            *)
LEMMA RowTypes ==
    ASSUME TypeOK
    PROVE  /\ ActionTable(action)
           /\ \A s \in Schedules : /\ schedule[s] \in ScheduleRow
                                   /\ grant[s] \in [Revisions -> GrantRow]
                                   /\ schedule[s].spec \in Specs \cup {None}
                                   /\ schedule[s].pendingSpec \in Specs \cup {None}
           /\ \A s \in Schedules, r \in Revisions : grant[s][r] \in GrantRow
           /\ \A a \in ActionIds : action[a].status # "none" =>
                /\ action[a].schedule \in Schedules
                /\ action[a].revision \in Revisions
  BY DEF TypeOK, ActionTable, Referenced, ScheduleRow

(* The actions of the user that write a schedule and its grants.           *)
LEMMA CreateTypes ==
    ASSUME TypeOK, NEW s \in Schedules, NEW m \in Messages, NEW sp \in Specs,
           CreateActive(s, m, sp) \/ CreateDraft(s, m, sp)
    PROVE  TypeOK'
  <1> DEFINE row(st) == [NoSchedule EXCEPT !.status = st, !.revision = 1,
                                           !.spec = sp, !.scheduled = TRUE]
             grants(g) == [grant[s] EXCEPT ![1] = g]
  <1>1. NoSchedule \in ScheduleRow
    BY Bounds DEF NoSchedule, ScheduleRow, Statuses
  <1>2. row("active") \in ScheduleRow /\ row("awaiting_confirmation") \in ScheduleRow
    BY <1>1, Bounds, VersionRows DEF Statuses
  <1>3. NewGrant("active", sp, m) \in GrantRow /\ NewGrant("pending", sp, 0) \in GrantRow
    BY DEF GrantRow, NewGrant
  <1>4. /\ grants(NewGrant("active", sp, m)) \in [Revisions -> GrantRow]
        /\ grants(NewGrant("pending", sp, 0)) \in [Revisions -> GrantRow]
    BY <1>3, Bounds, RowTypes, SetRow
  <1>5. CASE CreateActive(s, m, sp)
    <2>1. schedule' = [schedule EXCEPT ![s] = row("active")]
      BY <1>5 DEF CreateActive
    <2>2. grant' = [grant EXCEPT ![s] = grants(NewGrant("active", sp, m))]
      BY <1>5 DEF CreateActive
    <2>3. ActionTable(action')
      BY <1>5, RowTypes DEF CreateActive
    <2>4. UNCHANGED horizon
      BY <1>5 DEF CreateActive
    <2>5. QED
      BY <2>1, <2>2, <2>3, <2>4, <1>2, <1>4, RowsWritten
  <1>6. CASE CreateDraft(s, m, sp)
    <2>1. schedule' = [schedule EXCEPT ![s] = row("awaiting_confirmation")]
      BY <1>6 DEF CreateDraft
    <2>2. grant' = [grant EXCEPT ![s] = grants(NewGrant("pending", sp, 0))]
      BY <1>6 DEF CreateDraft
    <2>3. ActionTable(action')
      BY <1>6, Bounds, RowTypes, CreateTable DEF CreateDraft
    <2>4. UNCHANGED horizon
      BY <1>6 DEF CreateDraft
    <2>5. QED
      BY <2>1, <2>2, <2>3, <2>4, <1>2, <1>4, RowsWritten
  <1>7. QED
    BY <1>5, <1>6

LEMMA UpdateTypes ==
    ASSUME TypeOK, NEW s \in Schedules, NEW m \in Messages, NEW sp \in Specs,
           UpdateImmediately(s, m, sp) \/ ProposeUpdate(s, m, sp)
    PROVE  TypeOK'
  <1> DEFINE n == NextRevision(s)
             active == [ClearPendingUpdate(schedule[s]) EXCEPT !.status = "active",
                            !.spec = sp, !.revision = n, !.scheduled = TRUE]
             proposed == [schedule[s] EXCEPT !.pendingRevision = n, !.pendingSpec = sp]
             grants(st, g) == [Revoke(grant[s], st) EXCEPT ![n] = g]
  <1>1. n \in Revisions /\ n \in 0..MaxRevision
    BY Bounds DEF UpdateImmediately, ProposeUpdate, RevisionFree
  <1>2. ClearPendingUpdate(schedule[s]) \in ScheduleRow
    BY RowTypes, ScheduleRows DEF Statuses
  <1>3. active \in ScheduleRow /\ proposed \in ScheduleRow
    BY <1>1, <1>2, RowTypes, VersionRows DEF Statuses
  <1>4. NewGrant("active", sp, m) \in GrantRow /\ NewGrant("pending", sp, 0) \in GrantRow
    BY DEF GrantRow, NewGrant
  <1>5. ASSUME NEW st, NEW g \in GrantRow PROVE grants(st, g) \in [Revisions -> GrantRow]
    BY <1>1, RowTypes, RevokeType, SetRow
  <1>6. CASE UpdateImmediately(s, m, sp)
    <2>1. schedule' = [schedule EXCEPT ![s] = active]
      BY <1>6 DEF UpdateImmediately
    <2>2. grant' = [grant EXCEPT ![s] =
                        grants({"pending", "active"}, NewGrant("active", sp, m))]
      BY <1>6 DEF UpdateImmediately
    <2>3. ActionTable(action')
      BY <1>6, RowTypes, CloseTables DEF UpdateImmediately
    <2>4. UNCHANGED horizon
      BY <1>6 DEF UpdateImmediately
    <2>5. QED
      BY <2>1, <2>2, <2>3, <2>4, <1>3, <1>4, <1>5, RowsWritten
  <1>7. CASE ProposeUpdate(s, m, sp)
    <2>1. schedule' = [schedule EXCEPT ![s] = proposed]
      BY <1>7 DEF ProposeUpdate
    <2>2. grant' = [grant EXCEPT ![s] = grants({"pending"}, NewGrant("pending", sp, 0))]
      BY <1>7 DEF ProposeUpdate
    <2>3. ActionTable(action')
      BY <1>7, <1>1, RowTypes, CloseTables, CreateTable DEF ProposeUpdate
    <2>4. UNCHANGED horizon
      BY <1>7 DEF ProposeUpdate
    <2>5. QED
      BY <2>1, <2>2, <2>3, <2>4, <1>3, <1>4, <1>5, RowsWritten
  <1>8. QED
    BY <1>6, <1>7

LEMMA AnswerTypes ==
    ASSUME TypeOK, NEW a \in ActionIds, NEW m \in Messages,
           ConfirmActivates(a, m) \/ ConfirmTooLate(a, m) \/ ConfirmRefused(a, m)
              \/ Renew(a, m) \/ Cancel(a, m)
    PROVE  TypeOK'
  <1> DEFINE s == action[a].schedule
             r == action[a].revision
             cleared == ClearPendingUpdate(schedule[s])
             revised(row) == [row EXCEPT !.status = "active", !.revision = r,
                                !.spec = VersionSpec(s, r), !.scheduled = TRUE]
             closed(st) == [schedule[s] EXCEPT !.status = st, !.scheduled = FALSE]
             confirmed == [status |-> "active", spec |-> grant[s][r].spec, by |-> m]
             revoked == [grant[s][r] EXCEPT !.status = "revoked"]
  <1>1. s \in Schedules /\ r \in Revisions /\ r \in 0..MaxRevision
    BY RowTypes, Bounds DEF ConfirmActivates, ConfirmTooLate, ConfirmRefused, Renew, Cancel,
                            Accepted, Live, Pending
  <1>2. schedule[s] \in ScheduleRow /\ cleared \in ScheduleRow
    BY <1>1, RowTypes, ScheduleRows DEF Statuses
  <1>3. closed("expired") \in ScheduleRow /\ closed("deleted") \in ScheduleRow
    BY <1>2, ScheduleRows DEF Statuses
  <1>4. VersionSpec(s, r) \in Specs \cup {None}
    BY <1>1, RowTypes DEF VersionSpec
  <1>5. revised(schedule[s]) \in ScheduleRow /\ revised(cleared) \in ScheduleRow
    BY <1>1, <1>2, <1>4, VersionRows DEF Statuses
  <1>6. /\ grant[s] \in [Revisions -> GrantRow]
        /\ Revoke(grant[s], {"active"}) \in [Revisions -> GrantRow]
    BY <1>1, RowTypes, RevokeType
  <1>7. confirmed \in GrantRow /\ revoked \in GrantRow /\ grant[s][r] \in GrantRow
    BY <1>1, RowTypes, GrantRows
  <1>8. /\ [grant[s] EXCEPT ![r] = confirmed] \in [Revisions -> GrantRow]
        /\ [Revoke(grant[s], {"active"}) EXCEPT ![r] = confirmed] \in [Revisions -> GrantRow]
        /\ [grant[s] EXCEPT ![r] = revoked] \in [Revisions -> GrantRow]
    BY <1>1, <1>6, <1>7, SetRow
  <1>9. CASE ConfirmActivates(a, m)
    <2>1. schedule' = [schedule EXCEPT ![s] =
                        IF IsUpdate(s, r) THEN revised(cleared) ELSE revised(schedule[s])]
      BY <1>9 DEF ConfirmActivates
    <2>2. grant' = [grant EXCEPT ![s] =
                        IF IsUpdate(s, r)
                        THEN [Revoke(grant[s], {"active"}) EXCEPT ![r] = confirmed]
                        ELSE [grant[s] EXCEPT ![r] = confirmed]]
      BY <1>9 DEF ConfirmActivates
    <2>3. ActionTable(action')
      BY <1>9, RowTypes, CloseOneTable DEF ConfirmActivates, Accepted
    <2>4. UNCHANGED horizon
      BY <1>9 DEF ConfirmActivates
    <2>5. QED
      BY <2>1, <2>2, <2>3, <2>4, <1>1, <1>5, <1>8, RowsWritten
  <1>10. CASE ConfirmTooLate(a, m)
    <2>1. schedule' = [schedule EXCEPT ![s] =
                        IF IsUpdate(s, r) THEN cleared ELSE closed("expired")]
      BY <1>10 DEF ConfirmTooLate
    <2>2. grant' = [grant EXCEPT ![s] = [grant[s] EXCEPT ![r] = revoked]]
      BY <1>10 DEF ConfirmTooLate
    <2>3. ActionTable(action')
      BY <1>10, RowTypes, CloseOneTable DEF ConfirmTooLate, Accepted
    <2>4. UNCHANGED horizon
      BY <1>10 DEF ConfirmTooLate
    <2>5. QED
      BY <2>1, <2>2, <2>3, <2>4, <1>1, <1>2, <1>3, <1>8, RowsWritten
  <1>11. CASE ConfirmRefused(a, m)
    <2>1. ActionTable(action')
      BY <1>11, RowTypes, CloseOneTable DEF ConfirmRefused, Accepted
    <2>2. QED
      BY <1>11, <2>1, <1>1, <1>2, <1>6, RowsWritten DEF ConfirmRefused
  <1>12. CASE Renew(a, m)
    <2>1. ActionTable(action')
      BY <1>12, <1>1, RowTypes, CloseTables, CreateTable DEF Renew
    <2>2. QED
      BY <1>12, <2>1, <1>1, <1>2, <1>6, RowsWritten DEF Renew
  <1>13. CASE Cancel(a, m)
    <2> DEFINE known == IsUpdate(s, r) \/ schedule[s].revision = r
               row == IF IsUpdate(s, r) THEN cleared
                      ELSE IF known THEN closed("deleted") ELSE schedule[s]
               st == IF known /\ grant[s][r].status = "pending"
                     THEN "revoked" ELSE grant[s][r].status
    <2>1. schedule' = [schedule EXCEPT ![s] = row]
      BY <1>13 DEF Cancel
    <2>2. grant' = [grant EXCEPT ![s] = [grant[s] EXCEPT ![r] =
                        [grant[s][r] EXCEPT !.status = st]]]
      BY <1>13 DEF Cancel
    <2>3. [grant[s][r] EXCEPT !.status = st] \in GrantRow
      BY <1>7 DEF GrantRow
    <2>4. [grant[s] EXCEPT ![r] = [grant[s][r] EXCEPT !.status = st]]
                \in [Revisions -> GrantRow]
      BY <1>1, <1>6, <2>3, SetRow
    <2>5. ActionTable(action')
      BY <1>13, RowTypes, CloseOneTable DEF Cancel
    <2>6. UNCHANGED horizon
      BY <1>13 DEF Cancel
    <2>7. row \in ScheduleRow
      BY <1>2, <1>3
    <2>8. QED
      BY <2>1, <2>2, <2>4, <2>5, <2>6, <2>7, <1>1, RowsWritten
  <1>14. QED
    BY <1>9, <1>10, <1>11, <1>12, <1>13

(* The actions that write the schedule row, and at most revoke grants.     *)
LEMMA RowTypesStep ==
    ASSUME TypeOK, NEW s \in Schedules,
           \/ Pause(s) \/ Resume(s) \/ Delete(s) \/ RunNow(s)
           \/ ExpireDraft(s) \/ FlagNeedsAttention(s)
           \/ \E following \in BOOLEAN : Dispatch(s, following)
    PROVE  TypeOK'
  <1>1. /\ schedule[s] \in ScheduleRow /\ grant[s] \in [Revisions -> GrantRow]
        /\ ActionTable(action)
    BY RowTypes
  <1>2. CASE Pause(s)
    <2>1. schedule' = [schedule EXCEPT ![s] = [schedule[s] EXCEPT !.status = "paused"]]
      BY <1>2 DEF Pause
    <2>2. [schedule[s] EXCEPT !.status = "paused"] \in ScheduleRow
      BY <1>1, ScheduleRows DEF Statuses
    <2>3. QED
      BY <1>1, <1>2, <2>1, <2>2, RowsWritten DEF Pause
  <1>3. CASE Resume(s)
    <2> DEFINE goesOn == horizon[schedule[s].spec] = "future"
               row == [schedule[s] EXCEPT
                        !.status = IF goesOn THEN "active" ELSE "completed",
                        !.scheduled = goesOn]
    <2>1. schedule' = [schedule EXCEPT ![s] = row]
      BY <1>1, <1>3 DEF Resume, TypeOK, ScheduleRow
    <2>2. row \in ScheduleRow
      BY <1>1, ScheduleRows DEF Statuses
    <2>3. QED
      BY <1>1, <1>3, <2>1, <2>2, RowsWritten DEF Resume
  <1>4. CASE Delete(s)
    <2> DEFINE row == [schedule[s] EXCEPT !.status = "deleted", !.scheduled = FALSE]
    <2>1. schedule' = [schedule EXCEPT ![s] = row]
      BY <1>1, <1>4 DEF Delete, TypeOK, ScheduleRow
    <2>2. row \in ScheduleRow
      BY <1>1, ScheduleRows DEF Statuses
    <2>3. QED
      BY <1>1, <1>4, <2>1, <2>2, RevokeType, RowsWritten DEF Delete
  <1>5. CASE RunNow(s)
    <2>1. schedule' = [schedule EXCEPT ![s] = [schedule[s] EXCEPT !.ran = TRUE]]
      BY <1>5 DEF RunNow
    <2>2. [schedule[s] EXCEPT !.ran = TRUE] \in ScheduleRow
      BY <1>1, ScheduleRows DEF Statuses
    <2>3. QED
      BY <1>1, <1>5, <2>1, <2>2, RowsWritten DEF RunNow
  <1>6. CASE ExpireDraft(s)
    <2> DEFINE row == [ClearPendingUpdate(schedule[s]) EXCEPT
                            !.status = "expired", !.scheduled = FALSE]
    <2>1. ClearPendingUpdate(schedule[s]) \in ScheduleRow
      BY <1>1, ScheduleRows DEF Statuses
    <2>2. row \in ScheduleRow
      BY <2>1, ScheduleRows DEF Statuses
    <2>3. schedule' = [schedule EXCEPT ![s] = row]
      BY <1>6 DEF ExpireDraft
    <2>4. ActionTable(action')
      BY <1>1, <1>6, CloseTables DEF ExpireDraft
    <2>5. QED
      BY <1>1, <1>6, <2>2, <2>3, <2>4, RevokeType, RowsWritten DEF ExpireDraft
  <1>7. CASE FlagNeedsAttention(s)
    <2>1. schedule' = [schedule EXCEPT ![s] =
                            [schedule[s] EXCEPT !.status = "needs_attention"]]
      BY <1>7 DEF FlagNeedsAttention
    <2>2. [schedule[s] EXCEPT !.status = "needs_attention"] \in ScheduleRow
      BY <1>1, ScheduleRows DEF Statuses
    <2>3. QED
      BY <1>1, <1>7, <2>1, <2>2, RowsWritten DEF FlagNeedsAttention
  <1>8. ASSUME NEW following \in BOOLEAN, Dispatch(s, following) PROVE TypeOK'
    <2> DEFINE row == [schedule[s] EXCEPT !.ran = TRUE, !.scheduled = following,
                            !.status = IF following THEN "active" ELSE "completed"]
    <2>1. schedule' = [schedule EXCEPT ![s] = row]
      BY <1>8 DEF Dispatch
    <2>2. row \in ScheduleRow
      BY <1>1, ScheduleRows DEF Statuses
    <2>3. QED
      BY <1>1, <1>8, <2>1, <2>2, RowsWritten DEF Dispatch
  <1>9. QED
    BY <1>2, <1>3, <1>4, <1>5, <1>6, <1>7, <1>8

(* The actions that write pending actions or the clock only.               *)
LEMMA OtherTypes ==
    ASSUME TypeOK,
           \/ NoticeLapsed
           \/ \E a \in ActionIds : ReconcileLapsed(a) \/ Lapse(a)
           \/ \E sp \in Specs : TimePasses(sp)
           \/ UNCHANGED vars
    PROVE  TypeOK'
  <1>1. ActionTable(action)
    BY RowTypes
  <1>2. CASE NoticeLapsed
    <2>1. ActionTable(action')
      BY <1>1, <1>2, CloseTables DEF NoticeLapsed
    <2>2. QED
      BY <1>2, <2>1 DEF NoticeLapsed, TypeOK, ActionTable, Referenced
  <1>3. ASSUME NEW a \in ActionIds, ReconcileLapsed(a) \/ Lapse(a) PROVE TypeOK'
    <2> DEFINE expired == [action[a] EXCEPT !.status = "expired"]
               lapsed == [action[a] EXCEPT !.lapsed = TRUE]
    <2>1. action[a] \in ActionRow /\ Pending(action[a])
      BY <1>1, <1>3 DEF ActionTable, ReconcileLapsed, Lapse, Live
    <2>2. expired \in ActionRow /\ lapsed \in ActionRow
      BY <2>1 DEF ActionRow
    <2>3. action' = [action EXCEPT ![a] = expired] \/ action' = [action EXCEPT ![a] = lapsed]
      BY <1>3 DEF ReconcileLapsed, Lapse
    <2>4. action' \in [ActionIds -> ActionRow]
      BY <1>1, <2>2, <2>3, SetRow DEF ActionTable
    <2>5. /\ expired.schedule = action[a].schedule /\ lapsed.schedule = action[a].schedule
          /\ expired.revision = action[a].revision /\ lapsed.revision = action[a].revision
          /\ expired.createdBy = action[a].createdBy /\ lapsed.createdBy = action[a].createdBy
          /\ action[a].status # "none"
      BY <2>1 DEF ActionRow, Pending
    <2>6. ActionTable(action')
      <3> HIDE DEF expired, lapsed
      <3>1. action'[a] = expired \/ action'[a] = lapsed
        BY <1>1, <2>3 DEF ActionTable
      <3>2. \A b \in ActionIds \ {a} : action'[b] = action[b]
        BY <1>1, <2>3 DEF ActionTable
      <3>3. QED
        BY <1>1, <2>4, <2>5, <3>1, <3>2 DEF ActionTable, Referenced
    <2>7. QED
      BY <1>3, <2>6 DEF ReconcileLapsed, Lapse, TypeOK, ActionTable, Referenced
  <1>4. ASSUME NEW sp \in Specs, TimePasses(sp) PROVE TypeOK'
    BY <1>4 DEF TimePasses, TypeOK
  <1>5. CASE UNCHANGED vars
    BY <1>5 DEF vars, TypeOK
  <1>6. QED
    BY <1>2, <1>3, <1>4, <1>5

(* Every step keeps the types.                                             *)
LEMMA TypeStep == TypeOK /\ [Next]_vars => TypeOK'
  BY CreateTypes, UpdateTypes, AnswerTypes, RowTypesStep, OtherTypes
  DEF Next, UserStep, WorkerStep, ClockStep

(* Every row of the three tables stays well formed, and a pending action   *)
(* always refers to a schedule, a revision and the message that created it.*)
THEOREM TypeCorrect == Spec => []TypeOK
  BY TypeInit, TypeStep, PTL DEF Spec

-----------------------------------------------------------------------------
(* The authority of a routine.                                             *)
(*                                                                         *)
(* AuthorisedRevision and PendingIsLatest speak of one schedule at a time, *)
(* so the inductive invariant is a predicate Sound on the row of a         *)
(* schedule and its grants.  Beyond the two invariants it needs to know    *)
(* that an id not in use has neither row nor grant, and that a draft has   *)
(* never run: otherwise the failure of a run could flag a schedule whose   *)
(* grant still waits for its confirmation.                                 *)

InForce(row, grants) ==
    /\ \A r \in Revisions : grants[r].status = "active" =>
            r = row.revision /\ grants[r].spec = row.spec
    /\ row.status \in {"active", "paused"} =>
            row.revision \in Revisions /\ grants[row.revision].status = "active"

Waiting(row, grants) ==
    \A r \in Revisions : grants[r].status = "pending" =>
        \/ row.pendingRevision = r /\ grants[r].spec = row.pendingSpec
        \/ /\ row.pendingRevision = 0
           /\ row.revision = r /\ grants[r].spec = row.spec
           /\ row.status = "awaiting_confirmation"

Unused(row, grants) ==
    row.status = "none" =>
        /\ row = NoSchedule
        /\ \A r \in Revisions : grants[r].status = "none"

Sound(row, grants) ==
    /\ InForce(row, grants)
    /\ Waiting(row, grants)
    /\ Unused(row, grants)
    /\ row.status = "awaiting_confirmation" => ~row.ran

Authority == \A s \in Schedules : Sound(schedule[s], grant[s])

LEMMA AuthorityInvariants == Authority <=>
    /\ AuthorisedRevision /\ PendingIsLatest
    /\ \A s \in Schedules :
        /\ Unused(schedule[s], grant[s])
        /\ schedule[s].status = "awaiting_confirmation" => ~schedule[s].ran
  BY DEF Authority, Sound, InForce, Waiting, AuthorisedRevision, PendingIsLatest,
         ActiveGrant, IsUpdate

LEMMA AuthorityInit == Init => Authority
  <1> SUFFICES ASSUME Init, NEW s \in Schedules PROVE Sound(schedule[s], grant[s])
    BY DEF Authority
  <1>1. schedule[s] = NoSchedule /\ \A r \in Revisions : grant[s][r].status = "none"
    BY DEF Init, NoGrant
  <1>2. NoSchedule.status = "none"
    BY DEF NoSchedule
  <1>3. QED
    BY <1>1, <1>2 DEF Sound, InForce, Waiting, Unused

(* A step that writes the rows of one schedule keeps the others sound.     *)
LEMMA OneSchedule ==
    ASSUME TypeOK, Authority, NEW s \in Schedules, NEW row, NEW grants,
           schedule' = [schedule EXCEPT ![s] = row],
           grant' = [grant EXCEPT ![s] = grants],
           Sound(row, grants)
    PROVE  Authority'
  <1>1. /\ schedule'[s] = row /\ grant'[s] = grants
        /\ \A t \in Schedules \ {s} : schedule'[t] = schedule[t] /\ grant'[t] = grant[t]
    BY DEF TypeOK
  <1>2. QED
    BY <1>1 DEF Authority

(* What Revoke leaves of each grant.                                       *)
LEMMA RevokeFields ==
    ASSUME NEW grants \in [Revisions -> GrantRow], NEW st, NEW r \in Revisions
    PROVE  /\ Revoke(grants, st)[r].status =
                    IF grants[r].status \in st THEN "revoked" ELSE grants[r].status
           /\ Revoke(grants, st)[r].spec = grants[r].spec
           /\ Revoke(grants, st)[r].by = grants[r].by
           /\ grants[r].status \notin st => Revoke(grants, st)[r] = grants[r]
  BY DEF Revoke, GrantRow

(* Two rows that describe the same current and pending version.            *)
SameVersions(x, y) ==
    /\ x.revision = y.revision /\ x.spec = y.spec
    /\ x.pendingRevision = y.pendingRevision /\ x.pendingSpec = y.pendingSpec

(* Changing the status of a sound schedule.  A draft only changes status   *)
(* when its grant no longer is pending, and a schedule only becomes active *)
(* or paused with its authorisation in force.                              *)
LEMMA StatusChange ==
    ASSUME NEW old, NEW new, NEW before, NEW after,
           Sound(old, before), old.status # "none", SameVersions(new, old),
           \A r \in Revisions :
                /\ after[r].spec = before[r].spec
                /\ \/ after[r].status = before[r].status
                   \/ after[r].status = "revoked" /\ before[r].status = "pending"
                   \/ after[r].status = "revoked" /\ new.status = "deleted",
           new.status # "none",
           new.status \in {"active", "paused"} =>
                old.revision \in Revisions /\ before[old.revision].status = "active",
           old.status = "awaiting_confirmation" =>
                \/ new.status = old.status /\ new.ran = old.ran
                \/ \A r \in Revisions : r = old.revision => after[r].status # "pending",
           new.status = "awaiting_confirmation" => old.status = new.status /\ new.ran = old.ran
    PROVE  Sound(new, after)
  BY DEF Sound, InForce, Waiting, Unused, SameVersions

(* Dropping the pending version of a sound schedule together with every    *)
(* pending grant.                                                          *)
LEMMA PendingDropped ==
    ASSUME NEW old, NEW new, NEW before, NEW after,
           Sound(old, before), old.status # "none",
           new.revision = old.revision, new.spec = old.spec, new.ran = old.ran,
           new.status \in {old.status, "expired"},
           \A r \in Revisions :
                /\ after[r].spec = before[r].spec
                /\ after[r].status = IF before[r].status = "pending"
                                     THEN "revoked" ELSE before[r].status
    PROVE  Sound(new, after)
  BY DEF Sound, InForce, Waiting, Unused

(* What the updates of a row leave of its fields.                          *)
LEMMA RowFields ==
    ASSUME NEW row \in ScheduleRow, NEW st, NEW c
    PROVE  /\ LET x == [row EXCEPT !.status = st]
              IN x.status = st /\ x.ran = row.ran /\ SameVersions(x, row)
           /\ LET x == [row EXCEPT !.ran = c]
              IN x.status = row.status /\ x.ran = c /\ SameVersions(x, row)
  BY DEF ScheduleRow, SameVersions

LEMMA ClearFields ==
    ASSUME NEW row \in ScheduleRow
    PROVE  /\ ClearPendingUpdate(row) \in ScheduleRow
           /\ ClearPendingUpdate(row).status = row.status
           /\ ClearPendingUpdate(row).ran = row.ran
           /\ ClearPendingUpdate(row).revision = row.revision
           /\ ClearPendingUpdate(row).spec = row.spec
           /\ ClearPendingUpdate(row).pendingRevision = 0
  BY Bounds DEF ScheduleRow, ClearPendingUpdate

(* The actions that only change the status or the run of a schedule.       *)
LEMMA StatusAuthority ==
    ASSUME TypeOK, Authority, NEW s \in Schedules,
           \/ Pause(s) \/ Resume(s) \/ Delete(s) \/ RunNow(s) \/ FlagNeedsAttention(s)
           \/ \E following \in BOOLEAN : Dispatch(s, following)
    PROVE  Authority'
  <1> DEFINE old == schedule[s]
  <1>1. old \in ScheduleRow /\ grant[s] \in [Revisions -> GrantRow] /\ Sound(old, grant[s])
    BY RowTypes DEF Authority
  <1>2. ASSUME NEW new, schedule' = [schedule EXCEPT ![s] = new], UNCHANGED grant,
               SameVersions(new, old), old.status # "none", new.status # "none",
               new.status \in {"active", "paused"} =>
                    old.revision \in Revisions /\ grant[s][old.revision].status = "active",
               old.status = "awaiting_confirmation" =>
                    \A r \in Revisions : r = old.revision => grant[s][r].status # "pending",
               new.status # "awaiting_confirmation"
        PROVE  Authority'
    <2>1. Sound(new, grant[s])
      BY <1>1, <1>2, StatusChange
    <2>2. grant' = [grant EXCEPT ![s] = grant[s]]
      BY <1>2 DEF TypeOK
    <2>3. QED
      BY <1>2, <2>1, <2>2, OneSchedule
  <1>3. /\ old.status \in {"active", "paused"} => ActiveGrant(s)
        /\ old.ran => old.status # "awaiting_confirmation"
        /\ old.status = "none" => ~old.ran
    BY <1>1 DEF Sound, InForce, Unused, ActiveGrant, NoSchedule
  <1>4. CASE Pause(s)
    <2> DEFINE new == [old EXCEPT !.status = "paused"]
    <2>1. schedule' = [schedule EXCEPT ![s] = new]
      BY <1>4 DEF Pause
    <2>2. new.status = "paused" /\ SameVersions(new, old)
      BY <1>1, RowFields
    <2>3. QED
      <3> HIDE DEF new
      <3> QED BY <1>2, <1>3, <1>4, <2>1, <2>2 DEF Pause, ActiveGrant
  <1>5. CASE Resume(s)
    <2> DEFINE goesOn == horizon[schedule[s].spec] = "future"
               st == IF goesOn THEN "active" ELSE "completed"
               new == [old EXCEPT !.status = st, !.scheduled = goesOn]
    <2>1. schedule' = [schedule EXCEPT ![s] = new]
      BY <1>1, <1>5 DEF Resume, TypeOK, ScheduleRow
    <2>2. new.status = st /\ SameVersions(new, old)
      BY <1>1 DEF ScheduleRow, SameVersions
    <2>3. QED
      <3> HIDE DEF new
      <3> QED BY <1>2, <1>3, <1>5, <2>1, <2>2 DEF Resume, Stored, ActiveGrant
  <1>6. CASE Delete(s)
    <2> DEFINE new == [old EXCEPT !.status = "deleted", !.scheduled = FALSE]
               after == Revoke(grant[s], {"pending", "active"})
    <2>1. schedule' = [schedule EXCEPT ![s] = new]
      BY <1>1, <1>6 DEF Delete, TypeOK, ScheduleRow
    <2>2. new.status = "deleted" /\ SameVersions(new, old)
      BY <1>1 DEF ScheduleRow, SameVersions
    <2>3. \A r \in Revisions :
            /\ after[r].spec = grant[s][r].spec
            /\ after[r].status = grant[s][r].status \/ after[r].status = "revoked"
            /\ after[r].status # "pending"
      BY <1>1, RevokeFields
    <2>4. grant' = [grant EXCEPT ![s] = after]
      BY <1>6 DEF Delete
    <2> HIDE DEF new, after
    <2>5. Sound(new, after)
      BY <1>1, <1>6, <2>2, <2>3, StatusChange DEF Delete, Stored
    <2>6. QED
      BY <2>1, <2>4, <2>5, OneSchedule
  <1>7. CASE RunNow(s)
    <2> DEFINE new == [old EXCEPT !.ran = TRUE]
    <2>1. schedule' = [schedule EXCEPT ![s] = new]
      BY <1>7 DEF RunNow
    <2>2. new.status = old.status /\ SameVersions(new, old)
      BY <1>1, RowFields
    <2>3. QED
      <3> HIDE DEF new
      <3> QED BY <1>2, <1>3, <1>7, <2>1, <2>2 DEF RunNow, ActiveGrant
  <1>8. CASE FlagNeedsAttention(s)
    <2> DEFINE new == [old EXCEPT !.status = "needs_attention"]
    <2>1. schedule' = [schedule EXCEPT ![s] = new]
      BY <1>8 DEF FlagNeedsAttention
    <2>2. new.status = "needs_attention" /\ SameVersions(new, old)
      BY <1>1, RowFields
    <2>3. QED
      <3> HIDE DEF new
      <3> QED BY <1>2, <1>3, <1>8, <2>1, <2>2 DEF FlagNeedsAttention
  <1>9. ASSUME NEW following \in BOOLEAN, Dispatch(s, following) PROVE Authority'
    <2> DEFINE st == IF following THEN "active" ELSE "completed"
               new == [old EXCEPT !.ran = TRUE, !.scheduled = following, !.status = st]
    <2>1. schedule' = [schedule EXCEPT ![s] = new]
      BY <1>9 DEF Dispatch
    <2>2. new.status = st /\ SameVersions(new, old)
      BY <1>1 DEF ScheduleRow, SameVersions
    <2>3. QED
      <3> HIDE DEF new
      <3> QED BY <1>2, <1>3, <1>9, <2>1, <2>2 DEF Dispatch, ActiveGrant
  <1>10. QED
    BY <1>4, <1>5, <1>6, <1>7, <1>8, <1>9

(* Creating a schedule, on an id that has neither row nor grants.          *)
LEMMA CreateAuthority ==
    ASSUME TypeOK, Authority, NEW s \in Schedules, NEW m \in Messages, NEW sp \in Specs,
           CreateActive(s, m, sp) \/ CreateDraft(s, m, sp)
    PROVE  Authority'
  <1> DEFINE row(st) == [NoSchedule EXCEPT !.status = st, !.revision = 1,
                                           !.spec = sp, !.scheduled = TRUE]
             grants(g) == [grant[s] EXCEPT ![1] = g]
  <1>1. \A r \in Revisions : grant[s][r].status = "none"
    BY DEF CreateActive, CreateDraft, Stored, Authority, Sound, Unused
  <1>2. \A st \in Statuses : /\ row(st).status = st /\ row(st).ran = FALSE
                             /\ row(st).revision = 1 /\ row(st).spec = sp
                             /\ row(st).pendingRevision = 0
    BY DEF NoSchedule
  <1>3. ASSUME NEW g PROVE /\ grants(g)[1] = g
                           /\ \A r \in Revisions \ {1} : grants(g)[r] = grant[s][r]
    BY RowTypes, Bounds
  <1>4. CASE CreateActive(s, m, sp)
    <2> DEFINE g == NewGrant("active", sp, m)
    <2>1. schedule' = [schedule EXCEPT ![s] = row("active")]
      BY <1>4 DEF CreateActive
    <2>2. grant' = [grant EXCEPT ![s] = grants(g)]
      BY <1>4 DEF CreateActive
    <2>3. g.status = "active" /\ g.spec = sp
      BY DEF NewGrant
    <2>4. row("active").status = "active" /\ row("active").revision = 1 /\ row("active").spec = sp
      BY <1>2 DEF Statuses
    <2>5. grants(g)[1] = g /\ \A r \in Revisions \ {1} : grants(g)[r] = grant[s][r]
      BY <1>3
    <2> HIDE DEF g, row, grants
    <2>6. Sound(row("active"), grants(g))
      BY <1>1, <2>3, <2>4, <2>5, Bounds DEF Sound, InForce, Waiting, Unused
    <2>7. QED
      BY <2>1, <2>2, <2>6, OneSchedule
  <1>5. CASE CreateDraft(s, m, sp)
    <2> DEFINE g == NewGrant("pending", sp, 0)
               new == row("awaiting_confirmation")
    <2>1. schedule' = [schedule EXCEPT ![s] = new]
      BY <1>5 DEF CreateDraft
    <2>2. grant' = [grant EXCEPT ![s] = grants(g)]
      BY <1>5 DEF CreateDraft
    <2>3. g.status = "pending" /\ g.spec = sp
      BY DEF NewGrant
    <2>4. /\ new.status = "awaiting_confirmation" /\ new.revision = 1 /\ new.spec = sp
          /\ new.ran = FALSE /\ new.pendingRevision = 0
      BY <1>2 DEF Statuses
    <2>5. grants(g)[1] = g /\ \A r \in Revisions \ {1} : grants(g)[r] = grant[s][r]
      BY <1>3
    <2> HIDE DEF g, new, grants
    <2>6. Sound(new, grants(g))
      BY <1>1, <2>3, <2>4, <2>5, Bounds DEF Sound, InForce, Waiting, Unused
    <2>7. QED
      BY <2>1, <2>2, <2>6, OneSchedule
  <1>6. QED
    BY <1>4, <1>5

(* A new version, in force at once or waiting beside the current one.      *)
LEMMA UpdateAuthority ==
    ASSUME TypeOK, Authority, NEW s \in Schedules, NEW m \in Messages, NEW sp \in Specs,
           UpdateImmediately(s, m, sp) \/ ProposeUpdate(s, m, sp)
    PROVE  Authority'
  <1> DEFINE old == schedule[s]
             n == NextRevision(s)
             active == [ClearPendingUpdate(old) EXCEPT !.status = "active",
                            !.spec = sp, !.revision = n, !.scheduled = TRUE]
             proposed == [old EXCEPT !.pendingRevision = n, !.pendingSpec = sp]
             grants(st, g) == [Revoke(grant[s], st) EXCEPT ![n] = g]
  <1>1. /\ n \in Revisions /\ grant[s][n].status = "none" /\ old.status # "none"
        /\ old.revision # n
    BY RowTypes DEF UpdateImmediately, ProposeUpdate, RevisionFree, Stored,
                    NextRevision, AnyPrevious, TypeOK, ScheduleRow
  <1>2. old \in ScheduleRow /\ grant[s] \in [Revisions -> GrantRow] /\ Sound(old, grant[s])
    BY RowTypes DEF Authority
  <1>3. /\ active.status = "active" /\ active.revision = n /\ active.spec = sp
        /\ proposed.status = old.status /\ proposed.ran = old.ran
        /\ proposed.revision = old.revision /\ proposed.spec = old.spec
        /\ proposed.pendingRevision = n /\ proposed.pendingSpec = sp
    BY <1>2, ClearFields DEF ScheduleRow
  <1>4. ASSUME NEW st, NEW g
        PROVE  /\ grants(st, g)[n] = g
               /\ \A r \in Revisions \ {n} :
                    /\ grants(st, g)[r].spec = grant[s][r].spec
                    /\ grants(st, g)[r].status =
                            IF grant[s][r].status \in st THEN "revoked" ELSE grant[s][r].status
    BY <1>1, <1>2, RevokeType, RevokeFields
  <1>5. CASE UpdateImmediately(s, m, sp)
    <2> DEFINE g == NewGrant("active", sp, m)
               after == grants({"pending", "active"}, g)
    <2>1. schedule' = [schedule EXCEPT ![s] = active]
      BY <1>5 DEF UpdateImmediately
    <2>2. grant' = [grant EXCEPT ![s] = after]
      BY <1>5 DEF UpdateImmediately
    <2>3. g.status = "active" /\ g.spec = sp
      BY DEF NewGrant
    <2>4. /\ after[n] = g
          /\ \A r \in Revisions \ {n} : after[r].status \notin {"pending", "active"}
      <3> HIDE DEF grants, n, g
      <3> QED BY <1>4
    <2> HIDE DEF g, active, after
    <2>5. Sound(active, after)
      BY <1>1, <1>3, <2>3, <2>4 DEF Sound, InForce, Waiting, Unused
    <2>6. QED
      BY <2>1, <2>2, <2>5, OneSchedule
  <1>6. CASE ProposeUpdate(s, m, sp)
    <2> DEFINE g == NewGrant("pending", sp, 0)
               after == grants({"pending"}, g)
    <2>1. schedule' = [schedule EXCEPT ![s] = proposed]
      BY <1>6 DEF ProposeUpdate
    <2>2. grant' = [grant EXCEPT ![s] = after]
      BY <1>6 DEF ProposeUpdate
    <2>3. g.status = "pending" /\ g.spec = sp
      BY DEF NewGrant
    <2>4. /\ after[n] = g
          /\ \A r \in Revisions \ {n} :
                /\ after[r].spec = grant[s][r].spec
                /\ after[r].status = IF grant[s][r].status = "pending"
                                     THEN "revoked" ELSE grant[s][r].status
      <3> HIDE DEF grants, n, g
      <3> QED BY <1>4
    <2> HIDE DEF g, proposed, after, n
    <2>5. Sound(proposed, after)
      BY <1>1, <1>2, <1>3, <2>3, <2>4 DEF Sound, InForce, Waiting, Unused
    <2>6. QED
      BY <2>1, <2>2, <2>5, OneSchedule
  <1>7. QED
    BY <1>5, <1>6

(* The expiry of a draft.                                                  *)
LEMMA ExpireAuthority ==
    ASSUME TypeOK, Authority, NEW s \in Schedules, ExpireDraft(s)
    PROVE  Authority'
  <1> DEFINE cleared == ClearPendingUpdate(schedule[s])
             new == [cleared EXCEPT !.status = "expired", !.scheduled = FALSE]
             after == Revoke(grant[s], {"pending"})
  <1>1. /\ schedule[s] \in ScheduleRow /\ grant[s] \in [Revisions -> GrantRow]
        /\ Sound(schedule[s], grant[s])
    BY RowTypes DEF Authority
  <1>2. schedule' = [schedule EXCEPT ![s] = new] /\ grant' = [grant EXCEPT ![s] = after]
    BY DEF ExpireDraft
  <1>3. /\ new.status = "expired" /\ new.ran = cleared.ran
        /\ new.revision = cleared.revision /\ new.spec = cleared.spec
    BY <1>1, ClearFields DEF ScheduleRow
  <1>4. \A r \in Revisions :
            /\ after[r].spec = grant[s][r].spec
            /\ after[r].status = IF grant[s][r].status = "pending"
                                 THEN "revoked" ELSE grant[s][r].status
    BY <1>1, RevokeFields
  <1> HIDE DEF new, after
  <1>5. Sound(new, after)
    BY <1>1, <1>3, <1>4, ClearFields, PendingDropped DEF ExpireDraft
  <1>6. QED
    BY <1>2, <1>5, OneSchedule

(* The answer to a pending action names a schedule and a revision in use.  *)
LEMMA Answered ==
    ASSUME TypeOK, Authority, NEW a \in ActionIds, action[a].status # "none"
    PROVE  LET s == action[a].schedule
               r == action[a].revision
           IN /\ s \in Schedules /\ r \in Revisions
              /\ schedule[s] \in ScheduleRow /\ grant[s] \in [Revisions -> GrantRow]
              /\ grant[s][r] \in GrantRow /\ Sound(schedule[s], grant[s])
              /\ IsUpdate(s, r) \/ schedule[s].revision = r => schedule[s].status # "none"
  <1> DEFINE s == action[a].schedule
             r == action[a].revision
  <1>1. s \in Schedules /\ r \in Revisions
    BY RowTypes
  <1>2. Sound(schedule[s], grant[s])
    BY <1>1 DEF Authority
  <1>3. schedule[s].status = "none" =>
            schedule[s].pendingRevision = 0 /\ schedule[s].revision = 0
    BY <1>2 DEF Sound, Unused, NoSchedule
  <1>4. r # 0
    BY <1>1 DEF Revisions
  <1>5. QED
    BY <1>1, <1>2, <1>3, <1>4, RowTypes DEF IsUpdate

LEMMA ConfirmAuthority ==
    ASSUME TypeOK, Authority, NEW a \in ActionIds, NEW m \in Messages,
           ConfirmActivates(a, m)
    PROVE  Authority'
  <1> DEFINE s == action[a].schedule
             r == action[a].revision
             old == schedule[s]
             base == IF IsUpdate(s, r) THEN ClearPendingUpdate(old) ELSE old
             new == [base EXCEPT !.status = "active", !.revision = r,
                            !.spec = VersionSpec(s, r), !.scheduled = TRUE]
             kept == IF IsUpdate(s, r) THEN Revoke(grant[s], {"active"}) ELSE grant[s]
             g == [status |-> "active", spec |-> grant[s][r].spec, by |-> m]
             after == [kept EXCEPT ![r] = g]
  <1>1. /\ s \in Schedules /\ r \in Revisions
        /\ old \in ScheduleRow /\ grant[s] \in [Revisions -> GrantRow]
        /\ Sound(old, grant[s]) /\ grant[s][r].status = "pending"
        /\ IsUpdate(s, r) \/ old.revision = r
    BY Answered DEF ConfirmActivates, Accepted, Live, Pending, Confirmable
  <1>2. schedule' = [schedule EXCEPT ![s] = new] /\ grant' = [grant EXCEPT ![s] = after]
    BY DEF ConfirmActivates
  <1>3. base \in ScheduleRow
    BY <1>1, ClearFields
  <1>4. /\ new.status = "active" /\ new.revision = r /\ new.spec = VersionSpec(s, r)
    BY <1>3 DEF ScheduleRow
  <1>5. VersionSpec(s, r) = grant[s][r].spec
    BY <1>1 DEF VersionSpec, IsUpdate, Sound, Waiting, Revisions
  <1>6. kept \in [Revisions -> GrantRow]
    BY <1>1, RevokeType
  <1>7. after[r] = g /\ \A q \in Revisions \ {r} : after[q] = kept[q]
    BY <1>1, <1>6
  <1>8. \A q \in Revisions \ {r} : grant[s][q].status # "pending"
    BY <1>1 DEF Sound, Waiting, IsUpdate, Revisions
  <1>9. \A q \in Revisions \ {r} : kept[q].status \notin {"pending", "active"}
    <2>1. CASE IsUpdate(s, r)
      BY <1>1, <1>8, <2>1, RevokeFields
    <2>2. CASE ~IsUpdate(s, r)
      BY <1>1, <1>8, <2>2 DEF Sound, InForce
    <2>3. QED
      BY <2>1, <2>2
  <1>10. g.status = "active" /\ g.spec = grant[s][r].spec
    OBVIOUS
  <1> HIDE DEF new, after, kept, g
  <1>11. Sound(new, after)
    BY <1>1, <1>4, <1>5, <1>7, <1>9, <1>10 DEF Sound, InForce, Waiting, Unused
  <1>12. QED
    BY <1>1, <1>2, <1>11, OneSchedule

(* Dropping a version: too late, or cancelled.                             *)
LEMMA DropAuthority ==
    ASSUME TypeOK, Authority, NEW a \in ActionIds, NEW m \in Messages,
           ConfirmTooLate(a, m) \/ Cancel(a, m)
    PROVE  Authority'
  <1> DEFINE s == action[a].schedule
             r == action[a].revision
             old == schedule[s]
             cleared == ClearPendingUpdate(old)
             closed(st) == [old EXCEPT !.status = st, !.scheduled = FALSE]
  <1>1. /\ s \in Schedules /\ r \in Revisions
        /\ old \in ScheduleRow /\ grant[s] \in [Revisions -> GrantRow]
        /\ grant[s][r] \in GrantRow /\ Sound(old, grant[s])
        /\ IsUpdate(s, r) \/ old.revision = r => old.status # "none"
    BY Answered DEF ConfirmTooLate, Cancel, Accepted, Live, Pending
  <1>2. \A st \in Statuses : closed(st).status = st /\ SameVersions(closed(st), old)
    BY <1>1 DEF ScheduleRow, SameVersions
  <1>3. ASSUME NEW st, NEW g, g = [grant[s][r] EXCEPT !.status = st]
        PROVE  LET after == [grant[s] EXCEPT ![r] = g]
               IN /\ after[r].status = st /\ after[r].spec = grant[s][r].spec
                  /\ \A q \in Revisions \ {r} : after[q] = grant[s][q]
    <2>1. g.status = st /\ g.spec = grant[s][r].spec
      BY <1>1, <1>3 DEF GrantRow
    <2>2. QED
      BY <1>1, <2>1
  <1>4. ASSUME IsUpdate(s, r), NEW after,
               \A q \in Revisions : after[q].spec = grant[s][q].spec,
               \A q \in Revisions \ {r} : after[q].status = grant[s][q].status,
               after[r].status = IF grant[s][r].status = "pending"
                                 THEN "revoked" ELSE grant[s][r].status
        PROVE  Sound(cleared, after)
    <2>1. \A q \in Revisions \ {r} : grant[s][q].status # "pending"
      BY <1>1, <1>4 DEF Sound, Waiting, IsUpdate, Revisions
    <2>2. \A q \in Revisions : /\ after[q].spec = grant[s][q].spec
                               /\ after[q].status = IF grant[s][q].status = "pending"
                                        THEN "revoked" ELSE grant[s][q].status
      BY <1>4, <2>1
    <2> HIDE DEF cleared
    <2>3. QED
      BY <1>1, <1>4, <2>2, ClearFields, PendingDropped DEF cleared
  <1>5. ASSUME ~IsUpdate(s, r), old.revision = r, NEW st \in {"expired", "deleted"},
               NEW after,
               \A q \in Revisions : after[q].spec = grant[s][q].spec,
               \A q \in Revisions \ {r} : after[q].status = grant[s][q].status,
               after[r].status = IF grant[s][r].status = "pending"
                                 THEN "revoked" ELSE grant[s][r].status
        PROVE  Sound(closed(st), after)
    <2>1. closed(st).status = st /\ SameVersions(closed(st), old)
      BY <1>2 DEF Statuses
    <2>2. \A q \in Revisions : q = old.revision => after[q].status # "pending"
      BY <1>5
    <2> HIDE DEF closed
    <2>3. QED
      BY <1>1, <1>5, <2>1, <2>2, StatusChange
  <1>6. CASE ConfirmTooLate(a, m)
    <2> DEFINE g == [grant[s][r] EXCEPT !.status = "revoked"]
               after == [grant[s] EXCEPT ![r] = g]
               new == IF IsUpdate(s, r) THEN cleared ELSE closed("expired")
    <2>1. schedule' = [schedule EXCEPT ![s] = new] /\ grant' = [grant EXCEPT ![s] = after]
      BY <1>6 DEF ConfirmTooLate
    <2>2. grant[s][r].status = "pending" /\ (IsUpdate(s, r) \/ old.revision = r)
      BY <1>6 DEF ConfirmTooLate, Confirmable
    <2>3. /\ after[r].status = "revoked" /\ after[r].spec = grant[s][r].spec
          /\ \A q \in Revisions \ {r} : after[q] = grant[s][q]
      BY <1>3
    <2> HIDE DEF after, closed, cleared
    <2>4. Sound(new, after)
      BY <1>4, <1>5, <2>2, <2>3
    <2>5. QED
      BY <1>1, <2>1, <2>4, OneSchedule
  <1>7. CASE Cancel(a, m)
    <2> DEFINE known == IsUpdate(s, r) \/ old.revision = r
               st == IF known /\ grant[s][r].status = "pending"
                     THEN "revoked" ELSE grant[s][r].status
               g == [grant[s][r] EXCEPT !.status = st]
               after == [grant[s] EXCEPT ![r] = g]
               new == IF IsUpdate(s, r) THEN cleared
                      ELSE IF known THEN closed("deleted") ELSE old
    <2>1. schedule' = [schedule EXCEPT ![s] = new] /\ grant' = [grant EXCEPT ![s] = after]
      BY <1>7 DEF Cancel
    <2>2. /\ after[r].status = st /\ after[r].spec = grant[s][r].spec
          /\ \A q \in Revisions \ {r} : after[q] = grant[s][q]
      BY <1>3
    <2> HIDE DEF after, closed, cleared
    <2>3. Sound(new, after)
      <3>1. CASE known
        BY <1>4, <1>5, <2>2, <3>1
      <3>2. CASE ~known
        <4>1. \A q \in Revisions : /\ after[q].status = grant[s][q].status
                                   /\ after[q].spec = grant[s][q].spec
          BY <2>2, <3>2
        <4>2. QED
          BY <1>1, <3>2, <4>1 DEF Sound, InForce, Waiting, Unused
      <3>3. QED
        BY <3>1, <3>2
    <2>4. QED
      BY <1>1, <2>1, <2>3, OneSchedule
  <1>8. QED
    BY <1>6, <1>7

LEMMA AuthorityStep == TypeOK /\ Authority /\ [Next]_vars => Authority'
  <1> SUFFICES ASSUME TypeOK, Authority, [Next]_vars PROVE Authority'
    OBVIOUS
  <1>1. ASSUME UNCHANGED <<schedule, grant>> PROVE Authority'
    BY <1>1 DEF Authority
  <1>2. ASSUME NEW a \in ActionIds, NEW m \in Messages, ConfirmRefused(a, m) \/ Renew(a, m)
        PROVE  Authority'
    BY <1>1, <1>2 DEF ConfirmRefused, Renew
  <1>3. ASSUME \/ NoticeLapsed
               \/ \E a \in ActionIds : ReconcileLapsed(a) \/ Lapse(a)
               \/ \E sp \in Specs : TimePasses(sp)
               \/ UNCHANGED vars
        PROVE  Authority'
    BY <1>1, <1>3 DEF NoticeLapsed, ReconcileLapsed, Lapse, TimePasses, vars
  <1>4. QED
    BY <1>2, <1>3, CreateAuthority, UpdateAuthority, ConfirmAuthority, DropAuthority,
       StatusAuthority, ExpireAuthority DEF Next, UserStep, WorkerStep, ClockStep

LEMMA AuthorityAlways == Spec => []Authority
  <1>1. Init => Authority
    BY AuthorityInit
  <1>2. TypeOK /\ Authority /\ [Next]_vars => Authority'
    BY AuthorityStep
  <1>3. QED
    BY <1>1, <1>2, TypeCorrect, PTL DEF Spec

(* A grant in force is that of the revision and the specification the      *)
(* schedule runs, and a schedule that can run has one: whatever the order  *)
(* in which updates, answers, expiries, deletions and failures arrive.     *)
THEOREM AuthorisedAlways == Spec => []AuthorisedRevision
  BY AuthorityAlways, AuthorityInvariants, PTL

(* A grant that waits for an answer is that of the latest version asked    *)
(* for, so a late "yes" can never activate an older one.                   *)
THEOREM PendingAlwaysLatest == Spec => []PendingIsLatest
  BY AuthorityAlways, AuthorityInvariants, PTL

-----------------------------------------------------------------------------
(* The life of a grant: what a step may turn it into, that one with        *)
(* external effects is only put in force by an explicit answer to its own  *)
(* confirmation, and that a routine keeps its authorisation while a new    *)
(* version is proposed.                                                    *)

-----------------------------------------------------------------------------
(* How a step may move the grant of revision r of schedule s.              *)

(* After the step, an executed action of that revision, which another      *)
(* message than m created, confirms that m was an explicit answer.         *)
AnsweredBy(s, r, m) ==
    \E a \in ActionIds :
        /\ For(action'[a], s, r) /\ action'[a].status = "executed"
        /\ m \in Confirms \ {action'[a].createdBy}

Move(s, r, old, new) ==
    \/ new = old
    \/ old.status # "none" /\ new.status = "revoked" /\ new.spec = old.spec
    \/ old.status = "none" /\ new.status = "pending"
    \/ old.status = "none" /\ new.status = "active" /\ new.spec \notin R2Specs
    \/ /\ old.status = "pending" /\ new.status = "active" /\ new.spec = old.spec
       /\ AnsweredBy(s, r, new.by)

InForceSomewhere(grants) == \E r \in Revisions : grants[r].status = "active"

(* Every grant moves so, and no schedule but a deleted one loses the grant *)
(* it had in force without another one taking its place.                   *)
Moved ==
    \A s \in Schedules :
        /\ \A r \in Revisions : Move(s, r, grant[s][r], grant'[s][r])
        /\ InForceSomewhere(grant[s]) =>
                InForceSomewhere(grant'[s]) \/ schedule'[s].status = "deleted"

(* An executed action stays as it is.                                      *)
ExecutedStays(acts, after) ==
    \A a \in ActionIds : acts[a].status = "executed" => after[a] = acts[a]

LEMMA OneSchedulesGrants ==
    ASSUME TypeOK, NEW s \in Schedules, NEW grants,
           grant' = [grant EXCEPT ![s] = grants],
           \A r \in Revisions : Move(s, r, grant[s][r], grants[r]),
           InForceSomewhere(grant[s]) =>
                InForceSomewhere(grants) \/ schedule'[s].status = "deleted"
    PROVE  Moved
  <1>1. grant'[s] = grants /\ \A t \in Schedules \ {s} : grant'[t] = grant[t]
    BY DEF TypeOK
  <1>2. ASSUME NEW t \in Schedules, grant'[t] = grant[t]
        PROVE  /\ \A r \in Revisions : Move(t, r, grant[t][r], grant'[t][r])
               /\ InForceSomewhere(grant[t]) => InForceSomewhere(grant'[t])
    BY <1>2 DEF Move
  <1>3. QED
    BY <1>1, <1>2 DEF Moved

LEMMA NoGrantMoved == UNCHANGED grant => Moved
  BY DEF Moved, Move

(* Revoking grants that exist is such a move.                              *)
LEMMA RevokeMove ==
    ASSUME NEW s, NEW r \in Revisions, NEW grants \in [Revisions -> GrantRow],
           NEW st, "none" \notin st
    PROVE  Move(s, r, grants[r], Revoke(grants, st)[r])
  BY RevokeFields DEF Move

LEMMA RevokePendingKeeps ==
    ASSUME NEW grants \in [Revisions -> GrantRow], InForceSomewhere(grants)
    PROVE  InForceSomewhere(Revoke(grants, {"pending"}))
  BY RevokeFields DEF InForceSomewhere

(* Creating a schedule: its first grant.                                   *)
LEMMA CreateMoves ==
    ASSUME TypeOK, Authority, NEW s \in Schedules, NEW m \in Messages, NEW sp \in Specs,
           CreateActive(s, m, sp) \/ CreateDraft(s, m, sp)
    PROVE  Moved
  <1>1. /\ \A r \in Revisions : grant[s][r].status = "none"
        /\ grant[s] \in [Revisions -> GrantRow]
    BY RowTypes DEF CreateActive, CreateDraft, Stored, Authority, Sound, Unused
  <1>2. PICK g : /\ grant' = [grant EXCEPT ![s] = [grant[s] EXCEPT ![1] = g]]
                 /\ \/ g.status = "pending"
                    \/ g.status = "active" /\ g.spec \notin R2Specs
    <2>1. CASE CreateActive(s, m, sp)
      <3> DEFINE g == NewGrant("active", sp, m)
      <3>1. grant' = [grant EXCEPT ![s] = [grant[s] EXCEPT ![1] = g]]
        BY <2>1 DEF CreateActive
      <3>2. g.status = "active" /\ g.spec \notin R2Specs
        BY <2>1 DEF CreateActive, NewGrant
      <3> HIDE DEF g
      <3>3. QED
        BY <3>1, <3>2
    <2>2. CASE CreateDraft(s, m, sp)
      <3> DEFINE g == NewGrant("pending", sp, 0)
      <3>1. grant' = [grant EXCEPT ![s] = [grant[s] EXCEPT ![1] = g]]
        BY <2>2 DEF CreateDraft
      <3>2. g.status = "pending"
        BY DEF NewGrant
      <3> HIDE DEF g
      <3>3. QED
        BY <3>1, <3>2
    <2>3. QED
      BY <2>1, <2>2
  <1> DEFINE grants == [grant[s] EXCEPT ![1] = g]
  <1>3. grants[1] = g /\ \A r \in Revisions \ {1} : grants[r] = grant[s][r]
    BY <1>1, Bounds
  <1> HIDE DEF grants
  <1>4. \A r \in Revisions : Move(s, r, grant[s][r], grants[r])
    BY <1>1, <1>2, <1>3 DEF Move
  <1>5. ~InForceSomewhere(grant[s])
    BY <1>1 DEF InForceSomewhere
  <1>6. grant' = [grant EXCEPT ![s] = grants]
    BY <1>2 DEF grants
  <1>7. QED
    BY <1>4, <1>5, <1>6, OneSchedulesGrants

(* A new version: a new grant, and the old ones it replaces.               *)
LEMMA UpdateMoves ==
    ASSUME TypeOK, Authority, NEW s \in Schedules, NEW m \in Messages, NEW sp \in Specs,
           UpdateImmediately(s, m, sp) \/ ProposeUpdate(s, m, sp)
    PROVE  Moved
  <1> DEFINE n == NextRevision(s)
             revoked(st) == Revoke(grant[s], st)
             grants(st, g) == [revoked(st) EXCEPT ![n] = g]
  <1>1. /\ n \in Revisions /\ grant[s][n].status = "none"
        /\ grant[s] \in [Revisions -> GrantRow]
    BY RowTypes DEF UpdateImmediately, ProposeUpdate, RevisionFree
  <1>2. ASSUME NEW st, NEW g
        PROVE  /\ grants(st, g)[n] = g
               /\ \A r \in Revisions \ {n} : grants(st, g)[r] = revoked(st)[r]
    BY <1>1, RevokeType
  <1>3. ASSUME NEW st, "none" \notin st
        PROVE  \A r \in Revisions : Move(s, r, grant[s][r], revoked(st)[r])
    BY <1>1, <1>3, RevokeMove
  <1>4. CASE UpdateImmediately(s, m, sp)
    <2> DEFINE st == {"pending", "active"}
               g == NewGrant("active", sp, m)
    <2>1. grant' = [grant EXCEPT ![s] = grants(st, g)]
      BY <1>4 DEF UpdateImmediately
    <2>2. g.status = "active" /\ g.spec \notin R2Specs
      BY <1>4 DEF UpdateImmediately, NewGrant
    <2>3. \A r \in Revisions : Move(s, r, grant[s][r], revoked(st)[r])
      BY <1>3
    <2>4. grants(st, g)[n] = g /\ \A r \in Revisions \ {n} : grants(st, g)[r] = revoked(st)[r]
      BY <1>2
    <2> HIDE DEF g, grants, revoked, n
    <2>5. \A r \in Revisions : Move(s, r, grant[s][r], grants(st, g)[r])
      BY <1>1, <2>2, <2>3, <2>4 DEF Move
    <2>6. InForceSomewhere(grants(st, g))
      BY <1>1, <2>2, <2>4 DEF InForceSomewhere
    <2>7. QED
      BY <2>1, <2>5, <2>6, OneSchedulesGrants
  <1>5. CASE ProposeUpdate(s, m, sp)
    <2> DEFINE st == {"pending"}
               g == NewGrant("pending", sp, 0)
    <2>1. grant' = [grant EXCEPT ![s] = grants(st, g)]
      BY <1>5 DEF ProposeUpdate
    <2>2. g.status = "pending"
      BY DEF NewGrant
    <2>3. \A r \in Revisions : Move(s, r, grant[s][r], revoked(st)[r])
      BY <1>3
    <2>4. grants(st, g)[n] = g /\ \A r \in Revisions \ {n} : grants(st, g)[r] = revoked(st)[r]
      BY <1>2
    <2>5. InForceSomewhere(grant[s]) =>
            \E r \in Revisions \ {n} : revoked(st)[r].status = "active"
      BY <1>1, RevokeFields DEF InForceSomewhere
    <2> HIDE DEF g, grants, revoked, n
    <2>6. \A r \in Revisions : Move(s, r, grant[s][r], grants(st, g)[r])
      BY <1>1, <2>2, <2>3, <2>4 DEF Move
    <2>7. InForceSomewhere(grant[s]) => InForceSomewhere(grants(st, g))
      BY <2>4, <2>5 DEF InForceSomewhere
    <2>8. QED
      BY <2>1, <2>6, <2>7, OneSchedulesGrants
  <1>6. QED
    BY <1>4, <1>5

(* The confirmation of a version: its own grant comes into force, the one  *)
(* it replaces is revoked, and the answered action is the proof.           *)
LEMMA ConfirmMoves ==
    ASSUME TypeOK, Authority, NEW a \in ActionIds, NEW m \in Messages,
           ConfirmActivates(a, m)
    PROVE  Moved
  <1> DEFINE s == action[a].schedule
             r == action[a].revision
             kept == IF IsUpdate(s, r) THEN Revoke(grant[s], {"active"}) ELSE grant[s]
             g == [status |-> "active", spec |-> grant[s][r].spec, by |-> m]
             after == [kept EXCEPT ![r] = g]
  <1>1. /\ s \in Schedules /\ r \in Revisions
        /\ grant[s] \in [Revisions -> GrantRow] /\ grant[s][r].status = "pending"
    BY Answered DEF ConfirmActivates, Accepted, Live, Pending, Confirmable
  <1>2. grant' = [grant EXCEPT ![s] = after]
    BY DEF ConfirmActivates
  <1>3. AnsweredBy(s, r, m)
    <2>1. action[a] \in ActionRow /\ Live(action[a]) /\ m \in Confirms \ {action[a].createdBy}
      BY DEF ConfirmActivates, Accepted, TypeOK
    <2>2. action' = Close(a, "executed")
      BY DEF ConfirmActivates
    <2>3. MarkLapsed(action)[a] = action[a]
      BY <2>1 DEF MarkLapsed, Live
    <2>4. action'[a] = [action[a] EXCEPT !.status = "executed"]
      BY <2>2, <2>3 DEF Close, MarkLapsed
    <2>5. For(action'[a], s, r) /\ action'[a].status = "executed"
          /\ action'[a].createdBy = action[a].createdBy
      BY <2>1, <2>4 DEF For, ActionRow
    <2> HIDE DEF s, r
    <2>6. QED
      BY <2>1, <2>5 DEF AnsweredBy
  <1>4. kept \in [Revisions -> GrantRow]
    BY <1>1, RevokeType
  <1>5. after[r] = g /\ \A q \in Revisions \ {r} : after[q] = kept[q]
    BY <1>1, <1>4
  <1>6. \A q \in Revisions : Move(s, q, grant[s][q], kept[q])
    <2>1. \A q \in Revisions : Move(s, q, grant[s][q], Revoke(grant[s], {"active"})[q])
      BY <1>1, RevokeMove
    <2>2. QED
      BY <2>1 DEF Move
  <1>7. g.status = "active" /\ g.spec = grant[s][r].spec /\ g.by = m
    OBVIOUS
  <1> HIDE DEF g, kept, after, s, r
  <1>8. \A q \in Revisions : Move(s, q, grant[s][q], after[q])
    BY <1>1, <1>3, <1>5, <1>6, <1>7 DEF Move
  <1>9. InForceSomewhere(after)
    BY <1>1, <1>5, <1>7 DEF InForceSomewhere
  <1>10. QED
    BY <1>1, <1>2, <1>8, <1>9, OneSchedulesGrants

(* Dropping a version only touches a grant that waits.                     *)
LEMMA DropMoves ==
    ASSUME TypeOK, Authority, NEW a \in ActionIds, NEW m \in Messages,
           ConfirmTooLate(a, m) \/ Cancel(a, m)
    PROVE  Moved
  <1> DEFINE s == action[a].schedule
             r == action[a].revision
  <1>1. /\ s \in Schedules /\ r \in Revisions
        /\ grant[s] \in [Revisions -> GrantRow] /\ grant[s][r] \in GrantRow
    BY Answered DEF ConfirmTooLate, Cancel, Accepted, Live, Pending
  <1>2. PICK st : /\ grant' = [grant EXCEPT ![s] =
                            [grant[s] EXCEPT ![r] = [grant[s][r] EXCEPT !.status = st]]]
                  /\ \/ st = grant[s][r].status
                     \/ st = "revoked" /\ grant[s][r].status = "pending"
    <2>1. CASE ConfirmTooLate(a, m)
      BY <2>1 DEF ConfirmTooLate, Confirmable
    <2>2. CASE Cancel(a, m)
      <3> DEFINE known == IsUpdate(s, r) \/ schedule[s].revision = r
                 after == IF known /\ grant[s][r].status = "pending"
                          THEN "revoked" ELSE grant[s][r].status
      <3>1. grant' = [grant EXCEPT ![s] =
                [grant[s] EXCEPT ![r] = [grant[s][r] EXCEPT !.status = after]]]
        BY <2>2 DEF Cancel
      <3>2. \/ after = grant[s][r].status
            \/ after = "revoked" /\ grant[s][r].status = "pending"
        OBVIOUS
      <3> HIDE DEF after
      <3>3. QED
        BY <3>1, <3>2
    <2>3. QED
      BY <2>1, <2>2
  <1> DEFINE g == [grant[s][r] EXCEPT !.status = st]
             grants == [grant[s] EXCEPT ![r] = g]
  <1>3. /\ g.spec = grant[s][r].spec /\ g.status = st
        /\ st = grant[s][r].status => g = grant[s][r]
    BY <1>1 DEF GrantRow
  <1>4. grants[r] = g /\ \A q \in Revisions \ {r} : grants[q] = grant[s][q]
    BY <1>1
  <1>5. grant' = [grant EXCEPT ![s] = grants]
    BY <1>2
  <1> HIDE DEF g, grants, s, r
  <1>6. \A q \in Revisions : Move(s, q, grant[s][q], grants[q])
    BY <1>2, <1>3, <1>4 DEF Move
  <1>7. InForceSomewhere(grant[s]) => InForceSomewhere(grants)
    BY <1>2, <1>3, <1>4 DEF InForceSomewhere
  <1>8. QED
    BY <1>1, <1>5, <1>6, <1>7, OneSchedulesGrants

(* Deleting a schedule, and the expiry of a draft.                         *)
LEMMA ClosingMoves ==
    ASSUME TypeOK, NEW s \in Schedules, Delete(s) \/ ExpireDraft(s)
    PROVE  Moved
  <1>1. grant[s] \in [Revisions -> GrantRow] /\ schedule[s] \in ScheduleRow
    BY RowTypes
  <1>2. CASE Delete(s)
    <2> DEFINE grants == Revoke(grant[s], {"pending", "active"})
    <2>1. grant' = [grant EXCEPT ![s] = grants]
      BY <1>2 DEF Delete
    <2>2. \A r \in Revisions : Move(s, r, grant[s][r], grants[r])
      BY <1>1, RevokeMove
    <2>3. schedule'[s].status = "deleted"
      BY <1>1, <1>2 DEF Delete, ScheduleRow, TypeOK
    <2> HIDE DEF grants
    <2>4. QED
      BY <2>1, <2>2, <2>3, OneSchedulesGrants
  <1>3. CASE ExpireDraft(s)
    <2> DEFINE grants == Revoke(grant[s], {"pending"})
    <2>1. grant' = [grant EXCEPT ![s] = grants]
      BY <1>3 DEF ExpireDraft
    <2>2. \A r \in Revisions : Move(s, r, grant[s][r], grants[r])
      BY <1>1, RevokeMove
    <2>3. InForceSomewhere(grant[s]) => InForceSomewhere(grants)
      BY <1>1, RevokePendingKeeps
    <2> HIDE DEF grants
    <2>4. QED
      BY <2>1, <2>2, <2>3, OneSchedulesGrants
  <1>4. QED
    BY <1>2, <1>3

LEMMA StepMoves ==
    ASSUME TypeOK, Authority, [Next]_vars
    PROVE  Moved
  <1>1. ASSUME NEW a \in ActionIds, NEW m \in Messages, ConfirmRefused(a, m) \/ Renew(a, m)
        PROVE  Moved
    BY <1>1, NoGrantMoved DEF ConfirmRefused, Renew
  <1>2. ASSUME NEW s \in Schedules,
               \/ Pause(s) \/ Resume(s) \/ RunNow(s) \/ FlagNeedsAttention(s)
               \/ \E following \in BOOLEAN : Dispatch(s, following)
        PROVE  Moved
    BY <1>2, NoGrantMoved DEF Pause, Resume, RunNow, FlagNeedsAttention, Dispatch
  <1>3. ASSUME \/ NoticeLapsed
               \/ \E a \in ActionIds : ReconcileLapsed(a) \/ Lapse(a)
               \/ \E sp \in Specs : TimePasses(sp)
               \/ UNCHANGED vars
        PROVE  Moved
    BY <1>3, NoGrantMoved DEF NoticeLapsed, ReconcileLapsed, Lapse, TimePasses, vars
  <1>4. QED
    BY <1>1, <1>2, <1>3, CreateMoves, UpdateMoves, ConfirmMoves, DropMoves, ClosingMoves
       DEF Next, UserStep, WorkerStep, ClockStep

-----------------------------------------------------------------------------
(* What a step may do to an executed action: nothing.                      *)

LEMMA OpsKeepExecuted ==
    ASSUME NEW acts
    PROVE  /\ ExecutedStays(acts, MarkLapsed(acts))
           /\ \A s : /\ ExecutedStays(acts, Supersede(acts, s))
                    /\ ExecutedStays(acts, ExpireActions(acts, s))
  BY DEF ExecutedStays, MarkLapsed, Supersede, ExpireActions, Pending

LEMMA CreateKeepsExecuted ==
    ASSUME NEW acts, NEW s, NEW r, NEW m, ActionTable(acts),
           ExecutedStays(action, acts), CreatePendingAction(acts, s, r, m)
    PROVE  ExecutedStays(action, action')
  <1>1. CASE action' = acts
    BY <1>1
  <1>2. ASSUME NEW a \in ActionIds, acts[a].status = "none", NEW row,
               action' = [acts EXCEPT ![a] = row]
        PROVE  ExecutedStays(action, action')
    BY <1>2 DEF ExecutedStays, ActionTable
  <1>3. QED
    BY <1>1, <1>2 DEF CreatePendingAction

LEMMA CloseKeepsExecuted ==
    ASSUME NEW a \in ActionIds, NEW st, Live(action[a]), action' = Close(a, st)
    PROVE  ExecutedStays(action, action')
  <1>1. \A b \in ActionIds \ {a} : action'[b] = MarkLapsed(action)[b]
    BY DEF Close, MarkLapsed
  <1>2. QED
    BY <1>1, OpsKeepExecuted DEF ExecutedStays, Live, Pending

LEMMA StepKeepsExecuted ==
    ASSUME TypeOK, [Next]_vars
    PROVE  ExecutedStays(action, action')
  <1>1. UNCHANGED action => ExecutedStays(action, action')
    BY DEF ExecutedStays
  <1>2. ASSUME NEW s \in Schedules, NEW m \in Messages, NEW sp \in Specs,
               \/ CreateActive(s, m, sp) \/ CreateDraft(s, m, sp)
               \/ UpdateImmediately(s, m, sp) \/ ProposeUpdate(s, m, sp)
        PROVE  ExecutedStays(action, action')
    <2>1. ActionTable(action) /\ ActionTable(Supersede(action, s))
      BY RowTypes, CloseTables
    <2>2. ExecutedStays(action, Supersede(action, s)) /\ ExecutedStays(action, action)
      BY OpsKeepExecuted DEF ExecutedStays
    <2>3. QED
      BY <1>1, <1>2, <2>1, <2>2, CreateKeepsExecuted
         DEF CreateActive, CreateDraft, UpdateImmediately, ProposeUpdate
  <1>3. ASSUME NEW a \in ActionIds, NEW m \in Messages,
               \/ ConfirmActivates(a, m) \/ ConfirmTooLate(a, m)
               \/ ConfirmRefused(a, m) \/ Cancel(a, m)
        PROVE  ExecutedStays(action, action')
    <2>1. Live(action[a]) /\ \E st : action' = Close(a, st)
      BY <1>3 DEF ConfirmActivates, ConfirmTooLate, ConfirmRefused, Cancel, Accepted
    <2>2. QED
      BY <2>1, CloseKeepsExecuted
  <1>4. ASSUME NEW a \in ActionIds, NEW m \in Messages, Renew(a, m)
        PROVE  ExecutedStays(action, action')
    <2>1. CreatePendingAction(MarkLapsed(action), action[a].schedule, action[a].revision, m)
      BY <1>4 DEF Renew
    <2>2. ActionTable(MarkLapsed(action))
      BY RowTypes, CloseTables
    <2>3. QED
      BY <2>1, <2>2, OpsKeepExecuted, CreateKeepsExecuted
  <1>5. ASSUME NEW s \in Schedules,
               \/ Pause(s) \/ Resume(s) \/ Delete(s) \/ RunNow(s)
               \/ ExpireDraft(s) \/ FlagNeedsAttention(s)
               \/ \E following \in BOOLEAN : Dispatch(s, following)
        PROVE  ExecutedStays(action, action')
    <2>1. UNCHANGED action \/ action' = ExpireActions(action, s)
      BY <1>5 DEF Pause, Resume, Delete, RunNow, ExpireDraft, FlagNeedsAttention, Dispatch
    <2>2. QED
      BY <1>1, <2>1, OpsKeepExecuted
  <1>6. ASSUME NEW a \in ActionIds, ReconcileLapsed(a) \/ Lapse(a)
        PROVE  ExecutedStays(action, action')
    BY <1>6 DEF ReconcileLapsed, Lapse, Live, Pending, ExecutedStays, TypeOK
  <1>7. ASSUME NoticeLapsed \/ (\E sp \in Specs : TimePasses(sp)) \/ UNCHANGED vars
        PROVE  ExecutedStays(action, action')
    BY <1>1, <1>7, OpsKeepExecuted DEF NoticeLapsed, TimePasses, vars
  <1>8. QED
    BY <1>2, <1>3, <1>4, <1>5, <1>6, <1>7 DEF Next, UserStep, WorkerStep, ClockStep

-----------------------------------------------------------------------------
(* How an action that answers a grant lasts as long as the grant waits.    *)

Answerable(acts, s, r) ==
    \E a \in ActionIds : For(acts[a], s, r) /\ acts[a].status \in {"pending", "expired"}

LEMMA OpsKeepAnswerable ==
    ASSUME NEW acts, ActionTable(acts), NEW t, NEW q, Answerable(acts, t, q)
    PROVE  /\ Answerable(MarkLapsed(acts), t, q)
           /\ \A s : s # t => /\ Answerable(Supersede(acts, s), t, q)
                             /\ Answerable(ExpireActions(acts, s), t, q)
  <1>1. PICK a \in ActionIds :
            For(acts[a], t, q) /\ acts[a].status \in {"pending", "expired"}
    BY DEF Answerable
  <1>2. acts[a] \in ActionRow
    BY DEF ActionTable
  <1>3. /\ For(MarkLapsed(acts)[a], t, q)
        /\ MarkLapsed(acts)[a].status \in {"pending", "expired"}
    BY <1>1, <1>2 DEF MarkLapsed, For, ActionRow
  <1>4. \A s : s # t =>
            Supersede(acts, s)[a] = acts[a] /\ ExpireActions(acts, s)[a] = acts[a]
    BY <1>1 DEF Supersede, ExpireActions, For
  <1>5. QED
    BY <1>1, <1>3, <1>4 DEF Answerable

LEMMA CreateAnswerable ==
    ASSUME NEW acts, ActionTable(acts), NEW s, NEW r, NEW m,
           CreatePendingAction(acts, s, r, m)
    PROVE  /\ Answerable(action', s, r)
           /\ \A t, q : Answerable(acts, t, q) => Answerable(action', t, q)
  <1>1. CASE \E a \in ActionIds : For(acts[a], s, r) /\ Live(acts[a]) /\ action' = acts
    BY <1>1 DEF Answerable, Live, Pending
  <1>2. ASSUME NEW a \in ActionIds, acts[a].status = "none",
               action' = [acts EXCEPT ![a] =
                    [status |-> "pending", schedule |-> s, revision |-> r,
                     createdBy |-> m, lapsed |-> FALSE]]
        PROVE  /\ Answerable(action', s, r)
               /\ \A t, q : Answerable(acts, t, q) => Answerable(action', t, q)
    <2>1. For(action'[a], s, r) /\ action'[a].status = "pending"
      BY <1>2 DEF For, ActionTable
    <2>2. \A b \in ActionIds \ {a} : action'[b] = acts[b]
      BY <1>2 DEF ActionTable
    <2>3. QED
      BY <1>2, <2>1, <2>2 DEF Answerable
  <1>3. QED
    BY <1>1, <1>2 DEF CreatePendingAction

LEMMA CloseAnswerable ==
    ASSUME TypeOK, NEW a \in ActionIds, NEW st, action' = Close(a, st), NEW t, NEW q,
           ~For(action[a], t, q), Answerable(action, t, q)
    PROVE  Answerable(action', t, q)
  <1>1. PICK b \in ActionIds :
            For(action[b], t, q) /\ action[b].status \in {"pending", "expired"}
    BY DEF Answerable
  <1>2. b # a /\ action[b] \in ActionRow
    BY <1>1 DEF TypeOK
  <1>3. action'[b] = MarkLapsed(action)[b]
    BY <1>2 DEF Close, MarkLapsed
  <1>4. For(action'[b], t, q) /\ action'[b].status \in {"pending", "expired"}
    BY <1>1, <1>2, <1>3 DEF MarkLapsed, For, ActionRow
  <1>5. QED
    BY <1>4 DEF Answerable

(* What waits after a step waited before it and is still answerable, or    *)
(* can be answered because the step created the action for it.             *)
WaitsAnswerable ==
    \A t \in Schedules, q \in Revisions : grant'[t][q].status = "pending" =>
        \/ Answerable(action', t, q)
        \/ /\ grant[t][q].status = "pending"
           /\ Answerable(action, t, q) => Answerable(action', t, q)

LEMMA CreateWaits ==
    ASSUME TypeOK, NEW s \in Schedules, NEW m \in Messages, NEW sp \in Specs,
           CreateActive(s, m, sp) \/ CreateDraft(s, m, sp)
    PROVE  WaitsAnswerable
  <1>1. ActionTable(action) /\ grant[s] \in [Revisions -> GrantRow]
    BY RowTypes
  <1>2. ASSUME NEW g, grant' = [grant EXCEPT ![s] = [grant[s] EXCEPT ![1] = g]]
        PROVE  /\ grant'[s][1] = g
               /\ \A t \in Schedules, q \in Revisions :
                    <<t, q>> # <<s, 1>> => grant'[t][q] = grant[t][q]
    BY <1>1, <1>2, Bounds DEF TypeOK
  <1>3. CASE CreateActive(s, m, sp)
    <2> DEFINE g == NewGrant("active", sp, m)
    <2>1. grant' = [grant EXCEPT ![s] = [grant[s] EXCEPT ![1] = g]] /\ action' = action
      BY <1>3 DEF CreateActive
    <2>2. g.status = "active"
      BY DEF NewGrant
    <2> HIDE DEF g
    <2>3. QED
      BY <1>2, <2>1, <2>2 DEF WaitsAnswerable
  <1>4. CASE CreateDraft(s, m, sp)
    <2> DEFINE g == NewGrant("pending", sp, 0)
    <2>1. /\ grant' = [grant EXCEPT ![s] = [grant[s] EXCEPT ![1] = g]]
          /\ CreatePendingAction(action, s, 1, m)
      BY <1>4 DEF CreateDraft
    <2> HIDE DEF g
    <2>2. /\ Answerable(action', s, 1)
          /\ \A t, q : Answerable(action, t, q) => Answerable(action', t, q)
      BY <1>1, <2>1, CreateAnswerable
    <2>3. QED
      BY <1>2, <2>1, <2>2 DEF WaitsAnswerable
  <1>5. QED
    BY <1>3, <1>4

LEMMA UpdateWaits ==
    ASSUME TypeOK, NEW s \in Schedules, NEW m \in Messages, NEW sp \in Specs,
           UpdateImmediately(s, m, sp) \/ ProposeUpdate(s, m, sp)
    PROVE  WaitsAnswerable
  <1> DEFINE n == NextRevision(s)
             acts == Supersede(action, s)
  <1>1. /\ ActionTable(action) /\ ActionTable(acts)
        /\ grant[s] \in [Revisions -> GrantRow] /\ n \in Revisions
    BY RowTypes, CloseTables DEF UpdateImmediately, ProposeUpdate, RevisionFree
  <1>2. \A t, q : t # s /\ Answerable(action, t, q) => Answerable(acts, t, q)
    BY <1>1, OpsKeepAnswerable
  <1>3. ASSUME NEW st, "pending" \in st, NEW g,
               grant' = [grant EXCEPT ![s] = [Revoke(grant[s], st) EXCEPT ![n] = g]]
        PROVE  /\ grant'[s][n] = g
               /\ \A q \in Revisions \ {n} : grant'[s][q].status # "pending"
               /\ \A t \in Schedules \ {s} : grant'[t] = grant[t]
    <2>1. Revoke(grant[s], st) \in [Revisions -> GrantRow]
      BY <1>1, RevokeType
    <2>2. \A q \in Revisions : Revoke(grant[s], st)[q].status # "pending"
      BY <1>1, <1>3, RevokeFields
    <2>3. /\ grant'[s] = [Revoke(grant[s], st) EXCEPT ![n] = g]
          /\ \A t \in Schedules \ {s} : grant'[t] = grant[t]
      BY <1>3 DEF TypeOK
    <2> HIDE DEF n
    <2>4. QED
      BY <1>1, <2>1, <2>2, <2>3
  <1>4. CASE UpdateImmediately(s, m, sp)
    <2> DEFINE g == NewGrant("active", sp, m)
               st == {"pending", "active"}
    <2>1. /\ grant' = [grant EXCEPT ![s] = [Revoke(grant[s], st) EXCEPT ![n] = g]]
          /\ action' = acts
      BY <1>4 DEF UpdateImmediately
    <2>2. g.status = "active" /\ "pending" \in st
      BY DEF NewGrant
    <2> HIDE DEF g, st, n, acts
    <2>3. QED
      BY <1>2, <1>3, <2>1, <2>2 DEF WaitsAnswerable
  <1>5. CASE ProposeUpdate(s, m, sp)
    <2> DEFINE g == NewGrant("pending", sp, 0)
               st == {"pending"}
    <2>1. /\ grant' = [grant EXCEPT ![s] = [Revoke(grant[s], st) EXCEPT ![n] = g]]
          /\ CreatePendingAction(acts, s, n, m)
      BY <1>5 DEF ProposeUpdate
    <2>2. "pending" \in st
      OBVIOUS
    <2> HIDE DEF g, st, n, acts
    <2>3. /\ Answerable(action', s, n)
          /\ \A t, q : Answerable(acts, t, q) => Answerable(action', t, q)
      BY <1>1, <2>1, CreateAnswerable
    <2>4. QED
      BY <1>2, <1>3, <2>1, <2>2, <2>3 DEF WaitsAnswerable
  <1>6. QED
    BY <1>4, <1>5

(* An answer closes its own action, whose version then no longer waits.    *)
LEMMA AnswerWaits ==
    ASSUME TypeOK, Authority, NEW a \in ActionIds, NEW m \in Messages,
           \/ ConfirmActivates(a, m) \/ ConfirmTooLate(a, m)
           \/ ConfirmRefused(a, m) \/ Cancel(a, m)
    PROVE  WaitsAnswerable
  <1> DEFINE s == action[a].schedule
             r == action[a].revision
  <1>1. Live(action[a]) /\ \E st : action' = Close(a, st)
    BY DEF ConfirmActivates, ConfirmTooLate, ConfirmRefused, Cancel, Accepted
  <1>2. /\ s \in Schedules /\ r \in Revisions
        /\ grant[s] \in [Revisions -> GrantRow] /\ grant[s][r] \in GrantRow
        /\ Sound(schedule[s], grant[s])
    BY <1>1, Answered DEF Live, Pending
  <1>3. grant[s][r].status = "pending" => IsUpdate(s, r) \/ schedule[s].revision = r
    BY <1>2 DEF Sound, Waiting, IsUpdate
  <1>4. /\ grant'[s][r].status # "pending"
        /\ \A t \in Schedules, q \in Revisions :
             grant'[t][q].status = "pending" => grant[t][q].status = "pending"
    <2>1. CASE ConfirmRefused(a, m)
      BY <1>3, <2>1 DEF ConfirmRefused, Confirmable
    <2>2. ASSUME NEW kept \in [Revisions -> GrantRow], NEW g, g.status # "pending",
                 grant' = [grant EXCEPT ![s] = [kept EXCEPT ![r] = g]],
                 \A q \in Revisions :
                    kept[q].status = "pending" => grant[s][q].status = "pending"
          PROVE  /\ grant'[s][r].status # "pending"
                 /\ \A t \in Schedules, q \in Revisions :
                    grant'[t][q].status = "pending" => grant[t][q].status = "pending"
      <3>1. /\ grant'[s] = [kept EXCEPT ![r] = g]
            /\ \A t \in Schedules \ {s} : grant'[t] = grant[t]
        BY <1>2, <2>2 DEF TypeOK
      <3>2. grant'[s][r] = g /\ \A q \in Revisions \ {r} : grant'[s][q] = kept[q]
        BY <1>2, <3>1
      <3> HIDE DEF s, r
      <3>3. QED
        BY <2>2, <3>1, <3>2
    <2>3. CASE ConfirmActivates(a, m)
      <3> DEFINE kept == IF IsUpdate(s, r) THEN Revoke(grant[s], {"active"}) ELSE grant[s]
                 g == [status |-> "active", spec |-> grant[s][r].spec, by |-> m]
      <3>1. grant' = [grant EXCEPT ![s] = [kept EXCEPT ![r] = g]]
        BY <2>3 DEF ConfirmActivates
      <3>2. /\ kept \in [Revisions -> GrantRow]
            /\ \A q \in Revisions :
                  kept[q].status = "pending" => grant[s][q].status = "pending"
        BY <1>2, RevokeType, RevokeFields
      <3>3. g.status # "pending"
        OBVIOUS
      <3> HIDE DEF kept, g
      <3>4. QED
        BY <2>2, <3>1, <3>2, <3>3
    <2>4. CASE ConfirmTooLate(a, m) \/ Cancel(a, m)
      <3> DEFINE known == IsUpdate(s, r) \/ schedule[s].revision = r
                 st == IF known /\ grant[s][r].status = "pending"
                       THEN "revoked" ELSE grant[s][r].status
                 g == [grant[s][r] EXCEPT !.status = st]
      <3>1. grant' = [grant EXCEPT ![s] = [grant[s] EXCEPT ![r] = g]]
        BY <2>4 DEF ConfirmTooLate, Cancel, Confirmable
      <3>2. g.status = st /\ st # "pending"
        BY <1>2, <1>3 DEF GrantRow
      <3> HIDE DEF g, st
      <3>3. QED
        BY <1>2, <2>2, <3>1, <3>2
    <2>5. QED
      BY <2>1, <2>3, <2>4
  <1>5. \A t, q : For(action[a], t, q) => t = s /\ q = r
    BY DEF For
  <1> HIDE DEF s, r
  <1>6. QED
    BY <1>1, <1>4, <1>5, CloseAnswerable DEF WaitsAnswerable

LEMMA StepWaits ==
    ASSUME TypeOK, Authority, [Next]_vars
    PROVE  WaitsAnswerable
  <1>1. UNCHANGED <<grant, action>> => WaitsAnswerable
    BY DEF WaitsAnswerable
  <1>2. ASSUME NEW acts, ActionTable(acts), UNCHANGED grant,
               \A t, q : Answerable(action, t, q) => Answerable(acts, t, q),
               \/ action' = acts
               \/ \E s, r, m : CreatePendingAction(acts, s, r, m)
        PROVE  WaitsAnswerable
    BY <1>2, CreateAnswerable DEF WaitsAnswerable
  <1>3. /\ ActionTable(action) /\ ActionTable(MarkLapsed(action))
        /\ \A t, q : Answerable(action, t, q) => Answerable(MarkLapsed(action), t, q)
    BY RowTypes, CloseTables, OpsKeepAnswerable
  <1>4. ASSUME \/ NoticeLapsed
               \/ \E a \in ActionIds, m \in Messages : Renew(a, m)
        PROVE  WaitsAnswerable
    BY <1>2, <1>3, <1>4 DEF NoticeLapsed, Renew
  <1>5. ASSUME NEW a \in ActionIds, ReconcileLapsed(a) \/ Lapse(a)
        PROVE  WaitsAnswerable
    <2>1. /\ UNCHANGED grant /\ action[a].status \in {"pending", "expired"}
          /\ action[a] \in ActionRow
          /\ \/ action' = [action EXCEPT ![a] = [action[a] EXCEPT !.status = "expired"]]
             \/ action' = [action EXCEPT ![a] = [action[a] EXCEPT !.lapsed = TRUE]]
      BY <1>5 DEF ReconcileLapsed, Lapse, Live, Pending, TypeOK
    <2>2. /\ action'[a].status \in {"pending", "expired"}
          /\ action'[a].schedule = action[a].schedule
          /\ action'[a].revision = action[a].revision
      BY <2>1 DEF TypeOK, ActionRow
    <2>3. \A b \in ActionIds \ {a} : action'[b] = action[b]
      BY <2>1 DEF TypeOK
    <2>4. \A t, q : Answerable(action, t, q) => Answerable(action', t, q)
      BY <2>1, <2>2, <2>3 DEF Answerable, For
    <2>5. QED
      BY <2>1, <2>4 DEF WaitsAnswerable
  <1>6. ASSUME NEW s \in Schedules, Delete(s) \/ ExpireDraft(s)
        PROVE  WaitsAnswerable
    <2>1. PICK st : "pending" \in st /\ grant' = [grant EXCEPT ![s] = Revoke(grant[s], st)]
      BY <1>6 DEF Delete, ExpireDraft
    <2>2. UNCHANGED action \/ action' = ExpireActions(action, s)
      BY <1>6 DEF Delete, ExpireDraft
    <2>3. grant'[s] = Revoke(grant[s], st) /\ \A t \in Schedules \ {s} : grant'[t] = grant[t]
      BY <2>1 DEF TypeOK
    <2>4. \A q \in Revisions : grant'[s][q].status # "pending"
      BY <2>1, <2>3, RowTypes, RevokeFields
    <2>5. \A t, q : t # s /\ Answerable(action, t, q) => Answerable(action', t, q)
      BY <1>3, <2>2, OpsKeepAnswerable
    <2>6. QED
      BY <2>3, <2>4, <2>5 DEF WaitsAnswerable
  <1>7. ASSUME NEW s \in Schedules,
               \/ Pause(s) \/ Resume(s) \/ RunNow(s) \/ FlagNeedsAttention(s)
               \/ \E following \in BOOLEAN : Dispatch(s, following)
        PROVE  WaitsAnswerable
    BY <1>1, <1>7 DEF Pause, Resume, RunNow, FlagNeedsAttention, Dispatch
  <1>8. ASSUME (\E sp \in Specs : TimePasses(sp)) \/ UNCHANGED vars
        PROVE  WaitsAnswerable
    BY <1>1, <1>8 DEF TimePasses, vars
  <1>9. QED
    BY <1>4, <1>5, <1>6, <1>7, <1>8, CreateWaits, UpdateWaits, AnswerWaits
       DEF Next, UserStep, WorkerStep, ClockStep

-----------------------------------------------------------------------------
(* The theorems.                                                           *)

LEMMA R2ConfirmedStep ==
    ASSUME TypeOK, Authority, R2Confirmed, [Next]_vars
    PROVE  R2Confirmed'
  <1>1. Moved /\ ExecutedStays(action, action')
    BY StepMoves, StepKeepsExecuted
  <1>2. SUFFICES ASSUME NEW s \in Schedules, NEW r \in Revisions,
                        grant'[s][r].status = "active", grant'[s][r].spec \in R2Specs
                 PROVE  AnsweredBy(s, r, grant'[s][r].by)
    BY DEF R2Confirmed, AnsweredBy
  <1>3. Move(s, r, grant[s][r], grant'[s][r])
    BY <1>1 DEF Moved
  <1>4. CASE grant'[s][r] = grant[s][r]
    <2>1. PICK a \in ActionIds : /\ For(action[a], s, r) /\ action[a].status = "executed"
                                 /\ grant[s][r].by \in Confirms \ {action[a].createdBy}
      BY <1>2, <1>4 DEF R2Confirmed
    <2>2. action'[a] = action[a]
      BY <1>1, <2>1 DEF ExecutedStays
    <2>3. QED
      BY <1>4, <2>1, <2>2 DEF AnsweredBy
  <1>5. CASE grant'[s][r] # grant[s][r]
    BY <1>2, <1>3, <1>5 DEF Move
  <1>6. QED
    BY <1>4, <1>5

(* A version with external effects is only ever in force because a message *)
(* that reads as an explicit confirmation, and is not the one that asked   *)
(* for the version, executed a pending action of exactly that revision.    *)
THEOREM R2AlwaysConfirmed == Spec => []R2Confirmed
  <1>1. Init => R2Confirmed
    BY DEF Init, R2Confirmed, NoGrant
  <1>2. TypeOK /\ Authority /\ R2Confirmed /\ [Next]_vars => R2Confirmed'
    BY R2ConfirmedStep
  <1>3. QED
    BY <1>1, <1>2, TypeCorrect, AuthorityAlways, PTL DEF Spec

(* What a grant authorises never changes and a revoked grant stays so,     *)
(* whatever update, answer or expiry is retried on its revision.           *)
THEOREM GrantsStayRevoked == Spec => GrantsNeverRevive
  <1>1. ASSUME TypeOK, Authority, [Next]_vars, NEW s \in Schedules, NEW r \in Revisions,
               grant[s][r].status # "none"
        PROVE  /\ grant'[s][r].spec = grant[s][r].spec
               /\ grant[s][r].status = "revoked" => grant'[s][r].status = "revoked"
    BY <1>1, StepMoves DEF Moved, Move
  <1>2. TypeOK /\ Authority /\ [Next]_vars =>
            [\A s \in Schedules, r \in Revisions : grant[s][r].status # "none" =>
                /\ grant'[s][r].spec = grant[s][r].spec
                /\ grant[s][r].status = "revoked" => grant'[s][r].status = "revoked"]_vars
    BY <1>1
  <1>3. QED
    BY <1>2, TypeCorrect, AuthorityAlways, PTL DEF Spec, GrantsNeverRevive

(* A schedule keeps an authorisation in force while new versions of it are *)
(* proposed, refused, cancelled or mistimed: only its deletion ends that.  *)
THEOREM AuthorisationKept == Spec => OldVersionUninterrupted
  <1>1. TypeOK /\ Authority /\ [Next]_vars =>
            [\A s \in Schedules :
                (\E r \in Revisions : grant[s][r].status = "active") =>
                    \/ \E r \in Revisions : grant'[s][r].status = "active"
                    \/ schedule'[s].status = "deleted"]_vars
    BY StepMoves DEF Moved, InForceSomewhere
  <1>2. QED
    BY <1>1, TypeCorrect, AuthorityAlways, PTL DEF Spec, OldVersionUninterrupted

(* While a version waits for its confirmation there is an action the user  *)
(* can still answer or renew: no answer, update or expiry closes the last  *)
(* one and leaves the grant waiting for ever.                              *)
THEOREM WaitingAlwaysAnswerable == Spec => []PendingGrantIsAnswerable
  <1>1. PendingGrantIsAnswerable <=>
            \A s \in Schedules, r \in Revisions :
                grant[s][r].status = "pending" => Answerable(action, s, r)
    BY DEF PendingGrantIsAnswerable, Answerable
  <1>2. Init => PendingGrantIsAnswerable
    BY DEF Init, PendingGrantIsAnswerable, NoGrant
  <1>3. TypeOK /\ Authority /\ PendingGrantIsAnswerable /\ [Next]_vars
            => PendingGrantIsAnswerable'
    <2> SUFFICES ASSUME TypeOK, Authority, PendingGrantIsAnswerable, [Next]_vars
                 PROVE  PendingGrantIsAnswerable'
      OBVIOUS
    <2>1. \A s \in Schedules, r \in Revisions :
                grant'[s][r].status = "pending" => Answerable(action', s, r)
      BY <1>1, StepWaits DEF WaitsAnswerable
    <2>2. QED
      BY <2>1 DEF PendingGrantIsAnswerable, Answerable
  <1>4. QED
    BY <1>2, <1>3, TypeCorrect, AuthorityAlways, PTL DEF Spec

-----------------------------------------------------------------------------
(* The contract.  Every step of the tools, answers, expiries and failures  *)
(* is, for who reads the row of a routine, a step of the contract or no    *)
(* step at all.                                                            *)
(*                                                                         *)
(* Beyond what is shown above the argument needs two facts.  The version   *)
(* that waits beside the current one is a later one, or a confirmation     *)
(* could put an old revision back in force.  And an action that can be     *)
(* answered belongs to a grant that is not in force, and is the only such  *)
(* action of its version, or a cancellation could delete a routine and     *)
(* leave it authorised.                                                    *)
SameVersion(x, y) == x.schedule = y.schedule /\ x.revision = y.revision

OneLiveAnswer ==
    \A a \in ActionIds : Live(action[a]) =>
        /\ grant[action[a].schedule][action[a].revision].status \in {"pending", "revoked"}
        /\ \A b \in ActionIds : Live(action[b]) /\ SameVersion(action[a], action[b]) => a = b

Ahead(row) == row.pendingRevision = 0 \/ row.pendingRevision > row.revision
PendingAhead == \A s \in Schedules : Ahead(schedule[s])

-----------------------------------------------------------------------------
(* The version that waits is later than the current one.                   *)

LEMMA OneScheduleAhead ==
    ASSUME TypeOK, PendingAhead, NEW s \in Schedules, NEW row,
           schedule' = [schedule EXCEPT ![s] = row], Ahead(row)
    PROVE  PendingAhead'
  <1>1. /\ schedule'[s] = row
        /\ \A t \in Schedules \ {s} : schedule'[t] = schedule[t]
    BY DEF TypeOK
  <1>2. QED
    BY <1>1 DEF PendingAhead

(* Rows that keep both versions, or drop the one that waits.               *)
LEMMA AheadRows ==
    ASSUME NEW row \in ScheduleRow, Ahead(row), NEW st, NEW b, NEW c
    PROVE  /\ Ahead([row EXCEPT !.status = st])
           /\ Ahead([row EXCEPT !.ran = c])
           /\ Ahead([row EXCEPT !.status = st, !.scheduled = b])
           /\ Ahead([row EXCEPT !.ran = c, !.scheduled = b, !.status = st])
           /\ Ahead(ClearPendingUpdate(row))
           /\ Ahead([ClearPendingUpdate(row) EXCEPT !.status = st, !.scheduled = b])
  BY DEF Ahead, ScheduleRow, ClearPendingUpdate

LEMMA StatusAhead ==
    ASSUME TypeOK, PendingAhead, NEW s \in Schedules,
           \/ Pause(s) \/ Resume(s) \/ Delete(s) \/ RunNow(s) \/ ExpireDraft(s)
           \/ FlagNeedsAttention(s) \/ \E following \in BOOLEAN : Dispatch(s, following)
    PROVE  PendingAhead'
  <1> DEFINE old == schedule[s]
  <1>1. old \in ScheduleRow /\ Ahead(old)
    BY RowTypes DEF PendingAhead
  <1>2. CASE Pause(s) \/ FlagNeedsAttention(s)
    <2>1. PICK st : schedule' = [schedule EXCEPT ![s] = [old EXCEPT !.status = st]]
      BY <1>2 DEF Pause, FlagNeedsAttention
    <2>2. QED
      BY <1>1, <2>1, AheadRows, OneScheduleAhead
  <1>3. CASE Resume(s)
    <2> DEFINE goesOn == horizon[schedule[s].spec] = "future"
               st == IF goesOn THEN "active" ELSE "completed"
               new == [old EXCEPT !.status = st, !.scheduled = goesOn]
    <2>1. schedule' = [schedule EXCEPT ![s] = new]
      BY <1>1, <1>3 DEF Resume, TypeOK, ScheduleRow
    <2>2. Ahead(new)
      BY <1>1, AheadRows
    <2>3. QED
      BY <2>1, <2>2, OneScheduleAhead
  <1>4. CASE Delete(s)
    <2>1. schedule' = [schedule EXCEPT ![s] =
                            [old EXCEPT !.status = "deleted", !.scheduled = FALSE]]
      BY <1>1, <1>4 DEF Delete, TypeOK, ScheduleRow
    <2>2. QED
      BY <1>1, <2>1, AheadRows, OneScheduleAhead
  <1>5. CASE RunNow(s)
    <2>1. schedule' = [schedule EXCEPT ![s] = [old EXCEPT !.ran = TRUE]]
      BY <1>5 DEF RunNow
    <2>2. QED
      BY <1>1, <2>1, AheadRows, OneScheduleAhead
  <1>6. CASE ExpireDraft(s)
    <2>1. schedule' = [schedule EXCEPT ![s] =
                [ClearPendingUpdate(old) EXCEPT !.status = "expired", !.scheduled = FALSE]]
      BY <1>6 DEF ExpireDraft
    <2>2. QED
      BY <1>1, <2>1, AheadRows, OneScheduleAhead
  <1>7. ASSUME NEW following \in BOOLEAN, Dispatch(s, following) PROVE PendingAhead'
    <2> DEFINE st == IF following THEN "active" ELSE "completed"
               new == [old EXCEPT !.ran = TRUE, !.scheduled = following, !.status = st]
    <2>1. schedule' = [schedule EXCEPT ![s] = new]
      BY <1>7 DEF Dispatch
    <2>2. Ahead(new)
      BY <1>1, AheadRows
    <2>3. QED
      BY <2>1, <2>2, OneScheduleAhead
  <1>8. QED
    BY <1>2, <1>3, <1>4, <1>5, <1>6, <1>7

LEMMA VersionAhead ==
    ASSUME TypeOK, PendingAhead, NEW s \in Schedules, NEW m \in Messages, NEW sp \in Specs,
           \/ CreateActive(s, m, sp) \/ CreateDraft(s, m, sp)
           \/ UpdateImmediately(s, m, sp) \/ ProposeUpdate(s, m, sp)
    PROVE  PendingAhead'
  <1> DEFINE old == schedule[s]
             n == NextRevision(s)
             created(st) == [NoSchedule EXCEPT !.status = st, !.revision = 1,
                                               !.spec = sp, !.scheduled = TRUE]
             active == [ClearPendingUpdate(old) EXCEPT !.status = "active",
                            !.spec = sp, !.revision = n, !.scheduled = TRUE]
             proposed == [old EXCEPT !.pendingRevision = n, !.pendingSpec = sp]
  <1>1. old \in ScheduleRow
    BY RowTypes
  <1>2. n > old.revision
    BY <1>1 DEF NextRevision, AnyPrevious, ScheduleRow
  <1>3. \A st : Ahead(created(st))
    BY DEF Ahead, NoSchedule
  <1>4. Ahead(active)
    BY <1>1 DEF Ahead, ClearPendingUpdate, ScheduleRow
  <1>5. Ahead(proposed)
    <2> HIDE DEF n
    <2> QED BY <1>1, <1>2 DEF Ahead, ScheduleRow
  <1>6. \/ \E st : schedule' = [schedule EXCEPT ![s] = created(st)]
        \/ schedule' = [schedule EXCEPT ![s] = active]
        \/ schedule' = [schedule EXCEPT ![s] = proposed]
    BY DEF CreateActive, CreateDraft, UpdateImmediately, ProposeUpdate
  <1> HIDE DEF created, active, proposed
  <1>7. QED
    BY <1>3, <1>4, <1>5, <1>6, OneScheduleAhead

LEMMA AnswerAhead ==
    ASSUME TypeOK, Authority, PendingAhead, NEW a \in ActionIds, NEW m \in Messages,
           ConfirmActivates(a, m) \/ ConfirmTooLate(a, m) \/ Cancel(a, m)
    PROVE  PendingAhead'
  <1> DEFINE s == action[a].schedule
             r == action[a].revision
             old == schedule[s]
             base == IF IsUpdate(s, r) THEN ClearPendingUpdate(old) ELSE old
             confirmed == [base EXCEPT !.status = "active", !.revision = r,
                                  !.spec = VersionSpec(s, r), !.scheduled = TRUE]
             closed(st) == [old EXCEPT !.status = st, !.scheduled = FALSE]
  <1>1. s \in Schedules /\ r \in Revisions /\ old \in ScheduleRow /\ Sound(old, grant[s])
    BY Answered DEF ConfirmActivates, ConfirmTooLate, Cancel, Accepted, Live, Pending
  <1>2. Ahead(old)
    BY <1>1 DEF PendingAhead
  <1>3. Ahead(ClearPendingUpdate(old)) /\ \A st : Ahead(closed(st))
    BY <1>1, <1>2, AheadRows
  <1>4. CASE ConfirmActivates(a, m)
    <2>1. schedule' = [schedule EXCEPT ![s] = confirmed]
      BY <1>4 DEF ConfirmActivates
    <2>2. /\ confirmed.revision = r
          /\ confirmed.pendingRevision = base.pendingRevision
      BY <1>1, ClearFields DEF ScheduleRow
    <2>3. base.pendingRevision = 0
      BY <1>1, <1>4, ClearFields
         DEF ConfirmActivates, Confirmable, Sound, Waiting, IsUpdate
    <2> HIDE DEF confirmed, base
    <2>4. QED
      BY <1>1, <2>1, <2>2, <2>3, OneScheduleAhead DEF Ahead
  <1>5. CASE ConfirmTooLate(a, m) \/ Cancel(a, m)
    <2>1. PICK new : /\ schedule' = [schedule EXCEPT ![s] = new]
                     /\ \/ new = ClearPendingUpdate(old)
                        \/ \E st : new = closed(st)
                        \/ new = old
      BY <1>5 DEF ConfirmTooLate, Cancel
    <2> HIDE DEF closed
    <2>2. QED
      BY <1>1, <1>2, <1>3, <2>1, OneScheduleAhead
  <1>6. QED
    BY <1>4, <1>5

LEMMA AheadStep ==
    ASSUME TypeOK, Authority, PendingAhead, [Next]_vars
    PROVE  PendingAhead'
  <1>1. ASSUME UNCHANGED schedule PROVE PendingAhead'
    BY <1>1 DEF PendingAhead
  <1>2. ASSUME NEW a \in ActionIds, NEW m \in Messages, ConfirmRefused(a, m) \/ Renew(a, m)
        PROVE  PendingAhead'
    BY <1>1, <1>2 DEF ConfirmRefused, Renew
  <1>3. ASSUME \/ NoticeLapsed
               \/ \E a \in ActionIds : ReconcileLapsed(a) \/ Lapse(a)
               \/ \E sp \in Specs : TimePasses(sp)
               \/ UNCHANGED vars
        PROVE  PendingAhead'
    BY <1>1, <1>3 DEF NoticeLapsed, ReconcileLapsed, Lapse, TimePasses, vars
  <1>4. QED
    BY <1>2, <1>3, VersionAhead, AnswerAhead, StatusAhead
       DEF Next, UserStep, WorkerStep, ClockStep

-----------------------------------------------------------------------------
(* A version has one live action at most, and only while its grant is not  *)
(* in force.                                                               *)

(* An action that is live after a step was live before it, or is the only  *)
(* live one of a version whose grant waits.                                *)
LiveBefore(acts) == \A a \in ActionIds : Live(acts[a]) => acts[a] = action[a]

NewAnswer(s, r) ==
    \A a \in ActionIds : Live(action'[a]) =>
        \/ action'[a] = action[a] /\ ~For(action'[a], s, r)
        \/ /\ For(action'[a], s, r)
           /\ \A b \in ActionIds : Live(action'[b]) /\ For(action'[b], s, r) => a = b

(* The grant of a live action that a step keeps.                           *)
KeptClosed ==
    \A a \in ActionIds : Live(action'[a]) /\ action'[a] = action[a] =>
        grant'[action[a].schedule][action[a].revision].status \in {"pending", "revoked"}

LEMMA OpsLiveBefore ==
    ASSUME TypeOK
    PROVE  /\ LiveBefore(action) /\ LiveBefore(MarkLapsed(action))
           /\ \A s : LiveBefore(Supersede(action, s)) /\ LiveBefore(ExpireActions(action, s))
           /\ \A s : \A a \in ActionIds :
                Live(Supersede(action, s)[a]) => action[a].schedule # s
           /\ \A a \in ActionIds : \A st \in {"executed", "failed", "cancelled"} :
                LiveBefore(Close(a, st)) /\ ~Live(Close(a, st)[a])
  BY DEF LiveBefore, Live, Pending, MarkLapsed, Supersede, ExpireActions, Close,
         TypeOK, ActionRow

LEMMA KeptLive ==
    ASSUME OneLiveAnswer, LiveBefore(action'), KeptClosed
    PROVE  OneLiveAnswer'
  BY DEF OneLiveAnswer, LiveBefore, KeptClosed, SameVersion

LEMMA NewLive ==
    ASSUME OneLiveAnswer, NEW s, NEW r, NewAnswer(s, r), KeptClosed,
           grant'[s][r].status = "pending"
    PROVE  OneLiveAnswer'
  BY DEF OneLiveAnswer, NewAnswer, KeptClosed, SameVersion, For, Live, Pending

(* create_pending_action on what was live before.                          *)
LEMMA CreateLive ==
    ASSUME TypeOK, OneLiveAnswer, NEW acts, ActionTable(acts), LiveBefore(acts),
           NEW s, NEW r, NEW m, CreatePendingAction(acts, s, r, m)
    PROVE  /\ NewAnswer(s, r)
           /\ \A a \in ActionIds : action'[a] = acts[a] \/ For(action'[a], s, r)
  <1>1. CASE action' = acts
    BY <1>1 DEF NewAnswer, LiveBefore, OneLiveAnswer, SameVersion, For
  <1>2. ASSUME NEW a \in ActionIds, acts[a].status = "none",
               \A b \in ActionIds : ~(For(acts[b], s, r) /\ Live(acts[b])),
               action' = [acts EXCEPT ![a] =
                    [status |-> "pending", schedule |-> s, revision |-> r,
                     createdBy |-> m, lapsed |-> FALSE]]
        PROVE  /\ NewAnswer(s, r)
               /\ \A b \in ActionIds : action'[b] = acts[b] \/ For(action'[b], s, r)
    <2>1. For(action'[a], s, r)
      BY <1>2 DEF For, ActionTable
    <2>2. \A b \in ActionIds \ {a} : action'[b] = acts[b]
      BY <1>2 DEF ActionTable
    <2>3. QED
      BY <1>2, <2>1, <2>2 DEF NewAnswer, LiveBefore
  <1>3. QED
    BY <1>1, <1>2 DEF CreatePendingAction

LEMMA CreateOneLive ==
    ASSUME TypeOK, Authority, OneLiveAnswer,
           NEW s \in Schedules, NEW m \in Messages, NEW sp \in Specs,
           CreateActive(s, m, sp) \/ CreateDraft(s, m, sp)
    PROVE  OneLiveAnswer'
  <1>1. /\ \A r \in Revisions : grant[s][r].status = "none"
        /\ grant[s] \in [Revisions -> GrantRow] /\ ActionTable(action)
    BY RowTypes DEF CreateActive, CreateDraft, Stored, Authority, Sound, Unused
  <1>2. PICK g : grant' = [grant EXCEPT ![s] = [grant[s] EXCEPT ![1] = g]]
    <2>1. CASE CreateActive(s, m, sp)
      <3>1. grant' = [grant EXCEPT ![s] = [grant[s] EXCEPT ![1] = NewGrant("active", sp, m)]]
        BY <2>1 DEF CreateActive
      <3>2. QED
        BY <3>1
    <2>2. CASE CreateDraft(s, m, sp)
      <3>1. grant' = [grant EXCEPT ![s] = [grant[s] EXCEPT ![1] = NewGrant("pending", sp, 0)]]
        BY <2>2 DEF CreateDraft
      <3>2. QED
        BY <3>1
    <2>3. QED
      BY <2>1, <2>2
  <1>3. \A t \in Schedules \ {s} : grant'[t] = grant[t]
    BY <1>2 DEF TypeOK
  <1>4. KeptClosed
    <2> SUFFICES ASSUME NEW a \in ActionIds, Live(action[a])
                 PROVE  grant'[action[a].schedule][action[a].revision].status
                            \in {"pending", "revoked"}
      BY DEF KeptClosed
    <2>1. /\ action[a].schedule \in Schedules /\ action[a].revision \in Revisions
          /\ grant[action[a].schedule][action[a].revision].status \in {"pending", "revoked"}
      BY RowTypes DEF OneLiveAnswer, Live, Pending
    <2>2. QED
      BY <1>1, <1>3, <2>1
  <1>5. CASE CreateActive(s, m, sp)
    BY <1>4, <1>5, KeptLive, OpsLiveBefore DEF CreateActive
  <1>6. CASE CreateDraft(s, m, sp)
    <2>1. /\ CreatePendingAction(action, s, 1, m)
          /\ grant' = [grant EXCEPT ![s] = [grant[s] EXCEPT ![1] = NewGrant("pending", sp, 0)]]
      BY <1>6 DEF CreateDraft
    <2>2. NewGrant("pending", sp, 0).status = "pending"
      BY DEF NewGrant
    <2>3. grant'[s][1].status = "pending"
      BY <1>1, <2>1, <2>2, Bounds DEF TypeOK
    <2>4. QED
      BY <1>1, <1>4, <2>1, <2>3, CreateLive, NewLive, OpsLiveBefore
  <1>7. QED
    BY <1>5, <1>6

LEMMA UpdateOneLive ==
    ASSUME TypeOK, OneLiveAnswer,
           NEW s \in Schedules, NEW m \in Messages, NEW sp \in Specs,
           UpdateImmediately(s, m, sp) \/ ProposeUpdate(s, m, sp)
    PROVE  OneLiveAnswer'
  <1> DEFINE n == NextRevision(s)
             acts == Supersede(action, s)
             revised(st, g) == [Revoke(grant[s], st) EXCEPT ![n] = g]
  <1>1. /\ ActionTable(acts) /\ LiveBefore(acts) /\ n \in Revisions
        /\ \A a \in ActionIds : Live(acts[a]) => action[a].schedule # s
        /\ grant[s] \in [Revisions -> GrantRow]
    BY RowTypes, CloseTables, OpsLiveBefore
       DEF UpdateImmediately, ProposeUpdate, RevisionFree
  <1>2. ASSUME NEW grants, grant' = [grant EXCEPT ![s] = grants],
               \A a \in ActionIds : Live(action'[a]) =>
                    \/ action'[a] = acts[a]
                    \/ /\ action'[a].schedule = s
                       /\ grant'[s][action'[a].revision].status = "pending"
        PROVE  KeptClosed
    <2> SUFFICES ASSUME NEW a \in ActionIds, Live(action'[a]), action'[a] = action[a]
                 PROVE  grant'[action[a].schedule][action[a].revision].status
                            \in {"pending", "revoked"}
      BY DEF KeptClosed
    <2>1. /\ action[a].schedule \in Schedules
          /\ grant[action[a].schedule][action[a].revision].status \in {"pending", "revoked"}
      BY RowTypes DEF OneLiveAnswer, Live, Pending
    <2>2. QED
      BY <1>1, <1>2, <2>1 DEF TypeOK
  <1>3. CASE UpdateImmediately(s, m, sp)
    <2>1. /\ action' = acts
          /\ grant' = [grant EXCEPT ![s] =
                            revised({"pending", "active"}, NewGrant("active", sp, m))]
      BY <1>3 DEF UpdateImmediately
    <2> HIDE DEF revised, acts
    <2>2. QED
      BY <1>1, <1>2, <2>1, KeptLive
  <1>4. CASE ProposeUpdate(s, m, sp)
    <2> DEFINE g == NewGrant("pending", sp, 0)
    <2>1. /\ CreatePendingAction(acts, s, n, m)
          /\ grant' = [grant EXCEPT ![s] = revised({"pending"}, g)]
      BY <1>4 DEF ProposeUpdate
    <2>2. g.status = "pending"
      BY DEF NewGrant
    <2>3. revised({"pending"}, g)[n] = g
      BY <1>1, RevokeType
    <2>4. grant'[s][n].status = "pending"
      BY <2>1, <2>2, <2>3 DEF TypeOK
    <2> HIDE DEF revised, acts, n, g
    <2>5. /\ NewAnswer(s, n)
          /\ \A a \in ActionIds : action'[a] = acts[a] \/ For(action'[a], s, n)
      BY <1>1, <2>1, CreateLive
    <2>6. KeptClosed
      BY <1>2, <2>1, <2>4, <2>5 DEF For
    <2>7. QED
      BY <2>4, <2>5, <2>6, NewLive
  <1>5. QED
    BY <1>3, <1>4

(* An answer closes the only live action of its version, and touches the   *)
(* grants of no version that keeps one.                                    *)
LEMMA AnswerOneLive ==
    ASSUME TypeOK, Authority, OneLiveAnswer, NEW a \in ActionIds, NEW m \in Messages,
           \/ ConfirmActivates(a, m) \/ ConfirmTooLate(a, m)
           \/ ConfirmRefused(a, m) \/ Cancel(a, m)
    PROVE  OneLiveAnswer'
  <1> DEFINE s == action[a].schedule
             r == action[a].revision
  <1>1. PICK st \in {"executed", "failed", "cancelled"} :
            Live(action[a]) /\ action' = Close(a, st)
    BY DEF ConfirmActivates, ConfirmTooLate, ConfirmRefused, Cancel, Accepted
  <1>2. LiveBefore(action') /\ ~Live(action'[a])
    BY <1>1, OpsLiveBefore
  <1>3. /\ s \in Schedules /\ r \in Revisions
        /\ grant[s] \in [Revisions -> GrantRow] /\ grant[s][r] \in GrantRow
        /\ grant[s][r].status \in {"pending", "revoked"}
    BY <1>1, Answered DEF Live, Pending, OneLiveAnswer
  <1>4. \A q \in Revisions \ {r} : grant[s][q].status \in {"pending", "revoked"} =>
                grant'[s][q].status \in {"pending", "revoked"}
    <2>1. CASE ConfirmActivates(a, m)
      <3> DEFINE kept == IF IsUpdate(s, r) THEN Revoke(grant[s], {"active"}) ELSE grant[s]
                 g == [status |-> "active", spec |-> grant[s][r].spec, by |-> m]
      <3>1. grant' = [grant EXCEPT ![s] = [kept EXCEPT ![r] = g]]
        BY <2>1 DEF ConfirmActivates
      <3>2. /\ kept \in [Revisions -> GrantRow]
            /\ \A q \in Revisions : grant[s][q].status \in {"pending", "revoked"} =>
                    kept[q].status \in {"pending", "revoked"}
        BY <1>3, RevokeType, RevokeFields
      <3> HIDE DEF kept, g
      <3>3. \A q \in Revisions \ {r} : grant'[s][q] = kept[q]
        BY <1>3, <3>1, <3>2 DEF TypeOK
      <3>4. QED
        BY <3>2, <3>3
    <2>2. CASE ConfirmTooLate(a, m) \/ Cancel(a, m)
      <3>1. PICK g : grant' = [grant EXCEPT ![s] = [grant[s] EXCEPT ![r] = g]]
        BY <2>2 DEF ConfirmTooLate, Cancel
      <3>2. \A q \in Revisions \ {r} : grant'[s][q] = grant[s][q]
        BY <1>3, <3>1 DEF TypeOK
      <3>3. QED
        BY <3>2
    <2>3. CASE ConfirmRefused(a, m)
      BY <2>3 DEF ConfirmRefused
    <2>4. QED
      BY <2>1, <2>2, <2>3
  <1>5. \A t \in Schedules \ {s} : grant'[t] = grant[t]
    BY <1>3 DEF ConfirmActivates, ConfirmTooLate, ConfirmRefused, Cancel, TypeOK
  <1> HIDE DEF s, r
  <1>6. KeptClosed
    <2> SUFFICES ASSUME NEW b \in ActionIds, Live(action'[b]), action'[b] = action[b]
                 PROVE  grant'[action[b].schedule][action[b].revision].status
                            \in {"pending", "revoked"}
      BY DEF KeptClosed
    <2>1. /\ action[b].schedule \in Schedules /\ action[b].revision \in Revisions
          /\ grant[action[b].schedule][action[b].revision].status \in {"pending", "revoked"}
      BY RowTypes DEF OneLiveAnswer, Live, Pending
    <2>2. b # a /\ ~SameVersion(action[a], action[b])
      BY <1>1, <1>2 DEF OneLiveAnswer
    <2>3. QED
      BY <1>4, <1>5, <2>1, <2>2 DEF SameVersion, s, r
  <1>7. QED
    BY <1>2, <1>6, KeptLive

LEMMA OneLiveStep ==
    ASSUME TypeOK, Authority, OneLiveAnswer, [Next]_vars
    PROVE  OneLiveAnswer'
  <1>1. UNCHANGED grant => KeptClosed
    BY DEF KeptClosed, OneLiveAnswer
  <1>2. ASSUME UNCHANGED <<grant, action>> PROVE OneLiveAnswer'
    BY <1>1, <1>2, OpsLiveBefore, KeptLive
  <1>3. ASSUME NEW a \in ActionIds, NEW m \in Messages, Renew(a, m)
        PROVE  OneLiveAnswer'
    <2> DEFINE s == action[a].schedule
               r == action[a].revision
    <2>1. /\ CreatePendingAction(MarkLapsed(action), s, r, m) /\ UNCHANGED grant
          /\ grant[s][r].status = "pending"
      BY <1>3 DEF Renew
    <2>2. ActionTable(MarkLapsed(action)) /\ LiveBefore(MarkLapsed(action))
      BY RowTypes, CloseTables, OpsLiveBefore
    <2> HIDE DEF s, r
    <2>3. NewAnswer(s, r)
      BY <2>1, <2>2, CreateLive
    <2>4. QED
      BY <1>1, <2>1, <2>3, NewLive
  <1>4. ASSUME NoticeLapsed PROVE OneLiveAnswer'
    BY <1>1, <1>4, OpsLiveBefore, KeptLive DEF NoticeLapsed
  <1>5. ASSUME NEW a \in ActionIds, ReconcileLapsed(a) \/ Lapse(a)
        PROVE  OneLiveAnswer'
    <2>1. LiveBefore(action') /\ UNCHANGED grant
      BY <1>5 DEF ReconcileLapsed, Lapse, LiveBefore, Live, Pending, TypeOK, ActionRow
    <2>2. QED
      BY <1>1, <2>1, KeptLive
  <1>6. ASSUME NEW s \in Schedules, Delete(s) \/ ExpireDraft(s)
        PROVE  OneLiveAnswer'
    <2>1. LiveBefore(action')
      BY <1>6, OpsLiveBefore DEF Delete, ExpireDraft
    <2>2. PICK st : grant' = [grant EXCEPT ![s] = Revoke(grant[s], st)]
      BY <1>6 DEF Delete, ExpireDraft
    <2>3. \A q \in Revisions : grant[s][q].status \in {"pending", "revoked"} =>
                grant'[s][q].status \in {"pending", "revoked"}
      <3>1. grant'[s] = Revoke(grant[s], st)
        BY <2>2 DEF TypeOK
      <3>2. QED
        BY <3>1, RowTypes, RevokeFields
    <2>4. \A t \in Schedules \ {s} : grant'[t] = grant[t]
      BY <2>2 DEF TypeOK
    <2>5. KeptClosed
      BY <2>3, <2>4, RowTypes DEF KeptClosed, OneLiveAnswer, Live, Pending
    <2>6. QED
      BY <2>1, <2>5, KeptLive
  <1>7. ASSUME NEW s \in Schedules,
               \/ Pause(s) \/ Resume(s) \/ RunNow(s) \/ FlagNeedsAttention(s)
               \/ \E following \in BOOLEAN : Dispatch(s, following)
        PROVE  OneLiveAnswer'
    BY <1>2, <1>7 DEF Pause, Resume, RunNow, FlagNeedsAttention, Dispatch
  <1>8. ASSUME (\E sp \in Specs : TimePasses(sp)) \/ UNCHANGED vars
        PROVE  OneLiveAnswer'
    BY <1>2, <1>8 DEF TimePasses, vars
  <1>9. QED
    BY <1>3, <1>4, <1>5, <1>6, <1>7, <1>8, CreateOneLive, UpdateOneLive, AnswerOneLive
       DEF Next, UserStep, WorkerStep, ClockStep

-----------------------------------------------------------------------------
(* What a step shows of the one routine it writes.                         *)

InForceNow(row, grants) ==
    row.revision \in Revisions /\ grants[row.revision].status = "active"

(* A row of the contract that shows a row of the lifecycle.                *)
Shows(view, row, grants) ==
    /\ view \in RC!RoutineRow
    /\ view.status = row.status /\ view.revision = row.revision
    /\ view.authorised <=> InForceNow(row, grants)
    /\ view.due = row.scheduled /\ view.ran = row.ran

LEMMA SameView ==
    ASSUME NEW row, NEW grants, NEW x, NEW y, Shows(x, row, grants), Shows(y, row, grants)
    PROVE  x = y
  BY DEF Shows, RC!RoutineRow

LEMMA ShownRows == TypeOK => \A s \in Schedules : Shows(Shown[s], schedule[s], grant[s])
  <1> SUFFICES ASSUME TypeOK, NEW s \in Schedules
               PROVE  Shows(Shown[s], schedule[s], grant[s])
    OBVIOUS
  <1>1. schedule[s] \in ScheduleRow
    BY RowTypes
  <1>2. ActiveGrant(s) \in BOOLEAN
    BY DEF ActiveGrant
  <1>3. Shown[s] = [status |-> schedule[s].status, revision |-> schedule[s].revision,
                    authorised |-> ActiveGrant(s), due |-> schedule[s].scheduled,
                    ran |-> schedule[s].ran]
    BY DEF Shown
  <1>4. Shown[s] \in RC!RoutineRow
    BY <1>1, <1>2, <1>3 DEF RC!RoutineRow, ScheduleRow, Statuses
  <1>5. Shown[s].authorised <=> InForceNow(schedule[s], grant[s])
    BY <1>3 DEF InForceNow, ActiveGrant
  <1>6. QED
    BY <1>3, <1>4, <1>5 DEF Shows

LEMMA ShownRowsAfter ==
    (TypeOK => \A s \in Schedules : Shows(Shown[s], schedule[s], grant[s]))'
  BY ShownRows, PTL

(* Only the rows of schedule s are written.                                *)
OnlyOne(s) == \A t \in Schedules \ {s} : schedule'[t] = schedule[t] /\ grant'[t] = grant[t]

LEMMA ShownStep ==
    ASSUME TypeOK, TypeOK', NEW s \in Schedules, OnlyOne(s),
           NEW view, Shows(view, schedule'[s], grant'[s])
    PROVE  Shown' = [Shown EXCEPT ![s] = view]
  <1>1. Shown' = [t \in Schedules |-> Shown'[t]]
    BY DEF Shown
  <1>2. /\ Shown = [t \in Schedules |-> Shown[t]]
        /\ \A t \in Schedules : Shows(Shown[t], schedule[t], grant[t])
    BY ShownRows DEF Shown
  <1>3. \A t \in Schedules : Shows(Shown'[t], schedule'[t], grant'[t])
    BY ShownRowsAfter DEF Shows
  <1> HIDE DEF Shown
  <1>4. Shown'[s] = view
    BY <1>3, SameView
  <1>5. \A t \in Schedules \ {s} : Shown'[t] = Shown[t]
    BY <1>2, <1>3, SameView DEF OnlyOne
  <1>6. QED
    BY <1>1, <1>2, <1>4, <1>5

(* A step that leaves what the contract shows of s.                        *)
LEMMA LooksTheSame ==
    ASSUME TypeOK, TypeOK', NEW s \in Schedules, OnlyOne(s),
           schedule'[s].status = schedule[s].status,
           schedule'[s].revision = schedule[s].revision,
           schedule'[s].scheduled = schedule[s].scheduled,
           schedule'[s].ran = schedule[s].ran,
           InForceNow(schedule'[s], grant'[s]) <=> InForceNow(schedule[s], grant[s])
    PROVE  UNCHANGED Shown
  <1>1. Shows(Shown[s], schedule'[s], grant'[s])
    BY ShownRows DEF Shows
  <1>2. Shown' = [Shown EXCEPT ![s] = Shown[s]]
    BY <1>1, ShownStep
  <1>3. Shown = [t \in Schedules |-> Shown[t]]
    BY DEF Shown
  <1> HIDE DEF Shown
  <1>4. QED
    BY <1>2, <1>3

(* The steps of the contract, from what a step leaves of the row and its   *)
(* grants.                                                                 *)
LEMMA LooksPublished ==
    ASSUME TypeOK, TypeOK', NEW s \in Schedules, OnlyOne(s), NEW r \in Revisions,
           \/ r > schedule[s].revision
           \/ r = schedule[s].revision /\ schedule[s].status = "awaiting_confirmation",
           schedule'[s].status = "active", schedule'[s].revision = r,
           schedule'[s].scheduled = TRUE, schedule'[s].ran = schedule[s].ran,
           InForceNow(schedule'[s], grant'[s])
    PROVE  RC!UserChange(s)
  <1> DEFINE view == [Shown[s] EXCEPT !.status = "active", !.revision = r,
                                      !.authorised = TRUE, !.due = TRUE]
  <1>1. Shows(Shown[s], schedule[s], grant[s])
    BY ShownRows
  <1> HIDE DEF Shown
  <1>2. Shows(view, schedule'[s], grant'[s])
    <2>1. /\ view \in RC!RoutineRow
          /\ view.status = "active" /\ view.revision = r
          /\ view.authorised = TRUE /\ view.due = TRUE
          /\ view.ran = Shown[s].ran
      BY <1>1, Bounds DEF Shows, RC!RoutineRow, Statuses
    <2> HIDE DEF view
    <2>2. QED
      BY <1>1, <2>1 DEF Shows
  <1>3. Shown' = [Shown EXCEPT ![s] = view]
    BY <1>2, ShownStep
  <1>4. RC!Publish(s, r)
    BY <1>1, <1>3 DEF RC!Publish, Shows
  <1>5. QED
    BY <1>4 DEF RC!UserChange, Revisions

LEMMA LooksDrafted ==
    ASSUME TypeOK, TypeOK', NEW s \in Schedules, OnlyOne(s),
           schedule[s].status = "none",
           schedule'[s].status = "awaiting_confirmation", schedule'[s].revision = 1,
           schedule'[s].scheduled = TRUE, schedule'[s].ran = schedule[s].ran,
           InForceNow(schedule'[s], grant'[s]) <=> InForceNow(schedule[s], grant[s])
    PROVE  RC!UserChange(s)
  <1> DEFINE view == [Shown[s] EXCEPT !.status = "awaiting_confirmation",
                                      !.revision = 1, !.due = TRUE]
  <1>1. Shows(Shown[s], schedule[s], grant[s])
    BY ShownRows
  <1> HIDE DEF Shown
  <1>2. Shows(view, schedule'[s], grant'[s])
    <2>1. /\ view \in RC!RoutineRow
          /\ view.status = "awaiting_confirmation" /\ view.revision = 1
          /\ view.authorised = Shown[s].authorised /\ view.due = TRUE
          /\ view.ran = Shown[s].ran
      BY <1>1, Bounds DEF Shows, RC!RoutineRow, Statuses
    <2> HIDE DEF view
    <2>2. QED
      BY <1>1, <2>1 DEF Shows
  <1>3. Shown' = [Shown EXCEPT ![s] = view]
    BY <1>2, ShownStep
  <1>4. RC!Draft(s)
    BY <1>1, <1>3 DEF RC!Draft, Shows
  <1>5. QED
    BY <1>4 DEF RC!UserChange

LEMMA LooksDropped ==
    ASSUME TypeOK, TypeOK', NEW s \in Schedules, OnlyOne(s),
           schedule[s].status = "awaiting_confirmation",
           schedule'[s].status \in {"expired", "deleted"},
           schedule'[s].revision = schedule[s].revision,
           schedule'[s].scheduled = FALSE, schedule'[s].ran = schedule[s].ran,
           InForceNow(schedule'[s], grant'[s]) <=> InForceNow(schedule[s], grant[s])
    PROVE  RC!UserChange(s)
  <1> DEFINE st == schedule'[s].status
             view == [Shown[s] EXCEPT !.status = st, !.due = FALSE]
  <1>1. Shows(Shown[s], schedule[s], grant[s])
    BY ShownRows
  <1> HIDE DEF Shown
  <1>2. Shows(view, schedule'[s], grant'[s])
    <2>1. /\ view \in RC!RoutineRow
          /\ view.status = st /\ view.revision = Shown[s].revision
          /\ view.authorised = Shown[s].authorised /\ view.due = FALSE
          /\ view.ran = Shown[s].ran
      BY <1>1, Bounds DEF Shows, RC!RoutineRow, Statuses
    <2> HIDE DEF view
    <2>2. QED
      BY <1>1, <2>1 DEF Shows
  <1>3. Shown' = [Shown EXCEPT ![s] = view]
    BY <1>2, ShownStep
  <1>4. RC!DropDraft(s)
    BY <1>1, <1>3 DEF RC!DropDraft, Shows
  <1>5. QED
    BY <1>4 DEF RC!UserChange

LEMMA LooksPaused ==
    ASSUME TypeOK, TypeOK', NEW s \in Schedules, OnlyOne(s),
           schedule[s].status = "active", schedule'[s].status = "paused",
           schedule'[s].revision = schedule[s].revision,
           schedule'[s].scheduled = schedule[s].scheduled,
           schedule'[s].ran = schedule[s].ran,
           InForceNow(schedule'[s], grant'[s]) <=> InForceNow(schedule[s], grant[s])
    PROVE  RC!UserChange(s)
  <1> DEFINE view == [Shown[s] EXCEPT !.status = "paused"]
  <1>1. Shows(Shown[s], schedule[s], grant[s])
    BY ShownRows
  <1> HIDE DEF Shown
  <1>2. Shows(view, schedule'[s], grant'[s])
    <2>1. /\ view \in RC!RoutineRow
          /\ view.status = "paused" /\ view.revision = Shown[s].revision
          /\ view.authorised = Shown[s].authorised /\ view.due = Shown[s].due
          /\ view.ran = Shown[s].ran
      BY <1>1, Bounds DEF Shows, RC!RoutineRow, Statuses
    <2> HIDE DEF view
    <2>2. QED
      BY <1>1, <2>1 DEF Shows
  <1>3. Shown' = [Shown EXCEPT ![s] = view]
    BY <1>2, ShownStep
  <1>4. RC!Pause(s)
    BY <1>1, <1>3 DEF RC!Pause, Shows
  <1>5. QED
    BY <1>4 DEF RC!UserChange

LEMMA LooksResumed ==
    ASSUME TypeOK, TypeOK', NEW s \in Schedules, OnlyOne(s), NEW goesOn \in BOOLEAN,
           InForceNow(schedule[s], grant[s]),
           schedule'[s].status = IF goesOn THEN "active" ELSE "completed",
           schedule'[s].revision = schedule[s].revision,
           schedule'[s].scheduled = goesOn, schedule'[s].ran = schedule[s].ran,
           InForceNow(schedule'[s], grant'[s])
    PROVE  RC!UserChange(s)
  <1> DEFINE st == IF goesOn THEN "active" ELSE "completed"
             view == [Shown[s] EXCEPT !.due = goesOn, !.status = st]
  <1>1. Shows(Shown[s], schedule[s], grant[s])
    BY ShownRows
  <1> HIDE DEF Shown
  <1>2. Shows(view, schedule'[s], grant'[s])
    <2>1. st \in Statuses
      BY DEF Statuses
    <2> HIDE DEF st
    <2>2. /\ view \in RC!RoutineRow /\ view.status = st /\ view.due = goesOn
          /\ view.revision = Shown[s].revision /\ view.ran = Shown[s].ran
          /\ view.authorised = Shown[s].authorised
      BY <1>1, <2>1 DEF Shows, RC!RoutineRow, Statuses
    <2> HIDE DEF view
    <2>3. QED
      BY <1>1, <2>2 DEF Shows, st
  <1>3. Shown' = [Shown EXCEPT ![s] = view]
    BY <1>2, ShownStep
  <1>4. RC!Resume(s)
    BY <1>1, <1>3 DEF RC!Resume, Shows
  <1>5. QED
    BY <1>4 DEF RC!UserChange

LEMMA LooksDeleted ==
    ASSUME TypeOK, TypeOK', NEW s \in Schedules, OnlyOne(s),
           schedule[s].status # "none", schedule'[s].status = "deleted",
           schedule'[s].revision = schedule[s].revision,
           schedule'[s].scheduled = FALSE, schedule'[s].ran = schedule[s].ran,
           ~InForceNow(schedule'[s], grant'[s])
    PROVE  RC!UserChange(s)
  <1> DEFINE view == [Shown[s] EXCEPT !.status = "deleted", !.authorised = FALSE,
                                      !.due = FALSE]
  <1>1. Shows(Shown[s], schedule[s], grant[s])
    BY ShownRows
  <1> HIDE DEF Shown
  <1>2. Shows(view, schedule'[s], grant'[s])
    <2>1. /\ view \in RC!RoutineRow
          /\ view.status = "deleted" /\ view.revision = Shown[s].revision
          /\ view.authorised = FALSE /\ view.due = FALSE
          /\ view.ran = Shown[s].ran
      BY <1>1, Bounds DEF Shows, RC!RoutineRow, Statuses
    <2> HIDE DEF view
    <2>2. QED
      BY <1>1, <2>1 DEF Shows
  <1>3. Shown' = [Shown EXCEPT ![s] = view]
    BY <1>2, ShownStep
  <1>4. RC!Delete(s)
    BY <1>1, <1>3 DEF RC!Delete, Shows
  <1>5. QED
    BY <1>4 DEF RC!UserChange

LEMMA LooksRunNow ==
    ASSUME TypeOK, TypeOK', NEW s \in Schedules, OnlyOne(s),
           schedule[s].status \in {"active", "paused"}, InForceNow(schedule[s], grant[s]),
           schedule'[s].status = schedule[s].status,
           schedule'[s].revision = schedule[s].revision,
           schedule'[s].scheduled = schedule[s].scheduled, schedule'[s].ran = TRUE,
           InForceNow(schedule'[s], grant'[s])
    PROVE  RC!RunNow(s)
  <1> DEFINE view == [Shown[s] EXCEPT !.ran = TRUE]
  <1>1. Shows(Shown[s], schedule[s], grant[s])
    BY ShownRows
  <1> HIDE DEF Shown
  <1>2. Shows(view, schedule'[s], grant'[s])
    <2>1. /\ view \in RC!RoutineRow
          /\ view.status = Shown[s].status /\ view.revision = Shown[s].revision
          /\ view.authorised = Shown[s].authorised /\ view.due = Shown[s].due
          /\ view.ran = TRUE
      BY <1>1, Bounds DEF Shows, RC!RoutineRow, Statuses
    <2> HIDE DEF view
    <2>2. QED
      BY <1>1, <2>1 DEF Shows
  <1>3. Shown' = [Shown EXCEPT ![s] = view]
    BY <1>2, ShownStep
  <1>4. QED
    BY <1>1, <1>3 DEF RC!RunNow, Shows

LEMMA LooksDispatched ==
    ASSUME TypeOK, TypeOK', NEW s \in Schedules, OnlyOne(s), NEW following \in BOOLEAN,
           schedule[s].status = "active", schedule[s].scheduled,
           schedule'[s].status = IF following THEN "active" ELSE "completed",
           schedule'[s].revision = schedule[s].revision,
           schedule'[s].scheduled = following, schedule'[s].ran = TRUE,
           InForceNow(schedule'[s], grant'[s]) <=> InForceNow(schedule[s], grant[s])
    PROVE  RC!Dispatch(s)
  <1> DEFINE st == IF following THEN "active" ELSE "completed"
             view == [Shown[s] EXCEPT !.ran = TRUE, !.due = following, !.status = st]
  <1>1. Shows(Shown[s], schedule[s], grant[s])
    BY ShownRows
  <1> HIDE DEF Shown
  <1>2. Shows(view, schedule'[s], grant'[s])
    <2>1. st \in Statuses
      BY DEF Statuses
    <2> HIDE DEF st
    <2>2. /\ view \in RC!RoutineRow /\ view.status = st /\ view.due = following
          /\ view.revision = Shown[s].revision /\ view.ran = TRUE
          /\ view.authorised = Shown[s].authorised
      BY <1>1, <2>1 DEF Shows, RC!RoutineRow, Statuses
    <2> HIDE DEF view
    <2>3. QED
      BY <1>1, <2>2 DEF Shows, st
  <1>3. Shown' = [Shown EXCEPT ![s] = view]
    BY <1>2, ShownStep
  <1>4. QED
    BY <1>1, <1>3 DEF RC!Dispatch, Shows

LEMMA LooksFlagged ==
    ASSUME TypeOK, TypeOK', NEW s \in Schedules, OnlyOne(s),
           schedule[s].ran, schedule'[s].status = "needs_attention",
           schedule'[s].revision = schedule[s].revision,
           schedule'[s].scheduled = schedule[s].scheduled,
           schedule'[s].ran = schedule[s].ran,
           InForceNow(schedule'[s], grant'[s]) <=> InForceNow(schedule[s], grant[s])
    PROVE  RC!Flag(s)
  <1> DEFINE view == [Shown[s] EXCEPT !.status = "needs_attention"]
  <1>1. Shows(Shown[s], schedule[s], grant[s])
    BY ShownRows
  <1> HIDE DEF Shown
  <1>2. Shows(view, schedule'[s], grant'[s])
    <2>1. /\ view \in RC!RoutineRow
          /\ view.status = "needs_attention" /\ view.revision = Shown[s].revision
          /\ view.authorised = Shown[s].authorised /\ view.due = Shown[s].due
          /\ view.ran = Shown[s].ran
      BY <1>1, Bounds DEF Shows, RC!RoutineRow, Statuses
    <2> HIDE DEF view
    <2>2. QED
      BY <1>1, <2>1 DEF Shows
  <1>3. Shown' = [Shown EXCEPT ![s] = view]
    BY <1>2, ShownStep
  <1>4. QED
    BY <1>1, <1>3 DEF RC!Flag, Shows

-----------------------------------------------------------------------------
(* Every action of the lifecycle is such a step, or is not seen.           *)

ContractStep(s) == RC!UserChange(s) \/ RC!RunNow(s) \/ RC!Dispatch(s) \/ RC!Flag(s)

LEMMA Written ==
    ASSUME TypeOK, NEW s \in Schedules, NEW row, NEW grants,
           schedule' = [schedule EXCEPT ![s] = row],
           grant' = [grant EXCEPT ![s] = grants]
    PROVE  OnlyOne(s) /\ schedule'[s] = row /\ grant'[s] = grants
  BY DEF TypeOK, OnlyOne

LEMMA RowWritten ==
    ASSUME TypeOK, NEW s \in Schedules, NEW row,
           schedule' = [schedule EXCEPT ![s] = row], UNCHANGED grant
    PROVE  OnlyOne(s) /\ schedule'[s] = row /\ grant'[s] = grant[s]
  BY DEF TypeOK, OnlyOne

LEMMA CreateKeepsContract ==
    ASSUME TypeOK, TypeOK', Authority,
           NEW s \in Schedules, NEW m \in Messages, NEW sp \in Specs,
           CreateActive(s, m, sp) \/ CreateDraft(s, m, sp)
    PROVE  ContractStep(s)
  <1> DEFINE row(st) == [NoSchedule EXCEPT !.status = st, !.revision = 1,
                                           !.spec = sp, !.scheduled = TRUE]
             grants(g) == [grant[s] EXCEPT ![1] = g]
  <1>1. /\ schedule[s] = NoSchedule /\ grant[s] \in [Revisions -> GrantRow]
        /\ schedule[s].status = "none"
    BY RowTypes DEF CreateActive, CreateDraft, Stored, Authority, Sound, Unused
  <1>2. /\ schedule[s].revision = 0 /\ schedule[s].ran = FALSE
        /\ ~InForceNow(schedule[s], grant[s])
    BY <1>1 DEF NoSchedule, InForceNow, Revisions
  <1>3. \A st : /\ row(st).status = st /\ row(st).ran = FALSE /\ row(st).revision = 1
                /\ row(st).scheduled = TRUE
    BY DEF NoSchedule
  <1>4. \A g : grants(g)[1] = g
    BY <1>1, Bounds
  <1>5. CASE CreateActive(s, m, sp)
    <2> DEFINE g == NewGrant("active", sp, m)
    <2>1. schedule' = [schedule EXCEPT ![s] = row("active")]
      BY <1>5 DEF CreateActive
    <2>2. grant' = [grant EXCEPT ![s] = grants(g)]
      BY <1>5 DEF CreateActive
    <2>3. grants(g)[1].status = "active"
      BY <1>4 DEF NewGrant
    <2> HIDE DEF row, grants, g
    <2>4. OnlyOne(s) /\ schedule'[s] = row("active") /\ grant'[s] = grants(g)
      BY <2>1, <2>2, Written
    <2>5. InForceNow(schedule'[s], grant'[s])
      BY <1>3, <2>3, <2>4, Bounds DEF InForceNow
    <2>6. QED
      <3>1. /\ row("active").status = "active" /\ row("active").revision = 1
            /\ row("active").scheduled = TRUE /\ row("active").ran = FALSE
        BY <1>3
      <3>2. 1 > schedule[s].revision
        BY <1>2
      <3>3. QED
        BY <1>2, <2>4, <2>5, <3>1, <3>2, Bounds, LooksPublished DEF ContractStep
  <1>6. CASE CreateDraft(s, m, sp)
    <2> DEFINE g == NewGrant("pending", sp, 0)
               new == row("awaiting_confirmation")
    <2>1. schedule' = [schedule EXCEPT ![s] = new]
      BY <1>6 DEF CreateDraft
    <2>2. grant' = [grant EXCEPT ![s] = grants(g)]
      BY <1>6 DEF CreateDraft
    <2>3. grants(g)[1].status = "pending"
      BY <1>4 DEF NewGrant
    <2>4. /\ new.status = "awaiting_confirmation" /\ new.ran = FALSE
          /\ new.revision = 1 /\ new.scheduled = TRUE
      BY <1>3
    <2> HIDE DEF new, grants, g
    <2>5. OnlyOne(s) /\ schedule'[s] = new /\ grant'[s] = grants(g)
      BY <2>1, <2>2, Written
    <2>6. ~InForceNow(schedule'[s], grant'[s])
      BY <2>3, <2>4, <2>5 DEF InForceNow
    <2>7. QED
      BY <1>1, <1>2, <2>4, <2>5, <2>6, LooksDrafted DEF ContractStep
  <1>7. QED
    BY <1>5, <1>6

LEMMA UpdateKeepsContract ==
    ASSUME TypeOK, TypeOK', Authority,
           NEW s \in Schedules, NEW m \in Messages, NEW sp \in Specs,
           UpdateImmediately(s, m, sp) \/ ProposeUpdate(s, m, sp)
    PROVE  ContractStep(s) \/ UNCHANGED Shown
  <1> DEFINE old == schedule[s]
             n == NextRevision(s)
             active == [ClearPendingUpdate(old) EXCEPT !.status = "active",
                            !.spec = sp, !.revision = n, !.scheduled = TRUE]
             proposed == [old EXCEPT !.pendingRevision = n, !.pendingSpec = sp]
             grants(st, g) == [Revoke(grant[s], st) EXCEPT ![n] = g]
  <1>1. /\ n \in Revisions /\ n > old.revision
        /\ old \in ScheduleRow /\ grant[s] \in [Revisions -> GrantRow]
    BY RowTypes DEF UpdateImmediately, ProposeUpdate, RevisionFree, NextRevision,
                    AnyPrevious, ScheduleRow
  <1>2. /\ active.status = "active" /\ active.revision = n
        /\ active.scheduled = TRUE /\ active.ran = old.ran
        /\ proposed.status = old.status /\ proposed.revision = old.revision
        /\ proposed.scheduled = old.scheduled /\ proposed.ran = old.ran
    BY <1>1, ClearFields DEF ScheduleRow
  <1>3. ASSUME NEW st, NEW g
        PROVE  /\ grants(st, g)[n] = g
               /\ \A r \in Revisions \ {n} : grants(st, g)[r].status =
                        IF grant[s][r].status \in st THEN "revoked" ELSE grant[s][r].status
    BY <1>1, RevokeType, RevokeFields
  <1>4. CASE UpdateImmediately(s, m, sp)
    <2> DEFINE g == NewGrant("active", sp, m)
               after == grants({"pending", "active"}, g)
    <2>1. schedule' = [schedule EXCEPT ![s] = active]
      BY <1>4 DEF UpdateImmediately
    <2>2. grant' = [grant EXCEPT ![s] = after]
      BY <1>4 DEF UpdateImmediately
    <2>3. after[n].status = "active"
      <3>1. g.status = "active"
        BY DEF NewGrant
      <3> HIDE DEF grants, g, n
      <3>2. QED
        BY <1>3, <3>1
    <2> HIDE DEF active, after, n
    <2>4. OnlyOne(s) /\ schedule'[s] = active /\ grant'[s] = after
      BY <2>1, <2>2, Written
    <2>5. InForceNow(schedule'[s], grant'[s])
      BY <1>1, <1>2, <2>3, <2>4 DEF InForceNow
    <2>6. QED
      BY <1>1, <1>2, <2>4, <2>5, LooksPublished DEF ContractStep
  <1>5. CASE ProposeUpdate(s, m, sp)
    <2> DEFINE g == NewGrant("pending", sp, 0)
               after == grants({"pending"}, g)
    <2>1. schedule' = [schedule EXCEPT ![s] = proposed]
      BY <1>5 DEF ProposeUpdate
    <2>2. grant' = [grant EXCEPT ![s] = after]
      BY <1>5 DEF ProposeUpdate
    <2>3. \A r \in Revisions \ {n} :
              after[r].status = "active" <=> grant[s][r].status = "active"
      <3> HIDE DEF grants, g, n
      <3> QED BY <1>3
    <2> HIDE DEF proposed, after, n
    <2>4. OnlyOne(s) /\ schedule'[s] = proposed /\ grant'[s] = after
      BY <2>1, <2>2, Written
    <2>5. InForceNow(schedule'[s], grant'[s]) <=> InForceNow(old, grant[s])
      BY <1>1, <1>2, <2>3, <2>4 DEF InForceNow, ScheduleRow
    <2>6. QED
      BY <1>2, <2>4, <2>5, LooksTheSame
  <1>6. QED
    BY <1>4, <1>5

LEMMA ConfirmKeepsContract ==
    ASSUME TypeOK, TypeOK', Authority, PendingAhead,
           NEW a \in ActionIds, NEW m \in Messages, ConfirmActivates(a, m)
    PROVE  ContractStep(action[a].schedule)
  <1> DEFINE s == action[a].schedule
             r == action[a].revision
             old == schedule[s]
             base == IF IsUpdate(s, r) THEN ClearPendingUpdate(old) ELSE old
             new == [base EXCEPT !.status = "active", !.revision = r,
                            !.spec = VersionSpec(s, r), !.scheduled = TRUE]
             kept == IF IsUpdate(s, r) THEN Revoke(grant[s], {"active"}) ELSE grant[s]
             g == [status |-> "active", spec |-> grant[s][r].spec, by |-> m]
             after == [kept EXCEPT ![r] = g]
  <1>1. /\ s \in Schedules /\ r \in Revisions
        /\ old \in ScheduleRow /\ grant[s] \in [Revisions -> GrantRow]
        /\ Sound(old, grant[s]) /\ grant[s][r].status = "pending"
        /\ IsUpdate(s, r) \/ old.revision = r
    BY Answered DEF ConfirmActivates, Accepted, Live, Pending, Confirmable
  <1>2. schedule' = [schedule EXCEPT ![s] = new] /\ grant' = [grant EXCEPT ![s] = after]
    BY DEF ConfirmActivates
  <1>3. base \in ScheduleRow /\ base.ran = old.ran
    BY <1>1, ClearFields
  <1>4. /\ new.status = "active" /\ new.revision = r /\ new.scheduled = TRUE
        /\ new.ran = old.ran
    <2> HIDE DEF base
    <2> QED BY <1>3 DEF ScheduleRow
  <1>5. kept \in [Revisions -> GrantRow]
    BY <1>1, RevokeType
  <1>6. after[r].status = "active"
    BY <1>1, <1>5
  <1>7. \/ r > old.revision
        \/ r = old.revision /\ old.status = "awaiting_confirmation"
    <2>1. CASE old.revision = r
      BY <1>1, <2>1 DEF Sound, Waiting, PendingAhead, Ahead, Revisions
    <2>2. CASE old.revision # r
      BY <1>1, <2>2 DEF PendingAhead, Ahead, IsUpdate, Revisions
    <2>3. QED
      BY <2>1, <2>2
  <1> HIDE DEF new, after, s, r
  <1>8. OnlyOne(s) /\ schedule'[s] = new /\ grant'[s] = after
    BY <1>1, <1>2, Written
  <1>9. InForceNow(schedule'[s], grant'[s])
    BY <1>1, <1>4, <1>6, <1>8 DEF InForceNow
  <1>10. ContractStep(s)
    BY <1>1, <1>4, <1>7, <1>8, <1>9, LooksPublished DEF ContractStep
  <1>11. QED
    BY <1>10 DEF s

(* A version that is dropped was not in force.                             *)
LEMMA DropKeepsContract ==
    ASSUME TypeOK, TypeOK', Authority, OneLiveAnswer,
           NEW a \in ActionIds, NEW m \in Messages, ConfirmTooLate(a, m) \/ Cancel(a, m)
    PROVE  ContractStep(action[a].schedule) \/ UNCHANGED Shown
  <1> DEFINE s == action[a].schedule
             r == action[a].revision
             old == schedule[s]
             cleared == ClearPendingUpdate(old)
             closed(st) == [old EXCEPT !.status = st, !.scheduled = FALSE]
  <1>1. /\ s \in Schedules /\ r \in Revisions
        /\ old \in ScheduleRow /\ grant[s] \in [Revisions -> GrantRow]
        /\ grant[s][r] \in GrantRow /\ Sound(old, grant[s])
        /\ IsUpdate(s, r) \/ old.revision = r => old.status # "none"
        /\ grant[s][r].status \in {"pending", "revoked"}
    BY Answered DEF ConfirmTooLate, Cancel, Accepted, Live, Pending, OneLiveAnswer
  <1>2. PICK g : /\ grant' = [grant EXCEPT ![s] = [grant[s] EXCEPT ![r] = g]]
                 /\ g.status \in {"pending", "revoked"}
    <2>1. CASE ConfirmTooLate(a, m)
      <3> DEFINE g == [grant[s][r] EXCEPT !.status = "revoked"]
      <3>1. grant' = [grant EXCEPT ![s] = [grant[s] EXCEPT ![r] = g]]
        BY <2>1 DEF ConfirmTooLate
      <3>2. g.status = "revoked"
        BY <1>1 DEF GrantRow
      <3> HIDE DEF g
      <3>3. QED
        BY <3>1, <3>2
    <2>2. CASE Cancel(a, m)
      <3> DEFINE known == IsUpdate(s, r) \/ old.revision = r
                 st == IF known /\ grant[s][r].status = "pending"
                       THEN "revoked" ELSE grant[s][r].status
                 g == [grant[s][r] EXCEPT !.status = st]
      <3>1. grant' = [grant EXCEPT ![s] = [grant[s] EXCEPT ![r] = g]]
        BY <2>2 DEF Cancel
      <3>2. g.status = st /\ st \in {"pending", "revoked"}
        BY <1>1 DEF GrantRow
      <3> HIDE DEF g, st
      <3>3. QED
        BY <3>1, <3>2
    <2>3. QED
      BY <2>1, <2>2
  <1> DEFINE after == [grant[s] EXCEPT ![r] = g]
  <1>3. \A q \in Revisions : after[q].status = "active" <=> grant[s][q].status = "active"
    BY <1>1, <1>2
  <1>4. \A st \in Statuses :
            /\ closed(st).status = st /\ closed(st).revision = old.revision
            /\ closed(st).scheduled = FALSE /\ closed(st).ran = old.ran
    BY <1>1 DEF ScheduleRow
  <1>5. /\ cleared.status = old.status /\ cleared.revision = old.revision
        /\ cleared.scheduled = old.scheduled /\ cleared.ran = old.ran
    BY <1>1 DEF ClearPendingUpdate, ScheduleRow
  <1>6. ASSUME NEW new, new.revision = old.revision,
               schedule' = [schedule EXCEPT ![s] = new]
        PROVE  /\ OnlyOne(s) /\ schedule'[s] = new
               /\ InForceNow(schedule'[s], grant'[s]) <=> InForceNow(old, grant[s])
    <2> HIDE DEF after, s, r
    <2>1. OnlyOne(s) /\ schedule'[s] = new /\ grant'[s] = after
      BY <1>1, <1>2, <1>6, Written DEF after
    <2>2. QED
      BY <1>3, <1>6, <2>1 DEF InForceNow
  <1>7. CASE IsUpdate(s, r)
    <2>1. schedule' = [schedule EXCEPT ![s] = cleared]
      BY <1>7 DEF ConfirmTooLate, Cancel
    <2> HIDE DEF s, r, cleared
    <2>2. QED
      BY <1>1, <1>5, <1>6, <2>1, LooksTheSame
  <1>8. CASE ~IsUpdate(s, r) /\ ConfirmTooLate(a, m)
    <2>1. /\ schedule' = [schedule EXCEPT ![s] = closed("expired")]
          /\ old.revision = r /\ grant[s][r].status = "pending"
      BY <1>8 DEF ConfirmTooLate, Confirmable
    <2>2. old.status = "awaiting_confirmation"
      BY <1>1, <1>8, <2>1 DEF Sound, Waiting, IsUpdate
    <2> HIDE DEF s, r, closed
    <2>3. ContractStep(s)
      BY <1>1, <1>4, <1>6, <2>1, <2>2, LooksDropped DEF Statuses, ContractStep
    <2>4. QED
      BY <2>3 DEF s
  <1>9. CASE ~IsUpdate(s, r) /\ old.revision = r /\ Cancel(a, m)
    <2>1. schedule' = [schedule EXCEPT ![s] = closed("deleted")]
      BY <1>9 DEF Cancel
    <2>2. ~InForceNow(old, grant[s])
      BY <1>1, <1>9 DEF InForceNow
    <2>3. old.status # "none"
      BY <1>1, <1>9
    <2> HIDE DEF s, r, closed
    <2>4. ContractStep(s)
      BY <1>1, <1>4, <1>6, <2>1, <2>2, <2>3, LooksDeleted DEF Statuses, ContractStep
    <2>5. QED
      BY <2>4 DEF s
  <1>10. CASE ~IsUpdate(s, r) /\ old.revision # r /\ Cancel(a, m)
    <2>1. schedule' = [schedule EXCEPT ![s] = old]
      BY <1>10 DEF Cancel
    <2> HIDE DEF s, r
    <2>2. QED
      BY <1>1, <1>6, <2>1, LooksTheSame
  <1>11. QED
    BY <1>7, <1>8, <1>9, <1>10

LEMMA StatusKeepsContract ==
    ASSUME TypeOK, TypeOK', Authority, NEW s \in Schedules,
           \/ Pause(s) \/ Resume(s) \/ Delete(s) \/ RunNow(s) \/ ExpireDraft(s)
           \/ FlagNeedsAttention(s) \/ \E following \in BOOLEAN : Dispatch(s, following)
    PROVE  ContractStep(s)
  <1> DEFINE old == schedule[s]
             inForce == InForceNow(old, grant[s])
  <1>1. /\ old \in ScheduleRow /\ grant[s] \in [Revisions -> GrantRow]
        /\ Sound(old, grant[s])
    BY RowTypes DEF Authority
  <1>2. /\ ActiveGrant(s) <=> inForce
        /\ old.status \in {"active", "paused"} => inForce
    BY <1>1 DEF ActiveGrant, InForceNow, Sound, InForce
  <1>3. ASSUME NEW new, new.revision = old.revision,
               schedule' = [schedule EXCEPT ![s] = new], UNCHANGED grant
        PROVE  /\ OnlyOne(s) /\ schedule'[s] = new
               /\ InForceNow(schedule'[s], grant'[s]) <=> inForce
    BY <1>3, RowWritten DEF InForceNow
  <1>4. CASE Pause(s)
    <2> DEFINE new == [old EXCEPT !.status = "paused"]
    <2>1. /\ schedule' = [schedule EXCEPT ![s] = new] /\ UNCHANGED grant
          /\ old.status = "active"
      BY <1>4 DEF Pause
    <2>2. /\ new.status = "paused" /\ new.revision = old.revision
          /\ new.scheduled = old.scheduled /\ new.ran = old.ran
      BY <1>1 DEF ScheduleRow
    <2> HIDE DEF new
    <2>3. QED
      BY <1>3, <2>1, <2>2, LooksPaused DEF ContractStep
  <1>5. CASE Resume(s)
    <2> DEFINE goesOn == horizon[schedule[s].spec] = "future"
               st == IF goesOn THEN "active" ELSE "completed"
               new == [old EXCEPT !.status = st, !.scheduled = goesOn]
    <2>1. /\ schedule' = [schedule EXCEPT ![s] = new] /\ UNCHANGED grant /\ inForce
      BY <1>1, <1>2, <1>5 DEF Resume, TypeOK, ScheduleRow
    <2>2. /\ new.status = st /\ new.revision = old.revision
          /\ new.scheduled = goesOn /\ new.ran = old.ran
      BY <1>1 DEF ScheduleRow
    <2>3. goesOn \in BOOLEAN
      OBVIOUS
    <2> HIDE DEF new, goesOn
    <2>4. QED
      BY <1>3, <2>1, <2>2, <2>3, LooksResumed DEF ContractStep
  <1>6. CASE Delete(s)
    <2> DEFINE new == [old EXCEPT !.status = "deleted", !.scheduled = FALSE]
               after == Revoke(grant[s], {"pending", "active"})
    <2>1. /\ schedule' = [schedule EXCEPT ![s] = new]
          /\ grant' = [grant EXCEPT ![s] = after] /\ old.status # "none"
      BY <1>1, <1>6 DEF Delete, Stored, TypeOK, ScheduleRow
    <2>2. /\ new.status = "deleted" /\ new.revision = old.revision
          /\ new.scheduled = FALSE /\ new.ran = old.ran
      BY <1>1 DEF ScheduleRow
    <2>3. \A r \in Revisions : after[r].status # "active"
      BY <1>1, RevokeFields
    <2> HIDE DEF new, after
    <2>4. OnlyOne(s) /\ schedule'[s] = new /\ grant'[s] = after
      BY <2>1, Written
    <2>5. ~InForceNow(schedule'[s], grant'[s])
      BY <2>3, <2>4 DEF InForceNow
    <2>6. QED
      BY <2>1, <2>2, <2>4, <2>5, LooksDeleted DEF ContractStep
  <1>7. CASE RunNow(s)
    <2> DEFINE new == [old EXCEPT !.ran = TRUE]
    <2>1. /\ schedule' = [schedule EXCEPT ![s] = new] /\ UNCHANGED grant /\ inForce
          /\ old.status \in {"active", "paused"}
      BY <1>2, <1>7 DEF RunNow
    <2>2. /\ new.status = old.status /\ new.revision = old.revision
          /\ new.scheduled = old.scheduled /\ new.ran = TRUE
      BY <1>1 DEF ScheduleRow
    <2> HIDE DEF new
    <2>3. QED
      BY <1>3, <2>1, <2>2, LooksRunNow DEF ContractStep
  <1>8. CASE ExpireDraft(s)
    <2> DEFINE cleared == ClearPendingUpdate(old)
               new == [cleared EXCEPT !.status = "expired", !.scheduled = FALSE]
               after == Revoke(grant[s], {"pending"})
    <2>1. /\ schedule' = [schedule EXCEPT ![s] = new]
          /\ grant' = [grant EXCEPT ![s] = after] /\ old.status = "awaiting_confirmation"
      BY <1>8 DEF ExpireDraft
    <2>2. /\ new.status = "expired" /\ new.revision = old.revision
          /\ new.scheduled = FALSE /\ new.ran = old.ran
      BY <1>1, ClearFields DEF ScheduleRow
    <2>3. \A r \in Revisions : after[r].status = "active" <=> grant[s][r].status = "active"
      BY <1>1, RevokeFields
    <2> HIDE DEF new, after
    <2>4. OnlyOne(s) /\ schedule'[s] = new /\ grant'[s] = after
      BY <2>1, Written
    <2>5. InForceNow(schedule'[s], grant'[s]) <=> inForce
      BY <2>2, <2>3, <2>4 DEF InForceNow
    <2>6. QED
      BY <2>1, <2>2, <2>4, <2>5, LooksDropped DEF ContractStep
  <1>9. CASE FlagNeedsAttention(s)
    <2> DEFINE new == [old EXCEPT !.status = "needs_attention"]
    <2>1. /\ schedule' = [schedule EXCEPT ![s] = new] /\ UNCHANGED grant /\ old.ran
      BY <1>9 DEF FlagNeedsAttention
    <2>2. /\ new.status = "needs_attention" /\ new.revision = old.revision
          /\ new.scheduled = old.scheduled /\ new.ran = old.ran
      BY <1>1 DEF ScheduleRow
    <2> HIDE DEF new
    <2>3. QED
      BY <1>3, <2>1, <2>2, LooksFlagged DEF ContractStep
  <1>10. ASSUME NEW following \in BOOLEAN, Dispatch(s, following) PROVE ContractStep(s)
    <2> DEFINE st == IF following THEN "active" ELSE "completed"
               new == [old EXCEPT !.ran = TRUE, !.scheduled = following, !.status = st]
    <2>1. /\ schedule' = [schedule EXCEPT ![s] = new] /\ UNCHANGED grant
          /\ old.status = "active" /\ old.scheduled
      BY <1>10 DEF Dispatch
    <2>2. /\ new.status = st /\ new.revision = old.revision
          /\ new.scheduled = following /\ new.ran = TRUE
      BY <1>1 DEF ScheduleRow
    <2> HIDE DEF new
    <2>3. QED
      BY <1>3, <2>1, <2>2, LooksDispatched DEF ContractStep
  <1>11. QED
    BY <1>4, <1>5, <1>6, <1>7, <1>8, <1>9, <1>10

LEMMA ContractKept ==
    ASSUME TypeOK, TypeOK', Authority, OneLiveAnswer, PendingAhead, [Next]_vars
    PROVE  [RC!ContractNext]_Shown
  <1>1. \A s \in Schedules : ContractStep(s) => RC!ContractNext
    BY DEF ContractStep, RC!ContractNext
  <1>2. UNCHANGED <<schedule, grant>> => UNCHANGED Shown
    BY DEF Shown, ActiveGrant
  <1>3. \A a \in ActionIds : action[a].status # "none" => action[a].schedule \in Schedules
    BY RowTypes
  <1>4. ASSUME NEW a \in ActionIds, NEW m \in Messages,
               ConfirmActivates(a, m) \/ ConfirmTooLate(a, m) \/ Cancel(a, m)
        PROVE  RC!ContractNext \/ UNCHANGED Shown
    <2>1. action[a].schedule \in Schedules
      BY <1>3, <1>4 DEF ConfirmActivates, ConfirmTooLate, Cancel, Accepted, Live, Pending
    <2>2. ContractStep(action[a].schedule) \/ UNCHANGED Shown
      BY <1>4, ConfirmKeepsContract, DropKeepsContract
    <2> HIDE DEF Shown
    <2>3. QED
      BY <1>1, <2>1, <2>2
  <1>5. ASSUME NEW a \in ActionIds, NEW m \in Messages, ConfirmRefused(a, m) \/ Renew(a, m)
        PROVE  UNCHANGED Shown
    BY <1>2, <1>5 DEF ConfirmRefused, Renew
  <1>6. ASSUME \/ NoticeLapsed
               \/ \E a \in ActionIds : ReconcileLapsed(a) \/ Lapse(a)
               \/ \E sp \in Specs : TimePasses(sp)
               \/ UNCHANGED vars
        PROVE  UNCHANGED Shown
    BY <1>2, <1>6 DEF NoticeLapsed, ReconcileLapsed, Lapse, TimePasses, vars
  <1>7. ASSUME NEW s \in Schedules, NEW m \in Messages, NEW sp \in Specs,
               \/ CreateActive(s, m, sp) \/ CreateDraft(s, m, sp)
               \/ UpdateImmediately(s, m, sp) \/ ProposeUpdate(s, m, sp)
        PROVE  RC!ContractNext \/ UNCHANGED Shown
    BY <1>1, <1>7, CreateKeepsContract, UpdateKeepsContract
  <1>8. ASSUME NEW s \in Schedules,
               \/ Pause(s) \/ Resume(s) \/ Delete(s) \/ RunNow(s) \/ ExpireDraft(s)
               \/ FlagNeedsAttention(s) \/ \E following \in BOOLEAN : Dispatch(s, following)
        PROVE  RC!ContractNext
    BY <1>1, <1>8, StatusKeepsContract
  <1> HIDE DEF Shown
  <1>9. QED
    BY <1>4, <1>5, <1>6, <1>7, <1>8 DEF Next, UserStep, WorkerStep, ClockStep

LEMMA ContractBegins == Init => RC!ContractInit
  BY DEF Init, RC!ContractInit, Shown, ActiveGrant, NoSchedule, Revisions

-----------------------------------------------------------------------------
(* The theorems.                                                           *)

(* A version that waits beside the current one is a later one, so that no  *)
(* answer, however late, puts back a revision that was replaced.           *)
THEOREM PendingAlwaysAhead == Spec => []PendingAhead
  <1>1. Init => PendingAhead
    <2>1. NoSchedule.pendingRevision = 0
      BY DEF NoSchedule
    <2>2. QED
      BY <2>1 DEF Init, PendingAhead, Ahead
  <1>2. TypeOK /\ Authority /\ PendingAhead /\ [Next]_vars => PendingAhead'
    BY AheadStep
  <1>3. QED
    BY <1>1, <1>2, TypeCorrect, AuthorityAlways, PTL DEF Spec

(* A version has one action at most that can still be answered, and never  *)
(* one while its grant is in force: no retry of a confirmation or of a     *)
(* cancellation reaches a version that was decided on.                     *)
THEOREM DecidedOnce == Spec => []OneLiveAnswer
  <1>1. Init => OneLiveAnswer
    BY DEF Init, OneLiveAnswer, NoAction, Live, Pending
  <1>2. TypeOK /\ Authority /\ OneLiveAnswer /\ [Next]_vars => OneLiveAnswer'
    BY OneLiveStep
  <1>3. QED
    BY <1>1, <1>2, TypeCorrect, AuthorityAlways, PTL DEF Spec

(* The lifecycle implements the contract: whatever the order of tools,     *)
(* answers, expiries, dispatches and failures, the worker that reads the   *)
(* row of a routine sees the steps RoutineContract allows and no others.   *)
THEOREM LifecycleKeepsContract == Spec => KeepsContract
  <1>1. Init => RC!ContractInit
    BY ContractBegins
  <1>2. TypeOK /\ TypeOK' /\ Authority /\ OneLiveAnswer /\ PendingAhead /\ [Next]_vars
            => [RC!ContractNext]_Shown
    BY ContractKept
  <1>3. QED
    BY <1>1, <1>2, TypeCorrect, AuthorityAlways, PendingAlwaysAhead, DecidedOnce, PTL
       DEF Spec, KeepsContract, RC!Contract
=============================================================================
