-------------------------- MODULE ScheduleLifecycle --------------------------
(***************************************************************************)
(* Scheduled automations ("rotinas"), their revisions, the grants that     *)
(* authorise each revision and the pending actions through which a user    *)
(* confirms a revision with external effects.                              *)
(*                                                                         *)
(* Rows of three tables: scheduled_automations (schedule),                 *)
(* automation_grants (grant) and pending_actions (action).  Every operator *)
(* named after a tool is one transaction of                                *)
(* scheduling/service.py or conversation/tools.py; the row lock each one   *)
(* takes on the schedule makes it atomic.  The worker's own writes to the  *)
(* schedule row (dispatch, expiry scan, failure of a run) are actions too. *)
(***************************************************************************)
EXTENDS Integers

CONSTANTS Schedules,     (* ids of scheduled_automations                   *)
          Messages,      (* inbound messages, numbered in order of arrival *)
          Confirms,      (* the messages that read as an explicit "yes"    *)
          Cancels,       (* the messages that read as a cancellation       *)
          Specs,         (* compiled specifications (ScheduleSpec)         *)
          R2Specs,       (* those using a tool of risk R2                  *)
          OneShot,       (* those whose trigger is "once"                  *)
          None,          (* a NULL column                                  *)
          ActionIds,     (* ids of pending_actions: bounds their number    *)
          MaxRevision    (* bound on automation revisions                  *)

ASSUME LifecycleAssumption ==
    /\ Messages \subseteq Nat \ {0}
    /\ Confirms \subseteq Messages /\ Cancels \subseteq Messages
    /\ R2Specs \subseteq Specs /\ OneShot \subseteq Specs
    /\ None \notin Specs \cup Schedules
    /\ MaxRevision \in Nat \ {0}

VARIABLES schedule,   (* [Schedules -> row of scheduled_automations]       *)
          grant,      (* [Schedules -> [Revisions -> automation_grants]]   *)
          action,     (* [ActionIds -> row of pending_actions]             *)
          horizon     (* [Specs -> what next_occurrence still finds]       *)

vars == <<schedule, grant, action, horizon>>

Revisions == 1..MaxRevision

Statuses == {"none", "awaiting_confirmation", "active", "paused",
             "needs_attention", "completed", "expired", "deleted"}

(* pendingRevision = 0 stands for NULL; scheduled says next_run_at is set; *)
(* ran says the schedule has a row in scheduled_runs.                      *)
ScheduleRow == [status: Statuses, revision: 0..MaxRevision,
                spec: Specs \cup {None}, pendingRevision: 0..MaxRevision,
                pendingSpec: Specs \cup {None},
                scheduled: BOOLEAN, ran: BOOLEAN]

GrantRow == [status: {"none", "pending", "active", "revoked"},
             spec: Specs \cup {None}, by: Messages \cup {0}]

(* Rows whose tool_name is "activate_schedule"; createdBy is               *)
(* created_by_message_id and lapsed says expires_at <= now.                *)
ActionRow == [status: {"none", "pending", "executed", "failed", "cancelled",
                       "expired", "superseded"},
              schedule: Schedules \cup {None}, revision: 0..MaxRevision,
              createdBy: Messages \cup {0}, lapsed: BOOLEAN]

NoSchedule == [status |-> "none", revision |-> 0, spec |-> None,
               pendingRevision |-> 0, pendingSpec |-> None,
               scheduled |-> FALSE, ran |-> FALSE]
NoGrant == [status |-> "none", spec |-> None, by |-> 0]
NoAction == [status |-> "none", schedule |-> None, revision |-> 0,
             createdBy |-> 0, lapsed |-> FALSE]

TypeOK ==
    /\ schedule \in [Schedules -> ScheduleRow]
    /\ grant \in [Schedules -> [Revisions -> GrantRow]]
    /\ action \in [ActionIds -> ActionRow]
    /\ \A a \in ActionIds : action[a].status # "none" =>
            /\ action[a].schedule \in Schedules
            /\ action[a].revision \in Revisions
            /\ action[a].createdBy \in Messages
    /\ horizon \in [Specs -> {"future", "grace", "past"}]

Init ==
    /\ schedule = [s \in Schedules |-> NoSchedule]
    /\ grant = [s \in Schedules |-> [r \in Revisions |-> NoGrant]]
    /\ action = [a \in ActionIds |-> NoAction]
    /\ horizon = [sp \in Specs |-> "future"]

-----------------------------------------------------------------------------
(* Pending actions.                                                        *)

Pending(act) == act.status = "pending"
Live(act) == Pending(act) /\ ~act.lapsed
For(act, s, r) == act.status # "none" /\ act.schedule = s /\ act.revision = r

(* _active_pending_actions: every pending action past its deadline is      *)
(* marked expired before the live ones are returned.                       *)
MarkLapsed(acts) ==
    [a \in ActionIds |->
        IF Pending(acts[a]) /\ acts[a].lapsed
        THEN [acts[a] EXCEPT !.status = "expired"] ELSE acts[a]]

(* Definitions named ..._Faulty are plausible mistakes in the definition   *)
(* that follows; no action uses them, the properties are shown to fail     *)
(* when one is put in its place.                                           *)

(* update_schedule closes every pending activation of the schedule.        *)
Supersede(acts, s) ==
    [a \in ActionIds |->
        IF Pending(acts[a]) /\ acts[a].schedule = s
        THEN [acts[a] EXCEPT !.status = "superseded"] ELSE acts[a]]

ExpireActions(acts, s) ==
    [a \in ActionIds |->
        IF Pending(acts[a]) /\ acts[a].schedule = s
        THEN [acts[a] EXCEPT !.status = "expired"] ELSE acts[a]]

(* create_pending_action: a live action with the same arguments is reused. *)
CreatePendingAction(acts, s, r, m) ==
    \/ /\ \E a \in ActionIds : For(acts[a], s, r) /\ Live(acts[a])
       /\ action' = acts
    \/ /\ \A a \in ActionIds : ~(For(acts[a], s, r) /\ Live(acts[a]))
       /\ \E a \in ActionIds :
            /\ acts[a].status = "none"
            /\ action' = [acts EXCEPT ![a] =
                    [status |-> "pending", schedule |-> s, revision |-> r,
                     createdBy |-> m, lapsed |-> FALSE]]

-----------------------------------------------------------------------------
(* Schedules and grants.                                                   *)

Stored(s) == schedule[s].status # "none"
AnyPrevious(row) == IF row.pendingRevision > row.revision
                    THEN row.pendingRevision ELSE row.revision
NextRevision(s) == AnyPrevious(schedule[s]) + 1

NewGrant(status, sp, m) == [status |-> status, spec |-> sp, by |-> m]
Revoke_Faulty(grants, statuses) ==
    [r \in Revisions |->
        IF grants[r].status \in statuses \cap {"pending"}
        THEN [grants[r] EXCEPT !.status = "revoked"] ELSE grants[r]]
Revoke(grants, statuses) ==
    [r \in Revisions |->
        IF grants[r].status \in statuses
        THEN [grants[r] EXCEPT !.status = "revoked"] ELSE grants[r]]
ActiveGrant(s) == /\ schedule[s].revision \in Revisions
                  /\ grant[s][schedule[s].revision].status = "active"

(* The row after the pending version, if any, has been dropped.            *)
ClearPendingUpdate(row) == [row EXCEPT !.pendingRevision = 0, !.pendingSpec = None]

(* create_schedule, for a specification without external effects: the      *)
(* request itself is the authorisation.                                    *)
CreateActive(s, m, sp) ==
    /\ ~Stored(s)
    /\ sp \notin R2Specs
    /\ horizon[sp] \in {"future", "grace"}
    /\ schedule' = [schedule EXCEPT ![s] =
            [NoSchedule EXCEPT !.status = "active", !.revision = 1,
                               !.spec = sp, !.scheduled = TRUE]]
    /\ grant' = [grant EXCEPT ![s][1] = NewGrant("active", sp, m)]
    /\ UNCHANGED <<action, horizon>>

(* create_schedule, for a specification with an R2 tool.                   *)
CreateDraft(s, m, sp) ==
    /\ ~Stored(s)
    /\ sp \in R2Specs
    /\ horizon[sp] = "future"
    /\ schedule' = [schedule EXCEPT ![s] =
            [NoSchedule EXCEPT !.status = "awaiting_confirmation", !.revision = 1,
                               !.spec = sp, !.scheduled = TRUE]]
    /\ grant' = [grant EXCEPT ![s][1] = NewGrant("pending", sp, 0)]
    /\ CreatePendingAction(action, s, 1, m)
    /\ UNCHANGED horizon

(* The insert of the new grant succeeds only if the (schedule, revision)   *)
(* pair is free: uq_automation_grant_revision.  Otherwise the tool's       *)
(* savepoint is rolled back and nothing changes.                           *)
RevisionFree_Faulty(s) == NextRevision(s) \in Revisions
RevisionFree(s) == /\ NextRevision(s) \in Revisions
                   /\ grant[s][NextRevision(s)].status = "none"

UpdateImmediately(s, m, sp) ==
    /\ Stored(s) /\ RevisionFree(s)
    /\ sp \notin R2Specs
    /\ horizon[sp] = "future"
    /\ schedule' = [schedule EXCEPT ![s] =
            [ClearPendingUpdate(@) EXCEPT !.status = "active", !.spec = sp,
                !.revision = NextRevision(s), !.scheduled = TRUE]]
    /\ grant' = [grant EXCEPT ![s] =
            [Revoke(@, {"pending", "active"}) EXCEPT
                ![NextRevision(s)] = NewGrant("active", sp, m)]]
    /\ action' = Supersede(action, s)
    /\ UNCHANGED horizon

ProposeUpdate_Faulty(s, m, sp) ==
    /\ Stored(s) /\ RevisionFree(s)
    /\ sp \in R2Specs
    /\ horizon[sp] = "future"
    /\ schedule' = [schedule EXCEPT ![s] =
            [@ EXCEPT !.pendingRevision = NextRevision(s), !.pendingSpec = sp]]
    /\ grant' = [grant EXCEPT ![s] =
            [Revoke(@, {"pending", "active"}) EXCEPT
                ![NextRevision(s)] = NewGrant("pending", sp, 0)]]
    /\ CreatePendingAction(Supersede(action, s), s, NextRevision(s), m)
    /\ UNCHANGED horizon

ProposeUpdate(s, m, sp) ==
    /\ Stored(s) /\ RevisionFree(s)
    /\ sp \in R2Specs
    /\ horizon[sp] = "future"
    /\ schedule' = [schedule EXCEPT ![s] =
            [@ EXCEPT !.pendingRevision = NextRevision(s), !.pendingSpec = sp]]
    /\ grant' = [grant EXCEPT ![s] =
            [Revoke(@, {"pending"}) EXCEPT
                ![NextRevision(s)] = NewGrant("pending", sp, 0)]]
    /\ CreatePendingAction(Supersede(action, s), s, NextRevision(s), m)
    /\ UNCHANGED horizon

-----------------------------------------------------------------------------
(* Confirming and cancelling a pending activation.                         *)

IsUpdate(s, r) == schedule[s].pendingRevision = r
Confirmable(s, r) == /\ IsUpdate(s, r) \/ schedule[s].revision = r
                     /\ grant[s][r].status = "pending"
VersionSpec(s, r) == IF IsUpdate(s, r) THEN schedule[s].pendingSpec
                                       ELSE schedule[s].spec
Startable(sp) == horizon[sp] = "future" \/ (horizon[sp] = "grace" /\ sp \in OneShot)

Accepted_Faulty(a, m) == Live(action[a]) /\ m \in Confirms

(* A confirmation is accepted for one live action, from an explicit "yes"  *)
(* that is not the message which created the action.                       *)
Accepted(a, m) == /\ Live(action[a])
                  /\ m \in Confirms
                  /\ action[a].createdBy # m

Close_Faulty(a, status) == [MarkLapsed(action) EXCEPT ![a].status = "executing"]
Close(a, status) == [MarkLapsed(action) EXCEPT ![a].status = status]

(* activate_pending_schedule, when the version can still start.            *)
ConfirmActivates(a, m) ==
    LET s == action[a].schedule
        r == action[a].revision
    IN /\ Accepted(a, m)
       /\ Confirmable(s, r)
       /\ Startable(VersionSpec(s, r))
       /\ schedule' = [schedule EXCEPT ![s] =
            [(IF IsUpdate(s, r) THEN ClearPendingUpdate(@) ELSE @) EXCEPT
                !.status = "active", !.revision = r, !.spec = VersionSpec(s, r),
                !.scheduled = TRUE]]
       /\ grant' = [grant EXCEPT ![s] =
            [(IF IsUpdate(s, r) THEN Revoke(@, {"active"}) ELSE @) EXCEPT
                ![r] = [status |-> "active", spec |-> grant[s][r].spec, by |-> m]]]
       /\ action' = Close(a, "executed")
       /\ UNCHANGED horizon

(* activate_pending_schedule, when the version's only occurrence has gone. *)
ConfirmTooLate(a, m) ==
    LET s == action[a].schedule
        r == action[a].revision
    IN /\ Accepted(a, m)
       /\ Confirmable(s, r)
       /\ ~Startable(VersionSpec(s, r))
       /\ schedule' = [schedule EXCEPT ![s] =
            IF IsUpdate(s, r) THEN ClearPendingUpdate(@)
            ELSE [@ EXCEPT !.status = "expired", !.scheduled = FALSE]]
       /\ grant' = [grant EXCEPT ![s][r].status = "revoked"]
       /\ action' = Close(a, "failed")
       /\ UNCHANGED horizon

(* activate_pending_schedule, when the version has been replaced meanwhile *)
(* or its grant is no longer pending.                                      *)
ConfirmRefused(a, m) ==
    /\ Accepted(a, m)
    /\ ~Confirmable(action[a].schedule, action[a].revision)
    /\ action' = Close(a, "failed")
    /\ UNCHANGED <<schedule, grant, horizon>>

(* _confirm_action with no live action: an explicit "yes" to an expired    *)
(* activation prepares a new one (renew_expired_schedule_confirmation).    *)
Renew(a, m) ==
    LET s == action[a].schedule
        r == action[a].revision
    IN /\ action[a].status # "none"
       /\ MarkLapsed(action)[a].status = "expired"
       /\ m \in Confirms
       /\ grant[s][r].status = "pending"
       /\ \/ IsUpdate(s, r)
          \/ schedule[s].revision = r /\ schedule[s].status = "awaiting_confirmation"
       /\ CreatePendingAction(MarkLapsed(action), s, r, m)
       /\ UNCHANGED <<schedule, grant, horizon>>

Cancel_Faulty(a, m) ==
    LET s == action[a].schedule
        r == action[a].revision
        known == IsUpdate(s, r) \/ schedule[s].revision = r
    IN /\ Live(action[a])
       /\ m \in Cancels
       /\ action' = Close(a, "cancelled")
       /\ schedule' = [schedule EXCEPT ![s] =
            IF IsUpdate(s, r) THEN ClearPendingUpdate(@)
            ELSE IF known THEN [@ EXCEPT !.status = "deleted", !.scheduled = FALSE]
            ELSE @]
       /\ UNCHANGED <<grant, horizon>>

(* _cancel_action followed by cancel_pending_schedule.                     *)
Cancel(a, m) ==
    LET s == action[a].schedule
        r == action[a].revision
        known == IsUpdate(s, r) \/ schedule[s].revision = r
    IN /\ Live(action[a])
       /\ m \in Cancels
       /\ action' = Close(a, "cancelled")
       /\ schedule' = [schedule EXCEPT ![s] =
            IF IsUpdate(s, r) THEN ClearPendingUpdate(@)
            ELSE IF known THEN [@ EXCEPT !.status = "deleted", !.scheduled = FALSE]
            ELSE @]
       /\ grant' = [grant EXCEPT ![s][r].status =
            IF known /\ @ = "pending" THEN "revoked" ELSE @]
       /\ UNCHANGED horizon

(* A refused confirmation or cancellation, or get_pending_action: only the *)
(* lapsed actions are marked.                                              *)
NoticeLapsed ==
    /\ \E a \in ActionIds : Pending(action[a]) /\ action[a].lapsed
    /\ action' = MarkLapsed(action)
    /\ UNCHANGED <<schedule, grant, horizon>>

(* reconcile_closed_pending_task marks the one lapsed action it looks at.  *)
ReconcileLapsed(a) ==
    /\ Pending(action[a]) /\ action[a].lapsed
    /\ action' = [action EXCEPT ![a].status = "expired"]
    /\ UNCHANGED <<schedule, grant, horizon>>

-----------------------------------------------------------------------------
(* The user's other tools.                                                 *)

Pause(s) ==
    /\ schedule[s].status = "active"
    /\ schedule' = [schedule EXCEPT ![s].status = "paused"]
    /\ UNCHANGED <<grant, action, horizon>>

(* resume_schedule asks for an active grant of the current revision and    *)
(* for nothing else; a schedule with no occurrence left is completed.      *)
Resume(s) ==
    /\ Stored(s) /\ ActiveGrant(s)
    /\ LET goesOn == horizon[schedule[s].spec] = "future"
       IN schedule' = [schedule EXCEPT
            ![s].status = IF goesOn THEN "active" ELSE "completed",
            ![s].scheduled = goesOn]
    /\ UNCHANGED <<grant, action, horizon>>

Delete(s) ==
    /\ Stored(s)
    /\ schedule' = [schedule EXCEPT ![s].status = "deleted", ![s].scheduled = FALSE]
    /\ grant' = [grant EXCEPT ![s] = Revoke(@, {"pending", "active"})]
    /\ UNCHANGED <<action, horizon>>

RunNow(s) ==
    /\ schedule[s].status \in {"active", "paused"}
    /\ ActiveGrant(s)
    /\ schedule' = [schedule EXCEPT ![s].ran = TRUE]
    /\ UNCHANGED <<grant, action, horizon>>

-----------------------------------------------------------------------------
(* The worker's writes to the schedule row.                                *)

(* expire_stale_schedules: a draft nobody can confirm any more.            *)
Unanswerable_Faulty(s) ==
    \E a \in ActionIds : /\ For(action[a], s, schedule[s].revision)
                         /\ Pending(action[a]) /\ action[a].lapsed

Unanswerable(s) ==
    LET target == IF schedule[s].pendingRevision # 0
                  THEN schedule[s].pendingRevision ELSE schedule[s].revision
    IN \A a \in ActionIds : For(action[a], s, target) => ~Live(action[a])

ExpireDraft(s) ==
    /\ schedule[s].status = "awaiting_confirmation"
    /\ Unanswerable(s)
    /\ schedule' = [schedule EXCEPT ![s] =
            [ClearPendingUpdate(@) EXCEPT !.status = "expired", !.scheduled = FALSE]]
    /\ grant' = [grant EXCEPT ![s] = Revoke(@, {"pending"})]
    /\ action' = ExpireActions(action, s)
    /\ UNCHANGED horizon

(* dispatch_due_schedule, the schedule row: the next occurrence follows    *)
(* unless the specification or max_runs is exhausted.                      *)
Dispatch(s, following) ==
    /\ schedule[s].status = "active" /\ schedule[s].scheduled
    /\ following => horizon[schedule[s].spec] = "future"
    /\ schedule' = [schedule EXCEPT ![s] =
            [@ EXCEPT !.ran = TRUE, !.scheduled = following,
                      !.status = IF following THEN "active" ELSE "completed"]]
    /\ UNCHANGED <<grant, action, horizon>>

(* The last failure of a run or of its task flags the schedule, whatever   *)
(* its status has become.                                                  *)
FlagNeedsAttention(s) ==
    /\ schedule[s].ran
    /\ schedule' = [schedule EXCEPT ![s].status = "needs_attention"]
    /\ UNCHANGED <<grant, action, horizon>>

(* Time: a confirmation passes its deadline, a specification its last      *)
(* occurrence and then its misfire grace.                                  *)
Lapse(a) ==
    /\ Live(action[a])
    /\ action' = [action EXCEPT ![a].lapsed = TRUE]
    /\ UNCHANGED <<schedule, grant, horizon>>

TimePasses(sp) ==
    /\ horizon[sp] # "past"
    /\ \E later \in (IF horizon[sp] = "future" THEN {"grace", "past"} ELSE {"past"}) :
            horizon' = [horizon EXCEPT ![sp] = later]
    /\ UNCHANGED <<schedule, grant, action>>

-----------------------------------------------------------------------------
UserStep ==
    \/ \E s \in Schedules, m \in Messages, sp \in Specs :
            \/ CreateActive(s, m, sp) \/ CreateDraft(s, m, sp)
            \/ UpdateImmediately(s, m, sp) \/ ProposeUpdate(s, m, sp)
    \/ \E a \in ActionIds, m \in Messages :
            \/ ConfirmActivates(a, m) \/ ConfirmTooLate(a, m) \/ ConfirmRefused(a, m)
            \/ Renew(a, m) \/ Cancel(a, m)
    \/ NoticeLapsed
    \/ \E s \in Schedules : Pause(s) \/ Resume(s) \/ Delete(s) \/ RunNow(s)

WorkerStep ==
    \/ \E a \in ActionIds : ReconcileLapsed(a)
    \/ \E s \in Schedules :
            \/ ExpireDraft(s) \/ FlagNeedsAttention(s)
            \/ \E following \in BOOLEAN : Dispatch(s, following)

ClockStep ==
    \/ \E a \in ActionIds : Lapse(a)
    \/ \E sp \in Specs : TimePasses(sp)

Next == UserStep \/ WorkerStep \/ ClockStep

Spec == Init /\ [][Next]_vars

(* The worker repeats its expiry scan in every cycle; users and clocks owe *)
(* nothing.                                                                *)
FairSpec == Spec /\ \A s \in Schedules : WF_vars(ExpireDraft(s))
-----------------------------------------------------------------------------
(* Properties.                                                             *)

(* A grant in force belongs to the current revision of its schedule and    *)
(* authorises exactly the specification that revision runs, and a schedule *)
(* that can dispatch or be run by hand has such a grant.                   *)
AuthorisedRevision ==
    \A s \in Schedules :
        /\ \A r \in Revisions : grant[s][r].status = "active" =>
                r = schedule[s].revision /\ grant[s][r].spec = schedule[s].spec
        /\ schedule[s].status \in {"active", "paused"} => ActiveGrant(s)

(* A grant that waits for a confirmation is the one of the latest version  *)
(* asked for: the pending update, or the draft itself while it awaits.     *)
PendingIsLatest ==
    \A s \in Schedules, r \in Revisions : grant[s][r].status = "pending" =>
        \/ IsUpdate(s, r) /\ grant[s][r].spec = schedule[s].pendingSpec
        \/ /\ schedule[s].pendingRevision = 0
           /\ schedule[s].revision = r /\ grant[s][r].spec = schedule[s].spec
           /\ schedule[s].status = "awaiting_confirmation"

(* No version with external effects is in force unless a message that is   *)
(* an explicit confirmation, other than the one the confirmed action was   *)
(* created by, executed a pending action of exactly that revision.         *)
R2Confirmed ==
    \A s \in Schedules, r \in Revisions :
        grant[s][r].status = "active" /\ grant[s][r].spec \in R2Specs =>
            \E a \in ActionIds :
                /\ For(action[a], s, r) /\ action[a].status = "executed"
                /\ grant[s][r].by \in Confirms \ {action[a].createdBy}

(* While a version waits for a confirmation there is a pending action the  *)
(* user can still answer, or an expired one that an answer renews.         *)
PendingGrantIsAnswerable ==
    \A s \in Schedules, r \in Revisions : grant[s][r].status = "pending" =>
        \E a \in ActionIds : /\ For(action[a], s, r)
                             /\ action[a].status \in {"pending", "expired"}

(* What a grant authorises never changes, and a revoked grant is never     *)
(* revived.                                                                *)
GrantsNeverRevive ==
    [][\A s \in Schedules, r \in Revisions : grant[s][r].status # "none" =>
            /\ grant'[s][r].spec = grant[s][r].spec
            /\ grant[s][r].status = "revoked" => grant'[s][r].status = "revoked"]_vars

(* Proposing, cancelling, expiring or mistiming a new version never leaves *)
(* a schedule without the authorisation it had: only deleting it does.     *)
OldVersionUninterrupted ==
    [][\A s \in Schedules :
            (\E r \in Revisions : grant[s][r].status = "active") =>
                \/ \E r \in Revisions : grant'[s][r].status = "active"
                \/ schedule'[s].status = "deleted"]_vars

(* A draft none of whose confirmations can be answered any more does not   *)
(* stay a draft: it expires, or a renewed confirmation takes over.         *)
Stranded(s) ==
    /\ schedule[s].status = "awaiting_confirmation"
    /\ \A a \in ActionIds : action[a].schedule = s => ~Live(action[a])
DraftsResolve == \A s \in Schedules : Stranded(s) ~> ~Stranded(s)

(* service.py:896 tells the user to ask for the routine to be updated      *)
(* again: as long as revisions last, an update must be able to store its   *)
(* grant.                                                                  *)
UpdateNeverCollides ==
    \A s \in Schedules :
        Stored(s) /\ NextRevision(s) \in Revisions => RevisionFree(s)

(* tools.py:919 asks for the confirmation "in a new message": a grant in   *)
(* force was confirmed by a message that arrived after the one which       *)
(* created the action it confirmed.                                        *)
ConfirmationIsNewer ==
    \A s \in Schedules, r \in Revisions, a \in ActionIds :
        grant[s][r].status = "active" /\ For(action[a], s, r)
            /\ action[a].status = "executed" => grant[s][r].by > action[a].createdBy
=============================================================================
