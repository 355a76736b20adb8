-------------------------- MODULE BitrixConnections --------------------------
(***************************************************************************)
(* The connection of one user to Bitrix24 and the writes made through it:  *)
(* integrations/bitrix24/service.py.  A connection is asked for in the     *)
(* conversation, its token is given on a page (another process, which      *)
(* validates it at Bitrix24 with the request locked), and it is active     *)
(* after a confirmation in the conversation.  A link stands for the        *)
(* integration, its request and the pending action of its confirmation.    *)
(*                                                                         *)
(* "The connection of the user" is the integration updated last, whatever  *)
(* its status: recent holds the links in that order.                       *)
(***************************************************************************)
EXTENDS Naturals, Sequences

CONSTANTS MaxLinks,     \* bound on the links asked for
          MaxTries,     \* bitrix24_connection_max_attempts
          Tasks,        \* tasks that connect or disconnect at the same time
          Writes,       \* bound on the writes asked for
          Overlap,      \* whether the page and other tasks go on meanwhile
          MaxCrashes,   \* bound on crashes
          None

BitrixAssumption ==
    /\ MaxLinks \in Nat /\ MaxTries \in Nat \ {0} /\ MaxCrashes \in Nat /\ Overlap \in BOOLEAN
    /\ None \notin {"active", "awaiting_confirmation", "pending", "proposed", "completed",
                    "outcome_unknown", "failed", "cancelled"}

VARIABLES row,          \* per link: status, held (a credential), request, pending
          recent,       \* the links, last updated first
          tries,        \* attempts to give a token, per link
          validating,   \* links whose token is being validated
          closed,       \* links whose time to give a token is over
          late,         \* links whose time to confirm is over
          snap,         \* the integration a task has loaded, before it commits
          off,          \* the user was last told that nothing is connected
          write,        \* per write: status and link of its external action
          calling,      \* writes in an open transaction
          reached,      \* those of them that Bitrix24 has done
          sent,         \* how often Bitrix24 did each write
          crashes

links  == <<row, recent>>
page   == <<tries, validating, closed>>
writes == <<write, calling, reached, sent>>
vars   == <<links, page, late, snap, off, writes, crashes>>

Links == 1..MaxLinks

Init == /\ row = [i \in Links |-> [status |-> None, held |-> FALSE, request |-> None, pending |-> None]]
        /\ recent = <<>> /\ tries = [i \in Links |-> 0]
        /\ validating = {} /\ closed = {} /\ late = {}
        /\ snap = [t \in Tasks |-> None] /\ off = FALSE
        /\ write = [k \in Writes |-> [status |-> None, link |-> 0]]
        /\ calling = {} /\ reached = {} /\ sent = [k \in Writes |-> 0] /\ crashes = 0

Among(S) == SelectSeq(recent, LAMBDA i : i \in S)
Touch(S) == recent' = Among(S) \o SelectSeq(recent, LAMBDA i : i \notin S)
Active   == {i \in Links : row[i].status = "active"}
Quiet    == Overlap \/ \A t \in Tasks : snap[t] = None

-----------------------------------------------------------------------------
(* Connecting and disconnecting *)

\* The row is loaded without a lock; snap[t].row is what the session has of it.
Load(t) == /\ snap[t] = None /\ Quiet
           /\ snap' = [snap EXCEPT ![t] = IF recent = <<>> THEN [link |-> 0, row |-> None]
                                           ELSE [link |-> recent[1], row |-> row[recent[1]]]]
           /\ UNCHANGED <<links, page, late, off, writes, crashes>>

Loaded(t, status) == snap[t].link # 0 /\ snap[t].row.status = status

Revoked_Faulty(r, loaded) == [r EXCEPT !.status = "revoked"]

\* The update of a loaded row writes the attributes that differ from what was
\* loaded, and no others.
Revoked(r, loaded) == [r EXCEPT !.status = IF loaded.status = "revoked" THEN @ ELSE "revoked",
                                !.held = @ /\ ~loaded.held]

Requested == [status |-> "pending_token", held |-> FALSE, request |-> "pending", pending |-> None]

Connect(t) ==
    /\ snap[t] # None /\ snap' = [snap EXCEPT ![t] = None]
    /\ \/ Loaded(t, "active") /\ UNCHANGED links
       \/ /\ ~Loaded(t, "active") /\ Len(recent) < MaxLinks
          /\ snap[t].link \notin validating
          /\ LET n == Len(recent) + 1
                 i == snap[t].link
                 Open(q) == q \in {"pending", "awaiting_confirmation"}
             IN  /\ row' = [j \in Links |->
                              CASE j = n -> Requested
                                [] j = i -> [Revoked(row[i], snap[t].row) EXCEPT
                                               !.request = IF Open(@) THEN "cancelled" ELSE @]
                                [] OTHER -> row[j]]
                 /\ recent' = <<n>> \o Among({i}) \o Among(Links \ {i})
    /\ UNCHANGED <<page, late, off, writes, crashes>>

Disconnect(t) ==
    /\ snap[t] # None /\ snap' = [snap EXCEPT ![t] = None]
    /\ off' = TRUE
    /\ IF snap[t].link = 0 \/ Loaded(t, "revoked") THEN UNCHANGED links
       ELSE /\ row' = [row EXCEPT ![snap[t].link] = Revoked(@, snap[t].row)]
            /\ Touch({snap[t].link})
    /\ UNCHANGED <<page, late, writes, crashes>>

\* get_bitrix24_connection_status asks Bitrix24 with the token it has.
CheckStatus == /\ Quiet /\ recent # <<>> /\ row[recent[1]].status = "active" /\ row[recent[1]].held
               /\ row' = [row EXCEPT ![recent[1]].status = "authorization_failed", ![recent[1]].held = FALSE]
               /\ UNCHANGED <<recent, page, late, snap, off, writes, crashes>>

-----------------------------------------------------------------------------
(* The page *)

BeginSubmit(i) == /\ Quiet /\ row[i].request = "pending" /\ i \notin closed \cup validating
                  /\ validating' = validating \cup {i}
                  /\ UNCHANGED <<links, tries, closed, late, snap, off, writes, crashes>>

Accept(i) ==
    /\ row' = [row EXCEPT ![i] = [status |-> "awaiting_confirmation", held |-> TRUE,
                                  request |-> "awaiting_confirmation", pending |-> "pending"]]
    /\ Touch({i}) /\ tries' = [tries EXCEPT ![i] = @ + 1]

Reject(i) ==
    /\ tries' = [tries EXCEPT ![i] = @ + 1]
    /\ IF tries[i] + 1 < MaxTries THEN UNCHANGED links
       ELSE /\ row' = [row EXCEPT ![i].request = "failed", ![i].status = "verification_failed"]
            /\ Touch({i})

\* Rolled back: the process dies, or the database resolves a deadlock with a
\* task that revokes the integration.
EndSubmit(i) == /\ Quiet /\ i \in validating /\ validating' = validating \ {i}
                /\ Accept(i) \/ Reject(i) \/ UNCHANGED <<links, tries>>
                /\ UNCHANGED <<closed, late, snap, off, writes, crashes>>

CloseLink(i) == /\ row[i].request = "pending" /\ i \notin closed
                /\ closed' = closed \cup {i}
                /\ UNCHANGED <<links, tries, validating, late, snap, off, writes, crashes>>

-----------------------------------------------------------------------------
(* The confirmation *)

Waiting(i) == row[i].pending = "pending" /\ i \notin late

Confirm(i) == /\ Quiet /\ Waiting(i)
              /\ \/ /\ row[i].request = "awaiting_confirmation" /\ row[i].held
                    /\ row' = [row EXCEPT ![i] = [status |-> "active", held |-> TRUE,
                                                  request |-> "completed", pending |-> "executed"]]
                    /\ Touch({i}) /\ off' = FALSE
                 \/ /\ ~(row[i].request = "awaiting_confirmation" /\ row[i].held)
                    /\ row' = [row EXCEPT ![i].pending = "failed"]
                    /\ UNCHANGED <<recent, off>>
              /\ UNCHANGED <<page, late, snap, writes, crashes>>

\* cancel_pending_connection revokes the integration whatever it has become.
Cancel(i) == /\ Quiet /\ Waiting(i)
             /\ row' = [row EXCEPT ![i] = [status |-> "revoked", held |-> FALSE,
                                           request |-> "cancelled", pending |-> "cancelled"]]
             /\ Touch({i})
             /\ UNCHANGED <<page, late, snap, off, writes, crashes>>

Lapse(i) == /\ Waiting(i)
            /\ late' = late \cup {i}
            /\ UNCHANGED <<links, page, snap, off, writes, crashes>>

\* A credential that was validated, whose time to be confirmed is over.
Stale(i) == row[i].status = "awaiting_confirmation" /\ i \in late

\* expire_stale_connections: the three updates of one cycle of the worker.
ExpireStale ==
    /\ Quiet
    /\ row' = [i \in Links |->
                 [status  |-> IF Stale(i) THEN "expired" ELSE row[i].status,
                  held    |-> row[i].held /\ ~Stale(i),
                  request |-> IF i \in late /\ row[i].request = "awaiting_confirmation"
                              THEN "expired" ELSE row[i].request,
                  pending |-> IF i \in late /\ row[i].pending = "pending"
                              THEN "expired" ELSE row[i].pending]]
    /\ row' # row
    /\ Touch({i \in Links : Stale(i)})
    /\ UNCHANGED <<page, late, snap, off, writes, crashes>>

-----------------------------------------------------------------------------
(* Writes *)

\* The write is proposed for the active integration that was updated last.
Propose(k) == /\ write[k].status = None /\ Active # {} /\ Quiet
              /\ write' = [write EXCEPT ![k] = [status |-> "proposed", link |-> Among(Active)[1]]]
              /\ UNCHANGED <<links, page, late, snap, off, calling, reached, sent, crashes>>

Usable(k) == row[write[k].link].status = "active" /\ row[write[k].link].held

Set(k, status) == write' = [write EXCEPT ![k].status = status]

\* The user confirms it.
BeginWrite(k) == /\ write[k].status = "proposed" /\ k \notin calling /\ Quiet
                 /\ IF Usable(k) THEN calling' = calling \cup {k} /\ UNCHANGED write
                    ELSE Set(k, "failed") /\ UNCHANGED calling
                 /\ UNCHANGED <<links, page, late, snap, off, reached, sent, crashes>>

\* The user cancels it, or its time is over.
DropWrite(k) == /\ write[k].status = "proposed" /\ k \notin calling /\ Quiet
                /\ Set(k, "cancelled")
                /\ UNCHANGED <<links, page, late, snap, off, calling, reached, sent, crashes>>

ReachWrite(k) == /\ k \in calling \ reached
                 /\ reached' = reached \cup {k} /\ sent' = [sent EXCEPT ![k] = @ + 1]
                 /\ UNCHANGED <<links, page, late, snap, off, write, calling, crashes>>

Unanswered_Faulty(k) == Set(k, "proposed")

\* No answer: a write may have been made.
Unanswered(k) == Set(k, "outcome_unknown")

EndWrite(k) ==
    /\ k \in calling /\ calling' = calling \ {k} /\ reached' = reached \ {k} /\ Quiet
    /\ \/ Unanswered(k) /\ UNCHANGED links
       \/ k \in reached /\ Set(k, "completed") /\ Touch({write[k].link}) /\ UNCHANGED row
       \/ k \notin reached /\ Set(k, "failed") /\ UNCHANGED links
       \/ /\ k \notin reached /\ Set(k, "failed")
          /\ row' = [row EXCEPT ![write[k].link].status = "authorization_failed",
                                ![write[k].link].held = FALSE]
          /\ Touch({write[k].link})
    /\ UNCHANGED <<page, late, snap, off, sent, crashes>>

Crash(k) == /\ crashes < MaxCrashes /\ crashes' = crashes + 1
            /\ k \in calling /\ calling' = calling \ {k} /\ reached' = reached \ {k}
            /\ UNCHANGED <<links, page, late, snap, off, write, sent>>

Next == \/ \E t \in Tasks : Load(t) \/ Connect(t) \/ Disconnect(t)
        \/ CheckStatus \/ ExpireStale
        \/ \E i \in Links : \/ BeginSubmit(i) \/ EndSubmit(i) \/ CloseLink(i)
                            \/ Confirm(i) \/ Cancel(i) \/ Lapse(i)
        \/ \E k \in Writes : \/ Propose(k) \/ BeginWrite(k) \/ DropWrite(k)
                             \/ ReachWrite(k) \/ EndWrite(k) \/ Crash(k)

Spec == Init /\ [][Next]_vars

\* Time passes, the worker runs its cycle, and the tools end.
FairSpec == /\ Spec
            /\ SF_vars(ExpireStale)
            /\ \A i \in Links : WF_vars(Lapse(i))
            /\ \A t \in Tasks : WF_vars(Connect(t) \/ Disconnect(t))

-----------------------------------------------------------------------------
(* Properties *)

\* The values of the records; a connection is active after its confirmation.
TypeOK == /\ \A i \in Links :
                /\ row[i].pending \in {None, "pending", "executed", "failed", "cancelled", "expired"}
                /\ row[i].status = "active" => row[i].pending = "executed"
                /\ row[i].status = "awaiting_confirmation" => row[i].request = "awaiting_confirmation"
                                                                \/ row[i].pending = "failed"
          /\ \A k \in Writes : sent[k] \in Nat

\* A token is held by a connection that is active or waits to be confirmed, and
\* by no other, whatever was asked, given on the page, cancelled or refused.
CredentialHeld == \A i \in Links :
    /\ row[i].held => row[i].status \in {"awaiting_confirmation", "active"}
    /\ row[i].status = "active" => row[i].held

\* What was made at Bitrix24 is recorded as made or as unknown.
WrittenIsRecorded ==
    \A k \in Writes \ calling : sent[k] > 0 => write[k].status \in {"completed", "outcome_unknown"}

\* A confirmed write is made once.
WriteOnce == \A k \in Writes : sent[k] <= 1

\* A user who was told that nothing is connected has no active connection.
OffMeansOff == off => Active = {}

\* A token that was validated and is not confirmed is deleted.
UnconfirmedForgotten ==
    \A i \in Links : row[i].held /\ row[i].status = "awaiting_confirmation"
                         ~> ~row[i].held \/ row[i].status = "active"
=============================================================================
