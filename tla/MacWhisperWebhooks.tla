-------------------------- MODULE MacWhisperWebhooks --------------------------
(***************************************************************************)
(* The personal URL of a MacWhisper webhook: made by a command of the      *)
(* user, kept as a hash, shown by the one message that carries it, revoked *)
(* by the user or by the failure of that message; and the transcripts that *)
(* arrive through it, one source for each content.                         *)
(***************************************************************************)
EXTENDS Integers, FiniteSets

CONSTANTS Credentials,  (* bounds the number of URLs ever made             *)
          Chats,        (* the private chats of the user                   *)
          Contents,     (* title and transcript of a post                  *)
          None,
          MaxAttempts,  (* max_attempts of an outbox row                   *)
          MaxShown,     (* bound on the deliveries that are repeated       *)
          LostAcks      (* may a delivered message be taken for a failure? *)

WebhookAssumption ==
    /\ None \notin Chats
    /\ {MaxAttempts, MaxShown} \subseteq Nat \ {0} /\ LostAcks \in BOOLEAN

VARIABLES credential, (* [Credentials -> status of its row]                *)
          message,    (* [Credentials -> outbox row of the message with it]*)
          shown,      (* [Credentials -> how often its URL was delivered]  *)
          lock,       (* the chat whose command holds the row of the user  *)
          creating,   (* the chats whose command found no active URL       *)
          user,       (* status of the account                             *)
          source,     (* [Credentials -> [Contents -> status of a source]] *)
          told,       (* the outcomes told to the user                     *)
          waiting     (* the contents posted since their last outcome      *)

vars == <<credential, message, shown, lock, creating, user, source, told, waiting>>
keys == <<credential, message, shown, lock, creating>>
posts == <<source, told, waiting>>

Row == [status: {"none", "pending", "sending", "sent", "failed"},
        attempts: 0..MaxAttempts, url: BOOLEAN]

TypeOK ==
    /\ credential \in [Credentials -> {"none", "active", "revoked"}]
    /\ message \in [Credentials -> Row]
    /\ shown \in [Credentials -> 0..MaxShown]
    /\ lock \in Chats \cup {None} /\ creating = {lock} \ {None}
    /\ user \in {"active", "disabled"}
    /\ source \in [Credentials -> [Contents -> {"none", "received", "processed", "failed"}]]
    /\ told \subseteq Credentials \X Contents \X {"processed", "failed"}
    /\ waiting \subseteq Contents

Init ==
    /\ credential = [c \in Credentials |-> "none"]
    /\ message = [c \in Credentials |-> [status |-> "none", attempts |-> 0, url |-> FALSE]]
    /\ shown = [c \in Credentials |-> 0]
    /\ lock = None /\ creating = {}
    /\ user = "active"
    /\ source = [c \in Credentials |-> [k \in Contents |-> "none"]]
    /\ told = {} /\ waiting = {}

Active == {c \in Credentials : credential[c] = "active"}

-----------------------------------------------------------------------------
(* /macwhisper and /revogarmacwhisper, in one of the chats.                *)

UserUnlocked == lock = None

(* With an active URL the command shows nothing and changes nothing.       *)
CheckNone(h) ==
    /\ UserUnlocked /\ h \notin creating
    /\ user = "active" /\ Active = {}
    /\ lock' = h /\ creating' = creating \cup {h}
    /\ UNCHANGED <<credential, message, shown, user, posts>>

(* The credential and the message that carries its URL are one commit.     *)
CreateCredential(h, c) ==
    /\ h \in creating /\ credential[c] = "none"
    /\ credential' = [credential EXCEPT ![c] = "active"]
    /\ message' = [message EXCEPT ![c] = [status |-> "pending", attempts |-> 0, url |-> TRUE]]
    /\ lock' = None /\ creating' = creating \ {h}
    /\ UNCHANGED <<shown, user, posts>>

Rollback(h) ==
    /\ h \in creating
    /\ lock' = None /\ creating' = creating \ {h}
    /\ UNCHANGED <<credential, message, shown, user, posts>>

RevokeCredential(h) ==
    /\ h \notin creating /\ Active # {}
    /\ credential' = [c \in Credentials |-> IF c \in Active THEN "revoked" ELSE credential[c]]
    /\ UNCHANGED <<message, shown, lock, creating, user, posts>>

-----------------------------------------------------------------------------
(* The message with the URL in the outbox: channel_jobs.                   *)

ClaimOutbox(c) ==
    /\ message[c].status = "pending"
    /\ message' = [message EXCEPT ![c].status = "sending",
                   ![c].attempts = IF @ < MaxAttempts THEN @ + 1 ELSE @]
    /\ UNCHANGED <<credential, shown, lock, creating, user, posts>>

Redacted(c, status) == [message EXCEPT ![c].status = status, ![c].url = FALSE]

(* The exception path of process_outbox_message: the last failure revokes  *)
(* the credential of this message and no other.                            *)
FailDelivery_Faulty(c) ==
    IF message[c].attempts < MaxAttempts
    THEN message' = [message EXCEPT ![c].status = "pending"] /\ UNCHANGED credential
    ELSE message' = Redacted(c, "failed") /\ UNCHANGED credential

FailDelivery(c) ==
    IF message[c].attempts < MaxAttempts
    THEN message' = [message EXCEPT ![c].status = "pending"] /\ UNCHANGED credential
    ELSE /\ message' = Redacted(c, "failed")
         /\ credential' = [credential EXCEPT ![c] = "revoked"]

Deliver(c) ==
    /\ message[c].status = "sending" /\ shown[c] < MaxShown
    /\ message' = Redacted(c, "sent")
    /\ shown' = [shown EXCEPT ![c] = @ + 1]
    /\ UNCHANGED <<credential, lock, creating, user, posts>>

DeliveryFails(c) ==
    /\ message[c].status = "sending"
    /\ \/ UNCHANGED shown
       \/ LostAcks /\ shown[c] < MaxShown /\ shown' = [shown EXCEPT ![c] = @ + 1]
    /\ FailDelivery(c)
    /\ UNCHANGED <<lock, creating, user, posts>>

(* A worker dies while it sends: the lease lapses, the row is claimed as   *)
(* a pending one.                                                          *)
DeliveryDies(c) ==
    /\ message[c].status = "sending"
    /\ message' = [message EXCEPT ![c].status = "pending"]
    /\ \/ UNCHANGED shown
       \/ LostAcks /\ shown[c] < MaxShown /\ shown' = [shown EXCEPT ![c] = @ + 1]
    /\ UNCHANGED <<credential, lock, creating, user, posts>>

-----------------------------------------------------------------------------
(* ingest_webhook, under the lock of the credential: a content it has seen *)
(* is answered as a replay, whatever became of its source.                 *)
Ingested(c, k) == IF source[c][k] = "none" THEN [source EXCEPT ![c][k] = "received"] ELSE source

PostWebhook(c, k) ==
    /\ credential[c] = "active" /\ shown[c] > 0
    /\ user = "active"
    /\ source' = Ingested(c, k)
    /\ waiting' = IF source[c][k] = "processed" THEN waiting ELSE waiting \cup {k}
    /\ UNCHANGED <<keys, user, told>>

(* The end of the job of the source, and the notice about it, which goes   *)
(* to the active chat of the user, if there is one.                        *)
EndJob(c, k, outcome) ==
    /\ source[c][k] = "received"
    /\ source' = [source EXCEPT ![c][k] = outcome]
    /\ told' = IF user = "active" THEN told \cup {<<c, k, outcome>>} ELSE told
    /\ waiting' = waiting \ {k}
    /\ UNCHANGED <<keys, user>>

SetUser ==
    /\ user' = IF user = "active" THEN "disabled" ELSE "active"
    /\ UNCHANGED <<keys, posts>>

Outbox(c) == ClaimOutbox(c) \/ Deliver(c) \/ DeliveryFails(c) \/ DeliveryDies(c)
Work(c, k) == \E outcome \in {"processed", "failed"} : EndJob(c, k, outcome)

Next ==
    \/ \E h \in Chats : CheckNone(h) \/ Rollback(h) \/ RevokeCredential(h)
    \/ \E h \in Chats, c \in Credentials : CreateCredential(h, c)
    \/ \E c \in Credentials : Outbox(c)
    \/ \E c \in Credentials, k \in Contents : PostWebhook(c, k) \/ Work(c, k)
    \/ SetUser

Spec == Init /\ [][Next]_vars
FairSpec == Spec /\ \A c \in Credentials, k \in Contents : WF_vars(Work(c, k))

-----------------------------------------------------------------------------
(* Properties.                                                             *)

(* The user is never left with an active URL that was not shown and will   *)
(* not be: /macwhisper would refuse to make another.  And it is kept in no *)
(* message that has been settled.                                          *)
ActiveIsReachable ==
    \A c \in Credentials :
        /\ c \in Active => shown[c] > 0 \/ message[c].status \in {"pending", "sending"}
        /\ message[c].url => message[c].status \in {"pending", "sending"}

(* Two commands in two chats make one URL.                                 *)
OneActive == Cardinality(Active) <= 1

(* No end of a delivery revokes a URL that the user has: only the user     *)
(* does.                                                                   *)
KeepsDelivered ==
    \A c \in Credentials : shown[c] > 0 /\ credential[c] = "active" /\ credential'[c] = "revoked"
        => UNCHANGED message
DeliveredIsKept == [][KeepsDelivered]_vars

(* A content that is posted again has no second outcome.                   *)
OneOutcome ==
    \A c \in Credentials, k \in Contents :
        \A o \in {"processed", "failed"} : <<c, k, o>> \in told => source[c][k] = o

(* docs/17-macwhisper-new-user-guide.md:150: the URL is shown once.        *)
ShownOnce == \A c \in Credentials : shown[c] <= 1

(* docs/17-macwhisper-new-user-guide.md:128: the same content posted again *)
(* makes no other source.                                                  *)
OneSourcePerContent ==
    \A k \in Contents : Cardinality({c \in Credentials : source[c][k] # "none"}) <= 1

(* integrations/macwhisper/service.py:329: a content that failed may be    *)
(* posted again, and has then another outcome.                             *)
PostIsSettled == \A k \in Contents : k \in waiting ~> k \notin waiting
=============================================================================
