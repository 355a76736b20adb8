------------------------------ MODULE MCChannels ------------------------------
(* Small instances of what users do through their chats to get in, to      *)
(* connect MacWhisper, to be answered and to answer what they are asked,   *)
(* in one model.  A behaviour runs the one part its first state names and  *)
(* leaves the others as they begin: their sum, not their product, is       *)
(* checked.  What is proved elsewhere is an instance of the module that    *)
(* proves it, and the names are those of no other suite, so that           *)
(* one module may extend several.                                          *)
EXTENDS Naturals, FiniteSets, TLC

CONSTANTS Nobody,
          ApiUsers, Guests, Chats, Phones, Invites, AccountRows,  \* accounts
          Credentials, Contents, MaxDeliveries, MaxShown          \* MacWhisper

VARIABLES channel,
          iUser, iIdentity, iInvite, iAccount, iSuspension, iAccepting, iConversation,
          credential, message, shown, lock, creating, user, source, told, waiting,
          row, settled, ack, dep, worker, delivered, crashes,
          dSchedule, dGrant, dAction, dHorizon

accounts == <<iUser, iIdentity, iInvite, iAccount, iSuspension, iAccepting, iConversation>>
webhooks == <<credential, message, shown, lock, creating, user, source, told, waiting>>
pipeline == <<row, settled, ack, dep, worker, delivered, crashes>>
proposals == <<dSchedule, dGrant, dAction, dHorizon>>
channelVars == <<channel, accounts, webhooks, pipeline, proposals>>

(* Users of the API and those who are invited share chats, phones and      *)
(* invitations.                                                            *)
Accounts == INSTANCE ChannelAccounts WITH
    user <- iUser, identity <- iIdentity, invite <- iInvite, account <- iAccount,
    suspension <- iSuspension, accepting <- iAccepting, conversation <- iConversation,
    Rows <- AccountRows, None <- Nobody

(* URLs asked for in several chats: with answers of the channel that get   *)
(* lost after a delivery, so that it is repeated, or without.              *)
Unsure == INSTANCE MacWhisperWebhooks WITH
    MaxAttempts <- MaxDeliveries, LostAcks <- TRUE, None <- Nobody
Sure == INSTANCE MacWhisperWebhooks WITH
    MaxAttempts <- MaxDeliveries, LostAcks <- FALSE, None <- Nobody

(* One message for two workers, of which one may crash and either may lose *)
(* its lease as it works.                                                  *)
Late == INSTANCE ChannelPipelineProofs WITH
    Messages <- 1..1, Workers <- {"w1", "w2"}, NoJob <- Nobody,
    MaxAttempts <- [k \in {"message", "task", "reply", "result"} |-> IF k = "task" THEN 2 ELSE 1],
    MaxCrashes <- 1, Overrun <- TRUE

(* Two routines of one conversation, as they are first drafted.            *)
Proposals == INSTANCE ScheduleLifecycleProofs WITH
    schedule <- dSchedule, grant <- dGrant, action <- dAction, horizon <- dHorizon,
    Schedules <- {"s1", "s2"}, Messages <- 1..2, Confirms <- {2}, Cancels <- {},
    Specs <- {"mailing"}, R2Specs <- {"mailing"}, OneShot <- {},
    ActionIds <- {"a1", "a2", "a3"}, MaxRevision <- 1, None <- Nobody

ASSUME ChannelAssumptions ==
    /\ Accounts!AccountAssumption
    /\ Unsure!WebhookAssumption /\ Sure!WebhookAssumption
    /\ Late!PipelineAssumption /\ Late!JobAssumption
    /\ Proposals!LifecycleAssumption

-----------------------------------------------------------------------------
ChannelsInit ==
    /\ channel \in {"accounts", "unsure", "sure", "late", "proposals"}
    /\ Accounts!Init /\ Unsure!Init /\ Late!Init /\ Proposals!Init

Joining == /\ channel = "accounts" /\ Accounts!Next
           /\ UNCHANGED <<channel, webhooks, pipeline, proposals>>
Posting == /\ \/ channel = "unsure" /\ Unsure!Next
              \/ channel = "sure" /\ Sure!Next
           /\ UNCHANGED <<channel, accounts, pipeline, proposals>>
Replying == /\ channel = "late" /\ Late!Next
            /\ UNCHANGED <<channel, accounts, webhooks, proposals>>
Proposing == /\ channel = "proposals" /\ Proposals!Next
             /\ UNCHANGED <<channel, accounts, webhooks, pipeline>>

ChannelsNext == Joining \/ Posting \/ Replying \/ Proposing

ChannelsSpec == ChannelsInit /\ [][ChannelsNext]_channelVars

Symmetry == Permutations(ApiUsers) \cup Permutations(Guests) \cup Permutations(Chats)
            \cup Permutations(Invites)

-----------------------------------------------------------------------------
(* Properties.                                                             *)

ChannelTypes ==
    CASE channel = "accounts" -> Accounts!TypeOK
      [] channel \in {"unsure", "sure"} -> Unsure!TypeOK
      [] channel = "late" -> Late!TypeOK
      [] channel = "proposals" -> Proposals!TypeOK

(* Acceptances that run together duplicate neither a user nor a chat,      *)
(* commands in two chats make one URL, and a content that is posted again  *)
(* has no second outcome.                                                  *)
NothingDuplicated ==
    /\ channel = "accounts" => Accounts!NothingDuplicated
    /\ channel \in {"unsure", "sure"} => Unsure!OneActive /\ Unsure!OneOutcome

(* What has ended does not go on: an invitation that was accepted is not   *)
(* accepted by another, one revoked or expired lets no one in; the end of  *)
(* a suspension gives back the chats that it took, and none that has gone  *)
(* to another user since; a phone is kept for the user whose code is valid.*)
(* No end of a delivery revokes a URL that the user has.                   *)
EndsAreKept ==
    /\ Accounts!InviteEndsOnce /\ Accounts!RestoredOwn /\ Accounts!CodeKept
    /\ [][channel = "sure" => Sure!KeepsDelivered]_channelVars

(* The user is never left with an active URL that was not shown and will   *)
(* not be: /macwhisper would refuse to make another; it is in no message   *)
(* that has been settled.  Where the lease of a worker ends before its     *)
(* work, a task that ended still has its answer in the outbox, and a       *)
(* result that depends on an acknowledgment goes after it.  A grant that   *)
(* waits for the user has a pending action he can answer, also when those  *)
(* of another routine are closed.                                          *)
NobodyWaitsInVain ==
    /\ channel \in {"unsure", "sure"} => Unsure!ActiveIsReachable
    /\ channel = "late" => Late!TaskIsReported /\ Late!DependencyKept
    /\ channel = "proposals" => Proposals!PendingGrantIsAnswerable
=============================================================================
