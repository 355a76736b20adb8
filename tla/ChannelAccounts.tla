--------------------------- MODULE ChannelAccounts ---------------------------
(***************************************************************************)
(* Accounts and the chats they are reached by: a Telegram chat is linked   *)
(* by an invitation, or by a code asked for through the API; a phone, by a *)
(* code.  An administrator suspends accounts and restores them.  Messages  *)
(* are worked on for the user of their conversation.                       *)
(*                                                                         *)
(* In a private chat, the chat and the person are one: Telegram gives both *)
(* the same number.  A user has one workspace, so it is not named.         *)
(***************************************************************************)
EXTENDS Integers, FiniteSets

CONSTANTS ApiUsers,  (* users who came through the API                     *)
          Guests,    (* ids for the users that invitations create          *)
          Chats,     (* Telegram                                           *)
          Phones,    (* WhatsApp                                           *)
          Invites,
          Rows,      (* bounds the rows of channel_accounts                *)
          None

Users == ApiUsers \cup Guests
Addresses == Chats \cup Phones

AccountAssumption ==
    /\ None \notin Users \cup Addresses
    /\ ApiUsers \cap Guests = {} /\ Chats \cap Phones = {}

VARIABLES user,         (* [Users -> status of app_users]                  *)
          identity,     (* <<chat, user>>: user_identities of Telegram     *)
          invite,       (* [Invites -> row of channel_invites]             *)
          account,      (* [Rows -> row of channel_accounts]               *)
          suspension,   (* [Users -> the rows its last suspension recorded]*)
          accepting,    (* the acceptances under way, with the user found   *)
          conversation  (* [Addresses -> the user of its conversation]     *)

vars == <<user, identity, invite, account, suspension, accepting, conversation>>

InviteRow == [status: {"none", "pending", "accepted", "expired", "revoked"}, late: BOOLEAN,
              chat: Chats \cup {None}, user: Users \cup {None}]
AccountRow == [user: Users \cup {None}, kind: {"none", "telegram", "whatsapp"},
               address: Addresses \cup {None}, active: BOOLEAN, verified: BOOLEAN,
               code: {"none", "valid", "lapsed"}]
Transaction == [chat: Chats, invite: Invites, found: Users \cup {None}]
Free == [user |-> None, kind |-> "none", address |-> None, active |-> FALSE,
         verified |-> FALSE, code |-> "none"]

TypeOK ==
    /\ user \in [Users -> {"none", "active", "disabled"}]
    /\ identity \subseteq Chats \X Users
    /\ invite \in [Invites -> InviteRow]
    /\ account \in [Rows -> AccountRow]
    /\ suspension \in [Users -> SUBSET Rows]
    /\ accepting \subseteq Transaction
    /\ conversation \in [Addresses -> Users \cup {None}]
    /\ \A r \in Rows : account[r].active => account[r].verified /\ account[r].address # None

Init ==
    /\ user = [u \in Users |-> IF u \in ApiUsers THEN "active" ELSE "none"]
    /\ identity = {}
    /\ invite = [i \in Invites |-> [status |-> "none", late |-> FALSE, chat |-> None, user |-> None]]
    /\ account = [r \in Rows |-> Free]
    /\ suspension = [u \in Users |-> {}]
    /\ accepting = {}
    /\ conversation = [a \in Addresses |-> None]

RowOf(a) == {r \in Rows : account[r].address = a}
Active(r, a) == account[r].address = a /\ account[r].active
FreeRow(r) == account[r] = Free
Locked(i) == \E t \in accepting : t.invite = i

-----------------------------------------------------------------------------
(* accept_telegram_invite, from what it finds under the lock of the        *)
(* invitation to its commit.                                               *)

Acceptable_Faulty(i) == invite[i].status = "pending" /\ ~invite[i].late
Acceptable(i) == invite[i].status = "pending" /\ ~invite[i].late /\ ~Locked(i)

BeginAccept(c, i) ==
    /\ Acceptable(i)
    /\ \E u \in Users \cup {None} :
        /\ IF u = None THEN \A v \in Users : <<c, v>> \notin identity ELSE <<c, u>> \in identity
        /\ accepting' = accepting \cup {[chat |-> c, invite |-> i, found |-> u]}
    /\ UNCHANGED <<user, identity, invite, account, suspension, conversation>>

(* ON CONFLICT: the row of the chat goes to the user of the invitation.    *)
LinkChat(r, c, u) ==
    /\ IF RowOf(c) = {} THEN FreeRow(r) ELSE r \in RowOf(c)
    /\ account' = [account EXCEPT ![r] = [user |-> u, kind |-> "telegram", address |-> c,
                        active |-> TRUE, verified |-> TRUE, code |-> "none"]]

Accepted(c, i, u) ==
    invite' = [invite EXCEPT ![i].status = "accepted", ![i].chat = c, ![i].user = u]

NewIdentity_Faulty(c) == TRUE
NewIdentity(c) == \A v \in Users : <<c, v>> \notin identity

EndAccept(t, u, r) ==
    /\ \/ /\ t.found = None /\ u \in Guests /\ user[u] = "none" /\ NewIdentity(t.chat)
          /\ user' = [user EXCEPT ![u] = "active"]
          /\ identity' = identity \cup {<<t.chat, u>>}
       \/ t.found = u /\ UNCHANGED <<user, identity>>
    /\ LinkChat(r, t.chat, u)
    /\ Accepted(t.chat, t.invite, u)
    /\ accepting' = accepting \ {t}
    /\ UNCHANGED <<suspension, conversation>>

(* A lost connection, or the identity that another acceptance has stored.  *)
RollbackAccept(t) ==
    /\ accepting' = accepting \ {t}
    /\ UNCHANGED <<user, identity, invite, account, suspension, conversation>>

(* Whatever the policy asks of him, who invites has an active account.     *)
CreateInvite(i) ==
    /\ invite[i].status = "none" /\ \E u \in Users : user[u] = "active"
    /\ invite' = [invite EXCEPT ![i].status = "pending"]
    /\ UNCHANGED <<user, identity, account, suspension, accepting, conversation>>

RevokeInvite(i) ==
    /\ invite[i].status = "pending" /\ ~invite[i].late /\ ~Locked(i)
    /\ invite' = [invite EXCEPT ![i].status = "revoked"]
    /\ UNCHANGED <<user, identity, account, suspension, accepting, conversation>>

(* _expire_pending_invites, and the acceptance that comes late.            *)
ExpireInvite(i) ==
    /\ invite[i].status = "pending" /\ invite[i].late /\ ~Locked(i)
    /\ invite' = [invite EXCEPT ![i].status = "expired"]
    /\ UNCHANGED <<user, identity, account, suspension, accepting, conversation>>

InviteLate(i) ==
    /\ invite[i].status = "pending" /\ ~invite[i].late
    /\ invite' = [invite EXCEPT ![i].late = TRUE]
    /\ UNCHANGED <<user, identity, account, suspension, accepting, conversation>>

-----------------------------------------------------------------------------
(* Links by a code that lives for 15 minutes.                              *)

Coded(r, u, kind, a) ==
    account' = [account EXCEPT ![r] = [user |-> u, kind |-> kind, address |-> a,
                    active |-> FALSE, verified |-> FALSE, code |-> "valid"]]

(* The row of the user is used again when it has one that is not active.   *)
BindTelegram(u, r) ==
    LET mine == {s \in Rows : account[s].user = u /\ account[s].kind = "telegram"}
    IN /\ user[u] = "active"
       /\ \A s \in mine : ~account[s].active
       /\ IF mine = {} THEN FreeRow(r) ELSE r \in mine
       /\ Coded(r, u, "telegram", account[r].address)
       /\ UNCHANGED <<user, identity, invite, suspension, accepting, conversation>>

VerifyTelegram(r, c) ==
    /\ account[r].kind = "telegram" /\ ~account[r].active /\ account[r].code = "valid"
    /\ RowOf(c) \subseteq {r}
    /\ account' = [account EXCEPT ![r].address = c, ![r].active = TRUE,
                                  ![r].verified = TRUE, ![r].code = "none"]
    /\ UNCHANGED <<user, identity, invite, suspension, accepting, conversation>>

(* A number that another user has, or is about to have, is refused.        *)
PhoneTaken(s, u) == account[s].user # u /\ (account[s].active \/ account[s].code = "valid")

BindWhatsapp(u, r, p) ==
    /\ user[u] = "active"
    /\ \A s \in RowOf(p) : ~PhoneTaken(s, u) /\ ~account[s].active
    /\ IF RowOf(p) = {} THEN FreeRow(r) ELSE r \in RowOf(p)
    /\ Coded(r, u, "whatsapp", p)
    /\ UNCHANGED <<user, identity, invite, suspension, accepting, conversation>>

VerifyWhatsapp(r) ==
    /\ account[r].kind = "whatsapp" /\ ~account[r].active /\ account[r].code = "valid"
    /\ account' = [account EXCEPT ![r].active = TRUE, ![r].verified = TRUE, ![r].code = "none"]
    /\ UNCHANGED <<user, identity, invite, suspension, accepting, conversation>>

CodeLapses(r) ==
    /\ account[r].code = "valid"
    /\ account' = [account EXCEPT ![r].code = "lapsed"]
    /\ UNCHANGED <<user, identity, invite, suspension, accepting, conversation>>

-----------------------------------------------------------------------------
(* admin_service: disable_account and reactivate_account.                  *)

Disable(u) ==
    LET mine == {r \in Rows : account[r].user = u /\ account[r].active}
    IN /\ user[u] = "active"
       /\ user' = [user EXCEPT ![u] = "disabled"]
       /\ account' = [r \in Rows |-> IF r \in mine THEN [account[r] EXCEPT !.active = FALSE]
                                                   ELSE account[r]]
       /\ suspension' = [suspension EXCEPT ![u] = mine]
       /\ UNCHANGED <<identity, invite, accepting, conversation>>

Restorable_Faulty(u) == suspension[u]
Restorable(u) == {r \in suspension[u] : account[r].user = u /\ account[r].verified}

Reactivate(u) ==
    /\ user[u] = "disabled"
    /\ user' = [user EXCEPT ![u] = "active"]
    /\ account' = [r \in Rows |-> IF r \in Restorable(u) THEN [account[r] EXCEPT !.active = TRUE]
                                                         ELSE account[r]]
    /\ UNCHANGED <<identity, invite, suspension, accepting, conversation>>

(* ingest_telegram_text, ingest_whatsapp_text: the conversation of an      *)
(* address is made once, for the user the address has then.                *)
Message(a) ==
    /\ conversation[a] = None
    /\ \E r \in Rows : Active(r, a) /\ conversation' = [conversation EXCEPT ![a] = account[r].user]
    /\ UNCHANGED <<user, identity, invite, account, suspension, accepting>>

Next ==
    \/ \E c \in Chats, i \in Invites : BeginAccept(c, i)
    \/ \E t \in accepting : RollbackAccept(t) \/ \E u \in Users, r \in Rows : EndAccept(t, u, r)
    \/ \E i \in Invites : CreateInvite(i) \/ RevokeInvite(i) \/ ExpireInvite(i) \/ InviteLate(i)
    \/ \E u \in ApiUsers, r \in Rows : BindTelegram(u, r) \/ \E p \in Phones : BindWhatsapp(u, r, p)
    \/ \E r \in Rows : VerifyWhatsapp(r) \/ CodeLapses(r) \/ \E c \in Chats : VerifyTelegram(r, c)
    \/ \E u \in Users : Disable(u) \/ Reactivate(u)
    \/ \E a \in Addresses : Message(a)

Spec == Init /\ [][Next]_vars

-----------------------------------------------------------------------------
(* Properties.                                                             *)

(* Acceptances that run together duplicate neither a user nor a chat: an   *)
(* identity is of one user, the one of every invitation it has accepted,   *)
(* and a user that an invitation made has one identity.                    *)
NothingDuplicated ==
    /\ \A x, y \in identity : x[1] = y[1] <=> x[2] = y[2]
    /\ \A i \in Invites : invite[i].status = "accepted" => <<invite[i].chat, invite[i].user>> \in identity
    /\ \A r, s \in Rows : account[r].address # None /\ account[r].address = account[s].address => r = s

(* An invitation has one end: what was accepted is not accepted by         *)
(* another, what was revoked or expired lets no one in.                    *)
InviteEndsOnce ==
    [][\A i \in Invites : invite[i].status \notin {"none", "pending"} => invite'[i] = invite[i]]_vars

(* The end of a suspension gives back the chats that it took, and no chat  *)
(* that has gone to another user since.                                    *)
RestoredOwn ==
    [][\A u \in Users, r \in Rows :
        user[u] = "disabled" /\ user'[u] = "active" /\ account'[r] # account[r]
            => account[r].user = u /\ r \in suspension[u] /\ account'[r].active]_vars

(* While its code is valid, a phone is kept for the user who asked.        *)
CodeKept ==
    [][\A r \in Rows : account[r].kind = "whatsapp" /\ account[r].code = "valid"
            => account'[r].user = account[r].user]_vars

(* docs/10-telegram-invites-and-accounts.md:150: who has an account and    *)
(* opens an invitation goes on in the workspace he had.                    *)
KeepsWorkspace ==
    [][\A r \in Rows : account[r].active /\ account'[r].active
            => account'[r].user = account[r].user]_vars

(* docs/03-api-and-use-cases.md:182: the context of a turn is that of the  *)
(* identity its channel is linked to.                                      *)
ContextOfChannel ==
    \A a \in Addresses, r \in Rows :
        Active(r, a) /\ conversation[a] # None => conversation[a] = account[r].user
=============================================================================
