----------------------------- MODULE ServiceProofs -----------------------------
(***************************************************************************)
(* The properties of MCIntegrations and MCChannels, for any calls, links,  *)
(* accounts, users, chats, invitations and URLs.  A behaviour of a suite   *)
(* is one of each of its parts.  External actions, the pipeline of a       *)
(* conversation and the drafts of a chat keep what their own modules       *)
(* prove; the other parts have an inductive invariant each, BitrixInv,     *)
(* LinkedInv, ReadingInv, AccountsInv and WebhooksInv, proved here for the *)
(* instances themselves.                                                   *)
(***************************************************************************)
EXTENDS MCIntegrations, MCChannels, FiniteSetTheorems, WellFoundedInduction, TLAPS

-----------------------------------------------------------------------------
(* A behaviour of the whole is one of each part.                           *)

LEMMA PartStays == [Next]_vars => part' = part
  BY DEF Next, Confirmed, Scheduled, Bitrix24, Linking, Merging, vars

(* The parts with a confirmed task begin alike.                            *)
LEMMA BeginAlike == Overrunning!Init => Crashing!Init
  BY DEF Overrunning!Init, Crashing!Init, Overrunning!Keys, Crashing!Keys,
         Overrunning!Processes, Crashing!Processes

LEMMA OverrunningGoesOn == Spec => (~(part = "crashing") => Overrunning!Spec)
  <1> DEFINE Other == ~(part = "crashing")
  <1>1. Init => Overrunning!Init
    BY DEF Init
  <1>2. [Next]_vars => (Other => [Overrunning!Next]_(Overrunning!vars)) /\ (Other' <=> Other)
    BY DEF Next, vars, confirmed, Overrunning!vars, Overrunning!data, Overrunning!time,
           Overrunning!user, Overrunning!world, Confirmed, Scheduled, Bitrix24, Linking, Merging
  <1>3. QED
    BY <1>1, <1>2, PTL DEF Spec, Overrunning!Spec

LEMMA CrashingGoesOn == Spec => (part = "crashing" => Crashing!Spec)
  <1> DEFINE This == part = "crashing"
  <1>1. Init => Crashing!Init
    BY BeginAlike DEF Init
  <1>2. [Next]_vars => (This => [Crashing!Next]_(Crashing!vars)) /\ (This' <=> This)
    BY DEF Next, vars, confirmed, Crashing!vars, Crashing!data, Crashing!time,
           Crashing!user, Crashing!world, Confirmed, Scheduled, Bitrix24, Linking, Merging
  <1>3. QED
    BY <1>1, <1>2, PTL DEF Spec, Crashing!Spec

LEMMA RunningGoesOn == Spec => Running!Spec
  <1>1. Init => Running!Init
    BY DEF Init
  <1>2. [Next]_vars => [Running!Next]_(Running!vars)
    BY DEF Next, vars, scheduled, Running!vars, Running!data, Running!time,
           Running!user, Running!world, Confirmed, Scheduled, Bitrix24, Linking, Merging
  <1>3. QED
    BY <1>1, <1>2, PTL DEF Spec, Running!Spec

-----------------------------------------------------------------------------
(* The theorems.                                                           *)

LEMMA KeysAreFinite == Running!IsFiniteSet(Running!Keys)
  <1>1. IsFiniteSet({"c1", "c2"}) /\ IsFiniteSet({} \cup {"x", "y"})
    <2>1. {"c1", "c2"} = {"c1"} \cup {"c2"} /\ {} \cup {"x", "y"} = {"x"} \cup {"y"}
      OBVIOUS
    <2>2. IsFiniteSet({"c1"}) /\ IsFiniteSet({"c2"}) /\ IsFiniteSet({"x"}) /\ IsFiniteSet({"y"})
      BY FS_Singleton
    <2>3. IsFiniteSet({"c1"} \cup {"c2"}) /\ IsFiniteSet({"x"} \cup {"y"})
      BY <2>2, FS_Union
    <2>4. QED
      BY <2>1, <2>3
  <1>2. IsFiniteSet({"c1", "c2"} \X ({} \cup {"x", "y"}))
    BY <1>1, FS_Product
  <1>3. QED
    BY <1>2 DEF IsFiniteSet, Running!IsFiniteSet, Running!Keys

(* Outside a routine nothing is written without the confirmation of that   *)
(* very call, and the run of a routine keeps to the writes of its grant:   *)
(* conversation/tools.py and integrations/composio/service.py, with        *)
(* crashes, lost leases and repeated calls.                                *)
THEOREM WritesStayAuthorised == Spec => []WritesAreAuthorised
  <1> DEFINE Lost == part = "crashing"
  <1>1. [Next]_vars => (Lost' <=> Lost)
    BY PartStays
  <1>2. Overrunning!Spec => []Overrunning!WritesAreConfirmed
    BY IntegrationAssumptions, Overrunning!ConfirmedBeforeWritten
  <1>3. Crashing!Spec => []Crashing!WritesAreConfirmed
    BY IntegrationAssumptions, Crashing!ConfirmedBeforeWritten
  <1>4. Crashing!WritesAreConfirmed => Overrunning!WritesAreConfirmed
    BY DEF Crashing!WritesAreConfirmed, Overrunning!WritesAreConfirmed, Crashing!Keys,
           Overrunning!Keys, Crashing!Write, Overrunning!Write
  <1>5. Running!Spec => []Running!WithinLimit
    BY IntegrationAssumptions, KeysAreFinite, Running!GrantIsKept
  <1>6. Overrunning!WritesAreConfirmed /\ Running!WithinLimit => WritesAreAuthorised
    BY DEF WritesAreAuthorised
  <1>7. QED
    BY <1>1, <1>2, <1>3, <1>4, <1>5, <1>6, OverrunningGoesOn, CrashingGoesOn, RunningGoesOn,
       PTL DEF Spec

(* What is over writes no more: a pending action that is closed, and the   *)
(* write a run has made and recorded.                                      *)
THEOREM DoneStaysDone == Spec => DoneNotRepeated
  <1> DEFINE Lost == part = "crashing"
             Quiet == \A k \in Overrunning!Keys :
                          cPendings[k] \in Overrunning!Closed => cSent'[k] = cSent[k]
             Silent == \A k \in Crashing!Keys :
                          cPendings[k] \in Crashing!Closed => cSent'[k] = cSent[k]
  <1>1. [Next]_vars => (Lost' <=> Lost)
    BY PartStays
  <1>2. Overrunning!Spec => Overrunning!NothingAfterClose
    BY IntegrationAssumptions, Overrunning!ClosedWritesNoMore
  <1>3. Crashing!Spec => Crashing!NothingAfterClose
    BY IntegrationAssumptions, Crashing!ClosedWritesNoMore
  <1>4. [Silent]_(Crashing!vars) => [Quiet]_(Overrunning!vars)
    BY DEF Crashing!Keys, Overrunning!Keys, Crashing!Closed, Overrunning!Closed,
           Crashing!vars, Overrunning!vars, Crashing!data, Overrunning!data,
           Crashing!time, Overrunning!time, Crashing!user, Overrunning!user,
           Crashing!world, Overrunning!world
  <1>5. Running!Spec => Running!KnownNotRepeated
    BY IntegrationAssumptions, Running!KnownWriteNotRepeated
  <1>6. Spec => Overrunning!NothingAfterClose
    BY <1>1, <1>2, <1>3, <1>4, OverrunningGoesOn, CrashingGoesOn, PTL
       DEF Spec, Overrunning!NothingAfterClose, Crashing!NothingAfterClose
  <1>7. QED
    BY <1>5, <1>6, RunningGoesOn, PTL DEF DoneNotRepeated

-----------------------------------------------------------------------------
(* Linked accounts.  While the task has loaded the accounts, the page may  *)
(* connect one that was waiting and nothing else changes, so what it finds *)
(* lost was so when it loaded it; and what is expired is so for good.      *)

Statuses == {"pending", "initiated", "active", "expired", "verification_failed"}
Said == {"initiated", "active", "expired", "verification_failed"}

LinkedTyped ==
    /\ eStatus \in [Linked!Accounts -> Statuses \cup {None}]
    /\ eRemote \in [Linked!Accounts -> {"initiated", "active", "expired", None}]
    /\ ePage \in [Linked!Accounts -> {"found", "registered", None}]
    /\ eDefault \subseteq Linked!Accounts

(* Accounts are numbered as they are asked for.                            *)
UpTo(k) == \A i \in Linked!Accounts : eStatus[i] # None <=> i <= k
Numbered == \E k \in 0..MaxAccounts : UpTo(k)

(* What the provider has of an account.                                    *)
RemoteAgrees == \A i \in Linked!Accounts :
    /\ eStatus[i] = None <=> eRemote[i] = None
    /\ eStatus[i] = "active" => eRemote[i] \in {"active", "expired"}
    /\ eStatus[i] = "expired" => eRemote[i] = "expired"
    /\ ePage[i] = "found" => eRemote[i] \in {"active", "expired"}
    /\ i \in eDefault => eStatus[i] # None

(* What the task has loaded, and what it was told since.                   *)
LoadedHolds == eSnap[Task] # None => \A i \in Linked!Accounts :
    /\ \/ eSnap[Task].loaded[i] = eStatus[i]
       \/ eSnap[Task].loaded[i] = "pending" /\ eStatus[i] = "active"
    /\ eSnap[Task].said[i] \in Said \cup {None}
    /\ eSnap[Task].said[i] = "active" => eRemote[i] \in {"active", "expired"}
    /\ eSnap[Task].said[i] = "expired" => eRemote[i] = "expired"
    /\ eStatus[i] = "expired" => eSnap[Task].said[i] \in {"expired", "verification_failed", None}

SnapTyped ==
    /\ eSnap = [t \in {Task} |-> eSnap[t]]
    /\ eSnap[Task] # None =>
          /\ eSnap[Task] = [loaded |-> eSnap[Task].loaded, said |-> eSnap[Task].said]
          /\ eSnap[Task].said \in [Linked!Accounts -> Said \cup {None}]

(* The account that was made primary is the only default one.              *)
PrimaryHolds == ePrimary # None =>
    /\ ePrimary \in Linked!Accounts /\ eDefault = {ePrimary} /\ eStatus[ePrimary] = "active"
    /\ eSnap[Task] # None => eSnap[Task].loaded[ePrimary] = "active"

LinkedInv == LinkedTyped /\ Numbered /\ RemoteAgrees /\ SnapTyped /\ LoadedHolds /\ PrimaryHolds

LEMMA NoneIsNoStatus == None \notin Statuses \cup {"found", "registered"} /\ MaxAccounts \in Nat
  BY IntegrationAssumptions DEF Linked!AccountsAssumption, Statuses

LEMMA LinkedBegins == Linked!Init => LinkedInv
  <1> SUFFICES ASSUME Linked!Init
               PROVE  LinkedInv
    OBVIOUS
  <1>1. LinkedTyped
    BY DEF Linked!Init, LinkedTyped
  <1>2. Numbered
    <2>1. 0 \in 0..MaxAccounts /\ \A i \in Linked!Accounts : ~(i <= 0) /\ eStatus[i] = None
      BY NoneIsNoStatus DEF Linked!Init, Linked!Accounts
    <2>2. UpTo(0)
      BY <2>1 DEF UpTo
    <2>3. QED
      BY <2>1, <2>2 DEF Numbered
  <1>3. RemoteAgrees
    BY NoneIsNoStatus DEF Linked!Init, RemoteAgrees, Statuses
  <1>4. eSnap[Task] = None /\ SnapTyped
    BY DEF Linked!Init, SnapTyped
  <1>5. LoadedHolds /\ PrimaryHolds
    BY <1>4 DEF Linked!Init, LoadedHolds, PrimaryHolds
  <1>6. QED
    BY <1>1, <1>2, <1>3, <1>4, <1>5 DEF LinkedInv

(* Nothing that was found lost comes back, nothing that is connected is    *)
(* put out of use by a check, and the primary account stays the only       *)
(* default one.                                                            *)
LinkedStep ==
    /\ LinkedInv'
    /\ \A i \in Linked!Accounts : eStatus[i] = "expired" => eStatus'[i] = "expired"
    /\ \A i \in Linked!Accounts : eStatus[i] = "active" /\ eStatus'[i] = "verification_failed" =>
          \E n \in Linked!Accounts : eStatus[n] = None /\ eStatus'[n] = "pending"

LEMMA LoadKeeps ==
    ASSUME LinkedInv, Linked!Load(Task)
    PROVE  LinkedStep
  <1> DEFINE s == [loaded |-> eStatus, said |-> [i \in Linked!Accounts |-> None]]
  <1>1. /\ LinkedTyped /\ Numbered /\ RemoteAgrees /\ SnapTyped /\ PrimaryHolds
        /\ UNCHANGED <<eStatus, eDefault, eRemote, ePage, ePrimary>>
        /\ eSnap' = [eSnap EXCEPT ![Task] = s]
    BY DEF LinkedInv, Linked!Load
  <1>2. eSnap'[Task] = s /\ eSnap' = [t \in {Task} |-> eSnap'[t]]
    BY <1>1 DEF SnapTyped
  <1>3. LinkedTyped' /\ Numbered' /\ RemoteAgrees'
    BY <1>1 DEF LinkedTyped, Numbered, UpTo, RemoteAgrees
  <1>4. /\ s = [loaded |-> s.loaded, said |-> s.said] /\ s.loaded = eStatus
        /\ s.said \in [Linked!Accounts -> Said \cup {None}]
        /\ \A i \in Linked!Accounts : s.said[i] = None
    OBVIOUS
  <1> HIDE DEF s
  <1>5. SnapTyped'
    BY <1>2, <1>4 DEF SnapTyped
  <1>6. LoadedHolds'
    BY <1>1, <1>2, <1>4, NoneIsNoStatus DEF LoadedHolds, Statuses
  <1>7. PrimaryHolds'
    BY <1>1, <1>2, <1>4 DEF PrimaryHolds
  <1>8. QED
    BY <1>1, <1>3, <1>5, <1>6, <1>7, NoneIsNoStatus DEF LinkedStep, LinkedInv, Statuses

LEMMA AskKeeps ==
    ASSUME LinkedInv, NEW a \in Linked!Accounts, Linked!Ask(Task, a)
    PROVE  LinkedStep
  <1>1. PICK r \in {eRemote[a], "verification_failed"} : eSnap' = [eSnap EXCEPT ![Task].said[a] = r]
    BY DEF Linked!Ask
  <1>2. /\ LinkedTyped /\ Numbered /\ RemoteAgrees /\ SnapTyped /\ LoadedHolds /\ PrimaryHolds
        /\ UNCHANGED <<eStatus, eDefault, eRemote, ePage, ePrimary>>
        /\ eSnap[Task] # None /\ eSnap[Task].loaded[a] # None
    BY DEF LinkedInv, Linked!Ask, Linked!Known
  <1> DEFINE said == eSnap[Task].said
             loaded == eSnap[Task].loaded
             s == [loaded |-> loaded, said |-> [said EXCEPT ![a] = r]]
  <1>3. eSnap[Task] = [loaded |-> loaded, said |-> said] /\ said \in [Linked!Accounts -> Said \cup {None}]
    BY <1>2 DEF SnapTyped
  <1> HIDE DEF loaded, said
  <1>4. eSnap'[Task] = s /\ eSnap' = [t \in {Task} |-> eSnap'[t]]
    <2>1. [eSnap[Task] EXCEPT !.said[a] = r] = s
      BY <1>3
    <2>2. eSnap' = [eSnap EXCEPT ![Task] = [eSnap[Task] EXCEPT !.said[a] = r]]
      BY <1>1
    <2>3. eSnap' = [eSnap EXCEPT ![Task] = s]
      BY <2>1, <2>2
    <2> HIDE DEF s
    <2>4. QED
      BY <1>2, <2>3 DEF SnapTyped
  <1>5. LinkedTyped' /\ Numbered' /\ RemoteAgrees'
    BY <1>2 DEF LinkedTyped, Numbered, UpTo, RemoteAgrees
  <1>6. r \in Said /\ (r = "verification_failed" \/ r = eRemote[a])
    <2>1. eStatus[a] # None
      BY <1>2, NoneIsNoStatus DEF LoadedHolds, loaded, Statuses
    <2>2. eRemote[a] # None /\ eRemote[a] \in {"initiated", "active", "expired", None}
      BY <1>2, <2>1 DEF RemoteAgrees, LinkedTyped
    <2>3. QED
      BY <1>1, <2>2 DEF Said
  <1>7. /\ s.loaded = loaded /\ s.said \in [Linked!Accounts -> Said \cup {None}]
        /\ s = [loaded |-> s.loaded, said |-> s.said]
        /\ s.said[a] = r /\ \A i \in Linked!Accounts : i # a => s.said[i] = said[i]
    BY <1>3, <1>6
  <1> HIDE DEF s
  <1>8. SnapTyped'
    BY <1>4, <1>7 DEF SnapTyped
  <1>9. LoadedHolds'
    <2>1. SUFFICES ASSUME NEW i \in Linked!Accounts
                   PROVE  /\ \/ s.loaded[i] = eStatus[i]
                             \/ s.loaded[i] = "pending" /\ eStatus[i] = "active"
                          /\ s.said[i] \in Said \cup {None}
                          /\ s.said[i] = "active" => eRemote[i] \in {"active", "expired"}
                          /\ s.said[i] = "expired" => eRemote[i] = "expired"
                          /\ eStatus[i] = "expired" =>
                                s.said[i] \in {"expired", "verification_failed", None}
      BY <1>2, <1>4 DEF LoadedHolds
    <2>2. /\ \/ loaded[i] = eStatus[i]
             \/ loaded[i] = "pending" /\ eStatus[i] = "active"
          /\ said[i] \in Said \cup {None}
          /\ said[i] = "active" => eRemote[i] \in {"active", "expired"}
          /\ said[i] = "expired" => eRemote[i] = "expired"
          /\ eStatus[i] = "expired" => said[i] \in {"expired", "verification_failed", None}
      BY <1>2 DEF LoadedHolds, loaded, said
    <2>3. eStatus[i] = "expired" => eRemote[i] = "expired"
      BY <1>2 DEF RemoteAgrees
    <2>4. QED
      BY <1>6, <1>7, <2>2, <2>3
  <1>10. PrimaryHolds'
    BY <1>2, <1>4, <1>7 DEF PrimaryHolds, loaded
  <1>11. QED
    BY <1>2, <1>5, <1>8, <1>9, <1>10, NoneIsNoStatus DEF LinkedStep, LinkedInv, Statuses

(* A check writes what the provider said, of the accounts of which it said *)
(* anything.                                                               *)
LEMMA CheckEnds ==
    ASSUME LinkedInv, Linked!EndCheck(Task)
    PROVE  LinkedStep
  <1> DEFINE said == eSnap[Task].said
             loaded == eSnap[Task].loaded
  <1>1. /\ LinkedTyped /\ Numbered /\ RemoteAgrees /\ SnapTyped /\ LoadedHolds /\ PrimaryHolds
        /\ eSnap[Task] # None /\ eSnap' = [eSnap EXCEPT ![Task] = None]
        /\ UNCHANGED <<eDefault, eRemote, ePage>>
        /\ Linked!Watch
    BY DEF LinkedInv, Linked!EndCheck
  <1>2. /\ eStatus' = [i \in Linked!Accounts |-> eStatus'[i]]
        /\ \A i \in Linked!Accounts :
              \/ eStatus'[i] = eStatus[i]
              \/ /\ eStatus'[i] = said[i] /\ said[i] \notin {None, "verification_failed"}
                 /\ loaded[i] # None /\ said[i] # loaded[i]
    BY DEF Linked!EndCheck, Linked!Verified, Linked!Known
  <1>3. ASSUME NEW i \in Linked!Accounts
        PROVE  /\ loaded[i] = eStatus[i] \/ (loaded[i] = "pending" /\ eStatus[i] = "active")
               /\ said[i] \in Said \cup {None}
               /\ said[i] = "active" => eRemote[i] \in {"active", "expired"}
               /\ said[i] = "expired" => eRemote[i] = "expired"
               /\ eStatus[i] = "expired" => said[i] \in {"expired", "verification_failed", None}
    BY <1>1 DEF LoadedHolds
  <1> HIDE DEF said, loaded
  <1>4. ASSUME NEW i \in Linked!Accounts
        PROVE  /\ eStatus'[i] \in Statuses \cup {None}
               /\ eStatus[i] = None <=> eStatus'[i] = None
               /\ eStatus'[i] = "active" => eRemote[i] \in {"active", "expired"}
               /\ eStatus'[i] = "expired" => eRemote[i] = "expired"
               /\ eStatus[i] = "expired" => eStatus'[i] = "expired"
               /\ eStatus'[i] = "verification_failed" => eStatus[i] = "verification_failed"
    <2>1. eStatus[i] \in Statuses \cup {None}
      BY <1>1 DEF LinkedTyped
    <2>2. eStatus'[i] \in Statuses \cup {None} /\ (eStatus[i] = None <=> eStatus'[i] = None)
      BY <1>2, <1>3, <2>1, NoneIsNoStatus DEF Said, Statuses
    <2>3. /\ eStatus'[i] = "active" => eRemote[i] \in {"active", "expired"}
          /\ eStatus'[i] = "expired" => eRemote[i] = "expired"
      BY <1>1, <1>2, <1>3 DEF RemoteAgrees
    <2>4. QED
      BY <1>2, <1>3, <2>2, <2>3, NoneIsNoStatus DEF Statuses
  <1>5. eSnap'[Task] = None /\ SnapTyped' /\ LoadedHolds'
    BY <1>1 DEF SnapTyped, LoadedHolds
  <1>6. LinkedTyped'
    BY <1>1, <1>2, <1>4 DEF LinkedTyped
  <1>7. Numbered'
    <2>1. PICK k \in 0..MaxAccounts : UpTo(k)
      BY <1>1 DEF Numbered
    <2>2. UpTo(k)'
      BY <1>4, <2>1 DEF UpTo
    <2>3. QED
      BY <2>2 DEF Numbered
  <1>8. RemoteAgrees'
    BY <1>1, <1>4 DEF RemoteAgrees
  <1>9. PrimaryHolds'
    BY <1>1, <1>5 DEF PrimaryHolds, Linked!Watch
  <1>10. QED
    BY <1>4, <1>5, <1>6, <1>7, <1>8, <1>9, NoneIsNoStatus DEF LinkedInv, LinkedStep, Statuses

(* The next account is the one after all that were asked for.              *)
LEMMA NextIsFresh ==
    ASSUME Numbered, LinkedTyped, Linked!Cardinality({i \in Linked!Accounts : eStatus[i] # None}) + 1
                                      \in Linked!Accounts
    PROVE  LET n == Linked!Cardinality({i \in Linked!Accounts : eStatus[i] # None}) + 1
           IN  UpTo(n - 1) /\ eStatus[n] = None
  <1> DEFINE old == {i \in Linked!Accounts : eStatus[i] # None}
  <1>1. PICK k \in 0..MaxAccounts : UpTo(k)
    BY DEF Numbered
  <1>2. k \in Nat /\ old = 1..k
    BY <1>1, NoneIsNoStatus DEF UpTo, Linked!Accounts
  <1> HIDE DEF old
  <1>3. Cardinality(1..k) = k
    <2>1. Cardinality(1..k) = IF 1 > k THEN 0 ELSE k - 1 + 1
      BY <1>2, FS_Interval
    <2>2. QED
      BY <1>2, <2>1
  <1>4. Linked!Cardinality(old) = Cardinality(old)
    BY DEF Linked!Cardinality, Cardinality
  <1>5. Linked!Cardinality(old) + 1 = k + 1
    BY <1>2, <1>3, <1>4
  <1>6. k + 1 \in Linked!Accounts => eStatus[k + 1] = None
    BY <1>1, <1>2 DEF UpTo
  <1>7. (k + 1) - 1 = k
    BY <1>2
  <1>8. QED
    BY <1>1, <1>5, <1>6, <1>7 DEF old

(* The link of a new account, which may put the account in use out of use. *)
LEMMA LinkKeeps ==
    ASSUME LinkedInv, eSnap[Task] # None, eSnap' = [eSnap EXCEPT ![Task] = None],
           UNCHANGED ePage, NEW drop, Linked!Link(Task, drop),
           drop \subseteq {i \in Linked!Accounts :
                              /\ eSnap[Task].loaded[i] = "active"
                              /\ eSnap[Task].said[i] \notin {None, "active"}}
    PROVE  LinkedStep
  <1> DEFINE said == eSnap[Task].said
             loaded == eSnap[Task].loaded
             n == Linked!Cardinality({i \in Linked!Accounts : eStatus[i] # None}) + 1
  <1>1. /\ LinkedTyped /\ Numbered /\ RemoteAgrees /\ SnapTyped /\ LoadedHolds /\ PrimaryHolds
        /\ n \in Linked!Accounts /\ eStatus' = Linked!Linked(Task, n, drop)
        /\ eDefault' = Linked!Default(n, loaded)
        /\ eRemote' = [eRemote EXCEPT ![n] = "initiated"]
        /\ Linked!Watch
    BY DEF LinkedInv, Linked!Link
  <1>2. UpTo(n - 1) /\ eStatus[n] = None
    BY <1>1, NextIsFresh
  <1>3. n \in Nat /\ n >= 1 /\ n <= MaxAccounts
    BY <1>1, NoneIsNoStatus DEF Linked!Accounts
  <1> HIDE DEF n
  <1>4. ASSUME NEW i \in Linked!Accounts
        PROVE  /\ loaded[i] = eStatus[i] \/ (loaded[i] = "pending" /\ eStatus[i] = "active")
               /\ said[i] \in Said \cup {None}
               /\ said[i] = "active" => eRemote[i] \in {"active", "expired"}
               /\ said[i] = "expired" => eRemote[i] = "expired"
               /\ eStatus[i] = "expired" => said[i] \in {"expired", "verification_failed", None}
    BY <1>1 DEF LoadedHolds
  <1>5. eStatus' = [i \in Linked!Accounts |-> CASE i = n -> "pending"
                                               [] i \in drop -> said[i]
                                               [] OTHER -> eStatus[i]]
    BY <1>1 DEF Linked!Linked
  <1>6. \A i \in drop : i # n /\ i \in Linked!Accounts /\ loaded[i] = "active"
                        /\ said[i] \notin {None, "active"}
    BY <1>1, <1>2, <1>4, NoneIsNoStatus DEF Statuses
  <1> HIDE DEF said, loaded
  <1>7. /\ eStatus'[n] = "pending"
        /\ \A i \in Linked!Accounts : i # n /\ i \in drop => eStatus'[i] = said[i]
        /\ \A i \in Linked!Accounts : i # n /\ i \notin drop => eStatus'[i] = eStatus[i]
    BY <1>1, <1>5, <1>6
  <1>8. /\ eRemote'[n] = "initiated" /\ eRemote' \in [Linked!Accounts -> {"initiated", "active", "expired", None}]
        /\ \A i \in Linked!Accounts : i # n => eRemote'[i] = eRemote[i]
    BY <1>1 DEF LinkedTyped
  <1>9. ASSUME NEW i \in Linked!Accounts, i # n
        PROVE  /\ eStatus'[i] \in Statuses \cup {None}
               /\ eStatus[i] = None <=> eStatus'[i] = None
               /\ eStatus'[i] = "active" => eStatus[i] = "active"
               /\ eStatus'[i] = "expired" => eRemote[i] = "expired"
               /\ eStatus[i] = "expired" => eStatus'[i] = "expired"
    <2>1. eStatus[i] \in Statuses \cup {None} /\ (eStatus[i] = "expired" => eRemote[i] = "expired")
      BY <1>1 DEF LinkedTyped, RemoteAgrees
    <2>2. CASE i \in drop
      BY <1>4, <1>6, <1>7, <1>9, <2>1, <2>2, NoneIsNoStatus DEF Said, Statuses
    <2>3. CASE i \notin drop
      BY <1>7, <1>9, <2>1, <2>3
    <2>4. QED
      BY <2>2, <2>3
  <1>10. eSnap'[Task] = None /\ SnapTyped' /\ LoadedHolds'
    BY <1>1 DEF SnapTyped, LoadedHolds
  <1>11. LinkedTyped'
    <2>1. eDefault' \subseteq Linked!Accounts
      BY <1>1 DEF LinkedTyped, Linked!Default
    <2>2. \A i \in Linked!Accounts : eStatus'[i] \in Statuses \cup {None}
      BY <1>7, <1>9 DEF Statuses
    <2>3. eStatus' \in [Linked!Accounts -> Statuses \cup {None}]
      BY <1>5, <2>2
    <2>4. QED
      BY <1>1, <1>8, <2>1, <2>3 DEF LinkedTyped
  <1>12. PICK k \in 0..MaxAccounts : k = n
    BY <1>3, NoneIsNoStatus
  <1>13. Numbered'
    <2>1. SUFFICES UpTo(k)'
      BY DEF Numbered
    <2>2. SUFFICES ASSUME NEW i \in Linked!Accounts
                   PROVE  eStatus'[i] # None <=> i <= k
      BY DEF UpTo
    <2>3. i \in Nat
      BY NoneIsNoStatus DEF Linked!Accounts
    <2>4. CASE i = n
      BY <1>3, <1>7, <1>12, <2>4, NoneIsNoStatus DEF Statuses
    <2>5. CASE i # n
      <3>1. i <= n - 1 <=> i <= k
        BY <1>3, <1>12, <2>3, <2>5
      <3>2. QED
        BY <1>2, <1>9, <2>5, <3>1 DEF UpTo
    <2>6. QED
      BY <2>4, <2>5
  <1>14. RemoteAgrees'
    <2>1. ASSUME NEW i \in Linked!Accounts
          PROVE  /\ eStatus'[i] = None <=> eRemote'[i] = None
                 /\ eStatus'[i] = "active" => eRemote'[i] \in {"active", "expired"}
                 /\ eStatus'[i] = "expired" => eRemote'[i] = "expired"
                 /\ ePage[i] = "found" => eRemote'[i] \in {"active", "expired"}
                 /\ i \in eDefault' => eStatus'[i] # None

      <3>1. /\ eStatus[i] = None <=> eRemote[i] = None
            /\ eStatus[i] = "active" => eRemote[i] \in {"active", "expired"}
            /\ ePage[i] = "found" => eRemote[i] \in {"active", "expired"}
            /\ i \in eDefault => eStatus[i] # None
        BY <1>1 DEF RemoteAgrees
      <3>2. eDefault' \subseteq eDefault \cup {n}
        BY <1>1 DEF Linked!Default
      <3>3. CASE i = n
        <4>1. eRemote[n] = None
          BY <1>2, <3>1, <3>3
        <4>2. QED
          BY <1>7, <1>8, <3>1, <3>3, <4>1, NoneIsNoStatus DEF Statuses
      <3>4. CASE i # n
        BY <1>8, <1>9, <3>1, <3>2, <3>4
      <3>5. QED
        BY <3>3, <3>4
    <2>2. QED
      BY <2>1 DEF RemoteAgrees
  <1>15. PrimaryHolds'
    <2>1. SUFFICES ASSUME ePrimary' # None
                   PROVE  /\ ePrimary' \in Linked!Accounts /\ eDefault' = {ePrimary'}
                          /\ eStatus'[ePrimary'] = "active"
      BY <1>10 DEF PrimaryHolds
    <2>2. ePrimary' = ePrimary /\ eStatus'[ePrimary] = "active"
      BY <1>1, <2>1 DEF Linked!Watch
    <2>3. ePrimary \in Linked!Accounts /\ eDefault = {ePrimary} /\ loaded[ePrimary] = "active"
      BY <1>1, <2>1, <2>2 DEF PrimaryHolds, loaded
    <2>4. ePrimary \in Linked!Candidates(loaded)
      BY <2>3 DEF Linked!Candidates
    <2>5. eDefault' = eDefault
      BY <1>1, <2>4 DEF Linked!Default
    <2>6. QED
      BY <2>2, <2>3, <2>5
  <1>16. LinkedInv'
    BY <1>10, <1>11, <1>13, <1>14, <1>15 DEF LinkedInv
  <1>17. \A i \in Linked!Accounts : eStatus[i] = "expired" => eStatus'[i] = "expired"
    BY <1>2, <1>9, NoneIsNoStatus DEF Statuses
  <1>18. QED
    BY <1>1, <1>2, <1>7, <1>16, <1>17 DEF LinkedStep

LEMMA ConnectKeeps ==
    ASSUME LinkedInv, Linked!Connect(Task)
    PROVE  LinkedStep
  <1> DEFINE active == Linked!Candidates(eSnap[Task].loaded)
  <1>1. /\ eSnap[Task] # None /\ eSnap' = [eSnap EXCEPT ![Task] = None] /\ UNCHANGED ePage
        /\ \/ UNCHANGED <<eStatus, eDefault, eRemote, eRequest, ePrimary>>
           \/ \E i \in active : eSnap[Task].said[i] \notin {None, "active"} /\ Linked!Link(Task, {i})
           \/ Linked!Link(Task, {})
    BY DEF Linked!Connect
  <1>2. active \subseteq {i \in Linked!Accounts : eSnap[Task].loaded[i] = "active"}
    BY DEF Linked!Candidates
  <1> HIDE DEF active
  <1>3. CASE UNCHANGED <<eStatus, eDefault, eRemote, eRequest, ePrimary>>
    <2>1. LinkedTyped /\ Numbered /\ RemoteAgrees /\ SnapTyped /\ LoadedHolds /\ PrimaryHolds
      BY DEF LinkedInv
    <2>2. LinkedTyped' /\ Numbered' /\ RemoteAgrees'
      BY <1>1, <1>3, <2>1 DEF LinkedTyped, Numbered, UpTo, RemoteAgrees
    <2>3. eSnap'[Task] = None /\ SnapTyped' /\ LoadedHolds'
      BY <1>1, <2>1 DEF SnapTyped, LoadedHolds
    <2>4. PrimaryHolds'
      BY <1>3, <2>1, <2>3 DEF PrimaryHolds
    <2>5. QED
      BY <1>3, <2>2, <2>3, <2>4, NoneIsNoStatus DEF LinkedInv, LinkedStep, Statuses
  <1>4. ASSUME NEW i \in active, eSnap[Task].said[i] \notin {None, "active"}, Linked!Link(Task, {i})
        PROVE  LinkedStep
    <2>1. {i} \subseteq {j \in Linked!Accounts : /\ eSnap[Task].loaded[j] = "active"
                                                 /\ eSnap[Task].said[j] \notin {None, "active"}}
      BY <1>2, <1>4
    <2>2. QED
      BY <1>1, <1>4, <2>1, LinkKeeps
  <1>5. CASE Linked!Link(Task, {})
    BY <1>1, <1>5, LinkKeeps
  <1>6. QED
    BY <1>1, <1>3, <1>4, <1>5

(* What nobody loaded can be made the default account.                     *)
LEMMA ConfigureKeeps ==
    ASSUME LinkedInv, NEW a \in Linked!Accounts, Linked!Configure(Task, a)
    PROVE  LinkedStep
  <1>1. /\ LinkedTyped /\ Numbered /\ RemoteAgrees /\ SnapTyped /\ LoadedHolds /\ PrimaryHolds
        /\ UNCHANGED <<eStatus, eRemote, ePage, eSnap>>
        /\ eSnap[Task] = None /\ eStatus[a] # None /\ eDefault' = {a}
        /\ ePrimary' = IF eStatus[a] = "active" THEN a ELSE None
    BY DEF LinkedInv, Linked!Configure, Linked!Configured
  <1>2. LinkedTyped' /\ Numbered' /\ RemoteAgrees'
    BY <1>1 DEF LinkedTyped, Numbered, UpTo, RemoteAgrees
  <1>3. SnapTyped' /\ LoadedHolds' /\ PrimaryHolds'
    BY <1>1 DEF SnapTyped, LoadedHolds, PrimaryHolds
  <1>4. QED
    BY <1>1, <1>2, <1>3, NoneIsNoStatus DEF LinkedInv, LinkedStep, Statuses

(* The provider and the page.                                              *)
LEMMA ProviderKeeps ==
    ASSUME LinkedInv, NEW a \in Linked!Accounts, Linked!Authorise(a) \/ Linked!Lose(a)
    PROVE  LinkedStep
  <1>1. /\ LinkedTyped /\ Numbered /\ RemoteAgrees /\ SnapTyped /\ LoadedHolds /\ PrimaryHolds
        /\ UNCHANGED <<eStatus, eDefault, ePage, eSnap, ePrimary>>
    BY DEF LinkedInv, Linked!Authorise, Linked!Lose
  <1>2. PICK r \in {"active", "expired"} :
           /\ eRemote' = [eRemote EXCEPT ![a] = r]
           /\ eRemote[a] = "initiated" \/ (eRemote[a] = "active" /\ r = "expired")
    BY DEF Linked!Authorise, Linked!Lose
  <1>3. /\ eRemote' \in [Linked!Accounts -> {"initiated", "active", "expired", None}]
        /\ eRemote'[a] = r /\ \A i \in Linked!Accounts : i # a => eRemote'[i] = eRemote[i]
    BY <1>1, <1>2 DEF LinkedTyped
  <1>4. LinkedTyped' /\ Numbered' /\ SnapTyped' /\ PrimaryHolds'
    BY <1>1, <1>3 DEF LinkedTyped, Numbered, UpTo, SnapTyped, PrimaryHolds
  <1>5. RemoteAgrees'
    BY <1>1, <1>2, <1>3, NoneIsNoStatus DEF RemoteAgrees, Statuses
  <1>6. LoadedHolds'
    BY <1>1, <1>2, <1>3 DEF LoadedHolds
  <1>7. QED
    BY <1>1, <1>4, <1>5, <1>6, NoneIsNoStatus DEF LinkedInv, LinkedStep, Statuses

LEMMA PageKeeps ==
    ASSUME LinkedInv, NEW a \in Linked!Accounts,
           Linked!Find(a) \/ Linked!Complete(a) \/ Linked!FailPage(a) \/ Linked!TimeOut(a)
    PROVE  LinkedStep
  <1>1. /\ LinkedTyped /\ Numbered /\ RemoteAgrees /\ SnapTyped /\ LoadedHolds /\ PrimaryHolds
        /\ UNCHANGED <<eStatus, eDefault, eRemote, eSnap, ePrimary>>
    BY DEF LinkedInv, Linked!Find, Linked!Complete, Linked!FailPage, Linked!TimeOut
  <1>2. \/ ePage' = [ePage EXCEPT ![a] = "found"] /\ eRemote[a] \in {"active", "expired"}
        \/ ePage' = [ePage EXCEPT ![a] = None]
        \/ ePage' = ePage
    BY DEF Linked!Find, Linked!Complete, Linked!FailPage, Linked!TimeOut
  <1>3. LinkedTyped'
    BY <1>1, <1>2 DEF LinkedTyped
  <1>4. RemoteAgrees'
    BY <1>1, <1>2, NoneIsNoStatus DEF RemoteAgrees, LinkedTyped
  <1>5. Numbered' /\ SnapTyped' /\ PrimaryHolds' /\ LoadedHolds'
    BY <1>1 DEF Numbered, UpTo, SnapTyped, PrimaryHolds, LoadedHolds
  <1>6. QED
    BY <1>1, <1>3, <1>4, <1>5, NoneIsNoStatus DEF LinkedInv, LinkedStep, Statuses

(* The page connects only what still waits.                                *)
LEMMA RegisterKeeps ==
    ASSUME LinkedInv, NEW a \in Linked!Accounts, Linked!Register(a)
    PROVE  LinkedStep
  <1>1. /\ LinkedTyped /\ Numbered /\ RemoteAgrees /\ SnapTyped /\ LoadedHolds /\ PrimaryHolds
        /\ UNCHANGED <<eDefault, eRemote, eSnap, ePrimary>>
        /\ ePage[a] = "found" /\ ePage' = [ePage EXCEPT ![a] = "registered"]
        /\ eStatus' = [eStatus EXCEPT ![a] = IF eStatus[a] = "pending" THEN "active" ELSE eStatus[a]]
    BY DEF LinkedInv, Linked!Register, Linked!Registered
  <1>2. eRemote[a] \in {"active", "expired"}
    BY <1>1 DEF RemoteAgrees
  <1>3. ASSUME NEW i \in Linked!Accounts
        PROVE  \/ eStatus'[i] = eStatus[i]
               \/ eStatus[i] = "pending" /\ eStatus'[i] = "active" /\ i = a
    BY <1>1 DEF LinkedTyped
  <1>4. LinkedTyped'
    BY <1>1 DEF LinkedTyped, Statuses
  <1>5. Numbered'
    <2>1. PICK k \in 0..MaxAccounts : UpTo(k)
      BY <1>1 DEF Numbered
    <2>2. UpTo(k)'
      BY <1>3, <2>1, NoneIsNoStatus DEF UpTo, Statuses
    <2>3. QED
      BY <2>2 DEF Numbered
  <1>6. RemoteAgrees'
    <2>1. \A i \in Linked!Accounts : ePage'[i] = "found" => ePage[i] = "found"
      BY <1>1 DEF LinkedTyped
    <2>2. QED
      BY <1>1, <1>2, <1>3, <2>1, NoneIsNoStatus DEF RemoteAgrees, Statuses
  <1>7. SnapTyped'
    BY <1>1 DEF SnapTyped
  <1>8. LoadedHolds'
    BY <1>1, <1>3 DEF LoadedHolds
  <1>9. PrimaryHolds'
    BY <1>1, <1>3 DEF PrimaryHolds
  <1>10. QED
    BY <1>3, <1>4, <1>5, <1>6, <1>7, <1>8, <1>9, NoneIsNoStatus DEF LinkedInv, LinkedStep, Statuses

LEMMA LinkedGoesOn == LinkedInv /\ [Linked!Next]_(Linked!vars) => LinkedStep
  <1> SUFFICES ASSUME LinkedInv, [Linked!Next]_(Linked!vars)
               PROVE  LinkedStep
    OBVIOUS
  <1>1. CASE UNCHANGED Linked!vars
    <2>1. UNCHANGED <<eStatus, eDefault, eRemote, ePage, eSnap, ePrimary>>
      BY <1>1 DEF Linked!vars
    <2>2. LinkedInv'
      BY <2>1 DEF LinkedInv, LinkedTyped, Numbered, UpTo, RemoteAgrees, SnapTyped, LoadedHolds,
                  PrimaryHolds
    <2>3. QED
      BY <2>1, <2>2, NoneIsNoStatus DEF LinkedStep, Statuses
  <1>2. CASE Linked!Load(Task) \/ Linked!EndCheck(Task) \/ Linked!Connect(Task)
    BY <1>2, LoadKeeps, CheckEnds, ConnectKeeps
  <1>3. ASSUME NEW a \in Linked!Accounts,
               \/ Linked!Ask(Task, a) \/ Linked!Configure(Task, a) \/ Linked!Authorise(a)
               \/ Linked!Lose(a) \/ Linked!Find(a) \/ Linked!Register(a) \/ Linked!Complete(a)
               \/ Linked!FailPage(a) \/ Linked!TimeOut(a)
        PROVE  LinkedStep
    BY <1>3, AskKeeps, ConfigureKeeps, ProviderKeeps, PageKeeps, RegisterKeeps
  <1>4. QED
    BY <1>1, <1>2, <1>3 DEF Linked!Next

LEMMA LinkedIsRight == LinkedInv => Linked!TypeOK /\ Linked!PrimaryIsUsed
  <1> SUFFICES ASSUME LinkedInv
               PROVE  Linked!TypeOK /\ Linked!PrimaryIsUsed
    OBVIOUS
  <1>1. Linked!TypeOK
    BY DEF LinkedInv, LinkedTyped, RemoteAgrees, Linked!TypeOK, Statuses
  <1>2. Linked!PrimaryIsUsed
    BY DEF LinkedInv, PrimaryHolds, Linked!PrimaryIsUsed, Linked!Candidates
  <1>3. QED
    BY <1>1, <1>2

LEMMA LinkedHolds ==
    Linked!Spec => [](Linked!TypeOK /\ Linked!PrimaryIsUsed) /\ Linked!LostStaysLost
                       /\ Linked!CheckKeepsConnected
  <1> DEFINE Lost == \A i \in Linked!Accounts : eStatus[i] = "expired" => eStatus'[i] = "expired"
             Kept == \A i \in Linked!Accounts :
                        eStatus[i] = "active" /\ eStatus'[i] = "verification_failed" =>
                           \E n \in Linked!Accounts : eStatus[n] = None /\ eStatus'[n] = "pending"
  <1>1. LinkedStep => LinkedInv' /\ Lost /\ Kept
    BY DEF LinkedStep
  <1>2. QED
    BY <1>1, LinkedBegins, LinkedGoesOn, LinkedIsRight, PTL
       DEF Linked!Spec, Linked!LostStaysLost, Linked!CheckKeepsConnected

-----------------------------------------------------------------------------
(* Bitrix24.  Of each link a row keeps its integration, its request and    *)
(* the confirmation; while a task has loaded one, nothing else changes it, *)
(* and a link whose token is being validated has a request that waits.     *)

RowType == [status  : {None, "pending_token", "awaiting_confirmation", "active", "revoked",
                       "authorization_failed", "verification_failed", "expired"},
            held    : BOOLEAN,
            request : {None, "pending", "cancelled", "awaiting_confirmation", "failed",
                       "completed", "expired"},
            pending : {None, "pending", "executed", "failed", "cancelled", "expired"}]

RowOK(r) ==
    /\ r \in RowType
    /\ r.held => r.status \in {"awaiting_confirmation", "active"}
    /\ r.status = "active" => r.held /\ r.pending = "executed"
    /\ r.status = "awaiting_confirmation" => r.request = "awaiting_confirmation" \/ r.pending = "failed"
    /\ r.request = "pending" => ~r.held /\ r.pending = None

RowsHold == /\ bRow = [i \in Bitrix!Links |-> bRow[i]]
            /\ \A i \in Bitrix!Links : /\ RowOK(bRow[i])
                                       /\ i \in bValidating => bRow[i].request = "pending"

SnapIsRow == /\ bSnap = [t \in {Task} |-> bSnap[t]]
             /\ bSnap[Task] # None /\ bSnap[Task].link \in Bitrix!Links =>
                   bSnap[Task].row = bRow[bSnap[Task].link]

(* A write reaches Bitrix24 while it is open, and its end records it.      *)
WritesHold ==
    /\ bWrite = [k \in BitrixWrites |-> bWrite[k]]
    /\ bSent \in [BitrixWrites -> {0, 1}]
    /\ bReached \subseteq bCalling /\ bCrashes = 0
    /\ \A k \in BitrixWrites :
          /\ bWrite[k] = [status |-> bWrite[k].status, link |-> bWrite[k].link]
          /\ k \in bCalling => bWrite[k].status = "proposed"
          /\ bSent[k] = 1 => \/ k \in bReached
                             \/ /\ k \notin bCalling
                                /\ bWrite[k].status \in {"completed", "outcome_unknown"}

BitrixInv == RowsHold /\ SnapIsRow /\ WritesHold

LEMMA NoneIsNoState ==
    None \notin {"active", "awaiting_confirmation", "pending", "proposed", "completed",
                 "outcome_unknown", "failed", "cancelled"}
  BY IntegrationAssumptions DEF Bitrix!BitrixAssumption

LEMMA BitrixBegins == Bitrix!Init => BitrixInv
  <1> SUFFICES ASSUME Bitrix!Init
               PROVE  BitrixInv
    OBVIOUS
  <1> DEFINE r == [status |-> None, held |-> FALSE, request |-> None, pending |-> None]
  <1>1. RowOK(r)
    BY NoneIsNoState DEF RowOK, RowType
  <1>2. bRow = [i \in Bitrix!Links |-> r] /\ bValidating = {}
    BY DEF Bitrix!Init
  <1> HIDE DEF r
  <1>3. RowsHold
    BY <1>1, <1>2 DEF RowsHold
  <1>4. bSnap = [t \in {Task} |-> None] /\ SnapIsRow
    BY DEF Bitrix!Init, SnapIsRow
  <1>5. WritesHold
    BY DEF Bitrix!Init, WritesHold
  <1>6. QED
    BY <1>3, <1>4, <1>5 DEF BitrixInv

(* A row with one of its fields replaced.                                  *)
LEMMA RequestReplaced ==
    ASSUME NEW r \in RowType, NEW e,
           e \in {None, "pending", "cancelled", "awaiting_confirmation", "failed", "completed", "expired"}
    PROVE  LET s == [r EXCEPT !.request = e]
           IN  /\ s \in RowType /\ s.status = r.status /\ s.held = r.held
               /\ s.request = e /\ s.pending = r.pending
  BY DEF RowType

LEMMA StatusReplaced ==
    ASSUME NEW r \in RowType,
           NEW e \in {"revoked", "authorization_failed", "verification_failed", "expired"}
    PROVE  LET s == [r EXCEPT !.status = e]
           IN  /\ s \in RowType /\ s.status = e /\ s.held = r.held
               /\ s.request = r.request /\ s.pending = r.pending
  BY DEF RowType

LEMMA HeldReplaced ==
    ASSUME NEW r \in RowType, NEW e \in BOOLEAN
    PROVE  LET s == [r EXCEPT !.held = e]
           IN  /\ s \in RowType /\ s.status = r.status /\ s.held = e
               /\ s.request = r.request /\ s.pending = r.pending
  BY DEF RowType

LEMMA PendingReplaced ==
    ASSUME NEW r \in RowType, NEW e \in {"failed"}
    PROVE  LET s == [r EXCEPT !.pending = e]
           IN  /\ s \in RowType /\ s.status = r.status /\ s.held = r.held
               /\ s.request = r.request /\ s.pending = e
  BY DEF RowType

(* What is revoked, or no longer accepted, has no token.                   *)
LEMMA Tokenless ==
    ASSUME NEW r, RowOK(r), NEW e \in {"revoked", "authorization_failed"}, NEW s \in RowType,
           s.status = e, s.held = FALSE, s.request = r.request, s.pending = r.pending
    PROVE  RowOK(s)
  BY NoneIsNoState DEF RowOK

LEMMA RevokedIsSafe ==
    ASSUME NEW r, RowOK(r)
    PROVE  LET s == Bitrix!Revoked(r, r)
           IN  /\ RowOK(s) /\ s.request = r.request /\ s.status = "revoked"
               /\ s.held = FALSE /\ s.pending = r.pending
  <1> DEFINE m == [r EXCEPT !.status = "revoked"]
             s == Bitrix!Revoked(r, r)
  <1>1. r \in RowType
    BY DEF RowOK
  <1>2. /\ m \in RowType /\ m.status = "revoked" /\ m.held = r.held
        /\ m.request = r.request /\ m.pending = r.pending
    BY <1>1, StatusReplaced
  <1>3. s = [m EXCEPT !.held = FALSE]
    <2>1. s = [r EXCEPT !.status = IF r.status = "revoked" THEN r.status ELSE "revoked",
                        !.held = r.held /\ ~r.held]
      BY DEF Bitrix!Revoked
    <2>2. (r.held /\ ~r.held) = FALSE
      OBVIOUS
    <2>3. (IF r.status = "revoked" THEN r.status ELSE "revoked") = "revoked"
      OBVIOUS
    <2>4. s = [r EXCEPT !.status = "revoked", !.held = FALSE]
      BY <2>1, <2>2, <2>3
    <2>5. QED
      BY <1>1, <2>4 DEF RowType
  <1> HIDE DEF m, s
  <1>4. /\ s \in RowType /\ s.status = "revoked" /\ s.held = FALSE
        /\ s.request = r.request /\ s.pending = r.pending
    BY <1>2, <1>3, HeldReplaced
  <1>5. RowOK(s)
    BY <1>4, Tokenless
  <1>6. QED
    BY <1>4, <1>5 DEF s

(* With its request cancelled, it cannot be given a token either.          *)
LEMMA CancelledIsSafe ==
    ASSUME NEW r, RowOK(r), r.status = "revoked", r.held = FALSE
    PROVE  RowOK([r EXCEPT !.request = IF r.request \in {"pending", "awaiting_confirmation"}
                                       THEN "cancelled" ELSE r.request])
  <1> DEFINE q == IF r.request \in {"pending", "awaiting_confirmation"} THEN "cancelled" ELSE r.request
             s == [r EXCEPT !.request = q]
  <1>1. r \in RowType
    BY DEF RowOK
  <1>2. q \in {None, "cancelled", "failed", "completed", "expired"}
    BY <1>1 DEF RowType
  <1> HIDE DEF q
  <1>3. /\ s \in RowType /\ s.status = r.status /\ s.held = r.held
        /\ s.request = q /\ s.pending = r.pending
    BY <1>1, <1>2, RequestReplaced
  <1> HIDE DEF s
  <1>4. RowOK(s)
    BY <1>2, <1>3, NoneIsNoState DEF RowOK
  <1>5. QED
    BY <1>4 DEF s, q

(* A row of which the credential is deleted since Bitrix24 refused it.     *)
LEMMA RefusedRow ==
    ASSUME RowsHold, NEW x, UNCHANGED bValidating,
           bRow' = [bRow EXCEPT ![x].status = "authorization_failed", ![x].held = FALSE]
    PROVE  RowsHold'
  <1>1. bRow' = [i \in Bitrix!Links |-> bRow'[i]]
    BY DEF RowsHold
  <1>2. ASSUME NEW i \in Bitrix!Links
        PROVE  RowOK(bRow'[i]) /\ bRow'[i].request = bRow[i].request
    <2>1. RowOK(bRow[i]) /\ bRow[i] \in RowType
      BY DEF RowsHold, RowOK
    <2>2. CASE i = x
      <3> DEFINE m == [bRow[i] EXCEPT !.status = "authorization_failed"]
      <3>1. bRow'[i] = [m EXCEPT !.held = FALSE]
        BY <2>2 DEF RowsHold
      <3>2. /\ m \in RowType /\ m.status = "authorization_failed" /\ m.held = bRow[i].held
            /\ m.request = bRow[i].request /\ m.pending = bRow[i].pending
        BY <2>1, StatusReplaced
      <3> HIDE DEF m
      <3>3. /\ bRow'[i] \in RowType /\ bRow'[i].status = "authorization_failed"
            /\ bRow'[i].held = FALSE
            /\ bRow'[i].request = bRow[i].request /\ bRow'[i].pending = bRow[i].pending
        BY <3>1, <3>2, HeldReplaced
      <3>4. QED
        BY <2>1, <3>3, Tokenless
    <2>3. CASE i # x
      BY <2>1, <2>3 DEF RowsHold
    <2>4. QED
      BY <2>2, <2>3
  <1>3. QED
    BY <1>1, <1>2 DEF RowsHold

(* What a step leaves alone.                                               *)
LEMMA RowsStay ==
    ASSUME RowsHold, UNCHANGED bRow, bValidating' \subseteq bValidating
    PROVE  RowsHold'
  BY DEF RowsHold

LEMMA RowReplaced ==
    ASSUME RowsHold, NEW x, NEW r, RowOK(r), bRow' = [bRow EXCEPT ![x] = r],
           bValidating' \subseteq bValidating \ {x}
    PROVE  RowsHold'
  <1>1. bRow' = [i \in Bitrix!Links |-> bRow'[i]]
    BY DEF RowsHold
  <1>2. \A i \in Bitrix!Links : IF i = x THEN bRow'[i] = r ELSE bRow'[i] = bRow[i]
    BY DEF RowsHold
  <1>3. QED
    BY <1>1, <1>2 DEF RowsHold

LEMMA BitrixQuiet == Bitrix!Quiet => bSnap[Task] = None
  BY DEF Bitrix!Quiet

LEMMA SnapStays ==
    ASSUME SnapIsRow, UNCHANGED bSnap, UNCHANGED bRow \/ Bitrix!Quiet
    PROVE  SnapIsRow'
  BY BitrixQuiet DEF SnapIsRow

LEMMA WritesStay ==
    ASSUME WritesHold, UNCHANGED <<bWrite, bCalling, bReached, bSent, bCrashes>>
    PROVE  WritesHold'
  BY DEF WritesHold

(* The tools.                                                              *)
LEMMA LoadingKeeps ==
    ASSUME BitrixInv, Bitrix!Load(Task)
    PROVE  BitrixInv'
  <1> DEFINE s == IF bRecent = <<>> THEN [link |-> 0, row |-> None]
                  ELSE [link |-> bRecent[1], row |-> bRow[bRecent[1]]]
  <1>1. /\ RowsHold /\ SnapIsRow /\ WritesHold
        /\ UNCHANGED <<bRow, bValidating, bWrite, bCalling, bReached, bSent, bCrashes>>
        /\ bSnap' = [bSnap EXCEPT ![Task] = s]
    BY DEF BitrixInv, Bitrix!Load, Bitrix!links, Bitrix!page, Bitrix!writes
  <1>2. s.link \in Bitrix!Links => s.row = bRow[s.link]
    <2>1. CASE bRecent = <<>>
      BY <2>1, IntegrationAssumptions DEF Bitrix!Links, Bitrix!BitrixAssumption
    <2>2. CASE bRecent # <<>>
      BY <2>2
    <2>3. QED
      BY <2>1, <2>2
  <1> HIDE DEF s
  <1>3. SnapIsRow'
    BY <1>1, <1>2 DEF SnapIsRow
  <1>4. RowsHold' /\ WritesHold'
    BY <1>1, RowsStay, WritesStay
  <1>5. QED
    BY <1>3, <1>4 DEF BitrixInv

LEMMA RequestedIsSafe == RowOK(Bitrix!Requested) /\ Bitrix!Requested.request = "pending"
  BY DEF RowOK, RowType, Bitrix!Requested

LEMMA ConnectingKeeps ==
    ASSUME BitrixInv, Bitrix!Connect(Task)
    PROVE  BitrixInv'
  <1>1. /\ RowsHold /\ SnapIsRow /\ WritesHold /\ bSnap[Task] # None
        /\ UNCHANGED <<bValidating, bWrite, bCalling, bReached, bSent, bCrashes>>
        /\ bSnap' = [bSnap EXCEPT ![Task] = None]
    BY DEF BitrixInv, Bitrix!Connect, Bitrix!page, Bitrix!writes
  <1>2. SnapIsRow' /\ WritesHold'
    BY <1>1, WritesStay DEF SnapIsRow
  <1> DEFINE i == bSnap[Task].link
             n == Len(bRecent) + 1
             r == Bitrix!Revoked(bRow[i], bSnap[Task].row)
             q == [r EXCEPT !.request = IF r.request \in {"pending", "awaiting_confirmation"}
                                        THEN "cancelled" ELSE r.request]
  <1>3. CASE UNCHANGED bRow
    BY <1>1, <1>2, <1>3, RowsStay DEF BitrixInv
  <1>4. CASE /\ i \notin bValidating
             /\ bRow' = [j \in Bitrix!Links |->
                           CASE j = n -> Bitrix!Requested
                             [] j = i -> q
                             [] OTHER -> bRow[j]]
    <2>1. ASSUME NEW j \in Bitrix!Links
          PROVE  RowOK(bRow'[j]) /\ (j \in bValidating => bRow'[j].request = "pending")
      <3>1. RowOK(bRow[j]) /\ (j \in bValidating => bRow[j].request = "pending")
        BY <1>1 DEF RowsHold
      <3>2. \/ bRow'[j] = Bitrix!Requested
            \/ j = i /\ bRow'[j] = q
            \/ bRow'[j] = bRow[j]
        <4> HIDE DEF n, q
        <4>1. bRow'[j] = CASE j = n -> Bitrix!Requested [] j = i -> q [] OTHER -> bRow[j]
          BY <1>4
        <4>2. QED
          BY <4>1
      <3>3. CASE bRow'[j] = Bitrix!Requested
        BY <3>3, RequestedIsSafe
      <3>4. CASE j = i /\ bRow'[j] = q
        <4>1. bSnap[Task].row = bRow[j]
          BY <1>1, <3>4 DEF SnapIsRow
        <4>2. r = Bitrix!Revoked(bRow[j], bRow[j])
          BY <3>4, <4>1
        <4> HIDE DEF r
        <4>3. RowOK(r) /\ r.status = "revoked" /\ r.held = FALSE
          BY <3>1, <4>2, RevokedIsSafe
        <4>4. RowOK(q)
          BY <4>3, CancelledIsSafe
        <4> HIDE DEF n, q
        <4>5. QED
          BY <1>4, <3>4, <4>4
      <3>5. QED
        BY <3>1, <3>2, <3>3, <3>4
    <2>2. bRow' = [j \in Bitrix!Links |-> bRow'[j]]
      BY <1>4
    <2>3. RowsHold'
      BY <1>1, <2>1, <2>2 DEF RowsHold
    <2>4. QED
      BY <1>2, <2>3 DEF BitrixInv
  <1>5. QED
    BY <1>3, <1>4 DEF Bitrix!Connect, Bitrix!links

LEMMA DisconnectingKeeps ==
    ASSUME BitrixInv, Bitrix!Disconnect(Task)
    PROVE  BitrixInv'
  <1> DEFINE x == bSnap[Task].link
  <1>1. /\ RowsHold /\ SnapIsRow /\ WritesHold /\ bSnap[Task] # None
        /\ UNCHANGED <<bValidating, bWrite, bCalling, bReached, bSent, bCrashes>>
        /\ bSnap' = [bSnap EXCEPT ![Task] = None]
        /\ \/ UNCHANGED bRow
           \/ bRow' = [bRow EXCEPT ![x] = Bitrix!Revoked(bRow[x], bSnap[Task].row)]
    BY DEF BitrixInv, Bitrix!Disconnect, Bitrix!page, Bitrix!writes, Bitrix!links
  <1>2. SnapIsRow' /\ WritesHold'
    BY <1>1, WritesStay DEF SnapIsRow
  <1>3. bRow' = [j \in Bitrix!Links |-> bRow'[j]]
    BY <1>1 DEF RowsHold
  <1>4. ASSUME NEW j \in Bitrix!Links
        PROVE  RowOK(bRow'[j]) /\ bRow'[j].request = bRow[j].request
    <2>1. RowOK(bRow[j])
      BY <1>1 DEF RowsHold
    <2>2. bRow'[j] = bRow[j] \/ (j = x /\ bRow'[j] = Bitrix!Revoked(bRow[j], bSnap[Task].row))
      BY <1>1 DEF RowsHold
    <2>3. CASE j = x /\ bRow'[j] = Bitrix!Revoked(bRow[j], bSnap[Task].row)
      <3>1. bSnap[Task].row = bRow[j]
        BY <1>1, <2>3 DEF SnapIsRow
      <3>2. bRow'[j] = Bitrix!Revoked(bRow[j], bRow[j])
        BY <2>3, <3>1
      <3>3. QED
        BY <2>1, <3>2, RevokedIsSafe
    <2>4. QED
      BY <2>1, <2>2, <2>3
  <1>5. RowsHold'
    BY <1>1, <1>3, <1>4 DEF RowsHold
  <1>6. QED
    BY <1>2, <1>5 DEF BitrixInv

LEMMA CheckingKeeps ==
    ASSUME BitrixInv, Bitrix!CheckStatus
    PROVE  BitrixInv'
  <1>1. /\ RowsHold /\ SnapIsRow /\ WritesHold /\ Bitrix!Quiet
        /\ UNCHANGED <<bValidating, bSnap, bWrite, bCalling, bReached, bSent, bCrashes>>
        /\ bRow' = [bRow EXCEPT ![bRecent[1]].status = "authorization_failed",
                                ![bRecent[1]].held = FALSE]
    BY DEF BitrixInv, Bitrix!CheckStatus, Bitrix!page, Bitrix!writes
  <1>2. RowsHold' /\ SnapIsRow' /\ WritesHold'
    BY <1>1, RefusedRow, SnapStays, WritesStay
  <1>3. QED
    BY <1>2 DEF BitrixInv

(* The page.                                                               *)
LEMMA BeginSubmitKeeps ==
    ASSUME BitrixInv, NEW x \in Bitrix!Links, Bitrix!BeginSubmit(x)
    PROVE  BitrixInv'
  <1>1. /\ RowsHold /\ SnapIsRow /\ WritesHold /\ bRow[x].request = "pending"
        /\ UNCHANGED <<bRow, bSnap, bWrite, bCalling, bReached, bSent, bCrashes>>
        /\ bValidating' = bValidating \cup {x}
    BY DEF BitrixInv, Bitrix!BeginSubmit, Bitrix!links, Bitrix!writes
  <1>2. RowsHold' /\ SnapIsRow' /\ WritesHold'
    BY <1>1, SnapStays, WritesStay DEF RowsHold
  <1>3. QED
    BY <1>2 DEF BitrixInv

LEMMA EndSubmitKeeps ==
    ASSUME BitrixInv, NEW x \in Bitrix!Links, Bitrix!EndSubmit(x)
    PROVE  BitrixInv'
  <1>1. /\ RowsHold /\ SnapIsRow /\ WritesHold /\ Bitrix!Quiet /\ x \in bValidating
        /\ UNCHANGED <<bSnap, bWrite, bCalling, bReached, bSent, bCrashes>>
        /\ bValidating' = bValidating \ {x}
        /\ Bitrix!Accept(x) \/ Bitrix!Reject(x) \/ UNCHANGED bRow
    BY DEF BitrixInv, Bitrix!EndSubmit, Bitrix!links, Bitrix!writes
  <1>2. SnapIsRow' /\ WritesHold'
    BY <1>1, SnapStays, WritesStay
  <1>3. ASSUME UNCHANGED bRow
        PROVE  RowsHold'
    BY <1>1, <1>3, RowsStay
  <1>4. ASSUME Bitrix!Accept(x)
        PROVE  RowsHold'
    <2> DEFINE r == [status |-> "awaiting_confirmation", held |-> TRUE,
                     request |-> "awaiting_confirmation", pending |-> "pending"]
    <2>1. RowOK(r)
      BY DEF RowOK, RowType
    <2>2. bRow' = [bRow EXCEPT ![x] = r]
      BY <1>4 DEF Bitrix!Accept
    <2> HIDE DEF r
    <2>3. QED
      BY <1>1, <2>1, <2>2, RowReplaced
  <1>5. ASSUME Bitrix!Reject(x), ~UNCHANGED bRow
        PROVE  RowsHold'
    <2> DEFINE m == [bRow[x] EXCEPT !.request = "failed"]
               r == [m EXCEPT !.status = "verification_failed"]
    <2>1. RowOK(bRow[x]) /\ bRow[x] \in RowType /\ bRow[x].request = "pending"
      BY <1>1 DEF RowsHold, RowOK
    <2>2. /\ m \in RowType /\ m.status = bRow[x].status /\ m.held = bRow[x].held
          /\ m.request = "failed" /\ m.pending = bRow[x].pending
      BY <2>1, RequestReplaced
    <2>3. bRow' = [bRow EXCEPT ![x] = r]
      BY <1>5, <1>1 DEF Bitrix!Reject, Bitrix!links, RowsHold
    <2> HIDE DEF m
    <2>4. /\ r \in RowType /\ r.status = "verification_failed" /\ r.held = bRow[x].held
          /\ r.request = "failed" /\ r.pending = bRow[x].pending
      BY <2>2, StatusReplaced
    <2> HIDE DEF r
    <2>5. RowOK(r)
      BY <2>1, <2>4 DEF RowOK
    <2>6. QED
      BY <1>1, <2>3, <2>5, RowReplaced
  <1>6. RowsHold'
    BY <1>1, <1>3, <1>4, <1>5
  <1>7. QED
    BY <1>2, <1>6 DEF BitrixInv

(* What happens to no row.                                                 *)
LEMMA WaitingKeeps ==
    ASSUME BitrixInv, NEW x \in Bitrix!Links, Bitrix!CloseLink(x) \/ Bitrix!Lapse(x)
    PROVE  BitrixInv'
  <1>1. /\ RowsHold /\ SnapIsRow /\ WritesHold
        /\ UNCHANGED <<bRow, bValidating, bSnap, bWrite, bCalling, bReached, bSent, bCrashes>>
    BY DEF BitrixInv, Bitrix!CloseLink, Bitrix!Lapse, Bitrix!links, Bitrix!page, Bitrix!writes
  <1>2. QED
    BY <1>1, RowsStay, SnapStays, WritesStay DEF BitrixInv

(* The confirmation.                                                       *)
LEMMA ConfirmKeeps ==
    ASSUME BitrixInv, NEW x \in Bitrix!Links, Bitrix!Confirm(x) \/ Bitrix!Cancel(x)
    PROVE  BitrixInv'
  <1> DEFINE Active == [status |-> "active", held |-> TRUE, request |-> "completed",
                        pending |-> "executed"]
             Gone == [status |-> "revoked", held |-> FALSE, request |-> "cancelled",
                      pending |-> "cancelled"]
             Failed == [bRow[x] EXCEPT !.pending = "failed"]
  <1>1. /\ RowsHold /\ SnapIsRow /\ WritesHold /\ Bitrix!Quiet /\ bRow[x].pending = "pending"
        /\ UNCHANGED <<bValidating, bSnap, bWrite, bCalling, bReached, bSent, bCrashes>>
        /\ \/ bRow' = [bRow EXCEPT ![x] = Active]
           \/ bRow' = [bRow EXCEPT ![x] = Gone]
           \/ bRow' = [bRow EXCEPT ![x] = Failed]
    BY DEF BitrixInv, Bitrix!Confirm, Bitrix!Cancel, Bitrix!Waiting, Bitrix!page, Bitrix!writes
  <1>2. RowOK(bRow[x]) /\ bRow[x] \in RowType /\ (x \in bValidating => bRow[x].request = "pending")
    BY <1>1 DEF RowsHold, RowOK
  <1>3. bRow[x].request # "pending" /\ x \notin bValidating /\ bRow[x].status # "active"
    BY <1>1, <1>2, NoneIsNoState DEF RowOK
  <1>4. RowOK(Active) /\ RowOK(Gone)
    BY NoneIsNoState DEF RowOK, RowType
  <1>5. /\ Failed \in RowType /\ Failed.status = bRow[x].status /\ Failed.held = bRow[x].held
        /\ Failed.request = bRow[x].request /\ Failed.pending = "failed"
    BY <1>2, PendingReplaced
  <1> HIDE DEF Active, Gone, Failed
  <1>6. RowOK(Failed)
    BY <1>2, <1>3, <1>5 DEF RowOK
  <1>7. RowsHold'
    BY <1>1, <1>3, <1>4, <1>6, RowReplaced
  <1>8. SnapIsRow' /\ WritesHold'
    BY <1>1, SnapStays, WritesStay
  <1>9. QED
    BY <1>7, <1>8 DEF BitrixInv

(* What is expired of a row whose time is over.                            *)
LEMMA ExpiredIsSafe ==
    ASSUME NEW r, RowOK(r), NEW over \in BOOLEAN, NEW stale \in BOOLEAN,
           stale <=> r.status = "awaiting_confirmation" /\ over,
           NEW h \in BOOLEAN, h <=> r.held /\ ~stale,
           NEW s, s = [status  |-> IF stale THEN "expired" ELSE r.status,
                       held    |-> h,
                       request |-> IF over /\ r.request = "awaiting_confirmation"
                                   THEN "expired" ELSE r.request,
                       pending |-> IF over /\ r.pending = "pending" THEN "expired" ELSE r.pending]
    PROVE  RowOK(s) /\ (r.request = "pending" => s.request = "pending")
  <1>1. r \in RowType
    BY DEF RowOK
  <1>2. s \in RowType
    BY <1>1 DEF RowType
  <1>3. /\ s.status = IF stale THEN "expired" ELSE r.status
        /\ s.held = h
        /\ s.request = IF over /\ r.request = "awaiting_confirmation" THEN "expired" ELSE r.request
        /\ s.pending = IF over /\ r.pending = "pending" THEN "expired" ELSE r.pending
    OBVIOUS
  <1>4. h => ~stale /\ r.status \in {"awaiting_confirmation", "active"}
    BY DEF RowOK
  <1>5. s.held => s.status \in {"awaiting_confirmation", "active"}
    BY <1>3, <1>4
  <1>6. s.status = "active" => s.held /\ s.pending = "executed"
    BY <1>3 DEF RowOK
  <1>7. s.status = "awaiting_confirmation" => s.request = "awaiting_confirmation" \/ s.pending = "failed"
    BY <1>3 DEF RowOK
  <1>8. s.request = "pending" => ~s.held /\ s.pending = None
    BY <1>3, NoneIsNoState DEF RowOK
  <1>9. r.request = "pending" => s.request = "pending"
    BY <1>3
  <1>10. QED
    BY <1>2, <1>5, <1>6, <1>7, <1>8, <1>9 DEF RowOK

LEMMA ExpireKeeps ==
    ASSUME BitrixInv, Bitrix!ExpireStale
    PROVE  BitrixInv'
  <1>1. /\ RowsHold /\ SnapIsRow /\ WritesHold /\ Bitrix!Quiet
        /\ UNCHANGED <<bValidating, bSnap, bWrite, bCalling, bReached, bSent, bCrashes>>
        /\ bRow' = [i \in Bitrix!Links |-> bRow'[i]]
    BY DEF BitrixInv, Bitrix!ExpireStale, Bitrix!page, Bitrix!writes
  <1>2. ASSUME NEW i \in Bitrix!Links
        PROVE  RowOK(bRow'[i]) /\ (bRow[i].request = "pending" => bRow'[i].request = "pending")
    <2> DEFINE over == i \in bLate
               stale == Bitrix!Stale(i)
               h == bRow[i].held /\ ~stale
    <2>1. RowOK(bRow[i])
      BY <1>1 DEF RowsHold
    <2>2. over \in BOOLEAN /\ stale \in BOOLEAN /\ h \in BOOLEAN
      BY DEF Bitrix!Stale
    <2>3. /\ stale <=> bRow[i].status = "awaiting_confirmation" /\ over
          /\ h <=> bRow[i].held /\ ~stale
      BY DEF Bitrix!Stale
    <2>4. bRow'[i] = [status  |-> IF stale THEN "expired" ELSE bRow[i].status,
                      held    |-> h,
                      request |-> IF over /\ bRow[i].request = "awaiting_confirmation"
                                  THEN "expired" ELSE bRow[i].request,
                      pending |-> IF over /\ bRow[i].pending = "pending"
                                  THEN "expired" ELSE bRow[i].pending]
      BY DEF Bitrix!ExpireStale
    <2> HIDE DEF over, stale, h
    <2>5. QED
      BY <2>1, <2>2, <2>3, <2>4, ExpiredIsSafe
  <1>3. RowsHold'
    BY <1>1, <1>2 DEF RowsHold
  <1>4. SnapIsRow' /\ WritesHold'
    BY <1>1, SnapStays, WritesStay
  <1>5. QED
    BY <1>3, <1>4 DEF BitrixInv

(* Writes.                                                                 *)
LEMMA ProposeKeeps ==
    ASSUME BitrixInv, NEW k \in BitrixWrites, Bitrix!Propose(k)
    PROVE  BitrixInv'
  <1>1. /\ RowsHold /\ SnapIsRow /\ WritesHold /\ bWrite[k].status = None
        /\ UNCHANGED <<bRow, bValidating, bSnap, bCalling, bReached, bSent, bCrashes>>
    BY DEF BitrixInv, Bitrix!Propose, Bitrix!links, Bitrix!page
  <1>2. PICK r : r = [status |-> "proposed", link |-> Bitrix!Among(Bitrix!Active)[1]]
    OBVIOUS
  <1>3. r = [status |-> r.status, link |-> r.link] /\ r.status = "proposed"
    BY <1>2
  <1>4. bWrite' = [bWrite EXCEPT ![k] = r]
    BY <1>2 DEF Bitrix!Propose
  <1>5. bSent[k] # 1 /\ k \notin bCalling
    BY <1>1, NoneIsNoState DEF WritesHold
  <1>6. WritesHold'
    BY <1>1, <1>3, <1>4, <1>5 DEF WritesHold
  <1>7. RowsHold' /\ SnapIsRow'
    BY <1>1, RowsStay, SnapStays
  <1>8. QED
    BY <1>6, <1>7 DEF BitrixInv

(* A write whose status is set.                                            *)
LEMMA StatusIsSet ==
    ASSUME WritesHold, NEW k \in BitrixWrites, NEW status, Bitrix!Set(k, status)
    PROVE  /\ bWrite' = [j \in BitrixWrites |-> bWrite'[j]]
           /\ bWrite'[k] = [status |-> status, link |-> bWrite[k].link]
           /\ \A j \in BitrixWrites : j # k => bWrite'[j] = bWrite[j]
  <1>1. bWrite = [j \in BitrixWrites |-> bWrite[j]]
        /\ bWrite[k] = [status |-> bWrite[k].status, link |-> bWrite[k].link]
    BY DEF WritesHold
  <1>2. bWrite'[k] = [bWrite[k] EXCEPT !.status = status]
    BY <1>1 DEF Bitrix!Set
  <1>3. QED
    BY <1>1, <1>2 DEF Bitrix!Set

LEMMA BeginWriteKeeps ==
    ASSUME BitrixInv, NEW k \in BitrixWrites, Bitrix!BeginWrite(k) \/ Bitrix!DropWrite(k)
    PROVE  BitrixInv'
  <1>1. /\ RowsHold /\ SnapIsRow /\ WritesHold
        /\ bWrite[k].status = "proposed" /\ k \notin bCalling
        /\ UNCHANGED <<bRow, bValidating, bSnap, bReached, bSent, bCrashes>>
        /\ \/ bCalling' = bCalling \cup {k} /\ UNCHANGED bWrite
           \/ (Bitrix!Set(k, "failed") \/ Bitrix!Set(k, "cancelled")) /\ UNCHANGED bCalling
    BY DEF BitrixInv, Bitrix!BeginWrite, Bitrix!DropWrite, Bitrix!links, Bitrix!page
  <1>2. RowsHold' /\ SnapIsRow'
    BY <1>1, RowsStay, SnapStays
  <1>3. bSent[k] # 1
    BY <1>1, NoneIsNoState DEF WritesHold
  <1>4. ASSUME bCalling' = bCalling \cup {k}, UNCHANGED bWrite
        PROVE  WritesHold'
    BY <1>1, <1>3, <1>4 DEF WritesHold
  <1>5. ASSUME NEW s, Bitrix!Set(k, s), UNCHANGED bCalling
        PROVE  WritesHold'
    <2>1. /\ bWrite' = [j \in BitrixWrites |-> bWrite'[j]]
          /\ bWrite'[k] = [status |-> s, link |-> bWrite[k].link]
          /\ \A j \in BitrixWrites : j # k => bWrite'[j] = bWrite[j]
      BY <1>1, <1>5, StatusIsSet
    <2>2. QED
      BY <1>1, <1>3, <1>5, <2>1 DEF WritesHold
  <1>6. QED
    BY <1>1, <1>2, <1>4, <1>5 DEF BitrixInv

LEMMA ReachKeeps ==
    ASSUME BitrixInv, NEW k \in BitrixWrites, Bitrix!ReachWrite(k)
    PROVE  BitrixInv'
  <1>1. /\ RowsHold /\ SnapIsRow /\ WritesHold /\ k \in bCalling /\ k \notin bReached
        /\ UNCHANGED <<bRow, bValidating, bSnap, bWrite, bCalling, bCrashes>>
        /\ bReached' = bReached \cup {k} /\ bSent' = [bSent EXCEPT ![k] = bSent[k] + 1]
    BY DEF BitrixInv, Bitrix!ReachWrite, Bitrix!links, Bitrix!page
  <1>2. RowsHold' /\ SnapIsRow'
    BY <1>1, RowsStay, SnapStays
  <1>3. bSent[k] = 0 /\ bSent[k] + 1 = 1
    BY <1>1 DEF WritesHold
  <1>4. bSent' = [bSent EXCEPT ![k] = 1]
    BY <1>1, <1>3
  <1>5. WritesHold'
    BY <1>1, <1>4 DEF WritesHold
  <1>6. QED
    BY <1>2, <1>5 DEF BitrixInv

LEMMA EndWriteKeeps ==
    ASSUME BitrixInv, NEW k \in BitrixWrites, Bitrix!EndWrite(k)
    PROVE  BitrixInv'
  <1>1. /\ RowsHold /\ SnapIsRow /\ WritesHold /\ Bitrix!Quiet /\ k \in bCalling
        /\ UNCHANGED <<bValidating, bSnap, bSent, bCrashes>>
        /\ bCalling' = bCalling \ {k} /\ bReached' = bReached \ {k}
        /\ \/ UNCHANGED bRow
           \/ bRow' = [bRow EXCEPT ![bWrite[k].link].status = "authorization_failed",
                                   ![bWrite[k].link].held = FALSE]
    BY DEF BitrixInv, Bitrix!EndWrite, Bitrix!links, Bitrix!page
  <1>2. PICK s \in {"outcome_unknown", "completed", "failed"} :
           Bitrix!Set(k, s) /\ (s = "failed" => k \notin bReached)
    BY DEF Bitrix!EndWrite, Bitrix!Unanswered
  <1>3. /\ bWrite' = [j \in BitrixWrites |-> bWrite'[j]]
        /\ bWrite'[k] = [status |-> s, link |-> bWrite[k].link]
        /\ \A j \in BitrixWrites : j # k => bWrite'[j] = bWrite[j]
    BY <1>1, <1>2, StatusIsSet
  <1>4. s = "failed" => bSent[k] # 1
    BY <1>1, <1>2 DEF WritesHold
  <1>5. WritesHold'
    BY <1>1, <1>3, <1>4 DEF WritesHold
  <1>6. RowsHold'
    BY <1>1, RowsStay, RefusedRow
  <1>7. SnapIsRow'
    BY <1>1, SnapStays
  <1>8. QED
    BY <1>5, <1>6, <1>7 DEF BitrixInv

LEMMA BitrixGoesOn == BitrixInv /\ [Bitrix!Next]_(Bitrix!vars) => BitrixInv'
  <1> SUFFICES ASSUME BitrixInv, [Bitrix!Next]_(Bitrix!vars)
               PROVE  BitrixInv'
    OBVIOUS
  <1>1. CASE UNCHANGED Bitrix!vars
    <2>1. /\ RowsHold /\ SnapIsRow /\ WritesHold
          /\ UNCHANGED <<bRow, bValidating, bSnap, bWrite, bCalling, bReached, bSent, bCrashes>>
      BY <1>1 DEF BitrixInv, Bitrix!vars, Bitrix!links, Bitrix!page, Bitrix!writes
    <2>2. QED
      BY <2>1, RowsStay, SnapStays, WritesStay DEF BitrixInv
  <1>2. CASE Bitrix!Load(Task) \/ Bitrix!Connect(Task) \/ Bitrix!Disconnect(Task)
    BY <1>2, LoadingKeeps, ConnectingKeeps, DisconnectingKeeps
  <1>3. CASE Bitrix!CheckStatus \/ Bitrix!ExpireStale
    BY <1>3, CheckingKeeps, ExpireKeeps
  <1>4. ASSUME NEW x \in Bitrix!Links,
               \/ Bitrix!BeginSubmit(x) \/ Bitrix!EndSubmit(x) \/ Bitrix!CloseLink(x)
               \/ Bitrix!Confirm(x) \/ Bitrix!Cancel(x) \/ Bitrix!Lapse(x)
        PROVE  BitrixInv'
    BY <1>4, BeginSubmitKeeps, EndSubmitKeeps, WaitingKeeps, ConfirmKeeps
  <1>5. ASSUME NEW k \in BitrixWrites,
               \/ Bitrix!Propose(k) \/ Bitrix!BeginWrite(k) \/ Bitrix!DropWrite(k)
               \/ Bitrix!ReachWrite(k) \/ Bitrix!EndWrite(k)
        PROVE  BitrixInv'
    BY <1>5, ProposeKeeps, BeginWriteKeeps, ReachKeeps, EndWriteKeeps
  <1>6. ASSUME NEW k \in BitrixWrites, Bitrix!Crash(k)
        PROVE  FALSE
    <2>1. bCrashes = 0
      BY DEF BitrixInv, WritesHold
    <2>2. QED
      BY <1>6, <2>1 DEF Bitrix!Crash
  <1>7. QED
    BY <1>1, <1>2, <1>3, <1>4, <1>5, <1>6 DEF Bitrix!Next

LEMMA BitrixIsRight == BitrixInv =>
    Bitrix!TypeOK /\ Bitrix!CredentialHeld /\ Bitrix!WriteOnce /\ Bitrix!WrittenIsRecorded
  <1> SUFFICES ASSUME BitrixInv
               PROVE  /\ Bitrix!TypeOK /\ Bitrix!CredentialHeld
                      /\ Bitrix!WriteOnce /\ Bitrix!WrittenIsRecorded
    OBVIOUS
  <1>1. RowsHold /\ WritesHold
    BY DEF BitrixInv
  <1>2. \A i \in Bitrix!Links : RowOK(bRow[i]) /\ bRow[i] \in RowType
    BY <1>1 DEF RowsHold, RowOK
  <1>3. \A k \in BitrixWrites : bSent[k] = 0 \/ bSent[k] = 1
    BY <1>1 DEF WritesHold
  <1>4. Bitrix!TypeOK
    BY <1>2, <1>3 DEF Bitrix!TypeOK, RowOK, RowType
  <1>5. Bitrix!CredentialHeld
    BY <1>2 DEF Bitrix!CredentialHeld, RowOK
  <1>6. Bitrix!WriteOnce
    BY <1>3 DEF Bitrix!WriteOnce
  <1>7. Bitrix!WrittenIsRecorded
    BY <1>1, <1>3 DEF Bitrix!WrittenIsRecorded, WritesHold
  <1>8. QED
    BY <1>4, <1>5, <1>6, <1>7

LEMMA BitrixHolds ==
    Bitrix!Spec => [](Bitrix!TypeOK /\ Bitrix!CredentialHeld /\ Bitrix!WriteOnce
                        /\ Bitrix!WrittenIsRecorded)
  BY BitrixBegins, BitrixGoesOn, BitrixIsRight, PTL DEF Bitrix!Spec

-----------------------------------------------------------------------------
(* Reading.  Numbers and what of them is newest.                           *)

LEMMA SmallestNumber ==
    ASSUME NEW S \in SUBSET Nat, S # {}
    PROVE  \E x \in S : \A y \in S : x <= y
  <1> DEFINE Less == {ss \in Nat \X Nat : ss[1] < ss[2]}
  <1>1. IsWellFoundedOn(Less, Nat)
    BY NatLessThanWellFounded DEF OpToRel
  <1>2. PICK x \in S : \A y \in S : ~(<<y, x>> \in Less)
    BY <1>1, WFMin
  <1>3. \A y \in S : ~(y < x)
    BY <1>2
  <1>4. QED
    BY <1>3

LEMMA LargestNumber ==
    ASSUME NEW S \in SUBSET Nat, S # {}, IsFiniteSet(S)
    PROVE  \E x \in S : \A y \in S : x >= y
  <1> DEFINE Endless == {U \in SUBSET S : U # {} /\ ~\E x \in U : \A y \in U : x >= y}
  <1>1. SUFFICES ASSUME S \in Endless
                 PROVE  FALSE
    OBVIOUS
  <1>2. FiniteSubsetsOf(S) = SUBSET S
    BY FS_FiniteSubsetsOfFinite
  <1>3. IsWellFoundedOn(StrictSubsetOrdering(S), SUBSET S)
    BY <1>2, FS_StrictSubsetOrderingWellFounded
  <1>4. PICK U \in Endless : \A V \in Endless : ~(<<V, U>> \in StrictSubsetOrdering(S))
    <2>1. Endless \subseteq SUBSET S /\ Endless # {}
      BY <1>1
    <2> HIDE DEF Endless
    <2>2. QED
      BY <1>3, <2>1, WFMin
  <1>5. PICK x \in U : TRUE
    BY <1>4
  <1> DEFINE V == U \ {x}
  <1>6. V \in SUBSET S /\ <<V, U>> \in StrictSubsetOrdering(S)
    BY <1>4, <1>5 DEF StrictSubsetOrdering
  <1>7. V \notin Endless
    BY <1>4, <1>6
  <1>8. CASE V = {}
    BY <1>4, <1>5, <1>8
  <1>9. CASE V # {}
    <2>1. PICK m \in V : \A y \in V : m >= y
      BY <1>6, <1>7, <1>9
    <2>2. (IF x >= m THEN x ELSE m) \in U
      BY <1>5, <2>1
    <2>3. \A y \in U : (IF x >= m THEN x ELSE m) >= y
      BY <1>4, <1>5, <2>1
    <2>4. QED
      BY <1>4, <2>2, <2>3
  <1>10. QED
    BY <1>8, <1>9

(* What is newest of a set of numbers: no more than asked for, newer than  *)
(* the rest, and less only if there is no rest.                            *)
LEMMA NewestFill ==
    ASSUME NEW S \in SUBSET Nat, IsFiniteSet(S), NEW n \in Nat
    PROVE  /\ Reading!Newest(S, n) \in SUBSET S
           /\ \A r \in S : r \in Reading!Newest(S, n) <=> Cardinality({q \in S : q > r}) < n
           /\ \A r \in S : r \notin Reading!Newest(S, n) =>
                /\ \A q \in Reading!Newest(S, n) : q > r
                /\ Cardinality(Reading!Newest(S, n)) >= n
  <1> DEFINE Ahead(r) == {q \in S : q > r}
             newest == Reading!Newest(S, n)
  <1>1. newest = {r \in S : Cardinality(Ahead(r)) < n}
    <2>1. \A r : Reading!Cardinality({q \in S : q > r}) = Cardinality({q \in S : q > r})
      BY DEF Reading!Cardinality, Cardinality, Reading!IsFiniteSet, IsFiniteSet
    <2>2. QED
      BY <2>1 DEF Reading!Newest
  <1>2. ASSUME NEW U \in SUBSET S
        PROVE  IsFiniteSet(U) /\ Cardinality(U) \in Nat
    BY FS_Subset, FS_CardinalityType
  <1>3. ASSUME NEW r \in S, NEW q \in S, q <= r
        PROVE  Cardinality(Ahead(r)) <= Cardinality(Ahead(q))
    <2>1. Ahead(r) \in SUBSET Ahead(q) /\ Ahead(q) \in SUBSET S
      <3>1. \A x \in S : x \in Nat
        OBVIOUS
      <3>2. \A x \in S : x > r => x > q
        BY <1>3, <3>1
      <3>3. QED
        BY <3>2
    <2>2. QED
      BY <1>2, <2>1, FS_Subset
  <1>4. \A r \in S : Cardinality(Ahead(r)) \in Nat
    <2>1. \A r \in S : Ahead(r) \in SUBSET S
      OBVIOUS
    <2> HIDE DEF Ahead
    <2>2. QED
      BY <1>2, <2>1
  <1> HIDE DEF newest
  <1>5. ASSUME NEW r \in S, r \notin newest
        PROVE  (\A q \in newest : q > r) /\ Cardinality(newest) >= n
    <2>1. ASSUME NEW q \in newest
          PROVE  q > r
      <3>1. SUFFICES ASSUME ~(q > r)
                     PROVE  FALSE
        OBVIOUS
      <3>2. q \in S /\ r \in S /\ q <= r
        BY <1>1, <2>1, <3>1
      <3>3. Cardinality(Ahead(r)) <= Cardinality(Ahead(q))
        BY <1>3, <3>2
      <3>4. Cardinality(Ahead(q)) < n /\ ~(Cardinality(Ahead(r)) < n)
        BY <1>1, <1>5, <2>1
      <3> HIDE DEF Ahead
      <3>5. QED
        BY <1>4, <3>2, <3>3, <3>4
    <2> DEFINE old == S \ newest
    <2>2. old \in SUBSET Nat /\ old # {} /\ IsFiniteSet(old)
      BY <1>2, <1>5
    <2>3. PICK m \in old : \A y \in old : m >= y
      <3> HIDE DEF old
      <3>1. QED
        BY <2>2, LargestNumber
    <2>4. Ahead(m) \in SUBSET newest /\ newest \in SUBSET S
      <3>1. \A x \in S : x \in Nat
        OBVIOUS
      <3>2. \A x \in S : x > m => x \notin old
        BY <2>3, <3>1
      <3>3. QED
        BY <1>1, <3>2
    <2>5. Cardinality(Ahead(m)) <= Cardinality(newest)
      <3> HIDE DEF Ahead
      <3>1. QED
        BY <1>2, <2>4, FS_Subset
    <2>6. ~(Cardinality(Ahead(m)) < n) /\ Cardinality(Ahead(m)) \in Nat
      BY <1>1, <1>4, <2>3
    <2>7. Cardinality(newest) \in Nat
      BY <1>2, <2>4
    <2> HIDE DEF Ahead
    <2>8. QED
      BY <2>1, <2>5, <2>6, <2>7
  <1>6. QED
    BY <1>1, <1>5 DEF newest

LEMMA NewestEnds ==
    ASSUME NEW S \in SUBSET Nat, IsFiniteSet(S), S # {}, NEW n \in Nat \ {0}
    PROVE  \E m \in Reading!Newest(S, n) : \A r \in Reading!Newest(S, n) : m <= r
  <1> DEFINE newest == Reading!Newest(S, n)
             Ahead(r) == {q \in S : q > r}
  <1>1. PICK top \in S : \A y \in S : top >= y
    BY LargestNumber
  <1>2. Ahead(top) = {}
    <2>1. \A q \in S : q \in Nat
      OBVIOUS
    <2>2. \A q \in S : ~(q > top)
      BY <1>1, <2>1
    <2>3. QED
      BY <2>2
  <1>3. newest \in SUBSET S /\ (top \in newest <=> Cardinality(Ahead(top)) < n)
    BY <1>1, NewestFill
  <1>4. Cardinality(Ahead(top)) = 0
    <2> HIDE DEF Ahead
    <2>1. QED
      BY <1>2, FS_EmptySet
  <1> HIDE DEF newest
  <1>5. newest \in SUBSET Nat /\ newest # {}
    BY <1>3, <1>4
  <1>6. \E m \in newest : \A r \in newest : m <= r
    BY <1>5, SmallestNumber
  <1>7. QED
    BY <1>6 DEF newest

(* There are no more than asked for.                                       *)
LEMMA NewestBounded ==
    ASSUME NEW S \in SUBSET Nat, IsFiniteSet(S), NEW n \in Nat \ {0}
    PROVE  Cardinality(Reading!Newest(S, n)) <= n
  <1> DEFINE newest == Reading!Newest(S, n)
             Ahead(r) == {q \in S : q > r}
  <1>1. newest \in SUBSET S /\ \A r \in S : r \in newest <=> Cardinality(Ahead(r)) < n
    BY NewestFill
  <1>2. CASE S = {}
    <2>1. newest = {}
      BY <1>1, <1>2
    <2> HIDE DEF newest
    <2>2. QED
      BY <2>1, FS_EmptySet DEF newest
  <1>3. CASE S # {}
    <2>1. PICK m \in newest : \A r \in newest : m <= r
      BY <1>3, NewestEnds
    <2>2. m \in S /\ Cardinality(Ahead(m)) < n
      BY <1>1, <2>1
    <2>3. newest \in SUBSET (Ahead(m) \cup {m})
      <3>1. ASSUME NEW r \in newest
            PROVE  r \in Ahead(m) \cup {m}
        <4>1. r \in Nat /\ m \in Nat /\ m <= r /\ r \in S
          BY <1>1, <2>1, <2>2
        <4>2. r = m \/ r > m
          BY <4>1
        <4>3. QED
          BY <4>1, <4>2
      <3>2. QED
        BY <3>1
    <2>4. Ahead(m) \in SUBSET S /\ m \notin Ahead(m)
      <3>1. m \in Nat
        BY <2>2
      <3>2. QED
        BY <3>1
    <2> HIDE DEF Ahead, newest
    <2>5. IsFiniteSet(Ahead(m)) /\ Cardinality(Ahead(m)) \in Nat
      BY <2>4, FS_Subset, FS_CardinalityType
    <2>6. /\ IsFiniteSet(Ahead(m) \cup {m})
          /\ Cardinality(Ahead(m) \cup {m}) = Cardinality(Ahead(m)) + 1
      BY <2>4, <2>5, FS_AddElement
    <2>7. Cardinality(newest) <= Cardinality(Ahead(m) \cup {m}) /\ IsFiniteSet(newest)
      BY <2>3, <2>6, FS_Subset
    <2>8. Cardinality(newest) \in Nat
      BY <2>7, FS_CardinalityType
    <2>9. QED
      BY <2>2, <2>5, <2>6, <2>7, <2>8 DEF newest
  <1>4. QED
    BY <1>2, <1>3

(* A set with no more than was asked for is returned as it is.             *)
LEMMA NewestOfFew ==
    ASSUME NEW S \in SUBSET Nat, IsFiniteSet(S), NEW n \in Nat \ {0}, Cardinality(S) <= n
    PROVE  Reading!Newest(S, n) = S
  <1> DEFINE Ahead(r) == {q \in S : q > r}
  <1>1. ASSUME NEW r \in S
        PROVE  Cardinality(Ahead(r)) < n
    <2>1. Ahead(r) \in SUBSET S /\ r \notin Ahead(r)
      <3>1. r \in Nat
        OBVIOUS
      <3>2. QED
        BY <3>1
    <2>2. Ahead(r) # S
      BY <2>1
    <2> HIDE DEF Ahead
    <2>3. /\ IsFiniteSet(Ahead(r)) /\ Cardinality(Ahead(r)) \in Nat /\ Cardinality(S) \in Nat
          /\ Cardinality(Ahead(r)) < Cardinality(S)
      BY <2>1, <2>2, FS_Subset, FS_CardinalityType
    <2>4. QED
      BY <2>3
  <1>2. /\ Reading!Newest(S, n) \in SUBSET S
        /\ \A r \in S : r \in Reading!Newest(S, n) <=> Cardinality(Ahead(r)) < n
    BY NewestFill
  <1> HIDE DEF Ahead
  <1>3. QED
    BY <1>1, <1>2

(* What each account answered is the newest of what it had when it was     *)
(* read, and the merged list is made of the answers when all are there.    *)
Answers == UNION {answer[a].messages : a \in Reading!Successful}

ReadingInv ==
    /\ inbox \in [Mailboxes -> SUBSET (1..MaxMessages)]
    /\ seen \in [Mailboxes -> SUBSET (1..MaxMessages)]
    /\ answer = [a \in Mailboxes |-> answer[a]]
    /\ \A a \in Mailboxes : answer[a] \in {None, Reading!Failed, Reading!Returned(seen[a], Limit)}
    /\ merged # None =>
          /\ \A a \in Mailboxes : answer[a] # None
          /\ merged = IF Reading!Successful = {} THEN Reading!Failed
                      ELSE [ok |-> TRUE, messages |-> Reading!Chosen(Answers),
                            more |-> Reading!More(Answers)]

LEMMA ReadsAreBounded ==
    /\ MaxMessages \in Nat /\ Limit \in Nat \ {0} /\ IsFiniteSet(1..MaxMessages)
    /\ 1..MaxMessages \in SUBSET Nat
  <1>1. MaxMessages \in Nat /\ Limit \in Nat \ {0}
    BY IntegrationAssumptions DEF Reading!ReadsAssumption
  <1>2. IsFiniteSet(1..MaxMessages)
    BY <1>1, FS_Interval
  <1>3. QED
    BY <1>1, <1>2

LEMMA SameCount == \A S : Reading!Cardinality(S) = Cardinality(S)
  BY DEF Reading!Cardinality, Cardinality

LEMMA MessagesAreFinite ==
    ASSUME NEW S \in SUBSET (1..MaxMessages)
    PROVE  S \in SUBSET Nat /\ IsFiniteSet(S) /\ Cardinality(S) \in Nat
  BY ReadsAreBounded, FS_Subset, FS_CardinalityType

LEMMA ReadingBegins == Reading!Init => ReadingInv
  BY DEF Reading!Init, ReadingInv

LEMMA ReadingGoesOn == ReadingInv /\ [Reading!Next]_(Reading!vars) => ReadingInv'
  <1> SUFFICES ASSUME ReadingInv, [Reading!Next]_(Reading!vars)
               PROVE  ReadingInv'
    OBVIOUS
  <1>1. ASSUME NEW a \in Mailboxes, Reading!Deliver(a)
        PROVE  ReadingInv'
    <2> DEFINE n == Reading!Cardinality(Reading!Arrived)
    <2>1. n \in Nat
      <3>1. Reading!Arrived \in SUBSET (1..MaxMessages)
        BY DEF ReadingInv, Reading!Arrived
      <3>2. QED
        BY <3>1, MessagesAreFinite, SameCount
    <2>2. /\ n < MaxMessages /\ UNCHANGED <<answer, seen, merged>>
          /\ inbox' = [inbox EXCEPT ![a] = inbox[a] \cup {n + 1}]
      BY <1>1 DEF Reading!Deliver
    <2> HIDE DEF n
    <2>3. n + 1 \in 1..MaxMessages
      BY <2>1, <2>2, ReadsAreBounded
    <2>4. inbox' \in [Mailboxes -> SUBSET (1..MaxMessages)]
      BY <2>2, <2>3 DEF ReadingInv
    <2>5. Reading!Successful' = Reading!Successful /\ Answers' = Answers
          /\ Reading!More(Answers)' = Reading!More(Answers)
          /\ Reading!Chosen(Answers)' = Reading!Chosen(Answers)
      BY <2>2 DEF Reading!Successful, Answers, Reading!More, Reading!Chosen, Reading!Newest
    <2>6. QED
      BY <2>2, <2>4, <2>5 DEF ReadingInv
  <1>2. ASSUME NEW a \in Mailboxes, Reading!Read(a)
        PROVE  ReadingInv'
    <2>1. /\ answer[a] = None /\ UNCHANGED <<inbox, merged>>
          /\ seen' = [seen EXCEPT ![a] = inbox[a]]
      BY <1>2 DEF Reading!Read
    <2>2. PICK r \in {Reading!Failed, Reading!Returned(inbox[a], Limit)} :
             answer' = [answer EXCEPT ![a] = r]
      BY <1>2 DEF Reading!Read
    <2>3. merged = None
      BY <2>1 DEF ReadingInv
    <2>4. seen' \in [Mailboxes -> SUBSET (1..MaxMessages)]
      BY <2>1 DEF ReadingInv
    <2>5. answer' = [b \in Mailboxes |-> answer'[b]]
      BY <2>2 DEF ReadingInv
    <2>6. ASSUME NEW b \in Mailboxes
          PROVE  answer'[b] \in {None, Reading!Failed, Reading!Returned(seen'[b], Limit)}
      <3>1. CASE b = a
        BY <2>1, <2>2, <3>1 DEF ReadingInv
      <3>2. CASE b # a
        BY <2>1, <2>2, <3>2 DEF ReadingInv
      <3>3. QED
        BY <3>1, <3>2
    <2>7. QED
      BY <2>1, <2>3, <2>4, <2>5, <2>6 DEF ReadingInv
  <1>3. CASE Reading!Merge
    <2>1. /\ UNCHANGED <<inbox, answer, seen>> /\ \A a \in Mailboxes : answer[a] # None
          /\ merged' = IF Reading!Successful = {} THEN Reading!Failed
                       ELSE [ok |-> TRUE, messages |-> Reading!Chosen(Answers),
                             more |-> Reading!More(Answers)]
      BY <1>3 DEF Reading!Merge, Answers
    <2>2. Reading!Successful' = Reading!Successful /\ Answers' = Answers
          /\ Reading!More(Answers)' = Reading!More(Answers)
          /\ Reading!Chosen(Answers)' = Reading!Chosen(Answers)
      BY <2>1 DEF Reading!Successful, Answers, Reading!More, Reading!Chosen, Reading!Newest
    <2>3. QED
      BY <2>1, <2>2 DEF ReadingInv
  <1>4. CASE UNCHANGED Reading!vars
    BY <1>4 DEF Reading!vars, ReadingInv, Reading!Successful, Answers, Reading!More
  <1>5. QED
    BY <1>1, <1>2, <1>3, <1>4 DEF Reading!Next

(* What an account returned, and what of what it had it did not.           *)
LEMMA AnswerOfAccount ==
    ASSUME ReadingInv, NEW a \in Mailboxes, answer[a] # None, answer[a].ok
    PROVE  /\ answer[a].messages = Reading!Newest(seen[a], Limit)
           /\ answer[a].more <=> Cardinality(seen[a]) > Limit
           /\ seen[a] \in SUBSET (1..MaxMessages)
  <1>1. answer[a] \in {Reading!Failed, Reading!Returned(seen[a], Limit)}
        /\ seen[a] \in SUBSET (1..MaxMessages)
    BY DEF ReadingInv
  <1>2. ~Reading!Failed.ok
    BY DEF Reading!Failed
  <1>3. answer[a] = Reading!Returned(seen[a], Limit)
    BY <1>1, <1>2
  <1> DEFINE more == Reading!Cardinality(seen[a]) > Limit
             newest == Reading!Newest(seen[a], Limit)
  <1>4. answer[a] = [ok |-> TRUE, messages |-> newest, more |-> more]
    BY <1>3 DEF Reading!Returned
  <1>5. more <=> Cardinality(seen[a]) > Limit
    BY SameCount
  <1>6. more \in BOOLEAN
    OBVIOUS
  <1> HIDE DEF more, newest
  <1>7. answer[a].messages = newest /\ answer[a].more = more
    BY <1>4
  <1>8. QED
    BY <1>1, <1>5, <1>6, <1>7 DEF newest

(* The pages of several accounts have in them the page of all of them.     *)
LEMMA MergedIsNewest == ReadingInv => Reading!NewestOfAll /\ Reading!ExactIsAll
  <1> SUFFICES ASSUME ReadingInv, merged # None, merged.ok
               PROVE  /\ merged.messages \subseteq Reading!AllSeen
                      /\ \A m \in Reading!AllSeen \ merged.messages :
                            /\ Reading!Cardinality(merged.messages) = Limit
                            /\ \A k \in merged.messages : k > m
                      /\ ~merged.more => merged.messages = Reading!AllSeen
    BY DEF Reading!NewestOfAll, Reading!ExactIsAll
  <1> DEFINE S == Answers
             page == Reading!Newest(S, Limit)
             more == Reading!More(S)
  <1>1. /\ merged.messages = page
        /\ merged.more <=> more
        /\ \A a \in Mailboxes : answer[a] # None
    <2>1. Reading!Successful # {}
      BY DEF ReadingInv, Reading!Failed
    <2>2. merged = [ok |-> TRUE, messages |-> page, more |-> more]
      BY <2>1 DEF ReadingInv, Reading!Chosen
    <2>3. more \in BOOLEAN
      BY DEF Reading!More
    <2> HIDE DEF page, more
    <2>4. merged.messages = page /\ merged.more = more
      BY <2>2
    <2>5. QED
      BY <2>3, <2>4 DEF ReadingInv
  <1>2. ASSUME NEW a \in Reading!Successful
        PROVE  /\ a \in Mailboxes /\ answer[a].ok
               /\ answer[a].messages = Reading!Newest(seen[a], Limit)
               /\ answer[a].more <=> Cardinality(seen[a]) > Limit
               /\ seen[a] \in SUBSET (1..MaxMessages)
               /\ answer[a].messages \in SUBSET seen[a] /\ answer[a].messages \in SUBSET S
    <2>1. a \in Mailboxes /\ answer[a].ok
      BY DEF Reading!Successful
    <2>2. /\ answer[a].messages = Reading!Newest(seen[a], Limit)
          /\ answer[a].more <=> Cardinality(seen[a]) > Limit
          /\ seen[a] \in SUBSET (1..MaxMessages)
      BY <1>1, <2>1, AnswerOfAccount
    <2>3. answer[a].messages \in SUBSET seen[a]
      BY <2>2 DEF Reading!Newest
    <2>4. answer[a].messages \in SUBSET S
      BY DEF Answers
    <2>5. QED
      BY <2>1, <2>2, <2>3, <2>4
  <1>3. S \in SUBSET Reading!AllSeen /\ S \in SUBSET (1..MaxMessages)
    BY <1>2 DEF Answers, Reading!AllSeen
  <1>4. S \in SUBSET Nat /\ IsFiniteSet(S) /\ Cardinality(S) \in Nat
    BY <1>3, MessagesAreFinite
  <1>5. Limit \in Nat \ {0} /\ Limit \in Nat
    BY ReadsAreBounded
  <1> HIDE DEF S
  <1>6. /\ page \in SUBSET S
        /\ \A r \in S : r \in page <=> Cardinality({q \in S : q > r}) < Limit
        /\ \A r \in S : r \notin page => (\A q \in page : q > r) /\ Cardinality(page) >= Limit
        /\ Cardinality(page) <= Limit
        /\ Cardinality(S) <= Limit => page = S
    BY <1>4, <1>5, NewestFill, NewestBounded, NewestOfFew
  <1> HIDE DEF page
  <1>7. page \in SUBSET (1..MaxMessages) /\ Cardinality(page) \in Nat
    BY <1>3, <1>6, MessagesAreFinite
  <1>8. ASSUME NEW m \in Reading!AllSeen, m \notin page
        PROVE  Cardinality(page) = Limit /\ \A k \in page : k > m
    <2>1. CASE m \in S
      BY <1>5, <1>6, <1>7, <1>8, <2>1
    <2>2. CASE m \notin S
      <3>1. PICK a \in Reading!Successful : m \in seen[a]
        BY DEF Reading!AllSeen
      <3> DEFINE P == Reading!Newest(seen[a], Limit)
      <3>2. P \in SUBSET S /\ P = answer[a].messages /\ seen[a] \in SUBSET (1..MaxMessages)
        BY <1>2
      <3>3. m \notin P /\ m \in seen[a] /\ seen[a] \in SUBSET Nat /\ IsFiniteSet(seen[a])
        BY <2>2, <3>1, <3>2, MessagesAreFinite
      <3>4. (\A q \in P : q > m) /\ Cardinality(P) >= Limit
        BY <1>5, <3>3, NewestFill
      <3> HIDE DEF P
      <3>5. IsFiniteSet(P) /\ Cardinality(P) \in Nat /\ Cardinality(P) <= Cardinality(S)
        BY <1>4, <3>2, FS_Subset, FS_CardinalityType
      <3>6. ASSUME NEW k \in page
            PROVE  k > m
        <4> DEFINE Ahead == {q \in S : q > k}
        <4>1. SUFFICES ASSUME ~(k > m)
                       PROVE  FALSE
          OBVIOUS
        <4>2. k \in Nat /\ m \in Nat /\ k \in S
          BY <1>4, <1>6, <3>3
        <4>3. ASSUME NEW q \in P
              PROVE  q \in Ahead
          <5>1. q \in S /\ q \in Nat /\ q > m
            BY <1>4, <3>2, <3>4
          <5>2. q > k
            BY <4>1, <4>2, <5>1
          <5>3. QED
            BY <5>1, <5>2
        <4>4. P \in SUBSET Ahead /\ Ahead \in SUBSET S /\ Cardinality(Ahead) < Limit
          BY <1>6, <4>2, <4>3
        <4> HIDE DEF Ahead
        <4>5. IsFiniteSet(Ahead) /\ Cardinality(Ahead) \in Nat
          BY <1>4, <4>4, FS_Subset, FS_CardinalityType
        <4>6. Cardinality(P) <= Cardinality(Ahead)
          BY <4>4, <4>5, FS_Subset
        <4>7. QED
          BY <1>5, <3>4, <3>5, <4>4, <4>5, <4>6
      <3>7. Cardinality(page) >= Limit
        <4>1. CASE page = S
          BY <1>4, <1>5, <3>4, <3>5, <4>1
        <4>2. CASE page # S
          BY <1>6, <4>2
        <4>3. QED
          BY <4>1, <4>2
      <3>8. QED
        BY <1>5, <1>6, <1>7, <3>6, <3>7
    <2>3. QED
      BY <2>1, <2>2
  <1>9. ASSUME ~more
        PROVE  page = Reading!AllSeen
    <2>1. /\ \A a \in Reading!Successful : ~answer[a].more
          /\ ~(Cardinality(S) > Limit)
      BY <1>9, SameCount DEF Reading!More
    <2>2. page = S
      BY <1>4, <1>5, <1>6, <2>1
    <2>3. ASSUME NEW a \in Reading!Successful
          PROVE  seen[a] \in SUBSET S
      <3>1. /\ seen[a] \in SUBSET Nat /\ IsFiniteSet(seen[a]) /\ Cardinality(seen[a]) \in Nat
            /\ ~(Cardinality(seen[a]) > Limit)
        BY <1>2, <2>1, MessagesAreFinite
      <3>2. Reading!Newest(seen[a], Limit) = seen[a]
        BY <1>5, <3>1, NewestOfFew
      <3>3. QED
        BY <1>2, <3>2
    <2>4. QED
      BY <1>3, <2>2, <2>3 DEF Reading!AllSeen
  <1>10. Reading!Cardinality(page) = Cardinality(page)
    BY SameCount
  <1>11. page \subseteq Reading!AllSeen
    BY <1>3, <1>6
  <1> HIDE DEF more
  <1>12. QED
    BY <1>1, <1>8, <1>9, <1>10, <1>11

(* Each answer is a page of what the account had.                          *)
LEMMA AnswersArePages == ReadingInv => Reading!TypeOK
  <1> SUFFICES ASSUME ReadingInv, NEW a \in Mailboxes, answer[a] # None
               PROVE  /\ answer[a].messages \subseteq seen[a]
                      /\ Reading!Cardinality(answer[a].messages) <= Limit
    BY DEF Reading!TypeOK
  <1>1. answer[a] \in {Reading!Failed, Reading!Returned(seen[a], Limit)}
        /\ seen[a] \in SUBSET (1..MaxMessages)
    BY DEF ReadingInv
  <1>2. seen[a] \in SUBSET Nat /\ IsFiniteSet(seen[a])
    BY <1>1, MessagesAreFinite
  <1>3. CASE answer[a] = Reading!Failed
    <2>1. answer[a].messages = {}
      BY <1>3 DEF Reading!Failed
    <2>2. QED
      BY <2>1, FS_EmptySet, SameCount, ReadsAreBounded
  <1>4. CASE answer[a] = Reading!Returned(seen[a], Limit)
    <2>1. answer[a].messages = Reading!Newest(seen[a], Limit)
      BY <1>4 DEF Reading!Returned
    <2>2. /\ Reading!Newest(seen[a], Limit) \in SUBSET seen[a]
          /\ Cardinality(Reading!Newest(seen[a], Limit)) <= Limit
      BY <1>2, ReadsAreBounded, NewestFill, NewestBounded
    <2>3. QED
      BY <2>1, <2>2, SameCount
  <1>5. QED
    BY <1>1, <1>3, <1>4

LEMMA ReadingHolds ==
    Reading!Spec => [](Reading!TypeOK /\ Reading!NewestOfAll /\ Reading!ExactIsAll)
  BY ReadingBegins, ReadingGoesOn, MergedIsNewest, AnswersArePages, PTL DEF Reading!Spec

-----------------------------------------------------------------------------
(* The parts together.                                                     *)

LEMMA BitrixPart == Spec => Bitrix!Spec
  <1>1. Init => Bitrix!Init
    BY DEF Init
  <1>2. [Next]_vars => [Bitrix!Next]_(Bitrix!vars)
    BY DEF Next, vars, bitrix, Bitrix!vars, Bitrix!links, Bitrix!page, Bitrix!writes,
           Confirmed, Scheduled, Bitrix24, Linking, Merging
  <1>3. QED
    BY <1>1, <1>2, PTL DEF Spec, Bitrix!Spec

LEMMA LinkedPart == Spec => Linked!Spec
  <1>1. Init => Linked!Init
    BY DEF Init
  <1>2. [Next]_vars => [Linked!Next]_(Linked!vars)
    BY DEF Next, vars, linked, Linked!vars, Confirmed, Scheduled, Bitrix24, Linking, Merging
  <1>3. QED
    BY <1>1, <1>2, PTL DEF Spec, Linked!Spec

LEMMA ReadingPart == Spec => Reading!Spec
  <1>1. Init => Reading!Init
    BY DEF Init
  <1>2. [Next]_vars => [Reading!Next]_(Reading!vars)
    BY DEF Next, vars, reads, Reading!vars, Confirmed, Scheduled, Bitrix24, Linking, Merging
  <1>3. QED
    BY <1>1, <1>2, PTL DEF Spec, Reading!Spec

(* The records of every part have the values that the code gives them.     *)
THEOREM IntegrationTypes == Spec => []TypeOK
  <1> DEFINE Lost == part = "crashing"
             Parts == {"overrunning", "crashing", "running", "bitrix", "linked", "reading"}
  <1>1. [Next]_vars => (Lost' <=> Lost) /\ (part \in Parts => (part \in Parts)')
    BY PartStays
  <1>2. Init => part \in Parts
    BY DEF Init
  <1>3. Overrunning!Spec => []Overrunning!TypeOK
    BY IntegrationAssumptions, Overrunning!ActionsTyped
  <1>4. Crashing!Spec => []Crashing!TypeOK
    BY IntegrationAssumptions, Crashing!ActionsTyped
  <1>5. Crashing!TypeOK => Overrunning!TypeOK
    BY DEF Crashing!TypeOK, Overrunning!TypeOK, Crashing!Keys, Overrunning!Keys,
           Crashing!Processes, Overrunning!Processes, Crashing!Ended, Overrunning!Ended,
           Crashing!Closed, Overrunning!Closed, Crashing!ExecutionStatus,
           Overrunning!ExecutionStatus, Crashing!ActionStatus, Overrunning!ActionStatus
  <1>6. Running!Spec => []Running!TypeOK
    BY IntegrationAssumptions, Running!ActionsTyped
  <1>7. /\ part \in Parts /\ Overrunning!TypeOK /\ Running!TypeOK /\ Bitrix!TypeOK
        /\ Linked!TypeOK /\ Reading!TypeOK
        => TypeOK
    BY DEF TypeOK
  <1>8. QED
    BY <1>1, <1>2, <1>3, <1>4, <1>5, <1>6, <1>7, OverrunningGoesOn, CrashingGoesOn,
       RunningGoesOn, BitrixPart, LinkedPart, ReadingPart, BitrixHolds, LinkedHolds,
       ReadingHolds, PTL DEF Spec

(* A confirmed write is made once, and a write to Bitrix24 that was made   *)
(* is recorded as made or as unknown: integrations/composio/service.py for *)
(* a task two workers hold, integrations/bitrix24 for a lost answer.       *)
THEOREM WritesAreMadeOnce == Spec => []WrittenOnce
  <1> DEFINE Lost == part = "crashing"
             Alone == part = "overrunning"
  <1>1. [Next]_vars => (Lost' <=> Lost) /\ (Alone' <=> Alone)
    BY PartStays
  <1>2. Alone => ~Lost
    OBVIOUS
  <1>3. Overrunning!Spec => []Overrunning!ConsumedOnce
    BY IntegrationAssumptions, Overrunning!WriteConsumesConfirmation
  <1>4. (Alone => Overrunning!ConsumedOnce) /\ Bitrix!WriteOnce /\ Bitrix!WrittenIsRecorded
        => WrittenOnce
    BY DEF WrittenOnce
  <1>5. QED
    BY <1>1, <1>2, <1>3, <1>4, OverrunningGoesOn, BitrixPart, BitrixHolds, PTL DEF Spec

(* A token is held by a connection that is active or waits to be           *)
(* confirmed, and the account that was made primary is the one used: links *)
(* and attempts without bound, and a page that goes on meanwhile.          *)
THEOREM ConnectionsAreKept == Spec => []ConnectionsHold
  <1>1. Bitrix!CredentialHeld /\ Linked!PrimaryIsUsed => ConnectionsHold
    BY DEF ConnectionsHold
  <1>2. QED
    BY <1>1, BitrixPart, LinkedPart, BitrixHolds, LinkedHolds, PTL

(* An account that was found lost stays lost, and no check takes one out   *)
(* of use that is connected: the loaded rows of                            *)
(* integrations/composio/service.py are written back only where the        *)
(* provider said something else.                                           *)
THEOREM LostIsForGood == Spec => LostStaysLost
  BY LinkedPart, LinkedHolds, PTL DEF LostStaysLost

(* The merged list of several accounts is the page one account would have  *)
(* returned, and an exact count counts every message:                      *)
(* _merged_multi_account_read, for any accounts, messages and limit.       *)
THEOREM MergedAsOne == Spec => []NewestOfAll
  <1>1. Reading!NewestOfAll /\ Reading!ExactIsAll => NewestOfAll
    BY DEF NewestOfAll
  <1>2. QED
    BY <1>1, ReadingPart, ReadingHolds, PTL

-----------------------------------------------------------------------------
(* Accounts.  The rows of channel_accounts: what is active was verified,   *)
(* what was verified has an address, and no two rows share one.            *)

RowsTyped == iAccount \in [AccountRows -> Accounts!AccountRow]
RowsVerified ==
    \A r \in AccountRows :
        /\ iAccount[r].active => iAccount[r].verified
        /\ iAccount[r].verified => iAccount[r].address # Nobody
        /\ iAccount[r].kind = "whatsapp" => iAccount[r].address \in Phones
RowsApart ==
    \A r, s \in AccountRows :
        iAccount[r].address # Nobody /\ iAccount[r].address = iAccount[s].address => r = s
RowsInv == RowsTyped /\ RowsVerified /\ RowsApart

(* Identities are of users that exist, and pair chats and users; what was  *)
(* accepted was accepted by such a pair, what is being accepted is pending *)
(* and is being accepted once.                                             *)
UsersTyped == iUser \in [Accounts!Users -> {"none", "active", "disabled"}]
IdentityInv ==
    /\ iIdentity \subseteq Chats \X Accounts!Users
    /\ \A x, y \in iIdentity : x[1] = y[1] <=> x[2] = y[2]
    /\ \A x \in iIdentity : iUser[x[2]] # "none"
InvitesTyped == iInvite \in [Invites -> Accounts!InviteRow]
InvitesPaired ==
    \A i \in Invites : iInvite[i].status = "accepted" =>
        <<iInvite[i].chat, iInvite[i].user>> \in iIdentity
AcceptingInv ==
    /\ iAccepting \subseteq Accounts!Transaction
    /\ \A t \in iAccepting : /\ iInvite[t.invite].status = "pending"
                             /\ t.found # Nobody => <<t.chat, t.found>> \in iIdentity
    /\ \A s, t \in iAccepting : s.invite = t.invite => s = t
RestTyped ==
    /\ iSuspension \in [Accounts!Users -> SUBSET AccountRows]
    /\ iConversation \in [Accounts!Addresses -> Accounts!Users \cup {Nobody}]

AccountsInv == /\ RowsInv /\ UsersTyped /\ IdentityInv /\ InvitesTyped /\ InvitesPaired
               /\ AcceptingInv /\ RestTyped

LEMMA NobodyIsNone ==
    /\ Nobody \notin Accounts!Users /\ Nobody \notin Accounts!Addresses
    /\ \A c \in Chats : c \notin Phones
  BY ChannelAssumptions DEF Accounts!AccountAssumption

LEMMA AccountsBegin == Accounts!Init => AccountsInv
  BY NobodyIsNone DEF Accounts!Init, AccountsInv, RowsInv, RowsTyped, RowsVerified, RowsApart,
     UsersTyped, IdentityInv, InvitesTyped, InvitesPaired, AcceptingInv, RestTyped, Accounts!Free,
     Accounts!AccountRow, Accounts!InviteRow, Accounts!Users, Accounts!Addresses

(* A row that is written, by whatever operation.                           *)
LEMMA RowIsWritten ==
    ASSUME RowsInv, NEW r \in AccountRows, NEW new \in Accounts!AccountRow,
           new.active => new.verified, new.verified => new.address # Nobody,
           new.kind = "whatsapp" => new.address \in Phones,
           \A s \in AccountRows : new.address # Nobody /\ iAccount[s].address = new.address => s = r,
           iAccount' = [iAccount EXCEPT ![r] = new]
    PROVE  RowsInv'
  <1>1. /\ iAccount' \in [AccountRows -> Accounts!AccountRow] /\ iAccount'[r] = new
        /\ \A s \in AccountRows : s # r => iAccount'[s] = iAccount[s]
    BY DEF RowsInv, RowsTyped
  <1>2. RowsVerified'
    BY <1>1 DEF RowsInv, RowsVerified
  <1>3. RowsApart'
    <2>1. SUFFICES ASSUME NEW s \in AccountRows, NEW t \in AccountRows,
                          iAccount'[s].address # Nobody, iAccount'[s].address = iAccount'[t].address
                   PROVE  s = t
      BY DEF RowsApart
    <2>2. CASE s = r
      BY <1>1, <2>1, <2>2
    <2>3. CASE t = r
      BY <1>1, <2>1, <2>3
    <2>4. CASE s # r /\ t # r
      BY <1>1, <2>1, <2>4 DEF RowsInv, RowsApart
    <2>5. QED
      BY <2>2, <2>3, <2>4
  <1>4. QED
    BY <1>1, <1>2, <1>3 DEF RowsInv, RowsTyped

(* Rows of which only the activity changes, and only to what was verified. *)
LEMMA RowsAreSwitched ==
    ASSUME RowsInv, NEW S \in SUBSET AccountRows, NEW b \in BOOLEAN,
           b => \A r \in S : iAccount[r].verified,
           iAccount' = [r \in AccountRows |-> IF r \in S THEN [iAccount[r] EXCEPT !.active = b]
                                                         ELSE iAccount[r]]
    PROVE  RowsInv'
  <1>1. ASSUME NEW r \in AccountRows
        PROVE  /\ iAccount'[r] \in Accounts!AccountRow
               /\ iAccount'[r].kind = iAccount[r].kind /\ iAccount'[r].address = iAccount[r].address
               /\ iAccount'[r].verified = iAccount[r].verified
               /\ iAccount'[r].active => iAccount'[r].verified
    <2>1. iAccount[r] \in Accounts!AccountRow /\ (iAccount[r].active => iAccount[r].verified)
      BY DEF RowsInv, RowsTyped, RowsVerified
    <2>2. CASE r \in S
      <3>1. iAccount'[r] = [iAccount[r] EXCEPT !.active = b]
        BY <2>2
      <3>2. QED
        BY <2>1, <2>2, <3>1 DEF Accounts!AccountRow
    <2>3. CASE r \notin S
      BY <2>1, <2>3
    <2>4. QED
      BY <2>2, <2>3
  <1>2. RowsTyped'
    BY <1>1 DEF RowsTyped
  <1>3. RowsVerified'
    BY <1>1 DEF RowsInv, RowsVerified
  <1>4. RowsApart'
    BY <1>1 DEF RowsInv, RowsApart
  <1>5. QED
    BY <1>2, <1>3, <1>4 DEF RowsInv

(* What a row holds of one user and one kind.                              *)
LEMMA CodedRow ==
    ASSUME RowsInv, NEW r \in AccountRows, NEW u \in Accounts!Users,
           NEW kind \in {"telegram", "whatsapp"}, NEW a \in Accounts!Addresses \cup {Nobody},
           kind = "whatsapp" => a \in Phones,
           \A s \in AccountRows : a # Nobody /\ iAccount[s].address = a => s = r,
           Accounts!Coded(r, u, kind, a)
    PROVE  RowsInv'
  <1> DEFINE new == [user |-> u, kind |-> kind, address |-> a, active |-> FALSE,
                     verified |-> FALSE, code |-> "valid"]
  <1>1. new \in Accounts!AccountRow
    BY DEF Accounts!AccountRow
  <1>2. iAccount' = [iAccount EXCEPT ![r] = new]
    BY DEF Accounts!Coded
  <1>3. /\ ~new.active /\ ~new.verified /\ new.kind = kind /\ new.address = a
    OBVIOUS
  <1> HIDE DEF new
  <1>4. QED
    BY <1>1, <1>2, <1>3, RowIsWritten

-----------------------------------------------------------------------------
(* The steps of accounts, one by one.                                      *)

LEMMA BeginAcceptKeeps ==
    ASSUME AccountsInv, NEW c \in Chats, NEW i \in Invites, Accounts!BeginAccept(c, i)
    PROVE  AccountsInv'
  <1>1. PICK u \in Accounts!Users \cup {Nobody} :
            /\ IF u = Nobody THEN \A v \in Accounts!Users : <<c, v>> \notin iIdentity
                             ELSE <<c, u>> \in iIdentity
            /\ iAccepting' = iAccepting \cup {[chat |-> c, invite |-> i, found |-> u]}
    BY DEF Accounts!BeginAccept
  <1> DEFINE new == [chat |-> c, invite |-> i, found |-> u]
  <1>2. /\ new \in Accounts!Transaction /\ new.chat = c /\ new.invite = i /\ new.found = u
        /\ iAccepting' = iAccepting \cup {new}
    BY <1>1 DEF Accounts!Transaction
  <1> HIDE DEF new
  <1>3. iInvite[i].status = "pending" /\ \A t \in iAccepting : t.invite # i
    BY DEF Accounts!BeginAccept, Accounts!Acceptable, Accounts!Locked
  <1>4. UNCHANGED <<iUser, iIdentity, iInvite, iAccount, iSuspension, iConversation>>
    BY DEF Accounts!BeginAccept
  <1>5. AcceptingInv'
    BY <1>1, <1>2, <1>3, <1>4 DEF AccountsInv, AcceptingInv
  <1>6. QED
    BY <1>4, <1>5 DEF AccountsInv, RowsInv, RowsTyped, RowsVerified, RowsApart, UsersTyped,
       IdentityInv, InvitesTyped, InvitesPaired, RestTyped

(* The end of an acceptance writes the row of its chat for the user of its *)
(* invitation.                                                             *)
LEMMA LinkedRow ==
    ASSUME RowsInv, NEW r \in AccountRows, NEW c \in Chats, NEW u \in Accounts!Users,
           Accounts!LinkChat(r, c, u)
    PROVE  RowsInv'
  <1> DEFINE new == [user |-> u, kind |-> "telegram", address |-> c,
                     active |-> TRUE, verified |-> TRUE, code |-> "none"]
  <1>1. new \in Accounts!AccountRow
    BY DEF Accounts!AccountRow, Accounts!Addresses
  <1>2. iAccount' = [iAccount EXCEPT ![r] = new]
    BY DEF Accounts!LinkChat
  <1>3. \A s \in AccountRows : iAccount[s].address = c => s = r
    <2>1. c # Nobody
      BY NobodyIsNone DEF Accounts!Addresses
    <2>2. QED
      BY <2>1 DEF Accounts!LinkChat, Accounts!RowOf, RowsInv, RowsApart
  <1>4. new.verified /\ new.kind = "telegram" /\ new.address = c /\ c # Nobody
    BY NobodyIsNone DEF Accounts!Addresses
  <1> HIDE DEF new
  <1>5. QED
    BY <1>1, <1>2, <1>3, <1>4, RowIsWritten

(* Whether the user is new or not, he is then a pair with the chat.        *)
LEMMA EndAcceptPairs ==
    ASSUME AccountsInv, NEW t \in iAccepting, NEW u \in Accounts!Users, NEW r \in AccountRows,
           Accounts!EndAccept(t, u, r)
    PROVE  /\ UsersTyped' /\ IdentityInv' /\ iIdentity \subseteq iIdentity'
           /\ <<t.chat, u>> \in iIdentity'
  <1>1. t.chat \in Chats /\ t.found \in Accounts!Users \cup {Nobody}
    BY DEF AccountsInv, AcceptingInv, Accounts!Transaction
  <1>2. CASE /\ t.found = Nobody /\ iUser[u] = "none" /\ Accounts!NewIdentity(t.chat)
             /\ iUser' = [iUser EXCEPT ![u] = "active"]
             /\ iIdentity' = iIdentity \cup {<<t.chat, u>>}
    <2> DEFINE new == <<t.chat, u>>
    <2>1. /\ iUser'[u] = "active" /\ \A v \in Accounts!Users : v # u => iUser'[v] = iUser[v]
          /\ UsersTyped'
      BY <1>2 DEF AccountsInv, UsersTyped
    <2>2. /\ new \in Chats \X Accounts!Users /\ new[1] = t.chat /\ new[2] = u
          /\ iIdentity' = iIdentity \cup {new}
      BY <1>1, <1>2
    <2>3. ASSUME NEW x \in iIdentity
          PROVE  x[1] \in Chats /\ x[2] \in Accounts!Users /\ x = <<x[1], x[2]>>
      BY DEF AccountsInv, IdentityInv
    <2> HIDE DEF new
    <2>4. \A x \in iIdentity : x[1] # t.chat /\ x[2] # u
      BY <1>2, <2>3 DEF Accounts!NewIdentity, AccountsInv, IdentityInv
    <2>5. iIdentity' \subseteq Chats \X Accounts!Users
      BY <2>2 DEF AccountsInv, IdentityInv
    <2>6. \A x, y \in iIdentity' : x[1] = y[1] <=> x[2] = y[2]
      BY <2>2, <2>4 DEF AccountsInv, IdentityInv
    <2>7. \A x \in iIdentity' : iUser'[x[2]] # "none"
      BY <2>1, <2>2, <2>3, <2>4 DEF AccountsInv, IdentityInv
    <2>8. QED
      BY <1>2, <2>1, <2>5, <2>6, <2>7 DEF IdentityInv
  <1>3. CASE t.found = u /\ UNCHANGED <<iUser, iIdentity>>
    <2>1. <<t.chat, u>> \in iIdentity
      BY <1>3, NobodyIsNone DEF AccountsInv, AcceptingInv
    <2>2. QED
      BY <1>3, <2>1 DEF AccountsInv, UsersTyped, IdentityInv
  <1>4. QED
    BY <1>2, <1>3 DEF Accounts!EndAccept

LEMMA EndAcceptKeeps ==
    ASSUME AccountsInv, NEW t \in iAccepting, NEW u \in Accounts!Users, NEW r \in AccountRows,
           Accounts!EndAccept(t, u, r)
    PROVE  AccountsInv'
  <1> DEFINE i == t.invite
             c == t.chat
             row0 == iInvite[i]
             new == [row0 EXCEPT !.status = "accepted", !.chat = c, !.user = u]
  <1>1. c \in Chats /\ i \in Invites /\ row0 \in Accounts!InviteRow
    BY DEF AccountsInv, AcceptingInv, Accounts!Transaction, InvitesTyped
  <1>2. /\ UsersTyped' /\ IdentityInv' /\ iIdentity \subseteq iIdentity'
        /\ <<c, u>> \in iIdentity'
    BY EndAcceptPairs
  <1>3. iInvite' = [iInvite EXCEPT ![i] = new]
    BY <1>1 DEF Accounts!EndAccept, Accounts!Accepted, AccountsInv, InvitesTyped
  <1>4. /\ new \in Accounts!InviteRow /\ new.chat = c /\ new.user = u
    BY <1>1 DEF Accounts!InviteRow
  <1>5. /\ iAccepting' = iAccepting \ {t} /\ UNCHANGED <<iSuspension, iConversation>>
        /\ Accounts!LinkChat(r, c, u)
    BY DEF Accounts!EndAccept
  <1> HIDE DEF new, row0
  <1>6. /\ InvitesTyped' /\ iInvite'[i] = new /\ \A j \in Invites : j # i => iInvite'[j] = iInvite[j]
    BY <1>1, <1>3, <1>4 DEF AccountsInv, InvitesTyped
  <1>7. InvitesPaired'
    BY <1>2, <1>4, <1>6 DEF AccountsInv, InvitesPaired
  <1>8. AcceptingInv'
    <2>1. \A s \in iAccepting' : s \in iAccepting /\ s.invite # i
      BY <1>5 DEF AccountsInv, AcceptingInv
    <2>2. \A s \in iAccepting' : s.invite \in Invites
      BY <2>1 DEF AccountsInv, AcceptingInv, Accounts!Transaction
    <2>3. QED
      BY <1>2, <1>6, <2>1, <2>2 DEF AccountsInv, AcceptingInv
  <1>9. RowsInv'
    BY <1>1, <1>5, LinkedRow DEF AccountsInv
  <1>10. RestTyped'
    BY <1>5 DEF AccountsInv, RestTyped
  <1>11. QED
    BY <1>2, <1>6, <1>7, <1>8, <1>9, <1>10 DEF AccountsInv

LEMMA RollbackAcceptKeeps ==
    ASSUME AccountsInv, NEW t \in iAccepting, Accounts!RollbackAccept(t)
    PROVE  AccountsInv'
  BY DEF Accounts!RollbackAccept, AccountsInv, RowsInv, RowsTyped, RowsVerified, RowsApart,
     UsersTyped, IdentityInv, InvitesTyped, InvitesPaired, AcceptingInv, RestTyped

(* An invitation that is not being accepted, or stays as pending as it was.*)
LEMMA InviteIsWritten ==
    ASSUME AccountsInv, NEW i \in Invites, NEW new \in Accounts!InviteRow,
           new.status # "accepted",
           \/ new.status = "pending"
           \/ \A t \in iAccepting : t.invite # i,
           iInvite' = [iInvite EXCEPT ![i] = new],
           UNCHANGED <<iUser, iIdentity, iAccount, iSuspension, iAccepting, iConversation>>
    PROVE  AccountsInv'
  <1>1. /\ InvitesTyped' /\ iInvite'[i] = new /\ \A j \in Invites : j # i => iInvite'[j] = iInvite[j]
    BY DEF AccountsInv, InvitesTyped
  <1>2. InvitesPaired'
    BY <1>1 DEF AccountsInv, InvitesPaired
  <1>3. AcceptingInv'
    <2>1. \A t \in iAccepting : t.invite \in Invites
      BY DEF AccountsInv, AcceptingInv, Accounts!Transaction
    <2>2. QED
      BY <1>1, <2>1 DEF AccountsInv, AcceptingInv
  <1>4. QED
    BY <1>1, <1>2, <1>3 DEF AccountsInv, RowsInv, RowsTyped, RowsVerified, RowsApart, UsersTyped,
       IdentityInv, RestTyped

LEMMA InvitesKeep ==
    ASSUME AccountsInv, NEW i \in Invites,
           \/ Accounts!CreateInvite(i) \/ Accounts!RevokeInvite(i)
           \/ Accounts!ExpireInvite(i) \/ Accounts!InviteLate(i)
    PROVE  AccountsInv'
  <1> DEFINE row0 == iInvite[i]
  <1>1. row0 \in Accounts!InviteRow /\ iInvite \in [Invites -> Accounts!InviteRow]
    BY DEF AccountsInv, InvitesTyped
  <1>2. ASSUME NEW status \in {"pending", "expired", "revoked"},
               iInvite' = [iInvite EXCEPT ![i].status = status],
               status = "pending" \/ ~Accounts!Locked(i),
               UNCHANGED <<iUser, iIdentity, iAccount, iSuspension, iAccepting, iConversation>>
        PROVE  AccountsInv'
    <2> DEFINE new == [row0 EXCEPT !.status = status]
    <2>1. iInvite' = [iInvite EXCEPT ![i] = new]
      BY <1>1, <1>2
    <2>2. new \in Accounts!InviteRow /\ new.status = status
      BY <1>1 DEF Accounts!InviteRow
    <2> HIDE DEF new, row0
    <2>3. QED
      BY <1>2, <2>1, <2>2, InviteIsWritten DEF Accounts!Locked
  <1>3. CASE Accounts!CreateInvite(i)
    BY <1>2, <1>3 DEF Accounts!CreateInvite
  <1>4. CASE Accounts!RevokeInvite(i)
    BY <1>2, <1>4 DEF Accounts!RevokeInvite
  <1>5. CASE Accounts!ExpireInvite(i)
    BY <1>2, <1>5 DEF Accounts!ExpireInvite
  <1>6. CASE Accounts!InviteLate(i)
    <2> DEFINE new == [row0 EXCEPT !.late = TRUE]
    <2>1. iInvite' = [iInvite EXCEPT ![i] = new] /\ row0.status = "pending"
      BY <1>1, <1>6 DEF Accounts!InviteLate
    <2>2. new \in Accounts!InviteRow /\ new.status = row0.status
      BY <1>1 DEF Accounts!InviteRow
    <2>3. UNCHANGED <<iUser, iIdentity, iAccount, iSuspension, iAccepting, iConversation>>
      BY <1>6 DEF Accounts!InviteLate
    <2> HIDE DEF new, row0
    <2>4. QED
      BY <2>1, <2>2, <2>3, InviteIsWritten
  <1>7. QED
    BY <1>3, <1>4, <1>5, <1>6

(* A step that writes rows only.                                           *)
LEMMA OnlyRows ==
    ASSUME AccountsInv, RowsInv',
           UNCHANGED <<iUser, iIdentity, iInvite, iSuspension, iAccepting, iConversation>>
    PROVE  AccountsInv'
  BY DEF AccountsInv, UsersTyped, IdentityInv, InvitesTyped, InvitesPaired, AcceptingInv, RestTyped

LEMMA BindTelegramKeeps ==
    ASSUME AccountsInv, NEW u \in ApiUsers, NEW r \in AccountRows, Accounts!BindTelegram(u, r)
    PROVE  AccountsInv'
  <1>1. /\ Accounts!Coded(r, u, "telegram", iAccount[r].address)
        /\ UNCHANGED <<iUser, iIdentity, iInvite, iSuspension, iAccepting, iConversation>>
    BY DEF Accounts!BindTelegram
  <1>2. iAccount[r].address \in Accounts!Addresses \cup {Nobody} /\ u \in Accounts!Users
    BY DEF AccountsInv, RowsInv, RowsTyped, Accounts!AccountRow, Accounts!Users
  <1>3. \A s \in AccountRows : iAccount[r].address # Nobody
                               /\ iAccount[s].address = iAccount[r].address => s = r
    BY DEF AccountsInv, RowsInv, RowsApart
  <1>4. RowsInv'
    BY <1>1, <1>2, <1>3, CodedRow DEF AccountsInv
  <1>5. QED
    BY <1>1, <1>4, OnlyRows

LEMMA BindWhatsappKeeps ==
    ASSUME AccountsInv, NEW u \in ApiUsers, NEW r \in AccountRows, NEW p \in Phones,
           Accounts!BindWhatsapp(u, r, p)
    PROVE  AccountsInv'
  <1>1. /\ Accounts!Coded(r, u, "whatsapp", p)
        /\ UNCHANGED <<iUser, iIdentity, iInvite, iSuspension, iAccepting, iConversation>>
        /\ IF Accounts!RowOf(p) = {} THEN Accounts!FreeRow(r) ELSE r \in Accounts!RowOf(p)
    BY DEF Accounts!BindWhatsapp
  <1>2. p \in Accounts!Addresses /\ u \in Accounts!Users
    BY DEF Accounts!Addresses, Accounts!Users
  <1>3. \A s \in AccountRows : p # Nobody /\ iAccount[s].address = p => s = r
    BY <1>1 DEF Accounts!RowOf, AccountsInv, RowsInv, RowsApart
  <1>4. RowsInv'
    BY <1>1, <1>2, <1>3, CodedRow DEF AccountsInv
  <1>5. QED
    BY <1>1, <1>4, OnlyRows

LEMMA VerifyTelegramKeeps ==
    ASSUME AccountsInv, NEW r \in AccountRows, NEW c \in Chats, Accounts!VerifyTelegram(r, c)
    PROVE  AccountsInv'
  <1> DEFINE row0 == iAccount[r]
             new == [row0 EXCEPT !.address = c, !.active = TRUE, !.verified = TRUE, !.code = "none"]
  <1>1. /\ row0 \in Accounts!AccountRow /\ row0.kind = "telegram"
        /\ iAccount \in [AccountRows -> Accounts!AccountRow]
        /\ Accounts!RowOf(c) \subseteq {r}
        /\ UNCHANGED <<iUser, iIdentity, iInvite, iSuspension, iAccepting, iConversation>>
    BY DEF AccountsInv, RowsInv, RowsTyped, Accounts!VerifyTelegram
  <1>2. iAccount' = [iAccount EXCEPT ![r] = new]
    BY <1>1 DEF Accounts!VerifyTelegram
  <1>3. /\ new \in Accounts!AccountRow /\ new.kind = "telegram" /\ new.address = c
        /\ new.verified /\ c # Nobody
    BY <1>1, NobodyIsNone DEF Accounts!AccountRow, Accounts!Addresses
  <1>4. \A s \in AccountRows : iAccount[s].address = c => s = r
    BY <1>1 DEF Accounts!RowOf
  <1> HIDE DEF new, row0
  <1>5. RowsInv'
    BY <1>2, <1>3, <1>4, RowIsWritten DEF AccountsInv
  <1>6. QED
    BY <1>1, <1>5, OnlyRows

LEMMA VerifyWhatsappKeeps ==
    ASSUME AccountsInv, NEW r \in AccountRows, Accounts!VerifyWhatsapp(r)
    PROVE  AccountsInv'
  <1> DEFINE row0 == iAccount[r]
             new == [row0 EXCEPT !.active = TRUE, !.verified = TRUE, !.code = "none"]
  <1>1. /\ row0 \in Accounts!AccountRow /\ row0.kind = "whatsapp" /\ row0.address \in Phones
        /\ iAccount \in [AccountRows -> Accounts!AccountRow]
        /\ UNCHANGED <<iUser, iIdentity, iInvite, iSuspension, iAccepting, iConversation>>
    BY DEF AccountsInv, RowsInv, RowsTyped, RowsVerified, Accounts!VerifyWhatsapp
  <1>2. iAccount' = [iAccount EXCEPT ![r] = new]
    BY <1>1 DEF Accounts!VerifyWhatsapp
  <1>3. /\ new \in Accounts!AccountRow /\ new.address = row0.address
        /\ new.verified /\ new.address \in Phones /\ new.address # Nobody
    BY <1>1, NobodyIsNone DEF Accounts!AccountRow, Accounts!Addresses
  <1>4. \A s \in AccountRows : new.address # Nobody /\ iAccount[s].address = new.address => s = r
    BY <1>3 DEF AccountsInv, RowsInv, RowsApart
  <1> HIDE DEF new, row0
  <1>5. RowsInv'
    BY <1>2, <1>3, <1>4, RowIsWritten DEF AccountsInv
  <1>6. QED
    BY <1>1, <1>5, OnlyRows

LEMMA CodeLapsesKeeps ==
    ASSUME AccountsInv, NEW r \in AccountRows, Accounts!CodeLapses(r)
    PROVE  AccountsInv'
  <1> DEFINE row0 == iAccount[r]
             new == [row0 EXCEPT !.code = "lapsed"]
  <1>1. /\ row0 \in Accounts!AccountRow
        /\ iAccount \in [AccountRows -> Accounts!AccountRow]
        /\ row0.active => row0.verified
        /\ row0.verified => row0.address # Nobody
        /\ row0.kind = "whatsapp" => row0.address \in Phones
        /\ UNCHANGED <<iUser, iIdentity, iInvite, iSuspension, iAccepting, iConversation>>
    BY DEF AccountsInv, RowsInv, RowsTyped, RowsVerified, Accounts!CodeLapses
  <1>2. iAccount' = [iAccount EXCEPT ![r] = new]
    BY <1>1 DEF Accounts!CodeLapses
  <1>3. /\ new \in Accounts!AccountRow /\ new.address = row0.address /\ new.kind = row0.kind
        /\ new.verified = row0.verified /\ new.active = row0.active
    BY <1>1 DEF Accounts!AccountRow
  <1>4. \A s \in AccountRows : new.address # Nobody /\ iAccount[s].address = new.address => s = r
    BY <1>3 DEF AccountsInv, RowsInv, RowsApart
  <1> HIDE DEF new, row0
  <1>5. RowsInv'
    BY <1>1, <1>2, <1>3, <1>4, RowIsWritten DEF AccountsInv
  <1>6. QED
    BY <1>1, <1>5, OnlyRows

LEMMA UserSwitched ==
    ASSUME AccountsInv, NEW u \in Accounts!Users, NEW status \in {"active", "disabled"},
           iUser' = [iUser EXCEPT ![u] = status], UNCHANGED iIdentity
    PROVE  UsersTyped' /\ IdentityInv'
  <1>1. UsersTyped' /\ \A v \in Accounts!Users : iUser'[v] = iUser[v] \/ iUser'[v] = status
    BY DEF AccountsInv, UsersTyped
  <1>2. \A x \in iIdentity : x[2] \in Accounts!Users
    BY DEF AccountsInv, IdentityInv
  <1>3. QED
    BY <1>1, <1>2 DEF AccountsInv, IdentityInv

LEMMA DisableKeeps ==
    ASSUME AccountsInv, NEW u \in Accounts!Users, Accounts!Disable(u)
    PROVE  AccountsInv'
  <1> DEFINE mine == {r \in AccountRows : iAccount[r].user = u /\ iAccount[r].active}
  <1>1. /\ iUser' = [iUser EXCEPT ![u] = "disabled"]
        /\ iAccount' = [r \in AccountRows |-> IF r \in mine THEN [iAccount[r] EXCEPT !.active = FALSE]
                                                            ELSE iAccount[r]]
        /\ iSuspension' = [iSuspension EXCEPT ![u] = mine]
        /\ UNCHANGED <<iIdentity, iInvite, iAccepting, iConversation>>
    BY DEF Accounts!Disable
  <1>2. mine \in SUBSET AccountRows
    OBVIOUS
  <1> HIDE DEF mine
  <1>3. UsersTyped' /\ IdentityInv'
    BY <1>1, UserSwitched
  <1>4. RowsInv'
    BY <1>1, <1>2, RowsAreSwitched DEF AccountsInv
  <1>5. RestTyped'
    BY <1>1, <1>2 DEF AccountsInv, RestTyped
  <1>6. QED
    BY <1>1, <1>3, <1>4, <1>5 DEF AccountsInv, InvitesTyped, InvitesPaired, AcceptingInv

LEMMA ReactivateKeeps ==
    ASSUME AccountsInv, NEW u \in Accounts!Users, Accounts!Reactivate(u)
    PROVE  AccountsInv'
  <1> DEFINE mine == Accounts!Restorable(u)
  <1>1. /\ iUser' = [iUser EXCEPT ![u] = "active"]
        /\ iAccount' = [r \in AccountRows |-> IF r \in mine THEN [iAccount[r] EXCEPT !.active = TRUE]
                                                            ELSE iAccount[r]]
        /\ UNCHANGED <<iIdentity, iInvite, iSuspension, iAccepting, iConversation>>
    BY DEF Accounts!Reactivate
  <1>2. mine \in SUBSET AccountRows /\ \A r \in mine : iAccount[r].verified
    BY DEF Accounts!Restorable, AccountsInv, RestTyped
  <1> HIDE DEF mine
  <1>3. UsersTyped' /\ IdentityInv'
    BY <1>1, UserSwitched
  <1>4. RowsInv'
    BY <1>1, <1>2, RowsAreSwitched DEF AccountsInv
  <1>5. QED
    BY <1>1, <1>3, <1>4 DEF AccountsInv, InvitesTyped, InvitesPaired, AcceptingInv, RestTyped

LEMMA MessageKeeps ==
    ASSUME AccountsInv, NEW a \in Accounts!Addresses, Accounts!Message(a)
    PROVE  AccountsInv'
  <1>1. PICK r \in AccountRows : iConversation' = [iConversation EXCEPT ![a] = iAccount[r].user]
    BY DEF Accounts!Message
  <1>2. iAccount[r].user \in Accounts!Users \cup {Nobody}
    BY DEF AccountsInv, RowsInv, RowsTyped, Accounts!AccountRow
  <1>3. UNCHANGED <<iUser, iIdentity, iInvite, iAccount, iSuspension, iAccepting>>
    BY DEF Accounts!Message
  <1>4. RestTyped'
    BY <1>1, <1>2, <1>3 DEF AccountsInv, RestTyped
  <1>5. QED
    BY <1>3, <1>4 DEF AccountsInv, RowsInv, RowsTyped, RowsVerified, RowsApart, UsersTyped,
       IdentityInv, InvitesTyped, InvitesPaired, AcceptingInv

LEMMA AccountsStep == AccountsInv /\ [Accounts!Next]_(Accounts!vars) => AccountsInv'
  <1>1. SUFFICES ASSUME AccountsInv, [Accounts!Next]_(Accounts!vars) PROVE AccountsInv'
    OBVIOUS
  <1>2. CASE UNCHANGED Accounts!vars
    BY <1>1, <1>2 DEF Accounts!vars, AccountsInv, RowsInv, RowsTyped, RowsVerified, RowsApart,
       UsersTyped, IdentityInv, InvitesTyped, InvitesPaired, AcceptingInv, RestTyped
  <1>3. ASSUME NEW c \in Chats, NEW i \in Invites, Accounts!BeginAccept(c, i) PROVE AccountsInv'
    BY <1>1, <1>3, BeginAcceptKeeps
  <1>4. ASSUME NEW t \in iAccepting,
               \/ Accounts!RollbackAccept(t)
               \/ \E u \in Accounts!Users, r \in AccountRows : Accounts!EndAccept(t, u, r)
        PROVE  AccountsInv'
    BY <1>1, <1>4, EndAcceptKeeps, RollbackAcceptKeeps
  <1>5. ASSUME NEW i \in Invites,
               \/ Accounts!CreateInvite(i) \/ Accounts!RevokeInvite(i)
               \/ Accounts!ExpireInvite(i) \/ Accounts!InviteLate(i)
        PROVE  AccountsInv'
    BY <1>1, <1>5, InvitesKeep
  <1>6. ASSUME NEW u \in ApiUsers, NEW r \in AccountRows,
               \/ Accounts!BindTelegram(u, r)
               \/ \E p \in Phones : Accounts!BindWhatsapp(u, r, p)
        PROVE  AccountsInv'
    BY <1>1, <1>6, BindTelegramKeeps, BindWhatsappKeeps
  <1>7. ASSUME NEW r \in AccountRows,
               \/ Accounts!VerifyWhatsapp(r) \/ Accounts!CodeLapses(r)
               \/ \E c \in Chats : Accounts!VerifyTelegram(r, c)
        PROVE  AccountsInv'
    BY <1>1, <1>7, VerifyWhatsappKeeps, CodeLapsesKeeps, VerifyTelegramKeeps
  <1>8. ASSUME NEW u \in Accounts!Users, Accounts!Disable(u) \/ Accounts!Reactivate(u)
        PROVE  AccountsInv'
    BY <1>1, <1>8, DisableKeeps, ReactivateKeeps
  <1>9. ASSUME NEW a \in Accounts!Addresses, Accounts!Message(a) PROVE AccountsInv'
    BY <1>1, <1>9, MessageKeeps
  <1>10. QED
    BY <1>1, <1>2, <1>3, <1>4, <1>5, <1>6, <1>7, <1>8, <1>9 DEF Accounts!Next

(* What a step of the accounts may not do.                                 *)
EndsOnce ==
    \A i \in Invites : iInvite[i].status \notin {"none", "pending"} => iInvite'[i] = iInvite[i]
GivesBack ==
    \A u \in Accounts!Users, r \in AccountRows :
        iUser[u] = "disabled" /\ iUser'[u] = "active" /\ iAccount'[r] # iAccount[r]
            => iAccount[r].user = u /\ r \in iSuspension[u] /\ iAccount'[r].active
KeepsCode ==
    \A r \in AccountRows : iAccount[r].kind = "whatsapp" /\ iAccount[r].code = "valid"
        => iAccount'[r].user = iAccount[r].user

LEMMA InvitesEndOnce ==
    ASSUME AccountsInv, [Accounts!Next]_(Accounts!vars)
    PROVE  EndsOnce
  <1>1. iInvite \in [Invites -> Accounts!InviteRow]
    BY DEF AccountsInv, InvitesTyped
  <1>2. CASE UNCHANGED iInvite
    BY <1>2 DEF EndsOnce
  <1>3. ASSUME NEW t \in iAccepting, NEW u \in Accounts!Users, NEW r \in AccountRows,
               Accounts!EndAccept(t, u, r)
        PROVE  EndsOnce
    <2>1. t.invite \in Invites /\ iInvite[t.invite].status = "pending"
      BY DEF AccountsInv, AcceptingInv, Accounts!Transaction
    <2>2. \A j \in Invites : j # t.invite => iInvite'[j] = iInvite[j]
      BY <1>1, <1>3 DEF Accounts!EndAccept, Accounts!Accepted
    <2>3. QED
      BY <2>1, <2>2 DEF EndsOnce
  <1>4. ASSUME NEW i \in Invites,
               \/ Accounts!CreateInvite(i) \/ Accounts!RevokeInvite(i)
               \/ Accounts!ExpireInvite(i) \/ Accounts!InviteLate(i)
        PROVE  EndsOnce
    <2>1. /\ iInvite[i].status \in {"none", "pending"}
          /\ \A j \in Invites : j # i => iInvite'[j] = iInvite[j]
      BY <1>1, <1>4 DEF Accounts!CreateInvite, Accounts!RevokeInvite, Accounts!ExpireInvite,
         Accounts!InviteLate
    <2>2. QED
      BY <2>1 DEF EndsOnce
  <1>5. ASSUME \/ \E c \in Chats, i \in Invites : Accounts!BeginAccept(c, i)
               \/ \E t \in iAccepting : Accounts!RollbackAccept(t)
               \/ \E u \in ApiUsers, r \in AccountRows :
                     \/ Accounts!BindTelegram(u, r)
                     \/ \E p \in Phones : Accounts!BindWhatsapp(u, r, p)
               \/ \E r \in AccountRows :
                     \/ Accounts!VerifyWhatsapp(r) \/ Accounts!CodeLapses(r)
                     \/ \E c \in Chats : Accounts!VerifyTelegram(r, c)
               \/ \E u \in Accounts!Users : Accounts!Disable(u) \/ Accounts!Reactivate(u)
               \/ \E a \in Accounts!Addresses : Accounts!Message(a)
               \/ UNCHANGED Accounts!vars
        PROVE  UNCHANGED iInvite
    BY <1>5 DEF Accounts!BeginAccept, Accounts!RollbackAccept, Accounts!BindTelegram,
       Accounts!BindWhatsapp, Accounts!VerifyWhatsapp, Accounts!CodeLapses,
       Accounts!VerifyTelegram, Accounts!Disable, Accounts!Reactivate, Accounts!Message,
       Accounts!vars
  <1>6. QED
    BY <1>2, <1>3, <1>4, <1>5 DEF Accounts!Next

LEMMA SuspensionGivesBack ==
    ASSUME AccountsInv, [Accounts!Next]_(Accounts!vars)
    PROVE  GivesBack
  <1>1. iUser \in [Accounts!Users -> {"none", "active", "disabled"}]
    BY DEF AccountsInv, UsersTyped
  <1>2. CASE \A u \in Accounts!Users : iUser[u] = "disabled" => iUser'[u] = "disabled"
    BY <1>2 DEF GivesBack
  <1>3. ASSUME NEW t \in iAccepting, NEW u \in Accounts!Users, NEW r \in AccountRows,
               Accounts!EndAccept(t, u, r)
        PROVE  \A v \in Accounts!Users : iUser[v] = "disabled" => iUser'[v] = "disabled"
    BY <1>1, <1>3 DEF Accounts!EndAccept
  <1>4. ASSUME NEW u \in Accounts!Users, Accounts!Disable(u)
        PROVE  \A v \in Accounts!Users : iUser[v] = "disabled" => iUser'[v] = "disabled"
    BY <1>1, <1>4 DEF Accounts!Disable
  <1>5. ASSUME NEW u \in Accounts!Users, Accounts!Reactivate(u)
        PROVE  GivesBack
    <2>1. \A v \in Accounts!Users : v # u => iUser'[v] = iUser[v]
      BY <1>1, <1>5 DEF Accounts!Reactivate
    <2>2. ASSUME NEW r \in AccountRows, iAccount'[r] # iAccount[r]
          PROVE  iAccount[r].user = u /\ r \in iSuspension[u] /\ iAccount'[r].active
      <3>1. r \in Accounts!Restorable(u) /\ iAccount'[r] = [iAccount[r] EXCEPT !.active = TRUE]
        BY <1>5, <2>2 DEF Accounts!Reactivate
      <3>2. iAccount[r] \in Accounts!AccountRow
        BY DEF AccountsInv, RowsInv, RowsTyped
      <3>3. iAccount'[r].active
        BY <3>1, <3>2 DEF Accounts!AccountRow
      <3>4. QED
        BY <3>1, <3>3 DEF Accounts!Restorable
    <2>3. QED
      BY <2>1, <2>2 DEF GivesBack
  <1>6. ASSUME \/ \E c \in Chats, i \in Invites : Accounts!BeginAccept(c, i)
               \/ \E t \in iAccepting : Accounts!RollbackAccept(t)
               \/ \E i \in Invites : \/ Accounts!CreateInvite(i) \/ Accounts!RevokeInvite(i)
                                     \/ Accounts!ExpireInvite(i) \/ Accounts!InviteLate(i)
               \/ \E u \in ApiUsers, r \in AccountRows :
                     \/ Accounts!BindTelegram(u, r)
                     \/ \E p \in Phones : Accounts!BindWhatsapp(u, r, p)
               \/ \E r \in AccountRows :
                     \/ Accounts!VerifyWhatsapp(r) \/ Accounts!CodeLapses(r)
                     \/ \E c \in Chats : Accounts!VerifyTelegram(r, c)
               \/ \E a \in Accounts!Addresses : Accounts!Message(a)
               \/ UNCHANGED Accounts!vars
        PROVE  UNCHANGED iUser
    BY <1>6 DEF Accounts!BeginAccept, Accounts!RollbackAccept, Accounts!CreateInvite,
       Accounts!RevokeInvite, Accounts!ExpireInvite, Accounts!InviteLate, Accounts!BindTelegram,
       Accounts!BindWhatsapp, Accounts!VerifyWhatsapp, Accounts!CodeLapses,
       Accounts!VerifyTelegram, Accounts!Message, Accounts!vars
  <1>7. QED
    BY <1>2, <1>3, <1>4, <1>5, <1>6 DEF Accounts!Next

LEMMA CodesAreKept ==
    ASSUME AccountsInv, [Accounts!Next]_(Accounts!vars)
    PROVE  KeepsCode
  <1>1. /\ iAccount \in [AccountRows -> Accounts!AccountRow]
        /\ \A r \in AccountRows : iAccount[r].kind = "whatsapp" => iAccount[r].address \in Phones
    BY DEF AccountsInv, RowsInv, RowsTyped, RowsVerified
  <1>2. CASE \A r \in AccountRows : iAccount'[r].user = iAccount[r].user
    BY <1>2 DEF KeepsCode
  <1>3. ASSUME NEW r \in AccountRows,
               \A s \in AccountRows : s # r => iAccount'[s] = iAccount[s],
               iAccount[r].kind = "whatsapp" /\ iAccount[r].code = "valid"
                   => iAccount'[r].user = iAccount[r].user
        PROVE  KeepsCode
    BY <1>3 DEF KeepsCode
  <1>4. ASSUME NEW t \in iAccepting, NEW u \in Accounts!Users, NEW r \in AccountRows,
               Accounts!EndAccept(t, u, r)
        PROVE  KeepsCode
    <2>1. Accounts!LinkChat(r, t.chat, u) /\ t.chat \in Chats
      BY <1>4 DEF Accounts!EndAccept, AccountsInv, AcceptingInv, Accounts!Transaction
    <2>2. \A s \in AccountRows : s # r => iAccount'[s] = iAccount[s]
      BY <1>1, <2>1 DEF Accounts!LinkChat
    <2>3. ~(iAccount[r].kind = "whatsapp" /\ iAccount[r].code = "valid")
      BY <1>1, <2>1, NobodyIsNone DEF Accounts!LinkChat, Accounts!RowOf, Accounts!FreeRow,
         Accounts!Free
    <2>4. QED
      BY <1>3, <2>2, <2>3
  <1>5. ASSUME NEW u \in ApiUsers, NEW r \in AccountRows, Accounts!BindTelegram(u, r)
        PROVE  KeepsCode
    <2>1. \A s \in AccountRows : s # r => iAccount'[s] = iAccount[s]
      BY <1>1, <1>5 DEF Accounts!BindTelegram, Accounts!Coded
    <2>2. iAccount[r].kind # "whatsapp"
      BY <1>5 DEF Accounts!BindTelegram, Accounts!FreeRow, Accounts!Free
    <2>3. QED
      BY <1>3, <2>1, <2>2
  <1>6. ASSUME NEW u \in ApiUsers, NEW r \in AccountRows, NEW p \in Phones,
               Accounts!BindWhatsapp(u, r, p)
        PROVE  KeepsCode
    <2>1. Accounts!Coded(r, u, "whatsapp", p)
      BY <1>6 DEF Accounts!BindWhatsapp
    <2>2. /\ iAccount'[r].user = u
          /\ \A s \in AccountRows : s # r => iAccount'[s] = iAccount[s]
      BY <1>1, <2>1 DEF Accounts!Coded
    <2>3. iAccount[r].code = "valid" => iAccount[r].user = u
      BY <1>6 DEF Accounts!BindWhatsapp, Accounts!RowOf, Accounts!PhoneTaken, Accounts!FreeRow,
         Accounts!Free
    <2>4. QED
      BY <1>3, <2>2, <2>3
  <1>7. ASSUME NEW r \in AccountRows,
               \/ Accounts!VerifyWhatsapp(r) \/ Accounts!CodeLapses(r)
               \/ \E c \in Chats : Accounts!VerifyTelegram(r, c)
        PROVE  \A s \in AccountRows : iAccount'[s].user = iAccount[s].user
    <2>1. iAccount[r] \in Accounts!AccountRow
      BY <1>1
    <2>2. /\ iAccount'[r].user = iAccount[r].user
          /\ \A s \in AccountRows : s # r => iAccount'[s] = iAccount[s]
      <3>1. CASE Accounts!VerifyWhatsapp(r)
        BY <1>1, <2>1, <3>1 DEF Accounts!VerifyWhatsapp, Accounts!AccountRow
      <3>2. CASE Accounts!CodeLapses(r)
        BY <1>1, <2>1, <3>2 DEF Accounts!CodeLapses, Accounts!AccountRow
      <3>3. CASE \E c \in Chats : Accounts!VerifyTelegram(r, c)
        BY <1>1, <2>1, <3>3 DEF Accounts!VerifyTelegram, Accounts!AccountRow
      <3>4. QED
        BY <1>7, <3>1, <3>2, <3>3
    <2>3. QED
      BY <2>2
  <1>8. ASSUME NEW u \in Accounts!Users, Accounts!Disable(u) \/ Accounts!Reactivate(u)
        PROVE  \A s \in AccountRows : iAccount'[s].user = iAccount[s].user
    <2>1. PICK S \in SUBSET AccountRows, b \in BOOLEAN :
            iAccount' = [r \in AccountRows |-> IF r \in S THEN [iAccount[r] EXCEPT !.active = b]
                                                          ELSE iAccount[r]]
      <3>1. CASE Accounts!Disable(u)
        <4> DEFINE mine == {r \in AccountRows : iAccount[r].user = u /\ iAccount[r].active}
        <4>1. iAccount' = [r \in AccountRows |->
                    IF r \in mine THEN [iAccount[r] EXCEPT !.active = FALSE] ELSE iAccount[r]]
          BY <3>1 DEF Accounts!Disable
        <4>2. mine \in SUBSET AccountRows
          OBVIOUS
        <4> HIDE DEF mine
        <4>3. QED
          BY <4>1, <4>2
      <3>2. CASE Accounts!Reactivate(u)
        <4> DEFINE mine == Accounts!Restorable(u)
        <4>1. iAccount' = [r \in AccountRows |->
                    IF r \in mine THEN [iAccount[r] EXCEPT !.active = TRUE] ELSE iAccount[r]]
          BY <3>2 DEF Accounts!Reactivate
        <4>2. mine \in SUBSET AccountRows
          BY DEF AccountsInv, RestTyped, Accounts!Restorable
        <4> HIDE DEF mine
        <4>3. QED
          BY <4>1, <4>2
      <3>3. QED
        BY <1>8, <3>1, <3>2
    <2>2. ASSUME NEW s \in AccountRows
          PROVE  iAccount'[s].user = iAccount[s].user
      <3>1. iAccount[s] \in Accounts!AccountRow
        BY <1>1
      <3>2. iAccount'[s] = IF s \in S THEN [iAccount[s] EXCEPT !.active = b] ELSE iAccount[s]
        BY <2>1
      <3>3. QED
        BY <3>1, <3>2 DEF Accounts!AccountRow
    <2>3. QED
      BY <2>2
  <1>9. ASSUME \/ \E c \in Chats, i \in Invites : Accounts!BeginAccept(c, i)
               \/ \E t \in iAccepting : Accounts!RollbackAccept(t)
               \/ \E i \in Invites : \/ Accounts!CreateInvite(i) \/ Accounts!RevokeInvite(i)
                                     \/ Accounts!ExpireInvite(i) \/ Accounts!InviteLate(i)
               \/ \E a \in Accounts!Addresses : Accounts!Message(a)
               \/ UNCHANGED Accounts!vars
        PROVE  \A s \in AccountRows : iAccount'[s].user = iAccount[s].user
    BY <1>9 DEF Accounts!BeginAccept, Accounts!RollbackAccept, Accounts!CreateInvite,
       Accounts!RevokeInvite, Accounts!ExpireInvite, Accounts!InviteLate, Accounts!Message,
       Accounts!vars
  <1>10. QED
    BY <1>2, <1>4, <1>5, <1>6, <1>7, <1>8, <1>9 DEF Accounts!Next
-----------------------------------------------------------------------------
(* The URLs of MacWhisper.  While a command creates one, none is active;   *)
(* one that is active was delivered, or still will be; and the outcome     *)
(* that was told is that of the source.                                    *)

KeysTyped ==
    /\ credential \in [Credentials -> {"none", "active", "revoked"}]
    /\ message \in [Credentials -> Unsure!Row]
    /\ shown \in [Credentials -> 0..MaxShown]
    /\ lock \in Chats \cup {Nobody} /\ creating = {lock} \ {Nobody}
CreatedAlone ==
    /\ \A k, l \in Unsure!Active : k = l
    /\ creating # {} => Unsure!Active = {}
PostsTyped ==
    /\ source \in [Credentials -> [Contents -> {"none", "received", "processed", "failed"}]]
    /\ told \subseteq Credentials \X Contents \X {"processed", "failed"}
    /\ waiting \subseteq Contents
KeysInv == KeysTyped /\ CreatedAlone /\ Unsure!ActiveIsReachable
PostsInv == PostsTyped /\ Unsure!OneOutcome
WebhooksInv == KeysInv /\ PostsInv /\ user \in {"active", "disabled"}

(* Where no answer is lost, what was delivered is settled.                 *)
DeliveredIsSettled ==
    \A k \in Credentials :
        /\ shown[k] > 0 => message[k].status = "sent"
        /\ credential[k] = "none" => message[k].status = "none" /\ shown[k] = 0

LEMMA WebhookConstants ==
    /\ MaxDeliveries \in Nat /\ MaxDeliveries > 0 /\ MaxShown \in Nat /\ Nobody \notin Chats
  BY ChannelAssumptions DEF Unsure!WebhookAssumption

LEMMA WebhooksBegin == Unsure!Init => WebhooksInv /\ DeliveredIsSettled
  BY WebhookConstants DEF Unsure!Init, WebhooksInv, KeysInv, KeysTyped, CreatedAlone, PostsInv,
     PostsTyped, DeliveredIsSettled, Unsure!Row, Unsure!Active, Unsure!ActiveIsReachable,
     Unsure!OneOutcome

(* A row of the outbox that is written, with the count of its deliveries.  *)
LEMMA MessageIsWritten ==
    ASSUME KeysInv, NEW k \in Credentials, NEW new \in Unsure!Row, NEW count \in 0..MaxShown,
           message' = [message EXCEPT ![k] = new],
           shown' = [shown EXCEPT ![k] = count], count >= shown[k],
           new.url => new.status \in {"pending", "sending"},
           NEW status \in {credential[k], "revoked"},
           credential' = [credential EXCEPT ![k] = status],
           status = "active" => count > 0 \/ new.status \in {"pending", "sending"},
           UNCHANGED <<lock, creating>>
    PROVE  KeysInv'
  <1>1. /\ KeysTyped' /\ message'[k] = new /\ shown'[k] = count /\ credential'[k] = status
        /\ \A l \in Credentials : l # k => /\ message'[l] = message[l] /\ shown'[l] = shown[l]
                                           /\ credential'[l] = credential[l]
    BY DEF KeysInv, KeysTyped
  <1>2. \A l \in Credentials : credential'[l] = "active" => credential[l] = "active"
    BY <1>1
  <1>3. CreatedAlone'
    BY <1>2 DEF KeysInv, CreatedAlone, Unsure!Active
  <1>4. Unsure!ActiveIsReachable'
    BY <1>1, <1>2 DEF KeysInv, Unsure!ActiveIsReachable, Unsure!Active
  <1>5. QED
    BY <1>1, <1>3, <1>4 DEF KeysInv

LEMMA CheckNoneKeeps ==
    ASSUME KeysInv, NEW h \in Chats, Unsure!CheckNone(h)
    PROVE  KeysInv'
  <1>1. /\ lock = Nobody /\ Unsure!Active = {} /\ lock' = h /\ creating' = creating \cup {h}
        /\ UNCHANGED <<credential, message, shown>>
    BY DEF Unsure!CheckNone, Unsure!UserUnlocked
  <1>2. creating' = {h} /\ h # Nobody
    BY <1>1, WebhookConstants DEF KeysInv, KeysTyped
  <1>3. QED
    BY <1>1, <1>2 DEF KeysInv, KeysTyped, CreatedAlone, Unsure!ActiveIsReachable, Unsure!Active

LEMMA CreateCredentialKeeps ==
    ASSUME KeysInv, NEW h \in Chats, NEW k \in Credentials, Unsure!CreateCredential(h, k)
    PROVE  KeysInv'
  <1> DEFINE new == [status |-> "pending", attempts |-> 0, url |-> TRUE]
  <1>1. /\ h \in creating
        /\ credential' = [credential EXCEPT ![k] = "active"]
        /\ message' = [message EXCEPT ![k] = new]
        /\ lock' = Nobody /\ creating' = creating \ {h} /\ shown' = shown
    BY DEF Unsure!CreateCredential
  <1>2. creating' = {} /\ Unsure!Active = {}
    BY <1>1 DEF KeysInv, KeysTyped, CreatedAlone
  <1>3. new \in Unsure!Row /\ new.status = "pending"
    BY WebhookConstants DEF Unsure!Row
  <1> HIDE DEF new
  <1>4. /\ KeysTyped' /\ credential'[k] = "active" /\ message'[k] = new
        /\ \A l \in Credentials : l # k => /\ message'[l] = message[l]
                                           /\ credential'[l] = credential[l]
    BY <1>1, <1>2, <1>3 DEF KeysInv, KeysTyped
  <1>5. Unsure!Active' = {k}
    BY <1>2, <1>4 DEF Unsure!Active
  <1>6. CreatedAlone'
    BY <1>2, <1>5 DEF CreatedAlone
  <1>7. Unsure!ActiveIsReachable'
    BY <1>1, <1>3, <1>4, <1>5 DEF KeysInv, Unsure!ActiveIsReachable
  <1>8. QED
    BY <1>4, <1>6, <1>7 DEF KeysInv

LEMMA RollbackKeeps ==
    ASSUME KeysInv, NEW h \in Chats, Unsure!Rollback(h)
    PROVE  KeysInv'
  <1>1. /\ h \in creating /\ lock' = Nobody /\ creating' = creating \ {h}
        /\ UNCHANGED <<credential, message, shown>>
    BY DEF Unsure!Rollback
  <1>2. creating' = {}
    BY <1>1 DEF KeysInv, KeysTyped
  <1>3. QED
    BY <1>1, <1>2 DEF KeysInv, KeysTyped, CreatedAlone, Unsure!ActiveIsReachable, Unsure!Active

LEMMA RevokeCredentialKeeps ==
    ASSUME KeysInv, NEW h \in Chats, Unsure!RevokeCredential(h)
    PROVE  KeysInv' /\ UNCHANGED message
  <1>1. /\ credential' = [k \in Credentials |-> IF k \in Unsure!Active THEN "revoked" ELSE credential[k]]
        /\ UNCHANGED <<message, shown, lock, creating>>
    BY DEF Unsure!RevokeCredential
  <1>2. credential' \in [Credentials -> {"none", "active", "revoked"}]
    BY <1>1 DEF KeysInv, KeysTyped
  <1>3. \A k \in Credentials : credential'[k] # "active"
    BY <1>1 DEF Unsure!Active
  <1>4. Unsure!Active' = {}
    BY <1>3 DEF Unsure!Active
  <1>5. QED
    BY <1>1, <1>2, <1>4 DEF KeysInv, KeysTyped, CreatedAlone, Unsure!ActiveIsReachable

LEMMA ClaimOutboxKeeps ==
    ASSUME KeysInv, NEW k \in Credentials, Unsure!ClaimOutbox(k)
    PROVE  KeysInv'
  <1> DEFINE m == message[k]
             n == IF m.attempts < MaxDeliveries THEN m.attempts + 1 ELSE m.attempts
             new == [m EXCEPT !.status = "sending", !.attempts = n]
  <1>1. /\ m \in Unsure!Row /\ message \in [Credentials -> Unsure!Row]
        /\ credential[k] \in {"none", "active", "revoked"} /\ shown[k] \in 0..MaxShown
    BY DEF KeysInv, KeysTyped
  <1>2. /\ message' = [message EXCEPT ![k] = new]
        /\ UNCHANGED <<credential, shown, lock, creating>>
    BY <1>1 DEF Unsure!ClaimOutbox
  <1>3. /\ credential' = [credential EXCEPT ![k] = credential[k]]
        /\ shown' = [shown EXCEPT ![k] = shown[k]]
    BY <1>2 DEF KeysInv, KeysTyped
  <1>4. n \in 0..MaxDeliveries
    BY <1>1, WebhookConstants DEF Unsure!Row
  <1> HIDE DEF n
  <1>5. new \in Unsure!Row /\ new.status = "sending"
    BY <1>1, <1>4 DEF Unsure!Row
  <1>6. shown[k] >= shown[k]
    BY <1>1, WebhookConstants
  <1> HIDE DEF new, m
  <1>7. QED
    BY <1>1, <1>2, <1>3, <1>5, <1>6, MessageIsWritten

LEMMA DeliverKeeps ==
    ASSUME KeysInv, NEW k \in Credentials, Unsure!Deliver(k)
    PROVE  KeysInv' /\ UNCHANGED credential
  <1> DEFINE m == message[k]
             new == [m EXCEPT !.status = "sent", !.url = FALSE]
             n == shown[k] + 1
  <1>1. /\ m \in Unsure!Row /\ message \in [Credentials -> Unsure!Row]
        /\ credential[k] \in {"none", "active", "revoked"}
        /\ shown \in [Credentials -> 0..MaxShown] /\ shown[k] \in 0..MaxShown
    BY DEF KeysInv, KeysTyped
  <1>2. /\ message' = [message EXCEPT ![k] = new] /\ shown' = [shown EXCEPT ![k] = n]
        /\ shown[k] < MaxShown /\ UNCHANGED <<credential, lock, creating>>
    BY <1>1 DEF Unsure!Deliver, Unsure!Redacted
  <1>3. credential' = [credential EXCEPT ![k] = credential[k]]
    BY <1>2 DEF KeysInv, KeysTyped
  <1>4. new \in Unsure!Row /\ ~new.url
    BY <1>1 DEF Unsure!Row
  <1>5. n \in 0..MaxShown /\ n >= shown[k] /\ n > 0
    BY <1>1, <1>2, WebhookConstants
  <1> HIDE DEF new, m, n
  <1>6. KeysInv'
    BY <1>1, <1>2, <1>3, <1>4, <1>5, MessageIsWritten
  <1>7. QED
    BY <1>2, <1>6

(* How often a URL was delivered, by a delivery that failed or died.       *)
Repeated(k) ==
    \/ UNCHANGED shown
    \/ TRUE /\ shown[k] < MaxShown /\ shown' = [shown EXCEPT ![k] = @ + 1]

LEMMA RepeatedCount ==
    ASSUME KeysInv, NEW k \in Credentials, Repeated(k)
    PROVE  \E n \in 0..MaxShown : shown' = [shown EXCEPT ![k] = n] /\ n >= shown[k]
  <1>1. shown \in [Credentials -> 0..MaxShown] /\ shown[k] \in 0..MaxShown
    BY DEF KeysInv, KeysTyped
  <1>2. CASE UNCHANGED shown
    <2>1. shown' = [shown EXCEPT ![k] = shown[k]] /\ shown[k] >= shown[k]
      BY <1>1, <1>2, WebhookConstants
    <2>2. QED
      BY <1>1, <2>1
  <1>3. CASE shown[k] < MaxShown /\ shown' = [shown EXCEPT ![k] = @ + 1]
    <2>1. shown[k] + 1 \in 0..MaxShown /\ shown[k] + 1 >= shown[k]
      BY <1>1, <1>3, WebhookConstants
    <2>2. QED
      BY <1>3, <2>1
  <1>4. QED
    BY <1>2, <1>3 DEF Repeated

LEMMA DeliveryFailsKeeps ==
    ASSUME KeysInv, NEW k \in Credentials, Unsure!DeliveryFails(k)
    PROVE  KeysInv'
  <1> DEFINE m == message[k]
             again == [m EXCEPT !.status = "pending"]
             last == [m EXCEPT !.status = "failed", !.url = FALSE]
  <1>1. /\ m \in Unsure!Row /\ message \in [Credentials -> Unsure!Row]
        /\ credential \in [Credentials -> {"none", "active", "revoked"}]
    BY DEF KeysInv, KeysTyped
  <1>2. PICK n \in 0..MaxShown : shown' = [shown EXCEPT ![k] = n] /\ n >= shown[k]
    <2>1. Repeated(k)
      BY DEF Unsure!DeliveryFails, Repeated
    <2>2. QED
      BY <2>1, RepeatedCount
  <1>3. UNCHANGED <<lock, creating>> /\ Unsure!FailDelivery(k)
    BY DEF Unsure!DeliveryFails
  <1>4. /\ again \in Unsure!Row /\ again.status = "pending"
        /\ last \in Unsure!Row /\ ~last.url
    BY <1>1 DEF Unsure!Row
  <1>5. CASE message[k].attempts < MaxDeliveries
    <2>1. /\ message' = [message EXCEPT ![k] = again]
          /\ credential' = [credential EXCEPT ![k] = credential[k]]
      BY <1>1, <1>3, <1>5 DEF Unsure!FailDelivery
    <2> HIDE DEF m, again
    <2>2. QED
      BY <1>2, <1>3, <1>4, <2>1, MessageIsWritten
  <1>6. CASE ~(message[k].attempts < MaxDeliveries)
    <2>1. /\ message' = [message EXCEPT ![k] = last]
          /\ credential' = [credential EXCEPT ![k] = "revoked"]
      BY <1>1, <1>3, <1>6 DEF Unsure!FailDelivery, Unsure!Redacted
    <2> HIDE DEF m, last
    <2>2. QED
      BY <1>2, <1>3, <1>4, <2>1, MessageIsWritten
  <1>7. QED
    BY <1>5, <1>6

LEMMA DeliveryDiesKeeps ==
    ASSUME KeysInv, NEW k \in Credentials, Unsure!DeliveryDies(k)
    PROVE  KeysInv'
  <1> DEFINE m == message[k]
             again == [m EXCEPT !.status = "pending"]
  <1>1. /\ m \in Unsure!Row /\ message \in [Credentials -> Unsure!Row]
        /\ credential \in [Credentials -> {"none", "active", "revoked"}]
    BY DEF KeysInv, KeysTyped
  <1>2. PICK n \in 0..MaxShown : shown' = [shown EXCEPT ![k] = n] /\ n >= shown[k]
    <2>1. Repeated(k)
      BY DEF Unsure!DeliveryDies, Repeated
    <2>2. QED
      BY <2>1, RepeatedCount
  <1>3. /\ UNCHANGED <<lock, creating>> /\ message' = [message EXCEPT ![k] = again]
        /\ credential' = [credential EXCEPT ![k] = credential[k]]
    BY <1>1 DEF Unsure!DeliveryDies
  <1>4. again \in Unsure!Row /\ again.status = "pending"
    BY <1>1 DEF Unsure!Row
  <1> HIDE DEF m, again
  <1>5. QED
    BY <1>2, <1>3, <1>4, MessageIsWritten

LEMMA KeysUnchanged ==
    ASSUME KeysInv, UNCHANGED <<credential, message, shown, lock, creating>>
    PROVE  KeysInv'
  BY DEF KeysInv, KeysTyped, CreatedAlone, Unsure!ActiveIsReachable, Unsure!Active

LEMMA PostsUnchanged ==
    ASSUME PostsInv, UNCHANGED <<source, told, waiting>>
    PROVE  PostsInv'
  BY DEF PostsInv, PostsTyped, Unsure!OneOutcome

LEMMA SourceWritten ==
    ASSUME PostsInv, NEW c \in Credentials, NEW k \in Contents,
           NEW status \in {"received", "processed", "failed"},
           source' = [source EXCEPT ![c][k] = status]
    PROVE  /\ source' \in [Credentials -> [Contents -> {"none", "received", "processed", "failed"}]]
           /\ source'[c][k] = status
           /\ \A d \in Credentials, l \in Contents : d # c \/ l # k => source'[d][l] = source[d][l]
  <1>1. source \in [Credentials -> [Contents -> {"none", "received", "processed", "failed"}]]
    BY DEF PostsInv, PostsTyped
  <1> DEFINE new == [source[c] EXCEPT ![k] = status]
  <1>2. source' = [source EXCEPT ![c] = new]
    BY <1>1
  <1>3. /\ new \in [Contents -> {"none", "received", "processed", "failed"}] /\ new[k] = status
        /\ \A l \in Contents : l # k => new[l] = source[c][l]
    BY <1>1
  <1> HIDE DEF new
  <1>4. QED
    BY <1>1, <1>2, <1>3

LEMMA PostWebhookKeeps ==
    ASSUME PostsInv, NEW c \in Credentials, NEW k \in Contents, Unsure!PostWebhook(c, k)
    PROVE  PostsInv'
  <1>1. told' = told /\ source' = Unsure!Ingested(c, k) /\ waiting' \subseteq Contents
    BY DEF Unsure!PostWebhook, PostsInv, PostsTyped
  <1>2. CASE source[c][k] # "none"
    BY <1>1, <1>2 DEF Unsure!Ingested, PostsInv, PostsTyped, Unsure!OneOutcome
  <1>3. CASE source[c][k] = "none"
    <2>1. source' = [source EXCEPT ![c][k] = "received"]
      BY <1>1, <1>3 DEF Unsure!Ingested
    <2>2. /\ source' \in [Credentials -> [Contents -> {"none", "received", "processed", "failed"}]]
          /\ \A d \in Credentials, l \in Contents : d # c \/ l # k => source'[d][l] = source[d][l]
      BY <2>1, SourceWritten
    <2>3. Unsure!OneOutcome'
      <3>1. SUFFICES ASSUME NEW d \in Credentials, NEW l \in Contents,
                            NEW o \in {"processed", "failed"}, <<d, l, o>> \in told'
                     PROVE  source'[d][l] = o
        BY DEF Unsure!OneOutcome
      <3>2. source[d][l] = o
        BY <1>1, <3>1 DEF PostsInv, Unsure!OneOutcome
      <3>3. QED
        BY <1>3, <2>2, <3>2
    <2>4. QED
      BY <1>1, <2>2, <2>3 DEF PostsInv, PostsTyped
  <1>4. QED
    BY <1>2, <1>3

LEMMA EndJobKeeps ==
    ASSUME PostsInv, NEW c \in Credentials, NEW k \in Contents,
           NEW outcome \in {"processed", "failed"}, Unsure!EndJob(c, k, outcome)
    PROVE  PostsInv'
  <1> DEFINE new == <<c, k, outcome>>
  <1>1. /\ source[c][k] = "received" /\ source' = [source EXCEPT ![c][k] = outcome]
        /\ told' \subseteq told \cup {new} /\ waiting' \subseteq Contents
    BY DEF Unsure!EndJob, PostsInv, PostsTyped
  <1>2. /\ source' \in [Credentials -> [Contents -> {"none", "received", "processed", "failed"}]]
        /\ source'[c][k] = outcome
        /\ \A d \in Credentials, l \in Contents : d # c \/ l # k => source'[d][l] = source[d][l]
    BY <1>1, SourceWritten
  <1>3. \A o \in {"processed", "failed"} : <<c, k, o>> \notin told
    BY <1>1 DEF PostsInv, Unsure!OneOutcome
  <1>4. Unsure!OneOutcome'
    <2>1. SUFFICES ASSUME NEW d \in Credentials, NEW l \in Contents,
                          NEW o \in {"processed", "failed"}, <<d, l, o>> \in told'
                   PROVE  source'[d][l] = o
      BY DEF Unsure!OneOutcome
    <2>2. CASE d = c /\ l = k
      BY <1>1, <1>2, <1>3, <2>1, <2>2
    <2>3. CASE d # c \/ l # k
      <3>1. <<d, l, o>> # new
        BY <2>3
      <3>2. <<d, l, o>> \in told
        BY <1>1, <2>1, <3>1
      <3>3. source[d][l] = o
        BY <3>2 DEF PostsInv, Unsure!OneOutcome
      <3>4. QED
        BY <1>2, <2>3, <3>3
    <2>4. QED
      BY <2>2, <2>3
  <1>5. new \in Credentials \X Contents \X {"processed", "failed"}
    OBVIOUS
  <1>6. QED
    BY <1>1, <1>2, <1>4, <1>5 DEF PostsInv, PostsTyped

LEMMA WebhooksStep == WebhooksInv /\ [Unsure!Next]_(Unsure!vars) => WebhooksInv'
  <1>1. SUFFICES ASSUME WebhooksInv, [Unsure!Next]_(Unsure!vars) PROVE WebhooksInv'
    OBVIOUS
  <1>2. KeysInv /\ PostsInv /\ user \in {"active", "disabled"}
    BY <1>1 DEF WebhooksInv
  <1>3. CASE UNCHANGED Unsure!vars
    BY <1>2, <1>3, KeysUnchanged, PostsUnchanged DEF WebhooksInv, Unsure!vars
  <1>4. ASSUME NEW h \in Chats,
               Unsure!CheckNone(h) \/ Unsure!Rollback(h) \/ Unsure!RevokeCredential(h)
        PROVE  WebhooksInv'
    <2>1. UNCHANGED <<user, source, told, waiting>>
      BY <1>4 DEF Unsure!CheckNone, Unsure!Rollback, Unsure!RevokeCredential, Unsure!posts
    <2>2. KeysInv'
      BY <1>2, <1>4, CheckNoneKeeps, RollbackKeeps, RevokeCredentialKeeps
    <2>3. QED
      BY <1>2, <2>1, <2>2, PostsUnchanged DEF WebhooksInv
  <1>5. ASSUME NEW h \in Chats, NEW k \in Credentials, Unsure!CreateCredential(h, k)
        PROVE  WebhooksInv'
    <2>1. UNCHANGED <<user, source, told, waiting>>
      BY <1>5 DEF Unsure!CreateCredential, Unsure!posts
    <2>2. QED
      BY <1>2, <1>5, <2>1, CreateCredentialKeeps, PostsUnchanged DEF WebhooksInv
  <1>6. ASSUME NEW k \in Credentials, Unsure!Outbox(k) PROVE WebhooksInv'
    <2>1. UNCHANGED <<user, source, told, waiting>>
      BY <1>6 DEF Unsure!Outbox, Unsure!ClaimOutbox, Unsure!Deliver, Unsure!DeliveryFails,
         Unsure!DeliveryDies, Unsure!posts
    <2>2. KeysInv'
      BY <1>2, <1>6, ClaimOutboxKeeps, DeliverKeeps, DeliveryFailsKeeps, DeliveryDiesKeeps
         DEF Unsure!Outbox
    <2>3. QED
      BY <1>2, <2>1, <2>2, PostsUnchanged DEF WebhooksInv
  <1>7. ASSUME NEW k \in Credentials, NEW c \in Contents,
               Unsure!PostWebhook(k, c) \/ Unsure!Work(k, c)
        PROVE  WebhooksInv'
    <2>1. UNCHANGED <<credential, message, shown, lock, creating>> /\ user' = user
      BY <1>7 DEF Unsure!PostWebhook, Unsure!Work, Unsure!EndJob, Unsure!keys
    <2>2. PostsInv'
      BY <1>2, <1>7, PostWebhookKeeps, EndJobKeeps DEF Unsure!Work
    <2>3. QED
      BY <1>2, <2>1, <2>2, KeysUnchanged DEF WebhooksInv
  <1>8. CASE Unsure!SetUser
    BY <1>2, <1>8, KeysUnchanged, PostsUnchanged
       DEF WebhooksInv, Unsure!SetUser, Unsure!keys, Unsure!posts
  <1>9. QED
    BY <1>1, <1>3, <1>4, <1>5, <1>6, <1>7, <1>8 DEF Unsure!Next

(* Where no answer is lost, nothing else is possible.                      *)
LEMMA SureSteps ==
    ASSUME [Sure!Next]_(Sure!vars)
    PROVE  [Unsure!Next]_(Unsure!vars)
  <1>1. ASSUME NEW k \in Credentials
        PROVE  Sure!Outbox(k) => Unsure!Outbox(k)
    BY DEF Sure!Outbox, Unsure!Outbox, Sure!ClaimOutbox, Unsure!ClaimOutbox, Sure!Deliver,
       Unsure!Deliver, Sure!Redacted, Unsure!Redacted, Sure!DeliveryFails, Unsure!DeliveryFails,
       Sure!FailDelivery, Unsure!FailDelivery, Sure!DeliveryDies, Unsure!DeliveryDies,
       Sure!posts, Unsure!posts
  <1>2. ASSUME NEW k \in Credentials, NEW c \in Contents
        PROVE  Sure!PostWebhook(k, c) \/ Sure!Work(k, c) => Unsure!PostWebhook(k, c) \/ Unsure!Work(k, c)
    BY DEF Sure!PostWebhook, Unsure!PostWebhook, Sure!Ingested, Unsure!Ingested, Sure!Work,
       Unsure!Work, Sure!EndJob, Unsure!EndJob, Sure!keys, Unsure!keys
  <1>3. ASSUME NEW h \in Chats
        PROVE  Sure!CheckNone(h) \/ Sure!Rollback(h) \/ Sure!RevokeCredential(h)
                 => Unsure!CheckNone(h) \/ Unsure!Rollback(h) \/ Unsure!RevokeCredential(h)
    BY DEF Sure!CheckNone, Unsure!CheckNone, Sure!UserUnlocked, Unsure!UserUnlocked, Sure!Active,
       Unsure!Active, Sure!Rollback, Unsure!Rollback, Sure!RevokeCredential,
       Unsure!RevokeCredential, Sure!posts, Unsure!posts
  <1>4. ASSUME NEW h \in Chats, NEW k \in Credentials
        PROVE  Sure!CreateCredential(h, k) => Unsure!CreateCredential(h, k)
    BY DEF Sure!CreateCredential, Unsure!CreateCredential, Sure!posts, Unsure!posts
  <1>5. Sure!SetUser => Unsure!SetUser
    BY DEF Sure!SetUser, Unsure!SetUser, Sure!keys, Unsure!keys, Sure!posts, Unsure!posts
  <1>6. Sure!Next => Unsure!Next
    BY <1>1, <1>2, <1>3, <1>4, <1>5 DEF Sure!Next, Unsure!Next
  <1>7. QED
    BY <1>6 DEF Sure!vars, Unsure!vars

LEMMA DeliveredStep ==
    ASSUME WebhooksInv, DeliveredIsSettled, [Sure!Next]_(Sure!vars)
    PROVE  DeliveredIsSettled' /\ Sure!KeepsDelivered
  <1>1. /\ credential \in [Credentials -> {"none", "active", "revoked"}]
        /\ message \in [Credentials -> Unsure!Row]
        /\ shown \in [Credentials -> 0..MaxShown]
    BY DEF WebhooksInv, KeysInv, KeysTyped
  <1>2. CASE UNCHANGED <<credential, message, shown>>
    BY <1>2 DEF DeliveredIsSettled, Sure!KeepsDelivered
  <1>3. ASSUME NEW h \in Chats, Sure!RevokeCredential(h)
        PROVE  DeliveredIsSettled' /\ Sure!KeepsDelivered
    <2>1. /\ UNCHANGED <<message, shown>>
          /\ \A k \in Credentials : credential'[k] = "none" => credential[k] = "none"
      BY <1>3 DEF Sure!RevokeCredential
    <2>2. QED
      BY <2>1 DEF DeliveredIsSettled, Sure!KeepsDelivered
  <1>4. ASSUME NEW h \in Chats, NEW k \in Credentials, Sure!CreateCredential(h, k)
        PROVE  DeliveredIsSettled' /\ Sure!KeepsDelivered
    <2>1. /\ credential[k] = "none" /\ credential'[k] = "active" /\ shown' = shown
          /\ \A l \in Credentials : l # k => /\ credential'[l] = credential[l]
                                             /\ message'[l] = message[l]
      BY <1>1, <1>4 DEF Sure!CreateCredential
    <2>2. shown[k] = 0
      BY <2>1 DEF DeliveredIsSettled
    <2>3. QED
      BY <2>1, <2>2 DEF DeliveredIsSettled, Sure!KeepsDelivered
  <1>5. ASSUME NEW k \in Credentials, Sure!Outbox(k)
        PROVE  DeliveredIsSettled' /\ Sure!KeepsDelivered
    <2>1. ASSUME NEW status, NEW s, NEW count,
                 \A l \in Credentials : l # k => /\ credential'[l] = credential[l]
                                                 /\ message'[l] = message[l] /\ shown'[l] = shown[l],
                 message[k].status \in {"pending", "sending"},
                 message'[k].status = s, s # "none",
                 shown'[k] = count, count = shown[k] \/ s = "sent",
                 credential'[k] = status, status \in {credential[k], "revoked"}
          PROVE  DeliveredIsSettled' /\ Sure!KeepsDelivered
      <3>1. ~(shown[k] > 0) /\ credential[k] # "none"
        BY <2>1 DEF DeliveredIsSettled
      <3>2. QED
        BY <2>1, <3>1 DEF DeliveredIsSettled, Sure!KeepsDelivered
    <2>2. message[k] \in Unsure!Row
      BY <1>1
    <2>3. CASE Sure!ClaimOutbox(k)
      <3>1. /\ message'[k].status = "sending" /\ shown'[k] = shown[k]
            /\ credential'[k] = credential[k] /\ message[k].status = "pending"
            /\ \A l \in Credentials : l # k => /\ credential'[l] = credential[l]
                                               /\ message'[l] = message[l] /\ shown'[l] = shown[l]
        BY <1>1, <2>2, <2>3 DEF Sure!ClaimOutbox, Unsure!Row
      <3>2. QED
        BY <2>1, <3>1
    <2>4. CASE Sure!Deliver(k)
      <3>1. /\ message'[k].status = "sent"
            /\ credential'[k] = credential[k] /\ message[k].status = "sending"
            /\ \A l \in Credentials : l # k => /\ credential'[l] = credential[l]
                                               /\ message'[l] = message[l] /\ shown'[l] = shown[l]
        BY <1>1, <2>2, <2>4 DEF Sure!Deliver, Sure!Redacted, Unsure!Row
      <3>2. QED
        BY <2>1, <3>1
    <2>5. CASE Sure!DeliveryFails(k)
      <3>1. /\ message'[k].status \in {"pending", "failed"} /\ shown' = shown
            /\ credential'[k] \in {credential[k], "revoked"} /\ message[k].status = "sending"
            /\ \A l \in Credentials : l # k => /\ credential'[l] = credential[l]
                                               /\ message'[l] = message[l]
        BY <1>1, <2>2, <2>5 DEF Sure!DeliveryFails, Sure!FailDelivery, Sure!Redacted, Unsure!Row
      <3>2. QED
        BY <2>1, <3>1
    <2>6. CASE Sure!DeliveryDies(k)
      <3>1. /\ message'[k].status = "pending" /\ shown' = shown
            /\ credential' = credential /\ message[k].status = "sending"
            /\ \A l \in Credentials : l # k => message'[l] = message[l]
        BY <1>1, <2>2, <2>6 DEF Sure!DeliveryDies, Unsure!Row
      <3>2. QED
        BY <2>1, <3>1
    <2>7. QED
      BY <1>5, <2>3, <2>4, <2>5, <2>6 DEF Sure!Outbox
  <1>6. ASSUME \/ Sure!SetUser
               \/ \E h \in Chats : Sure!CheckNone(h) \/ Sure!Rollback(h)
               \/ \E k \in Credentials, c \in Contents : Sure!PostWebhook(k, c) \/ Sure!Work(k, c)
               \/ UNCHANGED Sure!vars
        PROVE  UNCHANGED <<credential, message, shown>>
    BY <1>6 DEF Sure!SetUser, Sure!CheckNone, Sure!Rollback, Sure!PostWebhook, Sure!Work,
       Sure!EndJob, Sure!keys, Sure!vars
  <1>7. QED
    BY <1>2, <1>3, <1>4, <1>5, <1>6 DEF Sure!Next

-----------------------------------------------------------------------------
(* A behaviour of the channels is one of each part.                        *)

LEMMA ChannelStays == [ChannelsNext]_channelVars => channel' = channel
  BY DEF ChannelsNext, Joining, Posting, Replying, Proposing, channelVars

LEMMA AccountsGoOn == ChannelsSpec => Accounts!Spec
  <1>1. ChannelsInit => Accounts!Init
    BY DEF ChannelsInit
  <1>2. [ChannelsNext]_channelVars => [Accounts!Next]_(Accounts!vars)
    BY DEF ChannelsNext, Joining, Posting, Replying, Proposing, channelVars, accounts,
       Accounts!vars
  <1>3. QED
    BY <1>1, <1>2, PTL DEF ChannelsSpec, Accounts!Spec

LEMMA LateGoesOn == ChannelsSpec => Late!Spec
  <1>1. ChannelsInit => Late!Init
    BY DEF ChannelsInit
  <1>2. [ChannelsNext]_channelVars => [Late!Next]_(Late!vars)
    BY DEF ChannelsNext, Joining, Posting, Replying, Proposing, channelVars, pipeline, Late!vars
  <1>3. QED
    BY <1>1, <1>2, PTL DEF ChannelsSpec, Late!Spec

LEMMA ProposalsGoOn == ChannelsSpec => Proposals!Spec
  <1>1. ChannelsInit => Proposals!Init
    BY DEF ChannelsInit
  <1>2. [ChannelsNext]_channelVars => [Proposals!Next]_(Proposals!vars)
    BY DEF ChannelsNext, Joining, Posting, Replying, Proposing, channelVars, proposals,
       Proposals!vars
  <1>3. QED
    BY <1>1, <1>2, PTL DEF ChannelsSpec, Proposals!Spec

LEMMA PostingSteps ==
    ASSUME [ChannelsNext]_channelVars
    PROVE  /\ [Unsure!Next]_(Unsure!vars)
           /\ channel = "sure" => [Sure!Next]_(Sure!vars)
  <1>1. CASE Posting
    BY <1>1, SureSteps DEF Posting
  <1>2. CASE Joining \/ Replying \/ Proposing \/ UNCHANGED channelVars
    BY <1>2 DEF Joining, Replying, Proposing, channelVars, webhooks, Unsure!vars, Sure!vars
  <1>3. QED
    BY <1>1, <1>2 DEF ChannelsNext

LEMMA UnsureGoesOn == ChannelsSpec => Unsure!Spec
  <1>1. ChannelsInit => Unsure!Init
    BY DEF ChannelsInit
  <1>2. [ChannelsNext]_channelVars => [Unsure!Next]_(Unsure!vars)
    BY PostingSteps
  <1>3. QED
    BY <1>1, <1>2, PTL DEF ChannelsSpec, Unsure!Spec

LEMMA AccountsInvariant == ChannelsSpec => []AccountsInv
  BY AccountsBegin, AccountsStep, AccountsGoOn, PTL DEF Accounts!Spec

LEMMA WebhooksInvariant == ChannelsSpec => []WebhooksInv
  BY WebhooksBegin, WebhooksStep, UnsureGoesOn, PTL DEF Unsure!Spec

LEMMA DeliveredInvariant ==
    ChannelsSpec => [](channel = "sure" => DeliveredIsSettled)
  <1> DEFINE This == channel = "sure" => DeliveredIsSettled
  <1>1. ChannelsInit => This
    BY WebhooksBegin DEF ChannelsInit
  <1>2. This /\ WebhooksInv /\ [ChannelsNext]_channelVars => This'
    BY ChannelStays, PostingSteps, DeliveredStep
  <1>3. QED
    BY <1>1, <1>2, WebhooksInvariant, PTL DEF ChannelsSpec

-----------------------------------------------------------------------------
(* About channels.                                                         *)

(* What is active was verified and has an address, and every row of a user,*)
(* an invitation, a URL, a job and a routine has the values it may have.   *)
THEOREM ChannelsTyped == ChannelsSpec => []ChannelTypes
  <1> DEFINE Kind == channel \in {"accounts", "unsure", "sure", "late", "proposals"}
  <1>1. (ChannelsInit => Kind) /\ ([ChannelsNext]_channelVars /\ Kind => Kind')
    BY ChannelStays DEF ChannelsInit
  <1>2. Late!Spec => []Late!TypeOK
    BY ChannelAssumptions, Late!PipelineTyped
  <1>3. Proposals!Spec => []Proposals!TypeOK
    BY ChannelAssumptions, Proposals!TypeCorrect
  <1>4. AccountsInv => Accounts!TypeOK
    BY DEF AccountsInv, Accounts!TypeOK, RowsInv, RowsTyped, RowsVerified, UsersTyped, IdentityInv,
       InvitesTyped, AcceptingInv, RestTyped
  <1>5. WebhooksInv => Unsure!TypeOK
    BY DEF WebhooksInv, KeysInv, KeysTyped, PostsInv, PostsTyped, Unsure!TypeOK
  <1>6. Kind /\ Accounts!TypeOK /\ Unsure!TypeOK /\ Late!TypeOK /\ Proposals!TypeOK => ChannelTypes
    BY DEF ChannelTypes
  <1>7. QED
    BY <1>1, <1>2, <1>3, <1>4, <1>5, <1>6, AccountsInvariant, WebhooksInvariant, LateGoesOn,
       ProposalsGoOn, PTL DEF ChannelsSpec

(* Acceptances that run together duplicate neither a user nor a chat,      *)
(* commands in two chats make one URL, and a content has one outcome: the  *)
(* SQL function that accepts an invitation, telegram_commands.py and       *)
(* integrations/macwhisper/service.py.                                     *)
THEOREM ChannelsDuplicateNothing == ChannelsSpec => []NothingDuplicated
  <1>1. AccountsInv => Accounts!NothingDuplicated
    BY DEF AccountsInv, Accounts!NothingDuplicated, IdentityInv, InvitesPaired, RowsInv, RowsApart
  <1>2. WebhooksInv => Unsure!OneActive
    <2>1. SUFFICES ASSUME WebhooksInv PROVE Unsure!Cardinality(Unsure!Active) <= 1
      BY DEF Unsure!OneActive
    <2>2. \A k, l \in Unsure!Active : k = l
      BY <2>1 DEF WebhooksInv, KeysInv, CreatedAlone
    <2>3. CASE Unsure!Active = {}
      BY <2>3, FS_EmptySet DEF Cardinality, Unsure!Cardinality
    <2>4. CASE Unsure!Active # {}
      <3>1. PICK k : Unsure!Active = {k}
        BY <2>2, <2>4
      <3>2. Cardinality({k}) = 1
        BY FS_Singleton
      <3>3. Unsure!Cardinality({k}) = Cardinality({k})
        BY DEF Cardinality, Unsure!Cardinality
      <3>4. QED
        BY <3>1, <3>2, <3>3
    <2>5. QED
      BY <2>3, <2>4
  <1>3. WebhooksInv => Unsure!OneOutcome
    BY DEF WebhooksInv, PostsInv
  <1>4. AccountsInv /\ WebhooksInv => NothingDuplicated
    BY <1>1, <1>2, <1>3 DEF NothingDuplicated
  <1>5. QED
    BY <1>4, AccountsInvariant, WebhooksInvariant, PTL

(* An invitation ends once, the end of a suspension gives back what it     *)
(* took and is still the user's, a phone is kept for the user whose code   *)
(* is valid, and no end of a delivery revokes a URL that the user has:     *)
(* invitations/service.py, accounts/admin_service.py, conversation/        *)
(* whatsapp.py and conversation/channel_jobs.py.                           *)
THEOREM ChannelEndsAreKept == ChannelsSpec => EndsAreKept
  <1> DEFINE Sent == channel = "sure"
             Delivered == Sent => DeliveredIsSettled
             Kept == Sent => Sure!KeepsDelivered
  <1>1. AccountsInv /\ [Accounts!Next]_(Accounts!vars)
          => /\ [EndsOnce]_(Accounts!vars) /\ [GivesBack]_(Accounts!vars)
             /\ [KeepsCode]_(Accounts!vars)
    BY InvitesEndOnce, SuspensionGivesBack, CodesAreKept
  <1>2. /\ Accounts!InviteEndsOnce <=> [][EndsOnce]_(Accounts!vars)
        /\ Accounts!RestoredOwn <=> [][GivesBack]_(Accounts!vars)
        /\ Accounts!CodeKept <=> [][KeepsCode]_(Accounts!vars)
    BY DEF Accounts!InviteEndsOnce, Accounts!RestoredOwn, Accounts!CodeKept, EndsOnce, GivesBack,
       KeepsCode
  <1>3. Delivered /\ WebhooksInv /\ [ChannelsNext]_channelVars => [Kept]_channelVars
    BY PostingSteps, DeliveredStep
  <1>4. ChannelsSpec => [][Kept]_channelVars
    BY <1>3, DeliveredInvariant, WebhooksInvariant, PTL DEF ChannelsSpec
  <1>5. QED
    BY <1>1, <1>2, <1>4, AccountsGoOn, AccountsInvariant, PTL DEF Accounts!Spec, EndsAreKept

(* The user is not left with an active URL that he cannot get, a task that *)
(* ended has its answer in the outbox although a lease ended before the    *)
(* work, and a grant that waits has an action he can answer.               *)
THEOREM NobodyIsLeftWaiting == ChannelsSpec => []NobodyWaitsInVain
  <1>1. WebhooksInv => Unsure!ActiveIsReachable
    BY DEF WebhooksInv, KeysInv
  <1>2. Late!Spec => []Late!TaskIsReported
    BY ChannelAssumptions, Late!TasksAreReported
  <1>3. Late!Spec => []Late!DependencyKept
    BY ChannelAssumptions, Late!DependenciesAreKept
  <1>4. Proposals!Spec => []Proposals!PendingGrantIsAnswerable
    BY ChannelAssumptions, Proposals!WaitingAlwaysAnswerable
  <1>5. /\ Unsure!ActiveIsReachable /\ Late!TaskIsReported /\ Late!DependencyKept
        /\ Proposals!PendingGrantIsAnswerable
        => NobodyWaitsInVain
    BY DEF NobodyWaitsInVain
  <1>6. QED
    BY <1>1, <1>2, <1>3, <1>4, <1>5, WebhooksInvariant, LateGoesOn, ProposalsGoOn, PTL
================================================================================
