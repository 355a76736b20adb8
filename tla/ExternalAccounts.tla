-------------------------- MODULE ExternalAccounts --------------------------
(***************************************************************************)
(* The accounts of one user in one toolkit of Composio:                    *)
(* connect_external_app, get_external_connection_status and                *)
(* configure_external_account in integrations/composio/service.py.  A tool *)
(* loads the accounts, asks the provider about them and only then writes.  *)
(* In between, the page the provider sends the user back to (an edge       *)
(* function, two updates that are no transaction) may register the same    *)
(* accounts.  Among accounts that are equally default the code takes the   *)
(* one updated last: the model takes any.                                  *)
(***************************************************************************)
EXTENDS Naturals, FiniteSets

CONSTANTS MaxAccounts,  \* bound on the accounts asked for
          Tasks,        \* tasks of the user that run at the same time
          None

AccountsAssumption ==
    /\ MaxAccounts \in Nat
    /\ None \notin {"pending", "initiated", "active", "expired", "verification_failed",
                     "found", "registered"}

VARIABLES status,       \* status of each account, None before it is asked for
          default,      \* accounts marked as the default one
          remote,       \* what the provider has of each
          request,      \* its connection request
          over,         \* requests whose fifteen minutes have passed
          page,         \* how far the page has come with each
          snap,         \* what each task has loaded and was told by the provider
          told,         \* accounts the page has called registered
          primary       \* the account made primary while it was active, as long as it is

vars == <<status, default, remote, request, over, page, snap, told, primary>>

Accounts == 1..MaxAccounts

Init == /\ status = [i \in Accounts |-> None] /\ default = {}
        /\ remote = [i \in Accounts |-> None]
        /\ request = [i \in Accounts |-> None] /\ over = {}
        /\ page = [i \in Accounts |-> None] /\ snap = [t \in Tasks |-> None]
        /\ told = {} /\ primary = None

\* _integrations(active_only): the accounts the code may take when none is
\* selected, of those with the status active in the function s.
Candidates(s) == LET A == {i \in Accounts : s[i] = "active"}
                 IN  IF A \cap default # {} THEN A \cap default ELSE A

\* The account made primary is watched while it is active.
Watch == primary' = IF primary # None /\ status'[primary] # "active" THEN None ELSE primary

-----------------------------------------------------------------------------
(* The tools *)

Load(t) == /\ snap[t] = None
           /\ snap' = [snap EXCEPT ![t] = [loaded |-> status, said |-> [i \in Accounts |-> None]]]
           /\ UNCHANGED <<status, default, remote, request, over, page, told, primary>>

Known(t) == {i \in Accounts : snap[t].loaded[i] # None}

\* _verified_remote_status: the provider answers or raises.
Ask(t, i) == /\ snap[t] # None /\ i \in Known(t) /\ snap[t].said[i] = None
             /\ \E r \in {remote[i], "verification_failed"} :
                  snap' = [snap EXCEPT ![t].said[i] = r]
             /\ UNCHANGED <<status, default, remote, request, over, page, told, primary>>

\* An account whose check raised is left as it is.
Verified(t) == {i \in Known(t) : snap[t].said[i] \notin {None, "verification_failed"}}

\* The update of a loaded row writes its status if it differs from the loaded one.
EndCheck(t) ==
    /\ snap[t] # None /\ snap' = [snap EXCEPT ![t] = None]
    /\ status' = [i \in Accounts |->
                    IF i \in Verified(t) /\ snap[t].said[i] # snap[t].loaded[i]
                    THEN snap[t].said[i] ELSE status[i]]
    /\ Watch
    /\ UNCHANGED <<default, remote, request, over, page, told>>

\* The first account of the user is the default one.
Default(n, loaded) == IF Candidates(loaded) = {} THEN default \cup {n} ELSE default

\* The new account waits for its authorisation.
Linked(t, n, drop) == [i \in Accounts |-> CASE i = n -> "pending"
                                            [] i \in drop -> snap[t].said[i]
                                            [] OTHER -> status[i]]

\* The link is asked for after the account in use was found lost (drop), or
\* with no account in use, or for another account (drop = {}).
Link(t, drop) ==
    LET old == {i \in Accounts : status[i] # None}
        n   == Cardinality(old) + 1
    IN  /\ n \in Accounts
        /\ status' = Linked(t, n, drop)
        /\ default' = Default(n, snap[t].loaded)
        /\ remote' = [remote EXCEPT ![n] = "initiated"]
        /\ request' = [request EXCEPT ![n] = "pending"]
        /\ Watch

Connect(t) ==
    /\ snap[t] # None /\ snap' = [snap EXCEPT ![t] = None]
    /\ LET active == Candidates(snap[t].loaded)
       IN  \/ \E i \in active : snap[t].said[i] = "active"      \* already connected
                                /\ UNCHANGED <<status, default, remote, request, primary>>
           \/ \E i \in active : snap[t].said[i] \notin {None, "active"} /\ Link(t, {i})
           \/ Link(t, {})
    /\ UNCHANGED <<over, page, told>>

Configured(i) == {i}

\* configure_external_account with set_as_primary.
Configure(t, i) == /\ snap[t] = None /\ status[i] # None
                   /\ default' = Configured(i)
                   /\ primary' = IF status[i] = "active" THEN i ELSE None
                   /\ UNCHANGED <<status, remote, request, over, page, snap, told>>

-----------------------------------------------------------------------------
(* The provider *)

Authorise(i) == /\ remote[i] = "initiated"
                /\ remote' = [remote EXCEPT ![i] = "active"]
                /\ UNCHANGED <<status, default, request, over, page, snap, told, primary>>

\* A link nobody used, or access that was taken back.
Lose(i) == /\ remote[i] \in {"initiated", "active"}
           /\ remote' = [remote EXCEPT ![i] = "expired"]
           /\ UNCHANGED <<status, default, request, over, page, snap, told, primary>>

-----------------------------------------------------------------------------
(* The page the provider sends the user back to *)

Find(i) == /\ page[i] = None /\ remote[i] \in {"active", "expired"}
           /\ request[i] = "pending" /\ i \notin over
           /\ page' = [page EXCEPT ![i] = "found"]
           /\ UNCHANGED <<status, default, remote, request, over, snap, told, primary>>

Registered_Faulty(i) == "active"

\* .eq("status", "pending")
Registered(i) == IF status[i] = "pending" THEN "active" ELSE status[i]

Register(i) == /\ page[i] = "found"
               /\ status' = [status EXCEPT ![i] = Registered(i)]
               /\ page' = [page EXCEPT ![i] = "registered"]
               /\ UNCHANGED <<default, remote, request, over, snap, told, primary>>

Complete(i) == /\ page[i] = "registered"
               /\ request' = [request EXCEPT ![i] = "completed"]
               /\ page' = [page EXCEPT ![i] = None]
               /\ told' = told \cup {i}
               /\ UNCHANGED <<status, default, remote, over, snap, primary>>

\* An update fails: the page says so, and the link can be opened again.
FailPage(i) == /\ page[i] # None
               /\ page' = [page EXCEPT ![i] = None]
               /\ UNCHANGED <<status, default, remote, request, over, snap, told, primary>>

TimeOut(i) == /\ request[i] = "pending" /\ i \notin over
              /\ over' = over \cup {i}
              /\ UNCHANGED <<status, default, remote, request, page, snap, told, primary>>

Next == \/ \E t \in Tasks : \/ Load(t) \/ EndCheck(t) \/ Connect(t)
                            \/ \E i \in Accounts : Ask(t, i) \/ Configure(t, i)
        \/ \E i \in Accounts : \/ Authorise(i) \/ Lose(i) \/ Find(i) \/ Register(i)
                               \/ Complete(i) \/ FailPage(i) \/ TimeOut(i)

Spec == Init /\ [][Next]_vars

-----------------------------------------------------------------------------
(* Properties *)

\* The statuses an account has while only its status is checked; an account
\* exists as soon as the provider has its link.
TypeOK == \A i \in Accounts :
    /\ status[i] \in {None, "pending", "initiated", "active", "expired", "verification_failed"}
    /\ (status[i] = None) = (remote[i] = None)
    /\ i \in default => status[i] # None
    /\ status[i] = "active" => remote[i] \in {"active", "expired"}

\* A write without an account goes to the account the user has made primary, for
\* as long as it is connected, whatever is linked, lost or found again meanwhile.
PrimaryIsUsed == primary # None => Candidates(status) = {primary}

\* An account that was found lost at the provider does not come back, not even
\* through a page that was opened before.
LostStaysLost == [][\A i \in Accounts : status[i] = "expired" => status'[i] = "expired"]_vars

\* An account that is connected is taken out of use by a link asked for while
\* the provider did not answer, or by what the provider says, never by a check.
CheckKeepsConnected ==
    [][\A i \in Accounts : status[i] = "active" /\ status'[i] = "verification_failed"
           => \E n \in Accounts : status[n] = None /\ status'[n] = "pending"]_vars

\* There is one default account among those that are connected.
OneDefault == Cardinality({i \in default : status[i] = "active"}) <= 1

\* An account the page calls registered is connected.
RegisteredIsActive == [][\A i \in told' \ told : status'[i] = "active"]_vars
=============================================================================
