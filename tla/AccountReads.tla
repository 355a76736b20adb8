---------------------------- MODULE AccountReads ----------------------------
(***************************************************************************)
(* A search of the messages of a user with several Gmail accounts:         *)
(* execute_policy reads the active accounts one after the other,           *)
(* _gmail_result and bound_normalized_result cut what each answers, and    *)
(* _merged_multi_account_read makes one list of it.  A message is the time *)
(* at which it arrived, and may arrive between two reads.                  *)
(***************************************************************************)
EXTENDS Naturals, FiniteSets

CONSTANTS Accounts,     \* the active accounts, at least two
          MaxMessages,  \* bound on the messages
          Limit,        \* max_results
          Kept,         \* messages left of an answer that is too large
          Large,        \* whether an answer may be too large
          None

ReadsAssumption ==
    /\ MaxMessages \in Nat /\ Limit \in Nat \ {0} /\ Kept \in 0..Limit /\ IsFiniteSet(Accounts)
    /\ None \notin [ok: BOOLEAN, messages: SUBSET Nat, more: BOOLEAN]

VARIABLES inbox,        \* the messages of each account
          answer,       \* what the read of each account returned
          seen,         \* the messages an account had when it was read
          merged        \* the envelope the agent gets

vars == <<inbox, answer, seen, merged>>

Arrived == UNION {inbox[a] : a \in Accounts}

Init == /\ inbox = [a \in Accounts |-> {}] /\ seen = [a \in Accounts |-> {}]
        /\ answer = [a \in Accounts |-> None] /\ merged = None

\* The first n of a list that is sorted by the time of arrival, latest first.
Newest(S, n) == {m \in S : Cardinality({k \in S : k > m}) < n}

Deliver(a) == /\ Cardinality(Arrived) < MaxMessages
              /\ inbox' = [inbox EXCEPT ![a] = @ \cup {Cardinality(Arrived) + 1}]
              /\ UNCHANGED <<answer, seen, merged>>

\* The page of the provider (at most Limit messages), of which n are left.
Returned(S, n) == [ok |-> TRUE, messages |-> Newest(S, n), more |-> Cardinality(S) > Limit]

Failed == [ok |-> FALSE, messages |-> {}, more |-> FALSE]

Read(a) == /\ answer[a] = None
           /\ \E r \in {Returned(inbox[a], Limit), Failed}
                       \cup (IF Large THEN {Returned(inbox[a], Kept)} ELSE {}) :
                answer' = [answer EXCEPT ![a] = r]
           /\ seen' = [seen EXCEPT ![a] = inbox[a]]
           /\ UNCHANGED <<inbox, merged>>

Successful == {a \in Accounts : answer[a].ok}

Chosen_Faulty(S) == {m \in S : Cardinality({k \in S : k < m}) < Limit}

Chosen(S) == Newest(S, Limit)

More(S) == (\E a \in Successful : answer[a].more) \/ Cardinality(S) > Limit

Merge == /\ merged = None /\ \A a \in Accounts : answer[a] # None
         /\ LET S == UNION {answer[a].messages : a \in Successful}
            IN  merged' = IF Successful = {} THEN Failed
                          ELSE [ok |-> TRUE, messages |-> Chosen(S), more |-> More(S)]
         /\ UNCHANGED <<inbox, answer, seen>>

Next == Merge \/ \E a \in Accounts : Deliver(a) \/ Read(a)

Spec == Init /\ [][Next]_vars

-----------------------------------------------------------------------------
(* Properties *)

\* Each account answers at most a page, of its own messages.
TypeOK == \A a \in Accounts : answer[a] # None =>
             /\ answer[a].messages \subseteq seen[a]
             /\ Cardinality(answer[a].messages) <= Limit

\* What the accounts that answered had when they were read.
AllSeen == UNION {seen[a] : a \in Successful}

\* The merged list is what one account holding the messages of all that
\* answered would have returned: no page hides a newer message of another.
NewestOfAll == merged # None /\ merged.ok =>
    /\ merged.messages \subseteq AllSeen
    /\ \A m \in AllSeen \ merged.messages :
          Cardinality(merged.messages) = Limit /\ \A k \in merged.messages : k > m

\* A count that is called exact counts every message of the accounts that answered.
ExactIsAll == merged # None /\ merged.ok /\ ~merged.more => merged.messages = AllSeen
=============================================================================
