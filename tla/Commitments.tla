------------------------------ MODULE Commitments ------------------------------
(***************************************************************************)
(* Commitments: extractions mention them, report them done, or state a     *)
(* fact that closes one; users reword, cancel and delete them; the         *)
(* deletion of a source takes along what only it was evidence of.          *)
(*                                                                         *)
(* One extraction at a time.  Which open commitment a report of completion *)
(* is about is guessed from the words they share: any choice is possible.  *)
(***************************************************************************)
EXTENDS Integers

CONSTANTS Sources, Commitments, Nobody

CommitmentAssumption == Nobody \notin Sources \cup Commitments

VARIABLES commitment, (* [Commitments -> status and fingerprint]           *)
          evidence,   (* pairs of a commitment and a source                *)
          source,     (* [Sources -> status]                               *)
          closedBy    (* [Commitments -> the source that completed it]     *)

vars == <<commitment, evidence, source, closedBy>>

(* reworded: its fingerprint is no longer that of its first description.   *)
CommitmentRow == [status: {"none", "open", "completed", "cancelled", "deleted"},
                  reworded: BOOLEAN]

TypeOK ==
    /\ commitment \in [Commitments -> CommitmentRow]
    /\ evidence \subseteq Commitments \X Sources
    /\ source \in [Sources -> {"received", "processed", "deleted"}]
    /\ closedBy \in [Commitments -> Sources \cup {Nobody}]

Init ==
    /\ commitment = [c \in Commitments |-> [status |-> "none", reworded |-> FALSE]]
    /\ evidence = {}
    /\ source = [s \in Sources |-> "received"]
    /\ closedBy = [c \in Commitments |-> Nobody]

Status(c) == commitment[c].status
Kept(c) == Status(c) \notin {"none", "deleted"}
Backed(c, rows) == \E s \in Sources : <<c, s>> \in rows

(* _matching_completed_commitment: one that is open or completed, or none. *)
Matches == {c \in Commitments : Status(c) \in {"open", "completed"}} \cup {Nobody}

Processed(s) == source[s] = "received" /\ source' = [source EXCEPT ![s] = "processed"]

Complete(c, s) ==
    IF Status(c) = "open"
    THEN /\ commitment' = [commitment EXCEPT ![c].status = "completed"]
         /\ closedBy' = [closedBy EXCEPT ![c] = s]
    ELSE UNCHANGED <<commitment, closedBy>>

-----------------------------------------------------------------------------
(* The commitments of consolidate_extraction.                              *)

(* Known by its fingerprint, whatever became of it: more evidence.         *)
MentionAgain(s, c) ==
    /\ Processed(s)
    /\ Status(c) # "none" /\ ~commitment[c].reworded
    /\ evidence' = evidence \cup {<<c, s>>}
    /\ UNCHANGED <<commitment, closedBy>>

(* A new one, unless it is reported done and matches an open one.          *)
Mention(s, c, status, match) ==
    /\ Processed(s)
    /\ Status(c) = "none"
    /\ IF match = Nobody
       THEN /\ commitment' = [commitment EXCEPT ![c].status = status]
            /\ evidence' = evidence \cup {<<c, s>>}
            /\ closedBy' = [closedBy EXCEPT ![c] = IF status = "completed" THEN s ELSE @]
       ELSE /\ status = "completed"
            /\ Complete(match, s)
            /\ evidence' = evidence \cup {<<match, s>>}

(* A confident fact that says something is done: evidence of the fact      *)
(* only.                                                                   *)
CompletionFact(s, match) ==
    /\ Processed(s)
    /\ match # Nobody /\ Complete(match, s)
    /\ UNCHANGED evidence

-----------------------------------------------------------------------------
(* correct_memory and delete_source.                                       *)

Reword(c) ==
    /\ Kept(c)
    /\ commitment' = [commitment EXCEPT ![c].reworded = TRUE]
    /\ UNCHANGED <<evidence, source, closedBy>>

CancelCommitment(c) ==
    /\ Kept(c)
    /\ commitment' = [commitment EXCEPT ![c].status = "cancelled"]
    /\ UNCHANGED <<evidence, source, closedBy>>

DeleteCommitment(c) ==
    /\ Kept(c)
    /\ commitment' = [commitment EXCEPT ![c].status = "deleted"]
    /\ evidence' = {e \in evidence : e[1] # c}
    /\ UNCHANGED <<source, closedBy>>

DeleteSource_Faulty(s) ==
    /\ source[s] = "processed"
    /\ source' = [source EXCEPT ![s] = "deleted"]
    /\ evidence' = {e \in evidence : e[2] # s}
    /\ UNCHANGED <<commitment, closedBy>>

DeleteSource(s) ==
    /\ source[s] = "processed"
    /\ source' = [source EXCEPT ![s] = "deleted"]
    /\ evidence' = {e \in evidence : e[2] # s}
    /\ commitment' = [c \in Commitments |->
            IF <<c, s>> \in evidence /\ ~Backed(c, evidence')
            THEN [commitment[c] EXCEPT !.status = "deleted"] ELSE commitment[c]]
    /\ UNCHANGED closedBy

Extract(s) ==
    \/ \E c \in Commitments :
            \/ MentionAgain(s, c)
            \/ \E status \in {"open", "completed", "cancelled"}, match \in Matches :
                    Mention(s, c, status, match)
    \/ \E match \in Matches : CompletionFact(s, match)

Correct(c) == Reword(c) \/ CancelCommitment(c) \/ DeleteCommitment(c)

Next ==
    \/ \E s \in Sources : Extract(s) \/ DeleteSource(s)
    \/ \E c \in Commitments : Correct(c)

Spec == Init /\ [][Next]_vars

-----------------------------------------------------------------------------
(* Properties.                                                             *)

(* What a commitment is known from has not been deleted: a commitment is   *)
(* kept exactly as long as a source backs it or its user has not deleted   *)
(* it.                                                                     *)
CommitmentBacked == \A c \in Commitments : Kept(c) => Backed(c, evidence)

(* What its user cancelled or deleted is not opened, nor closed, by a      *)
(* later source that mentions it or that reports something similar done.   *)
UserHasLastWord ==
    [][\A c \in Commitments : Status(c) \in {"cancelled", "deleted"} =>
            commitment'[c].status \in {"cancelled", "deleted"}]_vars

(* docs/02-ingestion-and-memory.md:69: what was derived from a source goes *)
(* with it: a commitment is completed because a source that is still there *)
(* said so.                                                                *)
CompletionBacked ==
    \A c \in Commitments : Status(c) = "completed" => source[closedBy[c]] = "processed"
=============================================================================
