----------------------------- MODULE MemoryAnswers -----------------------------
(***************************************************************************)
(* ask_memory: a question is answered from the evidence of the current     *)
(* facts that match it, in three statements and a call to the model, while *)
(* sources are extracted and deleted and facts are corrected.              *)
(***************************************************************************)
EXTENDS Integers, FiniteSetsExt

CONSTANTS Facts, Corrections, Sources,
          Matching,    (* the facts whose text, or that of their evidence, *)
                       (* has a word of the question                       *)
          Most         (* how many facts are read (8)                      *)

AnswerAssumption ==
    /\ Facts \cap Corrections = {} /\ Matching \subseteq Facts \cup Corrections
    /\ Most \in Nat \ {0}

VARIABLES status,    (* [Facts and corrections -> status]                  *)
          evidence,  (* pairs of a fact and a source                       *)
          source,    (* [Sources -> status]                                *)
          question   (* what is known of the answer so far                 *)

vars == <<status, evidence, source, question>>

Known == Facts \cup Corrections

(* gone: the sources that were already deleted when it was asked.          *)
Question == [phase: {"asking", "selected", "thinking", "answered", "unknown"},
             facts: SUBSET Known, shown: SUBSET (Known \X Sources),
             cited: SUBSET (Known \X Sources), gone: SUBSET Sources]

TypeOK ==
    /\ status \in [Known -> {"none", "current", "superseded", "deleted"}]
    /\ evidence \subseteq Known \X Sources
    /\ source \in [Sources -> {"received", "processed", "deleted"}]
    /\ question \in Question

Init ==
    /\ status = [f \in Known |-> "none"]
    /\ evidence = {}
    /\ source = [s \in Sources |-> "received"]
    /\ question = [phase |-> "asking", facts |-> {}, shown |-> {}, cited |-> {}, gone |-> {}]

Relevant == {f \in Matching : status[f] = "current"}

SelectFacts ==
    /\ question.phase = "asking"
    /\ \E some \in kSubset(Min({Most, Cardinality(Relevant)}), Relevant) :
        question' = [question EXCEPT !.phase = "selected", !.facts = some,
                !.gone = {s \in Sources : source[s] = "deleted"}]
    /\ UNCHANGED <<status, evidence, source>>

(* _evidence_map: without any, the model is not asked.                     *)
EvidenceMap ==
    LET shown == {e \in evidence : e[1] \in question.facts}
    IN /\ question.phase = "selected"
       /\ question' = [question EXCEPT !.shown = shown,
                !.phase = IF shown = {} THEN "unknown" ELSE "thinking"]
       /\ UNCHANGED <<status, evidence, source>>

Selected_Faulty(draft) == draft
(* Of what the draft cites, what it was shown, or all of it.               *)
Selected(draft) ==
    IF draft \cap question.shown = {} THEN question.shown ELSE draft \cap question.shown

Answer(draft) ==
    /\ question.phase = "thinking"
    /\ question' = [question EXCEPT !.phase = "answered", !.cited = Selected(draft)]
    /\ UNCHANGED <<status, evidence, source>>

-----------------------------------------------------------------------------
(* The facts are of different predicates: none supersedes another but by a *)
(* correction.  FactLedger has the other case.                             *)

Extract(s, f) ==
    /\ source[s] = "received"
    /\ source' = [source EXCEPT ![s] = "processed"]
    /\ status' = [status EXCEPT ![f] = IF @ = "none" THEN "current" ELSE @]
    /\ evidence' = evidence \cup {<<f, s>>}
    /\ UNCHANGED question

ReplaceFact(f, c) ==
    /\ status[f] = "current" /\ status[c] = "none"
    /\ status' = [status EXCEPT ![f] = "superseded", ![c] = "current"]
    /\ UNCHANGED <<evidence, source, question>>

DeleteSource(s) ==
    /\ source[s] = "processed"
    /\ source' = [source EXCEPT ![s] = "deleted"]
    /\ evidence' = {e \in evidence : e[2] # s}
    /\ status' = [f \in Known |->
            IF {e \in evidence : e[1] = f} = {<<f, s>>} THEN "deleted" ELSE status[f]]
    /\ UNCHANGED question

Next ==
    \/ SelectFacts \/ EvidenceMap
    \/ \E draft \in SUBSET (Known \X Sources) : Answer(draft)
    \/ \E s \in Sources : DeleteSource(s) \/ \E f \in Facts : Extract(s, f)
    \/ \E f \in Known, c \in Corrections : ReplaceFact(f, c)

Spec == Init /\ [][Next]_vars

-----------------------------------------------------------------------------
(* Properties.                                                             *)

(* An answer rests on evidence of facts that matched, none of it from a    *)
(* source that was deleted before the question, and there is some: what    *)
(* the model made up is not cited.                                         *)
Grounded ==
    /\ \A e \in question.cited : e[1] \in question.facts /\ e[2] \notin question.gone
    /\ question.phase = "answered" => question.cited # {}

(* docs/02-ingestion-and-memory.md:68: once a source is deleted no answer  *)
(* uses it.                                                                *)
AnswersWithoutDeleted ==
    [][question'.phase = "answered" /\ question.phase # "answered" =>
            \A e \in question'.cited : source[e[2]] # "deleted"]_vars

(* docs/03-api-and-use-cases.md:171: answers reflect a correction: one     *)
(* that was selected is among what the model is shown.                     *)
CorrectionsReflected ==
    question.phase \in {"thinking", "answered", "unknown"} =>
        \A c \in Corrections \cap question.facts : \E s \in Sources : <<c, s>> \in question.shown
=============================================================================
