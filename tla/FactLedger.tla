------------------------------ MODULE FactLedger ------------------------------
(***************************************************************************)
(* What is known of one subject: the facts that extractions leave, each    *)
(* superseding an earlier one, and what corrections and the deletion of a  *)
(* source do to them.                                                      *)
(*                                                                         *)
(* A source states one value of one predicate.  consolidate_extraction is  *)
(* two steps, what it reads and what it commits, since two workers run it  *)
(* at a time.                                                              *)
(***************************************************************************)
EXTENDS Integers, SequencesExt

CONSTANTS Sources, Predicates, Values,
          Replacements,  (* ids of the facts users write: bounds their number *)
          NoFact,
          Together,      (* how many extractions run at a time             *)
          UserRaces,     (* may a user act between its reads and commit?    *)
          Corrected      (* statuses of the facts that users correct       *)

(* An extracted fact is known by its fingerprint.                          *)
Extracted == Predicates \X Values
FactIds == Extracted \cup Replacements

LedgerAssumption ==
    /\ IsFiniteSet(Predicates) /\ IsFiniteSet(Values) /\ IsFiniteSet(Replacements)
    /\ IsFiniteSet(Sources)
    /\ Replacements \cap Extracted = {}
    /\ NoFact \notin FactIds
    /\ Together \in Nat \ {0} /\ UserRaces \in BOOLEAN
    /\ Corrected \subseteq {"proposed", "current", "superseded", "disputed"}

VARIABLES fact,      (* [FactIds -> row of facts]                          *)
          evidence,  (* pairs of a fact and a source                       *)
          source,    (* [Sources -> status]                                *)
          reading    (* [Sources -> what the extraction has read]          *)

vars == <<fact, evidence, source, reading>>

(* age: the order of created_at.                                           *)
FactRow == [status: {"none", "proposed", "current", "superseded", "disputed", "deleted"},
            predicate: Predicates \cup {NoFact}, supersedes: FactIds \cup {NoFact},
            age: 0..Cardinality(FactIds)]
NoRow == [status |-> "none", predicate |-> NoFact, supersedes |-> NoFact, age |-> 0]

(* What it read: was the fact known, and which one it is to supersede.     *)
Reading == [fact: Extracted \cup {NoFact}, confident: BOOLEAN,
            known: BOOLEAN, previous: FactIds \cup {NoFact}]
NothingRead == [fact |-> NoFact, confident |-> FALSE, known |-> FALSE, previous |-> NoFact]

TypeOK ==
    /\ fact \in [FactIds -> FactRow]
    /\ evidence \subseteq FactIds \X Sources
    /\ source \in [Sources -> {"received", "processing", "processed", "deleted"}]
    /\ reading \in [Sources -> Reading]

Init ==
    /\ fact = [f \in FactIds |-> NoRow]
    /\ evidence = {}
    /\ source = [s \in Sources |-> "received"]
    /\ reading = [s \in Sources |-> NothingRead]

Stored(f) == fact[f].status # "none"
Current(facts, p) == {f \in FactIds : facts[f].status = "current" /\ facts[f].predicate = p}
NewAge == 1 + Cardinality({f \in FactIds : Stored(f)})

-----------------------------------------------------------------------------
(* consolidate_extraction.                                                 *)

(* The newest current fact of a predicate.                                 *)
Latest_Faulty(p) == NoFact
Latest(p) == IF Current(fact, p) = {} THEN NoFact
             ELSE CHOOSE f \in Current(fact, p) :
                    \A g \in Current(fact, p) : fact[g].age <= fact[f].age

(* over is supersedes_predicate, or the predicate of the fact.             *)
ReadFacts(s, f, confident, over) ==
    /\ source[s] = "received"
    /\ Cardinality({q \in Sources : source[q] = "processing"}) < Together
    /\ source' = [source EXCEPT ![s] = "processing"]
    /\ reading' = [reading EXCEPT ![s] = [fact |-> f, confident |-> confident,
            known |-> Stored(f),
            previous |-> IF Stored(f) \/ ~confident THEN NoFact ELSE Latest(over)]]
    /\ UNCHANGED <<fact, evidence>>

Supersede(facts, previous) ==
    IF previous = NoFact THEN facts ELSE [facts EXCEPT ![previous].status = "superseded"]

NewFact(s) ==
    [status |-> IF reading[s].confident THEN "current" ELSE "proposed",
     predicate |-> reading[s].fact[1],
     supersedes |-> reading[s].previous, age |-> NewAge]

(* A fact that is known gets the evidence and nothing else.                *)
StoreFacts(s) ==
    LET f == reading[s].fact
    IN /\ source[s] = "processing"
       /\ reading[s].known \/ ~Stored(f)
       /\ fact' = IF reading[s].known THEN fact
                  ELSE [Supersede(fact, reading[s].previous) EXCEPT ![f] = NewFact(s)]
       /\ evidence' = evidence \cup {<<f, s>>}
       /\ source' = [source EXCEPT ![s] = "processed"]
       /\ reading' = [reading EXCEPT ![s] = NothingRead]

(* uq_fact_fingerprint, or any other failure: the job is retried.          *)
FailToStore(s) ==
    /\ source[s] = "processing"
    /\ source' = [source EXCEPT ![s] = "received"]
    /\ reading' = [reading EXCEPT ![s] = NothingRead]
    /\ UNCHANGED <<fact, evidence>>

-----------------------------------------------------------------------------
(* correct_memory.                                                         *)

UserMayAct == UserRaces \/ \A s \in Sources : source[s] # "processing"
Correctable(f) == UserMayAct /\ fact[f].status \in Corrected

Replace(f, r) ==
    /\ Correctable(f)
    /\ r \in Replacements /\ ~Stored(r)
    /\ fact' = [fact EXCEPT ![f].status = "superseded",
            ![r] = [status |-> "current", predicate |-> fact[f].predicate,
                    supersedes |-> f, age |-> NewAge]]
    /\ UNCHANGED <<evidence, source, reading>>

Dispute_Faulty(f) ==
    /\ Correctable(f)
    /\ fact' = [fact EXCEPT ![f].status = "cancelled"]
    /\ UNCHANGED <<evidence, source, reading>>

Dispute(f) ==
    /\ Correctable(f)
    /\ fact' = [fact EXCEPT ![f].status = "disputed"]
    /\ UNCHANGED <<evidence, source, reading>>

DeleteFact(f) ==
    /\ Correctable(f)
    /\ fact' = [fact EXCEPT ![f].status = "deleted"]
    /\ evidence' = {e \in evidence : e[1] # f}
    /\ UNCHANGED <<source, reading>>

-----------------------------------------------------------------------------
(* delete_source: the facts it was evidence of, from the newest to the     *)
(* oldest.                                                                 *)

Linked(s) == {f \in FactIds : <<f, s>> \in evidence}
NewestFirst(facts) ==
    CHOOSE q \in SetToSeqs(facts) :
        \A i, j \in DOMAIN q : i < j => fact[q[i]].age > fact[q[j]].age

Restore_Faulty(facts, f) ==
    LET previous == facts[f].supersedes
    IN IF previous # NoFact
       THEN [facts EXCEPT ![previous].status = "current"] ELSE facts

(* The fact that f superseded is current again, unless it is no longer     *)
(* superseded or another one is current.                                   *)
Restore(facts, f) ==
    LET previous == facts[f].supersedes
    IN IF /\ previous # NoFact
          /\ facts[previous].status = "superseded"
          /\ Current(facts, facts[f].predicate) = {}
       THEN [facts EXCEPT ![previous].status = "current"] ELSE facts

Forget(facts, f, left) ==
    IF \E s \in Sources : <<f, s>> \in left THEN facts
    ELSE LET gone == [facts EXCEPT ![f].status = "deleted"]
         IN IF facts[f].status = "current" THEN Restore(gone, f) ELSE gone

ForgetAll(facts, q, left) == FoldLeft(LAMBDA rows, f : Forget(rows, f, left), facts, q)

DeleteSource(s) ==
    LET left == {e \in evidence : e[2] # s}
    IN /\ UserMayAct
       /\ source[s] = "processed"
       /\ evidence' = left
       /\ fact' = ForgetAll(fact, NewestFirst(Linked(s)), left)
       /\ source' = [source EXCEPT ![s] = "deleted"]
       /\ UNCHANGED reading

-----------------------------------------------------------------------------
Extract(s) ==
    \/ \E f \in Extracted, over \in Predicates, confident \in BOOLEAN :
            ReadFacts(s, f, confident, over)
    \/ StoreFacts(s) \/ FailToStore(s)

Correct(f) == (\E r \in Replacements : Replace(f, r)) \/ Dispute(f) \/ DeleteFact(f)

Next ==
    \/ \E s \in Sources : Extract(s) \/ DeleteSource(s)
    \/ \E f \in FactIds : Correct(f)

Spec == Init /\ [][Next]_vars

-----------------------------------------------------------------------------
(* Properties.                                                             *)

(* There is one current fact of a predicate at most: as long as one worker *)
(* extracts at a time, users correct what is current, and a fact           *)
(* supersedes one of its own predicate, no order of sources, corrections   *)
(* and deletions leaves the memory with two answers.                       *)
OneCurrent == \A p \in Predicates : Cardinality(Current(fact, p)) <= 1

(* docs/02-ingestion-and-memory.md:46: a fact has evidence as long as it   *)
(* is not deleted, unless its user wrote it; evidence is never from a      *)
(* source that was deleted.                                                *)
Provenance ==
    /\ \A f \in Extracted : fact[f].status \notin {"none", "deleted"} =>
            \E s \in Sources : <<f, s>> \in evidence
    /\ \A e \in evidence : source[e[2]] = "processed"

(* A fact that its user deleted, or whose last source was deleted, is not  *)
(* restored by the deletion of another source, nor by a new extraction.    *)
DeletedIsFinal ==
    [][\A f \in FactIds : fact[f].status = "deleted" => fact'[f].status = "deleted"]_vars

(* A candidate below the threshold never changes what is current.          *)
ProposedChangesNothing ==
    [][\A s \in Sources : source'[s] = "processed" /\ source[s] = "processing"
            /\ ~reading[s].confident =>
                \A p \in Predicates : Current(fact', p) = Current(fact, p)]_vars

(* docs/02-ingestion-and-memory.md:114: a proposed candidate changes the   *)
(* current view with later compatible evidence.                            *)
ConfirmedIsCurrent ==
    [][\A s \in Sources : source'[s] = "processed" /\ source[s] = "processing"
            /\ reading[s].confident /\ fact[reading[s].fact].status = "proposed" =>
                fact'[reading[s].fact].status = "current"]_vars
=============================================================================
