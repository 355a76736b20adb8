--------------------------- MODULE EntityResolution ---------------------------
(***************************************************************************)
(* People, organisations and projects of one workspace and one type: which *)
(* entity a mention is linked to, and what is left of it when the sources  *)
(* that mentioned it are deleted.                                          *)
(*                                                                         *)
(* uq_entity_name: an entity is known by its normalised canonical name,    *)
(* whatever its status.                                                    *)
(***************************************************************************)
EXTENDS FiniteSets

CONSTANTS Names, Sources,
          User       (* whoever wrote a fact that has no source            *)

EntityAssumption == User \notin Sources

VARIABLES entity,    (* [Names -> row of entities]                         *)
          evidence,  (* pairs of an entity and a source                    *)
          facts,     (* pairs of a subject and whoever the fact is from    *)
          told,      (* [Sources -> the aliases it mentioned]              *)
          source     (* [Sources -> status]                                *)

vars == <<entity, evidence, facts, told, source>>

EntityRow == [status: {"none", "active", "deleted"}, aliases: SUBSET Names]

TypeOK ==
    /\ entity \in [Names -> EntityRow]
    /\ evidence \subseteq Names \X Sources
    /\ facts \subseteq Names \X (Sources \cup {User})
    /\ told \in [Sources -> SUBSET Names]
    /\ source \in [Sources -> {"received", "processed", "deleted"}]

Init ==
    /\ entity = [n \in Names |-> [status |-> "none", aliases |-> {}]]
    /\ evidence = {} /\ facts = {}
    /\ told = [s \in Sources |-> {}]
    /\ source = [s \in Sources |-> "received"]

Active == {n \in Names : entity[n].status = "active"}

(* The active entities that go by one of the names of a mention.           *)
AliasMatches(names) ==
    {n \in Active : names \cap (entity[n].aliases \cup {n}) # {}}

(* The entity of a mention: that of the canonical name, or, of a confident *)
(* mention, the only one that shares a name with it, or a new one.         *)
Resolve(name, aliases, confident) ==
    LET matches == AliasMatches({name} \cup aliases)
    IN IF entity[name].status = "none" /\ confident /\ Cardinality(matches) = 1
       THEN CHOOSE n \in matches : TRUE ELSE name

(* A new row is active; one that is found keeps its status.                *)
Mentioned(e, aliases) ==
    [status |-> IF entity[e].status = "none" THEN "active" ELSE entity[e].status,
     aliases |-> entity[e].aliases \cup aliases]

(* The entities of consolidate_extraction, and the facts about them.       *)
Mention(s, name, aliases, confident, states) ==
    LET e == Resolve(name, aliases, confident)
    IN /\ source[s] = "received"
       /\ entity' = [entity EXCEPT ![e] = Mentioned(e, aliases)]
       /\ evidence' = evidence \cup {<<e, s>>}
       /\ facts' = IF states THEN facts \cup {<<e, s>>} ELSE facts
       /\ told' = [told EXCEPT ![s] = aliases]
       /\ source' = [source EXCEPT ![s] = "processed"]

(* correct_memory replaces or deletes a fact: the entity is not looked at. *)
ReplaceFact(f) ==
    /\ f \in facts
    /\ facts' = facts \cup {<<f[1], User>>}
    /\ UNCHANGED <<entity, evidence, told, source>>

DeleteFact(f) ==
    /\ f \in facts
    /\ facts' = facts \ {f}
    /\ UNCHANGED <<entity, evidence, told, source>>

Unbacked_Faulty(e) == \A s \in Sources : <<e, s>> \notin evidence'
Unbacked(e) ==
    /\ \A s \in Sources : <<e, s>> \notin evidence'
    /\ \A by \in Sources \cup {User} : <<e, by>> \notin facts'

(* delete_source: an entity goes when nothing refers to it any more.       *)
DeleteSource(s) ==
    /\ source[s] = "processed"
    /\ source' = [source EXCEPT ![s] = "deleted"]
    /\ evidence' = {v \in evidence : v[2] # s}
    /\ facts' = {f \in facts : f[2] # s}
    /\ entity' = [n \in Names |->
            IF <<n, s>> \in evidence /\ Unbacked(n)
            THEN [entity[n] EXCEPT !.status = "deleted"] ELSE entity[n]]
    /\ UNCHANGED told

Next ==
    \/ \E s \in Sources :
            \/ \E name \in Names, aliases \in SUBSET Names, confident, states \in BOOLEAN :
                    Mention(s, name, aliases, confident, states)
            \/ DeleteSource(s)
    \/ \E f \in facts : ReplaceFact(f) \/ DeleteFact(f)

Spec == Init /\ [][Next]_vars

-----------------------------------------------------------------------------
(* Properties.                                                             *)

(* A deletion hides no entity that somebody still says something about:    *)
(* not one that another source mentions, nor one that a user's own         *)
(* correction is about.                                                    *)
OnlyUnbackedHidden ==
    [][\A n \in Names : entity[n].status = "active" /\ entity'[n].status = "deleted" =>
            ~\E p \in evidence' \cup facts' : p[1] = n]_vars

(* docs/03-api-and-use-cases.md:110: an entity is returned with its facts: *)
(* one that has facts can be looked up.                                    *)
SubjectsVisible == \A f \in facts : entity[f[1]].status = "active"

(* docs/02-ingestion-and-memory.md:69: what is derived from a source goes  *)
(* with it: every alias is one that a source still there has told.         *)
AliasesBacked ==
    \A n \in Active : \A a \in entity[n].aliases :
        \E s \in Sources : source[s] = "processed" /\ a \in told[s]
=============================================================================
