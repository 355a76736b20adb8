----------------------------- MODULE MemorySearch -----------------------------
(***************************************************************************)
(* search_memory: a client asks for the pages of a search, each starting   *)
(* after the cursor that the last one returned, while rows are added and   *)
(* deleted.  Facts are found by the terms of the query or, when there are  *)
(* none, by the distance of their embedding.                               *)
(*                                                                         *)
(* Rows are numbered in the order of (created_at, id), and a cursor is the *)
(* number of the last row of a page.                                       *)
(***************************************************************************)
EXTENDS Integers, FiniteSetsExt

CONSTANTS Rows,       (* 1..n, the rows there will ever be                 *)
          Facts,      (* those that are facts: the others are entities and *)
                      (* commitments, which are found alike                *)
          Words,
          HasWord,    (* [Rows -> SUBSET Words]                            *)
          Recognised, (* the words _search_terms finds: its expression     *)
                      (* matches runs of backslash, w and accented letters *)
          Queries,    (* sets of words; the empty one lists everything     *)
          Limit

SearchAssumption ==
    /\ Rows \subseteq Nat \ {0} /\ Rows # {} /\ IsFiniteSet(Rows) /\ Facts \subseteq Rows
    /\ HasWord \in [Rows -> SUBSET Words] /\ Recognised \subseteq Words
    /\ Queries \subseteq SUBSET Words /\ Limit \in Nat \ {0}

VARIABLES row,     (* [Rows -> {"none", "live", "deleted"}]                *)
          search   (* the pages the client has got                         *)

vars == <<row, search>>

Start == 1 + Max(Rows)  (* no cursor                                       *)

(* due: the rows there were at the first page and still are.  found:       *)
(* whether the terms found a fact.  fellBack: whether embeddings did.      *)
Search == [query: Queries, cursor: 1..Start, seen: SUBSET Rows, due: SUBSET Rows,
           repeats: BOOLEAN, found: BOOLEAN, fellBack: BOOLEAN,
           phase: {"idle", "open", "done"}]

TypeOK == row \in [Rows -> {"none", "live", "deleted"}] /\ search \in Search

Live == {r \in Rows : row[r] = "live"}

Init ==
    /\ row = [r \in Rows |-> "none"]
    /\ search \in [query: Queries, cursor: {Start}, seen: {{}}, due: {{}},
                   repeats: {FALSE}, found: {FALSE}, fellBack: {FALSE}, phase: {"idle"}]

-----------------------------------------------------------------------------
(* One page.                                                               *)

SearchTerms(query) == query \cap Recognised

Newest(rows, n) ==
    {r \in rows : Cardinality({q \in rows : q > r}) < n}

Matching(query) ==
    {r \in Live : SearchTerms(query) = {} \/ HasWord[r] \cap SearchTerms(query) # {}}

ByTerms_Faulty(kind, query, cursor) ==
    Newest({r \in Matching(query) \cap kind : r < cursor}, Limit)

(* One more than the limit of every kind.                                  *)
ByTerms(kind, query, cursor) ==
    Newest({r \in Matching(query) \cap kind : r < cursor}, Limit + 1)

(* Whatever is nearest, from any page: the cursor is not looked at.        *)
ByEmbedding == UNION {kSubset(n, Live \cap Facts) : n \in 0..Limit}

(* The facts of a page, and whether they were found by embedding.          *)
FactRows(query, cursor) ==
    LET found == ByTerms(Facts, query, cursor)
    IN IF found = {} /\ query # {}
       THEN {[rows |-> near, fellBack |-> near # {}] : near \in ByEmbedding}
       ELSE {[rows |-> found, fellBack |-> FALSE]}

Page(combined) == Newest(combined, Limit)

Deliver(combined, facts) ==
    LET page == Page(combined)
        more == Cardinality(combined) > Limit
    IN search' = [search EXCEPT
            !.due = IF search.phase = "idle" THEN Matching(search.query) ELSE @,
            !.cursor = IF more THEN Min(page) ELSE @,
            !.seen = @ \cup page,
            !.repeats = @ \/ page \cap search.seen # {},
            !.found = @ \/ (facts.rows # {} /\ ~facts.fellBack),
            !.fellBack = @ \/ facts.fellBack,
            !.phase = IF more THEN "open" ELSE "done"]

SearchMemory ==
    /\ search.phase # "done"
    /\ \E facts \in FactRows(search.query, search.cursor) :
        Deliver(facts.rows \cup ByTerms(Rows \ Facts, search.query, search.cursor), facts)
    /\ UNCHANGED row

-----------------------------------------------------------------------------
(* Extractions add rows, in the order they commit, which need not be that  *)
(* of created_at; users delete them.                                       *)

AddRow(r) ==
    /\ row[r] = "none"
    /\ row' = [row EXCEPT ![r] = "live"]
    /\ UNCHANGED search

DeleteRow(r) ==
    /\ row[r] = "live"
    /\ row' = [row EXCEPT ![r] = "deleted"]
    /\ search' = [search EXCEPT !.due = @ \ {r}]

Next ==
    \/ SearchMemory
    \/ \E r \in Rows : AddRow(r) \/ DeleteRow(r)

Spec == Init /\ [][Next]_vars
FairSpec == Spec /\ WF_vars(SearchMemory)

-----------------------------------------------------------------------------
(* Properties.                                                             *)

(* The pages of a search without a fallback are one list: no row is        *)
(* returned twice, and none that was there all along is left out, whatever *)
(* was added and deleted meanwhile and of whatever kind each page was full.*)
PagesAreOneList ==
    ~search.fellBack =>
        /\ ~search.repeats
        /\ search.phase = "done" => search.due \subseteq search.seen

(* A deleted row is on no page that is asked for after its deletion.       *)
DeletedNotFound ==
    [][\A r \in Rows : row[r] = "deleted" /\ r \in search'.seen => r \in search.seen]_vars

(* A client that asks for page after page of a listing comes to an end.    *)
SearchEnds == (search.query = {}) ~> (search.phase = "done")

(* docs/09-orchestrated-agent-architecture.md:342: the embedding is used   *)
(* when the textual search of facts finds none.                            *)
FallbackIsLast == ~(search.found /\ search.fellBack)

(* docs/09-orchestrated-agent-architecture.md:342: a search begins with    *)
(* the terms of the query: what it finds by them contains one.             *)
TermsDecide ==
    search.query # {} /\ ~search.fellBack =>
        \A r \in search.seen : HasWord[r] \cap search.query # {}
=============================================================================
