-------------------------------- MODULE Memory --------------------------------
(* The parts of the memory in one model.  A behaviour runs the one part    *)
(* its first state names and leaves the others as they begin: the parts    *)
(* meet in the database only through the sources, whose deletion each of   *)
(* them models, so that their sum, not their product, is checked.          *)
EXTENDS Naturals, Sequences, FiniteSets

CONSTANTS Sources, Workers, Nobody,
          Values, Replacements,        \* facts
          Agreements,                  \* commitments
          Names,                       \* entities
          Rows, RowsOfFacts, Words, Recognised, HasWord, Queries, Limit,   \* searches
          Claims, Corrections, MatchingClaims, Most,                    \* answers
          Messages, DayOf, ReplyTo, Days, Capacity, Lookback, MaxOutage \* days

VARIABLES part,
          fact, lEvidence, lSource, reading,
          commitment, cEvidence, cSource, closedBy,
          entity, eEvidence, facts, told, eSource,
          row, search,
          status, aEvidence, aSource, question,
          message, delegated, today, open, dSource, learnt, plan, outage

ledgerVars == <<fact, lEvidence, lSource, reading>>
promisesVars == <<commitment, cEvidence, cSource, closedBy>>
entitiesVars == <<entity, eEvidence, facts, told, eSource>>
pagesVars == <<row, search>>
answersVars == <<status, aEvidence, aSource, question>>
dailyVars == <<message, delegated, today, open, dSource, learnt, plan, outage>>
vars == <<part, ledgerVars, promisesVars, entitiesVars, pagesVars, answersVars, dailyVars>>

(* Facts of one predicate, extracted by one worker at a time.  Users       *)
(* correct what is current, or whatever they were shown once.              *)
Ledger == INSTANCE FactLedger WITH
    evidence <- lEvidence, source <- lSource, NoFact <- Nobody, Predicates <- {"works_at"},
    Together <- 1, UserRaces <- FALSE, Corrected <- {"current"}
AnyLedger == INSTANCE FactLedger WITH
    evidence <- lEvidence, source <- lSource, NoFact <- Nobody, Predicates <- {"works_at"},
    Together <- 1, UserRaces <- FALSE,
    Corrected <- {"proposed", "current", "superseded", "disputed"}

Promises == INSTANCE Commitments WITH
    evidence <- cEvidence, source <- cSource, Commitments <- Agreements

Entities == INSTANCE EntityResolution WITH
    evidence <- eEvidence, source <- eSource, User <- Nobody

Pages == INSTANCE MemorySearch WITH Facts <- RowsOfFacts

Answers == INSTANCE MemoryAnswers WITH
    evidence <- aEvidence, source <- aSource, Facts <- Claims, Matching <- MatchingClaims

(* Messages complete, and are replied to, on the day they came.            *)
Daily == INSTANCE DailyMemory WITH source <- dSource, Late <- FALSE

ASSUME MemoryAssumptions ==
    /\ Ledger!LedgerAssumption /\ AnyLedger!LedgerAssumption
    /\ Promises!CommitmentAssumption /\ Entities!EntityAssumption
    /\ Pages!SearchAssumption /\ Answers!AnswerAssumption /\ Daily!DailyAssumption

(* What is said of days below is said of outages that are shorter than the *)
(* window, and of answers that come on the day of what they answer.        *)
ASSUME DaysAssumption ==
    /\ MaxOutage < Lookback
    /\ \A m \in Messages : ReplyTo[m] # 0 => DayOf[m] = DayOf[ReplyTo[m]]

-----------------------------------------------------------------------------

Parts == {"facts", "any_fact", "commitments", "entities", "search", "answers", "daily"}

Init ==
    /\ part \in Parts
    /\ Ledger!Init /\ Promises!Init /\ Entities!Init
    /\ Pages!Init /\ Answers!Init /\ Daily!Init
    /\ part # "search" => search.query = {}

Facts == /\ \/ part = "facts" /\ Ledger!Next
            \/ part = "any_fact" /\ AnyLedger!Next
         /\ UNCHANGED <<part, promisesVars, entitiesVars, pagesVars, answersVars, dailyVars>>
Commitments ==
    /\ part = "commitments" /\ Promises!Next
    /\ UNCHANGED <<part, ledgerVars, entitiesVars, pagesVars, answersVars, dailyVars>>
People ==
    /\ part = "entities" /\ Entities!Next
    /\ UNCHANGED <<part, ledgerVars, promisesVars, pagesVars, answersVars, dailyVars>>
Searching ==
    /\ part = "search" /\ Pages!Next
    /\ UNCHANGED <<part, ledgerVars, promisesVars, entitiesVars, answersVars, dailyVars>>
Asking ==
    /\ part = "answers" /\ Answers!Next
    /\ UNCHANGED <<part, ledgerVars, promisesVars, entitiesVars, pagesVars, dailyVars>>
Closing ==
    /\ part = "daily" /\ Daily!Next
    /\ UNCHANGED <<part, ledgerVars, promisesVars, entitiesVars, pagesVars, answersVars>>

Next == Facts \/ Commitments \/ People \/ Searching \/ Asking \/ Closing

Spec == Init /\ [][Next]_vars

-----------------------------------------------------------------------------
(* Properties.                                                             *)

TypeOK ==
    CASE part \in {"facts", "any_fact"} -> Ledger!TypeOK
      [] part = "commitments" -> Promises!TypeOK
      [] part = "entities" -> Entities!TypeOK
      [] part = "search" -> Pages!TypeOK
      [] part = "answers" -> Answers!TypeOK
      [] part = "daily" -> Daily!TypeOK

(* There is one current fact of a predicate at most: as long as one worker *)
(* extracts at a time and users correct what is current, no order of       *)
(* sources, corrections and deletions leaves the memory with two answers.  *)
OneCurrent == part = "facts" => Ledger!OneCurrent

(* docs/02-ingestion-and-memory.md:46: a fact has evidence as long as it   *)
(* is not deleted, unless its user wrote it, and a commitment as long as   *)
(* it is kept; none of it is from a source that was deleted.               *)
EverythingIsBacked ==
    /\ part \in {"facts", "any_fact"} => Ledger!Provenance
    /\ part = "commitments" => Promises!CommitmentBacked

(* Whatever is deleted stays so: a fact is not restored by the deletion of *)
(* another source nor by a new extraction, a row is on no later page of a  *)
(* search, and a day its user deleted is not ingested again.  A commitment *)
(* that its user cancelled or deleted is neither opened nor closed by a    *)
(* later source that reports something similar, and a candidate below the  *)
(* threshold changes nothing that is current.                              *)
NotOverruled ==
    /\ Ledger!DeletedIsFinal /\ Ledger!ProposedChangesNothing /\ Promises!UserHasLastWord
    /\ Pages!DeletedNotFound /\ Daily!DeletedStaysDeleted

(* A deletion hides no entity that somebody still says something about:    *)
(* not one that another source mentions, nor one that a user's own         *)
(* correction is about.                                                    *)
OnlyUnbackedHidden == Entities!OnlyUnbackedHidden

(* The pages of a search without a fallback are one list: no row is        *)
(* returned twice, and none that was there all along is left out, whatever *)
(* was added and deleted meanwhile and of whatever kind each page was full.*)
PagesAreOneList == part = "search" => Pages!PagesAreOneList

(* Answers and evidence rest on what the user said.  An answer cites       *)
(* evidence of facts that matched, none of it from a source that was       *)
(* deleted before the question, and some: what the model made up is not    *)
(* cited.  docs/02-ingestion-and-memory.md:85: no answer of the assistant, *)
(* nor a message that became a task, is ever evidence.                     *)
Grounded ==
    /\ part = "answers" => Answers!Grounded
    /\ part = "daily" => Daily!OnlyOwnWords

(* Once a day is closed, each of its messages is in exactly one chunk,     *)
(* with two workers at it; and no day leaves the window that outages are   *)
(* made up for in with something the user said that is in no chunk.        *)
EveryDayKept == part = "daily" => Daily!WholeDialogue /\ Daily!NoDayLost
=============================================================================
