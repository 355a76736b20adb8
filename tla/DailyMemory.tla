------------------------------ MODULE DailyMemory ------------------------------
(***************************************************************************)
(* The conversations of a day become sources: every night a worker looks   *)
(* at the last days, from the oldest, gathers what one user said and what  *)
(* was answered, cuts it into chunks and ingests those whose capture id is *)
(* not known.  What is learnt from a chunk is what the user said himself.  *)
(*                                                                         *)
(* Every line has the same size, and Capacity lines fit in a chunk.        *)
(***************************************************************************)
EXTENDS Integers, SequencesExt, FiniteSetsExt

CONSTANTS Messages,    (* 1..n, in the order of (created_at, id)           *)
          DayOf,       (* [Messages -> Days]                               *)
          ReplyTo,     (* [Messages -> the message it replies to, or 0     *)
                       (* for one of the user]                             *)
          Days,        (* 1..d                                             *)
          Capacity,
          Lookback,    (* daily_conversation_memory_lookback_days          *)
          Workers,
          MaxOutage,   (* bound on the days in a row that end with a       *)
                       (* closing left to do                               *)
          Late         (* may a message complete after its day?            *)

DailyAssumption ==
    /\ Messages \subseteq Nat \ {0} /\ IsFiniteSet(Messages)
    /\ Days \subseteq Nat \ {0} /\ 1 \in Days
    /\ DayOf \in [Messages -> Days] /\ ReplyTo \in [Messages -> Messages \cup {0}]
    /\ {Capacity, Lookback} \subseteq Nat \ {0} /\ MaxOutage \in Nat /\ Late \in BOOLEAN

VARIABLES message,   (* [Messages -> status]                               *)
          delegated, (* the messages an orchestration task was created for *)
          today, open, (* the local day; is it past the configured hour?   *)
          source,    (* [Days -> sequence of the sources of its chunks]    *)
          learnt,    (* the messages that rows of evidence quote           *)
          plan,      (* [Workers -> the chunks that it is about to ingest] *)
          outage     (* days in a row that ended with a closing to do      *)

vars == <<message, delegated, today, open, source, learnt, plan, outage>>

Line == [message: Messages, eligible: BOOLEAN]
SourceRow == [status: {"stored", "deleted"}, lines: SUBSET Line]
(* A plan: the day, its chunks, and how many of them were known.           *)
NoPlan == [day |-> 0, chunks |-> <<>>, known |-> 0]

TypeOK ==
    /\ message \in [Messages -> {"none", "processing", "completed"}]
    /\ delegated \subseteq Messages
    /\ today \in Days /\ open \in BOOLEAN
    /\ \A d \in Days : \A i \in DOMAIN source[d] : source[d][i] \in SourceRow
    /\ learnt \subseteq Messages
    /\ \A w \in Workers : plan[w].day \in Days \cup {0} /\ plan[w].known \in Nat
    /\ outage \in 0..MaxOutage

Init ==
    /\ message = [m \in Messages |-> "none"]
    /\ delegated = {} /\ learnt = {}
    /\ today = 1 /\ open = FALSE
    /\ source = [d \in Days |-> <<>>]
    /\ plan = [w \in Workers |-> NoPlan]
    /\ outage = 0

-----------------------------------------------------------------------------
(* _messages_for_day, _lines and _chunks.                                  *)

Human(d) == {m \in Messages : ReplyTo[m] = 0 /\ DayOf[m] = d /\ message[m] = "completed"}
Replies(d) == {m \in Messages : ReplyTo[m] \in Human(d) /\ message[m] = "completed"}

Eligible(m) == ReplyTo[m] = 0 /\ m \notin delegated

InOrder(messages) ==
    CHOOSE q \in SetToSeqs(messages) : \A i, j \in DOMAIN q : i < j => q[i] < q[j]

Lines(d) ==
    LET inOrder == InOrder(Human(d) \cup Replies(d))
    IN [i \in DOMAIN inOrder |-> [message |-> inOrder[i], eligible |-> Eligible(inOrder[i])]]

Chunks(lines) ==
    [i \in 1..((Len(lines) + Capacity - 1) \div Capacity) |->
        Range(SubSeq(lines, Capacity * (i - 1) + 1, Min({Capacity * i, Len(lines)})))]

(* The chunks of a day whose capture id is known are the first ones, as    *)
(* all there are of a day are ingested together; deleted ones count.       *)
Known(d) == Len(source[d])
ToClose(d) == Len(Chunks(Lines(d))) > Known(d)

Window_Faulty == (today - Lookback + 1)..(today - 1)
Window == (today - Lookback)..(today - 1)

(* dispatch_daily_conversation_memory: what it reads, and what it commits. *)
PlanDay(w) ==
    LET due == {d \in Window \cap Days : ToClose(d)}
    IN /\ open /\ due # {} /\ plan[w] = NoPlan
       /\ plan' = [plan EXCEPT ![w] = [day |-> Min(due), known |-> Known(Min(due)),
                chunks |-> Chunks(Lines(Min(due)))]]
       /\ UNCHANGED <<message, delegated, today, open, source, learnt, outage>>

Stored(w) ==
    LET p == plan[w]
        Row(lines) == [status |-> "stored", lines |-> lines]
    IN SubSeq(source[p.day], 1, p.known)
        \o [i \in 1..Len(p.chunks) - p.known |-> Row(p.chunks[p.known + i])]

(* A capture that another worker stored is a replay when its content is    *)
(* the same, so nothing is stored, and a conflict when it is not.          *)
Ingest(w) ==
    /\ plan[w] # NoPlan
    /\ Known(plan[w].day) = plan[w].known
    /\ source' = [source EXCEPT ![plan[w].day] = Stored(w)]
    /\ plan' = [plan EXCEPT ![w] = NoPlan]
    /\ UNCHANGED <<message, delegated, today, open, learnt, outage>>

(* IntegrityError, a conflict or a replay, and any other failure.          *)
GiveUp(w) ==
    /\ plan[w] # NoPlan
    /\ plan' = [plan EXCEPT ![w] = NoPlan]
    /\ UNCHANGED <<message, delegated, today, open, source, learnt, outage>>

-----------------------------------------------------------------------------
(* process_job on such a source: candidates cite lines, or anything else,  *)
(* and filter_daily_conversation_extraction keeps those that cite an       *)
(* eligible line.                                                          *)

FilterExtraction(lines, cited) == cited \cap {l.message : l \in {k \in lines : k.eligible}}

Learn(d, i) ==
    /\ i \in DOMAIN source[d] /\ source[d][i].status = "stored"
    /\ \E cited \in SUBSET Messages :
        learnt' = learnt \cup FilterExtraction(source[d][i].lines, cited)
    /\ UNCHANGED <<message, delegated, today, open, source, plan, outage>>

DeleteSource(d, i) ==
    /\ i \in DOMAIN source[d] /\ source[d][i].status = "stored"
    /\ source' = [source EXCEPT ![d][i].status = "deleted"]
    /\ learnt' = learnt \ {l.message : l \in source[d][i].lines}
    /\ UNCHANGED <<message, delegated, today, open, plan, outage>>

-----------------------------------------------------------------------------
(* Messages and time.                                                      *)

Receive(m) ==
    /\ message[m] = "none" /\ DayOf[m] = today
    /\ ReplyTo[m] # 0 => message[ReplyTo[m]] = "completed"
    /\ \A n \in Messages : message[n] # "none" => n < m
    /\ message' = [message EXCEPT ![m] = "processing"]
    /\ UNCHANGED <<delegated, today, open, source, learnt, plan, outage>>

(* The task of a message that is delegated is created in the commit that   *)
(* completes it.                                                           *)
Complete(m) ==
    /\ message[m] = "processing" /\ (Late \/ DayOf[m] = today)
    /\ message' = [message EXCEPT ![m] = "completed"]
    /\ delegated' \in {delegated, delegated \cup ({m} \cap {n \in Messages : ReplyTo[n] = 0})}
    /\ UNCHANGED <<today, open, source, learnt, plan, outage>>

Behind == \E d \in Window \cap Days : ToClose(d)

NewDay ==
    /\ today + 1 \in Days
    /\ Behind => outage < MaxOutage
    /\ outage' = IF Behind THEN outage + 1 ELSE 0
    /\ today' = today + 1 /\ open' = FALSE
    /\ UNCHANGED <<message, delegated, source, learnt, plan>>

Hour ==
    /\ ~open /\ open' = TRUE
    /\ UNCHANGED <<message, delegated, today, source, learnt, plan, outage>>

Next ==
    \/ NewDay \/ Hour
    \/ \E m \in Messages : Receive(m) \/ Complete(m)
    \/ \E w \in Workers : PlanDay(w) \/ Ingest(w) \/ GiveUp(w)
    \/ \E d \in Days, i \in 1..Cardinality(Messages) : Learn(d, i) \/ DeleteSource(d, i)

Spec == Init /\ [][Next]_vars

-----------------------------------------------------------------------------
(* Properties.                                                             *)

ChunksWith(d, m) == {i \in DOMAIN source[d] : \E l \in source[d][i].lines : l.message = m}

(* docs/02-ingestion-and-memory.md:102: the chunks of a day keep all of    *)
(* its dialogue: once it is closed, every completed message of the user    *)
(* and every reply to one is in exactly one chunk, with two workers at it. *)
WholeDialogue ==
    \A d \in Days : source[d] # <<>> =>
        \A m \in Human(d) \cup Replies(d) : Cardinality(ChunksWith(d, m)) = 1

(* docs/02-ingestion-and-memory.md:83: closings that an outage missed are  *)
(* made up for: no day leaves the window with something the user said that *)
(* is in no chunk.                                                         *)
NoDayLost ==
    \A d \in Days : d < today - Lookback => \A m \in Human(d) : ChunksWith(d, m) # {}

(* docs/02-ingestion-and-memory.md:85: no answer of the assistant, nor a   *)
(* message that became a task, is ever evidence.                           *)
OnlyOwnWords == \A m \in learnt : ReplyTo[m] = 0 /\ m \notin delegated

(* A day that its user deleted is not ingested again, whole or in part.    *)
DeletedStaysDeleted ==
    [][\A d \in Days, m \in Messages :
            (ChunksWith(d, m) # {} /\ \A i \in ChunksWith(d, m) : source[d][i].status = "deleted")
            => \A i \in ChunksWith(d, m)' : source'[d][i].status = "deleted"]_vars
=============================================================================
