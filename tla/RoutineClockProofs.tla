-------------------------- MODULE RoutineClockProofs --------------------------
(***************************************************************************)
(* What RoutineClock promises of the occurrences of a routine, for every   *)
(* specification users may write, every zone and every setting of the      *)
(* scheduler: what a misfire policy does, wherever the clocks go, and that *)
(* without a change of clocks nothing is caught up with or due twice.      *)
(***************************************************************************)
EXTENDS RoutineClock, WellFoundedInduction, TLAPS

-----------------------------------------------------------------------------
(* The occurrences of a rule.                                              *)

(* The earliest of some instants is one of them.                           *)
LEMMA MinIsLeast ==
    ASSUME NEW T \in SUBSET Nat, T # {}
    PROVE  Min(T) \in T /\ \A t \in T : Min(T) <= t
  <1> DEFINE Less == OpToRel(<, Nat)
  <1>1. IsWellFoundedOn(Less, Nat)
    BY NatLessThanWellFounded
  <1>2. \A m, n \in Nat : <<m, n>> \in Less <=> m < n
    BY DEF OpToRel
  <1> HIDE DEF Less
  <1>3. PICK least \in T : \A t \in T : <<t, least>> \notin Less
    BY <1>1, WFMin
  <1>4. ASSUME NEW t \in T PROVE least <= t
    <2>1. least \in Nat /\ t \in Nat
      OBVIOUS
    <2>2. ~(t < least)
      BY <1>2, <1>3, <2>1
    <2>3. QED
      BY <2>1, <2>2
  <1>5. QED
    BY <1>4 DEF Min

LEMMA Specifications ==
    ASSUME ClockAssumption, NEW sp \in Specs
    PROVE  /\ sp.times \in SUBSET Instants /\ sp.times # {} /\ sp.recurring \in BOOLEAN
           /\ sp.grace \in Nat
           /\ Starts(sp) \in sp.times /\ \A t \in sp.times : Starts(sp) <= t
  <1>1. sp \in ScheduleSpec
    BY DEF ClockAssumption
  <1>2. /\ sp.times \in SUBSET Instants /\ sp.times # {} /\ sp.recurring \in BOOLEAN
        /\ sp.grace \in Nat
    BY <1>1 DEF ScheduleSpec
  <1>3. sp.times \in SUBSET Nat
    BY <1>2 DEF Instants
  <1>4. QED
    BY <1>2, <1>3, MinIsLeast DEF Starts

LEMMA Bounds ==
    ASSUME ClockAssumption
    PROVE  /\ Horizon \in Nat /\ Fold \in Nat /\ FoldBy \in Nat /\ FoldBy <= Fold
           /\ Never \notin Int
  BY DEF ClockAssumption, Instants

(* What a rule gives is an instant, and where clocks do not go back it is  *)
(* not before the one it is asked for.                                     *)
LEMMA NextOccurrenceIs ==
    ASSUME ClockAssumption, NEW sp \in Specs, NEW t \in Nat, NEW inclusive \in BOOLEAN,
           NextOccurrence(sp, t, inclusive) # Never
    PROVE  /\ NextOccurrence(sp, t, inclusive) \in 0..(Horizon + FoldBy)
           /\ FoldBy = 0 => /\ NextOccurrence(sp, t, inclusive) >= t
                            /\ ~inclusive => NextOccurrence(sp, t, inclusive) > t
  <1> PICK next : next = NextOccurrence(sp, t, inclusive)
    OBVIOUS
  <1> SUFFICES /\ next \in 0..(Horizon + FoldBy)
               /\ FoldBy = 0 => next >= t /\ (~inclusive => next > t)
    OBVIOUS
  <1>1. CASE ~sp.recurring
    <2>1. next = Starts(sp) /\ (Starts(sp) > t \/ (inclusive /\ Starts(sp) = t))
      BY <1>1 DEF NextOccurrence
    <2>2. Starts(sp) \in Instants
      BY Specifications
    <2>3. QED
      BY <2>1, <2>2, Bounds DEF Instants
  <1>2. CASE sp.recurring
    <2> PICK later : later = After(sp, t, inclusive)
      OBVIOUS
    <2> PICK l : l = Min(later)
      OBVIOUS
    <2>1. later # {} /\ next = Instant(l)
      BY <1>2 DEF NextOccurrence
    <2>2. later \in SUBSET sp.times /\ later \in SUBSET Nat
      BY Specifications DEF After, Instants
    <2>3. l \in later
      BY <2>1, <2>2, MinIsLeast
    <2>4. l \in 0..Horizon /\ (l > Local(t) \/ (inclusive /\ l = Local(t)))
      BY <2>2, <2>3, Specifications DEF After, Instants
    <2>5. QED
      BY <2>1, <2>4, Bounds DEF Instant, Local
  <1>3. QED
    BY <1>1, <1>2, Specifications

-----------------------------------------------------------------------------
(* The inductive invariant.                                                *)

(* A run is of the past, and was not dispatched before it was due.         *)
RunsPast == \A r \in runs : r.at < now /\ r.due <= r.at

(* Without a change of clocks, what is next is later than all there was.   *)
NextIsNew ==
    FoldBy = 0 /\ routine # NoRoutine /\ routine.next # Never =>
        \A r \in runs : r.due < routine.next

NoneBefore == routine = NoRoutine => runs = {}

ClockInvariant == TypeOK /\ RunsPast /\ NextIsNew /\ NoneBefore /\ MisfireAsPromised

(* A routine that is not there yet is no row.                              *)
LEMMA RowsExist ==
    ASSUME ClockAssumption, TypeOK, routine # NoRoutine
    PROVE  /\ routine \in RoutineRow /\ routine.spec \in Specs /\ routine.count \in Nat
           /\ routine.status \in {"active", "paused", "completed"}
           /\ routine.next \in 0..(Horizon + FoldBy) \cup {Never}
           /\ routine.status = "active" => routine.next # Never
  BY DEF TypeOK, RoutineRow

LEMMA RowIsNoRoutine ==
    ASSUME NEW row \in RoutineRow
    PROVE  row # NoRoutine
  BY DEF RoutineRow, NoRoutine

(* A step that dispatches nothing and gives the routine what its rule says *)
(* comes next, or leaves that alone.                                       *)
LEMMA RowWritten ==
    ASSUME ClockAssumption, ClockInvariant, ClockMoves, UNCHANGED runs,
           NEW row \in RoutineRow, routine' = row,
           row.status = "active" => row.next # Never,
           \/ runs = {}
           \/ routine # NoRoutine /\ row.next = routine.next
           \/ (FoldBy = 0 /\ row.next # Never) => row.next >= now
    PROVE  ClockInvariant'
  <1>1. now \in 0..Horizon + 1 /\ now' = now + 1 /\ now < Horizon /\ Horizon \in Nat
    BY Bounds DEF ClockInvariant, TypeOK, ClockMoves
  <1>2. \A r \in runs : r.at \in Nat /\ r.due \in Nat
    BY Bounds DEF ClockInvariant, TypeOK, RunRow, Instants
  <1>3. TypeOK'
    BY <1>1 DEF ClockInvariant, TypeOK, RunRow
  <1>4. RunsPast'
    BY <1>1, <1>2 DEF ClockInvariant, RunsPast
  <1>5. NextIsNew'
    <2> SUFFICES ASSUME FoldBy = 0, row.next # Never, NEW r \in runs
                 PROVE  r.due < row.next
      BY DEF NextIsNew
    <2>1. row.next \in Nat
      BY Bounds DEF RoutineRow
    <2>2. CASE routine # NoRoutine /\ row.next = routine.next
      BY <2>2 DEF ClockInvariant, NextIsNew
    <2>3. CASE row.next >= now
      BY <1>1, <1>2, <2>1, <2>3 DEF ClockInvariant, RunsPast
    <2>4. QED
      BY <2>2, <2>3
  <1>6. NoneBefore' /\ MisfireAsPromised'
    BY RowIsNoRoutine DEF ClockInvariant, NoneBefore, MisfireAsPromised
  <1>7. QED
    BY <1>3, <1>4, <1>5, <1>6 DEF ClockInvariant

LEMMA NothingWritten ==
    ASSUME ClockAssumption, ClockInvariant, UNCHANGED <<routine, runs>>,
           ClockMoves \/ UNCHANGED now
    PROVE  ClockInvariant'
  <1>1. /\ now \in 0..Horizon + 1 /\ Horizon \in Nat
        /\ now' = now \/ (now' = now + 1 /\ now < Horizon)
    BY Bounds DEF ClockInvariant, TypeOK, ClockMoves
  <1>2. \A r \in runs : r.at \in Nat
    BY Bounds DEF ClockInvariant, TypeOK, RunRow, Instants
  <1>3. TypeOK' /\ RunsPast'
    BY <1>1, <1>2 DEF ClockInvariant, TypeOK, RunsPast, RunRow
  <1>4. NextIsNew' /\ NoneBefore' /\ MisfireAsPromised'
    BY DEF ClockInvariant, NextIsNew, NoneBefore, MisfireAsPromised
  <1>5. QED
    BY <1>3, <1>4 DEF ClockInvariant

-----------------------------------------------------------------------------
(* The steps.                                                              *)

LEMMA NowIs ==
    ASSUME ClockAssumption, ClockInvariant, ClockMoves
    PROVE  now \in 0..Horizon /\ now \in Nat /\ now' = now + 1 /\ now' \in 0..Horizon + 1
  BY Bounds DEF ClockInvariant, TypeOK, ClockMoves

LEMMA Initially ==
    ASSUME ClockAssumption, Init
    PROVE  ClockInvariant
  BY Bounds DEF Init, ClockInvariant, TypeOK, RunsPast, NextIsNew, NoneBefore,
                MisfireAsPromised

LEMMA CreateKeeps ==
    ASSUME ClockAssumption, ClockInvariant, NEW sp \in Specs, CreateSchedule(sp)
    PROVE  ClockInvariant'
  <1> PICK first : first = FirstRun(sp)
    OBVIOUS
  <1> PICK row : row = [status |-> "active", spec |-> sp, next |-> first, count |-> 0]
    OBVIOUS
  <1>1. /\ routine = NoRoutine /\ first # Never /\ routine' = row
        /\ ClockMoves /\ UNCHANGED runs
    BY DEF CreateSchedule
  <1>2. now \in 0..Horizon
    BY <1>1, NowIs
  <1>3. first = now \/ (first = NextOccurrence(sp, now, TRUE))
    BY DEF FirstRun
  <1>4. first \in 0..(Horizon + FoldBy)
    <2>1. CASE first = now
      BY <1>2, <2>1, Bounds
    <2>2. CASE first = NextOccurrence(sp, now, TRUE)
      BY <1>1, <2>2, NowIs, NextOccurrenceIs
    <2>3. QED
      BY <1>3, <2>1, <2>2
  <1>5. row \in RoutineRow /\ row.next # Never
    BY <1>1, <1>4 DEF RoutineRow
  <1>6. runs = {}
    BY <1>1 DEF ClockInvariant, NoneBefore
  <1>7. QED
    BY <1>1, <1>5, <1>6, RowWritten

LEMMA UpdateKeeps ==
    ASSUME ClockAssumption, ClockInvariant, NEW sp \in Specs, UpdateSchedule(sp)
    PROVE  ClockInvariant'
  <1> PICK next : next = NextOccurrence(sp, now, TRUE)
    OBVIOUS
  <1> PICK row : row = [routine EXCEPT !.status = "active", !.spec = sp, !.next = next]
    OBVIOUS
  <1>1. /\ routine # NoRoutine /\ next # Never /\ routine' = row
        /\ ClockMoves /\ UNCHANGED runs
    BY DEF UpdateSchedule
  <1>2. routine \in RoutineRow
    BY <1>1, RowsExist DEF ClockInvariant
  <1>3. next \in 0..(Horizon + FoldBy) /\ (FoldBy = 0 => next >= now)
    BY <1>1, NowIs, NextOccurrenceIs
  <1>4. row \in RoutineRow /\ row.next = next
    BY <1>2, <1>3 DEF RoutineRow
  <1>5. QED
    BY <1>1, <1>3, <1>4, RowWritten

LEMMA PauseKeeps ==
    ASSUME ClockAssumption, ClockInvariant, PauseSchedule
    PROVE  ClockInvariant'
  <1> PICK row : row = [routine EXCEPT !.status = "paused"]
    OBVIOUS
  <1>1. routine # NoRoutine /\ routine' = row /\ ClockMoves /\ UNCHANGED runs
    BY DEF PauseSchedule
  <1>2. routine \in RoutineRow
    BY <1>1, RowsExist DEF ClockInvariant
  <1>3. row \in RoutineRow /\ row.next = routine.next /\ row.status = "paused"
    BY <1>2 DEF RoutineRow
  <1>4. QED
    BY <1>1, <1>3, RowWritten

LEMMA ResumeKeeps ==
    ASSUME ClockAssumption, ClockInvariant, ResumeSchedule
    PROVE  ClockInvariant'
  <1> PICK next : next = NextOccurrence(routine.spec, now, TRUE)
    OBVIOUS
  <1> PICK status : status = IF next = Never THEN "completed" ELSE "active"
    OBVIOUS
  <1> PICK row : row = [routine EXCEPT !.next = next, !.status = status]
    OBVIOUS
  <1>1. routine # NoRoutine /\ routine' = row /\ ClockMoves /\ UNCHANGED runs
    BY DEF ResumeSchedule
  <1>2. routine \in RoutineRow /\ routine.spec \in Specs
    BY <1>1, RowsExist DEF ClockInvariant
  <1>3. next # Never => next \in 0..(Horizon + FoldBy) /\ (FoldBy = 0 => next >= now)
    BY <1>1, <1>2, NowIs, NextOccurrenceIs
  <1>4. row \in RoutineRow /\ row.next = next /\ row.status = status
    BY <1>2, <1>3 DEF RoutineRow
  <1>5. row.status = "active" => row.next # Never
    <2>1. CASE next = Never
      <3>1. status = "completed"
        BY <2>1
      <3>2. QED
        BY <1>4, <3>1
    <2>2. CASE next # Never
      BY <1>4, <2>2
    <2>3. QED
      BY <2>1, <2>2
  <1>6. (FoldBy = 0 /\ row.next # Never) => row.next >= now
    BY <1>3, <1>4
  <1>7. row \in RoutineRow /\ routine' = row /\ ClockMoves /\ UNCHANGED runs
    BY <1>1, <1>4
  <1>8. QED
    BY <1>5, <1>6, <1>7, RowWritten

-----------------------------------------------------------------------------
(* The dispatch.                                                           *)

LEMMA FollowingIs ==
    ASSUME ClockAssumption, NEW sp \in Specs, NEW count \in Nat, now \in Nat,
           Following(sp, count) # Never
    PROVE  /\ Following(sp, count) \in 0..(Horizon + FoldBy)
           /\ FoldBy = 0 => Following(sp, count) > now
  <1>1. Following(sp, count) = NextOccurrence(sp, now, FALSE)
    BY DEF Following
  <1>2. QED
    BY <1>1, NextOccurrenceIs

(* A run that was dispatched is as late as the clock says, and its fate is *)
(* what the policy promises.                                               *)
LEMMA DispatchEffect ==
    ASSUME ClockAssumption, ClockInvariant, DispatchDueSchedule
    PROVE  \E following, r, row :
               /\ ClockMoves
               /\ routine \in RoutineRow /\ routine.next \in 0..now
               /\ following # Never =>
                      /\ following \in 0..(Horizon + FoldBy)
                      /\ FoldBy = 0 => following > now
               /\ r \in RunRow /\ r.due = routine.next /\ r.at = now
               /\ r.spec \in Specs /\ r.skipped = ShouldSkipMisfire(r.spec, now - routine.next)
               /\ runs' = runs \cup {r}
               /\ row \in RoutineRow /\ routine' = row /\ row.next = following
               /\ row.status = "active" => following # Never
  <1> PICK following : following = Following(routine.spec, routine.count + 1)
    OBVIOUS
  <1> PICK skipped : skipped = ShouldSkipMisfire(routine.spec, now - routine.next)
    OBVIOUS
  <1> PICK status : status = IF following = Never THEN "completed" ELSE routine.status
    OBVIOUS
  <1> PICK r : r = [due |-> routine.next, at |-> now, spec |-> routine.spec,
                    skipped |-> skipped]
    OBVIOUS
  <1> PICK row : row = [routine EXCEPT !.count = @ + 1, !.next = following,
                                       !.status = status]
    OBVIOUS
  <1>1. /\ IsDue /\ ClockMoves /\ runs' = runs \cup {r} /\ routine' = row
    BY DEF DispatchDueSchedule
  <1>2. /\ now \in 0..Horizon /\ now \in Nat
    BY <1>1, NowIs
  <1>3. /\ routine \in RoutineRow /\ routine.spec \in Specs /\ routine.count \in Nat
        /\ routine.next \in 0..(Horizon + FoldBy) \cup {Never}
        /\ routine.next # Never /\ routine.next <= now
        /\ routine.status \in {"active", "paused", "completed"}
    BY <1>1, RowsExist DEF ClockInvariant, IsDue
  <1>4. routine.next \in 0..now /\ routine.next \in Instants
    BY <1>2, <1>3, Bounds DEF Instants
  <1>5. following # Never => /\ following \in 0..(Horizon + FoldBy)
                             /\ FoldBy = 0 => following > now
    BY <1>2, <1>3, FollowingIs
  <1>6. skipped \in BOOLEAN
    BY DEF ShouldSkipMisfire
  <1>7. r \in RunRow /\ r.due = routine.next /\ r.at = now /\ r.spec = routine.spec
        /\ r.skipped = skipped
    BY <1>2, <1>3, <1>4, <1>6 DEF RunRow, Instants
  <1>8. /\ row \in RoutineRow /\ row.next = following
        /\ row.status = status
    <2>1. /\ routine.count + 1 \in Nat
          /\ status \in {"active", "paused", "completed"}
          /\ following \in 0..(Horizon + FoldBy) \cup {Never}
      BY <1>3, <1>5
    <2>2. QED
      BY <1>3, <2>1 DEF RoutineRow
  <1>9. row.status = "active" => following # Never
    BY <1>8
  <1>10. r.spec \in Specs /\ r.skipped = ShouldSkipMisfire(r.spec, now - routine.next)
    BY <1>3, <1>7
  <1>11. QED
    <2> WITNESS following, r, row
    <2>1. QED
      BY <1>1, <1>3, <1>4, <1>5, <1>7, <1>8, <1>9, <1>10

LEMMA PolicyKept ==
    ASSUME ClockAssumption, NEW sp \in Specs, NEW late \in Nat
    PROVE  /\ late <= OnTimeWindow => ~ShouldSkipMisfire(sp, late)
           /\ sp.policy = "latest" /\ late <= sp.grace => ~ShouldSkipMisfire(sp, late)
           /\ sp.policy = "skip" /\ late > OnTimeWindow => ShouldSkipMisfire(sp, late)
  <1>1. OnTimeWindow \in Nat /\ sp.grace \in Nat
    BY Specifications DEF OnTimeWindow, ClockAssumption
  <1>2. QED
    BY <1>1 DEF ShouldSkipMisfire

LEMMA DispatchKeeps ==
    ASSUME ClockAssumption, ClockInvariant, DispatchDueSchedule
    PROVE  ClockInvariant'
  <1>1. PICK following, r, row :
            /\ ClockMoves
            /\ routine \in RoutineRow /\ routine.next \in 0..now
            /\ following # Never => /\ following \in 0..(Horizon + FoldBy)
                                    /\ FoldBy = 0 => following > now
            /\ r \in RunRow /\ r.due = routine.next /\ r.at = now
            /\ r.spec \in Specs /\ r.skipped = ShouldSkipMisfire(r.spec, now - routine.next)
            /\ runs' = runs \cup {r}
            /\ row \in RoutineRow /\ routine' = row /\ row.next = following
            /\ row.status = "active" => following # Never
    BY DispatchEffect
  <1>2. now \in 0..Horizon /\ now \in Nat /\ now' = now + 1 /\ now' \in 0..Horizon + 1
    BY <1>1, NowIs
  <1>3. \A q \in runs : q.at \in Nat /\ q.due \in Nat /\ q.at < now /\ q.due <= q.at
    BY Bounds DEF ClockInvariant, TypeOK, RunsPast, RunRow, Instants
  <1>4. TypeOK'
    BY <1>1, <1>2 DEF ClockInvariant, TypeOK
  <1>5. RunsPast'
    <2>1. r.at < now' /\ r.due <= r.at
      BY <1>1, <1>2
    <2>2. \A q \in runs : q.at < now' /\ q.due <= q.at
      BY <1>2, <1>3
    <2>3. QED
      BY <1>1, <2>1, <2>2 DEF RunsPast
  <1>6. NextIsNew'
    <2> SUFFICES ASSUME FoldBy = 0, following # Never, NEW q \in runs \cup {r}
                 PROVE  q.due < following
      BY <1>1 DEF NextIsNew
    <2>1. following \in Nat /\ following > now
      BY <1>1, Bounds
    <2>2. q.due \in Nat /\ q.due <= now
      BY <1>1, <1>2, <1>3
    <2>3. QED
      BY <1>2, <2>1, <2>2
  <1>7. NoneBefore'
    BY <1>1, RowIsNoRoutine DEF NoneBefore
  <1>8. MisfireAsPromised'
    <2>1. r.at - r.due = now - routine.next /\ now - routine.next \in Nat
      BY <1>1, <1>2
    <2>2. /\ r.at - r.due >= 0
          /\ r.at - r.due <= OnTimeWindow => ~r.skipped
          /\ r.spec.policy = "latest" /\ r.at - r.due <= r.spec.grace => ~r.skipped
          /\ r.spec.policy = "skip" /\ r.at - r.due > OnTimeWindow => r.skipped
      BY <1>1, <2>1, PolicyKept
    <2>3. QED
      BY <1>1, <2>2 DEF ClockInvariant, MisfireAsPromised
  <1>9. QED
    BY <1>4, <1>5, <1>6, <1>7, <1>8 DEF ClockInvariant

LEMMA NextKeeps ==
    ASSUME ClockAssumption, ClockInvariant, [Next]_vars
    PROVE  ClockInvariant'
  <1>1. CASE UNCHANGED vars
    BY <1>1, NothingWritten DEF vars
  <1>2. ASSUME NEW sp \in Specs, CreateSchedule(sp) PROVE ClockInvariant'
    BY <1>2, CreateKeeps
  <1>3. ASSUME NEW sp \in Specs, UpdateSchedule(sp) PROVE ClockInvariant'
    BY <1>3, UpdateKeeps
  <1>4. CASE PauseSchedule
    BY <1>4, PauseKeeps
  <1>5. CASE ResumeSchedule
    BY <1>5, ResumeKeeps
  <1>6. CASE DispatchDueSchedule
    BY <1>6, DispatchKeeps
  <1>7. CASE DispatchCollides
    BY <1>7, NothingWritten DEF DispatchCollides
  <1>8. CASE TimePasses
    BY <1>8, NothingWritten DEF TimePasses
  <1>9. QED
    BY <1>1, <1>2, <1>3, <1>4, <1>5, <1>6, <1>7, <1>8 DEF Next

-----------------------------------------------------------------------------
(* The theorems.                                                           *)

(* The clock, the routine and its runs keep their shapes, and an active    *)
(* routine always has a next occurrence for the dispatcher to find: the    *)
(* five operations of schedules/service.py and the dispatcher, for every   *)
(* set of specifications.                                                  *)
THEOREM ClockTyped ==
    ASSUME ClockAssumption
    PROVE  Spec => []TypeOK
  <1>1. Init => ClockInvariant
    BY Initially
  <1>2. ClockInvariant /\ [Next]_vars => ClockInvariant'
    BY NextKeeps
  <1>3. ClockInvariant => TypeOK
    BY DEF ClockInvariant
  <1>4. QED
    BY <1>1, <1>2, <1>3, PTL DEF Spec

(* _should_skip_misfire: in every zone, at every change of clocks, a run   *)
(* is not dispatched before it is due, the delay of the polling is no      *)
(* misfire, latest runs within the grace and skip does not run late.       *)
THEOREM PolicyIsKept ==
    ASSUME ClockAssumption
    PROVE  Spec => []MisfireAsPromised
  <1>1. Init => ClockInvariant
    BY Initially
  <1>2. ClockInvariant /\ [Next]_vars => ClockInvariant'
    BY NextKeeps
  <1>3. ClockInvariant => MisfireAsPromised
    BY DEF ClockInvariant
  <1>4. QED
    BY <1>1, <1>2, <1>3, PTL DEF Spec

(* uq_scheduled_run_occurrence never refuses a dispatch where clocks do    *)
(* not go back: no occurrence is due again, however the routine is paused, *)
(* resumed and updated.                                                    *)
THEOREM OccurrencesAreNew ==
    ASSUME ClockAssumption, FoldBy = 0
    PROVE  Spec => []NeverDueTwice
  <1>1. Init => ClockInvariant
    BY Initially
  <1>2. ClockInvariant /\ [Next]_vars => ClockInvariant'
    BY NextKeeps
  <1>3. ASSUME ClockInvariant PROVE NeverDueTwice
    <2> SUFFICES ASSUME IsDue, NEW r \in runs, r.due = routine.next
                 PROVE  FALSE
      BY DEF NeverDueTwice, Taken
    <2>1. r.due \in Nat
      BY <1>3, Bounds DEF ClockInvariant, TypeOK, RunRow, Instants
    <2>2. r.due < routine.next
      BY <1>3 DEF ClockInvariant, NextIsNew, IsDue
    <2>3. QED
      BY <2>1, <2>2
  <1>4. ClockInvariant => NeverDueTwice
    BY <1>3
  <1>5. QED
    BY <1>1, <1>2, <1>4, PTL DEF Spec

(* dispatcher.py:209, where clocks do not go back: a dispatch leaves no    *)
(* occurrence behind to be caught up with, however many were missed.       *)
THEOREM NothingToCatchUp ==
    ASSUME ClockAssumption, FoldBy = 0
    PROVE  Spec => NoCatchUp
  <1>1. Init => ClockInvariant
    BY Initially
  <1>2. ClockInvariant /\ [Next]_vars => ClockInvariant'
    BY NextKeeps
  <1>3. ASSUME ClockInvariant, [Next]_vars PROVE [NoneLeft]_vars
    <2>1. CASE DispatchDueSchedule
      BY <1>3, <2>1, DispatchEffect DEF NoneLeft
    <2>2. CASE runs' = runs
      BY <2>2 DEF NoneLeft
    <2>3. QED
      BY <1>3, <2>1, <2>2
         DEF Next, vars, CreateSchedule, UpdateSchedule, PauseSchedule, ResumeSchedule,
             DispatchCollides, TimePasses
  <1>4. ClockInvariant /\ [Next]_vars => [NoneLeft]_vars
    BY <1>3
  <1>5. QED
    BY <1>1, <1>2, <1>4, PTL DEF Spec, NoCatchUp
=============================================================================
