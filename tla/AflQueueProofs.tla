--------------------------- MODULE AflQueueProofs ---------------------------
(***************************************************************************)
(* Proofs about AflQueue for every bitmap size, queue, target, seed corpus *)
(* and number of calibration cycles: QueueInv is inductive, and with it    *)
(* types, reference counts, counters, the cover by favored entries and the *)
(* monotonicity of ratings hold in every reachable state.                  *)
(***************************************************************************)
EXTENDS AflQueue, FiniteSetTheorems, TLAPS

LEMMA TracesAreTraces == \A x \in Inputs : Traces[x] \subseteq TraceSet
  BY QueueAssumption

LEMMA EmptyIsTrace == Empty \in TraceSet
  BY DEF Empty, TraceSet

LEMMA Numbers ==
  /\ MAP_SIZE \in Nat \ {0} /\ MaxQueue \in Nat /\ MaxUs \in Nat \ {0}
  /\ CAL_CYCLES \in Nat \ {0} /\ CAL_CYCLES_LONG \in Nat
  /\ CAL_CYCLES <= CAL_CYCLES_LONG
  /\ CAL_CHANCES \in Nat \ {0}
  BY QueueAssumption

LEMMA SeedsAreInputs ==
  /\ Seeds \in Seq(Inputs) /\ Len(Seeds) \in 1..MaxQueue
  BY QueueAssumption

LEMMA NoTraceIsNone == (\A t \in TraceSet : NoTrace # t) /\ (\A s \in SUBSET Bits : NoTrace # s)
  BY QueueAssumption

-----------------------------------------------------------------------------
(* Types. *)

LEMMA TypeInit == Init => TypeOK
<1> SUFFICES ASSUME Init PROVE TypeOK
  OBVIOUS
<1>1. EntryTypes
  <2>1. input \in [Entries -> Inputs]
    BY SeedsAreInputs DEF Init, Entries
  <2> QED
    BY <2>1, Numbers DEF Init, EntryTypes
<1>2. CountTypes
  BY SeedsAreInputs DEF Init, Entries, CountTypes
<1>3. MapTypes
  <2>1. virgin_bits \in [Bits -> SUBSET Buckets]
    BY DEF Init
  <2>2. top_rated \in [Bits -> 0..MaxQueue]
    BY Numbers DEF Init
  <2> QED
    BY <2>1, <2>2, EmptyIsTrace DEF Init, MapTypes
<1>4. ControlTypes
  <2>1. cal = [q |-> 1, back |-> "none", cycle |-> 0, max |-> 0,
               first |-> Empty, new |-> 0, var |-> FALSE]
    BY DEF Init, NoCal
  <2>2. 1 \in 0..MaxQueue /\ 0 \in 0..CAL_CYCLES_LONG /\ 0 \in 0..MAP_SIZE
        /\ 0 \in 0..MaxQueue
    BY SeedsAreInputs, Numbers
  <2>3. cal \in CalLocals
    BY <2>1, <2>2, EmptyIsTrace DEF CalLocals
  <2> QED
    BY <2>2, <2>3 DEF Init, ControlTypes
<1> QED
  BY <1>1, <1>2, <1>3, <1>4 DEF TypeOK

-----------------------------------------------------------------------------
\* Who changes what.
LEMMA Frames ==
  ASSUME [Next]_vars
  PROVE
  /\ UNCHANGED input \/ TrimShortens \/ ExecNew
  /\ UNCHANGED exec_cksum \/ CalRun \/ ExecNew
  /\ UNCHANGED exec_us \/ CalRated
  /\ UNCHANGED cal_failed \/ DryRun \/ DrySeedSkipped \/ CalRated \/ Recalibrate
      \/ ExecNew
  /\ UNCHANGED trim_done \/ TrimNothing \/ TrimShortens
  /\ UNCHANGED was_fuzzed \/ Abandon
  /\ UNCHANGED has_new_cov \/ CalRunFails \/ ScoreDone \/ ExecNew
  /\ UNCHANGED var_behavior \/ CalRunFails \/ ScoreDone
  /\ UNCHANGED favored \/ CullStart \/ CullTake
  /\ UNCHANGED fs_redundant \/ CullEnd
  /\ UNCHANGED <<trace_mini, tc_ref, top_rated>> \/ ScoreWins
  /\ UNCHANGED queued_paths \/ ExecNew
  /\ UNCHANGED pending_not_fuzzed \/ ExecNew \/ Abandon
  /\ UNCHANGED pending_favored \/ CullStart \/ CullTake \/ Abandon
  /\ UNCHANGED queued_favored \/ CullStart \/ CullTake
  /\ UNCHANGED queued_with_cov \/ CalRunFails \/ ScoreDone \/ ExecNew
  /\ UNCHANGED queued_variable \/ CalRunFails \/ ScoreDone
  /\ UNCHANGED virgin_bits \/ CalRun \/ ExecNew
  /\ UNCHANGED var_bytes \/ CalRun
  /\ UNCHANGED score_changed \/ ScoreWins \/ CullStart
  /\ UNCHANGED trace_bits \/ CalRunFails \/ CalRun \/ TrimNothing \/
      TrimShortens \/ ExecNew \/ ExecOld \/ ExecFaulty
  /\ UNCHANGED queue_cur \/ NewCycle \/ SkipEntry \/ Abandon
  /\ UNCHANGED stop_soon \/ Interrupt
  /\ UNCHANGED idx \/ CalRunFails \/ CalRated \/ ScoreWins \/ ScoreLoses \/
      ScoreDone \/ CullStart \/ CullTake \/ CullPass \/ CullEnd \/ TrimShortens
  /\ UNCHANGED temp_v \/ CullStart \/ CullTake \/ CullEnd
  /\ UNCHANGED cal \/ DryRun \/ DrySeedGood \/ DrySeedSkipped \/ CalRunFails \/
      CalRun \/ ScoreDone \/ Recalibrate \/ TrimShortens \/ ExecNew
<1>1. CASE DryRun
  BY <1>1 DEF DryRun, CalEnter, countVars, mapVars, ctlVars, vars, entryVars
<1>2. CASE DrySeedGood
  BY <1>2 DEF DrySeedGood, DryNext, countVars, mapVars, ctlVars, vars, entryVars
<1>3. CASE DrySeedSkipped
  BY <1>3 DEF DrySeedSkipped, DryNext, countVars, mapVars, ctlVars, vars,
      entryVars
<1>4. CASE DrySeedFatal
  BY <1>4 DEF DrySeedFatal, Leave, entryVars, countVars, mapVars, ctlVars, vars
<1>5. CASE DryStopped
  BY <1>5 DEF DryStopped, Leave, entryVars, countVars, mapVars, ctlVars, vars
<1>6. CASE CalRunFails
  BY <1>6 DEF CalRunFails, CalExit
<1>7. CASE CalRun
  BY <1>7 DEF CalRun, countVars, mapVars, ctlVars, vars, entryVars
<1>8. CASE CalRated
  BY <1>8 DEF CalRated, countVars, mapVars, ctlVars, vars, entryVars
<1>9. CASE ScoreWins
  BY <1>9 DEF ScoreWins, countVars, mapVars, ctlVars, vars, entryVars
<1>10. CASE ScoreLoses
  BY <1>10 DEF ScoreLoses, entryVars, countVars, mapVars, ctlVars, vars
<1>11. CASE ScoreDone
  BY <1>11 DEF ScoreDone, CalExit, mapVars, ctlVars, vars, entryVars, countVars
<1>12. CASE CullStart
  BY <1>12 DEF CullStart
<1>13. CASE CullTake
  BY <1>13 DEF CullTake, mapVars, ctlVars, vars, entryVars, countVars
<1>14. CASE CullPass
  BY <1>14 DEF CullPass, entryVars, countVars, mapVars, ctlVars, vars
<1>15. CASE CullEnd
  BY <1>15 DEF CullEnd, countVars, mapVars, ctlVars, vars, entryVars
<1>16. CASE NewCycle
  BY <1>16 DEF NewCycle, entryVars, countVars, mapVars, ctlVars, vars
<1>17. CASE SkipEntry
  BY <1>17 DEF SkipEntry, NextEntry, entryVars, countVars, mapVars, ctlVars,
      vars
<1>18. CASE FuzzOne
  BY <1>18 DEF FuzzOne, Leave, entryVars, countVars, mapVars, ctlVars, vars
<1>19. CASE Recalibrate
  BY <1>19 DEF Recalibrate, CalEnter, countVars, mapVars, ctlVars, vars,
      entryVars
<1>20. CASE CalibrationHopeless
  BY <1>20 DEF CalibrationHopeless, Leave, entryVars, countVars, mapVars,
      ctlVars, vars
<1>21. CASE Calibrated
  BY <1>21 DEF Calibrated, Leave, entryVars, countVars, mapVars, ctlVars, vars
<1>22. CASE TrimSkipped
  BY <1>22 DEF TrimSkipped, Leave, entryVars, countVars, mapVars, ctlVars, vars
<1>23. CASE TrimNothing
  BY <1>23 DEF TrimNothing, countVars, mapVars, ctlVars, vars, entryVars
<1>24. CASE TrimShortens
  BY <1>24 DEF TrimShortens, countVars, mapVars, ctlVars, vars, entryVars
<1>25. CASE ExecNew
  BY <1>25 DEF ExecNew, CalEnter
<1>26. CASE ExecOld
  BY <1>26 DEF ExecOld, OnlyTrace, entryVars, countVars, ctlVars, vars, mapVars
<1>27. CASE ExecFaulty
  BY <1>27 DEF ExecFaulty, OnlyTrace, entryVars, countVars, ctlVars, vars,
      mapVars
<1>28. CASE StagesEnd
  BY <1>28 DEF StagesEnd, Leave, entryVars, countVars, mapVars, ctlVars, vars
<1>29. CASE Abandon
  BY <1>29 DEF Abandon, NextEntry, mapVars, ctlVars, vars, entryVars, countVars
<1>30. CASE Interrupt
  BY <1>30 DEF Interrupt, entryVars, countVars, mapVars, ctlVars, vars
<1>31. CASE Stopped
  BY <1>31 DEF Stopped, vars, entryVars, countVars, mapVars, ctlVars
<1>32. CASE UNCHANGED vars
  BY <1>32 DEF vars, entryVars, countVars, mapVars, ctlVars
<1> QED
  BY <1>1, <1>2, <1>3, <1>4, <1>5, <1>6, <1>7, <1>8, <1>9, <1>10, <1>11, <1>12,
      <1>13, <1>14, <1>15, <1>16, <1>17, <1>18, <1>19, <1>20, <1>21, <1>22,
      <1>23, <1>24, <1>25, <1>26, <1>27, <1>28, <1>29, <1>30, <1>31, <1>32 DEF
      Next, Step

-----------------------------------------------------------------------------
(* Reference counts. *)

Rated(f) == {i \in Bits : top_rated[i] = f}

LEMMA RatedFinite ==
  \A S \in SUBSET Bits :
    /\ IsFiniteSet(S) /\ Cardinality(S) \in 0..MAP_SIZE
    /\ Cardinality(S) = 0 <=> S = {}
<1> TAKE S \in SUBSET Bits
<1>1. IsFiniteSet(Bits) /\ Cardinality(Bits) = MAP_SIZE
  BY Numbers, FS_Interval DEF Bits
<1>2. IsFiniteSet(S) /\ Cardinality(S) <= MAP_SIZE
  BY <1>1, FS_Subset
<1> QED
  BY <1>2, Numbers, FS_CardinalityType, FS_EmptySet

LEMMA ScoreContext ==
  ASSUME TypeOK, ControlInv, pc = "score" \/ pc = "calibrate"
  PROVE  cal.q \in Entries /\ cal.q \in InQueue
  BY DEF TypeOK, ControlTypes, CountTypes, CalLocals, ControlInv, InCal, InQueue, Entries

LEMMA RefsInit == Init => RefsExact
<1> SUFFICES ASSUME Init, NEW e \in Entries
             PROVE  /\ tc_ref[e] = Cardinality(Rated(e))
                    /\ (trace_mini[e] = NoTrace) = (tc_ref[e] = 0)
  BY DEF RefsExact, Rated
<1>1. Rated(e) = {}
  BY DEF Init, Rated, Entries
<1> QED
  BY <1>1, FS_EmptySet DEF Init

LEMMA RefsStep ==
  ASSUME TypeOK, ControlInv, RefsExact, [Next]_vars
  PROVE  RefsExact'
<1>1. CASE ScoreWins
  <2> DEFINE e == cal.q
             old == top_rated[idx]
             refs == [f \in Entries |-> IF f = old THEN tc_ref[f] - 1 ELSE tc_ref[f]]
             mini == [f \in Entries |-> IF f = old /\ refs[f] = 0 THEN NoTrace
                                        ELSE trace_mini[f]]
  <2>1. /\ e \in Entries /\ idx \in Bits
        /\ top_rated' = [top_rated EXCEPT ![idx] = e]
        /\ tc_ref' = [refs EXCEPT ![e] = @ + 1]
        /\ trace_mini' = IF mini[e] = NoTrace
                         THEN [mini EXCEPT ![e] = Hit(trace_bits)] ELSE mini
    BY <1>1, ScoreContext, Numbers DEF ScoreWins, TypeOK, ControlTypes, Bits
  <2>2. top_rated \in [Bits -> 0..MaxQueue] /\ tc_ref \in [Entries -> 0..MAP_SIZE]
    BY DEF TypeOK, EntryTypes, MapTypes
  <2> SUFFICES ASSUME NEW f \in Entries
               PROVE  /\ tc_ref'[f] = Cardinality(Rated(f)')
                      /\ (trace_mini'[f] = NoTrace) = (tc_ref'[f] = 0)
    BY DEF RefsExact, Rated
  <2>3. /\ tc_ref[f] = Cardinality(Rated(f))
        /\ (trace_mini[f] = NoTrace) = (tc_ref[f] = 0)
    BY DEF RefsExact, Rated
  <2>4. IsFiniteSet(Rated(f)) /\ Cardinality(Rated(f)) \in Nat
    BY RatedFinite, Numbers DEF Rated
  <2>5. Rated(f)' = IF f = e THEN Rated(f) \cup {idx} ELSE Rated(f) \ {idx}
    BY <2>1, <2>2 DEF Rated
  <2>6. idx \in Rated(f) <=> f = old
    BY <2>1 DEF Rated
  <2>7. Cardinality(Rated(f)') = refs[f] + (IF f = e THEN 1 ELSE 0)
    <3>1. Cardinality(Rated(f) \cup {idx}) =
            IF idx \in Rated(f) THEN Cardinality(Rated(f)) ELSE Cardinality(Rated(f)) + 1
      BY <2>4, FS_AddElement
    <3>2. Cardinality(Rated(f) \ {idx}) =
            IF idx \in Rated(f) THEN Cardinality(Rated(f)) - 1 ELSE Cardinality(Rated(f))
      BY <2>4, FS_RemoveElement
    <3>3. refs[f] = IF f = old THEN tc_ref[f] - 1 ELSE tc_ref[f]
      OBVIOUS
    <3> HIDE DEF refs, Rated
    <3> QED
      BY <2>3, <2>4, <2>5, <2>6, <3>1, <3>2, <3>3
  <2>8. tc_ref'[f] = refs[f] + (IF f = e THEN 1 ELSE 0)
    <3> HIDE DEF refs
    <3>1. refs \in [Entries -> Int]
      BY <2>2, Numbers DEF refs
    <3> QED
      BY <2>1, <3>1
  <2>9. Hit(trace_bits) # NoTrace
    BY NoTraceIsNone DEF Hit
  <2>10. refs[f] = (IF f = old THEN tc_ref[f] - 1 ELSE tc_ref[f]) /\ tc_ref[f] \in Nat
    BY <2>2, Numbers
  <2>11. mini[f] = NoTrace <=> refs[f] = 0
    <3>1. f = old => tc_ref[f] # 0
      BY <2>3, <2>4, <2>6, FS_EmptySet
    <3> QED
      BY <2>3, <2>10, <3>1
  <2>12. refs[f] >= 0
    <3>1. f = old => tc_ref[f] # 0
      BY <2>3, <2>4, <2>6, FS_EmptySet
    <3> QED
      BY <2>10, <3>1
  <2>13. CASE f = e
    <3>1. trace_mini'[f] # NoTrace
      <4> HIDE DEF mini
      <4>1. mini = [g \in Entries |-> mini[g]]
        BY DEF mini
      <4> QED
        BY <2>1, <2>9, <2>13, <4>1
    <3> QED
      BY <3>1, <2>7, <2>8, <2>10, <2>12, <2>13
  <2>14. CASE f # e
    <3>1. trace_mini'[f] = mini[f]
      BY <2>1, <2>14
    <3> QED
      BY <3>1, <2>7, <2>8, <2>11, <2>14, <2>10
  <2> QED
    BY <2>13, <2>14
<1>2. CASE UNCHANGED <<trace_mini, tc_ref, top_rated>>
  BY <1>2 DEF RefsExact
<1> QED
  BY <1>1, <1>2, Frames

-----------------------------------------------------------------------------
(* Counters. *)

LEMMA QueueFinite ==
  ASSUME TypeOK
  PROVE  /\ InQueue \subseteq Entries
         /\ \A S \in SUBSET InQueue : IsFiniteSet(S) /\ Cardinality(S) \in Nat
<1>1. queued_paths \in Nat /\ InQueue = 1..queued_paths /\ InQueue \subseteq Entries
  BY Numbers DEF TypeOK, CountTypes, InQueue, Entries
<1>2. IsFiniteSet(InQueue)
  BY <1>1, FS_Interval
<1> QED
  BY <1>1, <1>2, FS_Subset, FS_CardinalityType

LEMMA NewEntry ==
  ASSUME TypeOK, FreshInv, ExecNew
  PROVE  LET e == queued_paths + 1 IN
         /\ e \in Entries /\ e \notin InQueue /\ InQueue' = InQueue \cup {e}
         /\ cal_failed[e] = 0
         /\ ~was_fuzzed[e] /\ ~has_new_cov[e] /\ ~var_behavior[e] /\ ~favored[e]
         /\ \A i \in Bits : top_rated[i] # e
<1> DEFINE e == queued_paths + 1
<1>1. queued_paths \in 1..MaxQueue /\ queued_paths < MaxQueue /\ queued_paths' = e
  BY DEF TypeOK, CountTypes, Entries, ExecNew
<1>2. e \in Entries /\ e > queued_paths
  BY <1>1, Numbers DEF Entries
<1>3. e \notin InQueue /\ InQueue' = InQueue \cup {e}
  BY <1>1, Numbers DEF InQueue
<1>4. Fresh(e)
  BY <1>2 DEF Fresh
<1> HIDE DEF e
<1>5. /\ cal_failed[e] = 0
      /\ ~was_fuzzed[e] /\ ~has_new_cov[e] /\ ~var_behavior[e] /\ ~favored[e]
      /\ \A i \in Bits : top_rated[i] # e
  BY <1>2, <1>4 DEF FreshInv
<1> QED
  BY <1>2, <1>3, <1>5 DEF e

\* A new entry brings no mark but has_new_cov, and no other entry's change.
LEMMA NewEntryMarks ==
  ASSUME TypeOK, FreshInv, ExecNew
  PROVE  \E e : /\ e \notin InQueue /\ InQueue' = InQueue \cup {e}
                /\ ~was_fuzzed[e] /\ ~var_behavior[e] /\ ~favored[e]
                /\ was_fuzzed' = was_fuzzed /\ var_behavior' = var_behavior
                /\ favored' = favored
<1>1. was_fuzzed' = was_fuzzed /\ var_behavior' = var_behavior /\ favored' = favored
  BY DEF ExecNew
<1> QED
  BY <1>1, NewEntry

LEMMA FuzzedEntry ==
  ASSUME TypeOK, ControlInv, InFuzzOne
  PROVE  queue_cur \in InQueue
  BY DEF TypeOK, ControlTypes, CountTypes, Entries, ControlInv, InQueue

\* Membership in a set that gains or loses one element.
LEMMA OneMore ==
  ASSUME NEW S, NEW x, IsFiniteSet(S), x \notin S
  PROVE  Cardinality(S \cup {x}) = Cardinality(S) + 1
  BY FS_AddElement

LEMMA OneLess ==
  ASSUME NEW S, NEW x, IsFiniteSet(S), x \in S
  PROVE  Cardinality(S \ {x}) = Cardinality(S) - 1
  BY FS_RemoveElement

Unfuzzed == {e \in InQueue : ~was_fuzzed[e]}
WithCov == {e \in InQueue : has_new_cov[e]}
Variable == {e \in InQueue : var_behavior[e]}

LEMMA CountersInit == Init => CountersExact
<1> SUFFICES ASSUME Init PROVE CountersExact
  OBVIOUS
<1>1. Unfuzzed = 1..Len(Seeds) /\ WithCov = {} /\ Variable = {}
  BY SeedsAreInputs, Numbers DEF Init, Unfuzzed, WithCov, Variable, InQueue, Entries
<1>2. Cardinality(1..Len(Seeds)) = Len(Seeds)
  BY SeedsAreInputs, FS_Interval
<1> QED
  BY <1>1, <1>2, FS_EmptySet DEF Init, CountersExact, Unfuzzed, WithCov, Variable

LEMMA CountersStep ==
  ASSUME TypeOK, ControlInv, FreshInv, CountersExact, [Next]_vars
  PROVE  CountersExact'
<1>0. /\ pending_not_fuzzed = Cardinality(Unfuzzed) /\ IsFiniteSet(Unfuzzed)
      /\ queued_with_cov = Cardinality(WithCov) /\ IsFiniteSet(WithCov)
      /\ queued_variable = Cardinality(Variable) /\ IsFiniteSet(Variable)
      /\ Cardinality(Unfuzzed) \in Nat /\ Cardinality(WithCov) \in Nat
      /\ Cardinality(Variable) \in Nat
  BY QueueFinite DEF CountersExact, Unfuzzed, WithCov, Variable
<1>1. pending_not_fuzzed' = Cardinality(Unfuzzed')
  <2>1. CASE ExecNew
    <3>1. PICK e : /\ e \notin InQueue /\ InQueue' = InQueue \cup {e}
                   /\ ~was_fuzzed[e] /\ was_fuzzed' = was_fuzzed
      BY <2>1, NewEntryMarks
    <3>2. Unfuzzed' = Unfuzzed \cup {e} /\ e \notin Unfuzzed
      BY <3>1 DEF Unfuzzed
    <3>3. pending_not_fuzzed' = pending_not_fuzzed + 1
      BY <2>1 DEF ExecNew
    <3> QED
      BY <3>2, <3>3, <1>0, OneMore
  <2>2. CASE Abandon
    <3> DEFINE e == queue_cur
               fresh == ~stop_soon /\ cal_failed[e] = 0 /\ ~was_fuzzed[e]
    <3>1. e \in InQueue /\ InQueue' = InQueue /\ was_fuzzed \in [Entries -> BOOLEAN]
      BY <2>2, FuzzedEntry DEF Abandon, InFuzzOne, InQueue, TypeOK, EntryTypes
    <3>2. /\ was_fuzzed' = [was_fuzzed EXCEPT ![e] = @ \/ fresh]
          /\ pending_not_fuzzed' = pending_not_fuzzed - (IF fresh THEN 1 ELSE 0)
      BY <2>2 DEF Abandon
    <3> HIDE DEF fresh
    <3>3. CASE fresh
      <4>1. Unfuzzed' = Unfuzzed \ {e} /\ e \in Unfuzzed
        BY <3>1, <3>2, <3>3, QueueFinite DEF Unfuzzed, fresh
      <4> QED
        BY <4>1, <3>2, <3>3, <1>0, OneLess
    <3>4. CASE ~fresh
      <4>1. Unfuzzed' = Unfuzzed
        BY <3>1, <3>2, <3>4, QueueFinite DEF Unfuzzed
      <4> QED
        BY <4>1, <3>2, <3>4, <1>0
    <3> QED
      BY <3>3, <3>4
  <2>3. CASE UNCHANGED <<was_fuzzed, queued_paths, pending_not_fuzzed>>
    BY <2>3, <1>0 DEF Unfuzzed, InQueue
  <2> QED
    BY <2>1, <2>2, <2>3, Frames
<1>2. queued_with_cov' = Cardinality(WithCov')
  <2>1. CASE ExecNew
    <3> DEFINE e == queued_paths + 1
    <3>1. PICK t : /\ has_new_cov' = [has_new_cov EXCEPT ![e] = NewBits(t) = 2]
                   /\ queued_with_cov' =
                        queued_with_cov + (IF NewBits(t) = 2 THEN 1 ELSE 0)
      BY <2>1 DEF ExecNew
    <3>2. /\ e \in Entries /\ e \notin InQueue /\ InQueue' = InQueue \cup {e}
          /\ InQueue \subseteq Entries /\ has_new_cov \in [Entries -> BOOLEAN]
      BY <2>1, NewEntry, QueueFinite DEF TypeOK, EntryTypes
    <3> HIDE DEF e
    <3>3. CASE NewBits(t) = 2
      <4>1. WithCov' = WithCov \cup {e} /\ e \notin WithCov
        BY <3>1, <3>2, <3>3 DEF WithCov
      <4> QED
        BY <4>1, <3>1, <3>3, <1>0, OneMore
    <3>4. CASE NewBits(t) # 2
      <4>1. WithCov' = WithCov
        BY <3>1, <3>2, <3>4 DEF WithCov
      <4> QED
        BY <4>1, <3>1, <3>4, <1>0
    <3> QED
      BY <3>3, <3>4
  <2>2. CASE CalRunFails \/ ScoreDone
    <3> DEFINE e == cal.q
               gains == cal.new = 2 /\ ~has_new_cov[e]
    <3>1. e \in InQueue /\ InQueue' = InQueue /\ has_new_cov \in [Entries -> BOOLEAN]
      BY <2>2, ScoreContext DEF CalRunFails, ScoreDone, InQueue, TypeOK, EntryTypes
    <3>2. /\ has_new_cov' = [has_new_cov EXCEPT ![e] = @ \/ cal.new = 2]
          /\ queued_with_cov' = queued_with_cov + (IF gains THEN 1 ELSE 0)
      BY <2>2 DEF CalRunFails, ScoreDone, CalExit
    <3>3. CASE gains
      <4>1. WithCov' = WithCov \cup {e} /\ e \notin WithCov
        BY <3>1, <3>2, <3>3, QueueFinite DEF WithCov
      <4> QED
        BY <4>1, <3>2, <3>3, <1>0, OneMore
    <3>4. CASE ~gains
      <4>1. WithCov' = WithCov
        BY <3>1, <3>2, <3>4, QueueFinite DEF WithCov
      <4> QED
        BY <4>1, <3>2, <3>4, <1>0
    <3> QED
      BY <3>3, <3>4
  <2>3. CASE UNCHANGED <<has_new_cov, queued_paths, queued_with_cov>>
    BY <2>3, <1>0 DEF WithCov, InQueue
  <2> QED
    BY <2>1, <2>2, <2>3, Frames
<1>3. queued_variable' = Cardinality(Variable')
  <2>1. CASE ExecNew
    <3>1. PICK e : /\ e \notin InQueue /\ InQueue' = InQueue \cup {e}
                   /\ ~var_behavior[e] /\ var_behavior' = var_behavior
      BY <2>1, NewEntryMarks
    <3>2. Variable' = Variable
      BY <3>1 DEF Variable
    <3>3. queued_variable' = queued_variable
      BY <2>1 DEF ExecNew
    <3> QED
      BY <3>2, <3>3, <1>0
  <2>2. CASE CalRunFails \/ ScoreDone
    <3> DEFINE e == cal.q
               gains == cal.var /\ ~var_behavior[e]
    <3>1. e \in InQueue /\ InQueue' = InQueue /\ var_behavior \in [Entries -> BOOLEAN]
      BY <2>2, ScoreContext DEF CalRunFails, ScoreDone, InQueue, TypeOK, EntryTypes
    <3>2. /\ var_behavior' = [var_behavior EXCEPT ![e] = @ \/ cal.var]
          /\ queued_variable' = queued_variable + (IF gains THEN 1 ELSE 0)
      BY <2>2 DEF CalRunFails, ScoreDone, CalExit
    <3>3. CASE gains
      <4>1. Variable' = Variable \cup {e} /\ e \notin Variable
        BY <3>1, <3>2, <3>3, QueueFinite DEF Variable
      <4> QED
        BY <4>1, <3>2, <3>3, <1>0, OneMore
    <3>4. CASE ~gains
      <4>1. Variable' = Variable
        BY <3>1, <3>2, <3>4, QueueFinite DEF Variable
      <4> QED
        BY <4>1, <3>2, <3>4, <1>0
    <3> QED
      BY <3>3, <3>4
  <2>3. CASE UNCHANGED <<var_behavior, queued_paths, queued_variable>>
    BY <2>3, <1>0 DEF Variable, InQueue
  <2> QED
    BY <2>1, <2>2, <2>3, Frames
<1> QED
  BY <1>1, <1>2, <1>3 DEF CountersExact, Unfuzzed, WithCov, Variable

-----------------------------------------------------------------------------
(* Pending favored entries. *)

Pending == {e \in InQueue : favored[e] /\ ~was_fuzzed[e]}

LEMMA CullContext ==
  ASSUME TypeOK, FreshInv, CullTake
  PROVE  /\ idx \in Bits /\ idx \in temp_v
         /\ top_rated[idx] \in Entries /\ top_rated[idx] \in InQueue
         /\ top_rated[idx] # 0 /\ pc = "cull"
<1>1. idx \in Bits /\ idx \in temp_v /\ top_rated[idx] # 0 /\ pc = "cull"
  BY Numbers DEF CullTake, TypeOK, ControlTypes, Bits
<1>2. top_rated[idx] \in Entries
  BY <1>1, Numbers DEF TypeOK, MapTypes, Entries
<1>3. ~Fresh(top_rated[idx])
  BY <1>1, <1>2 DEF FreshInv
<1> QED
  BY <1>1, <1>2, <1>3, Numbers DEF Fresh, InQueue, Entries, TypeOK, CountTypes

LEMMA PendingInit == Init => PendingFavoredExact
<1> SUFFICES ASSUME Init PROVE PendingFavoredExact
  OBVIOUS
<1>1. Pending = {}
  BY SeedsAreInputs DEF Init, Pending, InQueue, Entries
<1> QED
  BY <1>1, FS_EmptySet DEF Init, PendingFavoredExact, Pending

LEMMA PendingStep ==
  ASSUME TypeOK, ControlInv, FreshInv, MiniInv, CullInv, PendingFavoredExact,
         [Next]_vars
  PROVE  PendingFavoredExact'
<1>0. /\ pending_favored = Cardinality(Pending) /\ IsFiniteSet(Pending)
      /\ Cardinality(Pending) \in Nat
  BY QueueFinite DEF PendingFavoredExact, Pending
<1>1. CASE CullStart
  <2>1. Pending' = {} /\ pending_favored' = 0
    BY <1>1, QueueFinite DEF CullStart, Pending, InQueue
  <2> QED
    BY <2>1, FS_EmptySet DEF PendingFavoredExact, Pending
<1>2. CASE CullTake
  <2> DEFINE e == top_rated[idx]
  <2>1. /\ idx \in Bits /\ idx \in temp_v /\ e \in InQueue /\ e \in Entries /\ e # 0
        /\ pc = "cull"
    BY <1>2, CullContext
  <2>2. /\ favored' = [favored EXCEPT ![e] = TRUE]
        /\ pending_favored' = pending_favored + (IF was_fuzzed[e] THEN 0 ELSE 1)
        /\ was_fuzzed' = was_fuzzed /\ InQueue' = InQueue
        /\ favored \in [Entries -> BOOLEAN]
    BY <1>2 DEF CullTake, InQueue, TypeOK, EntryTypes
  <2>3. ~was_fuzzed[e] => idx \in trace_mini[e]
    BY <2>1 DEF MiniInv, MayBeTrimmed, InCal
  <2>4. ~was_fuzzed[e] => ~favored[e]
    BY <2>1, <2>3 DEF CullInv
  <2> HIDE DEF e
  <2>5. CASE was_fuzzed[e]
    <3>1. Pending' = Pending
      BY <2>1, <2>2, <2>5, QueueFinite DEF Pending
    <3>2. Cardinality(Pending') = pending_favored'
      BY <3>1, <2>2, <2>5, <1>0
    <3> QED
      BY <3>2 DEF PendingFavoredExact, Pending
  <2>6. CASE ~was_fuzzed[e]
    <3>1. Pending' = Pending \cup {e} /\ e \notin Pending
      BY <2>1, <2>2, <2>4, <2>6, QueueFinite DEF Pending
    <3>2. Cardinality(Pending') = pending_favored'
      BY <3>1, <2>2, <2>6, <1>0, OneMore
    <3> QED
      BY <3>2 DEF PendingFavoredExact, Pending
  <2> QED
    BY <2>5, <2>6
<1>3. CASE Abandon
  <2> DEFINE e == queue_cur
             fresh == ~stop_soon /\ cal_failed[e] = 0 /\ ~was_fuzzed[e]
  <2>1. /\ e \in InQueue /\ InQueue' = InQueue /\ was_fuzzed \in [Entries -> BOOLEAN]
        /\ favored' = favored
    BY <1>3, FuzzedEntry DEF Abandon, InFuzzOne, InQueue, TypeOK, EntryTypes
  <2>2. /\ was_fuzzed' = [was_fuzzed EXCEPT ![e] = @ \/ fresh]
        /\ pending_favored' =
             pending_favored - (IF fresh /\ favored[e] THEN 1 ELSE 0)
    BY <1>3 DEF Abandon
  <2>3. fresh => ~was_fuzzed[e]
    OBVIOUS
  <2> HIDE DEF fresh
  <2>4. CASE fresh /\ favored[e]
    <3>1. Pending' = Pending \ {e} /\ e \in Pending
      BY <2>1, <2>2, <2>3, <2>4, QueueFinite DEF Pending
    <3>2. Cardinality(Pending') = pending_favored'
      BY <3>1, <2>2, <2>4, <1>0, OneLess
    <3> QED
      BY <3>2 DEF PendingFavoredExact, Pending
  <2>5. CASE ~(fresh /\ favored[e])
    <3>1. Pending' = Pending
      BY <2>1, <2>2, <2>3, <2>5, QueueFinite DEF Pending
    <3>2. Cardinality(Pending') = pending_favored'
      BY <3>1, <2>2, <2>5, <1>0
    <3> QED
      BY <3>2 DEF PendingFavoredExact, Pending
  <2> QED
    BY <2>4, <2>5
<1>4. CASE ExecNew
  <2>1. PICK e : /\ e \notin InQueue /\ InQueue' = InQueue \cup {e}
                 /\ ~favored[e] /\ favored' = favored /\ was_fuzzed' = was_fuzzed
    BY <1>4, NewEntryMarks
  <2>2. Pending' = Pending
    BY <2>1 DEF Pending
  <2>3. pending_favored' = pending_favored
    BY <1>4 DEF ExecNew
  <2> QED
    BY <2>2, <2>3, <1>0 DEF PendingFavoredExact, Pending
<1>5. CASE UNCHANGED <<favored, was_fuzzed, queued_paths, pending_favored>>
  BY <1>5 DEF PendingFavoredExact, InQueue
<1> QED
  BY <1>1, <1>2, <1>3, <1>4, <1>5, Frames

-----------------------------------------------------------------------------
(* Control: which entry each function works on. *)

LEMMA ControlInit == Init => ControlInv /\ FreshInv
<1> SUFFICES ASSUME Init PROVE ControlInv /\ FreshInv
  OBVIOUS
<1>1. /\ cal.q = 1 /\ cal.back = "none" /\ pc = "dry_run" /\ queue_cur = 0
      /\ queued_paths \in 1..MaxQueue
  BY SeedsAreInputs DEF Init, NoCal
<1>2. ControlInv
  BY <1>1, SeedsAreInputs DEF ControlInv, InDry, InCal, InFuzzOne, InQueue
<1>3. FreshInv
  BY <1>1 DEF Init, FreshInv, Entries
<1> QED
  BY <1>2, <1>3

LEMMA ControlStep ==
  ASSUME TypeOK, ControlInv, FreshInv, [Next]_vars
  PROVE  ControlInv'
<1>0. /\ queued_paths \in 1..MaxQueue /\ MaxQueue \in Nat /\ queue_cur \in 0..MaxQueue
      /\ cal \in CalLocals /\ cal.q \in 0..MaxQueue
      /\ cal_failed \in [Entries -> 0..CAL_CHANCES] /\ CAL_CHANCES \in Nat \ {0}
  BY Numbers DEF TypeOK, EntryTypes, CountTypes, ControlTypes, CalLocals, Entries
<1>1. CASE DryRun
  BY <1>1, <1>0 DEF DryRun, CalEnter, countVars, mapVars, ctlVars, vars,
      entryVars, ControlInv, InDry, InCal, InFuzzOne, InQueue, CalLocals, NoCal,
      Entries
<1>2. CASE DrySeedGood
  BY <1>2, <1>0 DEF DrySeedGood, DryNext, countVars, mapVars, ctlVars, vars,
      entryVars, ControlInv, InDry, InCal, InFuzzOne, InQueue, CalLocals, NoCal,
      Entries
<1>3. CASE DrySeedSkipped
  BY <1>3, <1>0 DEF DrySeedSkipped, DryNext, countVars, mapVars, ctlVars, vars,
      entryVars, ControlInv, InDry, InCal, InFuzzOne, InQueue, CalLocals, NoCal,
      Entries
<1>4. CASE DrySeedFatal
  BY <1>4, <1>0 DEF DrySeedFatal, Leave, entryVars, countVars, mapVars, ctlVars,
      vars, ControlInv, InDry, InCal, InFuzzOne, InQueue, CalLocals, NoCal,
      Entries
<1>5. CASE DryStopped
  BY <1>5, <1>0 DEF DryStopped, Leave, entryVars, countVars, mapVars, ctlVars,
      vars, ControlInv, InDry, InCal, InFuzzOne, InQueue, CalLocals, NoCal,
      Entries
<1>6. CASE CalRunFails
  BY <1>6, <1>0 DEF CalRunFails, CalExit, ControlInv, InDry, InCal, InFuzzOne,
      InQueue, CalLocals, NoCal, Entries
<1>7. CASE CalRun
  BY <1>7, <1>0 DEF CalRun, countVars, mapVars, ctlVars, vars, entryVars,
      ControlInv, InDry, InCal, InFuzzOne, InQueue, CalLocals, NoCal, Entries
<1>8. CASE CalRated
  BY <1>8, <1>0 DEF CalRated, countVars, mapVars, ctlVars, vars, entryVars,
      ControlInv, InDry, InCal, InFuzzOne, InQueue, CalLocals, NoCal, Entries
<1>9. CASE ScoreWins
  BY <1>9, <1>0 DEF ScoreWins, countVars, mapVars, ctlVars, vars, entryVars,
      ControlInv, InDry, InCal, InFuzzOne, InQueue, CalLocals, NoCal, Entries
<1>10. CASE ScoreLoses
  BY <1>10, <1>0 DEF ScoreLoses, entryVars, countVars, mapVars, ctlVars, vars,
      ControlInv, InDry, InCal, InFuzzOne, InQueue, CalLocals, NoCal, Entries
<1>11. CASE ScoreDone
  BY <1>11, <1>0 DEF ScoreDone, CalExit, mapVars, ctlVars, vars, entryVars,
      countVars, ControlInv, InDry, InCal, InFuzzOne, InQueue, CalLocals, NoCal,
      Entries
<1>12. CASE CullStart
  BY <1>12, <1>0 DEF CullStart, ControlInv, InDry, InCal, InFuzzOne, InQueue,
      CalLocals, NoCal, Entries
<1>13. CASE CullTake
  BY <1>13, <1>0 DEF CullTake, mapVars, ctlVars, vars, entryVars, countVars,
      ControlInv, InDry, InCal, InFuzzOne, InQueue, CalLocals, NoCal, Entries
<1>14. CASE CullPass
  BY <1>14, <1>0 DEF CullPass, entryVars, countVars, mapVars, ctlVars, vars,
      ControlInv, InDry, InCal, InFuzzOne, InQueue, CalLocals, NoCal, Entries
<1>15. CASE CullEnd
  BY <1>15, <1>0 DEF CullEnd, countVars, mapVars, ctlVars, vars, entryVars,
      ControlInv, InDry, InCal, InFuzzOne, InQueue, CalLocals, NoCal, Entries
<1>16. CASE NewCycle
  BY <1>16, <1>0 DEF NewCycle, entryVars, countVars, mapVars, ctlVars, vars,
      ControlInv, InDry, InCal, InFuzzOne, InQueue, CalLocals, NoCal, Entries
<1>17. CASE SkipEntry
  BY <1>17, <1>0 DEF SkipEntry, NextEntry, entryVars, countVars, mapVars,
      ctlVars, vars, ControlInv, InDry, InCal, InFuzzOne, InQueue, CalLocals,
      NoCal, Entries
<1>18. CASE FuzzOne
  BY <1>18, <1>0 DEF FuzzOne, Leave, entryVars, countVars, mapVars, ctlVars,
      vars, ControlInv, InDry, InCal, InFuzzOne, InQueue, CalLocals, NoCal,
      Entries
<1>19. CASE Recalibrate
  BY <1>19, <1>0 DEF Recalibrate, CalEnter, countVars, mapVars, ctlVars, vars,
      entryVars, ControlInv, InDry, InCal, InFuzzOne, InQueue, CalLocals, NoCal,
      Entries
<1>20. CASE CalibrationHopeless
  BY <1>20, <1>0 DEF CalibrationHopeless, Leave, entryVars, countVars, mapVars,
      ctlVars, vars, ControlInv, InDry, InCal, InFuzzOne, InQueue, CalLocals,
      NoCal, Entries
<1>21. CASE Calibrated
  BY <1>21, <1>0 DEF Calibrated, Leave, entryVars, countVars, mapVars, ctlVars,
      vars, ControlInv, InDry, InCal, InFuzzOne, InQueue, CalLocals, NoCal,
      Entries
<1>22. CASE TrimSkipped
  BY <1>22, <1>0 DEF TrimSkipped, Leave, entryVars, countVars, mapVars, ctlVars,
      vars, ControlInv, InDry, InCal, InFuzzOne, InQueue, CalLocals, NoCal,
      Entries
<1>23. CASE TrimNothing
  BY <1>23, <1>0 DEF TrimNothing, countVars, mapVars, ctlVars, vars, entryVars,
      ControlInv, InDry, InCal, InFuzzOne, InQueue, CalLocals, NoCal, Entries
<1>24. CASE TrimShortens
  BY <1>24, <1>0 DEF TrimShortens, countVars, mapVars, ctlVars, vars, entryVars,
      ControlInv, InDry, InCal, InFuzzOne, InQueue, CalLocals, NoCal, Entries
<1>25. CASE ExecNew
  BY <1>25, <1>0 DEF ExecNew, CalEnter, ControlInv, InDry, InCal, InFuzzOne,
      InQueue, CalLocals, NoCal, Entries
<1>26. CASE ExecOld
  BY <1>26, <1>0 DEF ExecOld, OnlyTrace, entryVars, countVars, ctlVars, vars,
      mapVars, ControlInv, InDry, InCal, InFuzzOne, InQueue, CalLocals, NoCal,
      Entries
<1>27. CASE ExecFaulty
  BY <1>27, <1>0 DEF ExecFaulty, OnlyTrace, entryVars, countVars, ctlVars, vars,
      mapVars, ControlInv, InDry, InCal, InFuzzOne, InQueue, CalLocals, NoCal,
      Entries
<1>28. CASE StagesEnd
  BY <1>28, <1>0 DEF StagesEnd, Leave, entryVars, countVars, mapVars, ctlVars,
      vars, ControlInv, InDry, InCal, InFuzzOne, InQueue, CalLocals, NoCal,
      Entries
<1>29. CASE Abandon
  BY <1>29, <1>0 DEF Abandon, NextEntry, mapVars, ctlVars, vars, entryVars,
      countVars, ControlInv, InDry, InCal, InFuzzOne, InQueue, CalLocals, NoCal,
      Entries
<1>30. CASE Interrupt
  BY <1>30, <1>0 DEF Interrupt, entryVars, countVars, mapVars, ctlVars, vars,
      ControlInv, InDry, InCal, InFuzzOne, InQueue, CalLocals, NoCal, Entries
<1>31. CASE Stopped
  BY <1>31, <1>0 DEF Stopped, vars, entryVars, countVars, mapVars, ctlVars,
      ControlInv, InDry, InCal, InFuzzOne, InQueue, CalLocals, NoCal, Entries
<1>32. CASE UNCHANGED vars
  BY <1>32, <1>0 DEF vars, entryVars, countVars, mapVars, ctlVars, ControlInv,
      InDry, InCal, InFuzzOne, InQueue, CalLocals, NoCal, Entries
<1> QED
  BY <1>1, <1>2, <1>3, <1>4, <1>5, <1>6, <1>7, <1>8, <1>9, <1>10, <1>11, <1>12,
      <1>13, <1>14, <1>15, <1>16, <1>17, <1>18, <1>19, <1>20, <1>21, <1>22,
      <1>23, <1>24, <1>25, <1>26, <1>27, <1>28, <1>29, <1>30, <1>31, <1>32 DEF
      Next, Step

LEMMA FreshStep ==
  ASSUME TypeOK, ControlInv, FreshInv, [Next]_vars
  PROVE  FreshInv'
<1> SUFFICES ASSUME NEW e \in Entries, Fresh(e)'
             PROVE  /\ cal_failed'[e] = 0
                    /\ ~was_fuzzed'[e] /\ ~has_new_cov'[e] /\ ~var_behavior'[e]
                    /\ ~favored'[e]
                    /\ \A i \in Bits : top_rated'[i] # e
  BY DEF FreshInv
<1>0. /\ queued_paths \in 1..MaxQueue /\ MaxQueue \in Nat /\ queue_cur \in 0..MaxQueue
      /\ cal \in CalLocals /\ cal.q \in 0..MaxQueue
      /\ cal_failed \in [Entries -> 0..CAL_CHANCES]
      /\ was_fuzzed \in [Entries -> BOOLEAN] /\ has_new_cov \in [Entries -> BOOLEAN]
      /\ var_behavior \in [Entries -> BOOLEAN] /\ favored \in [Entries -> BOOLEAN]
      /\ top_rated \in [Bits -> 0..MaxQueue]
  BY Numbers DEF TypeOK, EntryTypes, CountTypes, MapTypes, ControlTypes, CalLocals,
                 Entries
<1>1. CASE DryRun
  BY <1>1, <1>0 DEF DryRun, CalEnter, countVars, mapVars, ctlVars, vars,
      entryVars, ControlInv, FreshInv, Fresh, InDry, InCal, InFuzzOne, InQueue,
      CalLocals, NoCal, Entries
<1>2. CASE DrySeedGood
  BY <1>2, <1>0 DEF DrySeedGood, DryNext, countVars, mapVars, ctlVars, vars,
      entryVars, ControlInv, FreshInv, Fresh, InDry, InCal, InFuzzOne, InQueue,
      CalLocals, NoCal, Entries
<1>3. CASE DrySeedSkipped
  BY <1>3, <1>0 DEF DrySeedSkipped, DryNext, countVars, mapVars, ctlVars, vars,
      entryVars, ControlInv, FreshInv, Fresh, InDry, InCal, InFuzzOne, InQueue,
      CalLocals, NoCal, Entries
<1>4. CASE DrySeedFatal
  BY <1>4, <1>0 DEF DrySeedFatal, Leave, entryVars, countVars, mapVars, ctlVars,
      vars, ControlInv, FreshInv, Fresh, InDry, InCal, InFuzzOne, InQueue,
      CalLocals, NoCal, Entries
<1>5. CASE DryStopped
  BY <1>5, <1>0 DEF DryStopped, Leave, entryVars, countVars, mapVars, ctlVars,
      vars, ControlInv, FreshInv, Fresh, InDry, InCal, InFuzzOne, InQueue,
      CalLocals, NoCal, Entries
<1>6. CASE CalRunFails
  BY <1>6, <1>0 DEF CalRunFails, CalExit, ControlInv, FreshInv, Fresh, InDry,
      InCal, InFuzzOne, InQueue, CalLocals, NoCal, Entries
<1>7. CASE CalRun
  BY <1>7, <1>0 DEF CalRun, countVars, mapVars, ctlVars, vars, entryVars,
      ControlInv, FreshInv, Fresh, InDry, InCal, InFuzzOne, InQueue, CalLocals,
      NoCal, Entries
<1>8. CASE CalRated
  BY <1>8, <1>0 DEF CalRated, countVars, mapVars, ctlVars, vars, entryVars,
      ControlInv, FreshInv, Fresh, InDry, InCal, InFuzzOne, InQueue, CalLocals,
      NoCal, Entries
<1>9. CASE ScoreWins
  BY <1>9, <1>0 DEF ScoreWins, countVars, mapVars, ctlVars, vars, entryVars,
      ControlInv, FreshInv, Fresh, InDry, InCal, InFuzzOne, InQueue, CalLocals,
      NoCal, Entries
<1>10. CASE ScoreLoses
  BY <1>10, <1>0 DEF ScoreLoses, entryVars, countVars, mapVars, ctlVars, vars,
      ControlInv, FreshInv, Fresh, InDry, InCal, InFuzzOne, InQueue, CalLocals,
      NoCal, Entries
<1>11. CASE ScoreDone
  BY <1>11, <1>0 DEF ScoreDone, CalExit, mapVars, ctlVars, vars, entryVars,
      countVars, ControlInv, FreshInv, Fresh, InDry, InCal, InFuzzOne, InQueue,
      CalLocals, NoCal, Entries
<1>12. CASE CullStart
  BY <1>12, <1>0 DEF CullStart, ControlInv, FreshInv, Fresh, InDry, InCal,
      InFuzzOne, InQueue, CalLocals, NoCal, Entries
<1>13. CASE CullTake
  <2>1. /\ top_rated[idx] \in InQueue /\ pc = "cull" /\ pc' = "cull"
        /\ favored' = [favored EXCEPT ![top_rated[idx]] = TRUE]
        /\ UNCHANGED <<cal_failed, was_fuzzed, has_new_cov, var_behavior, top_rated,
                      queued_paths, cal>>
    BY <1>13, CullContext DEF CullTake, mapVars
  <2>2. Fresh(e) /\ e # top_rated[idx]
    BY <2>1, <1>0 DEF Fresh, InDry, InCal, InQueue, Entries
  <2> QED
    BY <2>1, <2>2, <1>0 DEF FreshInv
<1>14. CASE CullPass
  BY <1>14, <1>0 DEF CullPass, entryVars, countVars, mapVars, ctlVars, vars,
      ControlInv, FreshInv, Fresh, InDry, InCal, InFuzzOne, InQueue, CalLocals,
      NoCal, Entries
<1>15. CASE CullEnd
  BY <1>15, <1>0 DEF CullEnd, countVars, mapVars, ctlVars, vars, entryVars,
      ControlInv, FreshInv, Fresh, InDry, InCal, InFuzzOne, InQueue, CalLocals,
      NoCal, Entries
<1>16. CASE NewCycle
  BY <1>16, <1>0 DEF NewCycle, entryVars, countVars, mapVars, ctlVars, vars,
      ControlInv, FreshInv, Fresh, InDry, InCal, InFuzzOne, InQueue, CalLocals,
      NoCal, Entries
<1>17. CASE SkipEntry
  BY <1>17, <1>0 DEF SkipEntry, NextEntry, entryVars, countVars, mapVars,
      ctlVars, vars, ControlInv, FreshInv, Fresh, InDry, InCal, InFuzzOne,
      InQueue, CalLocals, NoCal, Entries
<1>18. CASE FuzzOne
  BY <1>18, <1>0 DEF FuzzOne, Leave, entryVars, countVars, mapVars, ctlVars,
      vars, ControlInv, FreshInv, Fresh, InDry, InCal, InFuzzOne, InQueue,
      CalLocals, NoCal, Entries
<1>19. CASE Recalibrate
  BY <1>19, <1>0 DEF Recalibrate, CalEnter, countVars, mapVars, ctlVars, vars,
      entryVars, ControlInv, FreshInv, Fresh, InDry, InCal, InFuzzOne, InQueue,
      CalLocals, NoCal, Entries
<1>20. CASE CalibrationHopeless
  BY <1>20, <1>0 DEF CalibrationHopeless, Leave, entryVars, countVars, mapVars,
      ctlVars, vars, ControlInv, FreshInv, Fresh, InDry, InCal, InFuzzOne,
      InQueue, CalLocals, NoCal, Entries
<1>21. CASE Calibrated
  BY <1>21, <1>0 DEF Calibrated, Leave, entryVars, countVars, mapVars, ctlVars,
      vars, ControlInv, FreshInv, Fresh, InDry, InCal, InFuzzOne, InQueue,
      CalLocals, NoCal, Entries
<1>22. CASE TrimSkipped
  BY <1>22, <1>0 DEF TrimSkipped, Leave, entryVars, countVars, mapVars, ctlVars,
      vars, ControlInv, FreshInv, Fresh, InDry, InCal, InFuzzOne, InQueue,
      CalLocals, NoCal, Entries
<1>23. CASE TrimNothing
  BY <1>23, <1>0 DEF TrimNothing, countVars, mapVars, ctlVars, vars, entryVars,
      ControlInv, FreshInv, Fresh, InDry, InCal, InFuzzOne, InQueue, CalLocals,
      NoCal, Entries
<1>24. CASE TrimShortens
  BY <1>24, <1>0 DEF TrimShortens, countVars, mapVars, ctlVars, vars, entryVars,
      ControlInv, FreshInv, Fresh, InDry, InCal, InFuzzOne, InQueue, CalLocals,
      NoCal, Entries
<1>25. CASE ExecNew
  BY <1>25, <1>0 DEF ExecNew, CalEnter, ControlInv, FreshInv, Fresh, InDry,
      InCal, InFuzzOne, InQueue, CalLocals, NoCal, Entries
<1>26. CASE ExecOld
  BY <1>26, <1>0 DEF ExecOld, OnlyTrace, entryVars, countVars, ctlVars, vars,
      mapVars, ControlInv, FreshInv, Fresh, InDry, InCal, InFuzzOne, InQueue,
      CalLocals, NoCal, Entries
<1>27. CASE ExecFaulty
  BY <1>27, <1>0 DEF ExecFaulty, OnlyTrace, entryVars, countVars, ctlVars, vars,
      mapVars, ControlInv, FreshInv, Fresh, InDry, InCal, InFuzzOne, InQueue,
      CalLocals, NoCal, Entries
<1>28. CASE StagesEnd
  BY <1>28, <1>0 DEF StagesEnd, Leave, entryVars, countVars, mapVars, ctlVars,
      vars, ControlInv, FreshInv, Fresh, InDry, InCal, InFuzzOne, InQueue,
      CalLocals, NoCal, Entries
<1>29. CASE Abandon
  BY <1>29, <1>0 DEF Abandon, NextEntry, mapVars, ctlVars, vars, entryVars,
      countVars, ControlInv, FreshInv, Fresh, InDry, InCal, InFuzzOne, InQueue,
      CalLocals, NoCal, Entries
<1>30. CASE Interrupt
  BY <1>30, <1>0 DEF Interrupt, entryVars, countVars, mapVars, ctlVars, vars,
      ControlInv, FreshInv, Fresh, InDry, InCal, InFuzzOne, InQueue, CalLocals,
      NoCal, Entries
<1>31. CASE Stopped
  BY <1>31, <1>0 DEF Stopped, vars, entryVars, countVars, mapVars, ctlVars,
      ControlInv, FreshInv, Fresh, InDry, InCal, InFuzzOne, InQueue, CalLocals,
      NoCal, Entries
<1>32. CASE UNCHANGED vars
  BY <1>32, <1>0 DEF vars, entryVars, countVars, mapVars, ctlVars, ControlInv,
      FreshInv, Fresh, InDry, InCal, InFuzzOne, InQueue, CalLocals, NoCal,
      Entries
<1> QED
  BY <1>1, <1>2, <1>3, <1>4, <1>5, <1>6, <1>7, <1>8, <1>9, <1>10, <1>11, <1>12,
      <1>13, <1>14, <1>15, <1>16, <1>17, <1>18, <1>19, <1>20, <1>21, <1>22,
      <1>23, <1>24, <1>25, <1>26, <1>27, <1>28, <1>29, <1>30, <1>31, <1>32 DEF
      Next, Step

-----------------------------------------------------------------------------
(* Ratings: only calibrated entries, and what trace_mini holds of them. *)

LEMMA RatedInit == Init => RatedInv /\ ScoreInv /\ MiniInv
  BY DEF Init, RatedInv, ScoreInv, MiniInv

LEMMA RatedStep ==
  ASSUME TypeOK, ControlInv, FreshInv, RatedInv, [Next]_vars
  PROVE  RatedInv'
<1> SUFFICES ASSUME NEW i \in Bits, top_rated'[i] # 0
             PROVE  cal_failed'[top_rated'[i]] = 0
  BY DEF RatedInv
<1>0. /\ cal_failed \in [Entries -> 0..CAL_CHANCES]
      /\ top_rated \in [Bits -> 0..MaxQueue]
  BY DEF TypeOK, EntryTypes, MapTypes
<1>1. CASE ScoreWins
  <2>1. /\ top_rated' = [top_rated EXCEPT ![idx] = cal.q] /\ cal_failed' = cal_failed
        /\ cal_failed[cal.q] = 0
    BY <1>1 DEF ScoreWins, ControlInv
  <2> QED
    BY <2>1, <1>0 DEF RatedInv
<1>2. ASSUME top_rated' = top_rated
      PROVE  cal_failed'[top_rated'[i]] = 0
  <2>0. /\ top_rated[i] # 0 /\ cal_failed[top_rated[i]] = 0
        /\ top_rated[i] \in Entries
    BY <1>0, <1>2 DEF RatedInv, Entries
  <2>1. CASE DryRun
    <3>1. cal.q \in Entries /\ Fresh(cal.q)
      BY <2>1, QueueFinite DEF DryRun, ControlInv, InDry, Fresh
    <3>2. top_rated[i] # cal.q
      BY <3>1 DEF FreshInv
    <3> QED
      BY <2>0, <2>1, <3>2, <1>0, <1>2 DEF DryRun, CalEnter
  <2>2. CASE DrySeedSkipped
    BY <2>0, <2>2, <1>0, <1>2 DEF DrySeedSkipped, DryNext
  <2>3. CASE CalRated
    BY <2>0, <2>3, <1>0, <1>2 DEF CalRated
  <2>4. CASE Recalibrate
    BY <2>0, <2>4, <1>0, <1>2 DEF Recalibrate, CalEnter
  <2>5. CASE ExecNew
    <3>1. top_rated[i] # queued_paths + 1
      BY <2>5, NewEntry
    <3> QED
      BY <2>0, <2>5, <3>1, <1>0, <1>2 DEF ExecNew, CalEnter
  <2>6. CASE UNCHANGED cal_failed
    BY <2>0, <2>6, <1>2
  <2> QED
    BY <2>1, <2>2, <2>3, <2>4, <2>5, <2>6, Frames
<1> QED
  BY <1>1, <1>2, Frames

\* update_bitmap_score is entered by a calibration or a trim.
LEMMA ToScore ==
  ASSUME TypeOK, ControlInv, Next, pc' = "score"
  PROVE  \/ CalRated \/ ScoreWins \/ ScoreLoses \/ Interrupt \/ TrimShortens
         \/ UNCHANGED vars
<1>0. cal.back \in {"none", "dry_done", "fuzz_cal", "stages"}
  BY DEF TypeOK, ControlTypes, CalLocals
<1>1. ~(DryRun \/ DrySeedGood \/ DrySeedSkipped \/ DrySeedFatal \/ DryStopped
      \/ CalRunFails)
  BY <1>0 DEF DryRun, CalEnter, ctlVars, vars, DrySeedGood, DryNext,
        DrySeedSkipped, DrySeedFatal, Leave, DryStopped, CalRunFails, CalExit
<1>2. ~(CalRun \/ ScoreDone \/ CullStart \/ CullTake \/ CullPass \/ CullEnd)
  BY <1>0 DEF CalRun, ctlVars, vars, ScoreDone, CalExit, CullStart, CullTake,
        CullPass, CullEnd
<1>3. ~(NewCycle \/ SkipEntry)
  BY DEF NewCycle, SkipEntry, NextEntry, AtHead
<1>6. ~(FuzzOne \/ Recalibrate \/ CalibrationHopeless \/ Calibrated)
  BY DEF FuzzOne, Leave, Recalibrate, CalEnter, CalibrationHopeless, Calibrated
<1>4. ~(TrimSkipped \/ TrimNothing \/ ExecNew \/ ExecOld \/ ExecFaulty \/
      StagesEnd)
  BY <1>0 DEF TrimSkipped, Leave, ctlVars, vars, TrimNothing, ExecNew,
        CalEnter, ExecOld, OnlyTrace, ExecFaulty, StagesEnd 
<1>5. ~(Abandon)
  BY <1>0 DEF Abandon, NextEntry, ctlVars, vars
<1> QED
  BY <1>1, <1>2, <1>3, <1>4, <1>5, <1>6 DEF Next, Step, Stopped

LEMMA ScoreStep ==
  ASSUME TypeOK, ControlInv, FreshInv, RatedInv, RefsExact, ScoreInv, [Next]_vars
  PROVE  ScoreInv'
<1> SUFFICES ASSUME pc' = "score",
                    ~(cal'.back = "stages" /\ cal'.q = queue_cur')
             PROVE  trace_mini'[cal'.q] \in {NoTrace, Hit(trace_bits')}
  BY DEF ScoreInv, Hit
<1>1. CASE CalRated
  <2>1. /\ pc = "calibrate" /\ cal' = cal /\ trace_mini' = trace_mini
        /\ cal.q \in Entries /\ cal_failed[cal.q] # 0
    BY <1>1, ScoreContext DEF CalRated, ControlInv
  <2>2. Rated(cal.q) = {}
    BY <2>1 DEF RatedInv, Rated, Entries
  <2>3. trace_mini[cal.q] = NoTrace
    BY <2>1, <2>2, FS_EmptySet DEF RefsExact, Rated
  <2> QED
    BY <2>1, <2>3
<1>2. CASE ScoreWins
  <2> DEFINE e == cal.q
             old == top_rated[idx]
             refs == [f \in Entries |-> IF f = old THEN tc_ref[f] - 1 ELSE tc_ref[f]]
             mini == [f \in Entries |-> IF f = old /\ refs[f] = 0 THEN NoTrace
                                        ELSE trace_mini[f]]
  <2>1. /\ e \in Entries /\ pc = "score" /\ cal' = cal /\ queue_cur' = queue_cur
        /\ trace_bits' = trace_bits
        /\ trace_mini' = IF mini[e] = NoTrace
                         THEN [mini EXCEPT ![e] = Hit(trace_bits)] ELSE mini
    BY <1>2, ScoreContext DEF ScoreWins
  <2>2. trace_mini[e] \in {NoTrace, Hit(trace_bits)}
    BY <2>1 DEF ScoreInv
  <2>3. mini[e] \in {NoTrace, Hit(trace_bits)}
    BY <2>1, <2>2
  <2>4. mini = [f \in Entries |-> mini[f]]
    OBVIOUS
  <2> HIDE DEF mini
  <2> QED
    BY <2>1, <2>3, <2>4
<1>3. CASE ScoreLoses
  BY <1>3 DEF ScoreLoses, entryVars, mapVars, ScoreInv
<1>4. CASE Interrupt
  BY <1>4 DEF Interrupt, entryVars, mapVars, ScoreInv
<1>5. CASE TrimShortens
  BY <1>5 DEF TrimShortens, NoCal
<1>6. CASE UNCHANGED vars
  BY <1>6 DEF vars, entryVars, mapVars, ctlVars, ScoreInv
<1> QED
  BY <1>1, <1>2, <1>3, <1>4, <1>5, <1>6, ToScore

LEMMA MiniStep ==
  ASSUME TypeOK, ControlInv, FreshInv, RatedInv, ScoreInv, MiniInv, RefsExact,
         [Next]_vars
  PROVE  MiniInv'
<1> SUFFICES ASSUME NEW i \in Bits, top_rated'[i] # 0, ~was_fuzzed'[top_rated'[i]]
             PROVE  \/ i \in trace_mini'[top_rated'[i]]
                    \/ top_rated'[i] = queue_cur' /\ MayBeTrimmed'
  BY DEF MiniInv, MayBeTrimmed, InCal
<1>0. /\ top_rated \in [Bits -> 0..MaxQueue] /\ was_fuzzed \in [Entries -> BOOLEAN]
      /\ cal \in CalLocals
  BY DEF TypeOK, EntryTypes, MapTypes, ControlTypes
<1>1. CASE ScoreWins
  <2> DEFINE e == cal.q
             old == top_rated[idx]
             refs == [f \in Entries |-> IF f = old THEN tc_ref[f] - 1 ELSE tc_ref[f]]
             mini == [f \in Entries |-> IF f = old /\ refs[f] = 0 THEN NoTrace
                                        ELSE trace_mini[f]]
             f == top_rated'[i]
  <2>1. /\ e \in Entries /\ idx \in Bits /\ pc = "score" /\ trace_bits[idx] # 0
        /\ top_rated' = [top_rated EXCEPT ![idx] = e]
        /\ trace_mini' = IF mini[e] = NoTrace
                         THEN [mini EXCEPT ![e] = Hit(trace_bits)] ELSE mini
        /\ UNCHANGED <<cal, queue_cur, pc, was_fuzzed>>
    BY <1>1, ScoreContext, Numbers DEF ScoreWins, Wins, TypeOK, ControlTypes, Bits
  <2>2. idx \in Hit(trace_bits)
    BY <2>1 DEF Hit
  <2>3. f \in Entries
    BY <2>1, <1>0, Numbers DEF Entries
  <2>4. mini = [g \in Entries |-> mini[g]]
    OBVIOUS
  <2>5. /\ mini[f] = IF f = old /\ refs[f] = 0 THEN NoTrace ELSE trace_mini[f]
        /\ refs[f] = IF f = old THEN tc_ref[f] - 1 ELSE tc_ref[f]
    BY <2>3
  <2>6. i # idx => (f = old => refs[f] # 0)
    <3> SUFFICES ASSUME i # idx, f = old PROVE tc_ref[f] # 1
      BY <2>5, <2>3, Numbers DEF TypeOK, EntryTypes
    <3>1. {i, idx} \subseteq Rated(f) /\ top_rated[i] = f
      BY <2>1, <1>0 DEF Rated
    <3>2. IsFiniteSet(Rated(f)) /\ tc_ref[f] = Cardinality(Rated(f))
      BY <2>3, RatedFinite DEF RefsExact, Rated
    <3> QED
      BY <3>1, <3>2, FS_Singleton
  <2> HIDE DEF mini, refs, old
  <2>7. CASE cal.back = "stages" /\ e = queue_cur /\ f = e
    BY <2>1, <2>7 DEF MayBeTrimmed, InCal
  <2>8. CASE ~(cal.back = "stages" /\ e = queue_cur) /\ f = e /\ i = idx
    <3>1. trace_mini[e] \in {NoTrace, Hit(trace_bits)}
      BY <2>1, <2>8 DEF ScoreInv
    <3>2. mini[e] \in {NoTrace, Hit(trace_bits)}
      BY <3>1, <2>5, <2>8
    <3>3. trace_mini'[e] = Hit(trace_bits)
      BY <2>1, <2>4, <3>2
    <3> QED
      BY <3>3, <2>2, <2>8
  <2>9. CASE i # idx
    <3>1. top_rated[i] = f /\ mini[f] = trace_mini[f]
      BY <2>1, <2>5, <2>6, <2>9, <1>0
    <3>2. i \in trace_mini[f] \/ (f = queue_cur /\ MayBeTrimmed)
      BY <2>1, <3>1 DEF MiniInv
    <3>3. Rated(f) # {}
      BY <3>1 DEF Rated
    <3>4. trace_mini[f] # NoTrace
      BY <2>3, <3>3, RatedFinite DEF RefsExact, Rated
    <3>5. trace_mini'[f] = trace_mini[f]
      BY <2>1, <2>3, <2>4, <3>1, <3>4
    <3> QED
      BY <2>1, <3>2, <3>5 DEF MayBeTrimmed, InCal
  <2> QED
    BY <2>1, <2>7, <2>8, <2>9, <1>0
<1>2. ASSUME UNCHANGED <<trace_mini, tc_ref, top_rated>>, ~ScoreWins
      PROVE  \/ i \in trace_mini'[top_rated'[i]]
             \/ top_rated'[i] = queue_cur' /\ MayBeTrimmed'
  <2> DEFINE e == top_rated[i]
  <2>1. e \in Entries /\ e # 0 /\ cal_failed[e] = 0 /\ trace_mini' = trace_mini
    BY <1>0, <1>2 DEF RatedInv, Entries
  <2>2. ~was_fuzzed[e]
    BY <2>1, <1>0, <1>2, Frames DEF Abandon
  <2>3. i \in trace_mini[e] \/ (e = queue_cur /\ MayBeTrimmed)
    BY <2>1, <2>2 DEF MiniInv
  <2>4. SUFFICES ASSUME e = queue_cur, MayBeTrimmed
                 PROVE  e = queue_cur' /\ MayBeTrimmed'
    BY <2>1, <2>3, <1>2
  <2>5. CASE Abandon
    <3>1. stop_soon
      BY <2>1, <2>2, <2>4, <2>5, <1>0, <1>2 DEF Abandon
    <3> QED
      BY <2>4, <2>5, <3>1 DEF Abandon, NextEntry, MayBeTrimmed
  <2>6. CASE UNCHANGED vars
    BY <2>4, <2>6 DEF vars, ctlVars, MayBeTrimmed, InCal
  <2>7. CASE CalRunFails
    BY <2>4, <2>7, <1>0 DEF CalRunFails, CalExit, MayBeTrimmed, InCal, CalLocals
  <2>8. CASE CalRun
    BY <2>4, <2>8, <1>0 DEF CalRun, ctlVars, vars, MayBeTrimmed, InCal,
        CalLocals
  <2>9. CASE CalRated
    BY <2>4, <2>9, <1>0 DEF CalRated, ctlVars, vars, MayBeTrimmed, InCal,
        CalLocals
  <2>10. CASE ScoreLoses
    BY <2>4, <2>10, <1>0 DEF ScoreLoses, ctlVars, vars, MayBeTrimmed, InCal,
        CalLocals
  <2>11. CASE ScoreDone
    BY <2>4, <2>11, <1>0 DEF ScoreDone, CalExit, ctlVars, vars, MayBeTrimmed,
        InCal, CalLocals
  <2>12. CASE ExecNew
    BY <2>4, <2>12, <1>0 DEF ExecNew, CalEnter, MayBeTrimmed, InCal, CalLocals
  <2>13. CASE ExecOld
    BY <2>4, <2>13, <1>0 DEF ExecOld, OnlyTrace, ctlVars, vars, MayBeTrimmed,
        InCal, CalLocals
  <2>14. CASE ExecFaulty
    BY <2>4, <2>14, <1>0 DEF ExecFaulty, OnlyTrace, ctlVars, vars, MayBeTrimmed,
        InCal, CalLocals
  <2>15. CASE StagesEnd
    BY <2>4, <2>15, <1>0 DEF StagesEnd, Leave, ctlVars, vars, MayBeTrimmed,
        InCal, CalLocals
  <2>16. CASE Interrupt
    BY <2>4, <2>16, <1>0 DEF Interrupt, ctlVars, vars, MayBeTrimmed, InCal,
        CalLocals
  <2>17. CASE Stopped
    BY <2>4, <2>17, <1>0 DEF Stopped, vars, ctlVars, MayBeTrimmed, InCal,
        CalLocals
  <2>18. ~(DryRun \/ DrySeedGood \/ DrySeedSkipped \/ DrySeedFatal \/ DryStopped
      \/ CullStart \/ CullTake \/ CullPass \/ CullEnd \/ NewCycle \/ SkipEntry
      \/ FuzzOne \/ Recalibrate \/ CalibrationHopeless \/ Calibrated \/
      TrimSkipped \/ TrimNothing \/ TrimShortens)
    BY <2>4 DEF DryRun, DrySeedGood, DrySeedSkipped, DrySeedFatal, DryStopped,
        CullStart, CullTake, CullPass, CullEnd, NewCycle, AtHead, SkipEntry,
        FuzzOne, Recalibrate, CalibrationHopeless, Calibrated, TrimSkipped,
        TrimNothing, TrimShortens, MayBeTrimmed, InCal
  <2> QED
    BY <2>5, <2>6, <2>7, <2>8, <2>9, <2>10, <2>11, <2>12, <2>13, <2>14, <2>15,
        <2>16, <2>17, <2>18, <1>2 DEF Next, Step
<1> QED
  BY <1>1, <1>2, Frames

-----------------------------------------------------------------------------
(* The cover by favored entries. *)

\* Nothing else runs while cull_queue does.
LEMMA CullAlone ==
  ASSUME TypeOK, [Next]_vars
  PROVE  \/ CullStart \/ CullTake \/ CullPass \/ CullEnd
         \/ pc # "cull" /\ pc' # "cull"
         \/ UNCHANGED <<pc, idx, temp_v>>
<1>0. cal.back \in {"none", "dry_done", "fuzz_cal", "stages"}
  BY DEF TypeOK, ControlTypes, CalLocals
<1>1. DryRun \/ DrySeedGood \/ DrySeedSkipped \/ DrySeedFatal =>
       pc # "cull" /\ pc' # "cull"
  BY <1>0 DEF DryRun, CalEnter, ctlVars, vars, DrySeedGood, DryNext,
      DrySeedSkipped, DrySeedFatal, Leave
<1>2. DryStopped \/ CalRunFails \/ CalRun \/ CalRated =>
       pc # "cull" /\ pc' # "cull"
  BY <1>0 DEF DryStopped, Leave, ctlVars, vars, CalRunFails, CalExit, CalRun,
      CalRated
<1>3. ScoreWins \/ ScoreLoses \/ ScoreDone \/ NewCycle =>
       pc # "cull" /\ pc' # "cull"
  BY <1>0 DEF ScoreWins, ctlVars, vars, ScoreLoses, ScoreDone, CalExit,
      NewCycle, AtHead
<1>4. SkipEntry \/ FuzzOne \/ Recalibrate \/ CalibrationHopeless =>
       pc # "cull" /\ pc' # "cull"
  BY <1>0 DEF SkipEntry, NextEntry, ctlVars, vars, AtHead, FuzzOne, Leave,
      Recalibrate, CalEnter, CalibrationHopeless
<1>5. Calibrated \/ TrimSkipped \/ TrimNothing \/ TrimShortens =>
       pc # "cull" /\ pc' # "cull"
  BY <1>0 DEF Calibrated, Leave, ctlVars, vars, TrimSkipped, TrimNothing,
      TrimShortens
<1>6. ExecNew \/ ExecOld \/ ExecFaulty \/ StagesEnd =>
       pc # "cull" /\ pc' # "cull"
  BY <1>0 DEF ExecNew, CalEnter, ExecOld, OnlyTrace, ctlVars, vars, ExecFaulty,
      StagesEnd, Leave
<1>7. Abandon =>
       pc # "cull" /\ pc' # "cull"
  BY <1>0 DEF Abandon, NextEntry, ctlVars, vars
<1>8. Interrupt \/ Stopped \/ UNCHANGED vars => UNCHANGED <<pc, idx, temp_v>>
  BY DEF Interrupt, Stopped, vars, ctlVars
<1> QED
  BY <1>1, <1>2, <1>3, <1>4, <1>5, <1>6, <1>7, <1>8 DEF Next, Step

LEMMA CoverInit == Init => CullInv /\ FavoredCover
<1> SUFFICES ASSUME Init PROVE CullInv /\ FavoredCover
  OBVIOUS
<1>1. pc = "dry_run" /\ \A i \in Bits : top_rated[i] = 0
  BY DEF Init
<1>2. \A e \in InQueue : e \in Entries /\ ~favored[e]
  BY SeedsAreInputs, Numbers DEF Init, InQueue, Entries
<1> QED
  BY <1>1, <1>2 DEF CullInv, FavoredCover

LEMMA CoverStep ==
  ASSUME TypeOK, FreshInv, CullInv, FavoredCover, [Next]_vars
  PROVE  CullInv' /\ FavoredCover'
<1>0. /\ favored \in [Entries -> BOOLEAN] /\ idx \in 0..MAP_SIZE /\ temp_v \subseteq Bits
      /\ top_rated \in [Bits -> 0..MaxQueue] /\ InQueue \subseteq Entries
  BY QueueFinite DEF TypeOK, EntryTypes, MapTypes, ControlTypes
<1>1. CASE CullStart
  <2>1. /\ pc' = "cull" /\ ~score_changed' /\ temp_v' = Bits /\ idx' = 0
        /\ InQueue' = InQueue /\ \A e \in Entries : ~favored'[e]
    BY <1>1 DEF CullStart, InQueue
  <2> QED
    BY <2>1, <1>0, Numbers DEF CullInv, FavoredCover, Bits
<1>2. CASE CullTake
  <2> DEFINE e == top_rated[idx]
  <2>1. /\ idx \in Bits /\ idx \in temp_v /\ e \in InQueue /\ e \in Entries /\ pc = "cull"
    BY <1>2, CullContext
  <2>2. /\ temp_v' = temp_v \ trace_mini[e] /\ idx' = idx + 1 /\ pc' = "cull"
        /\ favored' = [favored EXCEPT ![e] = TRUE] /\ InQueue' = InQueue
        /\ UNCHANGED <<was_fuzzed, trace_mini, top_rated, score_changed>>
    BY <1>2, <2>1 DEF CullTake, InQueue, mapVars
  <2>3. ASSUME NEW g \in InQueue, favored'[g], ~was_fuzzed[g], NEW i \in temp_v'
        PROVE  i \notin trace_mini[g]
    BY <2>1, <2>2, <2>3, <1>0 DEF CullInv
  <2>4. ASSUME NEW i \in Bits, i < idx + 1 \/ i \notin temp_v', top_rated[i] # 0
        PROVE  \E g \in InQueue : favored'[g] /\ (g = top_rated[i] \/ i \in trace_mini[g])
    <3>1. CASE i < idx \/ i \notin temp_v
      <4>1. PICK g \in InQueue : favored[g] /\ (g = top_rated[i] \/ i \in trace_mini[g])
        BY <2>1, <2>4, <3>1 DEF CullInv, Covered
      <4>2. favored'[g]
        BY <4>1, <2>1, <2>2, <1>0
      <4> QED
        BY <4>1, <4>2
    <3>2. CASE i = idx \/ i \in trace_mini[e]
      BY <2>1, <2>2, <3>2, <1>0
    <3>3. i < idx \/ i = idx \/ i \notin temp_v \/ i \in trace_mini[e]
      BY <2>1, <2>2, <2>4 DEF Bits
    <3> QED
      BY <3>1, <3>2, <3>3
  <2>5. \A i \in Bits : i < idx' \/ i \notin temp_v' => (top_rated'[i] # 0 => Covered(i)')
    BY <2>2, <2>4 DEF Covered
  <2> QED
    BY <2>1, <2>2, <2>3, <2>5 DEF CullInv, FavoredCover
<1>3. CASE CullPass
  <2>1. /\ idx' = idx + 1 /\ pc = "cull" /\ pc' = "cull"
        /\ top_rated[idx] = 0 \/ idx \notin temp_v
        /\ InQueue' = InQueue
        /\ UNCHANGED <<favored, was_fuzzed, trace_mini, top_rated, temp_v,
                      score_changed>>
    BY <1>3 DEF CullPass, InQueue, entryVars, countVars, mapVars
  <2>2. ASSUME NEW i \in Bits, i < idx + 1 \/ i \notin temp_v, top_rated[i] # 0
        PROVE  Covered(i)
    <3>1. i < idx \/ i \notin temp_v
      BY <2>1, <2>2, <1>0 DEF Bits
    <3> QED
      BY <2>1, <2>2, <3>1 DEF CullInv
  <2> QED
    BY <2>1, <2>2 DEF CullInv, FavoredCover, Covered
<1>4. CASE CullEnd
  <2>1. /\ idx = MAP_SIZE /\ pc = "cull" /\ pc' = "main"
        /\ fs_redundant' = [e \in Entries |-> e \in InQueue /\ ~favored[e]]
        /\ InQueue' = InQueue
        /\ UNCHANGED <<favored, trace_mini, top_rated>>
    BY <1>4 DEF CullEnd, InQueue, countVars, mapVars
  <2>2. \A i \in Bits : top_rated[i] # 0 => Covered(i)
    BY <2>1, Numbers DEF CullInv, Bits
  <2> QED
    BY <2>1, <2>2, <1>0 DEF CullInv, FavoredCover, Covered
<1>5. CASE ScoreWins
  BY <1>5 DEF ScoreWins, CullInv, FavoredCover
<1>6. CASE ExecNew
  <2>1. /\ InQueue' = InQueue \cup {queued_paths + 1} /\ ~favored[queued_paths + 1]
        /\ UNCHANGED <<favored, fs_redundant, trace_mini, top_rated, score_changed>>
        /\ pc = "stages" /\ pc' = "calibrate"
    BY <1>6, NewEntry DEF ExecNew, CalEnter
  <2>2. \A i \in Bits : Covered(i) => Covered(i)'
    BY <2>1 DEF Covered
  <2> QED
    BY <2>1, <2>2 DEF CullInv, FavoredCover
<1>7. CASE UNCHANGED <<favored, fs_redundant, trace_mini, top_rated, was_fuzzed,
                       queued_paths, score_changed>>
           /\ ((pc # "cull" /\ pc' # "cull") \/ UNCHANGED <<pc, idx, temp_v>>)
  BY <1>7 DEF CullInv, FavoredCover, Covered, InQueue
<1>8. CASE Abandon
  <2>1. /\ pc # "cull" /\ pc' # "cull" /\ InQueue' = InQueue
        /\ UNCHANGED <<favored, fs_redundant, trace_mini, top_rated, score_changed>>
    BY <1>8 DEF Abandon, NextEntry, InQueue, mapVars
  <2> QED
    BY <2>1 DEF CullInv, FavoredCover, Covered
<1> QED
  BY <1>1, <1>2, <1>3, <1>4, <1>5, <1>6, <1>7, <1>8, CullAlone, Frames

-----------------------------------------------------------------------------
(* Types, given the invariant. *)

LEMMA Update ==
  ASSUME NEW D, NEW R, NEW f \in [D -> R], NEW d, NEW v \in R
  PROVE  [f EXCEPT ![d] = v] \in [D -> R]
  OBVIOUS

LEMMA EntryTypesStep ==
  ASSUME TypeOK, ControlInv, FreshInv, RefsExact', [Next]_vars
  PROVE  EntryTypes'
<1>0. /\ EntryTypes /\ cal \in CalLocals /\ trace_bits \in TraceSet
      /\ top_rated \in [Bits -> 0..MaxQueue]
  BY DEF TypeOK, MapTypes, ControlTypes
<1>1. input' \in [Entries -> Inputs]
  <2>1. CASE TrimShortens
    BY <1>0, <2>1 DEF TrimShortens, EntryTypes
  <2>2. CASE ExecNew
    <3>1. PICK x \in Inputs : input' = [input EXCEPT ![queued_paths + 1] = x]
      BY <2>2 DEF ExecNew
    <3> QED
      BY <1>0, <3>1, Update DEF EntryTypes
  <2>3. CASE UNCHANGED input
    BY <1>0, <2>3 DEF EntryTypes
  <2> QED
    BY <2>1, <2>2, <2>3, Frames
<1>2. exec_cksum' \in [Entries -> {NoTrace} \cup TraceSet]
  <2>0. exec_cksum \in [Entries -> {NoTrace} \cup TraceSet] /\ input \in [Entries -> Inputs]
    BY <1>0 DEF EntryTypes
  <2>1. CASE CalRun
    <3>1. cal.q \in Entries
      BY <2>1, ScoreContext DEF CalRun
    <3>2. PICK t \in Traces[input[cal.q]] :
            exec_cksum' = IF exec_cksum[cal.q] # NoTrace THEN exec_cksum
                          ELSE [exec_cksum EXCEPT ![cal.q] = t]
      BY <2>1 DEF CalRun
    <3>3. t \in TraceSet
      BY <2>0, <3>1, TracesAreTraces
    <3> QED
      BY <2>0, <3>2, <3>3
  <2>2. CASE ExecNew
    <3>0. PICK x \in Inputs : \E t \in Traces[x] :
            exec_cksum' = [exec_cksum EXCEPT ![queued_paths + 1] = t]
      BY <2>2 DEF ExecNew
    <3>1. PICK t \in Traces[x] :
            exec_cksum' = [exec_cksum EXCEPT ![queued_paths + 1] = t]
      BY <3>0
    <3>2. t \in TraceSet
      BY TracesAreTraces
    <3> QED
      BY <2>0, <3>1, <3>2
  <2>3. CASE UNCHANGED exec_cksum
    BY <2>0, <2>3
  <2> QED
    BY <2>1, <2>2, <2>3, Frames
<1>3. exec_us' \in [Entries -> 0..MaxUs]
  <2>0. exec_us \in [Entries -> 0..MaxUs]
    BY <1>0 DEF EntryTypes
  <2>1. CASE CalRated
    <3>1. PICK us \in 1..MaxUs : exec_us' = [exec_us EXCEPT ![cal.q] = us]
      BY <2>1 DEF CalRated
    <3>2. us \in 0..MaxUs
      BY Numbers
    <3> QED
      BY <2>0, <3>1, <3>2, Update
  <2>2. CASE UNCHANGED exec_us
    BY <2>0, <2>2
  <2> QED
    BY <2>1, <2>2, Frames
<1>4. cal_failed' \in [Entries -> 0..CAL_CHANCES]
  <2>0. cal_failed \in [Entries -> 0..CAL_CHANCES]
    BY <1>0 DEF EntryTypes
  <2>1. 0 \in 0..CAL_CHANCES /\ 1 \in 0..CAL_CHANCES /\ CAL_CHANCES \in 0..CAL_CHANCES
    BY Numbers
  <2>2. CASE DryRun
    <3>1. cal.q \in Entries /\ Fresh(cal.q)
      BY <2>2, QueueFinite DEF DryRun, ControlInv, InDry, Fresh
    <3>2. cal_failed[cal.q] + 1 = 1
      BY <3>1 DEF FreshInv
    <3>3. cal_failed' = [cal_failed EXCEPT ![cal.q] = 1]
      BY <2>2, <3>2 DEF DryRun, CalEnter
    <3> QED
      BY <2>0, <2>1, <3>3, Update
  <2>3. CASE DrySeedSkipped
    <3>1. cal_failed' = [cal_failed EXCEPT ![cal.q] = CAL_CHANCES]
      BY <2>3 DEF DrySeedSkipped, DryNext
    <3> QED
      BY <2>0, <2>1, <3>1, Update
  <2>4. CASE CalRated
    <3>1. cal_failed' = [cal_failed EXCEPT ![cal.q] = 0]
      BY <2>4 DEF CalRated
    <3> QED
      BY <2>0, <2>1, <3>1, Update
  <2>5. CASE Recalibrate
    <3>1. /\ cal_failed' = [cal_failed EXCEPT ![queue_cur] = cal_failed[queue_cur] + 1]
          /\ cal_failed[queue_cur] \in 1..(CAL_CHANCES - 1)
      BY <2>5 DEF Recalibrate, CalEnter
    <3>2. cal_failed[queue_cur] + 1 \in 0..CAL_CHANCES
      BY <3>1, Numbers
    <3> QED
      BY <2>0, <3>1, <3>2, Update
  <2>6. CASE ExecNew
    <3>1. cal_failed[queued_paths + 1] + 1 = 1
      BY <2>6, NewEntry
    <3>2. cal_failed' = [cal_failed EXCEPT ![queued_paths + 1] = 1]
      BY <2>6, <3>1 DEF ExecNew, CalEnter
    <3> QED
      BY <2>0, <2>1, <3>2, Update
  <2>7. CASE UNCHANGED cal_failed
    BY <2>0, <2>7
  <2> QED
    BY <2>2, <2>3, <2>4, <2>5, <2>6, <2>7, Frames
<1>5. trim_done' \in [Entries -> BOOLEAN]
  <2>1. CASE TrimNothing
    BY <1>0, <2>1 DEF TrimNothing, EntryTypes
  <2>2. CASE TrimShortens
    BY <1>0, <2>2 DEF TrimShortens, EntryTypes
  <2>3. CASE UNCHANGED trim_done
    BY <1>0, <2>3 DEF EntryTypes
  <2> QED
    BY <2>1, <2>2, <2>3, Frames
<1>6. was_fuzzed' \in [Entries -> BOOLEAN]
  <2>1. CASE Abandon
    <3>1. was_fuzzed \in [Entries -> BOOLEAN]
      BY <1>0 DEF EntryTypes
    <3>2. \E b : was_fuzzed' = [was_fuzzed EXCEPT ![queue_cur] = @ \/ b]
      BY <2>1 DEF Abandon
    <3> QED
      BY <3>1, <3>2
  <2>2. CASE UNCHANGED was_fuzzed
    BY <1>0, <2>2 DEF EntryTypes
  <2> QED
    BY <2>1, <2>2, Frames
<1>7. has_new_cov' \in [Entries -> BOOLEAN]
  <2>0. has_new_cov \in [Entries -> BOOLEAN]
    BY <1>0 DEF EntryTypes
  <2>1. CASE CalRunFails \/ ScoreDone
    <3>1. \E b : has_new_cov' = [has_new_cov EXCEPT ![cal.q] = @ \/ b]
      BY <2>1 DEF CalRunFails, ScoreDone, CalExit
    <3> QED
      BY <2>0, <3>1
  <2>2. CASE ExecNew
    BY <2>0, <2>2 DEF ExecNew
  <2>3. CASE UNCHANGED has_new_cov
    BY <2>0, <2>3
  <2> QED
    BY <2>1, <2>2, <2>3, Frames
<1>8. var_behavior' \in [Entries -> BOOLEAN]
  <2>0. var_behavior \in [Entries -> BOOLEAN]
    BY <1>0 DEF EntryTypes
  <2>1. CASE CalRunFails \/ ScoreDone
    <3>1. \E b : var_behavior' = [var_behavior EXCEPT ![cal.q] = @ \/ b]
      BY <2>1 DEF CalRunFails, ScoreDone, CalExit
    <3> QED
      BY <2>0, <3>1
  <2>2. CASE UNCHANGED var_behavior
    BY <2>0, <2>2
  <2> QED
    BY <2>1, <2>2, Frames
<1>9. favored' \in [Entries -> BOOLEAN]
  <2>1. CASE CullStart
    BY <2>1 DEF CullStart
  <2>2. CASE CullTake
    BY <1>0, <2>2 DEF CullTake, EntryTypes
  <2>3. CASE UNCHANGED favored
    BY <1>0, <2>3 DEF EntryTypes
  <2> QED
    BY <2>1, <2>2, <2>3, Frames
<1>10. fs_redundant' \in [Entries -> BOOLEAN]
  <2>1. CASE CullEnd
    <3>1. favored \in [Entries -> BOOLEAN]
      BY <1>0 DEF EntryTypes
    <3> QED
      BY <2>1, <3>1 DEF CullEnd
  <2>2. CASE UNCHANGED fs_redundant
    BY <1>0, <2>2 DEF EntryTypes
  <2> QED
    BY <2>1, <2>2, Frames
<1>11. /\ trace_mini' \in [Entries -> {NoTrace} \cup SUBSET Bits]
       /\ tc_ref' \in [Entries -> 0..MAP_SIZE]
  <2>0. /\ trace_mini \in [Entries -> {NoTrace} \cup SUBSET Bits]
        /\ tc_ref \in [Entries -> 0..MAP_SIZE]
    BY <1>0 DEF EntryTypes
  <2>1. CASE ScoreWins
    <3> DEFINE e == cal.q
               old == top_rated[idx]
               refs == [f \in Entries |-> IF f = old THEN tc_ref[f] - 1 ELSE tc_ref[f]]
               mini == [f \in Entries |-> IF f = old /\ refs[f] = 0 THEN NoTrace
                                          ELSE trace_mini[f]]
    <3>1. /\ tc_ref' = [refs EXCEPT ![e] = @ + 1]
          /\ trace_mini' = IF mini[e] = NoTrace
                           THEN [mini EXCEPT ![e] = Hit(trace_bits)] ELSE mini
      BY <2>1 DEF ScoreWins
    <3>2. mini \in [Entries -> {NoTrace} \cup SUBSET Bits]
      <4>1. \A f \in Entries : mini[f] \in {NoTrace} \cup SUBSET Bits
        BY <2>0
      <4>2. mini = [f \in Entries |-> mini[f]]
        OBVIOUS
      <4> HIDE DEF mini
      <4> QED
        BY <4>1, <4>2
    <3>3. Hit(trace_bits) \in SUBSET Bits
      BY DEF Hit
    <3>4. trace_mini' \in [Entries -> {NoTrace} \cup SUBSET Bits]
      <4> HIDE DEF mini
      <4> QED
        BY <3>1, <3>2, <3>3
    <3>5. DOMAIN tc_ref' = Entries /\ tc_ref' = [f \in Entries |-> tc_ref'[f]]
      BY <3>1
    <3>6. \A f \in Entries : tc_ref'[f] \in 0..MAP_SIZE
      BY RatedFinite DEF RefsExact
    <3> QED
      BY <3>4, <3>5, <3>6
  <2>2. CASE UNCHANGED <<trace_mini, tc_ref>>
    BY <2>0, <2>2
  <2> QED
    BY <2>1, <2>2, Frames
<1> QED
  BY <1>1, <1>2, <1>3, <1>4, <1>5, <1>6, <1>7, <1>8, <1>9, <1>10, <1>11
     DEF EntryTypes

\* What the counters count is a number.
LEMMA CountTypesStep ==
  ASSUME TypeOK, CountersExact', PendingFavoredExact', [Next]_vars
  PROVE  CountTypes'
<1>1. queued_paths' \in Entries
  <2>1. CASE ExecNew
    BY <2>1, Numbers DEF ExecNew, TypeOK, CountTypes, Entries
  <2>2. CASE UNCHANGED queued_paths
    BY <2>2 DEF TypeOK, CountTypes
  <2> QED
    BY <2>1, <2>2, Frames
<1>2. IsFiniteSet(InQueue')
  BY <1>1, Numbers, FS_Interval DEF InQueue, Entries
<1>3. \A S \in SUBSET InQueue' : Cardinality(S) \in Nat
  BY <1>2, FS_Subset, FS_CardinalityType
<1>4. pending_not_fuzzed' \in Nat
  BY <1>3 DEF CountersExact
<1>5. queued_with_cov' \in Nat /\ queued_variable' \in Nat
  BY <1>3 DEF CountersExact
<1>6. pending_favored' \in Nat
  BY <1>3 DEF PendingFavoredExact
<1>7. queued_favored' \in Nat
  <2>1. CASE CullStart
    BY <2>1 DEF CullStart
  <2>2. CASE CullTake
    BY <2>2 DEF CullTake, TypeOK, CountTypes
  <2>3. CASE UNCHANGED queued_favored
    BY <2>3 DEF TypeOK, CountTypes
  <2> QED
    BY <2>1, <2>2, <2>3, Frames
<1> QED
  BY <1>1, <1>4, <1>5, <1>6, <1>7 DEF CountTypes

LEMMA RunIsTrace ==
  ASSUME TypeOK
  PROVE  \A e \in Entries : Traces[input[e]] \subseteq TraceSet
  BY TracesAreTraces DEF TypeOK, EntryTypes

LEMMA MapTypesStep ==
  ASSUME TypeOK, ControlInv, [Next]_vars
  PROVE  MapTypes'
<1>0. /\ MapTypes /\ EntryTypes /\ queue_cur \in 0..MaxQueue /\ cal \in CalLocals
  BY DEF TypeOK, ControlTypes
<1>1. \A t : Seen(t) \in [Bits -> SUBSET Buckets]
  BY <1>0 DEF Seen, MapTypes
<1>2. virgin_bits' \in [Bits -> SUBSET Buckets]
  <2>1. CASE CalRun
    <3>1. \E t : virgin_bits' = Seen(t) \/ virgin_bits' = virgin_bits
      BY <2>1 DEF CalRun
    <3> QED
      BY <1>0, <1>1, <3>1 DEF MapTypes
  <2>2. CASE ExecNew
    <3>1. \E t : virgin_bits' = Seen(t)
      BY <2>2 DEF ExecNew
    <3> QED
      BY <1>1, <3>1
  <2>3. CASE UNCHANGED virgin_bits
    BY <1>0, <2>3 DEF MapTypes
  <2> QED
    BY <2>1, <2>2, <2>3, Frames
<1>3. var_bytes' \subseteq Bits
  <2>1. CASE CalRun
    <3>1. PICK t \in Traces[input[cal.q]] :
            var_bytes' = IF exec_cksum[cal.q] # t /\ exec_cksum[cal.q] # NoTrace
                         THEN var_bytes \cup ({i \in Bits : cal.first[i] # t[i]} \ var_bytes)
                         ELSE var_bytes
      BY <2>1 DEF CalRun
    <3> QED
      BY <1>0, <3>1 DEF MapTypes
  <2>2. CASE UNCHANGED var_bytes
    BY <1>0, <2>2 DEF MapTypes
  <2> QED
    BY <2>1, <2>2, Frames
<1>4. trace_bits' \in TraceSet
  <2>1. CASE CalRunFails \/ CalRun
    <3>1. cal.q \in Entries
      BY <2>1, ScoreContext DEF CalRunFails, CalRun
    <3>2. trace_bits' \in Traces[input[cal.q]] \cup {Empty}
      BY <2>1 DEF CalRunFails, CalRun
    <3> QED
      BY <3>1, <3>2, RunIsTrace, EmptyIsTrace
  <2>2. CASE TrimNothing
    <3>1. UNCHANGED trace_bits \/ \E x \in Inputs : trace_bits' \in Traces[x] \cup {Empty}
      BY <2>2 DEF TrimNothing
    <3> QED
      BY <1>0, <3>1, TracesAreTraces, EmptyIsTrace DEF MapTypes
  <2>3. CASE TrimShortens
    BY <2>3, TracesAreTraces DEF TrimShortens
  <2>4. CASE ExecNew
    <3>1. \E x \in Inputs : trace_bits' \in Traces[x]
      BY <2>4 DEF ExecNew
    <3> QED
      BY <3>1, TracesAreTraces
  <2>5. CASE ExecOld
    <3>1. \E x \in Inputs : trace_bits' \in Traces[x]
      BY <2>5 DEF ExecOld
    <3> QED
      BY <3>1, TracesAreTraces
  <2>6. CASE ExecFaulty
    <3>1. PICK x \in Inputs : \E t \in Traces[x] \cup {Empty} :
            trace_bits' \in {t, simplify_trace(t)}
      BY <2>6 DEF ExecFaulty
    <3>2. PICK t \in TraceSet : trace_bits' \in {t, simplify_trace(t)}
      BY <3>1, TracesAreTraces, EmptyIsTrace
    <3>3. simplify_trace(t) \in TraceSet
      BY DEF simplify_trace, TraceSet, Buckets
    <3> QED
      BY <3>2, <3>3
  <2>7. CASE UNCHANGED trace_bits
    BY <1>0, <2>7 DEF MapTypes
  <2> QED
    BY <2>1, <2>2, <2>3, <2>4, <2>5, <2>6, <2>7, Frames
<1>5. top_rated' \in [Bits -> 0..MaxQueue]
  <2>1. CASE ScoreWins
    BY <1>0, <2>1 DEF ScoreWins, MapTypes, CalLocals
  <2>2. CASE UNCHANGED top_rated
    BY <1>0, <2>2 DEF MapTypes
  <2> QED
    BY <2>1, <2>2, Frames
<1>6. score_changed' \in BOOLEAN
  <2>1. CASE ScoreWins \/ CullStart
    BY <2>1 DEF ScoreWins, CullStart
  <2>2. CASE UNCHANGED score_changed
    BY <1>0, <2>2 DEF MapTypes
  <2> QED
    BY <2>1, <2>2, Frames
<1> QED
  BY <1>2, <1>3, <1>4, <1>5, <1>6 DEF MapTypes

\* A calibration starts from a known state.
LEMMA CalEnterType ==
  ASSUME NEW e \in 0..MaxQueue, NEW back \in {"dry_done", "fuzz_cal", "stages"},
         NEW trace \in TraceSet, CalEnter(e, back, trace)
  PROVE  cal' \in CalLocals /\ pc' = "calibrate"
<1>1. 0 \in 0..CAL_CYCLES_LONG
  BY Numbers
<1> QED
  BY <1>1 DEF CalEnter, CalLocals

LEMMA NoCalType ==
  \A q \in 0..MaxQueue :
    /\ [NoCal EXCEPT !.q = q] \in CalLocals
    /\ [NoCal EXCEPT !.q = q, !.back = "stages"] \in CalLocals
<1> TAKE q \in 0..MaxQueue
<1>1. 0 \in 0..CAL_CYCLES_LONG /\ 0 \in 0..MaxQueue
  BY Numbers
<1>2. NoCal \in CalLocals
  BY <1>1, EmptyIsTrace DEF NoCal, CalLocals
<1>3. [NoCal EXCEPT !.q = q] \in CalLocals
  BY <1>2 DEF CalLocals
<1>4. [NoCal EXCEPT !.q = q, !.back = "stages"] \in CalLocals
  BY <1>2 DEF CalLocals
<1> QED
  BY <1>3, <1>4

LEMMA CalTypeStep ==
  ASSUME TypeOK, ControlInv, FreshInv, [Next]_vars
  PROVE  cal' \in CalLocals
<1>0. /\ cal \in CalLocals /\ cal.q \in 0..MaxQueue /\ trace_bits \in TraceSet
      /\ queue_cur \in 0..MaxQueue /\ queued_paths \in 1..MaxQueue
  BY DEF TypeOK, ControlTypes, MapTypes, CountTypes, Entries, CalLocals
<1>2. CASE DryRun
  <2>1. CalEnter(cal.q, "dry_done", trace_bits)
    BY <1>2 DEF DryRun
  <2> QED
    BY <1>0, <2>1, CalEnterType
<1>3. CASE DrySeedGood \/ DrySeedSkipped
  <2>1. cal' = [NoCal EXCEPT !.q = IF cal.q < queued_paths THEN cal.q + 1 ELSE 0]
    BY <1>3 DEF DrySeedGood, DrySeedSkipped, DryNext
  <2>2. (IF cal.q < queued_paths THEN cal.q + 1 ELSE 0) \in 0..MaxQueue
    BY <1>0, Numbers
  <2> QED
    BY <2>1, <2>2, NoCalType
<1>4. CASE CalRunFails \/ ScoreDone
  <2>1. cal' = [NoCal EXCEPT !.q = IF cal.back = "dry_done" THEN cal.q ELSE 0]
    BY <1>4 DEF CalRunFails, ScoreDone, CalExit
  <2>2. (IF cal.back = "dry_done" THEN cal.q ELSE 0) \in 0..MaxQueue
    BY <1>0, Numbers
  <2> QED
    BY <2>1, <2>2, NoCalType
<1>5. CASE CalRun
  <2>1. cal.q \in Entries /\ cal.cycle < cal.max
    BY <1>5, ScoreContext DEF CalRun
  <2> DEFINE differs(t) == exec_cksum[cal.q] # t
             known == exec_cksum[cal.q] # NoTrace
             moved(t) == {i \in Bits : cal.first[i] # t[i]} \ var_bytes
             mx(t) == IF differs(t) /\ known /\ moved(t) # {}
                      THEN CAL_CYCLES_LONG ELSE cal.max
             fi(t) == IF known THEN cal.first ELSE t
             nw(t) == IF differs(t) /\ NewBits(t) > cal.new
                      THEN NewBits(t) ELSE cal.new
             b(t) == differs(t) /\ known
  <2>2. PICK t \in Traces[input[cal.q]] :
          cal' = [cal EXCEPT !.cycle = @ + 1, !.max = mx(t), !.first = fi(t),
                             !.new = nw(t), !.var = @ \/ b(t)]
    BY <1>5 DEF CalRun
  <2>3. t \in TraceSet /\ NewBits(t) \in 0..2
    BY <2>1, RunIsTrace DEF NewBits
  <2>4. /\ mx(t) \in {cal.max, CAL_CYCLES_LONG} /\ fi(t) \in {cal.first, t}
        /\ nw(t) \in {cal.new, NewBits(t)} /\ b(t) \in BOOLEAN
    OBVIOUS
  <2> HIDE DEF mx, fi, nw, b
  <2>5. cal' = [q |-> cal.q, back |-> cal.back, cycle |-> cal.cycle + 1,
                max |-> mx(t), first |-> fi(t), new |-> nw(t),
                var |-> cal.var \/ b(t)]
    BY <1>0, <2>2 DEF CalLocals
  <2>6. cal.cycle + 1 \in 0..CAL_CYCLES_LONG
    BY <1>0, <2>1, Numbers DEF CalLocals
  <2>7. (cal.var \/ b(t)) \in BOOLEAN
    OBVIOUS
  <2> QED
    BY <1>0, <2>3, <2>4, <2>5, <2>6, <2>7 DEF CalLocals
<1>6. CASE Recalibrate
  <2>1. CalEnter(queue_cur, "fuzz_cal", trace_bits)
    BY <1>6 DEF Recalibrate
  <2> QED
    BY <1>0, <2>1, CalEnterType
<1>7. CASE TrimShortens
  <2>1. cal' = [NoCal EXCEPT !.q = queue_cur, !.back = "stages"]
    BY <1>7 DEF TrimShortens
  <2> QED
    BY <1>0, <2>1, NoCalType
<1>8. CASE ExecNew
  <2>1. PICK x \in Inputs : \E t \in Traces[x] : CalEnter(queued_paths + 1, "stages", t)
    BY <1>8 DEF ExecNew
  <2>2. PICK t \in TraceSet : CalEnter(queued_paths + 1, "stages", t)
    BY <2>1, TracesAreTraces
  <2>3. queued_paths + 1 \in 0..MaxQueue
    BY <1>0, <1>8, Numbers DEF ExecNew
  <2> QED
    BY <2>2, <2>3, CalEnterType
<1>9. CASE UNCHANGED cal
  BY <1>0, <1>9
<1> QED
  BY <1>2, <1>3, <1>4, <1>5, <1>6, <1>7, <1>8, <1>9, Frames

PCs == {"dry_run", "dry_done", "calibrate", "score", "main", "cull", "fuzz",
        "fuzz_cal", "trim", "stages", "abandon", "exit", "fatal"}

LEMMA PcTypeStep ==
  ASSUME TypeOK, ControlInv, [Next]_vars
  PROVE  pc' \in PCs
<1>0. pc \in PCs
  BY DEF TypeOK, ControlTypes, PCs
<1>1. DryRun \/ DrySeedGood \/ DrySeedSkipped \/ DrySeedFatal \/ DryStopped =>
        pc' \in PCs
  BY DEF DryRun, CalEnter, DrySeedGood, DryNext, DrySeedSkipped, DrySeedFatal,
         Leave, DryStopped, PCs
<1>2. CalRunFails \/ CalRun \/ CalRated => pc' \in PCs
  <2>1. pc \in {"calibrate", "score"} => cal.back \in PCs
    BY DEF TypeOK, ControlTypes, CalLocals, ControlInv, InCal, PCs
  <2> QED
    BY <1>0, <2>1 DEF CalRunFails, CalExit, CalRun, CalRated, PCs
<1>3. ScoreWins \/ ScoreLoses \/ ScoreDone => pc' \in PCs
  <2>1. pc \in {"calibrate", "score"} => cal.back \in PCs
    BY DEF TypeOK, ControlTypes, CalLocals, ControlInv, InCal, PCs
  <2> QED
    BY <1>0, <2>1 DEF ScoreWins, ScoreLoses, ScoreDone, CalExit
<1>4. CullStart \/ CullTake \/ CullPass \/ CullEnd => pc' \in PCs
  BY <1>0 DEF CullStart, CullTake, CullPass, CullEnd, PCs
<1>5. NewCycle \/ SkipEntry \/ FuzzOne \/ Recalibrate => pc' \in PCs
  BY <1>0 DEF NewCycle, SkipEntry, NextEntry, FuzzOne, Leave, Recalibrate,
              CalEnter, PCs
<1>6. CalibrationHopeless \/ Calibrated \/ TrimSkipped => pc' \in PCs
  BY DEF CalibrationHopeless, Leave, Calibrated, TrimSkipped, PCs
<1>7. TrimNothing \/ TrimShortens \/ ExecNew => pc' \in PCs
  BY DEF TrimNothing, TrimShortens, ExecNew, CalEnter, PCs
<1>8. ExecOld \/ ExecFaulty \/ StagesEnd \/ Abandon => pc' \in PCs
  BY <1>0 DEF ExecOld, ExecFaulty, OnlyTrace, ctlVars, StagesEnd, Leave, Abandon,
              NextEntry, PCs
<1>9. Interrupt \/ Stopped \/ UNCHANGED vars => pc' \in PCs
  BY <1>0 DEF Interrupt, Stopped, vars, ctlVars
<1> QED
  BY <1>1, <1>2, <1>3, <1>4, <1>5, <1>6, <1>7, <1>8, <1>9 DEF Next, Step

LEMMA ControlTypesStep ==
  ASSUME TypeOK, ControlInv, FreshInv, [Next]_vars
  PROVE  ControlTypes'
<1>0. /\ queue_cur \in 0..MaxQueue /\ queued_paths \in 1..MaxQueue
      /\ stop_soon \in BOOLEAN /\ idx \in 0..MAP_SIZE /\ temp_v \subseteq Bits
  BY DEF TypeOK, ControlTypes, CountTypes, Entries
<1>1. queue_cur' \in 0..MaxQueue
  <2>1. CASE NewCycle
    BY <2>1, <1>0, Numbers DEF NewCycle
  <2>2. CASE SkipEntry \/ Abandon
    BY <2>2, <1>0, Numbers DEF SkipEntry, Abandon, NextEntry
  <2>3. CASE UNCHANGED queue_cur
    BY <2>3, <1>0
  <2> QED
    BY <2>1, <2>2, <2>3, Frames
<1>2. stop_soon' \in BOOLEAN
  <2>1. CASE Interrupt
    BY <2>1 DEF Interrupt
  <2>2. CASE UNCHANGED stop_soon
    BY <2>2, <1>0
  <2> QED
    BY <2>1, <2>2, Frames
<1>3. idx' \in 0..MAP_SIZE
  <2>1. CASE CalRunFails \/ CalRated \/ ScoreDone \/ CullStart \/ CullEnd
             \/ TrimShortens
    <3>1. idx' = 0
      BY <2>1 DEF CalRunFails, CalExit, CalRated, ScoreDone, CullStart, CullEnd,
                  TrimShortens
    <3> QED
      BY <3>1, Numbers
  <2>2. CASE ScoreWins \/ ScoreLoses \/ CullTake \/ CullPass
    <3>1. idx < MAP_SIZE /\ idx' = idx + 1
      BY <2>2 DEF ScoreWins, ScoreLoses, CullTake, CullPass
    <3> QED
      BY <1>0, <3>1, Numbers
  <2>3. CASE UNCHANGED idx
    BY <2>3, <1>0
  <2> QED
    BY <2>1, <2>2, <2>3, Frames
<1>4. temp_v' \subseteq Bits
  <2>1. CASE CullStart \/ CullTake \/ CullEnd
    BY <2>1, <1>0 DEF CullStart, CullTake, CullEnd
  <2>2. CASE UNCHANGED temp_v
    BY <2>2, <1>0
  <2> QED
    BY <2>1, <2>2, Frames
<1> QED
  BY <1>1, <1>2, <1>3, <1>4, PcTypeStep, CalTypeStep DEF ControlTypes, PCs

-----------------------------------------------------------------------------
(* The theorems. *)

\* QueueInv is inductive: whatever the target shows, whenever runs fail and
\* wherever Ctrl-C comes, the queue's bookkeeping holds after every step of
\* calibrate_case, update_bitmap_score, cull_queue, fuzz_one and
\* save_if_interesting.
THEOREM QueueInvariance == Spec => []QueueInv
<1>1. Init => QueueInv
  BY TypeInit, ControlInit, RefsInit, CountersInit, PendingInit, RatedInit, CoverInit
     DEF QueueInv
<1>2. QueueInv /\ [Next]_vars => QueueInv'
  <2> SUFFICES ASSUME QueueInv, [Next]_vars
               PROVE  QueueInv'
    OBVIOUS
  <2>1. /\ TypeOK /\ ControlInv /\ FreshInv /\ RatedInv /\ RefsExact /\ ScoreInv
        /\ MiniInv /\ CountersExact /\ PendingFavoredExact /\ CullInv /\ FavoredCover
    BY DEF QueueInv
  <2>2. RefsExact'
    BY <2>1, RefsStep
  <2>3. CountersExact'
    BY <2>1, CountersStep
  <2>4. PendingFavoredExact'
    BY <2>1, PendingStep
  <2>5. ControlInv'
    BY <2>1, ControlStep
  <2>6. FreshInv'
    BY <2>1, FreshStep
  <2>7. RatedInv'
    BY <2>1, RatedStep
  <2>8. ScoreInv'
    BY <2>1, ScoreStep
  <2>9. MiniInv'
    BY <2>1, MiniStep
  <2>10. CullInv' /\ FavoredCover'
    BY <2>1, CoverStep
  <2>11. EntryTypes'
    BY <2>1, <2>2, EntryTypesStep
  <2>12. CountTypes'
    BY <2>1, <2>3, <2>4, CountTypesStep
  <2>13. MapTypes'
    BY <2>1, MapTypesStep
  <2>14. ControlTypes'
    BY <2>1, ControlTypesStep
  <2> QED
    BY <2>2, <2>3, <2>4, <2>5, <2>6, <2>7, <2>8, <2>9, <2>10, <2>11, <2>12, <2>13,
       <2>14 DEF QueueInv, TypeOK
<1> QED
  BY <1>1, <1>2, PTL DEF Spec

\* No counter of the queue wraps and every field keeps its type.
THEOREM QueueTypeCorrect == Spec => []TypeOK
<1>1. QueueInv => TypeOK
  BY DEF QueueInv
<1> QED
  BY <1>1, QueueInvariance, PTL

\* update_bitmap_score keeps tc_ref equal to the bytes an entry is top rated
\* for and frees trace_mini with the last: cull_queue never reads a freed one.
THEOREM RefsAreExact == Spec => []RefsExact
<1>1. QueueInv => RefsExact
  BY DEF QueueInv
<1> QED
  BY <1>1, QueueInvariance, PTL

\* Failed, repeated and aborted calibrations count every entry once in
\* queued_with_cov and queued_variable, and abandon_entry counts it out once.
THEOREM CountersAreExact == Spec => []CountersExact
<1>1. QueueInv => CountersExact
  BY DEF QueueInv
<1> QED
  BY <1>1, QueueInvariance, PTL

\* pending_favored never wraps: fuzz_one decrements only what cull_queue counted.
THEOREM PendingIsExact == Spec => []PendingFavoredExact
<1>1. QueueInv => PendingFavoredExact
  BY DEF QueueInv
<1> QED
  BY <1>1, QueueInvariance, PTL

\* The greedy loop of cull_queue leaves every rated byte covered by a favored
\* entry.
THEOREM FavoredCovers == Spec => []FavoredCover
<1>1. QueueInv => FavoredCover
  BY DEF QueueInv
<1> QED
  BY <1>1, QueueInvariance, PTL

LEMMA Shorter ==
  ASSUME NEW a \in Nat, NEW b \in Nat, NEW c \in Nat, b <= c
  PROVE  a * b <= a * c
<1>1. c = b + (c - b) /\ c - b \in Nat
  OBVIOUS
<1>2. a * c = a * b + a * (c - b)
  BY <1>1
<1>3. a * (c - b) >= 0 /\ a * (c - b) \in Int /\ a * b \in Int
  BY <1>1
<1> QED
  BY <1>2, <1>3

\* The rating of a byte by time * length never gets worse: a winner beats the
\* rating it replaces, trimming only shortens, and an entry is timed anew only
\* while its calibration counts as failed, when it is rated for nothing.
THEOREM RatingsImprove == Spec => RatingNeverWorsens
<1>1. QueueInv /\ [Next]_vars =>
        [\A i \in Bits : top_rated[i] # 0 =>
           top_rated'[i] # 0 /\ Rating(i)' <= Rating(i)]_vars
  <2> SUFFICES ASSUME QueueInv, [Next]_vars, NEW i \in Bits, top_rated[i] # 0
               PROVE  top_rated'[i] # 0 /\ Rating(i)' <= Rating(i)
    OBVIOUS
  <2>0. TypeOK /\ ControlInv /\ FreshInv /\ RatedInv
    BY DEF QueueInv
  <2> DEFINE f == top_rated[i]
  <2>1. /\ f \in Entries /\ cal_failed[f] = 0
        /\ exec_us \in [Entries -> 0..MaxUs] /\ input \in [Entries -> Inputs]
        /\ top_rated \in [Bits -> 0..MaxQueue] /\ cal.q \in 0..MaxQueue
    BY <2>0 DEF TypeOK, EntryTypes, MapTypes, ControlTypes, CalLocals, RatedInv, Entries
  <2>2. /\ \A x \in Inputs : Len_[x] \in Nat
        /\ exec_us[f] \in Nat
    BY <2>1, QueueAssumption
  <2>3. CASE ScoreWins
    <3>1. /\ top_rated' = [top_rated EXCEPT ![idx] = cal.q] /\ Wins(cal.q, idx)
          /\ UNCHANGED <<exec_us, input>> /\ cal.q # 0
      BY <2>0, <2>3, ScoreContext DEF ScoreWins, Entries
    <3>2. CASE i = idx
      BY <3>1, <3>2, <2>1 DEF Rating, Wins, fav_factor
    <3>3. CASE i # idx
      <4>1. top_rated'[i] = f
        BY <3>1, <3>3, <2>1
      <4>2. Rating(i)' = Rating(i) /\ Rating(i) \in Nat
        BY <4>1, <3>1, <2>1, <2>2 DEF Rating, fav_factor
      <4> QED
        BY <4>1, <4>2
    <3> QED
      BY <3>2, <3>3
  <2>4. ASSUME UNCHANGED top_rated
        PROVE  top_rated'[i] # 0 /\ Rating(i)' <= Rating(i)
    <3>1. exec_us'[f] = exec_us[f]
      <4>1. CASE CalRated
        <5>1. f # cal.q
          BY <4>1, <2>0, <2>1 DEF CalRated, ControlInv
        <5> QED
          BY <4>1, <5>1, <2>1 DEF CalRated
      <4>2. CASE UNCHANGED exec_us
        BY <4>2
      <4> QED
        BY <4>1, <4>2, Frames
    <3>2. input'[f] \in Inputs /\ Len_[input'[f]] <= Len_[input[f]]
      <4>1. CASE TrimShortens
        <5>1. PICK x \in Inputs : /\ Len_[x] < Len_[input[queue_cur]]
                                  /\ input' = [input EXCEPT ![queue_cur] = x]
          BY <4>1 DEF TrimShortens
        <5> QED
          BY <5>1, <2>1, <2>2
      <4>2. CASE ExecNew
        <5>1. f # queued_paths + 1
          BY <4>2, <2>0, NewEntry
        <5>2. \E x : input' = [input EXCEPT ![queued_paths + 1] = x]
          BY <4>2 DEF ExecNew
        <5>3. input'[f] = input[f]
          BY <5>1, <5>2, <2>1
        <5> QED
          BY <5>3, <2>1, <2>2
      <4>3. CASE UNCHANGED input
        BY <4>3, <2>1, <2>2
      <4> QED
        BY <4>1, <4>2, <4>3, Frames
    <3>3. exec_us[f] * Len_[input'[f]] <= exec_us[f] * Len_[input[f]]
      BY <3>2, <2>1, <2>2, Shorter
    <3> QED
      BY <2>4, <3>1, <3>3 DEF Rating, fav_factor
  <2> QED
    BY <2>3, <2>4, Frames
<1>2. Spec => [][Next]_vars
  BY DEF Spec
<1> QED
  BY <1>1, <1>2, QueueInvariance, PTL DEF RatingNeverWorsens

-----------------------------------------------------------------------------
(* A target that shows one trace for each input. *)

OneTrace == \A x \in Inputs : \A t, u \in Traces[x] : t = u

\* A checksum is that of a trace the entry's input shows.
KnownInv == \A e \in Entries : exec_cksum[e] # NoTrace => exec_cksum[e] \in Traces[input[e]]

\* What update_bitmap_score has done for entry e below byte n.
RatedBelow(e, n) == \A i \in Bits : i < n /\ exec_cksum[e][i] # 0 => top_rated[i] # 0

\* Neither in calibration nor waiting for its dry run, and never failed.
Settled(e) ==
  e \in InQueue /\ ~Fresh(e) /\ cal_failed[e] = 0 /\ ~(pc = "score" /\ e = cal.q)

\* The trace that calibration leaves for the rating is that of the entry, and
\* it is rated byte by byte; an entry whose calibration has succeeded is rated
\* for all it hits.
ShownInv ==
  /\ pc = "calibrate" => cal.max # 0
  /\ pc = "calibrate" /\ cal.cycle # 0 =>
       exec_cksum[cal.q] # NoTrace /\ trace_bits = exec_cksum[cal.q]
  /\ pc = "score" =>
       /\ exec_cksum[cal.q] # NoTrace /\ trace_bits = exec_cksum[cal.q]
       /\ RatedBelow(cal.q, idx)
  /\ pc \notin {"exit", "fatal"} =>
       \A e \in Entries : Settled(e) =>
         exec_cksum[e] # NoTrace /\ RatedBelow(e, MAP_SIZE)

SteadyInv == KnownInv /\ SeenIsQueued /\ ShownInv

\* An entry settles only at the end of its rating.
LEMMA SettledStep ==
  ASSUME TypeOK, ControlInv, FreshInv, [Next]_vars, NEW e \in Entries,
         Settled(e)', pc' \notin {"exit", "fatal"}
  PROVE  pc \notin {"exit", "fatal"} /\ (Settled(e) \/ (ScoreDone /\ e = cal.q))
<1>0. /\ queued_paths \in 1..MaxQueue /\ MaxQueue \in Nat /\ queue_cur \in 0..MaxQueue
      /\ cal \in CalLocals /\ cal.q \in 0..MaxQueue
      /\ cal_failed \in [Entries -> 0..CAL_CHANCES] /\ CAL_CHANCES \in Nat \ {0}
  BY Numbers DEF TypeOK, EntryTypes, CountTypes, ControlTypes, CalLocals, Entries
<1>1. CASE DryRun
  BY <1>1, <1>0 DEF DryRun, CalEnter, countVars, mapVars, ctlVars, vars,
      entryVars, ControlInv, Settled, Fresh, InDry, InCal, InFuzzOne, InQueue,
      CalLocals, NoCal, Entries
<1>2. CASE DrySeedGood
  BY <1>2, <1>0 DEF DrySeedGood, DryNext, countVars, mapVars, ctlVars, vars,
      entryVars, ControlInv, Settled, Fresh, InDry, InCal, InFuzzOne, InQueue,
      CalLocals, NoCal, Entries
<1>3. CASE DrySeedSkipped
  BY <1>3, <1>0 DEF DrySeedSkipped, DryNext, countVars, mapVars, ctlVars, vars,
      entryVars, ControlInv, Settled, Fresh, InDry, InCal, InFuzzOne, InQueue,
      CalLocals, NoCal, Entries
<1>4. CASE DrySeedFatal
  BY <1>4, <1>0 DEF DrySeedFatal, Leave, entryVars, countVars, mapVars, ctlVars,
      vars, ControlInv, Settled, Fresh, InDry, InCal, InFuzzOne, InQueue,
      CalLocals, NoCal, Entries
<1>5. CASE DryStopped
  BY <1>5, <1>0 DEF DryStopped, Leave, entryVars, countVars, mapVars, ctlVars,
      vars, ControlInv, Settled, Fresh, InDry, InCal, InFuzzOne, InQueue,
      CalLocals, NoCal, Entries
<1>6. CASE CalRunFails
  BY <1>6, <1>0 DEF CalRunFails, CalExit, ControlInv, Settled, Fresh, InDry,
      InCal, InFuzzOne, InQueue, CalLocals, NoCal, Entries
<1>7. CASE CalRun
  BY <1>7, <1>0 DEF CalRun, countVars, mapVars, ctlVars, vars, entryVars,
      ControlInv, Settled, Fresh, InDry, InCal, InFuzzOne, InQueue, CalLocals,
      NoCal, Entries
<1>8. CASE CalRated
  BY <1>8, <1>0 DEF CalRated, countVars, mapVars, ctlVars, vars, entryVars,
      ControlInv, Settled, Fresh, InDry, InCal, InFuzzOne, InQueue, CalLocals,
      NoCal, Entries
<1>9. CASE ScoreWins
  BY <1>9, <1>0 DEF ScoreWins, countVars, mapVars, ctlVars, vars, entryVars,
      ControlInv, Settled, Fresh, InDry, InCal, InFuzzOne, InQueue, CalLocals,
      NoCal, Entries
<1>10. CASE ScoreLoses
  BY <1>10, <1>0 DEF ScoreLoses, entryVars, countVars, mapVars, ctlVars, vars,
      ControlInv, Settled, Fresh, InDry, InCal, InFuzzOne, InQueue, CalLocals,
      NoCal, Entries
<1>11. CASE ScoreDone
  BY <1>11, <1>0 DEF ScoreDone, CalExit, mapVars, ctlVars, vars, entryVars,
      countVars, ControlInv, Settled, Fresh, InDry, InCal, InFuzzOne, InQueue,
      CalLocals, NoCal, Entries
<1>12. CASE CullStart
  BY <1>12, <1>0 DEF CullStart, ControlInv, Settled, Fresh, InDry, InCal,
      InFuzzOne, InQueue, CalLocals, NoCal, Entries
<1>13. CASE CullTake
  BY <1>13, <1>0 DEF CullTake, mapVars, ctlVars, vars, entryVars, countVars,
      ControlInv, Settled, Fresh, InDry, InCal, InFuzzOne, InQueue, CalLocals,
      NoCal, Entries
<1>14. CASE CullPass
  BY <1>14, <1>0 DEF CullPass, entryVars, countVars, mapVars, ctlVars, vars,
      ControlInv, Settled, Fresh, InDry, InCal, InFuzzOne, InQueue, CalLocals,
      NoCal, Entries
<1>15. CASE CullEnd
  BY <1>15, <1>0 DEF CullEnd, countVars, mapVars, ctlVars, vars, entryVars,
      ControlInv, Settled, Fresh, InDry, InCal, InFuzzOne, InQueue, CalLocals,
      NoCal, Entries
<1>16. CASE NewCycle
  BY <1>16, <1>0 DEF NewCycle, entryVars, countVars, mapVars, ctlVars, vars,
      ControlInv, Settled, Fresh, InDry, InCal, InFuzzOne, InQueue, CalLocals,
      NoCal, Entries
<1>17. CASE SkipEntry
  BY <1>17, <1>0 DEF SkipEntry, AtHead, NextEntry, entryVars, countVars, mapVars,
      ctlVars, vars, ControlInv, Settled, Fresh, InDry, InCal, InFuzzOne,
      InQueue, CalLocals, NoCal, Entries
<1>18. CASE FuzzOne
  BY <1>18, <1>0 DEF FuzzOne, AtHead, Leave, entryVars, countVars, mapVars, ctlVars,
      vars, ControlInv, Settled, Fresh, InDry, InCal, InFuzzOne, InQueue,
      CalLocals, NoCal, Entries
<1>19. CASE Recalibrate
  BY <1>19, <1>0 DEF Recalibrate, CalEnter, countVars, mapVars, ctlVars, vars,
      entryVars, ControlInv, Settled, Fresh, InDry, InCal, InFuzzOne, InQueue,
      CalLocals, NoCal, Entries
<1>20. CASE CalibrationHopeless
  BY <1>20, <1>0 DEF CalibrationHopeless, Leave, entryVars, countVars, mapVars,
      ctlVars, vars, ControlInv, Settled, Fresh, InDry, InCal, InFuzzOne,
      InQueue, CalLocals, NoCal, Entries
<1>21. CASE Calibrated
  BY <1>21, <1>0 DEF Calibrated, Leave, entryVars, countVars, mapVars, ctlVars,
      vars, ControlInv, Settled, Fresh, InDry, InCal, InFuzzOne, InQueue,
      CalLocals, NoCal, Entries
<1>22. CASE TrimSkipped
  BY <1>22, <1>0 DEF TrimSkipped, Leave, entryVars, countVars, mapVars, ctlVars,
      vars, ControlInv, Settled, Fresh, InDry, InCal, InFuzzOne, InQueue,
      CalLocals, NoCal, Entries
<1>23. CASE TrimNothing
  BY <1>23, <1>0 DEF TrimNothing, countVars, mapVars, ctlVars, vars, entryVars,
      ControlInv, Settled, Fresh, InDry, InCal, InFuzzOne, InQueue, CalLocals,
      NoCal, Entries
<1>24. CASE TrimShortens
  BY <1>24, <1>0 DEF TrimShortens, countVars, mapVars, ctlVars, vars, entryVars,
      ControlInv, Settled, Fresh, InDry, InCal, InFuzzOne, InQueue, CalLocals,
      NoCal, Entries
<1>25. CASE ExecNew
  BY <1>25, <1>0 DEF ExecNew, CalEnter, ControlInv, Settled, Fresh, InDry,
      InCal, InFuzzOne, InQueue, CalLocals, NoCal, Entries
<1>26. CASE ExecOld
  BY <1>26, <1>0 DEF ExecOld, OnlyTrace, entryVars, countVars, ctlVars, vars,
      mapVars, ControlInv, Settled, Fresh, InDry, InCal, InFuzzOne, InQueue,
      CalLocals, NoCal, Entries
<1>27. CASE ExecFaulty
  BY <1>27, <1>0 DEF ExecFaulty, OnlyTrace, entryVars, countVars, ctlVars, vars,
      mapVars, ControlInv, Settled, Fresh, InDry, InCal, InFuzzOne, InQueue,
      CalLocals, NoCal, Entries
<1>28. CASE StagesEnd
  BY <1>28, <1>0 DEF StagesEnd, Leave, entryVars, countVars, mapVars, ctlVars,
      vars, ControlInv, Settled, Fresh, InDry, InCal, InFuzzOne, InQueue,
      CalLocals, NoCal, Entries
<1>29. CASE Abandon
  BY <1>29, <1>0 DEF Abandon, NextEntry, mapVars, ctlVars, vars, entryVars,
      countVars, ControlInv, Settled, Fresh, InDry, InCal, InFuzzOne, InQueue,
      CalLocals, NoCal, Entries
<1>30. CASE Interrupt
  BY <1>30, <1>0 DEF Interrupt, entryVars, countVars, mapVars, ctlVars, vars,
      ControlInv, Settled, Fresh, InDry, InCal, InFuzzOne, InQueue, CalLocals,
      NoCal, Entries
<1>31. CASE Stopped
  BY <1>31, <1>0 DEF Stopped, vars, entryVars, countVars, mapVars, ctlVars,
      ControlInv, Settled, Fresh, InDry, InCal, InFuzzOne, InQueue, CalLocals,
      NoCal, Entries
<1>32. CASE UNCHANGED vars
  BY <1>32, <1>0 DEF vars, entryVars, countVars, mapVars, ctlVars, ControlInv,
      Settled, Fresh, InDry, InCal, InFuzzOne, InQueue, CalLocals, NoCal,
      Entries
<1> QED
  BY <1>1, <1>2, <1>3, <1>4, <1>5, <1>6, <1>7, <1>8, <1>9, <1>10, <1>11, <1>12,
      <1>13, <1>14, <1>15, <1>16, <1>17, <1>18, <1>19, <1>20, <1>21, <1>22,
      <1>23, <1>24, <1>25, <1>26, <1>27, <1>28, <1>29, <1>30, <1>31, <1>32 DEF
      Next, Step

LEMMA KnownStep ==
  ASSUME TypeOK, ControlInv, FreshInv, KnownInv, [Next]_vars
  PROVE  KnownInv'
<1> SUFFICES ASSUME NEW f \in Entries, exec_cksum'[f] # NoTrace
             PROVE  exec_cksum'[f] \in Traces[input'[f]]
  BY DEF KnownInv
<1>0. /\ exec_cksum \in [Entries -> {NoTrace} \cup TraceSet]
      /\ input \in [Entries -> Inputs]
  BY DEF TypeOK, EntryTypes
<1>1. CASE CalRun
  <2>1. PICK t \in Traces[input[cal.q]] :
          exec_cksum' = IF exec_cksum[cal.q] # NoTrace THEN exec_cksum
                        ELSE [exec_cksum EXCEPT ![cal.q] = t]
    BY <1>1 DEF CalRun
  <2>2. input' = input
    BY <1>1 DEF CalRun
  <2> QED
    BY <2>1, <2>2, <1>0 DEF KnownInv
<1>2. CASE ExecNew
  <2>1. PICK x \in Inputs : \E t \in Traces[x] :
          /\ input' = [input EXCEPT ![queued_paths + 1] = x]
          /\ exec_cksum' = [exec_cksum EXCEPT ![queued_paths + 1] = t]
    BY <1>2 DEF ExecNew
  <2> QED
    BY <2>1, <1>0 DEF KnownInv
<1>3. CASE TrimShortens
  <2>1. PICK x \in Inputs : /\ exec_cksum[queue_cur] \in Traces[x]
                            /\ input' = [input EXCEPT ![queue_cur] = x]
    BY <1>3 DEF TrimShortens
  <2>2. exec_cksum' = exec_cksum
    BY <1>3 DEF TrimShortens
  <2> QED
    BY <2>1, <2>2, <1>0 DEF KnownInv
<1>4. CASE UNCHANGED <<input, exec_cksum>>
  BY <1>4 DEF KnownInv
<1> QED
  BY <1>1, <1>2, <1>3, <1>4, Frames

\* With one trace for each input a calibration run shows the checksum's trace,
\* which it takes if there is none yet.
LEMMA SameTrace ==
  ASSUME OneTrace, TypeOK, ControlInv, KnownInv, CalRun
  PROVE  \E t \in TraceSet :
           /\ cal.q \in InQueue /\ cal.q \in Entries
           /\ trace_bits' = t /\ exec_cksum'[cal.q] = t
           /\ \/ /\ exec_cksum[cal.q] = t /\ exec_cksum' = exec_cksum
                 /\ virgin_bits' = virgin_bits
              \/ /\ exec_cksum[cal.q] = NoTrace /\ virgin_bits' = Seen(t)
                 /\ exec_cksum' = [exec_cksum EXCEPT ![cal.q] = t]
<1>1. cal.q \in Entries /\ cal.q \in InQueue
  BY ScoreContext DEF CalRun
<1>2. PICK t \in Traces[input[cal.q]] :
        /\ trace_bits' = t
        /\ virgin_bits' = IF exec_cksum[cal.q] # t THEN Seen(t) ELSE virgin_bits
        /\ exec_cksum' = IF exec_cksum[cal.q] # NoTrace THEN exec_cksum
                         ELSE [exec_cksum EXCEPT ![cal.q] = t]
  BY DEF CalRun
<1>3. /\ exec_cksum \in [Entries -> {NoTrace} \cup TraceSet]
      /\ input[cal.q] \in Inputs
  BY <1>1 DEF TypeOK, EntryTypes
<1>4. t \in TraceSet /\ t # NoTrace
  BY <1>2, <1>3, TracesAreTraces, NoTraceIsNone
<1>5. CASE exec_cksum[cal.q] = NoTrace
  BY <1>1, <1>2, <1>3, <1>4, <1>5
<1>6. CASE exec_cksum[cal.q] # NoTrace
  <2>1. exec_cksum[cal.q] = t
    BY <1>1, <1>2, <1>3, <1>6 DEF KnownInv, OneTrace
  <2> QED
    BY <1>1, <1>2, <1>4, <1>6, <2>1
<1> QED
  BY <1>5, <1>6

\* has_new_bits takes from virgin_bits only for the entry that gets the trace.
LEMMA SeenStep ==
  ASSUME OneTrace, TypeOK, ControlInv, FreshInv, KnownInv, SeenIsQueued, [Next]_vars
  PROVE  SeenIsQueued'
<1> SUFFICES ASSUME NEW i \in Bits, NEW b \in Buckets \ virgin_bits'[i]
             PROVE  \E f \in InQueue' : exec_cksum'[f] # NoTrace /\ exec_cksum'[f][i] = b
  BY DEF SeenIsQueued
<1>0. /\ exec_cksum \in [Entries -> {NoTrace} \cup TraceSet]
      /\ virgin_bits \in [Bits -> SUBSET Buckets] /\ InQueue \subseteq Entries
      /\ b \in Buckets
  BY QueueFinite DEF TypeOK, EntryTypes, MapTypes
<1>1. CASE CalRun
  <2>0. InQueue' = InQueue
    BY <1>1 DEF CalRun, countVars, InQueue
  <2>1. PICK t \in TraceSet :
           /\ cal.q \in InQueue /\ exec_cksum'[cal.q] = t
           /\ \/ exec_cksum' = exec_cksum /\ virgin_bits' = virgin_bits
              \/ /\ exec_cksum[cal.q] = NoTrace /\ virgin_bits' = Seen(t)
                 /\ exec_cksum' = [exec_cksum EXCEPT ![cal.q] = t]
    BY <1>1, SameTrace
  <2>2. CASE exec_cksum' = exec_cksum /\ virgin_bits' = virgin_bits
    BY <2>0, <2>2 DEF SeenIsQueued
  <2>3. CASE /\ exec_cksum[cal.q] = NoTrace /\ virgin_bits' = Seen(t)
             /\ exec_cksum' = [exec_cksum EXCEPT ![cal.q] = t]
    <3>1. b \notin virgin_bits[i] \/ b = t[i]
      BY <2>3, <1>0 DEF Seen
    <3>2. CASE b = t[i]
      BY <2>0, <2>1, <3>2, NoTraceIsNone
    <3>3. CASE b \notin virgin_bits[i]
      <4>1. PICK f \in InQueue : exec_cksum[f] # NoTrace /\ exec_cksum[f][i] = b
        BY <1>0, <3>3 DEF SeenIsQueued
      <4>2. exec_cksum'[f] = exec_cksum[f]
        BY <4>1, <2>3, <1>0
      <4> QED
        BY <2>0, <4>1, <4>2
    <3> QED
      BY <3>1, <3>2, <3>3
  <2> QED
    BY <2>1, <2>2, <2>3
<1>2. CASE ExecNew
  <2> DEFINE e == queued_paths + 1
  <2>0. e \in Entries /\ e \notin InQueue /\ InQueue' = InQueue \cup {e}
    BY <1>2, NewEntry
  <2>1. PICK x \in Inputs : \E t \in Traces[x] :
          virgin_bits' = Seen(t) /\ exec_cksum' = [exec_cksum EXCEPT ![e] = t]
    BY <1>2 DEF ExecNew
  <2>2. PICK t \in TraceSet :
          virgin_bits' = Seen(t) /\ exec_cksum' = [exec_cksum EXCEPT ![e] = t]
    BY <2>1, TracesAreTraces
  <2> HIDE DEF e
  <2>3. exec_cksum'[e] = t /\ t # NoTrace
    BY <2>0, <2>2, <1>0, NoTraceIsNone
  <2>4. b \notin virgin_bits[i] \/ b = t[i]
    BY <2>2, <1>0 DEF Seen
  <2>5. CASE b = t[i]
    BY <2>0, <2>3, <2>5
  <2>6. CASE b \notin virgin_bits[i]
    <3>1. PICK f \in InQueue : exec_cksum[f] # NoTrace /\ exec_cksum[f][i] = b
      BY <1>0, <2>6 DEF SeenIsQueued
    <3>2. exec_cksum'[f] = exec_cksum[f]
      BY <3>1, <2>0, <2>2, <1>0
    <3> QED
      BY <2>0, <3>1, <3>2
  <2> QED
    BY <2>4, <2>5, <2>6
<1>3. CASE UNCHANGED <<virgin_bits, exec_cksum, queued_paths>>
  BY <1>3 DEF SeenIsQueued, InQueue
<1> QED
  BY <1>1, <1>2, <1>3, Frames

\* A calibration run is entered by three callers.
LEMMA ToCalibrate ==
  ASSUME TypeOK, ControlInv, Next, pc' = "calibrate"
  PROVE  \/ DryRun \/ Recalibrate \/ ExecNew \/ CalRun \/ Interrupt
         \/ UNCHANGED vars
<1>0. cal.back \in {"none", "dry_done", "fuzz_cal", "stages"}
  BY DEF TypeOK, ControlTypes, CalLocals
<1>1. ~(DrySeedGood \/ DrySeedSkipped \/ DrySeedFatal \/ DryStopped
        \/ CalRunFails \/ CalRated)
  BY <1>0 DEF DrySeedGood, DryNext, DrySeedSkipped, DrySeedFatal, Leave, DryStopped,
              CalRunFails, CalExit, CalRated
<1>2. ~(ScoreWins \/ ScoreLoses \/ ScoreDone \/ CullStart \/ CullTake \/ CullPass
        \/ CullEnd)
  BY <1>0 DEF ScoreWins, ScoreLoses, ScoreDone, CalExit, CullStart, CullTake,
              CullPass, CullEnd
<1>3. ~(NewCycle \/ SkipEntry \/ FuzzOne \/ CalibrationHopeless \/ Calibrated)
  BY DEF NewCycle, SkipEntry, NextEntry, AtHead, FuzzOne, Leave, CalibrationHopeless,
         Calibrated
<1>4. ~(TrimSkipped \/ TrimNothing \/ TrimShortens \/ ExecOld \/ ExecFaulty
        \/ StagesEnd)
  BY DEF TrimSkipped, Leave, TrimNothing, TrimShortens, ExecOld, OnlyTrace, ctlVars,
         ExecFaulty, StagesEnd
<1>5. ~Abandon
  BY DEF Abandon, NextEntry
<1> QED
  BY <1>1, <1>2, <1>3, <1>4, <1>5 DEF Next, Step, Stopped

\* What an entry is rated for it stays rated for.
LEMMA RatedBelowStays ==
  ASSUME OneTrace, TypeOK, ControlInv, FreshInv, KnownInv, [Next]_vars,
         NEW f \in InQueue, NEW n \in Nat,
         exec_cksum[f] # NoTrace, RatedBelow(f, n)
  PROVE  exec_cksum'[f] = exec_cksum[f] /\ RatedBelow(f, n)'
<1>0. /\ exec_cksum \in [Entries -> {NoTrace} \cup TraceSet]
      /\ top_rated \in [Bits -> 0..MaxQueue] /\ f \in Entries
  BY QueueFinite DEF TypeOK, EntryTypes, MapTypes
<1>1. exec_cksum'[f] = exec_cksum[f]
  <2>1. CASE CalRun
    <3>1. \/ exec_cksum' = exec_cksum
          \/ exec_cksum[cal.q] = NoTrace
             /\ \E t : exec_cksum' = [exec_cksum EXCEPT ![cal.q] = t]
      BY <2>1, SameTrace
    <3> QED
      BY <3>1, <1>0
  <2>2. CASE ExecNew
    <3>1. f # queued_paths + 1
      BY <2>2, NewEntry
    <3>2. \E t : exec_cksum' = [exec_cksum EXCEPT ![queued_paths + 1] = t]
      BY <2>2 DEF ExecNew
    <3> QED
      BY <3>1, <3>2, <1>0
  <2> QED
    BY <2>1, <2>2, Frames
<1>2. \A i \in Bits : top_rated[i] # 0 => top_rated'[i] # 0
  <2>1. CASE ScoreWins
    <3>1. top_rated' = [top_rated EXCEPT ![idx] = cal.q] /\ cal.q \in Entries
      BY <2>1, ScoreContext DEF ScoreWins
    <3> QED
      BY <3>1, <1>0 DEF Entries
  <2>2. CASE UNCHANGED top_rated
    BY <2>2
  <2> QED
    BY <2>1, <2>2, Frames
<1> QED
  BY <1>1, <1>2 DEF RatedBelow

LEMMA ShownStep ==
  ASSUME OneTrace, TypeOK, ControlInv, FreshInv, KnownInv, ShownInv, [Next]_vars
  PROVE  ShownInv'
<1>0. /\ exec_cksum \in [Entries -> {NoTrace} \cup TraceSet]
      /\ top_rated \in [Bits -> 0..MaxQueue] /\ trace_bits \in TraceSet
      /\ cal \in CalLocals /\ idx \in 0..MAP_SIZE
  BY DEF TypeOK, EntryTypes, MapTypes, ControlTypes
<1>1. ASSUME pc' = "calibrate"
      PROVE  /\ cal'.max # 0
             /\ cal'.cycle # 0 => /\ exec_cksum'[cal'.q] # NoTrace
                                  /\ trace_bits' = exec_cksum'[cal'.q]
  <2>1. CASE DryRun \/ Recalibrate \/ ExecNew
    <3>1. \E e, back, trace : CalEnter(e, back, trace)
      BY <2>1 DEF DryRun, Recalibrate, ExecNew
    <3> QED
      BY <3>1, Numbers DEF CalEnter
  <2>2. CASE CalRun
    <3>1. trace_bits' = exec_cksum'[cal.q] /\ exec_cksum'[cal.q] # NoTrace
      BY <2>2, SameTrace, NoTraceIsNone
    <3>2. cal'.q = cal.q /\ cal'.max \in {cal.max, CAL_CYCLES_LONG} /\ cal.max # 0
      BY <2>2, <1>0 DEF CalRun, ShownInv, CalLocals
    <3> QED
      BY <3>1, <3>2, Numbers
  <2>3. CASE Interrupt \/ UNCHANGED vars
    BY <1>1, <2>3 DEF Interrupt, vars, entryVars, mapVars, ctlVars, ShownInv
  <2> QED
    BY <1>1, <2>1, <2>2, <2>3, ToCalibrate
<1>2. ASSUME pc' = "score"
      PROVE  /\ exec_cksum'[cal'.q] # NoTrace /\ trace_bits' = exec_cksum'[cal'.q]
             /\ RatedBelow(cal.q, idx)'
  <2>1. CASE CalRated
    <3>1. /\ cal.cycle # 0 /\ pc = "calibrate" /\ idx' = 0
          /\ UNCHANGED <<cal, exec_cksum, trace_bits>>
      BY <2>1, <1>0, Numbers DEF CalRated, mapVars, ShownInv, CalLocals
    <3>2. RatedBelow(cal.q, idx)'
      BY <3>1 DEF RatedBelow, Bits
    <3> QED
      BY <3>1, <3>2 DEF ShownInv
  <2>2. CASE ScoreWins \/ ScoreLoses
    <3>1. /\ pc = "score" /\ idx' = idx + 1 /\ idx \in Bits
          /\ UNCHANGED <<cal, exec_cksum, trace_bits>>
      BY <2>2, <1>0, Numbers DEF ScoreWins, ScoreLoses, entryVars, mapVars, Bits
    <3>2. cal.q \in InQueue /\ cal.q \in Entries
      BY <3>1, ScoreContext
    <3>3. /\ exec_cksum[cal.q] # NoTrace /\ trace_bits = exec_cksum[cal.q]
          /\ RatedBelow(cal.q, idx)
      BY <3>1 DEF ShownInv
    <3>4. trace_bits[idx] # 0 => top_rated'[idx] # 0
      <4>1. CASE ScoreWins
        BY <4>1, <3>1, <3>2, <1>0 DEF ScoreWins, Entries
      <4>2. CASE ScoreLoses
        BY <4>2, <3>1 DEF ScoreLoses, Wins, mapVars
      <4> QED
        BY <2>2, <4>1, <4>2
    <3>5. \A i \in Bits : i < idx /\ exec_cksum[cal.q][i] # 0 => top_rated'[i] # 0
      <4>1. PICK q \in InQueue, n \in Nat : q = cal.q /\ n = idx
        BY <3>2, <1>0, Numbers
      <4>2. exec_cksum'[q] = exec_cksum[q] /\ RatedBelow(q, n)'
        BY <4>1, <3>3, RatedBelowStays
      <4> QED
        BY <4>1, <4>2 DEF RatedBelow
    <3>6. \A i \in Bits : i < idx + 1 => i < idx \/ i = idx
      BY <1>0, Numbers DEF Bits
    <3>7. RatedBelow(cal.q, idx)'
      BY <3>1, <3>3, <3>4, <3>5, <3>6 DEF RatedBelow
    <3> QED
      BY <3>1, <3>3, <3>7
  <2>3. CASE Interrupt \/ UNCHANGED vars
    BY <1>2, <2>3 DEF Interrupt, vars, entryVars, mapVars, ctlVars, ShownInv, RatedBelow
  <2>4. CASE TrimShortens
    <3>1. /\ \E x \in Inputs : exec_cksum[queue_cur] \in Traces[x]
          /\ exec_cksum' = exec_cksum /\ trace_bits' = exec_cksum[queue_cur]
          /\ cal'.q = queue_cur /\ idx' = 0
      BY <2>4 DEF TrimShortens, NoCal
    <3>2. RatedBelow(cal.q, idx)'
      BY <3>1 DEF RatedBelow, Bits
    <3> QED
      BY <3>1, <3>2, TracesAreTraces, NoTraceIsNone
  <2> QED
    BY <1>2, <2>1, <2>2, <2>3, <2>4, ToScore
<1>3. ASSUME pc' \notin {"exit", "fatal"}, NEW f \in Entries, Settled(f)'
      PROVE  exec_cksum'[f] # NoTrace /\ RatedBelow(f, MAP_SIZE)'
  <2>1. pc \notin {"exit", "fatal"} /\ (Settled(f) \/ (ScoreDone /\ f = cal.q))
    BY <1>3, SettledStep
  <2>2. f \in InQueue /\ exec_cksum[f] # NoTrace /\ RatedBelow(f, MAP_SIZE)
    <3>1. CASE Settled(f)
      BY <2>1, <3>1 DEF ShownInv, Settled
    <3>2. CASE ScoreDone /\ f = cal.q
      BY <3>2, ScoreContext DEF ShownInv, ScoreDone
    <3> QED
      BY <2>1, <3>1, <3>2
  <2> QED
    BY <2>2, Numbers, RatedBelowStays
<1> QED
  BY <1>1, <1>2, <1>3 DEF ShownInv

LEMMA SteadyInit == Init => SteadyInv
<1> SUFFICES ASSUME Init
             PROVE  SteadyInv
  OBVIOUS
<1>1. KnownInv
  BY DEF Init, KnownInv
<1>2. SeenIsQueued
  BY DEF Init, SeenIsQueued
<1>3. \A e \in Entries : ~Settled(e)
  <2>1. queued_paths \in Nat /\ cal.q = 1 /\ pc = "dry_run"
    BY SeedsAreInputs, Numbers DEF Init, NoCal
  <2> QED
    BY <2>1 DEF Settled, Fresh, InDry, InQueue, Entries
<1>4. ShownInv
  BY <1>3 DEF Init, ShownInv
<1> QED
  BY <1>1, <1>2, <1>4 DEF SteadyInv

\* With one trace for each input the bookkeeping of virgin_bits, the checksums
\* and top_rated is inductive too.
THEOREM SteadyTargets ==
  ASSUME OneTrace
  PROVE  Spec => []SteadyInv
<1>1. QueueInv /\ SteadyInv /\ [Next]_vars => SteadyInv'
  <2> SUFFICES ASSUME QueueInv, SteadyInv, [Next]_vars
               PROVE  SteadyInv'
    OBVIOUS
  <2>1. /\ TypeOK /\ ControlInv /\ FreshInv /\ KnownInv /\ SeenIsQueued /\ ShownInv
    BY DEF QueueInv, SteadyInv
  <2>2. KnownInv'
    BY <2>1, KnownStep
  <2>3. SeenIsQueued'
    BY <2>1, SeenStep
  <2>4. ShownInv'
    BY <2>1, ShownStep
  <2> QED
    BY <2>2, <2>3, <2>4 DEF SteadyInv
<1> QED
  BY <1>1, SteadyInit, QueueInvariance, PTL DEF Spec

\* has_new_bits is destructive, and calibrate_case and save_if_interesting ask
\* it; for a target without variable behavior no coverage is used up without
\* an entry of the queue that shows it.
THEOREM SeenBitsQueued ==
  ASSUME OneTrace
  PROVE  Spec => []SeenIsQueued
<1>1. SteadyInv => SeenIsQueued
  BY DEF SteadyInv
<1> QED
  BY <1>1, SteadyTargets, PTL

\* The comment of update_bitmap_score: when no calibration is left to do, every
\* byte seen so far has a top rated entry, if the target has no variable
\* behavior.
THEOREM SeenBytesRated ==
  ASSUME OneTrace
  PROVE  Spec => []SeenBitsRated
<1>1. QueueInv /\ SteadyInv => SeenBitsRated
  <2> SUFFICES ASSUME QueueInv, SteadyInv, pc = "main",
                      \A e \in InQueue : cal_failed[e] = 0,
                      NEW i \in Bits, virgin_bits[i] # Buckets
               PROVE  top_rated[i] # 0
    BY DEF SeenBitsRated
  <2>0. TypeOK /\ SeenIsQueued /\ ShownInv
    BY DEF QueueInv, SteadyInv
  <2>1. PICK b \in Buckets : b \notin virgin_bits[i]
    BY <2>0 DEF TypeOK, MapTypes
  <2>2. PICK f \in InQueue : exec_cksum[f] # NoTrace /\ exec_cksum[f][i] = b
    BY <2>0, <2>1 DEF SeenIsQueued
  <2>3. f \in Entries /\ b # 0
    BY <2>0, <2>1, <2>2, QueueFinite DEF Buckets
  <2>4. Settled(f)
    <3>1. queued_paths \in Nat /\ f \in 1..queued_paths
      BY <2>0, <2>2, Numbers DEF TypeOK, CountTypes, Entries, InQueue
    <3> QED
      BY <2>2, <3>1 DEF Settled, Fresh, InDry, InCal
  <2>5. RatedBelow(f, MAP_SIZE)
    BY <2>0, <2>3, <2>4 DEF ShownInv
  <2>6. i < MAP_SIZE
    BY Numbers DEF Bits
  <2> QED
    BY <2>2, <2>3, <2>5, <2>6 DEF RatedBelow
<1> QED
  BY <1>1, SteadyTargets, QueueInvariance, PTL
=============================================================================
