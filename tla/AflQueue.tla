------------------------------ MODULE AflQueue ------------------------------
(***************************************************************************)
(* The test case queue of afl-fuzz.c: how entries come to it, how they are *)
(* calibrated and trimmed, and how top_rated, the favored entries and the  *)
(* counters that steer fuzz_one are kept.                                  *)
(*                                                                         *)
(* A target is the set of traces each input may show: more than one for an *)
(* input with variable behavior.  A trace gives every byte of the bitmap a *)
(* bucket, 0 when the byte was not hit.  A checksum is the trace itself.   *)
(* afl-fuzz is one thread; pc says where in its main loop it is, and the   *)
(* loops of update_bitmap_score and cull_queue go byte by byte.            *)
(***************************************************************************)
EXTENDS Naturals, Sequences, FiniteSets

CONSTANTS
  MAP_SIZE,      \* bytes of the bitmap
  Inputs,        \* test cases
  Len_,          \* the length of an input
  Traces,        \* the traces an input may show
  Seeds,         \* the initial queue, as a sequence of inputs
  MaxQueue,      \* bound: entries in the queue
  MaxUs,         \* bound: the execution times told apart
  CAL_CYCLES,    \* 8 in the code
  CAL_CYCLES_LONG, \* 40 in the code
  CAL_CHANCES,   \* 3 in the code
  ManyPaths,     \* 10 in the code: queue length from which entries are skipped
  smart_mode,    \* -w: trimming is left out
  SkipFailing,   \* -t nn+ and AFL_SKIP_CRASHES: failing seeds are tolerated
  NoTrace        \* not a trace: exec_cksum = 0, trace_mini = NULL

Bits == 0..(MAP_SIZE - 1)
Buckets == {1, 128}
TraceSet == [Bits -> Buckets \cup {0}]
Entries == 1..MaxQueue

ASSUME QueueAssumption ==
  /\ MAP_SIZE \in Nat \ {0}
  /\ Len_ \in [Inputs -> Nat]
  /\ Traces \in [Inputs -> SUBSET TraceSet]
  /\ \A x \in Inputs : Traces[x] # {}
  /\ MaxQueue \in Nat /\ MaxUs \in Nat \ {0}
  /\ Seeds \in Seq(Inputs) /\ Seeds # <<>> /\ Len(Seeds) <= MaxQueue
  /\ CAL_CYCLES \in Nat \ {0} /\ CAL_CYCLES_LONG \in Nat
  /\ CAL_CYCLES <= CAL_CYCLES_LONG
  /\ CAL_CHANCES \in Nat \ {0} /\ ManyPaths \in Nat
  /\ SkipFailing \in BOOLEAN /\ smart_mode \in BOOLEAN
  /\ \A t \in TraceSet : NoTrace # t
  /\ \A s \in SUBSET Bits : NoTrace # s

VARIABLES
  \* struct queue_entry, field by field
  input, exec_cksum, exec_us, cal_failed, trim_done, was_fuzzed, has_new_cov,
  var_behavior, favored, fs_redundant, trace_mini, tc_ref,
  \* globals of afl-fuzz.c
  queued_paths, pending_not_fuzzed, pending_favored, queued_favored,
  queued_with_cov, queued_variable, virgin_bits, var_bytes, trace_bits,
  top_rated,      \* 0 for no entry
  score_changed,
  queue_cur,      \* 0 for NULL
  stop_soon,
  \* control
  pc,             \* the function afl-fuzz is in
  cal,            \* the locals of calibrate_case
  idx,            \* the loop variable of update_bitmap_score and cull_queue
  temp_v          \* the local of cull_queue

entryVars == <<input, exec_cksum, exec_us, cal_failed, trim_done, was_fuzzed,
               has_new_cov, var_behavior, favored, fs_redundant, trace_mini,
               tc_ref>>
countVars == <<queued_paths, pending_not_fuzzed, pending_favored,
               queued_favored, queued_with_cov, queued_variable>>
mapVars == <<virgin_bits, var_bytes, trace_bits, top_rated, score_changed>>
ctlVars == <<queue_cur, stop_soon, pc, cal, idx, temp_v>>
vars == <<entryVars, countVars, mapVars, ctlVars>>

InQueue == 1..queued_paths

Empty == [i \in Bits |-> 0]

NoCal == [q |-> 0, back |-> "none", cycle |-> 0, max |-> 0,
          first |-> Empty, new |-> 0, var |-> FALSE]

\* read_testcases has filled the queue; nothing has run yet.
Init ==
  /\ input = [e \in Entries |-> IF e <= Len(Seeds) THEN Seeds[e] ELSE Seeds[1]]
  /\ exec_cksum = [e \in Entries |-> NoTrace]
  /\ exec_us = [e \in Entries |-> 0]
  /\ cal_failed = [e \in Entries |-> 0]
  /\ trim_done = [e \in Entries |-> FALSE]
  /\ was_fuzzed = [e \in Entries |-> FALSE]
  /\ has_new_cov = [e \in Entries |-> FALSE]
  /\ var_behavior = [e \in Entries |-> FALSE]
  /\ favored = [e \in Entries |-> FALSE]
  /\ fs_redundant = [e \in Entries |-> FALSE]
  /\ trace_mini = [e \in Entries |-> NoTrace]
  /\ tc_ref = [e \in Entries |-> 0]
  /\ queued_paths = Len(Seeds)
  /\ pending_not_fuzzed = Len(Seeds)
  /\ pending_favored = 0 /\ queued_favored = 0
  /\ queued_with_cov = 0 /\ queued_variable = 0
  /\ virgin_bits = [i \in Bits |-> Buckets]
  /\ var_bytes = {}
  /\ trace_bits = Empty
  /\ top_rated = [i \in Bits |-> 0]
  /\ score_changed = FALSE
  /\ queue_cur = 0
  /\ stop_soon = FALSE
  /\ pc = "dry_run"
  /\ cal = [NoCal EXCEPT !.q = 1]
  /\ idx = 0
  /\ temp_v = {}

-----------------------------------------------------------------------------
(* has_new_bits. *)

NewBits(t) ==
  IF \E i \in Bits : t[i] # 0 /\ virgin_bits[i] = Buckets THEN 2
  ELSE IF \E i \in Bits : t[i] \in virgin_bits[i] THEN 1 ELSE 0

Seen(t) == [i \in Bits |-> virgin_bits[i] \ {t[i]}]

Hit(t) == {i \in Bits : t[i] # 0}

-----------------------------------------------------------------------------
(* calibrate_case, one action per run of the target. *)

\* The caller has chosen the entry and where to return to; first_trace is what
\* trace_bits holds at that moment.
CalEnter(e, back, trace) ==
  /\ cal' = [q |-> e, back |-> back, cycle |-> 0, max |-> CAL_CYCLES,
             first |-> trace, new |-> 0, var |-> FALSE]
  /\ cal_failed' = [cal_failed EXCEPT ![e] = @ + 1]
  /\ pc' = "calibrate"

\* Mutant: new coverage is counted again at each calibration.
CalExitCountsAgain(new, var) ==
  LET e == cal.q IN
  /\ cal' = [NoCal EXCEPT !.q = IF cal.back = "dry_done" THEN e ELSE 0]
  /\ idx' = 0
  /\ has_new_cov' = [has_new_cov EXCEPT ![e] = @ \/ new = 2]
  /\ queued_with_cov' =
       queued_with_cov + (IF new = 2 THEN 1 ELSE 0)
  /\ var_behavior' = [var_behavior EXCEPT ![e] = @ \/ var]
  /\ queued_variable' =
       queued_variable + (IF var /\ ~var_behavior[e] THEN 1 ELSE 0)
  /\ pc' = cal.back

\* abort_calibration, with or without success: marks, and back to the caller.
\* (The locals go; perform_dry_run still has its own q.)
CalExit(new, var) ==
  LET e == cal.q IN
  /\ cal' = [NoCal EXCEPT !.q = IF cal.back = "dry_done" THEN e ELSE 0]
  /\ idx' = 0
  /\ has_new_cov' = [has_new_cov EXCEPT ![e] = @ \/ new = 2]
  /\ queued_with_cov' =
       queued_with_cov + (IF new = 2 /\ ~has_new_cov[e] THEN 1 ELSE 0)
  /\ var_behavior' = [var_behavior EXCEPT ![e] = @ \/ var]
  /\ queued_variable' =
       queued_variable + (IF var /\ ~var_behavior[e] THEN 1 ELSE 0)
  /\ pc' = cal.back

\* Mutant: an aborted calibration counts as a good one.
CalRunFailsForgiven ==
  /\ pc = "calibrate" /\ cal.cycle < cal.max
  /\ trace_bits' \in Traces[input[cal.q]] \cup {Empty}
  /\ cal_failed' = [cal_failed EXCEPT ![cal.q] = 0]
  /\ CalExit(cal.new, cal.var)
  /\ UNCHANGED <<input, exec_cksum, exec_us, trim_done, was_fuzzed,
                 favored, fs_redundant, trace_mini, tc_ref, queued_paths,
                 pending_not_fuzzed, pending_favored, queued_favored,
                 virgin_bits, var_bytes, top_rated, score_changed, queue_cur,
                 stop_soon, temp_v>>

\* A run that fails, or is interrupted, or leaves an empty bitmap, ends it.
CalRunFails ==
  /\ pc = "calibrate" /\ cal.cycle < cal.max
  /\ trace_bits' \in Traces[input[cal.q]] \cup {Empty}
  /\ CalExit(cal.new, cal.var)
  /\ UNCHANGED <<input, exec_cksum, exec_us, cal_failed, trim_done, was_fuzzed,
                 favored, fs_redundant, trace_mini, tc_ref, queued_paths,
                 pending_not_fuzzed, pending_favored, queued_favored,
                 virgin_bits, var_bytes, top_rated, score_changed, queue_cur,
                 stop_soon, temp_v>>

CalRun ==
  LET e == cal.q IN
  /\ pc = "calibrate" /\ cal.cycle < cal.max /\ ~stop_soon
  /\ \E t \in Traces[input[e]] :
       LET differs == exec_cksum[e] # t
           known   == exec_cksum[e] # NoTrace
           moved   == {i \in Bits : cal.first[i] # t[i]} \ var_bytes
           new     == NewBits(t)
       IN
       /\ cal.cycle = 0 => Hit(t) # {}
       /\ trace_bits' = t
       /\ virgin_bits' = IF differs THEN Seen(t) ELSE virgin_bits
       /\ exec_cksum' = IF known THEN exec_cksum ELSE [exec_cksum EXCEPT ![e] = t]
       /\ var_bytes' = IF differs /\ known THEN var_bytes \cup moved ELSE var_bytes
       /\ cal' = [cal EXCEPT !.cycle = @ + 1,
                             !.max = IF differs /\ known /\ moved # {}
                                     THEN CAL_CYCLES_LONG ELSE @,
                             !.first = IF known THEN @ ELSE t,
                             !.new = IF differs /\ new > @ THEN new ELSE @,
                             !.var = @ \/ (differs /\ known)]
  /\ UNCHANGED <<input, exec_us, cal_failed, trim_done, was_fuzzed, has_new_cov,
                 var_behavior, favored, fs_redundant, trace_mini, tc_ref,
                 countVars, top_rated, score_changed, queue_cur, stop_soon, pc,
                 idx, temp_v>>

\* All runs done: the time is taken and the entry rated with the last trace.
CalRated ==
  /\ pc = "calibrate" /\ cal.cycle >= cal.max
  /\ \E us \in 1..MaxUs : exec_us' = [exec_us EXCEPT ![cal.q] = us]
  /\ cal_failed' = [cal_failed EXCEPT ![cal.q] = 0]
  /\ pc' = "score" /\ idx' = 0
  /\ UNCHANGED <<input, exec_cksum, trim_done, was_fuzzed, has_new_cov,
                 var_behavior, favored, fs_redundant, trace_mini, tc_ref,
                 countVars, mapVars, queue_cur, stop_soon, cal, temp_v>>

-----------------------------------------------------------------------------
(* update_bitmap_score: the entry competes for every byte its trace hit. *)

fav_factor(e) == exec_us[e] * Len_[input[e]]

\* Mutant: the comparison of the factors is the wrong way round.
WinsWorse(e, i) ==
  /\ trace_bits[i] # 0
  /\ top_rated[i] # 0 => fav_factor(e) >= fav_factor(top_rated[i])

Wins(e, i) ==
  /\ trace_bits[i] # 0
  /\ top_rated[i] # 0 => fav_factor(e) <= fav_factor(top_rated[i])

\* Mutant: the previous winner keeps its reference.
ScoreWinsNoRelease ==
  LET e == cal.q IN
  /\ pc = "score" /\ idx < MAP_SIZE /\ Wins(e, idx)
  /\ top_rated' = [top_rated EXCEPT ![idx] = e]
  /\ tc_ref' = [tc_ref EXCEPT ![e] = @ + 1]
  /\ trace_mini' = IF trace_mini[e] = NoTrace
                   THEN [trace_mini EXCEPT ![e] = Hit(trace_bits)] ELSE trace_mini
  /\ score_changed' = TRUE
  /\ idx' = idx + 1
  /\ UNCHANGED <<input, exec_cksum, exec_us, cal_failed, trim_done, was_fuzzed,
                 has_new_cov, var_behavior, favored, fs_redundant, countVars,
                 virgin_bits, var_bytes, trace_bits, queue_cur, stop_soon, pc,
                 cal, temp_v>>

\* Mutant: a new winner does not ask for the queue to be culled again.
ScoreWinsQuietly ==
  LET e    == cal.q
      old  == top_rated[idx]
      refs == [f \in Entries |-> IF f = old THEN tc_ref[f] - 1 ELSE tc_ref[f]]
      mini == [f \in Entries |-> IF f = old /\ refs[f] = 0 THEN NoTrace
                                 ELSE trace_mini[f]]
  IN
  /\ pc = "score" /\ idx < MAP_SIZE /\ Wins(e, idx)
  /\ top_rated' = [top_rated EXCEPT ![idx] = e]
  /\ tc_ref' = [refs EXCEPT ![e] = @ + 1]
  /\ trace_mini' = IF mini[e] = NoTrace
                   THEN [mini EXCEPT ![e] = Hit(trace_bits)] ELSE mini
  /\ idx' = idx + 1
  /\ UNCHANGED <<input, exec_cksum, exec_us, cal_failed, trim_done, was_fuzzed,
                 has_new_cov, var_behavior, favored, fs_redundant, countVars,
                 virgin_bits, var_bytes, trace_bits, score_changed, queue_cur,
                 stop_soon, pc, cal, temp_v>>

\* The winner takes the byte; the previous one drops its trace_mini with its
\* last byte, even if it is the winner itself.
ScoreWins ==
  LET e    == cal.q
      old  == top_rated[idx]
      refs == [f \in Entries |-> IF f = old THEN tc_ref[f] - 1 ELSE tc_ref[f]]
      mini == [f \in Entries |-> IF f = old /\ refs[f] = 0 THEN NoTrace
                                 ELSE trace_mini[f]]
  IN
  /\ pc = "score" /\ idx < MAP_SIZE /\ Wins(e, idx)
  /\ top_rated' = [top_rated EXCEPT ![idx] = e]
  /\ tc_ref' = [refs EXCEPT ![e] = @ + 1]
  /\ trace_mini' = IF mini[e] = NoTrace
                   THEN [mini EXCEPT ![e] = Hit(trace_bits)] ELSE mini
  /\ score_changed' = TRUE
  /\ idx' = idx + 1
  /\ UNCHANGED <<input, exec_cksum, exec_us, cal_failed, trim_done, was_fuzzed,
                 has_new_cov, var_behavior, favored, fs_redundant, countVars,
                 virgin_bits, var_bytes, trace_bits, queue_cur, stop_soon, pc,
                 cal, temp_v>>

ScoreLoses ==
  /\ pc = "score" /\ idx < MAP_SIZE /\ ~Wins(cal.q, idx)
  /\ idx' = idx + 1
  /\ UNCHANGED <<entryVars, countVars, mapVars, queue_cur, stop_soon, pc, cal,
                 temp_v>>

ScoreDone ==
  /\ pc = "score" /\ idx = MAP_SIZE
  /\ CalExit(cal.new, cal.var)
  /\ UNCHANGED <<input, exec_cksum, exec_us, cal_failed, trim_done, was_fuzzed,
                 favored, fs_redundant, trace_mini, tc_ref, queued_paths,
                 pending_not_fuzzed, pending_favored, queued_favored, mapVars,
                 queue_cur, stop_soon, temp_v>>

-----------------------------------------------------------------------------
(* perform_dry_run: every seed is calibrated once. *)

DryRun ==
  /\ pc = "dry_run"
  /\ CalEnter(cal.q, "dry_done", trace_bits)
  /\ UNCHANGED <<input, exec_cksum, exec_us, trim_done, was_fuzzed, has_new_cov,
                 var_behavior, favored, fs_redundant, trace_mini, tc_ref,
                 countVars, mapVars, queue_cur, stop_soon, idx, temp_v>>

\* On to the next seed, or to the main loop unless every seed has failed.
DryNext(failed) ==
  /\ cal_failed' = failed
  /\ pc' = IF cal.q < queued_paths THEN "dry_run"
           ELSE IF \A e \in InQueue : failed[e] # 0 THEN "fatal" ELSE "main"
  /\ cal' = [NoCal EXCEPT !.q = IF cal.q < queued_paths THEN cal.q + 1 ELSE 0]
  /\ UNCHANGED <<input, exec_cksum, exec_us, trim_done, was_fuzzed, has_new_cov,
                 var_behavior, favored, fs_redundant, trace_mini, tc_ref,
                 countVars, mapVars, queue_cur, stop_soon, idx, temp_v>>

DrySeedGood ==
  /\ pc = "dry_done" /\ ~stop_soon /\ cal_failed[cal.q] = 0
  /\ DryNext(cal_failed)

DrySeedSkipped ==
  /\ pc = "dry_done" /\ ~stop_soon /\ cal_failed[cal.q] # 0 /\ SkipFailing
  /\ DryNext([cal_failed EXCEPT ![cal.q] = CAL_CHANCES])

Leave(to) ==
  /\ pc' = to
  /\ UNCHANGED <<entryVars, countVars, mapVars, queue_cur, stop_soon, cal, idx,
                 temp_v>>

\* FATAL for a failing seed; Ctrl-C.
DrySeedFatal ==
  /\ pc = "dry_done" /\ ~stop_soon /\ cal_failed[cal.q] # 0
  /\ Leave("fatal")

DryStopped ==
  /\ pc = "dry_done" /\ stop_soon
  /\ Leave("exit")

-----------------------------------------------------------------------------
(* cull_queue, at the head of the main loop. *)

\* Mutant: pending_favored is not reset.
CullStartKeepsPending ==
  /\ pc = "main" /\ score_changed
  /\ score_changed' = FALSE
  /\ queued_favored' = 0
  /\ favored' = [e \in Entries |-> FALSE]
  /\ temp_v' = Bits
  /\ pc' = "cull" /\ idx' = 0
  /\ UNCHANGED <<input, exec_cksum, exec_us, cal_failed, trim_done, was_fuzzed,
                 has_new_cov, var_behavior, fs_redundant, trace_mini, tc_ref,
                 queued_paths, pending_not_fuzzed, pending_favored, queued_with_cov,
                 queued_variable, virgin_bits, var_bytes, trace_bits, top_rated,
                 queue_cur, stop_soon, cal>>

CullStart ==
  /\ pc = "main" /\ score_changed
  /\ score_changed' = FALSE
  /\ queued_favored' = 0 /\ pending_favored' = 0
  /\ favored' = [e \in Entries |-> FALSE]
  /\ temp_v' = Bits
  /\ pc' = "cull" /\ idx' = 0
  /\ UNCHANGED <<input, exec_cksum, exec_us, cal_failed, trim_done, was_fuzzed,
                 has_new_cov, var_behavior, fs_redundant, trace_mini, tc_ref,
                 queued_paths, pending_not_fuzzed, queued_with_cov,
                 queued_variable, virgin_bits, var_bytes, trace_bits, top_rated,
                 queue_cur, stop_soon, cal>>

CullTake ==
  LET e == top_rated[idx] IN
  /\ pc = "cull" /\ idx < MAP_SIZE
  /\ e # 0 /\ idx \in temp_v
  /\ temp_v' = temp_v \ trace_mini[e]
  /\ favored' = [favored EXCEPT ![e] = TRUE]
  /\ queued_favored' = queued_favored + 1
  /\ pending_favored' = pending_favored + (IF was_fuzzed[e] THEN 0 ELSE 1)
  /\ idx' = idx + 1
  /\ UNCHANGED <<input, exec_cksum, exec_us, cal_failed, trim_done, was_fuzzed,
                 has_new_cov, var_behavior, fs_redundant, trace_mini, tc_ref,
                 queued_paths, pending_not_fuzzed, queued_with_cov,
                 queued_variable, mapVars, queue_cur, stop_soon, pc, cal>>

CullPass ==
  /\ pc = "cull" /\ idx < MAP_SIZE
  /\ top_rated[idx] = 0 \/ idx \notin temp_v
  /\ idx' = idx + 1
  /\ UNCHANGED <<entryVars, countVars, mapVars, queue_cur, stop_soon, pc, cal,
                 temp_v>>

\* mark_as_redundant for every entry.
CullEnd ==
  /\ pc = "cull" /\ idx = MAP_SIZE
  /\ fs_redundant' = [e \in Entries |-> e \in InQueue /\ ~favored[e]]
  /\ pc' = "main" /\ idx' = 0 /\ temp_v' = {}
  /\ UNCHANGED <<input, exec_cksum, exec_us, cal_failed, trim_done, was_fuzzed,
                 has_new_cov, var_behavior, favored, trace_mini, tc_ref,
                 countVars, mapVars, queue_cur, stop_soon, cal>>

-----------------------------------------------------------------------------
(* The main loop and fuzz_one. *)

AtHead == pc = "main" /\ ~score_changed

\* The end of an iteration of the main loop.
NextEntry ==
  IF stop_soon THEN pc' = "exit" /\ UNCHANGED queue_cur
  ELSE /\ pc' = "main"
       /\ queue_cur' = IF queue_cur < queued_paths THEN queue_cur + 1 ELSE 0

NewCycle ==
  /\ AtHead /\ queue_cur = 0
  /\ queue_cur' = 1
  /\ UNCHANGED <<entryVars, countVars, mapVars, stop_soon, pc, cal, idx, temp_v>>

\* The entries fuzz_one may leave out, with some probability below one.
MaySkip(e) ==
  IF pending_favored > 0 THEN was_fuzzed[e] \/ ~favored[e]
  ELSE ~favored[e] /\ queued_paths > ManyPaths

SkipEntry ==
  /\ AtHead /\ queue_cur # 0 /\ MaySkip(queue_cur)
  /\ NextEntry
  /\ UNCHANGED <<entryVars, countVars, mapVars, stop_soon, cal, idx, temp_v>>

\* Mutant: what may be skipped is never fuzzed.
FuzzOneNeverSkipped ==
  /\ AtHead /\ queue_cur # 0 /\ ~MaySkip(queue_cur)
  /\ Leave("fuzz")

FuzzOne ==
  /\ AtHead /\ queue_cur # 0
  /\ Leave("fuzz")

\* Calibration again, only if it failed earlier, and not more than CAL_CHANCES
\* times; first_trace is what the last run of any input has left.
Recalibrate ==
  /\ pc = "fuzz" /\ cal_failed[queue_cur] \in 1..(CAL_CHANCES - 1)
  /\ CalEnter(queue_cur, "fuzz_cal", trace_bits)
  /\ UNCHANGED <<input, exec_cksum, exec_us, trim_done, was_fuzzed, has_new_cov,
                 var_behavior, favored, fs_redundant, trace_mini, tc_ref,
                 countVars, mapVars, queue_cur, stop_soon, idx, temp_v>>

CalibrationHopeless ==
  /\ pc = "fuzz" /\ cal_failed[queue_cur] >= CAL_CHANCES
  /\ Leave("abandon")

Calibrated ==
  /\ \/ pc = "fuzz" /\ cal_failed[queue_cur] = 0
     \/ pc = "fuzz_cal"
  /\ Leave(IF stop_soon \/ cal_failed[queue_cur] # 0 THEN "abandon" ELSE "trim")

TrimSkipped ==
  /\ pc = "trim" /\ (smart_mode \/ trim_done[queue_cur])
  /\ Leave("stages")

\* trim_case found nothing to remove, or was interrupted: the last run was
\* that of some other, shorter input.
TrimNothing ==
  /\ pc = "trim" /\ ~smart_mode /\ ~trim_done[queue_cur]
  /\ trim_done' = [trim_done EXCEPT ![queue_cur] = ~stop_soon]
  /\ \/ UNCHANGED trace_bits
     \/ \E x \in Inputs : /\ Len_[x] < Len_[input[queue_cur]]
                          /\ trace_bits' \in Traces[x] \cup {Empty}
  /\ pc' = IF stop_soon THEN "abandon" ELSE "stages"
  /\ UNCHANGED <<input, exec_cksum, exec_us, cal_failed, was_fuzzed, has_new_cov,
                 var_behavior, favored, fs_redundant, trace_mini, tc_ref,
                 countVars, virgin_bits, var_bytes, top_rated, score_changed,
                 queue_cur, stop_soon, cal, idx, temp_v>>

\* A shorter input with the checksum of the first calibration takes its place
\* and competes again, with the clean trace.
TrimShortens ==
  LET e == queue_cur IN
  /\ pc = "trim" /\ ~stop_soon /\ ~smart_mode /\ ~trim_done[e]
  /\ \E x \in Inputs :
       /\ Len_[x] < Len_[input[e]]
       /\ exec_cksum[e] \in Traces[x]
       /\ input' = [input EXCEPT ![e] = x]
  /\ trim_done' = [trim_done EXCEPT ![e] = TRUE]
  /\ trace_bits' = exec_cksum[e]
  /\ cal' = [NoCal EXCEPT !.q = e, !.back = "stages"]
  /\ pc' = "score" /\ idx' = 0
  /\ UNCHANGED <<exec_cksum, exec_us, cal_failed, was_fuzzed, has_new_cov,
                 var_behavior, favored, fs_redundant, trace_mini, tc_ref,
                 countVars, virgin_bits, var_bytes, top_rated, score_changed,
                 queue_cur, stop_soon, temp_v>>

-----------------------------------------------------------------------------
(* The stages of fuzz_one: common_fuzz_stuff and save_if_interesting. *)

\* A run with new coverage: the input joins the queue and is calibrated at once.
ExecNew ==
  LET e == queued_paths + 1 IN
  /\ pc = "stages" /\ ~stop_soon /\ queued_paths < MaxQueue
  /\ \E x \in Inputs : \E t \in Traces[x] :
       /\ NewBits(t) # 0
       /\ virgin_bits' = Seen(t)
       /\ trace_bits' = t
       /\ input' = [input EXCEPT ![e] = x]
       /\ exec_cksum' = [exec_cksum EXCEPT ![e] = t]
       /\ has_new_cov' = [has_new_cov EXCEPT ![e] = NewBits(t) = 2]
       /\ queued_with_cov' = queued_with_cov + (IF NewBits(t) = 2 THEN 1 ELSE 0)
       /\ CalEnter(e, "stages", t)
  /\ queued_paths' = e
  /\ pending_not_fuzzed' = pending_not_fuzzed + 1
  /\ UNCHANGED <<exec_us, trim_done, was_fuzzed, var_behavior, favored,
                 fs_redundant, trace_mini, tc_ref, pending_favored,
                 queued_favored, queued_variable, var_bytes, top_rated,
                 score_changed, queue_cur, stop_soon, idx, temp_v>>

OnlyTrace ==
  UNCHANGED <<entryVars, countVars, virgin_bits, var_bytes, top_rated,
              score_changed, ctlVars>>

ExecOld ==
  /\ pc = "stages"
  /\ \E x \in Inputs : \E t \in Traces[x] :
       NewBits(t) = 0 /\ trace_bits' = t
  /\ OnlyTrace

\* A timeout or a crash: virgin_bits is not asked, simplify_trace may leave
\* its own bytes in trace_bits.
simplify_trace(t) == [i \in Bits |-> IF t[i] = 0 THEN 1 ELSE 128]

\* Mutant: a timeout or crash is looked up in virgin_bits.
ExecFaultyVirgin ==
  /\ pc = "stages"
  /\ \E x \in Inputs : \E t \in Traces[x] :
       trace_bits' = t /\ virgin_bits' = Seen(t)
  /\ UNCHANGED <<entryVars, countVars, var_bytes, top_rated, score_changed,
                 ctlVars>>

ExecFaulty ==
  /\ pc = "stages"
  /\ \E x \in Inputs : \E t \in Traces[x] \cup {Empty} :
       trace_bits' \in {t, simplify_trace(t)}
  /\ OnlyTrace

\* All stages done, a skip request, too many timeouts, or Ctrl-C.
StagesEnd ==
  /\ pc = "stages"
  /\ Leave("abandon")

\* abandon_entry, and the rest of the main loop.
Abandon ==
  LET e     == queue_cur
      fresh == ~stop_soon /\ cal_failed[e] = 0 /\ ~was_fuzzed[e]
  IN
  /\ pc = "abandon"
  /\ was_fuzzed' = [was_fuzzed EXCEPT ![e] = @ \/ fresh]
  /\ pending_not_fuzzed' = pending_not_fuzzed - (IF fresh THEN 1 ELSE 0)
  /\ pending_favored' =
       pending_favored - (IF fresh /\ favored[e] THEN 1 ELSE 0)
  /\ NextEntry
  /\ UNCHANGED <<input, exec_cksum, exec_us, cal_failed, trim_done, has_new_cov,
                 var_behavior, favored, fs_redundant, trace_mini, tc_ref,
                 queued_paths, queued_favored, queued_with_cov, queued_variable,
                 mapVars, stop_soon, cal, idx, temp_v>>

\* handle_stop_sig
Interrupt ==
  /\ ~stop_soon /\ pc \notin {"exit", "fatal"}
  /\ stop_soon' = TRUE
  /\ UNCHANGED <<entryVars, countVars, mapVars, queue_cur, pc, cal, idx, temp_v>>

Step ==
  \/ DryRun \/ DrySeedGood \/ DrySeedSkipped \/ DrySeedFatal \/ DryStopped
  \/ CalRunFails \/ CalRun \/ CalRated
  \/ ScoreWins \/ ScoreLoses \/ ScoreDone
  \/ CullStart \/ CullTake \/ CullPass \/ CullEnd
  \/ NewCycle \/ SkipEntry \/ FuzzOne
  \/ Recalibrate \/ CalibrationHopeless \/ Calibrated
  \/ TrimSkipped \/ TrimNothing \/ TrimShortens
  \/ ExecNew \/ ExecOld \/ ExecFaulty \/ StagesEnd
  \/ Abandon

Stopped == pc \in {"exit", "fatal"} /\ UNCHANGED vars

Next == Step \/ Interrupt \/ Stopped

\* afl-fuzz is one running thread; its stages are finite; a coin that may come
\* up "fuzz it" again and again does so in the end.
Fairness ==
  /\ WF_vars(Step)
  /\ WF_vars(StagesEnd)
  /\ \A e \in Entries : SF_vars(FuzzOne /\ queue_cur = e)

Spec == Init /\ [][Next]_vars

FairSpec == Spec /\ Fairness
-----------------------------------------------------------------------------
(* Properties. *)

EntryTypes ==
  /\ input \in [Entries -> Inputs]
  /\ exec_cksum \in [Entries -> {NoTrace} \cup TraceSet]
  /\ exec_us \in [Entries -> 0..MaxUs]
  /\ cal_failed \in [Entries -> 0..CAL_CHANCES]
  /\ trim_done \in [Entries -> BOOLEAN] /\ was_fuzzed \in [Entries -> BOOLEAN]
  /\ has_new_cov \in [Entries -> BOOLEAN] /\ var_behavior \in [Entries -> BOOLEAN]
  /\ favored \in [Entries -> BOOLEAN] /\ fs_redundant \in [Entries -> BOOLEAN]
  /\ trace_mini \in [Entries -> {NoTrace} \cup SUBSET Bits]
  /\ tc_ref \in [Entries -> 0..MAP_SIZE]

\* u32 in the code: a counter that wrapped would be negative here.
CountTypes ==
  /\ queued_paths \in Entries
  /\ pending_not_fuzzed \in Nat /\ pending_favored \in Nat
  /\ queued_favored \in Nat /\ queued_with_cov \in Nat /\ queued_variable \in Nat

MapTypes ==
  /\ virgin_bits \in [Bits -> SUBSET Buckets] /\ var_bytes \subseteq Bits
  /\ trace_bits \in TraceSet
  /\ top_rated \in [Bits -> 0..MaxQueue]
  /\ score_changed \in BOOLEAN

CalLocals ==
  [q : 0..MaxQueue, back : {"none", "dry_done", "fuzz_cal", "stages"},
   cycle : 0..CAL_CYCLES_LONG, max : {0, CAL_CYCLES, CAL_CYCLES_LONG},
   first : TraceSet, new : 0..2, var : BOOLEAN]

ControlTypes ==
  /\ queue_cur \in 0..MaxQueue
  /\ stop_soon \in BOOLEAN
  /\ pc \in {"dry_run", "dry_done", "calibrate", "score", "main", "cull", "fuzz",
             "fuzz_cal", "trim", "stages", "abandon", "exit", "fatal"}
  /\ cal \in CalLocals
  /\ idx \in 0..MAP_SIZE /\ temp_v \subseteq Bits

\* The types; in them, no counter ever wraps below zero.
TypeOK == EntryTypes /\ CountTypes /\ MapTypes /\ ControlTypes

\* The reference count of an entry is the number of bytes it is top rated for,
\* and it keeps its trace_mini exactly as long: cull_queue, which reads
\* top_rated[i]->trace_mini unchecked, never meets a freed one, and none leaks.
RefsExact ==
  \A e \in Entries :
    /\ tc_ref[e] = Cardinality({i \in Bits : top_rated[i] = e})
    /\ (trace_mini[e] = NoTrace) = (tc_ref[e] = 0)

\* The counters calculate_score, the stages and the screen work with agree with
\* the marks of the entries, whatever the order of failed and repeated
\* calibrations.
CountersExact ==
  /\ pending_not_fuzzed = Cardinality({e \in InQueue : ~was_fuzzed[e]})
  /\ queued_with_cov = Cardinality({e \in InQueue : has_new_cov[e]})
  /\ queued_variable = Cardinality({e \in InQueue : var_behavior[e]})

\* After cull_queue the favored entries cover every rated byte, until the next
\* change of a score; and no favored entry is marked redundant on disk.
Covered(i) ==
  \E e \in InQueue : favored[e] /\ (e = top_rated[i] \/ i \in trace_mini[e])

FavoredCover ==
  pc # "cull" /\ ~score_changed =>
    /\ \A i \in Bits : top_rated[i] # 0 => Covered(i)
    /\ \A e \in InQueue : ~(favored[e] /\ fs_redundant[e])

\* pending_favored is exact, also for entries favored for bytes their
\* trace_mini does not have: its decrement in abandon_entry cannot wrap, and
\* fuzz_one skips for pending favored entries only while there are some.
PendingFavoredExact ==
  pending_favored = Cardinality({e \in InQueue : favored[e] /\ ~was_fuzzed[e]})

\* The comment of update_bitmap_score: top_rated[] entries "for every byte in
\* the bitmap", so that the favored set triggers "all the bits seen in the
\* bitmap so far" - once no entry is left that failed its calibration.
SeenBitsRated ==
  pc = "main" /\ (\A e \in InQueue : cal_failed[e] = 0) =>
    \A i \in Bits : virgin_bits[i] # Buckets => top_rated[i] # 0

\* Coverage is never taken from virgin_bits without an entry of the queue that
\* shows it (has_new_bits is destructive: what it reports once it never reports
\* again).
SeenIsQueued ==
  \A i \in Bits : \A b \in Buckets \ virgin_bits[i] :
    \E e \in InQueue : exec_cksum[e] # NoTrace /\ exec_cksum[e][i] = b

Rating(i) == fav_factor(top_rated[i])

\* A byte once rated stays rated, and never by a slower or longer entry than
\* before, although entries are timed again and trimmed later.
RatingNeverWorsens ==
  [][\A i \in Bits : top_rated[i] # 0 =>
       top_rated'[i] # 0 /\ Rating(i)' <= Rating(i)]_vars

\* Every entry is fuzzed in the end, unless its calibration fails for good or
\* afl-fuzz stops: pending_favored, however wrong, starves no entry.
EveryEntryFuzzed ==
  \A e \in Entries :
    (e \in InQueue) ~> (was_fuzzed[e] \/ cal_failed[e] = CAL_CHANCES
                       \/ pc \in {"exit", "fatal"})
-----------------------------------------------------------------------------
(* The inductive invariant behind the safety properties.                   *)

InCal == pc \in {"calibrate", "score"}

InDry == pc \in {"dry_run", "dry_done"} \/ (InCal /\ cal.back = "dry_done")

InFuzzOne == \/ pc \in {"fuzz", "fuzz_cal", "trim", "stages", "abandon"}
             \/ InCal /\ cal.back # "dry_done"

\* The entry fuzz_one works on has perhaps been trimmed, and rated again.
MayBeTrimmed ==
  pc \in {"stages", "abandon", "exit"} \/ (InCal /\ cal.back = "stages")

ControlInv ==
  /\ queue_cur <= queued_paths
  /\ InDry => cal.q \in InQueue
  /\ InCal => cal.q \in InQueue /\ cal.back # "none"
  /\ InFuzzOne => queue_cur # 0
  /\ pc = "calibrate" => cal_failed[cal.q] # 0
  /\ pc = "calibrate" /\ cal.back = "stages" => cal.q # queue_cur
  /\ pc = "score" => cal_failed[cal.q] = 0
  /\ pc = "trim" => cal_failed[queue_cur] = 0

\* Not in the queue yet, or its dry run is still to come.
Fresh(e) ==
  e > queued_paths \/ (InDry /\ (e > cal.q \/ (pc = "dry_run" /\ e = cal.q)))

FreshInv ==
  \A e \in Entries : Fresh(e) =>
    /\ cal_failed[e] = 0
    /\ ~was_fuzzed[e] /\ ~has_new_cov[e] /\ ~var_behavior[e] /\ ~favored[e]
    /\ \A i \in Bits : top_rated[i] # e

\* Only entries that have been calibrated are rated.
RatedInv == \A i \in Bits : top_rated[i] # 0 => cal_failed[top_rated[i]] = 0

\* In update_bitmap_score after a calibration trace_mini belongs to trace_bits.
ScoreInv ==
  pc = "score" /\ ~(cal.back = "stages" /\ cal.q = queue_cur) =>
    trace_mini[cal.q] \in {NoTrace, Hit(trace_bits)}

\* An entry not fuzzed yet has every byte it is rated for in its trace_mini; only
\* a trimmed one may lack some, and that one counts as fuzzed when it is left.
MiniInv ==
  \A i \in Bits :
    top_rated[i] # 0 /\ ~was_fuzzed[top_rated[i]] =>
      i \in trace_mini[top_rated[i]] \/ (top_rated[i] = queue_cur /\ MayBeTrimmed)

\* The loop of cull_queue.
CullInv ==
  pc = "cull" =>
    /\ ~score_changed
    /\ \A e \in InQueue : favored[e] /\ ~was_fuzzed[e] =>
         (\A i \in temp_v : i \notin trace_mini[e])
    /\ \A i \in Bits : i < idx \/ i \notin temp_v =>
         (top_rated[i] # 0 => Covered(i))

QueueInv ==
  /\ TypeOK /\ ControlInv /\ FreshInv /\ RatedInv
  /\ RefsExact /\ ScoreInv /\ MiniInv
  /\ CountersExact /\ PendingFavoredExact
  /\ CullInv /\ FavoredCover
=============================================================================
