------------------------------ MODULE Analyze ------------------------------
(***************************************************************************)
(* afl-analyze: changes each byte of a file in four ways, compares what    *)
(* the target then does with what it did on the file, and prints the file  *)
(* in runs of bytes with a label each.                                     *)
(*                                                                         *)
(* A run of the target is part of the step that makes the change.  What    *)
(* the target does with a buffer is a record: trace (hit counts), crash,   *)
(* and time, which is "fast", "hang", "slow" for a run that may or may not *)
(* beat the timer, or "no_exec" for one that never starts.  Two different  *)
(* traces are taken to have different checksums.                           *)
(*                                                                         *)
(* MCTestCase extends this module beside the ones of afl-fuzz and afl-tmin,*)
(* which have first claim on names: a_data, a_i, a_cksum and a_run_target  *)
(* are in_data, i, orig_cksum and run_target of the code.                  *)
(***************************************************************************)
EXTENDS Integers, SequencesExt

CONSTANTS
  Files,               \* input files: data, target, edges_only
  Outcome(_, _),       \* of the run of a target on a buffer
  LONG_BLOCK           \* MAX_AUTO_EXTRA in the code

U8 == 0..255

\* read_initial_file refuses an empty file.
ASSUME AnalyzeAssumption == \A f \in Files : f.data \in Seq(U8) /\ f.data # <<>>

VARIABLES
  file,                \* the input file with its target
  a_phase,
  a_data,              \* the buffer: the file, apart from the byte under test
  a_cksum,
  a_i,                 \* of the loops of analyze and dump_hex
  sums,                \* xor_ff, xor_01, sub_10, add_10, as far as known
  prev,                \* the same of the byte before
  seq_byte, b_data,    \* per byte resp and seq, its low bits and its highest
  regions,             \* printed: first byte, length, label
  seen                 \* history: sums of every byte so far

analyzeVars == <<file, a_phase, a_data, a_cksum, a_i, sums, prev, seq_byte, b_data, regions, seen>>

a_len == Len(a_data)

RESP_NONE == 0
RESP_MINOR == 1
RESP_VARIABLE == 2
RESP_FIXED == 3
RESP_LEN == 4
RESP_CKSUM == 5
RESP_SUSPECT == 6

-----------------------------------------------------------------------------
(* A run of the target. *)

count_class_lookup(n) ==
  CASE n \in 0..2 -> n      [] n = 3 -> 4             [] n \in 4..7 -> 8
    [] n \in 8..15 -> 16    [] n \in 16..31 -> 32    [] n \in 32..127 -> 64
    [] n \in 128..255 -> 128

classify_counts(trace) ==
  [e \in DOMAIN trace |-> IF file.edges_only THEN (IF trace[e] > 0 THEN 1 ELSE 0)
                          ELSE count_class_lookup(trace[e])]

\* The checksum of a run that timed out, and of the byte before the first.
NoSum == <<>>

\* The checksums that a_run_target may return for buf; none if the program ends.
a_run_target(buf) ==
  LET run == Outcome(file.target, buf)
  IN {<<run.crash, classify_counts(run.trace)>> : t \in {run.time} \cap {"fast", "slow"}}
       \cup {NoSum : t \in {run.time} \cap {"hang", "slow"}}

NoExec(buf) == Outcome(file.target, buf).time = "no_exec"

anything_set(sum) == \E e \in DOMAIN sum[2] : sum[2][e] > 0

AnalyzeInit ==
  /\ file \in Files
  /\ a_phase = "dry_run" /\ a_data = file.data
  /\ a_cksum = NoSum /\ a_i = 0 /\ sums = <<>> /\ prev = <<NoSum, NoSum, NoSum, NoSum>>
  /\ seq_byte = 0 /\ b_data = <<>> /\ regions = <<>> /\ seen = <<>>

\* The first run; a hang and an empty trace end the program.
FirstRun ==
  /\ a_phase = "dry_run"
  /\ \/ NoExec(a_data) /\ a_phase' = "failed" /\ UNCHANGED a_cksum
     \/ \E sum \in a_run_target(a_data) :
          /\ a_phase' = IF sum # NoSum /\ anything_set(sum) THEN "bytes" ELSE "failed"
          /\ a_cksum' = sum
  /\ UNCHANGED <<file, a_data, a_i, sums, prev, seq_byte, b_data, regions, seen>>

-----------------------------------------------------------------------------
(* analyze *)

XorOne(b) == IF b % 2 = 0 THEN b + 1 ELSE b - 1

\* U8 b, as the changes so far have left it, for the k-th run: ^= 0xff,
\* ^= 0xfe, (^ 0x01) - 0x10, += 0x20.
Change(k, b) ==
  CASE k = 1 -> 255 - b
    [] k = 2 -> 255 - XorOne(b)
    [] k = 3 -> (XorOne(b) - 16) % 256
    [] k = 4 -> (b + 32) % 256

\* Mutant: the byte stays as the last change has left it.
NotRestored(b) == b

\* The last change is taken back by -= 0x10.
Restored(b) == (b - 16) % 256

\* One of the four runs on the byte at a_i.
TestByte ==
  /\ a_phase = "bytes" /\ a_i < a_len /\ Len(sums) < 4
  /\ a_data' = [a_data EXCEPT ![a_i + 1] = Change(Len(sums) + 1, @)]
  /\ \/ NoExec(a_data') /\ a_phase' = "failed" /\ UNCHANGED sums
     \/ \E sum \in a_run_target(a_data') : sums' = Append(sums, sum) /\ UNCHANGED a_phase
  /\ UNCHANGED <<file, a_cksum, a_i, prev, seq_byte, b_data, regions, seen>>

\* What the checksums of a byte's four runs say.
Behavior(four) ==
  LET same == {k \in 1..4 : four[k] = a_cksum}
  IN CASE same = 1..4 -> RESP_NONE
       [] same # {} /\ same # 1..4 -> RESP_MINOR
       [] same = {} /\ \A k \in 2..4 : four[k] = four[1] -> RESP_FIXED
       [] OTHER -> RESP_VARIABLE

\* All checksums change from one byte to the next.
AllChange == \A k \in 1..4 : prev[k] # sums[k]

Classify ==
  /\ a_phase = "bytes" /\ Len(sums) = 4
  /\ a_data' = [a_data EXCEPT ![a_i + 1] = Restored(@)]
  /\ seq_byte' = IF AllChange THEN 1 - seq_byte ELSE seq_byte
  /\ b_data' = Append(b_data, [resp |-> Behavior(sums), seq |-> seq_byte'])
  /\ prev' = sums /\ sums' = <<>> /\ seen' = Append(seen, sums)
  /\ a_i' = a_i + 1
  /\ UNCHANGED <<file, a_phase, a_cksum, regions>>

-----------------------------------------------------------------------------
(* dump_hex *)

StartDump ==
  /\ a_phase = "bytes" /\ a_i = a_len
  /\ a_phase' = "dump" /\ a_i' = 0
  /\ UNCHANGED <<file, a_data, a_cksum, sums, prev, seq_byte, b_data, regions, seen>>

\* Look ahead from a_i.
rlen == Max({n \in 1..(a_len - a_i) : \A k \in 1..n : b_data[a_i + k].seq = b_data[a_i + 1].seq})

rtype == Max({b_data[a_i + k].resp : k \in 1..rlen})

\* The little-endian integer in s is at most a_len, which has three bytes.
AtMostLen(s) ==
  /\ MapThenSumSet(LAMBDA k : s[k] * 256 ^ (k - 1), DOMAIN s \cap 1..3) <= a_len
  /\ \A k \in DOMAIN s \ 1..3 : s[k] = 0

IsLen(s) == AtMostLen(s) \/ AtMostLen(Reverse(s))

Abs(n) == IF n < 0 THEN -n ELSE n

Uniform(s) ==
  IF Len(s) = 2 THEN Abs(s[1] - s[2]) > 32
  ELSE \E k \in 2..4 : s[k] \div 128 # s[1] \div 128

\* The label of a run of two or four bytes of fixed response, by their value.
Integer(s) ==
  CASE Range(s) # {0} /\ IsLen(s) -> RESP_LEN
    [] Range(s) # {0} /\ ~IsLen(s) /\ Uniform(s) -> RESP_CKSUM
    [] OTHER -> RESP_FIXED

\* Of any run of fixed response.
Refined(s) ==
  CASE Len(s) \in {2, 4} -> Integer(s)
    [] Len(s) \in {1, 3} \cup 5..(LONG_BLOCK - 1) -> RESP_FIXED
    [] OTHER -> RESP_SUSPECT

DumpRun ==
  /\ a_phase = "dump" /\ a_i < a_len
  /\ LET label == IF rtype = RESP_FIXED THEN Refined(SubSeq(a_data, a_i + 1, a_i + rlen)) ELSE rtype
     IN regions' = Append(regions, [first |-> a_i, len |-> rlen, label |-> label])
  /\ a_i' = a_i + rlen
  /\ UNCHANGED <<file, a_phase, a_data, a_cksum, sums, prev, seq_byte, b_data, seen>>

Finish ==
  /\ a_phase = "dump" /\ a_i = a_len
  /\ a_phase' = "done"
  /\ UNCHANGED <<file, a_data, a_cksum, a_i, sums, prev, seq_byte, b_data, regions, seen>>

\* Ctrl-C, which the next run of the target finds.
Abort ==
  /\ \/ a_phase = "dry_run"
     \/ a_phase = "bytes" /\ a_i < a_len /\ Len(sums) < 4
  /\ a_phase' = "aborted"
  /\ UNCHANGED <<file, a_data, a_cksum, a_i, sums, prev, seq_byte, b_data, regions, seen>>

AnalyzeNext == FirstRun \/ TestByte \/ Classify \/ StartDump \/ DumpRun \/ Finish \/ Abort

AnalyzeSpec == AnalyzeInit /\ [][AnalyzeNext]_analyzeVars

-----------------------------------------------------------------------------
(* Properties. *)

TypeOK ==
  /\ file \in Files
  /\ a_phase \in {"dry_run", "bytes", "dump", "done", "failed", "aborted"}
  /\ a_data \in Seq(U8) /\ a_i \in 0..a_len
  /\ Len(sums) \in 0..4 /\ Len(prev) = 4 /\ seq_byte \in {0, 1}
  /\ b_data \in Seq([resp : RESP_NONE..RESP_FIXED, seq : {0, 1}])
  /\ \A r \in Range(regions) : r.label \in RESP_NONE..RESP_SUSPECT

\* The four values that analyze means to give a byte.
Meant(k, b) ==
  CASE k = 1 -> 255 - b
    [] k = 2 -> XorOne(b)
    [] k = 3 -> (b - 16) % 256
    [] k = 4 -> (b + 16) % 256

\* Every checksum that the labels come from is one that the target has on the
\* file with just that byte changed, in the way meant: analyze changes one
\* buffer in place, each time from what the last change has left, over bytes
\* that wrap around, and no hang or crash on the way leaves it out of step.
SumsOfTheFile ==
  /\ TypeOK
  /\ \A n \in DOMAIN seen, k \in 1..4 :
       seen[n][k] \in a_run_target([file.data EXCEPT ![n] = Meant(k, @)])
  /\ a_phase \in {"dump", "done"} => a_data = file.data

\* BytesOf n and n + 1 have no checksum in common.
Apart(n) == \A k \in 1..4 : seen[n][k] # seen[n + 1][k]

\* What dump_hex prints covers the file once and in order, and is divided
\* exactly where all four checksums change from one byte to the next: the
\* single bit in b_data that toggles there says so over runs of any length.
BordersRight ==
  a_phase = "done" =>
    /\ {r.first : r \in Range(regions)} = {0} \cup {n \in 1..(a_len - 1) : Apart(n)}
    /\ \A j \in DOMAIN regions :
         regions[j].first + regions[j].len =
           IF j = Len(regions) THEN a_len ELSE regions[j + 1].first

BytesOf(r) == (r.first + 1)..(r.first + r.len)
HasEffect(n, k) == seen[n][k] # a_cksum

\* What a printed label says of all changes in the run: "no-op" that none had an
\* effect, "superficial" that some had but no byte had one in every run,
\* "critical" that a byte had, and none of these the same one four times.
LabelsRight ==
  a_phase = "done" =>
    \A r \in Range(regions) :
      LET always == {n \in BytesOf(r) : \A k \in 1..4 : HasEffect(n, k)}
          same == {n \in always : \A k \in 2..4 : seen[n][k] = seen[n][1]}
          never == \A n \in BytesOf(r), k \in 1..4 : ~HasEffect(n, k)
      IN /\ (r.label = RESP_NONE) <=> never
         /\ (r.label = RESP_MINOR) <=> always = {} /\ ~never
         /\ (r.label = RESP_VARIABLE) <=> always # {} /\ same = {}

\* What afl-analyze prints is about the file and says what the runs have shown:
\* checksums of the file with one byte changed, borders where all four of them
\* change, and labels that are "no-op", "superficial", "critical" or finer exactly
\* when the changes in the run have that effect.
AnalysisRight == SumsOfTheFile /\ BordersRight /\ LabelsRight

\* The program ends, by the timer if a run of the target does not.
Analyzed == <>(a_phase \in {"done", "failed", "aborted"})
=============================================================================
