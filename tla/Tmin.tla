-------------------------------- MODULE Tmin --------------------------------
(***************************************************************************)
(* afl-tmin: shrinks a test case and sets its bytes to '0' as long as the  *)
(* target behaves as it did on the original.                               *)
(*                                                                         *)
(* A run of the target is part of the step that looks at its result; what  *)
(* the target does with a buffer is a record: crash, path (the checksum of *)
(* the trace after classes and mask, 0 for an empty one), and time, which  *)
(* is "fast", "hang", or "slow" for a run that may or may not beat the     *)
(* timer.                                                                  *)
(***************************************************************************)
EXTENDS Integers, Sequences, FiniteSetsExt

CONSTANTS
  Cases,               \* test cases: data, target, exact_mode
  Result(_, _),        \* of the run of a target on a buffer
  Chars, Zero,         \* the values of a byte; Zero is the digit '0'
  TMIN_SET_STEPS, TMIN_SET_MIN_SIZE, TRIM_START_STEPS

ASSUME TminAssumption ==
  /\ Zero \in Chars /\ Chars \subseteq Nat
  /\ {TMIN_SET_STEPS, TMIN_SET_MIN_SIZE, TRIM_START_STEPS} \subseteq Nat \ {0}
  /\ \A c \in Cases : c.data \in Seq(Chars)

VARIABLES
  case,                \* the test case with its target
  phase,
  in_data, crash_mode, orig_cksum,
  pos, size,           \* set_pos and set_len, del_pos and del_len, or i
  prev_del, changed_any, cur_pass,
  out_file

minVars == <<pos, size, prev_del, changed_any, cur_pass>>
tminVars == <<case, phase, in_data, crash_mode, orig_cksum, minVars, out_file>>

in_len == Len(in_data)

TminInit ==
  /\ case \in Cases
  /\ phase = "dry_run" /\ in_data = case.data
  /\ crash_mode = FALSE /\ orig_cksum = 0
  /\ pos = 0 /\ size = 1 /\ prev_del = TRUE /\ changed_any = FALSE /\ cur_pass = 0
  /\ out_file = <<>>

\* Doubled as long as it is too small; val times are enough.
next_p2(val) ==
  LET ret[n \in 0..val] == IF n = 0 THEN 1
                           ELSE IF val > ret[n - 1] THEN 2 * ret[n - 1] ELSE ret[n - 1]
  IN ret[val]

\* The run ends in time.
InTime(run) == {TRUE : t \in {run.time} \cap {"fast", "slow"}} \cup {FALSE : t \in {run.time} \cap {"hang", "slow"}}

\* Mutant: a crash is as good as the original path.
UnchangedOrCrash(run) == (run.crash /\ ~case.exact_mode) \/ run.path = orig_cksum

\* The run does what the original did.
Unchanged(run) ==
  /\ run.crash = crash_mode
  /\ (run.crash /\ ~case.exact_mode) \/ run.path = orig_cksum

\* The results that run_target may have on buf.
run_target(buf) == {intime /\ Unchanged(Result(case.target, buf)) : intime \in InTime(Result(case.target, buf))}

\* The first run, which decides the mode; a hang ends the program, and so does a
\* trace in which nothing is set.
DryRun ==
  /\ phase = "dry_run"
  /\ LET run == Result(case.target, in_data)
     IN \E intime \in InTime(run) :
          /\ phase' = IF intime /\ (run.crash \/ run.path # 0) THEN "blocks" ELSE "failed"
          /\ crash_mode' = IF intime THEN run.crash ELSE FALSE
          /\ orig_cksum' = IF intime THEN run.path ELSE 0
  /\ size' = Max({next_p2(in_len \div TMIN_SET_STEPS), TMIN_SET_MIN_SIZE})
  /\ UNCHANGED <<case, in_data, pos, prev_del, changed_any, cur_pass, out_file>>

Smaller(a, b) == IF a <= b THEN a ELSE b

\* n bytes of buf from at on are '0'.
Zeroed(buf, at, n) ==
  [k \in DOMAIN buf |-> IF k \in (at + 1)..(at + n) THEN Zero ELSE buf[k]]

\* in_data becomes buf if its run is as the original's.
Try(buf, yes, no) ==
  \E res \in run_target(buf) :
    IF res THEN in_data' = buf /\ yes ELSE UNCHANGED in_data /\ no

\* next_pass, with the lengths of the data as it is then.
NextPass(data) ==
  /\ phase' = "delete"
  /\ cur_pass' = cur_pass + 1 /\ changed_any' = FALSE
  /\ size' = next_p2(Len(data) \div TRIM_START_STEPS)
  /\ pos' = 0 /\ prev_del' = TRUE

\* Block normalization.
Block ==
  /\ phase = "blocks"
  /\ IF pos >= in_len
     THEN NextPass(in_data) /\ UNCHANGED in_data
     ELSE LET buf == Zeroed(in_data, pos, Smaller(size, in_len - pos))
          IN /\ IF buf = in_data THEN UNCHANGED in_data ELSE Try(buf, TRUE, TRUE)
             /\ pos' = pos + size
             /\ UNCHANGED <<phase, size, prev_del, changed_any, cur_pass>>
  /\ UNCHANGED <<case, crash_mode, orig_cksum, out_file>>

\* The block at pos and the one before it, if the last was not deleted.
SameAsLast ==
  /\ ~prev_del /\ pos + size < in_len
  /\ SubSeq(in_data, pos - size + 1, pos) = SubSeq(in_data, pos + 1, pos + size)

\* Block deletion; pos stays behind a deleted block.
Delete ==
  /\ phase = "delete" /\ pos < in_len
  /\ IF SameAsLast
     THEN pos' = pos + size /\ UNCHANGED <<in_data, prev_del, changed_any>>
     ELSE Try(SubSeq(in_data, 1, pos) \o SubSeq(in_data, pos + size + 1, in_len),
              prev_del' = TRUE /\ changed_any' = TRUE /\ pos' = pos,
              prev_del' = FALSE /\ pos' = pos + size /\ UNCHANGED changed_any)
  /\ UNCHANGED <<case, phase, crash_mode, orig_cksum, size, cur_pass, out_file>>

\* Mutant: the second pass is the last in any case.
SecondPass == cur_pass > 1

IdlePass == cur_pass > 1 /\ ~changed_any

\* A smaller block size, the end, or the next stage.
NextSize ==
  /\ phase = "delete" /\ pos >= in_len
  /\ IF size > 1 /\ in_len >= 1
     THEN size' = size \div 2 /\ prev_del' = TRUE /\ UNCHANGED phase
     ELSE /\ phase' = IF IdlePass THEN "finalize" ELSE "symbols"
          /\ UNCHANGED <<size, prev_del>>
  /\ pos' = 0
  /\ UNCHANGED <<case, in_data, crash_mode, orig_cksum, changed_any, cur_pass, out_file>>

\* Alphabet minimization: all bytes with the next value, pos counting the values.
Symbols ==
  /\ phase = "symbols"
  /\ LET left == {b \in Range(in_data) \ {Zero} : b >= pos}
         sym == Min(left)
     IN IF left = {}
        THEN /\ phase' = "characters" /\ pos' = 0
             /\ UNCHANGED <<in_data, changed_any>>
        ELSE /\ Try([k \in DOMAIN in_data |-> IF in_data[k] = sym THEN Zero ELSE in_data[k]],
                    changed_any' = TRUE, UNCHANGED changed_any)
             /\ pos' = sym + 1
             /\ UNCHANGED phase
  /\ UNCHANGED <<case, crash_mode, orig_cksum, size, prev_del, cur_pass, out_file>>

\* Character minimization.
Characters ==
  /\ phase = "characters"
  /\ IF pos >= in_len
     THEN /\ IF changed_any THEN NextPass(in_data)
                            ELSE phase' = "finalize" /\ UNCHANGED minVars
          /\ UNCHANGED in_data
     ELSE /\ IF in_data[pos + 1] = Zero
             THEN UNCHANGED <<in_data, changed_any>>
             ELSE Try(Zeroed(in_data, pos, 1), changed_any' = TRUE, UNCHANGED changed_any)
          /\ pos' = pos + 1
          /\ UNCHANGED <<phase, size, prev_del, cur_pass>>
  /\ UNCHANGED <<case, crash_mode, orig_cksum, out_file>>

\* The end of main.
Write ==
  /\ phase = "finalize"
  /\ out_file' = in_data /\ phase' = "written"
  /\ UNCHANGED <<case, in_data, crash_mode, orig_cksum, minVars>>

\* Ctrl-C, seen after the next run.
Stop ==
  /\ phase \in {"dry_run", "blocks", "delete", "symbols", "characters"}
  /\ pos < in_len
  /\ out_file' = in_data /\ phase' = "aborted"
  /\ UNCHANGED <<case, in_data, crash_mode, orig_cksum, minVars>>

Minimize == Block \/ Delete \/ NextSize \/ Symbols \/ Characters

TminNext == DryRun \/ Minimize \/ Write \/ Stop

TminSpec == TminInit /\ [][TminNext]_tminVars /\ WF_tminVars(TminNext)

-----------------------------------------------------------------------------
(* Properties. *)

\* Whatever is written, also on Ctrl-C, still does what the original did: it
\* hangs no more, crashes if the original did, and takes the same path if that
\* counts.
Reproduces ==
  phase \in {"written", "aborted"} =>
    LET first == Result(case.target, case.data)  last == Result(case.target, out_file)
    IN /\ last.time # "hang" \/ out_file = case.data
       /\ last.crash = first.crash
       /\ (first.crash /\ ~case.exact_mode) \/ last.path = first.path

Without(buf, k) == SubSeq(buf, 1, k - 1) \o SubSeq(buf, k + 1, Len(buf))

\* Nothing is left to delete: skipping a block that equals the last one and
\* ending after a pass that deletes nothing lose no byte, unless a run was slow.
NoByteSpare ==
  phase = "written" =>
    \A k \in DOMAIN in_data :
      LET run == Result(case.target, Without(in_data, k)) IN run.time = "fast" => ~Unchanged(run)

\* The passes end, whatever the target does.
Minimized == <>(phase \in {"failed", "written", "aborted"})
=============================================================================
