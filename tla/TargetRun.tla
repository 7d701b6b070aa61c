----------------------------- MODULE TargetRun -----------------------------
(***************************************************************************)
(* What afl-fuzz needs of one execution of its target: a run begins, the   *)
(* target ends in one way, and the run returns the verdict for that way    *)
(* and no other.  A Ctrl-C or a fatal error ends a run without a verdict.  *)
(***************************************************************************)
VARIABLES
  phase,     \* is a run going on
  how,       \* how the target of this run has ended
  verdict    \* what the last run returned

vars == <<phase, how, verdict>>

Ways == {"ended", "crashed", "timed out", "not executed"}

Verdict(way) ==
  CASE way = "ended" -> "FAULT_NONE"
    [] way = "crashed" -> "FAULT_CRASH"
    [] way = "timed out" -> "FAULT_TMOUT"
    [] way = "not executed" -> "FAULT_ERROR"

Init == phase = "idle" /\ how = "none" /\ verdict = "none"

Begin ==
  /\ phase = "idle"
  /\ phase' = "running"
  /\ how' = "none"
  /\ verdict' = "none"

End ==
  /\ phase = "running" /\ how = "none"
  /\ how' \in Ways
  /\ UNCHANGED <<phase, verdict>>

Return ==
  /\ phase = "running" /\ how \in Ways
  /\ phase' = "idle"
  /\ verdict' = Verdict(how)
  /\ UNCHANGED how

\* A run that was stopped tells its caller nothing.
Abandon ==
  /\ phase = "running"
  /\ phase' = "idle"
  /\ UNCHANGED <<how, verdict>>

Next == Begin \/ End \/ Return \/ Abandon

Spec == Init /\ [][Next]_vars
=============================================================================
