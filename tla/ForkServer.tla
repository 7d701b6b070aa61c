----------------------------- MODULE ForkServer -----------------------------
(***************************************************************************)
(* One afl-fuzz, its fork server and the target processes: two pipes,      *)
(* SIGALRM and SIGINT between any two steps, and the pid that run_target   *)
(* keeps from one run to the next.                                         *)
(*                                                                         *)
(* The server is the loop of interface.c ("plain"), the one of             *)
(* afl-llvm-rt.o.c in persistent mode ("persistent"), where the target     *)
(* stops itself after a run and is continued for the next, or none         *)
(* ("dumb"), when afl-fuzz forks the target itself.  A process is numbered *)
(* by the run that forked it.  A fresh number is never that of another     *)
(* process: the reuse of pids is left out.                                 *)
(***************************************************************************)
EXTENDS Integers, Sequences

CONSTANTS
  Modes,       \* the kinds of server to consider
  Runs,        \* bound: executions of the target
  LastRuns,    \* runs still begun once stop_soon is set (at most 3 in the code)
  MaxCnt       \* the argument of __AFL_LOOP

ASSUME ForkAssumption ==
  /\ Modes \subseteq {"plain", "persistent", "dumb"}
  /\ Runs \in Nat /\ LastRuns \in Nat
  /\ MaxCnt \in Nat \ {0}

VARIABLES
  mode,             \* which server the target has
  afl,              \* where afl-fuzz is
  run,              \* the number of the current or last run
  last,             \* runs begun since stop_soon was set
  child_pid, stop_soon, child_timed_out, prev_timed_out,
  timer,            \* is ITIMER_REAL armed
  status,           \* run_target's local, as last read
  ctl, st,          \* the control and the status pipe
  srv,              \* where the fork server is
  srv_pid,          \* the server's child_pid
  srv_status,       \* the server's status
  child_stopped, was_killed,
  cycle_cnt,        \* runs the persistent target has left
  proc,             \* every process: its state, or its wait status
  how, verdict      \* history: how the target ended, what the last run returned

aflVars == <<child_pid, prev_timed_out, timer, status>>
srvVars == <<srv, srv_pid, srv_status, child_stopped, was_killed>>
vars == <<mode, last, afl, run, child_pid, stop_soon, child_timed_out, prev_timed_out,
          timer, status, ctl, st, srv, srv_pid, srv_status, child_stopped,
          was_killed, cycle_cnt, proc, how, verdict>>

Pids == 1..Runs
Zombie == {"exit", "noexec", "segv", "kill"}
Over == {"exited", "fatal", "killed"}

Init ==
  /\ mode \in Modes
  /\ afl = IF mode = "dumb" THEN "idle" ELSE "init"
  /\ run = 0 /\ last = 0
  /\ child_pid = -1 /\ stop_soon = 0
  /\ child_timed_out = FALSE /\ prev_timed_out = FALSE
  /\ timer = FALSE
  /\ status = "none"
  /\ ctl = <<>> /\ st = <<>>
  /\ srv = "none" /\ srv_pid = 0 /\ srv_status = "none"
  /\ child_stopped = FALSE /\ was_killed = FALSE
  /\ cycle_cnt = 0
  /\ proc = [p \in Pids |-> "none"]
  /\ how = "none" /\ verdict = "none"

Running == afl \in {"fork", "order", "pid", "arm", "wait", "reaped", "disarm", "score"}

\* SIGKILL, which also ends a stopped process and leaves a dead one alone.
Die(p) ==
  [q \in Pids |-> IF q = p /\ proc[q] \in {"alive", "stopped"} THEN "kill" ELSE proc[q]]

\* The first thing that ends the target of a run.
Ends(way) == how' = IF Running /\ how = "none" THEN way ELSE how

-----------------------------------------------------------------------------
(* afl-fuzz: init_forkserver. *)

\* Pipes, fork, timer.
SpinUp ==
  /\ afl = "init"
  /\ srv' = "boot"
  /\ timer' = TRUE
  /\ afl' = "hello"
  /\ UNCHANGED <<mode, last, run, child_pid, stop_soon, child_timed_out, prev_timed_out,
                 status, ctl, st, srv_pid, srv_status, child_stopped, was_killed,
                 cycle_cnt, proc, how, verdict>>

Handshake ==
  /\ afl = "hello"
  /\ st # <<>>
  /\ st' = Tail(st)
  /\ timer' = FALSE
  /\ afl' = "idle"
  /\ UNCHANGED <<mode, last, run, child_pid, stop_soon, child_timed_out, prev_timed_out,
                 status, ctl, srvVars, cycle_cnt, proc, how, verdict>>

\* The end of the pipe instead of a hello: every way out is FATAL.
HandshakeFails ==
  /\ afl = "hello"
  /\ st = <<>> /\ srv = "dead"
  /\ timer' = FALSE
  /\ afl' = "fatal"
  /\ UNCHANGED <<mode, last, run, child_pid, stop_soon, child_timed_out, prev_timed_out,
                 status, ctl, st, srvVars, cycle_cnt, proc, how, verdict>>

-----------------------------------------------------------------------------
(* afl-fuzz: run_target. *)

\* child_timed_out and trace_bits are cleared.  run_target does not look at
\* stop_soon, and its callers do only when it has returned: a stop that comes
\* between two runs finds a calibration in save_if_interesting, the next mutation
\* or file of sync_fuzzers, and a calibration in fuzz_one still to begin.
Enter ==
  /\ afl = "idle"
  /\ stop_soon # 0 => last < LastRuns
  /\ run < Runs
  /\ run' = run + 1
  /\ last' = IF stop_soon # 0 THEN last + 1 ELSE 0
  /\ child_timed_out' = FALSE
  /\ afl' = IF mode = "dumb" THEN "fork" ELSE "order"
  /\ how' = "none" /\ verdict' = "none"
  /\ UNCHANGED <<mode, aflVars, stop_soon, ctl, st, srvVars, cycle_cnt, proc>>

\* Without a server afl-fuzz forks the target itself.
Fork ==
  /\ afl = "fork"
  /\ proc' = [proc EXCEPT ![run] = "alive"]
  /\ child_pid' = run
  /\ afl' = "arm"
  /\ UNCHANGED <<mode, last, run, stop_soon, child_timed_out, prev_timed_out, timer,
                 status, ctl, st, srvVars, cycle_cnt, how, verdict>>

Order ==
  /\ afl = "order"
  /\ srv # "dead"
  /\ ctl' = Append(ctl, prev_timed_out)
  /\ afl' = "pid"
  /\ UNCHANGED <<mode, last, run, aflVars, stop_soon, child_timed_out, st, srvVars,
                 cycle_cnt, proc, how, verdict>>

ReadPid ==
  /\ afl = "pid"
  /\ st # <<>>
  /\ child_pid' = Head(st)
  /\ st' = Tail(st)
  /\ afl' = "arm"
  /\ UNCHANGED <<mode, last, run, stop_soon, child_timed_out, prev_timed_out, timer,
                 status, ctl, srvVars, cycle_cnt, proc, how, verdict>>

Arm ==
  /\ afl = "arm"
  /\ timer' = TRUE
  /\ afl' = "wait"
  /\ UNCHANGED <<mode, last, run, child_pid, stop_soon, child_timed_out, prev_timed_out,
                 status, ctl, st, srvVars, cycle_cnt, proc, how, verdict>>

\* Mutant: the end of the pipe is not noticed while the status is waited for.
ServerGoneUnseen ==
  /\ afl = "order" \/ (afl = "pid" /\ st = <<>>)
  /\ srv = "dead"
  /\ afl' = IF stop_soon # 0 THEN "idle" ELSE "fatal"
  /\ timer' = (timer /\ stop_soon # 0)
  /\ UNCHANGED <<mode, last, run, child_pid, stop_soon, child_timed_out, prev_timed_out,
                 status, ctl, st, srvVars, cycle_cnt, proc, how, verdict>>

\* A pipe whose other end is gone: return when stopping, RPFATAL otherwise.
ServerGone ==
  /\ \/ afl = "order"
     \/ afl \in {"pid", "wait"} /\ st = <<>>
  /\ srv = "dead"
  /\ afl' = IF stop_soon # 0 THEN "idle" ELSE "fatal"
  /\ timer' = (timer /\ stop_soon # 0)
  /\ UNCHANGED <<mode, last, run, child_pid, stop_soon, child_timed_out, prev_timed_out,
                 status, ctl, st, srvVars, cycle_cnt, proc, how, verdict>>

\* waitpid, without a server.
WaitChild ==
  /\ afl = "wait" /\ mode = "dumb"
  /\ proc[child_pid] \in Zombie
  /\ status' = proc[child_pid]
  /\ proc' = [proc EXCEPT ![child_pid] = "gone"]
  /\ afl' = "reaped"
  /\ UNCHANGED <<mode, last, run, child_pid, stop_soon, child_timed_out, prev_timed_out,
                 timer, ctl, st, srvVars, cycle_cnt, how, verdict>>

ReadStatus ==
  /\ afl = "wait"
  /\ st # <<>>
  /\ status' = Head(st)
  /\ st' = Tail(st)
  /\ afl' = "reaped"
  /\ UNCHANGED <<mode, last, run, child_pid, stop_soon, child_timed_out, prev_timed_out,
                 timer, ctl, srvVars, cycle_cnt, proc, how, verdict>>

\* A target that has only stopped is kept.
Forget ==
  /\ afl = "reaped"
  /\ child_pid' = IF status # "stop" THEN 0 ELSE child_pid
  /\ afl' = "disarm"
  /\ UNCHANGED <<mode, last, run, stop_soon, child_timed_out, prev_timed_out, timer,
                 status, ctl, st, srvVars, cycle_cnt, proc, how, verdict>>

\* Mutant: the timer is left running.
DisarmNot ==
  /\ afl = "disarm"
  /\ afl' = "score"
  /\ UNCHANGED <<mode, last, run, child_pid, stop_soon, child_timed_out, prev_timed_out,
                 timer, status, ctl, st, srvVars, cycle_cnt, proc, how, verdict>>

Disarm ==
  /\ afl = "disarm"
  /\ timer' = FALSE
  /\ afl' = "score"
  /\ UNCHANGED <<mode, last, run, child_pid, stop_soon, child_timed_out, prev_timed_out,
                 status, ctl, st, srvVars, cycle_cnt, proc, how, verdict>>

Fault ==
  CASE status = "kill" /\ child_timed_out -> "FAULT_TMOUT"
    [] status = "segv" \/ (status = "kill" /\ ~child_timed_out) -> "FAULT_CRASH"
    [] status = "noexec" -> "FAULT_ERROR"
    [] OTHER -> "FAULT_NONE"

\* What was reported, and prev_timed_out for the next order.  Every caller
\* looks at stop_soon before it looks at the verdict.
Score ==
  /\ afl = "score"
  /\ prev_timed_out' = child_timed_out
  /\ verdict' = IF stop_soon # 0 THEN verdict ELSE Fault
  /\ afl' = "idle"
  /\ UNCHANGED <<mode, last, run, child_pid, stop_soon, child_timed_out, timer, status,
                 ctl, st, srvVars, cycle_cnt, proc, how>>

-----------------------------------------------------------------------------
(* afl-fuzz: stopping, and the signal handlers. *)

\* show_stats honors AFL_EXIT_WHEN_DONE and the like, between any two runs.
StopItself ==
  /\ afl = "idle" /\ stop_soon # 2
  /\ stop_soon' = 2
  /\ UNCHANGED <<mode, last, afl, run, aflVars, child_timed_out, ctl, st, srvVars,
                 cycle_cnt, proc, how, verdict>>

Exit ==
  /\ afl = "idle" /\ stop_soon # 0
  /\ afl' = "exited"
  /\ timer' = FALSE
  /\ UNCHANGED <<mode, last, run, child_pid, stop_soon, child_timed_out, prev_timed_out,
                 status, ctl, st, srvVars, cycle_cnt, proc, how, verdict>>

\* SIGKILL from outside: pipes and timer are gone with the process.
Killed ==
  /\ afl \notin Over
  /\ afl' = "killed"
  /\ timer' = FALSE
  /\ UNCHANGED <<mode, last, run, child_pid, stop_soon, child_timed_out, prev_timed_out,
                 status, ctl, st, srvVars, cycle_cnt, proc, how, verdict>>

handle_stop_sig ==
  /\ afl \notin Over
  /\ stop_soon' = 1
  /\ proc' = Die(child_pid)
  /\ srv' = IF srv # "none" THEN "dead" ELSE srv
  /\ UNCHANGED <<mode, last, afl, run, aflVars, child_timed_out, ctl, st, srv_pid,
                 srv_status, child_stopped, was_killed, cycle_cnt, how, verdict>>

\* The timer fires once.  It finds a target, a server not up yet, or nothing.
handle_timeout ==
  /\ timer
  /\ timer' = FALSE
  /\ child_timed_out' = (child_timed_out \/ child_pid > 0
                         \/ (child_pid = -1 /\ srv # "none"))
  /\ proc' = Die(child_pid)
  /\ srv' = IF child_pid = -1 /\ srv # "none" THEN "dead" ELSE srv
  /\ IF Die(child_pid) # proc THEN Ends("timed out") ELSE UNCHANGED how
  /\ UNCHANGED <<mode, last, afl, run, child_pid, stop_soon, prev_timed_out, status,
                 ctl, st, srv_pid, srv_status, child_stopped, was_killed, cycle_cnt,
                 verdict>>

-----------------------------------------------------------------------------
(* The fork server. *)

ServerStep ==
  UNCHANGED <<mode, last, afl, run, aflVars, stop_soon, child_timed_out, verdict>>

\* The target of the command line starts and reports, or does not.
Hello ==
  /\ srv = "boot"
  /\ st' = Append(st, "hello")
  /\ srv' = "read"
  /\ ServerStep
  /\ UNCHANGED <<ctl, srv_pid, srv_status, child_stopped, was_killed, cycle_cnt,
                 proc, how>>

BootFails ==
  /\ srv = "boot"
  /\ srv' = "dead"
  /\ ServerStep
  /\ UNCHANGED <<ctl, st, srv_pid, srv_status, child_stopped, was_killed, cycle_cnt,
                 proc, how>>

ReadOrder ==
  /\ srv = "read"
  /\ ctl # <<>>
  /\ was_killed' = Head(ctl)
  /\ ctl' = Tail(ctl)
  /\ srv' = "order"
  /\ ServerStep
  /\ UNCHANGED <<st, srv_pid, srv_status, child_stopped, cycle_cnt, proc, how>>

\* afl-fuzz is gone: read fails, and so does a checked write.
Hangup ==
  /\ afl \in Over
  /\ \/ srv = "read" /\ ctl = <<>>
     \/ srv \in {"tell", "report"} /\ mode = "persistent"
  /\ srv' = "dead"
  /\ ServerStep
  /\ UNCHANGED <<ctl, st, srv_pid, srv_status, child_stopped, was_killed, cycle_cnt,
                 proc, how>>

\* Mutant: the process that is written off still counts as stopped.
WriteOffKeeps ==
  /\ srv = "order" /\ mode = "persistent"
  /\ child_stopped /\ was_killed
  /\ proc[srv_pid] \in Zombie
  /\ proc' = [proc EXCEPT ![srv_pid] = "gone"]
  /\ ServerStep
  /\ UNCHANGED <<ctl, st, srv, srv_pid, srv_status, child_stopped, was_killed, cycle_cnt, how>>

\* afl-fuzz killed the target after it had stopped: the process is written off.
WriteOff ==
  /\ srv = "order" /\ mode = "persistent"
  /\ child_stopped /\ was_killed
  /\ proc[srv_pid] \in Zombie
  /\ proc' = [proc EXCEPT ![srv_pid] = "gone"]
  /\ child_stopped' = FALSE
  /\ ServerStep
  /\ UNCHANGED <<ctl, st, srv, srv_pid, srv_status, was_killed, cycle_cnt, how>>

Clone ==
  /\ srv = "order"
  /\ ~child_stopped
  /\ proc' = [proc EXCEPT ![run] = "alive"]
  /\ srv_pid' = run
  /\ cycle_cnt' = MaxCnt
  /\ srv' = "tell"
  /\ ServerStep
  /\ UNCHANGED <<ctl, st, srv_status, child_stopped, was_killed, how>>

CloneFails ==
  /\ srv = "order"
  /\ ~child_stopped
  /\ srv' = "dead"
  /\ ServerStep
  /\ UNCHANGED <<ctl, st, srv_pid, srv_status, child_stopped, was_killed, cycle_cnt,
                 proc, how>>

\* SIGCONT instead of a fork.
Continue ==
  /\ srv = "order"
  /\ child_stopped /\ ~was_killed
  /\ proc' = [proc EXCEPT ![srv_pid] = IF @ = "stopped" THEN "alive" ELSE @]
  /\ child_stopped' = FALSE
  /\ srv' = "tell"
  /\ ServerStep
  /\ UNCHANGED <<ctl, st, srv_pid, srv_status, was_killed, cycle_cnt, how>>

Tell ==
  /\ srv = "tell"
  /\ afl \notin Over \/ mode = "plain"
  /\ st' = Append(st, srv_pid)
  /\ srv' = "wait"
  /\ ServerStep
  /\ UNCHANGED <<ctl, srv_pid, srv_status, child_stopped, was_killed, cycle_cnt,
                 proc, how>>

\* waitpid: the end of the target or, in persistent mode, its stop.  Until then
\* the timer may still kill a target that has stopped.
Wait ==
  /\ srv = "wait"
  /\ \/ /\ proc[srv_pid] \in Zombie
        /\ srv_status' = proc[srv_pid]
        /\ proc' = [proc EXCEPT ![srv_pid] = "gone"]
        /\ UNCHANGED <<child_stopped, how>>
     \/ /\ proc[srv_pid] = "stopped" /\ mode = "persistent"
        /\ srv_status' = "stop"
        /\ child_stopped' = TRUE
        /\ Ends("ended")
        /\ UNCHANGED proc
  /\ srv' = "report"
  /\ ServerStep
  /\ UNCHANGED <<ctl, st, srv_pid, was_killed, cycle_cnt>>

\* Mutant: the status of the wait before is reported.
ReportEarly ==
  /\ srv \in {"wait", "report"}
  /\ afl \notin Over \/ mode = "plain"
  /\ st' = Append(st, srv_status)
  /\ srv' = "read"
  /\ ServerStep
  /\ UNCHANGED <<ctl, srv_pid, srv_status, child_stopped, was_killed, cycle_cnt,
                 proc, how>>

Report ==
  /\ srv = "report"
  /\ afl \notin Over \/ mode = "plain"
  /\ st' = Append(st, srv_status)
  /\ srv' = "read"
  /\ ServerStep
  /\ UNCHANGED <<ctl, srv_pid, srv_status, child_stopped, was_killed, cycle_cnt,
                 proc, how>>

-----------------------------------------------------------------------------
(* The target. *)

TargetStep ==
  UNCHANGED <<mode, last, afl, run, aflVars, stop_soon, child_timed_out, ctl, st, srvVars,
              verdict>>

\* It exits, crashes by a signal of its own, or could not be executed.  A
\* persistent one exits when its loop is over, and may at any time before.
TargetEnds(p) ==
  /\ proc[p] = "alive"
  /\ \E s \in {"exit", "segv"} \cup (IF mode = "dumb" THEN {"noexec"} ELSE {}) :
       /\ proc' = [proc EXCEPT ![p] = s]
       /\ Ends(CASE s = "exit" -> "ended" [] s = "segv" -> "crashed"
                 [] s = "noexec" -> "not executed")
  /\ TargetStep
  /\ UNCHANGED cycle_cnt

\* __afl_persistent_loop: SIGSTOP after every run but the last.
TargetStops(p) ==
  /\ mode = "persistent"
  /\ proc[p] = "alive"
  /\ cycle_cnt > 1
  /\ proc' = [proc EXCEPT ![p] = "stopped"]
  /\ cycle_cnt' = cycle_cnt - 1
  /\ TargetStep
  /\ UNCHANGED how

-----------------------------------------------------------------------------

Afl ==
  \/ SpinUp \/ Handshake \/ HandshakeFails
  \/ Enter \/ Fork \/ Order \/ ReadPid \/ Arm \/ ServerGone
  \/ WaitChild \/ ReadStatus \/ Forget \/ Disarm \/ Score
  \/ Exit

Signals == StopItself \/ Killed \/ handle_stop_sig \/ handle_timeout

Server ==
  \/ Hello \/ BootFails \/ ReadOrder \/ Hangup \/ WriteOff
  \/ Clone \/ CloneFails \/ Continue \/ Tell \/ Wait \/ Report

Target == \E p \in Pids : TargetEnds(p) \/ TargetStops(p)

Next == Afl \/ Signals \/ Server \/ Target

Spec == Init /\ [][Next]_vars

\* Both programs go on when they can, and an armed timer fires; the target may
\* run for ever.
FairSpec == Spec /\ WF_vars(Afl) /\ WF_vars(Server) /\ WF_vars(handle_timeout)

-----------------------------------------------------------------------------
(* Properties. *)

Statuses == {"exit", "segv", "kill", "noexec", "stop"}

Pipe(S) == {<<>>} \cup {<<m>> : m \in S}

FlagTypes ==
  /\ child_timed_out \in BOOLEAN /\ prev_timed_out \in BOOLEAN
  /\ timer \in BOOLEAN
  /\ ctl \in Pipe(BOOLEAN)
  /\ child_stopped \in BOOLEAN /\ was_killed \in BOOLEAN

AflTypes ==
  /\ mode \in Modes
  /\ afl \in {"init", "hello", "idle", "fork", "order", "pid", "arm", "wait",
             "reaped", "disarm", "score"} \cup Over
  /\ run \in 0..Runs /\ last \in 0..LastRuns
  /\ child_pid \in Pids \cup {-1, 0}
  /\ stop_soon \in 0..2
  /\ status \in Statuses \cup {"none"}
  /\ verdict \in {"none", "FAULT_NONE", "FAULT_CRASH", "FAULT_TMOUT", "FAULT_ERROR"}

ServerTypes ==
  /\ srv \in {"none", "boot", "read", "order", "tell", "wait", "report", "dead"}
  /\ srv_pid \in Pids \cup {0}
  /\ srv_status \in Statuses \cup {"none"}

TargetTypes ==
  /\ cycle_cnt \in 0..MaxCnt
  /\ proc \in [Pids -> {"none", "alive", "stopped", "gone"} \cup Zombie]
  /\ how \in {"none", "ended", "crashed", "timed out", "not executed"}

\* Types; the control pipe never holds two orders.
ForkTypeOK == FlagTypes /\ AflTypes /\ ServerTypes /\ TargetTypes

\* The two pipes stay in step: what run_target reads as a pid is the pid of the
\* server's target, what it reads as a status is the last one waited for, and
\* nothing is left over for the next run.
InStep ==
  mode # "dumb" =>
    /\ afl \in {"init", "reaped", "disarm", "score"}
         \/ (afl \in {"idle", "order"} /\ srv # "dead") =>
         ctl = <<>> /\ st = <<>> /\ srv \in {"none", "read", "dead"}
    /\ afl = "hello" => /\ ctl = <<>>
                       /\ \/ st = <<>> /\ srv \in {"boot", "dead"}
                          \/ st = <<"hello">> /\ srv \in {"read", "dead"}
    /\ afl = "pid" =>
         \/ st = <<>> /\ ctl = <<prev_timed_out>> /\ srv \in {"read", "dead"}
         \/ st = <<>> /\ ctl = <<>> /\ srv \in {"order", "tell", "dead"}
         \/ st = <<srv_pid>> /\ ctl = <<>> /\ srv \in {"wait", "report", "dead"}
         \/ st = <<srv_pid, srv_status>> /\ ctl = <<>> /\ srv \in {"read", "dead"}
    /\ afl \in {"arm", "wait"} =>
         /\ ctl = <<>> /\ child_pid = srv_pid /\ srv_pid \in Pids
         /\ \/ st = <<>> /\ srv \in {"wait", "report", "dead"}
            \/ st = <<srv_status>> /\ srv \in {"read", "dead"}

\* Where things can be at all: a program without a server has none, run_target
\* runs with a number, and the timer is only armed while a target is waited for.
Settled ==
  /\ mode = "dumb" =>
       /\ srv = "none" /\ ctl = <<>> /\ st = <<>> /\ ~child_stopped
       /\ afl \notin {"init", "hello", "order", "pid"}
       /\ afl \in {"arm", "wait"} => child_pid = run
  /\ mode # "dumb" =>
       /\ afl # "fork"
       /\ srv = "none" => afl \in {"init"} \cup Over
       /\ afl = "init" => srv = "none"
       /\ afl \in {"init", "hello"} => child_pid = -1 /\ ~child_stopped
       /\ afl \in {"arm", "wait", "reaped", "disarm"} => child_pid # -1
  /\ Running \/ ctl # <<>> \/ srv \in {"order", "tell", "wait", "report"} => run \in Pids
  /\ srv \in {"tell", "wait", "report"} \/ child_stopped => srv_pid \in Pids
  /\ afl = "pid" /\ st # <<>> => srv_pid \in Pids
  /\ timer /\ stop_soon = 0 => afl \in {"hello", "wait", "reaped", "disarm"}
  /\ afl \in Over => ~timer

\* The process of the run: there is no second one, and it only runs between the
\* server's fork and its waitpid.
Current == IF mode = "dumb" THEN run ELSE srv_pid

Alone ==
  stop_soon = 0 =>
    /\ \A p \in Pids : proc[p] \in {"alive", "stopped"} => p = Current
    /\ mode = "dumb" =>
         \A p \in Pids : /\ proc[p] # "stopped"
                         /\ proc[p] = "alive" => afl \in {"arm", "wait"} \cup Over
    /\ mode # "dumb" =>
         \A p \in Pids :
           /\ proc[p] = "alive" =>
                srv \in {"tell", "wait"} \/ (srv = "dead" /\ afl \in Over)
           /\ proc[p] = "stopped" =>
                child_stopped \/ srv \in {"tell", "wait"} \/ (srv = "dead" /\ afl \in Over)

Way(s) ==
  CASE s \in {"exit", "stop"} -> "ended"
    [] s = "segv" -> "crashed"
    [] s = "kill" -> "timed out"
    [] s = "noexec" -> "not executed"

\* A wait status tells how the target of this run has ended.
Reports(s) == /\ s \in Statuses
              /\ how = Way(s)
              /\ s = "kill" => child_timed_out

Fits(s) == /\ s \in {"alive", "stopped"} \cup Zombie
           /\ s \in {"alive", "stopped"} => how = "none"
           /\ s \in Zombie => Reports(s)

Watching == stop_soon = 0 /\ afl \notin Over

\* What is known of the target on its way from the process to the verdict, ...
TargetKnown ==
  Watching =>
    /\ afl \in {"fork", "order"} => how = "none"
    /\ mode = "dumb" /\ afl \in {"arm", "wait"} => Fits(proc[run])
    /\ mode # "dumb" =>
         /\ afl = "pid" /\ srv \in {"read", "order"} /\ st = <<>> => how = "none"
         /\ srv \in {"tell", "wait"} => ~child_stopped /\ Fits(proc[srv_pid])

StatusKnown ==
  Watching =>
    /\ afl \in {"reaped", "disarm", "score"} => Reports(status)
    /\ mode # "dumb" =>
         /\ srv = "report" => Reports(srv_status)
         /\ srv = "read" /\ (afl \in {"arm", "wait"} \/ (afl = "pid" /\ st # <<>>)) =>
              Reports(srv_status)
         /\ srv = "dead" /\ afl \in {"pid", "arm", "wait"} => st = <<>>

\* ... and of a stopped one the timer has killed on its way back to the server.
KillKnown ==
  Watching /\ child_stopped =>
    /\ proc[srv_pid] \in {"stopped", "kill"}
    /\ proc[srv_pid] = "kill" =>
         IF srv = "order" THEN was_killed
         ELSE IF afl \in {"idle", "order"} \/ ctl # <<>> THEN prev_timed_out
         ELSE child_timed_out

\* The inductive invariant of ForkServerProofs.
ForkInv ==
  /\ ForkTypeOK /\ InStep /\ Settled /\ Alone
  /\ TargetKnown /\ StatusKnown /\ KillKnown

\* Once a run's status has been read no target runs until the next order, so
\* that nothing writes to trace_bits while afl-fuzz works on it, and there is
\* never a second target beside a running or stopped one.
TraceQuiet ==
  stop_soon = 0 =>
    /\ afl \in {"idle", "order", "reaped", "disarm", "score"} =>
         \A p \in Pids : proc[p] # "alive"
    /\ \A p, q \in Pids :
         {proc[p], proc[q]} \subseteq {"alive", "stopped"} => p = q

\* run_target keeps its promise: a verdict tells how the target of this very
\* run has ended, although the timer may fire before or after its end and kill
\* a target that has only stopped, and although child_pid may be that of an
\* earlier run.
T == INSTANCE TargetRun WITH
       phase <- IF Running THEN "running" ELSE "idle"
RunPromise == T!Spec

\* Every run returns or ends afl-fuzz, and a stop is obeyed, whatever the
\* target does and whenever the signals arrive.
RunsEnd == (Running ~> ~Running) /\ (stop_soon # 0 ~> afl \in Over)
=============================================================================
