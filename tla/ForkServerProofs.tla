-------------------------- MODULE ForkServerProofs --------------------------
(***************************************************************************)
(* ForkServer, for any number of runs, any subset of the modes and any     *)
(* argument of __AFL_LOOP: the pipes stay in step, trace_bits is quiet     *)
(* between two runs, and run_target implements TargetRun.                  *)
(***************************************************************************)
EXTENDS ForkServer, SequenceTheorems, TLAPS

\* One message, and two.
LEMMA Single ==
  ASSUME NEW x
  PROVE  /\ Head(<<x>>) = x /\ Tail(<<x>>) = <<>> /\ <<x>> # <<>>
         /\ Append(<<>>, x) = <<x>>
<1>1. Head(<<x>>) = x /\ Tail(<<x>>) = <<>> /\ <<x>> # <<>>
  OBVIOUS
<1>2. Append(<<>>, x) = <<x>>
  OBVIOUS
<1> QED BY <1>1, <1>2

LEMMA Pair ==
  ASSUME NEW x, NEW y
  PROVE  /\ Head(<<x, y>>) = x /\ Tail(<<x, y>>) = <<y>> /\ <<x, y>> # <<>>
         /\ Append(<<x>>, y) = <<x, y>>
<1>1. Append(<<x>>, y) = <<x, y>>
  <2>1. <<x>> \in Seq({x, y}) /\ <<x, y>> \in Seq({x, y})
    OBVIOUS
  <2>2. Len(<<x>>) = 1 /\ Len(<<x, y>>) = 2
    OBVIOUS
  <2>3. Append(<<x>>, y) \in Seq({x, y})
    BY <2>1
  <2>4. Len(Append(<<x>>, y)) = 2
    BY <2>1, <2>2
  <2>5. Append(<<x>>, y)[1] = x /\ Append(<<x>>, y)[2] = y
    BY <2>1, <2>2
  <2>6. \A i \in 1..Len(<<x, y>>) : Append(<<x>>, y)[i] = <<x, y>>[i]
    BY <2>2, <2>5
  <2> QED BY ONLY <2>1, <2>2, <2>3, <2>4, <2>6, SeqEqual
<1>2. Head(<<x, y>>) = x /\ <<x, y>> # <<>>
  OBVIOUS
<1>3. Tail(<<x, y>>) = <<y>>
  OBVIOUS
<1> QED BY <1>1, <1>2, <1>3

\* The timer kills a target that has not ended, and says so.
LEMMA TimerFits ==
  ASSUME ForkInv, handle_timeout, child_pid \in Pids, Fits(proc[child_pid]),
         Running
  PROVE  (Fits(proc[child_pid]))'
<1>1. child_pid' = child_pid /\ proc' = Die(child_pid) /\ child_timed_out'
  <2>1. child_pid > 0
    BY DEF Pids
  <2> QED BY <2>1 DEF handle_timeout
<1>2. CASE proc[child_pid] \in {"alive", "stopped"}
  <2>1. proc'[child_pid] = "kill"
    BY <1>1, <1>2 DEF Die
  <2>2. how = "none" /\ Die(child_pid) # proc
    BY <1>1, <1>2, <2>1 DEF Fits
  <2>3. how' = "timed out"
    BY <2>2 DEF handle_timeout, Ends
  <2> QED BY <1>1, <2>1, <2>3 DEF Fits, Reports, Way, Statuses, Zombie
<1>3. CASE proc[child_pid] \in Zombie
  <2>1. proc'[child_pid] = proc[child_pid]
    BY <1>1, <1>3 DEF Die, Zombie
  <2>2. how # "none"
    BY <1>3 DEF Fits, Reports, Way, Zombie
  <2>3. how' = how
    BY <2>2 DEF handle_timeout, Ends
  <2> QED BY <1>1, <1>3, <2>1, <2>3 DEF Fits, Reports, Way, Statuses, Zombie
<1> QED BY <1>2, <1>3 DEF Fits

-----------------------------------------------------------------------------
(* Every action keeps the invariant. *)

\* Starting the server: no target yet, and the pipes are empty.
LEMMA DoSpinUp ==
  ASSUME ForkInv, SpinUp
  PROVE  ForkInv'
<1>1. FlagTypes'
  BY ForkAssumption, Single, Pair DEF SpinUp, aflVars, srvVars, ForkInv,
    ForkTypeOK, FlagTypes
<1>2. AflTypes'
  BY DEF SpinUp, aflVars, srvVars, ForkInv, ForkTypeOK, AflTypes, Over
<1>3. ServerTypes'
  BY DEF SpinUp, aflVars, srvVars, ForkInv, ForkTypeOK, ServerTypes
<1>4. TargetTypes'
  BY DEF SpinUp, aflVars, srvVars, ForkInv, ForkTypeOK, TargetTypes, Ends
<1>5. InStep'
  BY DEF SpinUp, aflVars, srvVars, ForkInv, InStep
<1>6. Settled'
  BY DEF SpinUp, aflVars, srvVars, ForkInv, Settled, Over, Running
<1>7. Alone'
  BY DEF SpinUp, aflVars, srvVars, ForkInv, Alone, Over, Current, InStep,
    Settled, ForkTypeOK, AflTypes
<1>8. TargetKnown'
  BY DEF SpinUp, aflVars, srvVars, ForkInv, TargetKnown
<1>9. StatusKnown'
  BY DEF SpinUp, aflVars, srvVars, ForkInv, StatusKnown
<1>10. KillKnown'
  BY DEF SpinUp, aflVars, srvVars, ForkInv, KillKnown, Watching, InStep,
    Settled, Over, ForkTypeOK, AflTypes
<1> QED BY <1>1, <1>2, <1>3, <1>4, <1>5, <1>6, <1>7, <1>8, <1>9, <1>10 DEF
  ForkInv, ForkTypeOK

\* The hello is the only thing in the status pipe.
LEMMA DoHandshake ==
  ASSUME ForkInv, Handshake
  PROVE  ForkInv'
<1>1. FlagTypes'
  BY ForkAssumption, Single, Pair DEF Handshake, aflVars, srvVars, ForkInv,
    ForkTypeOK, FlagTypes
<1>2. AflTypes'
  BY DEF Handshake, aflVars, srvVars, ForkInv, ForkTypeOK, AflTypes, Over
<1>3. ServerTypes'
  BY DEF Handshake, aflVars, srvVars, ForkInv, ForkTypeOK, ServerTypes
<1>4. TargetTypes'
  BY DEF Handshake, aflVars, srvVars, ForkInv, ForkTypeOK, TargetTypes, Ends
<1>5. InStep'
  <2>1. CASE mode = "dumb"
    BY <2>1 DEF Handshake, InStep
  <2>2. CASE mode # "dumb"
    <3>1. ctl = <<>> /\ st = <<"hello">> /\ srv \in {"read", "dead"}
      BY <2>2 DEF Handshake, ForkInv, InStep
    <3>2. st' = <<>>
      BY <3>1, Single DEF Handshake
    <3> QED BY <3>1, <3>2 DEF Handshake, srvVars, InStep
  <2> QED BY <2>1, <2>2
<1>6. Settled'
  BY DEF Handshake, aflVars, srvVars, ForkInv, Settled, Over, Running
<1>7. Alone'
  BY DEF Handshake, aflVars, srvVars, ForkInv, Alone, Over, Current
<1>8. TargetKnown'
  BY DEF Handshake, aflVars, srvVars, ForkInv, TargetKnown, Watching, Fits,
    Reports, Way, Zombie, InStep, Settled, Over, ForkTypeOK, AflTypes
<1>9. StatusKnown'
  BY DEF Handshake, aflVars, srvVars, ForkInv, StatusKnown, Watching, Reports,
    Statuses, Way, InStep, Settled, Over, ForkTypeOK, AflTypes
<1>10. KillKnown'
  BY DEF Handshake, aflVars, srvVars, ForkInv, KillKnown, Watching, InStep,
    Settled, Over, ForkTypeOK, AflTypes
<1> QED BY <1>1, <1>2, <1>3, <1>4, <1>5, <1>6, <1>7, <1>8, <1>9, <1>10 DEF
  ForkInv, ForkTypeOK

\* afl-fuzz ends; the pipes are as they were.
LEMMA DoHandshakeFails ==
  ASSUME ForkInv, HandshakeFails
  PROVE  ForkInv'
<1>1. FlagTypes'
  BY ForkAssumption, Single, Pair DEF HandshakeFails, aflVars, srvVars, ForkInv,
    ForkTypeOK, FlagTypes
<1>2. AflTypes'
  BY DEF HandshakeFails, aflVars, srvVars, ForkInv, ForkTypeOK, AflTypes, Over
<1>3. ServerTypes'
  BY DEF HandshakeFails, aflVars, srvVars, ForkInv, ForkTypeOK, ServerTypes
<1>4. TargetTypes'
  BY DEF HandshakeFails, aflVars, srvVars, ForkInv, ForkTypeOK, TargetTypes,
    Ends
<1>5. InStep'
  BY DEF HandshakeFails, aflVars, srvVars, ForkInv, InStep
<1>6. Settled'
  BY DEF HandshakeFails, aflVars, srvVars, ForkInv, Settled, Over, Running
<1>7. Alone'
  BY DEF HandshakeFails, aflVars, srvVars, ForkInv, Alone, Over, Current
<1>8. TargetKnown'
  BY DEF HandshakeFails, aflVars, srvVars, ForkInv, TargetKnown
<1>9. StatusKnown'
  BY DEF HandshakeFails, aflVars, srvVars, ForkInv, StatusKnown
<1>10. KillKnown'
  BY DEF HandshakeFails, aflVars, srvVars, ForkInv, KillKnown, Watching, InStep,
    Settled, Over, ForkTypeOK, AflTypes
<1> QED BY <1>1, <1>2, <1>3, <1>4, <1>5, <1>6, <1>7, <1>8, <1>9, <1>10 DEF
  ForkInv, ForkTypeOK

\* A run begins with empty pipes and no target but a stopped one.
LEMMA DoEnter ==
  ASSUME ForkInv, Enter
  PROVE  ForkInv'
<1>1. FlagTypes'
  BY ForkAssumption, Single, Pair DEF Enter, aflVars, srvVars, ForkInv,
    ForkTypeOK, FlagTypes
<1>2. AflTypes'
  BY ForkAssumption DEF Enter, aflVars, srvVars, ForkInv, ForkTypeOK, AflTypes,
    Over
<1>3. ServerTypes'
  BY DEF Enter, aflVars, srvVars, ForkInv, ForkTypeOK, ServerTypes
<1>4. TargetTypes'
  BY DEF Enter, aflVars, srvVars, ForkInv, ForkTypeOK, TargetTypes, Ends
<1>5. InStep'
  <2>1. CASE mode = "dumb"
    BY <2>1 DEF Enter, InStep
  <2>2. CASE mode # "dumb"
    <3>1. srv # "dead" => ctl = <<>> /\ st = <<>> /\ srv \in {"none", "read"}
      BY <2>2 DEF Enter, ForkInv, InStep
    <3> QED BY <2>2, <3>1 DEF Enter, srvVars, InStep
  <2> QED BY <2>1, <2>2
<1>6. Settled'
  <2>1. run' \in Pids
    BY ForkAssumption DEF Enter, ForkInv, ForkTypeOK, AflTypes, Pids
  <2>2. CASE mode = "dumb"
    BY <2>1, <2>2 DEF Enter, ForkInv, Settled, srvVars, aflVars, Running, Over
  <2>3. CASE mode # "dumb"
    <3>1. srv # "none" /\ (stop_soon = 0 => ~timer)
      BY <2>3 DEF Enter, ForkInv, Settled, Over
    <3>2. mode' # "dumb" /\ afl' = "order" /\ stop_soon' = stop_soon
      BY <2>3 DEF Enter
    <3> QED BY <2>1, <3>1, <3>2 DEF Enter, ForkInv, Settled, srvVars, aflVars,
      Over
  <2> QED BY <2>2, <2>3
<1>7. Alone'
  BY DEF Enter, aflVars, srvVars, ForkInv, Alone, Over, Current
<1>8. TargetKnown'
  <2>1. how' = "none" /\ afl' \in {"fork", "order"}
    BY DEF Enter
  <2>2. mode # "dumb" => srv \in {"none", "read", "dead"}
    BY DEF Enter, ForkInv, InStep
  <2>3. mode' = mode /\ srv' = srv
    BY DEF Enter, srvVars
  <2> QED BY <2>1, <2>2, <2>3 DEF TargetKnown
<1>9. StatusKnown'
  <2>1. afl' \in {"fork", "order"} /\ mode' = mode /\ srv' = srv
    BY DEF Enter, srvVars
  <2>2. mode # "dumb" => srv \in {"none", "read", "dead"}
    BY DEF Enter, ForkInv, InStep
  <2> QED BY <2>1, <2>2 DEF StatusKnown
<1>10. KillKnown'
  BY DEF Enter, aflVars, srvVars, ForkInv, KillKnown, Watching, InStep, Settled,
    Over, ForkTypeOK, AflTypes
<1> QED BY <1>1, <1>2, <1>3, <1>4, <1>5, <1>6, <1>7, <1>8, <1>9, <1>10 DEF
  ForkInv, ForkTypeOK

\* The target of a run without a server is the only one.
LEMMA DoFork ==
  ASSUME ForkInv, Fork
  PROVE  ForkInv'
<1>1. FlagTypes'
  BY ForkAssumption, Single, Pair DEF Fork, aflVars, srvVars, ForkInv,
    ForkTypeOK, FlagTypes
<1>2. AflTypes'
  BY DEF Fork, aflVars, srvVars, ForkInv, ForkTypeOK, AflTypes, Over, Settled,
    Running
<1>3. ServerTypes'
  BY DEF Fork, aflVars, srvVars, ForkInv, ForkTypeOK, ServerTypes
<1>4. TargetTypes'
  BY DEF Fork, aflVars, srvVars, ForkInv, ForkTypeOK, TargetTypes, Ends, Zombie
<1>5. InStep'
  BY DEF Fork, aflVars, srvVars, ForkInv, InStep, Pids, Settled, Over,
    ForkTypeOK, AflTypes
<1>6. Settled'
  BY DEF Fork, aflVars, srvVars, ForkInv, Settled, Over, Running
<1>7. Alone'
  BY DEF Fork, aflVars, srvVars, ForkInv, Alone, Over, Current, InStep, Settled,
    ForkTypeOK, AflTypes
<1>8. TargetKnown'
  BY Single, Pair DEF Fork, aflVars, srvVars, ForkInv, TargetKnown, Watching,
    Fits, Reports, Way, Zombie, InStep, Settled, Over, ForkTypeOK, AflTypes,
    TargetTypes, Pids, Die, Ends, Running
<1>9. StatusKnown'
  BY DEF Fork, aflVars, srvVars, ForkInv, StatusKnown, Watching, Reports,
    Statuses, Way, InStep, Settled, Over, ForkTypeOK, AflTypes
<1>10. KillKnown'
  BY DEF Fork, aflVars, srvVars, ForkInv, KillKnown, Watching, InStep, Settled,
    Over, ForkTypeOK, AflTypes
<1> QED BY <1>1, <1>2, <1>3, <1>4, <1>5, <1>6, <1>7, <1>8, <1>9, <1>10 DEF
  ForkInv, ForkTypeOK

\* The order tells whether the last run timed out, which is what is known of a
\* stopped target that was killed.
LEMMA DoOrder ==
  ASSUME ForkInv, Order
  PROVE  ForkInv'
<1>1. FlagTypes'
  BY Single, Pair DEF Order, aflVars, srvVars, ForkInv, ForkTypeOK, FlagTypes,
    InStep, Settled, Pipe
<1>2. AflTypes'
  BY DEF Order, aflVars, srvVars, ForkInv, ForkTypeOK, AflTypes, Over
<1>3. ServerTypes'
  BY DEF Order, aflVars, srvVars, ForkInv, ForkTypeOK, ServerTypes
<1>4. TargetTypes'
  BY DEF Order, aflVars, srvVars, ForkInv, ForkTypeOK, TargetTypes, Ends
<1>5. InStep'
  BY DEF Order, aflVars, srvVars, ForkInv, InStep, Pids, Settled, Over,
    ForkTypeOK, AflTypes
<1>6. Settled'
  BY DEF Order, aflVars, srvVars, ForkInv, Settled, Over, Running, InStep,
    ForkTypeOK, AflTypes
<1>7. Alone'
  BY DEF Order, aflVars, srvVars, ForkInv, Alone, Over, Current
<1>8. TargetKnown'
  BY DEF Order, aflVars, srvVars, ForkInv, TargetKnown, Watching, Fits, Reports,
    Way, Zombie, InStep, Settled, Over, ForkTypeOK, AflTypes
<1>9. StatusKnown'
  BY DEF Order, aflVars, srvVars, ForkInv, StatusKnown, Watching, Reports,
    Statuses, Way, InStep, Settled, Over, ForkTypeOK, AflTypes
<1>10. KillKnown'
  BY DEF Order, aflVars, srvVars, ForkInv, KillKnown, Watching, InStep, Settled,
    Over, ForkTypeOK, AflTypes
<1> QED BY <1>1, <1>2, <1>3, <1>4, <1>5, <1>6, <1>7, <1>8, <1>9, <1>10 DEF
  ForkInv, ForkTypeOK

\* The pid read is that of the server's target.
LEMMA DoReadPid ==
  ASSUME ForkInv, ReadPid
  PROVE  ForkInv'
<1>1. FlagTypes'
  BY ForkAssumption, Single, Pair DEF ReadPid, aflVars, srvVars, ForkInv,
    ForkTypeOK, FlagTypes
<1>2. AflTypes'
  BY Single, Pair DEF ReadPid, aflVars, srvVars, ForkInv, ForkTypeOK, AflTypes,
    Over, InStep, Settled, ServerTypes, Pids
<1>3. ServerTypes'
  BY DEF ReadPid, aflVars, srvVars, ForkInv, ForkTypeOK, ServerTypes
<1>4. TargetTypes'
  BY DEF ReadPid, aflVars, srvVars, ForkInv, ForkTypeOK, TargetTypes, Ends
<1>5. InStep'
  <2>1. mode # "dumb" /\ ctl = <<>> /\ srv_pid \in Pids
    BY DEF ReadPid, ForkInv, InStep, Settled
  <2>2. child_pid' = srv_pid /\ (\/ st' = <<>> /\ srv \in {"wait", "report", "dead"}
                                 \/ st' = <<srv_status>> /\ srv \in {"read", "dead"})
    <3>1. CASE st = <<srv_pid>> /\ srv \in {"wait", "report", "dead"}
      <4>1. Head(<<srv_pid>>) = srv_pid
        BY ONLY Single, Zenon
      <4>2. Tail(<<srv_pid>>) = <<>>
        BY ONLY Single, Zenon
      <4> QED BY <3>1, <4>1, <4>2 DEF ReadPid
    <3>2. CASE st = <<srv_pid, srv_status>> /\ srv \in {"read", "dead"}
      BY <3>2, Pair DEF ReadPid
    <3>3. (st = <<srv_pid>> /\ srv \in {"wait", "report", "dead"})
          \/ (st = <<srv_pid, srv_status>> /\ srv \in {"read", "dead"})
      BY <2>1 DEF ReadPid, ForkInv, InStep
    <3> QED BY <3>1, <3>2, <3>3
  <2>3. afl' = "arm" /\ UNCHANGED <<mode, ctl, srv, srv_pid, srv_status>>
    BY DEF ReadPid, srvVars
  <2> QED BY <2>1, <2>2, <2>3 DEF InStep, Pids
<1>6. Settled'
  <2>1. mode # "dumb" /\ srv_pid \in Pids
    BY DEF ReadPid, ForkInv, Settled
  <2>2. child_pid' = srv_pid
    BY <2>1, <1>5 DEF InStep, ReadPid, srvVars
  <2>3. srv_pid # -1
    BY <2>1 DEF Pids
  <2> QED BY <2>1, <2>2, <2>3, ForkAssumption DEF ReadPid, srvVars, ForkInv,
    Settled, Over, Running, Pids
<1>7. Alone'
  BY DEF ReadPid, aflVars, srvVars, ForkInv, Alone, Over, Current
<1>8. TargetKnown'
  BY DEF ReadPid, aflVars, srvVars, ForkInv, TargetKnown, Watching, Fits,
    Reports, Way, Zombie, InStep, Settled, Over, ForkTypeOK, AflTypes
<1>9. StatusKnown'
  BY DEF ReadPid, aflVars, srvVars, ForkInv, StatusKnown, Watching, Reports,
    Statuses, Way, InStep, Settled, Over, ForkTypeOK, AflTypes
<1>10. KillKnown'
  BY DEF ReadPid, aflVars, srvVars, ForkInv, KillKnown, Watching, InStep,
    Settled, Over, ForkTypeOK, AflTypes
<1> QED BY <1>1, <1>2, <1>3, <1>4, <1>5, <1>6, <1>7, <1>8, <1>9, <1>10 DEF
  ForkInv, ForkTypeOK

\* Arming the timer changes nothing that is known of the target.
LEMMA DoArm ==
  ASSUME ForkInv, Arm
  PROVE  ForkInv'
<1>1. FlagTypes'
  BY ForkAssumption, Single, Pair DEF Arm, aflVars, srvVars, ForkInv,
    ForkTypeOK, FlagTypes
<1>2. AflTypes'
  BY DEF Arm, aflVars, srvVars, ForkInv, ForkTypeOK, AflTypes, Over
<1>3. ServerTypes'
  BY DEF Arm, aflVars, srvVars, ForkInv, ForkTypeOK, ServerTypes
<1>4. TargetTypes'
  BY DEF Arm, aflVars, srvVars, ForkInv, ForkTypeOK, TargetTypes, Ends
<1>5. InStep'
  BY DEF Arm, aflVars, srvVars, ForkInv, InStep
<1>6. Settled'
  BY DEF Arm, aflVars, srvVars, ForkInv, Settled, Over, Running
<1>7. Alone'
  BY DEF Arm, aflVars, srvVars, ForkInv, Alone, Over, Current
<1>8. TargetKnown'
  BY DEF Arm, aflVars, srvVars, ForkInv, TargetKnown, Watching, Fits, Reports,
    Way, Zombie, InStep, Settled, Over, ForkTypeOK, AflTypes
<1>9. StatusKnown'
  BY DEF Arm, aflVars, srvVars, ForkInv, StatusKnown, Watching, Reports,
    Statuses, Way, InStep, Settled, Over, ForkTypeOK, AflTypes
<1>10. KillKnown'
  BY DEF Arm, aflVars, srvVars, ForkInv, KillKnown, Watching, InStep, Settled,
    Over, ForkTypeOK, AflTypes
<1> QED BY <1>1, <1>2, <1>3, <1>4, <1>5, <1>6, <1>7, <1>8, <1>9, <1>10 DEF
  ForkInv, ForkTypeOK

\* A run ends without a verdict, and without a timer unless a stop is due.
LEMMA DoServerGone ==
  ASSUME ForkInv, ServerGone
  PROVE  ForkInv'
<1>1. FlagTypes'
  BY ForkAssumption, Single, Pair DEF ServerGone, aflVars, srvVars, ForkInv,
    ForkTypeOK, FlagTypes
<1>2. AflTypes'
  BY DEF ServerGone, aflVars, srvVars, ForkInv, ForkTypeOK, AflTypes, Over
<1>3. ServerTypes'
  BY DEF ServerGone, aflVars, srvVars, ForkInv, ForkTypeOK, ServerTypes
<1>4. TargetTypes'
  BY DEF ServerGone, aflVars, srvVars, ForkInv, ForkTypeOK, TargetTypes, Ends
<1>5. InStep'
  <2>1. afl' \in {"idle", "fatal"} /\ srv' = "dead"
    BY DEF ServerGone, srvVars
  <2> QED BY <2>1 DEF InStep
<1>6. Settled'
  BY DEF ServerGone, aflVars, srvVars, ForkInv, Settled, Over, Running
<1>7. Alone'
  BY DEF ServerGone, aflVars, srvVars, ForkInv, Alone, Over, Current
<1>8. TargetKnown'
  BY DEF ServerGone, aflVars, srvVars, ForkInv, TargetKnown
<1>9. StatusKnown'
  BY DEF ServerGone, aflVars, srvVars, ForkInv, StatusKnown
<1>10. KillKnown'
  BY DEF ServerGone, aflVars, srvVars, ForkInv, KillKnown, Watching, InStep,
    Settled, Over, ForkTypeOK, AflTypes
<1> QED BY <1>1, <1>2, <1>3, <1>4, <1>5, <1>6, <1>7, <1>8, <1>9, <1>10 DEF
  ForkInv, ForkTypeOK

\* The status of a target without a server tells how it ended.
LEMMA DoWaitChild ==
  ASSUME ForkInv, WaitChild
  PROVE  ForkInv'
<1>1. FlagTypes'
  BY ForkAssumption, Single, Pair DEF WaitChild, aflVars, srvVars, ForkInv,
    ForkTypeOK, FlagTypes
<1>2. AflTypes'
  BY DEF WaitChild, aflVars, srvVars, ForkInv, ForkTypeOK, AflTypes, Over,
    Zombie, Statuses, TargetTypes, InStep, Settled, Pids
<1>3. ServerTypes'
  BY DEF WaitChild, aflVars, srvVars, ForkInv, ForkTypeOK, ServerTypes
<1>4. TargetTypes'
  BY DEF WaitChild, aflVars, srvVars, ForkInv, ForkTypeOK, TargetTypes, Ends,
    Zombie
<1>5. InStep'
  BY DEF WaitChild, aflVars, srvVars, ForkInv, InStep
<1>6. Settled'
  BY DEF WaitChild, aflVars, srvVars, ForkInv, Settled, Over, Running
<1>7. Alone'
  BY Single, Pair DEF WaitChild, aflVars, srvVars, ForkInv, Alone, Over,
    Current, InStep, Settled, ForkTypeOK, AflTypes, TargetTypes, Zombie, Pids,
    Die, Ends, Running
<1>8. TargetKnown'
  BY DEF WaitChild, aflVars, srvVars, ForkInv, TargetKnown
<1>9. StatusKnown'
  <2>1. SUFFICES ASSUME Watching PROVE StatusKnown'
    BY DEF StatusKnown, WaitChild, Watching, Over
  <2>2. child_pid = run
    BY DEF WaitChild, ForkInv, Settled
  <2>3. Reports(proc[run])
    BY <2>1, <2>2 DEF WaitChild, ForkInv, TargetKnown, Fits
  <2>4. /\ status' = proc[run] /\ afl' = "reaped"
        /\ UNCHANGED <<mode, how, child_timed_out>>
    BY <2>2 DEF WaitChild
  <2>5. (Reports(status))'
    BY <2>3, <2>4 DEF Reports, Statuses, Way
  <2> QED BY <2>4, <2>5 DEF WaitChild, StatusKnown
<1>10. KillKnown'
  BY DEF WaitChild, aflVars, srvVars, ForkInv, KillKnown, Watching, InStep,
    Settled, Over, ForkTypeOK, AflTypes
<1> QED BY <1>1, <1>2, <1>3, <1>4, <1>5, <1>6, <1>7, <1>8, <1>9, <1>10 DEF
  ForkInv, ForkTypeOK

\* The status read is the one the server waited for; the pipe is empty again.
LEMMA DoReadStatus ==
  ASSUME ForkInv, ReadStatus
  PROVE  ForkInv'
<1>1. FlagTypes'
  BY ForkAssumption, Single, Pair DEF ReadStatus, aflVars, srvVars, ForkInv,
    ForkTypeOK, FlagTypes
<1>2. AflTypes'
  BY Single, Pair DEF ReadStatus, aflVars, srvVars, ForkInv, ForkTypeOK,
    AflTypes, Over, InStep, Settled, ServerTypes
<1>3. ServerTypes'
  BY DEF ReadStatus, aflVars, srvVars, ForkInv, ForkTypeOK, ServerTypes
<1>4. TargetTypes'
  BY DEF ReadStatus, aflVars, srvVars, ForkInv, ForkTypeOK, TargetTypes, Ends
<1>5. InStep'
  BY DEF ReadStatus, aflVars, srvVars, ForkInv, InStep, Pids
<1>6. Settled'
  BY DEF ReadStatus, aflVars, srvVars, ForkInv, Settled, Over, Running
<1>7. Alone'
  BY DEF ReadStatus, aflVars, srvVars, ForkInv, Alone, Over, Current, InStep,
    Settled, ForkTypeOK, AflTypes
<1>8. TargetKnown'
  BY DEF ReadStatus, aflVars, srvVars, ForkInv, TargetKnown, Watching, Fits,
    Reports, Way, Zombie, InStep, Settled, Over, ForkTypeOK, AflTypes
<1>9. StatusKnown'
  <2>1. SUFFICES ASSUME Watching PROVE StatusKnown'
    BY DEF StatusKnown, ReadStatus, Watching, Over
  <2>2. mode # "dumb"
    BY DEF ReadStatus, ForkInv, Settled
  <2>3. srv = "read" /\ st = <<srv_status>>
    BY <2>1, <2>2 DEF ReadStatus, ForkInv, InStep, StatusKnown
  <2>4. Reports(srv_status)
    BY <2>1, <2>2, <2>3 DEF ReadStatus, ForkInv, StatusKnown
  <2>5. status' = srv_status /\ how' = how /\ child_timed_out' = child_timed_out
    BY <2>3, Single, Zenon DEF ReadStatus
  <2>6. (Reports(status))'
    BY <2>4, <2>5 DEF Reports, Statuses, Way
  <2>7. UNCHANGED <<mode, srv>> /\ afl' = "reaped"
    BY DEF ReadStatus, srvVars
  <2> QED BY <2>2, <2>3, <2>6, <2>7 DEF StatusKnown
<1>10. KillKnown'
  BY DEF ReadStatus, aflVars, srvVars, ForkInv, KillKnown, Watching, InStep,
    Settled, Over, ForkTypeOK, AflTypes
<1> QED BY <1>1, <1>2, <1>3, <1>4, <1>5, <1>6, <1>7, <1>8, <1>9, <1>10 DEF
  ForkInv, ForkTypeOK

\* Forgetting the pid leaves the status in hand.
LEMMA DoForget ==
  ASSUME ForkInv, Forget
  PROVE  ForkInv'
<1>1. FlagTypes'
  BY ForkAssumption, Single, Pair DEF Forget, aflVars, srvVars, ForkInv,
    ForkTypeOK, FlagTypes
<1>2. AflTypes'
  BY DEF Forget, aflVars, srvVars, ForkInv, ForkTypeOK, AflTypes, Over
<1>3. ServerTypes'
  BY DEF Forget, aflVars, srvVars, ForkInv, ForkTypeOK, ServerTypes
<1>4. TargetTypes'
  BY DEF Forget, aflVars, srvVars, ForkInv, ForkTypeOK, TargetTypes, Ends
<1>5. InStep'
  BY DEF Forget, aflVars, srvVars, ForkInv, InStep
<1>6. Settled'
  BY DEF Forget, aflVars, srvVars, ForkInv, Settled, Over, Running
<1>7. Alone'
  BY DEF Forget, aflVars, srvVars, ForkInv, Alone, Over, Current
<1>8. TargetKnown'
  BY DEF Forget, aflVars, srvVars, ForkInv, TargetKnown, Watching, Fits,
    Reports, Way, Zombie, InStep, Settled, Over, ForkTypeOK, AflTypes
<1>9. StatusKnown'
  BY DEF Forget, aflVars, srvVars, ForkInv, StatusKnown, Watching, Reports,
    Statuses, Way, InStep, Settled, Over, ForkTypeOK, AflTypes
<1>10. KillKnown'
  BY DEF Forget, aflVars, srvVars, ForkInv, KillKnown, Watching, InStep,
    Settled, Over, ForkTypeOK, AflTypes
<1> QED BY <1>1, <1>2, <1>3, <1>4, <1>5, <1>6, <1>7, <1>8, <1>9, <1>10 DEF
  ForkInv, ForkTypeOK

\* The status in hand stays true when the timer is gone.
LEMMA DoDisarm ==
  ASSUME ForkInv, Disarm
  PROVE  ForkInv'
<1>1. FlagTypes'
  BY ForkAssumption, Single, Pair DEF Disarm, aflVars, srvVars, ForkInv,
    ForkTypeOK, FlagTypes
<1>2. AflTypes'
  BY DEF Disarm, aflVars, srvVars, ForkInv, ForkTypeOK, AflTypes, Over
<1>3. ServerTypes'
  BY DEF Disarm, aflVars, srvVars, ForkInv, ForkTypeOK, ServerTypes
<1>4. TargetTypes'
  BY DEF Disarm, aflVars, srvVars, ForkInv, ForkTypeOK, TargetTypes, Ends
<1>5. InStep'
  BY DEF Disarm, aflVars, srvVars, ForkInv, InStep
<1>6. Settled'
  BY DEF Disarm, aflVars, srvVars, ForkInv, Settled, Over, Running
<1>7. Alone'
  BY DEF Disarm, aflVars, srvVars, ForkInv, Alone, Over, Current
<1>8. TargetKnown'
  BY DEF Disarm, aflVars, srvVars, ForkInv, TargetKnown, Watching, Fits,
    Reports, Way, Zombie, InStep, Settled, Over, ForkTypeOK, AflTypes
<1>9. StatusKnown'
  BY DEF Disarm, aflVars, srvVars, ForkInv, StatusKnown, Watching, Reports,
    Statuses, Way, InStep, Settled, Over, ForkTypeOK, AflTypes
<1>10. KillKnown'
  BY DEF Disarm, aflVars, srvVars, ForkInv, KillKnown, Watching, InStep,
    Settled, Over, ForkTypeOK, AflTypes
<1> QED BY <1>1, <1>2, <1>3, <1>4, <1>5, <1>6, <1>7, <1>8, <1>9, <1>10 DEF
  ForkInv, ForkTypeOK

\* What prev_timed_out takes over is what is known of a target killed while stopped.
LEMMA DoScore ==
  ASSUME ForkInv, Score
  PROVE  ForkInv'
<1>1. FlagTypes'
  BY ForkAssumption, Single, Pair DEF Score, aflVars, srvVars, ForkInv,
    ForkTypeOK, FlagTypes
<1>2. AflTypes'
  BY DEF Score, aflVars, srvVars, ForkInv, ForkTypeOK, AflTypes, Over, Fault
<1>3. ServerTypes'
  BY DEF Score, aflVars, srvVars, ForkInv, ForkTypeOK, ServerTypes
<1>4. TargetTypes'
  BY DEF Score, aflVars, srvVars, ForkInv, ForkTypeOK, TargetTypes, Ends
<1>5. InStep'
  BY DEF Score, aflVars, srvVars, ForkInv, InStep
<1>6. Settled'
  BY DEF Score, aflVars, srvVars, ForkInv, Settled, Over, Running
<1>7. Alone'
  BY DEF Score, aflVars, srvVars, ForkInv, Alone, Over, Current
<1>8. TargetKnown'
  BY DEF Score, aflVars, srvVars, ForkInv, TargetKnown, Watching, Fits, Reports,
    Way, Zombie, InStep, Settled, Over, ForkTypeOK, AflTypes
<1>9. StatusKnown'
  BY DEF Score, aflVars, srvVars, ForkInv, StatusKnown, Watching, Reports,
    Statuses, Way, InStep, Settled, Over, ForkTypeOK, AflTypes
<1>10. KillKnown'
  BY DEF Score, aflVars, srvVars, ForkInv, KillKnown, Watching, InStep, Settled,
    Over, ForkTypeOK, AflTypes
<1> QED BY <1>1, <1>2, <1>3, <1>4, <1>5, <1>6, <1>7, <1>8, <1>9, <1>10 DEF
  ForkInv, ForkTypeOK

\* afl-fuzz ends, and its timer with it.
LEMMA DoExit ==
  ASSUME ForkInv, Exit
  PROVE  ForkInv'
<1>1. FlagTypes'
  BY ForkAssumption, Single, Pair DEF Exit, aflVars, srvVars, ForkInv,
    ForkTypeOK, FlagTypes
<1>2. AflTypes'
  BY DEF Exit, aflVars, srvVars, ForkInv, ForkTypeOK, AflTypes, Over
<1>3. ServerTypes'
  BY DEF Exit, aflVars, srvVars, ForkInv, ForkTypeOK, ServerTypes
<1>4. TargetTypes'
  BY DEF Exit, aflVars, srvVars, ForkInv, ForkTypeOK, TargetTypes, Ends
<1>5. InStep'
  BY DEF Exit, aflVars, srvVars, ForkInv, InStep
<1>6. Settled'
  BY DEF Exit, aflVars, srvVars, ForkInv, Settled, Over, Running
<1>7. Alone'
  BY DEF Exit, aflVars, srvVars, ForkInv, Alone
<1>8. TargetKnown'
  BY DEF Exit, aflVars, srvVars, ForkInv, TargetKnown, Watching, Fits, Reports,
    Way, Zombie
<1>9. StatusKnown'
  BY DEF Exit, aflVars, srvVars, ForkInv, StatusKnown, Watching, Reports,
    Statuses, Way
<1>10. KillKnown'
  BY DEF Exit, aflVars, srvVars, ForkInv, KillKnown, Watching
<1> QED BY <1>1, <1>2, <1>3, <1>4, <1>5, <1>6, <1>7, <1>8, <1>9, <1>10 DEF
  ForkInv, ForkTypeOK

\* A stop between two runs.
LEMMA DoStopItself ==
  ASSUME ForkInv, StopItself
  PROVE  ForkInv'
<1>1. FlagTypes'
  BY ForkAssumption, Single, Pair DEF StopItself, aflVars, srvVars, ForkInv,
    ForkTypeOK, FlagTypes
<1>2. AflTypes'
  BY DEF StopItself, aflVars, srvVars, ForkInv, ForkTypeOK, AflTypes, Over
<1>3. ServerTypes'
  BY DEF StopItself, aflVars, srvVars, ForkInv, ForkTypeOK, ServerTypes
<1>4. TargetTypes'
  BY DEF StopItself, aflVars, srvVars, ForkInv, ForkTypeOK, TargetTypes, Ends
<1>5. InStep'
  BY DEF StopItself, aflVars, srvVars, ForkInv, InStep
<1>6. Settled'
  BY DEF StopItself, aflVars, srvVars, ForkInv, Settled, Over, Running
<1>7. Alone'
  BY DEF StopItself, aflVars, srvVars, ForkInv, Alone
<1>8. TargetKnown'
  BY DEF StopItself, TargetKnown, Watching
<1>9. StatusKnown'
  BY DEF StopItself, StatusKnown, Watching
<1>10. KillKnown'
  BY DEF StopItself, aflVars, srvVars, ForkInv, KillKnown, Watching
<1> QED BY <1>1, <1>2, <1>3, <1>4, <1>5, <1>6, <1>7, <1>8, <1>9, <1>10 DEF
  ForkInv, ForkTypeOK

\* afl-fuzz is killed; the server and the target are on their own.
LEMMA DoKilled ==
  ASSUME ForkInv, Killed
  PROVE  ForkInv'
<1>1. FlagTypes'
  BY ForkAssumption, Single, Pair DEF Killed, aflVars, srvVars, ForkInv,
    ForkTypeOK, FlagTypes
<1>2. AflTypes'
  BY DEF Killed, aflVars, srvVars, ForkInv, ForkTypeOK, AflTypes, Over
<1>3. ServerTypes'
  BY DEF Killed, aflVars, srvVars, ForkInv, ForkTypeOK, ServerTypes
<1>4. TargetTypes'
  BY DEF Killed, aflVars, srvVars, ForkInv, ForkTypeOK, TargetTypes, Ends
<1>5. InStep'
  BY DEF Killed, aflVars, srvVars, ForkInv, InStep
<1>6. Settled'
  BY DEF Killed, aflVars, srvVars, ForkInv, Settled, Over, Running
<1>7. Alone'
  BY DEF Killed, aflVars, srvVars, ForkInv, Alone, Over, Current
<1>8. TargetKnown'
  BY DEF Killed, aflVars, srvVars, ForkInv, TargetKnown, Watching, Fits,
    Reports, Way, Zombie
<1>9. StatusKnown'
  BY DEF Killed, aflVars, srvVars, ForkInv, StatusKnown, Watching, Reports,
    Statuses, Way
<1>10. KillKnown'
  BY DEF Killed, aflVars, srvVars, ForkInv, KillKnown, Watching, InStep,
    Settled, Over, ForkTypeOK, AflTypes
<1> QED BY <1>1, <1>2, <1>3, <1>4, <1>5, <1>6, <1>7, <1>8, <1>9, <1>10 DEF
  ForkInv, ForkTypeOK

\* A stop signal may break the order of things only after stop_soon is set.
LEMMA Dohandle_stop_sig ==
  ASSUME ForkInv, handle_stop_sig
  PROVE  ForkInv'
<1>1. FlagTypes'
  BY ForkAssumption, Single, Pair DEF handle_stop_sig, aflVars, srvVars,
    ForkInv, ForkTypeOK, FlagTypes
<1>2. AflTypes'
  BY DEF handle_stop_sig, aflVars, srvVars, ForkInv, ForkTypeOK, AflTypes, Over
<1>3. ServerTypes'
  BY DEF handle_stop_sig, aflVars, srvVars, ForkInv, ForkTypeOK, ServerTypes
<1>4. TargetTypes'
  BY DEF handle_stop_sig, aflVars, srvVars, ForkInv, ForkTypeOK, TargetTypes,
    Ends, Die, Zombie
<1>5. InStep'
  BY DEF handle_stop_sig, aflVars, srvVars, ForkInv, InStep
<1>6. Settled'
  BY DEF handle_stop_sig, aflVars, ForkInv, Settled, Running, Over
<1>7. Alone'
  BY DEF handle_stop_sig, Alone
<1>8. TargetKnown'
  BY DEF handle_stop_sig, TargetKnown, Watching
<1>9. StatusKnown'
  BY DEF handle_stop_sig, StatusKnown, Watching
<1>10. KillKnown'
  BY DEF handle_stop_sig, KillKnown, Watching
<1> QED BY <1>1, <1>2, <1>3, <1>4, <1>5, <1>6, <1>7, <1>8, <1>9, <1>10 DEF
  ForkInv, ForkTypeOK

\* The timer kills the current target or the server that is not up, and
\* child_timed_out says so.
LEMMA Dohandle_timeout ==
  ASSUME ForkInv, handle_timeout
  PROVE  ForkInv'
<1>1. FlagTypes'
  BY ForkAssumption, Single, Pair DEF handle_timeout, aflVars, srvVars, ForkInv,
    ForkTypeOK, FlagTypes
<1>2. AflTypes'
  BY DEF handle_timeout, aflVars, srvVars, ForkInv, ForkTypeOK, AflTypes, Over
<1>3. ServerTypes'
  BY DEF handle_timeout, aflVars, srvVars, ForkInv, ForkTypeOK, ServerTypes
<1>4. TargetTypes'
  BY DEF handle_timeout, aflVars, srvVars, ForkInv, ForkTypeOK, TargetTypes,
    Ends, Die, Zombie
<1>5. InStep'
  BY DEF handle_timeout, aflVars, srvVars, ForkInv, InStep
<1>6. Settled'
  BY DEF handle_timeout, aflVars, srvVars, ForkInv, Settled, Over, Running
<1>7. Alone'
  BY Single, Pair DEF handle_timeout, aflVars, srvVars, ForkInv, Alone, Over,
    Current, InStep, Settled, ForkTypeOK, AflTypes, TargetTypes, Zombie, Pids,
    Die, Ends, Running
<1>8. TargetKnown'
  <2>1. SUFFICES ASSUME Watching PROVE TargetKnown'
    BY DEF TargetKnown, handle_timeout, Watching
  <2>2. /\ afl \in {"hello", "wait", "reaped", "disarm"}
        /\ UNCHANGED <<mode, afl, run, st, ctl, srv_pid, srv_status, status,
                       child_stopped, was_killed, prev_timed_out>>
    BY <2>1 DEF handle_timeout, ForkInv, Settled, Watching
  <2>3. mode # "dumb" /\ afl # "hello" => child_pid # -1
    BY <2>2 DEF ForkInv, Settled
  <2>4. CASE mode = "dumb" /\ afl = "wait"
    <3>1. child_pid = run /\ run \in Pids /\ Fits(proc[run])
      BY <2>1, <2>4 DEF ForkInv, Settled, TargetKnown, Running
    <3>2. child_pid \in Pids /\ Fits(proc[child_pid])
      BY <3>1
    <3>4. Running
      BY <2>2, <2>4 DEF Running
    <3>3. (Fits(proc[child_pid]))'
      BY <3>2, <3>4, TimerFits
    <3> QED BY <2>2, <2>4, <3>1, <3>3 DEF handle_timeout, TargetKnown
  <2>5. CASE mode # "dumb" /\ afl = "wait" /\ srv = "wait"
    <3>1. /\ child_pid = srv_pid /\ srv_pid \in Pids
          /\ Fits(proc[srv_pid]) /\ ~child_stopped
      BY <2>1, <2>5 DEF ForkInv, InStep, TargetKnown
    <3>2. child_pid \in Pids /\ Fits(proc[child_pid])
      BY <3>1
    <3>4. Running
      BY <2>2, <2>5 DEF Running
    <3>3. (Fits(proc[child_pid]))'
      BY <3>2, <3>4, TimerFits
    <3>5. UNCHANGED <<mode, afl, srv, srv_pid, child_pid, child_stopped>>
      BY <2>2, <2>3, <2>5 DEF handle_timeout
    <3> QED BY <2>5, <3>1, <3>3, <3>5 DEF TargetKnown
  <2>6. CASE /\ ~(mode = "dumb" /\ afl = "wait")
             /\ ~(mode # "dumb" /\ afl = "wait" /\ srv = "wait")
    <3>1. mode # "dumb" => srv' \notin {"tell", "wait"}
      BY <2>2, <2>6 DEF handle_timeout, ForkInv, InStep
    <3> QED BY <2>2, <2>6, <3>1 DEF TargetKnown
  <2> QED BY <2>2, <2>4, <2>5, <2>6
<1>9. StatusKnown'
  <2>1. SUFFICES ASSUME Watching PROVE StatusKnown'
    BY DEF StatusKnown, handle_timeout, Watching
  <2>2. /\ afl \in {"hello", "wait", "reaped", "disarm"}
        /\ UNCHANGED <<mode, afl, run, st, ctl, srv_pid, srv_status, status,
                       child_stopped, was_killed, prev_timed_out>>
    BY <2>1 DEF handle_timeout, ForkInv, Settled, Watching
  <2>3. mode # "dumb" /\ afl # "hello" => child_pid # -1
    BY <2>2 DEF ForkInv, Settled
  <2>4. how # "none" => how' = how
    BY DEF handle_timeout, Ends
  <2>5. child_timed_out => child_timed_out'
    BY DEF handle_timeout
  <2>6. ASSUME NEW s, Reports(s)
        PROVE  s \in Statuses /\ how' = Way(s) /\ (s = "kill" => child_timed_out')
    <3>1. how # "none"
      BY <2>6 DEF Reports, Way, Statuses
    <3> QED BY <2>4, <2>5, <2>6, <3>1 DEF Reports
  <2>7. afl \in {"reaped", "disarm"} => Reports(status)
    BY <2>1, <2>2 DEF ForkInv, StatusKnown
  <2>8. mode # "dumb" /\ afl = "wait" =>
          srv' = srv /\ srv \in {"wait", "report", "read", "dead"}
    BY <2>2, <2>3 DEF handle_timeout, ForkInv, InStep
  <2>9. mode # "dumb" /\ srv' = "report" => afl = "wait" /\ srv = "report"
    BY <2>2, <2>8 DEF handle_timeout, ForkInv, InStep
  <2>10. (Reports(status))' <=>
           (status \in Statuses /\ how' = Way(status)
            /\ (status = "kill" => child_timed_out'))
    BY <2>2 DEF Reports, Statuses, Way
  <2>11. (Reports(srv_status))' <=>
           (srv_status \in Statuses /\ how' = Way(srv_status)
            /\ (srv_status = "kill" => child_timed_out'))
    BY <2>2 DEF Reports, Statuses, Way
  <2>12. afl \in {"reaped", "disarm"} => (Reports(status))'
    BY <2>6, <2>7, <2>10
  <2>13. mode # "dumb" /\ afl = "wait" /\ srv \in {"report", "read"} =>
           (Reports(srv_status))'
    <3>1. mode # "dumb" /\ afl = "wait" /\ srv \in {"report", "read"} =>
             Reports(srv_status)
      BY <2>1 DEF ForkInv, StatusKnown
    <3> QED BY <3>1, <2>6, <2>11
  <2>14. mode # "dumb" /\ afl = "wait" /\ srv = "dead" => st = <<>>
    BY <2>1 DEF ForkInv, StatusKnown
  <2> QED BY <2>2, <2>8, <2>9, <2>12, <2>13, <2>14 DEF StatusKnown
<1>10. KillKnown'
  <2>1. SUFFICES ASSUME Watching, child_stopped PROVE KillKnown'
    BY DEF KillKnown, handle_timeout, Watching
  <2>2. /\ mode # "dumb" /\ afl \in {"wait", "reaped", "disarm"}
        /\ child_pid # -1 /\ srv_pid \in Pids
    BY <2>1 DEF handle_timeout, ForkInv, Settled, Watching
  <2>3. ctl = <<>> /\ srv # "order"
    BY <2>1, <2>2 DEF ForkInv, InStep
  <2>4. UNCHANGED <<afl, ctl, srv, srv_pid>>
    BY <2>2 DEF handle_timeout
  <2>5. /\ proc[srv_pid] \in {"stopped", "kill"}
        /\ (proc[srv_pid] = "kill" => child_timed_out)
    BY <2>1, <2>2, <2>3 DEF ForkInv, KillKnown
  <2>6. proc'[srv_pid] = IF srv_pid = child_pid THEN "kill" ELSE proc[srv_pid]
    BY <2>2, <2>5 DEF handle_timeout, Die
  <2>7. srv_pid = child_pid => child_timed_out'
    <3>1. srv_pid > 0
      BY <2>2 DEF Pids
    <3> QED BY <3>1 DEF handle_timeout
  <2>8. child_timed_out => child_timed_out'
    BY DEF handle_timeout
  <2> QED BY <2>2, <2>3, <2>4, <2>5, <2>6, <2>7, <2>8 DEF KillKnown
<1> QED BY <1>1, <1>2, <1>3, <1>4, <1>5, <1>6, <1>7, <1>8, <1>9, <1>10 DEF
  ForkInv, ForkTypeOK

\* The server reports once.
LEMMA DoHello ==
  ASSUME ForkInv, Hello
  PROVE  ForkInv'
<1>1. FlagTypes'
  BY ForkAssumption, Single, Pair DEF Hello, ServerStep, aflVars, ForkInv,
    ForkTypeOK, FlagTypes
<1>2. AflTypes'
  BY DEF Hello, ServerStep, aflVars, ForkInv, ForkTypeOK, AflTypes, Over
<1>3. ServerTypes'
  BY DEF Hello, ServerStep, aflVars, ForkInv, ForkTypeOK, ServerTypes
<1>4. TargetTypes'
  BY DEF Hello, ServerStep, aflVars, ForkInv, ForkTypeOK, TargetTypes, Ends
<1>5. InStep'
  BY Single, Pair DEF Hello, ServerStep, aflVars, ForkInv, InStep, Pids,
    Settled, Over, ForkTypeOK, AflTypes, TargetTypes, Zombie, Die, Ends, Running
<1>6. Settled'
  BY DEF Hello, ServerStep, aflVars, ForkInv, Settled, Over, Running, InStep,
    ForkTypeOK, AflTypes
<1>7. Alone'
  BY DEF Hello, ServerStep, aflVars, ForkInv, Alone, Over, Current
<1>8. TargetKnown'
  BY DEF Hello, ServerStep, aflVars, ForkInv, TargetKnown, Watching, Fits,
    Reports, Way, Zombie, InStep, Settled, Over, ForkTypeOK, AflTypes
<1>9. StatusKnown'
  BY DEF Hello, ServerStep, aflVars, ForkInv, StatusKnown, Watching, Reports,
    Statuses, Way, InStep, Settled, Over, ForkTypeOK, AflTypes
<1>10. KillKnown'
  BY DEF Hello, ServerStep, aflVars, ForkInv, KillKnown, Watching
<1> QED BY <1>1, <1>2, <1>3, <1>4, <1>5, <1>6, <1>7, <1>8, <1>9, <1>10 DEF
  ForkInv, ForkTypeOK

\* The server ends before it has reported.
LEMMA DoBootFails ==
  ASSUME ForkInv, BootFails
  PROVE  ForkInv'
<1>1. FlagTypes'
  BY ForkAssumption, Single, Pair DEF BootFails, ServerStep, aflVars, ForkInv,
    ForkTypeOK, FlagTypes
<1>2. AflTypes'
  BY DEF BootFails, ServerStep, aflVars, ForkInv, ForkTypeOK, AflTypes, Over
<1>3. ServerTypes'
  BY DEF BootFails, ServerStep, aflVars, ForkInv, ForkTypeOK, ServerTypes
<1>4. TargetTypes'
  BY DEF BootFails, ServerStep, aflVars, ForkInv, ForkTypeOK, TargetTypes, Ends
<1>5. InStep'
  BY DEF BootFails, ServerStep, aflVars, ForkInv, InStep
<1>6. Settled'
  BY DEF BootFails, ServerStep, aflVars, ForkInv, Settled, Over, Running
<1>7. Alone'
  BY DEF BootFails, ServerStep, aflVars, ForkInv, Alone, Over, Current
<1>8. TargetKnown'
  BY DEF BootFails, ServerStep, aflVars, ForkInv, TargetKnown, Watching, Fits,
    Reports, Way, Zombie
<1>9. StatusKnown'
  BY DEF BootFails, ServerStep, aflVars, ForkInv, StatusKnown, Watching,
    Reports, Statuses, Way, InStep, Settled, Over, ForkTypeOK, AflTypes
<1>10. KillKnown'
  BY DEF BootFails, ServerStep, aflVars, ForkInv, KillKnown, Watching
<1> QED BY <1>1, <1>2, <1>3, <1>4, <1>5, <1>6, <1>7, <1>8, <1>9, <1>10 DEF
  ForkInv, ForkTypeOK

\* The server takes the one order.
LEMMA DoReadOrder ==
  ASSUME ForkInv, ReadOrder
  PROVE  ForkInv'
<1>1. FlagTypes'
  <2>1. PICK m \in BOOLEAN : ctl = <<m>>
    BY DEF ForkInv, ForkTypeOK, FlagTypes, Pipe, ReadOrder
  <2>2. ctl' = <<>> /\ was_killed' = m
    BY <2>1, Single, Pair DEF ReadOrder
  <2> QED BY <2>1, <2>2 DEF ReadOrder, ServerStep, aflVars, ForkInv, ForkTypeOK,
    FlagTypes, Pipe
<1>2. AflTypes'
  BY DEF ReadOrder, ServerStep, aflVars, ForkInv, ForkTypeOK, AflTypes, Over
<1>3. ServerTypes'
  BY DEF ReadOrder, ServerStep, aflVars, ForkInv, ForkTypeOK, ServerTypes
<1>4. TargetTypes'
  BY DEF ReadOrder, ServerStep, aflVars, ForkInv, ForkTypeOK, TargetTypes, Ends
<1>5. InStep'
  BY Single, Pair DEF ReadOrder, ServerStep, aflVars, ForkInv, InStep, Pids,
    Settled, Over, ForkTypeOK, AflTypes, TargetTypes, Zombie, Die, Ends, Running
<1>6. Settled'
  BY DEF ReadOrder, ServerStep, aflVars, ForkInv, Settled
<1>7. Alone'
  BY DEF ReadOrder, ServerStep, aflVars, ForkInv, Alone, Over, Current
<1>8. TargetKnown'
  BY DEF ReadOrder, ServerStep, aflVars, ForkInv, TargetKnown, Watching, Fits,
    Reports, Way, Zombie
<1>9. StatusKnown'
  BY DEF ReadOrder, ServerStep, aflVars, ForkInv, StatusKnown, Watching,
    Reports, Statuses, Way
<1>10. KillKnown'
  <2>1. SUFFICES ASSUME Watching, child_stopped PROVE KillKnown'
    BY DEF KillKnown, ReadOrder, ServerStep, Watching
  <2>2. ctl = <<prev_timed_out>>
    BY <2>1, Single, Pair DEF ReadOrder, ForkInv, InStep, Settled, Watching,
      Over, ForkTypeOK, AflTypes, Pipe, FlagTypes
  <2>3. was_killed' = prev_timed_out
    BY <2>2, Single, Pair DEF ReadOrder
  <2>4. /\ proc[srv_pid] \in {"stopped", "kill"}
        /\ (proc[srv_pid] = "kill" => prev_timed_out)
    BY <2>1, <2>2, Single, Pair DEF ReadOrder, ForkInv, KillKnown
  <2> QED BY <2>3, <2>4 DEF ReadOrder, ServerStep, KillKnown
<1> QED BY <1>1, <1>2, <1>3, <1>4, <1>5, <1>6, <1>7, <1>8, <1>9, <1>10 DEF
  ForkInv, ForkTypeOK

\* The server ends when afl-fuzz is gone.
LEMMA DoHangup ==
  ASSUME ForkInv, Hangup
  PROVE  ForkInv'
<1>1. FlagTypes'
  BY ForkAssumption, Single, Pair DEF Hangup, ServerStep, aflVars, ForkInv,
    ForkTypeOK, FlagTypes
<1>2. AflTypes'
  BY DEF Hangup, ServerStep, aflVars, ForkInv, ForkTypeOK, AflTypes, Over
<1>3. ServerTypes'
  BY DEF Hangup, ServerStep, aflVars, ForkInv, ForkTypeOK, ServerTypes
<1>4. TargetTypes'
  BY DEF Hangup, ServerStep, aflVars, ForkInv, ForkTypeOK, TargetTypes, Ends
<1>5. InStep'
  BY DEF Hangup, ServerStep, aflVars, ForkInv, InStep
<1>6. Settled'
  BY DEF Hangup, ServerStep, aflVars, ForkInv, Settled, Over, Running
<1>7. Alone'
  BY DEF Hangup, ServerStep, aflVars, ForkInv, Alone, Over, Current
<1>8. TargetKnown'
  BY DEF Hangup, ServerStep, aflVars, ForkInv, TargetKnown, Watching, Fits,
    Reports, Way, Zombie
<1>9. StatusKnown'
  BY DEF Hangup, ServerStep, aflVars, ForkInv, StatusKnown, Watching, Reports,
    Statuses, Way
<1>10. KillKnown'
  BY DEF Hangup, ServerStep, aflVars, ForkInv, KillKnown, Watching
<1> QED BY <1>1, <1>2, <1>3, <1>4, <1>5, <1>6, <1>7, <1>8, <1>9, <1>10 DEF
  ForkInv, ForkTypeOK

\* A stopped target that was killed is reaped without a report.
LEMMA DoWriteOff ==
  ASSUME ForkInv, WriteOff
  PROVE  ForkInv'
<1>1. FlagTypes'
  BY ForkAssumption, Single, Pair DEF WriteOff, ServerStep, aflVars, ForkInv,
    ForkTypeOK, FlagTypes
<1>2. AflTypes'
  BY DEF WriteOff, ServerStep, aflVars, ForkInv, ForkTypeOK, AflTypes, Over
<1>3. ServerTypes'
  BY DEF WriteOff, ServerStep, aflVars, ForkInv, ForkTypeOK, ServerTypes
<1>4. TargetTypes'
  BY DEF WriteOff, ServerStep, aflVars, ForkInv, ForkTypeOK, TargetTypes, Ends,
    Zombie
<1>5. InStep'
  BY DEF WriteOff, ServerStep, aflVars, ForkInv, InStep
<1>6. Settled'
  BY DEF WriteOff, ServerStep, aflVars, ForkInv, Settled
<1>7. Alone'
  BY Single, Pair DEF WriteOff, ServerStep, aflVars, ForkInv, Alone, Over,
    Current, InStep, Settled, ForkTypeOK, AflTypes, TargetTypes, Zombie, Pids,
    Die, Ends, Running
<1>8. TargetKnown'
  BY DEF WriteOff, ServerStep, aflVars, ForkInv, TargetKnown, Watching, Fits,
    Reports, Way, Zombie
<1>9. StatusKnown'
  BY DEF WriteOff, ServerStep, aflVars, ForkInv, StatusKnown, Watching, Reports,
    Statuses, Way
<1>10. KillKnown'
  BY DEF WriteOff, ServerStep, aflVars, ForkInv, KillKnown
<1> QED BY <1>1, <1>2, <1>3, <1>4, <1>5, <1>6, <1>7, <1>8, <1>9, <1>10 DEF
  ForkInv, ForkTypeOK

\* The target forked is the only one.
LEMMA DoClone ==
  ASSUME ForkInv, Clone
  PROVE  ForkInv'
<1>1. FlagTypes'
  BY ForkAssumption, Single, Pair DEF Clone, ServerStep, aflVars, ForkInv,
    ForkTypeOK, FlagTypes
<1>2. AflTypes'
  BY DEF Clone, ServerStep, aflVars, ForkInv, ForkTypeOK, AflTypes, Over
<1>3. ServerTypes'
  BY DEF Clone, ServerStep, aflVars, ForkInv, ForkTypeOK, ServerTypes, Settled
<1>4. TargetTypes'
  <2>1. (cycle_cnt \in 0..MaxCnt)'
    BY ForkAssumption DEF Clone
  <2>2. (proc \in [Pids -> {"none", "alive", "stopped", "gone"} \cup Zombie])'
    BY DEF Clone, ForkInv, ForkTypeOK, TargetTypes
  <2>3. how' = how
    BY DEF Clone
  <2> QED BY <2>1, <2>2, <2>3 DEF ForkInv, ForkTypeOK, TargetTypes
<1>5. InStep'
  BY DEF Clone, ServerStep, aflVars, ForkInv, InStep
<1>6. Settled'
  BY DEF Clone, ServerStep, aflVars, ForkInv, Settled
<1>7. Alone'
  BY DEF Clone, ServerStep, aflVars, ForkInv, Alone, Over, Current, InStep,
    Settled, ForkTypeOK, AflTypes
<1>8. TargetKnown'
  <2>1. SUFFICES ASSUME Watching PROVE TargetKnown'
    BY DEF TargetKnown, Clone, ServerStep, Watching
  <2>2. mode # "dumb" /\ afl = "pid" /\ st = <<>> /\ run \in Pids
    BY <2>1 DEF Clone, ForkInv, InStep, Settled, Watching, Over, ForkTypeOK,
      AflTypes
  <2>3. how = "none"
    BY <2>1, <2>2 DEF Clone, ForkInv, TargetKnown
  <2>4. proc'[srv_pid'] = "alive"
    BY <2>2 DEF Clone, ForkInv, ForkTypeOK, TargetTypes
  <2> QED BY <2>2, <2>3, <2>4 DEF Clone, ServerStep, TargetKnown, Fits, Zombie
<1>9. StatusKnown'
  BY DEF Clone, ServerStep, aflVars, ForkInv, StatusKnown, Watching, Reports,
    Statuses, Way
<1>10. KillKnown'
  BY DEF Clone, ServerStep, aflVars, ForkInv, KillKnown
<1> QED BY <1>1, <1>2, <1>3, <1>4, <1>5, <1>6, <1>7, <1>8, <1>9, <1>10 DEF
  ForkInv, ForkTypeOK

\* The server ends with no target running.
LEMMA DoCloneFails ==
  ASSUME ForkInv, CloneFails
  PROVE  ForkInv'
<1>1. FlagTypes'
  BY ForkAssumption, Single, Pair DEF CloneFails, ServerStep, aflVars, ForkInv,
    ForkTypeOK, FlagTypes
<1>2. AflTypes'
  BY DEF CloneFails, ServerStep, aflVars, ForkInv, ForkTypeOK, AflTypes, Over
<1>3. ServerTypes'
  BY DEF CloneFails, ServerStep, aflVars, ForkInv, ForkTypeOK, ServerTypes
<1>4. TargetTypes'
  BY DEF CloneFails, ServerStep, aflVars, ForkInv, ForkTypeOK, TargetTypes, Ends
<1>5. InStep'
  BY DEF CloneFails, ServerStep, aflVars, ForkInv, InStep
<1>6. Settled'
  BY DEF CloneFails, ServerStep, aflVars, ForkInv, Settled
<1>7. Alone'
  BY DEF CloneFails, ServerStep, aflVars, ForkInv, Alone, Over, Current
<1>8. TargetKnown'
  BY DEF CloneFails, ServerStep, aflVars, ForkInv, TargetKnown, Watching, Fits,
    Reports, Way, Zombie
<1>9. StatusKnown'
  BY DEF CloneFails, ServerStep, aflVars, ForkInv, StatusKnown, Watching,
    Reports, Statuses, Way, InStep, Settled, Over, ForkTypeOK, AflTypes
<1>10. KillKnown'
  BY DEF CloneFails, ServerStep, aflVars, ForkInv, KillKnown
<1> QED BY <1>1, <1>2, <1>3, <1>4, <1>5, <1>6, <1>7, <1>8, <1>9, <1>10 DEF
  ForkInv, ForkTypeOK

\* The target continued is the only one, and was not killed.
LEMMA DoContinue ==
  ASSUME ForkInv, Continue
  PROVE  ForkInv'
<1>1. FlagTypes'
  BY ForkAssumption, Single, Pair DEF Continue, ServerStep, aflVars, ForkInv,
    ForkTypeOK, FlagTypes
<1>2. AflTypes'
  BY DEF Continue, ServerStep, aflVars, ForkInv, ForkTypeOK, AflTypes, Over
<1>3. ServerTypes'
  BY DEF Continue, ServerStep, aflVars, ForkInv, ForkTypeOK, ServerTypes
<1>4. TargetTypes'
  BY DEF Continue, ServerStep, aflVars, ForkInv, ForkTypeOK, TargetTypes, Ends,
    Zombie
<1>5. InStep'
  BY DEF Continue, ServerStep, aflVars, ForkInv, InStep
<1>6. Settled'
  BY DEF Continue, ServerStep, aflVars, ForkInv, Settled
<1>7. Alone'
  BY DEF Continue, ServerStep, aflVars, ForkInv, Alone, Over, Current
<1>8. TargetKnown'
  <2>1. SUFFICES ASSUME Watching PROVE TargetKnown'
    BY DEF TargetKnown, Continue, ServerStep, Watching
  <2>2. mode # "dumb" /\ afl = "pid" /\ st = <<>> /\ srv_pid \in Pids
    BY <2>1 DEF Continue, ForkInv, InStep, Settled, Watching, Over, ForkTypeOK,
      AflTypes
  <2>3. how = "none"
    BY <2>1, <2>2 DEF Continue, ForkInv, TargetKnown
  <2>4. proc[srv_pid] = "stopped"
    BY <2>1 DEF Continue, ForkInv, KillKnown
  <2>5. proc'[srv_pid'] = "alive"
    BY <2>2, <2>4 DEF Continue, ForkInv, ForkTypeOK, TargetTypes
  <2> QED BY <2>2, <2>3, <2>5 DEF Continue, ServerStep, TargetKnown, Fits,
    Zombie
<1>9. StatusKnown'
  BY DEF Continue, ServerStep, aflVars, ForkInv, StatusKnown, Watching, Reports,
    Statuses, Way
<1>10. KillKnown'
  BY DEF Continue, ServerStep, aflVars, ForkInv, KillKnown
<1> QED BY <1>1, <1>2, <1>3, <1>4, <1>5, <1>6, <1>7, <1>8, <1>9, <1>10 DEF
  ForkInv, ForkTypeOK

\* The pid told is that of the target.
LEMMA DoTell ==
  ASSUME ForkInv, Tell
  PROVE  ForkInv'
<1>1. FlagTypes'
  BY ForkAssumption, Single, Pair DEF Tell, ServerStep, aflVars, ForkInv,
    ForkTypeOK, FlagTypes
<1>2. AflTypes'
  BY DEF Tell, ServerStep, aflVars, ForkInv, ForkTypeOK, AflTypes, Over
<1>3. ServerTypes'
  BY DEF Tell, ServerStep, aflVars, ForkInv, ForkTypeOK, ServerTypes
<1>4. TargetTypes'
  BY DEF Tell, ServerStep, aflVars, ForkInv, ForkTypeOK, TargetTypes, Ends
<1>5. InStep'
  BY Single, Pair DEF Tell, ServerStep, aflVars, ForkInv, InStep, Pids, Settled,
    Over, ForkTypeOK, AflTypes, TargetTypes, Zombie, Die, Ends, Running
<1>6. Settled'
  BY DEF Tell, ServerStep, aflVars, ForkInv, Settled
<1>7. Alone'
  BY DEF Tell, ServerStep, aflVars, ForkInv, Alone, Over, Current
<1>8. TargetKnown'
  BY DEF Tell, ServerStep, aflVars, ForkInv, TargetKnown, Watching, Fits,
    Reports, Way, Zombie
<1>9. StatusKnown'
  BY DEF Tell, ServerStep, aflVars, ForkInv, StatusKnown, Watching, Reports,
    Statuses, Way
<1>10. KillKnown'
  BY DEF Tell, ServerStep, aflVars, ForkInv, KillKnown, Watching
<1> QED BY <1>1, <1>2, <1>3, <1>4, <1>5, <1>6, <1>7, <1>8, <1>9, <1>10 DEF
  ForkInv, ForkTypeOK

\* The status waited for tells how the target of this run ended.
LEMMA DoWait ==
  ASSUME ForkInv, Wait
  PROVE  ForkInv'
<1>1. FlagTypes'
  BY ForkAssumption, Single, Pair DEF Wait, ServerStep, aflVars, ForkInv,
    ForkTypeOK, FlagTypes
<1>2. AflTypes'
  BY DEF Wait, ServerStep, aflVars, ForkInv, ForkTypeOK, AflTypes, Over
<1>3. ServerTypes'
  BY DEF Wait, ServerStep, aflVars, ForkInv, ForkTypeOK, ServerTypes, Zombie,
    Statuses, TargetTypes, Settled, Pids
<1>4. TargetTypes'
  BY DEF Wait, ServerStep, aflVars, ForkInv, ForkTypeOK, TargetTypes, Ends,
    Zombie
<1>5. InStep'
  BY DEF Wait, ServerStep, aflVars, ForkInv, InStep
<1>6. Settled'
  BY DEF Wait, ServerStep, aflVars, ForkInv, Settled, Over, Running, InStep,
    ForkTypeOK, AflTypes
<1>7. Alone'
  BY Single, Pair DEF Wait, ServerStep, aflVars, ForkInv, Alone, Over, Current,
    InStep, Settled, ForkTypeOK, AflTypes, TargetTypes, Zombie, Pids, Die, Ends,
    Running
<1>8. TargetKnown'
  BY DEF Wait, ServerStep, aflVars, ForkInv, TargetKnown, Watching, Fits,
    Reports, Way, Zombie, InStep, Settled, Over, ForkTypeOK, AflTypes
<1>9. StatusKnown'
  <2>1. SUFFICES ASSUME Watching PROVE StatusKnown'
    BY DEF StatusKnown, Wait, ServerStep, Watching
  <2>2. mode # "dumb" /\ afl \in {"pid", "arm", "wait"} /\ Fits(proc[srv_pid])
    BY <2>1 DEF Wait, ForkInv, InStep, Settled, TargetKnown, Watching, Over,
      ForkTypeOK, AflTypes
  <2>3. srv' = "report" /\ UNCHANGED <<mode, afl, stop_soon, child_timed_out>>
    BY DEF Wait, ServerStep
  <2>4. CASE proc[srv_pid] \in Zombie
    <3>1. srv_status' = proc[srv_pid] /\ how' = how
      BY <2>4 DEF Wait, Zombie
    <3>2. (Reports(srv_status))'
      BY <2>2, <2>3, <2>4, <3>1 DEF Fits, Reports, Way
    <3> QED BY <2>2, <2>3, <3>2 DEF StatusKnown
  <2>5. CASE proc[srv_pid] \notin Zombie
    <3>1. srv_status' = "stop" /\ how = "none"
      BY <2>2, <2>5 DEF Wait, Fits
    <3>2. how' = "ended"
      BY <2>2, <2>5, <3>1 DEF Wait, Ends, Running
    <3>3. (Reports(srv_status))'
      BY <3>1, <3>2 DEF Reports, Way, Statuses
    <3> QED BY <2>2, <2>3, <3>3 DEF StatusKnown
  <2> QED BY <2>4, <2>5
<1>10. KillKnown'
  <2>1. SUFFICES ASSUME Watching, child_stopped' PROVE KillKnown'
    BY DEF KillKnown, Wait, ServerStep, Watching
  <2>2. mode # "dumb" /\ ~child_stopped
    BY <2>1 DEF Wait, ForkInv, Settled, TargetKnown
  <2>3. proc[srv_pid] = "stopped" /\ UNCHANGED <<proc, srv_pid>>
    BY <2>1, <2>2 DEF Wait
  <2> QED BY <2>3 DEF KillKnown
<1> QED BY <1>1, <1>2, <1>3, <1>4, <1>5, <1>6, <1>7, <1>8, <1>9, <1>10 DEF
  ForkInv, ForkTypeOK

\* The status reported is the one waited for.
LEMMA DoReport ==
  ASSUME ForkInv, Report
  PROVE  ForkInv'
<1>1. FlagTypes'
  BY ForkAssumption, Single, Pair DEF Report, ServerStep, aflVars, ForkInv,
    ForkTypeOK, FlagTypes
<1>2. AflTypes'
  BY DEF Report, ServerStep, aflVars, ForkInv, ForkTypeOK, AflTypes, Over
<1>3. ServerTypes'
  BY DEF Report, ServerStep, aflVars, ForkInv, ForkTypeOK, ServerTypes
<1>4. TargetTypes'
  BY DEF Report, ServerStep, aflVars, ForkInv, ForkTypeOK, TargetTypes, Ends
<1>5. InStep'
  <2>1. mode # "dumb"
    BY DEF Report, ForkInv, Settled
  <2>2. CASE afl = "pid"
    <3>1. st = <<srv_pid>> /\ ctl = <<>>
      BY <2>1, <2>2 DEF Report, ForkInv, InStep
    <3>2. st' = <<srv_pid, srv_status>>
      BY <3>1, Pair DEF Report
    <3> QED BY <2>2, <3>1, <3>2 DEF Report, ServerStep, InStep
  <2>3. CASE afl \in {"arm", "wait"}
    <3>1. st = <<>> /\ ctl = <<>> /\ child_pid = srv_pid /\ srv_pid \in Pids
      BY <2>1, <2>3 DEF Report, ForkInv, InStep
    <3>2. st' = <<srv_status>>
      BY <3>1, Single DEF Report
    <3> QED BY <2>3, <3>1, <3>2 DEF Report, ServerStep, aflVars, InStep, Pids
  <2>4. CASE afl \notin {"pid", "arm", "wait"}
    <3>1. afl \notin {"init", "idle", "order", "reaped", "disarm", "score", "hello"}
      BY <2>1 DEF Report, ForkInv, InStep
    <3> QED BY <2>4, <3>1 DEF Report, ServerStep, InStep
  <2> QED BY <2>2, <2>3, <2>4
<1>6. Settled'
  BY DEF Report, ServerStep, aflVars, ForkInv, Settled
<1>7. Alone'
  BY DEF Report, ServerStep, aflVars, ForkInv, Alone, Over, Current
<1>8. TargetKnown'
  <2>1. /\ srv' = "read" /\ st' # <<>>
        /\ UNCHANGED <<mode, afl, stop_soon, how, proc, run, child_timed_out>>
    <3>1. st' # <<>>
      BY ForkAssumption DEF Report
    <3> QED BY <3>1 DEF Report, ServerStep
  <2> QED BY <2>1 DEF ForkInv, TargetKnown, Watching, Fits, Reports
<1>9. StatusKnown'
  BY DEF Report, ServerStep, aflVars, ForkInv, StatusKnown, Watching, Reports,
    Statuses, Way
<1>10. KillKnown'
  BY DEF Report, ServerStep, aflVars, ForkInv, KillKnown, Watching
<1> QED BY <1>1, <1>2, <1>3, <1>4, <1>5, <1>6, <1>7, <1>8, <1>9, <1>10 DEF
  ForkInv, ForkTypeOK

\* A target ends while the server waits for it.
LEMMA DoTargetEnds ==
  ASSUME ForkInv, NEW p \in Pids, TargetEnds(p)
  PROVE  ForkInv'
<1>1. FlagTypes'
  BY ForkAssumption, Single, Pair DEF TargetEnds, TargetStep, aflVars, srvVars,
    ForkInv, ForkTypeOK, FlagTypes
<1>2. AflTypes'
  BY DEF TargetEnds, TargetStep, aflVars, srvVars, ForkInv, ForkTypeOK,
    AflTypes, Over
<1>3. ServerTypes'
  BY DEF TargetEnds, TargetStep, aflVars, srvVars, ForkInv, ForkTypeOK,
    ServerTypes
<1>4. TargetTypes'
  BY DEF TargetEnds, TargetStep, aflVars, srvVars, ForkInv, ForkTypeOK,
    TargetTypes, Ends, Zombie
<1>5. InStep'
  BY DEF TargetEnds, TargetStep, aflVars, srvVars, ForkInv, InStep
<1>6. Settled'
  BY DEF TargetEnds, TargetStep, aflVars, srvVars, ForkInv, Settled, Over,
    Running
<1>7. Alone'
  BY Single, Pair DEF TargetEnds, TargetStep, aflVars, srvVars, ForkInv, Alone,
    Over, Current, InStep, Settled, ForkTypeOK, AflTypes, TargetTypes, Zombie,
    Pids, Die, Ends, Running
<1>8. TargetKnown'
  <2>1. SUFFICES ASSUME Watching PROVE TargetKnown'
    BY DEF TargetKnown, TargetEnds, TargetStep, Watching
  <2>2. /\ p = Current
        /\ UNCHANGED <<mode, afl, run, srv, srv_pid, st, child_stopped, child_timed_out>>
    BY <2>1 DEF TargetEnds, TargetStep, srvVars, ForkInv, Alone, Watching
  <2>3. IF mode = "dumb" THEN afl \in {"arm", "wait"} ELSE srv \in {"tell", "wait"}
    BY <2>1 DEF TargetEnds, ForkInv, Alone, Watching
  <2>4. /\ Running /\ how = "none"
        /\ afl \notin {"fork", "order"} /\ srv \notin {"read", "order"}
    <3>1. CASE mode = "dumb"
      <4>1. srv = "none" /\ afl \in {"arm", "wait"}
        BY <2>3, <3>1 DEF ForkInv, Settled
      <4>2. how = "none"
        BY <2>1, <2>2, <3>1, <4>1 DEF TargetEnds, ForkInv, TargetKnown, Fits,
          Current
      <4> QED BY <4>1, <4>2 DEF Running
    <3>2. CASE mode # "dumb"
      <4>1. srv \in {"tell", "wait"} /\ proc[srv_pid] = "alive"
        BY <2>2, <2>3, <3>2 DEF TargetEnds, Current
      <4>2. how = "none"
        BY <2>1, <3>2, <4>1 DEF ForkInv, TargetKnown, Fits
      <4>3. afl \in {"pid", "arm", "wait"}
        BY <2>1, <3>2, <4>1 DEF ForkInv, InStep, Settled, Watching, Over,
          ForkTypeOK, AflTypes
      <4> QED BY <4>1, <4>2, <4>3 DEF Running
    <3> QED BY <3>1, <3>2
  <2>5. PICK s \in Zombie \ {"kill"} :
          proc' = [proc EXCEPT ![p] = s] /\ how' = Way(s)
    BY <2>4 DEF TargetEnds, Ends, Way, Zombie
  <2>6. (Fits(proc[Current]))'
    BY <2>2, <2>5 DEF ForkInv, ForkTypeOK, TargetTypes, Fits, Zombie, Reports,
      Statuses, Current
  <2>7. mode # "dumb" => ~child_stopped
    BY <2>1, <2>3 DEF ForkInv, TargetKnown
  <2> QED BY <2>2, <2>3, <2>4, <2>6, <2>7 DEF TargetKnown, Current
<1>9. StatusKnown'
  BY Single, Pair DEF TargetEnds, TargetStep, aflVars, srvVars, ForkInv,
    StatusKnown, Watching, Reports, Statuses, Way, InStep, Settled, Over,
    ForkTypeOK, AflTypes, TargetTypes, Zombie, Pids, Die, Ends, Running
<1>10. KillKnown'
  BY Single, Pair DEF TargetEnds, TargetStep, aflVars, srvVars, ForkInv,
    KillKnown, Watching, InStep, Settled, Over, ForkTypeOK, AflTypes,
    TargetTypes, Zombie, Pids, Die, Ends, Running
<1> QED BY <1>1, <1>2, <1>3, <1>4, <1>5, <1>6, <1>7, <1>8, <1>9, <1>10 DEF
  ForkInv, ForkTypeOK

\* A target stops while the server waits for it.
LEMMA DoTargetStops ==
  ASSUME ForkInv, NEW p \in Pids, TargetStops(p)
  PROVE  ForkInv'
<1>1. FlagTypes'
  BY ForkAssumption, Single, Pair DEF TargetStops, TargetStep, aflVars, srvVars,
    ForkInv, ForkTypeOK, FlagTypes
<1>2. AflTypes'
  BY DEF TargetStops, TargetStep, aflVars, srvVars, ForkInv, ForkTypeOK,
    AflTypes, Over
<1>3. ServerTypes'
  BY DEF TargetStops, TargetStep, aflVars, srvVars, ForkInv, ForkTypeOK,
    ServerTypes
<1>4. TargetTypes'
  <2>1. cycle_cnt \in 0..MaxCnt /\ cycle_cnt > 1 /\ cycle_cnt' = cycle_cnt - 1
    BY DEF TargetStops, ForkInv, ForkTypeOK, TargetTypes
  <2>2. (cycle_cnt \in 0..MaxCnt)'
    BY <2>1, ForkAssumption
  <2>3. (proc \in [Pids -> {"none", "alive", "stopped", "gone"} \cup Zombie])'
    BY DEF TargetStops, ForkInv, ForkTypeOK, TargetTypes
  <2>4. how' = how
    BY DEF TargetStops
  <2> QED BY <2>2, <2>3, <2>4 DEF ForkInv, ForkTypeOK, TargetTypes
<1>5. InStep'
  BY DEF TargetStops, TargetStep, aflVars, srvVars, ForkInv, InStep
<1>6. Settled'
  BY DEF TargetStops, TargetStep, aflVars, srvVars, ForkInv, Settled, Over,
    Running
<1>7. Alone'
  BY DEF TargetStops, TargetStep, aflVars, srvVars, ForkInv, Alone, Over,
    Current
<1>8. TargetKnown'
  BY Single, Pair DEF TargetStops, TargetStep, aflVars, srvVars, ForkInv,
    TargetKnown, Watching, Fits, Reports, Way, Zombie, InStep, Settled, Over,
    ForkTypeOK, AflTypes, TargetTypes, Pids, Die, Ends, Running
<1>9. StatusKnown'
  BY DEF TargetStops, TargetStep, aflVars, srvVars, ForkInv, StatusKnown,
    Watching, Reports, Statuses, Way
<1>10. KillKnown'
  BY DEF TargetStops, TargetStep, aflVars, srvVars, ForkInv, KillKnown, Watching
<1> QED BY <1>1, <1>2, <1>3, <1>4, <1>5, <1>6, <1>7, <1>8, <1>9, <1>10 DEF
  ForkInv, ForkTypeOK

-----------------------------------------------------------------------------

\* The invariant holds before the server is started.
LEMMA InitFork == Init => ForkInv
<1> SUFFICES ASSUME Init PROVE ForkInv
  OBVIOUS
<1>1. FlagTypes
  BY DEF Init, FlagTypes, Pipe
<1>2. AflTypes
  BY ForkAssumption DEF Init, AflTypes, Over
<1>3. ServerTypes /\ TargetTypes
  BY ForkAssumption DEF Init, ServerTypes, TargetTypes
<1>4. InStep /\ Settled
  BY DEF Init, InStep, Settled, Running, Over
<1>5. Alone /\ TargetKnown /\ StatusKnown /\ KillKnown
  BY DEF Init, Alone, TargetKnown, StatusKnown, KillKnown
<1> QED BY <1>1, <1>2, <1>3, <1>4, <1>5 DEF ForkInv, ForkTypeOK

\* The invariant speaks of the variables only.
LEMMA StutterFork ==
  ASSUME ForkInv, UNCHANGED vars
  PROVE  ForkInv'
<1>1. FlagTypes' /\ AflTypes' /\ ServerTypes' /\ TargetTypes'
  <2>1. FlagTypes'
    BY DEF vars, ForkInv, ForkTypeOK, FlagTypes
  <2>2. AflTypes'
    BY DEF vars, ForkInv, ForkTypeOK, AflTypes
  <2>3. ServerTypes'
    BY DEF vars, ForkInv, ForkTypeOK, ServerTypes
  <2>4. TargetTypes'
    BY DEF vars, ForkInv, ForkTypeOK, TargetTypes
  <2> QED BY <2>1, <2>2, <2>3, <2>4
<1>2. InStep'
  BY DEF vars, ForkInv, InStep, Pids
<1>3. Settled'
  BY DEF vars, ForkInv, Settled, Running, Pids
<1>4. Alone'
  BY DEF vars, ForkInv, Alone, Current, Pids
<1>5. TargetKnown'
  BY DEF vars, ForkInv, TargetKnown, Watching, Fits, Reports
<1>6. StatusKnown'
  BY DEF vars, ForkInv, StatusKnown, Watching, Reports
<1>7. KillKnown'
  BY DEF vars, ForkInv, KillKnown, Watching
<1> QED BY <1>1, <1>2, <1>3, <1>4, <1>5, <1>6, <1>7 DEF ForkInv, ForkTypeOK

\* The invariant is inductive.
LEMMA StepFork == ForkInv /\ [Next]_vars => ForkInv'
<1> SUFFICES ASSUME ForkInv, [Next]_vars PROVE ForkInv'
  OBVIOUS
<1>1. CASE Afl
  BY <1>1, DoSpinUp, DoHandshake, DoHandshakeFails, DoEnter, DoFork, DoOrder,
     DoReadPid, DoArm, DoServerGone, DoWaitChild, DoReadStatus, DoForget,
     DoDisarm, DoScore, DoExit DEF Afl
<1>2. CASE Signals
  BY <1>2, DoStopItself, DoKilled, Dohandle_stop_sig, Dohandle_timeout DEF
    Signals
<1>3. CASE Server
  BY <1>3, DoHello, DoBootFails, DoReadOrder, DoHangup, DoWriteOff, DoClone,
     DoCloneFails, DoContinue, DoTell, DoWait, DoReport DEF Server
<1>4. CASE Target
  BY <1>4, DoTargetEnds, DoTargetStops DEF Target
<1>5. CASE UNCHANGED vars
  BY <1>5, StutterFork
<1> QED BY <1>1, <1>2, <1>3, <1>4, <1>5 DEF Next

\* The two pipes stay in step, and what the status pipe carries is what became
\* of the target of this run, for any number of runs and any __AFL_LOOP.
THEOREM ForkCorrect == Spec => []ForkInv
<1>1. Init => ForkInv
  BY InitFork
<1>2. ForkInv /\ [Next]_vars => ForkInv'
  BY StepFork
<1> QED BY <1>1, <1>2, PTL DEF Spec

\* No target runs between two runs, and there is never a second one.
THEOREM QuietCorrect == Spec => []TraceQuiet
<1>1. ForkInv => TraceQuiet
  <2> SUFFICES ASSUME ForkInv, stop_soon = 0
               PROVE  /\ afl \in {"idle", "order", "reaped", "disarm", "score"} =>
                           \A p \in Pids : proc[p] # "alive"
                      /\ \A p, q \in Pids :
                           {proc[p], proc[q]} \subseteq {"alive", "stopped"} => p = q
    BY DEF TraceQuiet
  <2>1. ASSUME afl \in {"idle", "order", "reaped", "disarm", "score"}, NEW p \in Pids
        PROVE  proc[p] # "alive"
    <3>1. mode # "dumb" => srv \in {"none", "read", "dead"}
      BY <2>1 DEF ForkInv, InStep
    <3> QED BY <2>1, <3>1 DEF ForkInv, Alone, Over
  <2>2. ASSUME NEW p \in Pids, NEW q \in Pids,
               {proc[p], proc[q]} \subseteq {"alive", "stopped"}
        PROVE  p = q
    BY <2>2 DEF ForkInv, Alone
  <2> QED BY <2>1, <2>2
<1> QED BY <1>1, ForkCorrect, PTL

-----------------------------------------------------------------------------
(* run_target implements TargetRun. *)

\* A run that ends without a verdict, or a step that is not about the run.
LEMMA Silent ==
  ASSUME UNCHANGED <<how, verdict>>, Running' => Running
  PROVE  [T!Next]_T!vars
<1>1. CASE Running /\ ~Running'
  BY <1>1 DEF T!Next, T!Abandon
<1>2. CASE Running <=> Running'
  BY <1>2 DEF T!vars
<1> QED BY <1>1, <1>2

\* The target of a run ends.
LEMMA Ending ==
  ASSUME NEW w \in T!Ways, Ends(w), Running' <=> Running, UNCHANGED verdict
  PROVE  [T!Next]_T!vars
<1>1. CASE Running /\ how = "none"
  BY <1>1 DEF Ends, T!Next, T!End
<1>2. CASE ~(Running /\ how = "none")
  BY <1>2 DEF Ends, T!vars
<1> QED BY <1>1, <1>2

\* A status that is known to tell the truth gives the right verdict.
LEMMA FaultIsVerdict ==
  ASSUME Reports(status)
  PROVE  how \in T!Ways /\ Fault = T!Verdict(how)
<1>1. CASE status \in {"exit", "stop"}
  BY <1>1 DEF Reports, Way, T!Ways, T!Verdict, Fault
<1>2. CASE status = "segv"
  BY <1>2 DEF Reports, Way, T!Ways, T!Verdict, Fault
<1>3. CASE status = "kill"
  BY <1>3 DEF Reports, Way, T!Ways, T!Verdict, Fault
<1>4. CASE status = "noexec"
  BY <1>4 DEF Reports, Way, T!Ways, T!Verdict, Fault
<1> QED BY <1>1, <1>2, <1>3, <1>4 DEF Reports, Statuses

\* Every step is one of TargetRun, or none of its business.
LEMMA RunStep == ForkInv /\ [Next]_vars => [T!Next]_T!vars
<1> SUFFICES ASSUME ForkInv, [Next]_vars PROVE [T!Next]_T!vars
  OBVIOUS
<1>1. CASE Enter
  BY <1>1 DEF Enter, Running, T!Next, T!Begin
<1>2. CASE Score
  <2>1. CASE stop_soon # 0
    BY <1>2, <2>1, Silent DEF Score, Running
  <2>2. CASE stop_soon = 0
    <3>1. Reports(status)
      BY <1>2, <2>2 DEF Score, ForkInv, StatusKnown, Watching, Over
    <3>2. how \in T!Ways /\ Fault = T!Verdict(how)
      BY <3>1, FaultIsVerdict
    <3> QED BY <1>2, <2>2, <3>2 DEF Score, Running, T!Next, T!Return
  <2> QED BY <2>1, <2>2
<1>3. CASE Afl /\ ~Enter /\ ~Score
  <2>1. UNCHANGED <<how, verdict>>
    BY <1>3 DEF Afl, SpinUp, Handshake, HandshakeFails, Fork, Order, ReadPid,
      Arm,
       ServerGone, WaitChild, ReadStatus, Forget, Disarm, Exit
  <2>2. Running' => Running
    BY <1>3 DEF Afl, SpinUp, Handshake, HandshakeFails, Fork, Order, ReadPid,
      Arm,
       ServerGone, WaitChild, ReadStatus, Forget, Disarm, Exit, Running
  <2> QED BY <2>1, <2>2, Silent
<1>4. CASE StopItself \/ Killed \/ handle_stop_sig
  BY <1>4, Silent DEF StopItself, Killed, handle_stop_sig, Running
<1>5. CASE handle_timeout
  <2>1. UNCHANGED verdict /\ (Running' <=> Running)
    BY <1>5 DEF handle_timeout, Running
  <2>2. CASE Die(child_pid) # proc
    BY <1>5, <2>1, <2>2, Ending DEF handle_timeout, T!Ways
  <2>3. CASE Die(child_pid) = proc
    BY <1>5, <2>1, <2>3, Silent DEF handle_timeout
  <2> QED BY <2>2, <2>3
<1>6. CASE Server
  <2>1. UNCHANGED verdict /\ (Running' <=> Running)
    BY <1>6 DEF Server, Hello, BootFails, ReadOrder, Hangup, WriteOff, Clone,
      CloneFails,
       Continue, Tell, Wait, Report, ServerStep, Running
  <2>2. UNCHANGED how \/ Ends("ended")
    BY <1>6 DEF Server, Hello, BootFails, ReadOrder, Hangup, WriteOff, Clone,
      CloneFails,
       Continue, Tell, Wait, Report
  <2> QED BY <2>1, <2>2, Silent, Ending DEF T!Ways
<1>7. CASE Target
  <2>1. UNCHANGED verdict /\ (Running' <=> Running)
    BY <1>7 DEF Target, TargetEnds, TargetStops, TargetStep, Running
  <2>2. UNCHANGED how \/ \E w \in T!Ways : Ends(w)
    BY <1>7 DEF Target, TargetEnds, TargetStops, T!Ways
  <2> QED BY <2>1, <2>2, Silent, Ending
<1>8. CASE UNCHANGED vars
  BY <1>8 DEF vars, T!vars, Running
<1> QED BY <1>1, <1>2, <1>3, <1>4, <1>5, <1>6, <1>7, <1>8 DEF Next, Signals

\* Every behaviour of the two programs is one of the abstract runs: a verdict
\* belongs to the target of its own run.
THEOREM RunCorrect == Spec => RunPromise
<1>1. Init => T!Init
  BY DEF Init, T!Init, Running
<1>2. ForkInv /\ [Next]_vars => [T!Next]_T!vars
  BY RunStep
<1> QED BY <1>1, <1>2, ForkCorrect, PTL DEF Spec, RunPromise, T!Spec
=============================================================================
