-------------------------- MODULE FuzzBridgeProofs --------------------------
(* FuzzBridge implements NfuzzerServer: the fuzzers and their targets are    *)
(* one of the environments the server is proved correct for.                *)
EXTENDS FuzzBridge, NfuzzerServerProofs

\* A fuzzer writes its own test case file only.
LEMMA FileSteps ==
  ASSUME TypeOK, NEW f \in Fuzzers, NEW b \in Bodies \cup {Absent},
         file' = [file EXCEPT ![f] = b], UNCHANGED <<sockVars, serverVars>>
  PROVE  FileWrite(f)
  BY DEF TypeOK, FileWrite, serverVars

\* The end of a process closes its connection or leaves everything alone.
LEMMA CloseSteps ==
  ASSUME NEW c, ClosePeer(c), UNCHANGED <<sent, content, file, sock, serverVars>>
  PROVE  [Next]_vars
<1>1. CASE c \in Conns /\ peer[c] = "open"
  <2>1. PeerClose(c)
    BY <1>1 DEF ClosePeer, PeerClose, serverVars
  <2> QED BY <1>1, <2>1 DEF Next, Environment
<1>2. CASE ~(c \in Conns /\ peer[c] = "open")
  <2>1. UNCHANGED peer
    BY <1>2 DEF ClosePeer
  <2>2. UNCHANGED <<sent, content, file, sock, backlog, requestQueue, srv, hpc,
                    cur, result, body, outcome, mem, status, bitmap, late>>
    BY DEF serverVars, handlerVars, doneVars, appVars
  <2> QED BY <2>1, <2>2 DEF vars
<1> QED BY <1>1, <1>2

\* The current attempt of a running target is a connection.
MineOK == \A f \in Fuzzers : tgt[f] # "none" => Mine(f) \in Conns

\* Every step of the composition is a step of the server or leaves it alone.
LEMMA BridgeStep ==
  ASSUME TypeOK, MineOK, BridgeTypeOK, [BridgeNext]_allVars
  PROVE  [Next]_vars
<1>1. CASE Server
  BY <1>1 DEF Server, Next, Environment
<1>2. ASSUME NEW f \in Fuzzers, Afl(f) PROVE [Next]_vars
  <2>1. CASE Unlink(f)
    <3>1. FileWrite(f)
      BY <2>1, FileSteps DEF Unlink
    <3> QED BY <3>1 DEF Next, Environment
  <2>2. CASE Create(f)
    <3>1. FileWrite(f)
      BY <2>2, FileSteps DEF Create, Bodies
    <3> QED BY <3>1 DEF Next, Environment
  <2>3. CASE Fill(f)
    <3>1. want[f] \in Bodies
      BY DEF BridgeTypeOK, Bodies
    <3>2. FileWrite(f)
      BY <2>3, <3>1, FileSteps DEF Fill
    <3> QED BY <3>2 DEF Next, Environment
  <2>4. CASE Start(f) \/ Reap(f)
    BY <2>4 DEF Start, Reap
  <2>5. CASE Timeout(f)
    BY <2>5, CloseSteps DEF Timeout
  <2> QED BY <1>2, <2>1, <2>2, <2>3, <2>4, <2>5 DEF Afl
<1>3. ASSUME NEW f \in Fuzzers, Target(f) PROVE [Next]_vars
  <2>1. ASSUME Die(f) PROVE [Next]_vars
    BY <2>1, CloseSteps DEF Die
  <2>2. CASE Connect(f)
    <3>1. Mine(f) \in Conns
      BY <2>2 DEF Connect, MineOK
    <3> QED BY <2>2, <3>1 DEF Connect, Next, Environment
  <2>3. CASE Send(f)
    <3>1. Mine(f) \in Conns
      BY <2>3 DEF Send, MineOK
    <3> QED BY <2>3, <3>1 DEF Send, Next, Environment
  <2>4. CASE ReadStatus(f) \/ ReadBitmap(f)
    BY <2>4 DEF ReadStatus, ReadBitmap
  <2>5. CASE TryAgain(f) \/ Finish(f)
    BY <2>5, CloseSteps DEF TryAgain, Finish
  <2> QED
    BY <1>3, <2>1, <2>2, <2>3, <2>4, <2>5
    DEF Target, ConnectFails, SendFails, GiveUp
<1>4. CASE UNCHANGED allVars
  BY <1>4 DEF allVars
<1> QED BY <1>1, <1>2, <1>3, <1>4 DEF BridgeNext

-----------------------------------------------------------------------------

\* Types, and that a fuzzer with a live target is in one of its runs.
RunInv == BridgeTypeOK /\ InRun

\* The types of the C side, and the range of its runs, are inductive.
LEMMA RunInvInit == BridgeInit => RunInv
  BY BridgeAssumption DEF BridgeInit, RunInv, BridgeTypeOK, InRun, Exited,
     Statuses

\* So every live target has a connection to speak of.
LEMMA InvMine == RunInv => MineOK
  BY BridgeAssumption DEF RunInv, BridgeTypeOK, InRun, MineOK, Mine, Conn

\* Steps of other components leave the C side alone.
LEMMA RunInvStutter == RunInv /\ UNCHANGED bridgeVars => RunInv'
  BY DEF RunInv, BridgeTypeOK, InRun, bridgeVars

\* Nor does a step of a fuzzer break the types.
LEMMA RunInvNext ==
  TypeOK' /\ TypeOK /\ RunInv /\ [BridgeNext]_allVars => RunInv'
<1> SUFFICES ASSUME TypeOK, TypeOK', RunInv, [BridgeNext]_allVars
             PROVE  RunInv'
  OBVIOUS
<1>0. /\ afl \in [Fuzzers -> {"idle", "unlinked", "created", "written", "running"}]
      /\ run \in [Fuzzers -> 1..(Runs + 1)]
      /\ want \in [Fuzzers -> Inputs]
      /\ tgt \in [Fuzzers -> {"none", "connect", "send", "status", "bitmap", "close"}
                               \cup Exited]
      /\ try \in [Fuzzers -> 0..(MAX_TRIES + 1)]
      /\ got \in [Fuzzers -> Statuses \cup {"none"}]
      /\ merged \in [Fuzzers -> SUBSET Conns]
      /\ asked \in [Conns -> Inputs \cup {NoBody}]
      /\ InRun /\ BridgeTypeOK
  BY DEF RunInv, BridgeTypeOK
<1> USE DEF RunInv
<1>1. ASSUME NEW f \in Fuzzers, Unlink(f) PROVE RunInv'
  <2>1. PICK i \in Corpus[f] : want' = [want EXCEPT ![f] = i]
    BY <1>1 DEF Unlink
  <2>2. i \in Inputs
    BY <2>1, BridgeAssumption
  <2> QED BY <1>0, <1>1, <2>1, <2>2 DEF Unlink, BridgeTypeOK, InRun
<1>2. ASSUME NEW f \in Fuzzers, Create(f) \/ Fill(f) PROVE RunInv'
  BY <1>0, <1>2 DEF Create, Fill, BridgeTypeOK, InRun
<1>3. ASSUME NEW f \in Fuzzers, Start(f) PROVE RunInv'
  BY <1>0, <1>3, BridgeAssumption DEF Start, BridgeTypeOK, InRun
<1>4. ASSUME NEW f \in Fuzzers, afl[f] = "running", NEW v,
             v \in {"FAULT_NONE", "FAULT_CRASH", "FAULT_TMOUT"}, Ended(f, v)
      PROVE  RunInv'
  <2>1. run[f] <= Runs
    BY <1>0, <1>4 DEF InRun
  <2>2. run[f] + 1 \in 1..(Runs + 1)
    BY <1>0, <2>1, BridgeAssumption
  <2> QED BY <1>0, <1>4, <2>2 DEF Ended, BridgeTypeOK, InRun
<1>5. ASSUME NEW f \in Fuzzers, Afl(f) PROVE RunInv'
  BY <1>1, <1>2, <1>3, <1>4, <1>5 DEF Afl, Reap, Timeout
<1>6. ASSUME NEW f \in Fuzzers, tgt[f] # "none", NEW s,
             s \in {"connect", "send", "status", "bitmap", "close"} \cup Exited,
             Goto(f, s)
      PROVE  /\ afl' \in [Fuzzers -> {"idle", "unlinked", "created", "written",
                                      "running"}]
             /\ run' \in [Fuzzers -> 1..(Runs + 1)]
             /\ want' \in [Fuzzers -> Inputs]
             /\ tgt' \in [Fuzzers -> {"none", "connect", "send", "status", "bitmap",
                                     "close"} \cup Exited]
             /\ fault' \in [Fuzzers -> {"none", "FAULT_NONE", "FAULT_CRASH",
                                       "FAULT_TMOUT"}]
             /\ InRun'
  BY <1>0, <1>6 DEF Goto, BridgeTypeOK, InRun
<1>7. ASSUME NEW f \in Fuzzers, tgt[f] # "none", Die(f) PROVE RunInv'
  BY <1>0, <1>6, <1>7 DEF Die, Exited, BridgeTypeOK
<1>8. ASSUME NEW f \in Fuzzers, Connect(f) PROVE RunInv'
  <2>1. asked' \in [Conns -> Inputs \cup {NoBody}]
    BY <1>0, <1>8 DEF Connect
  <2> QED BY <1>0, <1>6, <1>8, <2>1 DEF Connect, BridgeTypeOK
<1>9. ASSUME NEW f \in Fuzzers, Send(f) PROVE RunInv'
  BY <1>0, <1>6, <1>9 DEF Send, BridgeTypeOK
<1>10. ASSUME NEW f \in Fuzzers, ReadStatus(f) PROVE RunInv'
  <2>1. Mine(f) \in Conns
    BY <1>10, InvMine DEF ReadStatus, MineOK
  <2>2. status[Mine(f)] \in Statuses \cup {"none"} /\ "COMM_ERROR" \in Statuses
    BY <2>1 DEF TypeOK, Statuses
  <2>3. got' \in [Fuzzers -> Statuses \cup {"none"}]
    BY <1>0, <1>10, <2>2 DEF ReadStatus
  <2> QED BY <1>0, <1>6, <1>10, <2>3 DEF ReadStatus, BridgeTypeOK
<1>11. ASSUME NEW f \in Fuzzers, ReadBitmap(f) PROVE RunInv'
  <2>1. Mine(f) \in Conns
    BY <1>11, InvMine DEF ReadBitmap, MineOK
  <2>2. /\ got' \in [Fuzzers -> Statuses \cup {"none"}]
        /\ merged' \in [Fuzzers -> SUBSET Conns]
    BY <1>0, <1>11, <2>1 DEF ReadBitmap, Statuses
  <2> QED BY <1>0, <1>6, <1>11, <2>2 DEF ReadBitmap, BridgeTypeOK
<1>12. ASSUME NEW f \in Fuzzers, TryAgain(f) PROVE RunInv'
  <2>1. try[f] + 1 \in 0..(MAX_TRIES + 1)
    BY <1>0, <1>12, BridgeAssumption DEF TryAgain
  <2> QED BY <1>0, <1>6, <1>12, <2>1 DEF TryAgain, BridgeTypeOK
<1>13. ASSUME NEW f \in Fuzzers, Finish(f) PROVE RunInv'
  BY <1>0, <1>6, <1>13 DEF Finish, Exited, BridgeTypeOK
<1>14. ASSUME NEW f \in Fuzzers, Target(f) PROVE RunInv'
  BY <1>7, <1>8, <1>9, <1>10, <1>11, <1>12, <1>13, <1>14
  DEF Target, ConnectFails, SendFails, GiveUp
<1>15. CASE Server \/ UNCHANGED allVars
  BY <1>15, RunInvStutter DEF Server, allVars
<1> QED BY <1>5, <1>14, <1>15 DEF BridgeNext

-----------------------------------------------------------------------------

\* Types, ranges and the server's own invariant, together, at every moment.
LEMMA BridgeInvariance == BridgeSpec => [](ServerInv /\ RunInv)
<1>1. BridgeInit => ServerInv /\ RunInv
  BY InitInv, RunInvInit DEF BridgeInit
<1>2. ServerInv /\ RunInv /\ [BridgeNext]_allVars => (ServerInv /\ RunInv)'
  <2> SUFFICES ASSUME ServerInv, RunInv, [BridgeNext]_allVars
               PROVE  ServerInv' /\ RunInv'
    OBVIOUS
  <2>1. [Next]_vars
    BY BridgeStep, InvMine DEF ServerInv, RunInv
  <2>2. ServerInv'
    BY <2>1, NextInv
  <2>3. TypeOK /\ TypeOK'
    BY <2>2 DEF ServerInv
  <2> QED BY <2>2, <2>3, RunInvNext
<1> QED BY <1>1, <1>2, PTL DEF BridgeSpec

\* The variables of interface.c and of the fuzzer's side of a run keep their
\* types: no run makes more than MAX_TRIES + 2 tries.
THEOREM BridgeTypeCorrect == BridgeSpec => []BridgeTypeOK
<1>1. RunInv => BridgeTypeOK
  BY DEF RunInv
<1> QED BY <1>1, BridgeInvariance, PTL

\* The composition of interface.c and afl-fuzz.c with the server implements the
\* server with an arbitrary environment: all that is proved of it holds here.
THEOREM BridgeImplementsServer == BridgeSpec => Spec
<1>1. BridgeInit => Init
  BY DEF BridgeInit
<1>2. ServerInv /\ RunInv /\ [BridgeNext]_allVars => [Next]_vars
  BY BridgeStep, InvMine DEF ServerInv, RunInv
<1> QED BY <1>1, <1>2, BridgeInvariance, PTL DEF BridgeSpec, Spec

-----------------------------------------------------------------------------
(* Verdicts, traces and counts are those of the run. *)

\* A connection is its fuzzer, its run and its try.
LEMMA ConnParts ==
  /\ \A c \in Conns : /\ c = <<c[1], c[2], c[3]>> /\ Owner[c] = c[1]
                      /\ c[1] \in Fuzzers /\ c[2] \in 1..Runs /\ c[3] \in 0..(MAX_TRIES + 1)
  /\ \A f \in Fuzzers :
       Mine(f)[1] = f /\ Mine(f)[2] = run[f] /\ Mine(f)[3] = try[f]
  BY BridgeAssumption DEF Mine, Conn

\* A status byte, once written, stays.
LEMMA StatusStays ==
  ASSUME ServerInv, [Next]_vars, NEW c \in Conns, status[c] # "none"
  PROVE  status'[c] = status[c]
<1>0. /\ TypeOK /\ Placement /\ Untouched /\ Progress
      /\ status \in [Conns -> Statuses \cup {"none"}] /\ cur \in Conns
      /\ backlog \in Seq(Conns)
  BY DEF ServerInv, TypeOK
<1>1. CASE AcceptReject
  <2>1. Head(backlog) \in Conns /\ InSeq(Head(backlog), backlog)
    BY <1>0, <1>1, TailFacts, TailMembers DEF AcceptReject, Placement
  <2>2. status[Head(backlog)] = "none"
    BY <1>0, <2>1 DEF Placement, Untouched
  <2> QED BY <1>0, <1>1, <2>1, <2>2 DEF AcceptReject
<1>2. CASE Reply
  BY <1>0, <1>2 DEF Reply, Progress
<1>3. CASE UNCHANGED status
  BY <1>3
<1> QED
  BY <1>1, <1>2, <1>3
  DEF Next, vars, Environment, PeerConnect, PeerSend, PeerClose, FileWrite,
      LateCoverage, RunServer, AcceptQueue, AcceptRejectExit, DoFuzzerRuns, Poll,
      HandleFuzzRequest, ReadRequest, ReadHeader, ReadBodyShort, ReadBodyFull,
      ReadBodyNoFile, ReadThrows, HandlerDies, PostAnswered, PostThrows, GetBitmap,
      GetBitmapOverlapped, GetBitmapInfo, Post,
      GetBitmapThrows, CloseRequest, ReplyThrows, doneVars

\* A body comes from the owner's file, or from what was sent, and only to a
\* connection in the handler's hands.
LEMMA BodyComes ==
  ASSUME ServerInv, [Next]_vars, NEW c \in Conns
  PROVE  \/ body'[c] = body[c]
         \/ /\ body'[c] \in Bodies
            /\ body'[c] \in {file[Owner[c]], content[c]}
            /\ sock[c] = "handling" /\ sock' = sock
            /\ UNCHANGED <<peer, content, outcome>>
<1>0. /\ body \in [Conns -> Bodies \cup {NoBody}] /\ cur \in Conns /\ Placement
  BY DEF ServerInv, TypeOK
<1>1. CASE ReadBodyFull
  <2>1. sock[cur] = "handling"
    BY <1>0, <1>1 DEF ReadBodyFull, Placement
  <2> QED BY <1>0, <1>1, <2>1 DEF ReadBodyFull, sockVars
<1>2. CASE UNCHANGED body
  BY <1>2
<1> QED
  BY <1>1, <1>2
  DEF Next, vars, Environment, PeerConnect, PeerSend, PeerClose, FileWrite,
      LateCoverage, RunServer, AcceptQueue, AcceptReject, AcceptRejectExit,
      DoFuzzerRuns, Poll, HandleFuzzRequest, ReadRequest, ReadHeader, ReadBodyShort,
      ReadBodyNoFile, ReadThrows, HandlerDies, PostAnswered, PostThrows, GetBitmap,
      GetBitmapOverlapped, GetBitmapInfo, Post,
      GetBitmapThrows, Reply, CloseRequest, ReplyThrows, doneVars

\* A connection that has not been taken up was not taken up before.
LEMMA SockComes ==
  ASSUME ServerInv, [Next]_vars, NEW c \in Conns,
         sock'[c] \in {"none", "backlog", "queued"}
  PROVE  sock[c] \in {"none", "backlog", "queued"}
<1>0. /\ sock \in [Conns -> LiveSocks \cup {"none", "shut", "orphan"}]
      /\ backlog \in Seq(Conns) /\ requestQueue \in Seq(Conns) /\ cur \in Conns /\ Placement
  BY DEF ServerInv, TypeOK
<1>1. CASE \E d \in Conns : PeerConnect(d)
  BY <1>0, <1>1 DEF PeerConnect, Placement
<1>2. CASE AcceptQueue \/ AcceptReject
  <2>1. Head(backlog) \in Conns /\ InSeq(Head(backlog), backlog)
    BY <1>0, <1>2, TailFacts, TailMembers DEF AcceptQueue, AcceptReject, Placement
  <2>2. sock[Head(backlog)] = "backlog"
    BY <1>0, <2>1 DEF Placement
  <2> QED BY <1>0, <1>2, <2>1, <2>2 DEF AcceptQueue, AcceptReject
<1>3. CASE AcceptRejectExit
  BY <1>0, <1>3 DEF AcceptRejectExit, LiveSocks
<1>4. CASE Poll
  <2>1. Head(requestQueue) \in Conns
    BY <1>0, <1>4, TailFacts DEF Poll
  <2> QED BY <1>0, <1>4, <2>1 DEF Poll
<1>5. CASE HandlerDies \/ CloseRequest
  BY <1>0, <1>5 DEF HandlerDies, CloseRequest
<1>6. CASE UNCHANGED sock
  BY <1>6
<1> QED
  BY <1>1, <1>2, <1>3, <1>4, <1>5, <1>6
  DEF Next, vars, Environment, PeerSend, PeerClose, FileWrite, LateCoverage,
      RunServer, DoFuzzerRuns, HandleFuzzRequest, ReadRequest, ReadHeader,
      ReadBodyShort, ReadBodyFull, ReadBodyNoFile, ReadThrows, PostAnswered,
      PostThrows, GetBitmap,
      GetBitmapOverlapped, GetBitmapInfo, Post, GetBitmapThrows, Reply, ReplyThrows, sockVars

\* A post ends for the connection in hand, which has a body.
LEMMA OutcomeComes ==
  ASSUME ServerInv, [Next]_vars, NEW c \in Conns
  PROVE  \/ outcome'[c] = outcome[c]
         \/ body'[c] = body[c] /\ body[c] \in Bodies
<1>0. outcome \in [Conns -> Outcomes] /\ cur \in Conns /\ Progress
  BY DEF ServerInv, TypeOK
<1>1. CASE PostAnswered \/ PostThrows
  BY <1>0, <1>1 DEF PostAnswered, PostThrows, Progress
<1>2. CASE UNCHANGED outcome
  BY <1>2
<1> QED
  BY <1>1, <1>2
  DEF Next, vars, Environment, PeerConnect, PeerSend, PeerClose, FileWrite,
      LateCoverage, RunServer, AcceptQueue, AcceptReject, AcceptRejectExit,
      DoFuzzerRuns, Poll, HandleFuzzRequest, ReadRequest, ReadHeader, ReadBodyShort,
      ReadBodyFull, ReadBodyNoFile, ReadThrows, HandlerDies, GetBitmap,
      GetBitmapOverlapped, GetBitmapInfo, Post,
      GetBitmapThrows, Reply, CloseRequest, ReplyThrows, doneVars

\* What a connection sends it sends while it is open, and from its owner's file.
LEMMA ContentComes ==
  ASSUME TypeOK, [Next]_vars, NEW c \in Conns
  PROVE  \/ content'[c] = content[c]
         \/ content'[c] = file[Owner[c]] /\ peer[c] = "open" /\ UNCHANGED <<peer, file>>
<1>0. content \in [Conns -> Bodies \cup {NoBody}]
  BY DEF TypeOK
<1>1. CASE \E d \in Conns : PeerSend(d)
  BY <1>0, <1>1 DEF PeerSend
<1>2. CASE UNCHANGED content
  BY <1>2
<1> QED
  BY <1>1, <1>2
  DEF Next, vars, Environment, PeerConnect, PeerClose, FileWrite,
      LateCoverage, RunServer, AcceptQueue, AcceptReject, AcceptRejectExit,
      DoFuzzerRuns, Poll, HandleFuzzRequest, ReadRequest, ReadHeader, ReadBodyShort,
      ReadBodyFull, ReadBodyNoFile, ReadThrows, HandlerDies, PostAnswered, PostThrows,
      GetBitmap,
      GetBitmapOverlapped, GetBitmapInfo, Post, GetBitmapThrows, Reply, CloseRequest, ReplyThrows, sockVars

\* A connection that is unborn has been unborn.
LEMMA PeerComes ==
  ASSUME TypeOK, [Next]_vars, NEW c \in Conns, peer'[c] = "unborn"
  PROVE  peer[c] = "unborn"
<1>0. peer \in [Conns -> {"unborn", "open", "closed"}]
  BY DEF TypeOK
<1>1. CASE \E d \in Conns : PeerConnect(d) \/ PeerClose(d)
  BY <1>0, <1>1 DEF PeerConnect, PeerClose
<1>2. CASE UNCHANGED peer
  BY <1>2
<1> QED
  BY <1>1, <1>2
  DEF Next, vars, Environment, PeerSend, FileWrite,
      LateCoverage, RunServer, AcceptQueue, AcceptReject, AcceptRejectExit,
      DoFuzzerRuns, Poll, HandleFuzzRequest, ReadRequest, ReadHeader, ReadBodyShort,
      ReadBodyFull, ReadBodyNoFile, ReadThrows, HandlerDies, PostAnswered, PostThrows,
      GetBitmap,
      GetBitmapOverlapped, GetBitmapInfo, Post, GetBitmapThrows, Reply, CloseRequest, ReplyThrows, sockVars

\* Nothing is sent or posted before its time.
LEMMA PostedStep == ServerInv /\ Posted /\ [Next]_vars => Posted'
<1> SUFFICES ASSUME ServerInv, Posted, [Next]_vars, NEW c \in Conns
             PROVE  /\ peer'[c] = "unborn" => content'[c] = NoBody
                    /\ sock'[c] \in {"none", "backlog", "queued"} => body'[c] = NoBody
                    /\ outcome'[c] # "none" => body'[c] \in Bodies
  BY DEF Posted
<1>1. peer'[c] = "unborn" => content'[c] = NoBody
  BY ContentComes, PeerComes DEF Posted, ServerInv
<1>2. sock'[c] \in {"none", "backlog", "queued"} => body'[c] = NoBody
  BY BodyComes, SockComes DEF Posted
<1>3. outcome'[c] # "none" => body'[c] \in Bodies
  BY BodyComes, OutcomeComes DEF Posted
<1> QED BY <1>1, <1>2, <1>3

\* What a step of the server leaves alone.
LEMMA ServerLeaves ==
  ASSUME Server
  PROVE  UNCHANGED <<peer, sent, content, file, afl, run, want, tgt, try, got, merged>>
  BY DEF Server, bridgeVars, RunServer, AcceptQueue, AcceptReject, AcceptRejectExit,
     LateCoverage, DoFuzzerRuns, Poll, HandleFuzzRequest, ReadRequest, ReadHeader,
     ReadBodyShort, ReadBodyFull, ReadBodyNoFile, ReadThrows, HandlerDies,
     PostAnswered, PostThrows, GetBitmap,
     GetBitmapOverlapped, GetBitmapInfo, Post, GetBitmapThrows, Reply, CloseRequest,
     ReplyThrows, sockVars

\* The types and conventions every step is looked at with.
Context ==
  /\ ServerInv /\ RunInv /\ MineOK
  /\ peer \in [Conns -> {"unborn", "open", "closed"}]
  /\ content \in [Conns -> Bodies \cup {NoBody}]
  /\ file \in [Fuzzers -> Bodies \cup {Absent}]
  /\ body \in [Conns -> Bodies \cup {NoBody}]
  /\ status \in [Conns -> Statuses \cup {"none"}]
  /\ afl \in [Fuzzers -> {"idle", "unlinked", "created", "written", "running"}]
  /\ run \in [Fuzzers -> 1..(Runs + 1)]
  /\ want \in [Fuzzers -> Inputs]
  /\ tgt \in [Fuzzers -> {"none", "connect", "send", "status", "bitmap", "close"}
                           \cup Exited]
  /\ try \in [Fuzzers -> 0..(MAX_TRIES + 1)]
  /\ got \in [Fuzzers -> Statuses \cup {"none"}]
  /\ merged \in [Fuzzers -> SUBSET Conns]
  /\ \A f \in Fuzzers : tgt[f] # "none" => afl[f] = "running"

\* They hold at every moment.
LEMMA ContextHolds == ServerInv /\ RunInv => Context
  BY InvMine DEF Context, ServerInv, TypeOK, RunInv, BridgeTypeOK, InRun

\* Connections are opened in order.
LEMMA OrderStep == Context /\ InOrder /\ [BridgeNext]_allVars => InOrder'
<1> SUFFICES ASSUME Context, InOrder, [BridgeNext]_allVars,
                    NEW c \in Conns, peer'[c] # "unborn"
             PROVE  Opened(c)'
  BY DEF InOrder
<1> USE DEF Context
<1> DEFINE g == c[1]
<1>0. /\ c = <<c[1], c[2], c[3]>> /\ g \in Fuzzers /\ c[2] \in 1..Runs /\ c[3] \in 0..(MAX_TRIES + 1)
      /\ peer[c] # "unborn" => Opened(c)
      /\ Runs \in Nat /\ MAX_TRIES \in Nat
      /\ run[g] \in Nat /\ try[g] \in Nat
  BY ConnParts, BridgeAssumption DEF InOrder
<1>1. ASSUME NEW f \in Fuzzers, Connect(f) PROVE Opened(c)'
  <2>1. CASE c = Mine(f)
    <3>1. g = f /\ c[2] = run[f] /\ c[3] = try[f]
      BY <2>1, ConnParts
    <3> QED BY <1>1, <1>0, <3>1 DEF Connect, Goto, Opened
  <2>2. CASE c # Mine(f)
    <3>1. Opened(c)
      BY <1>1, <1>0, <2>2 DEF Connect, PeerConnect
    <3> QED BY <1>1, <1>0, <3>1 DEF Connect, Goto, Opened
  <2> QED BY <2>1, <2>2
<1>2. ASSUME Server \/ UNCHANGED allVars PROVE Opened(c)'
  BY <1>0, <1>2, ServerLeaves DEF Opened, allVars, vars, bridgeVars
<1>3. ASSUME NEW f \in Fuzzers, Afl(f) \/ (Target(f) /\ ~Connect(f)) PROVE peer[c] # "unborn"
  <2>1. CASE ClosePeer(Mine(f))
    BY <2>1 DEF ClosePeer
  <2>2. CASE UNCHANGED peer
    BY <2>2
  <2> QED
    BY <1>3, <2>1, <2>2
    DEF Afl, Target, Unlink, Create, Fill, Start, Reap, Timeout, ConnectFails, Die,
        Send, PeerSend, SendFails, ReadStatus, ReadBitmap, GiveUp, TryAgain, Finish,
        vars, sockVars
<1>4. ASSUME NEW f \in Fuzzers, Afl(f) PROVE Opened(c)'
  <2>1. Opened(c)
    BY <1>0, <1>3, <1>4
  <2>2. CASE Unlink(f) \/ Create(f) \/ Fill(f)
    BY <1>0, <2>1, <2>2 DEF Unlink, Create, Fill, Opened
  <2>3. CASE Start(f)
    BY <1>0, <2>1, <2>3 DEF Start, Opened
  <2>4. CASE Reap(f) \/ Timeout(f)
    BY <1>0, <2>1, <2>4 DEF Reap, Timeout, Ended, Opened
  <2> QED BY <1>4, <2>2, <2>3, <2>4 DEF Afl
<1>5. ASSUME NEW f \in Fuzzers, Target(f) PROVE Opened(c)'
  <2>1. CASE Connect(f)
    BY <1>1, <2>1
  <2>2. CASE ~Connect(f)
    <3>1. Opened(c)
      BY <1>0, <1>3, <1>5, <2>2
    <3>2. ASSUME NEW s, s # "connect", Goto(f, s), UNCHANGED try PROVE Opened(c)'
      BY <1>0, <3>1, <3>2 DEF Goto, Opened
    <3>3. CASE TryAgain(f)
      BY <1>0, <3>1, <3>3 DEF TryAgain, Goto, Opened
    <3> QED
      BY <1>5, <2>2, <3>2, <3>3
      DEF Target, ConnectFails, SendFails, GiveUp, Die, Send, ReadStatus, ReadBitmap,
          Finish
  <2> QED BY <2>1, <2>2
<1> QED BY <1>2, <1>4, <1>5 DEF BridgeNext

\* All of a fuzzer stays as it is.
Same(f) ==
  /\ afl'[f] = afl[f] /\ run'[f] = run[f] /\ want'[f] = want[f] /\ tgt'[f] = tgt[f]
  /\ try'[f] = try[f] /\ got'[f] = got[f] /\ merged'[f] = merged[f]

\* A fuzzer's own variables only change with its own steps.
LEMMA OwnSteps ==
  ASSUME Context, [BridgeNext]_allVars, NEW f \in Fuzzers
  PROVE  Same(f) \/ Afl(f) \/ Target(f)
<1> USE DEF Context
<1>1. CASE Server \/ UNCHANGED allVars
  BY <1>1, ServerLeaves DEF Same, allVars, bridgeVars
<1>2. ASSUME NEW g \in Fuzzers, g # f, Afl(g) PROVE Same(f)
  BY <1>2 DEF Same, Afl, Unlink, Create, Fill, Start, Reap, Timeout, Ended
<1>3. ASSUME NEW g \in Fuzzers, g # f, Target(g) PROVE Same(f)
  <2>1. ASSUME NEW s, Goto(g, s), UNCHANGED <<try, got, merged>> PROVE Same(f)
    BY <1>3, <2>1 DEF Goto, Same
  <2>2. CASE ReadStatus(g)
    <3>1. got'[f] = got[f]
      BY <1>3, <2>2 DEF ReadStatus
    <3> QED BY <1>3, <2>2, <3>1 DEF ReadStatus, Goto, Same
  <2>3. CASE ReadBitmap(g)
    <3>1. got'[f] = got[f] /\ merged'[f] = merged[f]
      BY <1>3, <2>3 DEF ReadBitmap
    <3> QED BY <1>3, <2>3, <3>1 DEF ReadBitmap, Goto, Same
  <2>4. CASE TryAgain(g)
    BY <1>3, <2>4 DEF TryAgain, Goto, Same
  <2> QED
    BY <1>3, <2>1, <2>2, <2>3, <2>4
    DEF Target, Connect, ConnectFails, Die, Send, SendFails, GiveUp, Finish
<1> QED BY <1>1, <1>2, <1>3 DEF BridgeNext

\* A run that goes on went on before, with the same number and input, or has
\* just begun.
LEMMA RunGoesOn ==
  ASSUME Context, [BridgeNext]_allVars, NEW f \in Fuzzers, afl'[f] = "running"
  PROVE  \/ afl[f] = "running" /\ run'[f] = run[f] /\ want'[f] = want[f]
         \/ Start(f)
<1> USE DEF Context
<1>1. CASE Same(f)
  BY <1>1 DEF Same
<1>2. CASE Afl(f)
  BY <1>2 DEF Afl, Unlink, Create, Fill, Reap, Timeout, Ended
<1>3. CASE Target(f)
  BY <1>3 DEF Target, Connect, ConnectFails, Die, Send, SendFails, ReadStatus,
     ReadBitmap, GiveUp, TryAgain, Finish, Goto
<1> QED BY <1>1, <1>2, <1>3, OwnSteps

\* The file of a run that is going on stays, and holds its input.
LEMMA FileStays ==
  ASSUME Context, FileOwn, [BridgeNext]_allVars, NEW f \in Fuzzers,
         afl'[f] \in {"written", "running"}
  PROVE  file'[f] = want'[f]
<1> USE DEF Context
<1>1. CASE Server \/ UNCHANGED allVars
  BY <1>1, ServerLeaves DEF FileOwn, allVars, vars, bridgeVars
<1>2. ASSUME NEW g \in Fuzzers, Afl(g) PROVE file'[f] = want'[f]
  BY <1>2 DEF FileOwn, Afl, Unlink, Create, Fill, Start, Reap, Timeout, Ended, vars
<1>3. ASSUME NEW g \in Fuzzers, Target(g) PROVE file'[f] = want'[f]
  <2>1. UNCHANGED <<file, afl, want>>
    BY <1>3 DEF Target, Connect, PeerConnect, ConnectFails, Die, Send, PeerSend,
       SendFails, ReadStatus, ReadBitmap, GiveUp, TryAgain, Finish, Goto, vars
  <2> QED BY <2>1 DEF FileOwn
<1> QED BY <1>1, <1>2, <1>3 DEF BridgeNext

\* Whatever is sent or read for a run is its input.
LEMMA FileStep ==
  Context /\ InOrder /\ Posted /\ FileOwn /\ [BridgeNext]_allVars => FileOwn'
<1> SUFFICES ASSUME Context, InOrder, Posted, FileOwn, [BridgeNext]_allVars,
                    NEW f \in Fuzzers, afl'[f] = "running", NEW c \in OfRun(f)'
             PROVE  content'[c] \in {NoBody, want'[f]} /\ body'[c] \in {NoBody, want'[f]}
  BY FileStays DEF FileOwn
<1>1. c \in Conns /\ c[1] = f /\ c[2] = run'[f] /\ Owner[c] = f
  BY ConnParts DEF OfRun
<1>2. [Next]_vars
  BY BridgeStep DEF Context, ServerInv, RunInv
<1>3. NoBody \notin Bodies
  BY ServerAssumption DEF Bodies
<1>4. CASE afl[f] = "running" /\ run'[f] = run[f] /\ want'[f] = want[f]
  <2>1. file[f] = want[f] /\ content[c] \in {NoBody, want[f]} /\ body[c] \in {NoBody, want[f]}
    BY <1>1, <1>4 DEF FileOwn, OfRun
  <2>2. content'[c] \in {NoBody, want[f]}
    BY <1>1, <1>2, <2>1, ContentComes DEF Context, ServerInv
  <2>3. body'[c] \in {NoBody, want[f]}
    BY <1>1, <1>2, <1>3, <2>1, BodyComes DEF Context
  <2> QED BY <1>4, <2>2, <2>3
<1>5. CASE Start(f)
  <2>1. run'[f] = run[f] /\ UNCHANGED <<content, body>> /\ afl[f] # "running"
    BY <1>5 DEF Start, vars
  <2>2. ~Opened(c)
    BY <1>1, <2>1 DEF Opened, Context
  <2>3. peer[c] = "unborn" /\ sock[c] = "none"
    BY <1>1, <2>2 DEF InOrder, Context, ServerInv, Placement
  <2> QED BY <1>1, <2>1, <2>3 DEF Posted
<1> QED BY <1>4, <1>5, RunGoesOn

\* The status in interface.c's hands is that of its connection.
LEMMA GotStep == Context /\ GotOwn /\ [BridgeNext]_allVars => GotOwn'
<1> DEFINE P(f) ==
      /\ tgt[f] = "bitmap" => status[Mine(f)] # "none" /\ got[f] = status[Mine(f)]
      /\ tgt[f] = "close" => got[f] \in Retried \/ (got[f] # "none" /\ got[f] = status[Mine(f)])
      /\ tgt[f] = "exit0" => status[Mine(f)] = "SUCCESS"
      /\ tgt[f] = "abort" => status[Mine(f)] = "CRASH"
<1> SUFFICES ASSUME Context, GotOwn, [BridgeNext]_allVars, NEW f \in Fuzzers
             PROVE  P(f)'
  BY DEF GotOwn
<1>1. P(f)
  BY DEF GotOwn
<1>2. [Next]_vars
  BY BridgeStep DEF Context, ServerInv, RunInv
<1>3. ASSUME tgt[f] # "none", status[Mine(f)] # "none" PROVE status'[Mine(f)] = status[Mine(f)]
  BY <1>2, <1>3, StatusStays DEF Context, MineOK
<1>4. CASE Same(f)
  <2>1. Mine(f)' = Mine(f)
    BY <1>4 DEF Same, Mine, Conn
  <2> QED BY <1>1, <1>3, <1>4, <2>1 DEF Same
<1>5. CASE Afl(f)
  <2>1. CASE Start(f) \/ Reap(f) \/ Timeout(f)
    BY <2>1 DEF Start, Reap, Timeout, Ended, Context
  <2>2. CASE Unlink(f) \/ Create(f) \/ Fill(f)
    <3>1. tgt'[f] = "none"
      BY <2>2 DEF Unlink, Create, Fill, Context
    <3> QED BY <3>1
  <2> QED BY <1>5, <2>1, <2>2 DEF Afl
<1>6. CASE Target(f)
  <2>1. CASE Connect(f) \/ Send(f)
    BY <2>1 DEF Connect, Send, Goto, Context
  <2>2. ASSUME Die(f) PROVE P(f)'
    BY <1>6, <2>2 DEF Die, Goto, Context
  <2>3. CASE ReadStatus(f)
    <3>1. Mine(f)' = Mine(f) /\ UNCHANGED status
      BY <2>3 DEF ReadStatus, Goto, Mine, Conn, vars
    <3> QED BY <2>3, <3>1 DEF ReadStatus, Goto, Context, Retried
  <2>4. CASE ReadBitmap(f)
    <3>1. Mine(f)' = Mine(f) /\ UNCHANGED status
      BY <2>4 DEF ReadBitmap, Goto, Mine, Conn, vars
    <3> QED BY <1>1, <2>4, <3>1 DEF ReadBitmap, Goto, Context, Retried
  <2>5. CASE TryAgain(f)
    BY <2>5 DEF TryAgain, Goto, Context
  <2>6. CASE Finish(f)
    <3>1. Mine(f)' = Mine(f) /\ UNCHANGED status
      BY <2>6 DEF Finish, Goto, Mine, Conn, serverVars, doneVars
    <3>2. got[f] = status[Mine(f)] /\ got[f] \in {"SUCCESS", "CRASH"}
      BY <1>1, <2>6 DEF Finish, Context, Retried, Statuses
    <3> QED BY <2>6, <3>1, <3>2 DEF Finish, Goto, Context
  <2> QED BY <1>6, <2>1, <2>2, <2>3, <2>4, <2>5, <2>6
          DEF Target, ConnectFails, SendFails, GiveUp
<1> QED BY <1>4, <1>5, <1>6, OwnSteps

\* A retry only follows an attempt that was not posted.
LEMMA MergedStep == Context /\ GotOwn /\ MergedLast /\ [BridgeNext]_allVars => MergedLast'
<1> DEFINE Q(f, c) ==
      \/ status[c] \in Retried
      \/ c = Mine(f) /\ tgt[f] \in Exited
      \/ c = Mine(f) /\ tgt[f] = "close" /\ got[f] \notin Retried
<1> SUFFICES ASSUME Context, GotOwn, MergedLast, [BridgeNext]_allVars,
                    NEW f \in Fuzzers, afl'[f] = "running", NEW c \in merged'[f]
             PROVE  c \in OfRun(f)' /\ Q(f, c)'
  BY DEF MergedLast
<1>2. [Next]_vars
  BY BridgeStep DEF Context, ServerInv, RunInv
<1>3. ASSUME c \in Conns, status[c] # "none" PROVE status'[c] = status[c]
  BY <1>2, <1>3, StatusStays DEF Context
<1>4. CASE Start(f)
  BY <1>4 DEF Start, Context
<1>5. CASE afl[f] = "running" /\ run'[f] = run[f] /\ ~Start(f)
  <2>0. OfRun(f)' = OfRun(f)
    BY <1>5 DEF OfRun
  <2>1. CASE c \in merged[f]
    <3>1. c \in OfRun(f) /\ c \in Conns /\ Q(f, c)
      BY <1>5, <2>1 DEF MergedLast, OfRun
    <3>2. CASE status[c] \in Retried
      BY <1>3, <2>0, <3>1, <3>2 DEF Retried
    <3>3. CASE status[c] \notin Retried
      <4>1. c = Mine(f) /\ (tgt[f] \in Exited \/ (tgt[f] = "close" /\ got[f] \notin Retried))
        BY <3>1, <3>3
      <4>2. CASE Same(f)
        BY <2>0, <3>1, <4>1, <4>2 DEF Same, Mine, Conn
      <4>3. CASE Afl(f)
        BY <1>5, <4>3 DEF Afl, Unlink, Create, Fill, Reap, Timeout, Ended, Context
      <4>4. CASE Target(f)
        <5>1. tgt[f] = "close" /\ got[f] \notin Retried /\ ~TryAgain(f)
          BY <4>1, <4>4 DEF Target, Connect, ConnectFails, Send, SendFails, ReadStatus,
             ReadBitmap, GiveUp, TryAgain, Finish, Exited
        <5>2. Die(f) \/ Finish(f)
          BY <4>4, <5>1 DEF Target, Connect, ConnectFails, Send, SendFails, ReadStatus,
             ReadBitmap, GiveUp
        <5>3. tgt'[f] \in Exited /\ Mine(f)' = Mine(f)
          BY <5>2 DEF Die, Finish, Goto, Mine, Conn, Exited, Context
        <5> QED BY <2>0, <3>1, <4>1, <5>3
      <4> QED BY <4>2, <4>3, <4>4, OwnSteps
    <3> QED BY <3>2, <3>3
  <2>2. CASE c \notin merged[f]
    <3>1. ReadBitmap(f) /\ c = Mine(f) /\ UNCHANGED got
      <4>1. ~Same(f)
        BY <2>2 DEF Same
      <4>2. ~Afl(f)
        BY <1>5, <2>2 DEF Afl, Unlink, Create, Fill, Reap, Timeout, Ended
      <4>3. ReadBitmap(f)
        BY <2>2, <4>1, <4>2, OwnSteps
        DEF Target, Connect, ConnectFails, Die, Send, SendFails, ReadStatus, GiveUp,
            TryAgain, Finish
      <4> QED BY <2>2, <4>3 DEF ReadBitmap, Context
    <3>2. Mine(f) \in Conns /\ Mine(f)[1] = f /\ Mine(f)[2] = run[f]
      BY <3>1, ConnParts DEF ReadBitmap, Context, MineOK
    <3>3. Mine(f)' = Mine(f) /\ UNCHANGED status /\ tgt'[f] = "close" /\ tgt[f] = "bitmap"
      BY <3>1 DEF ReadBitmap, Goto, Mine, Conn, vars, Context
    <3>4. got[f] = status[Mine(f)]
      BY <3>3 DEF GotOwn
    <3> QED BY <2>0, <3>1, <3>2, <3>3, <3>4 DEF OfRun
  <2> QED BY <2>1, <2>2
<1> QED BY <1>4, <1>5, RunGoesOn

-----------------------------------------------------------------------------

\* The invariant holds at the start, ...
LEMMA StartBridge == BridgeInit => BridgeInv
<1> SUFFICES ASSUME BridgeInit PROVE BridgeInv
  OBVIOUS
<1>1. BridgeTypeOK /\ InRun
  BY RunInvInit DEF RunInv
<1>2. InOrder /\ Posted
  BY DEF BridgeInit, Init, InOrder, Posted
<1>3. FileOwn /\ GotOwn /\ MergedLast
  BY DEF BridgeInit, FileOwn, GotOwn, MergedLast
<1> QED BY <1>1, <1>2, <1>3 DEF BridgeInv

\* ... and every step keeps it.
LEMMA KeepBridge ==
  ServerInv /\ BridgeInv /\ [BridgeNext]_allVars => ServerInv' /\ BridgeInv'
<1> SUFFICES ASSUME ServerInv, BridgeInv, [BridgeNext]_allVars
             PROVE  ServerInv' /\ BridgeInv'
  OBVIOUS
<1>1. RunInv /\ Context
  BY ContextHolds DEF BridgeInv, RunInv
<1>2. [Next]_vars
  BY <1>1, BridgeStep DEF Context, ServerInv, RunInv
<1>3. ServerInv'
  BY <1>2, NextInv
<1>4. RunInv'
  BY <1>1, <1>3, RunInvNext DEF ServerInv
<1>5. Posted'
  BY <1>2, PostedStep DEF BridgeInv
<1>6. InOrder' /\ FileOwn' /\ GotOwn' /\ MergedLast'
  BY <1>1, OrderStep, FileStep, GotStep, MergedStep DEF BridgeInv
<1> QED BY <1>3, <1>4, <1>5, <1>6 DEF BridgeInv, RunInv

\* The invariant of the composition: connections are opened in order, the file
\* and all that is read from it are the run's input, and a status belongs to
\* its connection, for any number of fuzzers, runs, tries and queued requests.
THEOREM BridgeCorrect == BridgeSpec => []BridgeInv
<1>1. BridgeInit => ServerInv /\ BridgeInv
  BY InitInv, StartBridge DEF BridgeInit
<1> QED BY <1>1, KeepBridge, PTL DEF BridgeSpec

\* Both halves of the composition.
LEMMA Together == BridgeSpec => [](ServerInv /\ BridgeInv)
<1>1. BridgeInit => ServerInv /\ BridgeInv
  BY InitInv, StartBridge DEF BridgeInit
<1> QED BY <1>1, KeepBridge, PTL DEF BridgeSpec

\* The connection of a target that has ended, or has merged, is of the run.
LEMMA OfThisRun ==
  ASSUME ServerInv, BridgeInv, NEW f \in Fuzzers, tgt[f] # "none"
  PROVE  Mine(f) \in Conns /\ Mine(f) \in OfRun(f) /\ afl[f] = "running"
<1>1. Context
  BY ContextHolds DEF BridgeInv, RunInv
<1> QED BY <1>1, ConnParts DEF Context, MineOK, OfRun

\* A target that exits 0 or aborts does so for what was done with its own run's
\* input, however late an earlier run's request is handled.
THEOREM VerdictsAreOwn == BridgeSpec => []VerdictIsOwn
<1>1. ServerInv /\ BridgeInv => VerdictIsOwn
  <2> SUFFICES ASSUME ServerInv, BridgeInv, NEW f \in Fuzzers, tgt[f] \in {"exit0", "abort"}
               PROVE  /\ body[Mine(f)] = want[f]
                      /\ tgt[f] = "exit0" => outcome[Mine(f)] = "ok"
                      /\ tgt[f] = "abort" => outcome[Mine(f)] \in {"http5xx", "exception"}
    BY DEF VerdictIsOwn
  <2>1. Mine(f) \in Conns /\ Mine(f) \in OfRun(f) /\ afl[f] = "running"
    BY OfThisRun
  <2>2. /\ tgt[f] = "exit0" => outcome[Mine(f)] = "ok"
        /\ tgt[f] = "abort" => outcome[Mine(f)] \in {"http5xx", "exception"}
    BY <2>1 DEF BridgeInv, GotOwn, ServerInv, VerdictSound
  <2>3. body[Mine(f)] \in Bodies
    BY <2>1, <2>2 DEF BridgeInv, Posted
  <2>4. body[Mine(f)] \in {NoBody, want[f]}
    BY <2>1 DEF BridgeInv, FileOwn
  <2> QED BY <2>2, <2>3, <2>4, ServerAssumption DEF Bodies
<1> QED BY <1>1, Together, PTL

\* What a run merges into trace_bits is coverage of its own input or of an
\* escaped body, unless the drain met a branch scan or unclean memory.
THEOREM TracesAreOwn == BridgeSpec => []TraceIsOwn
<1>1. ServerInv /\ BridgeInv => TraceIsOwn
  <2> SUFFICES ASSUME ServerInv, BridgeInv, NEW f \in Fuzzers, afl[f] = "running",
                      NEW c \in merged[f], Foreign \notin mem[c]
               PROVE  mem[c] \subseteq {want[f]} \cup Escaped
    BY DEF TraceIsOwn
  <2>1. c \in OfRun(f) /\ c \in Conns
    BY DEF BridgeInv, MergedLast, OfRun
  <2>2. body[c] \in {NoBody, want[f]}
    BY <2>1 DEF BridgeInv, FileOwn
  <2>3. mem[c] \subseteq {body[c]} \cup Escaped /\ mem[c] \subseteq Bodies
    BY <2>1 DEF ServerInv, CoverageSound, TypeOK, Coverage
  <2> QED BY <2>2, <2>3, ServerAssumption DEF Bodies
<1> QED BY <1>1, Together, PTL

\* No run counts the coverage of two posts.
THEOREM MergedAtMostOnce == BridgeSpec => []MergedOnce
<1>1. ServerInv /\ BridgeInv => MergedOnce
  <2> SUFFICES ASSUME ServerInv, BridgeInv, NEW f \in Fuzzers, afl[f] = "running",
                      NEW c \in merged[f], outcome[c] # "none"
               PROVE  c = Mine(f)
    BY DEF MergedOnce
  <2>1. c \in Conns
    BY DEF BridgeInv, MergedLast, OfRun
  <2>2. status[c] \notin Retried
    BY <2>1 DEF ServerInv, VerdictSound, Retried
  <2> QED BY <2>2 DEF BridgeInv, MergedLast
<1> QED BY <1>1, Together, PTL
=============================================================================
