--------------------------- MODULE NfuzzerServer ---------------------------
(***************************************************************************)
(* Nfuzzer.java: the request server that stands between the fuzzer's       *)
(* target processes (interface.c) and the instrumented web application.    *)
(*                                                                         *)
(* Two threads share requestQueue:                                         *)
(*   - runServer accepts a TCP connection, and queues it or, when          *)
(*     maxQueue requests wait, answers STATUS_QUEUE_FULL and closes it;    *)
(*   - doFuzzerRuns polls one connection at a time, reads the request,     *)
(*     posts its body to the web application, drains the coverage bitmap   *)
(*     of the bitmap server, and writes status and bitmap back.            *)
(*                                                                         *)
(* Everything outside the two threads is the environment and may act at    *)
(* any time: the peers connect, send, close or are killed, the test case   *)
(* files are rewritten, the web application answers or fails, the bitmap   *)
(* server answers or refuses.  A run of the web application's code leaves  *)
(* its body in the bitmap, so that the bitmap says WHOSE coverage it may   *)
(* hold; how much of it is there, and how much of a bitmap one read()      *)
(* returns, is left open.                                                  *)
(*                                                                         *)
(* A drain is sound only when no branch scan for an earlier answer is      *)
(* running in the bitmap server: the two share one buffer position (CovMem *)
(* has the steps of both).  What such a drain sends or leaves is Foreign,  *)
(* coverage of nobody in particular, and so is an earlier session's.       *)
(***************************************************************************)
EXTENDS Naturals, Sequences

CONSTANTS
  Conns,        \* TCP connections, one per attempt of one target process
  Fuzzers,      \* fuzzer instances, each with one test case file
  Owner,        \* the fuzzer whose target process opens a connection
  Inputs,       \* test cases, as whole units
  maxQueue,     \* capacity of requestQueue (10 in the code)
  BodyChunks,   \* number of pieces TCP delivers a path or a body in
  FileMode,     \* TRUE: the body sent is a path (mode FILE_MODE)
  Foreign,      \* stands for coverage that is of no known body
  Old,          \* what an earlier session has left in the bitmap
  Absent,       \* content of a test case file that is unlinked
  Torn,         \* content of a test case file that is half written
  NoBody        \* nothing was posted for this connection

ASSUME ServerAssumption ==
  /\ Owner \in [Conns -> Fuzzers]
  /\ maxQueue \in Nat
  /\ BodyChunks \in Nat \ {0}
  /\ FileMode \in BOOLEAN
  /\ Foreign \notin Inputs \cup {Torn}
  /\ Old \subseteq {Foreign}
  /\ Absent \notin Inputs \cup {Torn}
  /\ NoBody \notin Inputs \cup {Torn}

Bodies == Inputs \cup {Torn}
Coverage == SUBSET (Bodies \cup {Foreign})
Statuses == {"SUCCESS", "CRASH", "QUEUE_FULL", "COMM_ERROR"}
Outcomes == {"none", "ok", "http5xx", "exception"}

VARIABLES
  \* the sockets and the files, as the operating system keeps them
  peer,          \* the target process's end: unborn, open or closed
  sent,          \* pieces it has written: the header, then the body
  content,       \* the body it writes when the mode is not FILE_MODE
  file,          \* the test case file of each fuzzer
  sock,          \* the server's end of each connection
  backlog,       \* connections the kernel holds for accept()
  \* the two threads
  requestQueue,
  srv,           \* runServer: "accept", or "exited" with the whole JVM
  hpc,           \* doFuzzerRuns: next step of handleFuzzRequest, or "dead"
  cur,           \* the request being handled (meaningful unless hpc = "poll")
  result,        \* handleFuzzRequest's local
  \* what was done for each connection
  body,          \* the body posted to the web application
  outcome,       \* how the post ended
  mem,           \* bodies whose coverage may be in the bitmap read for it
  status,        \* the status byte written to it
  \* the instrumented application
  bitmap,        \* bodies whose coverage may be in the shared bitmap
  late           \* bodies whose post failed and that may still run there

sockVars == <<peer, sent, content, sock, backlog>>
handlerVars == <<hpc, cur, result>>
doneVars == <<body, outcome, mem, status>>
appVars == <<bitmap, late>>
vars == <<peer, sent, content, file, sock, backlog, requestQueue, srv, hpc,
          cur, result, body, outcome, mem, status, bitmap, late>>

\* A BindException at the start ends the program before it listens.  Nothing
\* clears the edges an earlier session has left in the file.
Init ==
  /\ peer = [c \in Conns |-> "unborn"]
  /\ sent = [c \in Conns |-> 0]
  /\ content = [c \in Conns |-> NoBody]
  /\ file \in [Fuzzers -> Inputs \cup {Absent}]
  /\ sock = [c \in Conns |-> "none"]
  /\ backlog = <<>>
  /\ requestQueue = <<>>
  /\ srv \in {"accept", "exited"}
  /\ hpc = IF srv = "accept" THEN "poll" ELSE "dead"
  /\ cur \in Conns
  /\ result = "CRASH"
  /\ body = [c \in Conns |-> NoBody]
  /\ outcome = [c \in Conns |-> "none"]
  /\ mem = [c \in Conns |-> {}]
  /\ status = [c \in Conns |-> "none"]
  /\ bitmap = Old
  /\ late = {}

-----------------------------------------------------------------------------
(* The environment. *)

\* connect() of a target process: the kernel completes it while ss listens.
PeerConnect(c) ==
  /\ srv = "accept"
  /\ peer[c] = "unborn"
  /\ peer' = [peer EXCEPT ![c] = "open"]
  /\ sock' = [sock EXCEPT ![c] = "backlog"]
  /\ backlog' = Append(backlog, c)
  /\ UNCHANGED <<sent, content, file, requestQueue, srv, handlerVars, doneVars,
                 appVars>>

\* The peer writes its next piece: piece 1 is mode and length, the others the
\* body.  Sending data it opens its test case file first, or gives up.
PeerSend(c) ==
  /\ peer[c] = "open"
  /\ sent[c] <= BodyChunks
  /\ sent' = [sent EXCEPT ![c] = @ + 1]
  /\ \/ /\ FileMode \/ sent[c] > 0
        /\ UNCHANGED content
     \/ /\ ~FileMode /\ sent[c] = 0
        /\ file[Owner[c]] \in Bodies
        /\ content' = [content EXCEPT ![c] = file[Owner[c]]]
  /\ UNCHANGED <<peer, file, sock, backlog, requestQueue, srv, handlerVars,
                 doneVars, appVars>>

\* The peer closes its end, or is killed.
PeerClose(c) ==
  /\ peer[c] = "open"
  /\ peer' = [peer EXCEPT ![c] = "closed"]
  /\ UNCHANGED <<sent, content, file, sock, backlog, requestQueue, srv,
                 handlerVars, doneVars, appVars>>

\* A fuzzer unlinks, creates or fills its test case file.
FileWrite(f) ==
  /\ file' \in [Fuzzers -> Bodies \cup {Absent}]
  /\ \A g \in Fuzzers \ {f} : file'[g] = file[g]
  /\ UNCHANGED <<sockVars, requestQueue, srv, handlerVars, doneVars, appVars>>

\* A body whose post failed has been running on in the application, and ends.
LateCoverage(b) ==
  /\ b \in late
  /\ late' = late \ {b}
  /\ bitmap' = bitmap \cup {b}
  /\ UNCHANGED <<sockVars, file, requestQueue, srv, handlerVars, doneVars>>

-----------------------------------------------------------------------------
(* runServer. *)

LiveSocks == {"backlog", "queued", "handling"}

AcceptQueue ==
  /\ srv = "accept"
  /\ backlog # <<>>
  /\ Len(requestQueue) < maxQueue
  /\ requestQueue' = Append(requestQueue, Head(backlog))
  /\ backlog' = Tail(backlog)
  /\ sock' = [sock EXCEPT ![Head(backlog)] = "queued"]
  /\ UNCHANGED <<peer, sent, content, file, srv, handlerVars, doneVars, appVars>>

\* Mutant: the rejected connection is closed without its status byte.
AcceptRejectSilently ==
  /\ srv = "accept"
  /\ backlog # <<>>
  /\ Len(requestQueue) >= maxQueue
  /\ sock' = [sock EXCEPT ![Head(backlog)] = "shut"]
  /\ backlog' = Tail(backlog)
  /\ UNCHANGED <<peer, sent, content, file, requestQueue, srv, handlerVars,
                 doneVars, appVars>>

AcceptReject ==
  /\ srv = "accept"
  /\ backlog # <<>>
  /\ Len(requestQueue) >= maxQueue
  /\ status' = [status EXCEPT ![Head(backlog)] = "QUEUE_FULL"]
  /\ sock' = [sock EXCEPT ![Head(backlog)] = "shut"]
  /\ backlog' = Tail(backlog)
  /\ UNCHANGED <<peer, sent, content, file, requestQueue, srv, handlerVars,
                 body, outcome, mem, appVars>>

\* The rejected peer has gone: a write or a shutdown on its socket throws, the
\* catch-all calls System.exit(1), and every thread and socket goes with it.
AcceptRejectExit ==
  /\ srv = "accept"
  /\ backlog # <<>>
  /\ Len(requestQueue) >= maxQueue
  /\ peer[Head(backlog)] = "closed"
  /\ srv' = "exited"
  /\ hpc' = "dead"
  /\ sock' = [c \in Conns |-> IF sock[c] \in LiveSocks \cup {"orphan"}
                              THEN "shut" ELSE sock[c]]
  /\ backlog' = <<>>
  /\ requestQueue' = <<>>
  /\ UNCHANGED <<peer, sent, content, file, cur, result, doneVars, appVars>>

-----------------------------------------------------------------------------
(* doFuzzerRuns and handleFuzzRequest. *)

\* Mutants: the verdict kept from the previous request; the head of the queue
\* looked at and not removed; one request always left in the queue.
PollKeepsResult ==
  /\ hpc = "poll"
  /\ requestQueue # <<>>
  /\ cur' = Head(requestQueue)
  /\ requestQueue' = Tail(requestQueue)
  /\ sock' = [sock EXCEPT ![Head(requestQueue)] = "handling"]
  /\ hpc' = "header"
  /\ UNCHANGED <<peer, sent, content, file, backlog, srv, result, doneVars,
                 appVars>>

PollPeeks ==
  /\ hpc = "poll"
  /\ requestQueue # <<>>
  /\ cur' = Head(requestQueue)
  /\ sock' = [sock EXCEPT ![Head(requestQueue)] = "handling"]
  /\ result' = "CRASH"
  /\ hpc' = "header"
  /\ UNCHANGED <<peer, sent, content, file, backlog, requestQueue, srv,
                 doneVars, appVars>>

PollLeavesOne ==
  /\ hpc = "poll"
  /\ Len(requestQueue) > 1
  /\ cur' = Head(requestQueue)
  /\ requestQueue' = Tail(requestQueue)
  /\ sock' = [sock EXCEPT ![Head(requestQueue)] = "handling"]
  /\ result' = "CRASH"
  /\ hpc' = "header"
  /\ UNCHANGED <<peer, sent, content, file, backlog, srv, doneVars, appVars>>

Poll ==
  /\ hpc = "poll"
  /\ requestQueue # <<>>
  /\ cur' = Head(requestQueue)
  /\ requestQueue' = Tail(requestQueue)
  /\ sock' = [sock EXCEPT ![Head(requestQueue)] = "handling"]
  /\ result' = "CRASH"
  /\ hpc' = "header"
  /\ UNCHANGED <<peer, sent, content, file, backlog, srv, doneVars, appVars>>

\* An IOException leaves handleFuzzRequest: doFuzzerRuns rethrows it and the
\* thread ends, with the socket still open and the queue still filling.
HandlerDies ==
  /\ hpc' = "dead"
  /\ sock' = [sock EXCEPT ![cur] = "orphan"]
  /\ UNCHANGED <<peer, sent, content, file, backlog, requestQueue, srv, cur,
                 result, doneVars, appVars>>

\* mode and pathLen; read() returns -1 at end of stream, which makes pathLen
\* negative.
ReadHeader ==
  /\ hpc = "header"
  /\ \/ /\ sent[cur] >= 1
        /\ hpc' = "body"
        /\ UNCHANGED result
     \/ /\ sent[cur] = 0
        /\ peer[cur] = "closed"
        /\ result' = "COMM_ERROR"
        /\ hpc' = "bitmap"
  /\ UNCHANGED <<sockVars, file, requestQueue, srv, cur, doneVars, appVars>>

\* One is.read(bytes): it returns what has arrived, which may be less than
\* pathLen, or -1 at end of stream.
ReadBodyShort ==
  /\ hpc = "body"
  /\ \/ sent[cur] >= 2 /\ BodyChunks >= 2
     \/ sent[cur] < BodyChunks + 1 /\ peer[cur] = "closed"
  /\ result' = "COMM_ERROR"
  /\ hpc' = "bitmap"
  /\ UNCHANGED <<sockVars, file, requestQueue, srv, cur, doneVars, appVars>>

ReadBodyFull ==
  /\ hpc = "body"
  /\ sent[cur] = BodyChunks + 1
  /\ LET b == IF FileMode THEN file[Owner[cur]] ELSE content[cur]
     IN /\ b \in Bodies
        /\ body' = [body EXCEPT ![cur] = b]
  /\ hpc' = "post"
  /\ UNCHANGED <<sockVars, file, requestQueue, srv, cur, result, outcome, mem,
                 status, appVars>>

\* Files.readAllBytes throws: the path names a file that is unlinked.
ReadBodyNoFile ==
  /\ hpc = "body"
  /\ sent[cur] = BodyChunks + 1
  /\ FileMode
  /\ file[Owner[cur]] = Absent
  /\ HandlerDies

\* A read() on a connection its peer has reset throws.
ReadThrows ==
  /\ hpc \in {"header", "body"}
  /\ peer[cur] = "closed"
  /\ HandlerDies

\* sendPostReq: the application answers, or the client throws.  After an
\* exception the body may have run already, and may run on.
PostAnswered ==
  /\ hpc = "post"
  /\ \/ /\ outcome' = [outcome EXCEPT ![cur] = "ok"]
        /\ result' = "SUCCESS"
     \/ /\ outcome' = [outcome EXCEPT ![cur] = "http5xx"]
        /\ result' = "CRASH"
  /\ bitmap' = bitmap \cup {body[cur]}
  /\ hpc' = "bitmap"
  /\ UNCHANGED <<sockVars, file, requestQueue, srv, cur, body, mem, status, late>>

PostThrows ==
  /\ hpc = "post"
  /\ outcome' = [outcome EXCEPT ![cur] = "exception"]
  /\ bitmap' = bitmap \cup {body[cur]}
  /\ late' = late \cup {body[cur]}
  /\ hpc' = "bitmap"
  /\ UNCHANGED <<sockVars, file, requestQueue, srv, cur, result, body, mem, status>>

\* Mutant: the bitmap server sends the bitmap and does not clear it.
GetBitmapNoDrain ==
  /\ hpc = "bitmap"
  /\ mem' = [mem EXCEPT ![cur] = bitmap]
  /\ hpc' = "reply"
  /\ UNCHANGED <<sockVars, file, requestQueue, srv, cur, result, body, outcome,
                 status, bitmap, late>>

\* getBitmapInfo: the bitmap server drains the bitmap, sends it, and then scans the
\* branches on its own.
GetBitmap ==
  /\ hpc = "bitmap"
  /\ mem' = [mem EXCEPT ![cur] = bitmap]
  /\ bitmap' = {}
  /\ hpc' = "reply"
  /\ UNCHANGED <<sockVars, file, requestQueue, srv, cur, result, body, outcome,
                 status, late>>

\* getBitmapInfo, when the scan for an earlier answer still runs and moves the
\* shared buffer position: branches of whatever ever ran, or zeros, may be sent
\* for edges, and the clearing may fall elsewhere or be left out, for Mem
\* swallows every exception.
GetBitmapOverlapped ==
  /\ hpc = "bitmap"
  /\ mem' = [mem EXCEPT ![cur] = {Foreign}]
  /\ bitmap' = {Foreign}
  /\ hpc' = "reply"
  /\ UNCHANGED <<sockVars, file, requestQueue, srv, cur, result, body, outcome,
                 status, late>>

GetBitmapThrows ==
  /\ hpc = "bitmap"
  /\ HandlerDies

Reply ==
  /\ hpc = "reply"
  /\ status' = [status EXCEPT ![cur] = result]
  /\ hpc' = "close"
  /\ UNCHANGED <<sockVars, file, requestQueue, srv, cur, result, body, outcome,
                 mem, appVars>>

CloseRequest ==
  /\ hpc = "close"
  /\ sock' = [sock EXCEPT ![cur] = "shut"]
  /\ hpc' = "poll"
  /\ UNCHANGED <<peer, sent, content, file, backlog, requestQueue, srv, cur,
                 result, doneVars, appVars>>

\* The peer has closed or reset: write, flush or shutdown throws.
ReplyThrows ==
  /\ hpc \in {"reply", "close"}
  /\ peer[cur] = "closed"
  /\ HandlerDies

-----------------------------------------------------------------------------

Environment ==
  \/ \E c \in Conns : PeerConnect(c) \/ PeerSend(c) \/ PeerClose(c)
  \/ \E f \in Fuzzers : FileWrite(f)
  \/ \E b \in Bodies : LateCoverage(b)

RunServer == AcceptQueue \/ AcceptReject \/ AcceptRejectExit

ReadRequest ==
  ReadHeader \/ ReadBodyShort \/ ReadBodyFull \/ ReadBodyNoFile \/ ReadThrows

Post == PostAnswered \/ PostThrows

GetBitmapInfo == GetBitmap \/ GetBitmapOverlapped \/ GetBitmapThrows

HandleFuzzRequest ==
  \/ ReadRequest
  \/ Post
  \/ GetBitmapInfo
  \/ Reply \/ CloseRequest \/ ReplyThrows

DoFuzzerRuns == Poll \/ HandleFuzzRequest

Next == Environment \/ RunServer \/ DoFuzzerRuns

Spec == Init /\ [][Next]_vars

\* interface.c writes its whole request, or exits, or is killed.
PeerGoesOn(c) == sent[c] <= BodyChunks /\ (PeerSend(c) \/ PeerClose(c))

\* What doFuzzerRuns does by itself or with what its peer has sent.
HandlerSteps == Poll \/ ReadRequest \/ Reply \/ CloseRequest \/ ReplyThrows

\* The JVM schedules both threads, and a peer does not keep the handler in
\* read() for ever.
Fairness ==
  /\ WF_vars(RunServer)
  /\ WF_vars(HandlerSteps)
  /\ \A c \in Conns : WF_vars(PeerGoesOn(c))

\* The web application and the bitmap server answer or fail.  The code sets no
\* timeout and cannot be relied on for this; it is granted only where a promise
\* is refuted, so that the refutation is not an answer that never came.
Answering == WF_vars(Post) /\ WF_vars(GetBitmapInfo)

FairSpec == Spec /\ Fairness /\ Answering

-----------------------------------------------------------------------------
(* Properties. *)

\* Every variable of the two threads, the sockets and the application keeps
\* its type.
TypeOK ==
  /\ peer \in [Conns -> {"unborn", "open", "closed"}]
  /\ sent \in [Conns -> 0..(BodyChunks + 1)]
  /\ content \in [Conns -> Bodies \cup {NoBody}]
  /\ file \in [Fuzzers -> Bodies \cup {Absent}]
  /\ sock \in [Conns -> LiveSocks \cup {"none", "shut", "orphan"}]
  /\ backlog \in Seq(Conns)
  /\ requestQueue \in Seq(Conns)
  /\ srv \in {"accept", "exited"}
  /\ hpc \in {"poll", "header", "body", "post", "bitmap", "reply", "close", "dead"}
  /\ cur \in Conns
  /\ result \in {"SUCCESS", "CRASH", "COMM_ERROR"}
  /\ body \in [Conns -> Bodies \cup {NoBody}]
  /\ outcome \in [Conns -> Outcomes]
  /\ mem \in [Conns -> Coverage]
  /\ status \in [Conns -> Statuses \cup {"none"}]
  /\ bitmap \in Coverage
  /\ late \in SUBSET Bodies

\* The status byte a connection gets tells what was done for that very
\* connection: SUCCESS only after the application answered its post below 500,
\* CRASH only after its post failed, and QUEUE_FULL or COMM_ERROR only when
\* nothing was posted for it, so that repeating the request is harmless.
VerdictSound ==
  \A c \in Conns :
    /\ status[c] = "SUCCESS" => outcome[c] = "ok"
    /\ status[c] = "CRASH" => outcome[c] \in {"http5xx", "exception"}
    /\ status[c] \in {"QUEUE_FULL", "COMM_ERROR"} => outcome[c] = "none"

\* Bodies whose post ended in an exception: the application may run them on.
Escaped == {body[d] : d \in {e \in Conns : outcome[e] = "exception"}}

\* A bitmap drained while no branch scan was running, from memory that the drain
\* before had cleared, holds the coverage of its own connection's body, and beyond
\* it only coverage of bodies whose post ended in an exception: one request's
\* coverage stays out of the next, and one sound drain makes up for what an
\* earlier session or an overlapped drain has left.
CoverageSound ==
  \A c \in Conns : Foreign \notin mem[c] => mem[c] \subseteq {body[c]} \cup Escaped

\* One connection is posted to the application at most once, and what was
\* posted and how it ended never changes afterwards.
PostedOnce ==
  [][\A c \in Conns : outcome[c] # "none" =>
       outcome'[c] = outcome[c] /\ body'[c] = body[c]]_vars

\* While the handler thread lives no accepted connection is forgotten: it is
\* in requestQueue, in the handler's hands, or was answered and closed.
NothingForgotten ==
  hpc # "dead" =>
    \A c \in Conns :
      \/ sock[c] \in {"none", "backlog"}
      \/ \E i \in 1..Len(requestQueue) : requestQueue[i] = c
      \/ hpc # "poll" /\ cur = c
      \/ sock[c] = "shut" /\ status[c] # "none"

-----------------------------------------------------------------------------
(* The inductive invariant behind the properties above. *)

InSeq(c, q) == \E i \in 1..Len(q) : q[i] = c

NoRepeat(q) == \A i, j \in 1..Len(q) : q[i] = q[j] => i = j

\* Where a connection is, is what its socket says.
Placement ==
  /\ NoRepeat(backlog) /\ NoRepeat(requestQueue)
  /\ \A c \in Conns :
       /\ peer[c] = "unborn" <=> sock[c] = "none"
       /\ InSeq(c, backlog) <=> sock[c] = "backlog"
       /\ InSeq(c, requestQueue) <=> sock[c] = "queued"
       /\ (c = cur /\ hpc \notin {"poll", "dead"}) <=> sock[c] = "handling"
       /\ sock[c] = "orphan" => hpc = "dead"
       /\ sock[c] = "shut" => status[c] # "none" \/ hpc = "dead"

\* Nothing was done for a connection the handler has not taken up.
Untouched ==
  \A c \in Conns : sock[c] \in {"none", "backlog", "queued"} =>
    outcome[c] = "none" /\ status[c] = "none" /\ mem[c] = {}

\* A verdict and how the post it speaks of ended.
Agrees(verdict, o) ==
  /\ verdict = "SUCCESS" => o = "ok"
  /\ verdict = "CRASH" => o \in {"http5xx", "exception"}
  /\ verdict = "COMM_ERROR" => o = "none"

\* How far the handler has come with the request it handles.
Progress ==
  /\ hpc \in {"header", "body", "post"} =>
       result = "CRASH" /\ outcome[cur] = "none" /\ mem[cur] = {}
  /\ hpc \in {"header", "body", "post", "bitmap", "reply"} => status[cur] = "none"
  /\ hpc = "post" => body[cur] \in Bodies
  /\ hpc \in {"bitmap", "reply"} => Agrees(result, outcome[cur])
  /\ hpc = "close" => status[cur] # "none"

\* What the application's bitmap may hold between and during requests, once a
\* drain has cleared it.
Drained ==
  /\ late \subseteq Escaped
  /\ Foreign \notin bitmap =>
       /\ hpc \notin {"bitmap", "dead"} => bitmap \subseteq Escaped
       /\ hpc = "bitmap" => bitmap \subseteq Escaped \cup {body[cur]}

\* At every step: sockets, queues and handler agree, verdicts are those of their
\* own connections, and so are the bitmaps of drains no scan has disturbed.
ServerInv ==
  TypeOK /\ Placement /\ Untouched /\ Progress /\ Drained /\ VerdictSound
    /\ CoverageSound

-----------------------------------------------------------------------------

\* What the work flow in Nfuzzer.java (lines 205-217) says: every fuzz request
\* ends with "nfuzzer -> afl, status code & bitmap info".
WorkFlowCompletes ==
  \A c \in Conns :
    (sock[c] \in LiveSocks /\ sent[c] = BodyChunks + 1) ~>
      (status[c] # "none" \/ peer[c] = "closed")
=============================================================================
