------------------------ MODULE NfuzzerServerProofs ------------------------
(* Proofs about NfuzzerServer, for every set of connections, fuzzers and    *)
(* inputs, every queue length, both modes and every split of the body.      *)
EXTENDS NfuzzerServer, TLAPS

\* The head and the tail of a nonempty queue of connections.
LEMMA TailFacts ==
  ASSUME NEW S, NEW q \in Seq(S), q # <<>>
  PROVE  /\ Tail(q) \in Seq(S) /\ Head(q) \in S
         /\ Len(q) \in Nat /\ Len(q) >= 1
         /\ Len(Tail(q)) = Len(q) - 1
         /\ Head(q) = q[1]
         /\ \A i \in 1..Len(q) : q[i] \in S
         /\ \A i \in 1..(Len(q) - 1) : Tail(q)[i] = q[i + 1]
  OBVIOUS

\* Taking the head away removes that connection and no other.
LEMMA TailMembers ==
  ASSUME NEW S, NEW q \in Seq(S), q # <<>>, NoRepeat(q)
  PROVE  /\ NoRepeat(Tail(q))
         /\ InSeq(Head(q), q)
         /\ \A c : InSeq(c, Tail(q)) <=> InSeq(c, q) /\ c # Head(q)
<1>1. NoRepeat(Tail(q))
  BY TailFacts DEF NoRepeat
<1>2. InSeq(Head(q), q)
  BY TailFacts DEF InSeq
<1>3. ASSUME NEW c, InSeq(c, Tail(q)) PROVE InSeq(c, q) /\ c # Head(q)
  <2>1. PICK i \in 1..Len(Tail(q)) : Tail(q)[i] = c
    BY <1>3 DEF InSeq
  <2>2. i + 1 \in 1..Len(q) /\ q[i + 1] = c /\ 1 \in 1..Len(q) /\ i + 1 # 1
    BY <2>1, TailFacts
  <2> QED
    BY <2>2, TailFacts DEF InSeq, NoRepeat
<1>4. ASSUME NEW c, InSeq(c, q), c # Head(q) PROVE InSeq(c, Tail(q))
  <2>1. PICK i \in 1..Len(q) : q[i] = c
    BY <1>4 DEF InSeq
  <2>2. i # 1
    BY <2>1, <1>4, TailFacts
  <2>3. i - 1 \in 1..Len(Tail(q)) /\ Tail(q)[i - 1] = c
    BY <2>1, <2>2, TailFacts
  <2> QED
    BY <2>3 DEF InSeq
<1> QED
  BY <1>1, <1>2, <1>3, <1>4

\* Appending a connection that is not there adds that connection and no other.
LEMMA AppendMembers ==
  ASSUME NEW S, NEW q \in Seq(S), NEW d \in S, NoRepeat(q), ~InSeq(d, q)
  PROVE  /\ Append(q, d) \in Seq(S)
         /\ NoRepeat(Append(q, d))
         /\ \A c : InSeq(c, Append(q, d)) <=> InSeq(c, q) \/ c = d
<1> DEFINE r == Append(q, d)
<1>1. /\ r \in Seq(S) /\ Len(q) \in Nat /\ Len(r) = Len(q) + 1
      /\ r[Len(r)] = d
      /\ \A i \in 1..Len(q) : r[i] = q[i]
  OBVIOUS
<1>2. \A i \in 1..Len(r) : i \in 1..Len(q) \/ i = Len(r)
  BY <1>1
<1> HIDE DEF r
<1>3. NoRepeat(r)
  BY <1>1, <1>2 DEF NoRepeat, InSeq
<1>4. \A c : InSeq(c, r) <=> InSeq(c, q) \/ c = d
  BY <1>1, <1>2 DEF InSeq
<1> QED
  BY <1>1, <1>3, <1>4 DEF r

-----------------------------------------------------------------------------

\* The empty queues hold no connection.
LEMMA EmptyMembers == NoRepeat(<<>>) /\ \A c : ~InSeq(c, <<>>)
  BY DEF NoRepeat, InSeq

\* ServerInv holds initially.
LEMMA InitInv == Init => ServerInv
  BY ServerAssumption, EmptyMembers
  DEF Init, ServerInv, TypeOK, Placement, Untouched, Progress, Drained,
      VerdictSound, CoverageSound, Agrees, Escaped, Bodies, Coverage, Statuses,
      Outcomes, LiveSocks

USE DEF sockVars, handlerVars, doneVars, appVars

\* Every step keeps the types; a posted body is a body because of Progress.
LEMMA NextTypeOK == TypeOK /\ Progress /\ [Next]_vars => TypeOK'
<1> SUFFICES ASSUME TypeOK, Progress, [Next]_vars PROVE TypeOK'
  OBVIOUS
<1> USE ServerAssumption DEF TypeOK, Bodies, Statuses, Outcomes, LiveSocks
<1>1. ASSUME NEW c \in Conns, PeerConnect(c) PROVE TypeOK'
  BY <1>1 DEF PeerConnect
<1>2. ASSUME NEW c \in Conns, PeerSend(c) PROVE TypeOK'
  <2>1. sent' \in [Conns -> 0..(BodyChunks + 1)]
    <3>1. sent[c] \in 0..(BodyChunks + 1) /\ sent[c] <= BodyChunks
      BY <1>2 DEF PeerSend
    <3>2. sent[c] + 1 \in 0..(BodyChunks + 1)
      BY <3>1
    <3> QED BY <1>2, <3>2 DEF PeerSend
  <2>2. content' \in [Conns -> Bodies \cup {NoBody}]
    BY <1>2 DEF PeerSend
  <2> QED BY <1>2, <2>1, <2>2 DEF PeerSend
<1>3. ASSUME NEW c \in Conns, PeerClose(c) PROVE TypeOK'
  BY <1>3 DEF PeerClose
<1>4. ASSUME NEW f \in Fuzzers, FileWrite(f) PROVE TypeOK'
  BY <1>4 DEF FileWrite
<1>5. ASSUME NEW b \in Bodies, LateCoverage(b) PROVE TypeOK'
  BY <1>5 DEF LateCoverage, Coverage
<1>6. CASE AcceptQueue
  <2>1. /\ Head(backlog) \in Conns /\ Tail(backlog) \in Seq(Conns)
        /\ Append(requestQueue, Head(backlog)) \in Seq(Conns)
    BY <1>6, TailFacts DEF AcceptQueue
  <2> QED BY <1>6, <2>1 DEF AcceptQueue
<1>7. CASE AcceptReject
  <2>1. Head(backlog) \in Conns /\ Tail(backlog) \in Seq(Conns)
    BY <1>7, TailFacts DEF AcceptReject
  <2> QED BY <1>7, <2>1 DEF AcceptReject
<1>8. CASE AcceptRejectExit
  BY <1>8 DEF AcceptRejectExit
<1>9. CASE Poll
  <2>1. Head(requestQueue) \in Conns /\ Tail(requestQueue) \in Seq(Conns)
    BY <1>9, TailFacts DEF Poll
  <2> QED BY <1>9, <2>1 DEF Poll
<1>10. CASE HandlerDies
  BY <1>10 DEF HandlerDies
<1>15. CASE ReadHeader \/ ReadBodyShort \/ ReadBodyFull
  BY <1>15 DEF ReadHeader, ReadBodyShort, ReadBodyFull
<1>11. CASE PostAnswered \/ PostThrows
  <2>1. hpc = "post"
    BY <1>11 DEF PostAnswered, PostThrows
  <2>2. body[cur] \in Bodies
    BY <2>1 DEF Progress
  <2> HIDE DEF Bodies
  <2>3. bitmap \cup {body[cur]} \in Coverage /\ late \cup {body[cur]} \in SUBSET Bodies
    BY <2>2 DEF Coverage
  <2>4. CASE PostAnswered
    BY <2>3, <2>4 DEF PostAnswered
  <2>5. CASE PostThrows
    BY <2>3, <2>5 DEF PostThrows
  <2> QED BY <1>11, <2>4, <2>5
<1>12. CASE GetBitmap \/ GetBitmapOverlapped
  <2>1. {} \in Coverage /\ {Foreign} \in Coverage
    BY DEF Coverage
  <2> HIDE DEF Bodies
  <2>2. CASE GetBitmap
    BY <2>1, <2>2 DEF GetBitmap
  <2>3. CASE GetBitmapOverlapped
    BY <2>1, <2>3 DEF GetBitmapOverlapped
  <2> QED BY <1>12, <2>2, <2>3
<1>13. CASE Reply
  BY <1>13 DEF Reply
<1>16. CASE CloseRequest
  BY <1>16 DEF CloseRequest
<1>14. CASE UNCHANGED vars
  BY <1>14 DEF vars
<1> QED
  BY <1>1, <1>2, <1>3, <1>4, <1>5, <1>6, <1>7, <1>8, <1>9, <1>10, <1>11,
     <1>12, <1>13, <1>14, <1>15, <1>16
  DEF ReadRequest, ReadBodyNoFile, ReadThrows, GetBitmapThrows, ReplyThrows,
      Next, Environment, RunServer, DoFuzzerRuns, HandleFuzzRequest, Post,
      GetBitmapInfo

-----------------------------------------------------------------------------

\* The steps of the handler that take up or give up no connection.
Busy == {"header", "body", "post", "bitmap", "reply", "close"}

\* Every step keeps sockets, queues and handler in agreement.
LEMMA NextPlacement == ServerInv /\ [Next]_vars => Placement'
<1> SUFFICES ASSUME ServerInv, [Next]_vars PROVE Placement'
  OBVIOUS
<1>0. /\ TypeOK /\ Placement /\ Untouched /\ Progress
      /\ cur \in Conns /\ sock \in [Conns -> LiveSocks \cup {"none", "shut", "orphan"}]
      /\ peer \in [Conns -> {"unborn", "open", "closed"}]
      /\ status \in [Conns -> Statuses \cup {"none"}]
      /\ backlog \in Seq(Conns) /\ requestQueue \in Seq(Conns)
      /\ result # "none"
      /\ hpc \in Busy \cup {"poll", "dead"}
  BY DEF ServerInv, TypeOK, Busy
<1> USE DEF LiveSocks, Busy
<1>1. ASSUME NEW c \in Conns, PeerConnect(c) PROVE Placement'
  <2>1. sock[c] = "none" /\ peer[c] = "unborn" /\ ~InSeq(c, backlog)
    BY <1>0, <1>1 DEF PeerConnect, Placement
  <2>2. /\ NoRepeat(backlog')
        /\ \A d : InSeq(d, backlog') <=> InSeq(d, backlog) \/ d = c
    BY <1>0, <1>1, <2>1, AppendMembers DEF PeerConnect, Placement
  <2> QED
    BY <1>0, <1>1, <2>1, <2>2 DEF PeerConnect, Placement
<1>2. ASSUME UNCHANGED <<sock, backlog, requestQueue, hpc, cur, status>>,
             \A c \in Conns : peer'[c] = "unborn" <=> peer[c] = "unborn"
      PROVE  Placement'
  BY <1>0, <1>2 DEF Placement, InSeq, NoRepeat
<1>3. CASE AcceptQueue
  <2> DEFINE h == Head(backlog)
  <2>1. h \in Conns /\ sock[h] = "backlog" /\ ~InSeq(h, requestQueue)
    BY <1>0, <1>3, TailFacts, TailMembers DEF AcceptQueue, Placement
  <2>2. /\ NoRepeat(backlog') /\ NoRepeat(requestQueue')
        /\ \A c : InSeq(c, backlog') <=> InSeq(c, backlog) /\ c # h
        /\ \A c : InSeq(c, requestQueue') <=> InSeq(c, requestQueue) \/ c = h
    BY <1>0, <1>3, <2>1, TailMembers, AppendMembers DEF AcceptQueue, Placement
  <2>3. /\ sock' = [sock EXCEPT ![h] = "queued"]
        /\ UNCHANGED <<peer, hpc, cur, status>>
    BY <1>3 DEF AcceptQueue
  <2> HIDE DEF h
  <2>4. \A c \in Conns : sock'[c] = IF c = h THEN "queued" ELSE sock[c]
    BY <1>0, <2>3
  <2> QED BY <1>0, <2>1, <2>2, <2>3, <2>4 DEF Placement
<1>4. CASE AcceptReject
  <2> DEFINE h == Head(backlog)
  <2>1. h \in Conns /\ sock[h] = "backlog"
    BY <1>0, <1>4, TailFacts, TailMembers DEF AcceptReject, Placement
  <2>2. /\ NoRepeat(backlog')
        /\ \A c : InSeq(c, backlog') <=> InSeq(c, backlog) /\ c # h
    BY <1>0, <1>4, <2>1, TailMembers DEF AcceptReject, Placement
  <2> QED BY <1>0, <1>4, <2>1, <2>2 DEF AcceptReject, Placement
<1>5. CASE AcceptRejectExit
  BY <1>0, <1>5, EmptyMembers DEF AcceptRejectExit, Placement
<1>6. CASE Poll
  <2> DEFINE h == Head(requestQueue)
  <2>1. h \in Conns /\ sock[h] = "queued"
    BY <1>0, <1>6, TailFacts, TailMembers DEF Poll, Placement
  <2>2. /\ NoRepeat(requestQueue')
        /\ \A c : InSeq(c, requestQueue') <=> InSeq(c, requestQueue) /\ c # h
    BY <1>0, <1>6, <2>1, TailMembers DEF Poll, Placement
  <2> QED BY <1>0, <1>6, <2>1, <2>2 DEF Poll, Placement
<1>7. ASSUME HandlerDies, hpc \in Busy PROVE Placement'
  BY <1>0, <1>7 DEF HandlerDies, Placement
<1>8. ASSUME hpc \in Busy, hpc' \in Busy,
             UNCHANGED <<peer, sock, backlog, requestQueue, cur, status>>
      PROVE  Placement'
  BY <1>0, <1>8 DEF Placement
<1>9. CASE Reply
  BY <1>0, <1>9 DEF Reply, Placement
<1>10. CASE CloseRequest
  BY <1>0, <1>10 DEF CloseRequest, Placement, Progress
<1>11. CASE ReadRequest
  BY <1>7, <1>8, <1>11 DEF ReadRequest, ReadHeader, ReadBodyShort,
     ReadBodyFull, ReadBodyNoFile, ReadThrows
<1>12. CASE PostAnswered \/ PostThrows
  BY <1>8, <1>12 DEF PostAnswered, PostThrows
<1>13. CASE GetBitmapInfo \/ ReplyThrows
  BY <1>7, <1>8, <1>13 DEF GetBitmapInfo, GetBitmap, GetBitmapOverlapped,
     GetBitmapThrows, ReplyThrows
<1>14. CASE UNCHANGED vars
  BY <1>2, <1>14 DEF vars
<1>15. ASSUME NEW c \in Conns, PeerSend(c) \/ PeerClose(c) PROVE Placement'
  BY <1>0, <1>2, <1>15 DEF PeerSend, PeerClose
<1>16. ASSUME NEW f \in Fuzzers, FileWrite(f) PROVE Placement'
  BY <1>2, <1>16 DEF FileWrite
<1>17. ASSUME NEW b \in Bodies, LateCoverage(b) PROVE Placement'
  BY <1>2, <1>17 DEF LateCoverage
<1> QED
  BY <1>1, <1>3, <1>4, <1>5, <1>6, <1>9, <1>10, <1>11, <1>12, <1>13, <1>14,
     <1>15, <1>16, <1>17
  DEF Next, Environment, RunServer, DoFuzzerRuns, HandleFuzzRequest, Post

-----------------------------------------------------------------------------

\* What the handler has done so far belongs to the connections it did it for.
Done == Untouched /\ Progress /\ Drained /\ VerdictSound /\ CoverageSound

\* Escaped depends on the bodies and outcomes only, and only grows.
LEMMA EscapedSame == UNCHANGED <<body, outcome>> => Escaped' = Escaped
  BY DEF Escaped

\* A body posted now escapes only if its post throws.
LEMMA EscapedGrows ==
  ASSUME TypeOK, cur \in Conns, outcome[cur] = "none",
         NEW o \in Outcomes, outcome' = [outcome EXCEPT ![cur] = o],
         \/ body' = body
         \/ \E b : body' = [body EXCEPT ![cur] = b]
  PROVE  /\ Escaped \subseteq Escaped'
         /\ o = "exception" => body'[cur] \in Escaped'
  BY DEF Escaped, TypeOK

\* Steps outside the handler that change no verdict and no bitmap.
LEMMA QuietDone ==
  ASSUME ServerInv, UNCHANGED <<hpc, cur, result, doneVars, appVars>>,
         \A c \in Conns : sock'[c] \in {"none", "backlog", "queued"} =>
                          sock[c] \in {"none", "backlog", "queued"}
  PROVE  Done'
  BY EscapedSame DEF ServerInv, Done, Untouched, Progress, Drained,
     VerdictSound, CoverageSound, Agrees

\* Every step of the environment and of runServer keeps Done.
LEMMA OthersDone == ServerInv /\ (Environment \/ RunServer) => Done'
<1> SUFFICES ASSUME ServerInv, Environment \/ RunServer PROVE Done'
  OBVIOUS
<1>0. /\ TypeOK /\ Placement /\ Untouched /\ Progress /\ Drained
      /\ VerdictSound /\ CoverageSound
      /\ sock \in [Conns -> LiveSocks \cup {"none", "shut", "orphan"}]
      /\ status \in [Conns -> Statuses \cup {"none"}]
      /\ backlog \in Seq(Conns) /\ cur \in Conns
  BY DEF ServerInv, TypeOK
<1>1. ASSUME NEW c \in Conns, PeerConnect(c) PROVE Done'
  BY <1>0, <1>1, QuietDone DEF PeerConnect, Placement
<1>2. ASSUME NEW c \in Conns, PeerSend(c) \/ PeerClose(c) PROVE Done'
  BY <1>2, QuietDone DEF PeerSend, PeerClose
<1>3. ASSUME NEW f \in Fuzzers, FileWrite(f) PROVE Done'
  BY <1>3, QuietDone DEF FileWrite
<1>4. ASSUME NEW b \in Bodies, LateCoverage(b) PROVE Done'
  BY <1>0, <1>4, EscapedSame DEF LateCoverage, Done, Untouched, Progress,
     Drained, VerdictSound, CoverageSound, Agrees
<1>5. CASE AcceptQueue
  <2>1. sock[Head(backlog)] = "backlog" /\ Head(backlog) \in Conns
    BY <1>0, <1>5, TailFacts, TailMembers DEF AcceptQueue, Placement
  <2>2. sock' = [sock EXCEPT ![Head(backlog)] = "queued"]
    BY <1>5 DEF AcceptQueue
  <2> QED BY <1>0, <1>5, <2>1, <2>2, QuietDone DEF AcceptQueue
<1>6. CASE AcceptReject
  <2> DEFINE h == Head(backlog)
  <2>1. h \in Conns /\ sock[h] = "backlog" /\ outcome[h] = "none"
    BY <1>0, <1>6, TailFacts, TailMembers DEF AcceptReject, Placement, Untouched
  <2>2. hpc \in {"header", "body", "post", "bitmap", "reply", "close"} => h # cur
    BY <1>0, <2>1 DEF Placement
  <2>3. /\ status' = [status EXCEPT ![h] = "QUEUE_FULL"]
        /\ sock' = [sock EXCEPT ![h] = "shut"]
        /\ UNCHANGED <<hpc, cur, result, body, outcome, mem, appVars>>
    BY <1>6 DEF AcceptReject
  <2> HIDE DEF h
  <2>4. \A c \in Conns : c # h => status'[c] = status[c] /\ sock'[c] = sock[c]
    BY <1>0, <2>3
  <2>5. sock'[h] = "shut" /\ status'[h] = "QUEUE_FULL"
    BY <1>0, <2>1, <2>3
  <2>6. Untouched' /\ Progress' /\ VerdictSound'
    BY <1>0, <2>1, <2>2, <2>3, <2>4, <2>5
    DEF Untouched, Progress, VerdictSound, Agrees
  <2>7. Drained' /\ CoverageSound'
    BY <1>0, <2>3, EscapedSame DEF Drained, CoverageSound
  <2> QED BY <2>6, <2>7 DEF Done
<1>7. CASE AcceptRejectExit
  <2>1. /\ hpc' = "dead" /\ UNCHANGED <<cur, result, doneVars, appVars>>
        /\ \A c \in Conns : sock'[c] \in {"none", "backlog", "queued"} =>
                            sock[c] \in {"none", "backlog", "queued"}
    BY <1>7 DEF AcceptRejectExit, LiveSocks
  <2> QED
    BY <1>0, <2>1, EscapedSame DEF Done, Untouched, Progress, Drained,
       VerdictSound, CoverageSound
<1> QED
  BY <1>1, <1>2, <1>3, <1>4, <1>5, <1>6, <1>7 DEF Environment, RunServer

\* Every step of the handler keeps Done.
LEMMA HandlerDone == ServerInv /\ DoFuzzerRuns => Done'
<1> SUFFICES ASSUME ServerInv, DoFuzzerRuns PROVE Done'
  OBVIOUS
<1>0. /\ TypeOK /\ Placement /\ Untouched /\ Progress /\ Drained
      /\ VerdictSound /\ CoverageSound
      /\ sock \in [Conns -> LiveSocks \cup {"none", "shut", "orphan"}]
      /\ status \in [Conns -> Statuses \cup {"none"}]
      /\ body \in [Conns -> Bodies \cup {NoBody}]
      /\ outcome \in [Conns -> Outcomes]
      /\ mem \in [Conns -> Coverage]
      /\ result \in {"SUCCESS", "CRASH", "COMM_ERROR"}
      /\ requestQueue \in Seq(Conns) /\ cur \in Conns
      /\ hpc \in Busy => sock[cur] = "handling"
  BY DEF ServerInv, TypeOK, Placement, Busy
<1>1. CASE Poll
  <2> DEFINE h == Head(requestQueue)
  <2>1. h \in Conns /\ sock[h] = "queued"
    BY <1>0, <1>1, TailFacts, TailMembers DEF Poll, Placement
  <2>2. outcome[h] = "none" /\ status[h] = "none" /\ mem[h] = {}
    BY <1>0, <2>1 DEF Untouched
  <2>3. /\ cur' = h /\ result' = "CRASH" /\ hpc = "poll" /\ hpc' = "header"
        /\ sock' = [sock EXCEPT ![h] = "handling"]
        /\ UNCHANGED <<doneVars, appVars>>
    BY <1>1 DEF Poll
  <2> HIDE DEF h
  <2> QED
    BY <1>0, <2>1, <2>2, <2>3, EscapedSame DEF Done, Untouched, Progress,
       Drained, VerdictSound, CoverageSound
<1>2. ASSUME HandlerDies PROVE Done'
  <2>1. \A c \in Conns : sock'[c] \in {"none", "backlog", "queued"} =>
                         sock[c] \in {"none", "backlog", "queued"}
    BY <1>0, <1>2 DEF HandlerDies
  <2> QED
    BY <1>0, <1>2, <2>1, EscapedSame DEF HandlerDies, Done, Untouched,
       Progress, Drained, VerdictSound, CoverageSound
<1>3. CASE ReadHeader \/ ReadBodyShort
  <2>1. /\ hpc \in {"header", "body"}
        /\ \/ hpc' = "body" /\ result' = result
           \/ hpc' = "bitmap" /\ result' = "COMM_ERROR"
        /\ UNCHANGED <<sock, cur, doneVars, appVars>>
    BY <1>3 DEF ReadHeader, ReadBodyShort
  <2> QED
    BY <1>0, <2>1, EscapedSame DEF Done, Untouched, Progress, Drained,
       VerdictSound, CoverageSound, Agrees
<1>4. CASE ReadBodyFull
  <2>1. PICK b \in Bodies : body' = [body EXCEPT ![cur] = b]
    BY <1>4 DEF ReadBodyFull
  <2>2. /\ hpc = "body" /\ hpc' = "post"
        /\ UNCHANGED <<sock, cur, result, outcome, mem, status, appVars>>
    BY <1>4 DEF ReadBodyFull
  <2>3. outcome[cur] = "none" /\ mem[cur] = {} /\ status[cur] = "none"
    BY <1>0, <2>2 DEF Progress
  <2>4. Escaped' = Escaped
    BY <1>0, <2>1, <2>2, <2>3 DEF Escaped
  <2>5. \A c \in Conns : c # cur => body'[c] = body[c]
    BY <1>0, <2>1
  <2>6. body'[cur] = b
    BY <1>0, <2>1
  <2>7. CoverageSound'
    BY <1>0, <2>2, <2>3, <2>4, <2>5 DEF CoverageSound
  <2>8. Untouched' /\ Progress' /\ Drained' /\ VerdictSound'
    BY <1>0, <2>2, <2>3, <2>4, <2>6 DEF Untouched, Progress, Drained, VerdictSound
  <2> QED BY <2>7, <2>8 DEF Done
<1>5. CASE PostAnswered \/ PostThrows
  <2>1. PICK o \in {"ok", "http5xx", "exception"} :
          /\ outcome' = [outcome EXCEPT ![cur] = o]
          /\ Agrees(result', o)
          /\ bitmap' = bitmap \cup {body[cur]}
          /\ late' \subseteq late \cup (IF o = "exception" THEN {body[cur]} ELSE {})
    <3>1. CASE PostAnswered
      BY <3>1 DEF PostAnswered, Agrees
    <3>2. CASE PostThrows
      BY <1>0, <3>2 DEF PostThrows, Agrees, Progress
    <3> QED BY <1>5, <3>1, <3>2
  <2>2. /\ hpc = "post" /\ hpc' = "bitmap"
        /\ UNCHANGED <<sock, cur, body, mem, status>>
    BY <1>5 DEF PostAnswered, PostThrows
  <2>3. outcome[cur] = "none" /\ mem[cur] = {} /\ status[cur] = "none"
    BY <1>0, <2>2 DEF Progress
  <2>4. /\ Escaped \subseteq Escaped'
        /\ o = "exception" => body'[cur] \in Escaped'
    BY <1>0, <2>1, <2>2, <2>3, EscapedGrows DEF Outcomes
  <2>5. outcome'[cur] = o /\ \A c \in Conns : c # cur => outcome'[c] = outcome[c]
    BY <1>0, <2>1
  <2>6. Untouched' /\ Progress' /\ VerdictSound'
    BY <1>0, <2>1, <2>2, <2>3, <2>5 DEF Untouched, Progress, VerdictSound, Busy
  <2>7. Drained' /\ CoverageSound'
    BY <1>0, <2>1, <2>2, <2>4 DEF Drained, CoverageSound
  <2> QED BY <2>6, <2>7 DEF Done
<1>6. CASE GetBitmap \/ GetBitmapOverlapped
  <2>1. PICK got \in {bitmap, {Foreign}} :
          /\ mem' = [mem EXCEPT ![cur] = got]
          /\ bitmap' = {} \/ bitmap' = {Foreign}
    <3>1. CASE GetBitmap
      BY <3>1 DEF GetBitmap
    <3>2. CASE GetBitmapOverlapped
      BY <3>2 DEF GetBitmapOverlapped
    <3> QED BY <1>6, <3>1, <3>2
  <2>2. /\ hpc = "bitmap" /\ hpc' = "reply"
        /\ UNCHANGED <<sock, cur, result, body, outcome, status, late>>
    BY <1>6 DEF GetBitmap, GetBitmapOverlapped
  <2>3. mem'[cur] = got /\ \A c \in Conns : c # cur => mem'[c] = mem[c]
    BY <1>0, <2>1
  <2>4. Escaped' = Escaped
    BY <2>2, EscapedSame
  <2>5. CoverageSound' /\ Drained'
    BY <1>0, <2>1, <2>2, <2>3, <2>4 DEF CoverageSound, Drained
  <2>6. Untouched' /\ Progress' /\ VerdictSound'
    BY <1>0, <2>2, <2>3 DEF Untouched, Progress, VerdictSound, Busy
  <2> QED BY <2>5, <2>6 DEF Done
<1>7. CASE Reply
  <2>1. /\ hpc = "reply" /\ hpc' = "close"
        /\ status' = [status EXCEPT ![cur] = result]
        /\ UNCHANGED <<sock, cur, result, body, outcome, mem, appVars>>
    BY <1>7 DEF Reply
  <2>2. status'[cur] = result /\ \A c \in Conns : c # cur => status'[c] = status[c]
    BY <1>0, <2>1
  <2>3. Untouched' /\ Progress' /\ VerdictSound'
    BY <1>0, <2>1, <2>2 DEF Untouched, Progress, VerdictSound, Agrees, Busy
  <2>4. Drained' /\ CoverageSound'
    BY <1>0, <2>1, EscapedSame DEF Drained, CoverageSound
  <2> QED BY <2>3, <2>4 DEF Done
<1>8. CASE CloseRequest
  <2>1. /\ hpc = "close" /\ hpc' = "poll"
        /\ sock' = [sock EXCEPT ![cur] = "shut"]
        /\ UNCHANGED <<cur, result, doneVars, appVars>>
    BY <1>8 DEF CloseRequest
  <2> QED
    BY <1>0, <2>1, EscapedSame DEF Done, Untouched, Progress, Drained,
       VerdictSound, CoverageSound
<1> QED
  BY <1>1, <1>2, <1>3, <1>4, <1>5, <1>6, <1>7, <1>8
  DEF DoFuzzerRuns, HandleFuzzRequest, Post, GetBitmapInfo, ReadRequest,
      ReadBodyNoFile, ReadThrows, GetBitmapThrows, ReplyThrows
-----------------------------------------------------------------------------

\* ServerInv is inductive.
LEMMA NextInv == ServerInv /\ [Next]_vars => ServerInv'
<1> SUFFICES ASSUME ServerInv, [Next]_vars PROVE ServerInv'
  OBVIOUS
<1>1. TypeOK' /\ Placement'
  BY NextTypeOK, NextPlacement DEF ServerInv
<1>2. Done'
  <2>1. CASE UNCHANGED vars
    BY <2>1, QuietDone DEF vars
  <2> QED BY <2>1, OthersDone, HandlerDone DEF Next
<1> QED BY <1>1, <1>2 DEF ServerInv, Done

\* At every moment sockets, queues and handler agree, every verdict belongs to
\* the connection it was made for, and so does every bitmap whose drain met no
\* branch scan and clear memory.
THEOREM ServerInvariance == Spec => []ServerInv
  BY InitInv, NextInv, PTL DEF Spec

\* The variables of Nfuzzer.java and its surroundings keep their types.
THEOREM TypeCorrect == Spec => []TypeOK
<1>1. ServerInv => TypeOK
  BY DEF ServerInv
<1> QED BY <1>1, ServerInvariance, PTL

\* A status byte tells what was done for that very connection.
THEOREM VerdictsAreSound == Spec => []VerdictSound
<1>1. ServerInv => VerdictSound
  BY DEF ServerInv
<1> QED BY <1>1, ServerInvariance, PTL

\* A bitmap holds its own request's coverage and that of escaped bodies only,
\* unless its drain met a branch scan or memory that was not clear.
THEOREM CoverageIsSound == Spec => []CoverageSound
<1>1. ServerInv => CoverageSound
  BY DEF ServerInv
<1> QED BY <1>1, ServerInvariance, PTL

\* No accepted connection is forgotten while the handler thread lives.
THEOREM NothingIsForgotten == Spec => []NothingForgotten
<1>1. ServerInv => NothingForgotten
  BY DEF ServerInv, NothingForgotten, Placement, InSeq, TypeOK, LiveSocks
<1> QED BY <1>1, ServerInvariance, PTL

\* A connection's body is posted at most once, and stays what was posted.
THEOREM PostsAreUnique == Spec => PostedOnce
<1> DEFINE Kept == \A c \in Conns : outcome[c] # "none" =>
                     outcome'[c] = outcome[c] /\ body'[c] = body[c]
<1>1. ServerInv /\ [Next]_vars => Kept
  <2> SUFFICES ASSUME ServerInv, [Next]_vars PROVE Kept
    OBVIOUS
  <2>0. /\ body \in [Conns -> Bodies \cup {NoBody}]
        /\ outcome \in [Conns -> Outcomes] /\ cur \in Conns /\ Progress
    BY DEF ServerInv, TypeOK
  <2>1. ASSUME UNCHANGED <<body, outcome>> PROVE Kept
    BY <2>1
  <2>2. CASE ReadBodyFull
    BY <2>0, <2>2 DEF ReadBodyFull, Progress
  <2>3. CASE PostAnswered \/ PostThrows
    BY <2>0, <2>3 DEF PostAnswered, PostThrows, Progress
  <2>4. CASE Environment \/ RunServer \/ UNCHANGED vars
    BY <2>1, <2>4 DEF Environment, RunServer, vars, PeerConnect, PeerSend,
       PeerClose, FileWrite, LateCoverage, AcceptQueue, AcceptReject,
       AcceptRejectExit
  <2> QED
    BY <2>1, <2>2, <2>3, <2>4 DEF Next, DoFuzzerRuns, HandleFuzzRequest,
       ReadRequest, Poll, ReadHeader, ReadBodyShort, ReadBodyNoFile,
       ReadThrows, HandlerDies, Post, GetBitmapInfo, GetBitmap,
       GetBitmapOverlapped, GetBitmapThrows, Reply, CloseRequest, ReplyThrows
<1>2. [Next]_vars /\ ServerInv => [Kept]_vars
  BY <1>1
<1> QED BY <1>2, ServerInvariance, PTL DEF Spec, PostedOnce
=============================================================================
