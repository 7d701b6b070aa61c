----------------------------- MODULE FuzzBridge -----------------------------
(***************************************************************************)
(* The request server together with its real peers: the target process     *)
(* interface.c, forked anew for every run, and the side of afl-fuzz.c that *)
(* writes the test case file, starts a run, kills it when its timer fires  *)
(* and reads how it ended.                                                 *)
(*                                                                         *)
(* NfuzzerServer lets peers and files do anything; here a connection is    *)
(* one attempt of one run of one fuzzer, opened, written and closed by     *)
(* interface.c's retry loop, and a file changes only between two runs.     *)
(* What a fuzzer asks, what the server does for it and what the fuzzer     *)
(* concludes can then be compared.                                         *)
(***************************************************************************)
EXTENDS NfuzzerServer

CONSTANTS
  Runs,        \* bound: executions of the target per fuzzer
  Corpus,      \* the inputs each fuzzer may run
  Patient,     \* bound: fuzzers whose timer is set too long to fire
  MAX_TRIES    \* 40 in the code

Conn(f, r, t) == <<f, r, t>>

ASSUME BridgeAssumption ==
  /\ Runs \in Nat \ {0}
  /\ MAX_TRIES \in Nat
  /\ Corpus \in [Fuzzers -> SUBSET Inputs]
  /\ Patient \subseteq Fuzzers
  /\ Conns = Fuzzers \X (1..Runs) \X (0..(MAX_TRIES + 1))
  /\ Owner = [c \in Conns |-> c[1]]

VARIABLES
  afl,       \* what each fuzzer does
  run,       \* the number of its current run
  want,      \* the input of its current run
  tgt,       \* where its target process is in interface.c, or how it exited
  try,       \* interface.c's try
  got,       \* interface.c's nfuzzer_status
  merged,    \* connections whose bitmap went into trace_bits in this run
  fault,     \* run_target's return value for the last run
  asked      \* the input each connection was opened for

bridgeVars == <<afl, run, want, tgt, try, got, merged, fault, asked>>
allVars == <<vars, bridgeVars>>

\* The threads and the application, left alone by a step of a fuzzer.
serverVars == <<backlog, requestQueue, srv, handlerVars, doneVars, appVars>>

Exited == {"exit0", "exit1", "abort"}

BridgeInit ==
  /\ Init
  /\ file = [f \in Fuzzers |-> Absent]
  /\ afl = [f \in Fuzzers |-> "idle"]
  /\ run = [f \in Fuzzers |-> 1]
  /\ want \in [Fuzzers -> Inputs] /\ \A f \in Fuzzers : want[f] \in Corpus[f]
  /\ tgt = [f \in Fuzzers |-> "none"]
  /\ try = [f \in Fuzzers |-> 0]
  /\ got = [f \in Fuzzers |-> "none"]
  /\ merged = [f \in Fuzzers |-> {}]
  /\ fault = [f \in Fuzzers |-> "none"]
  /\ asked = [c \in Conns |-> NoBody]

\* The connection of the current attempt.
Mine(f) == Conn(f, run[f], try[f])

-----------------------------------------------------------------------------
(* afl-fuzz: write_to_testcase and run_target. *)

Unlink(f) ==
  /\ afl[f] = "idle"
  /\ run[f] <= Runs
  /\ \E i \in Corpus[f] : want' = [want EXCEPT ![f] = i]
  /\ file' = [file EXCEPT ![f] = Absent]
  /\ afl' = [afl EXCEPT ![f] = "unlinked"]
  /\ UNCHANGED <<sockVars, serverVars, run, tgt, try, got, merged, fault, asked>>

Create(f) ==
  /\ afl[f] = "unlinked"
  /\ file' = [file EXCEPT ![f] = Torn]
  /\ afl' = [afl EXCEPT ![f] = "created"]
  /\ UNCHANGED <<sockVars, serverVars, run, want, tgt, try, got, merged, fault,
                 asked>>

Fill(f) ==
  /\ afl[f] = "created"
  /\ file' = [file EXCEPT ![f] = want[f]]
  /\ afl' = [afl EXCEPT ![f] = "written"]
  /\ UNCHANGED <<sockVars, serverVars, run, want, tgt, try, got, merged, fault,
                 asked>>

\* Mutant: trace_bits keeps what the previous run left in it.
StartKeepsTrace(f) ==
  /\ afl[f] = "written"
  /\ afl' = [afl EXCEPT ![f] = "running"]
  /\ tgt' = [tgt EXCEPT ![f] = "connect"]
  /\ try' = [try EXCEPT ![f] = 0]
  /\ got' = [got EXCEPT ![f] = "none"]
  /\ UNCHANGED <<vars, run, want, merged, fault, asked>>

\* trace_bits is cleared, the fork server forks, the timer is armed.
Start(f) ==
  /\ afl[f] = "written"
  /\ afl' = [afl EXCEPT ![f] = "running"]
  /\ tgt' = [tgt EXCEPT ![f] = "connect"]
  /\ try' = [try EXCEPT ![f] = 0]
  /\ got' = [got EXCEPT ![f] = "none"]
  /\ merged' = [merged EXCEPT ![f] = {}]
  /\ UNCHANGED <<vars, run, want, fault, asked>>

\* The run is over: how it ended is read, the timer is disarmed.
Ended(f, verdict) ==
  /\ fault' = [fault EXCEPT ![f] = verdict]
  /\ afl' = [afl EXCEPT ![f] = "idle"]
  /\ run' = [run EXCEPT ![f] = @ + 1]
  /\ tgt' = [tgt EXCEPT ![f] = "none"]
  /\ UNCHANGED <<want, try, got, merged, asked>>

\* Only a signal is a crash: exit(1) counts as a run without fault.
Reap(f) ==
  /\ afl[f] = "running"
  /\ tgt[f] \in Exited
  /\ Ended(f, IF tgt[f] = "abort" THEN "FAULT_CRASH" ELSE "FAULT_NONE")
  /\ UNCHANGED vars

\* Mutant: a socket is closed that was never connected.
ClosePeerUnchecked(c) ==
  IF c \in Conns
  THEN peer' = [peer EXCEPT ![c] = "closed"] ELSE UNCHANGED peer

\* The end of a process closes its socket, if it has one open.
ClosePeer(c) ==
  IF c \in Conns /\ peer[c] = "open"
  THEN peer' = [peer EXCEPT ![c] = "closed"] ELSE UNCHANGED peer

\* Mutant: the timer does not cover the wait for the status byte.
TimeoutMissesRead(f) ==
  /\ afl[f] = "running"
  /\ tgt[f] \notin Exited \cup {"status"}
  /\ ClosePeer(Mine(f))
  /\ Ended(f, "FAULT_TMOUT")
  /\ UNCHANGED <<sent, content, file, sock, serverVars>>

\* SIGALRM: the target is killed and its socket closed with it.
Timeout(f) ==
  /\ f \notin Patient
  /\ afl[f] = "running"
  /\ tgt[f] \notin Exited
  /\ ClosePeer(Mine(f))
  /\ Ended(f, "FAULT_TMOUT")
  /\ UNCHANGED <<sent, content, file, sock, serverVars>>

-----------------------------------------------------------------------------
(* interface.c: the loop that tries to get an answer. *)

Goto(f, step) ==
  /\ tgt' = [tgt EXCEPT ![f] = step]
  /\ UNCHANGED <<afl, run, want, fault>>

\* DIE: the process ends with exit(1) and its socket closes.
Die(f) ==
  /\ Goto(f, "exit1")
  /\ ClosePeer(Mine(f))
  /\ UNCHANGED <<sent, content, file, sock, serverVars, try, got, merged, asked>>

Connect(f) ==
  /\ tgt[f] = "connect"
  /\ PeerConnect(Mine(f))
  /\ asked' = [asked EXCEPT ![Mine(f)] = want[f]]
  /\ Goto(f, "send")
  /\ UNCHANGED <<try, got, merged>>

\* No server listens any more, or the system refuses the socket.
ConnectFails(f) ==
  /\ tgt[f] = "connect"
  /\ Die(f)

Send(f) ==
  /\ tgt[f] = "send"
  /\ PeerSend(Mine(f))
  /\ Goto(f, IF sent[Mine(f)] = BodyChunks THEN "status" ELSE "send")
  /\ UNCHANGED <<try, got, merged, asked>>

\* A write on a connection the server has closed.
SendFails(f) ==
  /\ tgt[f] = "send"
  /\ sock[Mine(f)] = "shut"
  /\ Die(f)

\* The status byte, or the end of a connection closed before it was read.
ReadStatus(f) ==
  /\ tgt[f] = "status"
  /\ \/ /\ status[Mine(f)] # "none"
        /\ got' = [got EXCEPT ![f] = status[Mine(f)]]
        /\ Goto(f, "bitmap")
     \/ /\ sock[Mine(f)] = "shut"
        /\ got' = [got EXCEPT ![f] = "COMM_ERROR"]
        /\ Goto(f, "close")
  /\ UNCHANGED <<vars, try, merged, asked>>

\* Mutant: the bitmap is added to trace_bits as it arrives, before it is
\* known to be complete.
ReadBitmapEager(f) ==
  /\ tgt[f] = "bitmap"
  /\ merged' = [merged EXCEPT ![f] = @ \cup {Mine(f)}]
  /\ \/ got[f] # "QUEUE_FULL" /\ UNCHANGED got
     \/ got' = [got EXCEPT ![f] = "COMM_ERROR"]
  /\ Goto(f, "close")
  /\ UNCHANGED <<vars, try, asked>>

\* Eight reads of 1024 bytes; one that returns less makes the whole attempt a
\* COMM_ERROR.  Nothing follows the byte of a rejected connection.
ReadBitmap(f) ==
  /\ tgt[f] = "bitmap"
  /\ \/ /\ got[f] # "QUEUE_FULL"
        /\ merged' = [merged EXCEPT ![f] = @ \cup {Mine(f)}]
        /\ UNCHANGED got
     \/ /\ got' = [got EXCEPT ![f] = "COMM_ERROR"]
        /\ UNCHANGED merged
  /\ Goto(f, "close")
  /\ UNCHANGED <<vars, try, asked>>

\* cont: close, then give up, try again, or end as the status says.
Retried == {"QUEUE_FULL", "COMM_ERROR"}

GiveUp(f) ==
  /\ tgt[f] = "close"
  /\ try[f] > MAX_TRIES
  /\ Die(f)

\* Mutant: the number of tries is not looked at.
TryAgainForEver(f) ==
  /\ tgt[f] = "close"
  /\ got[f] \in Retried
  /\ ClosePeer(Mine(f))
  /\ try' = [try EXCEPT ![f] = @ + 1]
  /\ Goto(f, "connect")
  /\ UNCHANGED <<sent, content, file, sock, serverVars, got, merged, asked>>

TryAgain(f) ==
  /\ tgt[f] = "close"
  /\ try[f] <= MAX_TRIES
  /\ got[f] \in Retried
  /\ ClosePeer(Mine(f))
  /\ try' = [try EXCEPT ![f] = @ + 1]
  /\ Goto(f, "connect")
  /\ UNCHANGED <<sent, content, file, sock, serverVars, got, merged, asked>>

\* Mutant: every status but CRASH ends the loop normally.
FinishOnAnything(f) ==
  /\ tgt[f] = "close"
  /\ try[f] <= MAX_TRIES
  /\ ClosePeer(Mine(f))
  /\ Goto(f, IF got[f] = "CRASH" THEN "abort" ELSE "exit0")
  /\ UNCHANGED <<sent, content, file, sock, serverVars, try, got, merged, asked>>

Finish(f) ==
  /\ tgt[f] = "close"
  /\ try[f] <= MAX_TRIES
  /\ got[f] \notin Retried
  /\ ClosePeer(Mine(f))
  /\ Goto(f, IF got[f] = "CRASH" THEN "abort" ELSE "exit0")
  /\ UNCHANGED <<sent, content, file, sock, serverVars, try, got, merged, asked>>

-----------------------------------------------------------------------------

Afl(f) == Unlink(f) \/ Create(f) \/ Fill(f) \/ Start(f) \/ Reap(f) \/ Timeout(f)

Target(f) ==
  \/ Connect(f) \/ ConnectFails(f)
  \/ Send(f) \/ SendFails(f)
  \/ ReadStatus(f) \/ ReadBitmap(f)
  \/ GiveUp(f) \/ TryAgain(f) \/ Finish(f)

Server ==
  /\ RunServer \/ DoFuzzerRuns \/ \E b \in Bodies : LateCoverage(b)
  /\ UNCHANGED bridgeVars

BridgeNext == Server \/ \E f \in Fuzzers : Afl(f) \/ Target(f)

BridgeSpec == BridgeInit /\ [][BridgeNext]_allVars

\* afl-fuzz goes on; its timer fires if the target takes too long.
BridgeFairSpec == BridgeSpec /\ \A f \in Fuzzers : WF_allVars(Afl(f))

-----------------------------------------------------------------------------
(* Properties. *)

\* The variables of the two C programs keep their types.
BridgeTypeOK ==
  /\ afl \in [Fuzzers -> {"idle", "unlinked", "created", "written", "running"}]
  /\ run \in [Fuzzers -> 1..(Runs + 1)]
  /\ want \in [Fuzzers -> Inputs]
  /\ tgt \in [Fuzzers -> {"none", "connect", "send", "status", "bitmap", "close"}
                           \cup Exited]
  /\ try \in [Fuzzers -> 0..(MAX_TRIES + 1)]
  /\ got \in [Fuzzers -> Statuses \cup {"none"}]
  /\ merged \in [Fuzzers -> SUBSET Conns]
  /\ fault \in [Fuzzers -> {"none", "FAULT_NONE", "FAULT_CRASH", "FAULT_TMOUT"}]
  /\ asked \in [Conns -> Inputs \cup {NoBody}]

\* A target that exits 0 or aborts does so for what the application did with
\* the input of this very run: the server has read the file (or the data) of
\* this run although it reads it late, and although a killed run's request may
\* still be in its queue.
VerdictIsOwn ==
  \A f \in Fuzzers :
    /\ tgt[f] = "exit0" => body[Mine(f)] = want[f] /\ outcome[Mine(f)] = "ok"
    /\ tgt[f] = "abort" => body[Mine(f)] = want[f]
                             /\ outcome[Mine(f)] \in {"http5xx", "exception"}

\* What a run merges into trace_bits is coverage of its own input, or of a body
\* whose post ended in an exception, unless the drain met a branch scan or memory
\* that was not clear: no input is credited with the coverage of another run
\* because that run was killed, retried or handled late.
TraceIsOwn ==
  \A f \in Fuzzers : afl[f] = "running" =>
    \A c \in merged[f] :
      Foreign \notin mem[c] => mem[c] \subseteq {want[f]} \cup Escaped

\* Of all attempts of a run that were posted to the application at most one is
\* counted in trace_bits: a retry never doubles the hit counts.
MergedOnce ==
  \A f \in Fuzzers : afl[f] = "running" =>
    \A c, d \in merged[f] :
      outcome[c] # "none" /\ outcome[d] # "none" => c = d

-----------------------------------------------------------------------------
(* The inductive invariant behind the properties above. *)

\* A fuzzer with a live target is in one of its runs.
InRun == \A f \in Fuzzers :
           /\ tgt[f] # "none" => afl[f] = "running"
           /\ afl[f] # "idle" => run[f] <= Runs

\* Connections are opened in order: by earlier runs, by earlier tries of the
\* current run, and by the current try once it has connected.
Opened(c) ==
  LET f == c[1]
  IN \/ c[2] < run[f]
     \/ /\ c[2] = run[f] /\ afl[f] = "running"
        /\ c[3] < try[f] \/ (c[3] = try[f] /\ tgt[f] # "connect")

InOrder == \A c \in Conns : peer[c] # "unborn" => Opened(c)

\* Nothing was sent or posted before its time.
Posted ==
  \A c \in Conns :
    /\ peer[c] = "unborn" => content[c] = NoBody
    /\ sock[c] \in {"none", "backlog", "queued"} => body[c] = NoBody
    /\ outcome[c] # "none" => body[c] \in Bodies

\* While a run goes on its file holds its input, and so does all that was read
\* for one of its connections.
OfRun(f) == {c \in Conns : c[1] = f /\ c[2] = run[f]}

FileOwn ==
  \A f \in Fuzzers :
    /\ afl[f] \in {"written", "running"} => file[f] = want[f]
    /\ afl[f] = "running" =>
         \A c \in OfRun(f) : {content[c], body[c]} \subseteq {NoBody, want[f]}

\* What interface.c holds as a status is the one of its connection, unless the
\* connection has failed.
GotOwn ==
  \A f \in Fuzzers :
    /\ tgt[f] = "bitmap" => status[Mine(f)] # "none" /\ got[f] = status[Mine(f)]
    /\ tgt[f] = "close" => got[f] \in Retried \/ (got[f] # "none" /\ got[f] = status[Mine(f)])
    /\ tgt[f] = "exit0" => status[Mine(f)] = "SUCCESS"
    /\ tgt[f] = "abort" => status[Mine(f)] = "CRASH"

\* A bitmap that was merged belongs to a connection whose post did not happen,
\* or to the current one, which then ends the run.
MergedLast ==
  \A f \in Fuzzers : afl[f] = "running" =>
    /\ merged[f] \subseteq OfRun(f)
    /\ \A c \in merged[f] :
         \/ status[c] \in Retried
         \/ c = Mine(f) /\ tgt[f] \in Exited
         \/ c = Mine(f) /\ tgt[f] = "close" /\ got[f] \notin Retried

BridgeInv ==
  BridgeTypeOK /\ InRun /\ InOrder /\ Posted /\ FileOwn /\ GotOwn /\ MergedLast

-----------------------------------------------------------------------------

\* Every run is ended, by its result or by the timer, even if the server has
\* exited or its handler thread has died.
RunsEnd == \A f \in Fuzzers : (afl[f] = "running") ~> (afl[f] = "idle")

\* With both threads of the server running, every connection leaves the server
\* in the end, answered or dropped, also one whose target was killed long ago.
\* Only three things keep a request for ever: the handler thread is dead, one post
\* is never answered, or one bitmap never comes; nothing is assumed of the
\* application or the bitmap server.  A target that stops in the middle of its
\* request does not block the others, because afl-fuzz's timer kills it.
RequestsEnd ==
  WF_allVars(RunServer /\ UNCHANGED bridgeVars)
    /\ WF_allVars(HandlerSteps /\ UNCHANGED bridgeVars)
  => \/ <>[](hpc = "dead") \/ <>[](hpc = "post") \/ <>[](hpc = "bitmap")
     \/ \A c \in Conns : (sock[c] \in LiveSocks) ~> (sock[c] \notin LiveSocks)

\* interface.c:338-342: the loop gives up only when the last try has failed.
GivesUpOnFailure ==
  \A f \in Fuzzers :
    tgt[f] = "close" /\ try[f] > MAX_TRIES => got[f] \in Retried
=============================================================================
