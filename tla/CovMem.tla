------------------------------- MODULE CovMem -------------------------------
(***************************************************************************)
(* The coverage memory of Mem.java: one file, mapped by the instrumented   *)
(* application, which records edges and branches in it, and by the bitmap  *)
(* server CovSend, which drains the edges into an answer for Nfuzzer.      *)
(*                                                                         *)
(* Layout: a byte per edge, two bytes for the previous location, a byte    *)
(* per branch, two bytes for the number of branches.  BYTE is 256 in the   *)
(* code and MAP 65536.                                                     *)
(*                                                                         *)
(* In the application coverage() runs in one thread at a time.  In CovSend *)
(* every connection has a thread; the threads share the position of one    *)
(* mapBuf, which only a FileLock on the bytes MEANT to be copied guards.   *)
(* A FileLock makes the other process wait, and another thread of the      *)
(* same process fail.                                                      *)
(***************************************************************************)
EXTENDS Naturals, Sequences, FiniteSets

CONSTANTS
  BYTE,       \* the values of a byte
  XorOf,      \* exclusive or of two locations
  Ids,        \* the locations instrumented in the application
  Locations,  \* how often MethodTransformer has instrumented
  Old,        \* edges an earlier session has left in the file
  Threads     \* of CovSend

MAP == BYTE * BYTE
EDGES == 0..(MAP - 1)
PREV == MAP
BRANCH == MAP + 2
SUM == 2 * MAP + 2
SIZE == 2 * MAP + 4

ASSUME CovAssumption ==
  /\ BYTE \in Nat /\ BYTE > 3
  /\ XorOf \in [EDGES \X EDGES -> EDGES]
  /\ Ids \subseteq EDGES /\ Old \subseteq EDGES
  /\ Locations \in Nat

VARIABLES
  mem,        \* the file
  app,        \* the call of coverage() in the application
  position,   \* mapBuf.position in CovSend
  th,         \* the threads of CovSend
  sent,       \* the bitmap Nfuzzer got last
  overlapped  \* history: a request met a branch scan still running

vars == <<mem, app, position, th, sent, overlapped>>

Addresses == 0..(SIZE - 1)

\* A byte that is positive, as Java's are signed.
Marked(from) == {i \in EDGES : mem[from + i] \in 1..(BYTE \div 2 - 1)}

\* write_TwoBytes: the high byte first, the number cut to two bytes.
HighByte(n) == (n \div BYTE) % BYTE
LowByte(n) == n % BYTE

read_TwoBytes(at) == mem[at] * BYTE + mem[at + 1]

Idle == [pc |-> "idle", op |-> 0, from |-> 0, data |-> {}]

Begin(op) == [pc |-> "lock", op |-> op, from |-> 0, data |-> {}]

Quiet == [pc |-> "idle", id |-> 0, last |-> 0]

\* CovSend.main has read the number of branches, cleared them, and listens.
Init ==
  /\ mem = [a \in Addresses |->
              IF a \in Old THEN 1
              ELSE IF a = SUM THEN HighByte(Locations)
              ELSE IF a = SUM + 1 THEN LowByte(Locations) ELSE 0]
  /\ app = Quiet
  /\ position = 0
  /\ th = [t \in Threads |-> Idle]
  /\ sent = {}
  /\ overlapped = FALSE

-----------------------------------------------------------------------------
(* The calls of CovSendThread.run on Mem, in their order. *)

Call(zero, at, len) == [zero |-> zero, at |-> at, len |-> len]

\* Mutant: the edges are cleared before they are read.
OpsClearFirst ==
  <<Call(TRUE, 0, MAP), Call(FALSE, 0, MAP), Call(TRUE, PREV, 2),
    Call(FALSE, BRANCH, MAP)>>

\* Mutant: the clearing takes the branches with it.
OpsClearAll ==
  <<Call(FALSE, 0, MAP), Call(TRUE, 0, SUM), Call(TRUE, PREV, 2),
    Call(FALSE, BRANCH, MAP)>>

Ops ==
  <<Call(FALSE, 0, MAP), Call(TRUE, 0, MAP), Call(TRUE, PREV, 2),
    Call(FALSE, BRANCH, MAP)>>

Scan == 4

Op(t) == Ops[th[t].op]

Locked(t) == th[t].pc \in {"position", "copy", "advance"}

Overlaps(at, len, t) ==
  Locked(t) /\ at < Op(t).at + Op(t).len /\ Op(t).at < at + len

\* The thread's next call, with the data it has now.
Continue(t, data) ==
  th' = [th EXCEPT ![t] =
           CASE th[t].op = 3 -> [pc |-> "send", op |-> 3, from |-> 0, data |-> data]
             [] th[t].op = Scan -> Idle
             [] OTHER -> [pc |-> "lock", op |-> th[t].op + 1, from |-> 0, data |-> data]]

\* A read that fails gives zeros, a write that fails is left out.
Excepted(t) == Continue(t, IF th[t].op = 1 THEN {} ELSE th[t].data)

\* Nfuzzer has one handler thread: it asks when it has the last answer.
Request(t) ==
  /\ th[t] = Idle
  /\ \A u \in Threads : th[u] = Idle \/ th[u].op = Scan
  /\ th' = [th EXCEPT ![t] = Begin(1)]
  /\ overlapped' = (overlapped \/ \E u \in Threads : th[u] # Idle)
  /\ UNCHANGED <<mem, app, position, sent>>

Lock(t) ==
  /\ th[t].pc = "lock"
  /\ \A u \in Threads \ {t} : ~Overlaps(Op(t).at, Op(t).len, u)
  /\ th' = [th EXCEPT ![t].pc = "position"]
  /\ UNCHANGED <<mem, app, position, sent, overlapped>>

\* OverlappingFileLockException
LockRefused(t) ==
  /\ th[t].pc = "lock"
  /\ \E u \in Threads \ {t} : Overlaps(Op(t).at, Op(t).len, u)
  /\ Excepted(t)
  /\ UNCHANGED <<mem, app, position, sent, overlapped>>

Position(t) ==
  /\ th[t].pc = "position"
  /\ position' = Op(t).at
  /\ th' = [th EXCEPT ![t].pc = "copy"]
  /\ UNCHANGED <<mem, app, sent, overlapped>>

\* get and put copy from where the position is now, ...
Copy(t) ==
  /\ th[t].pc = "copy" /\ position + Op(t).len <= SIZE
  /\ mem' = IF Op(t).zero
            THEN [a \in Addresses |->
                    IF a \in position..(position + Op(t).len - 1) THEN 0 ELSE mem[a]]
            ELSE mem
  /\ th' = [th EXCEPT ![t].pc = "advance", ![t].from = position,
                      ![t].data = IF th[t].op = 1 THEN Marked(position) ELSE @]
  /\ UNCHANGED <<app, position, sent, overlapped>>

\* Mutant: the exception ends the thread.
CopyFailsForGood(t) ==
  /\ th[t].pc = "copy" /\ position + Op(t).len > SIZE
  /\ th' = [th EXCEPT ![t] = Idle]
  /\ UNCHANGED <<mem, app, position, sent, overlapped>>

\* BufferUnderflowException, BufferOverflowException
CopyFails(t) ==
  /\ th[t].pc = "copy" /\ position + Op(t).len > SIZE
  /\ Excepted(t)
  /\ UNCHANGED <<mem, app, position, sent, overlapped>>

\* ... and then set it behind what they have copied.
Advance(t) ==
  /\ th[t].pc = "advance"
  /\ position' = th[t].from + Op(t).len
  /\ Continue(t, th[t].data)
  /\ UNCHANGED <<mem, app, sent, overlapped>>

\* The bitmap is sent before the branches are counted.
Send(t) ==
  /\ th[t].pc = "send"
  /\ sent' = th[t].data
  /\ th' = [th EXCEPT ![t] = Begin(Scan)]
  /\ UNCHANGED <<mem, app, position, overlapped>>

\* Nfuzzer has gone.
SendFails(t) ==
  /\ th[t].pc = "send"
  /\ th' = [th EXCEPT ![t] = Idle]
  /\ UNCHANGED <<mem, app, position, sent, overlapped>>

Thread(t) ==
  \/ Lock(t) \/ LockRefused(t) \/ Position(t) \/ Copy(t) \/ CopyFails(t)
  \/ Advance(t) \/ Send(t) \/ SendFails(t)

-----------------------------------------------------------------------------
(* coverage(id) in the application; each of its calls waits for CovSend's   *)
(* locks and then runs alone.                                               *)

Free(at, len) == \A t \in Threads : ~Overlaps(at, len, t)

ReadPrev ==
  /\ app.pc = "idle" /\ Free(PREV, 2)
  /\ \E id \in Ids : app' = [pc |-> "prev", id |-> id, last |-> read_TwoBytes(PREV)]
  /\ UNCHANGED <<mem, position, th, sent, overlapped>>

WritePrev ==
  /\ app.pc = "prev" /\ Free(PREV, 2)
  /\ mem' = [mem EXCEPT ![PREV] = HighByte(app.id \div 2),
                        ![PREV + 1] = LowByte(app.id \div 2)]
  /\ app' = [app EXCEPT !.pc = "edge"]
  /\ UNCHANGED <<position, th, sent, overlapped>>

WriteEdge ==
  LET write_area == XorOf[app.id, app.last] IN
  /\ app.pc = "edge" /\ Free(write_area, 1)
  /\ mem' = [mem EXCEPT ![write_area] = 1]
  /\ app' = [app EXCEPT !.pc = "branch"]
  /\ UNCHANGED <<position, th, sent, overlapped>>

WriteBranch ==
  /\ app.pc = "branch" /\ Free(BRANCH + app.id, 1)
  /\ mem' = [mem EXCEPT ![BRANCH + app.id] = 1]
  /\ app' = Quiet
  /\ UNCHANGED <<position, th, sent, overlapped>>

Application == ReadPrev \/ WritePrev \/ WriteEdge \/ WriteBranch

Next == (\E t \in Threads : Request(t) \/ Thread(t)) \/ Application

Spec == Init /\ [][Next]_vars

\* The threads of CovSend run; nothing is assumed of the application.
FairSpec == Spec /\ \A t \in Threads : WF_vars(Thread(t))

-----------------------------------------------------------------------------
(* Properties. *)

\* While no request meets a running scan, Mem and CovSend keep the promise of
\* EdgeBitmap, wherever the application is in coverage().
Clearing(t) ==
  \/ th[t].op = 1 /\ th[t].pc = "advance"
  \/ th[t].op = 2 /\ th[t].pc # "advance"

Cleared(t) == th[t].op = 3 \/ (th[t].op = 2 /\ th[t].pc = "advance")

Stage ==
  IF \E t \in Threads : Clearing(t) THEN "clearing"
  ELSE IF \E t \in Threads : Cleared(t) THEN "cleared" ELSE "open"

Promise == INSTANCE EdgeBitmap WITH
  Edges <- EDGES,
  edges <- IF Stage = "clearing" THEN {} ELSE Marked(0),
  stage <- Stage,
  taken <- UNION {th[t].data : t \in {u \in Threads : Clearing(u) \/ Cleared(u)}},
  sent <- sent,
  broken <- overlapped

PromiseKept == Promise!Spec

\* The "overall branch coverage" CovSend prints counts every branch ever run:
\* draining the edges forgets none of them.
BranchesGrow ==
  [][~overlapped => \A i \in EDGES : mem[BRANCH + i] # 0 => mem'[BRANCH + i] # 0]_vars

\* What CovSend sends is edge coverage: only edges this application has.
AppEdges == {XorOf[id, last] : id \in Ids, last \in {0} \cup {i \div 2 : i \in Ids}}

SentIsEdges == sent \subseteq AppEdges \cup Old

\* Every request reaches its answer, whatever a lock, the position or another
\* thread does to its calls.
Replied == \A t \in Threads : (th[t].op \in 1..3) ~> (th[t].pc = "send")
=============================================================================
