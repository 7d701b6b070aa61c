---------------------------- MODULE CovMemProofs ----------------------------
(* Mem.java and CovSend.java keep the promise of EdgeBitmap, and no drain     *)
(* forgets a branch, as long as no request meets a running branch scan.       *)
EXTENDS CovMem, TLAPS

\* The sizes, without their products.
LEMMA Sizes == MAP \in Nat /\ MAP >= 4 /\ EDGES = 0..(MAP - 1)
<1>1. BYTE \in Nat /\ BYTE >= 2
  BY CovAssumption
<1>2. MAP \in Nat /\ MAP >= 4
  BY <1>1 DEF MAP
<1> QED BY <1>2 DEF EDGES

\* Two bytes make a location.
LEMMA TwoBytes ==
  ASSUME NEW h \in 0..(BYTE - 1), NEW l \in 0..(BYTE - 1)
  PROVE  h * BYTE + l \in EDGES
<1>1. BYTE \in Nat /\ BYTE >= 2
  BY CovAssumption
<1>2. h * BYTE \in Nat /\ h * BYTE <= (BYTE - 1) * BYTE
  BY <1>1
<1>3. (BYTE - 1) * BYTE = BYTE * BYTE - BYTE
  BY <1>1
<1> QED BY <1>1, <1>2, <1>3 DEF EDGES, MAP

\* A number is written as two bytes.
LEMMA BytesOf ==
  ASSUME NEW n \in Nat
  PROVE  HighByte(n) \in 0..(BYTE - 1) /\ LowByte(n) \in 0..(BYTE - 1)
<1>1. BYTE \in Nat /\ BYTE >= 2
  BY CovAssumption
<1>2. n \div BYTE \in Nat
  BY <1>1
<1> QED BY <1>1, <1>2 DEF HighByte, LowByte

-----------------------------------------------------------------------------
(* The invariant: one thread at a time, and the position where it put it. *)

Record == [pc : {"idle", "lock", "position", "copy", "advance", "send"}, op : 0..4,
           from : Nat, data : SUBSET EDGES]

Working(r) ==
  /\ r.pc = "send" => r.op = 3
  /\ r.pc = "idle" => r = Idle
  /\ r.pc # "idle" => r.op \in 1..4

AppOK ==
  /\ app.pc \in {"idle", "prev", "edge", "branch"}
  /\ app.pc # "idle" => app.id \in Ids /\ app.last \in EDGES
  /\ app \in [pc : {"idle", "prev", "edge", "branch"}, id : Nat, last : Nat]

OneByOne ==
  /\ th \in [Threads -> Record]
  /\ position \in Nat
  /\ \A t \in Threads :
       /\ Working(th[t])
       /\ th[t].pc = "copy" => position = Op(t).at
       /\ th[t].pc = "advance" => th[t].from = Op(t).at
  /\ \A t, u \in Threads : th[t].pc # "idle" /\ th[u].pc # "idle" => t = u

CovInv ==
  /\ overlapped \in BOOLEAN
  /\ ~overlapped =>
       /\ mem \in [Addresses -> 0..(BYTE - 1)]
       /\ AppOK
       /\ OneByOne

LEMMA OpFacts ==
  /\ Ops[1] = Call(FALSE, 0, MAP) /\ Ops[2] = Call(TRUE, 0, MAP)
  /\ Ops[3] = Call(TRUE, PREV, 2) /\ Ops[4] = Call(FALSE, BRANCH, MAP)
  /\ \A k \in 1..4 : /\ Ops[k].at \in Nat /\ Ops[k].len \in Nat /\ Ops[k].len > 0
                     /\ Ops[k].at + Ops[k].len <= SIZE
  BY Sizes DEF Ops, Call, PREV, BRANCH, SIZE

LEMMA CovInit == Init => CovInv
<1> SUFFICES ASSUME Init PROVE CovInv
  OBVIOUS
<1>1. BYTE \in Nat /\ BYTE >= 2 /\ Locations \in Nat
  BY CovAssumption
<1>2. mem \in [Addresses -> 0..(BYTE - 1)]
  BY <1>1, BytesOf DEF Init
<1>3. AppOK
  BY DEF Init, Quiet, AppOK
<1>4. OneByOne
  BY DEF Init, Idle, OneByOne, Record, Working
<1> QED BY <1>2, <1>3, <1>4 DEF Init, CovInv

\* The thread that works is alone: no lock is refused and no copy fails.
LEMMA AloneThere ==
  ASSUME OneByOne, NEW t \in Threads, th[t].pc # "idle"
  PROVE  /\ \A u \in Threads \ {t} : th[u] = Idle /\ ~Locked(u)
         /\ th[t].op \in 1..4
         /\ ~LockRefused(t) /\ ~CopyFails(t)
<1>1. \A u \in Threads \ {t} : th[u] = Idle /\ ~Locked(u)
  BY DEF OneByOne, Working, Locked, Idle
<1>2. th[t].op \in 1..4
  BY DEF OneByOne, Working
<1>3. ~LockRefused(t)
  BY <1>1 DEF LockRefused, Overlaps
<1>4. ASSUME th[t].pc = "copy" PROVE position + Op(t).len <= SIZE
  <2>1. position = Op(t).at
    BY <1>4 DEF OneByOne
  <2>2. Op(t).at + Op(t).len <= SIZE
    BY <1>2, OpFacts DEF Op
  <2> QED BY <2>1, <2>2
<1>5. position + Op(t).len \in Nat /\ SIZE \in Nat
  <2>1. position \in Nat
    BY DEF OneByOne
  <2>2. Op(t).len \in Nat
    BY <1>2, OpFacts DEF Op
  <2>3. SIZE \in Nat
    BY Sizes DEF SIZE
  <2> QED BY <2>1, <2>2, <2>3
<1>6. ~CopyFails(t)
  BY <1>4, <1>5 DEF CopyFails
<1> QED BY <1>1, <1>2, <1>3, <1>6

\* What a thread's next call is.
LEMMA Continues ==
  ASSUME OneByOne, NEW t \in Threads, th[t].pc = "advance", Continue(t, th[t].data)
  PROVE  /\ th' = [th EXCEPT ![t] = th'[t]]
         /\ th'[t] \in Record /\ Working(th'[t])
         /\ th[t].op = 3 => th'[t].pc = "send" /\ th'[t].op = 3 /\ th'[t].data = th[t].data
         /\ th[t].op = 4 => th'[t] = Idle
         /\ th[t].op \in {1, 2} => /\ th'[t].pc = "lock" /\ th'[t].op = th[t].op + 1
                                  /\ th'[t].data = th[t].data
<1>1. th[t] \in Record /\ th[t].op \in 1..4
  BY DEF OneByOne, Working
<1>2. CASE th[t].op = 3
  <2>1. th' = [th EXCEPT ![t] = [pc |-> "send", op |-> 3, from |-> 0, data |-> th[t].data]]
    BY <1>2 DEF Continue, Scan
  <2>2. th'[t] = [pc |-> "send", op |-> 3, from |-> 0, data |-> th[t].data]
    BY <2>1 DEF OneByOne
  <2>3. th[t].data \in SUBSET EDGES
    BY <1>1 DEF Record
  <2>4. th'[t] \in Record /\ Working(th'[t])
    BY <2>2, <2>3 DEF Record, Working
  <2>5. th' = [th EXCEPT ![t] = th'[t]]
    BY <2>1, <2>2
  <2> QED BY <1>2, <2>2, <2>4, <2>5
<1>3. CASE th[t].op = 4
  BY <1>1, <1>3 DEF Continue, Scan, Idle, OneByOne, Record, Working
<1>4. CASE th[t].op \in {1, 2}
  BY <1>1, <1>4 DEF Continue, Scan, OneByOne, Record, Working
<1> QED BY <1>1, <1>2, <1>3, <1>4

\* Any step of the only thread leaves one thread at most.
LEMMA OneThread ==
  ASSUME OneByOne, NEW t \in Threads, \A u \in Threads \ {t} : th[u].pc = "idle",
         th' = [th EXCEPT ![t] = th'[t]], th'[t] \in Record, Working(th'[t]),
         position' \in Nat,
         th'[t].pc = "copy" => position' = Ops[th'[t].op].at,
         th'[t].pc = "advance" => th'[t].from = Ops[th'[t].op].at
  PROVE  OneByOne'
<1>1. th' \in [Threads -> Record]
  BY DEF OneByOne
<1>2. \A u \in Threads \ {t} : th'[u] = th[u] /\ Working(th[u])
  BY DEF OneByOne
<1>3. \A u \in Threads : /\ Working(th'[u])
                         /\ th'[u].pc = "copy" => position' = Ops[th'[u].op].at
                         /\ th'[u].pc = "advance" => th'[u].from = Ops[th'[u].op].at
  BY <1>2
<1>4. \A u, v \in Threads : th'[u].pc # "idle" /\ th'[v].pc # "idle" => u = v
  BY <1>2
<1> QED BY <1>1, <1>3, <1>4 DEF OneByOne, Op, Working

-----------------------------------------------------------------------------
(* Steps keep the invariant. *)

\* The addresses of the file, by its parts.
LEMMA Layout ==
  /\ \A i \in EDGES : i \in Addresses \ {PREV, PREV + 1}
  /\ \A i \in EDGES : BRANCH + i \in Addresses \ {PREV, PREV + 1}
  /\ \A i, j \in EDGES : BRANCH + i # j
  /\ PREV \in Addresses /\ PREV + 1 \in Addresses
  BY Sizes DEF Addresses, PREV, BRANCH, SIZE

\* What the calls of coverage() write, and where.
LEMMA AppSteps ==
  ASSUME mem \in [Addresses -> 0..(BYTE - 1)], AppOK, Application
  PROVE  /\ mem' \in [Addresses -> 0..(BYTE - 1)] /\ AppOK'
         /\ UNCHANGED <<position, th, sent, overlapped>>
         /\ \A i \in EDGES : mem[BRANCH + i] # 0 => mem'[BRANCH + i] # 0
         /\ \/ \A i \in EDGES : mem'[i] = mem[i]
            \/ \E e \in EDGES : mem'[e] = 1 /\ \A i \in EDGES \ {e} : mem'[i] = mem[i]
<1>1. BYTE \in Nat /\ BYTE >= 2 /\ 1 \in 0..(BYTE - 1) /\ 0 \in 0..(BYTE - 1)
  BY CovAssumption
<1>2. Ids \subseteq EDGES /\ EDGES \subseteq Nat
  BY CovAssumption, Sizes
<1>3. CASE ReadPrev
  <2>1. PICK id \in Ids : app' = [pc |-> "prev", id |-> id, last |-> read_TwoBytes(PREV)]
    BY <1>3 DEF ReadPrev
  <2>2. read_TwoBytes(PREV) \in EDGES
    BY TwoBytes, Layout DEF read_TwoBytes
  <2>3. AppOK'
    BY <2>1, <2>2, <1>2 DEF AppOK
  <2> QED BY <1>3, <2>3 DEF ReadPrev
<1>4. CASE WritePrev
  <2>1. app.id \in Ids /\ app.last \in EDGES
    BY <1>4 DEF WritePrev, AppOK
  <2>2. app.id \div 2 \in Nat
    <3>1. app.id \in Nat
      BY <2>1, <1>2
    <3> QED BY <3>1
  <2>3. HighByte(app.id \div 2) \in 0..(BYTE - 1) /\ LowByte(app.id \div 2) \in 0..(BYTE - 1)
    BY <2>2, BytesOf
  <2>4. /\ mem' \in [Addresses -> 0..(BYTE - 1)]
        /\ \A a \in Addresses \ {PREV, PREV + 1} : mem'[a] = mem[a]
    BY <1>4, <2>3 DEF WritePrev
  <2>5. AppOK'
    BY <1>4, <2>1 DEF WritePrev, AppOK
  <2>6. \A i \in EDGES : mem'[i] = mem[i] /\ mem'[BRANCH + i] = mem[BRANCH + i]
    BY <2>4, Layout
  <2> QED BY <1>4, <2>4, <2>5, <2>6 DEF WritePrev
<1>5. CASE WriteEdge
  <2> DEFINE write_area == XorOf[app.id, app.last]
  <2>1. app.id \in EDGES /\ app.last \in EDGES
    BY <1>5, <1>2 DEF WriteEdge, AppOK
  <2>2. write_area \in EDGES
    BY <2>1, CovAssumption
  <2>3. mem' = [mem EXCEPT ![write_area] = 1] /\ app' = [app EXCEPT !.pc = "branch"]
    BY <1>5 DEF WriteEdge
  <2> HIDE DEF write_area
  <2>4. /\ mem' \in [Addresses -> 0..(BYTE - 1)] /\ mem'[write_area] = 1
        /\ \A a \in Addresses \ {write_area} : mem'[a] = mem[a]
    BY <2>2, <2>3, <1>1, Layout
  <2>5. AppOK'
    BY <1>5, <2>3 DEF WriteEdge, AppOK
  <2>6. \A i \in EDGES : mem'[BRANCH + i] = mem[BRANCH + i]
    <3> SUFFICES ASSUME NEW i \in EDGES PROVE mem'[BRANCH + i] = mem[BRANCH + i]
      OBVIOUS
    <3>1. BRANCH + i \in Addresses \ {write_area}
      BY <2>2, Layout
    <3> QED BY <3>1, <2>4
  <2>7. \E e \in EDGES : mem'[e] = 1 /\ \A i \in EDGES \ {e} : mem'[i] = mem[i]
    <3>1. \A i \in EDGES \ {write_area} : mem'[i] = mem[i]
      BY <2>4, Layout
    <3>2. mem'[write_area] = 1
      BY <2>4
    <3> QED BY <2>2, <3>1, <3>2
  <2> QED BY <1>5, <2>4, <2>5, <2>6, <2>7 DEF WriteEdge
<1>6. CASE WriteBranch
  <2>1. app.id \in EDGES
    BY <1>6, <1>2 DEF WriteBranch, AppOK
  <2>2. BRANCH + app.id \in Addresses /\ BRANCH + app.id \notin EDGES
    BY <2>1, Layout
  <2>3. /\ mem' \in [Addresses -> 0..(BYTE - 1)] /\ mem'[BRANCH + app.id] = 1
        /\ \A a \in Addresses \ {BRANCH + app.id} : mem'[a] = mem[a]
    BY <1>6, <2>2, <1>1 DEF WriteBranch
  <2>4. AppOK'
    BY <1>6 DEF WriteBranch, AppOK, Quiet
  <2>5. \A i \in EDGES : mem'[i] = mem[i]
    BY <2>2, <2>3, Layout
  <2>6. \A i \in EDGES : mem[BRANCH + i] # 0 => mem'[BRANCH + i] # 0
    <3> SUFFICES ASSUME NEW i \in EDGES, mem[BRANCH + i] # 0 PROVE mem'[BRANCH + i] # 0
      OBVIOUS
    <3>1. BRANCH + i \in Addresses
      BY Layout
    <3>2. CASE BRANCH + i = BRANCH + app.id
      BY <3>2, <2>3
    <3>3. CASE BRANCH + i # BRANCH + app.id
      BY <3>1, <3>3, <2>3
    <3> QED BY <3>2, <3>3
  <2> QED BY <1>6, <2>3, <2>4, <2>5, <2>6 DEF WriteBranch
<1> QED BY <1>3, <1>4, <1>5, <1>6 DEF Application

\* A copy changes at most the bytes its call names.
LEMMA CopyStep ==
  ASSUME mem \in [Addresses -> 0..(BYTE - 1)], OneByOne, NEW t \in Threads, Copy(t)
  PROVE  /\ mem' \in [Addresses -> 0..(BYTE - 1)] /\ position = Op(t).at /\ th[t].op \in 1..4
         /\ \A i \in EDGES : mem'[BRANCH + i] = mem[BRANCH + i]
         /\ th[t].op # 2 => \A i \in EDGES : mem'[i] = mem[i]
         /\ th[t].op = 2 => \A i \in EDGES : mem'[i] = 0
<1>1. th[t].op \in 1..4 /\ position = Op(t).at
  BY DEF Copy, OneByOne, Working
<1>2. 0 \in 0..(BYTE - 1)
  BY CovAssumption
<1>3. mem' \in [Addresses -> 0..(BYTE - 1)]
  BY <1>2 DEF Copy
<1>4. CASE th[t].op \in {1, 4}
  <2>1. ~Op(t).zero
    BY <1>4, OpFacts DEF Op, Call
  <2>2. mem' = mem
    BY <2>1 DEF Copy
  <2> QED BY <1>1, <1>3, <1>4, <2>2
<1>5. CASE th[t].op = 2
  <2>1. Op(t).zero /\ Op(t).at = 0 /\ Op(t).len = MAP
    BY <1>5, OpFacts DEF Op, Call
  <2>2. mem' = [a \in Addresses |-> IF a \in 0..(0 + MAP - 1) THEN 0 ELSE mem[a]]
    BY <1>1, <2>1 DEF Copy
  <2>3. 0 + MAP - 1 = MAP - 1
    BY Sizes
  <2>4. \A i \in EDGES : mem'[i] = 0
    BY <2>2, <2>3, Layout, Sizes
  <2>5. \A i \in EDGES : BRANCH + i \notin 0..(MAP - 1)
    BY Layout, Sizes
  <2>6. \A i \in EDGES : mem'[BRANCH + i] = mem[BRANCH + i]
    BY <2>2, <2>3, <2>5, Layout
  <2> QED BY <1>1, <1>3, <1>5, <2>4, <2>6
<1>6. CASE th[t].op = 3
  <2>1. Op(t).zero /\ Op(t).at = PREV /\ Op(t).len = 2
    BY <1>6, OpFacts DEF Op, Call
  <2>2. mem' = [a \in Addresses |-> IF a \in PREV..(PREV + 2 - 1) THEN 0 ELSE mem[a]]
    BY <1>1, <2>1 DEF Copy
  <2>3. PREV..(PREV + 2 - 1) = {PREV, PREV + 1}
    BY Sizes DEF PREV
  <2>4. \A a \in Addresses \ {PREV, PREV + 1} : mem'[a] = mem[a]
    BY <2>2, <2>3
  <2> QED BY <1>1, <1>3, <1>6, <2>4, Layout
<1> QED BY <1>1, <1>4, <1>5, <1>6

\* What a thread that works alone does next.
LEMMA ThreadStep ==
  ASSUME OneByOne, NEW t \in Threads, Thread(t)
  PROVE  /\ th[t].pc # "idle" /\ (\A u \in Threads \ {t} : th[u] = Idle)
         /\ th' = [th EXCEPT ![t] = th'[t]] /\ OneByOne' /\ UNCHANGED <<app, overlapped>>
         /\ Lock(t) \/ Position(t) \/ Copy(t) \/ Advance(t) \/ Send(t) \/ SendFails(t)
<1>1. th[t].pc # "idle"
  <2>1. Thread(t) => th[t].pc \in {"lock", "position", "copy", "advance", "send"}
    BY DEF Thread, Lock, LockRefused, Position, Copy, CopyFails, Advance, Send, SendFails
  <2> QED BY <2>1
<1>2. /\ \A u \in Threads \ {t} : th[u] = Idle
      /\ th[t].op \in 1..4 /\ ~LockRefused(t) /\ ~CopyFails(t)
  BY <1>1, AloneThere
<1>3. \A u \in Threads \ {t} : th[u].pc = "idle"
  BY <1>2 DEF Idle
<1>4. th[t] \in Record /\ position \in Nat /\ th \in [Threads -> Record] /\ Working(th[t])
  BY DEF OneByOne
<1>5. Op(t).at \in Nat /\ Op(t).len \in Nat
  BY <1>2, OpFacts DEF Op
<1>6. ASSUME Lock(t) PROVE OneByOne' /\ th' = [th EXCEPT ![t] = th'[t]]
  <2>1. th' = [th EXCEPT ![t].pc = "position"]
    BY <1>6 DEF Lock
  <2>2. th'[t] = [th[t] EXCEPT !.pc = "position"] /\ th' = [th EXCEPT ![t] = th'[t]]
    BY <2>1, <1>4
  <2>3. th'[t] \in Record /\ Working(th'[t]) /\ th'[t].pc = "position"
    BY <2>2, <1>2, <1>4 DEF Record, Working
  <2> QED BY <1>3, <1>4, <1>6, <2>2, <2>3, OneThread DEF Lock
<1>7. ASSUME Position(t) PROVE OneByOne' /\ th' = [th EXCEPT ![t] = th'[t]]
  <2>1. th' = [th EXCEPT ![t].pc = "copy"] /\ position' = Op(t).at
    BY <1>7 DEF Position
  <2>2. th'[t] = [th[t] EXCEPT !.pc = "copy"] /\ th' = [th EXCEPT ![t] = th'[t]]
    BY <2>1, <1>4
  <2>3. /\ th'[t] \in Record /\ Working(th'[t])
        /\ th'[t].pc = "copy" /\ position' = Ops[th'[t].op].at
    BY <2>1, <2>2, <1>2, <1>4 DEF Record, Working, Op
  <2> QED BY <1>3, <1>5, <2>1, <2>2, <2>3, OneThread
<1>8. ASSUME Copy(t) PROVE OneByOne' /\ th' = [th EXCEPT ![t] = th'[t]]
  <2> DEFINE d == IF th[t].op = 1 THEN Marked(position) ELSE th[t].data
  <2>1. d \in SUBSET EDGES
    BY <1>4 DEF Marked, Record
  <2>2. th'[t] = [th[t] EXCEPT !.pc = "advance", !.from = position, !.data = d]
    BY <1>8, <1>4 DEF Copy
  <2>3. th' = [th EXCEPT ![t] = th'[t]] /\ position' = position
    BY <1>8, <1>4, <2>2 DEF Copy
  <2> HIDE DEF d
  <2>4. position = Op(t).at
    BY <1>8 DEF Copy, OneByOne
  <2>5. /\ th'[t] \in Record /\ Working(th'[t])
        /\ th'[t].pc = "advance" /\ th'[t].from = Ops[th'[t].op].at
    BY <2>1, <2>2, <2>4, <1>2, <1>4 DEF Record, Working, Op
  <2> QED BY <1>3, <1>4, <2>3, <2>5, OneThread
<1>9. ASSUME Advance(t) PROVE OneByOne' /\ th' = [th EXCEPT ![t] = th'[t]]
  <2>1. th[t].pc = "advance" /\ Continue(t, th[t].data) /\ position' = th[t].from + Op(t).len
    BY <1>9 DEF Advance
  <2>2. position' \in Nat
    BY <2>1, <1>4, <1>5 DEF Record
  <2>3. /\ th' = [th EXCEPT ![t] = th'[t]] /\ th'[t] \in Record /\ Working(th'[t])
        /\ th'[t].pc \in {"send", "idle", "lock"}
    BY <2>1, <1>2, Continues DEF Idle
  <2> QED BY <1>3, <2>2, <2>3, OneThread
<1>10. ASSUME Send(t) \/ SendFails(t) PROVE OneByOne' /\ th' = [th EXCEPT ![t] = th'[t]]
  <2>1. /\ th'[t] \in {Idle, Begin(4)}
        /\ th' = [th EXCEPT ![t] = th'[t]] /\ position' = position
    BY <1>10, <1>4 DEF Send, SendFails, Scan
  <2>2. th'[t] \in Record /\ Working(th'[t]) /\ th'[t].pc \in {"idle", "lock"}
    <3>2. CASE th'[t] = Idle
      BY <3>2 DEF Idle, Record, Working
    <3>3. CASE th'[t] = Begin(4)
      BY <3>3 DEF Begin, Record, Working
    <3> QED BY <2>1, <3>2, <3>3
  <2> QED BY <1>3, <1>4, <2>1, <2>2, OneThread
<1>11. Lock(t) \/ Position(t) \/ Copy(t) \/ Advance(t) \/ Send(t) \/ SendFails(t)
  BY <1>2 DEF Thread
<1>12. UNCHANGED <<app, overlapped>>
  BY <1>11 DEF Lock, Position, Copy, Advance, Send, SendFails
<1> QED BY <1>1, <1>2, <1>6, <1>7, <1>8, <1>9, <1>10, <1>11, <1>12

\* A request that meets no scan starts the only thread.
LEMMA RequestStep ==
  ASSUME OneByOne, overlapped = FALSE, overlapped' = FALSE, NEW t \in Threads, Request(t)
  PROVE  /\ OneByOne' /\ \A u \in Threads : th[u] = Idle
         /\ th' = [th EXCEPT ![t] = Begin(1)]
<1>1. \A u \in Threads : th[u] = Idle
  BY DEF Request
<1>2. th' = [th EXCEPT ![t] = Begin(1)] /\ position' = position
  BY DEF Request
<1>3. th'[t] = Begin(1)
  BY <1>2 DEF OneByOne
<1>4. th'[t] \in Record /\ Working(th'[t]) /\ th'[t].pc = "lock"
  BY <1>3 DEF Begin, Record, Working
<1>5. \A u \in Threads \ {t} : th[u].pc = "idle"
  BY <1>1 DEF Idle
<1>6. OneByOne'
  BY <1>2, <1>3, <1>4, <1>5, OneThread DEF OneByOne
<1> QED BY <1>1, <1>2, <1>6

LEMMA CovStep == CovInv /\ [Next]_vars => CovInv'
<1> SUFFICES ASSUME CovInv, [Next]_vars PROVE CovInv'
  OBVIOUS
<1>1. overlapped' \in BOOLEAN /\ (overlapped => overlapped')
  <2>1. CASE \E t \in Threads : Request(t)
    BY <2>1 DEF Request, CovInv
  <2>2. CASE \E t \in Threads : Thread(t)
    BY <2>2 DEF Thread, Lock, LockRefused, Position, Copy, CopyFails, Advance, Send, SendFails,
                CovInv
  <2>3. CASE Application
    BY <2>3 DEF Application, ReadPrev, WritePrev, WriteEdge, WriteBranch, CovInv
  <2> QED BY <2>1, <2>2, <2>3 DEF Next, vars, CovInv
<1>2. SUFFICES ASSUME overlapped = FALSE, overlapped' = FALSE
               PROVE  mem' \in [Addresses -> 0..(BYTE - 1)] /\ AppOK' /\ OneByOne'
  BY <1>1 DEF CovInv
<1>3. mem \in [Addresses -> 0..(BYTE - 1)] /\ AppOK /\ OneByOne
  BY <1>2 DEF CovInv
<1>4. ASSUME NEW t \in Threads, Request(t)
      PROVE  mem' \in [Addresses -> 0..(BYTE - 1)] /\ AppOK' /\ OneByOne'
  BY <1>2, <1>3, <1>4, RequestStep DEF Request, AppOK
<1>5. ASSUME NEW t \in Threads, Thread(t)
      PROVE  mem' \in [Addresses -> 0..(BYTE - 1)] /\ AppOK' /\ OneByOne'
  <2>1. OneByOne' /\ app' = app
    BY <1>3, <1>5, ThreadStep
  <2>2. mem' \in [Addresses -> 0..(BYTE - 1)]
    BY <1>3, <1>5, ThreadStep, CopyStep DEF Lock, Position, Advance, Send, SendFails
  <2> QED BY <1>3, <2>1, <2>2 DEF AppOK
<1>6. ASSUME Application
      PROVE  mem' \in [Addresses -> 0..(BYTE - 1)] /\ AppOK' /\ OneByOne'
  <2>1. mem' \in [Addresses -> 0..(BYTE - 1)] /\ AppOK' /\ th' = th /\ position' = position
    BY <1>3, <1>6, AppSteps
  <2> QED BY <1>3, <2>1 DEF OneByOne, Op
<1>7. ASSUME UNCHANGED vars
      PROVE  mem' \in [Addresses -> 0..(BYTE - 1)] /\ AppOK' /\ OneByOne'
  BY <1>3, <1>7 DEF vars, AppOK, OneByOne, Op
<1> QED BY <1>4, <1>5, <1>6, <1>7 DEF Next

THEOREM CovCorrect == Spec => []CovInv
<1> QED BY CovInit, CovStep, PTL DEF Spec

-----------------------------------------------------------------------------
(* No drain forgets a branch. *)

\* One step leaves every branch that has been counted.
LEMMA BranchStep ==
  ASSUME CovInv, overlapped = FALSE, Next
  PROVE  \A i \in EDGES : mem[BRANCH + i] # 0 => mem'[BRANCH + i] # 0
<1>1. mem \in [Addresses -> 0..(BYTE - 1)] /\ AppOK /\ OneByOne
  BY DEF CovInv
<1>2. ASSUME NEW t \in Threads, Request(t) PROVE mem' = mem
  BY <1>2 DEF Request
<1>3. ASSUME NEW t \in Threads, Thread(t)
      PROVE  \A i \in EDGES : mem'[BRANCH + i] = mem[BRANCH + i]
  BY <1>1, <1>3, ThreadStep, CopyStep DEF Lock, Position, Advance, Send, SendFails
<1> QED BY <1>1, <1>2, <1>3, AppSteps DEF Next

\* The "overall branch coverage" CovSend prints never shrinks, for every
\* application, number of locations, and interleaving with the drains.
THEOREM BranchesOnlyGrow == Spec => BranchesGrow
<1>1. CovInv /\ [Next]_vars
        => [~overlapped => \A i \in EDGES : mem[BRANCH + i] # 0 => mem'[BRANCH + i] # 0]_vars
  BY BranchStep DEF CovInv
<1> QED BY <1>1, CovCorrect, PTL DEF Spec, BranchesGrow

-----------------------------------------------------------------------------
(* The promise of EdgeBitmap. *)

EdgesBar == IF Stage = "clearing" THEN {} ELSE Marked(0)
TakenBar == UNION {th[t].data : t \in {u \in Threads : Clearing(u) \/ Cleared(u)}}

StageOf(t) == IF Clearing(t) THEN "clearing" ELSE IF Cleared(t) THEN "cleared" ELSE "open"
TakenOf(t) == IF Clearing(t) \/ Cleared(t) THEN th[t].data ELSE {}

\* With one thread at work, the drain is that thread's.
LEMMA OnlyDrain ==
  ASSUME NEW t \in Threads, \A u \in Threads \ {t} : th[u] = Idle
  PROVE  Stage = StageOf(t) /\ TakenBar = TakenOf(t)
<1>1. \A u \in Threads \ {t} : ~Clearing(u) /\ ~Cleared(u)
  BY DEF Clearing, Cleared, Idle
<1>2. Stage = StageOf(t)
  BY <1>1 DEF Stage, StageOf
<1>3. {u \in Threads : Clearing(u) \/ Cleared(u)}
        = IF Clearing(t) \/ Cleared(t) THEN {t} ELSE {}
  BY <1>1
<1>4. TakenBar = TakenOf(t)
  BY <1>3 DEF TakenBar, TakenOf
<1> QED BY <1>2, <1>4

\* The same for the state after a step.
LEMMA OnlyDrainNext ==
  ASSUME NEW t \in Threads, \A u \in Threads \ {t} : th'[u] = Idle
  PROVE  Stage' = StageOf(t)' /\ TakenBar' = TakenOf(t)'
<1>1. \A u \in Threads \ {t} : ~Clearing(u)' /\ ~Cleared(u)'
  BY DEF Clearing, Cleared, Idle
<1>2. Stage' = StageOf(t)'
  BY <1>1 DEF Stage, StageOf
<1>3. {u \in Threads : Clearing(u)' \/ Cleared(u)'}
        = IF Clearing(t)' \/ Cleared(t)' THEN {t} ELSE {}
  BY <1>1
<1>4. TakenBar' = TakenOf(t)'
  BY <1>3 DEF TakenBar, TakenOf
<1> QED BY <1>2, <1>4

\* Nothing the promise speaks of has changed.
Same == /\ EdgesBar' = EdgesBar /\ Stage' = Stage /\ TakenBar' = TakenBar
        /\ sent' = sent /\ overlapped' = overlapped

\* The marked edges depend on the edges' bytes only.
LEMMA MarkedSame ==
  ASSUME \A i \in EDGES : mem'[i] = mem[i] PROVE Marked(0)' = Marked(0)
<1>1. \A i \in EDGES : 0 + i = i
  BY Sizes
<1> QED BY <1>1 DEF Marked

\* A step of a thread takes, clears, sends, or shows nothing.
LEMMA ThreadPromise ==
  ASSUME mem \in [Addresses -> 0..(BYTE - 1)], OneByOne, overlapped = FALSE,
         NEW t \in Threads, Thread(t)
  PROVE  Promise!Take \/ Promise!Clear \/ Promise!Send \/ Same
<1>1. /\ \A u \in Threads \ {t} : th[u] = Idle
      /\ th' = [th EXCEPT ![t] = th'[t]] /\ overlapped' = overlapped
      /\ Lock(t) \/ Position(t) \/ Copy(t) \/ Advance(t) \/ Send(t) \/ SendFails(t)
  BY ThreadStep
<1>2. th \in [Threads -> Record] /\ Working(th[t]) /\ th[t] \in Record
  BY DEF OneByOne
<1>3. \A u \in Threads \ {t} : th'[u] = Idle
  BY <1>1, <1>2
<1>4. /\ Stage = StageOf(t) /\ TakenBar = TakenOf(t)
      /\ Stage' = StageOf(t)' /\ TakenBar' = TakenOf(t)'
  BY <1>1, <1>3, OnlyDrain, OnlyDrainNext
<1>5. CASE Lock(t) \/ Position(t)
  <2>1. /\ th'[t].pc \in {"position", "copy"} /\ th[t].pc # "advance"
        /\ th'[t].op = th[t].op /\ th'[t].data = th[t].data
        /\ mem' = mem /\ sent' = sent
    <3>1. ASSUME Lock(t)
          PROVE  /\ th[t].pc = "lock" /\ th'[t] = [th[t] EXCEPT !.pc = "position"]
                 /\ mem' = mem /\ sent' = sent
      BY <1>2, <3>1 DEF Lock
    <3>2. ASSUME Position(t)
          PROVE  /\ th[t].pc = "position" /\ th'[t] = [th[t] EXCEPT !.pc = "copy"]
                 /\ mem' = mem /\ sent' = sent
      BY <1>2, <3>2 DEF Position
    <3> QED BY <1>2, <1>5, <3>1, <3>2 DEF Record
  <2>2. StageOf(t)' = StageOf(t) /\ TakenOf(t)' = TakenOf(t)
    BY <2>1 DEF StageOf, TakenOf, Clearing, Cleared
  <2>3. Marked(0)' = Marked(0)
    BY <2>1, MarkedSame
  <2> QED BY <1>1, <1>4, <2>1, <2>2, <2>3 DEF Same, EdgesBar
<1>6. CASE Copy(t)
  <2>1. /\ th[t].pc = "copy" /\ th'[t].pc = "advance" /\ th'[t].op = th[t].op
        /\ th'[t].data = IF th[t].op = 1 THEN Marked(position) ELSE th[t].data
        /\ sent' = sent
    BY <1>2, <1>6 DEF Copy
  <2>2. th[t].op \in 1..4 /\ position = Op(t).at
    BY <1>6, CopyStep
  <2>3. CASE th[t].op = 1
    <3>1. position = 0
      BY <2>2, <2>3, OpFacts DEF Op, Call
    <3>2. Stage = "open" /\ Stage' = "clearing" /\ TakenBar' = Marked(0)
      BY <1>4, <2>1, <2>3, <3>1 DEF StageOf, TakenOf, Clearing, Cleared
    <3>3. EdgesBar = Marked(0) /\ EdgesBar' = {}
      BY <3>2 DEF EdgesBar
    <3> QED BY <1>1, <2>1, <3>2, <3>3 DEF Promise!Take, EdgesBar, TakenBar
  <2>4. CASE th[t].op = 2
    <3>1. Stage = "clearing" /\ Stage' = "cleared" /\ TakenBar' = TakenBar
      BY <1>4, <2>1, <2>4 DEF StageOf, TakenOf, Clearing, Cleared
    <3>2. \A i \in EDGES : mem'[i] = 0 /\ 0 + i = i
      BY <1>6, <2>4, CopyStep, Sizes
    <3>3. Marked(0)' = {}
      BY <3>2 DEF Marked
    <3>4. EdgesBar = {} /\ EdgesBar' = {}
      BY <3>1, <3>3 DEF EdgesBar
    <3> QED BY <1>1, <2>1, <3>1, <3>4 DEF Promise!Clear, EdgesBar, TakenBar
  <2>5. CASE th[t].op \in {3, 4}
    <3>1. StageOf(t)' = StageOf(t) /\ TakenOf(t)' = TakenOf(t)
      BY <2>1, <2>5 DEF StageOf, TakenOf, Clearing, Cleared
    <3>2. Marked(0)' = Marked(0)
      BY <1>6, <2>5, CopyStep, MarkedSame
    <3> QED BY <1>1, <1>4, <2>1, <3>1, <3>2 DEF Same, EdgesBar
  <2> QED BY <2>2, <2>3, <2>4, <2>5
<1>7. CASE Advance(t)
  <2>1. /\ th[t].pc = "advance" /\ Continue(t, th[t].data)
        /\ mem' = mem /\ sent' = sent
    BY <1>7 DEF Advance
  <2>2. th[t].op \in 1..4
    BY <1>2, <2>1 DEF Working
  <2>3. /\ th[t].op = 3 => th'[t].pc = "send" /\ th'[t].op = 3 /\ th'[t].data = th[t].data
        /\ th[t].op = 4 => th'[t] = Idle
        /\ th[t].op \in {1, 2} => /\ th'[t].pc = "lock" /\ th'[t].op = th[t].op + 1
                                  /\ th'[t].data = th[t].data
    BY <2>1, Continues
  <2>4. StageOf(t)' = StageOf(t) /\ TakenOf(t)' = TakenOf(t)
    BY <2>1, <2>2, <2>3 DEF StageOf, TakenOf, Clearing, Cleared, Idle
  <2>5. Marked(0)' = Marked(0)
    BY <2>1, MarkedSame
  <2> QED BY <1>1, <1>4, <2>1, <2>4, <2>5 DEF Same, EdgesBar
<1>8. CASE Send(t) \/ SendFails(t)
  <2>1. /\ th[t].pc = "send" /\ th'[t] \in {Idle, Begin(4)} /\ mem' = mem
        /\ sent' \in {th[t].data, sent}
    BY <1>2, <1>8 DEF Send, SendFails, Scan
  <2>2. th[t].op = 3
    BY <1>2, <2>1 DEF Working
  <2>3. Stage = "cleared" /\ TakenBar = th[t].data
    BY <1>4, <2>1, <2>2 DEF StageOf, TakenOf, Clearing, Cleared
  <2>4. th'[t].op \in {0, 4}
    BY <2>1 DEF Idle, Begin
  <2>5. Stage' = "open" /\ TakenBar' = {}
    BY <1>4, <2>4 DEF StageOf, TakenOf, Clearing, Cleared
  <2>6. Marked(0)' = Marked(0)
    BY <2>1, MarkedSame
  <2>7. EdgesBar' = EdgesBar
    BY <2>3, <2>5, <2>6 DEF EdgesBar
  <2> QED BY <1>1, <2>1, <2>3, <2>5, <2>7 DEF Promise!Send, EdgesBar, TakenBar
<1> QED BY <1>1, <1>5, <1>6, <1>7, <1>8

\* A step of coverage() hits an edge or shows nothing.
LEMMA AppPromise ==
  ASSUME mem \in [Addresses -> 0..(BYTE - 1)], AppOK, overlapped = FALSE, Application
  PROVE  (\E e \in EDGES : Promise!Hit(e)) \/ Same
<1>1. UNCHANGED <<position, th, sent, overlapped>>
  BY AppSteps
<1>2. Stage' = Stage /\ TakenBar' = TakenBar
  BY <1>1 DEF Stage, TakenBar, Clearing, Cleared
<1>3. CASE \A i \in EDGES : mem'[i] = mem[i]
  <2>1. Marked(0)' = Marked(0)
    BY <1>3, MarkedSame
  <2> QED BY <1>1, <1>2, <2>1 DEF Same, EdgesBar
<1>4. CASE \E e \in EDGES : mem'[e] = 1 /\ \A i \in EDGES \ {e} : mem'[i] = mem[i]
  <2>1. PICK e \in EDGES : mem'[e] = 1 /\ \A i \in EDGES \ {e} : mem'[i] = mem[i]
    BY <1>4
  <2>2. \A i \in EDGES : 0 + i = i
    BY Sizes
  <2>3. Marked(0)' = Marked(0) \cup {e}
    <3>1. 1 \in 1..(BYTE \div 2 - 1)
      BY CovAssumption
    <3> QED BY <2>1, <2>2, <3>1 DEF Marked
  <2>4. EdgesBar' = IF Stage = "clearing" THEN EdgesBar ELSE EdgesBar \cup {e}
    BY <1>2, <2>3 DEF EdgesBar
  <2>5. Promise!Hit(e)
    BY <1>1, <1>2, <2>4 DEF Promise!Hit, EdgesBar, TakenBar
  <2> QED BY <2>5
<1> QED BY <1>3, <1>4, AppSteps

\* A request begins a drain that has taken nothing yet, or ends the promise.
LEMMA RequestPromise ==
  ASSUME OneByOne, overlapped = FALSE, overlapped' \in BOOLEAN, NEW t \in Threads, Request(t)
  PROVE  Promise!Overlap \/ Same
<1>1. /\ th[t] = Idle /\ th' = [th EXCEPT ![t] = Begin(1)]
      /\ mem' = mem /\ sent' = sent
  BY DEF Request
<1>2. th \in [Threads -> Record]
  BY DEF OneByOne
<1>3. /\ \A u \in Threads \ {t} : th'[u] = th[u]
      /\ th'[t] = Begin(1)
  BY <1>1, <1>2
<1>4. ~Clearing(t) /\ ~Cleared(t) /\ ~Clearing(t)' /\ ~Cleared(t)'
  BY <1>1, <1>3 DEF Clearing, Cleared, Idle, Begin
<1>5. \A u \in Threads : Clearing(u)' = Clearing(u) /\ Cleared(u)' = Cleared(u)
  BY <1>3, <1>4 DEF Clearing, Cleared
<1>6. \A u \in Threads : Clearing(u) \/ Cleared(u) => th'[u].data = th[u].data
  BY <1>3, <1>4
<1>7. Stage' = Stage
  BY <1>5 DEF Stage
<1>8. TakenBar' = TakenBar
  BY <1>5, <1>6 DEF TakenBar
<1>9. EdgesBar' = EdgesBar
  BY <1>1, <1>7, MarkedSame DEF EdgesBar
<1> QED BY <1>1, <1>7, <1>8, <1>9 DEF Same, Promise!Overlap, EdgesBar, TakenBar

LEMMA PromiseInit == Init => Promise!Init
<1> SUFFICES ASSUME Init PROVE Promise!Init
  OBVIOUS
<1>1. \A t \in Threads : ~Clearing(t) /\ ~Cleared(t)
  BY DEF Init, Idle, Clearing, Cleared
<1>2. Stage = "open" /\ TakenBar = {}
  BY <1>1 DEF Stage, TakenBar
<1>3. EdgesBar \in SUBSET EDGES
  BY DEF EdgesBar, Marked
<1> QED BY <1>2, <1>3 DEF Init, Promise!Init, EdgesBar, TakenBar

LEMMA PromiseStep == CovInv /\ CovInv' /\ [Next]_vars => [Promise!Next]_(Promise!vars)
<1> SUFFICES ASSUME CovInv, CovInv', [Next]_vars PROVE [Promise!Next]_(Promise!vars)
  OBVIOUS
<1>1. Same => UNCHANGED Promise!vars
  BY DEF Same, Promise!vars, EdgesBar, TakenBar
<1>2. CASE UNCHANGED vars
  <2>1. Same
    BY <1>2 DEF vars, Same, EdgesBar, TakenBar, Stage, Marked, Clearing, Cleared
  <2> QED BY <1>1, <2>1
<1>3. CASE overlapped /\ Next
  <2>1. overlapped' = TRUE
    <3>1. CASE \E t \in Threads : Request(t)
      BY <1>3, <3>1 DEF Request, CovInv
    <3>2. CASE \E t \in Threads : Thread(t)
      BY <1>3, <3>2 DEF Thread, Lock, LockRefused, Position, Copy, CopyFails, Advance, Send,
                        SendFails, CovInv
    <3>3. CASE Application
      BY <1>3, <3>3 DEF Application, ReadPrev, WritePrev, WriteEdge, WriteBranch, CovInv
    <3> QED BY <1>3, <3>1, <3>2, <3>3 DEF Next
  <2> QED BY <1>3, <2>1 DEF Promise!Next, Promise!Broken
<1>4. CASE overlapped = FALSE /\ Next
  <2>1. mem \in [Addresses -> 0..(BYTE - 1)] /\ AppOK /\ OneByOne /\ overlapped' \in BOOLEAN
    BY <1>4 DEF CovInv
  <2>2. ASSUME NEW t \in Threads, Request(t) PROVE [Promise!Next]_(Promise!vars)
    BY <1>1, <1>4, <2>1, <2>2, RequestPromise DEF Promise!Next
  <2>3. ASSUME NEW t \in Threads, Thread(t) PROVE [Promise!Next]_(Promise!vars)
    BY <1>1, <1>4, <2>1, <2>3, ThreadPromise DEF Promise!Next
  <2>4. ASSUME Application PROVE [Promise!Next]_(Promise!vars)
    BY <1>1, <1>4, <2>1, <2>4, AppPromise DEF Promise!Next
  <2> QED BY <1>4, <2>2, <2>3, <2>4 DEF Next
<1> QED BY <1>2, <1>3, <1>4 DEF CovInv

\* Mem and CovSend give every edge out exactly once but for what is hit
\* while a drain clears, for every memory size, application and number of
\* connections, until a request meets a running branch scan.
THEOREM PromiseCorrect == Spec => PromiseKept
<1> QED BY PromiseInit, PromiseStep, CovCorrect, PTL DEF Spec, PromiseKept, Promise!Spec
=============================================================================
