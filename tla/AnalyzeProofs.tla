---------------------------- MODULE AnalyzeProofs ----------------------------
(***************************************************************************)
(* Proofs about afl-analyze for every file, target and limit: what it      *)
(* prints is about the file, and its borders and labels say what the runs  *)
(* have shown.                                                             *)
(***************************************************************************)
EXTENDS Analyze, WellFoundedInduction, TLAPS

-----------------------------------------------------------------------------
(* The greatest number of a bounded set. *)

LEMMA MaxIsGreatest ==
  ASSUME NEW T, NEW b \in Nat, T \subseteq 0..b, T # {}
  PROVE  Max(T) \in T /\ \A m \in T : Max(T) >= m
<1> DEFINE U == {n \in Nat : b - n \in T}
           less == OpToRel(<, Nat)
<1>1. \A m, n \in Nat : <<m, n>> \in less <=> m < n
  BY DEF OpToRel
<1>2. IsWellFoundedOn(less, Nat)
  BY NatLessThanWellFounded
<1>3. \A m \in T : b - m \in U
  OBVIOUS
<1>4. U # {} /\ U \subseteq Nat
  BY <1>3
<1> HIDE DEF U, less
<1>5. PICK n \in U : \A m \in U : ~(<<m, n>> \in less)
  BY <1>2, <1>4, WFMin
<1>6. n \in Nat /\ b - n \in T
  BY <1>5 DEF U
<1>7. \A m \in T : b - n >= m
  <2> TAKE m \in T
  <2>1. m \in 0..b /\ b - m \in Nat /\ ~(b - m < n)
    BY <1>1, <1>3, <1>4, <1>5
  <2> QED
    BY <1>6, <2>1
<1> QED
  BY <1>6, <1>7 DEF Max

-----------------------------------------------------------------------------
(* The invariant. *)

FileOK ==
  /\ file \in Files /\ file.data \in Seq(U8) /\ Len(file.data) \in Nat \ {0}
  /\ Len(a_data) = Len(file.data)

\* The buffer is the file with one byte as the last run had it.
BufferInv ==
  /\ a_phase = "dry_run" => a_i = 0
  /\ a_phase \in {"dry_run", "bytes"} =>
       a_data = IF sums = <<>> THEN file.data
                 ELSE [file.data EXCEPT ![a_i + 1] = Meant(Len(sums), @)]
  /\ a_phase \in {"dump", "done"} => a_data = file.data
  /\ a_phase = "bytes" /\ sums # <<>> => a_i < a_len
  /\ a_phase \in {"dry_run", "dump", "done"} => sums = <<>>
  /\ \A k \in DOMAIN sums :
       a_phase = "bytes" => sums[k] \in a_run_target([file.data EXCEPT ![a_i + 1] = Meant(k, @)])

\* The checksums there are.
AllSums == UNION {a_run_target(buf) : buf \in Seq(U8)}

\* What is kept of each byte that was tested.
Records ==
  /\ seen \in Seq(Seq(AllSums)) /\ Len(seen) = Len(b_data)
  /\ \A n \in DOMAIN seen :
       /\ b_data[n].resp = Behavior(seen[n])
       /\ \A k \in 1..4 : seen[n][k] \in a_run_target([file.data EXCEPT ![n] = Meant(k, @)])
  /\ \A n \in 1..(Len(seen) - 1) : b_data[n].seq # b_data[n + 1].seq <=> Apart(n)

KeptInv ==
  /\ Records
  /\ sums \in Seq(AllSums)
  /\ a_phase \in {"dry_run", "bytes"} => Len(seen) = a_i
  /\ a_phase \in {"dump", "done"} => Len(seen) = a_len
  /\ a_phase = "bytes" /\ a_i > 0 => prev = seen[a_i] /\ seq_byte = b_data[a_i].seq

\* The label of the bytes that were looked at together.
Labelled(r) ==
  LET always == {n \in BytesOf(r) : \A k \in 1..4 : HasEffect(n, k)}
      same == {n \in always : \A k \in 2..4 : seen[n][k] = seen[n][1]}
      never == \A n \in BytesOf(r), k \in 1..4 : ~HasEffect(n, k)
  IN /\ (r.label = RESP_NONE) <=> never
     /\ (r.label = RESP_MINOR) <=> always = {} /\ ~never
     /\ (r.label = RESP_VARIABLE) <=> always # {} /\ same = {}

End(r) == r.first + r.len

\* The runs of bytes printed so far.
DumpInv ==
  /\ a_phase \in {"dry_run", "bytes"} => regions = <<>>
  /\ regions \in Seq([first : Nat, len : Nat \ {0}, label : RESP_NONE..RESP_SUSPECT])
  /\ a_phase \in {"dump", "done"} =>
       /\ a_i = IF regions = <<>> THEN 0 ELSE End(regions[Len(regions)])
       /\ \A j \in 1..(Len(regions) - 1) : End(regions[j]) = regions[j + 1].first
       /\ a_i > 0 /\ a_i < a_len => Apart(a_i)
       /\ {r.first : r \in Range(regions)} =
            IF a_i = 0 THEN {} ELSE {0} \cup {n \in 1..(a_i - 1) : Apart(n)}
       /\ \A j \in DOMAIN regions : Labelled(regions[j])
  /\ a_phase = "done" => a_i = a_len

Inv == TypeOK /\ FileOK /\ BufferInv /\ KeptInv /\ DumpInv

LEMMA InvGives == Inv => AnalysisRight
<1> SUFFICES ASSUME Inv
             PROVE  AnalysisRight
  OBVIOUS
<1>1. SumsOfTheFile
  BY DEF Inv, SumsOfTheFile, BufferInv, KeptInv, Records
<1>2. BordersRight
  <2> SUFFICES ASSUME a_phase = "done"
               PROVE  /\ {r.first : r \in Range(regions)} =
                           {0} \cup {n \in 1..(a_len - 1) : Apart(n)}
                      /\ \A j \in DOMAIN regions :
                           regions[j].first + regions[j].len =
                             IF j = Len(regions) THEN a_len ELSE regions[j + 1].first
    BY DEF BordersRight
  <2>1. a_i = a_len /\ a_len # 0
    BY DEF Inv, DumpInv, FileOK, a_len
  <2>2. DOMAIN regions = 1..Len(regions) /\ Len(regions) \in Nat
    BY DEF Inv, DumpInv
  <2>3. {r.first : r \in Range(regions)} = {0} \cup {n \in 1..(a_len - 1) : Apart(n)}
    BY <2>1 DEF Inv, DumpInv
  <2>4. ASSUME NEW j \in DOMAIN regions
        PROVE  regions[j].first + regions[j].len =
                 IF j = Len(regions) THEN a_len ELSE regions[j + 1].first
    <3>1. regions # <<>> /\ End(regions[Len(regions)]) = a_len
      BY <2>1, <2>2 DEF Inv, DumpInv
    <3>2. j # Len(regions) => End(regions[j]) = regions[j + 1].first
      BY <2>2 DEF Inv, DumpInv
    <3> QED
      BY <3>1, <3>2 DEF End
  <2> QED
    BY <2>3, <2>4
<1>3. LabelsRight
  <2>1. a_phase = "done" => \A j \in DOMAIN regions : Labelled(regions[j])
    BY DEF Inv, DumpInv
  <2>2. a_phase = "done" => \A r \in Range(regions) : Labelled(r)
    BY <2>1 DEF Range
  <2> QED
    BY <2>2 DEF Labelled, LabelsRight
<1> QED
  BY <1>1, <1>2, <1>3 DEF AnalysisRight

-----------------------------------------------------------------------------
(* The four runs of a byte. *)

\* A change made to what the last one has left is the one meant, and the last is
\* taken back.
LEMMA ChangesAsMeant ==
  ASSUME NEW b \in U8
  PROVE  /\ Change(1, b) = Meant(1, b)
         /\ \A k \in 1..3 : Change(k + 1, Meant(k, b)) = Meant(k + 1, b)
         /\ \A k \in 1..4 : Meant(k, b) \in U8
         /\ Restored(Meant(4, b)) = b
<1>1. /\ XorOne(b) \in U8 /\ XorOne(XorOne(b)) = b
      /\ 255 - XorOne(255 - b) = XorOne(b)
  BY DEF XorOne, U8
<1>2. \A k \in 1..4 : Meant(k, b) \in U8
  BY <1>1 DEF Meant, U8
<1>3. Change(2, Meant(1, b)) = Meant(2, b)
  BY <1>1 DEF Change, Meant, U8
<1>4. Change(3, Meant(2, b)) = Meant(3, b)
  BY <1>1 DEF Change, Meant, U8
<1>5. Change(4, Meant(3, b)) = Meant(4, b)
  BY DEF Change, Meant, U8
<1>6. Change(1, b) = Meant(1, b)
  BY DEF Change, Meant, U8
<1>7. Restored(Meant(4, b)) = b
  BY DEF Restored, Meant, U8
<1> QED
  BY <1>2, <1>3, <1>4, <1>5, <1>6, <1>7

\* The four answers of the classification exclude each other.
LEMMA BehaviorSays ==
  ASSUME NEW four
  PROVE  LET effect(k) == four[k] # a_cksum
             all == \A k \in 1..4 : effect(k)
             none == \A k \in 1..4 : ~effect(k)
             equal == \A k \in 2..4 : four[k] = four[1]
         IN /\ Behavior(four) \in RESP_NONE..RESP_FIXED
            /\ Behavior(four) = RESP_NONE <=> none
            /\ Behavior(four) = RESP_MINOR <=> ~none /\ ~all
            /\ Behavior(four) = RESP_VARIABLE <=> all /\ ~equal
            /\ Behavior(four) = RESP_FIXED <=> all /\ equal
<1> DEFINE same == {k \in 1..4 : four[k] = a_cksum}
<1>1. same = 1..4 <=> \A k \in 1..4 : ~(four[k] # a_cksum)
  OBVIOUS
<1>2. same = {} <=> \A k \in 1..4 : four[k] # a_cksum
  OBVIOUS
<1>3. 1..4 # {}
  OBVIOUS
<1> HIDE DEF same
<1>4. Behavior(four) =
        CASE same = 1..4 -> RESP_NONE
          [] same # {} /\ same # 1..4 -> RESP_MINOR
          [] same = {} /\ \A k \in 2..4 : four[k] = four[1] -> RESP_FIXED
          [] OTHER -> RESP_VARIABLE
  BY DEF Behavior, same
<1> QED
  BY <1>1, <1>2, <1>3, <1>4 DEF RESP_NONE, RESP_MINOR, RESP_VARIABLE, RESP_FIXED

\* One byte of a buffer is changed.
LEMMA OneChanged ==
  ASSUME NEW S, NEW buf \in Seq(S), NEW m \in Nat, m < Len(buf), NEW v \in S
  PROVE  /\ m + 1 \in 1..Len(buf) /\ buf[m + 1] \in S /\ DOMAIN buf = 1..Len(buf)
         /\ [buf EXCEPT ![m + 1] = v] \in Seq(S)
         /\ Len([buf EXCEPT ![m + 1] = v]) = Len(buf)
         /\ [buf EXCEPT ![m + 1] = v][m + 1] = v
         /\ \A w : [[buf EXCEPT ![m + 1] = v] EXCEPT ![m + 1] = w] = [buf EXCEPT ![m + 1] = w]
         /\ [buf EXCEPT ![m + 1] = buf[m + 1]] = buf
  OBVIOUS

-----------------------------------------------------------------------------
(* What a step leaves alone. *)

LEMMA SameRuns ==
  ASSUME UNCHANGED file
  PROVE  /\ \A buf : a_run_target(buf)' = a_run_target(buf)
         /\ AllSums' = AllSums
<1>1. \A buf : a_run_target(buf)' = a_run_target(buf)
  BY DEF a_run_target, classify_counts
<1> QED
  BY <1>1 DEF AllSums

LEMMA RecordsStay ==
  ASSUME Records, UNCHANGED <<file, a_cksum, seen, b_data>>
  PROVE  Records'
<1>1. \A four : Behavior(four)' = Behavior(four)
  BY DEF Behavior
<1>2. \A n : Apart(n)' = Apart(n)
  BY DEF Apart
<1> QED
  BY <1>1, <1>2, SameRuns DEF Records

\* Until the file is printed there are no runs of bytes.
LEMMA NoDump ==
  ASSUME DumpInv, a_phase \in {"dry_run", "bytes"}, UNCHANGED regions,
         a_phase' \notin {"dump", "done"}
  PROVE  DumpInv'
  BY DEF DumpInv

LEMMA FileStays ==
  ASSUME FileOK, UNCHANGED file, Len(a_data') = Len(a_data)
  PROVE  FileOK'
  BY DEF FileOK

-----------------------------------------------------------------------------
(* The steps before the file is printed. *)

LEMMA InitInv == AnalyzeInit => Inv
<1> SUFFICES ASSUME AnalyzeInit
             PROVE  Inv
  OBVIOUS
<1>1. file.data \in Seq(U8) /\ Len(file.data) \in Nat \ {0}
  BY AnalyzeAssumption DEF AnalyzeInit
<1>2. FileOK
  BY <1>1 DEF FileOK, AnalyzeInit
<1>3. TypeOK
  BY <1>1 DEF TypeOK, AnalyzeInit, a_len, Range
<1>4. BufferInv
  BY DEF BufferInv, AnalyzeInit
<1>5. KeptInv
  BY DEF KeptInv, Records, AnalyzeInit
<1>6. DumpInv
  BY DEF DumpInv, AnalyzeInit
<1> QED
  BY <1>2, <1>3, <1>4, <1>5, <1>6 DEF Inv

LEMMA FirstRunStep ==
  ASSUME Inv, FirstRun
  PROVE  Inv'
<1>1. /\ a_phase = "dry_run" /\ a_phase' \in {"bytes", "failed"}
      /\ UNCHANGED <<file, a_data, a_i, sums, prev, seq_byte, b_data, regions, seen>>
  BY DEF FirstRun
<1>2. a_i = 0 /\ sums = <<>> /\ Len(seen) = 0 /\ seen \in Seq(Seq(AllSums))
  BY <1>1 DEF Inv, BufferInv, KeptInv, Records
<1>3. TypeOK'
  BY <1>1 DEF Inv, TypeOK, a_len
<1>4. BufferInv'
  BY <1>1, <1>2 DEF Inv, BufferInv
<1>5. Records'
  BY <1>1, <1>2, SameRuns DEF Inv, KeptInv, Records
<1>6. KeptInv'
  BY <1>1, <1>2, <1>5, SameRuns DEF Inv, KeptInv
<1> QED
  BY <1>1, <1>3, <1>4, <1>6, NoDump, FileStays DEF Inv

\* The buffer in the middle of a byte's runs, and what the next run changes.
LEMMA Buffer ==
  ASSUME TypeOK, FileOK, BufferInv, a_phase = "bytes", a_i < a_len
  PROVE  LET b == file.data[a_i + 1]
             here == IF sums = <<>> THEN b ELSE Meant(Len(sums), b)
         IN /\ b \in U8 /\ a_data[a_i + 1] = here
            /\ \A w : [a_data EXCEPT ![a_i + 1] = w] = [file.data EXCEPT ![a_i + 1] = w]
            /\ \A w \in U8 : /\ [file.data EXCEPT ![a_i + 1] = w] \in Seq(U8)
                              /\ Len([file.data EXCEPT ![a_i + 1] = w]) = Len(a_data)
            /\ [file.data EXCEPT ![a_i + 1] = b] = file.data
<1> DEFINE data == file.data
           b == data[a_i + 1]
           here == IF sums = <<>> THEN b ELSE Meant(Len(sums), b)
<1>1. data \in Seq(U8) /\ a_i \in Nat /\ a_i < Len(data) /\ Len(a_data) = Len(data)
  BY DEF TypeOK, FileOK, a_len
<1>2. a_data = IF sums = <<>> THEN data ELSE [data EXCEPT ![a_i + 1] = Meant(Len(sums), b)]
  BY DEF BufferInv
<1>3. sums # <<>> => Len(sums) \in 1..4
  BY DEF TypeOK
<1> HIDE DEF data
<1>4. b \in U8
  BY <1>1, OneChanged
<1>5. here \in U8
  <2> HIDE DEF b
  <2> QED
    BY <1>3, <1>4, ChangesAsMeant
<1>6. a_data = [data EXCEPT ![a_i + 1] = here]
  <2>1. data = [data EXCEPT ![a_i + 1] = b]
    BY <1>1, <1>4, OneChanged
  <2> QED
    BY <1>2, <2>1
<1> HIDE DEF here
<1>7. /\ a_data[a_i + 1] = here
      /\ \A w : [a_data EXCEPT ![a_i + 1] = w] = [data EXCEPT ![a_i + 1] = w]
  BY <1>1, <1>5, <1>6, OneChanged
<1>8. \A w \in U8 : [data EXCEPT ![a_i + 1] = w] \in Seq(U8)
                     /\ Len([data EXCEPT ![a_i + 1] = w]) = Len(a_data)
  BY <1>1, OneChanged
<1>9. [data EXCEPT ![a_i + 1] = b] = data
  BY <1>1, <1>4, OneChanged
<1> QED
  BY <1>4, <1>7, <1>8, <1>9 DEF data, here

LEMMA TestByteStep ==
  ASSUME Inv, TestByte
  PROVE  Inv'
<1> DEFINE b == file.data[a_i + 1]
           n == Len(sums)
<1>1. /\ a_phase = "bytes" /\ a_i < a_len /\ n < 4
      /\ a_data' = [a_data EXCEPT ![a_i + 1] = Change(n + 1, @)]
      /\ UNCHANGED <<file, a_cksum, a_i, prev, seq_byte, b_data, regions, seen>>
      /\ \/ a_phase' = "failed" /\ UNCHANGED sums
         \/ /\ UNCHANGED a_phase
            /\ \E sum \in a_run_target(a_data') : sums' = Append(sums, sum)
  BY DEF TestByte
<1>2. sums \in Seq(AllSums) /\ n \in Nat
  BY DEF Inv, KeptInv
<1>3. n \in 0..3
  <2>1. n < 4
    BY <1>1
  <2> HIDE DEF n
  <2> QED
    BY <1>2, <2>1
<1>4. /\ b \in U8 /\ a_data[a_i + 1] = IF sums = <<>> THEN b ELSE Meant(n, b)
      /\ \A w : [a_data EXCEPT ![a_i + 1] = w] = [file.data EXCEPT ![a_i + 1] = w]
      /\ \A w \in U8 : /\ [file.data EXCEPT ![a_i + 1] = w] \in Seq(U8)
                        /\ Len([file.data EXCEPT ![a_i + 1] = w]) = Len(a_data)
  BY <1>1, Buffer DEF Inv
<1>5. sums = <<>> <=> n = 0
  BY <1>2
<1>6. Change(n + 1, a_data[a_i + 1]) = Meant(n + 1, b) /\ Meant(n + 1, b) \in U8
  <2> HIDE DEF b, n
  <2>1. n = 0 \/ (n \in 1..3 /\ n # 0)
    BY <1>3
  <2>2. CASE n = 0
    BY <1>4, <1>5, <2>2, ChangesAsMeant
  <2>3. CASE n \in 1..3 /\ n # 0
    BY <1>4, <1>5, <2>3, ChangesAsMeant
  <2> QED
    BY <2>1, <2>2, <2>3
<1>7. a_data' = [file.data EXCEPT ![a_i + 1] = Meant(n + 1, b)]
  BY <1>1, <1>4, <1>6
<1>8. a_data' \in Seq(U8) /\ Len(a_data') = Len(a_data)
  BY <1>4, <1>6, <1>7
<1>9. \A k \in DOMAIN sums : sums[k] \in a_run_target([file.data EXCEPT ![a_i + 1] = Meant(k, b)])
  BY <1>1 DEF Inv, BufferInv
<1>10. CASE a_phase' = "failed" /\ UNCHANGED sums
  <2>1. TypeOK'
    BY <1>1, <1>8, <1>10 DEF Inv, TypeOK, a_len
  <2>2. BufferInv'
    BY <1>10 DEF BufferInv
  <2>3. KeptInv'
    BY <1>1, <1>10, RecordsStay, SameRuns DEF Inv, KeptInv
  <2> QED
    BY <1>1, <1>8, <1>10, <2>1, <2>2, <2>3, NoDump, FileStays DEF Inv
<1>11. ASSUME UNCHANGED a_phase, NEW sum \in a_run_target(a_data'), sums' = Append(sums, sum)
       PROVE  Inv'
  <2>1. sum \in AllSums
    BY <1>8, <1>11 DEF AllSums
  <2>2. /\ sums' \in Seq(AllSums) /\ Len(sums') = n + 1 /\ sums' # <<>>
        /\ DOMAIN sums' = 1..(n + 1) /\ sums'[n + 1] = sum
        /\ \A k \in 1..n : sums'[k] = sums[k] /\ k \in DOMAIN sums
    BY <1>2, <1>11, <2>1
  <2>3. TypeOK'
    <3>1. a_data' \in Seq(U8) /\ a_len' = a_len
      BY <1>8 DEF a_len
    <3>2. Len(sums') \in 0..4
      BY <1>3, <2>2
    <3> QED
      BY <1>1, <1>11, <3>1, <3>2 DEF Inv, TypeOK
  <2>4. \A k \in DOMAIN sums' :
          sums'[k] \in a_run_target([file.data EXCEPT ![a_i + 1] = Meant(k, b)])
    <3> TAKE k \in DOMAIN sums'
    <3>1. CASE k = n + 1
      BY <1>7, <1>11, <2>2, <3>1
    <3>2. CASE k \in 1..n
      BY <1>9, <2>2, <3>2
    <3> QED
      BY <1>2, <2>2, <3>1, <3>2
  <2>5. BufferInv'
    <3>1. \A k \in DOMAIN sums' :
            sums'[k] \in a_run_target([file.data EXCEPT ![a_i + 1] = Meant(k, b)])'
      BY <1>1, <2>4, SameRuns
    <3> QED
      BY <1>1, <1>2, <1>7, <1>8, <1>11, <2>2, <3>1 DEF BufferInv, a_len
  <2>6. KeptInv'
    BY <1>1, <1>11, <2>2, RecordsStay, SameRuns DEF Inv, KeptInv
  <2> QED
    BY <1>1, <1>8, <1>11, <2>3, <2>5, <2>6, NoDump, FileStays DEF Inv
<1> QED
  BY <1>1, <1>10, <1>11

\* One more element.
LEMMA Appended ==
  ASSUME NEW S, NEW s \in Seq(S), NEW x \in S
  PROVE  /\ Append(s, x) \in Seq(S) /\ Len(Append(s, x)) = Len(s) + 1
         /\ DOMAIN Append(s, x) = 1..(Len(s) + 1) /\ DOMAIN s = 1..Len(s)
         /\ Len(s) \in Nat
         /\ Append(s, x)[Len(s) + 1] = x
         /\ \A n \in 1..Len(s) : Append(s, x)[n] = s[n]
         /\ Append(s, x) # <<>>
         /\ Range(Append(s, x)) = Range(s) \cup {x}
<1>1. /\ Append(s, x) \in Seq(S) /\ Len(Append(s, x)) = Len(s) + 1
      /\ DOMAIN Append(s, x) = 1..(Len(s) + 1) /\ DOMAIN s = 1..Len(s)
      /\ Len(s) \in Nat
      /\ Append(s, x)[Len(s) + 1] = x
      /\ \A n \in 1..Len(s) : Append(s, x)[n] = s[n]
      /\ Append(s, x) # <<>>
  OBVIOUS
<1>2. \A n : n \in 1..(Len(s) + 1) <=> n \in 1..Len(s) \/ n = Len(s) + 1
  BY <1>1
<1>3. Range(Append(s, x)) = Range(s) \cup {x}
  <2> DEFINE t == Append(s, x)
  <2> HIDE DEF t
  <2>1. \A y : y \in Range(t) <=> \E n \in DOMAIN t : t[n] = y
    BY DEF Range
  <2>2. \A y : y \in Range(s) <=> \E n \in DOMAIN s : s[n] = y
    BY DEF Range
  <2> QED
    BY <1>1, <1>2, <2>1, <2>2 DEF t
<1> QED
  BY <1>1, <1>3

BData == [resp : RESP_NONE..RESP_FIXED, seq : {0, 1}]

LEMMA ClassifyStep ==
  ASSUME Inv, Classify
  PROVE  Inv'
<1> DEFINE entry == [resp |-> Behavior(sums), seq |-> seq_byte']
<1>1. /\ a_phase = "bytes" /\ Len(sums) = 4
      /\ a_data' = [a_data EXCEPT ![a_i + 1] = Restored(@)]
      /\ seq_byte' = IF AllChange THEN 1 - seq_byte ELSE seq_byte
      /\ b_data' = Append(b_data, entry)
      /\ prev' = sums /\ sums' = <<>> /\ seen' = Append(seen, sums)
      /\ a_i' = a_i + 1
      /\ UNCHANGED <<file, a_phase, a_cksum, regions>>
  BY DEF Classify
<1>2. /\ sums # <<>> /\ a_i < a_len /\ a_i \in Nat /\ Len(seen) = a_i /\ Len(b_data) = a_i
      /\ sums \in Seq(AllSums) /\ seen \in Seq(Seq(AllSums)) /\ b_data \in Seq(BData)
      /\ seq_byte \in {0, 1} /\ a_len \in Nat
  <2>1. sums # <<>>
    <3>1. Len(sums) = 4 /\ Len(<<>>) = 0
      BY <1>1
    <3> QED
      BY <3>1
  <2>2. a_len \in Nat /\ a_i \in Nat
    BY DEF Inv, TypeOK, a_len
  <2> QED
    BY <1>1, <2>1, <2>2 DEF Inv, TypeOK, BufferInv, KeptInv, Records, BData
<1>3. a_data' = file.data /\ a_data' \in Seq(U8) /\ Len(a_data') = Len(a_data)
  <2> DEFINE b == file.data[a_i + 1]
  <2>1. /\ b \in U8 /\ a_data[a_i + 1] = Meant(4, b)
        /\ \A w : [a_data EXCEPT ![a_i + 1] = w] = [file.data EXCEPT ![a_i + 1] = w]
        /\ [file.data EXCEPT ![a_i + 1] = b] = file.data
    BY <1>1, <1>2, Buffer DEF Inv
  <2>2. Restored(Meant(4, b)) = b
    <3> HIDE DEF b
    <3> QED
      BY <2>1, ChangesAsMeant
  <2> QED
    BY <1>1, <2>1, <2>2 DEF Inv, FileOK
<1>4. seq_byte' \in {0, 1} /\ (seq_byte' # seq_byte <=> AllChange)
  BY <1>1, <1>2
<1>5. entry \in BData
  BY <1>4, BehaviorSays DEF BData
<1>6. /\ b_data' \in Seq(BData) /\ Len(b_data') = a_i + 1
      /\ b_data'[a_i + 1] = entry /\ \A n \in 1..a_i : b_data'[n] = b_data[n]
  <2> HIDE DEF entry
  <2> QED
    BY <1>1, <1>2, <1>5, Appended
<1>7. /\ seen' \in Seq(Seq(AllSums)) /\ Len(seen') = a_i + 1 /\ DOMAIN seen' = 1..(a_i + 1)
      /\ DOMAIN seen = 1..a_i
      /\ seen'[a_i + 1] = sums /\ \A n \in 1..a_i : seen'[n] = seen[n]
  BY <1>1, <1>2, Appended
<1>8. TypeOK'
  <2>1. a_i' \in 0..a_len'
    BY <1>1, <1>2, <1>3 DEF a_len
  <2> QED
    BY <1>1, <1>3, <1>4, <1>6, <2>1 DEF Inv, TypeOK, BData
<1>9. BufferInv'
  <2>1. DOMAIN sums' = {}
    BY <1>1
  <2> QED
    BY <1>1, <1>3, <2>1 DEF BufferInv
<1>10. \A n \in DOMAIN seen' :
         /\ b_data'[n].resp = Behavior(seen'[n])
         /\ \A k \in 1..4 : seen'[n][k] \in a_run_target([file.data EXCEPT ![n] = Meant(k, @)])
  <2> TAKE n \in DOMAIN seen'
  <2>1. n \in 1..a_i \/ n = a_i + 1
    BY <1>2, <1>7
  <2>2. CASE n \in 1..a_i
    BY <1>6, <1>7, <2>2 DEF Inv, KeptInv, Records
  <2>3. CASE n = a_i + 1
    <3>1. \A k \in 1..4 : sums[k] \in a_run_target([file.data EXCEPT ![a_i + 1] = Meant(k, @)])
      <4>1. DOMAIN sums = 1..4
        BY <1>1, <1>2
      <4> QED
        BY <1>1, <4>1 DEF Inv, BufferInv
    <3>2. b_data'[n].resp = Behavior(sums)
      BY <1>6, <2>3
    <3> QED
      BY <1>7, <2>3, <3>1, <3>2
  <2> QED
    BY <2>1, <2>2, <2>3
<1>11. \A n \in 1..a_i : b_data'[n].seq # b_data'[n + 1].seq <=> Apart(n)'
  <2> TAKE n \in 1..a_i
  <2>1. n \in 1..(a_i - 1) \/ n = a_i
    BY <1>2
  <2>2. CASE n \in 1..(a_i - 1)
    <3>1. n + 1 \in 1..a_i
      BY <1>2, <2>2
    <3>2. Apart(n)' <=> Apart(n)
      BY <1>7, <3>1 DEF Apart
    <3>3. b_data[n].seq # b_data[n + 1].seq <=> Apart(n)
      BY <1>2, <2>2 DEF Inv, KeptInv, Records
    <3> QED
      BY <1>6, <3>1, <3>2, <3>3
  <2>3. CASE n = a_i
    <3>1. a_i > 0 /\ a_i \in 1..a_i
      BY <1>2, <2>3
    <3>2. prev = seen[a_i] /\ seq_byte = b_data[a_i].seq
      BY <1>1, <3>1 DEF Inv, KeptInv
    <3>3. Apart(n)' <=> AllChange
      <4>1. seen'[n] = prev /\ seen'[n + 1] = sums
        BY <1>7, <2>3, <3>1, <3>2
      <4> QED
        BY <4>1 DEF Apart, AllChange
    <3>4. b_data'[n].seq = seq_byte /\ b_data'[n + 1].seq = seq_byte'
      BY <1>6, <2>3, <3>1, <3>2
    <3> QED
      BY <1>4, <3>3, <3>4
  <2> QED
    BY <2>1, <2>2, <2>3
<1>12. Records'
  <2>1. \A n \in DOMAIN seen' :
          /\ b_data'[n].resp = Behavior(seen[n])'
          /\ \A k \in 1..4 :
               seen'[n][k] \in a_run_target([file.data EXCEPT ![n] = Meant(k, @)])'
    <3>1. \A four : Behavior(four)' = Behavior(four)
      BY <1>1 DEF Behavior
    <3>2. \A n, k : a_run_target([file.data EXCEPT ![n] = Meant(k, @)])'
                     = a_run_target([file.data EXCEPT ![n] = Meant(k, @)])
      BY <1>1, SameRuns
    <3> TAKE n \in DOMAIN seen'
    <3>3. b_data'[n].resp = Behavior(seen[n])'
      BY <1>10, <3>1
    <3>4. ASSUME NEW k \in 1..4
          PROVE  seen'[n][k] \in a_run_target([file.data EXCEPT ![n] = Meant(k, @)])'
      BY <1>10, <3>2
    <3> QED
      BY <3>3, <3>4
  <2>2. Len(seen') - 1 = a_i /\ AllSums' = AllSums
    BY <1>1, <1>2, <1>7, SameRuns
  <2> QED
    BY <1>1, <1>6, <1>7, <1>11, <2>1, <2>2 DEF Records
<1>13. KeptInv'
  <2>1. sums' \in Seq(AllSums')
    BY <1>1
  <2> QED
    BY <1>1, <1>2, <1>6, <1>7, <1>12, <2>1 DEF KeptInv
<1> QED
  BY <1>1, <1>3, <1>8, <1>9, <1>13, NoDump, FileStays DEF Inv

-----------------------------------------------------------------------------
(* The runs of bytes that are printed. *)

LEMMA StartDumpStep ==
  ASSUME Inv, StartDump
  PROVE  Inv'
<1>1. /\ a_phase = "bytes" /\ a_i = a_len /\ a_phase' = "dump" /\ a_i' = 0
      /\ UNCHANGED <<file, a_data, a_cksum, sums, prev, seq_byte, b_data, regions, seen>>
  BY DEF StartDump
<1>2. a_len \in Nat /\ sums = <<>> /\ a_data = file.data /\ Len(seen) = a_len
      /\ regions = <<>>
  BY <1>1 DEF Inv, TypeOK, BufferInv, KeptInv, DumpInv, a_len
<1>3. TypeOK'
  BY <1>1, <1>2 DEF Inv, TypeOK, a_len
<1>4. BufferInv'
  BY <1>1, <1>2 DEF BufferInv
<1>5. KeptInv'
  BY <1>1, <1>2, RecordsStay DEF Inv, KeptInv, a_len
<1>6. DumpInv'
  <2>1. regions' = <<>> /\ DOMAIN <<>> = {} /\ Len(<<>>) = 0
    BY <1>1, <1>2
  <2>2. {r.first : r \in Range(regions')} = {}
    BY <2>1 DEF Range
  <2> QED
    BY <1>1, <2>1, <2>2 DEF DumpInv
<1> QED
  BY <1>1, <1>3, <1>4, <1>5, <1>6, FileStays DEF Inv

\* The run of bytes ahead is the longest without a border.
LEMMA LookAhead ==
  ASSUME Inv, a_phase = "dump", a_i < a_len
  PROVE  /\ rlen \in Nat \ {0} /\ a_i + rlen <= a_len
         /\ \A n \in (a_i + 1)..(a_i + rlen - 1) : ~Apart(n)
         /\ a_i + rlen < a_len => Apart(a_i + rlen)
<1> DEFINE Alike(n) == \A k \in 1..n : b_data[a_i + k].seq = b_data[a_i + 1].seq
           T == {n \in 1..(a_len - a_i) : Alike(n)}
<1>1. /\ a_i \in Nat /\ a_len \in Nat /\ a_len - a_i \in Nat /\ Len(seen) = a_len
  BY DEF Inv, TypeOK, KeptInv, a_len
<1>2. Alike(1)
  OBVIOUS
<1>3. 1 \in T /\ T \subseteq 0..(a_len - a_i)
  BY <1>1, <1>2
<1>4. rlen = Max(T)
  BY DEF rlen
<1>5. rlen \in T /\ \A m \in T : rlen >= m
  <2> HIDE DEF T
  <2> QED
    BY <1>1, <1>3, <1>4, MaxIsGreatest
<1>6. rlen \in 1..(a_len - a_i) /\ Alike(rlen)
  BY <1>5
<1>7. \A n \in 1..(a_len - 1) : b_data[n].seq # b_data[n + 1].seq <=> Apart(n)
  BY <1>1 DEF Inv, KeptInv, Records
<1>8. ASSUME NEW n \in (a_i + 1)..(a_i + rlen - 1)
      PROVE  ~Apart(n)
  <2> DEFINE k == n - a_i
  <2>1. k \in 1..rlen /\ k + 1 \in 1..rlen /\ n = a_i + k /\ n + 1 = a_i + (k + 1)
        /\ n \in 1..(a_len - 1)
    BY <1>1, <1>6
  <2> HIDE DEF k
  <2>2. b_data[a_i + k].seq = b_data[a_i + (k + 1)].seq
    BY <1>6, <2>1
  <2> QED
    BY <1>7, <2>1, <2>2
<1>9. ASSUME a_i + rlen < a_len
      PROVE  Apart(a_i + rlen)
  <2>1. rlen + 1 \in 1..(a_len - a_i) /\ ~(rlen >= rlen + 1)
        /\ a_i + rlen \in 1..(a_len - 1) /\ (a_i + rlen) + 1 = a_i + (rlen + 1)
    BY <1>1, <1>6, <1>9
  <2>2. ~Alike(rlen + 1)
    BY <1>5, <2>1
  <2>3. PICK k \in 1..(rlen + 1) : b_data[a_i + k].seq # b_data[a_i + 1].seq
    BY <2>2
  <2>4. k = rlen + 1
    BY <1>6, <2>3
  <2>5. b_data[a_i + rlen].seq = b_data[a_i + 1].seq
    BY <1>6
  <2> QED
    BY <1>7, <2>1, <2>3, <2>4, <2>5
<1> QED
  BY <1>1, <1>6, <1>8, <1>9

\* The label is the highest response of the run, or one of its refinements.
LEMMA LabelOfRun ==
  ASSUME Inv, a_phase = "dump", a_i < a_len,
         NEW r, r.first = a_i, r.len = rlen,
         r.label = IF rtype = RESP_FIXED THEN Refined(SubSeq(a_data, a_i + 1, a_i + rlen))
                   ELSE rtype
  PROVE  r.label \in RESP_NONE..RESP_SUSPECT /\ Labelled(r)
<1> DEFINE T == {b_data[a_i + k].resp : k \in 1..rlen}
           Always(n) == \A k \in 1..4 : HasEffect(n, k)
           Equal(n) == \A k \in 2..4 : seen[n][k] = seen[n][1]
           Never(n) == \A k \in 1..4 : ~HasEffect(n, k)
<1>1. /\ rlen \in Nat \ {0} /\ a_i + rlen <= a_len /\ a_i \in Nat
      /\ DOMAIN seen = 1..a_len /\ a_len \in Nat
  <2>1. seen \in Seq(Seq(AllSums)) /\ Len(seen) = a_len /\ a_i \in Nat /\ a_len \in Nat
    BY DEF Inv, TypeOK, KeptInv, Records, a_len
  <2> QED
    BY <2>1, LookAhead
<1>2. BytesOf(r) = (a_i + 1)..(a_i + rlen)
  BY DEF BytesOf
<1>3. ASSUME NEW n \in BytesOf(r)
      PROVE  /\ b_data[n].resp \in RESP_NONE..RESP_FIXED /\ b_data[n].resp \in T
             /\ b_data[n].resp = RESP_NONE <=> Never(n)
             /\ b_data[n].resp = RESP_MINOR <=> ~Never(n) /\ ~Always(n)
             /\ b_data[n].resp = RESP_VARIABLE <=> Always(n) /\ ~Equal(n)
             /\ b_data[n].resp = RESP_FIXED <=> Always(n) /\ Equal(n)
  <2>1. n \in DOMAIN seen /\ n - a_i \in 1..rlen /\ a_i + (n - a_i) = n
    BY <1>1, <1>2
  <2>2. b_data[n].resp = Behavior(seen[n])
    BY <2>1 DEF Inv, KeptInv, Records
  <2>3. b_data[n].resp \in T
    <3>1. b_data[a_i + (n - a_i)].resp \in T
      BY <2>1
    <3> QED
      BY <2>1, <3>1
  <2> HIDE DEF T
  <2> QED
    BY <2>2, <2>3, BehaviorSays DEF HasEffect
<1>4. \A t \in T : \E n \in BytesOf(r) : t = b_data[n].resp
  <2> TAKE t \in T
  <2>1. PICK k \in 1..rlen : t = b_data[a_i + k].resp
    OBVIOUS
  <2>2. a_i + k \in BytesOf(r)
    BY <1>1, <1>2
  <2> QED
    BY <2>1, <2>2
<1>5. a_i + 1 \in BytesOf(r)
  BY <1>1, <1>2
<1> HIDE DEF T
<1>6. T \subseteq 0..3 /\ T # {}
  BY <1>3, <1>4, <1>5 DEF RESP_NONE, RESP_FIXED
<1>7. rtype \in T /\ \A t \in T : rtype >= t
  BY <1>6, MaxIsGreatest DEF rtype, T
<1>8. PICK m \in BytesOf(r) : rtype = b_data[m].resp
  BY <1>4, <1>7
<1>9. \A n \in BytesOf(r) : rtype >= b_data[n].resp /\ b_data[n].resp \in 0..3
  BY <1>3, <1>6, <1>7
<1>10. rtype \in 0..3
  BY <1>6, <1>7
<1>11. \A s : Refined(s) \in {RESP_FIXED, RESP_LEN, RESP_CKSUM, RESP_SUSPECT}
  <2> TAKE s
  <2>1. Integer(s) \in {RESP_FIXED, RESP_LEN, RESP_CKSUM}
    BY DEF Integer
  <2> QED
    BY <2>1 DEF Refined
<1>12. r.label \in 3..6 <=> rtype = 3
  BY <1>10, <1>11
    DEF RESP_FIXED, RESP_LEN, RESP_CKSUM, RESP_SUSPECT
<1>13. rtype # 3 => r.label = rtype
  BY DEF RESP_FIXED
<1>14. r.label \in RESP_NONE..RESP_SUSPECT
  BY <1>10, <1>12, <1>13 DEF RESP_NONE, RESP_SUSPECT
<1> DEFINE always == {n \in BytesOf(r) : Always(n)}
           same == {n \in always : Equal(n)}
           never == \A n \in BytesOf(r) : Never(n)
<1>15. rtype = 0 <=> never
  <2>1. ASSUME rtype = 0, NEW n \in BytesOf(r)
        PROVE  Never(n)
    <3>1. b_data[n].resp = 0
      BY <1>9, <2>1
    <3> QED
      BY <1>3, <3>1 DEF RESP_NONE
  <2>2. never => rtype = 0
    BY <1>3, <1>8 DEF RESP_NONE
  <2> QED
    BY <2>1, <2>2
<1>16. rtype = 1 <=> always = {} /\ ~never
  <2>1. ASSUME rtype = 1
        PROVE  always = {} /\ ~never
    <3>1. ~Never(m)
      BY <1>3, <1>8, <2>1 DEF RESP_MINOR
    <3>2. ASSUME NEW n \in BytesOf(r)
          PROVE  ~Always(n)
      <4>1. b_data[n].resp \in 0..1
        BY <1>9, <2>1
      <4>2. b_data[n].resp # 2 /\ b_data[n].resp # 3
        BY <4>1
      <4> QED
        BY <1>3, <4>2 DEF RESP_VARIABLE, RESP_FIXED
    <3> QED
      BY <3>1, <3>2
  <2>2. ASSUME always = {}, ~never
        PROVE  rtype = 1
    <3>1. ~Always(m)
      BY <2>2
    <3>2. rtype # 2 /\ rtype # 3
      BY <1>3, <1>8, <3>1 DEF RESP_VARIABLE, RESP_FIXED
    <3>3. rtype # 0
      BY <1>15, <2>2
    <3> QED
      BY <1>10, <3>2, <3>3
  <2> QED
    BY <2>1, <2>2
<1>17. rtype = 2 <=> always # {} /\ same = {}
  <2>1. ASSUME rtype = 2
        PROVE  always # {} /\ same = {}
    <3>1. Always(m)
      BY <1>3, <1>8, <2>1 DEF RESP_VARIABLE
    <3>2. ASSUME NEW n \in BytesOf(r)
          PROVE  ~(Always(n) /\ Equal(n))
      <4>1. b_data[n].resp # 3
        BY <1>9, <2>1
      <4> QED
        BY <1>3, <4>1 DEF RESP_FIXED
    <3> QED
      BY <3>1, <3>2
  <2>2. ASSUME always # {}, same = {}
        PROVE  rtype = 2
    <3>1. PICK n \in BytesOf(r) : Always(n)
      BY <2>2
    <3>2. ~Equal(n) /\ b_data[n].resp = 2
      BY <1>3, <2>2, <3>1 DEF RESP_VARIABLE
    <3>3. rtype >= 2
      BY <1>9, <3>2
    <3>4. rtype # 3
      BY <1>3, <1>8, <2>2 DEF RESP_FIXED
    <3> QED
      BY <1>10, <3>3, <3>4
  <2> QED
    BY <2>1, <2>2
<1>18. /\ r.label = RESP_NONE <=> never
       /\ r.label = RESP_MINOR <=> always = {} /\ ~never
       /\ r.label = RESP_VARIABLE <=> always # {} /\ same = {}
  <2>1. \A c \in 0..2 : r.label = c <=> rtype = c
    BY <1>10, <1>12, <1>13
  <2> HIDE DEF always, same, never
  <2> QED
    BY <1>15, <1>16, <1>17, <2>1 DEF RESP_NONE, RESP_MINOR, RESP_VARIABLE
<1>19. Labelled(r)
  BY <1>18 DEF Labelled
<1> QED
  BY <1>14, <1>19

Printed == [first : Nat, len : Nat \ {0}, label : RESP_NONE..RESP_SUSPECT]

\* One run more: the borders passed are the starts of the runs.
LEMMA StartsGrow ==
  ASSUME Inv, a_phase = "dump", a_i < a_len
  PROVE  (IF a_i = 0 THEN {} ELSE {0} \cup {n \in 1..(a_i - 1) : Apart(n)}) \cup {a_i}
           = {0} \cup {n \in 1..(a_i + rlen - 1) : Apart(n)}
<1>1. /\ rlen \in Nat \ {0} /\ a_i \in Nat
      /\ \A n \in (a_i + 1)..(a_i + rlen - 1) : ~Apart(n)
      /\ a_i > 0 => Apart(a_i)
  <2>1. a_i \in Nat
    BY DEF Inv, TypeOK, a_len
  <2>2. a_i > 0 => Apart(a_i)
    BY DEF Inv, DumpInv
  <2> QED
    BY <2>1, <2>2, LookAhead
<1>2. \A n : n \in 1..(a_i + rlen - 1) =>
        n \in 1..(a_i - 1) \/ (n = a_i /\ a_i > 0) \/ n \in (a_i + 1)..(a_i + rlen - 1)
  BY <1>1
<1>3. \A n \in 1..(a_i - 1) : n \in 1..(a_i + rlen - 1)
  BY <1>1
<1>4. a_i > 0 => a_i \in 1..(a_i + rlen - 1)
  BY <1>1
<1>5. a_i = 0 => 1..(a_i - 1) = {}
  BY <1>1
<1>6. a_i = 0 \/ a_i > 0
  BY <1>1
<1>7. CASE a_i = 0
  BY <1>1, <1>2, <1>5, <1>7
<1>8. CASE a_i > 0
  <2>1. a_i # 0
    BY <1>1, <1>8
  <2> QED
    BY <1>1, <1>2, <1>3, <1>4, <1>8, <2>1
<1> QED
  BY <1>6, <1>7, <1>8

LEMMA DumpRunStep ==
  ASSUME Inv, DumpRun
  PROVE  Inv'
<1> DEFINE label == IF rtype = RESP_FIXED THEN Refined(SubSeq(a_data, a_i + 1, a_i + rlen))
                    ELSE rtype
           r == [first |-> a_i, len |-> rlen, label |-> label]
<1>1. /\ a_phase = "dump" /\ a_i < a_len
      /\ regions' = Append(regions, r) /\ a_i' = a_i + rlen
      /\ UNCHANGED <<file, a_phase, a_data, a_cksum, sums, prev, seq_byte, b_data, seen>>
  BY DEF DumpRun
<1>2. /\ rlen \in Nat \ {0} /\ a_i + rlen <= a_len
      /\ a_i + rlen < a_len => Apart(a_i + rlen)
  BY <1>1, LookAhead
<1>3. r.label \in RESP_NONE..RESP_SUSPECT /\ Labelled(r)
  BY <1>1, LabelOfRun
<1>4. a_i \in Nat /\ a_len \in Nat /\ regions \in Seq(Printed) /\ sums = <<>>
  BY <1>1 DEF Inv, TypeOK, BufferInv, DumpInv, Printed, a_len
<1>5. r \in Printed /\ r.first = a_i /\ r.len = rlen
  BY <1>2, <1>3, <1>4 DEF Printed
<1> HIDE DEF r
<1>6. /\ regions' \in Seq(Printed) /\ Len(regions') = Len(regions) + 1
      /\ DOMAIN regions' = 1..(Len(regions) + 1) /\ DOMAIN regions = 1..Len(regions)
      /\ Len(regions) \in Nat
      /\ regions'[Len(regions) + 1] = r
      /\ \A n \in 1..Len(regions) : regions'[n] = regions[n]
      /\ regions' # <<>> /\ Range(regions') = Range(regions) \cup {r}
  BY <1>1, <1>4, <1>5, Appended
<1>7. a_i' \in 0..a_len' /\ a_len' = a_len /\ a_i' > 0 /\ a_i' = a_i + rlen
  BY <1>1, <1>2, <1>4 DEF a_len
<1>8. TypeOK'
  <2>1. \A x \in Range(regions') : x.label \in RESP_NONE..RESP_SUSPECT
    BY <1>5, <1>6 DEF Inv, TypeOK, Printed
  <2> QED
    BY <1>1, <1>7, <2>1 DEF Inv, TypeOK
<1>9. BufferInv'
  BY <1>1, <1>4 DEF Inv, BufferInv
<1>10. KeptInv'
  BY <1>1, <1>7, RecordsStay, SameRuns DEF Inv, KeptInv
<1>11. \A n : Apart(n)' = Apart(n)
  BY <1>1 DEF Apart
<1>12. \A x : Labelled(x)' = Labelled(x)
  BY <1>1 DEF Labelled, BytesOf, HasEffect
<1>13. a_i' = End(regions'[Len(regions')])
  BY <1>5, <1>6, <1>7 DEF End
<1>14. ASSUME NEW j \in 1..(Len(regions') - 1)
       PROVE  End(regions'[j]) = regions'[j + 1].first
  <2>1. j \in 1..(Len(regions) - 1) \/ (j = Len(regions) /\ regions # <<>>)
    <3>1. j \in 1..Len(regions) /\ Len(regions) # 0
      BY <1>6
    <3>2. j \in 1..(Len(regions) - 1) \/ j = Len(regions)
      <4>1. \A m \in Nat : j \in 1..m => j \in 1..(m - 1) \/ j = m
        OBVIOUS
      <4> QED
        BY <1>6, <3>1, <4>1
    <3>3. Len(<<>>) = 0
      OBVIOUS
    <3>4. regions # <<>>
      BY <3>1, <3>3
    <3> QED
      BY <3>2, <3>4
  <2>2. CASE j \in 1..(Len(regions) - 1)
    <3>1. End(regions[j]) = regions[j + 1].first
      BY <1>1, <2>2 DEF Inv, DumpInv
    <3>2. j \in 1..Len(regions) /\ j + 1 \in 1..Len(regions)
      BY <1>6, <2>2
    <3> QED
      BY <1>6, <3>1, <3>2
  <2>3. CASE j = Len(regions) /\ regions # <<>>
    <3>1. End(regions[Len(regions)]) = a_i
      BY <1>1, <2>3 DEF Inv, DumpInv
    <3>2. regions'[j] = regions[Len(regions)] /\ regions'[j + 1] = r
      BY <1>6, <2>3
    <3> QED
      BY <1>5, <3>1, <3>2
  <2> QED
    BY <2>1, <2>2, <2>3
<1>15. {x.first : x \in Range(regions')} = {0} \cup {n \in 1..(a_i' - 1) : Apart(n)}
  <2>1. {x.first : x \in Range(regions')} = {x.first : x \in Range(regions)} \cup {a_i}
    BY <1>5, <1>6
  <2>2. {x.first : x \in Range(regions)} =
          IF a_i = 0 THEN {} ELSE {0} \cup {n \in 1..(a_i - 1) : Apart(n)}
    BY <1>1 DEF Inv, DumpInv
  <2>3. {x.first : x \in Range(regions')} = {0} \cup {n \in 1..(a_i + rlen - 1) : Apart(n)}
    <3>1. (IF a_i = 0 THEN {} ELSE {0} \cup {n \in 1..(a_i - 1) : Apart(n)}) \cup {a_i}
            = {0} \cup {n \in 1..(a_i + rlen - 1) : Apart(n)}
      BY <1>1, StartsGrow
    <3> QED
      BY <2>1, <2>2, <3>1
  <2>4. a_i' - 1 = a_i + rlen - 1
    BY <1>2, <1>4, <1>7
  <2> QED
    BY <2>3, <2>4
<1>16. ASSUME NEW j \in DOMAIN regions'
       PROVE  Labelled(regions'[j])
  <2>1. j \in DOMAIN regions \/ j = Len(regions) + 1
    BY <1>6
  <2>2. CASE j \in DOMAIN regions
    BY <1>1, <1>6, <2>2 DEF Inv, DumpInv
  <2>3. CASE j = Len(regions) + 1
    BY <1>3, <1>6, <2>3
  <2> QED
    BY <2>1, <2>2, <2>3
<1>17. DumpInv'
  <2>1. {x.first : x \in Range(regions')} = {0} \cup {n \in 1..(a_i' - 1) : Apart(n)'}
    BY <1>11, <1>15
  <2>2. \A j \in DOMAIN regions' : Labelled(regions[j])'
    BY <1>1, <1>16 DEF Labelled, BytesOf, HasEffect
  <2>3. \A j \in 1..(Len(regions') - 1) : End(regions[j])' = regions'[j + 1].first
    BY <1>14 DEF End
  <2>4. a_i' < a_len' => Apart(a_i)'
    <3>1. Apart(a_i)' <=> \A k \in 1..4 : seen[a_i'][k] # seen[a_i' + 1][k]
      BY <1>1 DEF Apart
    <3>2. Apart(a_i + rlen) <=> \A k \in 1..4 : seen[a_i'][k] # seen[a_i' + 1][k]
      BY <1>7 DEF Apart
    <3> QED
      BY <1>2, <1>7, <3>1, <3>2
  <2>5. a_i' = End(regions[Len(regions)])' /\ a_i' # 0
    BY <1>7, <1>13 DEF End
  <2> QED
    BY <1>1, <1>6, <2>1, <2>2, <2>3, <2>4, <2>5 DEF DumpInv, Printed
<1> QED
  BY <1>1, <1>8, <1>9, <1>10, <1>17, FileStays DEF Inv

\* The end of the file, and Ctrl-C.
LEMMA EndStep ==
  ASSUME Inv, Finish \/ Abort \/ UNCHANGED analyzeVars
  PROVE  Inv'
<1>1. /\ UNCHANGED <<file, a_data, a_cksum, a_i, sums, prev, seq_byte, b_data, regions, seen>>
      /\ \/ a_phase = "dump" /\ a_i = a_len /\ a_phase' = "done"
         \/ a_phase \in {"dry_run", "bytes"} /\ a_phase' = "aborted"
         \/ UNCHANGED a_phase
  BY DEF Finish, Abort, analyzeVars
<1>2. TypeOK'
  BY <1>1 DEF Inv, TypeOK, a_len
<1>3. BufferInv'
  <2>1. \A buf : a_run_target(buf)' = a_run_target(buf)
    BY <1>1, SameRuns
  <2>2. \A k : a_run_target([file.data EXCEPT ![a_i + 1] = Meant(k, @)])'
                = a_run_target([file.data EXCEPT ![a_i + 1] = Meant(k, @)])
    BY <1>1, <2>1
  <2> QED
    BY <1>1, <2>2 DEF Inv, BufferInv, a_len
<1>4. KeptInv'
  BY <1>1, RecordsStay, SameRuns DEF Inv, KeptInv, a_len
<1>5. DumpInv'
  <2>1. \A n : Apart(n)' = Apart(n)
    BY <1>1 DEF Apart
  <2>2. Apart(a_i)' = Apart(a_i)
    BY <1>1 DEF Apart
  <2>3. (\A j \in DOMAIN regions : Labelled(regions[j]))'
          <=> \A j \in DOMAIN regions : Labelled(regions[j])
    BY <1>1 DEF Labelled, BytesOf, HasEffect
  <2> QED
    BY <1>1, <2>1, <2>2, <2>3 DEF Inv, DumpInv, End, a_len
<1> QED
  BY <1>1, <1>2, <1>3, <1>4, <1>5, FileStays DEF Inv

-----------------------------------------------------------------------------

LEMMA NextInv == Inv /\ [AnalyzeNext]_analyzeVars => Inv'
  BY FirstRunStep, TestByteStep, ClassifyStep, StartDumpStep, DumpRunStep, EndStep DEF AnalyzeNext

\* For every file that is not empty and every target, crash, hang and timing of
\* its runs: the checksums are those of the file with one byte changed as meant,
\* what is printed covers the file once with a border exactly where all four
\* checksums change, and each label holds of every change in its run of bytes.
THEOREM AnalysisIsRight == AnalyzeSpec => []AnalysisRight
  BY InitInv, NextInv, InvGives, PTL DEF AnalyzeSpec
=============================================================================
