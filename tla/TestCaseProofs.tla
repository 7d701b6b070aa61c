--------------------------- MODULE TestCaseProofs ---------------------------
(***************************************************************************)
(* Proofs about the two programs that change a test case as they run it.   *)
(* fuzz_one, for every entry, dictionary, table and limit: the cache of    *)
(* tokens, what it is offered, the buffers every stage gets back, the      *)
(* bounds of havoc, and that the deterministic stages leave nothing out.   *)
(* afl-tmin, for every target, test case and size of blocks: what it       *)
(* writes behaves as the original did, and has no byte to spare.           *)
(***************************************************************************)
EXTENDS FuzzOne, Tmin, FiniteSetTheorems, SequenceTheorems, WellFoundedInduction, TLAPS

-----------------------------------------------------------------------------
(* Numbers. *)

\* The least number of a set, and induction as a statement about sets.
LEMMA Least ==
  ASSUME NEW T, T \subseteq Nat, T # {}
  PROVE  \E n \in T : \A m \in T : n <= m
<1> DEFINE less == OpToRel(<, Nat)
<1>1. \A m, n \in Nat : <<m, n>> \in less <=> m < n
  BY DEF OpToRel
<1>2. IsWellFoundedOn(less, Nat)
  BY NatLessThanWellFounded
<1> HIDE DEF less
<1>3. PICK n \in T : \A m \in T : ~(<<m, n>> \in less)
  BY <1>2, WFMin
<1>4. n \in Nat /\ \A m \in T : m \in Nat /\ ~(m < n)
  BY <1>1, <1>3
<1>5. \A x, y \in Nat : ~(x < y) => y <= x
  OBVIOUS
<1> QED
  BY <1>4, <1>5

LEMMA Induct ==
  ASSUME NEW T, 0 \in T, \A n \in Nat : n \in T => n + 1 \in T
  PROVE  Nat \subseteq T
<1> SUFFICES ASSUME Nat \ T # {}
             PROVE  FALSE
  OBVIOUS
<1>1. PICK n \in Nat \ T : \A m \in Nat \ T : n <= m
  BY Least
<1>2. n # 0 /\ n - 1 \in Nat /\ n = (n - 1) + 1 /\ ~(n <= n - 1)
  BY <1>1
<1>3. n - 1 \in T
  BY <1>1, <1>2
<1> QED
  BY <1>1, <1>2, <1>3

\* Min and Max, where there are some.
LEMMA MinIsLeast ==
  ASSUME NEW T, T \subseteq Nat, T # {}
  PROVE  Min(T) \in T /\ \A m \in T : Min(T) <= m
<1>1. PICK n \in T : \A m \in T : n <= m
  BY Least
<1> QED
  BY <1>1 DEF Min

LEMMA MaxIsGreatest ==
  ASSUME NEW T, NEW b \in Nat, T \subseteq 0..b, T # {}
  PROVE  Max(T) \in T /\ \A m \in T : Max(T) >= m
<1> DEFINE U == {n \in Nat : b - n \in T}
<1>1. \A m \in T : b - m \in U
  OBVIOUS
<1>2. U # {} /\ U \subseteq Nat
  BY <1>1
<1> HIDE DEF U
<1>3. PICK n \in U : \A m \in U : n <= m
  BY <1>2, Least
<1>4. n \in Nat /\ b - n \in T
  BY <1>3 DEF U
<1>5. \A m \in T : n <= b - m
  BY <1>1, <1>3
<1>6. \A m \in T : b - n >= m
  <2> TAKE m \in T
  <2>1. m \in Nat /\ n <= b - m
    BY <1>5
  <2> QED
    BY <1>4, <2>1
<1> QED
  BY <1>4, <1>6 DEF Max

LEMMA Product ==
  ASSUME NEW x \in Nat, NEW y \in Nat
  PROVE  x * y \in Nat
  OBVIOUS

LEMMA Quotient ==
  ASSUME NEW x \in Nat, NEW y \in Nat \ {0}
  PROVE  x \div y \in Nat
  OBVIOUS

-----------------------------------------------------------------------------
(* Constants. *)

LEMMA Limits ==
  /\ MIN_AUTO_EXTRA \in Nat /\ MAX_AUTO_EXTRA \in Nat /\ MIN_AUTO_EXTRA > 1
  /\ HAVOC_MIN \in Nat \ {0} /\ HAVOC_MAX_MULT \in Nat \ {0} /\ havoc_div \in Nat \ {0}
  /\ HAVOC_CYCLES_INIT \in Nat /\ HAVOC_CYCLES \in Nat /\ SPLICE_HAVOC \in Nat
  /\ HAVOC_STACK_POW2 \in Nat /\ SPLICE_CYCLES \in Nat /\ MAX_FILE \in Nat
  /\ USE_AUTO_EXTRAS \in Nat \ {0} /\ MAX_AUTO_EXTRAS \in Nat
  /\ 2 * USE_AUTO_EXTRAS <= MAX_AUTO_EXTRAS
  BY FuzzAssumption, AutoAssumption

LEMMA Blocks ==
  /\ HAVOC_BLK_SMALL \in Nat \ {0} /\ HAVOC_BLK_MEDIUM \in Nat /\ HAVOC_BLK_LARGE \in Nat
  /\ HAVOC_BLK_XL \in Nat
  /\ HAVOC_BLK_SMALL <= HAVOC_BLK_MEDIUM /\ HAVOC_BLK_MEDIUM <= HAVOC_BLK_LARGE
  /\ HAVOC_BLK_LARGE <= HAVOC_BLK_XL
  BY FuzzAssumption

LEMMA OrderIs ==
  /\ DOMAIN Order = 1..16
  /\ Order[1] = "flip1" /\ Order[2] = "flip2" /\ Order[3] = "flip4" /\ Order[4] = "flip8"
  /\ Order[5] = "flip16" /\ Order[6] = "flip32" /\ Order[7] = "arith8"
  /\ Order[8] = "arith16" /\ Order[9] = "arith32" /\ Order[10] = "int8"
  /\ Order[11] = "int16" /\ Order[12] = "int32" /\ Order[13] = "ext_UO"
  /\ Order[14] = "ext_UI" /\ Order[15] = "ext_AO" /\ Order[16] = "passed"
  BY DEF Order

LEMMA OrderOnce ==
  \A m, n \in 1..16 : Order[m] = Order[n] => m = n
  BY OrderIs

LEMMA AfterIs ==
  \A n \in 1..15 : After(Order[n]) = Order[n + 1]
<1> TAKE n \in 1..15
<1>1. n \in DOMAIN Order
  BY OrderIs
<1>2. \A k \in DOMAIN Order : Order[k] = Order[n] <=> k = n
  BY OrderIs, OrderOnce
<1>3. (CHOOSE k \in DOMAIN Order : Order[k] = Order[n]) = n
  BY <1>1, <1>2
<1>4. After(Order[n]) = Order[1 + n]
  BY <1>3, Zenon DEF After
<1> QED
  BY <1>4

Det == {Order[n] : n \in DOMAIN Order}

LEMMA DetIs ==
  Det = {"flip1", "flip2", "flip4", "flip8", "flip16", "flip32", "arith8", "arith16",
         "arith32", "int8", "int16", "int32", "ext_UO", "ext_UI", "ext_AO", "passed"}
<1>1. \A s : s \in Det <=> \E n \in 1..16 : s = Order[n]
  BY OrderIs DEF Det
<1> QED
  BY <1>1, OrderIs

\* flip1 is followed by flip2, and no stage by flip1.
LEMMA AfterInDet ==
  \A s \in Det \ {"passed"} :
    After(s) \in Det /\ After(s) # "flip1" /\ (After(s) = "flip2" <=> s = "flip1")
<1> TAKE s \in Det \ {"passed"}
<1>1. PICK n \in 1..16 : s = Order[n]
  BY OrderIs DEF Det
<1>2. n \in 1..15
  BY <1>1, OrderIs
<1>3. After(s) = Order[n + 1] /\ n + 1 \in 2..16
  BY <1>1, <1>2, AfterIs
<1>4. Order[n + 1] \in Det
  BY <1>3, OrderIs DEF Det
<1>5. Order[n + 1] # Order[1]
  BY <1>3, OrderOnce
<1>6. Order[n + 1] = Order[2] <=> n = 1
  BY <1>2, <1>3, OrderOnce
<1>7. s = Order[1] <=> n = 1
  BY <1>1, OrderOnce
<1> QED
  BY <1>3, <1>4, <1>5, <1>6, <1>7, OrderIs

-----------------------------------------------------------------------------
(* The dictionary. *)

LEMMA SameSwaps ==
  ASSUME NEW S, NEW t \in Seq(S), NEW u \in Seq(S)
  PROVE  Same(t, t) /\ (Same(t, u) => Same(u, t))
<1>1. DOMAIN t = 1..Len(t) /\ DOMAIN u = 1..Len(u)
  OBVIOUS
<1> QED
  BY <1>1 DEF Same

\* What AutoInv rests on.
AutoInd ==
  /\ AutoInv
  /\ IsFiniteSet(DOMAIN a_extras) /\ DOMAIN a_extras \subseteq Seq(Byte)

\* The token joins the cache, or is there already.
LEMMA CollectKeeps ==
  ASSUME AutoInd, NEW t \in Seq(Byte), Collect(t)
  PROVE  /\ IsFiniteSet(DOMAIN a_extras') /\ DOMAIN a_extras' \subseteq Seq(Byte)
         /\ Cardinality(DOMAIN a_extras') <= MAX_AUTO_EXTRAS
         /\ \A v, u \in DOMAIN a_extras' : Same(v, u) => v = u
<1> DEFINE D == DOMAIN a_extras
<1>0. /\ IsFiniteSet(D) /\ D \subseteq Seq(Byte) /\ Cardinality(D) <= MAX_AUTO_EXTRAS
      /\ \A v, u \in D : Same(v, u) => v = u
      /\ MAX_AUTO_EXTRAS \in Nat /\ Cardinality(D) \in Nat
  BY Limits, FS_CardinalityType DEF AutoInd, AutoInv
<1>1. ASSUME NEW u \in D, a_extras' = [a_extras EXCEPT ![u] = @ + 1]
      PROVE  DOMAIN a_extras' = D
  BY <1>1
<1>2. ASSUME NEW old, old \subseteq D, \A u \in D : ~Same(u, t),
             IsFiniteSet(D \ old), Cardinality(D \ old) < MAX_AUTO_EXTRAS,
             a_extras' = New(t, old)
      PROVE  /\ IsFiniteSet(DOMAIN a_extras') /\ DOMAIN a_extras' \subseteq Seq(Byte)
             /\ Cardinality(DOMAIN a_extras') <= MAX_AUTO_EXTRAS
             /\ \A v, u \in DOMAIN a_extras' : Same(v, u) => v = u
  <2>1. DOMAIN a_extras' = (D \ old) \cup {t}
    BY <1>2 DEF New
  <2>2. t \notin D
    BY <1>2, SameSwaps
  <2>3. IsFiniteSet((D \ old) \cup {t}) /\ Cardinality((D \ old) \cup {t}) = Cardinality(D \ old) + 1
    BY <1>2, <2>2, FS_AddElement
  <2>4. Cardinality(D \ old) \in Nat
    BY <1>2, FS_CardinalityType
  <2>5. \A v, u \in (D \ old) \cup {t} : Same(v, u) => v = u
    <3> SUFFICES ASSUME NEW v \in (D \ old) \cup {t}, NEW u \in (D \ old) \cup {t},
                        Same(v, u)
                 PROVE  v = u
      OBVIOUS
    <3>1. v \in Seq(Byte) /\ u \in Seq(Byte)
      BY <1>0
    <3>2. Same(u, v)
      BY <3>1, SameSwaps
    <3> QED
      BY <1>0, <1>2, <3>2
  <2> QED
    BY <1>0, <1>2, <2>1, <2>3, <2>4, <2>5
<1>3. CASE \E u \in D : Same(u, t) /\ a_extras' = [a_extras EXCEPT ![u] = @ + 1]
  BY <1>0, <1>1, <1>3
<1>4. CASE /\ \A u \in D : ~Same(u, t)
           /\ Cardinality(D) < MAX_AUTO_EXTRAS /\ a_extras' = New(t, {})
  <2>1. D \ {} = D
    OBVIOUS
  <2> QED
    BY <1>0, <1>2, <1>4, <2>1
<1>5. CASE /\ \A u \in D : ~Same(u, t)
           /\ Cardinality(D) = MAX_AUTO_EXTRAS
           /\ \E old \in D : a_extras' = New(t, {old})
  <2>1. PICK old \in D : a_extras' = New(t, {old})
    BY <1>5
  <2>2. IsFiniteSet(D \ {old}) /\ Cardinality(D \ {old}) = Cardinality(D) - 1
    BY <1>0, <2>1, FS_RemoveElement
  <2>3. Cardinality(D \ {old}) < MAX_AUTO_EXTRAS
    BY <1>0, <1>5, <2>2
  <2> QED
    BY <1>2, <1>5, <2>1, <2>2, <2>3
<1> HIDE DEF D
<1> QED
  BY <1>3, <1>4, <1>5 DEF Collect, D

\* Every operation on the dictionaries.
LEMMA AutoKeeps ==
  ASSUME AutoInd,
         \/ \E t \in Seq(Byte) : maybe_add_auto(t)
         \/ save_auto \/ \E tokens : load_extras(tokens)
         \/ UNCHANGED autoVars
  PROVE  AutoInd'
<1>1. ASSUME NEW t \in Seq(Byte), maybe_add_auto(t)
      PROVE  AutoInd'
  <2>1. CASE Rejected(t)
    BY <1>1, <2>1 DEF maybe_add_auto, AutoInd, AutoInv, Leads
  <2>2. CASE ~Rejected(t)
    <3>1. Collect(t) /\ Leads(front', a_extras') /\ auto_changed' = TRUE
      BY <1>1, <2>2 DEF maybe_add_auto
    <3> QED
      BY <3>1, CollectKeeps DEF AutoInd, AutoInv, Leads
  <2> QED
    BY <2>1, <2>2
<1>2. CASE save_auto
  BY <1>2 DEF save_auto, AutoInd, AutoInv, Leads
<1>3. CASE \E tokens : load_extras(tokens)
  BY <1>3 DEF load_extras, AutoInd, AutoInv, Leads
<1>4. CASE UNCHANGED autoVars
  BY <1>4 DEF autoVars, AutoInd, AutoInv, Leads
<1> QED
  BY <1>1, <1>2, <1>3, <1>4

\* What an earlier session saved obeys the limit; a token that is there twice is
\* held once.
LEMMA LoadKeeps ==
  ASSUME entry \in Entries, saved = {}, load_auto(entry.auto)
  PROVE  AutoInd'
<1> DEFINE files == entry.auto
           read == {k \in DOMAIN files :
                      /\ k <= USE_AUTO_EXTRAS
                      /\ Len(files[k]) \in MIN_AUTO_EXTRA..MAX_AUTO_EXTRA
                      /\ ~Rejected(files[k])}
           new == {k \in read : \A j \in read : j < k => ~Same(files[j], files[k])}
           tokens == {files[k] : k \in new}
           first == [k \in new |-> files[k]]
<1>0. files \in Seq(Seq(Byte))
  BY FuzzAssumption DEF EntryType
<1>1. /\ DOMAIN a_extras' = tokens /\ front' = tokens /\ saved' = saved
      /\ auto_changed' = (read # {})
  BY DEF load_auto
<1>2. new \subseteq 1..USE_AUTO_EXTRAS
  BY <1>0, Limits
<1>3. tokens \subseteq Seq(Byte)
  BY <1>0
<1>4. \A t, u \in tokens : Same(t, u) => t = u
  <2>1. SUFFICES ASSUME NEW j \in new, NEW k \in new, Same(files[j], files[k])
                 PROVE  files[j] = files[k]
    OBVIOUS
  <2>2. ~(j < k)
    BY <2>1
  <2>3. files[j] \in Seq(Byte) /\ files[k] \in Seq(Byte)
    BY <1>0
  <2> HIDE DEF files
  <2>4. Same(files[k], files[j])
    BY <2>1, <2>3, SameSwaps
  <2>5. ~(k < j)
    BY <2>4
  <2> QED
    BY <1>2, <2>2, <2>5
<1> HIDE DEF read
<1>5. IsFiniteSet(tokens) /\ Cardinality(tokens) <= USE_AUTO_EXTRAS
  <2>1. IsFiniteSet(1..USE_AUTO_EXTRAS) /\ Cardinality(1..USE_AUTO_EXTRAS) = USE_AUTO_EXTRAS
    BY FS_Interval, Limits
  <2>2. IsFiniteSet(new) /\ Cardinality(new) <= USE_AUTO_EXTRAS /\ Cardinality(new) \in Nat
    BY <1>2, <2>1, FS_Subset, FS_CardinalityType
  <2>3. first \in Surjection(new, tokens)
    BY DEF Surjection
  <2>4. IsFiniteSet(tokens) /\ Cardinality(tokens) <= Cardinality(new)
    BY <2>2, <2>3, FS_Surjection
  <2> QED
    BY <2>2, <2>4, FS_CardinalityType, Limits
<1>6. read = {} => tokens = {}
  OBVIOUS
<1> HIDE DEF tokens
<1>7. Cardinality(tokens) \in Nat /\ Cardinality(tokens) <= MAX_AUTO_EXTRAS
  BY <1>5, Limits, FS_CardinalityType
<1>8. Leads(front', a_extras')
  <2>1. Cardinality(tokens) = IF Cardinality(tokens) < USE_AUTO_EXTRAS
                              THEN Cardinality(tokens) ELSE USE_AUTO_EXTRAS
    BY <1>5, <1>7, Limits
  <2> QED
    BY <1>1, <2>1 DEF Leads
<1>9. ~auto_changed' => saved' = front'
  BY <1>1, <1>6
<1> QED
  BY <1>1, <1>3, <1>4, <1>5, <1>7, <1>8, <1>9 DEF AutoInd, AutoInv, Leads

-----------------------------------------------------------------------------
(* The tokens put over one place of the buffer, one after the other. *)

PutToken(prev, t) ==
  IF Useless(t, prev.buf) THEN prev
  ELSE [buf |-> Put(prev.buf, i, t), last |-> Len(t),
        ran |-> prev.ran \cup {Put(prev.buf, i, t)}]

NoToken == [buf |-> out_buf, last |-> 0, ran |-> {}]

Loop(g, ts, n) ==
  g = [k \in 0..n |-> IF k = 0 THEN NoToken ELSE PutToken(g[k - 1], ts[k])]

LEMMA LoopExists ==
  ASSUME NEW ts
  PROVE  \A n \in Nat : \E g : Loop(g, ts, n)
<1> DEFINE T == {n \in Nat : \E g : Loop(g, ts, n)}
<1>1. 0 \in T
  <2> DEFINE g == [k \in 0..0 |-> NoToken]
  <2>1. Loop(g, ts, 0)
    BY DEF Loop
  <2> QED
    BY <2>1
<1>2. ASSUME NEW n \in Nat, n \in T
      PROVE  n + 1 \in T
  <2>1. PICK g : Loop(g, ts, n)
    BY <1>2
  <2> DEFINE h == [k \in 0..(n + 1) |-> IF k = n + 1 THEN PutToken(g[n], ts[k]) ELSE g[k]]
  <2>2. \A k \in 0..n : g[k] = IF k = 0 THEN NoToken ELSE PutToken(g[k - 1], ts[k])
    BY <2>1 DEF Loop
  <2>3. \A k \in 0..(n + 1) :
          h[k] = IF k = 0 THEN NoToken ELSE PutToken(h[k - 1], ts[k])
    <3> TAKE k \in 0..(n + 1)
    <3>1. CASE k = n + 1
      <4>1. h[k - 1] = g[n] /\ h[k] = PutToken(g[n], ts[k]) /\ k # 0
        BY <3>1
      <4> QED
        BY <4>1
    <3>2. CASE k \in 1..n
      <4>1. h[k - 1] = g[k - 1] /\ h[k] = g[k] /\ k # 0 /\ k \in 0..n
        BY <3>2
      <4> QED
        BY <4>1, <2>2
    <3>3. CASE k = 0
      <4>1. h[0] = g[0] /\ 0 \in 0..n
        OBVIOUS
      <4> QED
        BY <3>3, <4>1, <2>2
    <3> QED
      BY <3>1, <3>2, <3>3
  <2>4. h = [k \in 0..(n + 1) |-> h[k]]
    OBVIOUS
  <2> HIDE DEF h
  <2>5. Loop(h, ts, n + 1)
    BY <2>3, <2>4 DEF Loop
  <2> QED
    BY <2>5
<1> HIDE DEF T
<1>3. Nat \subseteq T
  BY <1>1, <1>2, Induct
<1> QED
  BY <1>3 DEF T

LEMMA OverwrittenIsLoop ==
  ASSUME NEW ts, Len(ts) \in Nat
  PROVE  \E g : Loop(g, ts, Len(ts)) /\ Overwritten(ts) = g[Len(ts)]
<1>1. Overwritten(ts) = (CHOOSE g : Loop(g, ts, Len(ts)))[Len(ts)]
  BY DEF Overwritten, Loop, NoToken, PutToken
<1>2. \E g : Loop(g, ts, Len(ts))
  BY LoopExists
<1> QED
  BY <1>1, <1>2, Zenon

\* What is changed so far lies under the last token: they are sorted by length.
Under(state, bound) ==
  /\ DOMAIN state.buf = DOMAIN out_buf
  /\ state.last \in Nat /\ state.last <= bound
  /\ state.last = 0 \/ state.last <= len - i
  /\ \A p \in DOMAIN out_buf :
       p \notin (i + 1)..(i + state.last) => state.buf[p] = out_buf[p]

LEMMA PutTokenUnder ==
  ASSUME NEW prev, NEW t \in Seq(Byte), i \in Nat, len \in Nat, out_buf \in Seq(Byte),
         NEW b \in Nat, Under(prev, b), b <= Len(t)
  PROVE  Under(PutToken(prev, t), Len(t))
<1>1. CASE Useless(t, prev.buf)
  BY <1>1 DEF Under, PutToken
<1>2. CASE ~Useless(t, prev.buf)
  <2>1. PutToken(prev, t) = [buf |-> Put(prev.buf, i, t), last |-> Len(t),
                             ran |-> prev.ran \cup {Put(prev.buf, i, t)}]
    BY <1>2 DEF PutToken
  <2>2. Len(t) \in Nat /\ Len(t) <= len - i
    BY <1>2 DEF Useless
  <2>3. DOMAIN out_buf \subseteq Nat
    OBVIOUS
  <2>4. \A p \in DOMAIN out_buf : p \notin (i + 1)..(i + Len(t)) =>
          Put(prev.buf, i, t)[p] = out_buf[p]
    BY <2>2, <2>3 DEF Under, Put
  <2>5. DOMAIN Put(prev.buf, i, t) = DOMAIN out_buf
    BY DEF Under, Put
  <2> QED
    BY <2>1, <2>2, <2>4, <2>5 DEF Under
<1> QED
  BY <1>1, <1>2

\* The length of the token before.
Bound(ts, k) == IF k = 0 THEN 0 ELSE Len(ts[k])

LEMMA LoopUnder ==
  ASSUME NEW n \in Nat, NEW ts \in [1..n -> Seq(Byte)], NEW g, Loop(g, ts, n),
         \A k, m \in 1..n : k < m => Len(ts[k]) <= Len(ts[m]),
         i \in Nat, len \in Nat, out_buf \in Seq(Byte)
  PROVE  \A k \in 0..n : Under(g[k], Bound(ts, k)) /\ Bound(ts, k) \in Nat
<1> DEFINE T == {k \in Nat : k <= n => Under(g[k], Bound(ts, k))}
<1>0. \A k \in 0..n : Bound(ts, k) \in Nat
  BY DEF Bound
<1>1. 0 \in T
  <2>1. g[0] = NoToken
    BY DEF Loop
  <2>2. Under(NoToken, 0)
    BY DEF Under, NoToken
  <2> QED
    BY <2>1, <2>2 DEF Bound
<1>2. ASSUME NEW k \in Nat, k \in T
      PROVE  k + 1 \in T
  <2> SUFFICES ASSUME k + 1 <= n
               PROVE  Under(g[k + 1], Len(ts[k + 1]))
    BY <1>2 DEF Bound
  <2>1. k + 1 \in 1..n /\ k \in 0..n /\ k + 1 # 0 /\ (k + 1) - 1 = k
    BY <1>2
  <2>2. g[k + 1] = PutToken(g[k], ts[k + 1])
    BY <2>1 DEF Loop
  <2>3. Under(g[k], Bound(ts, k)) /\ Bound(ts, k) \in Nat
    BY <1>0, <1>2, <2>1
  <2>4. Bound(ts, k) <= Len(ts[k + 1]) /\ ts[k + 1] \in Seq(Byte)
    BY <2>1 DEF Bound
  <2> QED
    BY <2>2, <2>3, <2>4, PutTokenUnder
<1> HIDE DEF T
<1>3. Nat \subseteq T
  BY <1>1, <1>2, Induct
<1> QED
  BY <1>0, <1>3 DEF T

\* The memcpy at the end of the loop puts the buffer right.
LEMMA Restored ==
  ASSUME NEW tokens, IsFiniteSet(tokens), tokens \subseteq Seq(Byte),
         NEW ts \in Sorted(tokens),
         i \in Nat, in_buf \in Seq(Byte), out_buf = in_buf
  PROVE  Put(Overwritten(ts).buf, i,
             SubSeq(in_buf, i + 1, i + Overwritten(ts).last)) = in_buf
<1> DEFINE n == Len(ts)
           w == Overwritten(ts)
           old == SubSeq(in_buf, i + 1, i + w.last)
<1>1. Cardinality(tokens) \in Nat
  BY FS_CardinalityType
<1>2. ts \in [1..Cardinality(tokens) -> tokens]
  BY DEF Sorted, SetToSeqs
<1>3. n = Cardinality(tokens) /\ ts \in [1..n -> Seq(Byte)] /\ n \in Nat /\ DOMAIN ts = 1..n
  BY <1>1, <1>2
<1>4. \A k, m \in 1..n : k < m => Len(ts[k]) <= Len(ts[m])
  BY <1>3 DEF Sorted
<1>5. len \in Nat /\ out_buf \in Seq(Byte) /\ DOMAIN in_buf = 1..len
  BY DEF len
<1>6. PICK g : Loop(g, ts, n) /\ w = g[n]
  BY <1>3, OverwrittenIsLoop
<1>7. \E b \in Nat : Under(w, b)
  <2> HIDE DEF n, w
  <2>1. n \in 0..n
    BY <1>3
  <2> QED
    BY <1>3, <1>4, <1>5, <1>6, <2>1, LoopUnder
<1> HIDE DEF n, w
<1>8. /\ DOMAIN w.buf = 1..len /\ w.last \in Nat
      /\ w.last = 0 \/ w.last <= len - i
      /\ \A p \in 1..len : p \notin (i + 1)..(i + w.last) => w.buf[p] = in_buf[p]
  BY <1>5, <1>7 DEF Under
<1>9. Len(old) = w.last /\ \A p \in 1..w.last : old[p] = in_buf[i + p]
  <2>1. CASE w.last = 0
    BY <2>1
  <2>2. CASE w.last # 0
    <3>1. i + 1 \in 1..len /\ i + w.last \in 1..len /\ len = Len(in_buf)
      BY <2>2, <1>5, <1>8 DEF len
    <3>2. in_buf \in Seq(Byte) /\ (i + w.last) - (i + 1) + 1 = w.last
      BY <1>5, <1>8
    <3>3. Len(old) = (i + w.last) - (i + 1) + 1
      BY <3>1, <3>2, <1>8
    <3>4. ASSUME NEW p \in 1..w.last
          PROVE  old[p] = in_buf[i + p]
      <4>1. old[p] = in_buf[(i + 1) + p - 1]
        BY <3>1, <3>2, <1>8, <1>5
      <4>2. (i + 1) + p - 1 = i + p
        BY <1>5
      <4> QED
        BY <4>1, <4>2
    <3> QED
      BY <3>2, <3>3, <3>4
  <2> QED
    BY <2>1, <2>2
<1> HIDE DEF old
<1>10. \A p \in 1..len : Put(w.buf, i, old)[p] = in_buf[p]
  <2> TAKE p \in 1..len
  <2>1. CASE p \in (i + 1)..(i + w.last)
    <3>1. p - i \in 1..w.last /\ i + (p - i) = p
      BY <2>1, <1>5, <1>8
    <3>2. Put(w.buf, i, old)[p] = old[p - i]
      BY <2>1, <1>8, <1>9 DEF Put
    <3> QED
      BY <3>1, <3>2, <1>9
  <2>2. CASE p \notin (i + 1)..(i + w.last)
    BY <2>2, <1>8, <1>9 DEF Put
  <2> QED
    BY <2>1, <2>2
<1>11. Put(w.buf, i, old) = [p \in 1..len |-> Put(w.buf, i, old)[p]]
  BY <1>8 DEF Put
<1>12. in_buf = [p \in 1..len |-> in_buf[p]]
  BY <1>5
<1> QED
  BY <1>10, <1>11, <1>12 DEF w, old

-----------------------------------------------------------------------------
(* The invariant. *)

Before == {"load", "load extras", "score"}
AfterDet == {"havoc", "round", "tweak", "splice", "over"}

EntryFits ==
  /\ entry \in EntryType /\ Len(entry.buf) \in 1..MAX_FILE
  /\ Len(entry.sum) = Len(entry.buf) /\ IsFiniteSet(entry.user)

CountTypes ==
  /\ stage_cur \in Nat /\ stage_max \in Nat /\ perf_score \in Nat /\ orig_perf \in Nat
  /\ temp_len \in Nat /\ splice_cycle \in Nat

\* Types, and what has not happened yet before the first stage.
TypeInv ==
  /\ EntryFits /\ CountTypes
  /\ stage \in Before \cup Det \cup AfterDet /\ i \in Nat
  /\ in_buf \in Seq(Byte) /\ len \in 1..MAX_FILE
  /\ a_collect \in Seq(Byte) /\ prev_cksum \in Nat
  /\ extras \subseteq Seq(Byte) /\ IsFiniteSet(extras)
  /\ stage = "load" => entry \in Entries /\ saved = {}
  /\ stage \in Before =>
       i = 0 /\ a_collect = <<>> /\ prev_cksum = 0 /\ offered = {}
  /\ stage = "flip1" => i < len

\* FuzzInv with what it needs between the stages.
BufInv ==
  /\ FuzzInv
  /\ stage \in Before => in_buf = entry.buf
  /\ stage \in Before \cup Det => splice_cycle = 0
  /\ stage = "tweak" => stage_cur < stage_max
  /\ orig_perf <= 2 * HAVOC_MAX_MULT * 100

LEMMA Distinctly ==
  /\ \A s \in Before \cup AfterDet : s \notin Det
  /\ \A s \in Before : s \notin AfterDet
  BY DetIs DEF Before, AfterDet

LEMMA ByteOfEntry ==
  ASSUME TypeInv
  PROVE  /\ len \in Nat \ {0} /\ entry.buf \in Seq(Byte) /\ entry.sum \in Seq(Nat)
         /\ \A p \in 1..len : in_buf[p] \in Byte
  BY Limits DEF TypeInv, EntryFits, EntryType, len

-----------------------------------------------------------------------------
(* The deterministic stages. *)

LEMMA OnwardIn ==
  ASSUME stage \in Det \ {"passed"}, i \in Nat, NEW n,
         GoOn(n) \/ Skip(stage)
  PROVE  /\ stage' \in Det /\ i' \in Nat
         /\ stage' = "flip1" => stage = "flip1" /\ GoOn(n)
         /\ stage' = "flip2" => stage \in {"flip1", "flip2"}
  BY AfterInDet DEF GoOn, Skip

\* A deterministic stage changes nothing that lasts but what the dictionary is
\* offered, and the buffer is again what it was.
DetEffect ==
  /\ UNCHANGED <<entry, in_buf, havocVars, extras>>
  /\ stage \in Det /\ stage' \in Det \cup {"havoc"} /\ i' \in Nat
  /\ out_buf' = in_buf
  /\ \/ stage = "flip1" /\ stage' \in {"flip1", "flip2"}
     \/ UNCHANGED <<autoVars, a_collect, prev_cksum, offered>>
  /\ stage' = "flip1" => i' < len
  /\ stage' \in {"flip1", "flip2"} => stage \in {stage', "flip1"}
  /\ stage = "flip1" => stage' \in {"flip1", "flip2"}

LEMMA WalkEffect ==
  ASSUME TypeInv, BufInv, NEW s \in Det \ {"passed", "flip1"}, NEW n \in Nat, NEW words,
         Walk(s, n, words)
  PROVE  DetEffect
<1>1. /\ stage = s /\ (GoOn(len - n + 1) \/ Skip(s))
      /\ UNCHANGED <<autoVars, entry, bufVars, detVars, havocVars, offered>>
  BY DEF Walk, Skip
<1>2. out_buf = in_buf
  BY <1>1, DetIs DEF BufInv, FuzzInv
<1>3. /\ stage' \in Det /\ i' \in Nat /\ stage' # "flip1"
      /\ stage' = "flip2" => stage = "flip2"
  BY <1>1, OnwardIn DEF TypeInv
<1> QED
  BY <1>1, <1>2, <1>3 DEF DetEffect, bufVars, detVars, autoVars

LEMMA Offered ==
  ASSUME CollectTokens
  PROVE  /\ extras' = extras
         /\ a_collect' \in {<<>>, a_collect, Append(<<>>, out_buf[i + 1]),
                            Append(a_collect, out_buf[i + 1]),
                            Append(Append(a_collect, out_buf[i + 1]), out_buf[i + 1])}
         /\ prev_cksum' = entry.sum[i + 1]
  BY DEF CollectTokens, Offer, maybe_add_auto, autoVars

LEMMA OverwriteEffect ==
  ASSUME TypeInv, BufInv, NEW s \in Det \ {"passed", "flip1", "flip2"}, NEW tokens,
         IsFiniteSet(tokens), tokens \subseteq Seq(Byte), Overwrite(s, tokens)
  PROVE  DetEffect
<1>1. /\ stage = s /\ (GoOn(len) \/ Skip(s))
      /\ UNCHANGED <<autoVars, entry, in_buf, detVars, havocVars, offered>>
  BY DEF Overwrite, Skip
<1>2. out_buf = in_buf /\ in_buf \in Seq(Byte) /\ i \in Nat
  BY <1>1, DetIs DEF BufInv, FuzzInv, TypeInv
<1>3. out_buf' = in_buf
  <2>1. CASE out_buf' = out_buf
    BY <1>2, <2>1
  <2>2. CASE out_buf' # out_buf
    <3>1. PICK ts \in Sorted(tokens) :
            out_buf' = Put(Overwritten(ts).buf, i,
                           SubSeq(in_buf, i + 1, i + Overwritten(ts).last))
      BY <2>2 DEF Overwrite
    <3> QED
      BY <1>2, <3>1, Restored
  <2> QED
    BY <2>1, <2>2
<1>4. /\ stage' \in Det /\ i' \in Nat /\ stage' # "flip1"
      /\ stage' # "flip2"
  BY <1>1, OnwardIn DEF TypeInv
<1> QED
  BY <1>1, <1>3, <1>4 DEF DetEffect, bufVars, detVars, autoVars

LEMMA DetStep ==
  ASSUME TypeInv, BufInv, AutoInd, Deterministic
  PROVE  DetEffect
<1>0. /\ stage \notin {"tweak", "splice", "over"} => out_buf = in_buf
      /\ i \in Nat /\ IsFiniteSet(extras) /\ extras \subseteq Seq(Byte)
      /\ len \in Nat \ {0}
  BY ByteOfEntry DEF BufInv, FuzzInv, TypeInv
<1>1. CASE Flip1
  <2>1. stage = "flip1" /\ GoOn(len)
    BY <1>1 DEF Flip1
  <2>2. extras' = extras
    BY <1>1, Offered DEF Flip1, autoVars
  <2>3. /\ UNCHANGED <<entry, in_buf, havocVars>> /\ out_buf' = in_buf
    BY <1>0, <1>1, <2>1 DEF Flip1, bufVars
  <2>4. stage' \in {"flip1", "flip2"} /\ i' \in Nat /\ (stage' = "flip1" => i' < len)
    BY <1>0, <2>1, AfterInDet, DetIs DEF GoOn
  <2>5. len' = len
    BY <2>3 DEF len
  <2> QED
    BY <2>1, <2>2, <2>3, <2>4, <2>5, DetIs DEF DetEffect
<1>2. CASE FlipMore
  <2>1. /\ stage \in {"flip2", "flip4"} /\ GoOn(len)
        /\ UNCHANGED <<autoVars, entry, bufVars, detVars, havocVars, offered>>
    BY <1>2 DEF FlipMore
  <2>2. /\ stage' \in Det /\ i' \in Nat /\ stage' # "flip1"
        /\ stage' = "flip2" => stage = "flip2"
    BY <1>0, <2>1, OnwardIn, DetIs
  <2> QED
    BY <1>0, <2>1, <2>2, DetIs DEF DetEffect, bufVars, detVars, autoVars
<1>3. CASE Flip8
  <2>1. /\ stage = "flip8" /\ GoOn(len)
        /\ UNCHANGED <<autoVars, entry, bufVars, a_collect, prev_cksum, havocVars, offered>>
    BY <1>3 DEF Flip8
  <2>2. stage' \in Det /\ i' \in Nat /\ stage' \notin {"flip1", "flip2"}
    BY <1>0, <2>1, OnwardIn, DetIs
  <2> QED
    BY <1>0, <2>1, <2>2, DetIs DEF DetEffect, bufVars, autoVars
<1>4. CASE Flip16 \/ Flip32
  <2>1. \E s \in {"flip16", "flip32"}, n \in {2, 4} : \E words : Walk(s, n, words)
    BY <1>4 DEF Flip16, Flip32
  <2> QED
    BY <2>1, WalkEffect, DetIs
<1>5. CASE Arith8 \/ Arith16 \/ Arith32
  <2>1. \E s \in {"arith8", "arith16", "arith32"}, n \in {1, 2, 4} : \E words : Walk(s, n, words)
    BY <1>5 DEF Arith8, Arith16, Arith32
  <2> QED
    BY <2>1, WalkEffect, DetIs
<1>6. CASE Int8 \/ Int16 \/ Int32
  <2>1. \E s \in {"int8", "int16", "int32"}, n \in {1, 2, 4} : \E words : Walk(s, n, words)
    BY <1>6 DEF Int8, Int16, Int32
  <2> QED
    BY <2>1, WalkEffect, DetIs
<1>7. CASE NoArith
  <2>1. /\ \E s \in {"arith8", "arith16", "arith32", "int16", "int32"} : Skip(s)
        /\ UNCHANGED <<autoVars, entry, bufVars, detVars, havocVars, offered>>
    BY <1>7 DEF NoArith
  <2>2. stage \in {"arith8", "arith16", "arith32", "int16", "int32"} /\ Skip(stage)
    BY <2>1 DEF Skip
  <2>3. stage' \in Det /\ i' \in Nat /\ stage' \notin {"flip1", "flip2"}
    BY <1>0, <2>2, OnwardIn, DetIs
  <2> QED
    BY <1>0, <2>1, <2>2, <2>3, DetIs DEF DetEffect, bufVars, detVars, autoVars
<1>8. CASE OverwriteExtras
  <2>1. PICK tokens \in SUBSET extras : Overwrite("ext_UO", tokens)
    BY <1>8 DEF OverwriteExtras
  <2>2. IsFiniteSet(tokens) /\ tokens \subseteq Seq(Byte)
    BY <1>0, <2>1, FS_Subset
  <2> QED
    BY <2>1, <2>2, OverwriteEffect, DetIs
<1>9. CASE OverwriteAuto
  <2>1. IsFiniteSet(front) /\ front \subseteq Seq(Byte)
    BY FS_Subset DEF AutoInd, AutoInv, Leads
  <2> QED
    BY <1>9, <2>1, OverwriteEffect, DetIs DEF OverwriteAuto
<1>10. CASE InsertExtras
  <2>1. /\ stage = "ext_UI" /\ (GoOn(len + 1) \/ Skip(stage))
        /\ UNCHANGED <<autoVars, entry, bufVars, detVars, havocVars, offered>>
    BY <1>10 DEF InsertExtras
  <2>2. stage' \in Det /\ i' \in Nat /\ stage' \notin {"flip1", "flip2"}
    BY <1>0, <2>1, OnwardIn, DetIs
  <2> QED
    BY <1>0, <2>1, <2>2, DetIs DEF DetEffect, bufVars, detVars, autoVars
<1>11. CASE PassedDet
  BY <1>0, <1>11, DetIs DEF PassedDet, DetEffect, bufVars, detVars, autoVars
<1> QED
  BY <1>1, <1>2, <1>3, <1>4, <1>5, <1>6, <1>7, <1>8, <1>9, <1>10, <1>11 DEF Deterministic

-----------------------------------------------------------------------------
(* The score, the lengths of blocks, and splicing. *)

LEMMA FirstIsOne ==
  ASSUME NEW n \in Nat \ {0}, NEW rules, DOMAIN rules = 1..n, rules[n][1],
         \A k \in 1..n : rules[k][2] \in Nat
  PROVE  First(rules) \in Nat
<1> DEFINE T == {k \in DOMAIN rules : rules[k][1]}
<1>1. T \subseteq Nat /\ n \in T /\ T \subseteq 1..n
  OBVIOUS
<1>2. First(rules) = rules[Min(T)][2]
  BY DEF First
<1> HIDE DEF T
<1>3. Min(T) \in 1..n
  BY <1>1, MinIsLeast
<1> QED
  BY <1>2, <1>3

LEMMA ScoreIsLimited ==
  ASSUME NEW q
  PROVE  calculate_score(q) \in Nat /\ calculate_score(q) <= 2 * HAVOC_MAX_MULT * 100
<1> DEFINE us == q.exec_us
           bits == q.bitmap_size
           speeds == << <<us > 10 * avg_exec_us, 10>>, <<us > 4 * avg_exec_us, 25>>,
                        <<us > 2 * avg_exec_us, 50>>, <<3 * us > 4 * avg_exec_us, 75>>,
                        <<4 * us < avg_exec_us, 300>>, <<3 * us < avg_exec_us, 200>>,
                        <<2 * us < avg_exec_us, 150>>, <<TRUE, 100>> >>
           sizes == << <<3 * bits > 10 * avg_bitmap_size, 12>>, <<bits > 2 * avg_bitmap_size, 8>>,
                       <<3 * bits > 4 * avg_bitmap_size, 6>>, <<3 * bits < avg_bitmap_size, 1>>,
                       <<2 * bits < avg_bitmap_size, 2>>, <<3 * bits < 2 * avg_bitmap_size, 3>>,
                       <<TRUE, 4>> >>
           lates == << <<q.handicap >= 4, 4>>, <<q.handicap > 0, 2>>, <<TRUE, 1>> >>
           depths == << <<q.depth <= 3, 1>>, <<q.depth <= 7, 2>>, <<q.depth <= 13, 3>>,
                        <<q.depth <= 25, 4>>, <<TRUE, 5>> >>
<1>1. First(speeds) \in Nat
  <2>1. DOMAIN speeds = 1..8 /\ speeds[8][1] /\ \A k \in 1..8 : speeds[k][2] \in Nat
    OBVIOUS
  <2>2. 8 \in Nat \ {0}
    OBVIOUS
  <2> HIDE DEF speeds
  <2> QED
    BY <2>1, <2>2, FirstIsOne, Zenon
<1>2. First(sizes) \in Nat
  <2>1. DOMAIN sizes = 1..7 /\ sizes[7][1] /\ \A k \in 1..7 : sizes[k][2] \in Nat
    OBVIOUS
  <2>2. 7 \in Nat \ {0}
    OBVIOUS
  <2> HIDE DEF sizes
  <2> QED
    BY <2>1, <2>2, FirstIsOne, Zenon
<1>3. First(lates) \in Nat
  <2>1. DOMAIN lates = 1..3 /\ lates[3][1] /\ \A k \in 1..3 : lates[k][2] \in Nat
    OBVIOUS
  <2>2. 3 \in Nat \ {0}
    OBVIOUS
  <2> HIDE DEF lates
  <2> QED
    BY <2>1, <2>2, FirstIsOne, Zenon
<1>4. First(depths) \in Nat
  <2>1. DOMAIN depths = 1..5 /\ depths[5][1] /\ \A k \in 1..5 : depths[k][2] \in Nat
    OBVIOUS
  <2>2. 5 \in Nat \ {0}
    OBVIOUS
  <2> HIDE DEF depths
  <2> QED
    BY <2>1, <2>2, FirstIsOne, Zenon
<1> DEFINE total == ((First(speeds) * First(sizes)) \div 4) * First(lates) * First(depths)
           limited == LE(total, HAVOC_MAX_MULT * 100)
<1>5. calculate_score(q) = IF q.valid THEN 2 * limited ELSE limited
  BY DEF calculate_score
<1> HIDE DEF speeds, sizes, lates, depths
<1>6. total \in Nat
  <2>1. (First(speeds) * First(sizes)) \div 4 \in Nat
    BY <1>1, <1>2, Product, Quotient
  <2> QED
    BY <2>1, <1>3, <1>4, Product
<1> HIDE DEF total
<1>7. limited \in Nat /\ limited <= HAVOC_MAX_MULT * 100 /\ HAVOC_MAX_MULT * 100 \in Nat
  BY <1>6, Limits DEF LE
<1> HIDE DEF limited
<1>8. 2 * HAVOC_MAX_MULT * 100 = 2 * (HAVOC_MAX_MULT * 100)
  BY Limits
<1> QED
  BY <1>5, <1>7, <1>8

LEMMA BlockFits ==
  ASSUME NEW limit \in Nat \ {0}, NEW n \in choose_block_len(limit)
  PROVE  n \in 1..limit /\ n <= HAVOC_BLK_XL
<1>1. PICK blk \in {<<1, HAVOC_BLK_SMALL>>, <<HAVOC_BLK_SMALL, HAVOC_BLK_MEDIUM>>,
                    <<HAVOC_BLK_MEDIUM, HAVOC_BLK_LARGE>>, <<HAVOC_BLK_LARGE, HAVOC_BLK_XL>>} :
        n \in (IF blk[1] >= limit THEN 1 ELSE blk[1])..LE(blk[2], limit)
  BY DEF choose_block_len
<1>2. blk[1] \in Nat \ {0} /\ blk[2] \in Nat /\ blk[2] <= HAVOC_BLK_XL
  BY <1>1, Blocks
<1>3. LE(blk[2], limit) \in Nat /\ LE(blk[2], limit) <= limit /\ LE(blk[2], limit) <= blk[2]
  BY <1>2 DEF LE
<1> QED
  BY <1>1, <1>2, <1>3, Blocks

\* Two test cases put together have a byte of the other one where they differ.
LEMMA Spliced ==
  ASSUME NEW u \in Seq(Byte), NEW v \in Seq(Byte),
         NEW split \in locate_diffs(u, v)[1]..(locate_diffs(u, v)[2] - 1),
         locate_diffs(u, v)[1] >= 0, locate_diffs(u, v)[2] >= 2
  PROVE  /\ SubSeq(u, 1, split) \o SubSeq(v, split + 1, Len(v)) \in Seq(Byte)
         /\ Len(SubSeq(u, 1, split) \o SubSeq(v, split + 1, Len(v))) = Len(v)
         /\ SubSeq(u, 1, split) \o SubSeq(v, split + 1, Len(v)) # u
<1> DEFINE D == Diffs(u, v)
           f == Min(D)
           l == Max(D)
           w == SubSeq(u, 1, split) \o SubSeq(v, split + 1, Len(v))
<1>0. Len(u) \in Nat /\ Len(v) \in Nat
  OBVIOUS
<1>1. D # {}
  BY DEF locate_diffs
<1>2. split \in f..(l - 1)
  BY <1>1 DEF locate_diffs
<1>3. \A p \in D : p \in Nat /\ p < Len(u) /\ p < Len(v) /\ u[p + 1] # v[p + 1]
  BY <1>0 DEF Diffs, LE
<1>4. D \subseteq 0..Len(u) /\ D \subseteq Nat
  BY <1>0, <1>3
<1> HIDE DEF D
<1>5. f \in D /\ l \in D
  BY <1>0, <1>1, <1>4, MinIsLeast, MaxIsGreatest
<1> HIDE DEF f, l
<1>6. /\ split \in Nat /\ split < l /\ l \in Nat /\ l < Len(u) /\ l < Len(v)
      /\ u[l + 1] # v[l + 1]
  BY <1>2, <1>3, <1>5
<1> DEFINE head == SubSeq(u, 1, split)
           tail == SubSeq(v, split + 1, Len(v))
<1>7. head \in Seq(Byte) /\ Len(head) = split
  BY <1>0, <1>6
<1>8. /\ tail \in Seq(Byte) /\ Len(tail) = Len(v) - split
      /\ \A p \in 1..(Len(v) - split) : tail[p] = v[split + p]
  BY <1>0, <1>6
<1>11. w = head \o tail
  OBVIOUS
<1> HIDE DEF head, tail, w
<1>9. w \in Seq(Byte) /\ Len(w) = Len(v)
  <2>1. w \in Seq(Byte)
    BY <1>7, <1>8, <1>11
  <2>2. Len(w) = Len(head) + Len(tail)
    BY <1>7, <1>8, <1>11, ConcatProperties
  <2>3. Len(w) = split + (Len(v) - split)
    BY <2>2, <1>7, <1>8
  <2> QED
    BY <2>1, <2>3, <1>0, <1>6
<1>10. w[l + 1] = v[l + 1]
  <2>1. w[l + 1] = tail[l + 1 - split]
    <3>1. l + 1 \in 1..(Len(head) + Len(tail)) /\ ~(l + 1 <= Len(head))
      BY <1>0, <1>6, <1>7, <1>8
    <3>2. \A p \in 1..(Len(head) + Len(tail)) :
            w[p] = IF p <= Len(head) THEN head[p] ELSE tail[p - Len(head)]
      BY <1>7, <1>8, <1>11, ConcatProperties
    <3> DEFINE at == l + 1
    <3> HIDE DEF at
    <3>3. w[at] = IF at <= Len(head) THEN head[at] ELSE tail[at - Len(head)]
      BY <3>1, <3>2 DEF at
    <3> QED
      BY <3>1, <3>3, <1>6, <1>7 DEF at
  <2>2. l + 1 - split \in 1..(Len(v) - split) /\ split + (l + 1 - split) = l + 1
    BY <1>0, <1>6
  <2> QED
    BY <2>1, <2>2, <1>8
<1>12. w # u
  BY <1>6, <1>10
<1> QED
  BY <1>9, <1>12 DEF w

-----------------------------------------------------------------------------
(* Syntax tokens: what flip1 has offered, and what it is collecting. *)

\* The runs that end at byte l, and those that end before byte k.
EndsAt(l) == {SubSeq(entry.buf, f, l) : f \in {g \in 1..len : TokenRun(g, l)}}

TokensTo(k) ==
  {SubSeq(entry.buf, r[1], r[2]) :
     r \in {s \in (1..len) \X (1..len) : TokenRun(s[1], s[2]) /\ s[2] < k}}

\* After n bytes: the bytes that go on giving the checksum of the last one.
CollectedTo(n, c, a) ==
  /\ c = IF n = 0 THEN 0 ELSE entry.sum[n]
  /\ IF c = 0 THEN a = <<>>
     ELSE \E f \in 1..n :
            /\ f > 1 => entry.sum[f - 1] # entry.sum[f]
            /\ \A p \in f..n : entry.sum[p] = c
            /\ a = SubSeq(entry.buf, f, n)

CollectInv ==
  ~entry.dumb_mode =>
    /\ stage = "flip1" => CollectedTo(i, prev_cksum, a_collect) /\ offered = TokensTo(i)
    /\ stage = "flip2" => offered = TokensTo(len + 1)

LEMMA InTokensTo ==
  ASSUME NEW k, NEW x
  PROVE  x \in TokensTo(k) <=>
           \E f \in 1..len, l \in 1..len :
             TokenRun(f, l) /\ l < k /\ x = SubSeq(entry.buf, f, l)
<1>1. ASSUME x \in TokensTo(k)
      PROVE  \E f \in 1..len, l \in 1..len :
               TokenRun(f, l) /\ l < k /\ x = SubSeq(entry.buf, f, l)
  <2>1. PICK r \in (1..len) \X (1..len) :
          TokenRun(r[1], r[2]) /\ r[2] < k /\ x = SubSeq(entry.buf, r[1], r[2])
    BY <1>1, Zenon DEF TokensTo
  <2>2. r[1] \in 1..len /\ r[2] \in 1..len
    BY <2>1
  <2> QED
    BY <2>1, <2>2
<1>2. ASSUME NEW f \in 1..len, NEW l \in 1..len, TokenRun(f, l), l < k,
             x = SubSeq(entry.buf, f, l)
      PROVE  x \in TokensTo(k)
  <2> DEFINE r == <<f, l>>
  <2>1. r \in (1..len) \X (1..len) /\ r[1] = f /\ r[2] = l
    OBVIOUS
  <2> HIDE DEF r
  <2>2. r \in {s \in (1..len) \X (1..len) : TokenRun(s[1], s[2]) /\ s[2] < k}
    BY <1>2, <2>1
  <2> QED
    BY <1>2, <2>1, <2>2 DEF TokensTo
<1> QED
  BY <1>1, <1>2

LEMMA TokensOn ==
  ASSUME len \in Nat, NEW k \in 1..len
  PROVE  TokensTo(k + 1) = TokensTo(k) \cup EndsAt(k)
<1>1. ASSUME NEW x
      PROVE  x \in TokensTo(k + 1) <=> x \in TokensTo(k) \cup EndsAt(k)
  <2>1. \A l \in 1..len : l < k + 1 <=> l < k \/ l = k
    OBVIOUS
  <2>2. x \in EndsAt(k) <=> \E f \in 1..len : TokenRun(f, k) /\ x = SubSeq(entry.buf, f, k)
    BY DEF EndsAt
  <2> QED
    BY <2>1, <2>2, InTokensTo
<1> QED
  BY <1>1

LEMMA NoTokenYet ==
  ASSUME len \in Nat
  PROVE  TokensTo(0) = {} /\ TokensTo(1) = {}
<1>1. \A l \in 1..len : ~(l < 0) /\ ~(l < 1)
  OBVIOUS
<1>2. \A x : x \notin TokensTo(0) /\ x \notin TokensTo(1)
  BY <1>1, InTokensTo
<1> QED
  BY <1>2

LEMMA AllTokens ==
  ASSUME len \in Nat
  PROVE  TokensTo(len + 1) = {SubSeq(entry.buf, r[1], r[2]) :
                 r \in {s \in (1..len) \X (1..len) : TokenRun(s[1], s[2])}}
<1>1. \A s \in (1..len) \X (1..len) : s[2] < len + 1
  OBVIOUS
<1>2. {s \in (1..len) \X (1..len) : TokenRun(s[1], s[2]) /\ s[2] < len + 1}
        = {s \in (1..len) \X (1..len) : TokenRun(s[1], s[2])}
  BY <1>1
<1> QED
  BY <1>2 DEF TokensTo

\* A run has one beginning.
LEMMA RunEnds ==
  ASSUME len \in Nat, NEW l \in 1..len, NEW f \in 1..l,
         entry.sum[l] # 0,
         f > 1 => entry.sum[f - 1] # entry.sum[f],
         \A p \in f..l : entry.sum[p] = entry.sum[l]
  PROVE  EndsAt(l) = IF /\ l - f + 1 \in MIN_AUTO_EXTRA..MAX_AUTO_EXTRA
                        /\ l < len => entry.sum[l + 1] # entry.sum[l]
                     THEN {SubSeq(entry.buf, f, l)} ELSE {}
<1>1. ASSUME NEW g \in 1..len, TokenRun(g, l)
      PROVE  g = f
  <2>1. g <= l
    BY <1>1, Limits DEF TokenRun
  <2>2. ~(g < f)
    <3>1. g < f => f - 1 \in g..l /\ f \in g..l /\ f > 1
      BY <2>1
    <3> QED
      BY <1>1, <3>1 DEF TokenRun
  <2>3. ~(f < g)
    <3>1. f < g => g - 1 \in f..l /\ g \in f..l /\ g > 1
      BY <2>1
    <3> QED
      BY <1>1, <3>1 DEF TokenRun
  <2> QED
    BY <2>2, <2>3
<1>2. f \in 1..len /\ entry.sum[f] = entry.sum[l]
  OBVIOUS
<1>3. TokenRun(f, l) <=> /\ l - f + 1 \in MIN_AUTO_EXTRA..MAX_AUTO_EXTRA
                         /\ l < len => entry.sum[l + 1] # entry.sum[l]
  BY <1>2 DEF TokenRun
<1>4. CASE TokenRun(f, l)
  <2>1. {g \in 1..len : TokenRun(g, l)} = {f}
    BY <1>1, <1>2, <1>4
  <2> QED
    BY <1>3, <1>4, <2>1 DEF EndsAt
<1>5. CASE ~TokenRun(f, l)
  <2>1. {g \in 1..len : TokenRun(g, l)} = {}
    BY <1>1, <1>5
  <2> QED
    BY <1>3, <1>5, <2>1 DEF EndsAt
<1> QED
  BY <1>4, <1>5

LEMMA NoRunEnds ==
  ASSUME len \in Nat, NEW l \in 1..len, entry.sum[l] = 0
  PROVE  EndsAt(l) = {}
<1>1. ASSUME NEW g \in 1..len, TokenRun(g, l)
      PROVE  FALSE
  <2>1. l \in g..l
    BY <1>1, Limits DEF TokenRun
  <2> QED
    BY <1>1, <2>1 DEF TokenRun
<1> QED
  BY <1>1 DEF EndsAt

\* The token whose end the next byte shows.
LEMMA EndOfToken ==
  ASSUME TypeInv, in_buf = entry.buf, i < len, CollectedTo(i, prev_cksum, a_collect)
  PROVE  /\ i = 0 => a_collect = <<>>
         /\ i > 0 => EndsAt(i) = IF /\ entry.sum[i + 1] # prev_cksum
                                    /\ Len(a_collect) \in MIN_AUTO_EXTRA..MAX_AUTO_EXTRA
                                 THEN {a_collect} ELSE {}
<1>0. i \in Nat /\ len \in Nat \ {0} /\ Len(<<>>) \notin MIN_AUTO_EXTRA..MAX_AUTO_EXTRA
  BY ByteOfEntry, Limits DEF TypeInv
<1>1. CASE i = 0
  BY <1>1 DEF CollectedTo
<1>2. CASE i > 0 /\ prev_cksum = 0
  <2>1. i \in 1..len /\ entry.sum[i] = 0 /\ a_collect = <<>>
    BY <1>0, <1>2 DEF CollectedTo
  <2> QED
    BY <1>0, <1>2, <2>1, NoRunEnds
<1>3. CASE i > 0 /\ prev_cksum # 0
  <2>1. i \in 1..len /\ prev_cksum = entry.sum[i]
    BY <1>0, <1>3 DEF CollectedTo
  <2>2. PICK f \in 1..i :
          /\ f > 1 => entry.sum[f - 1] # entry.sum[f]
          /\ \A p \in f..i : entry.sum[p] = prev_cksum
          /\ a_collect = SubSeq(entry.buf, f, i)
    BY <1>3 DEF CollectedTo
  <2>3. Len(a_collect) = i - f + 1
    BY <1>0, <2>1, <2>2, ByteOfEntry DEF len
  <2>4. EndsAt(i) = IF /\ i - f + 1 \in MIN_AUTO_EXTRA..MAX_AUTO_EXTRA
                       /\ i < len => entry.sum[i + 1] # entry.sum[i]
                    THEN {SubSeq(entry.buf, f, i)} ELSE {}
    BY <1>0, <1>3, <2>1, <2>2, RunEnds
  <2> QED
    BY <1>3, <2>1, <2>2, <2>3, <2>4
<1> QED
  BY <1>0, <1>1, <1>2, <1>3

\* The token that ends with the buffer.
LEMMA LastToken ==
  ASSUME TypeInv, in_buf = entry.buf, i + 1 = len, CollectedTo(i, prev_cksum, a_collect)
  PROVE  EndsAt(len) = IF /\ entry.sum[len] = prev_cksum
                          /\ Len(a_collect) + 1 \in MIN_AUTO_EXTRA..MAX_AUTO_EXTRA
                       THEN {Append(a_collect, entry.buf[len])} ELSE {}
<1>0. /\ i \in Nat /\ len \in Nat \ {0} /\ entry.buf \in Seq(Byte) /\ Len(entry.buf) = len
      /\ i = len - 1
  BY ByteOfEntry DEF TypeInv, len
<1>1. CASE entry.sum[len] # prev_cksum
  <2>1. ASSUME NEW g \in 1..len, TokenRun(g, len)
        PROVE  FALSE
    <3>1. g < len
      BY <1>0, <2>1, Limits DEF TokenRun
    <3>2. len - 1 \in g..len /\ len \in g..len /\ i # 0
      BY <1>0, <3>1
    <3>3. entry.sum[i] = entry.sum[len]
      BY <1>0, <2>1, <3>2 DEF TokenRun
    <3> QED
      BY <1>1, <3>2, <3>3 DEF CollectedTo
  <2> QED
    BY <1>1, <2>1 DEF EndsAt
<1>2. CASE entry.sum[len] = prev_cksum /\ prev_cksum = 0
  <2>1. a_collect = <<>> /\ Len(a_collect) + 1 \notin MIN_AUTO_EXTRA..MAX_AUTO_EXTRA
    BY <1>2, Limits DEF CollectedTo
  <2>2. EndsAt(len) = {}
    BY <1>0, <1>2, NoRunEnds
  <2> QED
    BY <2>1, <2>2
<1>3. CASE entry.sum[len] = prev_cksum /\ prev_cksum # 0
  <2>1. i \in 1..len /\ prev_cksum = entry.sum[i]
    BY <1>0, <1>3 DEF CollectedTo
  <2>2. PICK f \in 1..i :
          /\ f > 1 => entry.sum[f - 1] # entry.sum[f]
          /\ \A p \in f..i : entry.sum[p] = prev_cksum
          /\ a_collect = SubSeq(entry.buf, f, i)
    BY <1>3 DEF CollectedTo
  <2>3. f \in 1..len /\ \A p \in f..len : p \in f..i \/ p = len
    BY <1>0
  <2>4. \A p \in f..len : entry.sum[p] = entry.sum[len]
    BY <1>3, <2>2, <2>3
  <2>5. EndsAt(len) = IF /\ len - f + 1 \in MIN_AUTO_EXTRA..MAX_AUTO_EXTRA
                         /\ len < len => entry.sum[len + 1] # entry.sum[len]
                      THEN {SubSeq(entry.buf, f, len)} ELSE {}
    <3>1. entry.sum[len] # 0 /\ len \in 1..len /\ f \in 1..len /\ len \in Nat
      BY <1>0, <1>3, <2>3
    <3> QED
      BY <2>2, <2>4, <3>1, RunEnds
  <2>6. Len(a_collect) + 1 = len - f + 1
    BY <1>0, <2>1, <2>2
  <2>7. SubSeq(entry.buf, f, len) = Append(a_collect, entry.buf[len])
    BY <1>0, <2>1, <2>2, <2>6
  <2>8. len - f + 1 \in MIN_AUTO_EXTRA..MAX_AUTO_EXTRA
          <=> Len(a_collect) + 1 \in MIN_AUTO_EXTRA..MAX_AUTO_EXTRA
    BY <2>6
  <2>9. EndsAt(len) = IF Len(a_collect) + 1 \in MIN_AUTO_EXTRA..MAX_AUTO_EXTRA
                      THEN {Append(a_collect, entry.buf[len])} ELSE {}
    <3>1. ~(len < len)
      BY <1>0
    <3> QED
      BY <2>5, <2>7, <2>8, <3>1
  <2> QED
    BY <1>3, <2>9
<1> QED
  BY <1>1, <1>2, <1>3

LEMMA CollectStep ==
  ASSUME TypeInv, in_buf = entry.buf, out_buf = in_buf, i < len,
         CollectedTo(i, prev_cksum, a_collect), offered = TokensTo(i), CollectTokens
  PROVE  /\ i + 1 < len => /\ CollectedTo(i + 1, prev_cksum', a_collect')
                           /\ offered' = TokensTo(i + 1)
         /\ i + 1 = len => offered' = TokensTo(len + 1)
<1> DEFINE cksum == entry.sum[i + 1]
           byte == entry.buf[i + 1]
<1>0. /\ i \in Nat /\ len \in Nat \ {0} /\ entry.buf \in Seq(Byte) /\ Len(entry.buf) = len
      /\ out_buf[i + 1] = byte /\ i + 1 \in 1..len
  BY ByteOfEntry DEF TypeInv, len
<1>00. TokensTo(0) = TokensTo(1)
  <2>1. len \in Nat
    BY <1>0
  <2>2. TokensTo(0) = {} /\ TokensTo(1) = {}
    BY <2>1, NoTokenYet, Zenon
  <2> QED
    BY <2>2
<1>1. \/ offered' = TokensTo(i + 1) /\ ~(i = len - 1 /\ cksum = prev_cksum)
      \/ /\ i = len - 1 /\ cksum = prev_cksum
         /\ offered' = IF Len(Append(a_collect, byte)) \in MIN_AUTO_EXTRA..MAX_AUTO_EXTRA
                       THEN offered \cup {Append(a_collect, byte)} ELSE offered
  <2>1. CASE i = len - 1 /\ cksum = prev_cksum
    BY <1>0, <2>1 DEF CollectTokens, Offer
  <2>2. CASE ~(i = len - 1 /\ cksum = prev_cksum)
    <3>1. offered' = IF cksum # prev_cksum /\ Len(a_collect) \in MIN_AUTO_EXTRA..MAX_AUTO_EXTRA
                     THEN offered \cup {a_collect} ELSE offered
      BY <2>2 DEF CollectTokens, Offer
    <3>2. CASE i = 0
      <4>1. Len(a_collect) \notin MIN_AUTO_EXTRA..MAX_AUTO_EXTRA
        BY <3>2, EndOfToken, Limits
      <4>2. i + 1 = 1 /\ TokensTo(0) = TokensTo(1)
        BY <3>2, <1>00
      <4>3. offered' = offered
        BY <3>1, <4>1
      <4>4. offered' = TokensTo(i + 1)
        BY <3>2, <4>2, <4>3, Zenon
      <4> QED
        BY <2>2, <4>4
    <3>3. CASE i > 0
      <4>1. TokensTo(i + 1) = TokensTo(i) \cup EndsAt(i)
        BY <1>0, <3>3, TokensOn
      <4> QED
        BY <2>2, <3>1, <3>3, <4>1, EndOfToken
    <3> QED
      BY <1>0, <3>2, <3>3
  <2> QED
    BY <2>1, <2>2
<1>2. /\ prev_cksum' = cksum
      /\ ~(i = len - 1 /\ cksum = prev_cksum) =>
           a_collect' = IF cksum = 0 THEN IF cksum # prev_cksum THEN <<>> ELSE a_collect
                        ELSE Append(IF cksum # prev_cksum THEN <<>> ELSE a_collect, byte)
  BY <1>0 DEF CollectTokens
<1> HIDE DEF cksum, byte
<1>3. ASSUME i + 1 < len
      PROVE  CollectedTo(i + 1, prev_cksum', a_collect')
  <2>0. i # len - 1 /\ i + 1 # 0 /\ prev_cksum' = entry.sum[i + 1]
    BY <1>0, <1>2, <1>3 DEF cksum
  <2>1. CASE cksum = 0
    <3>1. a_collect' = <<>>
      BY <1>2, <2>0, <2>1 DEF CollectedTo
    <3> QED
      BY <1>2, <2>0, <2>1, <3>1 DEF CollectedTo
  <2>2. CASE cksum # 0 /\ cksum # prev_cksum
    <3>1. a_collect' = Append(<<>>, byte)
      BY <1>2, <2>0, <2>2
    <3>2. a_collect' = SubSeq(entry.buf, i + 1, i + 1)
      <4> DEFINE one == SubSeq(entry.buf, i + 1, i + 1)
      <4>1. one \in Seq(Byte) /\ Len(one) = 1 /\ one[1] = byte
        <5>1. i + 1 \in 1..Len(entry.buf)
          BY <1>0
        <5> QED
          BY <1>0, <5>1 DEF byte
      <4>2. Append(<<>>, byte) = <<byte>>
        OBVIOUS
      <4> HIDE DEF one
      <4>3. one = <<byte>>
        BY <4>1
      <4> QED
        BY <3>1, <4>2, <4>3 DEF one
    <3>3. i + 1 > 1 => entry.sum[(i + 1) - 1] # entry.sum[i + 1]
      BY <1>0, <2>2 DEF CollectedTo, cksum
    <3>4. \A p \in (i + 1)..(i + 1) : entry.sum[p] = cksum
      BY <1>0 DEF cksum
    <3>5. i + 1 \in 1..(i + 1)
      BY <1>0
    <3> QED
      BY <1>2, <2>0, <2>2, <3>2, <3>3, <3>4, <3>5 DEF CollectedTo
  <2>3. CASE cksum # 0 /\ cksum = prev_cksum
    <3>1. PICK f \in 1..i :
            /\ f > 1 => entry.sum[f - 1] # entry.sum[f]
            /\ \A p \in f..i : entry.sum[p] = prev_cksum
            /\ a_collect = SubSeq(entry.buf, f, i)
      BY <2>3 DEF CollectedTo
    <3>2. a_collect' = Append(a_collect, byte)
      BY <1>2, <2>0, <2>3
    <3>3. SubSeq(entry.buf, f, i + 1) = Append(a_collect, byte)
      <4>1. Len(a_collect) = i - f + 1
        BY <1>0, <3>1
      <4> QED
        BY <1>0, <3>1, <4>1 DEF byte
    <3>4. \A p \in f..(i + 1) : p \in f..i \/ p = i + 1
      BY <1>0
    <3>5. \A p \in f..(i + 1) : entry.sum[p] = cksum
      BY <2>3, <3>1, <3>4 DEF cksum
    <3>6. f \in 1..(i + 1)
      BY <1>0
    <3> QED
      BY <1>2, <2>0, <2>3, <3>1, <3>2, <3>3, <3>5, <3>6 DEF CollectedTo
  <2> QED
    BY <2>1, <2>2, <2>3
<1>4. ASSUME i + 1 = len
      PROVE  offered' = TokensTo(len + 1)
  <2>1. TokensTo(len + 1) = TokensTo(len) \cup EndsAt(len)
    BY <1>0, TokensOn
  <2>2. i = len - 1
    BY <1>0, <1>4
  <2>3. CASE cksum # prev_cksum
    <3>1. EndsAt(len) = {}
      BY <1>4, <2>3, LastToken DEF cksum
    <3> QED
      BY <1>1, <1>4, <2>1, <2>3, <3>1
  <2>4. CASE cksum = prev_cksum
    <3>1. TokensTo(len) = TokensTo(i)
      <4>1. CASE i = 0
        <5>1. len = 1 /\ TokensTo(0) = TokensTo(1)
          BY <1>4, <4>1, <1>00
        <5> QED
          BY <4>1, <5>1, Zenon
      <4>2. CASE i > 0
        <5>1. TokensTo(i + 1) = TokensTo(i) \cup EndsAt(i)
          BY <1>0, <4>2, TokensOn
        <5>2. EndsAt(i) = {}
          BY <2>4, <4>2, EndOfToken DEF cksum
        <5> QED
          BY <1>4, <5>1, <5>2
      <4> QED
        BY <1>0, <4>1, <4>2
    <3>2. Len(Append(a_collect, byte)) = Len(a_collect) + 1
      BY <1>0 DEF TypeInv, byte
    <3>3. EndsAt(len) = IF Len(a_collect) + 1 \in MIN_AUTO_EXTRA..MAX_AUTO_EXTRA
                        THEN {Append(a_collect, byte)} ELSE {}
      BY <1>4, <2>4, LastToken DEF cksum, byte
    <3> QED
      BY <1>1, <2>1, <2>2, <2>4, <3>1, <3>2, <3>3
  <2> QED
    BY <2>3, <2>4
<1> QED
  BY <1>0, <1>1, <1>3, <1>4

-----------------------------------------------------------------------------
(* One lemma for each kind of step. *)

Inv == TypeInv /\ BufInv /\ AutoInd /\ CollectInv

LEMMA FirstStage ==
  ASSUME Deterministic, stage = "flip1"
  PROVE  Flip1
  BY DEF Deterministic, FlipMore, Flip8, Walk, Flip16, Flip32, Arith8, Arith16, Arith32,
     Int8, Int16, Int32, NoArith, Skip, Overwrite, OverwriteExtras, OverwriteAuto,
     InsertExtras, PassedDet

LEMMA DetAuto ==
  ASSUME Inv, Deterministic
  PROVE  AutoInd' /\ a_collect' \in Seq(Byte) /\ prev_cksum' \in Nat
<1>1. CASE stage # "flip1"
  <2>1. UNCHANGED <<autoVars, a_collect, prev_cksum>>
    BY <1>1, DetStep DEF Inv, DetEffect
  <2> QED
    BY <2>1, AutoKeeps DEF Inv, TypeInv
<1>2. CASE stage = "flip1" /\ entry.dumb_mode
  <2>1. UNCHANGED <<autoVars, a_collect, prev_cksum>>
    BY <1>2, FirstStage DEF Flip1
  <2> QED
    BY <2>1, AutoKeeps DEF Inv, TypeInv
<1>3. CASE stage = "flip1" /\ ~entry.dumb_mode
  <2>1. CollectTokens
    BY <1>3, FirstStage DEF Flip1
  <2>2. out_buf[i + 1] \in Byte /\ a_collect \in Seq(Byte) /\ entry.sum[i + 1] \in Nat
    <3>1. out_buf = in_buf /\ i \in Nat /\ i < len /\ a_collect \in Seq(Byte)
      BY <1>3 DEF Inv, TypeInv, BufInv, FuzzInv
    <3>2. in_buf = entry.buf /\ Len(entry.sum) = len
      BY <1>3, DetIs DEF Inv, BufInv, FuzzInv, Det, TypeInv, EntryFits, len
    <3>3. i + 1 \in 1..len /\ len \in Nat
      BY <3>1, ByteOfEntry DEF Inv
    <3>4. in_buf[i + 1] \in Byte
      BY <3>3, ByteOfEntry DEF Inv
    <3>5. entry.sum[i + 1] \in Nat
      <4>1. entry.sum \in Seq(Nat)
        BY ByteOfEntry DEF Inv
      <4> QED
        BY <3>2, <3>3, <4>1
    <3> QED
      BY <3>1, <3>4, <3>5
  <2>3. a_collect' \in Seq(Byte) /\ prev_cksum' \in Nat
    <3>1. <<>> \in Seq(Byte)
      OBVIOUS
    <3>2. /\ Append(<<>>, out_buf[i + 1]) \in Seq(Byte)
          /\ Append(a_collect, out_buf[i + 1]) \in Seq(Byte)
      BY <2>2, <3>1, AppendProperties
    <3>3. Append(Append(a_collect, out_buf[i + 1]), out_buf[i + 1]) \in Seq(Byte)
      BY <2>2, <3>2, AppendProperties
    <3> QED
      BY <2>1, <2>2, <3>1, <3>2, <3>3, Offered
  <2>4. \/ \E t \in Seq(Byte) : maybe_add_auto(t)
        \/ UNCHANGED autoVars
    <3>1. Append(a_collect, out_buf[i + 1]) \in Seq(Byte)
      BY <2>2
    <3> QED
      BY <2>1, <2>2, <3>1 DEF CollectTokens, Offer
  <2> QED
    BY <2>3, <2>4, AutoKeeps DEF Inv
<1> QED
  BY <1>1, <1>2, <1>3

LEMMA DetBuf ==
  ASSUME Inv, Deterministic
  PROVE  TypeInv' /\ BufInv'
<1>1. DetEffect
  BY DetStep DEF Inv
<1>2. /\ UNCHANGED <<entry, in_buf, stage_cur, stage_max, perf_score, orig_perf, temp_len,
                     splice_cycle, extras>>
      /\ stage' \in Det \cup {"havoc"} /\ i' \in Nat
      /\ out_buf' = in_buf
      /\ stage' = "flip1" => i' < len
      /\ stage \in Det
  BY <1>1 DEF DetEffect, havocVars
<1>3. a_collect' \in Seq(Byte) /\ prev_cksum' \in Nat
  BY DetAuto
<1>4. stage' \notin Before /\ stage' # "load"
  BY <1>2, DetIs DEF Before
<1>5. stage' \notin {"round", "tweak", "splice", "over"}
  BY <1>2, DetIs
<1>6. TypeInv'
  <2>1. EntryFits' /\ CountTypes' /\ (len \in 1..MAX_FILE)' /\ len' = len
    BY <1>2 DEF Inv, TypeInv, EntryFits, CountTypes, len
  <2>2. stage' \in Before \cup Det \cup AfterDet
    BY <1>2 DEF AfterDet
  <2> QED
    BY <1>2, <1>3, <1>4, <2>1, <2>2 DEF Inv, TypeInv
<1>7. in_buf = entry.buf /\ splice_cycle = 0
  BY <1>2 DEF Inv, BufInv, FuzzInv, Det
<1>8. BufInv'
  BY <1>2, <1>4, <1>5, <1>7 DEF Inv, BufInv, FuzzInv, Det
<1> QED
  BY <1>6, <1>8

\* The runs of an entry stay the same.
LEMMA TokensAgain ==
  ASSUME entry' = entry, in_buf' = in_buf, NEW CONSTANT k
  PROVE  TokensTo(k)' = TokensTo(k)
<1>1. len' = len
  BY DEF len
<1>2. \A f, l : TokenRun(f, l)' <=> TokenRun(f, l)
  BY <1>1 DEF TokenRun
<1> DEFINE old == {s \in (1..len) \X (1..len) : TokenRun(s[1], s[2]) /\ s[2] < k}
           new == {s \in (1..len) \X (1..len) : TokenRun(s[1], s[2])' /\ s[2] < k}
<1>3. new = old
  BY <1>2
<1>4. TokensTo(k) = {SubSeq(entry.buf, r[1], r[2]) : r \in old}
  BY DEF TokensTo
<1>5. TokensTo(k)' = {SubSeq(entry.buf, r[1], r[2]) : r \in new}
  BY <1>1 DEF TokensTo
<1> HIDE DEF old, new
<1> QED
  BY <1>3, <1>4, <1>5

LEMMA DetCollect ==
  ASSUME Inv, Deterministic
  PROVE  CollectInv'
<1>0. /\ entry' = entry /\ in_buf' = in_buf
      /\ stage' = "flip1" => stage = "flip1"
      /\ stage' = "flip2" => stage \in {"flip1", "flip2"}
      /\ stage = "flip2" => UNCHANGED offered
  BY DetStep DEF Inv, DetEffect
<1>1. TokensTo(len + 1)' = TokensTo(len + 1)
  <2>1. PICK k : k = len + 1
    OBVIOUS
  <2>2. TokensTo(k)' = TokensTo(k)
    BY <1>0, TokensAgain
  <2>3. TokensTo(len + 1)' = TokensTo(k)'
    BY <1>0, <2>1 DEF TokensTo, len
  <2> QED
    BY <2>1, <2>2, <2>3
<1>2. ASSUME stage = "flip1", ~entry.dumb_mode
      PROVE  /\ stage' = "flip1" => /\ CollectedTo(i, prev_cksum, a_collect)'
                                    /\ (offered = TokensTo(i))'
             /\ stage' = "flip2" => (offered = TokensTo(len + 1))'
  <2>1. CollectTokens /\ GoOn(len)
    BY <1>2, FirstStage DEF Flip1
  <2>2. /\ TypeInv /\ in_buf = entry.buf /\ out_buf = in_buf /\ i < len
        /\ CollectedTo(i, prev_cksum, a_collect) /\ offered = TokensTo(i)
    BY <1>2, DetIs DEF Inv, TypeInv, BufInv, FuzzInv, Det, CollectInv
  <2>3. /\ i + 1 < len => /\ CollectedTo(i + 1, prev_cksum', a_collect')
                          /\ offered' = TokensTo(i + 1)
        /\ i + 1 = len => offered' = TokensTo(len + 1)
    BY <2>1, <2>2, CollectStep
  <2>4. i \in Nat /\ len \in Nat
    BY <2>2, ByteOfEntry DEF TypeInv
  <2>5. CASE i + 1 < len
    <3>1. stage' = "flip1" /\ i' = i + 1
      BY <1>2, <2>1, <2>5 DEF GoOn
    <3>2. CollectedTo(i, prev_cksum, a_collect)'
      BY <1>0, <2>3, <2>5, <3>1 DEF CollectedTo
    <3>3. (offered = TokensTo(i))'
      <4>1. PICK k : k = i + 1
        OBVIOUS
      <4>2. TokensTo(k)' = TokensTo(k)
        BY <1>0, TokensAgain
      <4>3. TokensTo(i)' = TokensTo(k)'
        BY <3>1, <4>1 DEF TokensTo
      <4> QED
        BY <2>3, <2>5, <4>1, <4>2, <4>3
    <3> QED
      BY <3>1, <3>2, <3>3
  <2>6. CASE ~(i + 1 < len)
    <3>1. stage' = "flip2" /\ i + 1 = len
      BY <1>2, <2>1, <2>2, <2>4, <2>6, AfterIs, OrderIs DEF GoOn
    <3>2. (offered = TokensTo(len + 1))'
      BY <1>1, <2>3, <3>1
    <3> QED
      BY <3>1, <3>2
  <2> QED
    BY <2>5, <2>6
<1>3. ASSUME stage = "flip2", ~entry.dumb_mode
      PROVE  (offered = TokensTo(len + 1))'
  BY <1>0, <1>1, <1>3 DEF Inv, CollectInv
<1> QED
  BY <1>0, <1>2, <1>3 DEF CollectInv

LEMMA LoadStep ==
  ASSUME Inv, Load
  PROVE  Inv'
<1>1. /\ stage = "load" /\ stage' = "load extras" /\ load_auto(entry.auto)
      /\ UNCHANGED <<entry, i, in_buf, out_buf, a_collect, prev_cksum, stage_cur, stage_max,
                     perf_score, orig_perf, temp_len, splice_cycle, offered>>
  BY DEF Load, bufVars, detVars, havocVars
<1>2. stage' \in Before /\ stage' \notin Det \cup {"load", "flip1", "flip2"} \cup AfterDet
  BY <1>1, DetIs DEF Before, AfterDet
<1>3. AutoInd'
  BY <1>1, LoadKeeps DEF Inv, TypeInv
<1>4. extras' = extras
  BY <1>1 DEF load_auto
<1>5. TypeInv'
  BY <1>1, <1>2, <1>4 DEF Inv, TypeInv, EntryFits, CountTypes, len, Before
<1>6. BufInv'
  BY <1>1, <1>2 DEF Inv, BufInv, FuzzInv, Before, AfterDet, Det
<1> QED
  BY <1>2, <1>3, <1>5, <1>6 DEF Inv, CollectInv

LEMMA LoadExtrasStep ==
  ASSUME Inv, LoadExtras
  PROVE  Inv'
<1>1. /\ stage = "load extras" /\ stage' = "score" /\ load_extras(entry.user)
      /\ UNCHANGED <<entry, i, in_buf, out_buf, a_collect, prev_cksum, stage_cur, stage_max,
                     perf_score, orig_perf, temp_len, splice_cycle, offered>>
  BY DEF LoadExtras, bufVars, detVars, havocVars
<1>2. stage' \in Before /\ stage' \notin Det \cup {"load", "flip1", "flip2"} \cup AfterDet
  BY <1>1, DetIs DEF Before, AfterDet
<1>3. AutoInd'
  BY <1>1, AutoKeeps DEF Inv
<1>4. extras' \subseteq Seq(Byte) /\ IsFiniteSet(extras')
  BY <1>1 DEF load_extras, Inv, TypeInv, EntryFits, EntryType
<1>5. TypeInv'
  BY <1>1, <1>2, <1>4 DEF Inv, TypeInv, EntryFits, CountTypes, len, Before
<1>6. BufInv'
  BY <1>1, <1>2 DEF Inv, BufInv, FuzzInv, Before, AfterDet, Det
<1> QED
  BY <1>2, <1>3, <1>5, <1>6 DEF Inv, CollectInv

LEMMA HandicapOnly ==
  ASSUME EntryFits, NEW h \in Nat, NEW e, e = [entry EXCEPT !.handicap = h]
  PROVE  /\ e \in EntryType /\ e.buf = entry.buf /\ e.sum = entry.sum /\ e.user = entry.user
         /\ e.dumb_mode = entry.dumb_mode
  BY DEF EntryFits, EntryType

LEMMA BeginStep ==
  ASSUME Inv, Begin
  PROVE  Inv'
<1>1. /\ stage = "score" /\ stage' \in {"havoc", "flip1"}
      /\ perf_score' = calculate_score(entry) /\ orig_perf' = perf_score'
      /\ UNCHANGED <<autoVars, i, in_buf, out_buf, a_collect, prev_cksum, stage_cur,
                     stage_max, temp_len, splice_cycle, offered>>
  BY DEF Begin, bufVars, detVars
<1>2. /\ stage' \notin Before \cup {"load", "flip2", "round", "tweak", "splice", "over"}
      /\ stage' \in Det \cup AfterDet /\ stage \in Before
  BY <1>1, DetIs DEF Before, AfterDet
<1>3. AutoInd'
  BY <1>1, AutoKeeps DEF Inv
<1>4. perf_score' \in Nat /\ perf_score' <= 2 * HAVOC_MAX_MULT * 100
  BY <1>1, ScoreIsLimited
<1>5. /\ entry' \in EntryType /\ entry'.buf = entry.buf /\ entry'.sum = entry.sum
      /\ entry'.user = entry.user /\ entry'.dumb_mode = entry.dumb_mode
  <2> DEFINE h == IF entry.handicap >= 4 THEN entry.handicap - 4 ELSE GE(entry.handicap - 1, 0)
  <2>1. entry.handicap \in Nat
    BY DEF Inv, TypeInv, EntryFits, EntryType
  <2>2. h \in Nat
    BY <2>1 DEF GE
  <2>3. entry' = [entry EXCEPT !.handicap = h]
    BY DEF Begin
  <2> HIDE DEF h
  <2> QED
    BY <2>2, <2>3, HandicapOnly DEF Inv, TypeInv
<1>6. /\ i = 0 /\ a_collect = <<>> /\ prev_cksum = 0 /\ offered = {} /\ in_buf = entry.buf
      /\ splice_cycle = 0 /\ out_buf = in_buf /\ len \in Nat \ {0}
  BY <1>1, <1>2, ByteOfEntry DEF Inv, TypeInv, BufInv, FuzzInv
<1>7. TypeInv'
  <2>1. EntryFits' /\ CountTypes'
    BY <1>1, <1>4, <1>5 DEF Inv, TypeInv, EntryFits, CountTypes
  <2>2. len' = len /\ extras' = extras /\ 0 < len
    BY <1>1, <1>6 DEF len, autoVars
  <2> QED
    BY <1>1, <1>2, <1>6, <2>1, <2>2 DEF Inv, TypeInv
<1>8. BufInv'
  <2>1. HAVOC_MAX_MULT * 100 \in Nat /\ 2 * HAVOC_MAX_MULT * 100 = 2 * (HAVOC_MAX_MULT * 100)
    BY Limits
  <2>2. perf_score' <= 2 * HAVOC_MAX_MULT * 100
    BY <1>4, <2>1
  <2> QED
    BY <1>1, <1>2, <1>4, <1>5, <1>6, <2>2 DEF Inv, BufInv, FuzzInv, Det
<1>9. CollectInv'
  <2>1. CollectedTo(i, prev_cksum, a_collect)'
    BY <1>1, <1>6 DEF CollectedTo
  <2>2. TokensTo(i)' = {}
    <3>1. i' = 0 /\ len' \in Nat
      BY <1>1, <1>6 DEF len
    <3>2. \A l \in 1..len' : ~(l < 0)
      BY <3>1
    <3>3. {s \in (1..len') \X (1..len') : TokenRun(s[1], s[2])' /\ s[2] < 0} = {}
      BY <3>2
    <3> QED
      BY <3>1, <3>3 DEF TokensTo
  <2> QED
    BY <1>1, <1>2, <1>6, <2>1, <2>2 DEF CollectInv
<1> QED
  BY <1>3, <1>7, <1>8, <1>9 DEF Inv

\* The steps after the deterministic stages leave all this alone.
LEMMA LaterKeeps ==
  ASSUME Inv, stage' \in AfterDet,
         UNCHANGED <<autoVars, i, a_collect, prev_cksum, orig_perf>>, entry' = entry,
         CountTypes', (in_buf \in Seq(Byte) /\ len \in 1..MAX_FILE)'
  PROVE  TypeInv' /\ AutoInd' /\ CollectInv'
<1>1. /\ stage' \notin Before \cup {"load", "flip1", "flip2"}
  BY DetIs DEF Before, AfterDet
<1>2. extras' = extras
  BY DEF autoVars
<1>3. EntryFits'
  BY DEF Inv, TypeInv, EntryFits
<1>4. TypeInv'
  BY <1>1, <1>2, <1>3 DEF Inv, TypeInv
<1>5. AutoInd'
  BY AutoKeeps DEF Inv
<1> QED
  BY <1>1, <1>4, <1>5 DEF CollectInv

LEMMA AtLeast ==
  ASSUME NEW x \in Nat, NEW y \in Nat
  PROVE  GE(x, y) \in Nat /\ GE(x, y) >= y
  BY DEF GE

LEMMA HavocStartStep ==
  ASSUME Inv, HavocStart
  PROVE  Inv'
<1>1. /\ stage = "havoc" /\ stage' = "round"
      /\ perf_score' \in {perf_score, orig_perf} /\ stage_cur' = 0 /\ temp_len' = len
      /\ UNCHANGED <<autoVars, entry, i, in_buf, out_buf, a_collect, prev_cksum, orig_perf,
                     splice_cycle>>
  BY DEF HavocStart, bufVars, detVars
<1>2. /\ perf_score \in Nat /\ orig_perf \in Nat /\ splice_cycle \in Nat
      /\ perf_score <= 2 * HAVOC_MAX_MULT * 100 /\ orig_perf <= 2 * HAVOC_MAX_MULT * 100
      /\ HAVOC_MAX_MULT * 100 \in Nat /\ 2 * HAVOC_MAX_MULT * 100 = 2 * (HAVOC_MAX_MULT * 100)
      /\ len \in 1..MAX_FILE /\ len \in Nat /\ in_buf \in Seq(Byte)
  BY Limits, ByteOfEntry DEF Inv, TypeInv, CountTypes, BufInv, FuzzInv
<1>3. perf_score' \in Nat /\ perf_score' <= 2 * HAVOC_MAX_MULT * 100
  BY <1>1, <1>2
<1>4. stage_max' \in Nat
  <2>1. PICK cycles \in Nat :
          stage_max' = GE(((cycles * perf_score') \div havoc_div) \div 100, HAVOC_MIN)
    BY Limits DEF HavocStart
  <2>2. (cycles * perf_score') \div havoc_div \in Nat
    BY <1>3, Limits, Product, Quotient
  <2>3. ((cycles * perf_score') \div havoc_div) \div 100 \in Nat
    BY <2>2, Quotient
  <2> QED
    BY <2>1, <2>3, AtLeast, Limits
<1>5. CountTypes'
  BY <1>1, <1>2, <1>3, <1>4 DEF CountTypes
<1>6. TypeInv' /\ AutoInd' /\ CollectInv'
  BY <1>1, <1>2, <1>5, LaterKeeps DEF AfterDet, len
<1>7. stage' \in AfterDet /\ stage' \notin Before \cup Det
  BY <1>1, Distinctly DEF AfterDet
<1>8. BufInv'
  BY <1>1, <1>2, <1>3, <1>4, <1>7 DEF Inv, BufInv, FuzzInv, Det
<1> QED
  BY <1>6, <1>8 DEF Inv

LEMMA RoundStep ==
  ASSUME Inv, Round
  PROVE  Inv'
<1>1. /\ stage = "round"
      /\ \/ stage' = "tweak" /\ stage_cur < stage_max
         \/ stage' = "splice"
      /\ UNCHANGED <<autoVars, entry, i, in_buf, out_buf, a_collect, prev_cksum, stage_cur,
                     stage_max, perf_score, orig_perf, temp_len, splice_cycle>>
  BY DEF Round, bufVars, detVars
<1>2. CountTypes' /\ (in_buf \in Seq(Byte) /\ len \in 1..MAX_FILE)'
  BY <1>1 DEF Inv, TypeInv, CountTypes, len
<1>3. stage' \in AfterDet /\ stage' \notin Before \cup Det
  BY <1>1, Distinctly DEF AfterDet
<1>4. TypeInv' /\ AutoInd' /\ CollectInv'
  BY <1>1, <1>2, <1>3, LaterKeeps
<1>5. BufInv'
  BY <1>1, <1>3 DEF Inv, BufInv, FuzzInv, Det
<1> QED
  BY <1>4, <1>5 DEF Inv

LEMMA TweakedLength ==
  ASSUME Inv, temp_len \in 1..MAX_FILE,
         NEW n \in InPlace \cup Deleted \cup Cloned \cup Inserted
  PROVE  n \in 1..MAX_FILE
<1>0. temp_len \in Nat /\ MAX_FILE \in Nat
  BY Limits
<1>1. CASE n \in InPlace
  BY <1>1 DEF InPlace
<1>2. CASE n \in Deleted
  <2>1. temp_len >= 2 /\ \E m \in choose_block_len(temp_len - 1) : n = temp_len - m
    BY <1>0, <1>2 DEF Deleted
  <2>2. PICK m \in choose_block_len(temp_len - 1) : n = temp_len - m
    BY <2>1
  <2>3. temp_len - 1 \in Nat \ {0}
    BY <1>0, <2>1
  <2>4. m \in 1..(temp_len - 1)
    BY <2>2, <2>3, BlockFits
  <2> QED
    BY <1>0, <2>2, <2>3, <2>4
<1>3. CASE n \in Cloned
  <2>1. /\ temp_len + HAVOC_BLK_XL < MAX_FILE
        /\ \E m \in choose_block_len(temp_len) \cup choose_block_len(HAVOC_BLK_XL) :
             n = temp_len + m
    BY <1>0, <1>3, Blocks DEF Cloned
  <2>2. PICK m \in choose_block_len(temp_len) \cup choose_block_len(HAVOC_BLK_XL) :
          n = temp_len + m
    BY <2>1
  <2>3. temp_len \in Nat \ {0} /\ HAVOC_BLK_XL \in Nat \ {0}
    BY <1>0, Blocks
  <2>4. m \in Nat /\ m <= HAVOC_BLK_XL
    BY <2>2, <2>3, BlockFits
  <2> QED
    BY <1>0, <2>1, <2>2, <2>3, <2>4
<1>4. CASE n \in Inserted
  <2>1. PICK t \in extras \cup DOMAIN a_extras : n = temp_len + Len(t) /\ n < MAX_FILE
    BY <1>4 DEF Inserted
  <2>2. t \in Seq(Byte)
    BY <2>1 DEF Inv, TypeInv, AutoInd
  <2>3. Len(t) \in Nat
    BY <2>2
  <2> QED
    BY <1>0, <2>1, <2>3
<1> QED
  BY <1>1, <1>2, <1>3, <1>4

LEMMA TweakStep ==
  ASSUME Inv, Tweak
  PROVE  Inv'
<1>1. /\ stage = "tweak" /\ stage' = "tweak"
      /\ temp_len' \in InPlace \cup Deleted \cup Cloned \cup Inserted
      /\ UNCHANGED <<autoVars, entry, i, in_buf, a_collect, prev_cksum, stage_cur,
                     stage_max, perf_score, orig_perf, splice_cycle>>
  BY DEF Tweak, detVars
<1>2. temp_len' \in 1..MAX_FILE
  <2>1. temp_len \in 1..MAX_FILE
    BY <1>1 DEF Inv, BufInv, FuzzInv
  <2>2. PICK n \in InPlace \cup Deleted \cup Cloned \cup Inserted : temp_len' = n
    BY <1>1
  <2> QED
    BY <2>1, <2>2, TweakedLength
<1>3. CountTypes' /\ (in_buf \in Seq(Byte) /\ len \in 1..MAX_FILE)'
  BY <1>1, <1>2, Limits DEF Inv, TypeInv, CountTypes, len
<1>4. stage' \in AfterDet /\ stage' \notin Before \cup Det
  BY <1>1, Distinctly DEF AfterDet
<1>5. TypeInv' /\ AutoInd' /\ CollectInv'
  BY <1>1, <1>3, <1>4, LaterKeeps
<1>6. BufInv'
  BY <1>1, <1>2, <1>4 DEF Inv, BufInv, FuzzInv, Det
<1> QED
  BY <1>5, <1>6 DEF Inv

LEMMA HavocRunStep ==
  ASSUME Inv, HavocRun
  PROVE  Inv'
<1>1. /\ stage = "tweak" /\ stage' = "round"
      /\ out_buf' = in_buf /\ temp_len' = len /\ stage_cur' = stage_cur + 1
      /\ UNCHANGED <<autoVars, entry, i, in_buf, a_collect, prev_cksum, orig_perf,
                     splice_cycle>>
      /\ \/ stage_max' = stage_max /\ perf_score' = perf_score
         \/ /\ perf_score <= HAVOC_MAX_MULT * 100
            /\ stage_max' = 2 * stage_max /\ perf_score' = 2 * perf_score
  BY DEF HavocRun, detVars
<1>2. /\ stage_cur \in Nat /\ stage_max \in Nat /\ perf_score \in Nat
      /\ stage_cur < stage_max /\ perf_score <= 2 * HAVOC_MAX_MULT * 100
      /\ len \in 1..MAX_FILE /\ len \in Nat
  BY <1>1, ByteOfEntry DEF Inv, TypeInv, CountTypes, BufInv, FuzzInv
<1>3. /\ stage_cur' \in Nat /\ stage_max' \in Nat /\ perf_score' \in Nat
      /\ stage_cur' <= stage_max' /\ perf_score' <= 2 * HAVOC_MAX_MULT * 100
  BY <1>1, <1>2, Limits
<1>4. CountTypes' /\ (in_buf \in Seq(Byte) /\ len \in 1..MAX_FILE)'
  BY <1>1, <1>2, <1>3 DEF Inv, TypeInv, CountTypes, len
<1>5. stage' \in AfterDet /\ stage' \notin Before \cup Det
  BY <1>1, Distinctly DEF AfterDet
<1>6. TypeInv' /\ AutoInd' /\ CollectInv'
  BY <1>1, <1>4, <1>5, LaterKeeps
<1>7. BufInv'
  BY <1>1, <1>2, <1>3, <1>5 DEF Inv, BufInv, FuzzInv, Det
<1> QED
  BY <1>6, <1>7 DEF Inv

LEMMA SpliceStep ==
  ASSUME Inv, Splice
  PROVE  Inv'
<1>1. /\ stage = "splice" /\ stage' \in {"splice", "havoc"}
      /\ splice_cycle' = splice_cycle + 1
      /\ UNCHANGED <<autoVars, entry, i, a_collect, prev_cksum, stage_cur, stage_max,
                     perf_score, orig_perf, temp_len>>
  BY DEF Splice, detVars
<1>2. /\ in_buf' \in Seq(Byte) /\ Len(in_buf') \in 1..MAX_FILE
      /\ stage' = "havoc" => out_buf' = in_buf' /\ in_buf' # entry.buf
  <2>1. CASE in_buf' = entry.buf /\ stage' = stage
    BY <1>1, <2>1, ByteOfEntry DEF Inv, TypeInv, EntryFits
  <2>2. CASE ~(in_buf' = entry.buf /\ stage' = stage)
    <3>1. PICK target \in {t \in Others : Len(t) >= 2} :
            /\ locate_diffs(entry.buf, target)[1] >= 0
            /\ locate_diffs(entry.buf, target)[2] >= 2
            /\ \E split_at \in locate_diffs(entry.buf, target)[1]..
                                 (locate_diffs(entry.buf, target)[2] - 1) :
                 in_buf' = SubSeq(entry.buf, 1, split_at)
                             \o SubSeq(target, split_at + 1, Len(target))
            /\ out_buf' = in_buf'
      BY <2>2 DEF Splice
    <3>2. PICK split_at \in locate_diffs(entry.buf, target)[1]..
                              (locate_diffs(entry.buf, target)[2] - 1) :
            in_buf' = SubSeq(entry.buf, 1, split_at)
                        \o SubSeq(target, split_at + 1, Len(target))
      BY <3>1
    <3>3. target \in Seq(Byte) /\ Len(target) \in 1..MAX_FILE /\ entry.buf \in Seq(Byte)
      BY <3>1, FuzzAssumption, ByteOfEntry DEF Inv
    <3>4. in_buf' \in Seq(Byte) /\ Len(in_buf') = Len(target) /\ in_buf' # entry.buf
      <4> DEFINE w == SubSeq(entry.buf, 1, split_at) \o SubSeq(target, split_at + 1, Len(target))
      <4>1. w \in Seq(Byte) /\ Len(w) = Len(target) /\ w # entry.buf
        BY <3>1, <3>3, Spliced, Zenon
      <4> QED
        BY <3>2, <4>1
    <3> QED
      BY <3>1, <3>3, <3>4
  <2> QED
    BY <2>1, <2>2
<1>3. splice_cycle' \in Nat /\ splice_cycle' # 0
  BY <1>1 DEF Inv, TypeInv, CountTypes
<1>4. CountTypes' /\ (in_buf \in Seq(Byte) /\ len \in 1..MAX_FILE)'
  BY <1>1, <1>2, <1>3 DEF Inv, TypeInv, CountTypes, len
<1>5. stage' \in AfterDet /\ stage' \notin Before \cup Det
  BY <1>1, Distinctly DEF AfterDet
<1>6. TypeInv' /\ AutoInd' /\ CollectInv'
  BY <1>1, <1>4, <1>5, LaterKeeps
<1>7. BufInv'
  BY <1>1, <1>2, <1>3, <1>5 DEF Inv, BufInv, FuzzInv, Det
<1> QED
  BY <1>6, <1>7 DEF Inv

LEMMA EndStep ==
  ASSUME Inv, Return \/ Abandon
  PROVE  Inv'
<1>1. /\ stage' = "over"
      /\ UNCHANGED <<autoVars, entry, i, in_buf, a_collect, prev_cksum, stage_cur, stage_max,
                     perf_score, orig_perf, temp_len, splice_cycle>>
  BY DEF Return, Abandon, bufVars, detVars, havocVars
<1>2. CountTypes' /\ (in_buf \in Seq(Byte) /\ len \in 1..MAX_FILE)'
  BY <1>1 DEF Inv, TypeInv, CountTypes, len
<1>3. stage' \in AfterDet /\ stage' \notin Before \cup Det
  BY <1>1, Distinctly DEF AfterDet
<1>4. TypeInv' /\ AutoInd' /\ CollectInv'
  BY <1>1, <1>2, <1>3, LaterKeeps
<1>5. BufInv'
  BY <1>1, <1>3 DEF Inv, BufInv, FuzzInv, Det
<1> QED
  BY <1>4, <1>5 DEF Inv

\* Saving the tokens, or nothing at all.
LEMMA QuietStep ==
  ASSUME Inv, Save \/ UNCHANGED vars
  PROVE  Inv'
<1>1. /\ UNCHANGED <<entry, stage, i, in_buf, out_buf, a_collect, prev_cksum, stage_cur,
                      stage_max, perf_score, orig_perf, temp_len, splice_cycle, offered,
                      extras>>
      /\ (save_auto /\ stage \notin {"load", "load extras"}) \/ UNCHANGED autoVars
  BY DEF Save, save_auto, vars, autoVars, bufVars, detVars, havocVars
<1>2. AutoInd'
  BY <1>1, AutoKeeps DEF Inv
<1>3. TypeInv'
  BY <1>1 DEF Inv, TypeInv, EntryFits, CountTypes, len, autoVars
<1>4. BufInv'
  BY <1>1 DEF Inv, BufInv, FuzzInv
<1>5. CollectInv'
  <2>1. CollectedTo(i, prev_cksum, a_collect)' = CollectedTo(i, prev_cksum, a_collect)
    BY <1>1 DEF CollectedTo
  <2>2. TokensTo(i)' = TokensTo(i) /\ TokensTo(len + 1)' = TokensTo(len + 1)
    BY <1>1 DEF TokensTo, TokenRun, len
  <2> QED
    BY <1>1, <2>1, <2>2 DEF Inv, CollectInv
<1> QED
  BY <1>2, <1>3, <1>4, <1>5 DEF Inv

LEMMA InitInv ==
  Init => Inv
<1> SUFFICES ASSUME Init
             PROVE  Inv
  OBVIOUS
<1>1. /\ entry \in Entries /\ stage = "load" /\ i = 0 /\ in_buf = entry.buf
      /\ out_buf = entry.buf /\ a_collect = <<>> /\ prev_cksum = 0 /\ stage_cur = 0
      /\ stage_max = 0 /\ perf_score = 100 /\ orig_perf = 100 /\ temp_len = 0
      /\ splice_cycle = 0 /\ offered = {}
      /\ extras = {} /\ a_extras = <<>> /\ front = {} /\ auto_changed = FALSE /\ saved = {}
  BY DEF Init
<1>2. stage \in Before /\ stage \notin Det \cup AfterDet
  BY <1>1, DetIs DEF Before, AfterDet
<1>3. /\ EntryFits /\ entry.buf \in Seq(Byte)
  BY <1>1, FuzzAssumption DEF EntryFits, EntryType
<1>4. IsFiniteSet({}) /\ Cardinality({}) = 0
  BY FS_EmptySet
<1>5. TypeInv
  BY <1>1, <1>2, <1>3, <1>4 DEF TypeInv, CountTypes, len, EntryFits
<1>6. BufInv
  BY <1>1, <1>2, Limits DEF BufInv, FuzzInv, AfterDet, Det
<1>7. AutoInd
  <2>1. DOMAIN a_extras = {}
    BY <1>1
  <2> QED
    BY <1>1, <1>4, <2>1, Limits DEF AutoInd, AutoInv, Leads
<1>8. CollectInv
  BY <1>1 DEF CollectInv
<1> QED
  BY <1>5, <1>6, <1>7, <1>8 DEF Inv

LEMMA NextInv ==
  Inv /\ [Next]_vars => Inv'
<1> SUFFICES ASSUME Inv, [Next]_vars
             PROVE  Inv'
  OBVIOUS
<1>1. CASE Load
  BY <1>1, LoadStep
<1>2. CASE LoadExtras
  BY <1>2, LoadExtrasStep
<1>3. CASE Begin
  BY <1>3, BeginStep
<1>4. CASE Deterministic
  BY <1>4, DetAuto, DetBuf, DetCollect DEF Inv
<1>5. CASE Havoc
  BY <1>5, HavocStartStep, RoundStep, TweakStep, HavocRunStep, SpliceStep, EndStep DEF Havoc
<1>6. CASE Abandon
  BY <1>6, EndStep
<1>7. CASE Save \/ UNCHANGED vars
  BY <1>7, QuietStep
<1> QED
  BY <1>1, <1>2, <1>3, <1>4, <1>5, <1>6, <1>7 DEF Next

-----------------------------------------------------------------------------
(* What the program promises. *)

\* maybe_add_auto: the cache of tokens keeps its limit and its order, holds no
\* token twice, and what the resumed session finds is what is in front, unless
\* a save is due.
THEOREM CacheIsSound == Spec => []AutoInv
<1>1. Inv => AutoInv
  BY DEF Inv, AutoInd
<1> QED
  BY <1>1, InitInv, NextInv, PTL DEF Spec

\* What flip1 offers the dictionary is all the longest runs of neighbors with one
\* checksum other than the entry's, and nothing else, however the target's
\* checksums are spread over the bytes.
THEOREM TokensFound == Spec => []TokensAreRuns
<1>1. Inv => TokensAreRuns
  <2> SUFFICES ASSUME Inv, stage = "flip2", ~entry.dumb_mode
               PROVE  TokensAreRuns
    BY DEF TokensAreRuns
  <2>1. len \in Nat /\ offered = TokensTo(len + 1)
    BY ByteOfEntry DEF Inv, CollectInv
  <2> QED
    BY <2>1, AllTokens DEF TokensAreRuns
<1> QED
  BY <1>1, InitInv, NextInv, PTL DEF Spec

\* Every stage gets back the buffer it was given: one change is tried at a time;
\* no buffer is empty or too large; a spliced one is not the entry; and finds do
\* not prolong havoc without bound.
THEOREM BuffersRestored == Spec => []FuzzInv
<1>1. Inv => FuzzInv
  BY DEF Inv, BufInv
<1> QED
  BY <1>1, InitInv, NextInv, PTL DEF Spec

-----------------------------------------------------------------------------
(* afl-tmin: the result behaves as the original. *)

\* What run_target has found of the data in hand, as long as it was run.
Kept ==
  LET first == Result(case.target, case.data)  last == Result(case.target, in_data)
  IN /\ crash_mode = first.crash /\ orig_cksum = first.path
     /\ last.time # "hang"
     /\ last.crash = first.crash
     /\ (first.crash /\ ~case.exact_mode) \/ last.path = first.path

\* The data changes only to what was found to be as good; before the first run
\* it is the original itself.
KeptInv ==
  /\ phase \in {"dry_run", "failed"} => in_data = case.data
  /\ phase \notin {"dry_run", "failed", "aborted"} => Kept
  /\ phase = "aborted" => in_data = case.data \/ Kept
  /\ phase \in {"written", "aborted"} => out_file = in_data

\* A run with the result TRUE was in time and as the original's.
LEMMA GoodRun ==
  ASSUME NEW buf, TRUE \in run_target(buf)
  PROVE  /\ Result(case.target, buf).time # "hang"
         /\ Unchanged(Result(case.target, buf))
  BY DEF run_target, InTime

\* Every attempt leaves Kept as it is: the data stays, or is as good.
LEMMA TryKeeps ==
  ASSUME Kept, NEW buf, UNCHANGED <<case, crash_mode, orig_cksum>>,
         in_data' = in_data \/ (in_data' = buf /\ TRUE \in run_target(buf))
  PROVE  Kept'
<1>1. CASE in_data' = in_data
  BY <1>1 DEF Kept
<1>2. CASE in_data' = buf /\ TRUE \in run_target(buf)
  BY <1>2, GoodRun DEF Kept, Unchanged
<1> QED BY <1>1, <1>2

\* A step of a stage is an attempt or leaves the data alone.
LEMMA StageKeeps ==
  ASSUME Kept, Minimize
  PROVE  Kept' /\ phase' \notin {"dry_run", "failed", "aborted", "written"}
<1>1. CASE Block
  <2> DEFINE buf == Zeroed(in_data, pos, Smaller(size, in_len - pos))
  <2>1. in_data' = in_data \/ (in_data' = buf /\ TRUE \in run_target(buf))
    BY <1>1 DEF Block, Try, run_target
  <2>2. Kept'
    BY <1>1, <2>1, TryKeeps DEF Block
  <2> QED BY <1>1, <2>2 DEF Block, NextPass
<1>2. CASE Delete
  <2> DEFINE buf == SubSeq(in_data, 1, pos) \o SubSeq(in_data, pos + size + 1, in_len)
  <2>1. in_data' = in_data \/ (in_data' = buf /\ TRUE \in run_target(buf))
    BY <1>2 DEF Delete, Try, run_target
  <2>2. Kept'
    BY <1>2, <2>1, TryKeeps DEF Delete
  <2> QED BY <1>2, <2>2 DEF Delete
<1>3. CASE NextSize
  <2>1. Kept'
    BY <1>3, TryKeeps DEF NextSize
  <2> QED BY <1>3, <2>1 DEF NextSize
<1>4. CASE Symbols
  <2> DEFINE sym == Min({b \in Range(in_data) \ {Zero} : b >= pos})
             buf == [k \in DOMAIN in_data |-> IF in_data[k] = sym THEN Zero ELSE in_data[k]]
  <2>1. in_data' = in_data \/ (in_data' = buf /\ TRUE \in run_target(buf))
    BY <1>4 DEF Symbols, Try, run_target
  <2>2. Kept'
    BY <1>4, <2>1, TryKeeps DEF Symbols
  <2> QED BY <1>4, <2>2 DEF Symbols
<1>5. CASE Characters
  <2> DEFINE buf == Zeroed(in_data, pos, 1)
  <2>1. in_data' = in_data \/ (in_data' = buf /\ TRUE \in run_target(buf))
    BY <1>5 DEF Characters, Try, run_target
  <2>2. Kept'
    BY <1>5, <2>1, TryKeeps DEF Characters
  <2> QED BY <1>5, <2>2 DEF Characters, NextPass
<1> QED BY <1>1, <1>2, <1>3, <1>4, <1>5 DEF Minimize

\* The invariant is inductive.
LEMMA KeptStep == KeptInv /\ [TminNext]_tminVars => KeptInv'
<1> SUFFICES ASSUME KeptInv, [TminNext]_tminVars PROVE KeptInv'
  OBVIOUS
<1>1. CASE DryRun
  <2>1. in_data = case.data /\ UNCHANGED <<case, in_data>>
    BY <1>1 DEF DryRun, KeptInv
  <2>2. PICK intime \in InTime(Result(case.target, in_data)) :
          /\ phase' = "blocks" => intime
          /\ phase' \in {"blocks", "failed"}
          /\ crash_mode' = IF intime THEN Result(case.target, in_data).crash ELSE FALSE
          /\ orig_cksum' = IF intime THEN Result(case.target, in_data).path ELSE 0
    BY <1>1 DEF DryRun
  <2>3. intime => Result(case.target, in_data).time # "hang"
    BY DEF InTime
  <2>4. intime => Kept'
    BY <2>1, <2>2, <2>3 DEF Kept
  <2> QED BY <2>1, <2>2, <2>4 DEF KeptInv
<1>2. CASE Minimize
  <2>1. phase \notin {"dry_run", "failed", "aborted"}
    BY <1>2 DEF Minimize, Block, Delete, NextSize, Symbols, Characters
  <2>2. Kept
    BY <2>1 DEF KeptInv
  <2> QED BY <1>2, <2>2, StageKeeps DEF KeptInv
<1>3. CASE Write
  BY <1>3 DEF Write, KeptInv, Kept
<1>4. CASE Stop
  BY <1>4 DEF Stop, KeptInv, Kept
<1>5. CASE UNCHANGED tminVars
  BY <1>5 DEF tminVars, KeptInv, Kept
<1> QED BY <1>1, <1>2, <1>3, <1>4, <1>5 DEF TminNext

\* Whatever afl-tmin writes, at the end or on Ctrl-C, does what the original
\* did, for every target, every test case and all sizes of blocks.
THEOREM ReproducesAlways == TminSpec => []Reproduces
<1>1. TminInit => KeptInv
  BY DEF TminInit, KeptInv
<1>2. KeptInv => Reproduces
  BY DEF KeptInv, Kept, Reproduces
<1> QED BY <1>1, <1>2, KeptStep, PTL DEF TminSpec

-----------------------------------------------------------------------------
(* Block sizes are positive. *)

\* The loop of next_p2.
Doubling(g, val, n) ==
  g = [k \in 0..n |-> IF k = 0 THEN 1 ELSE IF val > g[k - 1] THEN 2 * g[k - 1] ELSE g[k - 1]]

LEMMA DoublingExists ==
  ASSUME NEW val
  PROVE  \A n \in Nat : \E g : Doubling(g, val, n)
<1> DEFINE T == {n \in Nat : \E g : Doubling(g, val, n)}
           Next1(x) == IF val > x THEN 2 * x ELSE x
<1>1. 0 \in T
  <2>1. Doubling([k \in 0..0 |-> 1], val, 0)
    BY DEF Doubling
  <2> QED
    BY <2>1
<1>2. ASSUME NEW n \in Nat, n \in T
      PROVE  n + 1 \in T
  <2>1. PICK g : Doubling(g, val, n)
    BY <1>2
  <2> DEFINE h == [k \in 0..(n + 1) |-> IF k = n + 1 THEN Next1(g[n]) ELSE g[k]]
  <2>2. \A k \in 0..n : g[k] = IF k = 0 THEN 1 ELSE Next1(g[k - 1])
    BY <2>1 DEF Doubling
  <2>3. \A k \in 0..(n + 1) : h[k] = IF k = 0 THEN 1 ELSE Next1(h[k - 1])
    <3> HIDE DEF Next1
    <3> TAKE k \in 0..(n + 1)
    <3>1. CASE k = n + 1
      <4>1. h[k - 1] = g[n] /\ h[k] = Next1(g[n]) /\ k # 0
        BY <3>1
      <4> QED
        BY <4>1
    <3>2. CASE k \in 1..n
      <4>1. h[k - 1] = g[k - 1] /\ h[k] = g[k] /\ k # 0 /\ k \in 0..n
        BY <3>2
      <4> QED
        BY <4>1, <2>2
    <3>3. CASE k = 0
      <4>1. h[0] = g[0] /\ 0 \in 0..n
        OBVIOUS
      <4> QED
        BY <3>3, <4>1, <2>2
    <3> QED
      BY <3>1, <3>2, <3>3
  <2>4. h = [k \in 0..(n + 1) |-> h[k]]
    OBVIOUS
  <2> HIDE DEF h
  <2>5. Doubling(h, val, n + 1)
    BY <2>3, <2>4 DEF Doubling
  <2> QED
    BY <2>5
<1> HIDE DEF T
<1>3. Nat \subseteq T
  BY <1>1, <1>2, Induct
<1> QED
  BY <1>3 DEF T

LEMMA NextPowerType ==
  ASSUME NEW val \in Nat
  PROVE  next_p2(val) \in Nat \ {0}
<1>1. next_p2(val) = (CHOOSE g : Doubling(g, val, val))[val]
  BY DEF next_p2, Doubling
<1>2. \E g : Doubling(g, val, val)
  BY DoublingExists
<1>3. PICK g : Doubling(g, val, val) /\ next_p2(val) = g[val]
  BY <1>1, <1>2, Zenon
<1> DEFINE T == {n \in Nat : n <= val => g[n] \in Nat \ {0}}
<1>4. \A k \in 0..val : g[k] = IF k = 0 THEN 1
                                ELSE IF val > g[k - 1] THEN 2 * g[k - 1] ELSE g[k - 1]
  BY <1>3 DEF Doubling
<1>5. 0 \in T
  BY <1>4
<1>6. ASSUME NEW n \in Nat, n \in T
      PROVE  n + 1 \in T
  <2> SUFFICES ASSUME n + 1 <= val
               PROVE  g[n + 1] \in Nat \ {0}
    OBVIOUS
  <2>1. g[n] \in Nat \ {0} /\ n + 1 \in 0..val /\ n + 1 # 0 /\ (n + 1) - 1 = n
    BY <1>6
  <2> QED
    BY <1>4, <2>1
<1> HIDE DEF T
<1>7. Nat \subseteq T
  BY <1>5, <1>6, Induct
<1> QED
  BY <1>3, <1>7 DEF T

-----------------------------------------------------------------------------
(* Bytes that could be left out. *)

MinTypes ==
  /\ case \in Cases
  /\ in_data \in Seq(Chars)
  /\ phase \in {"dry_run", "blocks", "delete", "characters"} => pos \in Nat
  /\ size \in Nat \ {0}

\* The data without byte k does not behave as the original in any run.
Needed(k) ==
  LET run == Result(case.target, Without(in_data, k)) IN run.time = "fast" => ~Unchanged(run)

\* As long as a pass has changed nothing, what it has tried byte by byte is
\* needed; a pass that ends so has tried all.
SpareInv ==
  /\ phase = "delete" /\ ~prev_del => pos > 0
  /\ phase = "delete" /\ size = 1 /\ ~changed_any =>
       \A k \in DOMAIN in_data : k <= pos => Needed(k)
  /\ phase \in {"symbols", "characters"} /\ ~changed_any =>
       \A k \in DOMAIN in_data : Needed(k)
  /\ phase \in {"finalize", "written"} => \A k \in DOMAIN in_data : Needed(k)

\* A failed attempt that could not be slow has not behaved as the original.
LEMMA BadRun ==
  ASSUME NEW buf, FALSE \in run_target(buf), Result(case.target, buf).time = "fast"
  PROVE  ~Unchanged(Result(case.target, buf))
  BY DEF run_target, InTime

\* Of two equal neighbors it does not matter which is left out.
LEMMA EqualNeighbors ==
  ASSUME NEW d \in Seq(Chars), NEW k \in 1..(Len(d) - 1), d[k] = d[k + 1]
  PROVE  Without(d, k + 1) = Without(d, k)
<1> DEFINE n == Len(d)
<1>0. n \in Nat /\ k \in 1..n /\ k + 1 \in 1..n /\ k \in Nat /\ \A p \in 1..n : d[p] \in Chars
  OBVIOUS
<1>1. ASSUME NEW m \in 1..n
      PROVE  /\ Without(d, m) \in Seq(Chars) /\ Len(Without(d, m)) = n - 1
             /\ \A p \in 1..(n - 1) : Without(d, m)[p] = IF p < m THEN d[p] ELSE d[p + 1]
  <2> DEFINE a == SubSeq(d, 1, m - 1)
             b == SubSeq(d, m + 1, n)
  <2>1. a \in Seq(Chars) /\ Len(a) = m - 1 /\ \A p \in 1..(m - 1) : a[p] = d[p]
    BY <1>0
  <2>2. b \in Seq(Chars) /\ Len(b) = n - m /\ \A p \in 1..(n - m) : b[p] = d[m + p]
    BY <1>0
  <2>3. Without(d, m) = a \o b
    BY DEF Without
  <2> HIDE DEF a, b
  <2>4. /\ a \o b \in Seq(Chars) /\ Len(a \o b) = Len(a) + Len(b)
        /\ \A p \in 1..(Len(a) + Len(b)) : (a \o b)[p] = IF p <= Len(a) THEN a[p] ELSE b[p - Len(a)]
    BY <2>1, <2>2, ConcatProperties
  <2>5. Len(a) + Len(b) = n - 1
    BY <1>0, <2>1, <2>2
  <2>6. ASSUME NEW p \in 1..(n - 1)
        PROVE  (a \o b)[p] = IF p < m THEN d[p] ELSE d[p + 1]
    <3>1. CASE p < m
      <4>1. p \in 1..(m - 1) /\ p <= Len(a)
        BY <1>0, <2>1, <3>1
      <4> QED
        BY <2>1, <2>4, <2>5, <3>1, <4>1
    <3>2. CASE ~(p < m)
      <4>1. ~(p <= Len(a)) /\ p - Len(a) \in 1..(n - m) /\ m + (p - Len(a)) = p + 1
        BY <1>0, <2>1, <3>2
      <4>2. (a \o b)[p] = b[p - Len(a)]
        BY <2>4, <2>5, <4>1
      <4> QED
        BY <2>2, <3>2, <4>1, <4>2
    <3> QED
      BY <3>1, <3>2
  <2> QED
    BY <2>3, <2>4, <2>5, <2>6
<1> DEFINE v == Without(d, k)
           w == Without(d, k + 1)
<1>2. /\ v \in Seq(Chars) /\ Len(v) = n - 1
      /\ \A p \in 1..(n - 1) : v[p] = IF p < k THEN d[p] ELSE d[p + 1]
  BY <1>0, <1>1
<1>3. /\ w \in Seq(Chars) /\ Len(w) = n - 1
      /\ \A p \in 1..(n - 1) : w[p] = IF p < k + 1 THEN d[p] ELSE d[p + 1]
  BY <1>0, <1>1
<1> HIDE DEF v, w
<1>4. \A p \in 1..(n - 1) : w[p] = v[p]
  <2> TAKE p \in 1..(n - 1)
  <2>1. p < k + 1 <=> p < k \/ p = k
    BY <1>0
  <2> QED
    BY <1>2, <1>3, <2>1
<1>5. v = w
  BY <1>2, <1>3, <1>4, SeqEqual
<1> QED
  BY <1>5 DEF v, w

LEMMA NeededStill ==
  ASSUME UNCHANGED <<case, in_data, crash_mode, orig_cksum>>
  PROVE  \A k : Needed(k)' <=> Needed(k)
  BY DEF Needed, Unchanged, Without

LEMMA ZeroedType ==
  ASSUME NEW d \in Seq(Chars), NEW at, NEW n
  PROVE  Zeroed(d, at, n) \in Seq(Chars)
<1>1. DOMAIN d = 1..Len(d) /\ Len(d) \in Nat
  OBVIOUS
<1>2. Zeroed(d, at, n) \in [1..Len(d) -> Chars]
  BY <1>1, TminAssumption DEF Zeroed
<1> QED
  BY <1>1, <1>2

\* What the attempts make of the data are bytes again.
LEMMA DataType ==
  ASSUME in_data \in Seq(Chars), Minimize, phase = "delete" => pos \in Nat,
         size \in Nat
  PROVE  in_data' \in Seq(Chars)
<1>1. CASE Block
  BY <1>1, ZeroedType DEF Block, Try
<1>2. CASE Delete
  <2> DEFINE buf == SubSeq(in_data, 1, pos) \o SubSeq(in_data, pos + size + 1, in_len)
  <2>1. pos \in Nat /\ pos < in_len /\ in_len = Len(in_data) /\ Len(in_data) \in Nat
    BY <1>2 DEF Delete, in_len
  <2>2. SubSeq(in_data, 1, pos) \in Seq(Chars)
    BY <2>1
  <2>3. SubSeq(in_data, pos + size + 1, in_len) \in Seq(Chars)
    BY <2>1
  <2>4. buf \in Seq(Chars)
    BY <2>2, <2>3, ConcatProperties
  <2>5. in_data' = in_data \/ in_data' = buf
    BY <1>2 DEF Delete, Try
  <2> QED
    BY <2>4, <2>5
<1>3. CASE NextSize
  BY <1>3 DEF NextSize
<1>4. CASE Symbols
  <2> DEFINE sym == Min({b \in Range(in_data) \ {Zero} : b >= pos})
             buf == [k \in DOMAIN in_data |-> IF in_data[k] = sym THEN Zero ELSE in_data[k]]
  <2>1. in_data' = in_data \/ in_data' = buf
    BY <1>4 DEF Symbols, Try
  <2>2. buf \in [1..Len(in_data) -> Chars] /\ Len(in_data) \in Nat
    BY TminAssumption
  <2>3. buf \in Seq(Chars)
    BY <2>2
  <2> QED
    BY <2>1, <2>3
<1>5. CASE Characters
  BY <1>5, ZeroedType DEF Characters, Try
<1> QED
  BY <1>1, <1>2, <1>3, <1>4, <1>5 DEF Minimize

LEMMA PassType ==
  ASSUME NEW data \in Seq(Chars), NextPass(data)
  PROVE  size' \in Nat \ {0} /\ pos' = 0 /\ phase' = "delete" /\ prev_del' = TRUE
<1>1. Len(data) \div TRIM_START_STEPS \in Nat
  BY TminAssumption
<1> QED
  BY <1>1, NextPowerType DEF NextPass

LEMMA MinTypesStep ==
  MinTypes /\ [TminNext]_tminVars => MinTypes'
<1> DEFINE Placed == phase \in {"dry_run", "blocks", "delete", "characters"}
<1> SUFFICES ASSUME MinTypes, [TminNext]_tminVars
             PROVE  MinTypes'
  OBVIOUS
<1>0. /\ in_data \in Seq(Chars) /\ size \in Nat \ {0} /\ (Placed => pos \in Nat)
      /\ in_len \in Nat
  <2>1. in_data \in Seq(Chars)
    BY DEF MinTypes
  <2>2. in_len \in Nat
    BY <2>1 DEF in_len
  <2> QED
    BY <2>1, <2>2 DEF MinTypes
<1>1. CASE DryRun
  <2>1. /\ phase = "dry_run" /\ UNCHANGED <<case, in_data, pos>>
        /\ size' = Max({next_p2(in_len \div TMIN_SET_STEPS), TMIN_SET_MIN_SIZE})
    BY <1>1 DEF DryRun
  <2>2. in_len \div TMIN_SET_STEPS \in Nat
    BY <1>0, TminAssumption
  <2>3. next_p2(in_len \div TMIN_SET_STEPS) \in Nat \ {0} /\ TMIN_SET_MIN_SIZE \in Nat \ {0}
    BY <2>2, NextPowerType, TminAssumption
  <2>4. \A a, b \in Nat \ {0} : Max({a, b}) \in Nat \ {0}
    <3> TAKE a, b \in Nat \ {0}
    <3>1. \E x \in {a, b} : \A y \in {a, b} : x >= y
      OBVIOUS
    <3>2. Max({a, b}) \in {a, b}
      BY <3>1 DEF Max
    <3> QED
      BY <3>2
  <2>5. size' \in Nat \ {0}
    BY <2>1, <2>3, <2>4
  <2> QED
    BY <2>1, <2>5 DEF MinTypes
<1>2. CASE Minimize
  <2>1. case' = case
    BY <1>2 DEF Minimize, Block, Delete, NextSize, Symbols, Characters
  <2>2. in_data' \in Seq(Chars)
    BY <1>2, DataType DEF MinTypes
  <2>3. (Placed' => pos' \in Nat) /\ size' \in Nat \ {0}
    <3>1. CASE Block
      <4>1. CASE pos >= in_len
        <5>1. NextPass(in_data) /\ in_data \in Seq(Chars)
          BY <3>1, <4>1 DEF Block, MinTypes
        <5> QED
          <6>1. size' \in Nat \ {0} /\ pos' = 0
            BY <5>1, PassType
          <6> QED
            BY <6>1
      <4>2. CASE ~(pos >= in_len)
        BY <3>1, <4>2 DEF Block, MinTypes
      <4> QED
        BY <4>1, <4>2
    <3>2. CASE Delete
      BY <3>2 DEF Delete, Try, MinTypes
    <3>3. CASE NextSize
      BY <3>3 DEF NextSize, MinTypes
    <3>4. CASE Symbols
      <4>1. /\ phase = "symbols" /\ size' = size
            /\ \/ phase' = phase
               \/ phase' = "characters" /\ pos' = 0
        BY <3>4 DEF Symbols
      <4> QED
        BY <1>0, <4>1
    <3>5. CASE Characters
      <4>1. CASE pos >= in_len
        <5>1. /\ in_data \in Seq(Chars)
              /\ \/ NextPass(in_data)
                 \/ phase' = "finalize" /\ size' = size
          BY <3>5, <4>1 DEF Characters, MinTypes, minVars
        <5>2. phase' = "finalize" => ~Placed'
          OBVIOUS
        <5> QED
          <6>1. NextPass(in_data) => size' \in Nat \ {0} /\ pos' = 0
            BY <5>1, PassType
          <6> QED
            BY <1>0, <5>1, <5>2, <6>1
      <4>2. CASE ~(pos >= in_len)
        BY <3>5, <4>2 DEF Characters, MinTypes
      <4> QED
        BY <4>1, <4>2
    <3> QED
      BY <1>2, <3>1, <3>2, <3>3, <3>4, <3>5 DEF Minimize
  <2> QED
    BY <2>1, <2>2, <2>3 DEF MinTypes
<1>3. CASE Write \/ Stop
  BY <1>3 DEF Write, Stop, MinTypes, minVars
<1>4. CASE UNCHANGED tminVars
  BY <1>4 DEF tminVars, minVars, MinTypes
<1> QED
  BY <1>1, <1>2, <1>3, <1>4 DEF TminNext

\* A step of byte-wise deletion that changes nothing shows its byte needed.
LEMMA ByteNeeded ==
  ASSUME MinTypes, SpareInv, Delete, size = 1, ~changed_any, ~changed_any'
  PROVE  Needed(pos + 1)
<1>1. /\ pos \in Nat /\ pos < in_len /\ in_data \in Seq(Chars) /\ in_len = Len(in_data)
      /\ in_len \in Nat
  BY DEF Delete, MinTypes, in_len
<1>2. CASE SameAsLast
  <2>1. pos > 0
    BY <1>2 DEF SpareInv, Delete, SameAsLast
  <2>2. in_data[pos] = in_data[pos + 1]
    <3>1. SubSeq(in_data, pos - 1 + 1, pos) = SubSeq(in_data, pos + 1, pos + 1)
      BY <1>2 DEF SameAsLast
    <3>2. /\ pos \in 1..Len(in_data) /\ pos + 1 \in 1..Len(in_data)
          /\ pos - 1 + 1 = pos
      BY <1>1, <2>1
    <3>3. \A m \in 1..Len(in_data) : SubSeq(in_data, m, m)[1] = in_data[m]
      BY <1>1
    <3> QED
      BY <3>1, <3>2, <3>3
  <2>3. Without(in_data, pos + 1) = Without(in_data, pos)
    BY <1>1, <2>1, <2>2, EqualNeighbors
  <2>4. Needed(pos)
    BY <1>1, <2>1 DEF SpareInv, Delete
  <2> QED
    BY <2>3, <2>4 DEF Needed
<1>3. CASE ~SameAsLast
  <2> DEFINE buf == SubSeq(in_data, 1, pos) \o SubSeq(in_data, pos + 1 + 1, in_len)
  <2>1. FALSE \in run_target(buf)
    <3>1. PICK res \in run_target(buf) :
            IF res THEN in_data' = buf /\ (prev_del' = TRUE /\ changed_any' = TRUE /\ pos' = pos)
            ELSE UNCHANGED in_data /\ (prev_del' = FALSE /\ pos' = pos + 1 /\ UNCHANGED changed_any)
      BY <1>3 DEF Delete, Try
    <3>2. res \in BOOLEAN
      BY DEF run_target, Unchanged
    <3>3. ~res
      BY <3>1
    <3> QED
      BY <3>2, <3>3
  <2>2. buf = Without(in_data, pos + 1)
    <3>1. (pos + 1) - 1 = pos
      BY <1>1
    <3> QED
      BY <1>1, <3>1 DEF Without
  <2> HIDE DEF buf
  <2> QED
    BY <2>1, <2>2, BadRun DEF Needed
<1> QED
  BY <1>2, <1>3

LEMMA SpareStep ==
  MinTypes /\ SpareInv /\ [TminNext]_tminVars => SpareInv'
<1> SUFFICES ASSUME MinTypes, SpareInv, [TminNext]_tminVars
             PROVE  SpareInv'
  OBVIOUS
<1>1. CASE DryRun
  BY <1>1 DEF DryRun, SpareInv
<1>2. CASE Block
  <2>1. CASE pos >= in_len
    <3>1. NextPass(in_data) /\ in_data \in Seq(Chars) /\ in_data' = in_data
      BY <1>2, <2>1 DEF Block, MinTypes
    <3>2. pos' = 0 /\ phase' = "delete" /\ prev_del' = TRUE
      BY <3>1, PassType
    <3>3. \A k \in DOMAIN in_data : ~(k <= 0)
      BY <3>1
    <3> QED
      BY <3>1, <3>2, <3>3 DEF SpareInv
  <2>2. CASE ~(pos >= in_len)
    BY <1>2, <2>2 DEF Block, SpareInv
  <2> QED
    BY <2>1, <2>2
<1>3. CASE Delete
  <2>0. /\ phase = "delete" /\ phase' = "delete" /\ pos \in Nat /\ size' = size
        /\ size \in Nat \ {0} /\ UNCHANGED <<case, crash_mode, orig_cksum>>
    BY <1>3 DEF Delete, MinTypes
  <2>1. ~prev_del' => pos' > 0
    <3>1. CASE SameAsLast
      BY <1>3, <2>0, <3>1 DEF Delete, SpareInv
    <3>2. CASE ~SameAsLast
      BY <1>3, <2>0, <3>2 DEF Delete, Try
    <3> QED
      BY <3>1, <3>2
  <2>2. ASSUME size = 1, ~changed_any',
               NEW k \in DOMAIN in_data', k <= pos'
        PROVE  Needed(k)'
    <3>1. in_data' = in_data /\ ~changed_any /\ pos' = pos + 1
      <4>1. CASE SameAsLast
        BY <1>3, <2>2, <4>1 DEF Delete
      <4>2. CASE ~SameAsLast
        BY <1>3, <2>2, <4>2 DEF Delete, Try
      <4> QED
        BY <4>1, <4>2
    <3>2. k <= pos \/ k = pos + 1
      BY <2>0, <2>2, <3>1 DEF MinTypes
    <3>3. Needed(k)
      BY <1>3, <2>0, <2>2, <3>1, <3>2, ByteNeeded DEF SpareInv
    <3> QED
      BY <2>0, <3>1, <3>3, NeededStill
  <2> QED
    BY <2>0, <2>1, <2>2 DEF SpareInv
<1>4. CASE NextSize
  <2>0. /\ phase = "delete" /\ pos >= in_len /\ pos \in Nat /\ pos' = 0
        /\ UNCHANGED <<case, in_data, crash_mode, orig_cksum, changed_any>>
        /\ size \in Nat \ {0} /\ in_len \in Nat /\ DOMAIN in_data = 1..in_len
    BY <1>4 DEF NextSize, MinTypes, in_len
  <2>1. CASE size > 1 /\ in_len >= 1
    <3>1. phase' = "delete" /\ prev_del' = TRUE
      BY <1>4, <2>1 DEF NextSize
    <3>2. \A k \in DOMAIN in_data : ~(k <= 0)
      BY <2>0
    <3> QED
      BY <2>0, <3>1, <3>2 DEF SpareInv
  <2>2. CASE ~(size > 1 /\ in_len >= 1)
    <3>1. phase' = IF IdlePass THEN "finalize" ELSE "symbols"
      BY <1>4, <2>2 DEF NextSize
    <3>2. IdlePass => ~changed_any
      BY DEF IdlePass
    <3>3. ASSUME ~changed_any
          PROVE  \A k \in DOMAIN in_data : Needed(k)
      <4>1. CASE size = 1
        <5>1. \A k \in DOMAIN in_data : k <= pos
          BY <2>0
        <5> QED
          BY <2>0, <3>3, <4>1, <5>1 DEF SpareInv
      <4>2. CASE in_len = 0
        BY <2>0, <4>2
      <4> QED
        BY <2>0, <2>2, <4>1, <4>2
    <3>4. ~changed_any => \A k \in DOMAIN in_data' : Needed(k)'
      BY <2>0, <3>3, NeededStill
    <3> QED
      BY <2>0, <3>1, <3>2, <3>4 DEF SpareInv
  <2> QED
    BY <2>1, <2>2
<1>5. CASE Symbols
  <2>1. /\ phase = "symbols" /\ phase' \in {"symbols", "characters"}
        /\ UNCHANGED <<case, crash_mode, orig_cksum>>
        /\ ~changed_any' => in_data' = in_data /\ ~changed_any
    <3>1. CASE in_data' = in_data /\ changed_any' = changed_any
      BY <1>5, <3>1 DEF Symbols
    <3>2. CASE ~(in_data' = in_data /\ changed_any' = changed_any)
      BY <1>5, <3>2 DEF Symbols, Try
    <3> QED
      BY <3>1, <3>2
  <2>2. ~changed_any' => \A k \in DOMAIN in_data' : Needed(k)'
    BY <2>1, NeededStill DEF SpareInv
  <2> QED
    BY <2>1, <2>2 DEF SpareInv
<1>6. CASE Characters
  <2>1. CASE pos >= in_len /\ changed_any
    <3>1. NextPass(in_data) /\ in_data \in Seq(Chars) /\ in_data' = in_data
      BY <1>6, <2>1 DEF Characters, MinTypes
    <3>2. pos' = 0 /\ phase' = "delete" /\ prev_del' = TRUE
      BY <3>1, PassType
    <3>3. \A k \in DOMAIN in_data : ~(k <= 0)
      BY <3>1
    <3> QED
      BY <3>1, <3>2, <3>3 DEF SpareInv
  <2>2. CASE pos >= in_len /\ ~changed_any
    <3>1. /\ phase = "characters" /\ phase' = "finalize"
          /\ UNCHANGED <<case, in_data, crash_mode, orig_cksum>>
      BY <1>6, <2>2 DEF Characters
    <3>2. \A k \in DOMAIN in_data' : Needed(k)'
      BY <2>2, <3>1, NeededStill DEF SpareInv
    <3> QED
      BY <3>1, <3>2 DEF SpareInv
  <2>3. CASE ~(pos >= in_len)
    <3>1. /\ phase = "characters" /\ phase' = "characters"
          /\ UNCHANGED <<case, crash_mode, orig_cksum>>
          /\ ~changed_any' => in_data' = in_data /\ ~changed_any
      BY <1>6, <2>3 DEF Characters, Try
    <3>2. ~changed_any' => \A k \in DOMAIN in_data' : Needed(k)'
      BY <3>1, NeededStill DEF SpareInv
    <3> QED
      BY <3>1, <3>2 DEF SpareInv
  <2> QED
    BY <2>1, <2>2, <2>3
<1>7. CASE Write
  <2>1. /\ phase = "finalize" /\ phase' = "written"
        /\ UNCHANGED <<case, in_data, crash_mode, orig_cksum>>
    BY <1>7 DEF Write
  <2> QED
    BY <2>1, NeededStill DEF SpareInv
<1>8. CASE Stop
  BY <1>8 DEF Stop, SpareInv
<1>9. CASE UNCHANGED tminVars
  <2>1. UNCHANGED <<case, in_data, crash_mode, orig_cksum, phase, pos, size, prev_del, changed_any>>
    BY <1>9 DEF tminVars, minVars
  <2> QED
    BY <2>1, NeededStill DEF SpareInv
<1> QED
  BY <1>1, <1>2, <1>3, <1>4, <1>5, <1>6, <1>7, <1>8, <1>9 DEF TminNext, Minimize

\* What afl-tmin writes at the end has no byte to spare, although it skips blocks
\* that equal the last one and ends after a pass that has changed nothing.
THEOREM NothingToSpare == TminSpec => []NoByteSpare
<1>1. TminInit => MinTypes /\ SpareInv
  <2> SUFFICES ASSUME TminInit
               PROVE  MinTypes /\ SpareInv
    OBVIOUS
  <2>1. case \in Cases /\ in_data = case.data /\ phase = "dry_run" /\ pos = 0 /\ size = 1
    BY DEF TminInit
  <2>2. in_data \in Seq(Chars)
    BY <2>1, TminAssumption
  <2> QED
    BY <2>1, <2>2 DEF MinTypes, SpareInv
<1>2. SpareInv => NoByteSpare
  BY DEF SpareInv, NoByteSpare, Needed
<1> QED
  BY <1>1, <1>2, MinTypesStep, SpareStep, PTL DEF TminSpec

-----------------------------------------------------------------------------
(* What the deterministic stages have run so far. *)

Old(at, n) == SubSeq(entry.buf, at + 1, at + n)

\* Stage k has been at byte p.
Done(k, p) ==
  \/ stage = Order[k] /\ p < i
  \/ \E m \in (k + 1)..16 : stage = Order[m]

FlipsDone(n, p) ==
  \A bit \in (W * p)..(W * p + W - 1) :
    bit + n <= W * len => Flipped(entry.buf, bit, n) \in tried

WordsDone(n, p, words) ==
  p + n <= len /\ Effective(p, n) => \A w \in words : Put(entry.buf, p, w) \in tried

TokensDone(tokens, p) ==
  \A t \in tokens : p + Len(t) <= len /\ Effective(p, Len(t)) =>
    Put(entry.buf, p, t) \in tried \cup {entry.buf}

BytesDone(p) ==
  /\ Complement(entry.buf, p, 1) \in tried
  /\ p \in entry.live => EFF_APOS(p) \in eff_map

\* What stage k has to have run at byte p.
StageDone(k, p) ==
  /\ k = 1 => FlipsDone(1, p)
  /\ k = 2 => FlipsDone(2, p)
  /\ k = 3 => FlipsDone(4, p)
  /\ k = 4 => BytesDone(p)
  /\ k = 5 => WordsDone(2, p, {Complement(Old(p, 2), 0, 2)})
  /\ k = 6 => WordsDone(4, p, {Complement(Old(p, 4), 0, 4)})
  /\ k = 7 /\ ~entry.no_arith => WordsDone(1, p, Arith(Old(p, 1)))
  /\ k = 8 /\ ~entry.no_arith => WordsDone(2, p, Arith(Old(p, 2)))
  /\ k = 9 /\ ~entry.no_arith => WordsDone(4, p, Arith(Old(p, 4)))
  /\ k = 10 => WordsDone(1, p, Interesting(Old(p, 1), interesting_8))
  /\ k = 11 /\ ~entry.no_arith => WordsDone(2, p, Interesting(Old(p, 2), interesting_16))
  /\ k = 12 /\ ~entry.no_arith => WordsDone(4, p, Interesting(Old(p, 4), interesting_32))
  /\ k = 13 /\ Cardinality(extras) <= MAX_DET_EXTRAS => TokensDone(extras, p)
  /\ k = 15 => TokensDone(front, p)

TriedInv == \A k \in 1..15, p \in 0..(len - 1) : Done(k, p) => StageDone(k, p)

LEMMA DoneStep ==
  ASSUME i \in Nat, NEW k \in 1..15, stage = Order[k], NEW steps \in Int,
         GoOn(steps),
         NEW q \in 1..15, NEW p \in Nat, Done(q, p)', ~Done(q, p)
  PROVE  /\ q = k
         /\ p = i \/ p >= steps
<1>1. After(stage) = Order[k + 1] /\ k + 1 \in 1..16
  BY AfterIs
<1>2. \A m \in 1..16 : stage = Order[m] <=> m = k
  BY OrderOnce
<1>3. q >= k /\ (q = k => p >= i)
  <2>1. ~(q < k)
    <3> SUFFICES ASSUME q < k
                 PROVE  Done(q, p)
      OBVIOUS
    <3>1. k \in (q + 1)..16
      OBVIOUS
    <3> QED
      BY <3>1 DEF Done
  <2>2. q = k => p >= i
    BY DEF Done
  <2> QED
    BY <2>1, <2>2
<1>4. CASE stage' = stage /\ i' = i + 1
  <2>1. \E m \in q..16 : stage = Order[m] /\ (m = q => p < i + 1)
    <3>1. CASE stage' = Order[q] /\ p < i'
      <4>1. q \in q..16
        OBVIOUS
      <4> QED
        BY <3>1, <4>1, <1>4
    <3>2. CASE \E m \in (q + 1)..16 : stage' = Order[m]
      <4>1. PICK m \in (q + 1)..16 : stage' = Order[m]
        BY <3>2
      <4>2. m \in q..16 /\ m # q
        BY <4>1
      <4> QED
        BY <4>1, <4>2, <1>4
    <3> QED
      BY <3>1, <3>2 DEF Done
  <2>2. q = k /\ p < i + 1
    BY <2>1, <1>2, <1>3
  <2> QED
    BY <2>2, <1>3
<1>5. CASE stage' = After(stage) /\ i' = 0 /\ i + 1 >= steps
  <2>1. \A m \in 1..16 : stage' = Order[m] <=> m = k + 1
    BY <1>1, <1>5, OrderOnce
  <2>2. \E m \in (q + 1)..16 : stage' = Order[m]
    BY <1>5 DEF Done
  <2>3. q = k
    BY <1>3, <2>1, <2>2
  <2> QED
    BY <1>3, <1>5, <2>3
<1> QED
  BY <1>4, <1>5 DEF GoOn

\* A stage that makes progress keeps what has been done, and adds its own part.
LEMMA TriedStep ==
  ASSUME TriedInv, i \in Nat, entry'.buf = entry.buf, entry'.live = entry.live,
         entry'.no_arith = entry.no_arith, in_buf' = in_buf, len \in Nat,
         NEW k \in 1..15, stage = Order[k], NEW steps \in Int, GoOn(steps),
         tried \subseteq tried',
         k # 4 => eff_map' = eff_map,
         k >= 13 => UNCHANGED <<extras, front>>,
         \A p \in 0..(len - 1) : p < i /\ k = 4 => BytesDone(p)',
         \A p \in 0..(len - 1) : p = i \/ p >= steps => StageDone(k, p)'
  PROVE  TriedInv'
<1> SUFFICES ASSUME NEW q \in 1..15, NEW p \in 0..(len - 1), Done(q, p)'
             PROVE  StageDone(q, p)'
  BY DEF TriedInv, len
<1>1. CASE ~Done(q, p)
  BY <1>1, DoneStep
<1>2. CASE Done(q, p)
  <2>0. StageDone(q, p)
    BY <1>2 DEF TriedInv
  <2>1. q <= k /\ (q = k => p < i)
    <3>1. \A m \in 1..16 : stage = Order[m] <=> m = k
      BY OrderOnce
    <3>2. CASE stage = Order[q] /\ p < i
      BY <3>1, <3>2
    <3>3. CASE \E m \in (q + 1)..16 : stage = Order[m]
      <4>1. PICK m \in (q + 1)..16 : stage = Order[m]
        BY <3>3
      <4>2. m = k
        BY <3>1, <4>1
      <4> QED
        BY <4>1, <4>2
    <3> QED
      BY <1>2, <3>2, <3>3 DEF Done
  <2>2. len' = len
    BY DEF len
  <2>3. \A n, at : Old(at, n)' = Old(at, n)
    BY DEF Old
  <2>4. \A n : FlipsDone(n, p) => FlipsDone(n, p)'
    BY <2>2 DEF FlipsDone
  <2>5. CASE q <= 3
    BY <2>0, <2>4, <2>5 DEF StageDone
  <2>6. CASE q = 4
    <3>1. BytesDone(p)'
      BY <2>0, <2>1, <2>6 DEF StageDone, BytesDone, Complement, EFF_APOS
    <3> QED
      BY <2>6, <3>1 DEF StageDone
  <2>7. CASE q >= 5
    <3>1. eff_map' = eff_map
      BY <2>1, <2>7
    <3>2. \A n : Effective(p, n)' <=> Effective(p, n)
      BY <3>1 DEF Effective, EFF_APOS
    <3>3. CASE q <= 9
      BY <2>0, <2>2, <2>7, <3>2, <3>3 DEF StageDone, WordsDone, Old
    <3>4. CASE q \in 10..12
      BY <2>0, <2>2, <3>2, <3>4 DEF StageDone, WordsDone, Old
    <3>5. CASE q >= 13
      <4>1. extras' = extras /\ front' = front
        BY <2>1, <3>5
      <4> QED
        BY <2>0, <2>2, <3>2, <3>5, <4>1 DEF StageDone, TokensDone
    <3> QED
      BY <2>7, <3>3, <3>4, <3>5
  <2> QED
    BY <2>1, <2>5, <2>6, <2>7
<1> QED
  BY <1>1, <1>2

\* Where the deterministic stages are.
LEMMA InStage ==
  ASSUME Inv, NEW k \in 1..15, stage = Order[k]
  PROVE  /\ i \in Nat /\ len \in Nat \ {0} /\ in_buf = entry.buf /\ out_buf = entry.buf
         /\ entry.buf \in Seq(Byte) /\ stage \in Det /\ len = Len(entry.buf)
         /\ k # 1 => stage # "flip1"
<1>1. stage \in Det
  BY OrderIs DEF Det
<1>2. in_buf = entry.buf
  BY <1>1 DEF Inv, BufInv, FuzzInv, Det
<1>3. out_buf = in_buf
  BY <1>1, DetIs DEF Inv, BufInv, FuzzInv
<1>4. k # 1 => stage # Order[1]
  BY OrderOnce
<1> QED
  BY <1>1, <1>2, <1>3, <1>4, ByteOfEntry, OrderIs DEF Inv, TypeInv, len

LEMMA WalkTried ==
  ASSUME Inv, TriedInv, NEW k \in 5..12, NEW n \in {1, 2, 4}, NEW words,
         Walk(Order[k], n, words),
         \A p \in 0..(len - 1) :
           (p + n <= len =>
              p = i /\ (Effective(p, n)' => \A w \in words : Put(entry.buf, p, w) \in tried'))
             => StageDone(k, p)'
  PROVE  TriedInv'
<1>1. /\ stage = Order[k]
      /\ UNCHANGED <<extras, front, entry, in_buf, eff_map>>
  BY DEF Walk, Skip, autoVars, bufVars, detVars
<1>2. /\ i \in Nat /\ len \in Nat \ {0} /\ out_buf = entry.buf /\ k \in 1..15
  BY <1>1, InStage
<1>3. CASE len < n
  <2>1. GoOn(0) /\ tried' = tried
    BY <1>1, <1>2, <1>3 DEF Walk, Skip, GoOn
  <2>2. \A p \in 0..(len - 1) : StageDone(k, p)'
    BY <1>2, <1>3
  <2> QED
    BY <1>1, <1>2, <2>1, <2>2, TriedStep
<1>4. CASE ~(len < n)
  <2>1. /\ tried' = IF Effective(i, n) THEN tried \cup {Put(out_buf, i, w) : w \in words}
                    ELSE tried
        /\ GoOn(len - n + 1)
    BY <1>4 DEF Walk
  <2>2. \A p : Effective(p, n)' <=> Effective(p, n)
    BY <1>1 DEF Effective, EFF_APOS
  <2>3. Effective(i, n) => \A w \in words : Put(entry.buf, i, w) \in tried'
    BY <1>2, <2>1
  <2>4. \A p \in 0..(len - 1) : p = i \/ p >= len - n + 1 => StageDone(k, p)'
    BY <1>2, <2>2, <2>3
  <2>5. len - n + 1 \in Int /\ tried \subseteq tried'
    BY <1>2, <2>1
  <2> QED
    BY <1>1, <1>2, <2>1, <2>4, <2>5, TriedStep
<1> QED
  BY <1>3, <1>4


LEMMA WalksTried ==
  ASSUME Inv, TriedInv,
         Flip16 \/ Flip32 \/ Arith8 \/ Arith16 \/ Arith32 \/ Int8 \/ Int16 \/ Int32
  PROVE  TriedInv'
<1>1. ASSUME NEW k \in 5..12, NEW n, NEW words, Walk(Order[k], n, words)
      PROVE  /\ entry' = entry /\ len' = len
             /\ At(n) = Old(i, n)
  <2>1. stage = Order[k] /\ entry' = entry /\ in_buf' = in_buf
    BY <1>1 DEF Walk, Skip, bufVars
  <2>2. out_buf = entry.buf
    BY <2>1, InStage
  <2> QED
    BY <2>1, <2>2 DEF len, At, Old
<1>2. CASE Flip16
  <2>1. Walk(Order[5], 2, {Complement(At(2), 0, 2)})
    BY <1>2, OrderIs DEF Flip16
  <2>2. At(2) = Old(i, 2) /\ entry' = entry /\ len' = len
    BY <1>1, <2>1
  <2>3. ASSUME NEW p \in 0..(len - 1),
               p + 2 <= len => p = i /\ (Effective(p, 2)' =>
                 \A w \in {Complement(At(2), 0, 2)} : Put(entry.buf, p, w) \in tried')
        PROVE  StageDone(5, p)'
    <3>1. p + 2 <= len => (Effective(p, 2)' =>
             \A w \in {Complement(Old(p, 2), 0, 2)} : Put(entry.buf, p, w) \in tried')
      BY <2>2, <2>3
    <3>2. WordsDone(2, p, {Complement(Old(p, 2), 0, 2)})'
      BY <2>2, <3>1 DEF WordsDone, Old
    <3> QED
      BY <3>2 DEF StageDone
  <2> QED
    BY <2>1, <2>3, WalkTried
<1>3. CASE Flip32
  <2>1. Walk(Order[6], 4, {Complement(At(4), 0, 4)})
    BY <1>3, OrderIs DEF Flip32
  <2>2. At(4) = Old(i, 4) /\ entry' = entry /\ len' = len
    BY <1>1, <2>1
  <2>3. ASSUME NEW p \in 0..(len - 1),
               p + 4 <= len => p = i /\ (Effective(p, 4)' =>
                 \A w \in {Complement(At(4), 0, 4)} : Put(entry.buf, p, w) \in tried')
        PROVE  StageDone(6, p)'
    <3>1. p + 4 <= len => (Effective(p, 4)' =>
             \A w \in {Complement(Old(p, 4), 0, 4)} : Put(entry.buf, p, w) \in tried')
      BY <2>2, <2>3
    <3>2. WordsDone(4, p, {Complement(Old(p, 4), 0, 4)})'
      BY <2>2, <3>1 DEF WordsDone, Old
    <3> QED
      BY <3>2 DEF StageDone
  <2> QED
    BY <2>1, <2>3, WalkTried
<1>4. CASE Arith8
  <2>1. Walk(Order[7], 1, Arith(At(1)))
    BY <1>4, OrderIs DEF Arith8
  <2>2. At(1) = Old(i, 1) /\ entry' = entry /\ len' = len
    BY <1>1, <2>1
  <2>3. ASSUME NEW p \in 0..(len - 1),
               p + 1 <= len => p = i /\ (Effective(p, 1)' =>
                 \A w \in Arith(At(1)) : Put(entry.buf, p, w) \in tried')
        PROVE  StageDone(7, p)'
    <3>1. p + 1 <= len => (Effective(p, 1)' =>
             \A w \in Arith(Old(p, 1)) : Put(entry.buf, p, w) \in tried')
      BY <2>2, <2>3
    <3>2. WordsDone(1, p, Arith(Old(p, 1)))'
      BY <2>2, <3>1 DEF WordsDone, Old
    <3> QED
      BY <3>2 DEF StageDone
  <2> QED
    BY <2>1, <2>3, WalkTried
<1>5. CASE Arith16
  <2>1. Walk(Order[8], 2, Arith(At(2)))
    BY <1>5, OrderIs DEF Arith16
  <2>2. At(2) = Old(i, 2) /\ entry' = entry /\ len' = len
    BY <1>1, <2>1
  <2>3. ASSUME NEW p \in 0..(len - 1),
               p + 2 <= len => p = i /\ (Effective(p, 2)' =>
                 \A w \in Arith(At(2)) : Put(entry.buf, p, w) \in tried')
        PROVE  StageDone(8, p)'
    <3>1. p + 2 <= len => (Effective(p, 2)' =>
             \A w \in Arith(Old(p, 2)) : Put(entry.buf, p, w) \in tried')
      BY <2>2, <2>3
    <3>2. WordsDone(2, p, Arith(Old(p, 2)))'
      BY <2>2, <3>1 DEF WordsDone, Old
    <3> QED
      BY <3>2 DEF StageDone
  <2> QED
    BY <2>1, <2>3, WalkTried
<1>6. CASE Arith32
  <2>1. Walk(Order[9], 4, Arith(At(4)))
    BY <1>6, OrderIs DEF Arith32
  <2>2. At(4) = Old(i, 4) /\ entry' = entry /\ len' = len
    BY <1>1, <2>1
  <2>3. ASSUME NEW p \in 0..(len - 1),
               p + 4 <= len => p = i /\ (Effective(p, 4)' =>
                 \A w \in Arith(At(4)) : Put(entry.buf, p, w) \in tried')
        PROVE  StageDone(9, p)'
    <3>1. p + 4 <= len => (Effective(p, 4)' =>
             \A w \in Arith(Old(p, 4)) : Put(entry.buf, p, w) \in tried')
      BY <2>2, <2>3
    <3>2. WordsDone(4, p, Arith(Old(p, 4)))'
      BY <2>2, <3>1 DEF WordsDone, Old
    <3> QED
      BY <3>2 DEF StageDone
  <2> QED
    BY <2>1, <2>3, WalkTried
<1>7. CASE Int8
  <2>1. Walk(Order[10], 1, Interesting(At(1), interesting_8))
    BY <1>7, OrderIs DEF Int8
  <2>2. At(1) = Old(i, 1) /\ entry' = entry /\ len' = len
    BY <1>1, <2>1
  <2>3. ASSUME NEW p \in 0..(len - 1),
               p + 1 <= len => p = i /\ (Effective(p, 1)' =>
                 \A w \in Interesting(At(1), interesting_8) : Put(entry.buf, p, w) \in tried')
        PROVE  StageDone(10, p)'
    <3>1. p + 1 <= len => (Effective(p, 1)' =>
             \A w \in Interesting(Old(p, 1), interesting_8) : Put(entry.buf, p, w) \in tried')
      BY <2>2, <2>3
    <3>2. WordsDone(1, p, Interesting(Old(p, 1), interesting_8))'
      BY <2>2, <3>1 DEF WordsDone, Old
    <3> QED
      BY <3>2 DEF StageDone
  <2> QED
    BY <2>1, <2>3, WalkTried
<1>8. CASE Int16
  <2>1. Walk(Order[11], 2, Interesting(At(2), interesting_16))
    BY <1>8, OrderIs DEF Int16
  <2>2. At(2) = Old(i, 2) /\ entry' = entry /\ len' = len
    BY <1>1, <2>1
  <2>3. ASSUME NEW p \in 0..(len - 1),
               p + 2 <= len => p = i /\ (Effective(p, 2)' =>
                 \A w \in Interesting(At(2), interesting_16) : Put(entry.buf, p, w) \in tried')
        PROVE  StageDone(11, p)'
    <3>1. p + 2 <= len => (Effective(p, 2)' =>
             \A w \in Interesting(Old(p, 2), interesting_16) : Put(entry.buf, p, w) \in tried')
      BY <2>2, <2>3
    <3>2. WordsDone(2, p, Interesting(Old(p, 2), interesting_16))'
      BY <2>2, <3>1 DEF WordsDone, Old
    <3> QED
      BY <3>2 DEF StageDone
  <2> QED
    BY <2>1, <2>3, WalkTried
<1>9. CASE Int32
  <2>1. Walk(Order[12], 4, Interesting(At(4), interesting_32))
    BY <1>9, OrderIs DEF Int32
  <2>2. At(4) = Old(i, 4) /\ entry' = entry /\ len' = len
    BY <1>1, <2>1
  <2>3. ASSUME NEW p \in 0..(len - 1),
               p + 4 <= len => p = i /\ (Effective(p, 4)' =>
                 \A w \in Interesting(At(4), interesting_32) : Put(entry.buf, p, w) \in tried')
        PROVE  StageDone(12, p)'
    <3>1. p + 4 <= len => (Effective(p, 4)' =>
             \A w \in Interesting(Old(p, 4), interesting_32) : Put(entry.buf, p, w) \in tried')
      BY <2>2, <2>3
    <3>2. WordsDone(4, p, Interesting(Old(p, 4), interesting_32))'
      BY <2>2, <3>1 DEF WordsDone, Old
    <3> QED
      BY <3>2 DEF StageDone
  <2> QED
    BY <2>1, <2>3, WalkTried
<1> QED
  BY <1>2, <1>3, <1>4, <1>5, <1>6, <1>7, <1>8, <1>9

LEMMA FlipsTried ==
  ASSUME Inv, TriedInv, Flip1 \/ FlipMore
  PROVE  TriedInv'
<1>1. PICK k \in 1..3, n \in {1, 2, 4} :
        /\ stage = Order[k] /\ tried' = tried \cup Flips(n)
        /\ <<k, n>> \in {<<1, 1>>, <<2, 2>>, <<3, 4>>}
  <2>1. CASE stage = "flip1" /\ tried' = tried \cup Flips(1)
    <3> WITNESS 1 \in 1..3, 1 \in {1, 2, 4}
    <3> QED
      BY <2>1, OrderIs
  <2>2. CASE stage = "flip2" /\ tried' = tried \cup Flips(2)
    <3> WITNESS 2 \in 1..3, 2 \in {1, 2, 4}
    <3> QED
      BY <2>2, OrderIs
  <2>3. CASE stage = "flip4" /\ tried' = tried \cup Flips(4)
    <3> WITNESS 3 \in 1..3, 4 \in {1, 2, 4}
    <3> QED
      BY <2>3, OrderIs
  <2> QED
    BY <2>1, <2>2, <2>3 DEF Flip1, FlipMore
<1>2. /\ entry' = entry /\ in_buf' = in_buf /\ eff_map' = eff_map /\ GoOn(len)
  BY DEF Flip1, FlipMore, bufVars, detVars
<1>3. /\ i \in Nat /\ len \in Nat \ {0} /\ out_buf = entry.buf /\ k \in 1..15
  BY <1>1, InStage
<1>4. ASSUME NEW p \in 0..(len - 1), p = i \/ p >= len
      PROVE  StageDone(k, p)'
  <2>1. p = i /\ len' = len
    BY <1>2, <1>3, <1>4 DEF len
  <2>2. Flips(n) = {Flipped(entry.buf, bit, n) :
                      bit \in {x \in (W * p)..(W * p + W - 1) : x + n <= W * len}}
    BY <1>3, <2>1 DEF Flips
  <2>3. FlipsDone(n, p)'
    BY <1>1, <1>2, <2>1, <2>2 DEF FlipsDone
  <2> QED
    BY <1>1, <2>3 DEF StageDone
<1> QED
  BY <1>1, <1>2, <1>3, <1>4, TriedStep

LEMMA SlotOf ==
  ASSUME len \in Nat \ {0}, NEW p \in 0..(len - 1)
  PROVE  EFF_APOS(p) \in Slots
<1> DEFINE m == 2 ^ EFF_MAP_SCALE2
<1>1. EFF_MAP_SCALE2 \in 0..(4 * W + EFF_MAP_SCALE2) /\ 0 \in 0..(4 * W + EFF_MAP_SCALE2)
  BY NumberAssumption
<1>2. m \in Nat \ {0}
  BY <1>1, PowerAssumption
<1> HIDE DEF m
<1>3. ASSUME NEW x \in Nat, NEW y \in Nat, x <= y
      PROVE  x \div m \in 0..(y \div m)
  BY <1>2, <1>3
<1> QED
  BY <1>3 DEF Slots, EFF_APOS, m

LEMMA Flip8Tried ==
  ASSUME Inv, TriedInv, Flip8
  PROVE  TriedInv'
<1> DEFINE set == IF i = 0 THEN {0, EFF_APOS(len - 1)} ELSE eff_map
           map == IF entry.dumb_mode \/ len < EFF_MIN_LEN \/ i \in entry.live
                  THEN set \cup {EFF_APOS(i)} ELSE set
<1>1. /\ stage = Order[4] /\ entry' = entry /\ in_buf' = in_buf /\ GoOn(len)
      /\ tried' = tried \cup {Complement(out_buf, i, 1)}
      /\ eff_map' \in {Slots, map}
  BY OrderIs DEF Flip8, bufVars
<1>2. /\ i \in Nat /\ len \in Nat \ {0} /\ out_buf = entry.buf
  BY <1>1, InStage
<1>3. ASSUME NEW p \in 0..(len - 1), p <= i, p \in entry.live,
             p < i => EFF_APOS(p) \in eff_map
      PROVE  EFF_APOS(p) \in eff_map'
  <2>1. EFF_APOS(p) \in Slots
    BY <1>2, SlotOf
  <2>2. EFF_APOS(p) \in map
    BY <1>2, <1>3
  <2> QED
    BY <1>1, <2>1, <2>2
<1>4. ASSUME NEW p \in 0..(len - 1), p <= i
      PROVE  BytesDone(p)'
  <2>1. p < i => BytesDone(p)
    <3>1. p < i => Done(4, p)
      BY <1>1 DEF Done
    <3> QED
      BY <3>1 DEF TriedInv, StageDone
  <2>2. Complement(entry.buf, p, 1) \in tried'
    BY <1>1, <1>2, <1>4, <2>1 DEF BytesDone
  <2>3. p \in entry.live => EFF_APOS(p) \in eff_map'
    BY <1>3, <1>4, <2>1 DEF BytesDone
  <2> QED
    BY <1>1, <2>2, <2>3 DEF BytesDone, EFF_APOS
<1>5. ASSUME NEW p \in 0..(len - 1), p = i \/ p >= len
      PROVE  StageDone(4, p)'
  <2>1. p <= i
    BY <1>2, <1>5
  <2>2. BytesDone(p)'
    BY <1>4, <2>1
  <2> QED
    BY <2>2 DEF StageDone
<1> HIDE DEF map
<1> QED
  BY <1>1, <1>2, <1>4, <1>5, TriedStep

\* A token put over what a shorter one has left is put over the buffer itself.
LEMMA PutOver ==
  ASSUME out_buf \in Seq(Byte), i \in Nat, len \in Nat, len = Len(out_buf),
         NEW state, state.buf \in Seq(Byte), NEW b \in Nat, Under(state, b),
         NEW t \in Seq(Byte), b <= Len(t), Len(t) <= len - i
  PROVE  /\ Put(state.buf, i, t) = Put(out_buf, i, t)
         /\ Put(out_buf, i, t) \in Seq(Byte)
         /\ SubSeq(state.buf, i + 1, i + Len(t)) = t => Put(out_buf, i, t) = state.buf
<1>1. /\ DOMAIN state.buf = 1..len /\ DOMAIN out_buf = 1..len
      /\ \A p \in 1..len : p \notin (i + 1)..(i + Len(t)) => state.buf[p] = out_buf[p]
  BY DEF Under
<1>2. Put(state.buf, i, t) = Put(out_buf, i, t)
  BY <1>1 DEF Put
<1>3. ASSUME SubSeq(state.buf, i + 1, i + Len(t)) = t
      PROVE  Put(out_buf, i, t) = state.buf
  <2>1. ASSUME NEW p \in (i + 1)..(i + Len(t))
        PROVE  t[p - i] = state.buf[p]
    <3>1. p - i \in 1..Len(t) /\ (i + 1) + (p - i) - 1 = p /\ Len(state.buf) = len
      BY <1>1
    <3>2. ASSUME NEW j \in 1..Len(t)
          PROVE  SubSeq(state.buf, i + 1, i + Len(t))[j] = state.buf[i + j]
      BY <3>1
    <3>3. t[p - i] = state.buf[i + (p - i)]
      BY <1>3, <3>1, <3>2
    <3> QED
      BY <3>1, <3>3
  <2>2. state.buf = [p \in 1..len |-> state.buf[p]]
    BY <1>1
  <2> QED
    BY <1>1, <2>1, <2>2 DEF Put
<1>4. Put(out_buf, i, t) \in Seq(Byte)
  <2>1. ASSUME NEW p \in 1..len
        PROVE  (IF p \in (i + 1)..(i + Len(t)) THEN t[p - i] ELSE out_buf[p]) \in Byte
    <3>1. p \in (i + 1)..(i + Len(t)) => p - i \in 1..Len(t)
      OBVIOUS
    <3> QED
      BY <3>1
  <2>2. Put(out_buf, i, t) \in [1..len -> Byte]
    BY <1>1, <2>1 DEF Put
  <2> QED
    BY <2>2
<1> QED
  BY <1>2, <1>3, <1>4

\* What the first k tokens have done: each that fits and has an effect has been
\* put over the buffer and run, unless it was there.
Covered(state, ts, k) ==
  /\ state.buf \in Seq(Byte) /\ state.buf \in state.ran \cup {out_buf}
  /\ \A m \in 1..k : Len(ts[m]) <= len - i /\ Effective(i, Len(ts[m])) =>
       Put(out_buf, i, ts[m]) \in state.ran \cup {out_buf}

LEMMA LoopCovers ==
  ASSUME out_buf \in Seq(Byte), i \in Nat, len \in Nat, len = Len(out_buf),
         NEW n \in Nat, NEW ts \in [1..n -> Seq(Byte)], NEW g, Loop(g, ts, n),
         \A k, m \in 1..n : k < m => Len(ts[k]) <= Len(ts[m])
  PROVE  Covered(g[n], ts, n)
<1> DEFINE T == {k \in Nat : k <= n => Covered(g[k], ts, k)}
<1>1. 0 \in T
  <2>1. g[0] = NoToken
    BY DEF Loop
  <2> QED
    BY <2>1 DEF Covered, NoToken
<1>2. ASSUME NEW k \in Nat, k \in T
      PROVE  k + 1 \in T
  <2> SUFFICES ASSUME k + 1 <= n
               PROVE  Covered(g[k + 1], ts, k + 1)
    BY <1>2
  <2> DEFINE t == ts[k + 1]
  <2>1. /\ k + 1 \in 1..n /\ k \in 0..n /\ k + 1 # 0 /\ (k + 1) - 1 = k
        /\ Covered(g[k], ts, k)
    BY <1>2
  <2>2. g[k + 1] = PutToken(g[k], t)
    BY <2>1 DEF Loop
  <2> DEFINE b == Bound(ts, k)
  <2>4. b <= Len(t) /\ t \in Seq(Byte)
    BY <2>1 DEF Bound
  <2> HIDE DEF t, T
  <2>3. Under(g[k], b) /\ b \in Nat
    BY <2>1, LoopUnder
  <2>5. /\ g[k].ran \subseteq g[k + 1].ran
        /\ g[k + 1].buf \in Seq(Byte) /\ g[k + 1].buf \in g[k + 1].ran \cup {out_buf}
        /\ Len(t) <= len - i /\ Effective(i, Len(t)) =>
             Put(out_buf, i, t) \in g[k + 1].ran \cup {out_buf}
    <3>1. CASE Useless(t, g[k].buf)
      <4>1. g[k + 1] = g[k]
        BY <2>2, <3>1 DEF PutToken
      <4>2. Len(t) <= len - i /\ Effective(i, Len(t)) =>
              SubSeq(g[k].buf, i + 1, i + Len(t)) = t
        BY <2>4, <3>1 DEF Useless
      <4>3. Len(t) <= len - i /\ Effective(i, Len(t)) =>
              Put(out_buf, i, t) = g[k].buf
        BY <2>1, <2>3, <2>4, <4>2, PutOver DEF Covered
      <4> QED
        BY <2>1, <4>1, <4>3 DEF Covered
    <3>2. CASE ~Useless(t, g[k].buf)
      <4>1. /\ g[k + 1].buf = Put(g[k].buf, i, t)
            /\ g[k + 1].ran = g[k].ran \cup {Put(g[k].buf, i, t)}
        BY <2>2, <3>2 DEF PutToken
      <4>2. Len(t) <= len - i
        BY <2>4, <3>2 DEF Useless
      <4>3. Put(g[k].buf, i, t) = Put(out_buf, i, t) /\ Put(out_buf, i, t) \in Seq(Byte)
        BY <2>1, <2>3, <2>4, <4>2, PutOver DEF Covered
      <4> QED
        BY <4>1, <4>3
    <3> QED
      BY <3>1, <3>2
  <2>6. ASSUME NEW m \in 1..(k + 1), Len(ts[m]) <= len - i, Effective(i, Len(ts[m]))
        PROVE  Put(out_buf, i, ts[m]) \in g[k + 1].ran \cup {out_buf}
    <3>1. CASE m = k + 1
      BY <2>5, <2>6, <3>1 DEF t
    <3>2. CASE m \in 1..k
      BY <2>1, <2>5, <2>6, <3>2 DEF Covered
    <3> QED
      BY <3>1, <3>2
  <2> QED
    BY <2>5, <2>6 DEF Covered
<1> HIDE DEF T
<1>3. Nat \subseteq T
  BY <1>1, <1>2, Induct
<1> QED
  BY <1>3 DEF T

LEMMA OverwrittenCovers ==
  ASSUME NEW tokens, IsFiniteSet(tokens), tokens \subseteq Seq(Byte),
         NEW ts \in Sorted(tokens),
         out_buf \in Seq(Byte), i \in Nat, len = Len(out_buf), NEW t \in tokens,
         Len(t) <= len - i, Effective(i, Len(t))
  PROVE  Put(out_buf, i, t) \in Overwritten(ts).ran \cup {out_buf}
<1> DEFINE n == Len(ts)
<1>1. Cardinality(tokens) \in Nat
  BY FS_CardinalityType
<1>2. ts \in [1..Cardinality(tokens) -> tokens]
  BY DEF Sorted, SetToSeqs
<1>3. n = Cardinality(tokens) /\ ts \in [1..n -> Seq(Byte)] /\ n \in Nat /\ DOMAIN ts = 1..n
  BY <1>1, <1>2
<1>4. \A k, m \in 1..n : k < m => Len(ts[k]) <= Len(ts[m])
  BY <1>3 DEF Sorted
<1>5. PICK g : Loop(g, ts, n) /\ Overwritten(ts) = g[n]
  BY <1>3, OverwrittenIsLoop
<1> HIDE DEF n
<1>6. PICK m \in 1..n : ts[m] = t
  <2>1. ts \in Injection(1..n, tokens)
    BY <1>2, <1>3 DEF Sorted, SetToSeqs, Injection, IsInjective
  <2>2. IsFiniteSet(1..n) /\ Cardinality(1..n) = n
    BY <1>3, FS_Interval
  <2>3. ts \in Surjection(1..n, tokens)
    BY <1>3, <2>1, <2>2, FS_Injection
  <2> QED
    BY <2>3 DEF Surjection
<1>7. Covered(g[n], ts, n)
  <2>1. len \in Nat
    OBVIOUS
  <2> QED
    BY <1>3, <1>4, <1>5, <2>1, LoopCovers
<1> QED
  BY <1>5, <1>6, <1>7 DEF Covered

LEMMA OverwriteTried ==
  ASSUME Inv, TriedInv, NEW k \in {13, 15}, NEW tokens, IsFiniteSet(tokens),
         tokens \subseteq Seq(Byte), Overwrite(Order[k], tokens),
         \A p \in 0..(len - 1) : TokensDone(tokens, p)' => StageDone(k, p)'
  PROVE  TriedInv'
<1>1. /\ stage = Order[k] /\ k \in 1..15
      /\ UNCHANGED <<extras, front, entry, in_buf, eff_map>>
  BY DEF Overwrite, Skip, autoVars, detVars
<1>2. /\ i \in Nat /\ len \in Nat \ {0} /\ out_buf = entry.buf /\ len = Len(entry.buf)
      /\ entry.buf \in Seq(Byte)
  BY <1>1, InStage
<1>3. \A p, n : Effective(p, n)' <=> Effective(p, n)
  BY <1>1 DEF Effective, EFF_APOS
<1>4. len' = len
  BY <1>1 DEF len
<1>5. CASE tokens = {}
  <2>1. GoOn(0) /\ tried' = tried
    BY <1>2, <1>5 DEF Overwrite, Skip, GoOn
  <2>2. \A p \in 0..(len - 1) : StageDone(k, p)'
    BY <1>5 DEF TokensDone
  <2> QED
    BY <1>1, <1>2, <2>1, <2>2, TriedStep
<1>6. CASE tokens # {}
  <2>1. PICK ts \in Sorted(tokens) : tried' = tried \cup Overwritten(ts).ran /\ GoOn(len)
    BY <1>6 DEF Overwrite
  <2>2. ASSUME NEW t \in tokens, i + Len(t) <= len, Effective(i, Len(t))
        PROVE  Put(entry.buf, i, t) \in tried' \cup {entry.buf}
    <3>1. Len(t) <= len - i
      BY <1>2, <2>2
    <3>2. Put(out_buf, i, t) \in Overwritten(ts).ran \cup {out_buf}
      BY <1>2, <2>2, <3>1, OverwrittenCovers
    <3> QED
      BY <1>2, <2>1, <3>2
  <2>3. ASSUME NEW p \in 0..(len - 1), p = i \/ p >= len
        PROVE  StageDone(k, p)'
    <3>1. p = i
      BY <1>2, <2>3
    <3>2. TokensDone(tokens, p)'
      BY <1>1, <1>3, <1>4, <2>2, <3>1 DEF TokensDone
    <3> QED
      BY <3>2
  <2>4. tried \subseteq tried'
    BY <2>1
  <2> QED
    BY <1>1, <1>2, <2>1, <2>3, <2>4, TriedStep
<1> QED
  BY <1>5, <1>6

LEMMA DictTried ==
  ASSUME Inv, TriedInv, OverwriteExtras \/ InsertExtras \/ OverwriteAuto
  PROVE  TriedInv'
<1>0. IsFiniteSet(extras) /\ extras \subseteq Seq(Byte)
  BY DEF Inv, TypeInv
<1>1. CASE OverwriteExtras
  <2>1. PICK tokens \in SUBSET extras :
          /\ Overwrite(Order[13], tokens)
          /\ Cardinality(extras) <= MAX_DET_EXTRAS => tokens = extras
    <3>1. Cardinality(extras) \in Nat
      BY <1>0, FS_CardinalityType
    <3>2. PICK tokens \in IF Cardinality(extras) > MAX_DET_EXTRAS
                          THEN SUBSET extras \ {{}} ELSE {extras} :
            Overwrite("ext_UO", tokens)
      BY <1>1 DEF OverwriteExtras
    <3>3. Cardinality(extras) <= MAX_DET_EXTRAS => ~(Cardinality(extras) > MAX_DET_EXTRAS)
      BY <3>1, NumberAssumption
    <3> QED
      BY <3>2, <3>3, OrderIs
  <2>2. IsFiniteSet(tokens) /\ tokens \subseteq Seq(Byte)
    BY <1>0, <2>1, FS_Subset
  <2>3. extras' = extras
    BY <2>1 DEF Overwrite, autoVars
  <2>4. \A p \in 0..(len - 1) : TokensDone(tokens, p)' => StageDone(13, p)'
    BY <2>1, <2>3 DEF StageDone
  <2> QED
    BY <2>1, <2>2, <2>4, OverwriteTried
<1>2. CASE OverwriteAuto
  <2>1. PICK tokens : tokens = front
    OBVIOUS
  <2>2. IsFiniteSet(tokens) /\ tokens \subseteq Seq(Byte)
    BY <2>1, FS_Subset DEF Inv, AutoInd, AutoInv, Leads
  <2>3. Overwrite(Order[15], tokens)
    BY <1>2, <2>1, OrderIs DEF OverwriteAuto
  <2>4. front' = tokens
    BY <2>1, <2>3 DEF Overwrite, autoVars
  <2>5. \A p \in 0..(len - 1) : TokensDone(tokens, p)' => StageDone(15, p)'
    BY <2>4 DEF StageDone, TokensDone
  <2> QED
    BY <2>2, <2>3, <2>5, OverwriteTried
<1>3. CASE InsertExtras
  <2>1. /\ stage = Order[14] /\ entry' = entry /\ in_buf' = in_buf /\ eff_map' = eff_map
        /\ extras' = extras /\ front' = front /\ tried \subseteq tried'
    BY <1>3, OrderIs DEF InsertExtras, bufVars, detVars, autoVars
  <2>2. i \in Nat /\ len \in Nat
    BY <2>1, InStage
  <2>3. \E steps \in Int : GoOn(steps)
    <3>1. CASE extras = {}
      <4>1. GoOn(0)
        BY <1>3, <2>2, <3>1 DEF InsertExtras, Skip, GoOn
      <4> QED
        BY <4>1
    <3>2. CASE extras # {}
      <4>1. GoOn(len + 1)
        BY <1>3, <3>2, Zenon DEF InsertExtras
      <4>2. len + 1 \in Int
        BY <2>2
      <4> QED
        BY <4>1, <4>2
    <3> QED
      BY <3>1, <3>2
  <2>4. \A p : StageDone(14, p)'
    BY DEF StageDone
  <2> QED
    BY <2>1, <2>2, <2>3, <2>4, TriedStep
<1> QED
  BY <1>1, <1>2, <1>3

LEMMA NoArithTried ==
  ASSUME Inv, TriedInv, NoArith
  PROVE  TriedInv'
<1>1. PICK k \in {7, 8, 9, 11, 12} : Skip(Order[k])
  BY OrderIs DEF NoArith
<1>2. /\ stage = Order[k] /\ entry' = entry /\ in_buf' = in_buf /\ eff_map' = eff_map
      /\ extras' = extras /\ front' = front /\ tried' = tried /\ entry.no_arith
  BY <1>1 DEF NoArith, Skip, bufVars, detVars, autoVars
<1>3. i \in Nat /\ len \in Nat /\ k \in 1..15
  BY <1>2, InStage
<1>4. GoOn(0)
  BY <1>1, <1>2, <1>3 DEF Skip, GoOn
<1>5. \A p \in 0..(len - 1) : StageDone(k, p)'
  BY <1>1, <1>2 DEF StageDone
<1>6. k # 4 /\ 0 \in Int
  BY <1>1
<1> QED
  BY <1>2, <1>3, <1>4, <1>5, <1>6, TriedStep

\* Outside the deterministic stages, and at their beginning, nothing is claimed.
LEMMA NothingClaimed ==
  ASSUME stage \notin Det \/ (stage = "flip1" /\ i = 0)
  PROVE  TriedInv
<1> SUFFICES ASSUME NEW k \in 1..15, NEW p \in 0..(len - 1)
             PROVE  ~Done(k, p)
  BY DEF TriedInv
<1>1. CASE stage \notin Det
  <2>1. \A m \in 1..16 : stage # Order[m]
    BY <1>1, OrderIs DEF Det
  <2> QED
    BY <2>1 DEF Done
<1>2. CASE stage = "flip1" /\ i = 0
  <2>1. \A m \in 2..16 : stage # Order[m]
    BY <1>2, OrderIs
  <2> QED
    BY <1>2, <2>1 DEF Done
<1> QED
  BY <1>1, <1>2

LEMMA NextTried ==
  Inv /\ TriedInv /\ [Next]_vars => TriedInv'
<1> SUFFICES ASSUME Inv, TriedInv, [Next]_vars
             PROVE  TriedInv'
  OBVIOUS
<1>0. (stage \notin Det \/ (stage = "flip1" /\ i = 0))' => TriedInv'
  BY NothingClaimed, PTL
<1>1. CASE Load \/ LoadExtras \/ Havoc \/ Abandon
  <2>1. stage' \in Before \cup AfterDet
    BY <1>1, DetIs DEF Load, LoadExtras, Havoc, HavocStart, Round, Tweak, HavocRun, Splice,
       Return, Abandon, Before, AfterDet
  <2> QED
    BY <1>0, <2>1, Distinctly
<1>2. CASE Begin
  <2>1. i' = 0 /\ stage' \in {"flip1", "havoc"}
    BY <1>2 DEF Begin, Inv, TypeInv, Before
  <2> QED
    BY <1>0, <2>1, Distinctly DEF AfterDet
<1>3. CASE Deterministic
  <2>1. CASE Flip1 \/ FlipMore
    BY <2>1, FlipsTried
  <2>2. CASE Flip8
    BY <2>2, Flip8Tried
  <2>3. CASE Flip16 \/ Flip32 \/ Arith8 \/ Arith16 \/ Arith32 \/ Int8 \/ Int16 \/ Int32
    BY <2>3, WalksTried
  <2>4. CASE NoArith
    BY <2>4, NoArithTried
  <2>5. CASE OverwriteExtras \/ InsertExtras \/ OverwriteAuto
    BY <2>5, DictTried
  <2>6. CASE PassedDet
    BY <1>0, <2>6, Distinctly DEF PassedDet, AfterDet
  <2> QED
    BY <1>3, <2>1, <2>2, <2>3, <2>4, <2>5, <2>6 DEF Deterministic
<1>4. CASE Save \/ UNCHANGED vars
  <2>1. UNCHANGED <<entry, stage, i, in_buf, eff_map, tried, extras, front>>
    BY <1>4 DEF Save, save_auto, vars, bufVars, detVars, autoVars
  <2>2. /\ len' = len /\ \A k, p : Done(k, p)' <=> Done(k, p)
        /\ \A p, n : Effective(p, n)' <=> Effective(p, n)
    BY <2>1 DEF Done, len, Effective, EFF_APOS
  <2>3. \A n, p : FlipsDone(n, p) => FlipsDone(n, p)'
    BY <2>1, <2>2 DEF FlipsDone
  <2>4. \A p : BytesDone(p) => BytesDone(p)'
    BY <2>1 DEF BytesDone, EFF_APOS
  <2>5. \A p : TokensDone(extras, p) => TokensDone(extras, p)'
    BY <2>1, <2>2 DEF TokensDone
  <2>6. \A p : TokensDone(front, p) => TokensDone(front, p)'
    BY <2>1, <2>2 DEF TokensDone
  <2>7. ASSUME NEW k \in 1..15, NEW p \in 0..(len - 1), StageDone(k, p)
        PROVE  StageDone(k, p)'
    <3>1. CASE k <= 4
      BY <2>1, <2>3, <2>4, <2>7, <3>1 DEF StageDone
    <3>2. CASE k >= 13
      BY <2>1, <2>5, <2>6, <2>7, <3>2 DEF StageDone
    <3>3. CASE k \in 5..9
      BY <2>1, <2>2, <2>7, <3>3 DEF StageDone, WordsDone, Old
    <3>4. CASE k \in 10..12
      BY <2>1, <2>2, <2>7, <3>4 DEF StageDone, WordsDone, Old
    <3> QED
      BY <3>1, <3>2, <3>3, <3>4
  <2> QED
    BY <2>2, <2>7 DEF TriedInv
<1> QED
  BY <1>1, <1>2, <1>3, <1>4 DEF Next

\* When fuzz_one marks an entry as done, each deterministic stage has been at every
\* byte of it: what a stage left out there, it left out by its own conditions, and
\* not because the loop ended early or an effector was read before it was known.
THEOREM StagesComplete ==
  Spec => [](stage = "passed" => \A k \in 1..15, p \in 0..(len - 1) : StageDone(k, p))
<1>1. Init => TriedInv
  <2>1. Init => stage \notin Det
    BY DetIs DEF Init
  <2> QED
    BY <2>1, NothingClaimed
<1>2. TriedInv => (stage = "passed" => \A k \in 1..15, p \in 0..(len - 1) : StageDone(k, p))
  <2> SUFFICES ASSUME TriedInv, stage = "passed", NEW k \in 1..15, NEW p \in 0..(len - 1)
               PROVE  StageDone(k, p)
    OBVIOUS
  <2>1. stage = Order[16] /\ 16 \in (k + 1)..16
    BY OrderIs
  <2> QED
    BY <2>1 DEF TriedInv, Done
<1> QED
  BY <1>1, <1>2, InitInv, NextInv, NextTried, PTL DEF Spec

-----------------------------------------------------------------------------
(* Quotients, remainders and powers of two. *)

LEMMA Divided ==
  ASSUME NEW m \in Nat \ {0}, NEW x \in Int
  PROVE  /\ x \div m \in Int /\ x % m \in 0..(m - 1) /\ x = m * (x \div m) + (x % m)
         /\ x \in Nat => x \div m \in Nat
  OBVIOUS

LEMMA DivUnique ==
  ASSUME NEW m \in Nat \ {0}, NEW r \in 0..(m - 1), NEW q \in Int
  PROVE  (r + m * q) \div m = q /\ (r + m * q) % m = r
<1> DEFINE x == r + m * q
           a == x \div m
           s == x % m
<1>1. x \in Int /\ m * q \in Int
  OBVIOUS
<1>2. a \in Int /\ s \in 0..(m - 1) /\ x = m * a + s
  <2> HIDE DEF x
  <2> QED
    BY <1>1, Divided
<1> HIDE DEF a, s
<1>3. m * (a - q) = r - s
  BY <1>2
<1>4. a - q < 1
  <2> SUFFICES ASSUME a - q >= 1
               PROVE  FALSE
    BY <1>2
  <2>1. m * (a - q) >= m
    BY <1>2
  <2> QED
    BY <1>2, <1>3, <2>1
<1>5. a - q > -1
  <2> SUFFICES ASSUME q - a >= 1
               PROVE  FALSE
    BY <1>2
  <2>1. m * (q - a) >= m
    BY <1>2
  <2>2. m * (q - a) = s - r
    BY <1>2, <1>3
  <2> QED
    BY <1>2, <2>1, <2>2
<1>6. a = q
  BY <1>2, <1>4, <1>5
<1>7. s = r
  BY <1>2, <1>3, <1>6
<1> QED
  BY <1>6, <1>7 DEF a, s

LEMMA DivPlus ==
  ASSUME NEW m \in Nat \ {0}, NEW x \in Int, NEW q \in Int
  PROVE  (x + m * q) \div m = x \div m + q /\ (x + m * q) % m = x % m
<1> DEFINE a == x \div m
           s == x % m
<1>1. a \in Int /\ s \in 0..(m - 1) /\ x = m * a + s
  BY Divided
<1> HIDE DEF a, s
<1>2. x + m * q = s + m * (a + q) /\ a + q \in Int
  BY <1>1
<1>3. (s + m * (a + q)) \div m = a + q /\ (s + m * (a + q)) % m = s
  BY <1>1, <1>2, DivUnique
<1>4. a = x \div m /\ s = x % m
  BY DEF a, s
<1> QED
  BY <1>2, <1>3, <1>4

LEMMA DivTwice ==
  ASSUME NEW m \in Nat \ {0}, NEW n \in Nat \ {0}, NEW x \in Nat
  PROVE  x \div (m * n) = (x \div m) \div n /\ m * n \in Nat \ {0}
<1> DEFINE a == x \div m
           r == x % m
           b == a \div n
           s == a % n
<1>0. x \in Int
  OBVIOUS
<1>1. a \in Nat /\ r \in 0..(m - 1) /\ x = m * a + r
  BY <1>0, Divided, Zenon
<1> HIDE DEF a, r
<1>2. b \in Nat /\ s \in 0..(n - 1) /\ a = n * b + s
  <2>1. a \in Int
    BY <1>1
  <2> QED
    BY <1>1, <2>1, Divided, Zenon
<1> HIDE DEF b, s
<1>3. m * n \in Nat \ {0} /\ m * s \in Nat /\ m * s <= m * (n - 1)
  BY <1>2
<1>4. m * (n - 1) = m * n - m
  OBVIOUS
<1>5. r + m * s \in 0..(m * n - 1)
  BY <1>1, <1>3, <1>4
<1>6. x = (r + m * s) + (m * n) * b
  BY <1>1, <1>2
<1>7. x \div (m * n) = b
  BY <1>2, <1>3, <1>5, <1>6, DivUnique
<1> QED
  BY <1>3, <1>7 DEF a, b

Base == 2 ^ W

LEMMA PowerType ==
  \A n \in 0..(4 * W) : 2 ^ n \in Nat \ {0}
<1> TAKE n \in 0..(4 * W)
<1>1. n \in 0..(4 * W + EFF_MAP_SCALE2) /\ 0 \in 0..(4 * W + EFF_MAP_SCALE2)
  BY NumberAssumption
<1> QED
  BY <1>1, PowerAssumption

LEMMA PowerSum ==
  ASSUME NEW m \in Nat, NEW n \in Nat, m + n <= 4 * W
  PROVE  2 ^ (m + n) = 2 ^ m * 2 ^ n
<1>1. m \in 0..(4 * W + EFF_MAP_SCALE2) /\ n \in 0..(4 * W + EFF_MAP_SCALE2)
  BY NumberAssumption
<1> QED
  BY <1>1, PowerAssumption

LEMMA PowerStep ==
  ASSUME NEW n \in Nat, n + 1 <= 4 * W
  PROVE  2 ^ (n + 1) = 2 * 2 ^ n
<1>1. 2 ^ (n + 1) = 2 ^ n * 2 ^ 1
  BY PowerSum
<1>2. 2 ^ n \in Nat
  BY PowerType, NumberAssumption
<1> QED
  BY <1>1, <1>2

LEMMA PowerGrows ==
  ASSUME NEW m \in Nat, NEW n \in Nat, m <= n, n <= 4 * W
  PROVE  2 ^ m <= 2 ^ n
<1>1. m + (n - m) = n /\ n - m \in Nat
  OBVIOUS
<1>2. 2 ^ n = 2 ^ m * 2 ^ (n - m)
  BY <1>1, PowerSum
<1>3. 2 ^ m \in Nat \ {0} /\ 2 ^ (n - m) \in Nat \ {0}
  BY <1>1, PowerType, NumberAssumption
<1> QED
  BY <1>2, <1>3

LEMMA Bases ==
  /\ Base \in Nat /\ Base >= 2 /\ Byte = 0..(Base - 1)
  /\ 2 ^ (W * 0) = 1 /\ 2 ^ (W * 1) = Base /\ 2 ^ (W * 2) = Base * Base
  /\ 2 ^ (W * 3) = Base * (Base * Base) /\ 2 ^ (W * 4) = (Base * Base) * (Base * Base)
<1>1. W \in Nat /\ W >= 1
  BY NumberAssumption
<1>2. Base \in Nat \ {0} /\ Byte = 0..(Base - 1)
  BY <1>1, PowerType DEF Base, Byte
<1>3. Base >= 2
  <2>1. (W - 1) + 1 = W /\ W - 1 \in Nat
    BY <1>1
  <2>2. 2 ^ W = 2 * 2 ^ (W - 1)
    BY <1>1, <2>1, PowerStep
  <2>3. 2 ^ (W - 1) \in Nat \ {0}
    BY <1>1, <2>1, PowerType
  <2> QED
    BY <2>2, <2>3 DEF Base
<1>4. W * 0 = 0 /\ W * 1 = W /\ W * 2 = W + W /\ W * 3 = W + (W + W)
      /\ W * 4 = (W + W) + (W + W)
  BY <1>1
<1>5. 2 ^ (W + W) = Base * Base
  BY <1>1, PowerSum DEF Base
<1>6. 2 ^ (W + (W + W)) = Base * (Base * Base)
  BY <1>1, <1>5, PowerSum DEF Base
<1>7. 2 ^ ((W + W) + (W + W)) = (Base * Base) * (Base * Base)
  BY <1>1, <1>5, PowerSum DEF Base
<1>8. 2 ^ 0 = 1
  OBVIOUS
<1> QED
  BY <1>2, <1>3, <1>4, <1>5, <1>6, <1>7, <1>8 DEF Base

-----------------------------------------------------------------------------
(* Words and their values. *)

Words(n) == [1..n -> Byte]

LEMMA SameWord ==
  ASSUME NEW n, NEW u \in Words(n), NEW w \in Words(n), \A k \in 1..n : u[k] = w[k]
  PROVE  u = w
<1> DEFINE D == 1..n
<1>1. u \in [D -> Byte] /\ w \in [D -> Byte] /\ \A k \in D : u[k] = w[k]
  BY DEF Words
<1> HIDE DEF D
<1> QED
  BY <1>1

SumTo(v, w, n) ==
  v = [k \in 0..n |-> IF k = 0 THEN 0 ELSE v[k - 1] + w[k] * 2 ^ (W * (k - 1))]

LEMMA SumToExists ==
  ASSUME NEW w
  PROVE  \A n \in Nat : \E v : SumTo(v, w, n)
<1> DEFINE T == {n \in Nat : \E v : SumTo(v, w, n)}
           Add(x, k) == x + w[k] * 2 ^ (W * (k - 1))
<1>1. 0 \in T
  <2> DEFINE v == [k \in 0..0 |-> 0]
  <2>1. SumTo(v, w, 0)
    BY DEF SumTo
  <2> QED
    BY <2>1
<1>2. ASSUME NEW n \in Nat, n \in T
      PROVE  n + 1 \in T
  <2>1. PICK v : SumTo(v, w, n)
    BY <1>2
  <2>2. \A k \in 0..n : v[k] = IF k = 0 THEN 0 ELSE Add(v[k - 1], k)
    BY <2>1 DEF SumTo
  <2>0. SumTo(v, w, n)
    BY <2>1
  <2> DEFINE h == [k \in 0..(n + 1) |-> IF k = n + 1 THEN Add(v[n], k) ELSE v[k]]
  <2> HIDE DEF Add
  <2>3. \A k \in 0..(n + 1) : h[k] = IF k = 0 THEN 0 ELSE Add(h[k - 1], k)
    <3> TAKE k \in 0..(n + 1)
    <3>1. CASE k = n + 1
      <4>1. h[k - 1] = v[n] /\ h[k] = Add(v[n], k) /\ k # 0
        BY <3>1
      <4> QED
        BY <4>1
    <3>2. CASE k \in 1..n
      <4>1. h[k - 1] = v[k - 1] /\ h[k] = v[k] /\ k # 0 /\ k \in 0..n
        BY <3>2
      <4> QED
        BY <4>1, <2>2
    <3>3. CASE k = 0
      <4>1. h[0] = v[0] /\ 0 \in 0..n
        OBVIOUS
      <4> QED
        BY <3>3, <4>1, <2>2
    <3> QED
      BY <3>1, <3>2, <3>3
  <2>4. h = [k \in 0..(n + 1) |-> h[k]]
    OBVIOUS
  <2> HIDE DEF h
  <2>5. SumTo(h, w, n + 1)
    BY <2>3, <2>4 DEF SumTo, Add
  <2> QED
    BY <2>5
<1> HIDE DEF T
<1>3. Nat \subseteq T
  BY <1>1, <1>2, Induct
<1> QED
  BY <1>3 DEF T

LEMMA ValueIsSum ==
  ASSUME NEW n \in Nat, NEW w \in Words(n)
  PROVE  \E v : SumTo(v, w, n) /\ Value(w) = v[n]
<1>1. Len(w) = n
  BY DEF Words
<1>2. Value(w) = (CHOOSE v : SumTo(v, w, Len(w)))[Len(w)]
  BY DEF Value, SumTo
<1>3. \E v : SumTo(v, w, n)
  BY SumToExists
<1> QED
  BY <1>1, <1>2, <1>3, Zenon

LEMMA ByteProduct ==
  ASSUME NEW a \in Byte, NEW x \in Nat
  PROVE  a * x \in Nat
  BY Bases

LEMMA ShortValues ==
  /\ \A w \in Words(1) : Value(w) = w[1]
  /\ \A w \in Words(2) : Value(w) = w[1] + Base * w[2]
  /\ \A w \in Words(4) :
       Value(w) = (w[1] + Base * w[2]) + (Base * Base) * (w[3] + Base * w[4])
<1>0. Base \in Nat /\ \A a \in Byte : a \in Nat
  BY Bases
<1>1. ASSUME NEW w \in Words(1)
      PROVE  Value(w) = w[1]
  <2>1. PICK v : SumTo(v, w, 1) /\ Value(w) = v[1]
    BY ValueIsSum
  <2>2. v[0] = 0 /\ v[1] = v[0] + w[1] * 2 ^ (W * 0)
    BY <2>1 DEF SumTo
  <2>3. w[1] \in Nat
    BY <1>0 DEF Words
  <2>4. v[1] = 0 + w[1] * 1
    BY <2>2, Bases
  <2> QED
    BY <2>1, <2>3, <2>4
<1>2. ASSUME NEW w \in Words(2)
      PROVE  Value(w) = w[1] + Base * w[2]
  <2>1. PICK v : SumTo(v, w, 2) /\ Value(w) = v[2]
    BY ValueIsSum
  <2>2. /\ v[0] = 0 /\ v[1] = v[0] + w[1] * 2 ^ (W * 0)
        /\ v[2] = v[1] + w[2] * 2 ^ (W * 1)
    BY <2>1 DEF SumTo
  <2>3. w[1] \in Nat /\ w[2] \in Nat
    BY <1>0 DEF Words
  <2>4. v[2] = (0 + w[1] * 1) + w[2] * Base
    BY <2>2, Bases
  <2> QED
    BY <1>0, <2>1, <2>3, <2>4
<1>3. ASSUME NEW w \in Words(4)
      PROVE  Value(w) = (w[1] + Base * w[2]) + (Base * Base) * (w[3] + Base * w[4])
  <2>1. PICK v : SumTo(v, w, 4) /\ Value(w) = v[4]
    BY ValueIsSum
  <2>2. /\ v[0] = 0 /\ v[1] = v[0] + w[1] * 2 ^ (W * 0)
        /\ v[2] = v[1] + w[2] * 2 ^ (W * 1)
        /\ v[3] = v[2] + w[3] * 2 ^ (W * 2)
        /\ v[4] = v[3] + w[4] * 2 ^ (W * 3)
    BY <2>1 DEF SumTo
  <2>3. w[1] \in Nat /\ w[2] \in Nat /\ w[3] \in Nat /\ w[4] \in Nat
    BY <1>0 DEF Words
  <2>4. v[4] = (((0 + w[1] * 1) + w[2] * Base) + w[3] * (Base * Base))
                 + w[4] * (Base * (Base * Base))
    BY <2>2, Bases
  <2>5. \A a, b, c, d, m \in Nat :
          (((0 + a * 1) + b * m) + c * (m * m)) + d * (m * (m * m))
            = (a + m * b) + (m * m) * (c + m * d)
    OBVIOUS
  <2> QED
    BY <1>0, <2>1, <2>3, <2>4, <2>5
<1> QED
  BY <1>1, <1>2, <1>3

Sizes == {1, 2, 4}

\* The values a word of n bytes may have.
WordRange(n) == 0..(2 ^ (W * n) - 1)

LEMMA RangeIs ==
  /\ WordRange(1) = 0..(Base - 1) /\ WordRange(2) = 0..(Base * Base - 1)
  /\ WordRange(4) = 0..((Base * Base) * (Base * Base) - 1)
  /\ Base * Base \in Nat /\ (Base * Base) * (Base * Base) \in Nat
  BY Bases DEF WordRange

\* A number below m * m in base m.
LEMMA TwoDigits ==
  ASSUME NEW m \in Nat, NEW x \in 0..(m - 1), NEW y \in 0..(m - 1)
  PROVE  x + m * y \in 0..(m * m - 1)
<1>1. m * y <= m * (m - 1) /\ m * y >= 0
  OBVIOUS
<1>2. m * (m - 1) = m * m - m
  OBVIOUS
<1> QED
  BY <1>1, <1>2

LEMMA Halves ==
  ASSUME NEW h \in {1, 2}, NEW w \in Words(2 * h), NEW lo \in Words(h), NEW hi \in Words(h),
         \A k \in 1..h : lo[k] = w[k] /\ hi[k] = w[h + k]
  PROVE  Value(w) = Value(lo) + 2 ^ (W * h) * Value(hi)
<1>0. \A a \in Byte : a \in Nat
  BY Bases
<1>1. CASE h = 1
  <2>1. Value(w) = w[1] + Base * w[2] /\ Value(lo) = lo[1] /\ Value(hi) = hi[1]
    BY <1>1, ShortValues
  <2>2. lo[1] = w[1] /\ hi[1] = w[2]
    BY <1>1
  <2> QED
    BY <1>1, <2>1, <2>2, Bases
<1>2. CASE h = 2
  <2>1. /\ Value(w) = (w[1] + Base * w[2]) + (Base * Base) * (w[3] + Base * w[4])
        /\ Value(lo) = lo[1] + Base * lo[2] /\ Value(hi) = hi[1] + Base * hi[2]
    BY <1>2, ShortValues
  <2>2. lo[1] = w[1] /\ hi[1] = w[3] /\ lo[2] = w[2] /\ hi[2] = w[4]
    BY <1>2
  <2> QED
    BY <1>2, <2>1, <2>2, Bases
<1> QED
  BY <1>1, <1>2

LEMMA ValueType ==
  ASSUME NEW n \in Sizes, NEW w \in Words(n)
  PROVE  Value(w) \in WordRange(n)
<1>0. \A a \in Byte : a \in 0..(Base - 1)
  BY Bases
<1>1. ASSUME NEW a \in Byte, NEW b \in Byte
      PROVE  a + Base * b \in 0..(Base * Base - 1)
  BY <1>0, Bases, TwoDigits
<1>2. CASE n = 1
  <2>1. w \in Words(1) /\ w[1] \in Byte
    BY <1>2 DEF Words
  <2>2. Value(w) = w[1]
    BY <2>1, ShortValues
  <2> QED
    BY <1>0, <1>2, <2>1, <2>2, RangeIs
<1>3. CASE n = 2
  <2>1. w[1] \in Byte /\ w[2] \in Byte
    BY <1>3 DEF Words
  <2> QED
    BY <1>1, <1>3, <2>1, ShortValues, RangeIs
<1>4. CASE n = 4
  <2>1. w[1] \in Byte /\ w[2] \in Byte /\ w[3] \in Byte /\ w[4] \in Byte
    BY <1>4 DEF Words
  <2> DEFINE x == w[1] + Base * w[2]
             y == w[3] + Base * w[4]
             m == Base * Base
  <2>2. x \in 0..(m - 1) /\ y \in 0..(m - 1) /\ m \in Nat
    BY <1>1, <2>1, RangeIs
  <2>3. Value(w) = x + m * y
    BY <1>4, ShortValues
  <2>4. WordRange(4) = 0..(m * m - 1)
    BY RangeIs
  <2> HIDE DEF x, y, m
  <2> QED
    BY <1>4, <2>2, <2>3, <2>4, TwoDigits
<1> QED
  BY <1>2, <1>3, <1>4 DEF Sizes

LEMMA WordBytes ==
  ASSUME NEW v \in Int
  PROVE  /\ Word(v, 1)[1] = v % Base
         /\ Word(v, 2)[1] = v % Base /\ Word(v, 2)[2] = (v \div Base) % Base
         /\ Word(v, 4)[1] = v % Base /\ Word(v, 4)[2] = (v \div Base) % Base
         /\ Word(v, 4)[3] = (v \div (Base * Base)) % Base
         /\ Word(v, 4)[4] = (v \div (Base * (Base * Base))) % Base
<1>1. v \div 1 = v
  OBVIOUS
<1>2. /\ 2 ^ (W * (1 - 1)) = 1 /\ 2 ^ (W * (2 - 1)) = Base
      /\ 2 ^ (W * (3 - 1)) = Base * Base /\ 2 ^ (W * (4 - 1)) = Base * (Base * Base)
  BY Bases
<1>3. Word(v, 1)[1] = (v \div 2 ^ (W * (1 - 1))) % Base
  BY DEF Word, Base
<1>4. /\ Word(v, 2)[1] = (v \div 2 ^ (W * (1 - 1))) % Base
      /\ Word(v, 2)[2] = (v \div 2 ^ (W * (2 - 1))) % Base
  BY DEF Word, Base
<1>5. /\ Word(v, 4)[1] = (v \div 2 ^ (W * (1 - 1))) % Base
      /\ Word(v, 4)[2] = (v \div 2 ^ (W * (2 - 1))) % Base
      /\ Word(v, 4)[3] = (v \div 2 ^ (W * (3 - 1))) % Base
      /\ Word(v, 4)[4] = (v \div 2 ^ (W * (4 - 1))) % Base
  BY DEF Word, Base
<1> QED
  BY <1>1, <1>2, <1>3, <1>4, <1>5, Zenon

LEMMA WordHalves ==
  ASSUME NEW h \in {1, 2}, NEW x \in WordRange(h), NEW y \in WordRange(h)
  PROVE  /\ 2 ^ (W * h) * y \in Nat
         /\ \A k \in 1..h :
              /\ Word(x + 2 ^ (W * h) * y, 2 * h)[k] = Word(x, h)[k]
              /\ Word(x + 2 ^ (W * h) * y, 2 * h)[h + k] = Word(y, h)[k]
<1>0. Base \in Nat \ {0} /\ x \in Nat /\ y \in Nat
  BY Bases DEF WordRange
<1>1. CASE h = 1
  <2> DEFINE v == x + Base * y
  <2>1. x \in 0..(Base - 1) /\ y \in 0..(Base - 1)
    BY <1>1, RangeIs
  <2>2. v \div Base = y /\ v % Base = x
    <3>1. y \in Int
      BY <1>0
    <3> QED
      BY <1>0, <2>1, <3>1, DivUnique, Zenon
  <2>3. x % Base = x /\ y % Base = y /\ x \in Int /\ y \in Int
    BY <1>0, <2>1
  <2>4. 2 ^ (W * h) = Base /\ v = x + 2 ^ (W * h) * y /\ Base * y \in Nat /\ v \in Int
    BY <1>0, <1>1, Bases
  <2> HIDE DEF v
  <2>5. Word(v, 2)[1] = v % Base /\ Word(v, 2)[2] = (v \div Base) % Base
    BY <2>4, WordBytes
  <2>6. Word(x, 1)[1] = x % Base /\ Word(y, 1)[1] = y % Base
    BY <2>3, WordBytes
  <2>7. Word(v, 2)[1] = x /\ Word(v, 2)[2] = y /\ Word(x, 1)[1] = x /\ Word(y, 1)[1] = y
    BY <2>2, <2>3, <2>5, <2>6, Zenon
  <2> QED
    BY <1>1, <2>4, <2>7
<1>2. CASE h = 2
  <2> DEFINE m == Base * Base
             q == Base * y
             v == x + m * y
  <2>1. x \in 0..(m - 1) /\ y \in 0..(m - 1) /\ m \in Nat \ {0}
    BY <1>0, <1>2, RangeIs
  <2>2. v \div m = y
    <3> HIDE DEF m
    <3> QED
      BY <1>0, <2>1, DivUnique
  <2>3. v \in Nat /\ v = x + Base * q /\ q \in Int
    BY <1>0, <2>1
  <2> HIDE DEF q
  <2>4. (x + Base * q) % Base = x % Base /\ (x + Base * q) \div Base = (x \div Base) + q
    <3>1. x \in Int
      BY <1>0
    <3> QED
      BY <1>0, <2>3, <3>1, DivPlus, Zenon
  <2>5. x \div Base \in Int
    BY <1>0
  <2>6. (v \div Base) % Base = (x \div Base) % Base /\ v % Base = x % Base
    <3>1. ((x \div Base) + Base * y) % Base = (x \div Base) % Base
      <4>1. Base * y \in Nat /\ y \in Int
        BY <1>0
      <4> QED
        BY <1>0, <2>5, <4>1, DivPlus, Zenon
    <3>2. v \div Base = (x \div Base) + Base * y /\ v % Base = x % Base
      <4> HIDE DEF v
      <4> QED
        BY <2>3, <2>4, Zenon DEF q
    <3> HIDE DEF v
    <3> QED
      BY <3>1, <3>2, Zenon
  <2>7. v \div (Base * (Base * Base)) = y \div Base
    <3> HIDE DEF v, m
    <3>1. v \div (m * Base) = (v \div m) \div Base
      BY <1>0, <2>1, <2>3, DivTwice
    <3>2. m * Base = Base * (Base * Base)
      BY <1>0 DEF m
    <3> QED
      BY <2>2, <3>1, <3>2
  <2>8. 2 ^ (W * h) = m /\ v = x + 2 ^ (W * h) * y /\ m * y \in Nat
    BY <1>0, <1>2, <2>1, Bases
  <2>9. v \div (Base * Base) = y
    BY <2>2
  <2> HIDE DEF v, m
  <2>10. /\ Word(v, 4)[1] = Word(x, 2)[1] /\ Word(v, 4)[2] = Word(x, 2)[2]
         /\ Word(v, 4)[3] = Word(y, 2)[1] /\ Word(v, 4)[4] = Word(y, 2)[2]
    <3>1. v \in Int /\ x \in Int /\ y \in Int
      BY <1>0, <2>3
    <3>2. /\ Word(v, 4)[1] = v % Base /\ Word(v, 4)[2] = (v \div Base) % Base
          /\ Word(v, 4)[3] = (v \div (Base * Base)) % Base
          /\ Word(v, 4)[4] = (v \div (Base * (Base * Base))) % Base
      BY <3>1, WordBytes
    <3>3. /\ Word(x, 2)[1] = x % Base /\ Word(x, 2)[2] = (x \div Base) % Base
          /\ Word(y, 2)[1] = y % Base /\ Word(y, 2)[2] = (y \div Base) % Base
      BY <3>1, WordBytes
    <3> QED
      BY <2>6, <2>7, <2>9, <3>2, <3>3, Zenon
  <2> QED
    BY <1>2, <2>8, <2>10
<1> QED
  BY <1>1, <1>2

LEMMA WordType ==
  ASSUME NEW n \in Sizes, NEW v \in Int
  PROVE  Word(v, n) \in Words(n)
<1> SUFFICES ASSUME NEW k \in 1..n
             PROVE  (v \div 2 ^ (W * (k - 1))) % 2 ^ W \in Byte
  BY DEF Word, Words
<1>1. W \in Nat /\ W * (k - 1) \in 0..(4 * W)
  <2>1. k \in {1, 2, 3, 4}
    BY DEF Sizes
  <2> QED
    BY <2>1, NumberAssumption
<1>2. 2 ^ (W * (k - 1)) \in Nat \ {0}
  BY <1>1, PowerType
<1>3. v \div 2 ^ (W * (k - 1)) \in Int
  BY <1>2
<1>4. 2 ^ W \in Nat \ {0}
  BY <1>1, PowerType
<1> QED
  BY <1>3, <1>4 DEF Byte

LEMMA WordOfValue ==
  ASSUME NEW n \in Sizes, NEW w \in Words(n)
  PROVE  Word(Value(w), n) = w
<1>0. ASSUME NEW u \in Words(1)
      PROVE  Word(Value(u), 1)[1] = u[1]
  <2>1. Value(u) = u[1] /\ u[1] \in 0..(Base - 1)
    BY ShortValues, Bases DEF Words
  <2>2. u[1] % Base = u[1] /\ u[1] \in Int
    BY <2>1, Bases
  <2> QED
    BY <2>1, <2>2, WordBytes
<1>1. ASSUME NEW h \in {1, 2}, NEW u \in Words(2 * h), NEW k \in 1..(2 * h),
             \A t \in Words(h), j \in 1..h : Word(Value(t), h)[j] = t[j]
      PROVE  Word(Value(u), 2 * h)[k] = u[k]
  <2> DEFINE lo == [j \in 1..h |-> u[j]]
             hi == [j \in 1..h |-> u[h + j]]
  <2>1. lo \in Words(h) /\ hi \in Words(h)
    BY DEF Words
  <2>2. \A j \in 1..h : lo[j] = u[j] /\ hi[j] = u[h + j]
    OBVIOUS
  <2> HIDE DEF lo, hi
  <2>3. Value(u) = Value(lo) + 2 ^ (W * h) * Value(hi)
    BY <2>1, <2>2, Halves
  <2>4. Value(lo) \in WordRange(h) /\ Value(hi) \in WordRange(h)
    BY <2>1, ValueType DEF Sizes
  <2>5. \A j \in 1..h : /\ Word(Value(u), 2 * h)[j] = Word(Value(lo), h)[j]
                        /\ Word(Value(u), 2 * h)[h + j] = Word(Value(hi), h)[j]
    BY <2>3, <2>4, WordHalves
  <2>6. \A j \in 1..h : /\ Word(Value(u), 2 * h)[j] = u[j]
                        /\ Word(Value(u), 2 * h)[h + j] = u[h + j]
    BY <1>1, <2>1, <2>2, <2>5
  <2>7. k \in 1..h \/ (k - h \in 1..h /\ h + (k - h) = k)
    OBVIOUS
  <2> QED
    BY <2>6, <2>7
<1>2. \A t \in Words(1), j \in 1..1 : Word(Value(t), 1)[j] = t[j]
  BY <1>0
<1>3. \A t \in Words(2), j \in 1..2 : Word(Value(t), 2)[j] = t[j]
  BY <1>1, <1>2
<1>4. \A t \in Words(4), j \in 1..4 : Word(Value(t), 4)[j] = t[j]
  BY <1>1, <1>3
<1>5. \A j \in 1..n : Word(Value(w), n)[j] = w[j]
  BY <1>2, <1>3, <1>4 DEF Sizes
<1>6. w = [j \in 1..n |-> w[j]] /\ Word(Value(w), n) = [j \in 1..n |-> Word(Value(w), n)[j]]
  BY DEF Words, Word
<1> QED
  BY <1>5, <1>6

LEMMA SameValue ==
  ASSUME NEW n \in Sizes, NEW u \in Words(n), NEW w \in Words(n), Value(u) = Value(w)
  PROVE  u = w
  BY WordOfValue

LEMMA Swapped ==
  ASSUME NEW n \in Nat, NEW w \in Words(n)
  PROVE  Swap(w) \in Words(n) /\ Swap(Swap(w)) = w /\ \A k \in 1..n : Swap(w)[k] = w[n + 1 - k]
<1>1. Len(w) = n /\ DOMAIN w = 1..n
  BY DEF Words
<1>2. \A k \in 1..n : n + 1 - k \in 1..n /\ n + 1 - (n + 1 - k) = k
  OBVIOUS
<1>3. Swap(w) = [k \in 1..n |-> w[n + 1 - k]]
  BY <1>1 DEF Swap
<1>4. Swap(w) \in Words(n)
  BY <1>2, <1>3 DEF Words
<1>5. Len(Swap(w)) = n /\ DOMAIN Swap(w) = 1..n
  BY <1>4 DEF Words
<1>6. Swap(Swap(w)) = [k \in 1..n |-> Swap(w)[n + 1 - k]]
  BY <1>5 DEF Swap
<1>7. Swap(Swap(w)) = [k \in 1..n |-> w[k]]
  BY <1>2, <1>3, <1>6
<1>8. w = [k \in 1..n |-> w[k]]
  BY DEF Words
<1> QED
  BY <1>3, <1>4, <1>7, <1>8

-----------------------------------------------------------------------------
(* The patterns of could_be_bitflip. *)

LEMMA WIs == W \in Nat /\ W >= 1
  BY NumberAssumption

LEMMA OnesFits ==
  ASSUME NEW n \in Sizes, NEW m \in 1..(4 * W), NEW sh \in Bits,
         Ones(m, sh) \in WordRange(n)
  PROVE  sh + m <= W * n
<1> DEFINE R == 2 ^ (W * n)
           a == 2 ^ m
           b == 2 ^ sh
<1>1. /\ W * n \in Nat /\ W * n <= 4 * W /\ sh \in Nat /\ sh <= 4 * W
      /\ m \in Nat /\ m >= 1
  BY WIs DEF Sizes, Bits
<1>2. a \in Nat \ {0} /\ b \in Nat \ {0} /\ R \in Nat \ {0}
  BY <1>1, WIs, PowerType
<1>3. (a - 1) * b < R
  BY <1>2 DEF Ones, WordRange
<1>4. SUFFICES ASSUME sh + m > W * n
               PROVE  FALSE
  BY <1>1
<1>5. CASE sh >= W * n
  <2>1. R <= b
    BY <1>1, <1>5, PowerGrows
  <2>2. (m - 1) + 1 = m /\ m - 1 \in Nat /\ m <= 4 * W
    BY <1>1
  <2>3. a = 2 * 2 ^ (m - 1)
    BY <2>2, PowerStep
  <2>4. 2 ^ (m - 1) \in Nat \ {0}
    BY <2>2, WIs, PowerType
  <2> HIDE DEF a, b, R
  <2>5. a - 1 >= 1
    BY <2>3, <2>4
  <2>6. (a - 1) * b >= b
    BY <1>2, <2>5
  <2> QED
    BY <1>2, <1>3, <2>1, <2>6
<1>6. CASE sh < W * n
  <2> DEFINE r == W * n - sh
             c == 2 ^ r
  <2>1. r \in Nat /\ r + sh = W * n /\ r + 1 <= m /\ m <= 4 * W
    BY <1>1, <1>4, <1>6
  <2>2. R = c * b
    <3>1. r + sh <= 4 * W
      BY <1>1, <2>1
    <3> HIDE DEF r
    <3>2. 2 ^ (r + sh) = 2 ^ r * 2 ^ sh
      BY <1>1, <2>1, <3>1, PowerSum
    <3> QED
      BY <2>1, <3>2
  <2> HIDE DEF r
  <2>3. 2 ^ (r + 1) = 2 * c /\ 2 ^ (r + 1) <= a
    <3>1. r + 1 \in Nat /\ r + 1 <= 4 * W
      BY <1>1, <2>1, WIs
    <3>2. 2 ^ (r + 1) = 2 * 2 ^ r
      BY <2>1, <3>1, PowerStep
    <3>3. 2 ^ (r + 1) <= 2 ^ m
      BY <1>1, <2>1, <3>1, PowerGrows
    <3> QED
      BY <3>2, <3>3
  <2>4. c \in Nat \ {0}
    BY <2>1, WIs, PowerType
  <2> HIDE DEF a, b, c, R
  <2>5. a - 1 >= c
    BY <1>2, <2>3, <2>4
  <2>6. (a - 1) * b >= c * b
    BY <1>2, <2>4, <2>5
  <2> QED
    BY <1>2, <1>3, <2>2, <2>4, <2>6
<1> QED
  BY <1>1, <1>5, <1>6

LEMMA OnesByte ==
  ASSUME NEW m \in Nat, NEW s \in Nat, s + m <= W
  PROVE  Ones(m, s) \in Byte
<1> DEFINE a == 2 ^ m
           b == 2 ^ s
<1>1. m + s <= 4 * W /\ m \in 0..(4 * W) /\ s \in 0..(4 * W) /\ m + s \in Nat /\ W <= 4 * W
  BY WIs
<1>2. a \in Nat \ {0} /\ b \in Nat \ {0}
  BY <1>1, PowerType
<1>3. 2 ^ (m + s) = a * b /\ 2 ^ (m + s) <= Base
  BY <1>1, WIs, PowerSum, PowerGrows DEF Base
<1> HIDE DEF a, b
<1>4. (a - 1) * b = a * b - b /\ (a - 1) * b >= 0
  BY <1>2
<1>5. Ones(m, s) = (a - 1) * b
  BY DEF Ones, a, b
<1> QED
  BY <1>2, <1>3, <1>4, <1>5, Bases

LEMMA OnesShift ==
  ASSUME NEW m \in 0..(4 * W), NEW s \in Nat, NEW q \in Nat, W * q + s <= 4 * W
  PROVE  Ones(m, W * q + s) = Ones(m, s) * 2 ^ (W * q)
<1> DEFINE a == 2 ^ m
           b == 2 ^ s
           c == 2 ^ (W * q)
<1>0. W * q \in Nat
  BY WIs
<1>1. 2 ^ (W * q + s) = c * b
  BY <1>0, PowerSum
<1>2. a \in Nat /\ b \in Nat /\ c \in Nat
  BY <1>0, WIs, PowerType
<1>3. Ones(m, W * q + s) = (a - 1) * (c * b) /\ Ones(m, s) = (a - 1) * b
  BY <1>1 DEF Ones
<1> HIDE DEF a, b, c
<1>4. (a - 1) * (c * b) = ((a - 1) * b) * c
  BY <1>2
<1> QED
  BY <1>3, <1>4 DEF c

LEMMA OneByteValue ==
  ASSUME NEW n \in Sizes, NEW q \in 0..(n - 1), NEW c \in Byte, NEW z \in Words(n),
         \A k \in 1..n : z[k] = IF k = q + 1 THEN c ELSE 0
  PROVE  Value(z) = c * 2 ^ (W * q)
<1>0. c \in Nat /\ Base \in Nat
  BY Bases
<1>1. CASE n = 1
  <2>1. Value(z) = z[1] /\ z[1] = c /\ q = 0
    BY <1>1, ShortValues
  <2> QED
    BY <1>0, <2>1, Bases
<1>2. CASE n = 2
  <2>1. Value(z) = z[1] + Base * z[2]
    BY <1>2, ShortValues
  <2>2. CASE q = 0
    <3>1. z[1] = c /\ z[2] = 0
      BY <1>2, <2>2
    <3> QED
      BY <1>0, <2>1, <2>2, <3>1, Bases
  <2>3. CASE q = 1
    <3>1. z[1] = 0 /\ z[2] = c
      BY <1>2, <2>3
    <3> QED
      BY <1>0, <2>1, <2>3, <3>1, Bases
  <2> QED
    BY <1>2, <2>2, <2>3
<1>3. CASE n = 4
  <2>1. Value(z) = (z[1] + Base * z[2]) + (Base * Base) * (z[3] + Base * z[4])
    BY <1>3, ShortValues
  <2>2. CASE q = 0
    <3>1. z[1] = c /\ z[2] = 0 /\ z[3] = 0 /\ z[4] = 0
      BY <1>3, <2>2
    <3> QED
      BY <1>0, <2>1, <2>2, <3>1, Bases
  <2>3. CASE q = 1
    <3>1. z[1] = 0 /\ z[2] = c /\ z[3] = 0 /\ z[4] = 0
      BY <1>3, <2>3
    <3> QED
      BY <1>0, <2>1, <2>3, <3>1, Bases
  <2>4. CASE q = 2
    <3>1. z[1] = 0 /\ z[2] = 0 /\ z[3] = c /\ z[4] = 0
      BY <1>3, <2>4
    <3> QED
      BY <1>0, <2>1, <2>4, <3>1, Bases
  <2>5. CASE q = 3
    <3>1. z[1] = 0 /\ z[2] = 0 /\ z[3] = 0 /\ z[4] = c
      BY <1>3, <2>5
    <3> QED
      BY <1>0, <2>1, <2>5, <3>1, Bases
  <2> QED
    BY <1>3, <2>2, <2>3, <2>4, <2>5
<1> QED
  BY <1>1, <1>2, <1>3 DEF Sizes

\* A run of bytes that are all ones.
LEMMA RunValue ==
  ASSUME NEW n \in Sizes, NEW j \in Sizes, NEW q \in 0..(n - 1), q + j <= n,
         NEW z \in Words(n),
         \A k \in 1..n : z[k] = IF k \in (q + 1)..(q + j) THEN Base - 1 ELSE 0
  PROVE  Value(z) = Ones(W * j, W * q)
<1>0. Base \in Nat /\ Base - 1 \in Byte
  BY Bases
<1>1. Ones(W * j, W * q) = (2 ^ (W * j) - 1) * 2 ^ (W * q)
  BY DEF Ones
<1>2. CASE j = 1
  <2>1. \A k \in 1..n : z[k] = IF k = q + 1 THEN Base - 1 ELSE 0
    BY <1>2
  <2>2. Value(z) = (Base - 1) * 2 ^ (W * q)
    BY <1>0, <2>1, OneByteValue
  <2> QED
    BY <1>1, <1>2, <2>2, Bases
<1>3. CASE j = 2 /\ n = 2
  <2>1. q = 0 /\ z[1] = Base - 1 /\ z[2] = Base - 1
    BY <1>3
  <2>2. Value(z) = z[1] + Base * z[2]
    BY <1>3, ShortValues
  <2> QED
    BY <1>0, <1>1, <1>3, <2>1, <2>2, Bases
<1>4. CASE j = 2 /\ n = 4
  <2>1. Value(z) = (z[1] + Base * z[2]) + (Base * Base) * (z[3] + Base * z[4])
    BY <1>4, ShortValues
  <2>2. CASE q = 0
    <3>1. z[1] = Base - 1 /\ z[2] = Base - 1 /\ z[3] = 0 /\ z[4] = 0
      BY <1>4, <2>2
    <3> QED
      BY <1>0, <1>1, <1>4, <2>1, <2>2, <3>1, Bases
  <2>3. CASE q = 1
    <3>1. z[1] = 0 /\ z[2] = Base - 1 /\ z[3] = Base - 1 /\ z[4] = 0
      BY <1>4, <2>3
    <3> QED
      BY <1>0, <1>1, <1>4, <2>1, <2>3, <3>1, Bases
  <2>4. CASE q = 2
    <3>1. z[1] = 0 /\ z[2] = 0 /\ z[3] = Base - 1 /\ z[4] = Base - 1
      BY <1>4, <2>4
    <3> QED
      BY <1>0, <1>1, <1>4, <2>1, <2>4, <3>1, Bases
  <2> QED
    BY <1>4, <2>2, <2>3, <2>4
<1>5. CASE j = 4 /\ n = 4
  <2>1. Value(z) = (z[1] + Base * z[2]) + (Base * Base) * (z[3] + Base * z[4])
    BY <1>5, ShortValues
  <2>2. /\ q = 0 /\ z[1] = Base - 1 /\ z[2] = Base - 1 /\ z[3] = Base - 1
        /\ z[4] = Base - 1
    BY <1>5
  <2> QED
    BY <1>0, <1>1, <1>5, <2>1, <2>2, Bases
<1> QED
  BY <1>2, <1>3, <1>4, <1>5 DEF Sizes

\* What a pattern of could_be_bitflip is, byte by byte.
AllZero(n, z) == \A k \in 1..n : z[k] = 0
BitsOfByte(n, z) ==
  \E m \in {1, 2, 4}, q \in 0..(n - 1), s \in 0..(W - 1) :
    /\ s + m <= W
    /\ \A k \in 1..n : z[k] = IF k = q + 1 THEN Ones(m, s) ELSE 0
RunOfBytes(n, z) ==
  \E j \in Sizes, q \in 0..(n - 1) :
    /\ q + j <= n
    /\ \A k \in 1..n : z[k] = IF k \in (q + 1)..(q + j) THEN Base - 1 ELSE 0
OverBorder(n, z) ==
  \E m \in {2, 4}, sh \in 0..(W * n - 1) :
    /\ sh \div W # (sh + m - 1) \div W
    /\ Value(z) = Ones(m, sh)

LEMMA ZeroByte == 0 \in Byte /\ Base - 1 \in Byte
  BY Bases

LEMMA SomeBits ==
  ASSUME NEW n \in Sizes, NEW z \in Words(n), NEW m \in {1, 2, 4}, NEW sh \in Bits,
         Value(z) = Ones(m, sh)
  PROVE  BitsOfByte(n, z) \/ OverBorder(n, z)
<1> DEFINE q == sh \div W
           s == sh % W
<1>0. /\ W \in Nat \ {0} /\ sh \in Nat /\ n \in Nat /\ W * n \in Nat /\ m \in 1..(4 * W)
      /\ sh \in Int /\ W * n <= 4 * W
  BY WIs DEF Sizes, Bits
<1>1. sh + m <= W * n
  BY <1>0, OnesFits, ValueType
<1>2. q \in Nat /\ s \in 0..(W - 1) /\ sh = W * q + s
  BY <1>0, Divided, Zenon
<1>3. CASE q # (sh + m - 1) \div W
  <2>1. m # 1
    <3>1. sh + 1 - 1 = sh
      BY <1>0
    <3> QED
      BY <1>3, <3>1
  <2>2. m \in {2, 4} /\ sh \in 0..(W * n - 1)
    BY <1>0, <1>1, <2>1
  <2> QED
    BY <1>3, <2>2 DEF OverBorder
<1>4. CASE q = (sh + m - 1) \div W
  <2> DEFINE r == (sh + m - 1) % W
  <2>1. sh + m - 1 \in Int
    BY <1>0
  <2>2. r \in 0..(W - 1) /\ sh + m - 1 = W * ((sh + m - 1) \div W) + r
    BY <1>0, <2>1, Divided, Zenon
  <2>3. sh + m - 1 = W * q + r
    BY <1>4, <2>2, Zenon
  <2> HIDE DEF q, s, r
  <2>4. s + m <= W /\ W * q < W * n
    BY <1>0, <1>1, <1>2, <2>2, <2>3
  <2>5. q < n
    <3> SUFFICES ASSUME q >= n
                 PROVE  FALSE
      BY <1>0, <1>2
    <3>1. W * q >= W * n
      BY <1>0, <1>2
    <3> QED
      BY <1>0, <1>2, <2>4, <3>1
  <2>6. q \in 0..(n - 1)
    BY <1>0, <1>2, <2>5
  <2> DEFINE c == Ones(m, s)
             y == [k \in 1..n |-> IF k = q + 1 THEN c ELSE 0]
  <2>7. c \in Byte
    BY <1>0, <1>2, <2>4, OnesByte
  <2>8. y \in Words(n) /\ \A k \in 1..n : y[k] = IF k = q + 1 THEN c ELSE 0
    BY <2>7, ZeroByte DEF Words
  <2>9. Ones(m, sh) = c * 2 ^ (W * q)
    <3>1. W * q + s <= 4 * W /\ m \in 0..(4 * W) /\ s \in Nat
      BY <1>0, <1>1, <1>2
    <3>2. Ones(m, W * q + s) = Ones(m, s) * 2 ^ (W * q)
      BY <1>2, <3>1, OnesShift
    <3> QED
      BY <1>2, <3>2
  <2> HIDE DEF c, y
  <2>10. Value(y) = c * 2 ^ (W * q)
    BY <2>6, <2>7, <2>8, OneByteValue
  <2>11. z = y
    BY <2>8, <2>9, <2>10, SameValue
  <2> QED
    BY <1>2, <2>4, <2>6, <2>8, <2>11 DEF BitsOfByte, c
<1> QED
  BY <1>3, <1>4

LEMMA WholeBytes ==
  ASSUME NEW n \in Sizes, NEW z \in Words(n), NEW j \in Sizes,
         NEW sh \in Bits, sh % W = 0, Value(z) = Ones(W * j, sh)
  PROVE  RunOfBytes(n, z)
<1> DEFINE q == sh \div W
<1>0. /\ W \in Nat \ {0} /\ sh \in Nat /\ n \in Nat /\ W * n \in Nat
      /\ W * j \in 1..(4 * W) /\ sh \in Int /\ j \in Nat /\ j >= 1
  BY WIs DEF Sizes, Bits
<1>1. sh + W * j <= W * n
  BY <1>0, OnesFits, ValueType
<1>2. q \in Nat /\ sh = W * q
  <2>1. q \in Nat /\ sh = W * q + (sh % W)
    BY <1>0, Divided, Zenon
  <2> QED
    BY <1>0, <2>1
<1> HIDE DEF q
<1>3. q + j <= n
  <2> SUFFICES ASSUME q + j > n
               PROVE  FALSE
    BY <1>0, <1>2
  <2>1. W * (q + j) >= W * (n + 1)
    BY <1>0, <1>2
  <2>2. W * (q + j) = W * q + W * j /\ W * (n + 1) = W * n + W
    BY <1>0, <1>2
  <2> QED
    BY <1>0, <1>1, <1>2, <2>1, <2>2
<1>4. q \in 0..(n - 1)
  BY <1>0, <1>2, <1>3
<1> DEFINE y == [k \in 1..n |-> IF k \in (q + 1)..(q + j) THEN Base - 1 ELSE 0]
<1>5. y \in Words(n) /\ \A k \in 1..n : y[k] = IF k \in (q + 1)..(q + j) THEN Base - 1 ELSE 0
  BY ZeroByte DEF Words
<1> HIDE DEF y
<1>6. Value(y) = Ones(W * j, sh)
  BY <1>2, <1>3, <1>4, <1>5, RunValue
<1>7. z = y
  BY <1>5, <1>6, SameValue
<1> QED
  BY <1>3, <1>4, <1>5, <1>7 DEF RunOfBytes

LEMMA Pattern ==
  ASSUME NEW n \in Sizes, NEW z \in Words(n), could_be_bitflip(Value(z))
  PROVE  AllZero(n, z) \/ BitsOfByte(n, z) \/ RunOfBytes(n, z) \/ OverBorder(n, z)
<1>1. CASE Value(z) = 0
  <2> DEFINE y == [k \in 1..n |-> 0]
             u == [k \in 1..n |-> IF k = 0 + 1 THEN 0 ELSE 0]
  <2>1. y \in Words(n) /\ \A k \in 1..n : y[k] = IF k = 0 + 1 THEN 0 ELSE 0
    BY ZeroByte DEF Words
  <2>2. 0 \in 0..(n - 1)
    BY DEF Sizes
  <2> HIDE DEF y
  <2>3. Value(y) = 0 * 2 ^ (W * 0)
    BY <2>1, <2>2, ZeroByte, OneByteValue
  <2>4. Value(y) = 0
    BY <2>3, Bases
  <2>5. z = y
    BY <1>1, <2>1, <2>4, SameValue
  <2> QED
    BY <2>1, <2>5 DEF AllZero
<1>2. CASE \E m \in {1, 2, 4}, sh \in Bits : Value(z) = Ones(m, sh)
  BY <1>2, SomeBits
<1>3. CASE \E m \in {W, 2 * W, 4 * W}, sh \in {x \in Bits : x % W = 0} : Value(z) = Ones(m, sh)
  <2>1. PICK m \in {W, 2 * W, 4 * W}, sh \in {x \in Bits : x % W = 0} : Value(z) = Ones(m, sh)
    BY <1>3
  <2>2. PICK j \in Sizes : m = W * j
    BY WIs DEF Sizes
  <2> QED
    BY <2>1, <2>2, WholeBytes
<1> QED
  BY <1>1, <1>2, <1>3 DEF could_be_bitflip, FlipPatterns

\* ^ on words.
LEMMA XorWords ==
  ASSUME NEW n \in Sizes, NEW u \in Words(n), NEW w \in Words(n)
  PROVE  \E z \in Words(n) :
           /\ WordXor(u, w) = z
           /\ WordXor(w, u) = z
           /\ \A k \in 1..n : w[k] = XorOf(u[k], z[k])
<1> DEFINE z == [k \in 1..n |-> XorOf(u[k], w[k])]
           y == [k \in 1..n |-> XorOf(w[k], u[k])]
<1>1. \A k \in 1..n : u[k] \in Byte /\ w[k] \in Byte
  BY DEF Words
<1>2. z \in Words(n) /\ z = y /\ \A k \in 1..n : w[k] = XorOf(u[k], z[k])
  BY <1>1, XorAssumption DEF Words
<1>3. WordXor(u, w) = z /\ WordXor(w, u) = y
  BY DEF WordXor, Words
<1> QED
  BY <1>2, <1>3

-----------------------------------------------------------------------------
(* FLIP_BIT, bit after bit of one byte. *)

FlipLoop(g, buf, bit, n) ==
  g = [k \in 0..n |->
         IF k = 0 THEN buf
         ELSE [g[k - 1] EXCEPT ![(bit + k - 1) \div W + 1] =
                 XorOf(@, 2 ^ (W - 1 - ((bit + k - 1) % W)))]]

LEMMA FlipLoopExists ==
  ASSUME NEW buf, NEW bit
  PROVE  \A n \in Nat : \E g : FlipLoop(g, buf, bit, n)
<1> DEFINE T == {n \in Nat : \E g : FlipLoop(g, buf, bit, n)}
           Flip(x, k) == [x EXCEPT ![(bit + k - 1) \div W + 1] =
                            XorOf(@, 2 ^ (W - 1 - ((bit + k - 1) % W)))]
<1>1. 0 \in T
  <2> DEFINE v == [k \in 0..0 |-> buf]
  <2>1. FlipLoop(v, buf, bit, 0)
    BY DEF FlipLoop
  <2> QED
    BY <2>1
<1>2. ASSUME NEW n \in Nat, n \in T
      PROVE  n + 1 \in T
  <2>1. PICK v : FlipLoop(v, buf, bit, n)
    BY <1>2
  <2>2. \A k \in 0..n : v[k] = IF k = 0 THEN buf ELSE Flip(v[k - 1], k)
    BY <2>1 DEF FlipLoop
  <2> DEFINE h == [k \in 0..(n + 1) |-> IF k = n + 1 THEN Flip(v[n], k) ELSE v[k]]
  <2> HIDE DEF Flip
  <2>3. \A k \in 0..(n + 1) : h[k] = IF k = 0 THEN buf ELSE Flip(h[k - 1], k)
    <3> TAKE k \in 0..(n + 1)
    <3>1. CASE k = n + 1
      <4>1. h[k - 1] = v[n] /\ h[k] = Flip(v[n], k) /\ k # 0
        BY <3>1
      <4> QED
        BY <4>1
    <3>2. CASE k \in 1..n
      <4>1. h[k - 1] = v[k - 1] /\ h[k] = v[k] /\ k # 0 /\ k \in 0..n
        BY <3>2
      <4> QED
        BY <4>1, <2>2
    <3>3. CASE k = 0
      <4>1. h[0] = v[0] /\ 0 \in 0..n
        OBVIOUS
      <4> QED
        BY <3>3, <4>1, <2>2
    <3> QED
      BY <3>1, <3>2, <3>3
  <2>4. h = [k \in 0..(n + 1) |-> h[k]]
    OBVIOUS
  <2> HIDE DEF h
  <2>5. FlipLoop(h, buf, bit, n + 1)
    BY <2>3, <2>4 DEF FlipLoop, Flip
  <2> QED
    BY <2>5
<1> HIDE DEF T
<1>3. Nat \subseteq T
  BY <1>1, <1>2, Induct
<1> QED
  BY <1>3 DEF T

LEMMA XorBit ==
  ASSUME NEW a \in Byte, NEW x \in Byte, NEW e \in 0..(W - 1), x % 2 ^ (e + 1) = 0
  PROVE  XorOf(XorOf(a, x), 2 ^ e) = XorOf(a, x + 2 ^ e)
  BY XorAssumption

\* Byte p changed by the bits of x.
Toggled(buf, p, x) == [buf EXCEPT ![p + 1] = XorOf(@, x)]

\* m bits of byte p, the lowest of them bit s.
LEMMA FlippedBits ==
  ASSUME NEW buf \in Seq(Byte), NEW p \in 0..(Len(buf) - 1), NEW m \in Nat, NEW s \in Nat,
         s + m <= W, NEW bit, bit = W * p + (W - s - m)
  PROVE  Flipped(buf, bit, m) = Toggled(buf, p, Ones(m, s))
<1> DEFINE a == buf[p + 1]
           X(k) == (2 ^ k - 1) * 2 ^ (s + m - k)
           Upto(k) == [buf EXCEPT ![p + 1] = XorOf(a, X(k))]
<1>0. /\ W \in Nat \ {0} /\ p \in Nat /\ W * p \in Nat /\ bit \in Nat
      /\ a \in Byte /\ p + 1 \in DOMAIN buf
  BY WIs
<1>1. PICK g : FlipLoop(g, buf, bit, m) /\ Flipped(buf, bit, m) = g[m]
  <2>1. Flipped(buf, bit, m) = (CHOOSE g : FlipLoop(g, buf, bit, m))[m]
    BY DEF Flipped, FlipLoop
  <2>2. \E g : FlipLoop(g, buf, bit, m)
    BY FlipLoopExists
  <2> QED
    BY <2>1, <2>2, Zenon
<1> DEFINE T == {k \in Nat : k <= m => g[k] = Upto(k)}
<1>2. 0 \in T
  <2>1. g[0] = buf
    BY <1>1 DEF FlipLoop
  <2>2. X(0) = 0
    <3>1. 2 ^ (s + m - 0) \in Nat
      <4>1. s + m - 0 \in 0..(4 * W)
        BY WIs
      <4> QED
        BY <4>1, PowerType
    <3> QED
      BY <3>1
  <2>3. XorOf(a, 0) = a
    BY <1>0, XorAssumption
  <2>4. buf = [buf EXCEPT ![p + 1] = a]
    BY <1>0
  <2> QED
    BY <2>1, <2>2, <2>3, <2>4
<1>3. ASSUME NEW k \in Nat, k \in T
      PROVE  k + 1 \in T
  <2> HIDE DEF Upto
  <2> SUFFICES ASSUME k + 1 <= m
               PROVE  g[k + 1] = Upto(k + 1)
    <3>1. k + 1 \in Nat
      OBVIOUS
    <3> QED
      BY <3>1
  <2> USE DEF Upto
  <2> DEFINE e == s + m - (k + 1)
  <2>1. /\ k + 1 \in 0..m /\ k + 1 # 0 /\ (k + 1) - 1 = k /\ k <= m
        /\ e \in 0..(W - 1) /\ e + 1 = s + m - k /\ e \in Nat /\ k + 1 <= 4 * W
        /\ e + 1 <= 4 * W /\ k + (e + 1) <= 4 * W /\ k + (e + 1) <= W
    BY WIs
  <2>2. bit + (k + 1) - 1 = (W - 1 - e) + W * p /\ W - 1 - e \in 0..(W - 1)
    BY <1>0, <2>1
  <2>3. (bit + (k + 1) - 1) \div W = p /\ (bit + (k + 1) - 1) % W = W - 1 - e
    <3>1. ((W - 1 - e) + W * p) \div W = p /\ ((W - 1 - e) + W * p) % W = W - 1 - e
      <4>1. p \in Int
        BY <1>0
      <4> HIDE DEF e
      <4> QED
        BY <1>0, <2>2, <4>1, DivUnique, Zenon
    <3> HIDE DEF e
    <3> QED
      BY <2>2, <3>1, Zenon
  <2>4. W - 1 - (W - 1 - e) = e
    BY <1>0, <2>1
  <2>5. g[k + 1] = [g[k] EXCEPT ![p + 1] = XorOf(@, 2 ^ e)]
    <3>1. g[k + 1] = [g[(k + 1) - 1] EXCEPT ![(bit + (k + 1) - 1) \div W + 1] =
                        XorOf(@, 2 ^ (W - 1 - ((bit + (k + 1) - 1) % W)))]
      <4> HIDE DEF e
      <4> QED
        BY <1>1, <2>1 DEF FlipLoop
    <3> HIDE DEF e
    <3> QED
      BY <2>1, <2>3, <2>4, <3>1, Zenon
  <2>6. g[k] = Upto(k)
    BY <1>3, <2>1
  <2>7. X(k) = (2 ^ k - 1) * 2 ^ (e + 1)
    BY <2>1
  <2>8. XorOf(XorOf(a, X(k)), 2 ^ e) = XorOf(a, X(k) + 2 ^ e)
    <3>1. X(k) \in Byte
      <4>1. Ones(k, e + 1) \in Byte
        <5> HIDE DEF e
        <5>1. e + 1 \in Nat /\ (e + 1) + k <= W
          BY <2>1
        <5> QED
          BY <5>1, OnesByte
      <4> QED
        BY <2>7, <4>1 DEF Ones
    <3>2. X(k) % 2 ^ (e + 1) = 0
      <4> DEFINE u == 2 ^ (e + 1)
                 y == 2 ^ k
      <4>1. u \in Nat \ {0} /\ y \in Nat \ {0}
        <5>1. e + 1 \in 0..(4 * W) /\ k \in 0..(4 * W)
          BY <2>1, WIs
        <5> HIDE DEF e
        <5> QED
          BY <5>1, PowerType
      <4> HIDE DEF u, y
      <4>2. y - 1 \in Int /\ 0 \in 0..(u - 1)
        BY <4>1
      <4>3. (0 + u * (y - 1)) % u = 0
        BY <4>1, <4>2, DivUnique, Zenon
      <4>4. (y - 1) * u = 0 + u * (y - 1)
        BY <4>1, <4>2
      <4> HIDE DEF X
      <4> QED
        BY <2>7, <4>3, <4>4 DEF u, y
    <3> HIDE DEF X, e
    <3> QED
      BY <1>0, <2>1, <3>1, <3>2, XorBit
  <2>9. X(k) + 2 ^ e = X(k + 1)
    <3> DEFINE u == 2 ^ e
               y == 2 ^ k
    <3>1. 2 ^ (e + 1) = 2 * u /\ 2 ^ (k + 1) = 2 * y
      <4> HIDE DEF e
      <4> QED
        BY <2>1, PowerStep
    <3>2. u \in Nat \ {0} /\ y \in Nat \ {0}
      <4>1. e \in 0..(4 * W) /\ k \in 0..(4 * W)
        BY <2>1, WIs
      <4> HIDE DEF e
      <4> QED
        BY <4>1, PowerType
    <3>3. X(k) = (y - 1) * (2 * u) /\ X(k + 1) = (2 * y - 1) * u
      BY <2>7, <3>1
    <3> HIDE DEF X, u, y
    <3>4. (y - 1) * (2 * u) + u = (2 * y - 1) * u
      BY <3>2
    <3> QED
      BY <3>3, <3>4 DEF u
  <2> HIDE DEF X, e, a
  <2>10. Upto(k)[p + 1] = XorOf(a, X(k))
    BY <1>0
  <2>11. [Upto(k) EXCEPT ![p + 1] = XorOf(@, 2 ^ e)]
           = [buf EXCEPT ![p + 1] = XorOf(XorOf(a, X(k)), 2 ^ e)]
    BY <1>0, <2>10
  <2> QED
    BY <2>5, <2>6, <2>8, <2>9, <2>11, Zenon
<1> HIDE DEF T
<1>4. Nat \subseteq T
  BY <1>2, <1>3, Induct
<1>5. g[m] = Upto(m)
  BY <1>4 DEF T
<1>6. X(m) = Ones(m, s)
  <2>1. s + m - m = s
    OBVIOUS
  <2> QED
    BY <2>1 DEF Ones
<1>7. Upto(m) = Toggled(buf, p, Ones(m, s))
  BY <1>6 DEF Toggled
<1> QED
  BY <1>1, <1>5, <1>7

-----------------------------------------------------------------------------
(* Words put into a buffer, sums of words. *)

\* f is buf with the n bytes of w from at on.
Laid(f, buf, at, n, w) ==
  /\ f \in [1..Len(buf) -> Byte]
  /\ \A p \in 1..Len(buf) : f[p] = IF p \in (at + 1)..(at + n) THEN w[p - at] ELSE buf[p]

LEMMA PutIs ==
  ASSUME NEW buf \in Seq(Byte), NEW at \in Nat, NEW n \in Nat, at + n <= Len(buf),
         NEW w \in Words(n)
  PROVE  Laid(Put(buf, at, w), buf, at, n, w)
<1>1. Len(w) = n /\ DOMAIN buf = 1..Len(buf) /\ Len(buf) \in Nat
  BY DEF Words
<1>2. Put(buf, at, w)
        = [p \in 1..Len(buf) |-> IF p \in (at + 1)..(at + n) THEN w[p - at] ELSE buf[p]]
  BY <1>1 DEF Put
<1>3. ASSUME NEW p \in 1..Len(buf)
      PROVE  (IF p \in (at + 1)..(at + n) THEN w[p - at] ELSE buf[p]) \in Byte
  <2>1. p \in (at + 1)..(at + n) => p - at \in 1..n
    BY <1>1
  <2> QED
    BY <1>1, <2>1 DEF Words
<1> QED
  BY <1>2, <1>3 DEF Laid

\* Of the n bytes of w those after the first k are the m of c, the others those
\* of buf from at on.
Keeps(w, n, k, m, c, buf, at) ==
  \A j \in 1..n : w[j] = IF j \in (k + 1)..(k + m) THEN c[j - k] ELSE buf[at + j]

\* Two words that leave the same behind.
LEMMA PutSame ==
  ASSUME NEW buf \in Seq(Byte), NEW at \in Nat, NEW n \in Nat, at + n <= Len(buf),
         NEW w \in Words(n), NEW k \in Nat, NEW m \in Nat, k + m <= n, NEW c \in Words(m),
         Keeps(w, n, k, m, c, buf, at)
  PROVE  Put(buf, at, w) = Put(buf, at + k, c)
<1> DEFINE L == Len(buf)
<1>0. at + k \in Nat /\ (at + k) + m <= L /\ L \in Nat
  OBVIOUS
<1>1. /\ Put(buf, at, w) \in [1..L -> Byte]
      /\ \A p \in 1..L :
           Put(buf, at, w)[p] = IF p \in (at + 1)..(at + n) THEN w[p - at] ELSE buf[p]
  <2>1. Laid(Put(buf, at, w), buf, at, n, w)
    BY PutIs
  <2> QED
    BY <2>1 DEF Laid
<1>2. /\ Put(buf, at + k, c) \in [1..L -> Byte]
      /\ \A p \in 1..L :
           Put(buf, at + k, c)[p]
             = IF p \in (at + k + 1)..(at + k + m) THEN c[p - (at + k)] ELSE buf[p]
  <2>1. Laid(Put(buf, at + k, c), buf, at + k, m, c)
    BY <1>0, PutIs
  <2> QED
    BY <2>1 DEF Laid
<1>3. ASSUME NEW p \in 1..L
      PROVE  Put(buf, at, w)[p] = Put(buf, at + k, c)[p]
  <2>1. CASE p \in (at + 1)..(at + n)
    <3>1. p - at \in 1..n /\ at + (p - at) = p /\ (p - at) - k = p - (at + k)
      BY <1>0, <2>1
    <3>2. w[p - at] = IF p - at \in (k + 1)..(k + m) THEN c[p - (at + k)] ELSE buf[p]
      BY <3>1 DEF Keeps
    <3>3. p - at \in (k + 1)..(k + m) <=> p \in (at + k + 1)..(at + k + m)
      BY <1>0, <2>1
    <3> QED
      BY <1>1, <1>2, <2>1, <3>2, <3>3
  <2>2. CASE p \notin (at + 1)..(at + n)
    <3>1. p \notin (at + k + 1)..(at + k + m)
      BY <1>0, <2>2
    <3> QED
      BY <1>1, <1>2, <2>2, <3>1
  <2> QED
    BY <2>1, <2>2
<1> DEFINE D == 1..L
<1>4. /\ Put(buf, at, w) \in [D -> Byte] /\ Put(buf, at + k, c) \in [D -> Byte]
      /\ \A p \in D : Put(buf, at, w)[p] = Put(buf, at + k, c)[p]
  BY <1>1, <1>2, <1>3
<1> HIDE DEF D
<1> QED
  BY <1>4

LEMMA SumType ==
  ASSUME NEW n \in Sizes, NEW w \in Words(n), NEW d \in Int
  PROVE  Sum(w, d) \in Words(n) /\ Sum(w, d) = Word((Value(w) + d) % 2 ^ (W * n), n)
<1>1. Len(w) = n /\ W * n \in 0..(4 * W)
  BY WIs DEF Sizes, Words
<1>2. 2 ^ (W * n) \in Nat \ {0} /\ Value(w) \in Int
  BY <1>1, PowerType, ValueType DEF WordRange
<1>3. (Value(w) + d) % 2 ^ (W * n) \in Int
  BY <1>2
<1>4. Sum(w, d) = Word((Value(w) + d) % 2 ^ (W * n), n)
  BY <1>1 DEF Sum
<1> QED
  BY <1>3, <1>4, WordType

LEMMA SizeOfWord ==
  ASSUME NEW n \in Sizes
  PROVE  /\ 2 ^ (W * n) \in Nat \ {0} /\ WordRange(n) \subseteq Nat
         /\ \A x \in WordRange(n) : x % 2 ^ (W * n) = x
<1>1. W * n \in 0..(4 * W)
  BY WIs DEF Sizes
<1>2. 2 ^ (W * n) \in Nat \ {0}
  BY <1>1, PowerType
<1>3. ASSUME NEW s \in Nat \ {0}, NEW x \in 0..(s - 1)
      PROVE  x % s = x
  OBVIOUS
<1> QED
  BY <1>2, <1>3 DEF WordRange

\* Without a carry a sum only changes the lower half.
LEMMA LowerHalf ==
  ASSUME NEW h \in {1, 2}, NEW w \in Words(2 * h), NEW lo \in Words(h), NEW hi \in Words(h),
         \A k \in 1..h : lo[k] = w[k] /\ hi[k] = w[h + k],
         NEW d \in Deltas, ~Carries(w, d)
  PROVE  \A k \in 1..h : Sum(w, d)[k] = Sum(lo, d)[k] /\ Sum(w, d)[h + k] = w[h + k]
<1> DEFINE H == 2 ^ (W * h)
           x == Value(lo)
           y == Value(hi)
<1>0. h \in Sizes /\ 2 * h \in Sizes /\ d \in Int /\ W \in Nat
  BY WIs, NumberAssumption DEF Sizes, Deltas
<1>1. H \in Nat \ {0} /\ x \in 0..(H - 1) /\ y \in 0..(H - 1) /\ WordRange(h) = 0..(H - 1)
  BY <1>0, SizeOfWord, ValueType DEF WordRange
<1>2. Value(w) = x + H * y
  BY Halves
<1>3. 2 ^ (W * (2 * h)) = H * H
  BY Bases
<1>4. Len(w) # 1 /\ 2 ^ ((W * Len(w)) \div 2) = H
  <2>1. Len(w) = 2 * h
    BY DEF Words
  <2>2. (W * (2 * h)) \div 2 = W * h
    BY <1>0
  <2> QED
    BY <2>1, <2>2
<1>5. Value(w) % H = x
  <2>1. y \in Int
    BY <1>1
  <2>2. (x + H * y) % H = x
    <3> HIDE DEF H, x, y
    <3> QED
      BY <1>1, <2>1, DivUnique, Zenon
  <2> HIDE DEF H, x, y
  <2> QED
    BY <1>2, <2>2
<1>6. x + d \in 0..(H - 1)
  <2>1. ~(IF d > 0 THEN (Value(w) % H) + d >= H ELSE Value(w) % H < -d)
    BY <1>4 DEF Carries
  <2> HIDE DEF H, x, y
  <2> QED
    BY <1>0, <1>1, <1>5, <2>1
<1>7. Value(w) + d = (x + d) + H * y
  <2> HIDE DEF H, x, y
  <2> QED
    BY <1>0, <1>1, <1>2
<1>8. (x + d) + H * y \in WordRange(2 * h)
  <2>1. (x + d) + H * y \in 0..(H * H - 1)
    <3> HIDE DEF H, x, y
    <3> QED
      BY <1>1, <1>6, TwoDigits
  <2> QED
    BY <1>3, <2>1 DEF WordRange
<1>9. Sum(w, d) = Word((x + d) + H * y, 2 * h)
  <2>1. ((x + d) + H * y) % 2 ^ (W * (2 * h)) = (x + d) + H * y
    <3> HIDE DEF H, x, y
    <3> QED
      BY <1>0, <1>8, SizeOfWord
  <2>2. Sum(w, d) = Word((Value(w) + d) % 2 ^ (W * (2 * h)), 2 * h)
    BY <1>0, SumType
  <2> HIDE DEF H, x, y
  <2> QED
    BY <1>7, <2>1, <2>2
<1>10. Sum(lo, d) = Word(x + d, h)
  <2>1. Sum(lo, d) = Word((x + d) % H, h)
    BY <1>0, SumType
  <2>2. (x + d) % H = x + d
    <3> HIDE DEF x
    <3> QED
      BY <1>0, <1>1, <1>6, SizeOfWord
  <2> QED
    BY <2>1, <2>2
<1>11. Word(y, h) = hi
  BY <1>0, WordOfValue
<1>12. \A k \in 1..h : /\ Word((x + d) + H * y, 2 * h)[k] = Word(x + d, h)[k]
                       /\ Word((x + d) + H * y, 2 * h)[h + k] = Word(y, h)[k]
  <2>1. x + d \in WordRange(h) /\ y \in WordRange(h)
    BY <1>1, <1>6
  <2> HIDE DEF x, y
  <2> QED
    BY <2>1, WordHalves
<1> HIDE DEF H, x, y
<1> QED
  BY <1>9, <1>10, <1>11, <1>12

LEMMA NearIsSum ==
  ASSUME NEW n \in Sizes, NEW u \in Words(n), NEW w \in Words(n), Near(u, w)
  PROVE  u = w \/ \E d \in Deltas : w = Sum(u, d)
<1> DEFINE s == 2 ^ (W * n)
           x == Value(u)
           y == Value(w)
<1>1. s \in Nat \ {0} /\ x \in 0..(s - 1) /\ y \in 0..(s - 1)
  BY SizeOfWord, ValueType DEF WordRange
<1>2. (x - y) % s <= ARITH_MAX \/ (0 - (x - y)) % s <= ARITH_MAX
  <2>1. Len(u) = n
    BY DEF Words, Sizes
  <2> QED
    BY <2>1 DEF Near
<1>3. ARITH_MAX \in Nat
  BY NumberAssumption
<1>4. ASSUME NEW d \in Int, d >= -ARITH_MAX, d <= ARITH_MAX, (x + d) % s = y
      PROVE  u = w \/ \E e \in Deltas : w = Sum(u, e)
  <2>1. CASE d = 0
    <3>1. x % s = x
      BY <1>1
    <3>2. x + d = x
      BY <1>1, <2>1
    <3>3. x = y
      BY <1>4, <3>1, <3>2, Zenon
    <3> QED
      BY <3>3, SameValue
  <2>2. CASE d # 0
    <3>1. d \in Deltas
      BY <1>3, <1>4, <2>2 DEF Deltas
    <3>2. Sum(u, d) = Word(y, n)
      BY <1>4, SumType
    <3>3. Word(y, n) = w
      BY WordOfValue
    <3> QED
      BY <3>1, <3>2, <3>3
  <2> QED
    BY <2>1, <2>2
<1> HIDE DEF s, x, y
<1>5. CASE (x - y) % s <= ARITH_MAX
  <2> DEFINE r == (x - y) % s
             q == (x - y) \div s
  <2>0. x - y \in Int
    BY <1>1
  <2>1. q \in Int /\ r \in 0..(s - 1) /\ x - y = s * q + r
    BY <1>1, <2>0, Divided, Zenon
  <2>2. r <= ARITH_MAX
    BY <1>5
  <2> HIDE DEF q, r
  <2>3. x + (-r) = y + s * q
    BY <1>1, <2>1
  <2>4. (y + s * q) % s = y
    BY <1>1, <2>1, DivUnique, Zenon
  <2>5. -r \in Int /\ -r >= -ARITH_MAX /\ -r <= ARITH_MAX
    BY <1>1, <1>3, <2>1, <2>2
  <2> QED
    BY <1>4, <2>3, <2>4, <2>5
<1>6. CASE (0 - (x - y)) % s <= ARITH_MAX
  <2> DEFINE r == (0 - (x - y)) % s
             q == (0 - (x - y)) \div s
  <2>0. 0 - (x - y) \in Int
    BY <1>1
  <2>1. q \in Int /\ r \in 0..(s - 1) /\ 0 - (x - y) = s * q + r
    BY <1>1, <2>0, Divided, Zenon
  <2>2. r <= ARITH_MAX
    BY <1>6
  <2> HIDE DEF q, r
  <2>3. x + r = y + s * (-q) /\ -q \in Int
    BY <1>1, <2>1
  <2>4. (y + s * (-q)) % s = y
    BY <1>1, <2>3, DivUnique, Zenon
  <2>5. r \in Int /\ r >= -ARITH_MAX /\ r <= ARITH_MAX
    BY <1>1, <1>3, <2>1, <2>2
  <2> QED
    BY <1>4, <2>3, <2>4, <2>5
<1> QED
  BY <1>2, <1>5, <1>6

-----------------------------------------------------------------------------
(* Nothing is skipped. *)

\* NothingSkipped for one buffer.
Good(buf) ==
  \/ buf \in tried
  \/ \A p \in Bytes(buf, entry.buf) : p - 1 \notin entry.live
  \/ AcrossBytes(buf, entry.buf)

\* The entry is done with.
Finished ==
  /\ entry.buf \in Seq(Byte) /\ len = Len(entry.buf) /\ len \in Nat \ {0}
  /\ ~entry.no_arith /\ Cardinality(extras) <= MAX_DET_EXTRAS
  /\ \A k \in 1..15, p \in 0..(len - 1) : StageDone(k, p)

LEMMA OldType ==
  ASSUME Finished, NEW n \in Nat, NEW at \in Nat, at + n <= len
  PROVE  Old(at, n) \in Words(n) /\ \A k \in 1..n : Old(at, n)[k] = entry.buf[at + k]
<1> DEFINE b == entry.buf
<1>1. b \in Seq(Byte) /\ Len(b) = len /\ len \in Nat
  BY DEF Finished
<1>2. CASE n = 0
  <2>1. SubSeq(b, at + 1, at + n) = << >>
    BY <1>1, <1>2
  <2>2. << >> \in [1..0 -> Byte]
    OBVIOUS
  <2> QED
    BY <1>2, <2>1, <2>2 DEF Words, Old
<1>3. CASE n # 0
  <2>1. at + 1 \in 1..len /\ at + n \in 1..len /\ (at + n) - (at + 1) + 1 = n
    BY <1>1, <1>3
  <2> HIDE DEF b
  <2>2. /\ SubSeq(b, at + 1, at + n) \in Seq(Byte) /\ Len(SubSeq(b, at + 1, at + n)) = n
        /\ \A k \in 1..n : SubSeq(b, at + 1, at + n)[k] = b[at + k]
    <3>1. SubSeq(b, at + 1, at + n) \in Seq(Byte) /\ Len(SubSeq(b, at + 1, at + n)) = n
      BY <1>1, <2>1
    <3>2. ASSUME NEW k \in 1..n
          PROVE  SubSeq(b, at + 1, at + n)[k] = b[at + k]
      <4>1. SubSeq(b, at + 1, at + n)[k] = b[(at + 1) + k - 1]
        BY <1>1, <2>1
      <4>2. (at + 1) + k - 1 = at + k
        OBVIOUS
      <4> QED
        BY <4>1, <4>2
    <3> QED
      BY <3>1, <3>2
  <2> DEFINE o == SubSeq(b, at + 1, at + n)
  <2>3. o \in [1..n -> Byte] /\ \A k \in 1..n : o[k] = b[at + k]
    <3> HIDE DEF o
    <3>1. o \in Seq(Byte) /\ Len(o) = n /\ \A k \in 1..n : o[k] = b[at + k]
      BY <2>2 DEF o
    <3> QED
      BY <3>1
  <2>4. Old(at, n) = o
    BY DEF Old, b
  <2> HIDE DEF o
  <2> QED
    BY <2>3, <2>4 DEF Words, b
<1> QED
  BY <1>2, <1>3

\* A place where a word fits.
Place(at, n) == at \in Nat /\ n \in Nat /\ at + n <= len

LEMMA PutBuf ==
  ASSUME Finished, NEW n, NEW at, Place(at, n), NEW w \in Words(n)
  PROVE  /\ Put(entry.buf, at, w) \in [1..len -> Byte]
         /\ \A q \in 1..len :
              Put(entry.buf, at, w)[q] = IF q \in (at + 1)..(at + n) THEN w[q - at] ELSE entry.buf[q]
<1>1. Laid(Put(entry.buf, at, w), entry.buf, at, n, w)
  BY PutIs DEF Finished, Place
<1> QED
  BY <1>1 DEF Laid, Finished

LEMMA PutChanges ==
  ASSUME Finished, NEW n, NEW at, Place(at, n), NEW w \in Words(n),
         NEW p \in Bytes(Put(entry.buf, at, w), entry.buf)
  PROVE  p \in (at + 1)..(at + n) /\ w[p - at] # entry.buf[p]
<1>1. /\ Put(entry.buf, at, w) \in [1..len -> Byte]
      /\ \A q \in 1..len :
           Put(entry.buf, at, w)[q] = IF q \in (at + 1)..(at + n) THEN w[q - at] ELSE entry.buf[q]
  BY PutBuf
<1>2. p \in 1..len /\ Put(entry.buf, at, w)[p] # entry.buf[p]
  BY <1>1 DEF Bytes
<1> QED
  BY <1>1, <1>2

LEMMA GoodUnchanged ==
  ASSUME Finished, NEW n, NEW at, Place(at, n)
  PROVE  Good(Put(entry.buf, at, Old(at, n)))
<1> SUFFICES ASSUME NEW p \in Bytes(Put(entry.buf, at, Old(at, n)), entry.buf)
             PROVE  FALSE
  BY DEF Good
<1>1. Old(at, n) \in Words(n) /\ \A k \in 1..n : Old(at, n)[k] = entry.buf[at + k]
  BY OldType DEF Place
<1>2. p \in (at + 1)..(at + n) /\ Old(at, n)[p - at] # entry.buf[p]
  BY <1>1, PutChanges
<1>3. p - at \in 1..n /\ at + (p - at) = p
  BY <1>2 DEF Place
<1> QED
  BY <1>1, <1>2, <1>3

LEMMA GoodUnlessEffective ==
  ASSUME Finished, NEW n, NEW at, Place(at, n), NEW w \in Words(n), ~Effective(at, n)
  PROVE  Good(Put(entry.buf, at, w))
<1> SUFFICES ASSUME NEW p \in Bytes(Put(entry.buf, at, w), entry.buf), p - 1 \in entry.live
             PROVE  FALSE
  BY DEF Good
<1>1. p \in (at + 1)..(at + n)
  BY PutChanges
<1>2. p - 1 \in at..(at + n - 1) /\ p - 1 \in 0..(len - 1)
  BY <1>1 DEF Place, Finished
<1>3. StageDone(4, p - 1)
  BY <1>2 DEF Finished
<1>4. EFF_APOS(p - 1) \in eff_map
  BY <1>3 DEF StageDone, BytesDone
<1> QED
  BY <1>2, <1>4 DEF Effective

LEMMA GoodWord ==
  ASSUME Finished, NEW n, NEW at, Place(at, n), NEW words, WordsDone(n, at, words),
         NEW w \in words, w \in Words(n)
  PROVE  Good(Put(entry.buf, at, w))
<1>1. CASE Effective(at, n)
  BY <1>1 DEF WordsDone, Place, Good
<1>2. CASE ~Effective(at, n)
  BY <1>2, GoodUnlessEffective
<1> QED
  BY <1>1, <1>2

LEMMA GoodToken ==
  ASSUME Finished, NEW at, NEW t \in extras \cup front, t \in Seq(Byte), Place(at, Len(t))
  PROVE  Good(Put(entry.buf, at, t))
<1>1. CASE ~Effective(at, Len(t))
  <2>1. t \in Words(Len(t))
    BY DEF Words
  <2> QED
    BY <1>1, <2>1, GoodUnlessEffective
<1>2. CASE Effective(at, Len(t))
  <2>1. at \in 0..(len - 1)
    BY <1>2 DEF Place, Finished, Effective
  <2>2. TokensDone(extras, at) /\ TokensDone(front, at)
    <3>1. StageDone(13, at) /\ StageDone(15, at)
      BY <2>1 DEF Finished
    <3> QED
      BY <3>1 DEF StageDone, Finished
  <2>3. Put(entry.buf, at, t) \in tried \cup {entry.buf}
    BY <1>2, <2>2 DEF TokensDone, Place
  <2>4. Bytes(entry.buf, entry.buf) = {}
    BY DEF Bytes
  <2> QED
    BY <2>3, <2>4 DEF Good
<1> QED
  BY <1>1, <1>2

-----------------------------------------------------------------------------
(* What looks like a flip has been flipped. *)

LEMMA GoodBits ==
  ASSUME Finished, NEW n \in Sizes, NEW at, Place(at, n), NEW w \in Words(n),
         NEW z \in Words(n), \A k \in 1..n : w[k] = XorOf(Old(at, n)[k], z[k]),
         BitsOfByte(n, z)
  PROVE  Good(Put(entry.buf, at, w))
<1> DEFINE b == entry.buf
<1>1. PICK m \in {1, 2, 4}, q \in 0..(n - 1), s \in 0..(W - 1) :
        /\ s + m <= W
        /\ \A k \in 1..n : z[k] = IF k = q + 1 THEN Ones(m, s) ELSE 0
  BY DEF BitsOfByte
<1> DEFINE p == at + q
<1>2. /\ p \in 0..(len - 1) /\ p \in Nat /\ b \in Seq(Byte) /\ Len(b) = len /\ len \in Nat
      /\ at \in Nat /\ n \in Nat /\ at + n <= len /\ q \in Nat
  BY DEF Place, Finished, Sizes
<1>3. \A k \in 1..n : w[k] = IF k = q + 1 THEN XorOf(b[p + 1], Ones(m, s)) ELSE b[at + k]
  <2>1. \A k \in 1..n : Old(at, n)[k] = b[at + k]
    BY <1>2, OldType
  <2>2. \A k \in 1..n : b[at + k] \in Byte
    BY <1>2
  <2>3. \A k \in 1..n : XorOf(b[at + k], 0) = b[at + k]
    BY <2>2, XorAssumption
  <2> TAKE k \in 1..n
  <2>4. CASE k = q + 1
    <3>1. at + k = p + 1
      BY <1>2, <2>4
    <3> QED
      BY <1>1, <2>1, <2>4, <3>1
  <2>5. CASE k # q + 1
    BY <1>1, <2>1, <2>3, <2>5
  <2> QED
    BY <2>4, <2>5
<1>4. Put(b, at, w) = Toggled(b, p, Ones(m, s))
  <2> DEFINE D == 1..len
             e == [b EXCEPT ![p + 1] = XorOf(b[p + 1], Ones(m, s))]
  <2>1. /\ Put(b, at, w) \in [D -> Byte]
        /\ \A r \in D : Put(b, at, w)[r] = IF r \in (at + 1)..(at + n) THEN w[r - at] ELSE b[r]
    <3> HIDE DEF e, p
    <3> QED
      BY PutBuf
  <2>2. e = [r \in D |-> IF r = p + 1 THEN XorOf(b[p + 1], Ones(m, s)) ELSE b[r]]
    BY <1>2
  <2>3. Put(b, at, w) = [r \in D |-> Put(b, at, w)[r]]
    <3> HIDE DEF D
    <3> QED
      BY <2>1
  <2>4. ASSUME NEW r \in D
        PROVE  Put(b, at, w)[r] = IF r = p + 1 THEN XorOf(b[p + 1], Ones(m, s)) ELSE b[r]
    <3>1. CASE r \in (at + 1)..(at + n)
      <4>1. r - at \in 1..n /\ at + (r - at) = r /\ (r - at = q + 1 <=> r = p + 1)
        BY <1>2, <3>1
      <4>2. w[r - at] = IF r - at = q + 1 THEN XorOf(b[p + 1], Ones(m, s)) ELSE b[at + (r - at)]
        BY <1>3, <4>1
      <4> HIDE DEF p
      <4> QED
        BY <2>1, <3>1, <4>1, <4>2
    <3>2. CASE r \notin (at + 1)..(at + n)
      <4>1. r # p + 1
        BY <1>2, <3>2
      <4> QED
        BY <2>1, <3>2, <4>1
    <3> QED
      BY <3>1, <3>2
  <2>5. e = Toggled(b, p, Ones(m, s))
    BY DEF Toggled
  <2> HIDE DEF D, p, e
  <2> QED
    BY <2>2, <2>3, <2>4, <2>5
<1>5. Put(b, at, w) = Flipped(b, W * p + (W - s - m), m)
  <2>1. p \in 0..(Len(b) - 1) /\ m \in Nat /\ s \in Nat
    BY <1>2
  <2>0. s + m <= W /\ b \in Seq(Byte)
    BY <1>1, <1>2
  <2> HIDE DEF p, b
  <2> DEFINE bit == W * p + (W - s - m)
  <2>2. bit = W * p + (W - s - m)
    OBVIOUS
  <2> HIDE DEF bit
  <2>3. Flipped(b, bit, m) = Toggled(b, p, Ones(m, s))
    BY <2>0, <2>1, <2>2, FlippedBits, ZenonT(30)
  <2> QED
    BY <1>4, <2>3 DEF bit
<1>6. FlipsDone(m, p)
  <2>1. StageDone(1, p) /\ StageDone(2, p) /\ StageDone(3, p)
    BY <1>2 DEF Finished
  <2> HIDE DEF p
  <2> QED
    BY <2>1 DEF StageDone
<1>7. /\ W * p + (W - s - m) \in (W * p)..(W * p + W - 1)
      /\ W * p + (W - s - m) + m <= W * len
  <2>1. W \in Nat /\ W * p \in Nat /\ W * (p + 1) = W * p + W /\ W * (p + 1) <= W * len
        /\ W * len \in Nat
    BY <1>2, WIs
  <2> HIDE DEF p
  <2> QED
    BY <1>1, <2>1
<1> HIDE DEF p
<1> QED
  BY <1>5, <1>6, <1>7 DEF FlipsDone, Good

LEMMA PutInner ==
  ASSUME Finished, NEW n, NEW at, Place(at, n), NEW w \in Words(n),
         NEW k \in Nat, NEW m \in Nat, k + m <= n, NEW c \in Words(m),
         Keeps(w, n, k, m, c, entry.buf, at)
  PROVE  Put(entry.buf, at, w) = Put(entry.buf, at + k, c) /\ Place(at + k, m)
<1>1. entry.buf \in Seq(Byte) /\ at \in Nat /\ n \in Nat /\ at + n <= Len(entry.buf)
  BY DEF Finished, Place
<1>2. Put(entry.buf, at, w) = Put(entry.buf, at + k, c)
  BY <1>1, PutSame
<1>3. Place(at + k, m)
  <2>1. at + n <= len /\ len \in Nat
    BY DEF Place, Finished
  <2> QED
    BY <1>1, <2>1 DEF Place
<1> QED
  BY <1>2, <1>3

\* Complemented words are words put in.
LEMMA ComplementIs ==
  ASSUME Finished, NEW j \in Sizes, NEW p, Place(p, j), NEW c \in Words(j),
         \A k \in 1..j : c[k] = XorOf(Old(p, j)[k], Base - 1)
  PROVE  /\ c = Complement(Old(p, j), 0, j)
         /\ Put(entry.buf, p, c) = Complement(entry.buf, p, j)
<1>1. /\ Old(p, j) \in Words(j) /\ \A k \in 1..j : Old(p, j)[k] = entry.buf[p + k]
      /\ p \in Nat /\ j \in Nat
  BY OldType DEF Place
<1>2. c = Complement(Old(p, j), 0, j)
  <2> DEFINE o == Old(p, j)
  <2>1. Complement(o, 0, j)
          = [k \in 1..j |-> IF k \in (0 + 1)..(0 + j) THEN XorOf(o[k], 2 ^ W - 1) ELSE o[k]]
    BY <1>1 DEF Complement, Words
  <2>2. \A k \in 1..j : k \in (0 + 1)..(0 + j)
    BY <1>1
  <2>3. Complement(o, 0, j) = [k \in 1..j |-> XorOf(o[k], 2 ^ W - 1)]
    BY <2>1, <2>2
  <2>4. c = [k \in 1..j |-> c[k]]
    BY DEF Words
  <2> QED
    BY <2>3, <2>4 DEF Base
<1>3. Put(entry.buf, p, c) = Complement(entry.buf, p, j)
  <2> DEFINE D == 1..len
             f == Put(entry.buf, p, c)
  <2>1. /\ f \in [D -> Byte]
        /\ \A q \in D : f[q] = IF q \in (p + 1)..(p + j) THEN c[q - p] ELSE entry.buf[q]
    BY PutBuf
  <2>2. DOMAIN entry.buf = D
    BY DEF Finished
  <2>3. \A q \in D : f[q] = IF q \in (p + 1)..(p + j) THEN XorOf(entry.buf[q], Base - 1)
                            ELSE entry.buf[q]
    <3> TAKE q \in D
    <3>1. CASE q \in (p + 1)..(p + j)
      <4>1. q - p \in 1..j /\ p + (q - p) = q
        BY <1>1, <3>1
      <4>2. c[q - p] = XorOf(entry.buf[p + (q - p)], Base - 1)
        BY <1>1, <4>1
      <4> HIDE DEF f, D
      <4> QED
        BY <2>1, <3>1, <4>1, <4>2
    <3>2. CASE q \notin (p + 1)..(p + j)
      BY <2>1, <3>2
    <3> QED
      BY <3>1, <3>2
  <2> HIDE DEF D, f
  <2>4. f = [q \in D |-> f[q]]
    BY <2>1
  <2>5. Complement(entry.buf, p, j)
          = [q \in D |-> IF q \in (p + 1)..(p + j) THEN XorOf(entry.buf[q], Base - 1)
                         ELSE entry.buf[q]]
    BY <2>2 DEF Complement, Base
  <2>6. f = Complement(entry.buf, p, j)
    BY <2>3, <2>4, <2>5
  <2> QED
    BY <2>6 DEF f
<1> QED
  BY <1>2, <1>3

\* A run of bytes has been flipped as a whole.
LEMMA GoodBytes ==
  ASSUME Finished, NEW n \in Sizes, NEW at, Place(at, n), NEW w \in Words(n),
         NEW z \in Words(n), \A k \in 1..n : w[k] = XorOf(Old(at, n)[k], z[k]),
         RunOfBytes(n, z)
  PROVE  Good(Put(entry.buf, at, w))
<1>1. PICK j \in Sizes, q \in 0..(n - 1) :
        /\ q + j <= n
        /\ \A k \in 1..n : z[k] = IF k \in (q + 1)..(q + j) THEN Base - 1 ELSE 0
  BY DEF RunOfBytes
<1> DEFINE p == at + q
           c == [k \in 1..j |-> XorOf(Old(p, j)[k], Base - 1)]
<1>2. /\ Place(p, j) /\ p \in 0..(len - 1) /\ at \in Nat /\ n \in Nat /\ q \in Nat /\ j \in Nat
      /\ at + n <= len /\ p + j <= len
  BY <1>1 DEF Place, Sizes, Finished
<1>3. /\ Old(at, n) \in Words(n) /\ \A k \in 1..n : Old(at, n)[k] = entry.buf[at + k]
      /\ Old(p, j) \in Words(j) /\ \A k \in 1..j : Old(p, j)[k] = entry.buf[p + k]
  BY <1>2, OldType
<1>4. c \in Words(j) /\ \A k \in 1..j : c[k] = XorOf(Old(p, j)[k], Base - 1)
  <2>1. \A k \in 1..j : Old(p, j)[k] \in Byte
    BY <1>3 DEF Words
  <2> QED
    BY <2>1, ZeroByte, XorAssumption DEF Words
<1> HIDE DEF c
<1>5. Keeps(w, n, q, j, c, entry.buf, at)
  <2> SUFFICES \A k \in 1..n :
                 w[k] = IF k \in (q + 1)..(q + j) THEN c[k - q] ELSE entry.buf[at + k]
    BY DEF Keeps
  <2> TAKE k \in 1..n
  <2>1. CASE k \in (q + 1)..(q + j)
    <3>1. k - q \in 1..j /\ p + (k - q) = at + k
      BY <1>2, <2>1
    <3>2. c[k - q] = XorOf(Old(at, n)[k], Base - 1)
      BY <1>3, <1>4, <3>1
    <3> QED
      BY <1>1, <2>1, <3>2
  <2>2. CASE k \notin (q + 1)..(q + j)
    <3>1. XorOf(Old(at, n)[k], 0) = Old(at, n)[k]
      BY <1>3, XorAssumption DEF Words
    <3> QED
      BY <1>1, <1>3, <2>2, <3>1
  <2> QED
    BY <2>1, <2>2
<1>6. Put(entry.buf, at, w) = Put(entry.buf, p, c)
  BY <1>1, <1>2, <1>4, <1>5, PutInner
<1>7. c = Complement(Old(p, j), 0, j) /\ Put(entry.buf, p, c) = Complement(entry.buf, p, j)
  <2> HIDE DEF p
  <2> QED
    BY <1>2, <1>4, ComplementIs
<1>8. StageDone(4, p) /\ StageDone(5, p) /\ StageDone(6, p)
  BY <1>2 DEF Finished
<1> HIDE DEF p
<1>9. CASE j = 1
  BY <1>6, <1>7, <1>8, <1>9 DEF StageDone, BytesDone, Good
<1>10. CASE j = 2
  <2>1. WordsDone(2, p, {Complement(Old(p, 2), 0, 2)})
    BY <1>8 DEF StageDone
  <2>2. WordsDone(j, p, {c})
    BY <1>7, <1>10, <2>1
  <2> QED
    BY <1>2, <1>4, <1>6, <2>2, GoodWord
<1>11. CASE j = 4
  <2>1. WordsDone(4, p, {Complement(Old(p, 4), 0, 4)})
    BY <1>8 DEF StageDone
  <2>2. WordsDone(j, p, {c})
    BY <1>7, <1>11, <2>1
  <2> QED
    BY <1>2, <1>4, <1>6, <2>2, GoodWord
<1> QED
  BY <1>9, <1>10, <1>11 DEF Sizes

LEMMA WordPut ==
  ASSUME Finished, NEW n, NEW at, Place(at, n), n # 0, NEW w \in Words(n)
  PROVE  /\ SubSeq(Put(entry.buf, at, w), at + 1, at + n) = w
         /\ Len(Put(entry.buf, at, w)) = len
<1> DEFINE f == Put(entry.buf, at, w)
<1>1. /\ f \in [1..len -> Byte]
      /\ \A q \in 1..len : f[q] = IF q \in (at + 1)..(at + n) THEN w[q - at] ELSE entry.buf[q]
  BY PutBuf
<1>2. at \in Nat /\ n \in Nat /\ at + n <= len /\ len \in Nat
  BY DEF Place, Finished
<1> HIDE DEF f
<1>3. f \in Seq(Byte) /\ Len(f) = len
  BY <1>1, <1>2
<1>4. at + 1 \in 1..len /\ at + n \in 1..len /\ (at + n) - (at + 1) + 1 = n
  BY <1>2
<1> DEFINE s == SubSeq(f, at + 1, at + n)
<1>5. s \in Seq(Byte) /\ Len(s) = n
  <2>1. SubSeq(f, at + 1, at + n) \in Seq(Byte) /\ Len(SubSeq(f, at + 1, at + n)) = n
    BY <1>2, <1>3, <1>4
  <2> QED
    BY <2>1
<1>6. \A k \in 1..n : s[k] = w[k]
  <2> TAKE k \in 1..n
  <2>1. s[k] = f[(at + 1) + k - 1]
    BY <1>3, <1>4
  <2>2. (at + 1) + k - 1 = at + k /\ at + k \in 1..len /\ at + k \in (at + 1)..(at + n)
        /\ (at + k) - at = k
    BY <1>2
  <2> HIDE DEF s
  <2> QED
    BY <1>1, <2>1, <2>2
<1> HIDE DEF s
<1>7. s = [k \in 1..n |-> s[k]] /\ w = [k \in 1..n |-> w[k]]
  BY <1>5 DEF Words
<1> QED
  BY <1>3, <1>6, <1>7 DEF s, f

\* A flip across the border of two bytes, which FLIP_BIT does not make.
LEMMA GoodBorder ==
  ASSUME Finished, NEW n \in Sizes, NEW at, Place(at, n), NEW w \in Words(n),
         NEW z \in Words(n), WordXor(w, Old(at, n)) = z,
         OverBorder(n, z)
  PROVE  Good(Put(entry.buf, at, w))
<1>1. PICK m \in {2, 4}, sh \in 0..(W * n - 1) :
        /\ sh \div W # (sh + m - 1) \div W
        /\ Value(z) = Ones(m, sh)
  BY DEF OverBorder
<1>0. /\ W \in Nat \ {0} /\ n \in Nat /\ n # 0 /\ W * n \in Nat /\ W * n <= 4 * W
      /\ at \in Nat /\ at + n <= len /\ len \in Nat
  BY WIs DEF Sizes, Place, Finished
<1>2. sh + m <= W * n
  <2>1. m \in 1..(4 * W) /\ sh \in Bits
    BY <1>0 DEF Bits
  <2> QED
    BY <1>1, <2>1, OnesFits, ValueType
<1>3. n \in {2, 4}
  <2> SUFFICES ASSUME n = 1
               PROVE  FALSE
    BY DEF Sizes
  <2>1. sh \in 0..(W - 1) /\ sh + m - 1 \in 0..(W - 1) /\ W * 0 = 0 /\ 0 \in Int
    BY <1>0, <1>2
  <2>2. (sh + W * 0) \div W = 0 /\ ((sh + m - 1) + W * 0) \div W = 0
    BY <1>0, <2>1, DivUnique, Zenon
  <2>3. sh + W * 0 = sh /\ (sh + m - 1) + W * 0 = sh + m - 1
    BY <2>1
  <2>4. sh \div W = 0 /\ (sh + m - 1) \div W = 0
    BY <2>2, <2>3, Zenon
  <2> QED
    BY <1>1, <2>4, Zenon
<1>4. sh \in 0..(W * len - 1)
  <2>1. W * n <= W * len
    <3>1. n <= len
      BY <1>0
    <3> QED
      BY <1>0, <3>1
  <2>2. W * len \in Nat
    BY <1>0
  <2> QED
    BY <1>0, <2>1, <2>2
<1> DEFINE f == Put(entry.buf, at, w)
<1>5. SubSeq(f, at + 1, at + n) = w /\ Len(f) = len
  BY <1>0, WordPut
<1>6. Old(at, n) = SubSeq(entry.buf, at + 1, at + n)
  BY DEF Old
<1>7. Value(WordXor(SubSeq(f, at + 1, at + n), SubSeq(entry.buf, at + 1, at + n))) = Ones(m, sh)
  BY <1>1, <1>5, <1>6, Zenon
<1>8. at \in 0..(Len(f) - 1) /\ at + n <= Len(f) /\ sh \in 0..(W * Len(f) - 1)
  BY <1>0, <1>4, <1>5
<1> HIDE DEF f
<1>9. AcrossBytes(f, entry.buf)
  BY <1>1, <1>3, <1>7, <1>8, Zenon DEF AcrossBytes
<1> QED
  BY <1>9 DEF Good, f

\* What could be a flip has been run, or is the flip across a border.
LEMMA GoodFlip ==
  ASSUME Finished, NEW n \in Sizes, NEW at, Place(at, n), NEW w \in Words(n),
         ~Distinct(Old(at, n), w)
  PROVE  Good(Put(entry.buf, at, w))
<1>0. Old(at, n) \in Words(n)
  BY OldType DEF Place
<1>1. PICK z \in Words(n) :
        /\ WordXor(Old(at, n), w) = z
        /\ WordXor(w, Old(at, n)) = z
        /\ \A k \in 1..n : w[k] = XorOf(Old(at, n)[k], z[k])
  BY <1>0, XorWords
<1>2. could_be_bitflip(Value(z))
  BY <1>1 DEF Distinct
<1>3. AllZero(n, z) \/ BitsOfByte(n, z) \/ RunOfBytes(n, z) \/ OverBorder(n, z)
  BY <1>2, Pattern
<1>4. CASE AllZero(n, z)
  <2>1. \A k \in 1..n : w[k] = Old(at, n)[k]
    <3> TAKE k \in 1..n
    <3>1. z[k] = 0 /\ Old(at, n)[k] \in Byte
      BY <1>0, <1>4 DEF AllZero, Words
    <3> QED
      BY <1>1, <3>1, XorAssumption
  <2>2. w = Old(at, n)
    BY <1>0, <2>1, SameWord
  <2> QED
    BY <2>2, GoodUnchanged
<1>5. CASE BitsOfByte(n, z)
  BY <1>1, <1>5, GoodBits
<1>6. CASE RunOfBytes(n, z)
  BY <1>1, <1>6, GoodBytes
<1>7. CASE OverBorder(n, z)
  BY <1>1, <1>7, GoodBorder
<1> QED
  BY <1>3, <1>4, <1>5, <1>6, <1>7

-----------------------------------------------------------------------------
(* Sums. *)

SwappedSum(w, d) == Swap(Sum(Swap(w), d))

SumsGood(n) ==
  \A at, d : Place(at, n) /\ d \in Deltas =>
    /\ Good(Put(entry.buf, at, Sum(Old(at, n), d)))
    /\ Good(Put(entry.buf, at, SwappedSum(Old(at, n), d)))

LEMMA SumsType ==
  ASSUME NEW n \in Sizes, NEW w \in Words(n), NEW d \in Deltas
  PROVE  Sum(w, d) \in Words(n) /\ Swap(w) \in Words(n) /\ SwappedSum(w, d) \in Words(n)
<1>1. d \in Int /\ n \in Nat
  BY NumberAssumption DEF Deltas, Sizes
<1>2. Sum(w, d) \in Words(n)
  BY <1>1, SumType
<1>3. Swap(w) \in Words(n)
  BY <1>1, Swapped
<1>4. Sum(Swap(w), d) \in Words(n)
  BY <1>1, <1>3, SumType
<1>5. Swap(Sum(Swap(w), d)) \in Words(n)
  BY <1>1, <1>4, Swapped
<1> QED
  BY <1>2, <1>3, <1>5 DEF SwappedSum

LEMMA ArithDone ==
  ASSUME Finished, NEW n \in Sizes, NEW at, Place(at, n)
  PROVE  WordsDone(n, at, Arith(Old(at, n)))
<1>1. at \in 0..(len - 1)
  BY DEF Place, Sizes, Finished
<1>2. StageDone(7, at) /\ StageDone(8, at) /\ StageDone(9, at) /\ ~entry.no_arith
  BY <1>1 DEF Finished
<1>3. CASE n = 1
  BY <1>2, <1>3 DEF StageDone
<1>4. CASE n = 2
  BY <1>2, <1>4 DEF StageDone
<1>5. CASE n = 4
  BY <1>2, <1>5 DEF StageDone
<1> QED
  BY <1>3, <1>4, <1>5 DEF Sizes

\* A sum the stage for this size makes, or leaves out as a flip.
LEMMA CarrySums ==
  ASSUME Finished, NEW n \in Sizes, NEW at, Place(at, n), NEW d \in Deltas
  PROVE  /\ Carries(Old(at, n), d) => Good(Put(entry.buf, at, Sum(Old(at, n), d)))
         /\ Carries(Swap(Old(at, n)), d) =>
              Good(Put(entry.buf, at, SwappedSum(Old(at, n), d)))
<1> DEFINE o == Old(at, n)
<1>1. o \in Words(n)
  BY OldType DEF Place
<1>2. WordsDone(n, at, Arith(o))
  BY ArithDone
<1>3. Sum(o, d) \in Words(n) /\ SwappedSum(o, d) \in Words(n)
  BY <1>1, SumsType
<1>4. \A w \in Words(n) : ~Distinct(o, w) => Good(Put(entry.buf, at, w))
  BY GoodFlip
<1>5. \A w \in Words(n) : w \in Arith(o) => Good(Put(entry.buf, at, w))
  BY <1>2, GoodWord
<1> HIDE DEF o
<1>6. Carries(o, d) /\ Distinct(o, Sum(o, d)) => Sum(o, d) \in Arith(o)
  BY DEF Arith
<1>7. Carries(Swap(o), d) /\ Distinct(o, SwappedSum(o, d)) => SwappedSum(o, d) \in Arith(o)
  BY DEF Arith, SwappedSum
<1>8. Carries(o, d) => Good(Put(entry.buf, at, Sum(o, d)))
  BY <1>3, <1>4, <1>5, <1>6
<1>9. Carries(Swap(o), d) => Good(Put(entry.buf, at, SwappedSum(o, d)))
  BY <1>3, <1>4, <1>5, <1>7
<1> QED
  BY <1>8, <1>9 DEF o

LEMMA SumsOfByte ==
  ASSUME Finished
  PROVE  SumsGood(1)
<1> SUFFICES ASSUME NEW at, NEW d, Place(at, 1), d \in Deltas
             PROVE  /\ Good(Put(entry.buf, at, Sum(Old(at, 1), d)))
                    /\ Good(Put(entry.buf, at, SwappedSum(Old(at, 1), d)))
  BY DEF SumsGood
<1>1. Old(at, 1) \in Words(1) /\ 1 \in Sizes /\ 1 \in Nat
  BY OldType DEF Place, Sizes
<1>2. Swap(Old(at, 1)) \in Words(1)
  BY <1>1, Swapped
<1>3. ASSUME NEW w \in Words(1)
      PROVE  Carries(w, d)
  <2>1. Len(w) = 1 /\ Value(w) \in Int /\ d \in Int /\ d # 0
    <3>1. Len(w) = 1
      BY DEF Words
    <3>2. Value(w) \in Int
      BY <1>1, ValueType, SizeOfWord
    <3>3. d \in Int /\ d # 0
      BY NumberAssumption DEF Deltas
    <3> QED
      BY <3>1, <3>2, <3>3
  <2>2. Value(w) % 1 = 0
    BY <2>1
  <2>3. IF d > 0 THEN (Value(w) % 1) + d >= 1 ELSE Value(w) % 1 < -d
    BY <2>1, <2>2
  <2> QED
    BY <2>1, <2>3 DEF Carries
<1> QED
  BY <1>1, <1>2, <1>3, CarrySums

LEMMA OldHalves ==
  ASSUME Finished, NEW h \in {1, 2}, NEW at, Place(at, 2 * h)
  PROVE  /\ 2 * h \in Sizes /\ h \in Sizes /\ h \in Nat /\ at \in Nat
         /\ Place(at, h) /\ Place(at + h, h)
         /\ Old(at, 2 * h) \in Words(2 * h)
         /\ Old(at, h) \in Words(h) /\ Old(at + h, h) \in Words(h)
         /\ \A k \in 1..(2 * h) : Old(at, 2 * h)[k] = entry.buf[at + k]
         /\ \A k \in 1..h : /\ Old(at, h)[k] = Old(at, 2 * h)[k]
                            /\ Old(at + h, h)[k] = Old(at, 2 * h)[h + k]
<1>1. /\ 2 * h \in Sizes /\ h \in Sizes /\ h \in Nat /\ at \in Nat
      /\ Place(at, h) /\ Place(at + h, h) /\ 2 * h \in Nat /\ at + h \in Nat
  BY DEF Sizes, Place, Finished
<1>2. /\ Old(at, 2 * h) \in Words(2 * h)
      /\ \A k \in 1..(2 * h) : Old(at, 2 * h)[k] = entry.buf[at + k]
  BY <1>1, OldType DEF Place
<1>3. Old(at, h) \in Words(h) /\ \A k \in 1..h : Old(at, h)[k] = entry.buf[at + k]
  BY <1>1, OldType DEF Place
<1>4. /\ Old(at + h, h) \in Words(h)
      /\ \A k \in 1..h : Old(at + h, h)[k] = entry.buf[(at + h) + k]
  BY <1>1, OldType DEF Place
<1>5. \A k \in 1..h : /\ k \in 1..(2 * h) /\ h + k \in 1..(2 * h)
                      /\ at + (h + k) = (at + h) + k
  BY <1>1
<1> QED
  BY <1>1, <1>2, <1>3, <1>4, <1>5

\* Without a carry the sum is one of the lower half.
LEMMA HalfSum ==
  ASSUME Finished, NEW h \in {1, 2}, NEW at, Place(at, 2 * h), NEW d \in Deltas,
         ~Carries(Old(at, 2 * h), d)
  PROVE  Put(entry.buf, at, Sum(Old(at, 2 * h), d)) = Put(entry.buf, at, Sum(Old(at, h), d))
<1> DEFINE o == Old(at, 2 * h)
           lo == Old(at, h)
           hi == Old(at + h, h)
           n == 2 * h
<1>1. /\ n \in Sizes /\ h \in Sizes /\ h \in Nat /\ at \in Nat
      /\ o \in Words(n) /\ lo \in Words(h) /\ hi \in Words(h)
      /\ \A k \in 1..n : o[k] = entry.buf[at + k]
      /\ \A k \in 1..h : lo[k] = o[k] /\ hi[k] = o[h + k]
  BY OldHalves
<1>2. Place(at, n) /\ ~Carries(o, d)
  OBVIOUS
<1> HIDE DEF o, lo, hi
<1>3. \A k \in 1..h : Sum(o, d)[k] = Sum(lo, d)[k] /\ Sum(o, d)[h + k] = o[h + k]
  BY <1>1, <1>2, LowerHalf
<1>4. Sum(o, d) \in Words(n) /\ Sum(lo, d) \in Words(h)
  BY <1>1, SumsType
<1>5. Keeps(Sum(o, d), n, 0, h, Sum(lo, d), entry.buf, at)
  <2> SUFFICES ASSUME NEW j \in 1..n
               PROVE  Sum(o, d)[j] = IF j \in (0 + 1)..(0 + h) THEN Sum(lo, d)[j - 0]
                                     ELSE entry.buf[at + j]
    BY DEF Keeps
  <2>1. CASE j \in 1..h
    BY <1>3, <2>1
  <2>2. CASE j \notin 1..h
    <3>1. j - h \in 1..h /\ h + (j - h) = j
      <4>1. j \in Int /\ j <= h + h
        BY <1>1
      <4> QED
        BY <2>2, <4>1
    <3>2. Sum(o, d)[j] = o[j]
      BY <1>3, <3>1
    <3> QED
      BY <1>1, <2>2, <3>2
  <2> QED
    BY <2>1, <2>2
<1>6. 0 \in Nat /\ 0 + h <= n /\ at + 0 = at
  BY <1>1
<1>7. Put(entry.buf, at, Sum(o, d)) = Put(entry.buf, at + 0, Sum(lo, d))
  <2> HIDE DEF n
  <2> QED
    BY <1>1, <1>2, <1>4, <1>5, <1>6, PutInner
<1> QED
  BY <1>6, <1>7 DEF o, lo

LEMMA HalfSwappedSum ==
  ASSUME Finished, NEW h \in {1, 2}, NEW at, Place(at, 2 * h), NEW d \in Deltas,
         ~Carries(Swap(Old(at, 2 * h)), d)
  PROVE  Put(entry.buf, at, SwappedSum(Old(at, 2 * h), d))
           = Put(entry.buf, at + h, SwappedSum(Old(at + h, h), d))
<1> DEFINE n == 2 * h
           o == Old(at, n)
           lo == Old(at, h)
           hi == Old(at + h, h)
<1>1. /\ n \in Sizes /\ h \in Sizes /\ h \in Nat /\ at \in Nat /\ n \in Nat
      /\ o \in Words(n) /\ lo \in Words(h) /\ hi \in Words(h)
      /\ \A k \in 1..n : o[k] = entry.buf[at + k]
      /\ \A k \in 1..h : lo[k] = o[k] /\ hi[k] = o[h + k]
  BY OldHalves
<1>2. Place(at, n) /\ ~Carries(Swap(o), d)
  OBVIOUS
<1> HIDE DEF o, lo, hi
<1> DEFINE u == Swap(o)
           s == Sum(u, d)
           t == Sum(Swap(hi), d)
<1>3. /\ u \in Words(n) /\ \A k \in 1..n : u[k] = o[n + 1 - k]
      /\ Swap(lo) \in Words(h) /\ \A k \in 1..h : Swap(lo)[k] = lo[h + 1 - k]
      /\ Swap(hi) \in Words(h) /\ \A k \in 1..h : Swap(hi)[k] = hi[h + 1 - k]
  BY <1>1, Swapped
<1>4. \A k \in 1..h : Swap(hi)[k] = u[k] /\ Swap(lo)[k] = u[h + k]
  <2> TAKE k \in 1..h
  <2>1. /\ h + 1 - k \in 1..h /\ h + (h + 1 - k) = n + 1 - k /\ h + k \in 1..n /\ k \in 1..n
        /\ n + 1 - (h + k) = h + 1 - k
    BY <1>1
  <2> HIDE DEF n, u
  <2> QED
    BY <1>1, <1>3, <2>1
<1>5. u \in Words(2 * h) /\ ~Carries(u, d)
  BY <1>2, <1>3
<1> HIDE DEF u
<1>6. \A k \in 1..h : s[k] = t[k] /\ s[h + k] = u[h + k]
  BY <1>3, <1>4, <1>5, LowerHalf
<1>7. s \in Words(n) /\ t \in Words(h)
  BY <1>1, <1>3, SumsType
<1> HIDE DEF s, t
<1>8. /\ Swap(s) \in Words(n) /\ \A k \in 1..n : Swap(s)[k] = s[n + 1 - k]
      /\ Swap(t) \in Words(h) /\ \A k \in 1..h : Swap(t)[k] = t[h + 1 - k]
  BY <1>1, <1>7, Swapped
<1>9. Keeps(Swap(s), n, h, h, Swap(t), entry.buf, at)
  <2> SUFFICES ASSUME NEW j \in 1..n
               PROVE  Swap(s)[j] = IF j \in (h + 1)..(h + h) THEN Swap(t)[j - h]
                                   ELSE entry.buf[at + j]
    BY DEF Keeps
  <2>1. CASE j \in (h + 1)..(h + h)
    <3>1. n + 1 - j \in 1..h /\ j - h \in 1..h /\ h + 1 - (j - h) = n + 1 - j
      BY <1>1, <2>1
    <3> HIDE DEF n
    <3> QED
      BY <1>6, <1>8, <2>1, <3>1
  <2>2. CASE j \notin (h + 1)..(h + h)
    <3>1. h + 1 - j \in 1..h /\ h + (h + 1 - j) = n + 1 - j /\ n + 1 - j \in 1..n
          /\ n + 1 - (n + 1 - j) = j
      BY <1>1, <2>2
    <3>2. s[n + 1 - j] = u[n + 1 - j]
      <4> HIDE DEF n
      <4> QED
        BY <1>6, <3>1
    <3>3. u[n + 1 - j] = o[j]
      <4> HIDE DEF n
      <4> QED
        BY <1>3, <3>1
    <3> HIDE DEF n
    <3> QED
      BY <1>1, <1>8, <2>2, <3>2, <3>3
  <2> QED
    BY <2>1, <2>2
<1>10. h + h <= n
  BY <1>1
<1>11. Put(entry.buf, at, Swap(s)) = Put(entry.buf, at + h, Swap(t))
  <2> HIDE DEF n
  <2> QED
    BY <1>1, <1>2, <1>8, <1>9, <1>10, PutInner
<1> QED
  BY <1>11 DEF o, hi, s, t, u, SwappedSum

LEMMA SumsOfHalves ==
  ASSUME Finished, NEW h \in {1, 2}, SumsGood(h)
  PROVE  SumsGood(2 * h)
<1> DEFINE n == 2 * h
<1> SUFFICES ASSUME NEW at, NEW d, Place(at, n), d \in Deltas
             PROVE  /\ Good(Put(entry.buf, at, Sum(Old(at, n), d)))
                    /\ Good(Put(entry.buf, at, SwappedSum(Old(at, n), d)))
  BY DEF SumsGood
<1>1. n \in Sizes /\ Place(at, h) /\ Place(at + h, h)
  BY OldHalves
<1>2. Good(Put(entry.buf, at, Sum(Old(at, n), d)))
  <2>1. CASE Carries(Old(at, n), d)
    BY <1>1, <2>1, CarrySums
  <2>2. CASE ~Carries(Old(at, n), d)
    <3>1. Put(entry.buf, at, Sum(Old(at, n), d)) = Put(entry.buf, at, Sum(Old(at, h), d))
      BY <2>2, HalfSum
    <3>2. Good(Put(entry.buf, at, Sum(Old(at, h), d)))
      BY <1>1 DEF SumsGood
    <3> QED
      BY <3>1, <3>2
  <2> QED
    BY <2>1, <2>2
<1>3. Good(Put(entry.buf, at, SwappedSum(Old(at, n), d)))
  <2>1. CASE Carries(Swap(Old(at, n)), d)
    BY <1>1, <2>1, CarrySums
  <2>2. CASE ~Carries(Swap(Old(at, n)), d)
    <3>1. Put(entry.buf, at, SwappedSum(Old(at, n), d))
            = Put(entry.buf, at + h, SwappedSum(Old(at + h, h), d))
      BY <2>2, HalfSwappedSum
    <3>2. Good(Put(entry.buf, at + h, SwappedSum(Old(at + h, h), d)))
      BY <1>1 DEF SumsGood
    <3> QED
      BY <3>1, <3>2
  <2> QED
    BY <2>1, <2>2
<1> QED
  BY <1>2, <1>3

LEMMA AllSumsGood ==
  ASSUME Finished, NEW n \in Sizes
  PROVE  SumsGood(n)
<1>1. SumsGood(1)
  BY SumsOfByte
<1>2. SumsGood(2)
  <2>1. SumsGood(2 * 1)
    BY <1>1, SumsOfHalves
  <2>2. 2 * 1 = 2
    OBVIOUS
  <2> QED
    BY <2>1, <2>2
<1>3. SumsGood(4)
  <2>1. SumsGood(2 * 2)
    BY <1>2, SumsOfHalves
  <2>2. 2 * 2 = 4
    OBVIOUS
  <2> QED
    BY <2>1, <2>2
<1> QED
  BY <1>1, <1>2, <1>3 DEF Sizes

\* What could be a sum is one, of some part of the word.
LEMMA GoodNear ==
  ASSUME Finished, NEW m \in Sizes, NEW p, Place(p, m), NEW c \in Words(m),
         NearAnyEnd(Old(p, m), c)
  PROVE  Good(Put(entry.buf, p, c))
<1> DEFINE o == Old(p, m)
<1>1. o \in Words(m) /\ m \in Nat
  BY OldType DEF Place
<1>2. SumsGood(m)
  BY AllSumsGood
<1>3. Swap(o) \in Words(m) /\ Swap(c) \in Words(m) /\ Swap(Swap(o)) = o /\ Swap(Swap(c)) = c
  BY <1>1, Swapped
<1>4. c = o \/ \E d \in Deltas : c = Sum(o, d) \/ c = SwappedSum(o, d)
  <2> HIDE DEF o
  <2>1. CASE Near(o, c)
    BY <1>1, <2>1, NearIsSum
  <2>2. CASE Near(Swap(o), Swap(c))
    <3>1. Swap(o) = Swap(c) \/ \E d \in Deltas : Swap(c) = Sum(Swap(o), d)
      BY <1>3, <2>2, NearIsSum
    <3> QED
      BY <1>3, <3>1, Zenon DEF SwappedSum
  <2>3. NearAnyEnd(o, c)
    BY DEF o
  <2> QED
    BY <2>1, <2>2, <2>3 DEF NearAnyEnd
<1>5. CASE c = o
  BY <1>5, GoodUnchanged
<1>6. CASE \E d \in Deltas : c = Sum(o, d) \/ c = SwappedSum(o, d)
  BY <1>2, <1>6 DEF SumsGood
<1> QED
  BY <1>4, <1>5, <1>6

LEMMA PartIs ==
  ASSUME NEW n \in Nat, NEW x \in Words(n), NEW m \in {1, 2}, NEW k \in Nat, k * m + m <= n
  PROVE  Part(x, k, m) \in Words(m) /\ \A j \in 1..m : Part(x, k, m)[j] = x[k * m + j]
<1> DEFINE a == k * m
           s == SubSeq(x, a + 1, a + m)
<1>1. x \in Seq(Byte) /\ Len(x) = n /\ m \in Nat /\ a \in Nat
  BY DEF Words
<1>2. a + 1 \in 1..n /\ a + m \in 1..n /\ (a + m) - (a + 1) + 1 = m
  BY <1>1
<1> HIDE DEF a
<1>3. s \in Seq(Byte) /\ Len(s) = m
  BY <1>1, <1>2
<1>4. \A j \in 1..m : s[j] = x[a + j]
  <2> TAKE j \in 1..m
  <2>1. s[j] = x[(a + 1) + j - 1]
    BY <1>1, <1>2
  <2>2. (a + 1) + j - 1 = a + j
    BY <1>1
  <2> QED
    BY <2>1, <2>2
<1> HIDE DEF s
<1>5. s \in Words(m)
  BY <1>1, <1>3 DEF Words
<1> QED
  BY <1>4, <1>5 DEF Part, s, a

OnlyPart(u, w, n, k, m) ==
  /\ k \in 0..(n \div m - 1)
  /\ \A q \in 0..(n \div m - 1) : q # k => Part(u, q, m) = Part(w, q, m)

\* Two words that differ in one part only.
LEMMA OnePart ==
  ASSUME Finished, NEW n \in Sizes, NEW m \in {1, 2}, m <= n, NEW at, Place(at, n),
         NEW w \in Words(n), NEW k, OnlyPart(Old(at, n), w, n, k, m)
  PROVE  /\ Place(at + k * m, m) /\ Part(w, k, m) \in Words(m)
         /\ Part(Old(at, n), k, m) = Old(at + k * m, m)
         /\ Put(entry.buf, at, w) = Put(entry.buf, at + k * m, Part(w, k, m))
<1> DEFINE o == Old(at, n)
           a == k * m
<1>0. /\ n \in Nat /\ m \in Nat /\ at \in Nat /\ at + n <= len /\ len \in Nat
      /\ \A q \in 0..(n \div m - 1) : q \in Nat /\ q * m \in Nat /\ q * m + m <= n
      /\ k \in 0..(n \div m - 1)
  BY DEF Sizes, Place, Finished, OnlyPart
<1>1. o \in Words(n) /\ \A j \in 1..n : o[j] = entry.buf[at + j]
  BY <1>0, OldType
<1>2. \A q \in 0..(n \div m - 1) :
        /\ Part(o, q, m) \in Words(m) /\ Part(w, q, m) \in Words(m)
        /\ \A j \in 1..m : Part(o, q, m)[j] = o[q * m + j] /\ Part(w, q, m)[j] = w[q * m + j]
  <2> HIDE DEF o
  <2> TAKE q \in 0..(n \div m - 1)
  <2>1. q \in Nat /\ q * m + m <= n
    BY <1>0
  <2>2. n \in Nat
    BY <1>0
  <2>3. ASSUME NEW x \in Words(n)
        PROVE  /\ Part(x, q, m) \in Words(m)
               /\ \A j \in 1..m : Part(x, q, m)[j] = x[q * m + j]
    BY <2>1, <2>2, PartIs, Zenon
  <2> QED
    BY <1>1, <2>3
<1>3. a \in Nat /\ a + m <= n /\ at + a \in Nat /\ (at + a) + m <= len
  BY <1>0
<1>4. Place(at + a, m)
  BY <1>0, <1>3 DEF Place
<1> HIDE DEF o
<1>5. \A j \in 1..n : j \notin (a + 1)..(a + m) => w[j] = o[j]
  <2> SUFFICES ASSUME NEW j \in 1..n, j \notin (a + 1)..(a + m)
               PROVE  w[j] = o[j]
    OBVIOUS
  <2>1. PICK q \in 0..(n \div m - 1), r \in 1..m : j = q * m + r
    <3>1. CASE m = 1
      <4>1. j - 1 \in 0..(n \div m - 1) /\ 1 \in 1..m /\ j = (j - 1) * m + 1
        BY <1>0, <3>1
      <4> QED
        BY <4>1
    <3>2. CASE m = 2
      <4>1. (n \div m = 1 /\ j \in {1, 2}) \/ (n \div m = 2 /\ j \in {1, 2, 3, 4})
        BY <3>2 DEF Sizes
      <4>2. \E q \in 0..(n \div m - 1), r \in {1, 2} : j = q * 2 + r
        BY <4>1
      <4> QED
        BY <3>2, <4>2
    <3> QED
      BY <3>1, <3>2
  <2>2. q # k
    BY <1>0, <2>1
  <2>3. Part(o, q, m) = Part(w, q, m)
    BY <2>2 DEF o, OnlyPart
  <2> QED
    BY <1>2, <2>1, <2>3
<1>6. Keeps(w, n, a, m, Part(w, k, m), entry.buf, at)
  <2> SUFFICES ASSUME NEW j \in 1..n
               PROVE  w[j] = IF j \in (a + 1)..(a + m) THEN Part(w, k, m)[j - a]
                             ELSE entry.buf[at + j]
    BY DEF Keeps
  <2>1. CASE j \in (a + 1)..(a + m)
    <3>1. j - a \in 1..m /\ a + (j - a) = j
      BY <1>0, <1>3, <2>1
    <3>2. \A r \in 1..m : Part(w, k, m)[r] = w[a + r]
      BY <1>0, <1>2
    <3> HIDE DEF a
    <3> QED
      BY <2>1, <3>1, <3>2
  <2>2. CASE j \notin (a + 1)..(a + m)
    BY <1>1, <1>5, <2>2
  <2> QED
    BY <2>1, <2>2
<1>7. Put(entry.buf, at, w) = Put(entry.buf, at + a, Part(w, k, m))
  <2>1. Part(w, k, m) \in Words(m)
    BY <1>0, <1>2
  <2> HIDE DEF a
  <2> QED
    BY <1>0, <1>3, <1>6, <2>1, PutInner
<1>8. Part(o, k, m) = Old(at + a, m)
  <2>1. /\ Old(at + a, m) \in Words(m)
        /\ \A j \in 1..m : Old(at + a, m)[j] = entry.buf[(at + a) + j]
    <3> HIDE DEF a
    <3> QED
      BY <1>0, <1>3, OldType
  <2>2. ASSUME NEW j \in 1..m
        PROVE  Part(o, k, m)[j] = Old(at + a, m)[j]
    <3>1. Part(o, k, m)[j] = o[a + j]
      BY <1>0, <1>2
    <3>2. a + j \in 1..n /\ at + (a + j) = (at + a) + j
      BY <1>0, <1>3
    <3> HIDE DEF a
    <3> QED
      BY <1>1, <2>1, <3>1, <3>2
  <2>3. Part(o, k, m) \in Words(m)
    BY <1>0, <1>2
  <2> HIDE DEF a
  <2> QED
    BY <2>1, <2>2, <2>3, SameWord
<1> QED
  BY <1>0, <1>2, <1>4, <1>7, <1>8 DEF o

LEMMA GoodSum ==
  ASSUME Finished, NEW n \in Sizes, NEW at, Place(at, n), NEW w \in Words(n),
         could_be_arith(Old(at, n), w)
  PROVE  Good(Put(entry.buf, at, w))
<1> DEFINE o == Old(at, n)
           Differ(m) == {k \in 0..(n \div m - 1) : Part(o, k, m) # Part(w, k, m)}
<1>0. o \in Words(n) /\ Len(o) = n
  BY OldType DEF Place, Words
<1>1. \/ o = w
      \/ Cardinality(Differ(1)) = 1 /\ \A k \in Differ(1) : Near(Part(o, k, 1), Part(w, k, 1))
      \/ /\ n > 1 /\ Cardinality(Differ(2)) = 1
         /\ \A k \in Differ(2) : NearAnyEnd(Part(o, k, 2), Part(w, k, 2))
      \/ n = 4 /\ NearAnyEnd(o, w)
  BY <1>0 DEF could_be_arith
<1>2. ASSUME NEW m \in {1, 2}, m <= n, Cardinality(Differ(m)) = 1,
             \A k \in Differ(m) : NearAnyEnd(Part(o, k, m), Part(w, k, m))
      PROVE  Good(Put(entry.buf, at, w))
  <2>1. PICK k : Differ(m) = {k}
    <3>1. IsFiniteSet(Differ(m))
      <4>1. n \div m - 1 \in Int /\ Differ(m) \subseteq 0..(n \div m - 1)
        BY DEF Sizes
      <4>2. IsFiniteSet(0..(n \div m - 1))
        BY <4>1, FS_Interval
      <4> QED
        BY <4>1, <4>2, FS_Subset
    <3> HIDE DEF Differ
    <3> QED
      BY <1>2, <3>1, FS_Singleton
  <2>2. OnlyPart(o, w, n, k, m)
    BY <2>1 DEF OnlyPart
  <2>3. /\ Place(at + k * m, m) /\ Part(w, k, m) \in Words(m)
        /\ Part(o, k, m) = Old(at + k * m, m)
        /\ Put(entry.buf, at, w) = Put(entry.buf, at + k * m, Part(w, k, m))
    <3> HIDE DEF Differ
    <3> QED
      BY <1>2, <2>2, OnePart
  <2>4. NearAnyEnd(Old(at + k * m, m), Part(w, k, m))
    BY <1>2, <2>1, <2>3
  <2> QED
    BY <2>3, <2>4, GoodNear DEF Sizes
<1>3. CASE o = w
  BY <1>3, GoodUnchanged
<1>4. CASE /\ Cardinality(Differ(1)) = 1
           /\ \A k \in Differ(1) : Near(Part(o, k, 1), Part(w, k, 1))
  <2>1. 1 <= n
    BY DEF Sizes
  <2> QED
    BY <1>2, <1>4, <2>1 DEF NearAnyEnd
<1>5. CASE /\ n > 1 /\ Cardinality(Differ(2)) = 1
           /\ \A k \in Differ(2) : NearAnyEnd(Part(o, k, 2), Part(w, k, 2))
  <2>1. 2 <= n
    BY <1>5 DEF Sizes
  <2> QED
    BY <1>2, <1>5, <2>1
<1>6. CASE n = 4 /\ NearAnyEnd(o, w)
  BY <1>6, GoodNear
<1> QED
  BY <1>1, <1>3, <1>4, <1>5, <1>6

-----------------------------------------------------------------------------
(* Values. *)

Table(n) ==
  IF n = 1 THEN interesting_8 ELSE IF n = 2 THEN interesting_16 ELSE interesting_32

ValuesGood(n) ==
  \A at, v : Place(at, n) /\ v \in Table(n) => Good(Put(entry.buf, at, Word(v, n)))
SwappedValuesGood(n) ==
  \A at, v : Place(at, n) /\ v \in Table(n) => Good(Put(entry.buf, at, Swap(Word(v, n))))

LEMMA ValuesType ==
  ASSUME NEW n \in Sizes, NEW v \in Table(n)
  PROVE  Word(v, n) \in Words(n) /\ Swap(Word(v, n)) \in Words(n)
<1>1. v \in Int /\ n \in Nat
  BY NumberAssumption DEF Table, Sizes
<1>2. Word(v, n) \in Words(n)
  BY <1>1, WordType
<1> QED
  BY <1>1, <1>2, Swapped

LEMMA InterestDone ==
  ASSUME Finished, NEW n \in Sizes, NEW at, Place(at, n)
  PROVE  WordsDone(n, at, Interesting(Old(at, n), Table(n)))
<1>1. at \in 0..(len - 1)
  BY DEF Place, Sizes, Finished
<1>2. StageDone(10, at) /\ StageDone(11, at) /\ StageDone(12, at) /\ ~entry.no_arith
  BY <1>1 DEF Finished
<1>3. CASE n = 1
  BY <1>2, <1>3 DEF StageDone, Table
<1>4. CASE n = 2
  BY <1>2, <1>4 DEF StageDone, Table
<1>5. CASE n = 4
  BY <1>2, <1>5 DEF StageDone, Table
<1> QED
  BY <1>3, <1>4, <1>5 DEF Sizes

\* A word that is the old one but for a shorter word inside.
LEMMA PutWithin ==
  ASSUME Finished, NEW n \in Sizes, NEW at, Place(at, n), NEW k \in Nat, NEW m \in Nat,
         k + m <= n, NEW c \in Words(m)
  PROVE  /\ Put(entry.buf, at, Put(Old(at, n), k, c)) = Put(entry.buf, at + k, c)
         /\ Place(at + k, m)
<1> DEFINE o == Old(at, n)
           w == Put(o, k, c)
<1>1. o \in Words(n) /\ n \in Nat /\ \A j \in 1..n : o[j] = entry.buf[at + j]
  BY OldType DEF Place
<1>2. o \in Seq(Byte) /\ Len(o) = n
  BY <1>1 DEF Words
<1> HIDE DEF o
<1>3. Laid(w, o, k, m, c)
  BY <1>2, PutIs
<1>4. w \in Words(n) /\ \A j \in 1..n : w[j] = IF j \in (k + 1)..(k + m) THEN c[j - k] ELSE o[j]
  BY <1>2, <1>3 DEF Laid, Words
<1> HIDE DEF w
<1>5. Keeps(w, n, k, m, c, entry.buf, at)
  BY <1>1, <1>4 DEF Keeps
<1>6. Put(entry.buf, at, w) = Put(entry.buf, at + k, c) /\ Place(at + k, m)
  BY <1>4, <1>5, PutInner
<1> QED
  BY <1>6 DEF w, o

\* What could be a value is one, of some part of the word.
LEMMA GoodValue ==
  ASSUME Finished, NEW n \in {2, 4}, NEW at, Place(at, n), NEW w \in Words(n),
         NEW check_le \in BOOLEAN, could_be_interest(Old(at, n), w, check_le),
         ValuesGood(1), n = 4 \/ check_le => ValuesGood(2),
         n = 4 => SwappedValuesGood(2), n = 4 /\ check_le => ValuesGood(4)
  PROVE  Good(Put(entry.buf, at, w))
<1> DEFINE o == Old(at, n)
<1>0. n \in Sizes /\ n \in Nat /\ o \in Words(n) /\ Len(o) = n
  BY OldType DEF Place, Words, Sizes
<1>1. \/ o = w
      \/ \E k \in 0..(n - 1), v \in interesting_8 : w = Put(o, k, Word(v, 1))
      \/ /\ n = 4 \/ check_le
         /\ \E k \in 0..(n - 2), v \in interesting_16 :
              w = Put(o, k, Word(v, 2)) \/ (n = 4 /\ w = Put(o, k, Swap(Word(v, 2))))
      \/ n = 4 /\ check_le /\ \E v \in interesting_32 : w = Word(v, 4)
  <2>1. n > 2 <=> n = 4
    OBVIOUS
  <2> QED
    BY <1>0, <2>1 DEF could_be_interest
<1>2. CASE o = w
  BY <1>2, GoodUnchanged
<1>3. CASE \E k \in 0..(n - 1), v \in interesting_8 : w = Put(o, k, Word(v, 1))
  <2>1. PICK k \in 0..(n - 1), v \in interesting_8 : w = Put(o, k, Word(v, 1))
    BY <1>3
  <2>2. v \in Table(1) /\ 1 \in Sizes /\ 1 \in Nat /\ k \in Nat /\ k + 1 <= n
    BY DEF Table, Sizes
  <2>3. Word(v, 1) \in Words(1)
    BY <2>2, ValuesType
  <2>4. Put(entry.buf, at, w) = Put(entry.buf, at + k, Word(v, 1)) /\ Place(at + k, 1)
    BY <1>0, <2>1, <2>2, <2>3, PutWithin
  <2> QED
    BY <2>2, <2>4 DEF ValuesGood
<1>4. CASE /\ n = 4 \/ check_le
           /\ \E k \in 0..(n - 2), v \in interesting_16 :
                w = Put(o, k, Word(v, 2)) \/ (n = 4 /\ w = Put(o, k, Swap(Word(v, 2))))
  <2>1. PICK k \in 0..(n - 2), v \in interesting_16 :
          w = Put(o, k, Word(v, 2)) \/ (n = 4 /\ w = Put(o, k, Swap(Word(v, 2))))
    BY <1>4
  <2>2. v \in Table(2) /\ 2 \in Sizes /\ 2 \in Nat /\ k \in Nat /\ k + 2 <= n
    BY DEF Table, Sizes
  <2>3. Word(v, 2) \in Words(2) /\ Swap(Word(v, 2)) \in Words(2)
    BY <2>2, ValuesType
  <2>4. ASSUME NEW c \in Words(2), w = Put(o, k, c)
        PROVE  Put(entry.buf, at, w) = Put(entry.buf, at + k, c) /\ Place(at + k, 2)
    BY <1>0, <2>2, <2>4, PutWithin
  <2>5. CASE w = Put(o, k, Word(v, 2))
    <3>1. Put(entry.buf, at, w) = Put(entry.buf, at + k, Word(v, 2)) /\ Place(at + k, 2)
      BY <2>3, <2>4, <2>5
    <3> QED
      BY <1>4, <2>2, <3>1 DEF ValuesGood
  <2>6. CASE n = 4 /\ w = Put(o, k, Swap(Word(v, 2)))
    <3>1. Put(entry.buf, at, w) = Put(entry.buf, at + k, Swap(Word(v, 2))) /\ Place(at + k, 2)
      BY <2>3, <2>4, <2>6
    <3> QED
      BY <2>2, <2>6, <3>1 DEF SwappedValuesGood
  <2> QED
    BY <2>1, <2>5, <2>6
<1>5. CASE n = 4 /\ check_le /\ \E v \in interesting_32 : w = Word(v, 4)
  <2>1. PICK v \in Table(4) : w = Word(v, 4)
    BY <1>5 DEF Table
  <2> QED
    BY <1>5, <2>1 DEF ValuesGood
<1> QED
  BY <1>1, <1>2, <1>3, <1>4, <1>5

\* A value is run, or left out for a reason.
LEMMA FreshValue ==
  ASSUME Finished, NEW n \in Sizes, NEW at, Place(at, n), NEW w \in Words(n),
         NEW check_le \in BOOLEAN,
         n > 1 /\ could_be_interest(Old(at, n), w, check_le) => Good(Put(entry.buf, at, w)),
         /\ Distinct(Old(at, n), w) /\ ~could_be_arith(Old(at, n), w)
         /\ n > 1 => ~could_be_interest(Old(at, n), w, check_le)
         => w \in Interesting(Old(at, n), Table(n))
  PROVE  Good(Put(entry.buf, at, w))
<1>1. WordsDone(n, at, Interesting(Old(at, n), Table(n)))
  BY InterestDone
<1>2. CASE w \in Interesting(Old(at, n), Table(n))
  BY <1>1, <1>2, GoodWord
<1>3. CASE ~Distinct(Old(at, n), w)
  BY <1>3, GoodFlip
<1>4. CASE could_be_arith(Old(at, n), w)
  BY <1>4, GoodSum
<1>5. CASE n > 1 /\ could_be_interest(Old(at, n), w, check_le)
  BY <1>5
<1> QED
  BY <1>2, <1>3, <1>4, <1>5

LEMMA LittleEndian ==
  ASSUME Finished, NEW n \in Sizes,
         n > 1 => ValuesGood(1), n = 4 => ValuesGood(2) /\ SwappedValuesGood(2)
  PROVE  ValuesGood(n)
<1> SUFFICES ASSUME NEW at, NEW v, Place(at, n), v \in Table(n)
             PROVE  Good(Put(entry.buf, at, Word(v, n)))
  BY DEF ValuesGood
<1> DEFINE o == Old(at, n)
           w == Word(v, n)
<1>1. w \in Words(n)
  BY ValuesType
<1>2. Len(o) = n
  BY OldType DEF Place, Words
<1>3. n > 1 /\ could_be_interest(o, w, FALSE) => Good(Put(entry.buf, at, w))
  <2> SUFFICES ASSUME n > 1, could_be_interest(o, w, FALSE)
               PROVE  Good(Put(entry.buf, at, w))
    OBVIOUS
  <2>1. n \in {2, 4}
    BY DEF Sizes
  <2> HIDE DEF w
  <2> QED
    BY <1>1, <2>1, GoodValue
<1>4. /\ Distinct(o, w) /\ ~could_be_arith(o, w)
      /\ n > 1 => ~could_be_interest(o, w, FALSE)
      => w \in Interesting(o, Table(n))
  <2> HIDE DEF o
  <2> QED
    BY <1>2 DEF Interesting
<1> HIDE DEF w
<1>5. Good(Put(entry.buf, at, w))
  BY <1>1, <1>3, <1>4, FreshValue
<1> QED
  BY <1>5 DEF w

LEMMA BigEndian ==
  ASSUME Finished, NEW n \in Sizes, ValuesGood(1), ValuesGood(n),
         n = 4 => ValuesGood(2) /\ SwappedValuesGood(2)
  PROVE  SwappedValuesGood(n)
<1> SUFFICES ASSUME NEW at, NEW v, Place(at, n), v \in Table(n)
             PROVE  Good(Put(entry.buf, at, Swap(Word(v, n))))
  BY DEF SwappedValuesGood
<1> DEFINE o == Old(at, n)
           u == Word(v, n)
           w == Swap(u)
<1>1. w \in Words(n) /\ u \in Words(n)
  BY ValuesType
<1>2. Len(o) = n
  BY OldType DEF Place, Words
<1>3. CASE u = w
  BY <1>3 DEF ValuesGood
<1>4. CASE u # w
  <2>1. n > 1 /\ could_be_interest(o, w, TRUE) => Good(Put(entry.buf, at, w))
    <3> SUFFICES ASSUME n > 1, could_be_interest(o, w, TRUE)
                 PROVE  Good(Put(entry.buf, at, w))
      OBVIOUS
    <3>1. n \in {2, 4}
      BY DEF Sizes
    <3> HIDE DEF w
    <3> QED
      BY <1>1, <3>1, GoodValue
  <2>2. /\ Distinct(o, w) /\ ~could_be_arith(o, w)
        /\ n > 1 => ~could_be_interest(o, w, TRUE)
        => w \in Interesting(o, Table(n))
    <3> HIDE DEF o
    <3> QED
      BY <1>2, <1>4 DEF Interesting
  <2> HIDE DEF w
  <2>3. Good(Put(entry.buf, at, w))
    BY <1>1, <2>1, <2>2, FreshValue
  <2> QED
    BY <2>3 DEF w
<1> QED
  BY <1>3, <1>4

LEMMA AllValuesGood ==
  ASSUME Finished, NEW n \in Sizes
  PROVE  ValuesGood(n) /\ SwappedValuesGood(n)
<1>0. {1, 2, 4} = Sizes
  BY DEF Sizes
<1>1. ValuesGood(1)
  BY <1>0, LittleEndian
<1>2. ValuesGood(2)
  BY <1>0, <1>1, LittleEndian
<1>3. SwappedValuesGood(1)
  BY <1>0, <1>1, BigEndian
<1>4. SwappedValuesGood(2)
  BY <1>0, <1>1, <1>2, BigEndian
<1>5. ValuesGood(4)
  BY <1>0, <1>1, <1>2, <1>4, LittleEndian
<1>6. SwappedValuesGood(4)
  BY <1>0, <1>1, <1>2, <1>4, <1>5, BigEndian
<1> QED
  BY <1>1, <1>2, <1>3, <1>4, <1>5, <1>6 DEF Sizes

-----------------------------------------------------------------------------
(* All that is wanted. *)

LEMMA WantedIs ==
  ASSUME Finished, NEW buf \in Wanted
  PROVE  \/ \E n \in Sizes : \E at : \E d \in Deltas :
              /\ Place(at, n)
              /\ \/ buf = Put(entry.buf, at, Sum(Old(at, n), d))
                 \/ buf = Put(entry.buf, at, SwappedSum(Old(at, n), d))
         \/ \E n \in Sizes : \E at : \E v \in Table(n) :
              /\ Place(at, n)
              /\ \/ buf = Put(entry.buf, at, Word(v, n))
                 \/ buf = Put(entry.buf, at, Swap(Word(v, n)))
         \/ \E t \in extras \cup front : \E at \in 0..(len - Len(t)) : buf = Put(entry.buf, at, t)
<1> DEFINE Places(n) == 0..(len - n)
           Sums(w) == {Sum(w, d) : d \in Deltas} \cup {Swap(Sum(Swap(w), d)) : d \in Deltas}
           Values(table, n) == {Word(v, n) : v \in table} \cup {Swap(Word(v, n)) : v \in table}
           Changed(at, words) == {Put(entry.buf, at, w) : w \in words}
<1>0. \A n \in Sizes : \A at \in Places(n) : Place(at, n)
  BY DEF Sizes, Place, Finished
<1> DEFINE SumsAt(n) == UNION {Changed(at, Sums(Old(at, n))) : at \in Places(n)}
           ValuesAt(table, n) == UNION {Changed(at, Values(table, n)) : at \in Places(n)}
           TokenAt(t) == {Put(entry.buf, at, t) : at \in Places(Len(t))}
<1>1. \/ \E n \in {1, 2, 4} : \E at \in Places(n) : buf \in Changed(at, Sums(Old(at, n)))
      \/ \E at \in Places(1) : buf \in Changed(at, Values(interesting_8, 1))
      \/ \E at \in Places(2) : buf \in Changed(at, Values(interesting_16, 2))
      \/ \E at \in Places(4) : buf \in Changed(at, Values(interesting_32, 4))
      \/ \E t \in extras \cup front : \E at \in Places(Len(t)) : buf = Put(entry.buf, at, t)
  <2>1. Wanted = (UNION {SumsAt(n) : n \in {1, 2, 4}}) \cup ValuesAt(interesting_8, 1)
                   \cup ValuesAt(interesting_16, 2) \cup ValuesAt(interesting_32, 4)
                   \cup (UNION {TokenAt(t) : t \in extras \cup front})
    BY Zenon DEF Wanted, Old
  <2>2. \A n : buf \in SumsAt(n) => \E at \in Places(n) : buf \in Changed(at, Sums(Old(at, n)))
    <3> HIDE DEF Places, Changed, Sums
    <3> QED
      OBVIOUS
  <2>3. \A table, n : buf \in ValuesAt(table, n) => \E at \in Places(n) : buf \in Changed(at, Values(table, n))
    <3> HIDE DEF Places, Changed, Values
    <3> QED
      OBVIOUS
  <2>4. \A t : buf \in TokenAt(t) => \E at \in Places(Len(t)) : buf = Put(entry.buf, at, t)
    <3> HIDE DEF Places
    <3> QED
      OBVIOUS
  <2> HIDE DEF SumsAt, ValuesAt, TokenAt, Places, Changed, Values, Sums
  <2>5. \/ \E n \in {1, 2, 4} : buf \in SumsAt(n)
        \/ buf \in ValuesAt(interesting_8, 1)
        \/ buf \in ValuesAt(interesting_16, 2)
        \/ buf \in ValuesAt(interesting_32, 4)
        \/ \E t \in extras \cup front : buf \in TokenAt(t)
    BY <2>1
  <2> QED
    BY <2>2, <2>3, <2>4, <2>5
<1>2. CASE \E n \in {1, 2, 4} : \E at \in Places(n) : buf \in Changed(at, Sums(Old(at, n)))
  <2>0. PICK n \in Sizes : \E at \in Places(n) : buf \in Changed(at, Sums(Old(at, n)))
    BY <1>2 DEF Sizes
  <2>1. PICK at \in Places(n) : buf \in Changed(at, Sums(Old(at, n)))
    BY <2>0
  <2>2. \E d \in Deltas : \/ buf = Put(entry.buf, at, Sum(Old(at, n), d))
                          \/ buf = Put(entry.buf, at, SwappedSum(Old(at, n), d))
    BY <2>1 DEF SwappedSum
  <2>3. Place(at, n)
    BY <1>0
  <2> QED
    BY <2>2, <2>3
<1>3. ASSUME NEW n \in Sizes, NEW at \in Places(n), buf \in Changed(at, Values(Table(n), n))
      PROVE  \E m \in Sizes : \E p : \E v \in Table(m) :
               /\ Place(p, m)
               /\ \/ buf = Put(entry.buf, p, Word(v, m))
                  \/ buf = Put(entry.buf, p, Swap(Word(v, m)))
  <2>1. \E v \in Table(n) : \/ buf = Put(entry.buf, at, Word(v, n))
                            \/ buf = Put(entry.buf, at, Swap(Word(v, n)))
    BY <1>3
  <2>2. Place(at, n)
    BY <1>0
  <2> QED
    BY <2>1, <2>2
<1>4. /\ Table(1) = interesting_8 /\ Table(2) = interesting_16 /\ Table(4) = interesting_32
      /\ 1 \in Sizes /\ 2 \in Sizes /\ 4 \in Sizes
  BY DEF Table, Sizes
<1>5. CASE \/ \E at \in Places(1) : buf \in Changed(at, Values(interesting_8, 1))
           \/ \E at \in Places(2) : buf \in Changed(at, Values(interesting_16, 2))
           \/ \E at \in Places(4) : buf \in Changed(at, Values(interesting_32, 4))
  <2> HIDE DEF Changed, Values
  <2>1. \E m \in Sizes : \E p : \E v \in Table(m) :
          /\ Place(p, m)
          /\ \/ buf = Put(entry.buf, p, Word(v, m))
             \/ buf = Put(entry.buf, p, Swap(Word(v, m)))
    BY <1>3, <1>4, <1>5
  <2> QED
    BY <2>1
<1> QED
  BY <1>1, <1>2, <1>5

LEMMA AllGood ==
  ASSUME Finished, (extras \cup front) \subseteq Seq(Byte), NEW buf \in Wanted
  PROVE  Good(buf)
<1>1. CASE \E n \in Sizes : \E at : \E d \in Deltas :
             /\ Place(at, n)
             /\ \/ buf = Put(entry.buf, at, Sum(Old(at, n), d))
                \/ buf = Put(entry.buf, at, SwappedSum(Old(at, n), d))
  BY <1>1, AllSumsGood DEF SumsGood
<1>2. CASE \E n \in Sizes : \E at : \E v \in Table(n) :
             /\ Place(at, n)
             /\ \/ buf = Put(entry.buf, at, Word(v, n))
                \/ buf = Put(entry.buf, at, Swap(Word(v, n)))
  BY <1>2, AllValuesGood DEF ValuesGood, SwappedValuesGood
<1>3. CASE \E t \in extras \cup front : \E at \in 0..(len - Len(t)) : buf = Put(entry.buf, at, t)
  <2>1. PICK t \in extras \cup front : \E at \in 0..(len - Len(t)) : buf = Put(entry.buf, at, t)
    BY <1>3
  <2>2. PICK at \in 0..(len - Len(t)) : buf = Put(entry.buf, at, t)
    BY <2>1
  <2>3. t \in Seq(Byte) /\ Len(t) \in Nat
    OBVIOUS
  <2>4. Place(at, Len(t))
    BY <2>3 DEF Place, Finished
  <2> QED
    BY <2>2, <2>3, <2>4, GoodToken
<1> QED
  BY <1>1, <1>2, <1>3, WantedIs

\* could_be_bitflip, could_be_arith and could_be_interest leave nothing out that
\* has not been run in another stage: of every entry that fuzz_one marks as done,
\* all sums, values and tokens have been tried, except where they only touch bytes
\* without effect, or where they look like a flip that no stage makes, one across
\* the border of two bytes.  This holds for every width of a byte, table of values,
\* entry and dictionary.
THEOREM NothingIsSkipped ==
  Spec => []NothingSkipped
<1>1. Init => TriedInv
  <2>1. Init => stage \notin Det
    BY DetIs DEF Init
  <2> QED
    BY <2>1, NothingClaimed
<1>2. Inv /\ TriedInv => NothingSkipped
  <2> SUFFICES ASSUME Inv, TriedInv, stage = "passed", ~entry.no_arith,
                      Cardinality(extras) <= MAX_DET_EXTRAS, NEW buf \in Wanted, buf \notin tried
               PROVE  \/ \A p \in Bytes(buf, entry.buf) : p - 1 \notin entry.live
                      \/ AcrossBytes(buf, entry.buf)
    BY DEF NothingSkipped
  <2>1. /\ entry.buf \in Seq(Byte) /\ len \in Nat \ {0}
        /\ extras \subseteq Seq(Byte) /\ front \subseteq Seq(Byte)
    BY ByteOfEntry DEF Inv, TypeInv, AutoInd, AutoInv, Leads
  <2>2. len = Len(entry.buf)
    <3>1. stage \in Det
      BY DetIs
    <3> QED
      BY <3>1 DEF Inv, BufInv, FuzzInv, Det, len
  <2>3. \A k \in 1..15, p \in 0..(len - 1) : StageDone(k, p)
    <3> TAKE k \in 1..15, p \in 0..(len - 1)
    <3>1. stage = Order[16] /\ 16 \in (k + 1)..16
      BY OrderIs
    <3> QED
      BY <3>1 DEF TriedInv, Done
  <2>4. Finished
    BY <2>1, <2>2, <2>3 DEF Finished
  <2>5. Good(buf)
    BY <2>1, <2>4, AllGood
  <2> QED
    BY <2>5 DEF Good
<1> QED
  BY <1>1, <1>2, InitInv, NextInv, NextTried, PTL DEF Spec
=============================================================================
