------------------------------ MODULE FuzzOne ------------------------------
(***************************************************************************)
(* fuzz_one of afl-fuzz on one queue entry: the deterministic stages, the  *)
(* havoc stage and splicing, with the dictionaries they use and fill.      *)
(*                                                                         *)
(* A step of a stage is everything it does at one byte of the buffer.  The *)
(* target is given with the entry: sum tells which checksum a change of a  *)
(* byte's last bit gives, 0 for the one of the entry itself, and live      *)
(* which bytes change the checksum when flipped as a whole.  Of a buffer   *)
(* that havoc has changed only the length is kept.                         *)
(***************************************************************************)
EXTENDS AutoExtras, SequencesExt

CONSTANTS
  XorOf(_, _),
  ARITH_MAX, interesting_8,
  EFF_MAP_SCALE2, EFF_MIN_LEN, EFF_MAX_PERC,
  MAX_DET_EXTRAS,
  HAVOC_CYCLES_INIT, HAVOC_CYCLES, SPLICE_HAVOC, HAVOC_MIN, HAVOC_MAX_MULT,
  HAVOC_STACK_POW2, HAVOC_BLK_SMALL, HAVOC_BLK_MEDIUM, HAVOC_BLK_LARGE,
  HAVOC_BLK_XL, SPLICE_CYCLES, MAX_FILE,
  avg_exec_us, avg_bitmap_size, havoc_div,
  Entries,       \* entries with their targets: buf, sum, live; the queue's data for
                 \* the score, with valid for smart_mode and enough validity; the
                 \* options dumb_mode, no_arith and skip_det, the last for -d,
                 \* was_fuzzed, passed_det and a master's share as well; and the
                 \* tokens that -x gives and the files of an earlier session: user,
                 \* auto
  Others         \* the other test cases of the queue

Byte == 0..(2 ^ W - 1)

EntryType ==
  [buf : Seq(Byte), sum : Seq(Nat), live : SUBSET Nat,
   user : SUBSET Seq(Byte), auto : Seq(Seq(Byte)),
   exec_us : Nat, bitmap_size : Nat, handicap : Nat, depth : Nat, valid : BOOLEAN,
   dumb_mode : BOOLEAN, no_arith : BOOLEAN, skip_det : BOOLEAN]

\* What read_testcases gives: test cases that are not empty nor too large.
ASSUME FuzzAssumption ==
  /\ {MIN_AUTO_EXTRA, MAX_AUTO_EXTRA, HAVOC_MIN, HAVOC_MAX_MULT, havoc_div,
      HAVOC_BLK_SMALL} \subseteq Nat \ {0}
  /\ {HAVOC_BLK_MEDIUM, HAVOC_BLK_LARGE, HAVOC_BLK_XL, HAVOC_CYCLES_INIT, HAVOC_CYCLES,
      SPLICE_HAVOC, HAVOC_STACK_POW2, SPLICE_CYCLES, MAX_FILE} \subseteq Nat
  /\ MIN_AUTO_EXTRA > 1
  /\ HAVOC_BLK_SMALL <= HAVOC_BLK_MEDIUM /\ HAVOC_BLK_MEDIUM <= HAVOC_BLK_LARGE
  /\ HAVOC_BLK_LARGE <= HAVOC_BLK_XL
  /\ Entries \subseteq EntryType
  /\ \A e \in Entries :
       /\ Len(e.buf) \in 1..MAX_FILE /\ Len(e.sum) = Len(e.buf)
       /\ IsFiniteSet(e.user)
  /\ \A t \in Others : t \in Seq(Byte) /\ Len(t) \in 1..MAX_FILE

ASSUME NumberAssumption ==
  /\ W \in Nat \ {0}
  /\ {ARITH_MAX, EFF_MAP_SCALE2, MAX_DET_EXTRAS} \subseteq Nat
  /\ interesting_8 \cup interesting_16 \cup interesting_32 \subseteq Int

\* What the provers do not know of powers of two.
ASSUME PowerAssumption ==
  \A m, n \in 0..(4 * W + EFF_MAP_SCALE2) :
    /\ 2 ^ m \in Nat \ {0}
    /\ m + n <= 4 * W => 2 ^ (m + n) = 2 ^ m * 2 ^ n

\* XorOf is the operator ^ of C on bytes.
ASSUME XorAssumption ==
  /\ \A a, b \in Byte :
       XorOf(a, b) \in Byte /\ XorOf(a, b) = XorOf(b, a) /\ XorOf(a, XorOf(a, b)) = b
  /\ \A a \in Byte : XorOf(a, 0) = a
  /\ \A a, m \in Byte, k \in 0..(W - 1) :
       m % 2 ^ (k + 1) = 0 => XorOf(XorOf(a, m), 2 ^ k) = XorOf(a, m + 2 ^ k)

VARIABLES
  entry,
  stage, i,             \* where fuzz_one is, and at which byte
  in_buf, out_buf,      \* <<>> for one mangled by havoc
  eff_map,              \* the flagged slots of eff_map
  a_collect, prev_cksum,
  stage_cur, stage_max, perf_score, orig_perf, doing_det,
  temp_len, tweaks,     \* havoc's length and tweaks left in this round
  splice_cycle,
  passed_det,
  tried, offered        \* history: buffers run, tokens offered to maybe_add_auto

bufVars == <<in_buf, out_buf>>
detVars == <<eff_map, a_collect, prev_cksum>>
havocVars == <<stage_cur, stage_max, perf_score, orig_perf, doing_det, temp_len,
               tweaks, splice_cycle>>
vars == <<autoVars, entry, stage, i, bufVars, detVars, havocVars, passed_det, tried,
          offered>>

len == Len(in_buf)
LE(x, y) == IF x <= y THEN x ELSE y
GE(x, y) == IF x >= y THEN x ELSE y

Init ==
  /\ extras = {} /\ a_extras = <<>> /\ front = {} /\ auto_changed = FALSE /\ saved = {}
  /\ entry \in Entries
  /\ stage = "load" /\ i = 0
  /\ in_buf = entry.buf /\ out_buf = entry.buf
  /\ eff_map = {}
  /\ a_collect = <<>> /\ prev_cksum = 0
  /\ stage_cur = 0 /\ stage_max = 0 /\ perf_score = 100 /\ orig_perf = 100
  /\ doing_det = FALSE
  /\ temp_len = 0 /\ tweaks = 0 /\ splice_cycle = 0
  /\ passed_det = FALSE
  /\ tried = {} /\ offered = {}

-----------------------------------------------------------------------------
(* What is left out as done before. *)

\* One bits in a row, from bit sh on.
Ones(n, sh) == (2 ^ n - 1) * 2 ^ sh

Bits == 0..(4 * W - 1)
FlipPatterns ==
  {0} \cup {Ones(n, sh) : n \in {1, 2, 4}, sh \in Bits}
      \cup {Ones(n, sh) : n \in {W, 2 * W, 4 * W}, sh \in {x \in Bits : x % W = 0}}

could_be_bitflip(x) == x \in FlipPatterns

\* Mutant: a step more than the arithmetic stages make.
NearWide(u, v) ==
  LET d == Value(u) - Value(v)  size == 2 ^ (W * Len(u))
  IN d % size <= ARITH_MAX + 1 \/ (0 - d) % size <= ARITH_MAX + 1

Near(u, v) ==
  LET d == Value(u) - Value(v)  size == 2 ^ (W * Len(u))
  IN d % size <= ARITH_MAX \/ (0 - d) % size <= ARITH_MAX

NearAnyEnd(u, v) == Near(u, v) \/ Near(Swap(u), Swap(v))

Part(w, k, n) == SubSeq(w, k * n + 1, k * n + n)

could_be_arith(old, new) ==
  LET Diffs(n) == {k \in 0..(Len(old) \div n - 1) : Part(old, k, n) # Part(new, k, n)}
      One(n, Test(_, _)) ==
        Cardinality(Diffs(n)) = 1 /\ \A k \in Diffs(n) : Test(Part(old, k, n), Part(new, k, n))
  IN \/ old = new
     \/ One(1, Near)
     \/ Len(old) > 1 /\ One(2, NearAnyEnd)
     \/ Len(old) = 4 /\ NearAnyEnd(old, new)

Put(buf, at, w) ==
  [p \in DOMAIN buf |-> IF p \in (at + 1)..(at + Len(w)) THEN w[p - at] ELSE buf[p]]

could_be_interest(old, new, check_le) ==
  \/ old = new
  \/ \E k \in 0..(Len(old) - 1), v \in interesting_8 : new = Put(old, k, Word(v, 1))
  \/ /\ Len(old) > 2 \/ check_le
     /\ \E k \in 0..(Len(old) - 2), v \in interesting_16 :
          \/ new = Put(old, k, Word(v, 2))
          \/ Len(old) > 2 /\ new = Put(old, k, Swap(Word(v, 2)))
  \/ /\ Len(old) = 4 /\ check_le
     /\ \E v \in interesting_32 : new = Word(v, 4)

-----------------------------------------------------------------------------
(* The deterministic stages. *)

Order == <<"flip1", "flip2", "flip4", "flip8", "flip16", "flip32",
           "arith8", "arith16", "arith32", "int8", "int16", "int32",
           "ext_UO", "ext_UI", "ext_AO", "passed">>
After(s) == Order[1 + CHOOSE k \in DOMAIN Order : Order[k] = s]

\* The end of a step at byte i of a stage with this many steps.
GoOn(steps) ==
  IF i + 1 < steps THEN stage' = stage /\ i' = i + 1
                   ELSE stage' = After(stage) /\ i' = 0

Skip(s) == stage = s /\ stage' = After(s) /\ i' = 0

Load ==
  /\ stage = "load"
  /\ load_auto(entry.auto)
  /\ stage' = "load extras"
  /\ UNCHANGED <<entry, i, bufVars, detVars, havocVars, passed_det, tried, offered>>

LoadExtras ==
  /\ stage = "load extras"
  /\ load_extras(entry.user)
  /\ stage' = "score"
  /\ UNCHANGED <<entry, i, bufVars, detVars, havocVars, passed_det, tried, offered>>

\* The first of some <<condition, value>> that holds.
First(rules) == rules[Min({k \in DOMAIN rules : rules[k][1]})][2]

\* Percentages, cut off after each factor; valid entries get twice the limit.
calculate_score(q) ==
  LET us == q.exec_us  bits == q.bitmap_size
      speed == First(<< <<us > 10 * avg_exec_us, 10>>, <<us > 4 * avg_exec_us, 25>>,
                        <<us > 2 * avg_exec_us, 50>>, <<3 * us > 4 * avg_exec_us, 75>>,
                        <<4 * us < avg_exec_us, 300>>, <<3 * us < avg_exec_us, 200>>,
                        <<2 * us < avg_exec_us, 150>>, <<TRUE, 100>> >>)
      quarters == First(<< <<3 * bits > 10 * avg_bitmap_size, 12>>, <<bits > 2 * avg_bitmap_size, 8>>,
                           <<3 * bits > 4 * avg_bitmap_size, 6>>, <<3 * bits < avg_bitmap_size, 1>>,
                           <<2 * bits < avg_bitmap_size, 2>>, <<3 * bits < 2 * avg_bitmap_size, 3>>,
                           <<TRUE, 4>> >>)
      late == First(<< <<q.handicap >= 4, 4>>, <<q.handicap > 0, 2>>, <<TRUE, 1>> >>)
      deep == First(<< <<q.depth <= 3, 1>>, <<q.depth <= 7, 2>>, <<q.depth <= 13, 3>>,
                       <<q.depth <= 25, 4>>, <<TRUE, 5>> >>)
      limited == LE(((speed * quarters) \div 4) * late * deep, HAVOC_MAX_MULT * 100)
  IN IF q.valid THEN 2 * limited ELSE limited

Begin ==
  /\ stage = "score"
  /\ perf_score' = calculate_score(entry)
  /\ entry' = [entry EXCEPT !.handicap = IF @ >= 4 THEN @ - 4 ELSE GE(@ - 1, 0)]
  /\ orig_perf' = perf_score'
  /\ doing_det' = ~entry.skip_det
  /\ stage' = IF entry.skip_det THEN "havoc" ELSE "flip1"
  /\ UNCHANGED <<autoVars, i, bufVars, detVars, stage_cur, stage_max, temp_len,
                 tweaks, splice_cycle, passed_det, tried, offered>>

\* FLIP_BIT, which counts the bits of a byte from the highest.
Flipped(buf, bit, n) ==
  LET f[k \in 0..n] ==
        IF k = 0 THEN buf
        ELSE [f[k - 1] EXCEPT ![(bit + k - 1) \div W + 1] =
                XorOf(@, 2 ^ (W - 1 - ((bit + k - 1) % W)))]
  IN f[n]

Flips(n) == {Flipped(out_buf, bit, n) : bit \in {x \in (W * i)..(W * i + W - 1) : x + n <= W * len}}

Complement(buf, at, n) ==
  [p \in DOMAIN buf |-> IF p \in (at + 1)..(at + n) THEN XorOf(buf[p], 2 ^ W - 1) ELSE buf[p]]

Offer(t, changed) ==
  IF changed /\ Len(t) \in MIN_AUTO_EXTRA..MAX_AUTO_EXTRA
  THEN maybe_add_auto(t) /\ offered' = offered \cup {t}
  ELSE UNCHANGED <<autoVars, offered>>

\* Mutant: the end of the buffer ends no token.
CollectOpen ==
  LET cksum == entry.sum[i + 1]
      cut == IF cksum # prev_cksum THEN <<>> ELSE a_collect
  IN /\ Offer(a_collect, cksum # prev_cksum)
     /\ prev_cksum' = cksum
     /\ a_collect' = IF cksum # 0 THEN Append(cut, out_buf[i + 1]) ELSE cut

\* Syntax tokens: neighbors whose change gives the same new checksum.
CollectTokens ==
  LET cksum == entry.sum[i + 1]
      last == i = len - 1 /\ cksum = prev_cksum
      token == IF last THEN Append(a_collect, out_buf[i + 1]) ELSE a_collect
      cut == IF cksum # prev_cksum THEN <<>> ELSE token
  IN /\ Offer(token, last \/ cksum # prev_cksum)
     /\ prev_cksum' = cksum
     /\ a_collect' = IF cksum # 0 THEN Append(cut, out_buf[i + 1]) ELSE cut

Flip1 ==
  /\ stage = "flip1"
  /\ tried' = tried \cup Flips(1)
  /\ IF entry.dumb_mode THEN UNCHANGED <<autoVars, offered, prev_cksum, a_collect>>
                        ELSE CollectTokens
  /\ GoOn(len)
  /\ UNCHANGED <<entry, bufVars, eff_map, havocVars, passed_det>>

FlipMore ==
  /\ \/ stage = "flip2" /\ tried' = tried \cup Flips(2)
     \/ stage = "flip4" /\ tried' = tried \cup Flips(4)
  /\ GoOn(len)
  /\ UNCHANGED <<autoVars, entry, bufVars, detVars, havocVars, passed_det, offered>>

EFF_APOS(p) == p \div 2 ^ EFF_MAP_SCALE2
Slots == 0..EFF_APOS(len - 1)

\* The map is set up before the first byte and made dense after the last.
Flip8 ==
  LET set == IF i = 0 THEN {0, EFF_APOS(len - 1)} ELSE eff_map
      has == entry.dumb_mode \/ len < EFF_MIN_LEN \/ i \in entry.live
      map == IF has THEN set \cup {EFF_APOS(i)} ELSE set
      cnt == Cardinality(map)
  IN /\ stage = "flip8"
     /\ tried' = tried \cup {Complement(out_buf, i, 1)}
     /\ eff_map' = IF i = len - 1 /\ cnt # Cardinality(Slots)
                      /\ (cnt * 100) \div Cardinality(Slots) > EFF_MAX_PERC
                   THEN Slots ELSE map
     /\ GoOn(len)
     /\ UNCHANGED <<autoVars, entry, bufVars, a_collect, prev_cksum,
                    havocVars, passed_det, offered>>

\* Mutant: the byte that starts the word decides.
EffectiveFirst(at, n) == EFF_APOS(at) \in eff_map

Effective(at, n) == \E p \in at..(at + n - 1) : EFF_APOS(p) \in eff_map

\* The word of n bytes at the byte the stage is at.
At(n) == SubSeq(out_buf, i + 1, i + n)

\* A stage that changes the word it is at to each of the given ones.
Walk(s, n, words) ==
  /\ stage = s
  /\ IF len < n
     THEN Skip(s) /\ UNCHANGED tried
     ELSE /\ tried' = IF Effective(i, n)
                      THEN tried \cup {Put(out_buf, i, w) : w \in words}
                      ELSE tried
          /\ GoOn(len - n + 1)
  /\ UNCHANGED <<autoVars, entry, bufVars, detVars, havocVars, passed_det, offered>>

Flip16 == Walk("flip16", 2, {Complement(At(2), 0, 2)})
Flip32 == Walk("flip32", 4, {Complement(At(4), 0, 4)})

Deltas == (-ARITH_MAX..ARITH_MAX) \ {0}
Sum(w, d) == Word((Value(w) + d) % 2 ^ (W * Len(w)), Len(w))
\* ^ of two words works byte by byte.
WordXor(u, v) == [k \in DOMAIN u |-> XorOf(u[k], v[k])]
Distinct(u, v) == ~could_be_bitflip(Value(WordXor(u, v)))

\* d changes more than the lower half of w, which shorter words have covered.
Carries(w, d) ==
  LET half == IF Len(w) = 1 THEN 1 ELSE 2 ^ ((W * Len(w)) \div 2)
  IN IF d > 0 THEN (Value(w) % half) + d >= half ELSE Value(w) % half < -d

Arith(w) ==
  {Sum(w, d) : d \in {x \in Deltas : Carries(w, x) /\ Distinct(w, Sum(w, x))}}
    \cup {Swap(Sum(Swap(w), d)) :
            d \in {x \in Deltas : Carries(Swap(w), x) /\ Distinct(w, Swap(Sum(Swap(w), x)))}}

\* With AFL_NO_ARITH these stages, and the longer interesting values, are left out.
Arith8  == ~entry.no_arith /\ Walk("arith8", 1, Arith(At(1)))
Arith16 == ~entry.no_arith /\ Walk("arith16", 2, Arith(At(2)))
Arith32 == ~entry.no_arith /\ Walk("arith32", 4, Arith(At(4)))

\* For a byte there is no table before its own.
Interesting(w, table) ==
  LET le == {Word(v, Len(w)) : v \in table}
      Fresh(u, check_le) ==
        /\ Distinct(w, u) /\ ~could_be_arith(w, u)
        /\ Len(w) > 1 => ~could_be_interest(w, u, check_le)
  IN {u \in le : Fresh(u, FALSE)}
       \cup {Swap(u) : u \in {x \in le : x # Swap(x) /\ Fresh(Swap(x), TRUE)}}

Int8  == Walk("int8", 1, Interesting(At(1), interesting_8))
Int16 == ~entry.no_arith /\ Walk("int16", 2, Interesting(At(2), interesting_16))
Int32 == ~entry.no_arith /\ Walk("int32", 4, Interesting(At(4), interesting_32))

NoArith ==
  /\ entry.no_arith
  /\ \E s \in {"arith8", "arith16", "arith32", "int16", "int32"} : Skip(s)
  /\ UNCHANGED <<autoVars, entry, bufVars, detVars, havocVars, passed_det, tried, offered>>

-----------------------------------------------------------------------------
(* The dictionary stages. *)

\* The orders qsort may give, by length.
Sorted(tokens) ==
  {ts \in SetToSeqs(tokens) : \A m, n \in DOMAIN ts : m < n => Len(ts[m]) <= Len(ts[n])}

\* No room, already there, or without any effect.
Useless(t, buf) ==
  \/ Len(t) > len - i
  \/ SubSeq(buf, i + 1, i + Len(t)) = t
  \/ ~Effective(i, Len(t))

\* Token after token at byte i; a longer one covers what a shorter one left.
Overwritten(ts) ==
  LET f[k \in 0..Len(ts)] ==
        IF k = 0 THEN [buf |-> out_buf, last |-> 0, ran |-> {}]
        ELSE IF Useless(ts[k], f[k - 1].buf) THEN f[k - 1]
        ELSE LET buf == Put(f[k - 1].buf, i, ts[k])
             IN [buf |-> buf, last |-> Len(ts[k]), ran |-> f[k - 1].ran \cup {buf}]
  IN f[Len(ts)]

Overwrite(s, tokens) ==
  /\ stage = s
  /\ IF tokens = {}
     THEN Skip(s) /\ UNCHANGED <<out_buf, tried>>
     ELSE \E ts \in Sorted(tokens) :
            /\ tried' = tried \cup Overwritten(ts).ran
            /\ out_buf' = Put(Overwritten(ts).buf, i,
                              SubSeq(in_buf, i + 1, i + Overwritten(ts).last))
            /\ GoOn(len)
  /\ UNCHANGED <<autoVars, entry, in_buf, detVars, havocVars, passed_det, offered>>

\* With too many tokens each is left out at random.
OverwriteExtras ==
  \E tokens \in IF Cardinality(extras) > MAX_DET_EXTRAS THEN SUBSET extras \ {{}} ELSE {extras} :
    Overwrite("ext_UO", tokens)

OverwriteAuto == Overwrite("ext_AO", front)

InsertExtras ==
  /\ stage = "ext_UI"
  /\ IF extras = {}
     THEN Skip("ext_UI") /\ UNCHANGED tried
     ELSE /\ tried' = tried \cup
               {SubSeq(out_buf, 1, i) \o t \o SubSeq(out_buf, i + 1, len) :
                  t \in {u \in extras : len + Len(u) <= MAX_FILE}}
          /\ GoOn(len + 1)
  /\ UNCHANGED <<autoVars, entry, bufVars, detVars, havocVars, passed_det, offered>>

PassedDet ==
  /\ stage = "passed"
  /\ passed_det' = TRUE
  /\ tried' = {}
  /\ stage' = "havoc"
  /\ UNCHANGED <<autoVars, entry, i, bufVars, detVars, havocVars, offered>>

-----------------------------------------------------------------------------
(* Havoc and splicing. *)

HavocStart ==
  /\ stage = "havoc"
  /\ perf_score' = IF splice_cycle = 0 THEN perf_score ELSE orig_perf
  /\ LET cycles == IF splice_cycle > 0 THEN SPLICE_HAVOC
                   ELSE IF doing_det THEN HAVOC_CYCLES_INIT ELSE HAVOC_CYCLES
     IN stage_max' = GE(((cycles * perf_score') \div havoc_div) \div 100, HAVOC_MIN)
  /\ stage_cur' = 0
  /\ temp_len' = len
  /\ stage' = "round"
  /\ UNCHANGED <<autoVars, entry, i, bufVars, detVars, orig_perf, doing_det, tweaks,
                 splice_cycle, passed_det, tried, offered>>

Round ==
  /\ stage = "round"
  /\ IF stage_cur < stage_max
     THEN /\ \E pow \in 1..HAVOC_STACK_POW2 : tweaks' = 2 ^ pow
          /\ stage' = "tweak"
     ELSE stage' = "splice" /\ UNCHANGED tweaks
  /\ UNCHANGED <<autoVars, entry, i, bufVars, detVars, stage_cur, stage_max, perf_score,
                 orig_perf, doing_det, temp_len, splice_cycle, passed_det, tried, offered>>

\* Mutant: a limit below the smallest block is not noticed.
BlockLenAny(limit) ==
  UNION {blk[1]..blk[2] :
           blk \in {<<1, HAVOC_BLK_SMALL>>, <<HAVOC_BLK_SMALL, HAVOC_BLK_MEDIUM>>,
                    <<HAVOC_BLK_MEDIUM, HAVOC_BLK_LARGE>>, <<HAVOC_BLK_LARGE, HAVOC_BLK_XL>>}}

choose_block_len(limit) ==
  UNION {(IF blk[1] >= limit THEN 1 ELSE blk[1])..LE(blk[2], limit) :
           blk \in {<<1, HAVOC_BLK_SMALL>>, <<HAVOC_BLK_SMALL, HAVOC_BLK_MEDIUM>>,
                    <<HAVOC_BLK_MEDIUM, HAVOC_BLK_LARGE>>, <<HAVOC_BLK_LARGE, HAVOC_BLK_XL>>}}

\* Flips, values, sums, copies and tokens over what is there.
InPlace == {temp_len}
Deleted == IF temp_len < 2 THEN {} ELSE {temp_len - n : n \in choose_block_len(temp_len - 1)}
Cloned ==
  IF temp_len + HAVOC_BLK_XL >= MAX_FILE THEN {}
  ELSE {temp_len + n : n \in choose_block_len(temp_len) \cup choose_block_len(HAVOC_BLK_XL)}
Inserted ==
  {n \in {temp_len + Len(t) : t \in extras \cup DOMAIN a_extras} : n < MAX_FILE}

Tweak ==
  /\ stage = "tweak" /\ tweaks > 0
  /\ temp_len' \in InPlace \cup Deleted \cup Cloned \cup Inserted
  /\ out_buf' = <<>>
  /\ tweaks' = tweaks - 1
  /\ UNCHANGED <<autoVars, entry, stage, i, in_buf, detVars, stage_cur, stage_max,
                 perf_score, orig_perf, doing_det, splice_cycle, passed_det, tried, offered>>

\* Mutant: a find always doubles the rounds.
HavocRunFurther ==
  /\ stage = "tweak" /\ tweaks = 0
  /\ out_buf' = in_buf /\ temp_len' = len
  /\ stage_cur' = stage_cur + 1
  /\ \E found \in BOOLEAN :
       /\ stage_max' = IF found THEN 2 * stage_max ELSE stage_max
       /\ perf_score' = IF found THEN 2 * perf_score ELSE perf_score
  /\ stage' = "round"
  /\ UNCHANGED <<autoVars, entry, i, in_buf, detVars, orig_perf, doing_det, tweaks,
                 splice_cycle, passed_det, tried, offered>>

\* The buffer is run and restored; a find doubles the rounds, up to a limit.
HavocRun ==
  /\ stage = "tweak" /\ tweaks = 0
  /\ out_buf' = in_buf /\ temp_len' = len
  /\ stage_cur' = stage_cur + 1
  /\ \E found \in BOOLEAN :
       LET more == found /\ perf_score <= HAVOC_MAX_MULT * 100
       IN /\ stage_max' = IF more THEN 2 * stage_max ELSE stage_max
          /\ perf_score' = IF more THEN 2 * perf_score ELSE perf_score
  /\ stage' = "round"
  /\ UNCHANGED <<autoVars, entry, i, in_buf, detVars, orig_perf, doing_det, tweaks,
                 splice_cycle, passed_det, tried, offered>>

\* The differing bytes of two buffers, from 0.
Diffs(u, v) == {p \in 0..(LE(Len(u), Len(v)) - 1) : u[p + 1] # v[p + 1]}

locate_diffs(u, v) ==
  IF Diffs(u, v) = {} THEN <<-1, -1>> ELSE <<Min(Diffs(u, v)), Max(Diffs(u, v))>>

\* Mutant: only the first cycle is counted.
SpliceForever ==
  /\ stage = "splice"
  /\ splice_cycle < SPLICE_CYCLES
  /\ Others # {} /\ Len(entry.buf) > 1
  /\ splice_cycle' = 1
  /\ \/ /\ in_buf' = entry.buf
        /\ out_buf' = <<>>
        /\ UNCHANGED stage
     \/ \E target \in {t \in Others : Len(t) >= 2} :
          /\ Diffs(entry.buf, target) # {}
          /\ in_buf' = SubSeq(entry.buf, 1, 1) \o SubSeq(target, 2, Len(target))
          /\ out_buf' = in_buf'
          /\ stage' = "havoc"
  /\ UNCHANGED <<autoVars, entry, i, detVars, stage_cur, stage_max, perf_score, orig_perf,
                 doing_det, temp_len, tweaks, passed_det, tried, offered>>

\* in_buf is that of the entry again; another test case is taken, or none found,
\* and its end is put behind the beginning of the entry.
Splice ==
  /\ stage = "splice"
  /\ splice_cycle < SPLICE_CYCLES
  /\ Others # {} /\ Len(entry.buf) > 1
  /\ splice_cycle' = splice_cycle + 1
  /\ \/ /\ in_buf' = entry.buf
        /\ UNCHANGED <<stage, out_buf>>
     \/ \E target \in {t \in Others : Len(t) >= 2} :
          LET f_diff == locate_diffs(entry.buf, target)[1]
              l_diff == locate_diffs(entry.buf, target)[2]
          IN /\ f_diff >= 0 /\ l_diff >= 2 /\ f_diff # l_diff
             /\ \E split_at \in f_diff..(l_diff - 1) :
                  in_buf' = SubSeq(entry.buf, 1, split_at)
                              \o SubSeq(target, split_at + 1, Len(target))
             /\ out_buf' = in_buf'
             /\ stage' = "havoc"
  /\ UNCHANGED <<autoVars, entry, i, detVars, stage_cur, stage_max, perf_score, orig_perf,
                 doing_det, temp_len, tweaks, passed_det, tried, offered>>

\* use_splicing may be off; it does not change while fuzz_one runs.
Return ==
  /\ stage = "splice"
  /\ splice_cycle \in {0, SPLICE_CYCLES} \/ Others = {} \/ Len(entry.buf) <= 1
  /\ stage' = "over"
  /\ UNCHANGED <<autoVars, entry, i, bufVars, detVars, havocVars, passed_det, tried, offered>>

\* common_fuzz_stuff: Ctrl-C, too many timeouts in a row, or SIGUSR1.
Abandon ==
  /\ stage \in {Order[n] : n \in 1..15} \cup {"tweak"}
  /\ stage' = "over"
  /\ tried' = {} /\ out_buf' = <<>>
  /\ UNCHANGED <<autoVars, entry, i, in_buf, detVars, havocVars, passed_det, offered>>

\* Between two entries, and once a minute by show_stats, also in a stage.
Save ==
  /\ stage \notin {"load", "load extras"}
  /\ save_auto
  /\ UNCHANGED <<entry, stage, i, bufVars, detVars, havocVars, passed_det, tried, offered>>

-----------------------------------------------------------------------------

Deterministic ==
  \/ Flip1 \/ FlipMore \/ Flip8 \/ Flip16 \/ Flip32
  \/ Arith8 \/ Arith16 \/ Arith32 \/ Int8 \/ Int16 \/ Int32 \/ NoArith
  \/ OverwriteExtras \/ InsertExtras \/ OverwriteAuto \/ PassedDet

Havoc == HavocStart \/ Round \/ Tweak \/ HavocRun \/ Splice \/ Return

Next == Load \/ LoadExtras \/ Begin \/ Deterministic \/ Havoc \/ Abandon \/ Save

Spec == Init /\ [][Next]_vars /\ WF_vars(Next)

-----------------------------------------------------------------------------
(* Properties. *)

\* The buffers agree in length and content whenever a stage begins or goes on,
\* so that what is run differs from the entry by one change (or, in havoc, by
\* one round of tweaks); spliced, it differs from the entry anyway; a buffer is
\* never empty or too large; and finds do not prolong havoc without bound.
FuzzInv ==
  /\ stage \notin {"tweak", "splice", "over"} => out_buf = in_buf
  /\ stage \in {Order[n] : n \in DOMAIN Order} => in_buf = entry.buf
  /\ stage \in {"havoc", "round", "tweak"} => (splice_cycle = 0 <=> in_buf = entry.buf)
  /\ stage \in {"round", "tweak"} => temp_len \in 1..MAX_FILE
  /\ perf_score <= 2 * HAVOC_MAX_MULT * 100
  /\ stage_cur <= stage_max

Bytes(u, v) == {p \in DOMAIN u : u[p] # v[p]}

\* Two or four bits in a row across the border of two bytes.  could_be_bitflip
\* counts them from the lowest, FLIP_BIT from the highest: no flip makes them.
AcrossBytes(u, v) ==
  \E sh \in 0..(W * Len(u) - 1), n \in {2, 4} :
    /\ sh \div W # (sh + n - 1) \div W
    /\ \E at \in 0..(Len(u) - 1), size \in {2, 4} :
         /\ at + size <= Len(u)
         /\ Value(WordXor(SubSeq(u, at + 1, at + size), SubSeq(v, at + 1, at + size)))
              = Ones(n, sh)

\* Every sum, value and token the stages are for, before anything is left out.
Wanted ==
  LET buf == entry.buf
      Places(n) == 0..(len - n)
      Old(at, n) == SubSeq(buf, at + 1, at + n)
      Sums(w) == {Sum(w, d) : d \in Deltas} \cup {Swap(Sum(Swap(w), d)) : d \in Deltas}
      Values(table, n) == {Word(v, n) : v \in table} \cup {Swap(Word(v, n)) : v \in table}
      Changed(at, words) == {Put(buf, at, w) : w \in words}
  IN (UNION {UNION {Changed(at, Sums(Old(at, n))) : at \in Places(n)} : n \in {1, 2, 4}})
       \cup (UNION {Changed(at, Values(interesting_8, 1)) : at \in Places(1)})
       \cup (UNION {Changed(at, Values(interesting_16, 2)) : at \in Places(2)})
       \cup (UNION {Changed(at, Values(interesting_32, 4)) : at \in Places(4)})
       \cup (UNION {{Put(buf, at, t) : at \in Places(Len(t))} : t \in extras \cup front})

\* Leaving out what an earlier stage has done loses nothing: when the entry is
\* marked as done, every change the stages are for has been run, unless it only
\* touches bytes that have no effect, or looks like a flip that is none.
NothingSkipped ==
  stage = "passed" /\ ~entry.no_arith /\ Cardinality(extras) <= MAX_DET_EXTRAS =>
    \A buf \in Wanted \ tried :
      \/ \A p \in Bytes(buf, entry.buf) : p - 1 \notin entry.live
      \/ AcrossBytes(buf, entry.buf)

\* The bytes from f to l give one checksum other than the entry's, and no more
\* do; their number is right.
TokenRun(f, l) ==
  /\ l - f + 1 \in MIN_AUTO_EXTRA..MAX_AUTO_EXTRA
  /\ entry.sum[f] # 0
  /\ \A p \in f..l : entry.sum[p] = entry.sum[f]
  /\ f > 1 => entry.sum[f - 1] # entry.sum[f]
  /\ l < len => entry.sum[l + 1] # entry.sum[f]

\* The tokens offered to the dictionary are the longest runs of neighbors that
\* give one checksum other than the entry's, if their length is right.
TokensAreRuns ==
  stage = "flip2" /\ ~entry.dumb_mode =>
    offered = {SubSeq(entry.buf, r[1], r[2]) :
                 r \in {s \in (1..len) \X (1..len) : TokenRun(s[1], s[2])}}

\* fuzz_one returns, although finds prolong it and splicing may fail.
Returns == <>(stage = "over")
=============================================================================
