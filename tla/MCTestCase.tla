----------------------------- MODULE MCTestCase -----------------------------
(***************************************************************************)
(* The programs that work on one test case for TLC, one of them at a time: *)
(* afl-fuzz in fuzz_one, afl-tmin and afl-analyze.  A byte has four bits   *)
(* for the first, with tables and limits to match: the highest and lowest  *)
(* values, -1, 0, 1, and sizes on both sides.                              *)
(***************************************************************************)
EXTENDS FuzzOne, Tmin, Analyze, Bitwise

VARIABLE program

-----------------------------------------------------------------------------
(* fuzz_one. *)

MCXor(a, b) == a ^^ b
MCLower == [x \in 0..15 |-> IF x = 10 THEN 11 ELSE x]

Int8s == {-8, -1, 0, 1, 7}
Int16s == Int8s \cup {-128, -9, 8, 16, 127}
Int32s == Int16s \cup {-32768, 255, 4102}

Case(buf, sum, live) ==
  [buf |-> buf, sum |-> sum, live |-> live, user |-> {}, auto |-> <<>>,
   exec_us |-> 100, bitmap_size |-> 100, handicap |-> 0, depth |-> 0, valid |-> FALSE,
   dumb_mode |-> FALSE, no_arith |-> FALSE, skip_det |-> FALSE]
Tokens == {<<4>>, <<4, 9>>, <<10, 3, 10>>}

\* Carries, borrows and no-ops at the borders.
Numbers ==
  {[Case(b, <<0, 0, 0, 0>>, {0, 1, 2, 3}) EXCEPT !.user = Tokens] :
     b \in {x \in [1..4 -> {0, 8, 15}] : x[2] # 8 /\ x[3] # 15}}

\* Every way in which four bytes may matter, up to the names of the checksums.
Marked == <<10, 3, 10, 4>>
Sums == {s \in [1..4 -> 0..2] : \A p \in 1..4 : s[p] = 2 => \E q \in 1..(p - 1) : s[q] = 1}
Targets == {[Case(Marked, sum, {1}) EXCEPT !.auto = <<<<11, 3>>>>] : sum \in Sums}
Effect(live) == [Case(<<10, 3, 10, 4, 7>>, <<1, 1, 1, 2, 2>>, live) EXCEPT !.auto = <<<<11, 3>>>>]
Effects ==
  {Effect(live) : live \in {{}, {1}, {1, 2}, {0, 3}}}
    \cup {[Case(Marked, <<1, 1, 1, 2>>, {1}) EXCEPT !.user = Tokens \cup {<<7, 7>>}]}

Short == {Case(<<3>>, <<1>>, {0}), Case(<<3, 8, 1>>, <<1, 1, 1>>, {1})}

Options ==
  {[Case(Marked, <<1, 1, 2, 2>>, {0}) EXCEPT !.dumb_mode = d, !.no_arith = n, !.skip_det = s] :
     d, n, s \in BOOLEAN}

\* Slow and fast, small and large, late and deep.
Scores ==
  {[Case(<<10, 3>>, <<0, 0>>, {0}) EXCEPT !.skip_det = TRUE, !.exec_us = u, !.bitmap_size = b,
                                          !.handicap = h, !.depth = d] :
     u \in {30, 300}, b \in {30, 210}, h \in {0, 1, 5}, d \in {0, 9}}
    \cup {[Case(<<10, 3>>, <<0, 0>>, {0}) EXCEPT !.skip_det = TRUE, !.valid = TRUE]}

MCEntries == Numbers \cup Targets \cup Effects \cup Short \cup Options \cup Scores
MCOthers == {<<3>>, Marked, <<10, 3, 9, 9>>}

-----------------------------------------------------------------------------
(* afl-tmin, on bytes of three values; 1 stands for the digit '0'. *)

Texts == UNION {[1..n -> 0..2] : n \in 0..5}
Has(t, w) == \E f \in [DOMAIN w -> DOMAIN t] :
  /\ \A k, l \in DOMAIN w : k < l => f[k] < f[l]
  /\ \A k \in DOMAIN w : t[f[k]] = w[k]
Run(crash, path, time) == [crash |-> crash, path |-> path, time |-> time]
One(b) == IF b THEN 1 ELSE 0

\* The path depends on a pattern, the length or a sum; others crash, are slow, or
\* leave no trace.
MCResult(target, t) ==
  CASE target[1] = "has" -> Run(FALSE, 1 + One(Has(t, target[2])), "fast")
    [] target[1] = "length" ->
         Run(Len(t) > 1, 1 + (Len(t) % target[2]), IF Len(t) = 3 THEN target[3] ELSE "fast")
    [] target[1] = "pair" ->
         Run(Has(t, <<2, 2>>), One(Has(t, <<0>>)), IF Has(t, <<1, 1>>) THEN "slow" ELSE "fast")
    [] target[1] = "weights" ->
         Run(FALSE, 1 + (SumFunction([k \in DOMAIN t |-> k * t[k]]) % 3), "fast")

Programs ==
  {<<"pair">>, <<"weights">>}
    \cup {<<"has", w>> : w \in {<<2, 0>>, <<0, 1, 0>>}}
    \cup {<<"length", k, how>> : k \in {2, 3}, how \in {"slow", "hang"}}

\* One of them takes a third pass.
MCCases ==
  {c \in [data : [1..4 -> 0..2] \cup {<<0, 2, 2, 0, 1>>}, target : Programs, exact_mode : BOOLEAN] :
     c.target[1] \notin {"pair", "length"} => c.exact_mode}

-----------------------------------------------------------------------------
(* afl-analyze, on files of at most six bytes, which are a long block, and  *)
(* targets that read them in the ways the labels are for.                   *)

Path(n) == [crash |-> FALSE, trace |-> <<1, n>>, time |-> "fast"]
Matched(t, w) == Cardinality({n \in DOMAIN w : SubSeq(t, 1, n) = SubSeq(w, 1, n)})
LengthOf(t) == t[1] + 256 * t[2]

\* The hit count of an edge says what the target has found.
MCReading(target, t) ==
  CASE target[1] = "ignore" -> Path(0)
    [] target[1] = "checksum" -> Path(One(SumFunction(t) % 256 = target[2]))
    [] target[1] = "keyword" -> Path(Matched(t, target[2]))
    [] target[1] = "length" ->
         Path(IF LengthOf(t) = 0 THEN 0 ELSE One(LengthOf(t) <= Len(t)) + 1)
    [] target[1] = "loop" -> Path(t[1])
    [] target[1] = "letters" -> Path(Cardinality({n \in DOMAIN t : t[n] \in 65..90}))
    [] target[1] = "crash" -> [Path(One(t[2] >= 16)) EXCEPT !.crash = t[1] >= 128]
    [] target[1] = "time" -> [Path(0) EXCEPT !.time = IF t[1] \in target[2] THEN target[3] ELSE "fast"]
    [] target[1] = "empty" -> [Path(0) EXCEPT !.trace = <<0, 0>>]

Input(data, target) == [data |-> data, target |-> target, edges_only |-> FALSE]

\* Values that wrap around, and integers of either byte order.
Pairs == [1..2 -> {0, 2, 15, 240}]
Fours == {<<0, 0, 0, 0>>, <<4, 0, 0, 0>>, <<0, 0, 0, 3>>, <<9, 200, 9, 9>>, <<9, 7, 9, 9>>}
Blocks == {<<1>>, <<7, 8, 9>>, <<7, 8, 9, 250, 1>>, <<65, 8, 9, 250, 1, 66>>}

Checksums == {Input(d, <<"checksum", SumFunction(d) % 256>>) : d \in Pairs \cup Fours \cup Blocks}
Keywords ==
  {Input(d, <<"keyword", w>>) : d \in {<<65, 66, 67>>, <<65, 66, 9, 67>>}, w \in {<<65>>, <<65, 66, 67>>}}
Readers ==
  {Input(d, <<name>>) : d \in Pairs \cup Fours, name \in {"ignore", "length", "loop", "crash"}}
    \cup {Input(d, <<"letters">>) : d \in {<<65, 90, 81>>, <<81, 82, 9, 64>>}}
Timed ==
  {Input(<<5, 6>>, <<"time", b, how>>) :
     b \in {{5}, {4}, {250, 4}}, how \in {"hang", "slow", "no_exec"}}

MCFiles ==
  Checksums \cup Keywords \cup Readers \cup Timed \cup {Input(<<1, 2>>, <<"empty">>)}
    \cup {[f EXCEPT !.edges_only = TRUE] : f \in Readers}

-----------------------------------------------------------------------------
(* One program at a time. *)

OneCase == CHOOSE c \in MCCases : TRUE
OneEntry == CHOOSE e \in MCEntries : TRUE
OneFile == CHOOSE f \in Files : TRUE

MCInit ==
  /\ program \in {"afl-fuzz", "afl-tmin", "afl-analyze"}
  /\ IF program = "afl-fuzz" THEN entry \in Entries ELSE entry = OneEntry
  /\ IF program = "afl-tmin" THEN case \in Cases ELSE case = OneCase
  /\ IF program = "afl-analyze" THEN file \in Files ELSE file = OneFile
  /\ Init /\ TminInit /\ AnalyzeInit

MCNext ==
  /\ \/ program = "afl-fuzz" /\ Next /\ UNCHANGED <<tminVars, analyzeVars>>
     \/ program = "afl-tmin" /\ TminNext /\ UNCHANGED <<vars, analyzeVars>>
     \/ program = "afl-analyze" /\ AnalyzeNext /\ UNCHANGED <<vars, tminVars>>
  /\ UNCHANGED program

allVars == <<vars, tminVars, analyzeVars>>

MCSpec == MCInit /\ [][MCNext]_<<allVars, program>> /\ WF_allVars(MCNext)

\* Each program is done with the test case some day.
ProgramsEnd ==
  /\ program = "afl-fuzz" => Returns
  /\ program = "afl-tmin" => Minimized
  /\ program = "afl-analyze" => Analyzed
=============================================================================
