----------------------------- MODULE AutoExtras -----------------------------
(***************************************************************************)
(* The dictionaries of afl-fuzz: the user's tokens, and the ones it        *)
(* collects itself, a cache that is sorted by use and evicts at random     *)
(* from its second half.                                                   *)
(*                                                                         *)
(* The array a_extras is a function from tokens to their use counts.  Of   *)
(* its order the code needs which tokens come first, the ones that are     *)
(* saved and tried everywhere; which of two equally used tokens that is    *)
(* depends on qsort.                                                       *)
(***************************************************************************)
EXTENDS Integers, Sequences, FiniteSets, Functions

CONSTANTS
  W,                   \* bits of a byte: 8 in the code
  Lower,               \* tolower
  interesting_16, interesting_32,
  MIN_AUTO_EXTRA, MAX_AUTO_EXTRA,    \* 3 and 32: the lengths of a token
  USE_AUTO_EXTRAS, MAX_AUTO_EXTRAS   \* 50 and 500 in the code

ASSUME AutoAssumption ==
  /\ USE_AUTO_EXTRAS \in Nat \ {0}
  /\ MAX_AUTO_EXTRAS \in Nat /\ 2 * USE_AUTO_EXTRAS <= MAX_AUTO_EXTRAS

VARIABLES
  extras,          \* the user's tokens
  a_extras,        \* collected tokens, with hit_cnt
  front,           \* the first USE_AUTO_EXTRAS of them
  auto_changed,
  saved            \* queue/.state/auto_extras

autoVars == <<extras, a_extras, front, auto_changed, saved>>

\* Little endian, as on the machines afl-fuzz runs on.
Value(w) == LET v[n \in 0..Len(w)] ==
                  IF n = 0 THEN 0 ELSE v[n - 1] + w[n] * 2 ^ (W * (n - 1))
            IN v[Len(w)]
Word(v, n) == [k \in 1..n |-> (v \div 2 ^ (W * (k - 1))) % 2 ^ W]
Swap(w) == [k \in DOMAIN w |-> w[Len(w) + 1 - k]]

\* A value of the tables, in either byte order.  A signed 16-bit value that is
\* negative is never equal to the unsigned one it is compared with.
Builtin(w) ==
  \/ Len(w) = 2 /\ \E v \in interesting_16 : Value(w) = v \/ Swap(w) = Word(v, 2)
  \/ Len(w) = 4 /\ \E v \in interesting_32 : Word(v, 4) \in {w, Swap(w)}

Same(t, u) == Len(t) = Len(u) /\ \A i \in DOMAIN t : Lower[t[i]] = Lower[u[i]]

\* Runs of one byte, built-in values, and the user's tokens are not collected.
Rejected(t) ==
  \/ \A i \in DOMAIN t : t[i] = t[1]
  \/ Builtin(t)
  \/ \E e \in extras : Same(e, t)

\* F may be what qsort puts first.
Leads(F, a) ==
  /\ F \subseteq DOMAIN a
  /\ Cardinality(F) = IF Cardinality(DOMAIN a) < USE_AUTO_EXTRAS
                      THEN Cardinality(DOMAIN a) ELSE USE_AUTO_EXTRAS
  /\ \A t \in F, u \in DOMAIN a \ F : a[t] >= a[u]

\* t may stand in the second half of the array.
Evictable(t) ==
  /\ t \notin front
  /\ Cardinality({u \in DOMAIN a_extras \ {t} : a_extras[u] >= a_extras[t]})
       >= MAX_AUTO_EXTRAS \div 2

New(t, old) == [u \in (DOMAIN a_extras \ old) \cup {t} |-> IF u = t THEN 0 ELSE a_extras[u]]

\* Mutant: the comparison with the collected tokens heeds the case.
CollectExactly(t) ==
  \/ /\ t \in DOMAIN a_extras
     /\ a_extras' = [a_extras EXCEPT ![t] = @ + 1]
  \/ /\ t \notin DOMAIN a_extras
     /\ \/ /\ Cardinality(DOMAIN a_extras) < MAX_AUTO_EXTRAS
           /\ a_extras' = New(t, {})
        \/ /\ Cardinality(DOMAIN a_extras) = MAX_AUTO_EXTRAS
           /\ \E old \in DOMAIN a_extras : Evictable(old) /\ a_extras' = New(t, {old})

Collect(t) ==
  \/ \E u \in DOMAIN a_extras :
       Same(u, t) /\ a_extras' = [a_extras EXCEPT ![u] = @ + 1]
  \/ /\ \A u \in DOMAIN a_extras : ~Same(u, t)
     /\ \/ /\ Cardinality(DOMAIN a_extras) < MAX_AUTO_EXTRAS
           /\ a_extras' = New(t, {})
        \/ /\ Cardinality(DOMAIN a_extras) = MAX_AUTO_EXTRAS
           /\ \E old \in DOMAIN a_extras : Evictable(old) /\ a_extras' = New(t, {old})

maybe_add_auto(t) ==
  /\ IF Rejected(t)
     THEN UNCHANGED <<a_extras, front, auto_changed>>
     ELSE /\ Collect(t)
          /\ front' \in SUBSET DOMAIN a_extras' /\ Leads(front', a_extras')
          /\ auto_changed' = TRUE
  /\ UNCHANGED <<extras, saved>>

save_auto ==
  /\ auto_changed
  /\ auto_changed' = FALSE
  /\ saved' = front
  /\ UNCHANGED <<extras, a_extras, front>>

\* What an earlier session saved, before the user's tokens are there.  A session
\* killed in save_auto leaves new files before old ones, and so a token twice; the
\* array is not full after so few.
load_auto(files) ==
  LET read == {k \in DOMAIN files :
                 /\ k <= USE_AUTO_EXTRAS
                 /\ Len(files[k]) \in MIN_AUTO_EXTRA..MAX_AUTO_EXTRA
                 /\ ~Rejected(files[k])}
      new == {k \in read : \A j \in read : j < k => ~Same(files[j], files[k])}
  IN /\ front' = {files[k] : k \in new}
     /\ a_extras' = [t \in front' |-> Cardinality({j \in read : Same(files[j], t)}) - 1]
     /\ auto_changed' = (read # {})
     /\ UNCHANGED <<extras, saved>>

load_extras(tokens) ==
  /\ extras' = tokens
  /\ UNCHANGED <<a_extras, front, auto_changed, saved>>

\* The cache stays within its limit and holds no token twice, whatever the case
\* of its letters; the tokens in front are the most used; and what is saved is
\* what is in front unless a save is due.
AutoInv ==
  /\ Cardinality(DOMAIN a_extras) <= MAX_AUTO_EXTRAS
  /\ \A t, u \in DOMAIN a_extras : Same(t, u) => t = u
  /\ Leads(front, a_extras)
  /\ ~auto_changed => saved = front
=============================================================================
