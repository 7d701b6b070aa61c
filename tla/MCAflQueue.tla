----------------------------- MODULE MCAflQueue -----------------------------
EXTENDS AflQueue, TLC

CONSTANTS a, b, c, d

T(s) == [i \in Bits |-> s[i + 1]]

FourInputs == {a, b, c, d}
Lengths == [x \in Inputs |-> CASE x = a -> 4 [] x = b -> 3 [] x = c -> 2 [] x = d -> 1]
TwoSeeds == <<a, b>>
OtherSeed == <<c>>

\* Every input has one trace: b also finds the other byte, c the other bucket,
\* and d is a, trimmed.
Steady ==
  [x \in Inputs |-> CASE x = a -> {T(<<1, 0>>)} [] x = b -> {T(<<1, 1>>)}
                      [] x = c -> {T(<<128, 0>>)} [] x = d -> {T(<<1, 0>>)}]

\* a and its trimmed form d flicker in two bytes; only the seed c shows the third.
FlickeringThree ==
  [x \in Inputs |-> CASE x = a -> {T(<<1, 0, 0>>), T(<<0, 1, 0>>)}
                      [] x = b -> {T(<<1, 1, 0>>)} [] x = c -> {T(<<0, 0, 1>>)}
                      [] x = d -> {T(<<0, 1, 0>>)}]
=============================================================================
