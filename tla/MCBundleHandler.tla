---------------------------- MODULE MCBundleHandler ----------------------------
(***************************************************************************)
(* BundleHandler for TLC: bytes of four values, so that a short has 16 and *)
(* a string of 8 bytes is too long; the numbers are those at the limits.   *)
(***************************************************************************)
EXTENDS BundleHandler

Limits(n) == {-(Span[n] \div 2), -1, 0, 1, 6, (Span[n] \div 2) - 1}

BundleIdLimits == {-8, 7}
IdLimits == {-32768, -1, 1, 32767}
ByteLimits == {-2, -1, 0, 1}
IntLimits == Limits(4)
LongLimits == Limits(8)

Repeat(c, n) == [i \in 1..n |-> c]

\* Lengths around half the range of a short, and around all of it.
SomeTexts ==
  {Null, <<"a", "e", "a">>, <<"0">>, <<"0", "e">>}
    \cup {Repeat("a", n) : n \in {0, 1, 6, 7, 8, 9, 15, 16, 17, 23, 24}}
    \cup {Repeat("e", n) : n \in {1, 3, 4, 8, 9, 12}}
    \cup {<<"a">> \o Repeat("e", n) : n \in {3, 8, 9}}

===============================================================================
