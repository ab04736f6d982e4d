------------------------------- MODULE Recursion -------------------------------
(***************************************************************************)
(* Induction and recursion over the natural numbers, for facts about the   *)
(* recursive functions of the models.  The predicate of an induction is    *)
(* the set of numbers it holds of.                                         *)
(***************************************************************************)
EXTENDS Integers, Sequences, WellFoundedInduction, TLAPS

\* A set of natural numbers has a least element.
LEMMA HasLeast ==
  ASSUME NEW S \in SUBSET Nat, S # {}
  PROVE  \E m \in S : \A n \in S : m <= n
<1>. DEFINE Less == {ss \in Nat \X Nat : ss[1] < ss[2]}
<1>1. IsWellFoundedOn(Less, Nat)
  BY NatLessThanWellFounded DEF OpToRel
<1>2. PICK m \in S : \A n \in S : <<n, m>> \notin Less
  BY <1>1, WFMin
<1>3. ASSUME NEW n \in S PROVE m <= n
  <2>1. <<n, m>> \in Nat \X Nat => ~(n < m)
    BY <1>2
  <2>. QED BY <2>1
<1>. QED BY <1>3

\* A set that has 0, and with each number the next one, has them all.
LEMMA Induction ==
  ASSUME NEW P, 0 \in P, \A n \in Nat : n \in P => n + 1 \in P
  PROVE  Nat \subseteq P
<1>. SUFFICES ASSUME Nat \ P # {} PROVE FALSE
  OBVIOUS
<1>1. PICK m \in Nat \ P : \A n \in Nat \ P : m <= n
  BY HasLeast
<1>2. m # 0 /\ m - 1 \in Nat /\ m - 1 \in P
  BY <1>1
<1>. QED BY <1>1, <1>2

\* A set that has the empty sequence, and each sequence with one element more,
\* has them all.
LEMMA SequenceInduction ==
  ASSUME NEW S, NEW P, << >> \in P,
         \A s \in Seq(S) : \A x \in S : s \in P => Append(s, x) \in P
  PROVE  Seq(S) \subseteq P
<1>. DEFINE Q == {n \in Nat : \A s \in Seq(S) : Len(s) = n => s \in P}
<1>1. 0 \in Q
  <2>1. \A s \in Seq(S) : Len(s) = 0 => s = << >>
    OBVIOUS
  <2>. QED BY <2>1
<1>2. ASSUME NEW n \in Nat, n \in Q PROVE n + 1 \in Q
  <2>. SUFFICES ASSUME NEW s \in Seq(S), Len(s) = n + 1 PROVE s \in P
    OBVIOUS
  <2>. DEFINE front == SubSeq(s, 1, n)
  <2>1. front \in Seq(S) /\ Len(front) = n /\ s[n + 1] \in S
    OBVIOUS
  <2>2. s = Append(front, s[n + 1])
    OBVIOUS
  <2>. HIDE DEF front
  <2>. QED BY <1>2, <2>1, <2>2
<1>. HIDE DEF Q
<1>3. Nat \subseteq Q
  BY <1>1, <1>2, Induction
<1>4. ASSUME NEW s \in Seq(S) PROVE s \in P
  BY <1>3 DEF Q
<1>. QED BY <1>4

\* f obeys the recursion of base and step from 0 to n.
Obeys(f, n, T, base, step) ==
  /\ f \in [0..n -> T]
  /\ f[0] = base
  /\ \A i \in 1..n : f[i] = step[<<i, f[i-1]>>]

\* Functions that obey the same recursion agree as far as they go.
LEMMA RecursionIsUnique ==
  ASSUME NEW T, NEW base, NEW step, NEW n \in Nat, NEW m \in Nat,
         NEW f, NEW g, Obeys(f, n, T, base, step), Obeys(g, m, T, base, step),
         NEW i \in Nat, i <= n, i <= m
  PROVE  f[i] = g[i]
<1>. DEFINE P == {k \in Nat : k <= n /\ k <= m => f[k] = g[k]}
<1>1. 0 \in P
  BY DEF Obeys
<1>2. ASSUME NEW k \in Nat, k \in P PROVE k + 1 \in P
  <2>1. CASE k + 1 <= n /\ k + 1 <= m
    <3>1. f[k] = g[k]
      BY <1>2, <2>1
    <3>2. k + 1 \in 1..n /\ k + 1 \in 1..m /\ (k + 1) - 1 = k
      BY <2>1
    <3>3. /\ f[k + 1] = step[<<k + 1, f[(k + 1) - 1]>>]
          /\ g[k + 1] = step[<<k + 1, g[(k + 1) - 1]>>]
      BY <3>2 DEF Obeys
    <3>. QED BY <3>1, <3>2, <3>3
  <2>. QED BY <2>1
<1>. HIDE DEF P
<1>3. i \in P
  BY <1>1, <1>2, Induction
<1>. QED BY <1>3 DEF P

\* f obeys the recursion at every natural number.
Recursive(f, T, base, step) ==
  /\ f \in [Nat -> T]
  /\ f[0] = base
  /\ \A n \in Nat \ {0} : f[n] = step[<<n, f[n-1]>>]

\* There is such a function.
LEMMA RecursionExists ==
  ASSUME NEW T, NEW base \in T, NEW step \in [Nat \X T -> T]
  PROVE  \E f : Recursive(f, T, base, step)
<1>. DEFINE Upto(f, n) == Obeys(f, n, T, base, step)
            P == {n \in Nat : \E f : Upto(f, n)}
<1>1. 0 \in P
  <2>1. Upto([i \in 0..0 |-> base], 0)
    BY DEF Obeys
  <2>. QED BY <2>1
<1>2. ASSUME NEW n \in Nat, n \in P PROVE n + 1 \in P
  <2>1. PICK f : Upto(f, n)
    BY <1>2
  <2>. DEFINE g == [i \in 0..(n + 1) |->
                      IF i = n + 1 THEN step[<<n + 1, f[n]>>] ELSE f[i]]
  <2>2. f \in [0..n -> T] /\ f[0] = base /\ \A i \in 1..n : f[i] = step[<<i, f[i-1]>>]
    BY <2>1 DEF Obeys
  <2>3. step[<<n + 1, f[n]>>] \in T
    <3>1. <<n + 1, f[n]>> \in Nat \X T
      BY <2>2
    <3>. QED BY <3>1
  <2>4. g \in [0..(n + 1) -> T] /\ g[0] = base
    BY <2>2, <2>3
  <2>5. ASSUME NEW i \in 1..(n + 1) PROVE g[i] = step[<<i, g[i-1]>>]
    <3>1. CASE i = n + 1
      <4>1. i - 1 = n /\ n \in 0..(n + 1) /\ n # n + 1
        BY <3>1
      <4>2. g[i-1] = f[n]
        BY <4>1
      <4>3. g[i] = step[<<n + 1, f[n]>>]
        BY <3>1
      <4>. QED BY <3>1, <4>2, <4>3
    <3>2. CASE i # n + 1
      <4>1. i \in 1..n /\ g[i] = f[i] /\ g[i-1] = f[i-1]
        BY <3>2
      <4>. QED BY <2>2, <4>1
    <3>. QED BY <3>1, <3>2
  <2>6. Upto(g, n + 1)
    BY <2>4, <2>5 DEF Obeys
  <2>. QED BY <2>6
<1>3. \A n \in Nat : \E f : Upto(f, n)
  <2>. HIDE DEF P
  <2>1. Nat \subseteq P
    BY <1>1, <1>2, Induction
  <2>. QED BY <2>1 DEF P
<1>. DEFINE F(n) == CHOOSE f : Upto(f, n)
            h == [n \in Nat |-> F(n)[n]]
<1>4. \A n \in Nat : Upto(F(n), n)
  BY <1>3
<1>. HIDE DEF F
<1>5. ASSUME NEW n \in Nat PROVE h[n] \in T
  BY <1>4 DEF Obeys
<1>6. h[0] = base
  BY <1>4 DEF Obeys
<1>7. ASSUME NEW n \in Nat, n # 0 PROVE h[n] = step[<<n, h[n-1]>>]
  <2>1. F(n)[n] = step[<<n, F(n)[n-1]>>]
    <3>1. Obeys(F(n), n, T, base, step) /\ n \in 1..n
      BY <1>4, <1>7
    <3>. QED BY <3>1 DEF Obeys
  <2>2. F(n)[n-1] = F(n-1)[n-1]
    <3>1. n - 1 \in Nat /\ Upto(F(n), n) /\ Upto(F(n-1), n-1)
      BY <1>4, <1>7
    <3>. QED BY <3>1, RecursionIsUnique
  <2>. QED BY <1>7, <2>1, <2>2
<1>8. h \in [Nat -> T]
  BY <1>5
<1>. HIDE DEF h
<1>. QED BY <1>6, <1>7, <1>8 DEF Recursive


(***************************************************************************)
(* Folds over sequences.  The fold of the community modules goes through a *)
(* sequence by the greatest index of sets of its indices.                  *)
(***************************************************************************)
Greatest(S) == CHOOSE i \in S : \A j \in S : i >= j

\* The greatest number of a range, and of any set of numbers up to n.
LEMMA GreatestIs ==
  /\ \A n \in Nat : \A s \in SUBSET (1..n) : s # {} => Greatest(s) \in s /\ \A i \in s : Greatest(s) >= i
  /\ \A n \in Nat : n > 0 => Greatest(1..n) = n
<1>1. ASSUME NEW n \in Nat, NEW s \in SUBSET (1..n), s # {}
      PROVE  \E i \in s : \A j \in s : i >= j
  <2>. DEFINE S == {n - i : i \in s}
  <2>1. S \in SUBSET Nat /\ S # {}
    <3>1. \A i \in s : i \in 1..n /\ n - i \in Nat
      OBVIOUS
    <3>. QED BY <1>1, <3>1
  <2>2. PICK k \in S : \A l \in S : k <= l
    BY <2>1, HasLeast
  <2>3. PICK i \in s : k = n - i
    BY <2>2
  <2>4. ASSUME NEW j \in s PROVE i >= j
    <3>1. k <= n - j
      BY <2>2
    <3>. QED BY <2>3, <3>1
  <2>. QED BY <2>4
<1>2. ASSUME NEW n \in Nat, NEW s \in SUBSET (1..n), s # {}
      PROVE  Greatest(s) \in s /\ \A i \in s : Greatest(s) >= i
  BY <1>1, <1>2 DEF Greatest
<1>3. ASSUME NEW n \in Nat, n > 0 PROVE Greatest(1..n) = n
  <2>1. n \in 1..n /\ 1..n \in SUBSET (1..n) /\ 1..n # {}
    BY <1>3
  <2>2. Greatest(1..n) \in 1..n /\ Greatest(1..n) >= n
    BY <1>2, <2>1
  <2>. QED BY <2>2
<1>. QED BY <1>2, <1>3

\* step takes what it has and an element of S.
IsStep(step, T, S) == step \in [T \X S -> T]

\* What step makes of base with the elements of seq, one after another.
Folded(step, base, seq) ==
  LET f[i \in 0..Len(seq)] == IF i = 0 THEN base ELSE step[<<f[i-1], seq[i]>>]
  IN  f[Len(seq)]

\* f takes the steps over seq.
TakesSteps(f, T, step, base, seq) ==
  /\ f \in [0..Len(seq) -> T]
  /\ f[0] = base
  /\ \A i \in 1..Len(seq) : f[i] = step[<<f[i-1], seq[i]>>]

\* There is such a function.
LEMMA StepsExist ==
  ASSUME NEW T, NEW S, NEW step, IsStep(step, T, S), NEW base \in T, NEW seq \in Seq(S)
  PROVE  \E f : TakesSteps(f, T, step, base, seq)
<1>. DEFINE turn == [p \in Nat \X T |-> IF p[1] \in 1..Len(seq) THEN step[<<p[2], seq[p[1]]>>] ELSE base]
<1>1. turn \in [Nat \X T -> T]
  <2>1. ASSUME NEW p \in Nat \X T, p[1] \in 1..Len(seq) PROVE step[<<p[2], seq[p[1]]>>] \in T
    <3>1. <<p[2], seq[p[1]]>> \in T \X S
      BY <2>1
    <3>. QED BY <3>1 DEF IsStep
  <2>. QED BY <2>1
<1>2. PICK f : Recursive(f, T, base, turn)
  BY <1>1, RecursionExists
<1>3. f \in [Nat -> T] /\ f[0] = base /\ \A n \in Nat \ {0} : f[n] = turn[<<n, f[n-1]>>]
  BY <1>2 DEF Recursive
<1>4. ASSUME NEW i \in 1..Len(seq) PROVE f[i] = step[<<f[i-1], seq[i]>>]
  <2>1. i \in Nat \ {0} /\ i - 1 \in Nat /\ <<i, f[i-1]>> \in Nat \X T
    BY <1>3
  <2>. QED BY <1>3, <2>1
<1>. HIDE DEF turn
<1>. DEFINE g == [i \in 0..Len(seq) |-> f[i]]
<1>5. TakesSteps(g, T, step, base, seq)
  <2>1. \A i \in 1..Len(seq) : i \in 0..Len(seq) /\ i - 1 \in 0..Len(seq)
    OBVIOUS
  <2>2. g \in [0..Len(seq) -> T] /\ g[0] = base
    BY <1>3
  <2>. QED BY <1>4, <2>1, <2>2 DEF TakesSteps
<1>. QED BY <1>5

\* The first n elements are the same.
AlikeUpTo(s, t, n) == n <= Len(s) /\ n <= Len(t) /\ \A i \in 1..n : s[i] = t[i]

\* Functions that take the same steps over the same elements agree.
LEMMA StepsAgree ==
  ASSUME NEW T, NEW step, NEW base, NEW s, NEW t, Len(s) \in Nat, Len(t) \in Nat, NEW f, NEW g,
         TakesSteps(f, T, step, base, s), TakesSteps(g, T, step, base, t),
         NEW n \in Nat, AlikeUpTo(s, t, n)
  PROVE  f[n] = g[n]
<1>. DEFINE P == {k \in Nat : k <= n => f[k] = g[k]}
<1>1. 0 \in P
  BY DEF TakesSteps
<1>2. ASSUME NEW k \in Nat, k \in P PROVE k + 1 \in P
  <2>1. CASE k + 1 <= n
    <3>1. f[k] = g[k]
      BY <1>2, <2>1
    <3>2. k + 1 \in 1..Len(s) /\ k + 1 \in 1..Len(t) /\ k + 1 \in 1..n /\ (k + 1) - 1 = k
      BY <2>1 DEF AlikeUpTo
    <3>3. f[k+1] = step[<<f[(k+1)-1], s[k+1]>>] /\ g[k+1] = step[<<g[(k+1)-1], t[k+1]>>]
      BY <3>2 DEF TakesSteps
    <3>. QED BY <3>1, <3>2, <3>3 DEF AlikeUpTo
  <2>. QED BY <2>1
<1>. HIDE DEF P
<1>3. n \in P
  BY <1>1, <1>2, Induction
<1>. QED BY <1>3 DEF P

\* A fold is where the steps lead.
LEMMA FoldedIs ==
  ASSUME NEW T, NEW S, NEW step, IsStep(step, T, S), NEW base \in T, NEW seq \in Seq(S)
  PROVE  \E f : TakesSteps(f, T, step, base, seq) /\ Folded(step, base, seq) = f[Len(seq)]
<1>. DEFINE Steps(f) == f = [i \in 0..Len(seq) |-> IF i = 0 THEN base ELSE step[<<f[i-1], seq[i]>>]]
            f == CHOOSE f : Steps(f)
<1>1. Folded(step, base, seq) = f[Len(seq)]
  BY DEF Folded
<1>2. PICK g : TakesSteps(g, T, step, base, seq)
  BY StepsExist
<1>3. Steps(g)
  BY <1>2 DEF TakesSteps
<1>4. Steps(f)
  BY <1>3
<1>. HIDE DEF f
<1>. DEFINE P == {k \in Nat : k <= Len(seq) => f[k] = g[k]}
<1>5. 0 \in P
  BY <1>2, <1>4 DEF TakesSteps
<1>6. ASSUME NEW k \in Nat, k \in P PROVE k + 1 \in P
  <2>1. CASE k + 1 <= Len(seq)
    <3>1. k + 1 \in 0..Len(seq) /\ k + 1 # 0 /\ (k + 1) - 1 = k /\ f[k] = g[k]
      BY <1>6, <2>1
    <3>2. f[k+1] = step[<<f[(k+1)-1], seq[k+1]>>]
      BY <1>4, <3>1
    <3>3. g[k+1] = step[<<g[(k+1)-1], seq[k+1]>>]
      BY <1>3, <3>1
    <3>. QED BY <3>1, <3>2, <3>3
  <2>. QED BY <2>1
<1>7. Len(seq) \in P
  <2>. HIDE DEF P
  <2>. QED BY <1>5, <1>6, Induction
<1>8. f[Len(seq)] = g[Len(seq)]
  BY <1>7
<1>. QED BY <1>1, <1>2, <1>8

\* A fold over no element.
LEMMA FoldedNone ==
  ASSUME NEW T, NEW S, NEW step, IsStep(step, T, S), NEW base \in T
  PROVE  Folded(step, base, << >>) = base
<1>1. << >> \in Seq(S) /\ Len(<< >>) = 0
  OBVIOUS
<1>2. PICK f : TakesSteps(f, T, step, base, << >>) /\ Folded(step, base, << >>) = f[Len(<< >>)]
  BY <1>1, FoldedIs
<1>. QED BY <1>1, <1>2 DEF TakesSteps

\* The type of a fold.
LEMMA FoldedType ==
  ASSUME NEW T, NEW S, NEW step, IsStep(step, T, S), NEW base \in T,
         NEW seq \in Seq(S)
  PROVE  Folded(step, base, seq) \in T
<1>1. PICK f : TakesSteps(f, T, step, base, seq) /\ Folded(step, base, seq) = f[Len(seq)]
  BY FoldedIs
<1>. QED BY <1>1 DEF TakesSteps

\* A fold over one element more.
LEMMA FoldedNext ==
  ASSUME NEW T, NEW S, NEW step, IsStep(step, T, S), NEW base \in T,
         NEW seq \in Seq(S), NEW x \in S
  PROVE  Folded(step, base, Append(seq, x)) = step[<<Folded(step, base, seq), x>>]
<1>. DEFINE more == Append(seq, x)
<1>1. more \in Seq(S) /\ Len(more) = Len(seq) + 1 /\ Len(seq) \in Nat /\ more[Len(seq) + 1] = x /\ \A i \in 1..Len(seq) : more[i] = seq[i]
  OBVIOUS
<1>. HIDE DEF more
<1>2. PICK f : TakesSteps(f, T, step, base, seq) /\ Folded(step, base, seq) = f[Len(seq)]
  BY FoldedIs
<1>3. PICK g : TakesSteps(g, T, step, base, more) /\ Folded(step, base, more) = g[Len(more)]
  <2>1. more \in Seq(S)
    BY <1>1
  <2>. QED BY <2>1, FoldedIs
<1>4. f[Len(seq)] = g[Len(seq)]
  <2>1. Len(seq) \in Nat /\ Len(more) \in Nat /\ AlikeUpTo(seq, more, Len(seq))
    BY <1>1 DEF AlikeUpTo
  <2>2. TakesSteps(f, T, step, base, seq) /\ TakesSteps(g, T, step, base, more)
    BY <1>2, <1>3
  <2>. QED BY <2>1, <2>2, StepsAgree
<1>5. g[Len(seq) + 1] = step[<<g[Len(seq)], x>>]
  <2>1. Len(seq) + 1 \in 1..Len(more) /\ (Len(seq) + 1) - 1 = Len(seq)
    BY <1>1
  <2>2. g[Len(seq) + 1] = step[<<g[(Len(seq) + 1) - 1], more[Len(seq) + 1]>>]
    BY <1>3, <2>1 DEF TakesSteps
  <2>. QED BY <1>1, <2>1, <2>2
<1>. QED BY <1>2, <1>3, <1>4, <1>5 DEF more

\* A fold over one element.
LEMMA FoldedOne ==
  ASSUME NEW T, NEW S, NEW step, IsStep(step, T, S), NEW base \in T, NEW x \in S
  PROVE  Folded(step, base, <<x>>) = step[<<base, x>>]
<1>1. << >> \in Seq(S) /\ Append(<< >>, x) = <<x>>
  OBVIOUS
<1>2. Folded(step, base, << >>) = base
  BY FoldedNone
<1>3. PICK none : none = << >> /\ none \in Seq(S)
  BY <1>1
<1>4. none \in Seq(S)
  BY <1>3
<1>5. Folded(step, base, Append(none, x)) = step[<<Folded(step, base, none), x>>]
  BY <1>4, FoldedNext
<1>. QED BY <1>1, <1>2, <1>3, <1>5

\* A fold over two sequences, one after the other.
LEMMA FoldedConcat ==
  ASSUME NEW T, NEW S, NEW step, IsStep(step, T, S), NEW base \in T, NEW s \in Seq(S), NEW t \in Seq(S)
  PROVE  Folded(step, base, s \o t) = Folded(step, Folded(step, base, s), t)
<1>. DEFINE P == {u \in Seq(S) : Folded(step, base, s \o u) = Folded(step, Folded(step, base, s), u)}
<1>. DEFINE b == Folded(step, base, s)
<1>0. b \in T
  BY FoldedType
<1>. HIDE DEF b
<1>1. << >> \in P
  <2>1. s \o << >> = s
    OBVIOUS
  <2>2. Folded(step, b, << >>) = b
    BY <1>0, FoldedNone
  <2>. QED BY <2>1, <2>2 DEF b
<1>2. ASSUME NEW u \in Seq(S), NEW x \in S, u \in P PROVE Append(u, x) \in P
  <2>1. s \o Append(u, x) = Append(s \o u, x) /\ s \o u \in Seq(S) /\ Append(u, x) \in Seq(S)
    OBVIOUS
  <2>2. Folded(step, base, Append(s \o u, x)) = step[<<Folded(step, base, s \o u), x>>]
    <3>1. PICK v : v = s \o u /\ v \in Seq(S)
      BY <2>1
    <3>2. v \in Seq(S)
      BY <3>1
    <3>3. Folded(step, base, Append(v, x)) = step[<<Folded(step, base, v), x>>]
      BY <3>2, FoldedNext
    <3>. QED BY <3>1, <3>3
  <2>3. Folded(step, b, Append(u, x)) = step[<<Folded(step, b, u), x>>]
    BY <1>0, FoldedNext
  <2>. QED BY <1>2, <2>1, <2>2, <2>3 DEF b
<1>. HIDE DEF P
<1>3. t \in P
  BY <1>1, <1>2, SequenceInduction
<1>. QED BY <1>3 DEF P

\* f is applied by MapThenFoldSet to sets of indices.
IsFold(f, T, step, base, seq) ==
  /\ f \in [SUBSET (1..Len(seq)) -> T]
  /\ f = [s \in SUBSET (1..Len(seq)) |->
            IF s = {} THEN base ELSE step[<<f[s \ {Greatest(s)}], seq[Greatest(s)]>>]]

\* There is such a function.
LEMMA IsFoldExists ==
  ASSUME NEW T, NEW S, NEW step, IsStep(step, T, S), NEW base \in T, NEW seq \in Seq(S)
  PROVE  \E f : IsFold(f, T, step, base, seq)
<1>. DEFINE Next(f, s) == IF s = {} THEN base ELSE step[<<f[s \ {Greatest(s)}], seq[Greatest(s)]>>]
            Some(k) == \E f : f \in [SUBSET (1..k) -> T] /\ f = [s \in SUBSET (1..k) |-> Next(f, s)]
            P == {k \in Nat : k <= Len(seq) => Some(k)}
<1>1. Some(0)
  <2>1. SUBSET (1..0) = {{}}
    OBVIOUS
  <2>. DEFINE f == [s \in {{}} |-> base]
  <2>2. f \in [SUBSET (1..0) -> T] /\ f = [s \in SUBSET (1..0) |-> Next(f, s)]
    BY <2>1
  <2>. QED BY <2>2
<1>2. ASSUME NEW k \in Nat, k + 1 <= Len(seq), Some(k) PROVE Some(k + 1)
  <2>1. PICK f : f \in [SUBSET (1..k) -> T] /\ f = [s \in SUBSET (1..k) |-> Next(f, s)]
    BY <1>2
  <2>. DEFINE g == [s \in SUBSET (1..(k+1)) |-> Next(f, s)]
  <2>2. ASSUME NEW s \in SUBSET (1..(k+1)), s # {}
        PROVE  s \ {Greatest(s)} \in SUBSET (1..k) /\ Greatest(s) \in 1..Len(seq)
    <3>. HIDE DEF g
    <3>1. k + 1 \in Nat
      OBVIOUS
    <3>2. Greatest(s) \in s /\ \A i \in s : Greatest(s) >= i
      BY <2>2, <3>1, GreatestIs
    <3>3. Greatest(s) \in 1..(k+1)
      BY <3>2
    <3>4. ASSUME NEW i \in s \ {Greatest(s)} PROVE i \in 1..k
      <4>1. i \in 1..(k+1) /\ Greatest(s) >= i /\ i # Greatest(s)
        BY <3>2, <3>4
      <4>. QED BY <3>3, <4>1
    <3>5. Len(seq) \in Nat
      OBVIOUS
    <3>6. Greatest(s) \in 1..Len(seq)
      BY <1>2, <3>3, <3>5
    <3>7. s \ {Greatest(s)} \subseteq 1..k
      BY <3>4
    <3>. QED BY <3>6, <3>7
  <2>3. \A s \in SUBSET (1..k) : s \in SUBSET (1..(k+1))
    OBVIOUS
  <2>4. \A s \in SUBSET (1..k) : g[s] = f[s]
    BY <2>1, <2>3
  <2>5. \A s \in SUBSET (1..(k+1)) : s # {} => g[s \ {Greatest(s)}] = f[s \ {Greatest(s)}]
    <3>. HIDE DEF g
    <3>. QED BY <2>2, <2>4
  <2>6. ASSUME NEW s \in SUBSET (1..(k+1)) PROVE Next(f, s) \in T
    <3>1. CASE s # {}
      <4>1. f[s \ {Greatest(s)}] \in T /\ seq[Greatest(s)] \in S
        <5>. HIDE DEF g
        <5>1. s \ {Greatest(s)} \in SUBSET (1..k) /\ Greatest(s) \in 1..Len(seq)
          BY <2>2, <3>1
        <5>2. f[s \ {Greatest(s)}] \in T
          <6>. HIDE DEF Next
          <6>. QED BY <2>1, <5>1
        <5>. QED BY <5>1, <5>2
      <4>2. step[<<f[s \ {Greatest(s)}], seq[Greatest(s)]>>] \in T
        BY <4>1 DEF IsStep
      <4>. QED BY <3>1, <4>2
    <3>. QED BY <3>1
  <2>7. g \in [SUBSET (1..(k+1)) -> T]
    <3>. HIDE DEF Next
    <3>. QED BY <2>6
  <2>8. g = [s \in SUBSET (1..(k+1)) |-> Next(g, s)]
    BY <2>5
  <2>. QED BY <2>7, <2>8
<1>3. Some(Len(seq))
  <2>. HIDE DEF Some
  <2>0. Len(seq) \in Nat
    OBVIOUS
  <2>1. 0 \in P
    BY <1>1
  <2>2. ASSUME NEW k \in Nat, k \in P PROVE k + 1 \in P
    BY <1>2, <2>0, <2>2
  <2>. HIDE DEF P
  <2>3. Len(seq) \in P
    BY <2>0, <2>1, <2>2, Induction
  <2>. QED BY <2>0, <2>3 DEF P
<1>. QED BY <1>3 DEF IsFold

\* f does the steps on the sets of the first indices, as far as its values are in T.
Iterates(f, T, step, base, seq) ==
  /\ f[{}] = base
  /\ \A i \in 1..Len(seq) : f[1..(i-1)] \in T => f[1..i] = step[<<f[1..(i-1)], seq[i]>>]

\* What it makes of all indices is the fold.
LEMMA FoldIsFolded ==
  ASSUME NEW T, NEW S, NEW step, IsStep(step, T, S), NEW base \in T, NEW seq \in Seq(S), NEW f,
         Iterates(f, T, step, base, seq)
  PROVE  f[1..Len(seq)] = Folded(step, base, seq)
<1>1. PICK g : TakesSteps(g, T, step, base, seq) /\ Folded(step, base, seq) = g[Len(seq)]
  BY FoldedIs
<1>. DEFINE P == {k \in Nat : k <= Len(seq) => f[1..k] = g[k]}
<1>2. 0 \in P
  <2>1. 1..0 = {}
    OBVIOUS
  <2>. QED BY <1>1, <2>1 DEF TakesSteps, Iterates
<1>3. ASSUME NEW k \in Nat, k \in P PROVE k + 1 \in P
  <2>1. CASE k + 1 <= Len(seq)
    <3>1. k + 1 \in 1..Len(seq) /\ (k + 1) - 1 = k /\ k \in 0..Len(seq) /\ f[1..k] = g[k]
      BY <1>3, <2>1
    <3>2. g[k] \in T /\ g[k+1] = step[<<g[(k+1)-1], seq[k+1]>>]
      BY <1>1, <3>1 DEF TakesSteps
    <3>3. f[1..(k+1)] = step[<<f[1..((k+1)-1)], seq[k+1]>>]
      BY <3>1, <3>2 DEF Iterates
    <3>. QED BY <3>1, <3>2, <3>3
  <2>. QED BY <2>1
<1>. HIDE DEF P
<1>4. Len(seq) \in P
  BY <1>2, <1>3, Induction
<1>. QED BY <1>1, <1>4 DEF P

\* What a fold takes a step from has its type.
LEMMA FoldTypes ==
  ASSUME NEW T, NEW S, NEW step, IsStep(step, T, S), NEW base \in T, NEW seq \in Seq(S), NEW f,
         IsFold(f, T, step, base, seq)
  PROVE  /\ f = [s \in SUBSET DOMAIN seq |->
                   IF s = {} THEN base ELSE step[<<f[s \ {Greatest(s)}], seq[Greatest(s)]>>]]
         /\ \A s \in SUBSET DOMAIN seq :
              s # {} => f[s \ {Greatest(s)}] \in T /\ seq[Greatest(s)] \in S
<1>0. DOMAIN seq = 1..Len(seq) /\ Len(seq) \in Nat
  OBVIOUS
<1>1. ASSUME NEW s \in SUBSET DOMAIN seq, s # {}
      PROVE  f[s \ {Greatest(s)}] \in T /\ seq[Greatest(s)] \in S
  <2>1. s \in SUBSET (1..Len(seq))
    BY <1>0
  <2>2. Greatest(s) \in 1..Len(seq)
    BY <1>0, <1>1, <2>1, GreatestIs
  <2>3. s \ {Greatest(s)} \in SUBSET (1..Len(seq))
    BY <2>1
  <2>4. f[s \ {Greatest(s)}] \in T
    BY <2>3 DEF IsFold
  <2>. QED BY <2>2, <2>4
<1>. QED BY <1>0, <1>1 DEF IsFold

\* The indices that MapThenFoldSet comes to.
LEMMA FoldIndices ==
  ASSUME NEW S, NEW seq \in Seq(S), NEW i \in 1..Len(seq)
  PROVE  /\ 1..i \in SUBSET DOMAIN seq /\ 1..i # {}
         /\ Greatest(1..i) = i /\ (1..i) \ {i} = 1..(i-1) /\ seq[i] \in S
<1>1. Greatest(1..i) = i
  BY GreatestIs
<1>2. (1..i) \ {i} = 1..(i-1) /\ i \in 1..i /\ 1..i \in SUBSET DOMAIN seq /\ seq[i] \in S
  OBVIOUS
<1>. QED BY <1>1, <1>2

\* A set of numbers up to n has a greatest one.
LEMMA HasGreatest ==
  ASSUME NEW n \in Nat, NEW S \in SUBSET (0..n), S # {}
  PROVE  \E k \in S : \A j \in S : k >= j
<1>. DEFINE T == {n - i : i \in S}
<1>1. \A i \in S : i \in 0..n /\ n - i \in Nat
  OBVIOUS
<1>2. T \in SUBSET Nat /\ T # {}
  BY <1>1
<1>3. PICK t \in T : \A l \in T : t <= l
  BY <1>2, HasLeast
<1>4. PICK k \in S : t = n - k
  BY <1>3
<1>5. ASSUME NEW j \in S PROVE k >= j
  <2>1. n - k <= n - j
    BY <1>3, <1>4
  <2>. QED BY <1>1, <2>1
<1>. QED BY <1>5

\* f is what a loop has after each of its n turns.
Loops(f, n, T, base, round) ==
  /\ f \in [0..n -> T] /\ f[0] = base
  /\ \A i \in 1..n : f[i] = round[<<i, f[i-1]>>]

\* Whatever a loop does in each turn, there is what it has after each.
LEMMA LoopExists ==
  ASSUME NEW T, NEW n \in Nat, NEW base \in T, NEW round \in [Nat \X T -> T]
  PROVE  \E f : Loops(f, n, T, base, round)
<1>1. PICK g : Recursive(g, T, base, round)
  BY RecursionExists
<1>. DEFINE f == [i \in 0..n |-> g[i]]
<1>2. g \in [Nat -> T] /\ g[0] = base
  BY <1>1 DEF Recursive
<1>3. ASSUME NEW i \in 1..n PROVE f[i] = round[<<i, f[i-1]>>]
  <2>1. i \in Nat \ {0} /\ i \in 0..n /\ i - 1 \in 0..n
    OBVIOUS
  <2>2. g[i] = round[<<i, g[i-1]>>]
    BY <1>1, <2>1 DEF Recursive
  <2>. QED BY <2>1, <2>2
<1>4. f \in [0..n -> T] /\ f[0] = base
  BY <1>2
<1>. HIDE DEF f
<1>. QED BY <1>3, <1>4 DEF Loops

\* A loop whose turns are round, as long as it stays within T, does.
LEMMA LoopStays ==
  ASSUME NEW T, NEW n \in Nat, NEW base \in T, NEW round \in [Nat \X T -> T], NEW f,
         f[0] = base, \A i \in 1..n : f[i-1] \in T => f[i] = round[<<i, f[i-1]>>]
  PROVE  f[n] \in T
<1>. DEFINE P == {k \in Nat : k <= n => f[k] \in T}
<1>1. 0 \in P
  OBVIOUS
<1>2. ASSUME NEW k \in Nat, k \in P PROVE k + 1 \in P
  <2>1. CASE k + 1 <= n
    <3>1. k + 1 \in 1..n /\ (k + 1) - 1 = k /\ f[k] \in T
      BY <1>2, <2>1
    <3>2. <<k + 1, f[k]>> \in Nat \X T
      BY <3>1
    <3>3. f[k+1] = round[<<k+1, f[k]>>]
      BY <3>1
    <3>. QED BY <3>2, <3>3
  <2>. QED BY <2>1
<1>. HIDE DEF P
<1>3. n \in P
  BY <1>1, <1>2, Induction
<1>. QED BY <1>3 DEF P

===============================================================================
