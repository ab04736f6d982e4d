-------------------------- MODULE BundleHandlerProofs --------------------------
(***************************************************************************)
(* What is read of a message is what was sent, for bytes of any even       *)
(* number of values from four on, any ids, numbers and texts, and any      *)
(* size of the array; JSON keeps messages whole; equals tells them apart;  *)
(* and the validators accept what they should, validateTimestamp apart,    *)
(* whose mistake is measured.                                              *)
(*                                                                         *)
(* The lemmas come from the bottom up: the values of n bytes, what bytes   *)
(* spell, numbers in a buffer, strings in UTF-8 and in a buffer, messages. *)
(* The invariants of the specification then follow from two inductive      *)
(* ones, CodecInv for the message and CallInv for the validators.          *)
(***************************************************************************)
EXTENDS BundleHandler, Recursion

-------------------------------------------------------------------------------
(***************************************************************************)
(* The values of n bytes.                                                  *)
(***************************************************************************)

\* Span is the function its definition asks for.
LEMMA SpanDef ==
  Span = [n \in Nat |-> IF n = 0 THEN 1 ELSE Radix * Span[n-1]]
<1>. DEFINE turn == [p \in Nat \X Nat |-> Radix * p[2]]
<1>1. turn \in [Nat \X Nat -> Nat]
  BY CodecAssumption
<1>2. PICK f : Recursive(f, Nat, 1, turn)
  <2>. HIDE DEF turn
  <2>. QED BY <1>1, RecursionExists
<1>3. f = [n \in Nat |-> IF n = 0 THEN 1 ELSE Radix * f[n-1]]
  <2>1. \A n \in Nat : n # 0 => turn[<<n, f[n-1]>>] = Radix * f[n-1]
    BY <1>2 DEF Recursive
  <2>. HIDE DEF turn
  <2>. QED BY <1>2, <2>1 DEF Recursive
<1>. QED BY <1>3 DEF Span

\* There are Radix times as many values with one byte more.
LEMMA SpanNext ==
  /\ Span[0] = 1
  /\ \A n \in Nat : Span[n+1] = Radix * Span[n] /\ Span[n] \in Nat /\ Span[n] > 0
<1>1. Span[0] = 1 /\ \A n \in Nat : Span[n+1] = Radix * Span[n]
  BY SpanDef
<1>. DEFINE P == {n \in Nat : Span[n] \in Nat /\ Span[n] > 0}
<1>2. 0 \in P
  BY <1>1
<1>3. ASSUME NEW n \in Nat, n \in P PROVE n + 1 \in P
  BY <1>1, <1>3, CodecAssumption
<1>. HIDE DEF P
<1>4. Nat \subseteq P
  BY <1>2, <1>3, Induction
<1>. QED BY <1>1, <1>4 DEF P

\* The quotient and the remainder are the only ones.
LEMMA Division ==
  ASSUME NEW x \in Int, NEW m \in Nat, m > 0
  PROVE  /\ x \div m \in Int /\ x % m \in 0..m-1 /\ x = m * (x \div m) + (x % m)
         /\ \A q \in Int, r \in 0..m-1 : x = m * q + r => q = x \div m /\ r = x % m
OBVIOUS

-------------------------------------------------------------------------------
(***************************************************************************)
(* What the bytes of a number spell.                                       *)
(***************************************************************************)

\* The number that bytes spell, least significant byte first.
Value(bytes) == FoldRight(LAMBDA b, rest : b + Radix * rest, bytes, 0)

\* f is the fold of Value over every set of positions in sets.
Spells(f, bytes, sets) ==
  f = [s \in sets |-> IF s = {} THEN 0
                      ELSE bytes[Min(s)] + Radix * f[s \ {Min(s)}]]

\* The least number of a set of them, and of a range.
LEMMA MinOfNaturals ==
  /\ \A S \in SUBSET Nat : S # {} => Min(S) \in S /\ \A n \in S : Min(S) <= n
  /\ \A i, n \in Nat : i <= n => Min(i..n) = i
<1>1. ASSUME NEW S \in SUBSET Nat, S # {}
      PROVE  Min(S) \in S /\ \A n \in S : Min(S) <= n
  BY <1>1, HasLeast DEF Min
<1>2. ASSUME NEW i \in Nat, NEW n \in Nat, i <= n PROVE Min(i..n) = i
  <2>1. i..n \in SUBSET Nat /\ i \in i..n
    BY <1>2
  <2>2. Min(i..n) \in i..n /\ Min(i..n) <= i
    BY <1>1, <2>1
  <2>. QED BY <2>2
<1>. QED BY <1>1, <1>2

\* There is such a fold over the positions of any bytes.
LEMMA SpellingExists ==
  ASSUME NEW bytes, NEW n \in Nat
  PROVE  \E f : Spells(f, bytes, SUBSET (1..n))
<1>. DEFINE sets(k) == SUBSET ((n - k + 1)..n)
            Some(k) == \E f : Spells(f, bytes, sets(k))
            P == {k \in Nat : k <= n => Some(k)}
<1>1. Some(0)
  <2>1. sets(0) = {{}}
    OBVIOUS
  <2>2. Spells([s \in {{}} |-> 0], bytes, sets(0))
    BY <2>1 DEF Spells
  <2>. QED BY <2>2
<1>2. ASSUME NEW k \in Nat, k + 1 <= n, Some(k) PROVE Some(k + 1)
  <2>1. PICK f : Spells(f, bytes, sets(k))
    BY <1>2
  <2>. DEFINE g == [s \in sets(k + 1) |->
                      IF s = {} THEN 0 ELSE bytes[Min(s)] + Radix * f[s \ {Min(s)}]]
  <2>2. ASSUME NEW s \in sets(k + 1), s # {}
        PROVE  s \ {Min(s)} \in sets(k) /\ s \ {Min(s)} \in sets(k + 1)
    <3>1. s \in SUBSET Nat /\ n - (k + 1) + 1 = n - k /\ n - k \in Nat
      BY <1>2
    <3>2. Min(s) \in s /\ \A m \in s : Min(s) <= m
      BY <2>2, <3>1, MinOfNaturals
    <3>3. ASSUME NEW m \in s \ {Min(s)} PROVE m \in (n - k + 1)..n
      <4>1. m \in (n - k)..n /\ Min(s) \in (n - k)..n /\ m # Min(s)
        BY <3>1, <3>2, <3>3
      <4>2. Min(s) <= m
        BY <3>2, <3>3
      <4>. QED BY <4>1, <4>2, <1>2
    <3>. QED BY <3>3
  <2>3. ASSUME NEW s \in sets(k) PROVE g[s] = f[s]
    <3>1. s \in sets(k + 1)
      OBVIOUS
    <3>. QED BY <2>1, <3>1 DEF Spells
  <2>4. Spells(g, bytes, sets(k + 1))
    <3>1. ASSUME NEW s \in sets(k + 1), s # {}
          PROVE  f[s \ {Min(s)}] = g[s \ {Min(s)}]
      BY <2>2, <2>3, <3>1
    <3>. HIDE DEF sets
    <3>2. g = [s \in sets(k + 1) |->
                 IF s = {} THEN 0 ELSE bytes[Min(s)] + Radix * g[s \ {Min(s)}]]
      BY <3>1
    <3>. QED BY <3>2 DEF Spells
  <2>. QED BY <2>4
<1>3. Some(n)
  <2>. HIDE DEF Some
  <2>1. 0 \in P
    BY <1>1
  <2>2. \A k \in Nat : k \in P => k + 1 \in P
    BY <1>2
  <2>. HIDE DEF P
  <2>3. n \in P
    BY <2>1, <2>2, Induction
  <2>. QED BY <2>3 DEF P
<1>4. sets(n) = SUBSET (1..n)
  OBVIOUS
<1>. QED BY <1>3, <1>4

\* Value adds the first byte to Radix times what the others spell.
LEMMA ValueIs ==
  ASSUME NEW n \in Nat, NEW bytes, DOMAIN bytes = 1..n
  PROVE  \E f : /\ Value(bytes) = f[1..n]
                /\ \A i \in 1..n : f[i..n] = bytes[i] + Radix * f[(i+1)..n]
                /\ f[(n+1)..n] = 0
<1>. DEFINE f == CHOOSE f : Spells(f, bytes, SUBSET (1..n))
<1>1. Spells(f, bytes, SUBSET (1..n))
  BY SpellingExists
<1>2. Value(bytes) = f[1..n]
  BY DEF Value, FoldRight, MapThenFoldSet, Spells
<1>. HIDE DEF f
<1>3. ASSUME NEW s \in SUBSET (1..n)
      PROVE  f[s] = IF s = {} THEN 0 ELSE bytes[Min(s)] + Radix * f[s \ {Min(s)}]
  BY <1>1 DEF Spells
<1>4. ASSUME NEW i \in 1..n PROVE f[i..n] = bytes[i] + Radix * f[(i+1)..n]
  <2>1. /\ i..n \in SUBSET (1..n) /\ i..n # {}
        /\ (i..n) \ {i} = (i+1)..n
    OBVIOUS
  <2>2. Min(i..n) = i
    BY MinOfNaturals
  <2>. QED BY <1>3, <2>1, <2>2
<1>5. f[(n+1)..n] = 0
  <2>1. (n+1)..n = {}
    OBVIOUS
  <2>. QED BY <1>3, <2>1
<1>. QED BY <1>2, <1>4, <1>5

-------------------------------------------------------------------------------
(***************************************************************************)
(* A number that is written is read.                                       *)
(***************************************************************************)

\* Dividing by a product is dividing twice.
LEMMA DivideTwice ==
  ASSUME NEW x \in Int, NEW a \in Nat, a > 0, NEW b \in Nat, b > 0
  PROVE  /\ a * b \in Nat /\ a * b > 0
         /\ x \div (a * b) = (x \div b) \div a
         /\ x % (a * b) = (x % b) + b * ((x \div b) % a)
<1>. DEFINE q == x \div b
            r == x % b
            qq == q \div a
            rr == q % a
<1>1. a * b \in Nat /\ a * b > 0
  OBVIOUS
<1>2. /\ q \in Int /\ r \in 0..b-1 /\ x = b * q + r
      /\ qq \in Int /\ rr \in 0..a-1 /\ q = a * qq + rr
  BY Division
<1>. HIDE DEF q, r, qq, rr
<1>3. b * rr \in Nat /\ b * rr <= b * (a - 1) /\ b * (a - 1) = a * b - b
  BY <1>2
<1>4. x = (a * b) * qq + (r + b * rr)
  <2>1. b * q = b * (a * qq + rr)
    BY <1>2
  <2>2. b * (a * qq + rr) = (a * b) * qq + b * rr
    BY <1>2
  <2>. QED BY <1>2, <1>3, <2>1, <2>2
<1>5. r + b * rr \in 0..(a * b - 1)
  BY <1>1, <1>2, <1>3
<1>6. qq = x \div (a * b) /\ r + b * rr = x % (a * b)
  BY <1>1, <1>2, <1>4, <1>5, Division
<1>. QED BY <1>1, <1>6 DEF q, r, qq, rr

\* The values of a byte.
Byte == 0..Radix-1

\* The bytes of a number spell the number modulo the span of the bytes.
LEMMA LittleSpells ==
  ASSUME NEW x \in Int, NEW n \in Nat
  PROVE  /\ Little(x, n) \in Seq(Byte) /\ Len(Little(x, n)) = n
         /\ Value(Little(x, n)) = x % Span[n]
<1>. USE CodecAssumption
<1>. DEFINE bytes == Little(x, n)
<1>1. \A i \in 1..n : i - 1 \in Nat /\ Span[i-1] \in Nat /\ Span[i-1] > 0
  BY SpanNext
<1>2. bytes \in [1..n -> Byte]
  BY <1>1, Division DEF Little, Byte
<1>3. bytes \in Seq(Byte) /\ Len(bytes) = n
  BY <1>2
<1>4. DOMAIN bytes = 1..n /\ \A i \in 1..n : bytes[i] = (x \div Span[i-1]) % Radix
  BY DEF Little
<1>. HIDE DEF bytes
<1>5. PICK f : /\ Value(bytes) = f[1..n]
               /\ \A i \in 1..n : f[i..n] = bytes[i] + Radix * f[(i+1)..n]
               /\ f[(n+1)..n] = 0
  BY <1>4, ValueIs
<1>. DEFINE Right(k) == f[(n-k+1)..n] = (x \div Span[n-k]) % Span[k]
            P == {k \in Nat : k <= n => Right(k)}
<1>6. Right(0)
  <2>1. n - 0 = n /\ Span[0] = 1 /\ Span[n] \in Nat /\ Span[n] > 0
    BY SpanNext
  <2>2. x \div Span[n] \in Int
    BY <2>1, Division
  <2>3. (x \div Span[n]) % 1 = 0
    BY <2>2, Division
  <2>. QED BY <1>5, <2>1, <2>3
<1>7. ASSUME NEW k \in Nat, k + 1 <= n, Right(k) PROVE Right(k + 1)
  <2>. DEFINE m == n - (k + 1)
              y == x \div Span[m]
  <2>1. m \in Nat /\ m + 1 = n - k /\ m + 1 \in 1..n /\ n - k + 1 = (m + 1) + 1
    BY <1>7
  <2>2. /\ Span[m + 1] = Radix * Span[m] /\ Span[k + 1] = Radix * Span[k]
        /\ Span[m] \in Nat /\ Span[m] > 0 /\ Span[k] \in Nat /\ Span[k] > 0
    BY <2>1, SpanNext
  <2>3. y \in Int /\ x \div Span[m + 1] = y \div Radix
    BY <2>2, Division, DivideTwice
  <2>4. y % Span[k + 1] = (y % Radix) + Radix * ((y \div Radix) % Span[k])
    <3>. HIDE DEF y, m
    <3>. DEFINE s == Span[k]
    <3>0. s \in Nat /\ s > 0 /\ y \in Int /\ Radix \in Nat /\ Radix > 0
      BY <2>2, <2>3
    <3>. HIDE DEF s
    <3>1. y % (s * Radix) = (y % Radix) + Radix * ((y \div Radix) % s)
      BY <3>0, DivideTwice
    <3>2. Span[k + 1] = Span[k] * Radix
      BY <2>2
    <3>. QED BY <3>1, <3>2 DEF s
  <2>5. f[(m+1)..n] = bytes[m + 1] + Radix * f[((m+1)+1)..n]
    BY <1>5, <2>1
  <2>6. bytes[m + 1] = y % Radix
    BY <1>4, <2>1
  <2>7. f[((m+1)+1)..n] = (y \div Radix) % Span[k]
    BY <1>7, <2>1, <2>3
  <2>. QED BY <2>1, <2>4, <2>5, <2>6, <2>7
<1>8. Right(n)
  <2>. HIDE DEF Right
  <2>1. 0 \in P
    BY <1>6
  <2>2. \A k \in Nat : k \in P => k + 1 \in P
    BY <1>7
  <2>. HIDE DEF P
  <2>3. n \in P
    BY <2>1, <2>2, Induction
  <2>. QED BY <2>3 DEF P
<1>9. f[1..n] = x % Span[n]
  BY <1>8, SpanNext, Division
<1>. QED BY <1>3, <1>5, <1>9 DEF bytes


\* The value of n bytes as a signed number is an integer of the same residue.
LEMMA NarrowTwice ==
  ASSUME NEW x \in Int, NEW n \in Nat
  PROVE  /\ x % Span[n] \in 0..Span[n]-1
         /\ Narrow(x, n) \in Int /\ Narrow(x, n) % Span[n] = x % Span[n]
         /\ IsSigned(Narrow(x, n), n)
<1>. DEFINE u == x % Span[n]
<1>1. Span[n] \in Nat /\ Span[n] > 0
  BY SpanNext
<1>2. u \in 0..Span[n]-1
  BY <1>1, Division
<1>. HIDE DEF u
<1>3. Narrow(x, n) = u \/ Narrow(x, n) = u - Span[n]
  BY DEF u, Narrow, Signed
<1>4. u % Span[n] = u /\ (u - Span[n]) % Span[n] = u
  <2>. DEFINE m == Span[n]
  <2>1. m \in Nat /\ m > 0 /\ u \in 0..m-1
    BY <1>1, <1>2
  <2>. HIDE DEF m
  <2>2. u = m * 0 + u /\ u - m = m * (-1) + u
    BY <2>1
  <2>3. \A y \in Int, q \in Int : y = m * q + u => u = y % m
    BY <2>1, Division
  <2>4. u % m = u
    BY <2>1, <2>2, <2>3
  <2>5. (u - m) % m = u
    BY <2>1, <2>2, <2>3
  <2>. QED BY <2>4, <2>5 DEF m
<1>5. Narrow(x, n) \in Int /\ Narrow(x, n) % Span[n] = u
  BY <1>1, <1>2, <1>3, <1>4
<1>6. IsSigned(Narrow(x, n), n)
  BY <1>5 DEF u, Narrow, IsSigned
<1>. QED BY <1>2, <1>5, <1>6 DEF u

\* The middle of three sequences.
LEMMA Middle ==
  ASSUME NEW S, NEW a \in Seq(S), NEW b \in Seq(S), NEW c \in Seq(S)
  PROVE  SubSeq((a \o b) \o c, Len(a) + 1, Len(a) + Len(b)) = b
<1>. DEFINE s == (a \o b) \o c
            m == SubSeq(s, Len(a) + 1, Len(a) + Len(b))
<1>1. s \in Seq(S) /\ Len(s) = Len(a) + Len(b) + Len(c)
  OBVIOUS
<1>2. \A i \in 1..Len(b) : s[Len(a) + i] = b[i]
  OBVIOUS
<1>. HIDE DEF s
<1>3. m = [i \in 1..Len(b) |-> s[Len(a) + i]]
  BY <1>1
<1>4. m = [i \in 1..Len(b) |-> b[i]]
  BY <1>2, <1>3
<1>. QED BY <1>4 DEF s

\* A number that was written somewhere in a buffer is read there.
LEMMA GetLittle ==
  ASSUME NEW a \in Seq(Byte), NEW c \in Seq(Byte),
         NEW x \in Int, NEW n \in Nat
  PROVE  GetAt((a \o Little(x, n)) \o c, Len(a) + 1, n) = Narrow(x, n)
<1>1. Little(x, n) \in Seq(Byte) /\ Len(Little(x, n)) = n
  BY LittleSpells
<1>2. SubSeq((a \o Little(x, n)) \o c, Len(a) + 1, Len(a) + n) = Little(x, n)
  BY <1>1, Middle
<1>3. Len(a) + 1 + n - 1 = Len(a) + n
  OBVIOUS
<1>4. GetAt((a \o Little(x, n)) \o c, Len(a) + 1, n) = Number(Little(x, n))
  BY <1>2, <1>3 DEF GetAt
<1>5. Number(Little(x, n)) = Signed(Value(Little(x, n)), n)
  BY <1>1 DEF Number, Value
<1>. QED BY <1>4, <1>5, LittleSpells DEF Narrow

-------------------------------------------------------------------------------
(***************************************************************************)
(* Strings.                                                                *)
(***************************************************************************)

\* F is the concatenation of the first sequences of ss, for each number of them.
Joins(F, ss) ==
  /\ F[0] = << >>
  /\ \A i \in 1..Len(ss) : F[i] = F[i-1] \o ss[i]

\* Sequences can be joined.
LEMMA JoinExists ==
  ASSUME NEW T, NEW ss \in Seq(Seq(T))
  PROVE  \E F \in [Nat -> Seq(T)] : Joins(F, ss)
<1>. DEFINE turn == [p \in Nat \X Seq(T) |->
                       IF p[1] \in 1..Len(ss) THEN p[2] \o ss[p[1]] ELSE p[2]]
            U == Seq(T)
            base == << >>
<1>1. turn \in [Nat \X Seq(T) -> Seq(T)]
  OBVIOUS
<1>2. turn \in [Nat \X U -> U] /\ base \in U
  BY <1>1
<1>3. PICK F : Recursive(F, U, base, turn)
  <2>. HIDE DEF turn, U, base
  <2>. QED BY <1>2, RecursionExists
<1>4. F \in [Nat -> Seq(T)] /\ F[0] = << >>
  BY <1>3 DEF Recursive
<1>5. ASSUME NEW i \in 1..Len(ss) PROVE F[i] = F[i-1] \o ss[i]
  <2>1. i \in Nat \ {0} /\ i - 1 \in Nat
    BY <1>5
  <2>2. F[i] = turn[<<i, F[i-1]>>]
    <3>. HIDE DEF turn
    <3>. QED BY <1>3, <2>1 DEF Recursive
  <2>3. <<i, F[i-1]>> \in Nat \X Seq(T)
    BY <1>4, <2>1
  <2>. QED BY <2>2, <2>3
<1>. QED BY <1>4, <1>5 DEF Joins

\* FlattenSeq joins all of them.
LEMMA FlattenIs ==
  ASSUME NEW T, NEW ss \in Seq(Seq(T)), NEW F \in [Nat -> Seq(T)], Joins(F, ss)
  PROVE  FlattenSeq(ss) = F[Len(ss)]
<1>0. Len(ss) \in Nat /\ \A i \in 1..Len(ss) : ss[i] \in Seq(T)
  OBVIOUS
<1>1. CASE Len(ss) = 0
  BY <1>1 DEF FlattenSeq, Joins
<1>2. CASE Len(ss) # 0
  <2>. DEFINE Is(f) == f = [i \in 1..Len(ss) |-> IF i = 1 THEN ss[i] ELSE f[i-1] \o ss[i]]
              f == CHOOSE f : Is(f)
  <2>1. FlattenSeq(ss) = f[Len(ss)]
    BY <1>2 DEF FlattenSeq
  <2>2. Is([i \in 1..Len(ss) |-> F[i]])
    <3>1. F[1] = ss[1]
      <4>1. F[1] = F[0] \o ss[1] /\ F[0] = << >>
        <5>. 1 \in 1..Len(ss) /\ 1 - 1 = 0
          BY <1>0, <1>2
        <5>. QED BY DEF Joins
      <4>2. ss[1] \in Seq(T)
        BY <1>0, <1>2
      <4>. QED BY <4>1, <4>2
    <3>2. ASSUME NEW i \in 1..Len(ss), i # 1
          PROVE  i - 1 \in 1..Len(ss) /\ F[i] = F[i-1] \o ss[i]
      <4>1. i - 1 \in 1..Len(ss)
        BY <1>0, <3>2
      <4>. QED BY <4>1 DEF Joins
    <3>. QED BY <3>1, <3>2
  <2>3. Is(f)
    <3>. HIDE DEF Is
    <3>. QED BY <2>2
  <2>4. \A i \in 1..Len(ss) : f[i] = IF i = 1 THEN ss[i] ELSE f[i-1] \o ss[i]
    BY <2>3
  <2>. HIDE DEF f, Is
  <2>. DEFINE Agree(i) == f[i + 1] = F[i + 1]
              P == {i \in Nat : i + 1 <= Len(ss) => Agree(i)}
  <2>5. Agree(0)
    <3>1. 1 \in 1..Len(ss) /\ ss[1] \in Seq(T)
      BY <1>0, <1>2, SMTT(30)
    <3>2. F[1] = F[0] \o ss[1] /\ F[0] = << >>
      <4>. 1 \in 1..Len(ss) /\ 1 - 1 = 0
        BY <1>0, <1>2
      <4>. QED BY DEF Joins
    <3>3. f[1] = F[1]
      BY <2>4, <3>1, <3>2
    <3>. QED BY <3>3
  <2>6. ASSUME NEW i \in Nat, (i + 1) + 1 <= Len(ss), Agree(i) PROVE Agree(i + 1)
    <3>1. /\ i + 1 \in Nat /\ (i + 1) + 1 \in 1..Len(ss) /\ (i + 1) + 1 # 1
          /\ ((i + 1) + 1) - 1 = i + 1
      BY <1>0, <2>6
    <3>2. f[(i + 1) + 1] = f[i + 1] \o ss[(i + 1) + 1]
      BY <2>4, <3>1
    <3>3. F[(i + 1) + 1] = F[i + 1] \o ss[(i + 1) + 1]
      BY <2>6, <3>1 DEF Joins
    <3>. QED BY <2>6, <3>2, <3>3
  <2>7. Len(ss) - 1 \in Nat /\ (Len(ss) - 1) + 1 = Len(ss)
    BY <1>0, <1>2
  <2>8. Agree(Len(ss) - 1)
    <3>. DEFINE n == Len(ss)
    <3>0. n \in Nat
      BY <1>0
    <3>. HIDE DEF Agree, n
    <3>1. 0 \in P
      BY <2>5
    <3>2. ASSUME NEW i \in Nat, i \in P PROVE i + 1 \in P
      <4>1. ASSUME (i + 1) + 1 <= n PROVE Agree(i + 1)
        <5>1. i + 1 <= n /\ (i + 1) + 1 <= Len(ss)
          BY <3>0, <4>1 DEF n
        <5>2. Agree(i)
          BY <3>2, <5>1 DEF n
        <5>. QED BY <2>6, <5>1, <5>2
      <4>. QED BY <4>1 DEF n
    <3>. HIDE DEF P
    <3>3. Len(ss) - 1 \in P
      BY <2>7, <3>1, <3>2, Induction
    <3>. QED BY <2>7, <3>3 DEF P
  <2>. QED BY <2>1, <2>7, <2>8
<1>. QED BY <1>1, <1>2

\* One sequence more is one more to join.
LEMMA FlattenNext ==
  ASSUME NEW T, NEW ss \in Seq(Seq(T))
  PROVE  /\ FlattenSeq(<< >>) = << >>
         /\ FlattenSeq(ss) \in Seq(T)
         /\ \A x \in Seq(T) : FlattenSeq(Append(ss, x)) = FlattenSeq(ss) \o x
<1>0. Len(ss) \in Nat
  OBVIOUS
<1>1. FlattenSeq(<< >>) = << >>
  BY DEF FlattenSeq
<1>2. FlattenSeq(ss) \in Seq(T)
  <2>1. PICK F \in [Nat -> Seq(T)] : Joins(F, ss)
    BY JoinExists
  <2>2. FlattenSeq(ss) = F[Len(ss)]
    BY <2>1, FlattenIs
  <2>. QED BY <1>0, <2>1, <2>2
<1>3. ASSUME NEW x \in Seq(T) PROVE FlattenSeq(Append(ss, x)) = FlattenSeq(ss) \o x
  <2>. DEFINE tt == Append(ss, x)
  <2>1. /\ tt \in Seq(Seq(T)) /\ Len(tt) = Len(ss) + 1 /\ tt[Len(ss) + 1] = x
        /\ \A i \in 1..Len(ss) : tt[i] = ss[i]
    OBVIOUS
  <2>. HIDE DEF tt
  <2>2. PICK F \in [Nat -> Seq(T)] : Joins(F, tt)
    BY <2>1, JoinExists
  <2>3. Joins(F, ss)
    <3>1. ASSUME NEW i \in 1..Len(ss) PROVE F[i] = F[i-1] \o ss[i]
      <4>1. i \in 1..Len(tt) /\ tt[i] = ss[i]
        BY <1>0, <2>1
      <4>. QED BY <2>2, <4>1 DEF Joins
    <3>. QED BY <2>2, <3>1 DEF Joins
  <2>4. FlattenSeq(tt) = F[Len(ss) + 1] /\ FlattenSeq(ss) = F[Len(ss)]
    BY <2>1, <2>2, <2>3, FlattenIs
  <2>5. F[Len(ss) + 1] = F[Len(ss)] \o x
    <3>1. Len(ss) + 1 \in 1..Len(tt) /\ (Len(ss) + 1) - 1 = Len(ss)
      BY <1>0, <2>1
    <3>. QED BY <2>1, <2>2, <3>1 DEF Joins
  <2>. QED BY <2>4, <2>5 DEF tt
<1>. QED BY <1>1, <1>2, <1>3

\* The characters of texts, and the bytes of each.
Characters == {"0", "a", "e"}

Code(c) == CASE c = "0" -> <<0>> [] c = "a" -> <<1>> [] c = "e" -> <<2, 3>>

\* They are bytes.
LEMMA CodeIsBytes ==
  ASSUME NEW c \in Characters
  PROVE  Code(c) \in Seq(0..3)
<1>1. <<0>> \in Seq(0..3) /\ <<1>> \in Seq(0..3) /\ <<2, 3>> \in Seq(0..3)
  OBVIOUS
<1>. QED BY <1>1 DEF Characters, Code

\* A character more is its bytes more.
LEMMA Utf8Next ==
  ASSUME NEW s \in Seq(Characters)
  PROVE  /\ Utf8(<< >>) = << >>
         /\ Utf8(s) \in Seq(0..3)
         /\ \A c \in Characters : Utf8(Append(s, c)) = Utf8(s) \o Code(c)
<1>. DEFINE codes(t) == [i \in DOMAIN t |-> Code(t[i])]
<1>2. ASSUME NEW t \in Seq(Characters)
      PROVE  codes(t) \in Seq(Seq(0..3)) /\ Utf8(t) = FlattenSeq(codes(t))
  <2>1. \A i \in 1..Len(t) : Code(t[i]) \in Seq(0..3)
    BY CodeIsBytes
  <2>2. codes(t) \in [1..Len(t) -> Seq(0..3)] /\ Len(t) \in Nat
    BY <2>1
  <2>3. codes(t) \in Seq(Seq(0..3))
    <3>. HIDE DEF codes
    <3>. QED BY <2>2
  <2>4. Utf8(t) = FlattenSeq(codes(t))
    BY DEF Utf8, Code
  <2>. QED BY <2>3, <2>4
<1>3. Utf8(<< >>) = << >>
  <2>1. codes(<< >>) = << >>
    OBVIOUS
  <2>2. << >> \in Seq(Characters) /\ << >> \in Seq(Seq(0..3))
    OBVIOUS
  <2>. HIDE DEF codes
  <2>. QED BY <1>2, <2>1, <2>2, FlattenNext
<1>4. Utf8(s) \in Seq(0..3)
  <2>. HIDE DEF codes
  <2>. QED BY <1>2, FlattenNext
<1>5. ASSUME NEW c \in Characters PROVE Utf8(Append(s, c)) = Utf8(s) \o Code(c)
  <2>1. codes(Append(s, c)) = Append(codes(s), Code(c))
    OBVIOUS
  <2>2. Append(s, c) \in Seq(Characters)
    OBVIOUS
  <2>. HIDE DEF codes
  <2>. QED BY CodeIsBytes, <1>2, <2>1, <2>2, FlattenNext
<1>. QED BY <1>3, <1>4, <1>5

\* Bytes that do not end within a character, and those of one character more, are
\* read as what they were without it, and it.
LEMMA FromUtf8Next ==
  ASSUME NEW b \in Seq(0..3), Len(b) = 0 \/ b[Len(b)] # 2, NEW c \in Characters
  PROVE  FromUtf8(b \o Code(c)) = FromUtf8(b) \o <<c>>
<1>. DEFINE chars(t) == [i \in DOMAIN t |-> CharsAt(t, i)]
            Read == {"0", "a", "e", "?"}
<1>1. ASSUME NEW t \in Seq(0..3)
      PROVE  chars(t) \in Seq(Seq(Read)) /\ FromUtf8(t) = FlattenSeq(chars(t))
  <2>1. \A i \in 1..Len(t) : CharsAt(t, i) \in Seq(Read)
    BY SMTT(30) DEF CharsAt
  <2>2. chars(t) \in [1..Len(t) -> Seq(Read)] /\ Len(t) \in Nat
    BY <2>1
  <2>. QED BY <2>2 DEF FromUtf8
<1>. DEFINE t == b \o Code(c)
<1>2. Code(c) \in Seq(0..3) /\ <<c>> \in Seq(Read) /\ << >> \in Seq(Read)
  <2>1. c \in Read
    BY DEF Characters
  <2>. QED BY <2>1, CodeIsBytes
<1>3. t \in Seq(0..3)
  BY <1>2
<1>4. \A i \in 1..Len(b) : CharsAt(t, i) = CharsAt(b, i)
  <2>. SUFFICES ASSUME NEW i \in 1..Len(b) PROVE CharsAt(t, i) = CharsAt(b, i)
    OBVIOUS
  <2>1. /\ t[i] = b[i] /\ (i > 1 => t[i-1] = b[i-1])
        /\ i < Len(b) => t[i+1] = b[i+1] /\ i < Len(t)
        /\ b[i] = 2 => i < Len(b)
        /\ i \in Nat /\ Len(b) \in Nat
    BY <1>2
  <2>. HIDE DEF t
  <2>. QED BY <2>1 DEF CharsAt
<1>5. CASE c # "e"
  <2>1. /\ t = Append(b, t[Len(b) + 1]) /\ Len(t) = Len(b) + 1
        /\ CharsAt(t, Len(b) + 1) = <<c>>
    BY <1>5 DEF Characters, Code, CharsAt
  <2>2. chars(t) = Append(chars(b), <<c>>)
    <3>. HIDE DEF t
    <3>. QED BY <1>3, <1>4, <2>1
  <2>. HIDE DEF chars, t, Read
  <2>3. FlattenSeq(Append(chars(b), <<c>>)) = FlattenSeq(chars(b)) \o <<c>>
    BY <1>1, <1>2, FlattenNext
  <2>. QED BY <1>1, <1>3, <2>2, <2>3 DEF t
<1>6. CASE c = "e"
  <2>1. /\ t = b \o <<2, 3>> /\ Len(t) = (Len(b) + 1) + 1
        /\ CharsAt(t, Len(b) + 1) = <<c>> /\ CharsAt(t, (Len(b) + 1) + 1) = << >>
    BY <1>6 DEF Code, CharsAt
  <2>2. chars(t) = Append(Append(chars(b), <<c>>), << >>)
    <3>. HIDE DEF t
    <3>. QED BY <1>3, <1>4, <2>1
  <2>. HIDE DEF chars, t, Read
  <2>3. FlattenSeq(Append(chars(b), <<c>>)) = FlattenSeq(chars(b)) \o <<c>>
    BY <1>1, <1>2, FlattenNext
  <2>4. Append(chars(b), <<c>>) \in Seq(Seq(Read))
    BY <1>1, <1>2
  <2>5. FlattenSeq(chars(t)) = (FlattenSeq(chars(b)) \o <<c>>) \o << >>
    BY <1>2, <2>2, <2>3, <2>4, FlattenNext
  <2>6. FlattenSeq(chars(b)) \o <<c>> \in Seq(Read)
    BY <1>1, <1>2, FlattenNext
  <2>7. FromUtf8(t) = FromUtf8(b) \o <<c>>
    <3>1. (FlattenSeq(chars(b)) \o <<c>>) \o << >> = FlattenSeq(chars(b)) \o <<c>>
      BY <2>6
    <3>. QED BY <1>1, <1>3, <2>5, <3>1
  <2>. QED BY <2>7 DEF t
<1>. QED BY <1>5, <1>6

\* A text is read as it was written.
LEMMA ReadsUtf8 ==
  ASSUME NEW s \in Seq(Characters)
  PROVE  FromUtf8(Utf8(s)) = s
<1>. DEFINE Whole(t) == LET b == Utf8(t) IN Len(b) = 0 \/ b[Len(b)] # 2
            P == {t \in Seq(Characters) : FromUtf8(Utf8(t)) = t /\ Whole(t)}
<1>1. << >> \in P
  <2>1. FromUtf8(<< >>) = << >>
    <3>1. /\ [i \in DOMAIN << >> |-> CharsAt(<< >>, i)] = << >>
          /\ << >> \in Seq(Seq(Characters))
      OBVIOUS
    <3>. QED BY <3>1, FlattenNext DEF FromUtf8
  <2>. QED BY <2>1, Utf8Next
<1>2. ASSUME NEW t \in Seq(Characters), t \in P, NEW c \in Characters
      PROVE  Append(t, c) \in P
  <2>. DEFINE b == Utf8(t)
  <2>1. b \in Seq(0..3) /\ Utf8(Append(t, c)) = b \o Code(c)
    BY Utf8Next
  <2>2. FromUtf8(b) = t /\ (Len(b) = 0 \/ b[Len(b)] # 2)
    BY <1>2
  <2>. HIDE DEF b
  <2>3. FromUtf8(b \o Code(c)) = t \o <<c>>
    BY <2>1, <2>2, FromUtf8Next
  <2>4. t \o <<c>> = Append(t, c) /\ Append(t, c) \in Seq(Characters)
    OBVIOUS
  <2>5. LET bb == b \o Code(c) IN bb[Len(bb)] # 2
    BY <2>1 DEF Characters, Code
  <2>. QED BY <2>1, <2>3, <2>4, <2>5
<1>. HIDE DEF P
<1>3. s \in P
  BY <1>1, <1>2, SequenceInduction
<1>. QED BY <1>3 DEF P

\* A natural number is no less than its value as a signed number of some bytes,
\* which it is when it is small.
LEMMA NarrowSmall ==
  ASSUME NEW x \in Nat, NEW n \in Nat, n > 0
  PROVE  /\ Narrow(x, n) \in Int /\ Narrow(x, n) <= x
         /\ x < Span[n] \div 2 => Narrow(x, n) = x
         /\ x \in {0, 1} => Narrow(x, n) = x
<1>1. Span[n] \in Nat /\ Span[n] >= 4
  <2>. DEFINE m == Span[n-1]
  <2>1. n - 1 \in Nat /\ (n - 1) + 1 = n
    OBVIOUS
  <2>2. Span[n] = Radix * m /\ m \in Nat /\ m > 0
    BY <2>1, SpanNext
  <2>. HIDE DEF m
  <2>3. Radix * m >= 4 * m
    BY <2>2, CodecAssumption
  <2>. QED BY <2>2, <2>3, CodecAssumption
<1>. DEFINE r == x % Span[n]
<1>2. r \in Nat /\ r <= x /\ (x < Span[n] => r = x)
  <2>1. r \in 0..Span[n]-1
    BY <1>1, Division
  <2>2. CASE x < Span[n]
    <3>1. x \in 0..Span[n]-1 /\ x = Span[n] * 0 + x
      BY <1>1, <2>2
    <3>2. r = x
      BY <1>1, <3>1, Division
    <3>. QED BY <3>2
  <2>3. CASE ~(x < Span[n])
    BY <1>1, <2>1, <2>3
  <2>. QED BY <2>2, <2>3
<1>3. Span[n] \div 2 \in Nat /\ Span[n] \div 2 >= 2 /\ Span[n] \div 2 <= Span[n]
  BY <1>1
<1>4. Narrow(x, n) = IF r < Span[n] \div 2 THEN r ELSE r - Span[n]
  BY DEF Narrow, Signed
<1>. HIDE DEF r
<1>. QED BY <1>1, <1>2, <1>3, <1>4

\* Concatenation is associative.
LEMMA Associative ==
  ASSUME NEW S, NEW a \in Seq(S), NEW b \in Seq(S), NEW c \in Seq(S)
  PROVE  a \o (b \o c) = (a \o b) \o c
OBVIOUS

\* It adds the lengths, and has a neutral element.
LEMMA Concatenation ==
  ASSUME NEW S, NEW a \in Seq(S), NEW b \in Seq(S)
  PROVE  /\ a \o b \in Seq(S) /\ Len(a \o b) = Len(a) + Len(b)
         /\ a \o << >> = a /\ << >> \o a = a /\ << >> \in Seq(S)
OBVIOUS

\* A sequence of elements of a set is one of elements of a greater set.
LEMMA SequenceOfMore ==
  ASSUME NEW S, NEW T, S \subseteq T, NEW s \in Seq(S)
  PROVE  s \in Seq(T)
<1>1. s \in [1..Len(s) -> T] /\ Len(s) \in Nat
  OBVIOUS
<1>. QED BY <1>1

\* The first l elements of a sequence, none if l is negative.
LEMMA First ==
  ASSUME NEW S, NEW s \in Seq(S), NEW l \in Int, l <= Len(s)
  PROVE  /\ SubSeq(s, 1, l) \in Seq(S)
         /\ Len(SubSeq(s, 1, l)) = IF l > 0 THEN l ELSE 0
<1>1. CASE l > 0
  BY <1>1
<1>2. CASE ~(l > 0)
  <2>1. SubSeq(s, 1, l) = << >>
    BY <1>2
  <2>. QED BY <1>2, <2>1
<1>. QED BY <1>1, <1>2

\* The length that is written of a text.
WrittenLength(s) == Narrow(Len(Utf8(s)), 2)

\* What writeString writes: as many bytes as the length says, none of a negative one.
LEMMA WriteStringIs ==
  ASSUME NEW s \in Seq(Characters)
  PROVE  /\ Utf8(s) \in Seq(Byte)
         /\ WrittenLength(s) \in Int /\ WrittenLength(s) <= Len(Utf8(s))
         /\ SubSeq(Utf8(s), 1, WrittenLength(s)) \in Seq(Byte)
         /\ Len(SubSeq(Utf8(s), 1, WrittenLength(s)))
              = IF WrittenLength(s) > 0 THEN WrittenLength(s) ELSE 0
         /\ WriteString(s) = Little(WrittenLength(s), 2)
                               \o SubSeq(Utf8(s), 1, WrittenLength(s))
<1>. DEFINE u == Utf8(s)
            l == WrittenLength(s)
<1>1. u \in Seq(Byte)
  <2>. DEFINE Few == 0..3
  <2>1. u \in Seq(Few) /\ Few \subseteq Byte
    BY Utf8Next, CodecAssumption DEF Byte
  <2>. HIDE DEF u, Few
  <2>. QED BY <2>1, SequenceOfMore
<1>2. Len(u) \in Nat
  BY <1>1
<1>3. l \in Int /\ l <= Len(u)
  BY <1>2, NarrowSmall DEF WrittenLength
<1>4. WriteString(s) = Little(l, 2) \o SubSeq(u, 1, l)
  BY DEF WriteString, WrittenLength
<1>. HIDE DEF u, l
<1>5. SubSeq(u, 1, l) \in Seq(Byte) /\ Len(SubSeq(u, 1, l)) = IF l > 0 THEN l ELSE 0
  BY <1>1, <1>3, First
<1>. QED BY <1>1, <1>3, <1>4, <1>5 DEF u, l

\* A string that was written at the end of a buffer is read there, as far as it
\* was written; with a negative length it is not read.
LEMMA ReadsString ==
  ASSUME NEW a \in Seq(Byte), NEW s \in Seq(Characters)
  PROVE  LET bytes == a \o WriteString(s) IN
         /\ bytes \in Seq(Byte)
         /\ ReadStringThrows(bytes, Len(a) + 1) <=> WrittenLength(s) < 0
         /\ WrittenLength(s) >= 0 =>
              ReadString(bytes, Len(a) + 1)
                = FromUtf8(SubSeq(Utf8(s), 1, WrittenLength(s)))
<1>. DEFINE l == WrittenLength(s)
            text == SubSeq(Utf8(s), 1, l)
            bytes == a \o WriteString(s)
<1>1. /\ text \in Seq(Byte) /\ l \in Int
      /\ Len(text) = (IF l > 0 THEN l ELSE 0)
      /\ WriteString(s) = Little(l, 2) \o text
  BY WriteStringIs
<1>2. Little(l, 2) \in Seq(Byte) /\ Len(Little(l, 2)) = 2
  BY <1>1, LittleSpells
<1>3. Narrow(l, 2) = l
  <2>1. Len(Utf8(s)) \in Int
    BY Utf8Next
  <2>. QED BY <2>1, NarrowTwice DEF WrittenLength, IsSigned
<1>. HIDE DEF l, text
<1>4. bytes = (a \o Little(l, 2)) \o text
  BY <1>1, <1>2, Associative, SMTT(30) DEF bytes
<1>. HIDE DEF bytes
<1>5. bytes \in Seq(Byte) /\ Len(bytes) = Len(a) + 2 + Len(text) /\ Len(a) \in Nat
  <2>1. Len(a) \in Nat /\ Len(text) \in Nat
    BY <1>1
  <2>2. /\ a \o Little(l, 2) \in Seq(Byte)
        /\ Len(a \o Little(l, 2)) = Len(a) + Len(Little(l, 2))
    BY <1>2, Concatenation
  <2>3. /\ bytes \in Seq(Byte)
        /\ Len(bytes) = Len(a \o Little(l, 2)) + Len(text)
    BY <1>1, <1>4, <2>2, Concatenation
  <2>. QED BY <1>2, <2>1, <2>2, <2>3
<1>6. StringLength(bytes, Len(a) + 1) = l
  BY <1>1, <1>3, <1>4, GetLittle DEF StringLength
<1>7. ReadStringThrows(bytes, Len(a) + 1) <=> l < 0
  BY <1>1, <1>5, <1>6 DEF ReadStringThrows
<1>8. ASSUME l >= 0 PROVE ReadString(bytes, Len(a) + 1) = FromUtf8(text)
  <2>. DEFINE b == a \o Little(l, 2)
  <2>1. b \in Seq(Byte) /\ Len(b) = Len(a) + 2
    <3>1. b \in Seq(Byte) /\ Len(b) = Len(a) + Len(Little(l, 2))
      BY <1>2, Concatenation
    <3>. QED BY <1>2, <3>1
  <2>2. bytes = (b \o text) \o << >>
    BY <1>1, <1>4, <2>1
  <2>. HIDE DEF b
  <2>3. SubSeq(bytes, Len(b) + 1, Len(b) + Len(text)) = text
    <3>1. << >> \in Seq(Byte)
      OBVIOUS
    <3>. QED BY <1>1, <2>1, <2>2, <3>1, Middle
  <2>4. /\ Len(b) + 1 = (Len(a) + 1) + 2
        /\ Len(b) + Len(text) = (Len(a) + 1) + 1 + l
    <3>1. Len(text) = l /\ Len(a) \in Nat
      BY <1>1, <1>8
    <3>2. Len(b) + Len(text) = (Len(a) + 2) + l
      BY <2>1, <3>1
    <3>. QED BY <1>1, <2>1, <3>1, <3>2
  <2>. QED BY <1>6, <2>3, <2>4 DEF ReadString
<1>. QED BY <1>5, <1>7, <1>8 DEF bytes, l, text

-------------------------------------------------------------------------------
(***************************************************************************)
(* A message that is written is read.                                      *)
(***************************************************************************)

\* The ids and numbers of messages have the sizes that they are written in, and
\* only strings have texts.
LEMMA MessageIs ==
  ASSUME NEW m \in Messages
  PROVE  /\ m = [kind |-> m.kind, id |-> m.id, number |-> m.number, text |-> m.text]
         /\ m.kind \in {"longId", "boolean", "byte", "int", "long", "unsignedLong",
                        "string", "sample"}
         /\ m.id \in Int /\ IsSigned(m.id, 8) /\ (~HasId(m.kind) => m.id = 0)
         /\ m.number \in Int /\ (m.kind = "boolean" => m.number \in {0, 1})
         /\ IF Size(m.kind) = 0 THEN m.number = 0
            ELSE IsSigned(m.number, Size(m.kind))
         /\ Size(m.kind) \in {0, 1, 4, 8} /\ (HasText(m.kind) => Size(m.kind) = 0)
         /\ IF HasText(m.kind) THEN m.text \in Seq(Characters) \cup {Null}
            ELSE m.text = << >>
<1>. USE DEF Message, HasId, HasText, Size
<1>1. IsSigned(0, 8) /\ IsSigned(0, 1) /\ IsSigned(1, 1)
  BY NarrowSmall DEF IsSigned
<1>2. /\ Ids \subseteq Int /\ ByteValues \subseteq Int /\ IntValues \subseteq Int
      /\ LongValues \subseteq Int
      /\ \A x \in Ids \cup LongValues : IsSigned(x, 8)
      /\ \A x \in IntValues : IsSigned(x, 4)
      /\ \A x \in ByteValues : IsSigned(x, 1)
      /\ Texts \subseteq Seq(Characters) \cup {Null}
  BY CodecAssumption, TextAssumption DEF Characters
<1>3. CASE m \in Message({"longId"}, Ids, {0}, {<< >>})
  BY <1>1, <1>2, <1>3
<1>4. CASE m \in Message({"boolean"}, Ids, {0, 1}, {<< >>})
  BY <1>1, <1>2, <1>4
<1>5. CASE m \in Message({"byte"}, Ids, ByteValues, {<< >>})
  BY <1>1, <1>2, <1>5
<1>6. CASE m \in Message({"int"}, Ids, IntValues, {<< >>})
  BY <1>1, <1>2, <1>6
<1>7. CASE m \in Message({"long", "unsignedLong"}, Ids, LongValues, {<< >>})
  BY <1>1, <1>2, <1>7
<1>8. CASE m \in Message({"string"}, Ids, {0}, Texts)
  BY <1>1, <1>2, <1>8
<1>9. CASE m \in Message({"sample"}, {0}, {0}, Texts)
  BY <1>1, <1>2, <1>9
<1>. QED BY <1>3, <1>4, <1>5, <1>6, <1>7, <1>8, <1>9 DEF Messages

\* What is read of a message behind any bundle id: the id and the number are
\* what was written, and so is the text as far as it was written.
LEMMA ReadsMessage ==
  ASSUME NEW b \in BundleIds, NEW m \in Messages, ~WriteThrows(m)
  PROVE  LET bytes == Little(b, 2) \o WriteMessage(m)
             read == ReadMessage(m.kind, bytes)
         IN /\ bytes \in Seq(Byte)
            /\ GetAt(bytes, 1, 2) = b
            /\ read.kind = m.kind /\ read.id = m.id /\ read.number = m.number
            /\ ~HasText(m.kind) => ~ReadThrows(m.kind, bytes) /\ read = m
            /\ HasText(m.kind) =>
                 /\ m.text \in Seq(Characters)
                 /\ ReadThrows(m.kind, bytes) <=> WrittenLength(m.text) < 0
                 /\ WrittenLength(m.text) >= 0 =>
                      read.text = FromUtf8(SubSeq(Utf8(m.text), 1, WrittenLength(m.text)))
<1>. DEFINE bytes == Little(b, 2) \o WriteMessage(m)
            read == ReadMessage(m.kind, bytes)
            n == Size(m.kind)
            head == Little(b, 2) \o Little(m.id, IdSize(m.kind))
            tail == IF HasText(m.kind) THEN WriteString(m.text) ELSE Little(m.number, n)
<1>1. /\ b \in Int /\ IsSigned(b, 2)
      /\ IdSize(m.kind) \in {0, 8} /\ (HasId(m.kind) <=> IdSize(m.kind) = 8)
  BY CodecAssumption DEF IdSize
<1>2. HasText(m.kind) => m.text \in Seq(Characters)
  BY MessageIs DEF WriteThrows
<1>3. /\ Little(b, 2) \in Seq(Byte) /\ Len(Little(b, 2)) = 2
      /\ Little(m.id, IdSize(m.kind)) \in Seq(Byte)
      /\ Len(Little(m.id, IdSize(m.kind))) = IdSize(m.kind)
      /\ Little(m.number, n) \in Seq(Byte) /\ Len(Little(m.number, n)) = n
  <2>1. b \in Int /\ m.id \in Int /\ m.number \in Int
        /\ IdSize(m.kind) \in Nat /\ n \in Nat
    BY <1>1, MessageIs
  <2>. HIDE DEF n
  <2>. QED BY <2>1, LittleSpells
<1>4. tail \in Seq(Byte)
  <2>1. CASE HasText(m.kind)
    <3>1. WrittenLength(m.text) \in Int
      BY <1>2, <2>1, WriteStringIs
    <3>2. Little(WrittenLength(m.text), 2) \in Seq(Byte)
      BY <3>1, LittleSpells
    <3>. QED BY <1>2, <2>1, <3>2, WriteStringIs, Concatenation
  <2>. QED BY <1>3, <2>1
<1>5. WriteMessage(m) = Little(m.id, IdSize(m.kind)) \o tail
  BY DEF WriteMessage
<1>. HIDE DEF tail
<1>6. bytes = head \o tail
  BY <1>3, <1>4, <1>5, Associative
<1>7. head \in Seq(Byte) /\ Len(head) = 2 + IdSize(m.kind)
  <2>1. /\ head \in Seq(Byte)
        /\ Len(head) = Len(Little(b, 2)) + Len(Little(m.id, IdSize(m.kind)))
    BY <1>3, Concatenation
  <2>. QED BY <1>1, <1>3, <2>1
<1>8. bytes \in Seq(Byte) /\ Len(bytes) = Len(head) + Len(tail)
  <2>. HIDE DEF bytes, head
  <2>. QED BY <1>4, <1>6, <1>7, Concatenation
<1>9. GetAt(bytes, 1, 2) = b
  <2>1. << >> \in Seq(Byte) /\ Len(<< >>) + 1 = 1 /\ << >> \o Little(b, 2) = Little(b, 2)
    BY <1>3
  <2>2. WriteMessage(m) \in Seq(Byte)
    BY <1>3, <1>4, <1>5, Concatenation
  <2>. HIDE DEF head
  <2>3. GetAt((<< >> \o Little(b, 2)) \o WriteMessage(m), Len(<< >>) + 1, 2) = Narrow(b, 2)
    BY <1>1, <2>1, <2>2, GetLittle
  <2>. QED BY <1>1, <2>1, <2>3 DEF IsSigned
<1>10. HasId(m.kind) => GetAt(bytes, 3, 8) = m.id
  <2>. SUFFICES ASSUME HasId(m.kind) PROVE GetAt(bytes, 3, 8) = m.id
    OBVIOUS
  <2>1. head = Little(b, 2) \o Little(m.id, 8)
    BY <1>1
  <2>2. GetAt((Little(b, 2) \o Little(m.id, 8)) \o tail, Len(Little(b, 2)) + 1, 8)
          = Narrow(m.id, 8)
    BY <1>3, <1>4, MessageIs, GetLittle, SMTT(30)
  <2>3. Len(Little(b, 2)) + 1 = 3
    <3>. DEFINE k == Len(Little(b, 2))
    <3>1. k = 2
      BY <1>3
    <3>. HIDE DEF k
    <3>2. k + 1 = 3
      BY <3>1
    <3>. QED BY <3>2 DEF k
  <2>. HIDE DEF head, bytes
  <2>. QED BY <1>6, <2>1, <2>2, <2>3, MessageIs DEF IsSigned
<1>. HIDE DEF head, bytes
<1>11. 3 + IdSize(m.kind) = Len(head) + 1
  BY <1>1, <1>7
<1>12. CASE HasText(m.kind)
  <2>1. tail = WriteString(m.text)
    BY <1>12 DEF tail
  <2>2. /\ ReadStringThrows(bytes, Len(head) + 1) <=> WrittenLength(m.text) < 0
        /\ WrittenLength(m.text) >= 0 =>
             ReadString(bytes, Len(head) + 1)
               = FromUtf8(SubSeq(Utf8(m.text), 1, WrittenLength(m.text)))
    BY <1>2, <1>6, <1>7, <1>12, <2>1, ReadsString
  <2>3. /\ ReadThrows(m.kind, bytes) <=> WrittenLength(m.text) < 0
        /\ WrittenLength(m.text) >= 0 =>
             read.text = FromUtf8(SubSeq(Utf8(m.text), 1, WrittenLength(m.text)))
    BY <1>11, <1>12, <2>2 DEF ReadThrows, ReadMessage
  <2>4. read.kind = m.kind /\ read.id = m.id /\ read.number = m.number
    <3>1. m.kind # "boolean" /\ m.number = 0
      BY <1>12, MessageIs DEF HasText
    <3>. QED BY <1>10, <1>12, <3>1, MessageIs DEF ReadMessage
  <2>. QED BY <1>2, <1>8, <1>9, <1>12, <2>3, <2>4 DEF bytes
<1>13. CASE ~HasText(m.kind)
  <2>1. tail = Little(m.number, n)
    BY <1>13 DEF tail
  <2>2. ~ReadThrows(m.kind, bytes)
    <3>1. Len(bytes) = Len(head) + n
      BY <1>3, <1>8, <2>1
    <3>2. Len(bytes) = (2 + IdSize(m.kind)) + n /\ n \in Nat
      BY <1>7, <3>1, MessageIs
    <3>. QED BY <1>1, <1>13, <3>2 DEF ReadThrows
  <2>3. n # 0 => GetAt(bytes, 3 + IdSize(m.kind), n) = m.number
    <3>. SUFFICES ASSUME n # 0 PROVE GetAt(bytes, 3 + IdSize(m.kind), n) = m.number
      OBVIOUS
    <3>1. bytes = (head \o Little(m.number, n)) \o << >> /\ << >> \in Seq(Byte)
      BY <1>6, <1>8, <2>1, Concatenation
    <3>2. GetAt(bytes, Len(head) + 1, n) = Narrow(m.number, n)
      <4>1. m.number \in Int /\ n \in Nat
        BY MessageIs
      <4>. HIDE DEF n
      <4>. QED BY <1>7, <3>1, <4>1, GetLittle
    <3>. QED BY <1>11, <3>2, MessageIs DEF IsSigned
  <2>4. read = m
    <3>1. m.kind = "boolean" /\ m.number # 0 => m.number = 1
      BY MessageIs
    <3>2. read = [kind |-> m.kind, id |-> m.id, number |-> m.number, text |-> << >>]
      BY <1>10, <1>13, <2>3, <3>1, MessageIs DEF ReadMessage
    <3>. QED BY <1>13, <3>2, MessageIs
  <2>. QED BY <1>8, <1>9, <1>13, <2>2, <2>4 DEF bytes
<1>. QED BY <1>12, <1>13

\* What is read of any bytes is a string.
LEMMA FromUtf8IsText ==
  ASSUME NEW s \in Seq(Characters), NEW n \in Int, n <= Len(Utf8(s))
  PROVE  Len(FromUtf8(SubSeq(Utf8(s), 1, n))) \in Nat
<1>. DEFINE t == SubSeq(Utf8(s), 1, n)
            Read == {"0", "a", "e", "?"}
            chars == [i \in DOMAIN t |-> CharsAt(t, i)]
<1>1. t \in Seq(0..3)
  BY Utf8Next, First
<1>. HIDE DEF t
<1>2. \A i \in 1..Len(t) : CharsAt(t, i) \in Seq(Read)
  <2>1. /\ <<"0">> \in Seq(Read) /\ <<"a">> \in Seq(Read) /\ <<"e">> \in Seq(Read)
        /\ <<"?">> \in Seq(Read) /\ << >> \in Seq(Read)
    OBVIOUS
  <2>. HIDE DEF Read
  <2>2. \A i \in 1..Len(t) : t[i] \in {0, 1, 2, 3}
    BY <1>1
  <2>. QED BY <2>1, <2>2 DEF CharsAt
<1>3. chars \in [1..Len(t) -> Seq(Read)] /\ Len(t) \in Nat
  BY <1>1, <1>2
<1>4. chars \in Seq(Seq(Read))
  <2>. HIDE DEF chars, Read
  <2>. QED BY <1>3
<1>5. FromUtf8(t) \in Seq(Read)
  <2>. HIDE DEF Read
  <2>. QED BY <1>4, FlattenNext DEF FromUtf8
<1>. QED BY <1>5 DEF t

\* A message whose string, if it has one, has a length of 15 bits is read as it was.
LEMMA ReadsWholeMessage ==
  ASSUME NEW b \in BundleIds, NEW m \in Messages, ~WriteThrows(m),
         HasText(m.kind) => StringFits(m.text)
  PROVE  LET bytes == Little(b, 2) \o WriteMessage(m)
         IN ~ReadThrows(m.kind, bytes) /\ ReadMessage(m.kind, bytes) = m
<1>. DEFINE bytes == Little(b, 2) \o WriteMessage(m)
            read == ReadMessage(m.kind, bytes)
            s == m.text
<1>1. CASE HasText(m.kind)
  <2>1. s \in Seq(Characters)
    BY <1>1, ReadsMessage
  <2>2. Utf8(s) \in Seq(Byte) /\ Len(Utf8(s)) \in Nat
    BY <2>1, WriteStringIs
  <2>3. WrittenLength(s) = Len(Utf8(s))
    BY <1>1, <2>2, NarrowSmall DEF StringFits, WrittenLength
  <2>4. SubSeq(Utf8(s), 1, Len(Utf8(s))) = Utf8(s)
    BY <2>2
  <2>5. ~ReadThrows(m.kind, bytes) /\ read.text = s
    <3>1. WrittenLength(s) >= 0 /\ ~(WrittenLength(s) < 0)
      BY <2>2, <2>3
    <3>2. ~ReadThrows(m.kind, bytes)
      BY <1>1, <3>1, ReadsMessage
    <3>3. read.text = FromUtf8(SubSeq(Utf8(s), 1, WrittenLength(s)))
      BY <1>1, <3>1, ReadsMessage
    <3>4. FromUtf8(SubSeq(Utf8(s), 1, WrittenLength(s))) = s
      BY <2>1, <2>3, <2>4, ReadsUtf8
    <3>. HIDE DEF read, bytes, s
    <3>. QED BY <3>2, <3>3, <3>4
  <2>6. read.kind = m.kind /\ read.id = m.id /\ read.number = m.number
    BY ReadsMessage
  <2>7. read = [kind |-> read.kind, id |-> read.id, number |-> read.number,
                text |-> read.text]
    BY DEF ReadMessage
  <2>. HIDE DEF read
  <2>8. read = m
    BY <2>5, <2>6, <2>7, MessageIs
  <2>. QED BY <2>5, <2>8 DEF read
<1>2. CASE ~HasText(m.kind)
  BY <1>2, ReadsMessage
<1>. QED BY <1>1, <1>2

\* A message that is written as JSON is read as it was, but a ByteMessage only
\* from text.
LEMMA ReadsJson ==
  ASSUME NEW m \in Messages
  PROVE  /\ ReadJsonThrows(m.kind, JsonId(m), JsonValue(m)) <=> m.kind = "byte"
         /\ ~ReadJsonThrows(m.kind, Parsed(JsonId(m)), Parsed(JsonValue(m)))
         /\ m.kind # "byte" => ReadJson(m.kind, JsonId(m), JsonValue(m)) = m
         /\ ReadJson(m.kind, Parsed(JsonId(m)), Parsed(JsonValue(m))) = m
<1>. DEFINE j == JsonId(m)
            v == JsonValue(m)
<1>1. ASSUME NEW x \in Int, IsSigned(x, 8)
      PROVE  Unsigned(x) \in 0..Span[8]-1 /\ Signed(Unsigned(x), 8) = x
  BY <1>1, NarrowTwice DEF Unsigned, IsSigned, Narrow
<1>2. HasId(m.kind) => ParsesUnsigned(j) /\ Signed(j.number, 8) = m.id
  BY <1>1, MessageIs DEF JsonId, ParsesUnsigned, Boxed
<1>3. Parsed(j) = j
  BY DEF Parsed, JsonId, Boxed, Nothing
<1>4. IF HasId(m.kind) THEN Signed(j.number, 8) = m.id ELSE m.id = 0
  BY <1>2, MessageIs
<1>. HIDE DEF j
<1>5. CASE m.kind = "boolean"
  <2>1. v = Boxed("Boolean", m.number, << >>) /\ Parsed(v) = v
    BY <1>5 DEF JsonValue, HasText, Parsed, Boxed
  <2>. QED BY <1>2, <1>3, <1>4, <1>5, <2>1, MessageIs
           DEF j, ReadJsonThrows, ReadJson, HasText, Boxed
<1>6. CASE m.kind = "byte"
  <2>1. /\ v = Boxed("Integer", m.number, << >>)
        /\ Parsed(v) = Boxed("Long", m.number, << >>)
    BY <1>6 DEF JsonValue, HasText, Parsed, Boxed
  <2>2. Narrow(m.number, 1) = m.number
    BY <1>6, MessageIs DEF Size, IsSigned
  <2>. QED BY <1>2, <1>3, <1>4, <1>6, <2>1, <2>2, MessageIs
           DEF j, ReadJsonThrows, ReadJson, HasText, Boxed
<1>7. CASE m.kind = "int"
  <2>1. /\ v = Boxed("Integer", m.number, << >>)
        /\ Parsed(v) = Boxed("Long", m.number, << >>)
    BY <1>7 DEF JsonValue, HasText, Parsed, Boxed
  <2>2. Narrow(m.number, 4) = m.number
    BY <1>7, MessageIs DEF Size, IsSigned
  <2>. QED BY <1>2, <1>3, <1>4, <1>7, <2>1, <2>2, MessageIs
           DEF j, ReadJsonThrows, ReadJson, HasText, Boxed
<1>8. CASE m.kind = "long"
  <2>1. v = Boxed("digits", m.number, << >>) /\ Parsed(v) = v
    BY <1>8 DEF JsonValue, HasText, Parsed, Boxed
  <2>2. ParsesSigned(v)
    BY <1>8, <2>1, MessageIs DEF Size, ParsesSigned, Boxed
  <2>. QED BY <1>2, <1>3, <1>4, <1>8, <2>1, <2>2, MessageIs
           DEF j, ReadJsonThrows, ReadJson, HasText, Boxed
<1>9. CASE m.kind = "unsignedLong"
  <2>1. v = Boxed("digits", Unsigned(m.number), << >>) /\ Parsed(v) = v
    BY <1>9 DEF JsonValue, HasText, Parsed, Boxed
  <2>2. ParsesUnsigned(v) /\ Signed(v.number, 8) = m.number
    BY <1>1, <1>9, <2>1, MessageIs DEF Size, ParsesUnsigned, Boxed
  <2>. QED BY <1>2, <1>3, <1>4, <1>9, <2>1, <2>2, MessageIs
           DEF j, ReadJsonThrows, ReadJson, HasText, Boxed
<1>10. CASE HasText(m.kind)
  <2>1. v = Boxed("String", 0, m.text) /\ Parsed(v) = v
    BY <1>10 DEF JsonValue, HasText, Parsed, Boxed
  <2>. QED BY <1>2, <1>3, <1>4, <1>10, <2>1, MessageIs
           DEF j, ReadJsonThrows, ReadJson, HasText, Size, Boxed
<1>11. CASE m.kind = "longId"
  <2>1. v = Nothing /\ Parsed(v) = v
    BY <1>11 DEF JsonValue, HasText, Parsed, Boxed, Nothing
  <2>. QED BY <1>2, <1>3, <1>4, <1>11, <2>1, MessageIs
           DEF j, ReadJsonThrows, ReadJson, HasText, Size, Boxed, Nothing
<1>. QED BY <1>5, <1>6, <1>7, <1>8, <1>9, <1>10, <1>11, MessageIs DEF HasText

-------------------------------------------------------------------------------
(***************************************************************************)
(* A message on its way.                                                   *)
(***************************************************************************)

\* What is sent stays what it is, and what is on its way is what was written.
Sent ==
  /\ bundleId \in BundleIds /\ message \in Messages
  /\ step \in {"made", "array", "json", "text", "read", "readJson", "threw"}
  /\ \/ array = << >> /\ step \notin {"array", "read"}
     \/ array = Bytes /\ CanWrite
  /\ step = "json" => json = <<JsonId(message), JsonValue(message)>>
  /\ step = "text" => json = <<Parsed(JsonId(message)), Parsed(JsonValue(message))>>

\* What was read of bytes is what these say, and what was read of JSON is what was
\* sent.
Got ==
  /\ step = "read" => ~ReadThrows(message.kind, Bytes)
  /\ got = IF step = "read"
           THEN [id |-> GetAt(Bytes, 1, 2), message |-> ReadMessage(message.kind, Bytes)]
           ELSE [id |-> 0, message |-> message]

CodecInv == Sent /\ Got

\* Nothing is sent and read but as the invariant says.
LEMMA CodecInvHolds == Spec => []CodecInv
<1>1. Init => CodecInv
  BY DEF Init, CodecInit, CodecInv, Sent, Got
<1>2. CodecInv /\ [Next]_vars => CodecInv'
  <2> SUFFICES ASSUME CodecInv, [Next]_vars
               PROVE  CodecInv'
    OBVIOUS
  <2> USE DEF CodecInv, Sent, Got
  <2>1. ASSUME UNCHANGED <<bundleId, message>>
        PROVE  Bytes' = Bytes /\ CanWrite' = CanWrite
    BY <2>1 DEF Bytes, CanWrite
  <2>2. CASE ToArray
    BY <2>1, <2>2 DEF ToArray
  <2>3. CASE ToArrayThrows
    BY <2>1, <2>3 DEF ToArrayThrows
  <2>4. CASE GetMessage
    <3>1. array = Bytes /\ CanWrite /\ array' = array
      BY <2>4 DEF GetMessage
    <3>. QED BY <2>1, <2>4, <3>1 DEF GetMessage
  <2>5. CASE GetMessageThrows
    BY <2>1, <2>5 DEF GetMessageThrows
  <2>6. CASE ToJson
    BY <2>1, <2>6 DEF ToJson
  <2>7. CASE ToTextAndBack
    <3>1. json' = <<Parsed(JsonId(message)), Parsed(JsonValue(message))>>
      BY <2>7 DEF ToTextAndBack
    <3>. QED BY <2>1, <2>7, <3>1 DEF ToTextAndBack
  <2>8. CASE GetFromJson
    <3>1. ReadJson(message.kind, json[1], json[2]) = message
      BY <2>8, ReadsJson DEF GetFromJson
    <3>2. got' = [id |-> 0, message |-> message]
      BY <2>8, <3>1 DEF GetFromJson
    <3>. QED BY <2>1, <2>8, <3>2 DEF GetFromJson
  <2>9. CASE GetFromJsonThrows
    BY <2>1, <2>9 DEF GetFromJsonThrows
  <2>10. CASE UNCHANGED codecVars
    BY <2>1, <2>10 DEF codecVars
  <2>11. Transfer \/ UNCHANGED codecVars
    BY DEF Next, CallValidator, vars
  <2>. QED BY <2>2, <2>3, <2>4, <2>5, <2>6, <2>7, <2>8, <2>9, <2>10, <2>11
           DEF Transfer, CodecNext
<1>. QED BY <1>1, <1>2, PTL DEF Spec

\* A short string arrives as it was sent, and a longer one costs itself only.
THEOREM MessagesArriveAsSent == Spec => []ArrivesAsSent
<1>1. CodecInv => ArrivesAsSent
  <2>. SUFFICES ASSUME CodecInv PROVE ArrivesAsSent
    OBVIOUS
  <2>. USE DEF CodecInv, Sent, Got
  <2>1. Bytes = Little(bundleId, 2) \o WriteMessage(message)
    BY DEF Bytes
  <2>2. step \in {"array", "read"} => array = Bytes /\ ~WriteThrows(message)
    BY DEF CanWrite
  <2>3. ASSUME Fits, step \in {"array", "read"}
        PROVE  /\ ~ReadThrows(message.kind, Bytes)
               /\ ReadMessage(message.kind, Bytes) = message
    BY <2>1, <2>2, <2>3, ReadsWholeMessage DEF Fits, WriteThrows
  <2>4. ASSUME step = "read"
        PROVE  /\ got.id = bundleId /\ got.message.id = message.id
               /\ got = [id |-> bundleId, message |-> ReadMessage(message.kind, Bytes)]
    BY <2>1, <2>2, <2>4, ReadsMessage
  <2>5. ASSUME step = "read", HasText(message.kind)
        PROVE  \E n \in 0..Len(Utf8(message.text)) :
                 got.message.text = FromUtf8(SubSeq(Utf8(message.text), 1, n))
    <3>. DEFINE s == message.text
                n == WrittenLength(s)
    <3>1. s \in Seq(Characters) /\ ~(n < 0)
      BY <2>1, <2>2, <2>5, ReadsMessage
    <3>2. n \in Int /\ n <= Len(Utf8(s))
      BY <3>1, WriteStringIs
    <3>3. n \in 0..Len(Utf8(s))
      <4>1. Len(Utf8(s)) \in Nat
        BY <3>1, Utf8Next
      <4>. QED BY <3>1, <3>2, <4>1
    <3>4. ReadMessage(message.kind, Bytes).text = FromUtf8(SubSeq(Utf8(s), 1, n))
      BY <2>1, <2>2, <2>5, <3>1, <3>2, ReadsMessage
    <3>. QED BY <2>4, <2>5, <3>3, <3>4
  <2>. QED BY <2>2, <2>3, <2>4, <2>5 DEF ArrivesAsSent
<1>. QED BY <1>1, CodecInvHolds, PTL

\* JSON loses nothing of a message.
THEOREM JsonKeepsMessages == Spec => []JsonReadsWhatItWrote
<1>1. CodecInv => JsonReadsWhatItWrote
  <2>. SUFFICES ASSUME CodecInv PROVE JsonReadsWhatItWrote
    OBVIOUS
  <2>1. step = "readJson" => got.message = message
    BY DEF CodecInv, Got
  <2>2. step = "json" =>
          (ReadJsonThrows(message.kind, json[1], json[2]) <=> message.kind = "byte")
    BY ReadsJson DEF CodecInv, Sent
  <2>3. step = "text" => ~ReadJsonThrows(message.kind, json[1], json[2])
    BY ReadsJson DEF CodecInv, Sent
  <2>. QED BY <2>1, <2>2, <2>3 DEF JsonReadsWhatItWrote
<1>. QED BY <1>1, CodecInvHolds, PTL

\* Messages that were sent and read say they are equal only when they are.
THEOREM EqualsIsExact == Spec => []EqualsTellsApart
<1>1. CodecInv => EqualsTellsApart
  <2>. SUFFICES ASSUME CodecInv, step \in {"read", "readJson"}
                PROVE  (Equals(message, got.message) /\ Equals(got.message, message)) <=>
                         /\ got.message = message
                         /\ message.kind \notin {"unsignedLong", "sample"}
    BY DEF EqualsTellsApart
  <2>. DEFINE read == got.message
  <2>1. /\ read.kind = message.kind /\ read.id = message.id
        /\ read.number = message.number
        /\ ~HasText(message.kind) => read = message
        /\ read = [kind |-> read.kind, id |-> read.id, number |-> read.number,
                   text |-> read.text]
    <3>1. CASE step = "readJson"
      <4>1. read = message
        BY <3>1 DEF CodecInv, Got
      <4>. QED BY <4>1, MessageIs DEF CodecInv, Sent
    <3>2. CASE step = "read"
      <4>1. read = ReadMessage(message.kind, Bytes) /\ ~WriteThrows(message)
        BY <3>2 DEF CodecInv, Sent, Got, CanWrite
      <4>2. ReadMessage(message.kind, Bytes) = message \/ HasText(message.kind)
        BY <4>1, ReadsMessage DEF CodecInv, Sent, Bytes
      <4>3. /\ read.kind = message.kind /\ read.id = message.id
            /\ read.number = message.number
        BY <4>1, ReadsMessage DEF CodecInv, Sent, Bytes
      <4>4. read = [kind |-> read.kind, id |-> read.id, number |-> read.number,
                    text |-> read.text]
        BY <4>1 DEF ReadMessage
      <4>. QED BY <4>1, <4>2, <4>3, <4>4
    <3>. QED BY <3>1, <3>2
  <2>2. /\ message = [kind |-> message.kind, id |-> message.id,
                      number |-> message.number, text |-> message.text]
        /\ message.kind \in {"longId", "boolean", "byte", "int", "long",
                             "unsignedLong", "string", "sample"}
    BY MessageIs DEF CodecInv, Sent
  <2>. HIDE DEF read
  <2>3. read = message <=> (message.kind = "string" => read.text = message.text)
                           /\ (message.kind = "sample" => read.text = message.text)
    BY <2>1, <2>2 DEF HasText
  <2>. QED BY <2>1, <2>2, <2>3 DEF read, Equals, HasId
<1>. QED BY <1>1, CodecInvHolds, PTL

-------------------------------------------------------------------------------
(***************************************************************************)
(* The validators of what was read.                                        *)
(***************************************************************************)

\* A validator of timestamps is called with ints, one of lengths with texts that
\* have one.
ArgsOK ==
  /\ args.check \in {"none", "timestamp", "length", "nonEmpty"}
  /\ args.check = "timestamp" =>
       /\ args.value \in Ints /\ args.last \in 0..MaxInt
       /\ args.lower \in 0..MaxInt /\ args.upper \in 0..MaxInt
  /\ args.check = "length" =>
       Len(args.text) \in Nat /\ args.min \in Nat /\ args.max \in Nat

\* No verdict before a call, and no call before a message is read.
Started ==
  /\ args = NoArgs => verdict = "none"
  /\ args # NoArgs => step \in {"read", "readJson"}

CallInv == ArgsOK /\ Started

\* No validator has been called: its check is none of theirs.
LEMMA NoCheck == NoArgs.check = "none"
BY DEF NoArgs

\* The text of a message that was read has a length.
LEMMA TextsHaveLengths ==
  ASSUME CodecInv, step \in {"read", "readJson"}, HasText(got.message.kind)
  PROVE  Len(got.message.text) \in Nat
<1>1. CASE step = "readJson"
  <2>1. got.message = message /\ message \in Messages
    BY <1>1 DEF CodecInv, Sent, Got
  <2>2. message.text \in Seq(Characters) \cup {Null}
    BY <2>1, MessageIs
  <2>3. CASE message.text = Null
    BY <2>1, <2>3 DEF Null
  <2>. QED BY <2>1, <2>2, <2>3
<1>2. CASE step = "read"
  <2>. DEFINE s == message.text
              n == WrittenLength(s)
  <2>1. /\ bundleId \in BundleIds /\ message \in Messages /\ ~WriteThrows(message)
        /\ Bytes = Little(bundleId, 2) \o WriteMessage(message)
        /\ got.message = ReadMessage(message.kind, Bytes)
        /\ ~ReadThrows(message.kind, Bytes)
    BY <1>2 DEF CodecInv, Sent, Got, CanWrite, Bytes
  <2>2. HasText(message.kind)
    BY <2>1, ReadsMessage
  <2>3. s \in Seq(Characters) /\ ~(n < 0)
    BY <2>1, <2>2, ReadsMessage
  <2>4. n \in Int /\ n <= Len(Utf8(s))
    BY <2>3, WriteStringIs
  <2>5. got.message.text = FromUtf8(SubSeq(Utf8(s), 1, n))
    BY <2>1, <2>2, <2>3, <2>4, ReadsMessage
  <2>. QED BY <2>3, <2>4, <2>5, FromUtf8IsText
<1>. QED BY <1>1, <1>2

\* Validators are called with values that were read.
LEMMA CallInvHolds == Spec => []CallInv
<1>1. Init => CallInv
  BY NoCheck DEF Init, CodecInit, ValidatorsInit, CallInv, ArgsOK, Started
<1>2. CodecInv /\ CallInv /\ [Next]_vars => CallInv'
  <2> SUFFICES ASSUME CodecInv, CallInv, [Next]_vars
               PROVE  CallInv'
    OBVIOUS
  <2>1. CASE Validate
    <3>1. args' = args /\ step' = step /\ args.check # "none"
      BY <2>1 DEF Next, vars, validatorVars, Transfer, CallValidator, CodecNext, codecVars,
                  Validate, ValidateTimestamp, ValidateLength, ValidateNonEmpty,
                  Verdict, Called
    <3>. QED BY <3>1, NoCheck DEF CallInv, ArgsOK, Started
  <2>2. CASE Transfer
    BY <2>2 DEF Transfer, validatorVars, CallInv, ArgsOK, Started
  <2>3. CASE UNCHANGED vars
    BY <2>3 DEF vars, codecVars, validatorVars, CallInv, ArgsOK, Started
  <2>4. CASE CallValidator
    <3>1. /\ step \in {"read", "readJson"} /\ step' = step
          /\ args = NoArgs /\ verdict' = verdict
      BY <2>4 DEF CallValidator, Call, codecVars
    <3>2. verdict = "none"
      BY <3>1 DEF CallInv, Started
    <3>3. CASE \E a \in TimestampArgs(got.message.number) : Call(a)
      <4>1. args' \in TimestampArgs(got.message.number)
        BY <3>3 DEF Call
      <4>2. ArgsOK'
        BY <4>1, ValidatorsAssumption DEF TimestampArgs, ArgsOK
      <4>. QED BY <3>1, <3>2, <4>2 DEF CallInv, Started
    <3>4. CASE HasText(got.message.kind) /\ \E a \in TextArgs(got.message.text) : Call(a)
      <4>1. args' \in TextArgs(got.message.text)
        BY <3>4 DEF Call
      <4>2. Len(got.message.text) \in Nat
        BY <3>1, <3>4, TextsHaveLengths
      <4>3. ArgsOK'
        <5>1. /\ args'.check \in {"length", "nonEmpty"}
              /\ args'.check = "length" =>
                   /\ args'.text = got.message.text
                   /\ args'.min \in Lengths /\ args'.max \in Lengths
          BY <4>1 DEF TextArgs
        <5>2. Lengths \subseteq Nat
          BY ValidatorsAssumption
        <5>. QED BY <4>2, <5>1, <5>2 DEF ArgsOK
      <4>. QED BY <3>1, <3>2, <4>3 DEF CallInv, Started
    <3>. QED BY <2>4, <3>3, <3>4 DEF CallValidator
  <2>. QED BY <2>1, <2>2, <2>3, <2>4 DEF Next
<1>. QED BY <1>1, <1>2, CodecInvHolds, PTL DEF Spec

\* Types: the bytes of a message are no more than the array holds, and what is
\* read is as wide as its class says.
THEOREM TypeCorrect == Spec => []TypeOK
<1>1. CodecInv => CodecTypeOK
  <2>. SUFFICES ASSUME CodecInv PROVE CodecTypeOK
    OBVIOUS
  <2>1. bundleId \in BundleIds /\ message \in Messages
    BY DEF CodecInv, Sent
  <2>2. array \in Seq(Byte) /\ Len(array) <= Capacity
    <3>1. CASE array = << >>
      <4>1. Len(array) = 0 /\ array \in Seq(Byte)
        BY <3>1
      <4>. QED BY <4>1, CodecAssumption
    <3>2. CASE array = Bytes /\ CanWrite
      BY <2>1, <3>2, ReadsMessage DEF CanWrite, Bytes
    <3>. QED BY <3>1, <3>2 DEF CodecInv, Sent
  <2>3. IsSigned(got.id, 2)
    <3>1. IsSigned(0, 2) /\ IsSigned(bundleId, 2)
      BY <2>1, NarrowSmall, CodecAssumption DEF IsSigned
    <3>2. step = "read" => GetAt(Bytes, 1, 2) = bundleId
      BY <2>1, ReadsMessage DEF CodecInv, Sent, CanWrite, Bytes
    <3>. QED BY <3>1, <3>2 DEF CodecInv, Got
  <2>4. /\ got.message.kind = message.kind /\ got.message.id = message.id
        /\ got.message.number = message.number
    <3>1. CASE step = "read"
      BY <2>1, <3>1, ReadsMessage DEF CodecInv, Sent, Got, CanWrite, Bytes
    <3>2. CASE step # "read"
      BY <3>2 DEF CodecInv, Got
    <3>. QED BY <3>1, <3>2
  <2>5. /\ IsSigned(got.message.id, 8)
        /\ got.message.kind = "int" => IsSigned(got.message.number, 4)
    BY <2>1, <2>4, MessageIs DEF Size
  <2>. QED BY <2>2, <2>3, <2>5 DEF CodecTypeOK, CodecInv, Sent, Byte
<1>2. CallInv => /\ args.check \in {"none", "timestamp", "length", "nonEmpty"}
                 /\ verdict = "valid" => step \in {"read", "readJson"}
  BY DEF CallInv, ArgsOK, Started
<1>3. CodecInv /\ CallInv => TypeOK
  BY <1>1, <1>2 DEF TypeOK
<1>. QED BY <1>3, CodecInvHolds, CallInvHolds, PTL

\* The difference of a message's timestamp that is behind the last block's is
\* positive only when it overflows.
LEMMA BehindOverflows ==
  ASSUME NEW x \in Ints, NEW y \in 0..MaxInt, NEW d \in 0..MaxInt, y > x, Minus(x, y) > d
  PROVE  y - x > MaxInt
BY ValidatorsAssumption DEF Minus, Ints

\* The difference of the last block's timestamp and a later one is never positive.
LEMMA AheadIsNegative ==
  ASSUME NEW x \in Ints, NEW y \in 0..MaxInt, NEW d \in 0..MaxInt, y < x
  PROVE  ~(Minus(y, x) > d)
BY ValidatorsAssumption DEF Minus, Ints

\* validateTimestamp accepts what is within both offsets of the last block, for ints
\* of any width.
THEOREM TimelyTimestampsPass == Spec => []TimelyIsAccepted
<1>1. Init => TimelyIsAccepted
  BY DEF Init, ValidatorsInit, TimelyIsAccepted
<1>2. CallInv /\ TimelyIsAccepted /\ [Next]_vars => TimelyIsAccepted'
  <2> SUFFICES ASSUME CallInv, TimelyIsAccepted, [Next]_vars
               PROVE  TimelyIsAccepted'
    OBVIOUS
  <2>1. CASE ValidateTimestamp
    <3>1. args' = args /\ args.check = "timestamp"
      BY <2>1 DEF ValidateTimestamp, Verdict, Called
    <3>2. args.value \in Ints /\ args.last \in 0..MaxInt
            /\ args.lower \in 0..MaxInt /\ args.upper \in 0..MaxInt
      BY <3>1 DEF CallInv, ArgsOK
    <3>3. CASE args.last > args.value /\ Minus(args.value, args.last) > args.lower
      <4>1. args.last - args.value > MaxInt
        BY <3>2, <3>3, BehindOverflows
      <4>2. ~(args.last - args.value <= args.lower)
        BY <3>2, <4>1, ValidatorsAssumption DEF Ints
      <4> QED
        BY <3>1, <4>2 DEF TimelyIsAccepted
    <3>4. CASE ~(args.last > args.value /\ Minus(args.value, args.last) > args.lower)
      <4>1. ~(args.last < args.value /\ Minus(args.last, args.value) > args.upper)
        BY <3>2, AheadIsNegative
      <4>2. verdict' = "valid"
        BY <2>1, <3>4, <4>1 DEF ValidateTimestamp, Verdict, Called
      <4> QED
        BY <4>2 DEF TimelyIsAccepted
    <3> QED
      BY <3>3, <3>4
  <2>2. CASE ValidateLength \/ ValidateNonEmpty
    BY <2>2 DEF ValidateLength, ValidateNonEmpty, Verdict, Called, TimelyIsAccepted
  <2>3. CASE Transfer \/ UNCHANGED vars
    BY <2>3 DEF Transfer, vars, validatorVars, TimelyIsAccepted
  <2>4. CASE CallValidator
    <3>1. verdict' = "none"
      BY <2>4 DEF CallValidator, Call, CallInv, Started
    <3> QED
      BY <3>1 DEF TimelyIsAccepted
  <2> QED
    BY <2>1, <2>2, <2>3, <2>4 DEF Next, Validate
<1> QED
  BY <1>1, <1>2, CallInvHolds, PTL DEF Spec

\* validateLength and validateNonEmpty accept a string within the bounds, and
\* no other.
THEOREM TextsAreBounded == Spec => []AcceptsWithinBounds
<1>1. Init => AcceptsWithinBounds
  BY NoCheck DEF Init, ValidatorsInit, AcceptsWithinBounds
<1>2. CallInv /\ AcceptsWithinBounds /\ [Next]_vars => AcceptsWithinBounds'
  <2> SUFFICES ASSUME CallInv, AcceptsWithinBounds, [Next]_vars
               PROVE  AcceptsWithinBounds'
    OBVIOUS
  <2>1. CASE ValidateLength
    <3>1. args' = args /\ args.check = "length"
      BY <2>1 DEF ValidateLength, Verdict, Called
    <3>2. Len(args.text) \in Nat /\ args.min \in Nat /\ args.max \in Nat
      BY <3>1 DEF CallInv, ArgsOK
    <3>3. verdict' = IF args.text = NoText THEN "valid"
                     ELSE IF Len(args.text) < args.min THEN "too short"
                     ELSE IF Len(args.text) > args.max THEN "too long" ELSE "valid"
      BY <2>1 DEF ValidateLength, Verdict, Called
    <3>4. Len(args.text) \in args.min..args.max <=>
            ~(Len(args.text) < args.min) /\ ~(Len(args.text) > args.max)
      BY <3>2
    <3>5. verdict' = "valid" <=> args.text = NoText \/ Len(args.text) \in args.min..args.max
      BY <3>3, <3>4
    <3> QED
      BY <3>1, <3>5 DEF AcceptsWithinBounds
  <2>2. CASE ValidateNonEmpty
    <3>1. /\ args' = args /\ args.check = "nonEmpty"
          /\ verdict' = "valid" => args.text # NoText /\ ~IsBlank(args.text)
      BY <2>2 DEF ValidateNonEmpty, Verdict, Called
    <3> QED
      BY <3>1 DEF AcceptsWithinBounds, IsBlank
  <2>3. CASE ValidateTimestamp
    BY <2>3 DEF ValidateTimestamp, Verdict, Called, AcceptsWithinBounds
  <2>4. CASE Transfer \/ UNCHANGED vars
    BY <2>4 DEF Transfer, vars, validatorVars, AcceptsWithinBounds
  <2>5. CASE CallValidator
    <3>1. verdict' = "none"
      BY <2>5 DEF CallValidator, Call, CallInv, Started
    <3> QED
      BY <3>1 DEF AcceptsWithinBounds
  <2> QED
    BY <2>1, <2>2, <2>3, <2>4, <2>5 DEF Next, Validate
<1> QED
  BY <1>1, <1>2, CallInvHolds, PTL DEF Spec

===============================================================================
