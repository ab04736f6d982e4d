---------------------------- MODULE SourceMapProofs ----------------------------
(***************************************************************************)
(* Proofs about the whole program that makes a source map with a generator,*)
(* writes it as text, reads it and asks it, for any mappings, texts and    *)
(* questions: the state keeps its types, every answer is a nearest mapping,*)
(* the spans tile the lines, the answers agree with each other, and what   *)
(* the generator was told is what its consumer has.                        *)
(***************************************************************************)
EXTENDS SourceMapConsumerProofs

(***************************************************************************)
(* Paths: every operation on strings makes a string.                       *)
(***************************************************************************)
\* A string, or what is left of one.
Paths == Seq(Parts)

\* A string is not empty, and has a length.
LEMMA NotEmpty ==
  ASSUME NEW s \in Paths
  PROVE  Len(s) \in Nat /\ (s \in Strings <=> Len(s) # 0)
<1>1. s \in Seq(Parts)
  BY DEF Paths
<1>2. Len(s) = 0 => s = << >>
  BY <1>1
<1>3. s = << >> => Len(s) = 0
  OBVIOUS
<1>4. s \in Strings <=> s # << >>
  BY <1>1 DEF Strings
<1>. QED BY <1>1, <1>2, <1>3, <1>4

\* The strings the code writes out are strings; each has a first part and a rest.
LEMMA StringsAre ==
  /\ Strings \subseteq Paths
  /\ EmptyString \in Strings /\ Dot \in Strings /\ Slash \in Strings
  /\ \A s \in Strings : s[1] \in Parts /\ Len(s) \in Nat \ {0} /\ Tail(s) \in Paths
<1>1. \A c, d \in Parts : <<c>> \in Strings /\ <<c, d>> \in Strings
  BY DEF Strings
<1>2. <<"">> \in Strings /\ <<".">> \in Strings /\ <<"", "">> \in Strings
  BY <1>1, PartsAssumption
<1>3. \A s \in Strings : s[1] \in Parts /\ Len(s) \in Nat \ {0} /\ Tail(s) \in Paths
  BY DEF Strings, Paths
<1>4. Strings \subseteq Paths
  BY DEF Strings, Paths
<1>. QED BY <1>2, <1>3, <1>4 DEF EmptyString, Dot, Slash

\* What is a string, of two put together, and of a part of one.
LEMMA JoinedStrings ==
  ASSUME NEW s \in Paths, NEW t \in Paths
  PROVE  /\ s \o t \in Paths
         /\ s \in Strings \/ t \in Strings => s \o t \in Strings
<1>1. s \o t \in Paths /\ Len(s \o t) = Len(s) + Len(t) /\ Len(s) \in Nat /\ Len(t) \in Nat
  BY DEF Paths
<1>2. /\ s \in Strings => Len(s) # 0
      /\ t \in Strings => Len(t) # 0
      /\ Len(s \o t) # 0 => s \o t \in Strings
  BY <1>1, NotEmpty
<1>. QED BY <1>1, <1>2

\* What slice(n - 1) leaves of a path.
LEMMA EndOfString ==
  ASSUME NEW s \in Paths, NEW n \in Nat \ {0}
  PROVE  /\ SubSeq(s, n, Len(s)) \in Paths
         /\ n <= Len(s) => SubSeq(s, n, Len(s)) \in Strings
<1>1. SubSeq(s, n, Len(s)) \in Paths /\ (n <= Len(s) => Len(SubSeq(s, n, Len(s))) # 0)
  BY DEF Paths
<1>. QED BY <1>1, NotEmpty

\* What slice(0, n) leaves of a path.
LEMMA BeginningOfString ==
  ASSUME NEW s \in Paths, NEW n \in 1..Len(s)
  PROVE  SubSeq(s, 1, n) \in Strings
<1>1. SubSeq(s, 1, n) \in Paths /\ Len(SubSeq(s, 1, n)) # 0
  BY DEF Paths
<1>. QED BY <1>1, NotEmpty

\* split keeps parts of the path.
LEMMA SplitType ==
  ASSUME NEW p \in Paths
  PROVE  Split[p] \in Paths
<1>. DEFINE Body(f) == [n \in 0..Len(p) |->
              IF n = 0 THEN <<>>
              ELSE IF p[n] # "" \/ n \in {1, Len(p)} THEN Append(f[n-1], p[n]) ELSE f[n-1]]
            Steps(f) == f = Body(f)
            f == CHOOSE f : Steps(f)
            Round(n, s) == IF n \in 1..Len(p) /\ (p[n] # "" \/ n \in {1, Len(p)}) THEN Append(s, p[n]) ELSE s
            round == [x \in Nat \X Paths |-> Round(x[1], x[2])]
<1>1. Split[p] = f[Len(p)]
  BY DEF Split, Paths
<1>2. Len(p) \in Nat /\ (\A n \in 1..Len(p) : p[n] \in Parts) /\ << >> \in Paths
  BY DEF Paths
<1>3. round \in [Nat \X Paths -> Paths]
  <2>1. ASSUME NEW k \in Nat, NEW s \in Paths PROVE Round(k, s) \in Paths
    <3>1. CASE k \in 1..Len(p)
      <4>1. \A c \in Parts : Append(s, c) \in Paths
        BY DEF Paths
      <4>. QED BY <1>2, <3>1, <4>1
    <3>2. CASE k \notin 1..Len(p)
      BY <3>2
    <3>. QED BY <3>1, <3>2
  <2>. QED BY <2>1
<1>4. PICK g : Loops(g, Len(p), Paths, << >>, round)
  <2>. HIDE DEF round
  <2>. QED BY <1>2, <1>3, LoopExists
<1>5. Steps(g)
  <2>1. g \in [0..Len(p) -> Paths] /\ g[0] = << >>
    BY <1>4 DEF Loops
  <2>2. ASSUME NEW n \in 1..Len(p) PROVE g[n] = Round(n, g[n-1])
    <3>1. g[n] = round[<<n, g[n-1]>>]
      BY <1>4 DEF Loops
    <3>2. <<n, g[n-1]>> \in Nat \X Paths
      BY <1>2, <2>1
    <3>. QED BY <3>1, <3>2
  <2>3. ASSUME NEW n \in 0..Len(p) PROVE g[n] = Body(g)[n]
    <3>1. CASE n = 0
      BY <2>1, <3>1
    <3>2. CASE n # 0
      <4>1. n \in 1..Len(p)
        BY <1>2, <3>2
      <4>. QED BY <2>2, <3>2, <4>1
    <3>. QED BY <3>1, <3>2
  <2>. QED BY <2>1, <2>3
<1>6. Steps(f)
  <2>. HIDE DEF Steps
  <2>. QED BY <1>5
<1>. HIDE DEF f
<1>7. f[0] = << >>
  <2>1. 0 \in 0..Len(p)
    BY <1>2
  <2>. QED BY <1>6, <2>1
<1>8. ASSUME NEW i \in 1..Len(p), f[i-1] \in Paths PROVE f[i] = round[<<i, f[i-1]>>]
  <2>1. i \in 0..Len(p) /\ i # 0 /\ i \in Nat
    BY <1>2
  <2>2. f[i] = Round(i, f[i-1])
    BY <1>6, <2>1
  <2>3. <<i, f[i-1]>> \in Nat \X Paths
    BY <1>8, <2>1
  <2>. QED BY <2>2, <2>3
<1>. HIDE DEF round
<1>9. f[Len(p)] \in Paths
  BY <1>2, <1>3, <1>7, <1>8, LoopStays
<1>. QED BY <1>1, <1>9

\* What normalize has kept, and how many of these are "..".
Normalizing == {s \in [parts : Paths, up : Nat] : s.up <= Len(s.parts)}

\* Each turn of normalize's loop keeps at least the parts it counts.
LEMMA NormalizePartType ==
  ASSUME NEW s \in Normalizing, NEW part \in Parts
  PROVE  NormalizePart(s, part) \in Normalizing
<1>1. s.parts \in Seq(Parts) /\ s.up \in Nat /\ s.up <= Len(s.parts) /\ Len(s.parts) \in Nat
  BY DEF Normalizing, Paths
<1>2. PICK q \in Seq(Parts), u \in Nat : q = s.parts /\ u = s.up /\ u <= Len(q) /\ Len(q) \in Nat
  BY <1>1
<1>. DEFINE Made(t, n) == [parts |-> t, up |-> n]
<1>3. \A t \in Seq(Parts), n \in Nat : n <= Len(t) => Made(t, n) \in Normalizing
  BY DEF Normalizing, Paths
<1>4. /\ <<part>> \o q \in Seq(Parts) /\ Len(<<part>> \o q) = Len(q) + 1
      /\ 0 \in Nat /\ u + 1 \in Nat
  BY <1>2
<1>5. s = Made(q, u)
  BY <1>2 DEF Normalizing
<1>. HIDE DEF Made
<1>6. CASE part = "."
  BY <1>6 DEF NormalizePart
<1>7. CASE part = ".."
  <2>1. NormalizePart(s, part) = Made(<<part>> \o q, u + 1)
    BY <1>2, <1>7, Zenon DEF NormalizePart, Made
  <2>2. u + 1 <= Len(<<part>> \o q)
    BY <1>2, <1>4
  <2>. QED BY <1>3, <1>4, <2>1, <2>2
<1>8. CASE part = "" /\ u > 0
  <2>1. NormalizePart(s, part) = Made(<<part>> \o SubSeq(q, u + 1, Len(q)), 0)
    BY <1>2, <1>8 DEF NormalizePart, Made
  <2>2. SubSeq(q, u + 1, Len(q)) \in Seq(Parts)
    BY <1>2
  <2>3. PICK t \in Seq(Parts) : t = SubSeq(q, u + 1, Len(q))
    BY <2>2
  <2>4. <<part>> \o t \in Seq(Parts) /\ 0 <= Len(<<part>> \o t)
    OBVIOUS
  <2>. QED BY <1>3, <1>4, <2>1, <2>3, <2>4
<1>9. CASE part \notin {".", "..", ""} /\ u > 0
  <2>1. NormalizePart(s, part) = Made(Tail(q), u - 1)
    BY <1>2, <1>9 DEF NormalizePart, Made
  <2>2. Len(q) >= 1 /\ q # << >> /\ u - 1 \in Nat
    <3>0. u > 0
      BY <1>9, Zenon
    <3>1. Len(q) >= 1 /\ u - 1 \in Nat
      BY <1>2, <3>0
    <3>2. Len(<<>>) = 0
      OBVIOUS
    <3>. QED BY <3>1, <3>2
  <2>3. Tail(q) \in Seq(Parts) /\ Len(Tail(q)) = Len(q) - 1
    BY <2>2
  <2>4. u - 1 <= Len(Tail(q))
    BY <1>2, <2>3
  <2>. QED BY <1>3, <2>1, <2>2, <2>3, <2>4
<1>10. CASE part \notin {".", ".."} /\ u = 0
  <2>1. NormalizePart(s, part) = [s EXCEPT !.parts = <<part>> \o @]
    BY <1>2, <1>10 DEF NormalizePart
  <2>2. [s EXCEPT !.parts = <<part>> \o @] = Made(<<part>> \o q, u)
    <3>1. \A t : [[parts |-> q, up |-> u] EXCEPT !.parts = t] = [parts |-> t, up |-> u]
      OBVIOUS
    <3>2. s = [parts |-> q, up |-> u] /\ s.parts = q
      BY <1>2, <1>5 DEF Made
    <3>. QED BY <3>1, <3>2, Zenon DEF Made
  <2>3. u <= Len(<<part>> \o q)
    BY <1>2, <1>4
  <2>. QED BY <1>2, <1>3, <1>4, <2>1, <2>2, <2>3, ZenonT(30)
<1>11. u > 0 \/ u = 0
  BY <1>2
<1>. QED BY <1>6, <1>7, <1>8, <1>9, <1>10, <1>11

\* So the loop ends with parts of the path, and some ".." in front of them.
LEMMA NormalizePartsType ==
  ASSUME NEW parts \in Paths
  PROVE  NormalizeParts[parts] \in Normalizing
<1>. DEFINE base == [parts |-> <<>>, up |-> 0]
            Body(f) == [n \in 0..Len(parts) |->
              IF n = 0 THEN [parts |-> <<>>, up |-> 0] ELSE NormalizePart(f[n-1], parts[Len(parts) + 1 - n])]
            Steps(f) == f = Body(f)
            f == CHOOSE f : Steps(f)
            Round(n, s) == IF n \in 1..Len(parts) THEN NormalizePart(s, parts[Len(parts) + 1 - n]) ELSE s
            round == [x \in Nat \X Normalizing |-> Round(x[1], x[2])]
<1>1. NormalizeParts[parts] = f[Len(parts)]
  BY DEF NormalizeParts, Paths
<1>2. Len(parts) \in Nat /\ \A n \in 1..Len(parts) : parts[Len(parts) + 1 - n] \in Parts
  BY DEF Paths
<1>3. base \in Normalizing
  BY DEF Normalizing, Paths
<1>4. round \in [Nat \X Normalizing -> Normalizing]
  <2>1. ASSUME NEW k \in Nat, NEW s \in Normalizing PROVE Round(k, s) \in Normalizing
    BY <1>2, NormalizePartType
  <2>. QED BY <2>1
<1>5. PICK g : Loops(g, Len(parts), Normalizing, base, round)
  <2>. HIDE DEF round, base
  <2>. QED BY <1>2, <1>3, <1>4, LoopExists
<1>6. Steps(g)
  <2>1. g \in [0..Len(parts) -> Normalizing] /\ g[0] = base
    BY <1>5 DEF Loops
  <2>2. ASSUME NEW n \in 1..Len(parts) PROVE g[n] = Round(n, g[n-1])
    <3>1. g[n] = round[<<n, g[n-1]>>]
      BY <1>5 DEF Loops
    <3>2. n \in Nat /\ n - 1 \in 0..Len(parts)
      BY <1>2
    <3>3. g[n-1] \in Normalizing
      BY <2>1, <3>2, Zenon
    <3>4. <<n, g[n-1]>> \in Nat \X Normalizing
      BY <3>2, <3>3, Zenon
    <3>. QED BY <3>1, <3>4
  <2>3. ASSUME NEW n \in 0..Len(parts) PROVE g[n] = Body(g)[n]
    <3>1. CASE n = 0
      BY <2>1, <3>1
    <3>2. CASE n # 0
      <4>1. n \in 1..Len(parts)
        BY <1>2, <3>2
      <4>. QED BY <2>2, <3>2, <4>1
    <3>. QED BY <3>1, <3>2
  <2>. QED BY <2>1, <2>3
<1>7. Steps(f)
  <2>. HIDE DEF Steps
  <2>. QED BY <1>6
<1>. HIDE DEF f
<1>8. f[0] = base
  <2>1. 0 \in 0..Len(parts)
    BY <1>2
  <2>. QED BY <1>7, <2>1
<1>9. ASSUME NEW i \in 1..Len(parts), f[i-1] \in Normalizing PROVE f[i] = round[<<i, f[i-1]>>]
  <2>1. i \in 0..Len(parts) /\ i # 0 /\ i \in Nat
    BY <1>2
  <2>2. f[i] = Round(i, f[i-1])
    BY <1>7, <2>1
  <2>3. <<i, f[i-1]>> \in Nat \X Normalizing
    BY <1>9, <2>1
  <2>. QED BY <2>2, <2>3
<1>. HIDE DEF round, base
<1>10. f[Len(parts)] \in Normalizing
  BY <1>2, <1>3, <1>4, <1>8, <1>9, LoopStays
<1>. QED BY <1>1, <1>10

\* urlParse takes a URL apart into strings, and urlGenerate makes one of them.
LEMMA UrlIs ==
  ASSUME NEW url \in Strings, IsUrl(url), NEW path \in Strings
  PROVE  /\ UrlPath(url) \in Strings /\ SubSeq(url, 1, 3) \in Strings
         /\ SubSeq(url, 1, 2) \in Strings /\ Tail(url) \in Strings
         /\ UrlGenerate(url, path) \in Strings
<1>1. url \in Paths /\ Len(url) \in Nat /\ Len(url) > 2
  BY StringsAre DEF IsUrl
<1>2. SubSeq(url, 1, 3) \in Strings /\ SubSeq(url, 1, 2) \in Strings
  BY <1>1, BeginningOfString
<1>3. UrlPath(url) \in Strings
  <2>1. SubSeq(url, 4, Len(url)) \in Paths
    BY <1>1, EndOfString
  <2>2. <<"">> \in Strings /\ <<"">> \in Paths
    BY StringsAre DEF EmptyString
  <2>. QED BY <2>1, <2>2, JoinedStrings DEF UrlPath
<1>4. Tail(url) \in Strings
  <2>1. url \in Seq(Parts) /\ url # << >>
    BY <1>1 DEF Paths
  <2>2. Tail(url) \in Seq(Parts) /\ Len(Tail(url)) = Len(url) - 1
    BY <2>1
  <2>3. Len(Tail(url)) # 0
    BY <1>1, <2>2
  <2>. QED BY <2>2, <2>3, NotEmpty DEF Paths
<1>5. UrlGenerate(url, path) \in Strings
  <2>1. Tail(path) \in Paths /\ SubSeq(url, 1, 3) \in Paths
    BY <1>2, StringsAre
  <2>. QED BY <1>2, <2>1, JoinedStrings DEF UrlGenerate
<1>. QED BY <1>2, <1>3, <1>4, <1>5

\* normalize makes a string of a string.
LEMMA NormalizeType ==
  ASSUME NEW p \in Strings
  PROVE  NormalizePath(p) \in Strings /\ Normalize(p) \in Strings
<1>1. \A q \in Strings : NormalizePath(q) \in Strings
  <2>1. ASSUME NEW q \in Strings PROVE NormalizePath(q) \in Strings
    <3>1. q \in Paths
      BY StringsAre
    <3>2. NormalizeParts[Split[q]] \in Normalizing
      BY <3>1, SplitType, NormalizePartsType
    <3>3. NormalizeParts[Split[q]].parts \in Paths
      BY <3>2 DEF Normalizing
    <3>4. PICK t \in Paths : t = NormalizeParts[Split[q]].parts
      BY <3>3
    <3>5. t \notin {<<>>, EmptyString} => t \in Strings
      BY DEF Strings, Paths
    <3>6. NormalizePath(q) = IF t \notin {<<>>, EmptyString} THEN t
                             ELSE IF IsAbsolute(q) THEN Slash ELSE Dot
      BY <3>4, Zenon DEF NormalizePath
    <3>. QED BY <3>5, <3>6, StringsAre
  <2>. QED BY <2>1
<1>2. CASE ~IsUrl(p)
  BY <1>1, <1>2 DEF Normalize
<1>3. CASE IsUrl(p)
  <2>1. UrlPath(p) \in Strings
    BY <1>3, UrlIs
  <2>2. NormalizePath(UrlPath(p)) \in Strings
    BY <1>1, <2>1
  <2>3. UrlGenerate(p, NormalizePath(UrlPath(p))) \in Strings
    BY <1>3, <2>2, UrlIs
  <2>. QED BY <1>1, <1>3, <2>3 DEF Normalize
<1>. QED BY <1>1, <1>2, <1>3

\* join.
LEMMA JoinType ==
  ASSUME NEW root \in Strings, NEW path \in Strings
  PROVE  Join(root, path) \in Strings
<1>1. \A p \in Strings : OrDot(p) \in Strings
  BY StringsAre DEF OrDot
<1>2. ASSUME NEW r \in Strings, NEW p \in Strings PROVE Joined[<<r, p>>] \in Strings
  <2>1. <<r, p>> \in Strings \X Strings
    OBVIOUS
  <2>. DEFINE joined == IF p[1] = "" THEN p ELSE Normalize(WithoutSlashes(RootPath(r)) \o p)
  <2>2. joined \in Strings
    <3>1. RootPath(r) \in Strings
      BY UrlIs, StringsAre DEF RootPath
    <3>2. WithoutSlashes(RootPath(r)) \in Paths
      <4>1. PICK q \in Strings : q = RootPath(r)
        BY <3>1
      <4>. DEFINE n == Max({1} \cup {i \in DOMAIN q : q[i] # ""})
      <4>2. n \in 1..Len(q)
        <5>1. q \in Paths /\ Len(q) \in Nat \ {0} /\ DOMAIN q = 1..Len(q)
          BY StringsAre DEF Paths
        <5>2. PICK S \in SUBSET (1..Len(q)) : S = {1} \cup {i \in DOMAIN q : q[i] # ""}
          <6>1. 1 \in 1..Len(q)
            BY <5>1
          <6>2. {1} \cup {i \in DOMAIN q : q[i] # ""} \in SUBSET (1..Len(q))
            BY <5>1, <6>1, Zenon
          <6>. QED BY <6>2
        <5>3. S # {}
          BY <5>2
        <5>4. Greatest(S) \in S
          BY <5>1, <5>2, <5>3, GreatestIs
        <5>5. n = Greatest(S)
          BY <5>2, Zenon DEF Max, Greatest
        <5>. QED BY <5>4, <5>5
      <4>3. q \in Paths
        BY StringsAre
      <4>4. SubSeq(q, 1, n) \in Strings
        BY <4>2, <4>3, BeginningOfString
      <4>. QED BY <4>1, <4>4, StringsAre DEF WithoutSlashes
    <3>3. WithoutSlashes(RootPath(r)) \o p \in Strings
      BY <3>2, JoinedStrings, StringsAre
    <3>. QED BY <3>3, NormalizeType
  <2>3. Joined[<<r, p>>] = CASE IsUrl(p) -> IF p[1] = "" /\ IsUrl(r) THEN <<r[1]>> \o Tail(p) ELSE p
        [] ~IsUrl(p) /\ IsUrl(r) /\ r[3] = "" /\ UrlPath(r) = EmptyString ->
             SubSeq(r, 1, 2) \o p
        [] ~IsUrl(p) /\ IsUrl(r) /\ (r[3] # "" \/ UrlPath(r) # EmptyString) ->
             UrlGenerate(r, joined)
        [] ~IsUrl(p) /\ ~IsUrl(r) -> joined
    BY <2>1 DEF Joined
  <2>. HIDE DEF joined
  <2>4. CASE IsUrl(p)
    <3>1. <<r[1]>> \o Tail(p) \in Strings
      <4>1. <<r[1]>> \in Paths /\ Tail(p) \in Strings /\ Tail(p) \in Paths
        <5>1. r[1] \in Parts
          BY StringsAre
        <5>2. <<r[1]>> \in Paths
          BY <5>1 DEF Paths
        <5>. QED BY <2>4, <5>2, UrlIs, StringsAre
      <4>. QED BY <4>1, JoinedStrings
    <3>2. Joined[<<r, p>>] = IF p[1] = "" /\ IsUrl(r) THEN <<r[1]>> \o Tail(p) ELSE p
      BY <2>3, <2>4
    <3>. QED BY <3>1, <3>2
  <2>5. CASE ~IsUrl(p) /\ IsUrl(r) /\ r[3] = "" /\ UrlPath(r) = EmptyString
    <3>1. SubSeq(r, 1, 2) \o p \in Strings
      <4>1. SubSeq(r, 1, 2) \in Strings
        BY <2>5, UrlIs
      <4>. QED BY <4>1, JoinedStrings, StringsAre
    <3>2. Joined[<<r, p>>] = SubSeq(r, 1, 2) \o p
      BY <2>3, <2>5
    <3>. QED BY <3>1, <3>2
  <2>6. CASE ~IsUrl(p) /\ IsUrl(r) /\ (r[3] # "" \/ UrlPath(r) # EmptyString)
    <3>1. UrlGenerate(r, joined) \in Strings
      BY <2>2, <2>6, UrlIs
    <3>2. Joined[<<r, p>>] = UrlGenerate(r, joined)
      BY <2>3, <2>6
    <3>. QED BY <3>1, <3>2
  <2>7. CASE ~IsUrl(p) /\ ~IsUrl(r)
    <3>1. Joined[<<r, p>>] = joined
      BY <2>3, <2>7
    <3>. QED BY <2>2, <3>1
  <2>. QED BY <2>4, <2>5, <2>6, <2>7
<1>. QED BY <1>1, <1>2 DEF Join

\* relative.
LEMMA RelativeType ==
  ASSUME NEW root \in Strings, NEW path \in Strings
  PROVE  Relative(root, path) \in Strings
<1>1. PICK r \in Paths : r = WithoutSlash(OrDot(root))
  <2>1. OrDot(root) \in Strings
    BY StringsAre DEF OrDot
  <2>2. PICK q \in Strings : q = OrDot(root)
    BY <2>1
  <2>3. Front(q) \in Paths
    BY DEF Front, Strings, Paths
  <2>. QED BY <2>2, <2>3, StringsAre DEF WithoutSlash
<1>2. path \in Paths /\ Len(path) \in Nat /\ Len(r) \in Nat /\ DOMAIN r = 1..Len(r)
  BY StringsAre DEF Paths
<1>3. Kept(r, path) \in 0..Len(r) /\ (Kept(r, path) > 0 => Kept(r, path) < Len(path))
  <2>. DEFINE T == {k \in DOMAIN r : /\ IsStrictPrefix(SubSeq(r, 1, k), path)
                                     /\ \A j \in k..Len(r)-1 : ~IsExhausted(SubSeq(r, 1, j))}
              S == {0} \cup T
  <2>1. S \in SUBSET (0..Len(r)) /\ 0 \in S
    BY <1>2
  <2>2. \E k \in S : \A j \in S : k >= j
    BY <1>2, <2>1, HasGreatest
  <2>3. Kept(r, path) \in S
    <3>1. Kept(r, path) = CHOOSE k \in S : \A j \in S : k >= j
      BY Zenon DEF Kept, Max
    <3>. HIDE DEF S
    <3>. QED BY <2>2, <3>1
  <2>4. ASSUME NEW k \in T PROVE k < Len(path)
    <3>1. k \in 1..Len(r) /\ IsStrictPrefix(SubSeq(r, 1, k), path)
      BY <1>2
    <3>2. Len(SubSeq(r, 1, k)) = k /\ SubSeq(r, 1, k) \in Seq(Parts)
      BY <1>2, <3>1 DEF Paths
    <3>. QED BY <1>2, <3>1, <3>2 DEF IsStrictPrefix, IsPrefix, Paths
  <2>. QED BY <1>2, <2>1, <2>3, <2>4
<1>4. Under[<<r, path>>] \in Strings
  <2>1. <<r, path>> \in Seq(Parts) \X Strings
    BY <1>1 DEF Paths
  <2>2. PICK kept \in 0..Len(r) : kept = Kept(r, path) /\ (kept > 0 => kept < Len(path))
    BY <1>3
  <2>3. Under[<<r, path>>] = IF kept = 0 THEN path
          ELSE [i \in 1..(Len(r) - kept) |-> ".."] \o SubSeq(path, kept + 1, Len(path))
    BY <2>1, <2>2 DEF Under
  <2>4. CASE kept > 0
    <3>1. SubSeq(path, kept + 1, Len(path)) \in Strings
      BY <1>2, <2>2, <2>4, EndOfString
    <3>2. [i \in 1..(Len(r) - kept) |-> ".."] \in Paths
      <4>1. Len(r) - kept \in Nat
        BY <1>2, <2>2
      <4>2. ".." \in Parts
        BY PartsAssumption
      <4>. QED BY <4>1, <4>2 DEF Paths
    <3>. QED BY <2>3, <2>4, <3>1, <3>2, JoinedStrings, StringsAre
  <2>. QED BY <2>3, <2>4
<1>. QED BY <1>1, <1>4 DEF Relative

\* The names of sources, and of what is asked for.
LEMMA NamesAre ==
  ASSUME NEW root \in Strings \cup {Null}, NEW source \in Strings
  PROVE  Show(root, source) \in Strings /\ Resolve(root, source) \in Strings
BY JoinType, RelativeType DEF Show, Resolve

(***************************************************************************)
(* Folds: a fold over a sequence takes its steps in the order of the       *)
(* sequence.                                                               *)
(***************************************************************************)
\* f goes through the indices as MapThenFoldSet does, within T.
GoesThrough(f, T, S, step, base, seq) ==
  /\ f = [s \in SUBSET DOMAIN seq |->
            IF s = {} THEN base ELSE step[<<f[s \ {Greatest(s)}], seq[Greatest(s)]>>]]
  /\ \A s \in SUBSET DOMAIN seq :
       s # {} => f[s \ {Greatest(s)}] \in T /\ seq[Greatest(s)] \in S

\* f does, as long as it stays within T.
TriesToGo(f, T, S, step, base, seq) ==
  /\ f[{}] = base
  /\ \A s \in SUBSET DOMAIN seq :
       s # {} /\ f[s \ {Greatest(s)}] \in T /\ seq[Greatest(s)] \in S =>
         f[s] = step[<<f[s \ {Greatest(s)}], seq[Greatest(s)]>>]

\* There is such a function.
LEMMA FoldGoes ==
  ASSUME NEW T, NEW S, NEW step, IsStep(step, T, S), NEW base \in T, NEW seq \in Seq(S)
  PROVE  \E f : GoesThrough(f, T, S, step, base, seq)
<1>1. PICK f : IsFold(f, T, step, base, seq)
  BY IsFoldExists
<1>2. /\ f = [s \in SUBSET DOMAIN seq |->
                IF s = {} THEN base ELSE step[<<f[s \ {Greatest(s)}], seq[Greatest(s)]>>]]
      /\ \A s \in SUBSET DOMAIN seq :
           s # {} => f[s \ {Greatest(s)}] \in T /\ seq[Greatest(s)] \in S
  BY ONLY <1>1, IsStep(step, T, S), base \in T, seq \in Seq(S), FoldTypes
<1>. QED BY <1>2, Zenon DEF GoesThrough

\* It ends on the fold.
LEMMA FoldEnds ==
  ASSUME NEW T, NEW S, NEW step, IsStep(step, T, S), NEW base \in T, NEW seq \in Seq(S), NEW f,
         TriesToGo(f, T, S, step, base, seq)
  PROVE  f[DOMAIN seq] = Folded(step, base, seq)
<1>1. ASSUME NEW i \in 1..Len(seq), f[1..(i-1)] \in T
      PROVE  f[1..i] = step[<<f[1..(i-1)], seq[i]>>]
  <2>1. /\ 1..i \in SUBSET DOMAIN seq /\ 1..i # {}
        /\ Greatest(1..i) = i /\ (1..i) \ {i} = 1..(i-1) /\ seq[i] \in S
    BY FoldIndices
  <2>2. PICK s \in SUBSET DOMAIN seq : s = 1..i
    BY <2>1
  <2>3. s # {} /\ Greatest(s) = i /\ s \ {Greatest(s)} = 1..(i-1)
    BY <2>1, <2>2, Zenon
  <2>4. f[s] = step[<<f[s \ {Greatest(s)}], seq[Greatest(s)]>>]
    BY <1>1, <2>1, <2>3, Zenon DEF TriesToGo
  <2>. QED BY <2>2, <2>3, <2>4, Zenon
<1>2. Iterates(f, T, step, base, seq)
  BY <1>1 DEF Iterates, TriesToGo
<1>3. f[1..Len(seq)] = Folded(step, base, seq)
  BY ONLY <1>2, IsStep(step, T, S), base \in T, seq \in Seq(S), FoldIsFolded
<1>4. DOMAIN seq = 1..Len(seq)
  OBVIOUS
<1>. QED BY <1>3, <1>4

(***************************************************************************)
(* The generator keeps its shape.                                          *)
(***************************************************************************)
\* The sets that an ArraySet can be.
ArraySets == {set \in Seq(Strings) : IsInjective(set)}

\* add, as the step of a fold.
AddStep == [x \in ArraySets \X (Strings \cup {Null}) |-> Add(x[1], x[2])]

\* add keeps an ArraySet, and puts the string into it.
LEMMA AddKeeps ==
  ASSUME NEW set \in ArraySets, NEW s \in Strings \cup {Null}
  PROVE  /\ Add(set, s) \in ArraySets
         /\ Range(Add(set, s)) = Range(set) \cup ({s} \ {Null})
<1>1. set \in Seq(Strings) /\ IsInjective(set)
  BY DEF ArraySets
<1>2. CASE s = Null \/ s \in Range(set)
  BY <1>2 DEF Add
<1>3. CASE ~(s = Null \/ s \in Range(set))
  <2>0. Add(set, s) = Append(set, s) /\ s \in Strings
    BY <1>3, Zenon DEF Add
  <2>1. Add(set, s) = Append(set, s) /\ s \in Strings /\ Append(set, s) \in Seq(Strings)
    BY <1>1, <2>0
  <2>2. /\ Len(set) \in Nat /\ DOMAIN set = 1..Len(set) /\ DOMAIN Append(set, s) = 1..(Len(set) + 1)
        /\ \A i \in 1..Len(set) : Append(set, s)[i] = set[i]
        /\ Append(set, s)[Len(set) + 1] = s
    BY <1>1, <2>1
  <2>3. \A i \in 1..Len(set) : set[i] # s
    BY <1>3, <2>2 DEF Range
  <2>4. IsInjective(Append(set, s))
    BY <1>1, <2>2, <2>3 DEF IsInjective
  <2>5. Range(Append(set, s)) = Range(set) \cup {s}
    BY <1>1, <2>1, RangeOfAppend
  <2>. QED BY <1>3, <2>1, <2>4, <2>5 DEF ArraySets
<1>. QED BY <1>2, <1>3

\* It makes an ArraySet of an ArraySet.
LEMMA AddSteps == IsStep(AddStep, ArraySets, Strings \cup {Null})
BY AddKeeps DEF IsStep, AddStep

\* An ArraySet of some strings is one, and has what is there of them.
LEMMA ArraySetIs ==
  ASSUME NEW strings \in Seq(Strings \cup {Null})
  PROVE  /\ ArraySet[strings] \in ArraySets
         /\ Range(ArraySet[strings]) = Range(strings) \ {Null}
<1>. DEFINE Is(h) == h = [s \in SUBSET DOMAIN strings |->
                       IF s = {} THEN <<>> ELSE Add(h[s \ {Greatest(s)}], strings[Greatest(s)])]
            iter == CHOOSE h : Is(h)
<1>0. PICK S, base : /\ S = Strings \cup {Null} /\ base = <<>> /\ base \in ArraySets
                     /\ IsStep(AddStep, ArraySets, S) /\ strings \in Seq(S)
  <2>1. <<>> \in ArraySets
    BY DEF ArraySets, IsInjective
  <2>. QED BY <2>1, AddSteps, Zenon
<1>1. ArraySet[strings] = iter[DOMAIN strings]
  BY DEF ArraySet, FoldLeft, MapThenFoldSet, Max, Greatest
<1>2. PICK f : GoesThrough(f, ArraySets, S, AddStep, base, strings)
  BY <1>0, FoldGoes
<1>3. Is(f)
  <2>1. \A s \in SUBSET DOMAIN strings : s # {} =>
          AddStep[<<f[s \ {Greatest(s)}], strings[Greatest(s)]>>]
            = Add(f[s \ {Greatest(s)}], strings[Greatest(s)])
    BY <1>0, <1>2 DEF AddStep, GoesThrough
  <2>. QED BY <1>0, <1>2, <2>1, Zenon DEF GoesThrough
<1>4. Is(iter)
  BY <1>3
<1>. HIDE DEF iter
<1>5. TriesToGo(iter, ArraySets, S, AddStep, base, strings)
  BY <1>0, <1>4 DEF AddStep, TriesToGo
<1>6. ArraySet[strings] = Folded(AddStep, base, strings)
  <2>1. iter[DOMAIN strings] = Folded(AddStep, base, strings)
    BY <1>0, <1>5, FoldEnds
  <2>. QED BY <1>1, <2>1, Zenon
<1>7. ArraySet[strings] \in ArraySets
  BY <1>0, <1>6, FoldedType
<1>. DEFINE P == {t \in Seq(S) : Range(Folded(AddStep, base, t)) = Range(t) \ {Null}}
<1>8. << >> \in P
  <2>1. Folded(AddStep, base, << >>) = base
    BY <1>0, FoldedNone
  <2>. QED BY <1>0, <2>1 DEF Range
<1>9. ASSUME NEW t \in Seq(S), NEW s \in S, t \in P PROVE Append(t, s) \in P
  <2>1. PICK set \in ArraySets : set = Folded(AddStep, base, t)
    BY <1>0, FoldedType
  <2>2. Folded(AddStep, base, Append(t, s)) = Add(set, s)
    <3>1. Folded(AddStep, base, Append(t, s)) = AddStep[<<set, s>>]
      BY <1>0, <2>1, FoldedNext
    <3>. QED BY <1>0, <3>1 DEF AddStep
  <2>3. Range(Append(t, s)) = Range(t) \cup {s} /\ Append(t, s) \in Seq(S)
    BY RangeOfAppend
  <2>4. Range(Add(set, s)) = Range(set) \cup ({s} \ {Null}) /\ Range(set) = Range(t) \ {Null}
    BY <1>0, <1>9, <2>1, AddKeeps
  <2>5. Range(Add(set, s)) = Range(Append(t, s)) \ {Null}
    BY <2>3, <2>4
  <2>. QED BY <2>2, <2>3, <2>5
<1>. HIDE DEF P
<1>10. strings \in P
  BY <1>0, <1>8, <1>9, SequenceInduction
<1>. QED BY <1>6, <1>7, <1>10 DEF P

\* What a generator can have as contents.
Contents == UNION {[D -> Strings] : D \in SUBSET Strings}

\* The types of a generator's fields.
Generators ==
  [array : Seq(Lines), sorted : BOOLEAN, last : Lines, sources : ArraySets, names : ArraySets,
   root : Strings \cup {Null}, contents : Contents]

\* generatedPositionAfter does not say that m is after n.
NotAfter(m, n) ==
  \/ m.generatedLine < n.generatedLine
  \/ m.generatedLine = n.generatedLine /\ m.generatedColumn <= n.generatedColumn

\* The mappings are at places, of which last has the greatest; they are in their
\* order when the generator says so.
IsInPlace(array, sorted, last) ==
  /\ array = <<>> <=> last = Infimum
  /\ array # <<>> => last \in Range(array)
  /\ \A i \in DOMAIN array : array[i].generatedLine > 0 /\ NotAfter(array[i], last)
  /\ sorted => \A i, j \in DOMAIN array : i < j => NotAfter(array[i], array[j])

\* What the methods of a generator keep.
IsGenerator(g) == g \in Generators /\ IsInPlace(g.array, g.sorted, g.last)

\* A mapping is at numbers.
LEMMA PlaceIs ==
  ASSUME NEW m \in Lines
  PROVE  m.generatedLine \in Int /\ m.generatedColumn \in Int
BY ToldIs

\* The place that MappingList begins with is before every mapping.
LEMMA InfimumIs == Infimum \in Lines /\ Infimum.generatedLine = -1 /\ Infimum.generatedColumn = 0
BY DEF Infimum, Mapping, Lines, Unplaced

\* generatedPositionAfter orders the mappings.
LEMMA NotAfterIsOrder ==
  ASSUME NEW m \in Lines, NEW n \in Lines, NEW k \in Lines
  PROVE  /\ NotAfter(m, m)
         /\ NotAfter(m, n) \/ NotAfter(n, m)
         /\ NotAfter(m, n) /\ NotAfter(n, k) => NotAfter(m, k)
<1>1. /\ m.generatedLine \in Int /\ m.generatedColumn \in Int
      /\ n.generatedLine \in Int /\ n.generatedColumn \in Int
      /\ k.generatedLine \in Int /\ k.generatedColumn \in Int
  BY PlaceIs
<1>. QED BY <1>1 DEF NotAfter

\* What the comparator of the array allows is in order.
LEMMA ComparedIsInOrder ==
  ASSUME NEW m \in Lines, NEW n \in Lines, CompareByGeneratedPositionsInflated(m, n) <= 0
  PROVE  NotAfter(m, n)
<1>. DEFINE a == Difference(m.generatedLine, n.generatedLine)
            b == Difference(m.generatedColumn, n.generatedColumn)
            c == Strcmp(m.source, n.source)
            d == Difference(m.originalLine, n.originalLine)
            e == Difference(m.originalColumn, n.originalColumn)
            f == Strcmp(m.name, n.name)
<1>1. \A k \in Lines : /\ k.generatedLine \in Int /\ k.generatedColumn \in Int
                       /\ Num(k.generatedLine) = k.generatedLine /\ Num(k.generatedColumn) = k.generatedColumn
                       /\ Num(k.originalLine) \in Int /\ Num(k.originalColumn) \in Int
  BY NullAssumption, ToldIs DEF Num
<1>2. a \in Int /\ b \in Int /\ d \in Int /\ e \in Int
  BY <1>1 DEF Difference
<1>3. c \in Int /\ f \in Int
  BY DEF Strcmp
<1>4. FirstDifference(<<a, b, c, d, e, f>>) <= 0
  BY DEF CompareByGeneratedPositionsInflated
<1>5. a = m.generatedLine - n.generatedLine /\ b = m.generatedColumn - n.generatedColumn
  BY <1>1 DEF Difference
<1>. HIDE DEF a, b, c, d, e, f
<1>6. FirstDifference(<<a, b, c, d, e, f>>) =
         IF a # 0 THEN a ELSE IF b # 0 THEN b ELSE IF c # 0 THEN c
         ELSE IF d # 0 THEN d ELSE IF e # 0 THEN e ELSE f
  BY <1>2, <1>3, FirstDifferenceIs, SMTT(30)
<1>7. a <= 0 /\ (a = 0 => b <= 0)
  BY <1>2, <1>3, <1>4, <1>6
<1>8. /\ m.generatedLine \in Int /\ m.generatedColumn \in Int
      /\ n.generatedLine \in Int /\ n.generatedColumn \in Int
  BY <1>1
<1>. QED BY <1>5, <1>7, <1>8 DEF NotAfter

\* addMapping.
LEMMA AddMappingKeeps ==
  ASSUME NEW g, IsGenerator(g), NEW m \in Lines, m.generatedLine > 0
  PROVE  /\ IsGenerator(AddMapping(g, m))
         /\ AddMapping(g, m).array = Append(g.array, m)
<1>1. /\ g.array \in Seq(Lines) /\ g.sorted \in BOOLEAN /\ g.last \in Lines
      /\ g.sources \in ArraySets /\ g.names \in ArraySets
      /\ g \in Generators /\ IsInPlace(g.array, g.sorted, g.last)
  BY DEF IsGenerator, Generators
<1>2. m.source \in Strings \cup {Null} /\ m.name \in Strings \cup {Null}
  BY ToldIs
<1>3. PICK inOrder \in BOOLEAN : inOrder = GeneratedPositionAfter(g.last, m)
  BY DEF GeneratedPositionAfter
<1>4. PICK array, last, sorted, sources, names :
        /\ array = Append(g.array, m) /\ last = IF inOrder THEN m ELSE g.last
        /\ sorted = (g.sorted /\ inOrder)
        /\ sources = Add(g.sources, m.source) /\ names = Add(g.names, m.name)
  BY Zenon
<1>5. AddMapping(g, m) = [[g EXCEPT !.array = array, !.last = last, !.sorted = sorted]
                            EXCEPT !.sources = sources, !.names = names]
  BY <1>3, <1>4 DEF AddMapping, AddToList, Generators
<1>6. /\ array \in Seq(Lines) /\ last \in Lines /\ sorted \in BOOLEAN
      /\ sources \in ArraySets /\ names \in ArraySets
  BY <1>1, <1>2, <1>4, AddKeeps
<1>7. PICK h : h = [[g EXCEPT !.array = array, !.last = last, !.sorted = sorted]
                            EXCEPT !.sources = sources, !.names = names]
  BY Zenon
<1>8. h \in Generators /\ h.array = array /\ h.last = last /\ h.sorted = sorted
  BY <1>1, <1>6, <1>7 DEF Generators
<1>9. IF inOrder THEN NotAfter(g.last, m) ELSE NotAfter(m, g.last)
  <2>1. CASE inOrder
    BY <1>1, <1>3, <2>1, ComparedIsInOrder DEF GeneratedPositionAfter, NotAfter
  <2>2. CASE ~inOrder
    <3>1. /\ m.generatedLine \in Int /\ m.generatedColumn \in Int
          /\ g.last.generatedLine \in Int /\ g.last.generatedColumn \in Int
      BY <1>1, PlaceIs
    <3>. QED BY <1>3, <2>2, <3>1 DEF GeneratedPositionAfter, NotAfter
  <2>. QED BY <2>1, <2>2
<1>10. /\ Len(g.array) \in Nat /\ DOMAIN g.array = 1..Len(g.array) /\ DOMAIN array = 1..(Len(g.array) + 1)
       /\ \A i \in 1..Len(g.array) : array[i] = g.array[i] /\ g.array[i] \in Lines
       /\ array[Len(g.array) + 1] = m /\ array # <<>>
  BY <1>1, <1>4
<1>11. \A i \in DOMAIN g.array : g.array[i].generatedLine > 0 /\ NotAfter(g.array[i], g.last)
  BY <1>1 DEF IsInPlace
<1>12. NotAfter(g.last, last) /\ NotAfter(m, last)
  BY <1>1, <1>4, <1>9, NotAfterIsOrder
<1>13. \A i \in DOMAIN array : array[i].generatedLine > 0 /\ NotAfter(array[i], last)
  <2>1. \A i \in DOMAIN g.array : NotAfter(g.array[i], last)
    BY <1>1, <1>6, <1>10, <1>11, <1>12, NotAfterIsOrder
  <2>. QED BY <1>10, <1>11, <1>12, <2>1
<1>14. last \in Range(array)
  <2>1. CASE inOrder
    BY <1>4, <1>10, <2>1 DEF Range
  <2>2. CASE ~inOrder
    <3>1. last = g.last
      BY <1>4, <2>2
    <3>2. g.array # <<>>
      <4>1. SUFFICES ASSUME g.array = <<>> PROVE FALSE
        OBVIOUS
      <4>2. g.last = Infimum
        BY <1>1, <4>1 DEF IsInPlace
      <4>3. g.last.generatedLine = -1 /\ m.generatedLine \in Int
        BY <4>2, InfimumIs, PlaceIs
      <4>4. m.generatedLine > g.last.generatedLine
        BY <4>3
      <4>. QED BY <1>3, <2>2, <4>4 DEF GeneratedPositionAfter
    <3>3. PICK i \in DOMAIN g.array : g.last = g.array[i]
      BY <1>1, <3>2 DEF IsInPlace, Range
    <3>. QED BY <1>10, <3>1, <3>3 DEF Range
  <2>. QED BY <2>1, <2>2
<1>15. last # Infimum
  <2>1. PICK i \in DOMAIN array : last = array[i]
    BY <1>14 DEF Range
  <2>2. last.generatedLine > 0
    BY <1>13, <2>1
  <2>. QED BY <2>2, InfimumIs
<1>16. ASSUME sorted, NEW i \in DOMAIN array, NEW j \in DOMAIN array, i < j
       PROVE  NotAfter(array[i], array[j])
  <2>1. g.sorted /\ inOrder
    BY <1>4, <1>16
  <2>2. i \in 1..Len(g.array) /\ array[i] = g.array[i]
    BY <1>10, <1>16
  <2>3. CASE j \in 1..Len(g.array)
    BY <1>1, <1>10, <1>16, <2>1, <2>2, <2>3 DEF IsInPlace
  <2>4. CASE j = Len(g.array) + 1
    <3>1. NotAfter(g.array[i], last) /\ last = m
      BY <1>4, <1>13, <2>1, <2>2, <1>16
    <3>. QED BY <1>10, <2>2, <2>4, <3>1
  <2>. QED BY <1>10, <2>3, <2>4
<1>17. IsInPlace(array, sorted, last)
  BY <1>10, <1>13, <1>14, <1>15, <1>16 DEF IsInPlace
<1>18. AddMapping(g, m) = h
  BY <1>5, <1>7, Zenon
<1>. QED BY <1>4, <1>8, <1>17, <1>18 DEF IsGenerator

\* A new generator.
LEMMA NewGeneratorIs ==
  ASSUME NEW root \in Strings \cup {Null}
  PROVE  IsGenerator(NewGenerator(root))
<1>1. <<>> \in Contents
  <2>1. {} \in SUBSET Strings /\ <<>> \in [{} -> Strings]
    OBVIOUS
  <2>. QED BY <2>1 DEF Contents
<1>2. <<>> \in ArraySets /\ <<>> \in Seq(Lines)
  BY DEF ArraySets, IsInjective
<1>3. NewGenerator(root) \in Generators
  BY <1>1, <1>2, InfimumIs DEF NewGenerator, Generators
<1>4. IsInPlace(<<>>, TRUE, Infimum)
  BY DEF IsInPlace
<1>. QED BY <1>3, <1>4 DEF IsGenerator, NewGenerator

\* What sort makes of a list is in order, and has the same mappings.
LEMMA SortingsAre ==
  ASSUME NEW s \in Seq(Lines), NEW t \in Sortings(s)
  PROVE  /\ t \in Seq(Lines) /\ Len(t) = Len(s) /\ Range(t) = Range(s)
         /\ \A i, j \in DOMAIN t : i < j => NotAfter(t[i], t[j])
<1>1. PICK p \in Bijection(DOMAIN s, DOMAIN s) : t = [i \in DOMAIN s |-> s[p[i]]]
  BY DEF Sortings
<1>2. /\ p \in [DOMAIN s -> DOMAIN s] /\ \A i \in DOMAIN s : \E j \in DOMAIN s : p[j] = i
      /\ DOMAIN s = 1..Len(s) /\ Len(s) \in Nat
  BY <1>1 DEF Bijection, Injection, Surjection
<1>3. /\ t \in Seq(Lines) /\ Len(t) = Len(s) /\ DOMAIN t = 1..Len(s)
      /\ \A i \in 1..Len(s) : t[i] = s[p[i]] /\ t[i] \in Lines
  <2>1. \A i \in 1..Len(s) : s[p[i]] \in Lines
    BY <1>2
  <2>. QED BY <1>1, <1>2, <2>1
<1>4. Range(t) = Range(s)
  BY <1>2, <1>3 DEF Range
<1>5. \A i \in 1..(Len(s) - 1) : NotAfter(t[i], t[i+1])
  <2>1. \A i \in 1..(Len(s) - 1) : CompareByGeneratedPositionsInflated(t[i], t[i+1]) <= 0
    BY DEF Sortings
  <2>2. \A i \in 1..(Len(s) - 1) : t[i] \in Lines /\ t[i+1] \in Lines
    BY <1>2, <1>3
  <2>. QED BY <2>1, <2>2, ComparedIsInOrder
<1>6. ASSUME NEW i \in 1..Len(s)
      PROVE  \A j \in 1..Len(s) : i < j => NotAfter(t[i], t[j])
  <2>. DEFINE P == {n \in Nat : i + n <= Len(s) => NotAfter(t[i], t[i+n])}
  <2>1. 0 \in P
    BY <1>3, NotAfterIsOrder
  <2>2. ASSUME NEW n \in Nat, n \in P PROVE n + 1 \in P
    <3>1. CASE i + (n + 1) <= Len(s)
      <4>1. i + n \in 1..(Len(s) - 1) /\ i + (n + 1) = (i + n) + 1 /\ NotAfter(t[i], t[i+n])
        BY <1>2, <2>2, <3>1
      <4>2. t[i] \in Lines /\ t[i+n] \in Lines /\ t[(i+n)+1] \in Lines
        <5>1. i \in 1..Len(s) /\ i + n \in 1..Len(s) /\ (i+n)+1 \in 1..Len(s)
          BY <1>2, <4>1
        <5>. QED BY <1>3, <5>1
      <4>3. NotAfter(t[i+n], t[(i+n)+1])
        BY <1>5, <4>1
      <4>. QED BY <4>1, <4>2, <4>3, NotAfterIsOrder
    <3>. QED BY <3>1
  <2>. HIDE DEF P
  <2>3. Nat \subseteq P
    BY <2>1, <2>2, Induction
  <2>4. ASSUME NEW j \in 1..Len(s), i < j PROVE NotAfter(t[i], t[j])
    <3>1. j - i \in Nat /\ i + (j - i) = j /\ j <= Len(s)
      BY <2>4
    <3>2. j - i \in P
      BY <2>3, <3>1
    <3>. QED BY <3>1, <3>2 DEF P
  <2>. QED BY <2>4
<1>. QED BY <1>3, <1>4, <1>6

\* toArray of the MappingList.
LEMMA ToArrayKeeps ==
  ASSUME NEW g, IsGenerator(g), NEW h \in ToArray(g)
  PROVE  /\ IsGenerator(h) /\ h.sorted /\ Len(h.array) = Len(g.array)
         /\ Range(h.array) = Range(g.array)
         /\ h.last = g.last /\ h.sources = g.sources /\ h.names = g.names
         /\ h.root = g.root /\ h.contents = g.contents
<1>1. g \in Generators /\ IsInPlace(g.array, g.sorted, g.last) /\ g.array \in Seq(Lines)
  BY DEF IsGenerator, Generators
<1>2. CASE g.sorted
  BY <1>1, <1>2 DEF ToArray
<1>3. CASE ~g.sorted
  <2>1. PICK t \in Sortings(g.array) : h = [g EXCEPT !.array = t, !.sorted = TRUE]
    BY <1>3 DEF ToArray
  <2>2. /\ t \in Seq(Lines) /\ Len(t) = Len(g.array) /\ Range(t) = Range(g.array)
        /\ \A i, j \in DOMAIN t : i < j => NotAfter(t[i], t[j])
    BY <1>1, SortingsAre
  <2>3. /\ h \in Generators /\ h.array = t /\ h.sorted /\ h.sorted = TRUE
        /\ h.last = g.last /\ h.sources = g.sources /\ h.names = g.names
        /\ h.root = g.root /\ h.contents = g.contents
    BY <1>1, <2>1, <2>2 DEF Generators
  <2>4. t = <<>> <=> g.array = <<>>
    BY <1>1, <2>2
  <2>5. \A i \in DOMAIN t : t[i].generatedLine > 0 /\ NotAfter(t[i], g.last)
    <3>1. \A m \in Range(g.array) : m.generatedLine > 0 /\ NotAfter(m, g.last)
      BY <1>1 DEF IsInPlace, Range
    <3>2. \A i \in DOMAIN t : t[i] \in Range(t)
      BY DEF Range
    <3>. QED BY <2>2, <3>1, <3>2
  <2>6. IsInPlace(t, TRUE, g.last)
    BY <1>1, <2>2, <2>4, <2>5 DEF IsInPlace
  <2>. QED BY <2>2, <2>3, <2>6 DEF IsGenerator
<1>. QED BY <1>2, <1>3

\* setSourceContent.
LEMMA SetSourceContentKeeps ==
  ASSUME NEW g, IsGenerator(g), NEW file \in Strings, NEW content \in Strings \cup {Null}
  PROVE  /\ IsGenerator(SetSourceContent(g, file, content))
         /\ SetSourceContent(g, file, content).array = g.array
<1>1. g \in Generators /\ IsInPlace(g.array, g.sorted, g.last) /\ g.contents \in Contents
      /\ g.root \in Strings \cup {Null}
  BY DEF IsGenerator, Generators
<1>2. PICK D \in SUBSET Strings : g.contents \in [D -> Strings]
  BY <1>1 DEF Contents
<1>3. PICK source \in Strings : source = Resolve(g.root, file)
  BY <1>1, NamesAre
<1>4. PICK c : c = IF content = Null THEN Restrict(g.contents, DOMAIN g.contents \ {source})
                   ELSE [s \in DOMAIN g.contents \cup {source} |-> IF s = source THEN content ELSE g.contents[s]]
  BY Zenon
<1>5. c \in Contents
  <2>1. CASE content = Null
    <3>1. c = [s \in D \ {source} |-> g.contents[s]]
      BY <1>2, <1>4, <2>1 DEF Restrict
    <3>2. c \in [D \ {source} -> Strings] /\ D \ {source} \in SUBSET Strings
      BY <1>2, <3>1
    <3>. QED BY <3>2 DEF Contents
  <2>2. CASE content # Null
    <3>1. c \in [D \cup {source} -> Strings] /\ D \cup {source} \in SUBSET Strings
      BY <1>2, <1>4, <2>2
    <3>. QED BY <3>1 DEF Contents
  <2>. QED BY <2>1, <2>2
<1>6. SetSourceContent(g, file, content) = [g EXCEPT !.contents = c]
  BY <1>1, <1>3, <1>4 DEF SetSourceContent, Generators
<1>7. PICK h : h = [g EXCEPT !.contents = c]
  BY Zenon
<1>8. h \in Generators /\ h.array = g.array /\ h.sorted = g.sorted /\ h.last = g.last
  BY <1>1, <1>5, <1>7 DEF Generators
<1>9. SetSourceContent(g, file, content) = h
  BY <1>6, <1>7, Zenon
<1>. QED BY <1>1, <1>8, <1>9 DEF IsGenerator

\* The content of a source, which may be none.
LEMMA SourceContentIs ==
  ASSUME NEW map, map.contents \in ContentLists, NEW name, NEW nullOnMissing
  PROVE  LET content == SourceContentFor(map, name, nullOnMissing)
         IN  ~content.threw => content.found \in Strings \cup {Null}
<1>1. \A c \in Seq(Strings \cup {Null}) : \A i \in DOMAIN c : c[i] \in Strings \cup {Null}
  OBVIOUS
<1>2. map.contents # Null => map.contents \in Seq(Strings \cup {Null})
  BY DEF ContentLists
<1>3. \A i : i \in DOMAIN map.contents /\ map.contents # Null => map.contents[i] \in Strings \cup {Null}
  BY <1>1, <1>2
<1>. QED BY <1>3 DEF SourceContentFor, Answer, Threw

\* A fold stays where its steps stay.
LEMMA FoldStays ==
  ASSUME NEW T, NEW S, NEW step, IsStep(step, T, S), NEW base \in T, NEW seq \in Seq(S), NEW f,
         TriesToGo(f, T, S, step, base, seq)
  PROVE  f[DOMAIN seq] \in T
<1>1. f[DOMAIN seq] = Folded(step, base, seq)
  BY FoldEnds
<1>2. Folded(step, base, seq) \in T
  BY FoldedType
<1>. QED BY <1>1, <1>2

\* The generators that differ from g in their contents alone.
Refilled(g) ==
  {h \in Generators : /\ IsGenerator(h) /\ h.array = g.array /\ h.sorted = g.sorted /\ h.last = g.last
                      /\ h.sources = g.sources /\ h.names = g.names /\ h.root = g.root}

\* setSourceContent changes the contents alone.
LEMMA SetSourceContentRefills ==
  ASSUME NEW g, NEW h \in Refilled(g), NEW file \in Strings, NEW content \in Strings \cup {Null}
  PROVE  SetSourceContent(h, file, content) \in Refilled(g)
<1>1. IsGenerator(SetSourceContent(h, file, content))
  BY SetSourceContentKeeps DEF Refilled
<1>2. PICK c : SetSourceContent(h, file, content) = [h EXCEPT !.contents = c]
  BY Zenon DEF SetSourceContent
<1>3. PICK k : k = [h EXCEPT !.contents = c]
  BY Zenon
<1>4. /\ k.array = h.array /\ k.sorted = h.sorted /\ k.last = h.last
      /\ k.sources = h.sources /\ k.names = h.names /\ k.root = h.root
  BY <1>3 DEF Refilled, Generators
<1>5. IsGenerator(k) /\ k = SetSourceContent(h, file, content)
  BY <1>1, <1>2, <1>3, Zenon
<1>. QED BY <1>4, <1>5 DEF Refilled, IsGenerator

\* The contents that are copied change no more.
LEMMA CopyContentsKeeps ==
  ASSUME NEW g, IsGenerator(g), NEW map, map.contents \in ContentLists, NEW names \in Seq(Strings)
  PROVE  LET out == CopyContents(g, map, names)
         IN  out.threw \in BOOLEAN /\ out.generator \in Refilled(g)
<1>. DEFINE T == [threw : BOOLEAN, generator : Refilled(g)]
            Fill(out, i) ==
              LET content == SourceContentFor(map, SourceNames(map)[i], FALSE)
              IN  IF out.threw \/ content.threw THEN [out EXCEPT !.threw = TRUE]
                  ELSE IF content.found = Null THEN out
                  ELSE [out EXCEPT !.generator = SetSourceContent(@, names[i], content.found)]
            step == [x \in T \X DOMAIN names |-> Fill(x[1], x[2])]
            first == [threw |-> FALSE, generator |-> g]
            turns == [i \in DOMAIN names |-> i]
<1>1. first \in T
  BY DEF IsGenerator, Refilled
<1>2. turns \in Seq(DOMAIN names) /\ DOMAIN turns = DOMAIN names
  OBVIOUS
<1>3. ASSUME NEW out \in T, NEW i \in DOMAIN names PROVE Fill(out, i) \in T
  <2>1. PICK content : content = SourceContentFor(map, SourceNames(map)[i], FALSE)
    BY Zenon
  <2>2. names[i] \in Strings /\ out.generator \in Refilled(g)
    OBVIOUS
  <2>3. CASE out.threw \/ content.threw
    BY <2>1, <2>3
  <2>4. CASE ~(out.threw \/ content.threw) /\ content.found = Null
    BY <2>1, <2>4
  <2>5. CASE ~(out.threw \/ content.threw) /\ content.found # Null
    <3>1. content.found \in Strings \cup {Null}
      BY <2>1, <2>5, SourceContentIs
    <3>2. SetSourceContent(out.generator, names[i], content.found) \in Refilled(g)
      BY <2>2, <3>1, SetSourceContentRefills
    <3>3. Fill(out, i) = [out EXCEPT !.generator = SetSourceContent(@, names[i], content.found)]
      BY <2>1, <2>5
    <3>. QED BY <3>2, <3>3
  <2>. QED BY <2>3, <2>4, <2>5
<1>4. IsStep(step, T, DOMAIN names)
  BY <1>3 DEF IsStep
<1>. DEFINE Is(h) == h = [s \in SUBSET DOMAIN turns |->
                       IF s = {} THEN first ELSE Fill(h[s \ {Greatest(s)}], turns[Greatest(s)])]
            iter == CHOOSE h : Is(h)
<1>5. CopyContents(g, map, names) = iter[DOMAIN turns]
  BY DEF CopyContents, FoldLeftDomain, FoldLeft, MapThenFoldSet, Max, Greatest
<1>6. PICK S, U, base, go, seq : /\ S = DOMAIN names /\ U = T /\ base = first /\ go = step /\ seq = turns
  OBVIOUS
<1>7. \A x \in U, i \in S : go[<<x, i>>] = Fill(x, i)
  BY <1>6
<1>8. IsStep(go, U, S) /\ base \in U /\ seq \in Seq(S)
  BY <1>1, <1>2, <1>4, <1>6
<1>. HIDE DEF T, Fill, step, first, turns
<1>9. PICK f : GoesThrough(f, U, S, go, base, seq)
  BY <1>8, FoldGoes
<1>10. Is(f)
  <2>1. \A s \in SUBSET DOMAIN seq : s # {} =>
          go[<<f[s \ {Greatest(s)}], seq[Greatest(s)]>>] = Fill(f[s \ {Greatest(s)}], seq[Greatest(s)])
    BY <1>7, <1>9, Zenon DEF GoesThrough
  <2>. QED BY <1>6, <1>9, <2>1, Zenon DEF GoesThrough
<1>11. Is(iter)
  BY <1>10
<1>. HIDE DEF iter
<1>12. TriesToGo(iter, U, S, go, base, seq)
  BY <1>6, <1>7, <1>11 DEF TriesToGo
<1>13. iter[DOMAIN seq] \in U
  BY <1>8, <1>12, FoldStays
<1>14. CopyContents(g, map, names) \in T
  BY <1>5, <1>6, <1>13, Zenon
<1>. QED BY <1>14 DEF T

(***************************************************************************)
(* applySourceMap keeps a generator one.                                   *)
(***************************************************************************)
\* Where a map says that a place comes from.
Origins == [source : Strings, line : Int, column : Int, name : Strings \cup {Null}]

\* The least of some indices, and the greatest, is one of them.
LEMMA EndsAreIn ==
  ASSUME NEW n \in Nat, NEW S \in SUBSET (1..n), S # {}
  PROVE  Min(S) \in S /\ Max(S) \in S
<1>1. S \in SUBSET Nat /\ S \in SUBSET (0..n)
  OBVIOUS
<1>2. \E k \in S : \A j \in S : k >= j
  BY <1>1, HasGreatest
<1>3. \E k \in S : \A j \in S : k <= j
  BY <1>1, HasLeast
<1>. QED BY <1>2, <1>3 DEF Min, Max

\* A place comes from a place in a source, if a map has it.
LEMMA OriginIs ==
  ASSUME NEW map \in Maps, NEW line \in Int, NEW column \in Int, NEW b
  PROVE  LET told == OriginalPositionFor(map, line, column, b)
         IN  /\ told.threw \in BOOLEAN
             /\ ~told.threw /\ told.found # <<>> => told.found[1] \in Origins
<1>1. /\ map.generated \in Seq(Entries) /\ map.sources \in Seq(Strings) /\ map.names \in Seq(Strings)
      /\ map.root \in Strings \cup {Null}
  BY DEF Maps
<1>2. PICK positions, p : positions = GeneratedPositions(map) /\ p = <<0, line, column>>
  BY Zenon
<1>3. DOMAIN positions = 1..Len(map.generated) /\ Len(map.generated) \in Nat
  BY <1>1, <1>2 DEF GeneratedPositions
<1>4. PICK i : i = SearchResult(positions, p, b)
  BY Zenon
<1>5. i = 0 \/ i \in 1..Len(map.generated)
  <2>. DEFINE near == {k \in DOMAIN positions : OnSide(positions[k], p, b)}
              best == {k \in near : \A j \in near : OnSide(positions[j], positions[k], b)}
  <2>1. i = IF best = {} THEN 0 ELSE Min(best)
    BY <1>4 DEF SearchResult
  <2>2. best \in SUBSET (1..Len(map.generated))
    BY <1>3
  <2>. HIDE DEF best
  <2>3. best # {} => Min(best) \in best
    BY <1>3, <2>2, EndsAreIn
  <2>. QED BY <2>1, <2>2, <2>3
<1>6. PICK told : told = OriginalPosition(map, i, line)
  BY Zenon
<1>7. told.threw \in BOOLEAN /\ (~told.threw /\ told.found # <<>> => told.found[1] \in Origins)
  <2>1. CASE i = 0 \/ map.generated[i].generatedLine # line \/ map.generated[i].source = Null
    BY <1>6, <2>1 DEF OriginalPosition, NoAnswer, Answer
  <2>2. CASE ~(i = 0 \/ map.generated[i].generatedLine # line \/ map.generated[i].source = Null)
    <3>1. PICK m \in Entries : m = map.generated[i] /\ m.source # Null
      BY <1>1, <1>5, <2>2
    <3>2. m \in Located
      BY <3>1 DEF Entries, Bare
    <3>3. CASE ~IsInflatable(map, m)
      BY <1>6, <2>2, <3>1, <3>3 DEF OriginalPosition, Threw
    <3>4. CASE IsInflatable(map, m)
      <4>1. told = Answer(<<OriginalOf(Inflate(map, m))>>)
        BY <1>6, <2>2, <3>1, <3>4 DEF OriginalPosition
      <4>2. m.source \in Int /\ m.name \in Int \cup {Null} /\ m.originalLine \in Int /\ m.originalColumn \in Int
        BY <3>2 DEF Located
      <4>3. m.source + 1 \in DOMAIN map.sources /\ (m.name # Null => m.name + 1 \in DOMAIN map.names)
        BY <3>1, <3>4 DEF IsInflatable, IsIndex
      <4>4. PICK s : s = At(map.sources, m.source)
        BY Zenon
      <4>5. s \in Strings
        BY <1>1, <4>3, <4>4 DEF At
      <4>6. Show(map.root, s) \in Strings
        BY <1>1, <4>5, NamesAre
      <4>7. PICK name : name = IF m.name = Null THEN Null ELSE At(map.names, m.name)
        BY Zenon
      <4>8. name \in Strings \cup {Null}
        BY <1>1, <4>3, <4>7 DEF At
      <4>9. PICK shown : shown = Show(map.root, s)
        BY Zenon
      <4>10. Inflate(map, m) = [m EXCEPT !.source = shown, !.name = name]
        BY <3>1, <4>4, <4>7, <4>9 DEF Inflate
      <4>11. OriginalOf(Inflate(map, m)) =
               [source |-> shown, line |-> m.originalLine, column |-> m.originalColumn, name |-> name]
        BY <3>2, <4>10 DEF OriginalOf, Located
      <4>12. PICK o \in Origins : o = OriginalOf(Inflate(map, m))
        BY <4>2, <4>6, <4>8, <4>9, <4>11 DEF Origins
      <4>. QED BY <4>1, <4>12 DEF Answer
    <3>. QED BY <3>3, <3>4
  <2>. QED BY <2>1, <2>2
<1>8. OriginalPositionFor(map, line, column, b) = IF ~IsPlace(line, column) THEN Threw ELSE told
  BY <1>2, <1>4, <1>6 DEF OriginalPositionFor
<1>9. Threw.threw = TRUE
  BY DEF Threw
<1>. QED BY <1>7, <1>8, <1>9

\* A mapping that is rewritten keeps its place.
LEMMA RewriteIs ==
  ASSUME NEW g, g.root \in Strings \cup {Null}, NEW m \in Lines, NEW o \in Origins,
         NEW path \in Strings \cup {Null}
  PROVE  /\ Rewrite(g, m, o, path) \in Lines
         /\ Rewrite(g, m, o, path).generatedLine = m.generatedLine
         /\ Rewrite(g, m, o, path).generatedColumn = m.generatedColumn
<1>1. o.source \in Strings /\ o.line \in Int /\ o.column \in Int /\ o.name \in Strings \cup {Null}
  BY DEF Origins
<1>2. Rename(g, o.source, path) \in Strings
  <2>1. (IF path = Null THEN o.source ELSE Join(path, o.source)) \in Strings
    BY <1>1, JoinType
  <2>. QED BY <2>1, NamesAre DEF Rename
<1>3. PICK source \in Strings, name \in Strings \cup {Null} :
        source = Rename(g, o.source, path) /\ name = IF o.name = Null THEN m.name ELSE o.name
  BY <1>1, <1>2, ToldIs
<1>4. Rewrite(g, m, o, path) = [m EXCEPT !.source = source, !.originalLine = o.line,
                                  !.originalColumn = o.column, !.name = name]
  BY <1>3 DEF Rewrite, Lines, Sourced, Unplaced
<1>5. CASE m \in Sourced
  BY <1>1, <1>4, <1>5 DEF Sourced, Lines
<1>6. CASE m \in Unplaced
  BY <1>1, <1>4, <1>6 DEF Sourced, Unplaced, Lines
<1>. QED BY <1>5, <1>6 DEF Lines

\* applySourceMap, also when it throws.
LEMMA ApplyKeeps ==
  ASSUME NEW g, IsGenerator(g), NEW map \in Maps, NEW file \in Strings, NEW path \in Strings \cup {Null}
  PROVE  LET out == ApplySourceMap(g, map, file, path)
         IN  out.threw \in BOOLEAN /\ IsGenerator(out.generator)
<1>. DEFINE applies == {i \in DOMAIN g.array : g.array[i].source = Resolve(g.root, file)}
            answers == [i \in applies |->
                    OriginalPositionFor(map, Num(g.array[i].originalLine),
                                        Num(g.array[i].originalColumn), "GREATEST_LOWER_BOUND")]
            throws == {i \in applies : answers[i].threw}
            Line(i) == IF /\ i \in applies /\ (\A j \in throws : i < j)
                          /\ answers[i].found # <<>>
                         THEN Rewrite(g, g.array[i], answers[i].found[1], path) ELSE g.array[i]
            last == IF g.array = <<>> THEN g.last ELSE Line(Max({i \in DOMAIN g.array : g.array[i] = g.last}))
            array == [i \in DOMAIN g.array |-> Line(i)]
            rewritten == [g EXCEPT !.array = array, !.last = last]
            sources == ArraySet[[i \in DOMAIN g.array |-> Line(i).source]]
            names == ArraySet[[i \in DOMAIN g.array |-> Line(i).name]]
            whole == [rewritten EXCEPT !.sources = sources, !.names = names]
            shown == [i \in DOMAIN SourceNames(map) |-> Rename(g, SourceNames(map)[i], path)]
<1>1. /\ g \in Generators /\ g.array \in Seq(Lines) /\ g.root \in Strings \cup {Null} /\ g.last \in Lines
      /\ IsInPlace(g.array, g.sorted, g.last) /\ g.sources \in ArraySets /\ g.names \in ArraySets
      /\ g.sorted \in BOOLEAN /\ g.contents \in Contents
  BY DEF IsGenerator, Generators
<1>2. ApplySourceMap(g, map, file, path) =
        IF throws # {} THEN [threw |-> TRUE, generator |-> rewritten] ELSE CopyContents(whole, map, shown)
  BY DEF ApplySourceMap
<1>3. DOMAIN g.array = 1..Len(g.array) /\ Len(g.array) \in Nat
  BY <1>1
<1>4. ASSUME NEW i \in DOMAIN g.array
      PROVE  /\ Line(i) \in Lines
             /\ Line(i).generatedLine = g.array[i].generatedLine
             /\ Line(i).generatedColumn = g.array[i].generatedColumn
  <2>1. PICK m \in Lines : m = g.array[i]
    BY <1>1
  <2>2. CASE /\ i \in applies /\ (\A j \in throws : i < j) /\ answers[i].found # <<>>
    <3>2. Num(m.originalLine) \in Int /\ Num(m.originalColumn) \in Int
      BY ToldIs
    <3>3. answers[i] = OriginalPositionFor(map, Num(m.originalLine), Num(m.originalColumn), "GREATEST_LOWER_BOUND")
      BY <2>1, <2>2
    <3>4. ~answers[i].threw
      BY <1>3, <2>2
    <3>5. answers[i].found[1] \in Origins
      BY <2>2, <3>2, <3>3, <3>4, OriginIs
    <3>6. Line(i) = Rewrite(g, m, answers[i].found[1], path)
      BY <2>1, <2>2
    <3>. HIDE DEF applies, answers, throws, Line
    <3>. QED BY <1>1, <2>1, <3>5, <3>6, RewriteIs
  <2>3. CASE ~(/\ i \in applies /\ (\A j \in throws : i < j) /\ answers[i].found # <<>>)
    <3>1. Line(i) = g.array[i]
      BY <2>3
    <3>. QED BY <2>1, <3>1
  <2>. QED BY <2>2, <2>3
<1>. HIDE DEF applies, answers, throws, Line
<1>5. array \in Seq(Lines) /\ Len(array) = Len(g.array) /\ DOMAIN array = DOMAIN g.array
  BY <1>3, <1>4
<1>6. last \in Lines /\ (g.array # <<>> => last \in Range(array) /\ last.generatedLine = g.last.generatedLine
                                            /\ last.generatedColumn = g.last.generatedColumn)
  <2>1. CASE g.array = <<>>
    BY <1>1, <2>1
  <2>2. CASE g.array # <<>>
    <3>. DEFINE S == {i \in DOMAIN g.array : g.array[i] = g.last}
    <3>1. S # {} /\ S \in SUBSET (1..Len(g.array))
      BY <1>1, <1>3, <2>2 DEF IsInPlace, Range
    <3>2. PICK k \in S : k = Max(S)
      <4>. HIDE DEF S
      <4>. QED BY <1>3, <3>1, EndsAreIn
    <3>3. last = Line(k) /\ k \in DOMAIN g.array /\ g.array[k] = g.last
      BY <2>2, <3>2
    <3>4. array[k] = Line(k)
      BY <3>3
    <3>. HIDE DEF array, last, S
    <3>. QED BY <1>4, <1>5, <3>3, <3>4 DEF Range
  <2>. QED BY <2>1, <2>2
<1>7. IsInPlace(array, g.sorted, last)
  <2>1. array = <<>> <=> g.array = <<>>
    BY <1>1, <1>5
  <2>2. \A i \in DOMAIN g.array : /\ array[i].generatedLine = g.array[i].generatedLine
                                  /\ array[i].generatedColumn = g.array[i].generatedColumn
    BY <1>4
  <2>3. CASE g.array = <<>>
    <3>1. last = g.last
      BY <2>3
    <3>. HIDE DEF array, last
    <3>. QED BY <1>1, <1>5, <2>1, <2>3, <3>1 DEF IsInPlace
  <2>4. CASE g.array # <<>>
    <3>. HIDE DEF array, last
    <3>1. \A i \in DOMAIN g.array : array[i].generatedLine > 0 /\ NotAfter(array[i], last)
      BY <1>1, <1>6, <2>2, <2>4 DEF IsInPlace, NotAfter
    <3>2. last # Infimum
      <4>1. PICK i \in DOMAIN array : last = array[i]
        BY <1>6, <2>4 DEF Range
      <4>. QED BY <1>5, <3>1, <4>1, InfimumIs
    <3>3. g.sorted => \A i, j \in DOMAIN array : i < j => NotAfter(array[i], array[j])
      BY <1>1, <1>5, <2>2 DEF IsInPlace, NotAfter
    <3>. QED BY <1>5, <1>6, <2>1, <2>4, <3>1, <3>2, <3>3 DEF IsInPlace
  <2>. QED BY <2>3, <2>4
<1>8. /\ rewritten \in Generators /\ rewritten.array = array /\ rewritten.sorted = g.sorted
      /\ rewritten.last = last
  <2>. HIDE DEF array, last
  <2>. QED BY <1>1, <1>5, <1>6 DEF Generators
<1>9. IsGenerator(rewritten)
  BY <1>7, <1>8 DEF IsGenerator
<1>10. sources \in ArraySets /\ names \in ArraySets
  <2>1. /\ [i \in DOMAIN g.array |-> Line(i).source] \in Seq(Strings \cup {Null})
        /\ [i \in DOMAIN g.array |-> Line(i).name] \in Seq(Strings \cup {Null})
    <3>1. \A m \in Lines : m.source \in Strings \cup {Null} /\ m.name \in Strings \cup {Null}
      BY ToldIs
    <3>. QED BY <1>3, <1>4, <3>1
  <2>. QED BY <2>1, ArraySetIs
<1>11. IsGenerator(whole)
  <2>1. PICK h, ss, ns : h = rewritten /\ ss = sources /\ ns = names
    BY Zenon
  <2>2. h \in Generators /\ ss \in ArraySets /\ ns \in ArraySets /\ IsGenerator(h)
    BY <1>8, <1>9, <1>10, <2>1, Zenon
  <2>3. PICK w : w = [h EXCEPT !.sources = ss, !.names = ns]
    BY Zenon
  <2>4. w \in Generators /\ w.array = h.array /\ w.sorted = h.sorted /\ w.last = h.last
    BY <2>2, <2>3 DEF Generators
  <2>5. w = whole
    BY <2>1, <2>3, Zenon
  <2>. HIDE DEF whole
  <2>. QED BY <2>2, <2>4, <2>5 DEF IsGenerator
<1>12. shown \in Seq(Strings)
  <2>1. /\ map.sources \in Seq(Strings) /\ map.root \in Strings \cup {Null}
        /\ DOMAIN map.sources = 1..Len(map.sources) /\ Len(map.sources) \in Nat
    BY DEF Maps
  <2>2. DOMAIN SourceNames(map) = 1..Len(map.sources)
    BY <2>1 DEF SourceNames
  <2>3. ASSUME NEW i \in 1..Len(map.sources)
        PROVE  Rename(g, SourceNames(map)[i], path) \in Strings
    <3>1. map.sources[i] \in Strings /\ SourceNames(map)[i] = Show(map.root, map.sources[i])
      BY <2>1, <2>3 DEF SourceNames
    <3>2. SourceNames(map)[i] \in Strings
      BY <2>1, <3>1, NamesAre
    <3>3. (IF path = Null THEN SourceNames(map)[i] ELSE Join(path, SourceNames(map)[i])) \in Strings
      BY <3>2, JoinType
    <3>. QED BY <1>1, <3>3, NamesAre DEF Rename
  <2>. QED BY <2>1, <2>2, <2>3
<1>. HIDE DEF whole, rewritten, shown
<1>13. map.contents \in ContentLists
  BY DEF Maps
<1>14. CopyContents(whole, map, shown).threw \in BOOLEAN /\ IsGenerator(CopyContents(whole, map, shown).generator)
  BY <1>11, <1>12, <1>13, CopyContentsKeeps DEF Refilled
<1>15. PICK out : out = ApplySourceMap(g, map, file, path)
  BY Zenon
<1>16. CASE throws # {}
  <2>1. out = [threw |-> TRUE, generator |-> rewritten]
    BY <1>2, <1>15, <1>16
  <2>2. out.threw = TRUE /\ out.generator = rewritten
    BY <2>1
  <2>. QED BY <1>9, <1>15, <2>2
<1>17. CASE throws = {}
  <2>1. out = CopyContents(whole, map, shown)
    BY <1>2, <1>15, <1>17
  <2>. QED BY <1>14, <1>15, <2>1, Zenon
<1>. QED BY <1>16, <1>17

(***************************************************************************)
(* So do fromSourceMap and what is added.                                  *)
(***************************************************************************)
\* A consumer's mapping with its names is one that a generator may have.
LEMMA InflatedIs ==
  ASSUME NEW map \in Maps, NEW m \in Entries, IsInflatable(map, m)
  PROVE  /\ Inflate(map, m) \in Lines
         /\ m \in Bare => Inflate(map, m) = m
         /\ m \in Located => Inflate(map, m) \in Sourced
<1>1. map.sources \in Seq(Strings) /\ map.names \in Seq(Strings) /\ map.root \in Strings \cup {Null}
  BY DEF Maps
<1>2. CASE m \in Bare
  <2>1. m.source = Null /\ m.name = Null
    BY <1>2 DEF Bare
  <2>2. Inflate(map, m) = m
    BY <1>2, <2>1 DEF Inflate, Bare
  <2>3. m \notin Located
    BY <1>2, NullAssumption DEF Bare, Located
  <2>. QED BY <1>2, <2>2, <2>3 DEF Lines, Bare, Unplaced
<1>3. CASE m \in Located
  <2>1. m.source \in Int /\ m.name \in Int \cup {Null} /\ m.source # Null /\ m \notin Bare
    BY <1>3, NullAssumption DEF Located, Bare
  <2>2. m.source + 1 \in DOMAIN map.sources /\ (m.name # Null => m.name + 1 \in DOMAIN map.names)
    BY <2>1 DEF IsInflatable, IsIndex
  <2>3. PICK s : s = At(map.sources, m.source)
    BY Zenon
  <2>4. s \in Strings
    BY <1>1, <2>2, <2>3 DEF At
  <2>5. PICK shown \in Strings : shown = Show(map.root, s)
    BY <1>1, <2>4, NamesAre
  <2>6. PICK name : name = IF m.name = Null THEN Null ELSE At(map.names, m.name)
    BY Zenon
  <2>7. name \in Strings \cup {Null}
    BY <1>1, <2>2, <2>6 DEF At
  <2>8. Inflate(map, m) = [m EXCEPT !.source = shown, !.name = name]
    BY <2>1, <2>3, <2>5, <2>6 DEF Inflate
  <2>9. [m EXCEPT !.source = shown, !.name = name] \in Sourced
    BY <1>3, <2>7 DEF Located, Sourced
  <2>10. Inflate(map, m) \in Sourced
    BY <2>8, <2>9
  <2>. QED BY <2>1, <2>10 DEF Lines
<1>. QED BY <1>2, <1>3 DEF Entries

\* addMapping of one mapping after the other.
LEMMA AddedMappingsKeep ==
  ASSUME NEW root \in Strings \cup {Null}, NEW S, S = {m \in Lines : m.generatedLine > 0}, NEW lines \in Seq(S)
  PROVE  IsGenerator(FoldLeft(AddMapping, NewGenerator(root), lines))
<1>. DEFINE T == {h \in Generators : IsGenerator(h)}
            step == [x \in T \X S |-> AddMapping(x[1], x[2])]
            Is(h) == h = [s \in SUBSET DOMAIN lines |->
                       IF s = {} THEN NewGenerator(root)
                       ELSE AddMapping(h[s \ {Greatest(s)}], lines[Greatest(s)])]
            iter == CHOOSE h : Is(h)
<1>1. ASSUME NEW h \in T, NEW m \in S PROVE step[<<h, m>>] = AddMapping(h, m) /\ step[<<h, m>>] \in T
  <2>1. IsGenerator(AddMapping(h, m))
    BY AddMappingKeeps
  <2>2. AddMapping(h, m) \in T
    BY <2>1 DEF IsGenerator
  <2>. QED BY <2>2
<1>2. PICK U, go, base : U = T /\ go = step /\ base = NewGenerator(root)
  BY Zenon
<1>3. base \in U
  BY <1>2, NewGeneratorIs DEF IsGenerator
<1>4. IsStep(go, U, S) /\ \A h \in U, m \in S : go[<<h, m>>] = AddMapping(h, m)
  BY <1>1, <1>2 DEF IsStep
<1>5. FoldLeft(AddMapping, NewGenerator(root), lines) = iter[DOMAIN lines]
  BY DEF FoldLeft, MapThenFoldSet, Max, Greatest
<1>. HIDE DEF T, step
<1>6. PICK f : GoesThrough(f, U, S, go, base, lines)
  BY <1>3, <1>4, FoldGoes
<1>7. Is(f)
  <2>1. \A s \in SUBSET DOMAIN lines : s # {} =>
          go[<<f[s \ {Greatest(s)}], lines[Greatest(s)]>>] = AddMapping(f[s \ {Greatest(s)}], lines[Greatest(s)])
    BY <1>4, <1>6, Zenon DEF GoesThrough
  <2>. QED BY <1>2, <1>6, <2>1, Zenon DEF GoesThrough
<1>8. Is(iter)
  BY <1>7
<1>. HIDE DEF iter
<1>9. TriesToGo(iter, U, S, go, base, lines)
  BY <1>2, <1>4, <1>8 DEF TriesToGo
<1>10. iter[DOMAIN lines] \in U
  BY <1>3, <1>4, <1>9, FoldStays
<1>. QED BY <1>2, <1>5, <1>10 DEF T

\* fromSourceMap of the generator, when it does not throw.
LEMMA GeneratorOfKeeps ==
  ASSUME NEW map \in Maps
  PROVE  LET out == GeneratorOf(map)
         IN  out.threw \in BOOLEAN /\ (~out.threw => IsGenerator(out.generator))
<1>. DEFINE each == EachMapping(map).found
            mappings == [i \in DOMAIN each |->
                     IF each[i].source = Null THEN each[i]
                     ELSE [each[i] EXCEPT !.source = Resolve(map.root, @)]]
            made == FoldLeft(AddMapping, NewGenerator(map.root), mappings)
<1>1. PICK out : out = GeneratorOf(map)
  BY Zenon
<1>2. out = IF EachMapping(map).threw \/ \E m \in Range(mappings) : ~IsValid(m)
               THEN [threw |-> TRUE, generator |-> made] ELSE CopyContents(made, map, SourceNames(map))
  BY <1>1 DEF GeneratorOf
<1>3. /\ map.generated \in Seq(Entries) /\ map.sources \in Seq(Strings) /\ map.root \in Strings \cup {Null}
      /\ map.contents \in ContentLists
  BY DEF Maps
<1>4. CASE EachMapping(map).threw \/ \E m \in Range(mappings) : ~IsValid(m)
  <2>1. out = [threw |-> TRUE, generator |-> made]
    BY <1>2, <1>4, Zenon
  <2>2. out.threw = TRUE
    BY <2>1
  <2>. QED BY <1>1, <2>2
<1>5. CASE ~(EachMapping(map).threw \/ \E m \in Range(mappings) : ~IsValid(m))
  <2>1. /\ \A m \in Range(map.generated) : IsInflatable(map, m)
        /\ each = [i \in DOMAIN map.generated |-> Inflate(map, map.generated[i])]
    BY <1>5 DEF EachMapping, Threw, Answer
  <2>2. DOMAIN map.generated = 1..Len(map.generated) /\ Len(map.generated) \in Nat /\ DOMAIN each = DOMAIN map.generated
    BY <1>3, <2>1
  <2>3. ASSUME NEW i \in 1..Len(map.generated)
        PROVE  mappings[i] \in {m \in Lines : m.generatedLine > 0}
    <3>1. PICK m \in Entries : m = map.generated[i]
      BY <1>3
    <3>2. IsInflatable(map, m)
      BY <2>1, <2>2, <3>1 DEF Range
    <3>3. PICK line \in Lines : line = Inflate(map, m)
      BY <3>2, InflatedIs
    <3>4. each[i] = line
      BY <2>1, <2>2, <3>1, <3>3
    <3>5. IsValid(mappings[i])
      BY <1>5, <2>2 DEF Range
    <3>6. mappings[i] \in Lines
      <4>1. CASE line \in Bare
        <5>1. line.source = Null
          BY <4>1 DEF Bare
        <5>. QED BY <2>2, <3>4, <5>1
      <4>2. CASE line \in Sourced
        <5>1. line.source \in Strings
          BY <4>2 DEF Sourced
        <5>2. line.source # Null
          BY <5>1, NullAssumption
        <5>3. PICK s \in Strings : s = Resolve(map.root, line.source)
          BY <1>3, <5>1, NamesAre
        <5>4. mappings[i] = [line EXCEPT !.source = s]
          BY <2>2, <3>4, <5>2, <5>3
        <5>. QED BY <4>2, <5>4 DEF Sourced, Lines
      <4>3. line \in Bare \/ line \in Sourced
        BY <3>2, <3>3, InflatedIs DEF Entries
      <4>. QED BY <4>1, <4>2, <4>3
    <3>. QED BY <3>5, <3>6 DEF IsValid
  <2>4. mappings \in Seq({m \in Lines : m.generatedLine > 0})
    <3>1. PICK n, S : n = Len(map.generated) /\ S = {m \in Lines : m.generatedLine > 0}
      BY Zenon
    <3>2. DOMAIN mappings = 1..n /\ n \in Nat /\ \A i \in 1..n : mappings[i] \in S
      BY <2>2, <2>3, <3>1
    <3>3. mappings = [i \in 1..n |-> mappings[i]]
      BY <3>2
    <3>. HIDE DEF mappings
    <3>4. mappings \in Seq(S)
      BY <3>2, <3>3
    <3>. QED BY <3>1, <3>4
  <2>5. PICK lines : lines = mappings
    BY Zenon
  <2>6. IsGenerator(made)
    <3>1. IsGenerator(FoldLeft(AddMapping, NewGenerator(map.root), lines))
      BY <1>3, <2>4, <2>5, AddedMappingsKeep
    <3>. QED BY <2>5, <3>1, Zenon
  <2>7. SourceNames(map) \in Seq(Strings)
    <3>1. DOMAIN map.sources = 1..Len(map.sources) /\ Len(map.sources) \in Nat
      BY <1>3
    <3>2. ASSUME NEW i \in 1..Len(map.sources) PROVE Show(map.root, map.sources[i]) \in Strings
      <4>1. map.sources[i] \in Strings
        BY <1>3, <3>1
      <4>. QED BY <1>3, <4>1, NamesAre
    <3>. QED BY <3>1, <3>2 DEF SourceNames
  <2>. HIDE DEF made
  <2>8. out = CopyContents(made, map, SourceNames(map))
    BY <1>2, <1>5, Zenon
  <2>. QED BY <1>1, <1>3, <2>6, <2>7, <2>8, CopyContentsKeeps DEF Refilled
<1>. QED BY <1>4, <1>5

\* addMapping is called with mappings that are checked.
LEMMA WantedIs ==
  ASSUME NEW m \in Wanted, IsValid(m)
  PROVE  m \in Lines /\ m.generatedLine > 0
<1>1. /\ m \in [generatedLine : Int, generatedColumn : Int, source : Strings \cup {Null},
                originalLine : Int \cup {Null}, originalColumn : Int \cup {Null}, name : Strings \cup {Null}]
      /\ m.originalLine = Null <=> m.originalColumn = Null
  BY DEF Wanted
<1>2. CASE m.originalLine = Null /\ {m.source, m.name} \subseteq {Null, EmptyString}
  BY <1>1, <1>2 DEF Unplaced, Lines, IsValid
<1>3. CASE m.originalLine # Null /\ m.source \notin {Null, EmptyString}
  BY <1>1, <1>3 DEF Sourced, Lines, IsValid
<1>. QED BY <1>2, <1>3 DEF IsValid

\* A generator that can be written is made.
LEMMA GeneratorIsMade ==
  ASSUME NEW g, IsGenerator(g), IsWritable(g)
  PROVE  IsMade(g)
BY DEF IsGenerator, Generators, ArraySets, IsMade

\* The loop in _serializeMappings has written something in its first n turns.
Writes(g, n) ==
  \E p \in Previouses : p = Folded(SerializeStep(g), Previous, [i \in 1..n |-> i]) /\ (n > 0 => p.text # <<>>)

\* What is written of mappings is not nothing.
LEMMA TextIsThere ==
  ASSUME NEW g, IsMade(g)
  PROVE  /\ SerializeMappings(g) \in Seq(Int)
         /\ g.array # <<>> => SerializeMappings(g) # <<>>
<1>. DEFINE Upto(n) == [i \in 1..n |-> i]
            P == {n \in Nat : n <= Len(g.array) => Writes(g, n)}
<1>1. DOMAIN g.array = 1..Len(g.array) /\ Len(g.array) \in Nat /\ g.array \in Seq(Lines)
  BY DEF IsMade
<1>2. Previous \in Previouses
  BY PreviousFollows DEF Previous, Previouses
<1>3. 0 \in P
  <2>1. Upto(0) = << >>
    OBVIOUS
  <2>2. Folded(SerializeStep(g), Previous, Upto(0)) = Previous
    BY <1>2, <2>1, SerializeSteps, FoldedNone
  <2>3. Writes(g, 0)
    BY <1>2, <2>2 DEF Writes
  <2>. QED BY <2>3
<1>4. ASSUME NEW n \in Nat, n \in P PROVE n + 1 \in P
  <2>1. CASE n + 1 <= Len(g.array)
    <3>1. n + 1 \in DOMAIN g.array /\ n <= Len(g.array)
      BY <1>1, <2>1
    <3>2. Upto(n) \in Seq(DOMAIN g.array) /\ Upto(n + 1) = Append(Upto(n), n + 1)
      BY <1>1, <3>1
    <3>3. PICK p \in Previouses : p = Folded(SerializeStep(g), Previous, Upto(n)) /\ (n > 0 => p.text # <<>>)
      <4>1. Writes(g, n)
        BY <1>4, <3>1
      <4>. QED BY <4>1, Zenon DEF Writes
    <3>4. Folded(SerializeStep(g), Previous, Append(Upto(n), n + 1)) = SerializeStep(g)[<<p, n + 1>>]
      <4>1. PICK D, u, step, k : D = DOMAIN g.array /\ u = Upto(n) /\ step = SerializeStep(g) /\ k = n + 1
        BY Zenon
      <4>2. u \in Seq(D) /\ k \in D /\ IsStep(step, Previouses, D)
        BY <3>1, <3>2, <4>1, SerializeSteps, Zenon
      <4>3. Folded(step, Previous, Append(u, k)) = step[<<Folded(step, Previous, u), k>>]
        BY <1>2, <4>2, FoldedNext
      <4>. QED BY <3>3, <4>1, <4>3, Zenon
    <3>5. PICK i : i = n + 1
      BY Zenon
    <3>6. i \in DOMAIN g.array /\ (i > 1 => n > 0)
      BY <3>1, <3>5
    <3>7. PICK r : r = SerializeMapping(g, p, i)
      BY Zenon
    <3>8. SerializeStep(g)[<<p, i>>] = r
      BY <3>6, <3>7 DEF SerializeStep
    <3>9. r \in Previouses
      BY <3>6, <3>7, SerializedIs
    <3>10. r.text # <<>>
      <4>1. CASE Skips(g, p, i)
        <5>1. r = p
          BY <3>6, <3>7, <4>1, SerializedIs
        <5>2. n > 0
          BY <3>6, <4>1 DEF Skips
        <5>. QED BY <3>3, <5>1, <5>2
      <4>2. CASE ~Skips(g, p, i)
        <5>1. /\ g.array[i].source = Null => r.text = Started(g, p, i)
              /\ g.array[i].source # Null => r.text = Started(g, p, i) \o OriginalFields(g, g.array[i], p)
          BY <3>6, <3>7, <4>2, SerializedIs
        <5>2. /\ Started(g, p, i) \in Seq(Int)
              /\ g.array[i].source # Null => OriginalFields(g, g.array[i], p) \in Seq(Nat)
              /\ g.array[i].generatedColumn - StartColumn(g.array[i], p) \in Int
              /\ Separators(g.array[i], p, i) \in Seq(Int)
          BY <3>6, StartedType
        <5>3. Started(g, p, i) # <<>>
          <6>1. PICK e \in Seq(Nat) : e = Encode(g.array[i].generatedColumn - StartColumn(g.array[i], p)) /\ e # <<>>
            BY <5>2, AnyEncodeType
          <6>2. p.text \in Seq(Int)
            BY DEF Previouses
          <6>3. PICK before \in Seq(Int) : before = p.text \o Separators(g.array[i], p, i)
            <7>1. PICK a \in Seq(Int), c \in Seq(Int) : a = p.text /\ c = Separators(g.array[i], p, i)
              BY <5>2, <6>2, Zenon
            <7>2. a \o c \in Seq(Int)
              OBVIOUS
            <7>. QED BY <7>1, <7>2, Zenon
          <6>4. Started(g, p, i) = before \o e
            BY <6>1, <6>3, Zenon DEF Started
          <6>5. before \o e # <<>>
            BY <6>1
          <6>. QED BY <6>4, <6>5
        <5>4. PICK start \in Seq(Int) : start = Started(g, p, i) /\ start # <<>>
          BY <5>2, <5>3
        <5>5. CASE g.array[i].source = Null
          BY <5>1, <5>4, <5>5
        <5>6. CASE g.array[i].source # Null
          <6>1. PICK fields \in Seq(Nat) : fields = OriginalFields(g, g.array[i], p)
            BY <5>2, <5>6
          <6>2. start \o fields # <<>>
            BY <5>4
          <6>. QED BY <5>1, <5>4, <5>6, <6>1, <6>2
        <5>. QED BY <5>5, <5>6
      <4>. QED BY <4>1, <4>2
    <3>11. Folded(SerializeStep(g), Previous, Upto(n + 1)) = r
      BY <3>2, <3>4, <3>5, <3>8, Zenon
    <3>12. Writes(g, n + 1)
      BY <3>9, <3>10, <3>11, Zenon DEF Writes
    <3>. QED BY <3>12
  <2>. QED BY <2>1
<1>5. Len(g.array) \in P
  <2>. HIDE DEF P
  <2>. QED BY <1>1, <1>3, <1>4, Induction
<1>6. PICK p \in Previouses : /\ p = Folded(SerializeStep(g), Previous, Upto(Len(g.array)))
                              /\ Len(g.array) > 0 => p.text # <<>>
  <2>1. Writes(g, Len(g.array))
    BY <1>1, <1>5
  <2>. QED BY <2>1, Zenon DEF Writes
<1>7. SerializeMappings(g) = p.text
  <2>1. Upto(Len(g.array)) = [i \in DOMAIN g.array |-> i]
    BY <1>1
  <2>. QED BY <1>6, <2>1, TextIsFolded, Zenon
<1>8. g.array # <<>> => Len(g.array) > 0
  BY <1>1
<1>. QED BY <1>6, <1>7, <1>8 DEF Previouses

\* A source as the constructor stores it is one.
LEMMA StoreType ==
  ASSUME NEW root \in Strings \cup {Null}, NEW source \in Strings
  PROVE  Store(root, source) \in Strings
<1>1. PICK s \in Strings : s = Normalize(source)
  BY NormalizeType
<1>2. Relative(root, s) \in Strings \/ root = Null
  BY RelativeType
<1>. QED BY <1>1, <1>2 DEF Store

\* What the constructor stores.
LEMMA StoredIs ==
  ASSUME NEW text, NEW sources \in Seq(Strings), NEW names, NEW root \in Strings \cup {Null}, NEW contents,
         NEW made, NEW stored, stored = [i \in DOMAIN sources |-> Store(root, sources[i])]
  PROVE  /\ stored \in Seq(Strings)
         /\ Stored(SourceMap(text, sources, names, root, contents, <<>>, made))
              = SourceMap(text, stored, names, root, contents, <<>>, made)
<1>2. PICK map : map = SourceMap(text, sources, names, root, contents, <<>>, made)
  BY Zenon
<1>3. map.sources = sources /\ map.root = root
  BY <1>2 DEF SourceMap
<1>4. Stored(map) = [map EXCEPT !.sources = stored]
  BY <1>3 DEF Stored
<1>5. \A t : [map EXCEPT !.sources = t] = SourceMap(text, t, names, root, contents, <<>>, made)
  BY <1>2 DEF SourceMap
<1>6. stored \in Seq(Strings)
  <2>1. DOMAIN sources = 1..Len(sources) /\ Len(sources) \in Nat
    OBVIOUS
  <2>2. ASSUME NEW i \in 1..Len(sources) PROVE Store(root, sources[i]) \in Strings
    <3>1. sources[i] \in Strings
      BY <2>1
    <3>. QED BY <3>1, StoreType
  <2>. QED BY <2>1, <2>2
<1>. QED BY <1>2, <1>4, <1>5, <1>6, Zenon

\* The contents that a generator writes.
LEMMA WrittenContentsAre ==
  ASSUME NEW g, IsGenerator(g)
  PROVE  GenerateSourcesContent(g) \in Seq(Strings \cup {Null})
<1>1. g.sources \in Seq(Strings) /\ g.contents \in Contents
  BY DEF IsGenerator, Generators, ArraySets
<1>2. PICK D \in SUBSET Strings : g.contents \in [D -> Strings]
  BY <1>1 DEF Contents
<1>3. DOMAIN g.sources = 1..Len(g.sources) /\ Len(g.sources) \in Nat
  BY <1>1
<1>4. \A source : (IF source \in DOMAIN g.contents THEN g.contents[source] ELSE Null) \in Strings \cup {Null}
  BY <1>2
<1>5. \A i \in 1..Len(g.sources) : GenerateSourcesContent(g)[i] \in Strings \cup {Null}
  BY <1>3, <1>4 DEF GenerateSourcesContent
<1>6. DOMAIN GenerateSourcesContent(g) = 1..Len(g.sources)
  BY <1>3 DEF GenerateSourcesContent
<1>7. PICK c : c = GenerateSourcesContent(g)
  BY Zenon
<1>8. c = [i \in 1..Len(g.sources) |-> c[i]]
  BY <1>3, <1>7 DEF GenerateSourcesContent
<1>. QED BY <1>3, <1>5, <1>6, <1>7, <1>8

(***************************************************************************)
(* _parseMappings and fromSourceMap make lists of the mappings that were   *)
(* written.                                                                *)
(***************************************************************************)
\* _parseMappings keeps the mappings with an original place apart, too.
Sift(out, m) == IF m.originalLine = Null THEN out ELSE Append(out, m)
\* The same as the step of a fold.
SiftStep == [x \in Seq(Located) \X Entries |-> Sift(x[1], x[2])]

\* One that has an original place is put behind the others.
LEMMA SiftIs ==
  ASSUME NEW out \in Seq(Located), NEW m \in Entries
  PROVE  /\ Sift(out, m) \in Seq(Located) /\ Len(Sift(out, m)) <= Len(out) + 1
         /\ Range(Sift(out, m)) = Range(out) \cup {k \in {m} : k.originalLine # Null}
<1>1. Len(out) \in Nat
  OBVIOUS
<1>2. CASE m.originalLine = Null
  <2>1. Sift(out, m) = out
    BY <1>2 DEF Sift
  <2>. QED BY <1>1, <1>2, <2>1
<1>3. CASE m.originalLine # Null
  <2>1. Sift(out, m) = Append(out, m)
    BY <1>3 DEF Sift
  <2>2. m \in Located
    BY <1>3 DEF Entries, Bare
  <2>3. Range(Append(out, m)) = Range(out) \cup {m}
    BY <2>2, RangeOfAppend
  <2>4. Append(out, m) \in Seq(Located) /\ Len(Append(out, m)) = Len(out) + 1
    BY <2>2
  <2>. QED BY <1>1, <1>3, <2>1, <2>3, <2>4
<1>. QED BY <1>2, <1>3

\* It makes a list of located mappings of one.
LEMMA SiftSteps == IsStep(SiftStep, Seq(Located), Entries)
<1>1. ASSUME NEW out \in Seq(Located), NEW m \in Entries
      PROVE  SiftStep[<<out, m>>] = Sift(out, m) /\ SiftStep[<<out, m>>] \in Seq(Located)
  BY SiftIs DEF SiftStep
<1>. QED BY <1>1 DEF IsStep, SiftStep

\* What is kept apart are the mappings with an original place.
LEMMA OriginalsAre ==
  ASSUME NEW mappings \in Seq(Entries)
  PROVE  /\ Originals(mappings) \in Seq(Located) /\ Len(Originals(mappings)) <= Len(mappings)
         /\ Range(Originals(mappings)) = {m \in Range(mappings) : m.originalLine # Null}
<1>. DEFINE Is(h) == h = [s \in SUBSET DOMAIN mappings |->
                       IF s = {} THEN <<>> ELSE Sift(h[s \ {Greatest(s)}], mappings[Greatest(s)])]
            iter == CHOOSE h : Is(h)
<1>0. PICK S, T, base : /\ S = Entries /\ T = Seq(Located) /\ base = <<>> /\ base \in T
                        /\ IsStep(SiftStep, T, S) /\ mappings \in Seq(S)
  <2>1. <<>> \in Seq(Located)
    OBVIOUS
  <2>. QED BY <2>1, SiftSteps, Zenon
<1>11. base \in T /\ IsStep(SiftStep, T, S) /\ mappings \in Seq(S)
  BY <1>0, Zenon
<1>1. Originals(mappings) = iter[DOMAIN mappings]
  BY DEF Originals, FoldLeft, MapThenFoldSet, Max, Greatest, Sift
<1>2. PICK f : GoesThrough(f, T, S, SiftStep, base, mappings)
  BY <1>0, FoldGoes
<1>3. Is(f)
  <2>1. \A s \in SUBSET DOMAIN mappings : s # {} =>
          SiftStep[<<f[s \ {Greatest(s)}], mappings[Greatest(s)]>>]
            = Sift(f[s \ {Greatest(s)}], mappings[Greatest(s)])
    BY <1>0, <1>2 DEF SiftStep, GoesThrough
  <2>. QED BY <1>0, <1>2, <2>1, Zenon DEF GoesThrough
<1>4. Is(iter)
  BY <1>3
<1>. HIDE DEF iter
<1>5. TriesToGo(iter, T, S, SiftStep, base, mappings)
  BY <1>0, <1>4 DEF SiftStep, TriesToGo
<1>6. Originals(mappings) = Folded(SiftStep, base, mappings)
  <2>1. iter[DOMAIN mappings] = Folded(SiftStep, base, mappings)
    BY <1>5, <1>11, FoldEnds
  <2>. QED BY <1>1, <2>1, Zenon
<1>. DEFINE Sifted(t) == Folded(SiftStep, base, t)
            P == {t \in Seq(S) : /\ Len(Sifted(t)) <= Len(t)
                                       /\ Range(Sifted(t)) = {m \in Range(t) : m.originalLine # Null}}
<1>7. << >> \in P
  <2>1. Sifted(<< >>) = base
    BY <1>0, FoldedNone
  <2>. QED BY <1>0, <2>1 DEF Range
<1>8. ASSUME NEW t \in Seq(S), NEW m \in S, t \in P PROVE Append(t, m) \in P
  <2>1. PICK out \in Seq(Located) : out = Sifted(t)
    BY <1>0, FoldedType
  <2>2. Sifted(Append(t, m)) = Sift(out, m)
    <3>1. Sifted(Append(t, m)) = SiftStep[<<out, m>>]
      <4>1. t \in Seq(S) /\ m \in S
        BY <1>8
      <4>. QED BY <1>11, <2>1, <4>1, FoldedNext
    <3>. QED BY <1>0, <3>1 DEF SiftStep
  <2>3. Range(Append(t, m)) = Range(t) \cup {m} /\ Append(t, m) \in Seq(S) /\ Len(Append(t, m)) = Len(t) + 1
    BY RangeOfAppend
  <2>4. Len(Sift(out, m)) <= Len(out) + 1 /\ Range(Sift(out, m)) = Range(out) \cup {k \in {m} : k.originalLine # Null}
        /\ Len(Sift(out, m)) \in Nat
    BY <1>0, SiftIs
  <2>5. Range(out) = {k \in Range(t) : k.originalLine # Null} /\ Len(out) <= Len(t) /\ Len(out) \in Nat /\ Len(t) \in Nat
    BY <1>8, <2>1
  <2>6. Range(Sift(out, m)) = {k \in Range(Append(t, m)) : k.originalLine # Null}
    BY <2>3, <2>4, <2>5
  <2>7. Len(Sift(out, m)) <= Len(Append(t, m))
    BY <2>3, <2>4, <2>5
  <2>. QED BY <2>2, <2>3, <2>6, <2>7
<1>. HIDE DEF P
<1>9. mappings \in P
  BY <1>0, <1>7, <1>8, SequenceInduction
<1>10. Folded(SiftStep, base, mappings) \in Seq(Located)
  BY <1>0, FoldedType
<1>. QED BY <1>6, <1>9, <1>10 DEF P

\* A mapping that fromSourceMap copies keeps its place.
LEMMA DeflateIs ==
  ASSUME NEW g, IsMade(g), NEW i \in DOMAIN g.array
  PROVE  LET m == g.array[i]
         IN  /\ Deflate(g, m) \in Entries
             /\ Deflate(g, m).generatedLine = m.generatedLine
             /\ Deflate(g, m).generatedColumn = m.generatedColumn
<1>1. PICK m \in Lines : m = g.array[i]
  BY LineType
<1>2. CASE m.source \in {Null, EmptyString}
  <2>1. Deflate(g, m) = Mapping(m.generatedLine, m.generatedColumn, Null, Null, Null, Null)
    BY <1>2 DEF Deflate
  <2>2. m.generatedLine \in Int /\ m.generatedColumn \in Int
    BY PlaceIs
  <2>. QED BY <1>1, <2>1, <2>2 DEF Mapping, Entries, Bare
<1>3. CASE m.source \notin {Null, EmptyString}
  <2>1. /\ m \in Sourced /\ IndexOf(g.sources, m.source) \in Int
        /\ m.name # Null => IndexOf(g.names, m.name) \in Int
    BY <1>1, <1>3, LineType DEF Lines, Unplaced
  <2>2. PICK s \in Int : s = IndexOf(g.sources, m.source)
    BY <2>1
  <2>3. PICK n \in Int \cup {Null} : n = IF m.name \in {Null, EmptyString} THEN Null ELSE IndexOf(g.names, m.name)
    BY <2>1, Zenon
  <2>4. Deflate(g, m) = [m EXCEPT !.source = s, !.name = n]
    BY <1>3, <2>2, <2>3 DEF Deflate, Sourced
  <2>5. PICK k : k = [m EXCEPT !.source = s, !.name = n]
    BY Zenon
  <2>6. k \in Located /\ k.generatedLine = m.generatedLine /\ k.generatedColumn = m.generatedColumn
    BY <2>1, <2>5 DEF Sourced, Located
  <2>. QED BY <1>1, <2>4, <2>5, <2>6, Zenon DEF Entries
<1>. QED BY <1>2, <1>3

\* The copies of mappings in order are in order.
LEMMA CopiesAre ==
  ASSUME NEW g, IsGenerator(g), IsWritable(g), g.sorted
  PROVE  LET copies == [i \in DOMAIN g.array |-> Deflate(g, g.array[i])]
         IN  /\ copies \in Seq(Entries) /\ Range(copies) = {Deflate(g, m) : m \in Range(g.array)}
             /\ IsAscending([i \in DOMAIN copies |-> <<0, copies[i].generatedLine, copies[i].generatedColumn>>])
<1>1. g.array \in Seq(Lines) /\ IsMade(g)
  BY GeneratorIsMade DEF IsMade
<1>2. PICK copies : copies = [i \in DOMAIN g.array |-> Deflate(g, g.array[i])]
  BY Zenon
<1>3. DOMAIN g.array = 1..Len(g.array) /\ Len(g.array) \in Nat
  BY <1>1
<1>4. \A i \in 1..Len(g.array) : /\ copies[i] \in Entries
                                 /\ copies[i].generatedLine = g.array[i].generatedLine
                                 /\ copies[i].generatedColumn = g.array[i].generatedColumn
                                 /\ g.array[i].generatedLine \in Int /\ g.array[i].generatedColumn \in Int
  BY <1>1, <1>2, <1>3, DeflateIs, LineType
<1>5. copies \in Seq(Entries) /\ DOMAIN copies = 1..Len(g.array) /\ Len(copies) = Len(g.array)
  <2>1. copies = [i \in 1..Len(g.array) |-> copies[i]]
    BY <1>2, <1>3
  <2>. QED BY <1>3, <1>4, <2>1
<1>6. Range(copies) = {Deflate(g, m) : m \in Range(g.array)}
  BY <1>2, <1>3 DEF Range
<1>7. \A i, j \in 1..Len(g.array) : i < j => NotAfter(g.array[i], g.array[j])
  BY <1>3 DEF IsGenerator, IsInPlace
<1>8. PICK ps : ps = [i \in DOMAIN copies |-> <<0, copies[i].generatedLine, copies[i].generatedColumn>>]
  BY Zenon
<1>9. Len(ps) = Len(g.array)
  BY <1>3, <1>5, <1>8
<1>10. ASSUME NEW i \in 1..Len(ps), NEW j \in 1..Len(ps), i < j PROVE ComparePositions(ps[i], ps[j]) <= 0
  <2>1. i \in 1..Len(g.array) /\ j \in 1..Len(g.array)
    BY <1>9
  <2>2. NotAfter(g.array[i], g.array[j])
    BY <1>7, <1>10, <2>1
  <2>3. PICK a \in Int, b \in Int, c \in Int, d \in Int :
          /\ a = g.array[i].generatedLine /\ b = g.array[i].generatedColumn
          /\ c = g.array[j].generatedLine /\ d = g.array[j].generatedColumn
    BY <1>4, <2>1
  <2>4. ps[i] = <<0, a, b>> /\ ps[j] = <<0, c, d>>
    BY <1>4, <1>5, <1>8, <2>1, <2>3
  <2>5. a < c \/ (a = c /\ b <= d)
    BY <2>2, <2>3 DEF NotAfter
  <2>. QED BY <2>4, <2>5 DEF ComparePositions
<1>11. IsAscending(ps)
  BY <1>10 DEF IsAscending
<1>. QED BY <1>2, <1>5, <1>6, <1>8, <1>11, Zenon

(***************************************************************************)
(* The inductive invariant of the consumer program.                        *)
(***************************************************************************)
\* The stage that the program is in, or goes on in.
Where == IF stage = "answered" THEN back ELSE stage

\* What a constructor stores.
Consumers ==
  [text : Seq(Int), sources : Seq(Strings), names : Seq(Strings), root : Strings \cup {Null},
   contents : ContentLists, sections : {<<>>}, made : Generators]

\* A consumer is made from a generator: directly, or over its text.
IsMadeFrom(map, g) ==
  /\ IsGenerator(g) /\ g.sorted /\ IsWritable(g)
  /\ map.names = g.names /\ map.root = g.root
  /\ IF map.text = <<>> THEN map.sources = g.sources /\ map.contents = GenerateSourcesContent(g)
     ELSE /\ map.text = SerializeMappings(g)
          /\ map.sources = [i \in DOMAIN g.sources |-> Store(g.root, g.sources[i])]
          /\ map.contents = IF DOMAIN g.contents = {} THEN Null ELSE GenerateSourcesContent(g)

\* The consumer is one of those, and what it was made from is a generator's.
MadeInv ==
  consumer \in Consumers /\ (consumer.made.array # <<>> => IsMadeFrom(consumer, consumer.made))

\* The mappings that a consumer has got from its generator.
MappingsOf(map) ==
  IF map.text = <<>> THEN {Deflate(map.made, m) : m \in Range(map.made.array)}
  ELSE Range(Parse(map.text).mappings)

\* The lists hold the mappings that were read, and those with an original place.
ListsInv ==
  /\ Range(original) = {m \in Range(generated) : m.originalLine # Null}
  /\ Len(original) <= Len(generated)
  /\ consumer.made.array # <<>> => Range(generated) = MappingsOf(consumer)
  /\ spanned => IsInjective(generated)
  /\ IF stage \in {"sort generated", "sort original"} THEN ~spanned ELSE ranges = <<>>

\* Nothing has been read yet.
UnreadInv ==
  /\ SearchInv /\ turn = "idle" /\ generated = <<>> /\ original = <<>> /\ ranges = <<>> /\ spanned = FALSE
  /\ IF stage = "answered" THEN answer = Threw ELSE answer = NoAnswer

\* The types of what the program is doing.
TalkInv ==
  /\ stage \in {"none", "text", "sort generated", "sort original", "ready", "searching", "answered"}
  /\ back \in {"none", "text", "ready"} /\ spanned \in BOOLEAN /\ answer.threw \in BOOLEAN

\* The inductive invariant: the generator is one that its methods keep; from the
\* constructor on the consumer is made from it; and once the mappings are read,
\* the lists hold them, apart or together, sorted as far as the stages say.
ConsumerInv ==
  /\ program \in Programs /\ IsGenerator(generator) /\ TalkInv
  /\ Where # "none" => MadeInv
  /\ Where = "text" /\ consumer.made.array # <<>> => consumer.text # <<>>
  /\ IF Where \in {"none", "text"} THEN UnreadInv ELSE ReadInv /\ ListsInv

\* What makes no difference, or throws, before anything is read.
LEMMA UnreadStays ==
  ASSUME ConsumerInv, stage \in {"none", "text"}, program' = program, IsGenerator(generator'),
         UNCHANGED <<searchVars, consumerVars>>,
         NEW kind, UNCHANGED talkVars \/ Tell(kind, Threw, stage)
  PROVE  ConsumerInv'
<1>1. Where = stage /\ UnreadInv /\ (stage # "none" => MadeInv) /\ TalkInv /\ program \in Programs
  BY DEF ConsumerInv, Where
<1>2. UNCHANGED <<consumer, generated, original, spanned, ranges, turn>>
  BY DEF consumerVars, listVars, searchVars
<1>3. Threw.threw = TRUE /\ NoAnswer.threw = FALSE
  BY DEF Threw, NoAnswer, Answer
<1>4. \/ stage' = stage /\ answer' = answer /\ back' = back
      \/ stage' = "answered" /\ answer' = Threw /\ back' = stage
  BY DEF talkVars, Tell
<1>5. Where' = stage
  BY <1>4 DEF Where
<1>6. TalkInv'
  BY <1>1, <1>2, <1>3, <1>4 DEF TalkInv
<1>7. /\ MadeInv' <=> MadeInv
      /\ stage = "text" /\ consumer'.made.array # <<>> => consumer'.text # <<>>
  BY <1>1, <1>2 DEF MadeInv, ConsumerInv
<1>8. SearchInv'
  BY <1>1, SearchStays DEF UnreadInv
<1>9. UnreadInv'
  BY <1>1, <1>2, <1>4, <1>8 DEF UnreadInv
<1>. QED BY <1>1, <1>5, <1>6, <1>7, <1>9 DEF ConsumerInv

\* The program begins with nothing read.
LEMMA InitIsUnread == Init => ConsumerInv
<1>. SUFFICES ASSUME Init PROVE ConsumerInv
  OBVIOUS
<1>1. program \in Programs /\ program.root \in Strings \cup {Null}
  BY ProgramsAssumption DEF Init
<1>2. IsGenerator(generator)
  BY <1>1, NewGeneratorIs DEF Init
<1>3. SearchInv /\ turn = "idle"
  BY SearchBegins DEF Init, SearchInit
<1>4. UnreadInv
  BY <1>3 DEF Init, UnreadInv
<1>5. TalkInv
  BY DEF Init, TalkInv, NoAnswer, Answer
<1>6. Where = "none"
  BY DEF Init, Where
<1>. QED BY <1>1, <1>2, <1>4, <1>5, <1>6 DEF ConsumerInv

\* The generator's methods.
LEMMA GeneratorKeeps ==
  ASSUME ConsumerInv,
         \/ \E m \in program.mappings : Generate(m)
         \/ \E source \in program.files, content \in program.contents : SetContent(source, content)
         \/ \E a \in program.applied : Apply(a.map, a.file, a.path)
         \/ Stringify
  PROVE  ConsumerInv'
<1>1. program \in Programs /\ IsGenerator(generator)
  BY DEF ConsumerInv
<1>2. /\ program.mappings \subseteq Wanted /\ program.files \subseteq Strings
      /\ program.contents \subseteq Strings \cup {Null}
      /\ \A a \in program.applied : a.map \in Maps /\ a.file \in Strings /\ a.path \in Strings \cup {Null}
  BY <1>1, ProgramsAssumption
<1>3. ASSUME NEW m \in program.mappings, Generate(m) PROVE ConsumerInv'
  <2>1. stage = "none" /\ program' = program /\ UNCHANGED <<searchVars, consumerVars>>
    BY <1>3 DEF Generate
  <2>2. CASE IsValid(m)
    <3>1. generator' = AddMapping(generator, m) /\ UNCHANGED talkVars
      BY <1>3, <2>2 DEF Generate, Quiet
    <3>2. IsGenerator(generator')
      BY <1>1, <1>2, <2>2, <3>1, WantedIs, AddMappingKeeps
    <3>. QED BY <2>1, <3>1, <3>2, UnreadStays
  <2>3. CASE ~IsValid(m)
    BY <1>1, <1>3, <2>1, <2>3, UnreadStays DEF Generate
  <2>. QED BY <2>2, <2>3
<1>4. ASSUME NEW source \in program.files, NEW content \in program.contents, SetContent(source, content)
      PROVE  ConsumerInv'
  <2>1. /\ stage = "none" /\ program' = program /\ UNCHANGED <<searchVars, consumerVars>> /\ UNCHANGED talkVars
        /\ generator' = SetSourceContent(generator, source, content)
    BY <1>4 DEF SetContent
  <2>2. source \in Strings /\ content \in Strings \cup {Null}
    BY <1>2
  <2>3. IsGenerator(generator')
    BY <1>1, <2>1, <2>2, SetSourceContentKeeps
  <2>. QED BY <2>1, <2>3, UnreadStays
<1>5. ASSUME NEW a \in program.applied, Apply(a.map, a.file, a.path)
      PROVE  ConsumerInv'
  <2>1. PICK out : /\ out = ApplySourceMap(generator, a.map, a.file, a.path) /\ generator' = out.generator
                   /\ IF out.threw THEN Tell("apply", Threw, stage) ELSE Quiet
    BY <1>5 DEF Apply
  <2>2. stage = "none" /\ program' = program /\ UNCHANGED <<searchVars, consumerVars>>
    BY <1>5 DEF Apply
  <2>3. a.map \in Maps /\ a.file \in Strings /\ a.path \in Strings \cup {Null}
    BY <1>2
  <2>4. IsGenerator(generator')
    BY <1>1, <2>1, <2>3, ApplyKeeps
  <2>5. UNCHANGED talkVars \/ Tell("apply", Threw, stage)
    BY <2>1 DEF Quiet
  <2>. QED BY <2>2, <2>4, <2>5, UnreadStays
<1>6. ASSUME Stringify PROVE ConsumerInv'
  <2>1. /\ stage = "none" /\ program' = program /\ UNCHANGED <<searchVars, consumerVars>> /\ UNCHANGED talkVars
        /\ generator' \in ToArray(generator)
    BY <1>6 DEF Stringify
  <2>2. IsGenerator(generator')
    BY <1>1, <2>1, ToArrayKeeps
  <2>. QED BY <2>1, <2>2, UnreadStays
<1>. QED BY <1>3, <1>4, <1>5, <1>6

(***************************************************************************)
(* The constructors, and the reading of the text.                          *)
(***************************************************************************)
\* A consumer is made, whose text is not read yet.
LEMMA TextIsKept ==
  ASSUME ConsumerInv, stage = "none", stage' = "text", program' = program, IsGenerator(generator'),
         UNCHANGED <<searchVars, listVars, back, question, answer>>, MadeInv',
         consumer'.made.array # <<>> => consumer'.text # <<>>
  PROVE  ConsumerInv'
<1>1. UnreadInv /\ TalkInv /\ program \in Programs
  BY DEF ConsumerInv, Where
<1>2. UNCHANGED <<generated, original, spanned, ranges, turn>>
  BY DEF listVars, searchVars
<1>3. SearchInv'
  BY <1>1, SearchStays DEF UnreadInv
<1>4. UnreadInv'
  BY <1>1, <1>2, <1>3 DEF UnreadInv
<1>5. TalkInv' /\ Where' = "text"
  BY <1>1, <1>2 DEF TalkInv, Where
<1>. QED BY <1>1, <1>4, <1>5 DEF ConsumerInv

\* The constructor, for what another tool has written.
LEMMA ConstructKeeps ==
  ASSUME ConsumerInv, NEW map \in program.texts, Construct(map)
  PROVE  ConsumerInv'
<1>1. program \in Programs /\ IsGenerator(generator)
  BY DEF ConsumerInv
<1>2. map \in Texts
  BY <1>1, ProgramsAssumption
<1>3. PICK text \in Seq(Int), sources \in Seq(Strings), names \in Seq(Strings), root \in Strings \cup {Null},
           contents \in ContentLists :
        map = SourceMap(text, sources, names, root, contents, <<>>, NewGenerator(Null))
  BY <1>2 DEF Texts, SourceMap
<1>4. PICK stored \in Seq(Strings) :
        Stored(map) = SourceMap(text, stored, names, root, contents, <<>>, NewGenerator(Null))
  <2>1. PICK stored : stored = [i \in DOMAIN sources |-> Store(root, sources[i])]
    BY Zenon
  <2>2. stored \in Seq(Strings) /\ Stored(SourceMap(text, sources, names, root, contents, <<>>, NewGenerator(Null)))
                                     = SourceMap(text, stored, names, root, contents, <<>>, NewGenerator(Null))
    BY <2>1, StoredIs
  <2>. QED BY <1>3, <2>2, Zenon
<1>5. consumer' = Stored(map) /\ generator' = generator
  BY DEF Construct
<1>6. NewGenerator(Null) \in Generators /\ NewGenerator(Null).array = <<>>
  BY NewGeneratorIs DEF IsGenerator, NewGenerator
<1>7. MadeInv' /\ consumer'.made.array = <<>>
  BY <1>4, <1>5, <1>6 DEF MadeInv, Consumers, SourceMap
<1>. QED BY <1>1, <1>5, <1>7, TextIsKept DEF Construct

\* The constructor, for the text of the generator.
LEMMA ConstructFromGeneratorKeeps ==
  ASSUME ConsumerInv, ConstructFromGenerator
  PROVE  ConsumerInv'
<1>1. program \in Programs /\ IsGenerator(generator)
  BY DEF ConsumerInv
<1>2. /\ stage = "none" /\ generator.array # <<>> /\ generator' \in ToArray(generator) /\ program' = program
      /\ UNCHANGED <<searchVars, listVars>>
  BY DEF ConstructFromGenerator
<1>3. PICK g : g = generator'
  BY Zenon
<1>4. /\ IsGenerator(g) /\ g.sorted /\ Len(g.array) = Len(generator.array) /\ g.sources = generator.sources
      /\ g.names = generator.names /\ g.root = generator.root /\ g.contents = generator.contents
  BY <1>1, <1>2, <1>3, ToArrayKeeps
<1>5. CASE ~IsWritable(g)
  <2>1. Tell("write", Threw, stage) /\ UNCHANGED consumer
    BY <1>3, <1>5 DEF ConstructFromGenerator
  <2>2. UNCHANGED <<searchVars, consumerVars>>
    BY <1>2, <2>1 DEF consumerVars
  <2>. QED BY <1>2, <1>3, <1>4, <2>1, <2>2, UnreadStays
<1>6. CASE IsWritable(g)
  <2>. DEFINE contents == IF DOMAIN g.contents = {} THEN Null ELSE GenerateSourcesContent(g)
  <2>1. /\ consumer' = Stored(SourceMap(SerializeMappings(g), g.sources, g.names, g.root,
                                IF DOMAIN g.contents = {} THEN Null ELSE GenerateSourcesContent(generator), <<>>, g))
        /\ stage' = "text" /\ UNCHANGED <<back, question, answer>>
    BY <1>3, <1>4, <1>6 DEF ConstructFromGenerator
  <2>2. GenerateSourcesContent(generator) = GenerateSourcesContent(g)
    BY <1>4 DEF GenerateSourcesContent
  <2>3. PICK text, c : text = SerializeMappings(g) /\ c = contents
    BY Zenon
  <2>4. IsMade(g)
    BY <1>4, <1>6, GeneratorIsMade
  <2>5. g.array # <<>> /\ g \in Generators
    <3>1. g.array \in Seq(Lines) /\ generator.array \in Seq(Lines) /\ g \in Generators
      BY <1>1, <1>4 DEF IsGenerator, Generators
    <3>2. Len(generator.array) # 0
      BY <1>2, <3>1
    <3>. QED BY <1>4, <3>1, <3>2
  <2>6. text \in Seq(Int) /\ text # <<>>
    BY <2>3, <2>4, <2>5, TextIsThere
  <2>7. c \in ContentLists
    BY <1>4, <2>3, WrittenContentsAre DEF ContentLists
  <2>8. g.sources \in Seq(Strings) /\ g.names \in Seq(Strings) /\ g.root \in Strings \cup {Null}
    BY <2>4, <2>5 DEF IsMade, Generators
  <2>9. PICK stored : stored = [i \in DOMAIN g.sources |-> Store(g.root, g.sources[i])]
    BY Zenon
  <2>10. stored \in Seq(Strings) /\ Stored(SourceMap(text, g.sources, g.names, g.root, c, <<>>, g))
                                      = SourceMap(text, stored, g.names, g.root, c, <<>>, g)
    BY <2>8, <2>9, StoredIs
  <2>11. consumer' = SourceMap(text, stored, g.names, g.root, c, <<>>, g)
    <3>1. consumer' = Stored(SourceMap(text, g.sources, g.names, g.root, c, <<>>, g))
      BY <2>1, <2>2, <2>3
    <3>. QED BY <2>10, <3>1, Zenon
  <2>12. PICK map : map = SourceMap(text, stored, g.names, g.root, c, <<>>, g)
    BY Zenon
  <2>13. /\ map.text = text /\ map.sources = stored /\ map.names = g.names /\ map.root = g.root
         /\ map.contents = c /\ map.made = g
    BY <2>12 DEF SourceMap
  <2>14. map \in Consumers
    BY <2>5, <2>6, <2>7, <2>8, <2>10, <2>12 DEF Consumers, SourceMap
  <2>15. IsMadeFrom(map, g)
    BY <1>4, <1>6, <2>3, <2>6, <2>9, <2>13 DEF IsMadeFrom
  <2>16. MadeInv' /\ consumer'.text # <<>>
    <3>1. consumer' = map
      BY <2>11, <2>12, Zenon
    <3>. QED BY <2>6, <2>13, <2>14, <2>15, <3>1 DEF MadeInv
  <2>. QED BY <1>2, <1>3, <1>4, <2>1, <2>16, TextIsKept
<1>. QED BY <1>5, <1>6

\* The lists have just been filled, and are in order where they have to be.
Fresh ==
  /\ ReadTypes /\ SearchInv /\ turn = "idle" /\ answer = NoAnswer
  /\ \/ stage = "sort generated" /\ ranges = Call(1, Len(generated))
     \/ /\ stage = "sort original" /\ ranges = Call(1, Len(original))
        /\ IsAscending(GeneratedPositions(Self))

\* All of the sorting is left.
LEMMA FreshReads == Fresh => ReadInv
<1>. SUFFICES ASSUME Fresh PROVE ReadInv
  OBVIOUS
<1>1. ReadTypes /\ SearchInv
  BY DEF Fresh
<1>2. SortsInTurn
  <2>1. generated \in Seq(Entries) /\ original \in Seq(Entries)
    BY <1>1 DEF ReadTypes, Entries
  <2>2. CASE stage = "sort generated"
    BY <2>1, <2>2, PendingAtFirst DEF Fresh, SortsInTurn
  <2>3. CASE stage = "sort original"
    BY <2>1, <2>3, PendingAtFirst DEF Fresh, SortsInTurn
  <2>. QED BY <2>2, <2>3 DEF Fresh
<1>3. AsksAndAnswers
  BY DEF Fresh, AsksAndAnswers
<1>4. AnswersAreNearest
  BY DEF Fresh, AnswersAreNearest, OriginalIsNearest, GeneratedIsNearest, AllPositionsAreFound, Answered
<1>. QED BY <1>1, <1>2, <1>3, <1>4 DEF ReadInv

\* The same of the next state.
LEMMA FreshReadsNext == Fresh' => ReadInv'
BY FreshReads, PTL

\* The lists are filled.
LEMMA ReadingBegins ==
  ASSUME ConsumerInv, stage \in {"none", "text"}, program' = program, IsGenerator(generator'),
         UNCHANGED <<searchVars, spanned, back, question, answer>>, MadeInv',
         generated' \in Seq(Entries), original' = Originals(generated'),
         consumer'.made.array # <<>> => Range(generated') = MappingsOf(consumer'),
         \/ stage' = "sort generated" /\ ranges' = Call(1, Len(generated'))
         \/ /\ stage' = "sort original" /\ ranges' = Call(1, Len(original'))
            /\ IsAscending(GeneratedPositions(Self)')
  PROVE  ConsumerInv'
<1>1. UnreadInv /\ TalkInv /\ program \in Programs
  BY DEF ConsumerInv, Where
<1>2. SearchInv' /\ turn' = "idle" /\ answer' = NoAnswer /\ spanned' = FALSE /\ answer.threw = NoAnswer.threw
  BY <1>1, SearchStays DEF UnreadInv, searchVars
<1>3. /\ original' \in Seq(Located) /\ Len(original') <= Len(generated')
      /\ Range(original') = {m \in Range(generated') : m.originalLine # Null}
  BY OriginalsAre
<1>4. ReadTypes'
  BY <1>3 DEF ReadTypes, MadeInv, Consumers
<1>5. Fresh'
  BY <1>2, <1>4 DEF Fresh
<1>6. ReadInv'
  BY <1>5, FreshReadsNext
<1>7. ListsInv'
  BY <1>2, <1>3 DEF ListsInv
<1>8. TalkInv'
  BY <1>1, <1>2 DEF TalkInv, NoAnswer, Answer
<1>9. Where' \in {"sort generated", "sort original"}
  BY DEF Where
<1>. QED BY <1>1, <1>6, <1>7, <1>8, <1>9 DEF ConsumerInv

\* fromSourceMap of a consumer.
LEMMA FromSourceMapKeeps ==
  ASSUME ConsumerInv, FromSourceMap
  PROVE  ConsumerInv'
<1>1. program \in Programs /\ IsGenerator(generator)
  BY DEF ConsumerInv
<1>2. /\ stage = "none" /\ generator.array # <<>> /\ generator' \in ToArray(generator) /\ program' = program
      /\ UNCHANGED <<searchVars, spanned>>
  BY DEF FromSourceMap
<1>3. PICK g : g = generator'
  BY Zenon
<1>4. /\ IsGenerator(g) /\ g.sorted /\ Len(g.array) = Len(generator.array) /\ g.sources = generator.sources
      /\ g.names = generator.names /\ g.root = generator.root /\ g.contents = generator.contents
  BY <1>1, <1>2, <1>3, ToArrayKeeps
<1>5. CASE ~IsWritable(g)
  <2>1. Tell("copy", Threw, stage) /\ UNCHANGED <<consumer, generated, original, ranges>>
    BY <1>3, <1>5 DEF FromSourceMap
  <2>2. UNCHANGED <<searchVars, consumerVars>>
    BY <1>2, <2>1 DEF consumerVars, listVars
  <2>. QED BY <1>2, <1>3, <1>4, <2>1, <2>2, UnreadStays
<1>6. CASE IsWritable(g)
  <2>1. /\ consumer' = SourceMap(<<>>, g.sources, g.names, g.root, GenerateSourcesContent(generator), <<>>, g)
        /\ generated' = [i \in DOMAIN generator.array |-> Deflate(g, g.array[i])]
        /\ original' = Originals(generated') /\ ranges' = Call(1, Len(original')) /\ stage' = "sort original"
        /\ UNCHANGED <<back, question, answer>>
    BY <1>3, <1>4, <1>6 DEF FromSourceMap
  <2>2. g.array \in Seq(Lines) /\ generator.array \in Seq(Lines) /\ g \in Generators
    BY <1>1, <1>4 DEF IsGenerator, Generators
  <2>3. DOMAIN generator.array = DOMAIN g.array /\ g.array # <<>>
    BY <1>2, <1>4, <2>2
  <2>4. PICK copies : copies = [i \in DOMAIN g.array |-> Deflate(g, g.array[i])]
    BY Zenon
  <2>5. /\ copies \in Seq(Entries) /\ Range(copies) = {Deflate(g, m) : m \in Range(g.array)}
        /\ IsAscending([i \in DOMAIN copies |-> <<0, copies[i].generatedLine, copies[i].generatedColumn>>])
    BY <1>4, <1>6, <2>4, CopiesAre
  <2>6. generated' = copies
    BY <2>1, <2>3, <2>4
  <2>7. GenerateSourcesContent(generator) = GenerateSourcesContent(g)
    BY <1>4 DEF GenerateSourcesContent
  <2>8. PICK c \in Seq(Strings \cup {Null}) : c = GenerateSourcesContent(g)
    BY <1>4, WrittenContentsAre
  <2>9. PICK map : map = SourceMap(<<>>, g.sources, g.names, g.root, c, <<>>, g)
    BY Zenon
  <2>10. /\ map.text = <<>> /\ map.sources = g.sources /\ map.names = g.names /\ map.root = g.root
         /\ map.contents = c /\ map.made = g
    BY <2>9 DEF SourceMap
  <2>11. consumer' = map
    BY <2>1, <2>7, <2>8, <2>9, Zenon
  <2>12. map \in Consumers
    <3>1. IsMade(g) /\ g.root \in Strings \cup {Null}
      BY <1>4, <1>6, <2>2, GeneratorIsMade DEF Generators
    <3>2. <<>> \in Seq(Int) /\ c \in ContentLists /\ g.sources \in Seq(Strings) /\ g.names \in Seq(Strings)
      BY <3>1 DEF IsMade, ContentLists
    <3>. QED BY <2>2, <2>9, <3>1, <3>2 DEF Consumers, SourceMap
  <2>13. IsMadeFrom(map, g)
    BY <1>4, <1>6, <2>8, <2>10 DEF IsMadeFrom
  <2>14. MadeInv'
    BY <2>10, <2>11, <2>12, <2>13 DEF MadeInv
  <2>15. Range(generated') = MappingsOf(consumer')
    BY <2>5, <2>6, <2>10, <2>11 DEF MappingsOf
  <2>16. IsAscending(GeneratedPositions(Self)')
    BY <2>5, <2>6 DEF GeneratedPositions, Self
  <2>17. generated' \in Seq(Entries) /\ IsGenerator(generator')
    BY <1>3, <1>4, <2>5, <2>6
  <2>. QED BY <1>2, <2>1, <2>14, <2>15, <2>16, <2>17, ReadingBegins
<1>. QED BY <1>5, <1>6

\* The first question has the text parsed.
LEMMA ParseMappingsKeeps ==
  ASSUME ConsumerInv, ParseMappings
  PROVE  ConsumerInv'
<1>1. program \in Programs /\ IsGenerator(generator)
  BY DEF ConsumerInv
<1>2. /\ stage = "text" /\ UNCHANGED <<program, generator, searchVars, consumer, spanned>>
  BY DEF ParseMappings
<1>3. MadeInv
  BY <1>2 DEF ConsumerInv, Where
<1>4. PICK out : out = Parse(consumer.text)
  BY Zenon
<1>5. CASE out.failed
  <2>1. Tell("parse", Threw, stage) /\ UNCHANGED <<generated, original, ranges>>
    BY <1>4, <1>5 DEF ParseMappings
  <2>2. UNCHANGED <<searchVars, consumerVars>>
    BY <1>2, <2>1 DEF consumerVars, listVars
  <2>3. IsGenerator(generator')
    BY <1>1, <1>2
  <2>. QED BY <1>2, <2>1, <2>2, <2>3, UnreadStays
<1>6. CASE ~out.failed
  <2>1. /\ generated' = out.mappings /\ original' = Originals(generated')
        /\ ranges' = Call(1, Len(generated')) /\ stage' = "sort generated" /\ UNCHANGED <<back, question, answer>>
    BY <1>4, <1>6 DEF ParseMappings
  <2>2. consumer.text \in Seq(Int)
    BY <1>3 DEF MadeInv, Consumers
  <2>3. out.mappings \in Seq(Entries)
    BY <1>4, <2>2, ParseType DEF ParseStates
  <2>4. MadeInv'
    BY <1>2, <1>3 DEF MadeInv
  <2>5. consumer.made.array # <<>> => consumer.text # <<>>
    BY <1>2 DEF ConsumerInv, Where
  <2>6. consumer'.made.array # <<>> => Range(generated') = MappingsOf(consumer')
    BY <1>2, <1>4, <2>1, <2>5 DEF MappingsOf
  <2>7. IsGenerator(generator')
    BY <1>1, <1>2
  <2>. QED BY <1>2, <2>1, <2>3, <2>4, <2>6, <2>7, ReadingBegins
<1>. QED BY <1>5, <1>6

(***************************************************************************)
(* The sorting, the questions and the answers.                             *)
(***************************************************************************)
\* The lists stay as they are.
LEMMA ListsStay ==
  ASSUME ListsInv, UNCHANGED <<consumer, generated, original, ranges>>,
         spanned' = spanned \/ (spanned' = TRUE /\ IsInjective(generated)),
         stage \notin {"sort generated", "sort original"}, stage' \notin {"sort generated", "sort original"}
  PROVE  ListsInv'
<1>1. /\ Range(original) = {m \in Range(generated) : m.originalLine # Null}
      /\ Len(original) <= Len(generated) /\ ranges = <<>>
      /\ consumer.made.array # <<>> => Range(generated) = MappingsOf(consumer)
  BY DEF ListsInv
<1>2. spanned' => IsInjective(generated)
  BY DEF ListsInv
<1>. QED BY <1>1, <1>2 DEF ListsInv

\* The sorts rearrange them.
LEMMA SortingKeeps ==
  ASSUME ConsumerInv, SortGenerated \/ SortOriginal \/ SortEnds
  PROVE  ConsumerInv'
<1>1. /\ stage \in {"sort generated", "sort original"}
      /\ stage' \in {"sort generated", "sort original", "ready"}
      /\ UNCHANGED <<program, generator, searchVars, consumer, spanned, back, question, answer>>
  BY DEF SortGenerated, SortOriginal, SortEnds, talkVars
<1>2. Where = stage /\ Where' = stage'
  BY <1>1 DEF Where
<1>3. ReadInv /\ ListsInv /\ MadeInv /\ TalkInv /\ program \in Programs /\ IsGenerator(generator)
  BY <1>1, <1>2 DEF ConsumerInv
<1>4. ReadInv'
  BY <1>3, SortingReads, SortEndsReads
<1>5. TalkInv' /\ MadeInv'
  BY <1>1, <1>3 DEF TalkInv, MadeInv
<1>6. ListsInv'
  <2>1. CASE SortGenerated
    <3>1. /\ Pending(generated, ranges) /\ ranges # <<>> /\ DoQuickSort(generated, generated')
          /\ original' = original /\ stage' = stage
      BY <1>3, <2>1 DEF SortGenerated, ReadInv, SortsInTurn, talkVars
    <3>2. Rearranges(generated, generated', 1, Len(generated)) /\ generated \in Seq(Entries)
      BY <3>1, QuickSortKeeps DEF Pending
    <3>3. Range(generated') = Range(generated) /\ Len(generated') = Len(generated)
      BY <3>2, RearrangingKeeps DEF Rearranges
    <3>. QED BY <1>1, <1>3, <3>1, <3>3 DEF ListsInv
  <2>2. CASE SortOriginal
    <3>1. /\ Pending(original, ranges) /\ ranges # <<>> /\ DoQuickSort(original, original')
          /\ generated' = generated /\ stage' = stage
      BY <1>3, <2>2 DEF SortOriginal, ReadInv, SortsInTurn, talkVars
    <3>2. Rearranges(original, original', 1, Len(original)) /\ original \in Seq(Entries)
      BY <3>1, QuickSortKeeps DEF Pending
    <3>3. Range(original') = Range(original) /\ Len(original') = Len(original)
      BY <3>2, RearrangingKeeps DEF Rearranges
    <3>. QED BY <1>1, <1>3, <3>1, <3>3 DEF ListsInv
  <2>3. CASE SortEnds
    <3>1. UNCHANGED <<generated, original>> /\ ranges = <<>> /\ (stage' = "ready" => ranges' = ranges)
      BY <2>3 DEF SortEnds
    <3>. QED BY <1>1, <1>3, <3>1 DEF ListsInv
  <2>. QED BY <2>1, <2>2, <2>3
<1>. QED BY <1>1, <1>2, <1>3, <1>4, <1>5, <1>6 DEF ConsumerInv

\* The consumer stays as it is while it is asked.
LEMMA ReadStays ==
  ASSUME ConsumerInv, ReadInv', UNCHANGED <<program, generator, consumer, generated, original, ranges>>,
         spanned' = spanned \/ (spanned' = TRUE /\ IsInjective(generated)),
         Where \in {"ready", "searching"}, stage' \in {"ready", "searching", "answered"},
         back' \in {"none", "text", "ready"}, answer'.threw \in BOOLEAN
  PROVE  ConsumerInv'
<1>1. ListsInv /\ MadeInv /\ TalkInv /\ program \in Programs /\ IsGenerator(generator)
  BY DEF ConsumerInv
<1>2. stage \notin {"sort generated", "sort original"}
  BY DEF Where
<1>3. ListsInv'
  BY <1>1, <1>2, ListsStay
<1>4. MadeInv' /\ TalkInv'
  BY <1>1 DEF MadeInv, TalkInv
<1>5. Where' \in {"ready", "searching"}
  BY DEF Where, ReadInv, AsksAndAnswers
<1>. QED BY <1>1, <1>3, <1>4, <1>5 DEF ConsumerInv

\* An answer is one, or it threw.
LEMMA AnswersAreTyped ==
  /\ NoAnswer.threw \in BOOLEAN /\ Threw.threw \in BOOLEAN
  /\ \A map, i, line : OriginalPosition(map, i, line).threw \in BOOLEAN
  /\ \A map, i, source : GeneratedPosition(map, i, source).threw \in BOOLEAN
  /\ \A map, i, line, column : AllGeneratedPositions(map, i, line, column).threw \in BOOLEAN
<1>1. \A x : Answer(x).threw = FALSE
  BY DEF Answer
<1>2. NoAnswer.threw = FALSE /\ Threw.threw = TRUE
  BY DEF NoAnswer, Answer, Threw
<1>3. \A map, i, line : OriginalPosition(map, i, line).threw \in BOOLEAN
  <2>1. ASSUME NEW map, NEW i, NEW line PROVE OriginalPosition(map, i, line).threw \in BOOLEAN
    <3>1. \/ OriginalPosition(map, i, line) = NoAnswer \/ OriginalPosition(map, i, line) = Threw
          \/ OriginalPosition(map, i, line) = Answer(<<OriginalOf(Inflate(map, map.generated[i]))>>)
      BY Zenon DEF OriginalPosition
    <3>. QED BY <1>1, <1>2, <3>1
  <2>. QED BY <2>1
<1>4. \A map, i, source : GeneratedPosition(map, i, source).threw \in BOOLEAN
  BY <1>1, <1>2 DEF GeneratedPosition
<1>5. ASSUME NEW map, NEW i, NEW line, NEW column
      PROVE  AllGeneratedPositions(map, i, line, column).threw \in BOOLEAN
  <2>. DEFINE taken == {k \in i..Len(map.original) :
                       \A j \in i..k : GoesOn(map.original[j], map.original[i], line, column)}
              places == [k \in 1..Cardinality(taken) |-> Place(map, map.original[i + k - 1])]
  <2>1. AllGeneratedPositions(map, i, line, column) = NoAnswer
          \/ AllGeneratedPositions(map, i, line, column) = Answer(places)
    BY DEF AllGeneratedPositions
  <2>. HIDE DEF places
  <2>. QED BY <1>1, <1>2, <2>1
<1>. QED BY <1>2, <1>3, <1>4, <1>5

\* What the program asks are questions.
LEMMA QuestionsAre ==
  ASSUME program \in Programs, NEW q \in Questions
  PROVE  q \in AnyQuestions
<1>1. /\ program.lines \subseteq Int /\ program.columns \subseteq Int /\ program.asked \subseteq Strings
  BY ProgramsAssumption
<1>2. PICK lines, columns, asked : lines = program.lines /\ columns = program.columns /\ asked = program.asked
  BY Zenon
<1>3. lines \in SUBSET Int /\ columns \in SUBSET Int /\ asked \in SUBSET Strings
  BY <1>1, <1>2
<1>4. \/ q \in [kind : {"original"}, line : lines, column : columns, bias : Biases]
      \/ q \in [kind : {"generated"}, source : asked, line : lines, column : columns, bias : Biases]
      \/ q \in [kind : {"all"}, source : asked, line : lines, column : columns \cup {Null}]
  BY <1>2, Zenon DEF Questions
<1>5. CASE q \in [kind : {"original"}, line : lines, column : columns, bias : Biases]
  BY <1>3, <1>5 DEF AnyQuestions
<1>6. CASE q \in [kind : {"generated"}, source : asked, line : lines, column : columns, bias : Biases]
  BY <1>3, <1>6 DEF AnyQuestions
<1>7. CASE q \in [kind : {"all"}, source : asked, line : lines, column : columns \cup {Null}]
  BY <1>3, <1>7 DEF AnyQuestions
<1>. QED BY <1>4, <1>5, <1>6, <1>7

\* A question, and the search for its answer.
LEMMA AskingKeeps ==
  ASSUME ConsumerInv,
         (\E q \in Questions : Ask(q)) \/ SearchOn \/ Reply \/ ComputeColumnSpans
  PROVE  ConsumerInv'
<1>1. ASSUME Where \in {"ready", "searching"} PROVE ReadInv /\ ListsInv /\ TalkInv /\ program \in Programs
  BY <1>1 DEF ConsumerInv
<1>2. ASSUME NEW q \in Questions, Ask(q) PROVE ConsumerInv'
  <2>1. stage = "ready" /\ back' = "ready" /\ UNCHANGED <<program, generator, consumerVars>>
    BY <1>2 DEF Ask
  <2>2. Where = "ready"
    BY <2>1 DEF Where
  <2>3. q \in AnyQuestions
    BY <1>1, <2>2, QuestionsAre
  <2>4. ReadInv'
    BY <1>1, <1>2, <2>2, <2>3, AskReads
  <2>5. stage' \in {"searching", "answered"} /\ (answer' = Threw \/ answer' = answer)
    BY <1>2 DEF Ask, FindMapping, FindInSource
  <2>6. answer'.threw \in BOOLEAN
    BY <1>1, <2>2, <2>5, AnswersAreTyped DEF TalkInv
  <2>. QED BY <2>1, <2>2, <2>4, <2>5, <2>6, ReadStays DEF consumerVars, listVars
<1>3. ASSUME SearchOn PROVE ConsumerInv'
  <2>1. UNCHANGED <<program, generator, consumerVars, talkVars>>
    BY <1>3 DEF SearchOn
  <2>2. stage = "searching"
    <3>1. turn # "idle"
      BY <1>3 DEF SearchOn, SearchStep, RecursiveSearch, StepBack
    <3>2. CASE Where \in {"none", "text"}
      BY <3>1, <3>2 DEF ConsumerInv, UnreadInv
    <3>3. CASE Where \notin {"none", "text"}
      BY <3>1, <3>3 DEF ConsumerInv, ReadInv, AsksAndAnswers
    <3>. QED BY <3>2, <3>3
  <2>3. Where = "searching"
    BY <2>2 DEF Where
  <2>4. ReadInv'
    BY <1>1, <1>3, <2>3, SearchOnReads
  <2>. QED BY <1>1, <2>1, <2>2, <2>3, <2>4, ReadStays DEF consumerVars, listVars, talkVars, TalkInv
<1>4. ASSUME Reply PROVE ConsumerInv'
  <2>1. UNCHANGED <<program, generator, consumerVars, back>> /\ stage = "searching" /\ stage' = "answered"
    BY <1>4 DEF Reply
  <2>2. Where = "searching"
    BY <2>1 DEF Where
  <2>3. ReadInv'
    BY <1>1, <1>4, <2>2, ReplyReads
  <2>4. question.kind \in {"original", "generated", "all"}
    BY <1>1, <2>1, <2>2, QuestionIs DEF ReadInv, AsksAndAnswers
  <2>5. answer'.threw \in BOOLEAN
    <3>1. /\ question.kind = "original" => answer' = OriginalPosition(Self, index, question.line)
          /\ question.kind = "generated" => answer' = GeneratedPosition(Self, index, needle[1])
          /\ question.kind = "all" => answer' = AllGeneratedPositions(Self, index, question.line, question.column)
      BY <1>4 DEF Reply
    <3>. QED BY <2>4, <3>1, AnswersAreTyped
  <2>. QED BY <1>1, <2>1, <2>2, <2>3, <2>5, ReadStays DEF consumerVars, listVars, TalkInv
<1>5. ASSUME ComputeColumnSpans PROVE ConsumerInv'
  <2>1. /\ UNCHANGED <<program, generator, consumer, generated, original, ranges, talkVars>> /\ stage = "ready"
        /\ IsInjective(generated) /\ spanned' = TRUE
    BY <1>5 DEF ComputeColumnSpans
  <2>2. Where = "ready"
    BY <2>1 DEF Where
  <2>3. ReadInv'
    BY <1>1, <1>5, <2>2, RestReads
  <2>. QED BY <1>1, <2>1, <2>2, <2>3, ReadStays DEF talkVars, TalkInv
<1>. QED BY <1>2, <1>3, <1>4, <1>5

\* The program goes on, or does nothing.
LEMMA GoingOnKeeps ==
  ASSUME ConsumerInv, GoOn \/ UNCHANGED vars
  PROVE  ConsumerInv'
<1>1. program \in Programs /\ IsGenerator(generator) /\ TalkInv
  BY DEF ConsumerInv
<1>2. UNCHANGED <<program, generator, searchVars, consumerVars, back>>
  BY DEF GoOn, vars, talkVars
<1>3. \/ stage = "answered" /\ stage' = back /\ answer' = NoAnswer
      \/ stage' = stage /\ answer' = answer
  BY DEF GoOn, vars, talkVars
<1>4. Where' = Where
  BY <1>1, <1>2, <1>3 DEF Where, TalkInv
<1>5. UNCHANGED <<consumer, generated, original, spanned, ranges, turn>>
  BY <1>2 DEF consumerVars, listVars, searchVars
<1>6. answer'.threw \in BOOLEAN /\ back' \in {"none", "text", "ready"}
  BY <1>1, <1>2, <1>3, AnswersAreTyped DEF TalkInv
<1>7. CASE Where \in {"none", "text"}
  <2>1. UnreadInv /\ stage \in {"none", "text", "answered"} /\ (stage = "answered" => back \in {"none", "text"})
    BY <1>1, <1>7 DEF ConsumerInv, Where, TalkInv
  <2>2. SearchInv'
    BY <1>2, <2>1, SearchStays DEF UnreadInv
  <2>3. UnreadInv'
    BY <1>3, <1>5, <2>1, <2>2 DEF UnreadInv
  <2>4. TalkInv' /\ (MadeInv' <=> MadeInv)
    BY <1>1, <1>2, <1>3, <1>5, <1>6, <2>1 DEF TalkInv, MadeInv
  <2>. QED BY <1>2, <1>4, <1>5, <1>7, <2>3, <2>4 DEF ConsumerInv
<1>8. CASE Where \notin {"none", "text"}
  <2>1. ReadInv /\ ListsInv /\ MadeInv
    BY <1>8 DEF ConsumerInv
  <2>2. ReadInv'
    BY <2>1, RestReads
  <2>3. CASE stage \in {"sort generated", "sort original"}
    <3>1. stage' = stage
      BY <1>3, <2>3
    <3>2. ListsInv' /\ MadeInv' /\ TalkInv'
      BY <1>1, <1>2, <1>5, <1>6, <2>1, <3>1 DEF ListsInv, MadeInv, TalkInv
    <3>. QED BY <1>1, <1>2, <1>4, <1>8, <2>2, <3>2 DEF ConsumerInv
  <2>4. CASE stage \notin {"sort generated", "sort original"}
    <3>1. Where \in {"ready", "searching"} /\ stage' \in {"ready", "searching", "answered"}
      BY <1>1, <1>3, <1>8, <2>4 DEF Where, TalkInv
    <3>. QED BY <1>2, <1>5, <1>6, <2>2, <3>1, ReadStays
  <2>. QED BY <2>3, <2>4
<1>. QED BY <1>7, <1>8

\* What has been read is a map like those of other compilations.
LEMMA SelfIs ==
  ASSUME ConsumerInv, Where \notin {"none", "text"}
  PROVE  Self \in Maps
<1>1. ReadInv /\ MadeInv /\ TalkInv
  BY DEF ConsumerInv, Where
<1>. QED BY <1>1 DEF ReadInv, ReadTypes, MadeInv, Consumers, TalkInv, Self, Maps

\* The program goes on with a generator made of the consumer.
LEMMA RegenerateStays ==
  ASSUME ConsumerInv, Regenerate
  PROVE  ConsumerInv'
<1>1. PICK out : /\ out = GeneratorOf(Self)
                 /\ IF out.threw THEN Tell("generate", Threw, stage) /\ UNCHANGED <<generator, consumerVars>>
                    ELSE /\ generator' = out.generator
                         /\ consumer' = NoMap /\ generated' = <<>> /\ original' = <<>>
                         /\ spanned' = FALSE /\ UNCHANGED ranges
                         /\ stage' = "none" /\ UNCHANGED <<back, question, answer>>
  BY DEF Regenerate
<1>2. stage = "ready" /\ UNCHANGED <<program, searchVars>>
  BY DEF Regenerate
<1>3. Where = "ready" /\ ReadInv /\ ListsInv /\ MadeInv /\ TalkInv /\ program \in Programs /\ IsGenerator(generator)
  BY <1>2 DEF ConsumerInv, Where
<1>4. out.threw \in BOOLEAN /\ (~out.threw => IsGenerator(out.generator))
  BY <1>1, <1>3, SelfIs, GeneratorOfKeeps
<1>5. SearchInv /\ SearchInv' /\ turn = "idle" /\ turn' = "idle" /\ answer = NoAnswer
  BY <1>2, <1>3, SearchStays DEF ReadInv, AsksAndAnswers, searchVars
<1>6. CASE out.threw
  <2>1. /\ UNCHANGED <<generator, consumer, generated, original, spanned, ranges>>
        /\ stage' = "answered" /\ back' = "ready" /\ answer' = Threw
    BY <1>1, <1>2, <1>6 DEF Tell, consumerVars, listVars
  <2>2. /\ GeneratedPositions(Self)' = GeneratedPositions(Self)
        /\ OriginalPositions(Self)' = OriginalPositions(Self)
    BY <2>1, PositionsStay
  <2>3. ReadTypes' /\ AsksAndAnswers'
    BY <1>3, <1>5, <2>1 DEF ReadInv, ReadTypes, AsksAndAnswers
  <2>4. SortsInTurn'
    <3>1. IsAscending(GeneratedPositions(Self)) /\ IsAscending(OriginalPositions(Self))
      BY <1>2, <1>3 DEF ReadInv, SortsInTurn
    <3>2. IsAscending(GeneratedPositions(Self)') /\ IsAscending(OriginalPositions(Self)')
      BY <2>2, <3>1
    <3>. QED BY <2>1, <3>2 DEF SortsInTurn
  <2>5. AnswersAreNearest'
    <3>1. answer'.threw
      BY <2>1 DEF Threw
    <3>. QED BY <3>1 DEF AnswersAreNearest, OriginalIsNearest, GeneratedIsNearest, AllPositionsAreFound, Answered
  <2>6. ReadInv'
    BY <1>5, <2>3, <2>4, <2>5 DEF ReadInv
  <2>. QED BY <1>2, <1>3, <2>1, <2>6, AnswersAreTyped, ReadStays
<1>7. CASE ~out.threw
  <2>1. /\ IsGenerator(generator') /\ generated' = <<>> /\ original' = <<>> /\ spanned' = FALSE
        /\ ranges' = <<>> /\ stage' = "none" /\ UNCHANGED <<back, question, answer>>
    BY <1>1, <1>2, <1>3, <1>4, <1>7 DEF ListsInv
  <2>2. UnreadInv' /\ TalkInv' /\ Where' = "none"
    BY <1>3, <1>5, <2>1 DEF UnreadInv, TalkInv, Where
  <2>. QED BY <1>2, <1>3, <2>1, <2>2 DEF ConsumerInv
<1>. QED BY <1>6, <1>7

\* What holds of generator, consumer, and answers, whatever the program does.
LEMMA ConsumerInvariant == ConsumerSpec => []ConsumerInv
<1>1. ConsumerInv /\ [ConsumerNext]_vars => ConsumerInv'
  <2>. SUFFICES ASSUME ConsumerInv, [ConsumerNext]_vars PROVE ConsumerInv'
    OBVIOUS
  <2>1. ASSUME NEW map \in program.texts, Construct(map) PROVE ConsumerInv'
    BY <2>1, ConstructKeeps
  <2>2. (\E map \in program.texts : Construct(map)) => ConsumerInv'
    BY <2>1
  <2>. QED BY <2>2, GeneratorKeeps, ConstructFromGeneratorKeeps, FromSourceMapKeeps, ParseMappingsKeeps,
              SortingKeeps, AskingKeeps, GoingOnKeeps, RegenerateStays DEF ConsumerNext
<1>. QED BY <1>1, InitIsUnread, PTL DEF ConsumerSpec

(***************************************************************************)
(* The types, and the nearest answers.                                     *)
(***************************************************************************)
\* What is asked stays a question until it has been answered.
QuestionInv ==
  question.kind \in {"original", "generated", "all"} => question \in AnyQuestions

\* Every action asks a question of the three kinds, or none of them.
LEMMA QuestionKeeps ==
  ASSUME ConsumerInv, QuestionInv, [ConsumerNext]_vars
  PROVE  QuestionInv'
<1>1. program \in Programs
  BY DEF ConsumerInv
<1>2. ASSUME NEW q \in Questions, Ask(q) PROVE QuestionInv'
  <2>1. question' = q /\ q \in AnyQuestions
    BY <1>1, <1>2, QuestionsAre DEF Ask
  <2>. QED BY <2>1 DEF QuestionInv
<1>3. ASSUME UNCHANGED question PROVE QuestionInv'
  BY <1>3 DEF QuestionInv
<1>4. ASSUME NEW kind \in {"add", "apply", "write", "copy", "parse", "generate"}, question' = [kind |-> kind]
      PROVE  QuestionInv'
  BY <1>4 DEF QuestionInv
<1>5. ASSUME GoOn PROVE QuestionInv'
  <2>1. question' = NoQuestion
    BY <1>5 DEF GoOn
  <2>. QED BY <2>1 DEF NoQuestion, QuestionInv
<1>6. ASSUME NEW m \in program.mappings, Generate(m) PROVE QuestionInv'
  BY <1>3, <1>4, <1>6 DEF Generate, Quiet, Tell, talkVars
<1>7. ASSUME NEW source \in program.files, NEW content \in program.contents, SetContent(source, content)
      PROVE  QuestionInv'
  BY <1>3, <1>7 DEF SetContent, talkVars
<1>8. ASSUME NEW a \in program.applied, Apply(a.map, a.file, a.path) PROVE QuestionInv'
  BY <1>3, <1>4, <1>8 DEF Apply, Quiet, Tell, talkVars
<1>9. ASSUME Stringify \/ (\E map \in program.texts : Construct(map)) PROVE QuestionInv'
  BY <1>3, <1>9 DEF Stringify, Construct, talkVars
<1>10. ASSUME ConstructFromGenerator PROVE QuestionInv'
  BY <1>3, <1>4, <1>10 DEF ConstructFromGenerator, Tell
<1>11. ASSUME FromSourceMap PROVE QuestionInv'
  BY <1>3, <1>4, <1>11 DEF FromSourceMap, Tell
<1>12. ASSUME ParseMappings PROVE QuestionInv'
  BY <1>3, <1>4, <1>12 DEF ParseMappings, Tell
<1>13. ASSUME SortGenerated \/ SortOriginal \/ SortEnds \/ SearchOn \/ Reply \/ ComputeColumnSpans PROVE QuestionInv'
  BY <1>3, <1>13 DEF SortGenerated, SortOriginal, SortEnds, SearchOn, Reply, ComputeColumnSpans, talkVars
<1>14. ASSUME Regenerate PROVE QuestionInv'
  BY <1>3, <1>4, <1>14 DEF Regenerate, Tell
<1>15. ASSUME UNCHANGED vars PROVE QuestionInv'
  BY <1>3, <1>15 DEF vars, talkVars
<1>. QED BY <1>2, <1>5, <1>6, <1>7, <1>8, <1>9, <1>10, <1>11, <1>12, <1>13, <1>14, <1>15 DEF ConsumerNext

\* So what is asked is always a question.
LEMMA QuestionInvariant == ConsumerSpec => [](ConsumerInv /\ QuestionInv)
<1>1. Init => QuestionInv
  BY DEF Init, NoQuestion, QuestionInv
<1>. QED BY <1>1, QuestionKeeps, ConsumerInvariant, PTL DEF ConsumerSpec

\* The shape of the state.
LEMMA ConsumerTypes ==
  ASSUME ConsumerInv
  PROVE  TypeOK
<1>1. /\ TalkInv /\ generator \in Generators /\ IsInPlace(generator.array, generator.sorted, generator.last)
  BY DEF ConsumerInv, IsGenerator
<1>2. /\ generator.sorted \in BOOLEAN /\ generator.array \in Seq(Lines)
      /\ generator.array = <<>> <=> generator.last = Infimum
      /\ IsInjective(generator.sources) /\ IsInjective(generator.names)
      /\ generator.contents \in Contents
  BY <1>1 DEF Generators, IsInPlace, ArraySets
<1>3. Range(generator.array) \subseteq Lines
  BY <1>2 DEF Range
<1>4. Null \notin Range(generator.contents)
  <2>1. PICK D \in SUBSET Strings : generator.contents \in [D -> Strings]
    BY <1>2 DEF Contents
  <2>. QED BY <2>1, NullAssumption DEF Range
<1>5. /\ stage \in {"none", "text", "sort generated", "sort original", "ready", "searching", "answered"}
      /\ back \in {"none", "text", "ready"} /\ spanned \in BOOLEAN /\ answer.threw \in BOOLEAN
  BY <1>1 DEF TalkInv
<1>6. CASE Where \in {"none", "text"}
  <2>1. /\ SearchInv /\ turn = "idle" /\ stage # "searching"
        /\ generated = <<>> /\ original = <<>> /\ ranges = <<>>
    BY <1>6 DEF ConsumerInv, UnreadInv, Where
  <2>2. SearchTypeOK /\ Range(generated) = {} /\ Range(original) = {} /\ DOMAIN ranges = {}
    BY <2>1 DEF SearchInv, Range
  <2>. QED BY <1>2, <1>3, <1>4, <1>5, <2>1, <2>2 DEF TypeOK
<1>7. CASE Where \notin {"none", "text"}
  <2>1. ReadInv /\ ListsInv
    BY <1>7 DEF ConsumerInv
  <2>2. SearchTypeOK /\ (turn # "idle" <=> stage = "searching")
    BY <2>1 DEF ReadInv, SearchInv, AsksAndAnswers
  <2>3. \A m \in Range(generated) : m.source \in Int \cup {Null}
    <3>1. \A m \in Entries : m.source \in Int \cup {Null}
      BY DEF Entries, Located, Bare
    <3>2. Range(generated) \subseteq Entries
      BY <2>1 DEF ReadInv, ReadTypes, Range
    <3>. QED BY <3>1, <3>2
  <2>4. /\ Range(original) = {m \in Range(generated) : m.originalLine # Null}
        /\ Len(original) <= Len(generated)
    BY <2>1 DEF ListsInv
  <2>5. Len(original) \in Nat /\ Len(generated) \in Nat
    BY <2>1 DEF ReadInv, ReadTypes
  <2>6. \A i \in DOMAIN ranges : 1 <= ranges[i].p /\ ranges[i].r <= Len(generated)
    <3>1. ASSUME NEW n \in Nat, n <= Len(generated), AreApart(ranges, n)
          PROVE  \A i \in DOMAIN ranges : 1 <= ranges[i].p /\ ranges[i].r <= Len(generated)
      <4>1. ranges \in Seq(CallsOf(n))
        BY <3>1 DEF AreApart
      <4>2. \A c \in CallsOf(n) : 1 <= c.p /\ c.r <= n /\ c.r \in Int
        BY DEF CallsOf
      <4>3. \A i \in DOMAIN ranges : ranges[i] \in CallsOf(n)
        BY <4>1
      <4>. QED BY <2>5, <3>1, <4>2, <4>3
    <3>2. CASE stage = "sort generated"
      <4>1. AreApart(ranges, Len(generated))
        BY <2>1, <3>2 DEF ReadInv, SortsInTurn, Pending
      <4>2. Len(generated) <= Len(generated)
        BY <2>5
      <4>. QED BY <2>5, <3>1, <4>1, <4>2
    <3>3. CASE stage = "sort original"
      <4>1. AreApart(ranges, Len(original))
        BY <2>1, <3>3 DEF ReadInv, SortsInTurn, Pending
      <4>. QED BY <2>4, <2>5, <3>1, <4>1
    <3>4. CASE stage \notin {"sort generated", "sort original"}
      <4>1. ranges = <<>>
        BY <2>1, <3>4 DEF ListsInv
      <4>. QED BY <4>1
    <3>. QED BY <3>2, <3>3, <3>4
  <2>. QED BY <1>2, <1>3, <1>4, <1>5, <2>2, <2>3, <2>4, <2>6 DEF TypeOK
<1>. QED BY <1>6, <1>7

\* What is answered is nearest, or it threw.
LEMMA ConsumerAnswers ==
  ASSUME ConsumerInv
  PROVE  AnswersAreNearest
<1>1. CASE Where \in {"none", "text"}
  <2>1. stage = "answered" => answer.threw
    BY <1>1 DEF ConsumerInv, UnreadInv, Threw
  <2>. QED BY <2>1 DEF AnswersAreNearest, OriginalIsNearest, GeneratedIsNearest, AllPositionsAreFound, Answered
<1>2. CASE Where \notin {"none", "text"}
  BY <1>2 DEF ConsumerInv, ReadInv
<1>. QED BY <1>1, <1>2

\* The state of the consumer program keeps its types: the generator's two sets
\* have no string twice and its last mapping is there just when it has one, the
\* lists have mappings that were read, and the calls of doQuickSort stay in them.
THEOREM ConsumerTypeOK == ConsumerSpec => []TypeOK
BY ConsumerTypes, ConsumerInvariant, PTL

\* Whatever program makes the map, and whether it is read from the generator or
\* from its text, originalPositionFor, generatedPositionFor and
\* allGeneratedPositionsFor answer with the nearest mappings of the whole map.
THEOREM ConsumerNearest == ConsumerSpec => []AnswersAreNearest
BY ConsumerAnswers, ConsumerInvariant, PTL

(***************************************************************************)
(* The spans of computeColumnSpans.                                        *)
(***************************************************************************)
\* What the span of the mapping at i takes in.
IsSpanning(i, q) ==
  /\ generated[i].generatedLine = q.line /\ generated[i].generatedColumn <= q.column
  /\ \/ i = Len(generated) \/ generated[i + 1].generatedLine # q.line
     \/ q.column < generated[i + 1].generatedColumn

\* The lists are read, and the question is one.
IsSpanned(q) ==
  /\ generated \in Seq(Entries) /\ IsAscending(GeneratedPositions(Self)) /\ IsInjective(generated)
  /\ original \in Seq(Located) /\ spanned = TRUE /\ q.line \in Int /\ q.column \in Int

\* The generated list in its order.
LEMMA GeneratedInOrder ==
  ASSUME NEW q, IsSpanned(q)
  PROVE  /\ Len(generated) \in Nat /\ DOMAIN generated = 1..Len(generated)
         /\ \A i \in 1..Len(generated) :
              generated[i].generatedLine \in Int /\ generated[i].generatedColumn \in Int
         /\ \A i, j \in 1..Len(generated) : i < j =>
              \/ generated[i].generatedLine < generated[j].generatedLine
              \/ /\ generated[i].generatedLine = generated[j].generatedLine
                 /\ generated[i].generatedColumn <= generated[j].generatedColumn
<1>1. Len(generated) \in Nat /\ DOMAIN generated = 1..Len(generated)
  BY DEF IsSpanned
<1>2. \A i \in 1..Len(generated) : generated[i].generatedLine \in Int /\ generated[i].generatedColumn \in Int
  <2>1. \A i \in 1..Len(generated) : generated[i] \in Entries
    BY DEF IsSpanned
  <2>. QED BY <2>1 DEF Entries, Located, Bare
<1>3. ASSUME NEW i \in 1..Len(generated), NEW j \in 1..Len(generated), i < j
      PROVE  \/ generated[i].generatedLine < generated[j].generatedLine
             \/ /\ generated[i].generatedLine = generated[j].generatedLine
                /\ generated[i].generatedColumn <= generated[j].generatedColumn
  <2>1. PICK a \in Int, b \in Int, c \in Int, d \in Int :
          /\ a = generated[i].generatedLine /\ b = generated[i].generatedColumn
          /\ c = generated[j].generatedLine /\ d = generated[j].generatedColumn
    BY <1>2
  <2>2. /\ Len(GeneratedPositions(Self)) = Len(generated)
        /\ GeneratedPositions(Self)[i] = <<0, a, b>> /\ GeneratedPositions(Self)[j] = <<0, c, d>>
    BY <2>1, PositionsAre DEF IsSpanned
  <2>3. ComparePositions(GeneratedPositions(Self)[i], GeneratedPositions(Self)[j]) <= 0
    BY <1>3, <2>2 DEF IsSpanned, IsAscending
  <2>4. ComparePositions(<<0, a, b>>, <<0, c, d>>) <= 0
    BY <2>2, <2>3, Zenon
  <2>5. a < c \/ (a = c /\ b <= d)
    BY <2>4 DEF ComparePositions
  <2>. QED BY <2>1, <2>5
<1>. QED BY <1>1, <1>2, <1>3

\* A mapping has the span up to the next one.
LEMMA SpanIs ==
  ASSUME NEW q, IsSpanned(q), NEW i \in 1..Len(generated)
  PROVE  LET m == generated[i]
         IN  (/\ m.generatedLine = q.line /\ m.generatedColumn <= q.column
              /\ \/ Place(Self, m).lastColumn = Infinity
                 \/ q.column <= Place(Self, m).lastColumn) <=> IsSpanning(i, q)
<1>1. /\ Len(generated) \in Nat /\ DOMAIN generated = 1..Len(generated)
      /\ \A k \in 1..Len(generated) :
           generated[k].generatedLine \in Int /\ generated[k].generatedColumn \in Int
  BY GeneratedInOrder
<1>2. (CHOOSE k \in DOMAIN generated : generated[k] = generated[i]) = i
  BY <1>1 DEF IsSpanned, IsInjective
<1>3. PICK last : last = LastColumn(Self, i)
  BY Zenon
<1>4. Place(Self, generated[i]).lastColumn = last
  BY <1>2, <1>3 DEF Place, Self, IsSpanned
<1>5. last = IF i < Len(generated) /\ generated[i].generatedLine = generated[i + 1].generatedLine
               THEN generated[i + 1].generatedColumn - 1 ELSE Infinity
  BY <1>3 DEF LastColumn, Self
<1>6. CASE i = Len(generated)
  <2>1. last = Infinity
    BY <1>1, <1>5, <1>6
  <2>. QED BY <1>4, <1>6, <2>1 DEF IsSpanning
<1>7. CASE i # Len(generated)
  <2>1. i < Len(generated) /\ i + 1 \in 1..Len(generated)
    BY <1>1, <1>7
  <2>2. PICK a \in Int, b \in Int, c \in Int, d \in Int, l \in Int, k \in Int :
          /\ a = generated[i].generatedLine /\ b = generated[i].generatedColumn
          /\ c = generated[i + 1].generatedLine /\ d = generated[i + 1].generatedColumn
          /\ l = q.line /\ k = q.column
    BY <1>1, <2>1 DEF IsSpanned
  <2>3. last = IF a = c THEN d - 1 ELSE Infinity
    BY <1>5, <2>1, <2>2
  <2>4. IsSpanning(i, q) <=> a = l /\ b <= k /\ (c # l \/ k < d)
    BY <1>7, <2>2 DEF IsSpanning
  <2>5. (a = l /\ b <= k /\ (last = Infinity \/ k <= last)) <=> (a = l /\ b <= k /\ (c # l \/ k < d))
    <3>1. CASE a = c
      <4>1. last \in Int /\ last = d - 1
        BY <2>3, <3>1
      <4>2. last # Infinity
        BY <4>1, InfinityAssumption
      <4>. QED BY <3>1, <4>1, <4>2
    <3>2. CASE a # c
      BY <2>3, <3>2
    <3>. QED BY <3>1, <3>2
  <2>. QED BY <1>4, <2>2, <2>4, <2>5
<1>. QED BY <1>6, <1>7

\* Of the mappings of the line up to the column the last one has the span.
LEMMA LastIsSpanning ==
  ASSUME NEW q, IsSpanned(q), NEW i \in 1..Len(generated), IsSpanning(i, q),
         NEW j \in 1..Len(generated), generated[j].generatedLine = q.line, generated[j].generatedColumn <= q.column
  PROVE  j <= i /\ generated[j].generatedColumn <= generated[i].generatedColumn
<1>1. /\ Len(generated) \in Nat
      /\ \A k \in 1..Len(generated) :
           generated[k].generatedLine \in Int /\ generated[k].generatedColumn \in Int
      /\ \A k, l \in 1..Len(generated) : k < l =>
              \/ generated[k].generatedLine < generated[l].generatedLine
              \/ /\ generated[k].generatedLine = generated[l].generatedLine
                 /\ generated[k].generatedColumn <= generated[l].generatedColumn
  BY GeneratedInOrder
<1>2. generated[i].generatedLine = q.line /\ q.line \in Int /\ q.column \in Int
  BY DEF IsSpanning, IsSpanned
<1>3. ASSUME i < j PROVE FALSE
  <2>1. i # Len(generated) /\ i + 1 \in 1..Len(generated) /\ i < i + 1 /\ (i + 1 = j \/ i + 1 < j)
    BY <1>1, <1>3
  <2>2. generated[i + 1].generatedLine # q.line \/ q.column < generated[i + 1].generatedColumn
    BY <2>1 DEF IsSpanning
  <2>3. PICK c \in Int, d \in Int, e \in Int :
          /\ c = generated[i + 1].generatedLine /\ d = generated[i + 1].generatedColumn
          /\ e = generated[j].generatedColumn
    BY <1>1, <2>1
  <2>4. q.line < c \/ q.line = c
    BY <1>1, <1>2, <2>1, <2>3
  <2>5. c < q.line \/ (c = q.line /\ d <= e)
    <3>1. CASE i + 1 = j
      <4>1. c = q.line /\ d = e
        BY <2>3, <3>1
      <4>. QED BY <4>1, <2>3
    <3>2. CASE i + 1 < j
      BY <1>1, <1>2, <2>1, <2>3, <3>2
    <3>. QED BY <2>1, <3>1, <3>2
  <2>6. e <= q.column /\ (c # q.line \/ q.column < d)
    BY <2>2, <2>3
  <2>. QED BY <1>2, <2>3, <2>4, <2>5, <2>6
<1>4. j <= i
  BY <1>1, <1>3
<1>5. generated[j].generatedColumn <= generated[i].generatedColumn
  <2>1. CASE j = i
    BY <1>1, <2>1
  <2>2. CASE j # i
    BY <1>1, <1>2, <1>4, <2>2
  <2>. QED BY <2>1, <2>2
<1>. QED BY <1>4, <1>5

\* One of them has it, if there are any.
LEMMA SomeIsSpanning ==
  ASSUME NEW q, IsSpanned(q), NEW k \in 1..Len(generated),
         generated[k].generatedLine = q.line, generated[k].generatedColumn <= q.column
  PROVE  \E i \in 1..Len(generated) : IsSpanning(i, q)
<1>1. /\ Len(generated) \in Nat
      /\ \A i \in 1..Len(generated) :
           generated[i].generatedLine \in Int /\ generated[i].generatedColumn \in Int
  BY GeneratedInOrder
<1>. DEFINE S == {i \in 1..Len(generated) :
                    generated[i].generatedLine = q.line /\ generated[i].generatedColumn <= q.column}
<1>2. S \in SUBSET (0..Len(generated)) /\ k \in S
  BY <1>1
<1>3. PICK i \in S : \A j \in S : i >= j
  <2>. HIDE DEF S
  <2>1. S # {}
    BY <1>2
  <2>. QED BY <1>1, <1>2, <2>1, HasGreatest
<1>4. i \in 1..Len(generated) /\ generated[i].generatedLine = q.line /\ generated[i].generatedColumn <= q.column
  OBVIOUS
<1>5. CASE i = Len(generated)
  BY <1>4, <1>5 DEF IsSpanning
<1>6. CASE i # Len(generated)
  <2>1. i + 1 \in 1..Len(generated) /\ ~(i >= i + 1)
    BY <1>1, <1>4, <1>6
  <2>2. i + 1 \notin S
    BY <1>3, <2>1
  <2>3. generated[i + 1].generatedLine # q.line \/ ~(generated[i + 1].generatedColumn <= q.column)
    BY <2>1, <2>2
  <2>4. q.column \in Int /\ generated[i + 1].generatedColumn \in Int
    BY <1>1, <2>1 DEF IsSpanned
  <2>. QED BY <1>4, <2>3, <2>4 DEF IsSpanning
<1>. QED BY <1>4, <1>5, <1>6

\* The nearest mappings of a line.
NearestOf(line, q) == Nearest(line, GeneratedPos, <<0, q.line, q.column>>, q.bias)

\* The mapping that is alone at its place and has the span is the nearest one.
LEMMA SpanningIsNearest ==
  ASSUME NEW q, IsSpanned(q), q.bias = "GREATEST_LOWER_BOUND", NEW i \in 1..Len(generated), IsSpanning(i, q),
         NEW line, line = {m \in Range(generated) : m.generatedLine = q.line},
         NEW nearest, nearest = NearestOf(line, q)
  PROVE  /\ generated[i] \in nearest
         /\ \A k \in nearest : /\ k \in Range(generated)
                               /\ k.generatedLine = generated[i].generatedLine
                               /\ k.generatedColumn = generated[i].generatedColumn
<1>1. /\ Len(generated) \in Nat /\ DOMAIN generated = 1..Len(generated)
      /\ \A j \in 1..Len(generated) :
           generated[j].generatedLine \in Int /\ generated[j].generatedColumn \in Int
  BY GeneratedInOrder
<1>2. generated[i].generatedLine = q.line /\ generated[i].generatedColumn <= q.column
  BY DEF IsSpanning
<1>3. q.line \in Int /\ q.column \in Int
  BY DEF IsSpanned
<1>4. \A m, n : m \in line /\ n \in line =>
        /\ OnSide(GeneratedPos(m), <<0, q.line, q.column>>, q.bias) <=> m.generatedColumn <= q.column
        /\ OnSide(GeneratedPos(n), GeneratedPos(m), q.bias) <=> n.generatedColumn <= m.generatedColumn
  <2>1. ASSUME NEW m, NEW n, m \in line, n \in line
        PROVE  /\ OnSide(GeneratedPos(m), <<0, q.line, q.column>>, q.bias) <=> m.generatedColumn <= q.column
               /\ OnSide(GeneratedPos(n), GeneratedPos(m), q.bias) <=> n.generatedColumn <= m.generatedColumn
    <3>1. PICK l \in Int, c \in Int, b \in Int, d \in Int :
            /\ l = q.line /\ c = q.column /\ b = m.generatedColumn /\ d = n.generatedColumn
            /\ m.generatedLine = l /\ n.generatedLine = l
      BY <1>1, <1>3, <2>1 DEF Range
    <3>2. GeneratedPos(m) = <<0, l, b>> /\ GeneratedPos(n) = <<0, l, d>>
      BY <3>1 DEF GeneratedPos
    <3>3. ComparePositions(<<0, l, b>>, <<0, l, c>>) = b - c /\ ComparePositions(<<0, l, d>>, <<0, l, b>>) = d - b
      BY <3>1 DEF ComparePositions
    <3>4. /\ OnSide(GeneratedPos(m), <<0, q.line, q.column>>, q.bias) <=> b - c <= 0
          /\ OnSide(GeneratedPos(n), GeneratedPos(m), q.bias) <=> d - b <= 0
      BY <3>1, <3>2, <3>3, Zenon DEF OnSide
    <3>. QED BY <3>1, <3>4
  <2>. QED BY <2>1
<1>5. \A m : m \in nearest <=>
        /\ m \in line /\ m.generatedColumn <= q.column
        /\ \A n \in line : n.generatedColumn <= q.column => n.generatedColumn <= m.generatedColumn
  BY <1>4 DEF NearestOf, Nearest
<1>6. ASSUME NEW n \in line, n.generatedColumn <= q.column PROVE n.generatedColumn <= generated[i].generatedColumn
  <2>1. PICK j \in 1..Len(generated) : n = generated[j]
    BY <1>1 DEF Range
  <2>. QED BY <1>6, <2>1, LastIsSpanning
<1>7. generated[i] \in line
  BY <1>1, <1>2 DEF Range
<1>8. generated[i] \in nearest
  BY <1>2, <1>5, <1>6, <1>7
<1>9. ASSUME NEW k \in nearest
      PROVE  /\ k \in Range(generated) /\ k.generatedLine = generated[i].generatedLine
             /\ k.generatedColumn = generated[i].generatedColumn
  <2>1. k \in line /\ k.generatedColumn <= q.column /\ generated[i].generatedColumn <= k.generatedColumn
    BY <1>2, <1>5, <1>7
  <2>2. k.generatedColumn <= generated[i].generatedColumn
    BY <1>6, <2>1
  <2>3. k \in Range(generated) /\ k.generatedColumn \in Int /\ generated[i].generatedColumn \in Int
    BY <1>1, <2>1 DEF Range
  <2>4. k.generatedLine = generated[i].generatedLine
    BY <1>2, <2>1
  <2>. QED BY <2>1, <2>2, <2>3, <2>4
<1>. QED BY <1>8, <1>9

\* The spans divide a line.
LEMMA ConsumerSpans ==
  ASSUME ConsumerInv, QuestionInv
  PROVE  SpansTile
<1>. SUFFICES ASSUME spanned, Answered("original"), question.bias = "GREATEST_LOWER_BOUND"
              PROVE  LET spanning == {m \in Range(generated) :
                               /\ m.generatedLine = question.line
                               /\ m.generatedColumn <= question.column
                               /\ \/ Place(Self, m).lastColumn = Infinity
                                  \/ question.column <= Place(Self, m).lastColumn}
                     IN  /\ spanning = {} => answer.found = <<>>
                         /\ \A m \in spanning :
                              /\ spanning = {m}
                              /\ (\A n \in Range(generated) :
                                    <<n.generatedLine, n.generatedColumn>> = <<m.generatedLine, m.generatedColumn>>
                                      => n = m)
                                 =>
                                   answer.found = IF m.source = Null THEN <<>>
                                                  ELSE <<OriginalOf(Inflate(Self, m))>>
  BY DEF SpansTile
<1>1. Where \notin {"none", "text"}
  BY DEF ConsumerInv, UnreadInv
<1>2. ReadInv /\ ListsInv /\ stage = "answered" /\ spanned = TRUE
  BY <1>1 DEF ConsumerInv, Answered, TalkInv
<1>3. question \in AnyQuestions /\ question.kind = "original"
  BY DEF QuestionInv, Answered
<1>4. question.line \in Int /\ question.column \in Int
  BY <1>3 DEF AnyQuestions
<1>5. IsSpanned(question)
  BY <1>2, <1>4 DEF IsSpanned, ReadInv, ReadTypes, SortsInTurn, ListsInv
<1>6. TellsOriginal(answer, question)
  BY <1>2, AnswersTell DEF ReadInv, ReadTypes
<1>7. PICK line, nearest :
        /\ line = {m \in Range(generated) : m.generatedLine = question.line}
        /\ nearest = NearestOf(line, question)
  BY Zenon
<1>8. IF answer.found = <<>> THEN nearest = {} \/ \E m \in nearest : m.source = Null
      ELSE \E m \in nearest : m.source # Null /\ answer.found = <<OriginalOf(Inflate(Self, m))>>
  BY <1>6, <1>7 DEF TellsOriginal, NearestOf, Nearest, GeneratedPos
<1>9. Len(generated) \in Nat /\ DOMAIN generated = 1..Len(generated)
  BY <1>5, GeneratedInOrder
<1>. DEFINE Spans(m) == /\ m.generatedLine = question.line
                        /\ m.generatedColumn <= question.column
                        /\ \/ Place(Self, m).lastColumn = Infinity
                           \/ question.column <= Place(Self, m).lastColumn
            spanning == {m \in Range(generated) : Spans(m)}
<1>10. \A i \in 1..Len(generated) : Spans(generated[i]) <=> IsSpanning(i, question)
  BY <1>5, SpanIs
<1>. HIDE DEF Spans
<1>11. ASSUME spanning = {} PROVE answer.found = <<>>
  <2>1. ASSUME NEW m \in nearest PROVE FALSE
    <3>1. m \in Range(generated) /\ m.generatedLine = question.line
          /\ OnSide(GeneratedPos(m), <<0, question.line, question.column>>, question.bias)
      BY <1>7, <2>1 DEF NearestOf, Nearest
    <3>2. PICK k \in 1..Len(generated) : m = generated[k]
      BY <1>9, <3>1 DEF Range
    <3>3. m.generatedColumn \in Int
      BY <1>5, <3>2, GeneratedInOrder
    <3>4. PICK l \in Int, b \in Int, c \in Int :
            l = question.line /\ b = m.generatedColumn /\ c = question.column /\ m.generatedLine = l
      BY <1>4, <3>1, <3>3
    <3>5. GeneratedPos(m) = <<0, l, b>>
      BY <3>4 DEF GeneratedPos
    <3>6. ComparePositions(<<0, l, b>>, <<0, l, c>>) <= 0
      BY <3>1, <3>4, <3>5, Zenon DEF OnSide
    <3>7. b <= c
      BY <3>6 DEF ComparePositions
    <3>8. PICK i \in 1..Len(generated) : IsSpanning(i, question)
      BY <1>5, <3>1, <3>2, <3>4, <3>7, SomeIsSpanning
    <3>9. generated[i] \in Range(generated) /\ Spans(generated[i])
      BY <1>9, <1>10, <3>8 DEF Range
    <3>. QED BY <1>11, <3>9
  <2>. QED BY <1>8, <2>1
<1>12. ASSUME NEW m \in spanning PROVE spanning = {m}
  <2>1. PICK i \in 1..Len(generated) : m = generated[i]
    BY <1>9 DEF Range
  <2>2. IsSpanning(i, question)
    BY <1>10, <2>1
  <2>3. ASSUME NEW n \in spanning PROVE n = m
    <3>1. PICK j \in 1..Len(generated) : n = generated[j]
      BY <1>9 DEF Range
    <3>2. IsSpanning(j, question)
      BY <1>10, <3>1
    <3>3. i <= j /\ j <= i
      BY <1>5, <2>2, <3>2, LastIsSpanning DEF IsSpanning
    <3>. QED BY <1>9, <2>1, <3>1, <3>3
  <2>. QED BY <2>3
<1>13. ASSUME NEW m \in spanning,
              \A n \in Range(generated) :
                <<n.generatedLine, n.generatedColumn>> = <<m.generatedLine, m.generatedColumn>> => n = m
       PROVE  answer.found = IF m.source = Null THEN <<>> ELSE <<OriginalOf(Inflate(Self, m))>>
  <2>1. PICK i \in 1..Len(generated) : m = generated[i]
    BY <1>9 DEF Range
  <2>2. IsSpanning(i, question)
    BY <1>10, <2>1
  <2>3. /\ m \in nearest
        /\ \A k \in nearest : /\ k \in Range(generated) /\ k.generatedLine = m.generatedLine
                              /\ k.generatedColumn = m.generatedColumn
    BY <1>5, <1>7, <2>1, <2>2, SpanningIsNearest
  <2>4. \A k \in nearest : k = m
    BY <1>13, <2>3
  <2>. QED BY <1>8, <2>3, <2>4
<1>. QED BY <1>11, <1>12, <1>13 DEF Spans

\* After computeColumnSpans, every column of a line that is behind its first
\* mapping is in the span of one mapping, and it is the one whose original
\* position originalPositionFor answers with.
THEOREM ConsumerSpansTile == ConsumerSpec => []SpansTile
BY ConsumerSpans, QuestionInvariant, PTL

(***************************************************************************)
(* The way there and back.                                                 *)
(***************************************************************************)
\* A search for a position that is there ends on it.
LEMMA PositionIsFound ==
  ASSUME NEW positions \in Seq(Positions), NEW k \in DOMAIN positions, NEW p, p = positions[k]
  PROVE  LET i == SearchResult(positions, p, "GREATEST_LOWER_BOUND")
         IN  i \in DOMAIN positions /\ i # 0 /\ positions[i] = p
<1>. DEFINE near == {i \in DOMAIN positions : OnSide(positions[i], p, "GREATEST_LOWER_BOUND")}
            best == {i \in near : \A j \in near : OnSide(positions[j], positions[i], "GREATEST_LOWER_BOUND")}
<1>1. Len(positions) \in Nat /\ DOMAIN positions = 1..Len(positions)
  OBVIOUS
<1>2. \A i \in DOMAIN positions : positions[i] \in Positions
  OBVIOUS
<1>3. \A a, b : OnSide(a, b, "GREATEST_LOWER_BOUND") <=> ComparePositions(a, b) <= 0
  BY DEF OnSide
<1>4. \A a, b \in Positions : ComparePositions(a, b) <= 0 /\ ComparePositions(b, a) <= 0 => a = b
  <2>1. ASSUME NEW a1 \in Int, NEW a2 \in Int, NEW a3 \in Int, NEW b1 \in Int, NEW b2 \in Int, NEW b3 \in Int,
               ComparePositions(<<a1, a2, a3>>, <<b1, b2, b3>>) <= 0,
               ComparePositions(<<b1, b2, b3>>, <<a1, a2, a3>>) <= 0
        PROVE  a1 = b1 /\ a2 = b2 /\ a3 = b3
    BY <2>1 DEF ComparePositions
  <2>2. \A a \in Positions : \E a1, a2, a3 \in Int : a = <<a1, a2, a3>>
    BY DEF Positions
  <2>3. ASSUME NEW a \in Positions, NEW b \in Positions, ComparePositions(a, b) <= 0, ComparePositions(b, a) <= 0
        PROVE  a = b
    <3>1. PICK a1 \in Int, a2 \in Int, a3 \in Int : a = <<a1, a2, a3>>
      BY <2>2
    <3>2. PICK b1 \in Int, b2 \in Int, b3 \in Int : b = <<b1, b2, b3>>
      BY <2>2
    <3>. QED BY <2>1, <2>3, <3>1, <3>2
  <2>. QED BY <2>3
<1>5. \A a \in Positions : ComparePositions(a, a) <= 0
  BY DEF Positions, ComparePositions
<1>6. k \in best
  BY <1>2, <1>3, <1>5
<1>7. \A i \in best : i \in 1..Len(positions) /\ positions[i] = p
  BY <1>1, <1>2, <1>3, <1>4, <1>6
<1>8. SearchResult(positions, p, "GREATEST_LOWER_BOUND") = Min(best)
  BY <1>6 DEF SearchResult
<1>. HIDE DEF best
<1>9. best \in SUBSET (1..Len(positions)) /\ best # {}
  BY <1>6, <1>7
<1>10. Min(best) \in best
  BY <1>1, <1>9, EndsAreIn
<1>11. Min(best) \in 1..Len(positions) /\ positions[Min(best)] = p
  BY <1>7, <1>10
<1>. QED BY <1>1, <1>8, <1>11

\* An index by which a set has no other string is the one that is looked up.
LEMMA IndexIsBack ==
  ASSUME NEW set \in Seq(Strings), IsInjective(set), NEW i \in DOMAIN set
  PROVE  set[i] \in Range(set) /\ IndexOf(set, set[i]) = i - 1
<1>1. set[i] \in Range(set) /\ DOMAIN set = 1..Len(set) /\ Len(set) \in Nat
  BY DEF Range
<1>2. /\ IndexOf(set, set[i]) \in Nat /\ IndexOf(set, set[i]) + 1 \in DOMAIN set
      /\ set[IndexOf(set, set[i]) + 1] = set[i]
  BY <1>1, IndexOfIs
<1>3. IndexOf(set, set[i]) + 1 = i
  BY <1>2 DEF IsInjective
<1>. QED BY <1>1, <1>2, <1>3

\* Where a place comes from can be asked for again.
LEMMA ConsumerAsksAgain ==
  ASSUME ConsumerInv
  PROVE  ThereAndBack
<1>. DEFINE o == answer.found[1]
            again == GeneratedPositionFor(Self, o.source, o.line, o.column, "GREATEST_LOWER_BOUND")
<1>. SUFFICES ASSUME Answered("original"), answer.found # <<>>, IsPlace(o.line, o.column),
                     NamesLeadBack(consumer.root, consumer.sources)
              PROVE  /\ again.found # <<>>
                     /\ \E m \in Range(generated) :
                          /\ Place(Self, m) = again.found[1]
                          /\ LET from == OriginalOf(Inflate(Self, m))
                             IN  <<from.source, from.line, from.column>> = <<o.source, o.line, o.column>>
  BY DEF ThereAndBack
<1>1. Where \notin {"none", "text"}
  BY DEF ConsumerInv, UnreadInv, Answered, Threw
<1>2. ReadInv /\ ListsInv /\ stage = "answered"
  BY <1>1 DEF ConsumerInv, Answered
<1>3. /\ generated \in Seq(Entries) /\ original \in Seq(Located) /\ consumer.sources \in Seq(Strings)
      /\ Range(original) = {m \in Range(generated) : m.originalLine # Null}
  BY <1>2 DEF ReadInv, ReadTypes, ListsInv
<1>4. PICK m \in Range(generated) :
        /\ m.source # Null /\ IsInflatable(Self, m) /\ answer.found = <<OriginalOf(Inflate(Self, m))>>
  <2>1. TellsOriginal(answer, question)
    BY <1>2, AnswersTell DEF ReadInv, ReadTypes
  <2>. QED BY <2>1 DEF TellsOriginal, Nearest
<1>5. m \in Located
  <2>1. m \in Entries
    BY <1>3 DEF Range
  <2>. QED BY <1>4, <2>1 DEF Entries, Bare
<1>6. m.source \in Int /\ m.originalLine \in Int /\ m.originalColumn \in Int /\ m.originalLine # Null
  BY <1>5, NullAssumption DEF Located
<1>7. PICK i \in DOMAIN consumer.sources : i = m.source + 1
  BY <1>4, <1>6 DEF IsInflatable, IsIndex, Self
<1>8. \A k \in Located : /\ Inflate(Self, k).originalLine = k.originalLine
                         /\ Inflate(Self, k).originalColumn = k.originalColumn
                         /\ Inflate(Self, k).source = Show(consumer.root, consumer.sources[k.source + 1])
  <2>1. ASSUME NEW k \in Located
        PROVE  /\ Inflate(Self, k).originalLine = k.originalLine
               /\ Inflate(Self, k).originalColumn = k.originalColumn
               /\ Inflate(Self, k).source = Show(consumer.root, consumer.sources[k.source + 1])
    <3>1. k.source # Null
      BY NullAssumption DEF Located
    <3>2. PICK s : s = Show(consumer.root, consumer.sources[k.source + 1])
      BY Zenon
    <3>3. PICK n : n = IF k.name = Null THEN Null ELSE At(Self.names, k.name)
      BY Zenon
    <3>4. Inflate(Self, k) = [k EXCEPT !.source = s, !.name = n]
      BY <3>1, <3>2, <3>3 DEF Inflate, Self, At
    <3>. QED BY <3>2, <3>4 DEF Located
  <2>. QED BY <2>1
<1>9. /\ o.line = m.originalLine /\ o.column = m.originalColumn
      /\ o.source = Show(consumer.root, consumer.sources[i])
  <2>1. o = OriginalOf(Inflate(Self, m))
    BY <1>4
  <2>. HIDE DEF o
  <2>. QED BY <1>5, <1>7, <1>8, <2>1 DEF OriginalOf
<1>10. /\ Resolve(consumer.root, o.source) = consumer.sources[i]
       /\ consumer.sources[i] \in Range(consumer.sources)
       /\ IndexOf(consumer.sources, consumer.sources[i]) = m.source
  <2>1. consumer.sources[i] \in Range(consumer.sources) /\ IndexOf(consumer.sources, consumer.sources[i]) = i - 1
    BY <1>3, IndexIsBack DEF NamesLeadBack
  <2>. QED BY <1>6, <1>7, <1>9, <2>1 DEF NamesLeadBack
<1>11. PICK k \in 1..Len(original) : original[k] = m
  <2>1. m \in Range(original)
    BY <1>3, <1>6
  <2>. QED BY <1>3, <2>1 DEF Range
<1>12. PICK p : p = <<m.source, m.originalLine, m.originalColumn>>
  BY Zenon
<1>13. PICK positions \in Seq(Positions) :
         /\ positions = OriginalPositions(Self) /\ Len(positions) = Len(original)
         /\ \A j \in 1..Len(original) : /\ original[j] \in Located
              /\ positions[j] = <<original[j].source, original[j].originalLine, original[j].originalColumn>>
  BY <1>3, PositionsAre
<1>14. PICK j \in 1..Len(original) :
         j = SearchResult(positions, p, "GREATEST_LOWER_BOUND") /\ j # 0 /\ positions[j] = p
  <2>1. k \in DOMAIN positions /\ p = positions[k] /\ DOMAIN positions = 1..Len(original)
    BY <1>11, <1>12, <1>13
  <2>. QED BY <1>13, <2>1, PositionIsFound
<1>15. /\ original[j].source = m.source /\ original[j].originalLine = m.originalLine
       /\ original[j].originalColumn = m.originalColumn /\ original[j] \in Located
  BY <1>12, <1>13, <1>14
<1>16. again = Answer(<<Place(Self, original[j])>>)
  <2>1. again = GeneratedPosition(Self, SearchResult(positions, p, "GREATEST_LOWER_BOUND"), p[1])
    <3>1. Self.root = consumer.root /\ Self.sources = consumer.sources
      BY DEF Self
    <3>2. p = <<IndexOf(Self.sources, Resolve(Self.root, o.source)), o.line, o.column>>
      BY <1>9, <1>10, <1>12, <3>1
    <3>3. Resolve(Self.root, o.source) \in Range(Self.sources)
      BY <1>10, <3>1
    <3>. HIDE DEF o
    <3>. QED BY <1>13, <3>2, <3>3, Zenon DEF GeneratedPositionFor
  <2>2. p[1] = m.source
    BY <1>12
  <2>. HIDE DEF again
  <2>3. GeneratedPosition(Self, j, m.source) = Answer(<<Place(Self, original[j])>>)
    <3>1. Self.original = original
      BY DEF Self
    <3>. QED BY <1>14, <1>15, <3>1 DEF GeneratedPosition
  <2>. QED BY <1>14, <2>1, <2>2, <2>3, Zenon
<1>. HIDE DEF again, o
<1>17. again.found # <<>> /\ again.found[1] = Place(Self, original[j])
  BY <1>16 DEF Answer
<1>18. original[j] \in Range(generated)
  <2>1. original[j] \in Range(original)
    BY <1>3 DEF Range
  <2>. QED BY <1>3, <2>1
<1>19. /\ OriginalOf(Inflate(Self, original[j])).source = o.source
       /\ OriginalOf(Inflate(Self, original[j])).line = o.line
       /\ OriginalOf(Inflate(Self, original[j])).column = o.column
  BY <1>7, <1>8, <1>9, <1>15 DEF OriginalOf
<1>. QED BY <1>17, <1>18, <1>19

\* generatedPositionFor, asked for the place that originalPositionFor answered
\* with, leads to the position that was asked for or before it, and there the
\* first question has the same answer.
THEOREM ConsumerAnswersAgree == ConsumerSpec => []AnswersAgree
<1>1. ConsumerInv /\ QuestionInv => AnswersAgree
  BY ConsumerAsksAgain, ConsumerSpans DEF AnswersAgree
<1>. QED BY <1>1, QuestionInvariant, PTL

(***************************************************************************)
(* The contents.                                                           *)
(***************************************************************************)
\* A source is looked for by its own name first.
LEMMA AliasesAre ==
  ASSUME NEW map, map.root \in Strings \cup {Null}, NEW source \in Strings
  PROVE  /\ Aliases(map, source) \in Seq(Strings)
         /\ 1 \in DOMAIN Aliases(map, source) /\ Aliases(map, source)[1] = source
<1>. DEFINE path == IF IsStrictPrefix(<<"file:", "">>, source) THEN SubSeq(source, 3, Len(source)) ELSE source
            hasUrl == map.root # Null /\ IsUrl(map.root)
            a == IF hasUrl /\ map.root[1] = "file:" THEN <<path>> ELSE <<>>
            b == IF hasUrl /\ UrlPath(map.root) \in {EmptyString, Slash} THEN <<EmptyString \o source>> ELSE <<>>
<1>1. path \in Strings
  <2>1. CASE IsStrictPrefix(<<"file:", "">>, source)
    <3>1. PICK c, d : c = "file:" /\ d = ""
      BY Zenon
    <3>11. PICK t \in Seq({c, d}) : t = <<c, d>> /\ Len(t) = 2
      <4>1. <<c, d>> \in Seq({c, d}) /\ Len(<<c, d>>) = 2
        OBVIOUS
      <4>. QED BY <4>1, Zenon
    <3>2. source \in Seq(Parts) /\ source \in Paths /\ Len(source) \in Nat
      BY StringsAre DEF Strings
    <3>3. IsPrefix(t, source) /\ source # t
      BY <2>1, <3>1, <3>11, Zenon DEF IsStrictPrefix
    <3>4. 2 <= Len(source) /\ SubSeq(t, 1, 2) = SubSeq(source, 1, 2)
      BY <3>3, <3>11, Zenon DEF IsPrefix
    <3>5. \A S : \A u \in Seq(S) : Len(u) = 2 => SubSeq(u, 1, 2) = u
      OBVIOUS
    <3>6. Len(source) # 2
      BY <3>2, <3>3, <3>4, <3>5, <3>11, Zenon
    <3>7. 3 <= Len(source)
      <4>1. PICK n \in Nat : n = Len(source)
        BY <3>2, Zenon
      <4>2. 2 <= n /\ n # 2
        BY <3>4, <3>6, <4>1, Zenon
      <4>. QED BY <4>1, <4>2
    <3>8. SubSeq(source, 3, Len(source)) \in Strings
      <4>1. 3 \in Nat \ {0}
        OBVIOUS
      <4>. QED BY <3>2, <3>7, <4>1, EndOfString
    <3>. QED BY <2>1, <3>8
  <2>2. CASE ~IsStrictPrefix(<<"file:", "">>, source)
    BY <2>2
  <2>. QED BY <2>1, <2>2
<1>2. EmptyString \o source \in Strings
  <2>1. EmptyString \in Paths /\ source \in Paths /\ source \in Strings
    BY StringsAre
  <2>. QED BY <2>1, JoinedStrings
<1>3. PICK p, e : p = path /\ e = EmptyString \o source
  BY Zenon
<1>4. p \in Strings /\ e \in Strings
  BY <1>1, <1>2, <1>3, Zenon
<1>5. a \in {<<p>>, <<>>} /\ b \in {<<e>>, <<>>}
  BY <1>3, Zenon
<1>6. \A x, y \in Seq(Strings) :
        /\ <<source>> \o x \o y \in Seq(Strings) /\ 1 \in DOMAIN (<<source>> \o x \o y)
        /\ (<<source>> \o x \o y)[1] = source
  OBVIOUS
<1>8. <<p>> \in Seq(Strings) /\ <<e>> \in Seq(Strings) /\ <<>> \in Seq(Strings)
  BY <1>4
<1>7. Aliases(map, source) = <<source>> \o a \o b
  BY DEF Aliases
<1>. HIDE DEF a, b
<1>9. a \in Seq(Strings) /\ b \in Seq(Strings)
  BY <1>5, <1>8, Zenon
<1>. QED BY <1>6, <1>7, <1>9, Zenon

\* A source that is known by its own name is found by it.
LEMMA ContentIsFound ==
  ASSUME NEW map, map.root \in Strings \cup {Null}, map.sources \in Seq(Strings), IsInjective(map.sources),
         NEW i \in DOMAIN map.sources, NEW name, Resolve(map.root, name) = map.sources[i], NEW nullOnMissing
  PROVE  SourceContentFor(map, name, nullOnMissing) =
           Answer(IF map.contents = Null THEN Null
                  ELSE IF i \in DOMAIN map.contents THEN map.contents[i] ELSE Null)
<1>1. PICK s \in Strings : s = map.sources[i] /\ s \in Range(map.sources)
  BY DEF Range
<1>2. IndexOf(map.sources, s) + 1 = i
  <2>1. IndexOf(map.sources, s) = i - 1 /\ i \in Int
    BY <1>1, IndexIsBack
  <2>. QED BY <2>1
<1>3. PICK aliases \in Seq(Strings) : aliases = Aliases(map, s) /\ 1 \in DOMAIN aliases /\ aliases[1] = s
  BY AliasesAre
<1>4. PICK c : c = <<map.sources, aliases>> /\ c \in Seq(Strings) \X Seq(Strings) /\ c[1] = map.sources /\ c[2] = aliases
  <2>1. PICK sources \in Seq(Strings) : sources = map.sources
    OBVIOUS
  <2>2. <<sources, aliases>> \in Seq(Strings) \X Seq(Strings)
    OBVIOUS
  <2>. QED BY <2>1, <2>2
<1>5. FirstOf[c] = <<s>>
  <2>. DEFINE known == {k \in DOMAIN c[2] : c[2][k] \in Range(c[1])}
  <2>1. FirstOf[c] = IF known = {} THEN <<>> ELSE <<c[2][Min(known)]>>
    BY <1>4 DEF FirstOf
  <2>2. 1 \in known /\ \A k \in known : 1 <= k
    BY <1>1, <1>3, <1>4
  <2>3. Min(known) = 1
    <3>1. \A k \in known : k \in Int
      BY <1>3, <1>4
    <3>. HIDE DEF known
    <3>. QED BY <2>2, <3>1 DEF Min
  <2>. HIDE DEF known
  <2>. QED BY <1>3, <1>4, <2>1, <2>2, <2>3
<1>6. SourceContentFor(map, name, nullOnMissing) =
        IF map.contents = Null THEN Answer(Null)
        ELSE Answer(IF i \in DOMAIN map.contents THEN map.contents[i] ELSE Null)
  <2>1. PICK found : found = FirstOf[<<map.sources, Aliases(map, Resolve(map.root, name))>>]
    BY Zenon
  <2>2. found = <<s>>
    BY <1>1, <1>3, <1>4, <1>5, <2>1, Zenon
  <2>3. found # <<>> /\ found[1] = s
    BY <2>2
  <2>. QED BY <1>2, <2>1, <2>3 DEF SourceContentFor
<1>. QED BY <1>6

\* The consumer keeps the sources in their places, and what was set as their contents.
LEMMA MadeIs ==
  ASSUME ConsumerInv, stage = "ready", consumer.made.array # <<>>
  PROVE  LET made == consumer.made
         IN  /\ consumer.sources \in Seq(Strings) /\ consumer.root \in Strings \cup {Null}
             /\ made.sources \in Seq(Strings) /\ DOMAIN consumer.sources = DOMAIN made.sources
             /\ made.contents \in Contents
             /\ \/ consumer.contents = Null /\ DOMAIN made.contents = {}
                \/ consumer.contents = GenerateSourcesContent(made)
             /\ GenerateSourcesContent(made) \in Seq(Strings \cup {Null})
<1>1. consumer \in Consumers /\ IsMadeFrom(consumer, consumer.made)
  BY DEF ConsumerInv, Where, MadeInv
<1>2. PICK made : made = consumer.made
  BY Zenon
<1>3. made.sources \in Seq(Strings) /\ made.contents \in Contents
  BY <1>1, <1>2 DEF IsMadeFrom, IsGenerator, Generators, ArraySets
<1>4. consumer.sources \in Seq(Strings) /\ consumer.root \in Strings \cup {Null}
  BY <1>1 DEF Consumers
<1>5. DOMAIN consumer.sources = DOMAIN made.sources
  BY <1>1, <1>2 DEF IsMadeFrom
<1>6. \/ consumer.contents = Null /\ DOMAIN made.contents = {}
      \/ consumer.contents = GenerateSourcesContent(made)
  BY <1>1, <1>2 DEF IsMadeFrom
<1>7. GenerateSourcesContent(made) \in Seq(Strings \cup {Null})
  BY <1>1, <1>2, WrittenContentsAre DEF IsMadeFrom
<1>. QED BY <1>2, <1>3, <1>4, <1>5, <1>6, <1>7

\* The contents that were set are answered with.
LEMMA ConsumerContents ==
  ASSUME ConsumerInv
  PROVE  ContentsSurvive
<1>. DEFINE made == consumer.made
            Key(source) == Resolve(made.root, source)
<1>. SUFFICES ASSUME stage = "ready", made.array # <<>>, NamesLeadBack(consumer.root, consumer.sources)
              PROVE  /\ \A i \in DOMAIN made.sources :
                          SourceContentFor(Self, SourceNames(Self)[i], FALSE) =
                            Answer(IF Key(made.sources[i]) \in DOMAIN made.contents
                                     THEN made.contents[Key(made.sources[i])] ELSE Null)
                     /\ made.sources # <<>> => HasContentsOfAllSources(Self) =
                          (\A i \in DOMAIN made.sources : Key(made.sources[i]) \in DOMAIN made.contents)
  BY DEF ContentsSurvive
<1>1. /\ consumer.sources \in Seq(Strings) /\ consumer.root \in Strings \cup {Null}
      /\ made.sources \in Seq(Strings) /\ DOMAIN consumer.sources = DOMAIN made.sources
      /\ made.contents \in Contents
      /\ \/ consumer.contents = Null /\ DOMAIN made.contents = {}
         \/ consumer.contents = GenerateSourcesContent(made)
  BY MadeIs
<1>. HIDE DEF made
<1>2. /\ DOMAIN made.sources = 1..Len(made.sources) /\ Len(made.sources) \in Nat
      /\ Len(consumer.sources) = Len(made.sources)
  BY <1>1
<1>3. PICK D \in SUBSET Strings : made.contents \in [D -> Strings]
  BY <1>1 DEF Contents
<1>. DEFINE Content(i) == IF Key(made.sources[i]) \in DOMAIN made.contents
                            THEN made.contents[Key(made.sources[i])] ELSE Null
<1>4. GenerateSourcesContent(made) = [i \in DOMAIN made.sources |-> Content(i)]
  BY DEF GenerateSourcesContent
<1>5. \A i : (Content(i) = Null) <=> Key(made.sources[i]) \notin DOMAIN made.contents
  BY <1>3, NullAssumption
<1>6. Self.root = consumer.root /\ Self.sources = consumer.sources /\ Self.contents = consumer.contents
  BY DEF Self
<1>7. ASSUME NEW i \in DOMAIN made.sources
      PROVE  SourceContentFor(Self, SourceNames(Self)[i], FALSE) = Answer(Content(i))
  <2>1. SourceNames(Self)[i] = Show(consumer.root, consumer.sources[i])
    BY <1>1, <1>6, <1>7 DEF SourceNames
  <2>2. Resolve(consumer.root, SourceNames(Self)[i]) = consumer.sources[i]
    BY <1>1, <1>7, <2>1 DEF NamesLeadBack, Range
  <2>3. SourceContentFor(Self, SourceNames(Self)[i], FALSE) =
          Answer(IF consumer.contents = Null THEN Null
                 ELSE IF i \in DOMAIN consumer.contents THEN consumer.contents[i] ELSE Null)
    <3>1. IsInjective(Self.sources) /\ i \in DOMAIN Self.sources
      BY <1>1, <1>6, <1>7 DEF NamesLeadBack
    <3>. QED BY <1>1, <1>6, <2>2, <3>1, ContentIsFound
  <2>4. CASE consumer.contents = Null /\ DOMAIN made.contents = {}
    <3>1. Content(i) = Null
      BY <2>4
    <3>. HIDE DEF Content
    <3>. QED BY <2>3, <2>4, <3>1
  <2>5. CASE consumer.contents = GenerateSourcesContent(made)
    <3>. HIDE DEF Content
    <3>1. i \in DOMAIN consumer.contents /\ consumer.contents[i] = Content(i)
      BY <1>4, <1>7, <2>5
    <3>2. consumer.contents # Null
      BY <2>5, MadeIs, NoContentsAssumption DEF made
    <3>. QED BY <2>3, <3>1, <3>2
  <2>. QED BY <1>1, <2>4, <2>5
<1>8. ASSUME made.sources # <<>>
      PROVE  HasContentsOfAllSources(Self) =
               (\A i \in DOMAIN made.sources : Key(made.sources[i]) \in DOMAIN made.contents)
  <2>1. HasContentsOfAllSources(Self) =
          (/\ consumer.contents # Null
           /\ Len(consumer.contents) >= Cardinality(Range(consumer.sources))
           /\ Null \notin Range(consumer.contents))
    BY <1>6 DEF HasContentsOfAllSources
  <2>2. 1 \in DOMAIN made.sources
    BY <1>1, <1>8
  <2>3. CASE consumer.contents = Null /\ DOMAIN made.contents = {}
    BY <2>1, <2>2, <2>3
  <2>4. CASE consumer.contents = GenerateSourcesContent(made)
    <3>. HIDE DEF Content
    <3>1. consumer.contents # Null
      BY <2>4, MadeIs, NoContentsAssumption DEF made
    <3>2. consumer.contents = [i \in 1..Len(made.sources) |-> Content(i)]
      BY <1>2, <1>4, <2>4
    <3>3. Len(consumer.contents) = Len(made.sources)
      BY <1>2, <3>2
    <3>4. PICK n \in Nat : n = Cardinality(Range(consumer.sources)) /\ n <= Len(made.sources)
      <4>1. IsFiniteSet(1..Len(made.sources)) /\ Cardinality(1..Len(made.sources)) = Len(made.sources)
        BY <1>2, FS_Interval
      <4>2. consumer.sources \in Surjection(1..Len(made.sources), Range(consumer.sources))
        BY <1>1, <1>2 DEF Range, Surjection
      <4>3. /\ IsFiniteSet(Range(consumer.sources))
            /\ Cardinality(Range(consumer.sources)) <= Len(made.sources)
        BY <4>1, <4>2, FS_Surjection
      <4>. QED BY <4>3, FS_CardinalityType
    <3>5. Null \notin Range(consumer.contents) <=> \A i \in 1..Len(made.sources) : Content(i) # Null
      BY <3>2 DEF Range
    <3>7. Null \notin Range(consumer.contents) <=>
            \A i \in DOMAIN made.sources : Key(made.sources[i]) \in DOMAIN made.contents
      BY <1>2, <1>5, <3>5
    <3>8. Len(consumer.contents) >= Cardinality(Range(consumer.sources))
      BY <1>2, <3>3, <3>4
    <3>. QED BY <2>1, <3>1, <3>7, <3>8
  <2>. QED BY <1>1, <2>3, <2>4
<1>. QED BY <1>7, <1>8

(***************************************************************************)
(* The mappings.                                                           *)
(***************************************************************************)
\* s and n are the indices of the strings of m.
HasIndices(g, m, s, n) ==
  /\ Written(g, m) = [Told(m) EXCEPT !.source = s, !.name = n]
  /\ s + 1 \in DOMAIN g.sources /\ g.sources[s + 1] = m.source
  /\ m.name = Null => n = Null
  /\ m.name # Null => n # Null /\ g.names[n + 1] = m.name

\* What a generator's mapping becomes, in its consumer.
LEMMA WrittenIs ==
  ASSUME NEW g, IsMade(g), NEW m \in Range(g.array)
  PROVE  /\ m \in Lines /\ (m.source = Null => Written(g, m) = Told(m))
         /\ m.source # Null => \E s \in Int, n \in Int \cup {Null} : HasIndices(g, m, s, n)
<1>1. g.array \in Seq(Lines) /\ g.sources \in Seq(Strings) /\ g.names \in Seq(Strings)
  BY DEF IsMade
<1>2. PICK i \in DOMAIN g.array : m = g.array[i]
  BY DEF Range
<1>3. /\ m \in Lines
      /\ m.source # Null =>
           /\ m.source \in Range(g.sources)
           /\ m.name # Null => m.name \in Range(g.names)
  BY <1>2, LineType
<1>4. m.source = Null => Written(g, m) = Told(m)
  BY DEF Written
<1>5. ASSUME m.source # Null
      PROVE  \E s \in Int, n \in Int \cup {Null} : HasIndices(g, m, s, n)
  <2>1. PICK s \in Int : s = IndexOf(g.sources, m.source) /\ s + 1 \in DOMAIN g.sources /\ g.sources[s + 1] = m.source
    <3>1. IndexOf(g.sources, m.source) \in Nat
      BY <1>1, <1>3, <1>5, IndexOfIs
    <3>2. IndexOf(g.sources, m.source) + 1 \in DOMAIN g.sources /\ g.sources[IndexOf(g.sources, m.source) + 1] = m.source
      BY <1>1, <1>3, <1>5, IndexOfIs
    <3>. QED BY <3>1, <3>2
  <2>2. PICK n \in Int \cup {Null} :
          /\ m.name = Null => n = Null
          /\ m.name # Null => n # Null /\ n = IndexOf(g.names, m.name) /\ g.names[n + 1] = m.name
    <3>1. CASE m.name = Null
      BY <3>1
    <3>2. CASE m.name # Null
      <4>1. IndexOf(g.names, m.name) \in Nat
        BY <1>1, <1>3, <1>5, <3>2, IndexOfIs
      <4>2. g.names[IndexOf(g.names, m.name) + 1] = m.name
        BY <1>1, <1>3, <1>5, <3>2, IndexOfIs
      <4>. QED BY <3>2, <4>1, <4>2, NullAssumption
    <3>. QED BY <3>1, <3>2
  <2>3. n = IF m.name = Null THEN Null ELSE IndexOf(g.names, m.name)
    BY <2>2
  <2>4. Written(g, m) = [Told(m) EXCEPT !.source = s, !.name = n]
    <3>1. PICK t : t = Told(m)
      BY Zenon
    <3>2. t \in Sourced /\ t.source = m.source /\ t.name = m.name
      BY <1>3, <1>5, <3>1, ToldIs DEF Mapping
    <3>. QED BY <1>5, <2>1, <2>3, <3>1, <3>2, Zenon DEF Written
  <2>5. HasIndices(g, m, s, n)
    BY <1>3, <1>5, <2>1, <2>2, <2>4 DEF HasIndices
  <2>. QED BY <2>5
<1>. QED BY <1>3, <1>4, <1>5

\* fromSourceMap makes the same of it, if no string is empty.
LEMMA DeflatedIsWritten ==
  ASSUME NEW g, IsMade(g), NEW m \in Range(g.array), EmptyString \notin {m.source, m.name}
  PROVE  Deflate(g, m) = Written(g, m)
<1>1. CASE m.source = Null
  <2>1. Written(g, m) = Told(m) /\ m \in Lines
    BY <1>1, WrittenIs
  <2>2. Deflate(g, m) = Mapping(m.generatedLine, m.generatedColumn, Null, Null, Null, Null)
    BY <1>1 DEF Deflate
  <2>. QED BY <1>1, <2>1, <2>2, ToldIs
<1>2. CASE m.source # Null
  <2>1. m \in Sourced /\ Told(m) = m
    <3>1. m \in Sourced
      BY <1>2, WrittenIs DEF Lines, Unplaced
    <3>2. Num(m.originalLine) = m.originalLine /\ Num(m.originalColumn) = m.originalColumn
      BY <3>1, NullAssumption DEF Sourced, Num
    <3>. QED BY <1>2, <3>1, <3>2 DEF Told, Sourced
  <2>2. PICK n : n = IF m.name = Null THEN Null ELSE IndexOf(g.names, m.name)
    BY Zenon
  <2>3. n = IF m.name \in {Null, EmptyString} THEN Null ELSE IndexOf(g.names, m.name)
    BY <2>2
  <2>4. Deflate(g, m) = [m EXCEPT !.source = IndexOf(g.sources, @), !.name = n]
    BY <1>2, <2>1, <2>3 DEF Deflate, Sourced
  <2>5. Written(g, m) = [m EXCEPT !.source = IndexOf(g.sources, @), !.name = n]
    BY <1>2, <2>1, <2>2 DEF Written, Sourced
  <2>. QED BY <2>4, <2>5
<1>. QED BY <1>1, <1>2

\* A generator in its order whose numbers fit is well made.
LEMMA GeneratorIsWellMade ==
  ASSUME NEW g, IsGenerator(g), g.sorted, IsWritable(g), Fits(g)
  PROVE  WellMade(g)
<1>1. IsMade(g) /\ g.array \in Seq(Lines)
  BY GeneratorIsMade DEF IsMade
<1>2. DOMAIN g.array = 1..Len(g.array) /\ Len(g.array) \in Nat /\ \A i \in DOMAIN g.array : g.array[i] \in Range(g.array)
  BY <1>1 DEF Range
<1>3. /\ \A i \in DOMAIN g.array : g.array[i].generatedLine > 0
      /\ \A i, j \in DOMAIN g.array : i < j => NotAfter(g.array[i], g.array[j])
  BY DEF IsGenerator, IsInPlace
<1>4. \A i \in DOMAIN g.array : g.array[i].generatedLine \in Int /\ g.array[i].generatedColumn \in Int
  BY <1>1, LineType
<1>5. ASSUME NEW i \in DOMAIN g.array, NEW j \in 1..i
      PROVE  1 <= g.array[j].generatedLine /\ g.array[j].generatedLine <= g.array[i].generatedLine
  <2>1. j \in DOMAIN g.array /\ (j = i \/ j < i)
    BY <1>2
  <2>2. PICK a \in Int, b \in Int : a = g.array[j].generatedLine /\ b = g.array[i].generatedLine /\ a > 0
    BY <1>3, <1>4, <2>1
  <2>3. CASE j = i
    BY <2>2, <2>3
  <2>4. CASE j < i
    BY <1>3, <2>1, <2>2, <2>4 DEF NotAfter
  <2>. QED BY <2>1, <2>3, <2>4
<1>6. \A i \in DOMAIN g.array :
        {g.array[i].generatedColumn, Num(g.array[i].originalLine), Num(g.array[i].originalColumn)} \subseteq Short
  BY <1>2 DEF Fits
<1>. QED BY <1>1, <1>5, <1>6 DEF WellMade, IsMade, Fits

\* The consumer shows what its generator was told.
LEMMA ShownIs ==
  ASSUME NEW g, g = consumer.made, IsMade(g), IsMadeFrom(consumer, g), NEW m \in Range(g.array)
  PROVE  Inflate(Self, Written(g, m)) = Shown(m) /\ (Written(g, m).originalLine # Null <=> m.source # Null)
<1>1. Self.root = consumer.root /\ Self.sources = consumer.sources /\ Self.names = consumer.names
  BY DEF Self
<1>2. CASE m.source = Null
  <2>1. PICK t \in Bare : t = Told(m) /\ Written(g, m) = t /\ Shown(m) = t
    <3>1. Told(m) \in Bare /\ Written(g, m) = Told(m) /\ Shown(m) = Told(m)
      BY <1>2, WrittenIs, ToldIs DEF Shown
    <3>. QED BY <3>1, Zenon
  <2>2. Inflate(Self, t) = [t EXCEPT !.source = Null, !.name = Null]
    BY DEF Inflate, Bare
  <2>3. [t EXCEPT !.source = Null, !.name = Null] = t /\ t.originalLine = Null
    BY DEF Bare
  <2>. QED BY <1>2, <2>1, <2>2, <2>3
<1>3. CASE m.source # Null
  <2>0. PICK s \in Int, n \in Int \cup {Null} : HasIndices(g, m, s, n)
    BY <1>3, WrittenIs
  <2>1. PICK t \in Sourced :
          /\ t = Told(m) /\ t.source = m.source /\ t.name = m.name
          /\ Written(g, m) = [t EXCEPT !.source = s, !.name = n]
          /\ s + 1 \in DOMAIN g.sources /\ g.sources[s + 1] = m.source
          /\ m.name = Null => n = Null
          /\ m.name # Null => n # Null /\ g.names[n + 1] = m.name
    <3>1. PICK t : t = Told(m)
      BY Zenon
    <3>2. t \in Sourced /\ t.source = m.source /\ t.name = m.name
      BY <1>3, <3>1, WrittenIs, ToldIs DEF Mapping
    <3>. QED BY <2>0, <3>1, <3>2, Zenon DEF HasIndices
  <2>2. PICK k : k = [t EXCEPT !.source = s, !.name = n]
    BY Zenon
  <2>3. k.source = s /\ k.source # Null /\ k.name = n /\ k.originalLine # Null
    BY <2>1, <2>2, NullAssumption DEF Sourced
  <2>4. PICK source : source = IF consumer.text = <<>> THEN m.source ELSE Store(consumer.root, m.source)
    BY Zenon
  <2>5. consumer.sources[s + 1] = source
    BY <2>1, <2>4 DEF IsMadeFrom
  <2>6. Inflate(Self, k) = [k EXCEPT !.source = Show(consumer.root, source), !.name = m.name]
    <3>1. (IF k.source = Null THEN Null ELSE Show(Self.root, At(Self.sources, k.source))) = Show(consumer.root, source)
      BY <1>1, <2>3, <2>5 DEF At
    <3>2. (IF k.name = Null THEN Null ELSE At(Self.names, k.name)) = m.name
      <4>1. consumer.names = g.names
        BY DEF IsMadeFrom
      <4>. QED BY <1>1, <2>1, <2>3, <4>1 DEF At
    <3>3. PICK v, w : v = Show(consumer.root, source) /\ w = m.name
      BY Zenon
    <3>4. Inflate(Self, k) = [k EXCEPT !.source = v, !.name = w]
      <4>1. k \in [generatedLine : Int, generatedColumn : Int, source : Int, originalLine : Int, originalColumn : Int,
                   name : Int \cup {Null}]
        BY <2>1, <2>2 DEF Sourced
      <4>. QED BY <3>1, <3>2, <3>3, <4>1 DEF Inflate
    <3>. QED BY <3>3, <3>4
  <2>7. Shown(m) = [t EXCEPT !.source = Show(consumer.root, source)]
    <3>1. PICK v : v = Show(consumer.root, source)
      BY Zenon
    <3>2. Shown(m) = [t EXCEPT !.source = v]
      BY <1>3, <2>1, <2>4, <3>1 DEF Shown, Sourced
    <3>. QED BY <3>1, <3>2
  <2>8. \A v : [k EXCEPT !.source = v, !.name = m.name] = [t EXCEPT !.source = v]
    BY <2>1, <2>2 DEF Sourced
  <2>. QED BY <1>3, <2>1, <2>2, <2>3, <2>6, <2>7, <2>8
<1>. QED BY <1>2, <1>3

\* The mappings that were added are there.
LEMMA ConsumerMappings ==
  ASSUME ConsumerInv
  PROVE  MappingsSurvive
<1>. DEFINE made == Range(consumer.made.array)
<1>. SUFFICES ASSUME stage = "ready", made # {},
                     IF consumer.text # <<>> THEN Fits(consumer.made)
                     ELSE \A m \in made : EmptyString \notin {m.source, m.name}
              PROVE  /\ {Inflate(Self, m) : m \in Range(generated)} = {Shown(m) : m \in made}
                     /\ {Inflate(Self, m) : m \in Range(original)}
                          = {Shown(m) : m \in {k \in made : k.source # Null}}
  BY DEF MappingsSurvive
<1>1. PICK g : g = consumer.made
  BY Zenon
<1>2. g.array # <<>>
  BY <1>1 DEF Range
<1>3. ListsInv /\ IsMadeFrom(consumer, g)
  BY <1>1, <1>2 DEF ConsumerInv, Where, MadeInv
<1>4. IsGenerator(g) /\ g.sorted /\ IsWritable(g) /\ IsMade(g)
  BY <1>3, GeneratorIsMade DEF IsMadeFrom
<1>5. Range(generated) = {Written(g, m) : m \in Range(g.array)}
  <2>1. Range(generated) = MappingsOf(consumer)
    BY <1>1, <1>2, <1>3 DEF ListsInv
  <2>2. CASE consumer.text = <<>>
    <3>1. Range(generated) = {Deflate(g, m) : m \in Range(g.array)}
      BY <1>1, <2>1, <2>2 DEF MappingsOf
    <3>2. \A m \in Range(g.array) : Deflate(g, m) = Written(g, m)
      BY <1>1, <1>4, <2>2, DeflatedIsWritten
    <3>. QED BY <3>1, <3>2
  <2>3. CASE consumer.text # <<>>
    <3>1. consumer.text = SerializeMappings(g)
      BY <1>3, <2>3 DEF IsMadeFrom
    <3>2. WellMade(g)
      BY <1>1, <1>4, <2>3, GeneratorIsWellMade
    <3>3. Range(Parse(consumer.text).mappings) = {Written(g, m) : m \in Range(g.array)}
      BY <3>1, <3>2, TextSurvives
    <3>. QED BY <2>1, <2>3, <3>3 DEF MappingsOf
  <2>. QED BY <2>2, <2>3
<1>6. \A m \in Range(g.array) : /\ Inflate(Self, Written(g, m)) = Shown(m)
                                /\ Written(g, m).originalLine # Null <=> m.source # Null
  BY <1>1, <1>3, <1>4, ShownIs
<1>7. Range(original) = {k \in Range(generated) : k.originalLine # Null}
  BY <1>3 DEF ListsInv
<1>8. made = Range(g.array)
  BY <1>1
<1>. HIDE DEF made
<1>9. {Inflate(Self, m) : m \in Range(generated)} = {Shown(m) : m \in made}
  BY <1>5, <1>6, <1>8
<1>10. {Inflate(Self, m) : m \in Range(original)} = {Shown(m) : m \in {k \in made : k.source # Null}}
  BY <1>5, <1>6, <1>7, <1>8
<1>. QED BY <1>9, <1>10

\* What was added to the generator is what its consumer has: no mapping is lost
\* or made up on the way through SourceMapGenerator, its text and the parsing of
\* it, the names of the sources lead back to what was added, and so do the
\* contents that setSourceContent was given.
THEOREM ConsumerMapSurvives == ConsumerSpec => []MapSurvives
<1>1. ConsumerInv => MapSurvives
  BY ConsumerMappings, ConsumerContents DEF MapSurvives
<1>. QED BY <1>1, ConsumerInvariant, PTL

===============================================================================
