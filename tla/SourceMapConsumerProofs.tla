----------------------- MODULE SourceMapConsumerProofs ------------------------
(***************************************************************************)
(* Proofs about the consumer of a source map: that a search in a sorted    *)
(* array finds the nearest element, that a quicksort whose pivots are      *)
(* drawn at random sorts, and that the answers to the three questions are  *)
(* the nearest mappings, for any mappings and any questions.               *)
(***************************************************************************)
EXTENDS SourceMapConsumer, Recursion, FiniteSetTheorems, SequenceTheorems

(***************************************************************************)
(* Positions are totally ordered.                                          *)
(***************************************************************************)
LEMMA CompareIsInt ==
  ASSUME NEW p \in Positions, NEW q \in Positions
  PROVE  ComparePositions(p, q) \in Int
BY DEF Positions, ComparePositions

\* Two positions compare opposite ways, and equal only when they are the same.
LEMMA CompareIsAntisymmetric ==
  ASSUME NEW p \in Positions, NEW q \in Positions
  PROVE  /\ ComparePositions(p, q) > 0 <=> ComparePositions(q, p) < 0
         /\ ComparePositions(p, q) = 0 <=> p = q
BY DEF Positions, ComparePositions

\* The order of positions is transitive, and strict if one of its steps is.
LEMMA CompareIsTransitive ==
  ASSUME NEW p \in Positions, NEW q \in Positions, NEW r \in Positions,
         ComparePositions(p, q) <= 0, ComparePositions(q, r) <= 0
  PROVE  /\ ComparePositions(p, r) <= 0
         /\ ComparePositions(p, q) < 0 => ComparePositions(p, r) < 0
         /\ ComparePositions(q, r) < 0 => ComparePositions(p, r) < 0
BY DEF Positions, ComparePositions

(***************************************************************************)
(* The inductive invariant.  While the search halves, what is at low and   *)
(* before it is less than the needle, what is at high and after it is      *)
(* greater, and something is left in between.  While it steps back, the    *)
(* element at index is a nearest one.                                      *)
(***************************************************************************)
Element(i) == haystack[i]
Length == Len(haystack)

Narrows ==
  turn = "halve" =>
    /\ high - low > 1
    /\ \A i \in 1..low : ComparePositions(Element(i), needle) < 0
    /\ \A i \in high..Length : ComparePositions(needle, Element(i)) < 0

IsNearest(i) ==
  /\ i \in 1..Length /\ Admits(Element(i))
  /\ \A j \in 1..Length : Admits(Element(j)) => Nearer(Element(i), Element(j))

SearchInv ==
  /\ SearchTypeOK
  /\ IsAscending(haystack)
  /\ Narrows
  /\ turn = "back" => IsNearest(index)
  /\ SearchIsExact

\* The middle is an element, and neither of the bounds.
LEMMA MidIsBetween ==
  ASSUME SearchTypeOK, high - low > 1
  PROVE  /\ Mid \in 1..Length /\ Mid \in Int
         /\ low < Mid /\ Mid < high
BY DEF SearchTypeOK, Mid, Length

\* What a call of recursiveSearch returns is a nearest element, or none is.
LEMMA ResultIsNearest ==
  ASSUME SearchInv, NEW i \in 0..Length,
         i = 0 => \A j \in 1..Length : ~Admits(Element(j)),
         i > 0 => IsNearest(i),
         Found(i)
  PROVE  SearchInv'
<1>. USE DEF Found, Element, Length
<1>1. SearchTypeOK' /\ IsAscending(haystack)'
  BY DEF SearchInv, SearchTypeOK, IsAscending
<1>2. Narrows'
  BY DEF Narrows
<1>3. (turn = "back" => IsNearest(index))'
  BY DEF IsNearest, Admits, Nearer
<1>4. SearchIsExact'
  <2>1. turn' = "done" => i = 0
    OBVIOUS
  <2>. QED BY <2>1 DEF SearchIsExact, Admits
<1>. QED BY <1>1, <1>2, <1>3, <1>4 DEF SearchInv

\* An element equal to the needle is a nearest one, on either side.
LEMMA NeedleIsNearest ==
  ASSUME SearchTypeOK, NEW i \in 1..Length, ComparePositions(needle, Element(i)) = 0
  PROVE  IsNearest(i)
<1>1. Element(i) \in Positions /\ needle \in Positions
  BY DEF SearchTypeOK, Element, Length
<1>2. Element(i) = needle
  BY <1>1, CompareIsAntisymmetric
<1>. QED BY <1>1, <1>2, CompareIsAntisymmetric DEF IsNearest, Admits, Nearer

\* Two neighbours with the needle between them: each is nearest on its side.
LEMMA NeighboursAreNearest ==
  ASSUME SearchTypeOK, IsAscending(haystack),
         NEW l \in 0..Length,
         \A i \in 1..l : ComparePositions(Element(i), needle) < 0,
         \A i \in (l+1)..Length : ComparePositions(needle, Element(i)) < 0
  PROVE  /\ bias = "GREATEST_LOWER_BOUND" =>
              IF l = 0 THEN \A j \in 1..Length : ~Admits(Element(j)) ELSE IsNearest(l)
         /\ bias = "LEAST_UPPER_BOUND" =>
              IF l = Length THEN \A j \in 1..Length : ~Admits(Element(j)) ELSE IsNearest(l+1)
<1>1. /\ needle \in Positions /\ Length \in Nat
      /\ \A i \in 1..Length : Element(i) \in Positions
  BY DEF SearchTypeOK, Element, Length
<1>2. \A i \in 1..l : /\ ComparePositions(Element(i), needle) <= 0
                      /\ ~(ComparePositions(needle, Element(i)) <= 0)
  BY <1>1, CompareIsInt, CompareIsAntisymmetric
<1>3. \A i \in (l+1)..Length : /\ ComparePositions(needle, Element(i)) <= 0
                             /\ ~(ComparePositions(Element(i), needle) <= 0)
  BY <1>1, CompareIsInt, CompareIsAntisymmetric
<1>4. \A i, j \in 1..Length : i <= j => ComparePositions(Element(i), Element(j)) <= 0
  <2>. SUFFICES ASSUME NEW i \in 1..Length, NEW j \in 1..Length, i <= j
                PROVE  ComparePositions(Element(i), Element(j)) <= 0
    OBVIOUS
  <2>1. CASE i = j
    BY <1>1, <2>1, CompareIsAntisymmetric
  <2>2. CASE i < j
    BY <2>2 DEF IsAscending, Element, Length
  <2>. QED BY <2>1, <2>2
<1>5. ASSUME bias = "GREATEST_LOWER_BOUND"
      PROVE  IF l = 0 THEN \A j \in 1..Length : ~Admits(Element(j)) ELSE IsNearest(l)
  <2>1. \A j \in 1..Length : Admits(Element(j)) <=> j <= l
    BY <1>1, <1>2, <1>3, <1>5 DEF Admits
  <2>. QED BY <1>1, <1>4, <1>5, <2>1 DEF IsNearest, Nearer
<1>6. ASSUME bias = "LEAST_UPPER_BOUND"
      PROVE  IF l = Length THEN \A j \in 1..Length : ~Admits(Element(j)) ELSE IsNearest(l+1)
  <2>1. \A j \in 1..Length : Admits(Element(j)) <=> l < j
    BY <1>1, <1>2, <1>3, <1>6 DEF Admits
  <2>. QED BY <1>1, <1>4, <1>6, <2>1 DEF IsNearest, Nearer
<1>. QED BY <1>5, <1>6

\* A search that is called begins with all elements between its bounds.
LEMMA SearchKeeps ==
  ASSUME SearchInv, NEW p \in Positions, NEW h \in Seq(Positions), NEW b \in Biases,
         IsAscending(h), Search(p, h, b)
  PROVE  SearchInv'
<1>. USE DEF Search, Element, Length
<1>1. SearchTypeOK' /\ IsAscending(haystack)'
  BY DEF SearchInv, SearchTypeOK, IsAscending
<1>2. Narrows'
  BY DEF Narrows
<1>3. SearchIsExact'
  BY DEF SearchIsExact
<1>. QED BY <1>1, <1>2, <1>3 DEF SearchInv

\* A call of recursiveSearch leaves the needle between the bounds, or returns.
LEMMA RecursiveSearchKeeps ==
  ASSUME SearchInv, RecursiveSearch
  PROVE  SearchInv'
<1>. DEFINE cmp == ComparePositions(needle, Element(Mid))
<1>1. /\ SearchTypeOK /\ IsAscending(haystack) /\ turn = "halve"
      /\ high - low > 1
      /\ \A i \in 1..low : ComparePositions(Element(i), needle) < 0
      /\ \A i \in high..Length : ComparePositions(needle, Element(i)) < 0
  BY DEF SearchInv, RecursiveSearch, Narrows
<1>2. /\ Mid \in 1..Length /\ low < Mid /\ Mid < high
      /\ low \in 0..Length /\ high \in 0..(Length + 1) /\ Length \in Nat
      /\ bias \in Biases
      /\ needle \in Positions /\ \A i \in 1..Length : Element(i) \in Positions
  BY <1>1, MidIsBetween DEF SearchTypeOK, Element, Length
<1>3. cmp \in Int
  BY <1>2, CompareIsInt
<1>4. CASE cmp = 0 /\ Found(Mid)
  BY <1>1, <1>2, <1>4, NeedleIsNearest, ResultIsNearest
<1>5. CASE cmp > 0 /\ AboveMid
  <2>1. \A i \in 1..Mid : ComparePositions(Element(i), needle) < 0
    <3>. SUFFICES ASSUME NEW i \in 1..Mid
                  PROVE  ComparePositions(Element(i), needle) < 0
      OBVIOUS
    <3>1. ComparePositions(Element(Mid), needle) < 0
      BY <1>2, <1>5, CompareIsAntisymmetric
    <3>2. CASE i = Mid
      BY <3>1, <3>2
    <3>3. CASE i < Mid
      <4>1. ComparePositions(Element(i), Element(Mid)) <= 0
        BY <1>1, <1>2, <3>3 DEF IsAscending, Element, Length
      <4>. QED BY <1>2, <3>1, <4>1, CompareIsInt, CompareIsTransitive
    <3>. QED BY <1>2, <3>2, <3>3
  <2>2. CASE high - Mid > 1
    <3>. USE DEF Element, Length
    <3>1. low' = Mid /\ UNCHANGED <<haystack, needle, bias, high, index, turn>>
      BY <1>5, <2>2 DEF AboveMid
    <3>2. SearchTypeOK' /\ IsAscending(haystack)'
      <4>1. SearchTypeOK'
        BY <1>1, <1>2, <3>1 DEF SearchTypeOK
      <4>. QED BY <1>1, <3>1, <4>1 DEF IsAscending
    <3>3. Narrows'
      BY <1>1, <2>1, <2>2, <3>1 DEF Narrows
    <3>. QED BY <1>1, <3>1, <3>2, <3>3 DEF SearchInv, SearchIsExact
  <2>3. CASE ~(high - Mid > 1)
    <3>1. Mid + 1 = high
      BY <1>2, <2>3 DEF SearchTypeOK
    <3>2. /\ bias = "GREATEST_LOWER_BOUND" => IsNearest(Mid)
          /\ bias = "LEAST_UPPER_BOUND" =>
               IF Mid = Length THEN \A j \in 1..Length : ~Admits(Element(j)) ELSE IsNearest(high)
      BY <1>1, <1>2, <2>1, <3>1, NeighboursAreNearest
    <3>3. CASE bias = "GREATEST_LOWER_BOUND"
      <4>1. Found(Mid)
        BY <1>5, <2>3, <3>3 DEF AboveMid
      <4>. QED BY <1>2, <3>2, <3>3, <4>1, ResultIsNearest
    <3>4. CASE bias = "LEAST_UPPER_BOUND" /\ high <= Length
      <4>1. Found(high)
        BY <1>5, <2>3, <3>4 DEF AboveMid, Length
      <4>. QED BY <1>2, <3>1, <3>2, <3>4, <4>1, ResultIsNearest
    <3>5. CASE bias = "LEAST_UPPER_BOUND" /\ ~(high <= Length)
      <4>1. Found(0) /\ Mid = Length
        BY <1>2, <1>5, <2>3, <3>1, <3>5 DEF AboveMid, Length
      <4>. QED BY <1>2, <3>2, <3>5, <4>1, ResultIsNearest
    <3>. QED BY <1>2, <3>3, <3>4, <3>5 DEF Biases
  <2>. QED BY <2>2, <2>3
<1>6. CASE cmp < 0 /\ BelowMid
  <2>1. \A i \in Mid..Length : ComparePositions(needle, Element(i)) < 0
    <3>. SUFFICES ASSUME NEW i \in Mid..Length
                  PROVE  ComparePositions(needle, Element(i)) < 0
      OBVIOUS
    <3>1. CASE i = Mid
      BY <1>6, <3>1
    <3>2. CASE i > Mid
      <4>1. ComparePositions(Element(Mid), Element(i)) <= 0 /\ i \in 1..Length
        BY <1>1, <1>2, <3>2 DEF IsAscending, Element, Length
      <4>. QED BY <1>2, <1>3, <1>6, <4>1, CompareIsInt, CompareIsTransitive
    <3>. QED BY <1>2, <3>1, <3>2
  <2>2. CASE Mid - low > 1
    <3>. USE DEF Element, Length
    <3>1. high' = Mid /\ UNCHANGED <<haystack, needle, bias, low, index, turn>>
      BY <1>6, <2>2 DEF BelowMid
    <3>2. SearchTypeOK' /\ IsAscending(haystack)'
      <4>1. SearchTypeOK'
        BY <1>1, <1>2, <3>1 DEF SearchTypeOK
      <4>. QED BY <1>1, <3>1, <4>1 DEF IsAscending
    <3>3. Narrows'
      BY <1>1, <2>1, <2>2, <3>1 DEF Narrows
    <3>. QED BY <1>1, <3>1, <3>2, <3>3 DEF SearchInv, SearchIsExact
  <2>3. CASE ~(Mid - low > 1)
    <3>1. Mid = low + 1
      BY <1>2, <2>3 DEF SearchTypeOK
    <3>2. /\ bias = "GREATEST_LOWER_BOUND" =>
               IF low = 0 THEN \A j \in 1..Length : ~Admits(Element(j)) ELSE IsNearest(low)
          /\ bias = "LEAST_UPPER_BOUND" => IsNearest(Mid)
      BY <1>1, <1>2, <2>1, <3>1, NeighboursAreNearest
    <3>3. CASE bias = "GREATEST_LOWER_BOUND"
      <4>1. Found(low)
        BY <1>6, <2>3, <3>3 DEF BelowMid
      <4>. QED BY <1>2, <3>2, <3>3, <4>1, ResultIsNearest
    <3>4. CASE bias = "LEAST_UPPER_BOUND"
      <4>1. Found(Mid)
        BY <1>6, <2>3, <3>4 DEF BelowMid
      <4>. QED BY <1>2, <3>2, <3>4, <4>1, ResultIsNearest
    <3>. QED BY <1>2, <3>3, <3>4 DEF Biases
  <2>. QED BY <2>2, <2>3
<1>. QED BY <1>4, <1>5, <1>6 DEF RecursiveSearch, Element

\* A turn of the loop goes on to an equal element, or ends on the first of them.
LEMMA StepBackKeeps ==
  ASSUME SearchInv, StepBack
  PROVE  SearchInv'
<1>1. /\ SearchTypeOK /\ IsAscending(haystack) /\ turn = "back" /\ IsNearest(index)
      /\ index \in 1..Length /\ Length \in Nat
      /\ \A i \in 1..Length : Element(i) \in Positions
  BY DEF SearchInv, StepBack, IsNearest, SearchTypeOK, Element, Length
<1>2. UNCHANGED <<haystack, needle, bias, low, high>>
  BY DEF StepBack
<1>3. CASE index > 1 /\ ComparePositions(Element(index), Element(index-1)) = 0
  <2>1. index' = index - 1 /\ turn' = "back"
    BY <1>1, <1>3 DEF StepBack, Element
  <2>2. Element(index-1) = Element(index) /\ index - 1 \in 1..Length
    BY <1>1, <1>3, CompareIsAntisymmetric
  <2>3. IsNearest(index-1)
    BY <1>1, <2>2 DEF IsNearest
  <2>4. IsNearest(index)'
    BY <1>2, <2>1, <2>3 DEF IsNearest, Admits, Nearer, Element, Length
  <2>5. SearchTypeOK'
    BY <1>1, <1>2, <2>1, <2>2 DEF SearchTypeOK, Length
  <2>. QED BY <1>1, <1>2, <2>1, <2>4, <2>5
           DEF SearchInv, Narrows, SearchIsExact, IsAscending
<1>4. CASE ~(index > 1 /\ ComparePositions(Element(index), Element(index-1)) = 0)
  <2>1. index' = index /\ turn' = "done"
    BY <1>1, <1>4 DEF StepBack, Element
  <2>2. ASSUME NEW i \in 1..(index-1)
        PROVE  ComparePositions(Element(i), Element(index)) < 0
    <3>1. index - 1 \in 1..Length /\ i \in 1..Length /\ index > 1
      BY <1>1
    <3>2. /\ ComparePositions(Element(index-1), Element(index)) <= 0
          /\ i < index - 1 => ComparePositions(Element(i), Element(index-1)) <= 0
      BY <1>1, <3>1 DEF IsAscending, Element, Length
    <3>3. ComparePositions(Element(index-1), Element(index)) < 0
      <4>1. Element(index-1) # Element(index)
        BY <1>1, <1>4, <3>1, CompareIsAntisymmetric
      <4>. QED BY <1>1, <3>1, <3>2, <4>1, CompareIsInt, CompareIsAntisymmetric
    <3>4. CASE i = index - 1
      BY <3>3, <3>4
    <3>5. CASE i < index - 1
      BY <1>1, <3>1, <3>2, <3>3, <3>5, CompareIsTransitive
    <3>. QED BY <1>1, <3>4, <3>5
  <2>3. SearchIsExact'
    BY <1>1, <1>2, <2>1, <2>2 DEF SearchIsExact, IsNearest, Admits, Nearer, Element, Length
  <2>4. SearchTypeOK'
    BY <1>1, <1>2, <2>1 DEF SearchTypeOK
  <2>. QED BY <1>1, <1>2, <2>1, <2>3, <2>4 DEF SearchInv, Narrows, IsAscending
<1>. QED BY <1>3, <1>4

\* A search that is forgotten leaves nothing.
LEMMA ReturnKeeps ==
  ASSUME SearchInv, Return
  PROVE  SearchInv'
BY DEF SearchInv, Return, SearchTypeOK, Positions, Biases, IsAscending, Narrows,
       SearchIsExact

\* No search is under way at first.
LEMMA SearchBegins == SearchInit => SearchInv
BY DEF SearchInit, SearchInv, SearchTypeOK, Positions, Biases, IsAscending,
       Narrows, SearchIsExact

\* A step of others leaves the search as it is.
LEMMA SearchStays ==
  ASSUME SearchInv, UNCHANGED searchVars
  PROVE  SearchInv'
BY DEF searchVars, SearchInv, SearchTypeOK, IsAscending, Narrows,
       IsNearest, SearchIsExact, Admits, Nearer, Element, Length

\* The invariant holds in any search of a sorted array.
LEMMA SearchInvariant == SearchSpec => []SearchInv
<1>1. SearchInit => SearchInv
  BY SearchBegins
<1>2. SearchInv /\ [SearchNext]_searchVars => SearchInv'
  <2>. SUFFICES ASSUME SearchInv, [SearchNext]_searchVars PROVE SearchInv'
    OBVIOUS
  <2>1. CASE \E p \in Positions, h \in Seq(Positions), b \in Biases :
               IsAscending(h) /\ Search(p, h, b)
    BY <2>1, SearchKeeps
  <2>2. CASE RecursiveSearch
    BY <2>2, RecursiveSearchKeeps
  <2>3. CASE StepBack
    BY <2>3, StepBackKeeps
  <2>4. CASE Return
    BY <2>4, ReturnKeeps
  <2>5. CASE UNCHANGED searchVars
    BY <2>5, SearchStays
  <2>. QED BY <2>1, <2>2, <2>3, <2>4, <2>5 DEF SearchNext, SearchStep
<1>. QED BY <1>1, <1>2, PTL DEF SearchSpec

\* In any sorted array a search ends on the first of the nearest elements.
THEOREM SearchExact == SearchSpec => []SearchIsExact
<1>1. SearchInv => SearchIsExact
  BY DEF SearchInv
<1>. QED BY <1>1, SearchInvariant, PTL

\* A search gets shorter with every step, in any array and with any needle.
THEOREM SearchGetsShorter == SearchSpec => SearchAdvances
<1>1. SearchInv /\ [SearchNext]_searchVars =>
        [/\ turn = "halve" /\ turn' = "halve" => high' - low' \in 2..(high-low-1)
         /\ turn = "back" /\ turn' = "back" => index' \in 1..(index-1)]_searchVars
  <2>. SUFFICES ASSUME SearchInv, SearchNext
                PROVE  /\ turn = "halve" /\ turn' = "halve" =>
                            high' - low' \in 2..(high-low-1)
                       /\ turn = "back" /\ turn' = "back" => index' \in 1..(index-1)
    BY DEF searchVars
  <2>1. CASE RecursiveSearch
    <3>1. SearchTypeOK /\ high - low > 1 /\ turn = "halve"
      BY <2>1 DEF SearchInv, Narrows, RecursiveSearch
    <3>2. Mid \in Int /\ low < Mid /\ Mid < high
      BY <3>1, MidIsBetween
    <3>. QED BY <2>1, <3>1, <3>2
             DEF RecursiveSearch, AboveMid, BelowMid, Found, SearchTypeOK
  <2>2. CASE StepBack
    BY <2>2 DEF StepBack, SearchInv, SearchTypeOK
  <2>3. CASE ~(RecursiveSearch \/ StepBack)
    BY <2>3 DEF SearchNext, SearchStep, Search, Return
  <2>. QED BY <2>1, <2>2, <2>3
<1>. QED BY <1>1, SearchInvariant, PTL DEF SearchSpec, SearchAdvances

(***************************************************************************)
(* A consumer on its own, from where its mappings have been read or copied *)
(* on: any mappings, and any questions.                                    *)
(***************************************************************************)
AnyQuestions ==
  [kind : {"original"}, line : Int, column : Int, bias : Biases]
    \cup [kind : {"generated"}, source : Strings, line : Int, column : Int, bias : Biases]
    \cup [kind : {"all"}, source : Strings, line : Int, column : Int \cup {Null}]

\* Copied mappings come in the generated order.
ReadInit ==
  /\ program \in Programs /\ generator = NewGenerator(program.root) /\ SearchInit
  /\ \E text \in Seq(Int), sources, names \in Seq(Strings), root \in Strings \cup {Null} :
       consumer = SourceMap(text, sources, names, root, Null, <<>>, NewGenerator(Null))
  /\ generated \in Seq(Located \cup Bare) /\ original \in Seq(Located)
  /\ Range(original) = {m \in Range(generated) : m.originalLine # Null}
  /\ \/ stage = "sort generated" /\ ranges = Call(1, Len(generated))
     \/ /\ stage = "sort original" /\ ranges = Call(1, Len(original))
        /\ IsAscending(GeneratedPositions(Self))
  /\ spanned = FALSE /\ back = "none" /\ question = NoQuestion /\ answer = NoAnswer

ReadNext ==
  \/ SortGenerated \/ SortOriginal \/ SortEnds
  \/ \E q \in AnyQuestions : Ask(q)
  \/ SearchOn \/ Reply \/ GoOn \/ ComputeColumnSpans

ReadSpec == ReadInit /\ [][ReadNext]_vars

(***************************************************************************)
(* The comparators of the two sorts are orders.                            *)
(***************************************************************************)


\* A comparator with six differences returns the first that is not 0.
LEMMA FirstDifferenceIs ==
  ASSUME NEW a \in Int, NEW b \in Int, NEW c \in Int,
         NEW d \in Int, NEW e \in Int, NEW f \in Int
  PROVE  FirstDifference(<<a, b, c, d, e, f>>) =
           IF a # 0 THEN a ELSE IF b # 0 THEN b ELSE IF c # 0 THEN c
           ELSE IF d # 0 THEN d ELSE IF e # 0 THEN e ELSE f
<1>. DEFINE ds == <<a, b, c, d, e, f>>
            differs == {i \in DOMAIN ds : ds[i] # 0}
            Least(i) == \A j \in differs : i <= j
            first == CHOOSE i \in differs : Least(i)
<1>1. DOMAIN ds = 1..6 /\ ds[1] = a /\ ds[2] = b /\ ds[3] = c /\ ds[4] = d /\ ds[5] = e /\ ds[6] = f
  OBVIOUS
<1>2. FirstDifference(ds) = IF differs = {} THEN 0 ELSE ds[first]
  BY DEF FirstDifference
<1>. DEFINE result == IF a # 0 THEN a ELSE IF b # 0 THEN b ELSE IF c # 0 THEN c
                      ELSE IF d # 0 THEN d ELSE IF e # 0 THEN e ELSE f
<1>. SUFFICES FirstDifference(ds) = result
  OBVIOUS
<1>. HIDE DEF ds
<1>3. \A i \in differs : Least(i) => first = i
  <2>. SUFFICES ASSUME NEW i \in differs, Least(i) PROVE first = i
    OBVIOUS
  <2>1. first \in differs /\ Least(first)
    <3>. HIDE DEF Least, differs
    <3>. QED OBVIOUS
  <2>2. i \in Int /\ first \in Int /\ i <= first /\ first <= i
    BY <1>1, <2>1
  <2>. HIDE DEF first
  <2>. QED BY <2>2
<1>. HIDE DEF first
<1>4. differs \subseteq 1..6 /\ \A i \in 1..6 : i \in differs <=> ds[i] # 0
  BY <1>1
<1>5. ASSUME NEW i \in 1..6, ds[i] # 0, \A j \in 1..(i-1) : ds[j] = 0
      PROVE  FirstDifference(ds) = ds[i]
  <2>1. i \in differs /\ \A j \in differs : i <= j
    BY <1>4, <1>5
  <2>. QED BY <1>2, <1>3, <2>1
<1>6. CASE a # 0
  <2>1. \A j \in 1..(1-1) : ds[j] = 0
    BY <1>1, <1>6
  <2>2. 1 \in 1..6 /\ ds[1] # 0 /\ result = ds[1]
    BY <1>1, <1>6
  <2>. HIDE DEF result
  <2>. QED BY <1>5, <2>1, <2>2
<1>7. CASE a = 0 /\ b # 0
  <2>1. \A j \in 1..(2-1) : ds[j] = 0
    BY <1>1, <1>7
  <2>2. 2 \in 1..6 /\ ds[2] # 0 /\ result = ds[2]
    BY <1>1, <1>7
  <2>. HIDE DEF result
  <2>. QED BY <1>5, <2>1, <2>2
<1>8. CASE a = 0 /\ b = 0 /\ c # 0
  <2>1. \A j \in 1..(3-1) : ds[j] = 0
    BY <1>1, <1>8
  <2>2. 3 \in 1..6 /\ ds[3] # 0 /\ result = ds[3]
    BY <1>1, <1>8
  <2>. HIDE DEF result
  <2>. QED BY <1>5, <2>1, <2>2
<1>9. CASE a = 0 /\ b = 0 /\ c = 0 /\ d # 0
  <2>1. \A j \in 1..(4-1) : ds[j] = 0
    BY <1>1, <1>9
  <2>2. 4 \in 1..6 /\ ds[4] # 0 /\ result = ds[4]
    BY <1>1, <1>9
  <2>. HIDE DEF result
  <2>. QED BY <1>5, <2>1, <2>2
<1>10. CASE a = 0 /\ b = 0 /\ c = 0 /\ d = 0 /\ e # 0
  <2>1. \A j \in 1..(5-1) : ds[j] = 0
    BY <1>1, <1>10
  <2>2. 5 \in 1..6 /\ ds[5] # 0 /\ result = ds[5]
    BY <1>1, <1>10
  <2>. HIDE DEF result
  <2>. QED BY <1>5, <2>1, <2>2
<1>11. CASE a = 0 /\ b = 0 /\ c = 0 /\ d = 0 /\ e = 0 /\ f # 0
  <2>1. \A j \in 1..(6-1) : ds[j] = 0
    BY <1>1, <1>11
  <2>2. 6 \in 1..6 /\ ds[6] # 0 /\ result = ds[6]
    BY <1>1, <1>11
  <2>. HIDE DEF result
  <2>. QED BY <1>5, <2>1, <2>2
<1>12. CASE a = 0 /\ b = 0 /\ c = 0 /\ d = 0 /\ e = 0 /\ f = 0
  <2>1. \A i \in 1..6 : ds[i] = 0
    BY <1>1, <1>12
  <2>. QED BY <1>2, <1>4, <1>12, <2>1
<1>. QED BY <1>6, <1>7, <1>8, <1>9, <1>10, <1>11, <1>12

\* Null counts as a number in a subtraction.
LEMMA NumIsInt ==
  ASSUME NEW x \in Int \cup {Null}
  PROVE  Num(x) \in Int
BY DEF Num

\* The first of six differences that is not 0.
First(a, b, c, d, e, f) ==
  IF a # 0 THEN a ELSE IF b # 0 THEN b ELSE IF c # 0 THEN c
  ELSE IF d # 0 THEN d ELSE IF e # 0 THEN e ELSE f

\* The comparators that the two sorts are called with, by their differences.
LEMMA ComparatorsAre ==
  ASSUME NEW m \in Entries, NEW n \in Entries
  PROVE  /\ CompareByOriginalPositions(m, n) = First(
              Num(m.source) - Num(n.source),
              Num(m.originalLine) - Num(n.originalLine),
              Num(m.originalColumn) - Num(n.originalColumn),
              m.generatedColumn - n.generatedColumn,
              m.generatedLine - n.generatedLine,
              Num(m.name) - Num(n.name))
         /\ CompareByGeneratedPositionsDeflated(m, n) = First(
              m.generatedLine - n.generatedLine,
              m.generatedColumn - n.generatedColumn,
              Num(m.source) - Num(n.source),
              Num(m.originalLine) - Num(n.originalLine),
              Num(m.originalColumn) - Num(n.originalColumn),
              Num(m.name) - Num(n.name))
<1>1. \A k \in Entries : /\ Num(k.source) \in Int /\ Num(k.originalLine) \in Int
                         /\ Num(k.originalColumn) \in Int /\ Num(k.name) \in Int
                         /\ k.generatedLine \in Int /\ k.generatedColumn \in Int
                         /\ Num(k.generatedLine) = k.generatedLine
                         /\ Num(k.generatedColumn) = k.generatedColumn
  BY NullAssumption DEF Entries, Located, Bare, Num
<1>2. \A a, b, c, d, e, f \in Int : FirstDifference(<<a, b, c, d, e, f>>) = First(a, b, c, d, e, f)
  BY FirstDifferenceIs DEF First
<1>. DEFINE s == Num(m.source) - Num(n.source)
            l == Num(m.originalLine) - Num(n.originalLine)
            c == Num(m.originalColumn) - Num(n.originalColumn)
            gc == m.generatedColumn - n.generatedColumn
            gl == m.generatedLine - n.generatedLine
            nm == Num(m.name) - Num(n.name)
<1>3. s \in Int /\ l \in Int /\ c \in Int /\ gc \in Int /\ gl \in Int /\ nm \in Int
  BY <1>1
<1>4. CompareByOriginalPositions(m, n) = FirstDifference(<<s, l, c, gc, gl, nm>>)
  BY <1>1 DEF CompareByOriginalPositions, Difference
<1>5. CompareByGeneratedPositionsDeflated(m, n) = FirstDifference(<<gl, gc, s, l, c, nm>>)
  BY <1>1 DEF CompareByGeneratedPositionsDeflated, Difference
<1>. HIDE DEF s, l, c, gc, gl, nm
<1>6. FirstDifference(<<s, l, c, gc, gl, nm>>) = First(s, l, c, gc, gl, nm)
  BY <1>2, <1>3
<1>7. FirstDifference(<<gl, gc, s, l, c, nm>>) = First(gl, gc, s, l, c, nm)
  BY <1>2, <1>3
<1>. QED BY <1>4, <1>5, <1>6, <1>7 DEF s, l, c, gc, gl, nm

\* The comparator of either sort is an order.
LEMMA CompareIsOrder ==
  ASSUME NEW a \in Entries, NEW b \in Entries, NEW c \in Entries
  PROVE  /\ Compare(a, b) \in Int
         /\ Compare(a, b) > 0 => Compare(b, a) <= 0
         /\ Compare(a, a) <= 0
         /\ Compare(a, b) <= 0 /\ Compare(b, c) <= 0 => Compare(a, c) <= 0
<1>. DEFINE a1 == Num(a.source)
            a2 == Num(a.originalLine)
            a3 == Num(a.originalColumn)
            a4 == a.generatedColumn
            a5 == a.generatedLine
            a6 == Num(a.name)
            b1 == Num(b.source)
            b2 == Num(b.originalLine)
            b3 == Num(b.originalColumn)
            b4 == b.generatedColumn
            b5 == b.generatedLine
            b6 == Num(b.name)
            c1 == Num(c.source)
            c2 == Num(c.originalLine)
            c3 == Num(c.originalColumn)
            c4 == c.generatedColumn
            c5 == c.generatedLine
            c6 == Num(c.name)
<1>1. /\ a1 \in Int /\ a2 \in Int /\ a3 \in Int /\ a4 \in Int /\ a5 \in Int /\ a6 \in Int
      /\ b1 \in Int /\ b2 \in Int /\ b3 \in Int /\ b4 \in Int /\ b5 \in Int /\ b6 \in Int
      /\ c1 \in Int /\ c2 \in Int /\ c3 \in Int /\ c4 \in Int /\ c5 \in Int /\ c6 \in Int
  BY NullAssumption DEF Entries, Located, Bare, Num
<1>2. CASE stage = "sort generated"
  <2>1. /\ Compare(a, b) = First(a5 - b5, a4 - b4, a1 - b1, a2 - b2, a3 - b3, a6 - b6)
        /\ Compare(b, a) = First(b5 - a5, b4 - a4, b1 - a1, b2 - a2, b3 - a3, b6 - a6)
        /\ Compare(b, c) = First(b5 - c5, b4 - c4, b1 - c1, b2 - c2, b3 - c3, b6 - c6)
        /\ Compare(a, c) = First(a5 - c5, a4 - c4, a1 - c1, a2 - c2, a3 - c3, a6 - c6)
        /\ Compare(a, a) = First(a5 - a5, a4 - a4, a1 - a1, a2 - a2, a3 - a3, a6 - a6)
    BY <1>2, ComparatorsAre DEF Compare
  <2>. HIDE DEF a1, a2, a3, a4, a5, a6, b1, b2, b3, b4, b5, b6, c1, c2, c3, c4, c5, c6
  <2>2. Compare(a, b) \in Int /\ Compare(a, a) <= 0
    BY <1>1, <2>1 DEF First
  <2>3. Compare(a, b) > 0 => Compare(b, a) <= 0
    BY <1>1, <2>1 DEF First
  <2>4. Compare(a, b) <= 0 /\ Compare(b, c) <= 0 => Compare(a, c) <= 0
    BY <1>1, <2>1, SMTT(60) DEF First
  <2>. QED BY <2>2, <2>3, <2>4
<1>3. CASE stage # "sort generated"
  <2>1. /\ Compare(a, b) = First(a1 - b1, a2 - b2, a3 - b3, a4 - b4, a5 - b5, a6 - b6)
        /\ Compare(b, a) = First(b1 - a1, b2 - a2, b3 - a3, b4 - a4, b5 - a5, b6 - a6)
        /\ Compare(b, c) = First(b1 - c1, b2 - c2, b3 - c3, b4 - c4, b5 - c5, b6 - c6)
        /\ Compare(a, c) = First(a1 - c1, a2 - c2, a3 - c3, a4 - c4, a5 - c5, a6 - c6)
        /\ Compare(a, a) = First(a1 - a1, a2 - a2, a3 - a3, a4 - a4, a5 - a5, a6 - a6)
    BY <1>3, ComparatorsAre DEF Compare
  <2>. HIDE DEF a1, a2, a3, a4, a5, a6, b1, b2, b3, b4, b5, b6, c1, c2, c3, c4, c5, c6
  <2>2. Compare(a, b) \in Int /\ Compare(a, a) <= 0
    BY <1>1, <2>1 DEF First
  <2>3. Compare(a, b) > 0 => Compare(b, a) <= 0
    BY <1>1, <2>1 DEF First
  <2>4. Compare(a, b) <= 0 /\ Compare(b, c) <= 0 => Compare(a, c) <= 0
    BY <1>1, <2>1, SMTT(60) DEF First
  <2>. QED BY <2>2, <2>3, <2>4
<1>. QED BY <1>2, <1>3

\* One turn of the loop in doQuickSort, for the sequence t whose pivot is at r.
Turn(t, r, out, j) ==
  IF Compare(out.ary[j], t[r]) <= 0
    THEN [ary |-> Swap(out.ary, out.i + 1, j), i |-> out.i + 1] ELSE out

\* f is what MapThenFoldSet applies to the sets of positions in sets.
Folds(t, r, f, base, seq, sets) ==
  f = [s \in sets |-> IF s = {} THEN base
                      ELSE Turn(t, r, f[s \ {Greatest(s)}], seq[Greatest(s)])]

\* The sets of the first n positions.
UpTo(n) == SUBSET (1..n)

\* There is such a fold over the positions of any sequence.
LEMMA FoldExists ==
  ASSUME NEW t, NEW r, NEW base, NEW seq, NEW n \in Nat
  PROVE  \E f : Folds(t, r, f, base, seq, UpTo(n))
<1>. USE DEF UpTo
<1>. DEFINE Some(k) == \E f : Folds(t, r, f, base, seq, SUBSET (1..k))
            P == {k \in Nat : Some(k)}
<1>1. Some(0)
  <2>1. SUBSET (1..0) = {{}}
    OBVIOUS
  <2>2. Folds(t, r, [s \in {{}} |-> base], base, seq, SUBSET (1..0))
    BY <2>1 DEF Folds
  <2>. QED BY <2>2
<1>2. ASSUME NEW k \in Nat, Some(k) PROVE Some(k + 1)
  <2>1. PICK f : Folds(t, r, f, base, seq, SUBSET (1..k))
    BY <1>2
  <2>. DEFINE g == [s \in SUBSET (1..(k+1)) |->
                      IF s = {} THEN base ELSE Turn(t, r, f[s \ {Greatest(s)}], seq[Greatest(s)])]
  <2>2. ASSUME NEW s \in SUBSET (1..(k+1)), s # {}
        PROVE  s \ {Greatest(s)} \in SUBSET (1..k)
    <3>1. Greatest(s) \in s /\ \A i \in s : Greatest(s) >= i
      <4>. HIDE DEF g
      <4>1. k + 1 \in Nat
        OBVIOUS
      <4>. QED BY <2>2, <4>1, GreatestIs
    <3>2. ASSUME NEW i \in s \ {Greatest(s)} PROVE i \in 1..k
      <4>1. i \in 1..(k+1) /\ Greatest(s) \in 1..(k+1) /\ Greatest(s) >= i /\ i # Greatest(s)
        BY <3>1, <3>2
      <4>. HIDE DEF g
      <4>. QED BY <4>1
    <3>. QED BY <3>2
  <2>3. \A s \in SUBSET (1..k) : s \in SUBSET (1..(k+1))
    OBVIOUS
  <2>4. \A s \in SUBSET (1..k) : g[s] = f[s]
    BY <2>1, <2>3 DEF Folds
  <2>5. \A s \in SUBSET (1..(k+1)) : s # {} => g[s \ {Greatest(s)}] = f[s \ {Greatest(s)}]
    <3>. HIDE DEF g
    <3>. QED BY <2>2, <2>4
  <2>6. Folds(t, r, g, base, seq, SUBSET (1..(k+1)))
    BY <2>5 DEF Folds
  <2>. QED BY <2>6
<1>3. Nat \subseteq P
  <2>. HIDE DEF Some
  <2>1. 0 \in P /\ \A k \in Nat : k \in P => k + 1 \in P
    BY <1>1, <1>2
  <2>. HIDE DEF P
  <2>. QED BY <2>1, Induction
<1>. QED BY <1>3

\* h has what Op makes of base with the first elements of seq, one after another.
Accumulates(t, r, h, base, seq, n) ==
  /\ h[0] = base
  /\ \A i \in 1..n : h[i] = Turn(t, r, h[i-1], seq[i])

\* A fold from the left applies Op to what it has and the next element.
LEMMA FoldIs ==
  ASSUME NEW t, NEW r, NEW base, NEW seq, NEW n \in Nat, NEW f, Folds(t, r, f, base, seq, UpTo(n))
  PROVE  \E h : Accumulates(t, r, h, base, seq, n) /\ h[n] = f[1..n]
<1>. USE DEF UpTo
<1>. DEFINE h == [i \in 0..n |-> f[1..i]]
<1>2. \A s \in SUBSET (1..n) :
        f[s] = IF s = {} THEN base ELSE Turn(t, r, f[s \ {Greatest(s)}], seq[Greatest(s)])
  BY DEF Folds
<1>3. h[0] = base
  <2>1. 1..0 = {} /\ 1..0 \in SUBSET (1..n)
    OBVIOUS
  <2>2. f[1..0] = base
    BY <1>2, <2>1
  <2>. QED BY <2>2
<1>4. ASSUME NEW i \in 1..n PROVE h[i] = Turn(t, r, h[i-1], seq[i])
  <2>1. 1..i \in SUBSET (1..n) /\ 1..i # {} /\ i \in Nat /\ i > 0
    OBVIOUS
  <2>2. (1..i) \ {i} = 1..(i-1)
    OBVIOUS
  <2>3. Greatest(1..i) = i
    BY <2>1, GreatestIs
  <2>4. f[1..i] = Turn(t, r, f[1..(i-1)], seq[i])
    BY <1>2, <2>1, <2>2, <2>3
  <2>5. i \in 0..n /\ i - 1 \in 0..n
    OBVIOUS
  <2>. QED BY <2>4, <2>5
<1>5. h[n] = f[1..n]
  OBVIOUS
<1>. HIDE DEF h
<1>. QED BY <1>3, <1>4, <1>5 DEF Accumulates

\* h is what the turns over t do, of which a partition makes out.
PartitionedBy(h, t, p, r, out) ==
  /\ Accumulates(t, r, h, [ary |-> t, i |-> p - 1], [k \in 1..(r-p) |-> p + k - 1], r - p)
  /\ out = [ary |-> Swap(h[r-p].ary, h[r-p].i + 1, r), i |-> h[r-p].i + 1]

\* The loop of a partition, turn by turn.
LEMMA PartitionIs ==
  ASSUME NEW s, NEW p \in Int, NEW r \in Int, p < r, NEW pivot
  PROVE  \E h : PartitionedBy(h, Swap(s, pivot, r), p, r, Partition(s, p, r, pivot))
<1>. DEFINE t == Swap(s, pivot, r)
<1>. DEFINE base == [ary |-> t, i |-> p - 1]
            seq == [k \in 1..(r-p) |-> p + k - 1]
            f == CHOOSE f : Folds(t, r, f, base, seq, UpTo(r-p))
<1>0. r - p \in Nat
  OBVIOUS
<1>1. Folds(t, r, f, base, seq, UpTo(r-p))
  <2>. HIDE DEF base, seq, t
  <2>. QED BY <1>0, FoldExists
<1>2. Partition(s, p, r, pivot) =
        [ary |-> Swap(f[1..(r-p)].ary, f[1..(r-p)].i + 1, r), i |-> f[1..(r-p)].i + 1]
  BY DEF Partition, Turn, FoldLeft, MapThenFoldSet, Max, Folds, Greatest, UpTo
<1>. HIDE DEF f, seq, base, t
<1>3. \E h : Accumulates(t, r, h, base, seq, r - p) /\ h[r-p] = f[1..(r-p)]
  <2>. DEFINE n == r - p
  <2>1. n \in Nat /\ Folds(t, r, f, base, seq, UpTo(n))
    BY <1>0, <1>1
  <2>. HIDE DEF n
  <2>2. \E h : Accumulates(t, r, h, base, seq, n) /\ h[n] = f[1..n]
    BY <2>1, FoldIs
  <2>. QED BY <2>2 DEF n
<1>4. PICK h : Accumulates(t, r, h, base, seq, r - p) /\ h[r-p] = f[1..(r-p)]
  BY <1>3
<1>5. PartitionedBy(h, t, p, r, Partition(s, p, r, pivot))
  BY <1>2, <1>4 DEF base, seq, PartitionedBy
<1>. QED BY <1>5 DEF t

\* u has the elements of s, those from p to r in an order of its own.
Rearranges(s, u, p, r) ==
  /\ u \in Seq(Entries) /\ Len(u) = Len(s)
  /\ \A k \in 1..Len(s) : k \notin p..r => u[k] = s[k]
  /\ \A k \in p..r : \E l \in p..r : u[k] = s[l]
  /\ \A k \in p..r : \E l \in p..r : s[k] = u[l]

\* What a swap leaves where.
LEMMA SwapIs ==
  ASSUME NEW s \in Seq(Entries), NEW x \in 1..Len(s), NEW y \in 1..Len(s)
  PROVE  /\ Swap(s, x, y) \in Seq(Entries) /\ Len(Swap(s, x, y)) = Len(s)
         /\ Swap(s, x, y)[x] = s[y] /\ Swap(s, x, y)[y] = s[x]
         /\ \A k \in 1..Len(s) : k \notin {x, y} => Swap(s, x, y)[k] = s[k]
BY DEF Swap

\* A swap within a part of the list rearranges it.
LEMMA SwapRearranges ==
  ASSUME NEW s \in Seq(Entries), NEW p \in 1..Len(s), NEW r \in 1..Len(s),
         NEW x \in p..r, NEW y \in p..r
  PROVE  Rearranges(s, Swap(s, x, y), p, r)
<1>. DEFINE u == Swap(s, x, y)
<1>1. x \in 1..Len(s) /\ y \in 1..Len(s)
  OBVIOUS
<1>2. /\ u \in Seq(Entries) /\ Len(u) = Len(s)
      /\ u[x] = s[y] /\ u[y] = s[x]
      /\ \A k \in 1..Len(s) : k \notin {x, y} => u[k] = s[k]
  BY <1>1, SwapIs
<1>. HIDE DEF u
<1>3. p..r \subseteq 1..Len(s)
  OBVIOUS
<1>. QED BY <1>2, <1>3 DEF Rearranges, u

\* Two rearrangements of a part are one.
LEMMA RearrangingTwice ==
  ASSUME NEW s, NEW t, NEW u, NEW p, NEW r, Rearranges(s, t, p, r), Rearranges(t, u, p, r)
  PROVE  Rearranges(s, u, p, r)
<1>. DEFINE D == p..r
<1>1. /\ \A k \in D : (\E l \in D : t[k] = s[l]) /\ (\E l \in D : s[k] = t[l])
      /\ \A k \in D : (\E l \in D : u[k] = t[l]) /\ (\E l \in D : t[k] = u[l])
  BY DEF Rearranges
<1>. HIDE DEF D
<1>2. \A k \in D : \E l \in D : u[k] = s[l]
  <2>. SUFFICES ASSUME NEW k \in D PROVE \E l \in D : u[k] = s[l]
    OBVIOUS
  <2>1. PICK m \in D : u[k] = t[m]
    BY <1>1
  <2>2. PICK l \in D : t[m] = s[l]
    BY <1>1
  <2>. QED BY <2>1, <2>2
<1>3. \A k \in D : \E l \in D : s[k] = u[l]
  <2>. SUFFICES ASSUME NEW k \in D PROVE \E l \in D : s[k] = u[l]
    OBVIOUS
  <2>1. PICK m \in D : s[k] = t[m]
    BY <1>1
  <2>2. PICK l \in D : t[m] = u[l]
    BY <1>1
  <2>. QED BY <2>1, <2>2
<1>. QED BY <1>2, <1>3 DEF Rearranges, D

\* A wider range may stay in order, too.
LEMMA RearrangingWider ==
  ASSUME NEW s, NEW u, NEW p \in Int, NEW q \in Int, NEW r \in Int, q <= r, 1 <= p, r <= Len(s),
         Len(s) \in Nat, Rearranges(s, u, p, q)
  PROVE  Rearranges(s, u, p, r)
<1>1. \A k \in p..r : k \in 1..Len(s) /\ (k \in p..q \/ k \notin p..q)
  OBVIOUS
<1>2. \A k \in p..q : k \in p..r
  OBVIOUS
<1>3. \A k \in p..r : \E l \in p..r : u[k] = s[l]
  BY <1>1, <1>2 DEF Rearranges
<1>4. \A k \in p..r : \E l \in p..r : s[k] = u[l]
  BY <1>1, <1>2 DEF Rearranges
<1>. QED BY <1>2, <1>3, <1>4 DEF Rearranges

\* What the turns have done, before that with j.
Parted(t, p, r, out, j) ==
  /\ out.i \in (p-1)..(j-1)
  /\ Rearranges(t, out.ary, p, r - 1)
  /\ \A x \in p..out.i : Compare(out.ary[x], t[r]) <= 0
  /\ \A x \in (out.i+1)..(j-1) : Compare(out.ary[x], t[r]) > 0

\* A turn of the loop has one element more on its side of the pivot.
LEMMA TurnParts ==
  ASSUME NEW t \in Seq(Entries), NEW p \in 1..Len(t), NEW r \in 1..Len(t), NEW j \in p..(r-1),
         NEW out, Parted(t, p, r, out, j)
  PROVE  Parted(t, p, r, Turn(t, r, out, j), j + 1)
<1>. DEFINE i == out.i
            u == out.ary
            v == Swap(u, i + 1, j)
<1>1. /\ i \in (p-1)..(j-1) /\ u \in Seq(Entries) /\ Len(u) = Len(t)
      /\ Rearranges(t, u, p, r - 1)
      /\ \A x \in p..i : Compare(u[x], t[r]) <= 0
      /\ \A x \in (i+1)..(j-1) : Compare(u[x], t[r]) > 0
  BY DEF Parted, Rearranges
<1>2. Compare(u[j], t[r]) \in Int
  <2>1. u[j] \in Entries /\ t[r] \in Entries
    BY <1>1
  <2>. QED BY <2>1, CompareIsOrder
<1>. HIDE DEF i, u
<1>3. CASE Compare(u[j], t[r]) <= 0
  <2>1. Turn(t, r, out, j).ary = v /\ Turn(t, r, out, j).i = i + 1
    BY <1>3 DEF Turn, i, u
  <2>2. /\ v[i+1] = u[j] /\ v[j] = u[i+1]
        /\ \A k \in 1..Len(u) : k \notin {i+1, j} => v[k] = u[k]
    <3>1. i + 1 \in 1..Len(u) /\ j \in 1..Len(u)
      BY <1>1
    <3>. HIDE DEF v
    <3>. QED BY <1>1, <3>1, SwapIs DEF v
  <2>3. Rearranges(u, v, p, r - 1)
    <3>1. p \in 1..Len(u) /\ r - 1 \in 1..Len(u) /\ i + 1 \in p..(r-1) /\ j \in p..(r-1)
      BY <1>1
    <3>. HIDE DEF v
    <3>. QED BY <1>1, <3>1, SwapRearranges DEF v
  <2>. HIDE DEF v
  <2>4. Rearranges(t, v, p, r - 1)
    BY <1>1, <2>3, RearrangingTwice
  <2>5. ASSUME NEW x \in p..(i+1) PROVE Compare(v[x], t[r]) <= 0
    <3>1. CASE x = i + 1
      BY <1>3, <2>2, <3>1
    <3>2. CASE x # i + 1
      <4>1. x \in p..i /\ x \in 1..Len(u) /\ x \notin {i+1, j}
        BY <1>1, <3>2
      <4>. QED BY <1>1, <2>2, <4>1
    <3>. QED BY <3>1, <3>2
  <2>6. ASSUME NEW x \in (i+2)..j PROVE Compare(v[x], t[r]) > 0
    <3>1. CASE x = j
      <4>1. i + 1 \in (i+1)..(j-1)
        BY <1>1, <3>1
      <4>. QED BY <1>1, <2>2, <3>1, <4>1
    <3>2. CASE x # j
      <4>1. x \in (i+1)..(j-1) /\ x \in 1..Len(u) /\ x \notin {i+1, j}
        BY <1>1, <3>2
      <4>. QED BY <1>1, <2>2, <4>1
    <3>. QED BY <3>1, <3>2
  <2>7. i + 1 \in (p-1)..((j+1)-1) /\ (i + 1) + 1 = i + 2 /\ (j + 1) - 1 = j
    BY <1>1
  <2>. QED BY <2>1, <2>4, <2>5, <2>6, <2>7 DEF Parted
<1>4. CASE ~(Compare(u[j], t[r]) <= 0)
  <2>1. Turn(t, r, out, j) = out
    BY <1>4 DEF Turn, u
  <2>2. ASSUME NEW x \in (i+1)..j PROVE Compare(u[x], t[r]) > 0
    <3>1. CASE x = j
      BY <1>2, <1>4, <3>1
    <3>2. CASE x # j
      <4>1. x \in (i+1)..(j-1)
        BY <1>1, <3>2
      <4>. QED BY <1>1, <4>1
    <3>. QED BY <3>1, <3>2
  <2>3. i \in (p-1)..((j+1)-1) /\ (j + 1) - 1 = j
    BY <1>1
  <2>. QED BY <1>1, <2>1, <2>2, <2>3 DEF Parted, i, u
<1>. QED BY <1>3, <1>4

\* So have all turns: at its end the loop has divided what is before the pivot.
LEMMA TurnsPart ==
  ASSUME NEW t \in Seq(Entries), NEW p \in 1..Len(t), NEW r \in 1..Len(t), p < r, NEW h,
         Accumulates(t, r, h, [ary |-> t, i |-> p - 1], [k \in 1..(r-p) |-> p + k - 1], r - p)
  PROVE  Parted(t, p, r, h[r-p], r)
<1>. DEFINE P == {n \in Nat : n <= r - p => Parted(t, p, r, h[n], p + n)}
            seq == [k \in 1..(r-p) |-> p + k - 1]
<1>1. 0 \in P
  <2>1. h[0].ary = t /\ h[0].i = p - 1
    BY DEF Accumulates
  <2>2. Rearranges(t, t, p, r - 1)
    BY DEF Rearranges
  <2>3. p - 1 \in (p-1)..((p+0)-1) /\ p..(p-1) = {} /\ ((p-1)+1)..((p+0)-1) = {}
    OBVIOUS
  <2>. QED BY <2>1, <2>2, <2>3 DEF Parted
<1>2. ASSUME NEW n \in Nat, n \in P PROVE n + 1 \in P
  <2>. SUFFICES ASSUME n + 1 <= r - p PROVE Parted(t, p, r, h[n+1], p + (n + 1))
    OBVIOUS
  <2>1. Parted(t, p, r, h[n], p + n)
    BY <1>2
  <2>2. n + 1 \in 1..(r-p) /\ (n + 1) - 1 = n /\ seq[n+1] = p + n
    OBVIOUS
  <2>3. h[n+1] = Turn(t, r, h[n], p + n)
    <3>. HIDE DEF seq
    <3>1. h[n+1] = Turn(t, r, h[(n+1)-1], seq[n+1])
      BY <2>2 DEF Accumulates, seq
    <3>. QED BY <2>2, <3>1
  <2>4. p + n \in p..(r-1) /\ (p + n) + 1 = p + (n + 1)
    OBVIOUS
  <2>. QED BY <2>1, <2>3, <2>4, TurnParts
<1>. HIDE DEF P
<1>3. Nat \subseteq P
  BY <1>1, <1>2, Induction
<1>. QED BY <1>3 DEF P

\* doQuickSort leaves the pivot at its place: before it is what is not greater,
\* after it what is not less.
LEMMA PartitionWorks ==
  ASSUME NEW s \in Seq(Entries), NEW p \in 1..Len(s), NEW r \in 1..Len(s), p < r,
         NEW pivot \in p..r, NEW out, out = Partition(s, p, r, pivot)
  PROVE  /\ out.i \in p..r /\ Rearranges(s, out.ary, p, r)
         /\ \A x \in p..(out.i-1) : Compare(out.ary[x], out.ary[out.i]) <= 0
         /\ \A x \in (out.i+1)..r : Compare(out.ary[out.i], out.ary[x]) <= 0
<1>. DEFINE t == Swap(s, pivot, r)
<1>1. t \in Seq(Entries) /\ Len(t) = Len(s) /\ Rearranges(s, t, p, r)
  <2>1. pivot \in 1..Len(s) /\ r \in p..r
    OBVIOUS
  <2>. HIDE DEF t
  <2>. QED BY <2>1, SwapIs, SwapRearranges DEF t
<1>2. PICK h : PartitionedBy(h, t, p, r, out)
  <2>1. p \in Int /\ r \in Int
    OBVIOUS
  <2>. QED BY <2>1, PartitionIs
<1>. HIDE DEF t
<1>. DEFINE i == h[r-p].i
            u == h[r-p].ary
            v == Swap(u, i + 1, r)
<1>3. Parted(t, p, r, h[r-p], r)
  BY <1>1, <1>2, TurnsPart DEF PartitionedBy
<1>4. /\ i \in (p-1)..(r-1) /\ u \in Seq(Entries) /\ Len(u) = Len(s)
      /\ Rearranges(t, u, p, r - 1) /\ u[r] = t[r]
      /\ \A x \in p..i : Compare(u[x], t[r]) <= 0
      /\ \A x \in (i+1)..(r-1) : Compare(u[x], t[r]) > 0
  <2>1. r \notin p..(r-1)
    OBVIOUS
  <2>. QED BY <1>1, <1>3, <2>1 DEF Parted, Rearranges
<1>5. out.ary = v /\ out.i = i + 1
  BY <1>2 DEF PartitionedBy
<1>. HIDE DEF i, u
<1>6. /\ v[i+1] = u[r] /\ v[r] = u[i+1]
      /\ \A k \in 1..Len(u) : k \notin {i+1, r} => v[k] = u[k]
  <2>1. i + 1 \in 1..Len(u) /\ r \in 1..Len(u)
    BY <1>4
  <2>. HIDE DEF v
  <2>. QED BY <1>4, <2>1, SwapIs DEF v
<1>7. Rearranges(s, v, p, r)
  <2>1. Rearranges(t, u, p, r)
    <3>1. p \in Int /\ r - 1 \in Int /\ r \in Int /\ r - 1 <= r /\ 1 <= p /\ r <= Len(t) /\ Len(t) \in Nat
      BY <1>1
    <3>. QED BY <1>4, <3>1, RearrangingWider
  <2>2. Rearranges(u, v, p, r)
    <3>1. p \in 1..Len(u) /\ r \in 1..Len(u) /\ i + 1 \in p..r /\ r \in p..r
      BY <1>4
    <3>. HIDE DEF v
    <3>. QED BY <1>4, <3>1, SwapRearranges DEF v
  <2>. QED BY <1>1, <2>1, <2>2, RearrangingTwice
<1>. HIDE DEF v
<1>8. i + 1 \in p..r
  BY <1>4
<1>9. ASSUME NEW x \in p..i PROVE Compare(v[x], v[i+1]) <= 0
  <2>1. x \in 1..Len(u) /\ x \notin {i+1, r}
    BY <1>4
  <2>. QED BY <1>4, <1>6, <2>1
<1>10. ASSUME NEW x \in (i+2)..r PROVE Compare(v[i+1], v[x]) <= 0
  <2>1. \A k \in 1..Len(u) : u[k] \in Entries
    BY <1>4
  <2>2. t[r] \in Entries
    BY <1>1
  <2>3. PICK k \in (i+1)..(r-1) : v[x] = u[k]
    <3>1. CASE x = r
      <4>1. i + 1 \in (i+1)..(r-1)
        BY <1>4, <3>1
      <4>. QED BY <1>6, <3>1, <4>1
    <3>2. CASE x # r
      <4>1. x \in (i+1)..(r-1) /\ x \in 1..Len(u) /\ x \notin {i+1, r}
        BY <1>4, <3>2
      <4>. QED BY <1>6, <4>1
    <3>. QED BY <3>1, <3>2
  <2>4. u[k] \in Entries /\ Compare(u[k], t[r]) > 0
    <3>1. k \in 1..Len(u)
      BY <1>4
    <3>. QED BY <1>4, <2>1, <3>1
  <2>. QED BY <1>4, <1>6, <2>2, <2>3, <2>4, CompareIsOrder
<1>11. (i + 1) - 1 = i /\ (i + 1) + 1 = i + 2
  BY <1>4
<1>. QED BY <1>5, <1>7, <1>8, <1>9, <1>10, <1>11

\* Two calls are for parts that have no element in common.
Apart(c, d) == c.r < d.p \/ d.r < c.p

\* Calls for parts of a list of n elements.
CallsOf(n) == [p : 1..n, r : 1..n]

\* They are for parts that lie apart.
AreApart(rs, n) ==
  /\ rs \in Seq(CallsOf(n))
  /\ \A k \in 1..Len(rs) : rs[k].p < rs[k].r
  /\ \A k, l \in 1..Len(rs) : k # l => Apart(rs[k], rs[l])

\* The calls rs are left for a list: two elements that are not in order are in the
\* same part.
Pending(s, rs) ==
  /\ s \in Seq(Entries) /\ AreApart(rs, Len(s))
  /\ \A x, y \in 1..Len(s) : x < y =>
       \/ Compare(s[x], s[y]) <= 0
       \/ \E k \in 1..Len(rs) : x \in rs[k].p..rs[k].r /\ y \in rs[k].p..rs[k].r

\* The first call is for the whole list.
LEMMA FirstCallIsForAll ==
  ASSUME NEW s \in Seq(Entries)
  PROVE  LET rs == Call(1, Len(s))
         IN  /\ AreApart(rs, Len(s))
             /\ \A x, y \in 1..Len(s) : x < y =>
                  \E k \in 1..Len(rs) : x \in rs[k].p..rs[k].r /\ y \in rs[k].p..rs[k].r
<1>. USE DEF CallsOf
<1>. DEFINE n == Len(s)
            c == [p |-> 1, r |-> n]
            rs == Call(1, n)
<1>1. n \in Nat /\ 1..n \in SUBSET Nat
  OBVIOUS
<1>2. CASE 1 < n
  <2>1. c \in [p : 1..n, r : 1..n] /\ c.p = 1 /\ c.r = n
    BY <1>1, <1>2
  <2>2. rs = <<c>>
    BY <1>2 DEF Call
  <2>. HIDE DEF c, rs
  <2>3. rs \in Seq(CallsOf(n)) /\ Len(rs) = 1 /\ rs[1] = c
    BY <2>1, <2>2
  <2>4. \A k \in 1..Len(rs) : k = 1
    BY <2>3
  <2>. HIDE DEF n
  <2>5. \A k \in 1..Len(rs) : rs[k].p < rs[k].r
    BY <1>2, <2>1, <2>3, <2>4
  <2>6. \A k, l \in 1..Len(rs) : k # l => Apart(rs[k], rs[l])
    BY <2>4
  <2>7. \A x, y \in 1..n : 1 \in 1..Len(rs) /\ x \in rs[1].p..rs[1].r /\ y \in rs[1].p..rs[1].r
    BY <1>1, <2>1, <2>3
  <2>. QED BY <2>3, <2>5, <2>6, <2>7 DEF AreApart, n, rs
<1>3. CASE ~(1 < n)
  <2>1. rs = << >> /\ \A x, y \in 1..n : ~(x < y)
    BY <1>1, <1>3 DEF Call
  <2>. HIDE DEF rs
  <2>2. rs \in Seq(CallsOf(n)) /\ 1..Len(rs) = {}
    BY <2>1
  <2>. QED BY <2>1, <2>2 DEF AreApart, n, rs
<1>. QED BY <1>2, <1>3

\* Before the first call any two elements may be out of order.
LEMMA PendingAtFirst ==
  ASSUME NEW s \in Seq(Entries)
  PROVE  Pending(s, Call(1, Len(s)))
BY FirstCallIsForAll DEF Pending

\* The calls us follow on the first one of rs, whose part was divided at i: there
\* are those for its two sides that have something to sort, and the others.
Follow(us, rs, i, n) ==
  /\ AreApart(us, n)
  /\ rs[1].p < i - 1 => \E k \in 1..Len(us) : us[k] = [p |-> rs[1].p, r |-> i - 1]
  /\ i + 1 < rs[1].r => \E k \in 1..Len(us) : us[k] = [p |-> i + 1, r |-> rs[1].r]
  /\ \A k \in 2..Len(rs) : \E l \in 1..Len(us) : us[l] = rs[k]

\* The two calls that a partition leads to follow on the one it was made for.
LEMMA HalvesFollow ==
  ASSUME NEW n \in Nat, NEW rs, AreApart(rs, n), rs # << >>, NEW i \in rs[1].p..rs[1].r
  PROVE  Follow(Halves(rs[1].p, i, rs[1].r) \o Tail(rs), rs, i, n)
<1>. USE DEF CallsOf
<1>. DEFINE T == CallsOf(n)
            p == rs[1].p
            r == rs[1].r
            us == Halves(p, i, r) \o Tail(rs)
            c == [p |-> p, r |-> i - 1]
            d == [p |-> i + 1, r |-> r]
            H == Halves(p, i, r)
<1>0. /\ rs \in Seq(T)
      /\ \A k \in 1..Len(rs) : rs[k].p < rs[k].r
      /\ \A k, l \in 1..Len(rs) : k # l => Apart(rs[k], rs[l])
  BY DEF AreApart
<1>1. /\ Len(rs) \in Nat /\ Len(rs) >= 1
      /\ \A k \in 1..Len(rs) : rs[k] \in T /\ rs[k].p \in 1..n /\ rs[k].r \in 1..n
      /\ p \in 1..n /\ r \in 1..n /\ p < r /\ i \in 1..n
  <2>1. Len(rs) \in Nat /\ Len(rs) >= 1
    BY <1>0
  <2>2. \A k \in 1..Len(rs) : rs[k] \in T
    <3>1. rs \in Seq(T)
      BY <1>0
    <3>. HIDE DEF T
    <3>. QED BY <3>1
  <2>3. \A k \in 1..Len(rs) : rs[k].p \in 1..n /\ rs[k].r \in 1..n
    BY <2>2
  <2>4. 1 \in 1..Len(rs)
    BY <2>1
  <2>5. p \in 1..n /\ r \in 1..n /\ p < r
    BY <1>0, <2>3, <2>4
  <2>6. i \in 1..n
    BY <2>5
  <2>. QED BY <2>1, <2>2, <2>3, <2>5, <2>6
<1>2. /\ Tail(rs) \in Seq(T) /\ Len(Tail(rs)) = Len(rs) - 1
      /\ \A k \in 1..(Len(rs)-1) : Tail(rs)[k] = rs[k+1]
  BY <1>0, <1>1
<1>3. /\ p < i - 1 => c \in T
      /\ i + 1 < r => d \in T
  BY <1>1
<1>4. \A k \in 2..Len(rs) : Apart(rs[1], rs[k]) /\ Apart(rs[k], rs[1])
  BY <1>0, <1>1
<1>5. \A k \in 2..Len(rs) : /\ p < i - 1 => Apart(c, rs[k]) /\ Apart(rs[k], c)
                            /\ i + 1 < r => Apart(d, rs[k]) /\ Apart(rs[k], d)
  <2>. SUFFICES ASSUME NEW k \in 2..Len(rs)
                PROVE  /\ p < i - 1 => Apart(c, rs[k]) /\ Apart(rs[k], c)
                       /\ i + 1 < r => Apart(d, rs[k]) /\ Apart(rs[k], d)
    OBVIOUS
  <2>1. rs[k].p \in 1..n /\ rs[k].r \in 1..n /\ rs[k].p < rs[k].r
    BY <1>0, <1>1
  <2>2. r < rs[k].p \/ rs[k].r < p
    BY <1>4 DEF Apart
  <2>. QED BY <1>1, <2>1, <2>2 DEF Apart
<1>6. Apart(c, d) /\ Apart(d, c)
  BY <1>1 DEF Apart
<1>7. /\ p < i - 1 => c.p < c.r
      /\ i + 1 < r => d.p < d.r
  BY <1>1
<1>. DEFINE A == Call(p, i - 1)
            B == Call(i + 1, r)
<1>8. /\ A \in Seq(T) /\ ((p < i - 1 /\ Len(A) = 1 /\ A[1] = c) \/ (~(p < i - 1) /\ Len(A) = 0))
      /\ B \in Seq(T) /\ ((i + 1 < r /\ Len(B) = 1 /\ B[1] = d) \/ (~(i + 1 < r) /\ Len(B) = 0))
      /\ H = A \o B
  <2>1. A = (IF p < i - 1 THEN <<c>> ELSE << >>) /\ B = (IF i + 1 < r THEN <<d>> ELSE << >>)
    BY DEF Call
  <2>2. H = A \o B
    BY DEF Halves
  <2>. HIDE DEF A, B, T, c, d, H
  <2>3. IF p < i - 1 THEN A \in Seq(T) /\ Len(A) = 1 /\ A[1] = c ELSE A \in Seq(T) /\ Len(A) = 0
    BY <1>3, <2>1
  <2>4. IF i + 1 < r THEN B \in Seq(T) /\ Len(B) = 1 /\ B[1] = d ELSE B \in Seq(T) /\ Len(B) = 0
    BY <1>3, <2>1
  <2>. QED BY <2>2, <2>3, <2>4
<1>. HIDE DEF T, c, d, H, A, B, p, r, us
<1>9. ASSUME NEW h \in Seq(T), H = h, \A k \in 1..Len(h) : h[k].p < h[k].r,
             \A k \in 1..Len(h) : \A l \in 2..Len(rs) : Apart(h[k], rs[l]) /\ Apart(rs[l], h[k]),
             \A k, l \in 1..Len(h) : k # l => Apart(h[k], h[l])
      PROVE  /\ us \in Seq(T)
             /\ \A k \in 1..Len(us) : us[k].p < us[k].r
             /\ \A k, l \in 1..Len(us) : k # l => Apart(us[k], us[l])
             /\ \A k \in 2..Len(rs) : \E l \in 1..Len(us) : us[l] = rs[k]
             /\ \A k \in 1..Len(h) : \E l \in 1..Len(us) : us[l] = h[k]
  <2>. DEFINE m == Len(h)
  <2>1. us = h \o Tail(rs)
    BY <1>9 DEF H, us
  <2>2. /\ us \in Seq(T) /\ Len(us) = m + Len(rs) - 1 /\ m \in Nat
        /\ \A k \in 1..m : us[k] = h[k]
        /\ \A k \in (m+1)..Len(us) : us[k] = Tail(rs)[k-m]
    <3>1. Tail(rs) \in Seq(T) /\ h \in Seq(T) /\ m \in Nat /\ Len(Tail(rs)) \in Nat
      BY <1>2
    <3>. DEFINE t == Tail(rs)
    <3>. HIDE DEF t
    <3>2. /\ h \o t \in Seq(T) /\ Len(h \o t) = m + Len(t)
          /\ \A k \in 1..m : (h \o t)[k] = h[k]
          /\ \A k \in (m+1)..(m + Len(t)) : (h \o t)[k] = t[k-m]
      BY <3>1 DEF t
    <3>. QED BY <1>1, <1>2, <2>1, <3>1, <3>2 DEF t
  <2>3. \A k \in (m+1)..Len(us) : k - m + 1 \in 2..Len(rs) /\ us[k] = rs[k-m+1]
    <3>. SUFFICES ASSUME NEW k \in (m+1)..Len(us) PROVE k - m + 1 \in 2..Len(rs) /\ us[k] = rs[k-m+1]
      OBVIOUS
    <3>1. k - m \in 1..(Len(rs)-1)
      BY <1>1, <2>2
    <3>. QED BY <1>2, <2>2, <3>1
  <2>. HIDE DEF m
  <2>4. \A k \in 1..Len(us) : k \in 1..m \/ k \in (m+1)..Len(us)
    BY <2>2
  <2>5. \A k \in 1..m : h[k].p < h[k].r
    BY <1>9 DEF m
  <2>6. \A k \in 1..Len(us) : us[k].p < us[k].r
    <3>1. \A k \in (m+1)..Len(us) : k - m + 1 \in 1..Len(rs)
      BY <2>3
    <3>. QED BY <1>0, <2>2, <2>3, <2>4, <2>5, <3>1
  <2>7. ASSUME NEW k \in 1..Len(us), NEW l \in 1..Len(us), k # l
        PROVE  Apart(us[k], us[l])
    <3>1. CASE k \in 1..m /\ l \in 1..m
      BY <1>9, <2>2, <2>7, <3>1 DEF m
    <3>2. CASE k \in 1..m /\ l \in (m+1)..Len(us)
      BY <1>9, <2>2, <2>3, <3>2 DEF m
    <3>3. CASE k \in (m+1)..Len(us) /\ l \in 1..m
      BY <1>9, <2>2, <2>3, <3>3 DEF m
    <3>4. CASE k \in (m+1)..Len(us) /\ l \in (m+1)..Len(us)
      <4>1. k - m + 1 # l - m + 1 /\ k - m + 1 \in 1..Len(rs) /\ l - m + 1 \in 1..Len(rs)
        BY <1>1, <2>2, <2>3, <2>7, <3>4
      <4>. QED BY <1>0, <2>3, <3>4, <4>1
    <3>. QED BY <2>4, <3>1, <3>2, <3>3, <3>4
  <2>8. ASSUME NEW k \in 2..Len(rs) PROVE \E l \in 1..Len(us) : us[l] = rs[k]
    <3>1. k - 1 + m \in (m+1)..Len(us) /\ k - 1 + m \in 1..Len(us) /\ (k - 1 + m) - m + 1 = k
      BY <1>1, <2>2
    <3>. QED BY <2>3, <3>1
  <2>9. ASSUME NEW k \in 1..Len(h) PROVE \E l \in 1..Len(us) : us[l] = h[k]
    <3>1. k \in 1..m /\ k \in 1..Len(us)
      BY <1>1, <2>2 DEF m
    <3>. QED BY <2>2, <3>1
  <2>. QED BY <2>2, <2>6, <2>7, <2>8, <2>9
<1>10. /\ H \in Seq(T) /\ Len(H) = Len(A) + Len(B) /\ Len(A) \in Nat /\ Len(B) \in Nat
       /\ \A k \in 1..Len(A) : H[k] = A[k]
       /\ \A k \in (Len(A)+1)..Len(H) : H[k] = B[k-Len(A)]
  BY <1>8
<1>11. \A k \in 1..Len(H) :
         \/ k = 1 /\ Len(A) = 1 /\ H[k] = c /\ p < i - 1
         \/ k = Len(A) + 1 /\ H[k] = d /\ i + 1 < r
  <2>. SUFFICES ASSUME NEW k \in 1..Len(H)
                PROVE  \/ k = 1 /\ Len(A) = 1 /\ H[k] = c /\ p < i - 1
                       \/ k = Len(A) + 1 /\ H[k] = d /\ i + 1 < r
    OBVIOUS
  <2>1. CASE k <= Len(A)
    <3>1. k \in 1..Len(A)
      BY <1>10, <2>1
    <3>2. p < i - 1 /\ k = 1 /\ Len(A) = 1
      BY <1>8, <3>1
    <3>. QED BY <1>8, <1>10, <3>1, <3>2
  <2>2. CASE k > Len(A)
    <3>1. k \in (Len(A)+1)..Len(H) /\ k - Len(A) \in 1..Len(B)
      BY <1>10, <2>2
    <3>2. i + 1 < r /\ k - Len(A) = 1
      <4>1. Len(B) # 0 /\ Len(B) \in Nat
        BY <1>10, <3>1
      <4>2. i + 1 < r /\ Len(B) = 1
        BY <1>8, <4>1, Zenon
      <4>. QED BY <1>10, <3>1, <4>2
    <3>3. H[k] = d /\ k = Len(A) + 1
      BY <1>8, <1>10, <3>1, <3>2
    <3>. QED BY <3>2, <3>3
  <2>. QED BY <1>10, <2>1, <2>2
<1>12. /\ \A k \in 1..Len(H) : H[k].p < H[k].r
       /\ \A k \in 1..Len(H) : \A l \in 2..Len(rs) : Apart(H[k], rs[l]) /\ Apart(rs[l], H[k])
       /\ \A k, l \in 1..Len(H) : k # l => Apart(H[k], H[l])
  BY <1>5, <1>6, <1>7, <1>11
<1>13. /\ us \in Seq(T)
       /\ \A k \in 1..Len(us) : us[k].p < us[k].r
       /\ \A k, l \in 1..Len(us) : k # l => Apart(us[k], us[l])
       /\ \A k \in 2..Len(rs) : \E l \in 1..Len(us) : us[l] = rs[k]
       /\ \A k \in 1..Len(H) : \E l \in 1..Len(us) : us[l] = H[k]
  BY <1>9, <1>10, <1>12
<1>14. ASSUME p < i - 1 PROVE \E k \in 1..Len(us) : us[k] = c
  <2>1. 1 \in 1..Len(A) /\ 1 \in 1..Len(H) /\ A[1] = c
    <3>1. Len(A) = 1 /\ A[1] = c
      BY <1>8, <1>14, Zenon
    <3>. QED BY <1>10, <3>1
  <2>. QED BY <1>10, <1>13, <2>1
<1>15. ASSUME i + 1 < r PROVE \E k \in 1..Len(us) : us[k] = d
  <2>1. Len(A) + 1 \in (Len(A)+1)..Len(H) /\ Len(A) + 1 \in 1..Len(H) /\ (Len(A) + 1) - Len(A) = 1
    BY <1>1, <1>8, <1>10, <1>15
  <2>2. H[Len(A) + 1] = d
    BY <1>8, <1>10, <1>15, <2>1
  <2>. QED BY <1>13, <2>1, <2>2
<1>. QED BY <1>13, <1>14, <1>15 DEF Follow, AreApart, T, c, d, p, r, us

\* One call of doQuickSort.
LEMMA QuickSortKeeps ==
  ASSUME NEW s, Pending(s, ranges), ranges # << >>, NEW t, DoQuickSort(s, t)
  PROVE  Pending(t, ranges') /\ Rearranges(s, t, 1, Len(s))
<1>. DEFINE n == Len(s)
            p == ranges[1].p
            r == ranges[1].r
<1>1. /\ s \in Seq(Entries) /\ n \in Nat /\ ranges \in Seq(CallsOf(n))
      /\ \A k \in 1..Len(ranges) : ranges[k].p < ranges[k].r
      /\ \A k, l \in 1..Len(ranges) : k # l => Apart(ranges[k], ranges[l])
      /\ \A x, y \in 1..n : x < y =>
           \/ Compare(s[x], s[y]) <= 0
           \/ \E k \in 1..Len(ranges) : /\ x \in ranges[k].p..ranges[k].r
                                        /\ y \in ranges[k].p..ranges[k].r
  BY DEF Pending, AreApart
<1>2. /\ Len(ranges) \in Nat /\ 1 \in 1..Len(ranges) /\ p \in 1..n /\ r \in 1..n /\ p < r
      /\ \A k \in 1..Len(ranges) : ranges[k].p \in 1..n /\ ranges[k].r \in 1..n
  <2>. DEFINE T == CallsOf(n)
  <2>1. Len(ranges) \in Nat /\ Len(ranges) >= 1 /\ \A k \in 1..Len(ranges) : ranges[k] \in T
    <3>. HIDE DEF T
    <3>1. ranges \in Seq(T) /\ ranges # << >>
      BY <1>1 DEF T
    <3>. QED BY <3>1
  <2>2. \A k \in 1..Len(ranges) : ranges[k].p \in 1..n /\ ranges[k].r \in 1..n
    BY <2>1 DEF CallsOf
  <2>. QED BY <1>1, <2>1, <2>2
<1>3. Head(ranges).p = p /\ Head(ranges).r = r
  BY <1>1
<1>4. PICK pivot \in p..r : /\ t = Partition(s, p, r, pivot).ary
                            /\ ranges' = Halves(p, Partition(s, p, r, pivot).i, r) \o Tail(ranges)
  BY <1>3 DEF DoQuickSort
<1>. DEFINE i == Partition(s, p, r, pivot).i
            c == [p |-> p, r |-> i - 1]
            d == [p |-> i + 1, r |-> r]
<1>. HIDE DEF n, p, r
<1>5. /\ i \in p..r /\ Rearranges(s, t, p, r)
      /\ \A x \in p..(i-1) : Compare(t[x], t[i]) <= 0
      /\ \A x \in (i+1)..r : Compare(t[i], t[x]) <= 0
  BY <1>1, <1>2, <1>4, PartitionWorks DEF n
<1>. HIDE DEF i
<1>6. /\ ranges' \in Seq(CallsOf(n))
      /\ \A k \in 1..Len(ranges') : ranges'[k].p < ranges'[k].r
      /\ \A k, l \in 1..Len(ranges') : k # l => Apart(ranges'[k], ranges'[l])
      /\ p < i - 1 => \E k \in 1..Len(ranges') : ranges'[k] = c
      /\ i + 1 < r => \E k \in 1..Len(ranges') : ranges'[k] = d
      /\ \A k \in 2..Len(ranges) : \E l \in 1..Len(ranges') : ranges'[l] = ranges[k]
  <2>1. AreApart(ranges, n) /\ i \in ranges[1].p..ranges[1].r
    BY <1>5 DEF Pending, n, p, r
  <2>2. Follow(Halves(ranges[1].p, i, ranges[1].r) \o Tail(ranges), ranges, i, n)
    BY <1>1, <2>1, HalvesFollow
  <2>3. ranges' = Halves(ranges[1].p, i, ranges[1].r) \o Tail(ranges)
    BY <1>4 DEF i, p, r
  <2>. QED BY <2>2, <2>3 DEF Follow, AreApart, p, r
<1>7. /\ t \in Seq(Entries) /\ Len(t) = n
      /\ \A k \in 1..n : k \notin p..r => t[k] = s[k]
      /\ \A k \in p..r : \E l \in p..r : t[k] = s[l]
      /\ \A k \in 1..n : s[k] \in Entries /\ t[k] \in Entries
  <2>1. /\ t \in Seq(Entries) /\ Len(t) = n
        /\ \A k \in 1..n : k \notin p..r => t[k] = s[k]
        /\ \A k \in p..r : \E l \in p..r : t[k] = s[l]
    BY <1>5 DEF Rearranges, n
  <2>. QED BY <1>1, <2>1 DEF n
<1>8. \A k \in 2..Len(ranges) : \A x \in p..r : x \notin ranges[k].p..ranges[k].r
  <2>. SUFFICES ASSUME NEW k \in 2..Len(ranges), NEW x \in p..r PROVE x \notin ranges[k].p..ranges[k].r
    OBVIOUS
  <2>1. k \in 1..Len(ranges) /\ k # 1
    BY <1>2
  <2>2. ranges[1].r < ranges[k].p \/ ranges[k].r < ranges[1].p
    BY <1>1, <1>2, <2>1 DEF Apart
  <2>. QED BY <1>2, <2>1, <2>2 DEF p, r
<1>9. ASSUME NEW x \in 1..n, NEW y \in 1..n, x < y, x \notin p..r \/ y \notin p..r,
             NEW x0 \in 1..n, NEW y0 \in 1..n, x0 < y0,
             IF x \in p..r THEN x0 \in p..r ELSE x0 = x,
             IF y \in p..r THEN y0 \in p..r ELSE y0 = y,
             t[x] = s[x0], t[y] = s[y0]
      PROVE  \/ Compare(t[x], t[y]) <= 0
             \/ \E k \in 1..Len(ranges') : x \in ranges'[k].p..ranges'[k].r /\ y \in ranges'[k].p..ranges'[k].r
  <2>1. CASE Compare(s[x0], s[y0]) <= 0
    BY <1>9, <2>1
  <2>2. CASE ~(Compare(s[x0], s[y0]) <= 0)
    <3>1. PICK k \in 1..Len(ranges) : x0 \in ranges[k].p..ranges[k].r /\ y0 \in ranges[k].p..ranges[k].r
      BY <1>1, <1>9, <2>2
    <3>2. k # 1
      BY <1>9, <3>1 DEF p, r
    <3>3. k \in 2..Len(ranges)
      BY <1>2, <3>2
    <3>4. x0 \notin p..r /\ y0 \notin p..r
      BY <1>8, <3>1, <3>3
    <3>5. x0 = x /\ y0 = y
      BY <1>9, <3>4
    <3>6. PICK l \in 1..Len(ranges') : ranges'[l] = ranges[k]
      BY <1>6, <3>3
    <3>. QED BY <3>1, <3>5, <3>6
  <2>. QED BY <2>1, <2>2
<1>10. ASSUME NEW x \in 1..n, NEW y \in 1..n, x < y
       PROVE  \/ Compare(t[x], t[y]) <= 0
              \/ \E k \in 1..Len(ranges') : x \in ranges'[k].p..ranges'[k].r /\ y \in ranges'[k].p..ranges'[k].r
  <2>1. CASE x \in p..r /\ y \in p..r
    <3>1. i \in 1..n
      BY <1>1, <1>2, <1>5
    <3>2. CASE y < i
      <4>1. p < i - 1
        BY <1>2, <1>5, <1>10, <2>1, <3>2
      <4>2. x \in c.p..c.r /\ y \in c.p..c.r
        BY <1>2, <1>5, <1>10, <2>1, <3>2
      <4>. QED BY <1>6, <4>1, <4>2
    <3>3. CASE i < x
      <4>1. i + 1 < r
        BY <1>2, <1>5, <1>10, <2>1, <3>3
      <4>2. x \in d.p..d.r /\ y \in d.p..d.r
        BY <1>2, <1>5, <1>10, <2>1, <3>3
      <4>. QED BY <1>6, <4>1, <4>2
    <3>4. CASE x <= i /\ i <= y
      <4>1. x = i \/ Compare(t[x], t[i]) <= 0
        <5>1. x # i => x \in p..(i-1)
          BY <1>2, <1>5, <2>1, <3>4
        <5>. QED BY <1>5, <5>1
      <4>2. y = i \/ Compare(t[i], t[y]) <= 0
        <5>1. y # i => y \in (i+1)..r
          BY <1>2, <1>5, <2>1, <3>4
        <5>. QED BY <1>5, <5>1
      <4>3. t[x] \in Entries /\ t[y] \in Entries /\ t[i] \in Entries
        BY <1>7, <3>1
      <4>4. CASE x # i /\ y # i
        BY <4>1, <4>2, <4>3, <4>4, CompareIsOrder
      <4>5. CASE x = i \/ y = i
        BY <1>10, <4>1, <4>2, <4>5
      <4>. QED BY <4>4, <4>5
    <3>. QED BY <1>10, <3>1, <3>2, <3>3, <3>4
  <2>2. CASE x \in p..r /\ y \notin p..r
    <3>1. PICK x0 \in p..r : t[x] = s[x0]
      BY <1>7, <2>2
    <3>2. x0 \in 1..n /\ x0 < y
      BY <1>1, <1>2, <1>10, <2>2
    <3>. QED BY <1>7, <1>9, <1>10, <2>2, <3>1, <3>2
  <2>3. CASE x \notin p..r /\ y \in p..r
    <3>1. PICK y0 \in p..r : t[y] = s[y0]
      BY <1>7, <2>3
    <3>2. y0 \in 1..n /\ x < y0
      BY <1>1, <1>2, <1>10, <2>3
    <3>. QED BY <1>7, <1>9, <1>10, <2>3, <3>1, <3>2
  <2>4. CASE x \notin p..r /\ y \notin p..r
    BY <1>7, <1>9, <1>10, <2>4
  <2>. QED BY <2>1, <2>2, <2>3, <2>4
<1>11. Pending(t, ranges')
  BY <1>6, <1>7, <1>10 DEF Pending, AreApart
<1>12. Rearranges(s, t, 1, n)
  <2>1. \A k \in p..r : k \in 1..n
    BY <1>1, <1>2
  <2>2. /\ \A k \in p..r : \E l \in p..r : t[k] = s[l]
        /\ \A k \in p..r : \E l \in p..r : s[k] = t[l]
    BY <1>5 DEF Rearranges
  <2>3. \A k \in 1..n : k \notin p..r => t[k] = s[k]
    BY <1>7
  <2>. DEFINE D == p..r
              E == 1..n
  <2>. HIDE DEF D, E
  <2>4. \A k \in E : (\E l \in E : t[k] = s[l]) /\ (\E l \in E : s[k] = t[l])
    <3>1. /\ \A k \in D : k \in E
          /\ \A k \in D : (\E l \in D : t[k] = s[l]) /\ (\E l \in D : s[k] = t[l])
          /\ \A k \in E : k \notin D => t[k] = s[k]
      BY <2>1, <2>2, <2>3 DEF D, E
    <3>. QED BY <3>1
  <2>. QED BY <1>7, <2>4 DEF Rearranges, E, n
<1>. QED BY <1>11, <1>12 DEF n

\* Elements stay in the list while it is rearranged.
LEMMA RearrangingKeeps ==
  ASSUME NEW s \in Seq(Entries), NEW t, Rearranges(s, t, 1, Len(s))
  PROVE  Range(t) = Range(s)
<1>1. t \in Seq(Entries) /\ Len(t) = Len(s) /\ DOMAIN t = 1..Len(s) /\ DOMAIN s = 1..Len(s)
  BY DEF Rearranges
<1>. DEFINE D == 1..Len(s)
<1>2. \A k \in D : (\E l \in D : t[k] = s[l]) /\ (\E l \in D : s[k] = t[l])
  BY DEF Rearranges
<1>3. Range(t) = {t[k] : k \in D} /\ Range(s) = {s[k] : k \in D}
  BY <1>1 DEF Range
<1>. HIDE DEF D
<1>. QED BY <1>2, <1>3

\* A list whose sort is at its end is in the order of the positions that are searched.
LEMMA SortedIsAscending ==
  ASSUME NEW s, Pending(s, << >>)
  PROVE  /\ stage = "sort generated" =>
              IsAscending([i \in DOMAIN s |-> <<0, s[i].generatedLine, s[i].generatedColumn>>])
         /\ stage = "sort original" /\ s \in Seq(Located) =>
              IsAscending([i \in DOMAIN s |-> <<s[i].source, s[i].originalLine, s[i].originalColumn>>])
<1>1. /\ s \in Seq(Entries) /\ DOMAIN s = 1..Len(s) /\ Len(s) \in Nat
      /\ \A x \in 1..Len(s) : s[x] \in Entries
      /\ \A x, y \in 1..Len(s) : x < y => Compare(s[x], s[y]) <= 0
  <2>1. \A x, y \in 1..Len(s) : x < y => \/ Compare(s[x], s[y]) <= 0
                                         \/ \E k \in 1..Len(<< >>) : TRUE
    BY DEF Pending
  <2>2. 1..Len(<< >>) = {}
    OBVIOUS
  <2>. QED BY <2>1, <2>2 DEF Pending
<1>2. ASSUME stage = "sort generated", NEW x \in 1..Len(s), NEW y \in 1..Len(s), x < y
      PROVE  ComparePositions(<<0, s[x].generatedLine, s[x].generatedColumn>>,
                              <<0, s[y].generatedLine, s[y].generatedColumn>>) <= 0
  <2>1. Compare(s[x], s[y]) <= 0 /\ s[x] \in Entries /\ s[y] \in Entries
    BY <1>1, <1>2
  <2>2. First(s[x].generatedLine - s[y].generatedLine, s[x].generatedColumn - s[y].generatedColumn,
              Num(s[x].source) - Num(s[y].source), Num(s[x].originalLine) - Num(s[y].originalLine),
              Num(s[x].originalColumn) - Num(s[y].originalColumn), Num(s[x].name) - Num(s[y].name)) <= 0
    BY <1>2, <2>1, ComparatorsAre DEF Compare
  <2>3. /\ s[x].generatedLine \in Int /\ s[x].generatedColumn \in Int
        /\ s[y].generatedLine \in Int /\ s[y].generatedColumn \in Int
    BY <2>1 DEF Entries, Located, Bare
  <2>. QED BY <2>2, <2>3 DEF First, ComparePositions
<1>3. ASSUME stage = "sort original", s \in Seq(Located),
             NEW x \in 1..Len(s), NEW y \in 1..Len(s), x < y
      PROVE  ComparePositions(<<s[x].source, s[x].originalLine, s[x].originalColumn>>,
                              <<s[y].source, s[y].originalLine, s[y].originalColumn>>) <= 0
  <2>1. /\ Compare(s[x], s[y]) <= 0 /\ s[x] \in Entries /\ s[y] \in Entries
        /\ s[x] \in Located /\ s[y] \in Located
    <3>1. \A k \in 1..Len(s) : s[k] \in Located
      <4>1. \A L : s \in Seq(L) => \A k \in 1..Len(s) : s[k] \in L
        OBVIOUS
      <4>. QED BY <1>3, <4>1
    <3>. QED BY <1>1, <1>3, <3>1
  <2>2. First(Num(s[x].source) - Num(s[y].source), Num(s[x].originalLine) - Num(s[y].originalLine),
              Num(s[x].originalColumn) - Num(s[y].originalColumn),
              s[x].generatedColumn - s[y].generatedColumn, s[x].generatedLine - s[y].generatedLine,
              Num(s[x].name) - Num(s[y].name)) <= 0
    BY <1>3, <2>1, ComparatorsAre DEF Compare
  <2>3. /\ \A e \in {s[x], s[y]} : /\ e.source \in Int /\ e.originalLine \in Int /\ e.originalColumn \in Int
                                   /\ Num(e.source) = e.source /\ Num(e.originalLine) = e.originalLine
                                   /\ Num(e.originalColumn) = e.originalColumn
    BY <2>1, NullAssumption DEF Located, Num
  <2>. QED BY <2>2, <2>3 DEF First, ComparePositions
<1>4. ASSUME NEW f, f \in [1..Len(s) -> Positions],
             \A x, y \in 1..Len(s) : x < y => ComparePositions(f[x], f[y]) <= 0
      PROVE  IsAscending(f)
  <2>1. Len(f) = Len(s)
    BY <1>1, <1>4
  <2>. QED BY <1>4, <2>1 DEF IsAscending
<1>. DEFINE g == [i \in DOMAIN s |-> <<0, s[i].generatedLine, s[i].generatedColumn>>]
            o == [i \in DOMAIN s |-> <<s[i].source, s[i].originalLine, s[i].originalColumn>>]
<1>5. ASSUME stage = "sort generated" PROVE IsAscending(g)
  <2>1. \A x \in 1..Len(s) : g[x] = <<0, s[x].generatedLine, s[x].generatedColumn>>
    BY <1>1
  <2>2. \A x \in 1..Len(s) : g[x] \in Positions
    BY <1>1, <2>1 DEF Entries, Located, Bare, Positions
  <2>3. g \in [1..Len(s) -> Positions]
    BY <1>1, <2>2
  <2>. HIDE DEF g
  <2>. QED BY <1>2, <1>4, <1>5, <2>1, <2>3
<1>6. ASSUME stage = "sort original", s \in Seq(Located) PROVE IsAscending(o)
  <2>1. \A x \in 1..Len(s) : o[x] = <<s[x].source, s[x].originalLine, s[x].originalColumn>>
    BY <1>1
  <2>2. \A x \in 1..Len(s) : s[x] \in Located
    <3>1. \A L : s \in Seq(L) => \A k \in 1..Len(s) : s[k] \in L
      OBVIOUS
    <3>. QED BY <1>6, <3>1
  <2>3. \A x \in 1..Len(s) : o[x] \in Positions
    BY <2>1, <2>2 DEF Located, Positions
  <2>4. o \in [1..Len(s) -> Positions]
    BY <1>1, <2>3
  <2>. HIDE DEF o
  <2>. QED BY <1>3, <1>4, <1>6, <2>1, <2>4
<1>. QED BY <1>5, <1>6

(***************************************************************************)
(* The answers, from what a search has found.                              *)
(***************************************************************************)

\* indexOf leads to the element.
LEMMA IndexOfIs ==
  ASSUME NEW S, NEW set \in Seq(S), NEW s \in Range(set)
  PROVE  /\ IndexOf(set, s) \in Nat /\ IndexOf(set, s) + 1 \in DOMAIN set
         /\ set[IndexOf(set, s) + 1] = s
<1>. DEFINE is == {i \in 1..Len(set) : set[i] = s}
            First1(i) == i \in DOMAIN set /\ set[i] = s /\ \A j \in 1..(i-1) : set[j] # s
<1>1. DOMAIN set = 1..Len(set) /\ Len(set) \in Nat
  OBVIOUS
<1>2. is # {} /\ is \in SUBSET Nat
  BY <1>1 DEF Range
<1>3. PICK i \in is : \A j \in is : i <= j
  <2>. HIDE DEF is
  <2>. QED BY <1>2, HasLeast
<1>4. First1(i)
  <2>1. \A j \in 1..(i-1) : j \in 1..Len(set) /\ ~(i <= j)
    BY <1>1
  <2>. QED BY <1>1, <1>3, <2>1
<1>. DEFINE c == CHOOSE i1 \in DOMAIN set : set[i1] = s /\ \A j \in 1..(i1-1) : set[j] # s
<1>5. c \in DOMAIN set /\ set[c] = s
  BY <1>4
<1>6. IndexOf(set, s) = c - 1
  BY DEF IndexOf
<1>. HIDE DEF c
<1>. QED BY <1>1, <1>5, <1>6

\* The positions of the two lists.
LEMMA PositionsAre ==
  ASSUME generated \in Seq(Entries), original \in Seq(Located)
  PROVE  /\ GeneratedPositions(Self) \in Seq(Positions)
         /\ Len(GeneratedPositions(Self)) = Len(generated)
         /\ \A i \in 1..Len(generated) :
              /\ generated[i] \in Entries
              /\ GeneratedPositions(Self)[i]
                   = <<0, generated[i].generatedLine, generated[i].generatedColumn>>
         /\ OriginalPositions(Self) \in Seq(Positions)
         /\ Len(OriginalPositions(Self)) = Len(original)
         /\ \A i \in 1..Len(original) :
              /\ original[i] \in Located
              /\ OriginalPositions(Self)[i]
                   = <<original[i].source, original[i].originalLine, original[i].originalColumn>>
<1>. DEFINE g == GeneratedPositions(Self)
            o == OriginalPositions(Self)
<1>1. /\ g = [i \in DOMAIN generated |-> <<0, generated[i].generatedLine, generated[i].generatedColumn>>]
      /\ o = [i \in DOMAIN original |-> <<original[i].source, original[i].originalLine, original[i].originalColumn>>]
  BY DEF GeneratedPositions, OriginalPositions, Self
<1>2. /\ DOMAIN generated = 1..Len(generated) /\ Len(generated) \in Nat
      /\ DOMAIN original = 1..Len(original) /\ Len(original) \in Nat
      /\ \A i \in 1..Len(generated) : generated[i] \in Entries
      /\ \A i \in 1..Len(original) : original[i] \in Located
  <2>1. \A L : \A s \in Seq(L) : /\ DOMAIN s = 1..Len(s) /\ Len(s) \in Nat
                                 /\ \A i \in 1..Len(s) : s[i] \in L
    OBVIOUS
  <2>. QED BY <2>1
<1>. HIDE DEF g, o
<1>3. /\ \A i \in 1..Len(generated) :
           g[i] = <<0, generated[i].generatedLine, generated[i].generatedColumn>> /\ g[i] \in Positions
      /\ \A i \in 1..Len(original) :
           /\ o[i] = <<original[i].source, original[i].originalLine, original[i].originalColumn>>
           /\ o[i] \in Positions
  <2>1. ASSUME NEW i \in 1..Len(generated)
        PROVE  /\ g[i] = <<0, generated[i].generatedLine, generated[i].generatedColumn>>
               /\ g[i] \in Positions
    <3>1. generated[i].generatedLine \in Int /\ generated[i].generatedColumn \in Int
      BY <1>2 DEF Entries, Located, Bare
    <3>. QED BY <1>1, <1>2, <3>1 DEF Positions
  <2>2. ASSUME NEW i \in 1..Len(original)
        PROVE  /\ o[i] = <<original[i].source, original[i].originalLine, original[i].originalColumn>>
               /\ o[i] \in Positions
    <3>1. original[i].source \in Int /\ original[i].originalLine \in Int /\ original[i].originalColumn \in Int
      BY <1>2 DEF Located
    <3>. QED BY <1>1, <1>2, <3>1 DEF Positions
  <2>. QED BY <2>1, <2>2
<1>4. g \in [1..Len(generated) -> Positions] /\ o \in [1..Len(original) -> Positions]
  BY <1>1, <1>2, <1>3
<1>5. g \in Seq(Positions) /\ Len(g) = Len(generated) /\ o \in Seq(Positions) /\ Len(o) = Len(original)
  <2>1. \A n \in Nat : \A f \in [1..n -> Positions] : f \in Seq(Positions) /\ Len(f) = n
    OBVIOUS
  <2>. QED BY <1>2, <1>4, <2>1
<1>. QED BY <1>2, <1>3, <1>5 DEF g, o

\* What a search that is done says of the list it has searched.
LEMMA SearchFinds ==
  ASSUME SearchInv, turn = "done"
  PROVE  /\ needle \in Positions /\ bias \in Biases /\ index \in 0..Length /\ Length \in Nat
         /\ haystack \in Seq(Positions)
         /\ index = 0 => \A i \in 1..Length : ~OnSide(haystack[i], needle, bias)
         /\ index > 0 => /\ OnSide(haystack[index], needle, bias)
                         /\ \A i \in 1..Length : OnSide(haystack[i], needle, bias) =>
                              OnSide(haystack[i], haystack[index], bias)
                         /\ \A i \in 1..(index-1) : ComparePositions(haystack[i], haystack[index]) < 0
<1>1. SearchTypeOK /\ SearchIsExact
  BY DEF SearchInv
<1>. QED BY <1>1 DEF SearchTypeOK, SearchIsExact, Length, Admits, Nearer, OnSide

\* The positions that a mapping has in the two lists.
GeneratedPos(m) == <<0, m.generatedLine, m.generatedColumn>>

\* OriginalIsNearest of an answer to a question.
TellsOriginal(told, q) ==
  LET PosOf(m) == <<0, m.generatedLine, m.generatedColumn>>
      line == {m \in Range(generated) : m.generatedLine = q.line}
      nearest == Nearest(line, PosOf, <<0, q.line, q.column>>, q.bias)
  IN  IF told.found = <<>> THEN nearest = {} \/ \E m \in nearest : m.source = Null
      ELSE \E m \in nearest :
             /\ m.source # Null /\ IsInflatable(Self, m)
             /\ told.found = <<OriginalOf(Inflate(Self, m))>>

\* originalPositionFor takes a nearest mapping of the line.
LEMMA OriginalIsFound ==
  ASSUME SearchInv, turn = "done", generated \in Seq(Entries), original \in Seq(Located),
         NEW q, q.line \in Int, q.column \in Int, bias = q.bias,
         haystack = GeneratedPositions(Self), needle = <<0, q.line, q.column>>,
         NEW told, told = OriginalPosition(Self, index, q.line), ~told.threw
  PROVE  TellsOriginal(told, q)
<1>. DEFINE line == q.line
            nearest == {m \in {k \in Range(generated) : k.generatedLine = line} :
                          /\ OnSide(GeneratedPos(m), needle, bias)
                          /\ \A n \in {k \in Range(generated) : k.generatedLine = line} :
                               OnSide(GeneratedPos(n), needle, bias)
                                 => OnSide(GeneratedPos(n), GeneratedPos(m), bias)}
            g == generated[index]
<1>1. SUFFICES IF told.found = <<>> THEN nearest = {} \/ \E m \in nearest : m.source = Null
               ELSE \E m \in nearest : /\ m.source # Null /\ IsInflatable(Self, m)
                                       /\ told.found = <<OriginalOf(Inflate(Self, m))>>
  BY DEF TellsOriginal, Nearest, GeneratedPos
<1>2. /\ Len(haystack) = Len(generated) /\ Len(generated) \in Nat /\ DOMAIN generated = 1..Len(generated)
      /\ \A i \in 1..Len(generated) : generated[i] \in Entries /\ haystack[i] = GeneratedPos(generated[i])
  BY PositionsAre DEF GeneratedPos
<1>3. \A m \in Range(generated) : /\ m \in Entries
                                  /\ \E i \in 1..Len(generated) : m = generated[i]
  BY <1>2 DEF Range
<1>4. /\ bias \in Biases /\ index \in 0..Len(generated)
      /\ index = 0 => \A i \in 1..Len(generated) : ~OnSide(haystack[i], needle, bias)
      /\ index > 0 => /\ OnSide(haystack[index], needle, bias)
                      /\ \A i \in 1..Len(generated) : OnSide(haystack[i], needle, bias) =>
                           OnSide(haystack[i], haystack[index], bias)
  BY <1>2, SearchFinds DEF Length
<1>5. CASE index = 0
  <2>1. ASSUME NEW m \in Range(generated) PROVE ~OnSide(GeneratedPos(m), needle, bias)
    <3>1. PICK i \in 1..Len(generated) : m = generated[i]
      BY <1>3
    <3>2. haystack[i] = GeneratedPos(m)
      BY <1>2, <3>1
    <3>. QED BY <1>4, <1>5, <3>2
  <2>3. nearest = {}
    BY <2>1
  <2>2. told.found = <<>>
    BY <1>5 DEF OriginalPosition, NoAnswer, Answer
  <2>. HIDE DEF nearest
  <2>. QED BY <2>2, <2>3
<1>6. CASE index # 0
  <2>1. /\ index \in 1..Len(generated) /\ g \in Entries /\ g \in Range(generated)
        /\ haystack[index] = GeneratedPos(g)
    BY <1>2, <1>4, <1>6 DEF Range
  <2>2. OnSide(GeneratedPos(g), needle, bias)
    BY <1>4, <1>6, <2>1
  <2>3. ASSUME NEW m \in Range(generated), OnSide(GeneratedPos(m), needle, bias)
        PROVE  OnSide(GeneratedPos(m), GeneratedPos(g), bias)
    <3>1. PICK i \in 1..Len(generated) : m = generated[i]
      BY <1>3
    <3>2. haystack[i] = GeneratedPos(m)
      BY <1>2, <3>1
    <3>3. index > 0
      BY <2>1
    <3>4. OnSide(haystack[i], needle, bias)
      BY <2>3, <3>2
    <3>5. OnSide(haystack[i], haystack[index], bias)
      <4>. HIDE DEF g
      <4>. QED BY <1>4, <3>3, <3>4
    <3>. QED BY <2>1, <3>2, <3>5
  <2>4. /\ Self.generated = generated
        /\ told = IF g.generatedLine # line \/ g.source = Null THEN NoAnswer
                  ELSE IF ~IsInflatable(Self, g) THEN Threw
                  ELSE Answer(<<OriginalOf(Inflate(Self, g))>>)
    BY <1>6 DEF OriginalPosition, Self
  <2>5. CASE g.generatedLine = line
    <3>1. g \in nearest
      BY <2>1, <2>2, <2>3, <2>5
    <3>. HIDE DEF nearest, g
    <3>2. CASE g.source = Null
      BY <2>4, <3>1, <3>2 DEF NoAnswer, Answer
    <3>3. CASE g.source # Null
      <4>1. told = Answer(<<OriginalOf(Inflate(Self, g))>>) /\ IsInflatable(Self, g)
        BY <2>4, <2>5, <3>3 DEF Threw
      <4>2. told.found = <<OriginalOf(Inflate(Self, g))>> /\ told.found # <<>>
        BY <4>1 DEF Answer
      <4>. QED BY <3>1, <3>3, <4>1, <4>2
    <3>. QED BY <3>2, <3>3
  <2>6. CASE g.generatedLine # line
    <3>1. told.found = <<>>
      BY <2>4, <2>6 DEF NoAnswer, Answer
    <3>2. ASSUME NEW m \in Range(generated), m.generatedLine = line, OnSide(GeneratedPos(m), needle, bias)
          PROVE  FALSE
      <4>1. OnSide(GeneratedPos(m), GeneratedPos(g), bias) /\ m \in Entries
        BY <1>3, <2>3, <3>2
      <4>2. /\ m.generatedLine \in Int /\ m.generatedColumn \in Int
            /\ g.generatedLine \in Int /\ g.generatedColumn \in Int
        BY <2>1, <4>1 DEF Entries, Located, Bare
      <4>. QED BY <2>2, <2>6, <3>2, <4>1, <4>2 DEF OnSide, ComparePositions, GeneratedPos
    <3>3. nearest = {}
      BY <3>2
    <3>. HIDE DEF nearest
    <3>. QED BY <3>1, <3>3
  <2>. QED BY <2>5, <2>6
<1>. QED BY <1>5, <1>6

\* Among positions of one source the source does not matter.
LEMMA SameSide ==
  ASSUME NEW m \in Located, NEW n \in Located, NEW s \in Int, NEW b,
         NEW l \in Int, NEW c \in Int
  PROVE  /\ m.source = s =>
              (OnSide(OriginalPos(m), <<0, l, c>>, b)
                 <=> OnSide(<<m.source, m.originalLine, m.originalColumn>>, <<s, l, c>>, b))
         /\ m.source = n.source =>
              (OnSide(OriginalPos(m), OriginalPos(n), b)
                 <=> OnSide(<<m.source, m.originalLine, m.originalColumn>>,
                            <<n.source, n.originalLine, n.originalColumn>>, b))
BY DEF Located, OnSide, ComparePositions, OriginalPos

\* The mappings of a source that is named once are those with its index.
LEMMA OfSourceIs ==
  ASSUME original \in Seq(Located), consumer.sources \in Seq(Strings),
         IsInjective(consumer.sources), NEW s,
         Resolve(consumer.root, s) \in Range(consumer.sources)
  PROVE  OfSource(s) = {m \in Range(original) :
                          m.source = IndexOf(consumer.sources, Resolve(consumer.root, s))}
<1>. DEFINE set == consumer.sources
            r == Resolve(consumer.root, s)
            k == IndexOf(set, r)
<1>1. k \in Nat /\ k + 1 \in DOMAIN set /\ set[k + 1] = r
  <2>1. set \in Seq(Strings) /\ r \in Range(set)
    OBVIOUS
  <2>. HIDE DEF r, set
  <2>. QED BY <2>1, IndexOfIs
<1>2. \A m \in Range(original) : m.source \in Int
  <2>1. \A i \in DOMAIN original : original[i] \in Located
    OBVIOUS
  <2>. QED BY <2>1 DEF Range, Located
<1>. HIDE DEF set, r, k
<1>3. \A m \in Range(original) :
        (m.source + 1 \in DOMAIN set /\ set[m.source + 1] = r) <=> m.source = k
  <2>1. ASSUME NEW m \in Range(original), m.source + 1 \in DOMAIN set, set[m.source + 1] = r
        PROVE  m.source = k
    <3>1. m.source + 1 = k + 1
      BY <1>1, <2>1 DEF IsInjective, set
    <3>. QED BY <1>1, <1>2, <3>1
  <2>. QED BY <1>1, <2>1
<1>4. OfSource(s) = {m \in Range(original) : m.source + 1 \in DOMAIN set /\ set[m.source + 1] = r}
  BY DEF OfSource, At, set, r
<1>. QED BY <1>3, <1>4 DEF k, r, set

\* GeneratedIsNearest of an answer to a question.
TellsGenerated(told, q) ==
  IsInjective(consumer.sources) =>
    LET nearest == Nearest(OfSource(q.source), OriginalPos, <<0, q.line, q.column>>, q.bias)
    IN  IF told.found = <<>> THEN nearest = {}
        ELSE \E m \in nearest : told.found = <<Place(Self, m)>>

\* The position of a mapping in the list by sources, with its source.
OriginalOn(m) == <<m.source, m.originalLine, m.originalColumn>>

\* What a search in the original mappings has found.
LEMMA OriginalSearchFinds ==
  ASSUME SearchInv, turn = "done", generated \in Seq(Entries), original \in Seq(Located),
         haystack = OriginalPositions(Self)
  PROVE  /\ DOMAIN original = 1..Len(original) /\ Len(original) \in Nat
         /\ \A i \in 1..Len(original) : /\ original[i] \in Located /\ original[i] \in Range(original)
                                        /\ haystack[i] = OriginalOn(original[i])
         /\ \A m \in Range(original) : m \in Located /\ \E i \in 1..Len(original) : m = original[i]
         /\ index \in 0..Len(original)
         /\ index = 0 => \A m \in Range(original) : ~OnSide(OriginalOn(m), needle, bias)
         /\ index > 0 => /\ OnSide(OriginalOn(original[index]), needle, bias)
                         /\ \A m \in Range(original) : OnSide(OriginalOn(m), needle, bias) =>
                              OnSide(OriginalOn(m), OriginalOn(original[index]), bias)
                         /\ \A i \in 1..(index-1) :
                              ComparePositions(OriginalOn(original[i]), OriginalOn(original[index])) < 0
<1>1. /\ Len(haystack) = Len(original)
      /\ \A i \in 1..Len(original) : original[i] \in Located /\ haystack[i] = OriginalOn(original[i])
  BY PositionsAre DEF OriginalOn
<1>2. DOMAIN original = 1..Len(original) /\ Len(original) \in Nat
  OBVIOUS
<1>3. /\ index \in 0..Len(original)
      /\ index = 0 => \A i \in 1..Len(original) : ~OnSide(haystack[i], needle, bias)
      /\ index > 0 => /\ OnSide(haystack[index], needle, bias)
                      /\ \A i \in 1..Len(original) : OnSide(haystack[i], needle, bias) =>
                           OnSide(haystack[i], haystack[index], bias)
                      /\ \A i \in 1..(index-1) : ComparePositions(haystack[i], haystack[index]) < 0
  BY <1>1, SearchFinds DEF Length
<1>4. \A m \in Range(original) : m \in Located /\ \E i \in 1..Len(original) : m = original[i]
  BY <1>1, <1>2 DEF Range
<1>5. \A i \in 1..Len(original) : original[i] \in Range(original)
  BY <1>2 DEF Range
<1>6. ASSUME NEW m \in Range(original)
      PROVE  /\ index = 0 => ~OnSide(OriginalOn(m), needle, bias)
             /\ index > 0 /\ OnSide(OriginalOn(m), needle, bias) =>
                  OnSide(OriginalOn(m), OriginalOn(original[index]), bias)
  <2>1. PICK i \in 1..Len(original) : m = original[i]
    BY <1>4
  <2>2. haystack[i] = OriginalOn(m)
    BY <1>1, <2>1
  <2>3. index > 0 => haystack[index] = OriginalOn(original[index])
    BY <1>1, <1>2, <1>3
  <2>. QED BY <1>3, <2>2, <2>3
<1>7. index > 0 => /\ OnSide(OriginalOn(original[index]), needle, bias)
                   /\ \A i \in 1..(index-1) :
                        ComparePositions(OriginalOn(original[i]), OriginalOn(original[index])) < 0
  <2>1. index > 0 => /\ haystack[index] = OriginalOn(original[index])
                     /\ \A i \in 1..(index-1) : haystack[i] = OriginalOn(original[i])
    BY <1>1, <1>2, <1>3
  <2>. QED BY <1>3, <2>1
<1>. QED BY <1>1, <1>2, <1>3, <1>4, <1>5, <1>6, <1>7

\* generatedPositionFor takes a nearest mapping of the source.
LEMMA GeneratedIsFound ==
  ASSUME SearchInv, turn = "done", generated \in Seq(Entries), original \in Seq(Located),
         consumer.sources \in Seq(Strings),
         NEW q, q.line \in Int, q.column \in Int, bias = q.bias,
         Resolve(consumer.root, q.source) \in Range(consumer.sources),
         haystack = OriginalPositions(Self),
         needle = <<IndexOf(consumer.sources, Resolve(consumer.root, q.source)), q.line, q.column>>,
         NEW told, told = GeneratedPosition(Self, index, needle[1])
  PROVE  TellsGenerated(told, q)
<1>. DEFINE k == IndexOf(consumer.sources, Resolve(consumer.root, q.source))
            ms == {m \in Range(original) : m.source = k}
            place == <<0, q.line, q.column>>
            nearest == {m \in ms : /\ OnSide(OriginalPos(m), place, bias)
                                   /\ \A n \in ms : OnSide(OriginalPos(n), place, bias)
                                        => OnSide(OriginalPos(n), OriginalPos(m), bias)}
            f == original[index]
<1>1. SUFFICES ASSUME IsInjective(consumer.sources)
      PROVE  IF told.found = <<>> THEN nearest = {}
             ELSE \E m \in nearest : told.found = <<Place(Self, m)>>
  BY OfSourceIs DEF TellsGenerated, Nearest
<1>2. k \in Nat
  <2>. DEFINE r == Resolve(consumer.root, q.source)
              set == consumer.sources
  <2>1. set \in Seq(Strings) /\ r \in Range(set) /\ k = IndexOf(set, r)
    OBVIOUS
  <2>. HIDE DEF r, set, k
  <2>. QED BY <2>1, IndexOfIs
<1>3. needle = <<k, q.line, q.column>> /\ needle[1] = k /\ Self.original = original
  BY DEF Self
<1>. HIDE DEF k, f
<1>4. /\ \A m \in ms : m \in Located /\ (OnSide(OriginalOn(m), needle, bias) <=> OnSide(OriginalPos(m), place, bias))
      /\ \A m, n \in ms : OnSide(OriginalOn(m), OriginalOn(n), bias) <=> OnSide(OriginalPos(m), OriginalPos(n), bias)
  <2>1. \A m \in ms : m \in Located /\ m.source = k
    BY OriginalSearchFinds
  <2>. HIDE DEF ms
  <2>2. ASSUME NEW m \in ms
        PROVE  OnSide(OriginalOn(m), needle, bias) <=> OnSide(OriginalPos(m), place, bias)
    BY <1>2, <1>3, <2>1, SameSide DEF OriginalOn
  <2>3. ASSUME NEW m \in ms, NEW n \in ms
        PROVE  OnSide(OriginalOn(m), OriginalOn(n), bias) <=> OnSide(OriginalPos(m), OriginalPos(n), bias)
    BY <1>2, <2>1, SameSide DEF OriginalOn
  <2>. QED BY <2>1, <2>2, <2>3
<1>5. CASE index = 0
  <2>1. nearest = {}
    BY <1>4, <1>5, OriginalSearchFinds
  <2>2. told.found = <<>>
    BY <1>5 DEF GeneratedPosition, NoAnswer, Answer
  <2>. HIDE DEF nearest
  <2>. QED BY <2>1, <2>2
<1>6. CASE index # 0
  <2>1. /\ f \in Range(original) /\ f \in Located
        /\ OnSide(OriginalOn(f), needle, bias)
        /\ \A m \in Range(original) : OnSide(OriginalOn(m), needle, bias) =>
             OnSide(OriginalOn(m), OriginalOn(f), bias)
    <3>1. index > 0 /\ index \in 1..Len(original)
      BY <1>6, OriginalSearchFinds
    <3>. QED BY <3>1, OriginalSearchFinds DEF f
  <2>2. told = IF f.source # k THEN NoAnswer ELSE Answer(<<Place(Self, f)>>)
    BY <1>3, <1>6 DEF GeneratedPosition, f
  <2>3. CASE f.source = k
    <3>1. f \in ms
      BY <2>1, <2>3
    <3>2. f \in nearest
      <4>. HIDE DEF place
      <4>1. OnSide(OriginalPos(f), place, bias)
        BY <1>4, <2>1, <3>1
      <4>2. \A n \in ms : OnSide(OriginalPos(n), place, bias) => OnSide(OriginalPos(n), OriginalPos(f), bias)
        BY <1>4, <2>1, <3>1
      <4>. QED BY <3>1, <4>1, <4>2
    <3>3. told.found = <<Place(Self, f)>> /\ told.found # <<>>
      <4>1. told = Answer(<<Place(Self, f)>>)
        BY <2>2, <2>3
      <4>2. told.found = <<Place(Self, f)>>
        BY <4>1 DEF Answer
      <4>3. \A x : <<x>> # <<>>
        OBVIOUS
      <4>. QED BY <4>2, <4>3
    <3>. HIDE DEF nearest
    <3>. QED BY <3>2, <3>3
  <2>4. CASE f.source # k
    <3>1. told.found = <<>>
      BY <2>2, <2>4 DEF NoAnswer, Answer
    <3>2. ASSUME NEW m \in ms, OnSide(OriginalPos(m), place, bias)
          PROVE  FALSE
      <4>1. OnSide(OriginalOn(m), OriginalOn(f), bias) /\ m \in Located /\ m.source = k
        BY <1>4, <2>1, <3>2
      <4>. QED BY <1>2, <1>3, <1>4, <2>1, <2>4, <3>2, <4>1 DEF OnSide, ComparePositions, OriginalOn, Located
    <3>3. nearest = {}
      BY <3>2
    <3>. HIDE DEF nearest
    <3>. QED BY <3>1, <3>3
  <2>. QED BY <2>3, <2>4
<1>. QED BY <1>5, <1>6

\* AllPositionsAreFound of an answer to a question, with the mappings of a map
\* and those of the source.
AllTold(map, mappings, own, b, told, q) ==
  LET ms == IF q.column = Null THEN own ELSE {m \in own : m.originalLine = q.line}
      first == Nearest(ms, OriginalPos, <<0, q.line, Num(q.column)>>, b)
      Alike(m) == \E n \in first :
                    /\ m.originalLine = n.originalLine
                    /\ q.column # Null => m.originalColumn = n.originalColumn
  IN  first # {} =>
        /\ {Place(map, m) : m \in {k \in ms : Alike(k)}} \subseteq Range(told.found)
        /\ Range(told.found) \subseteq {Place(map, m) : m \in {k \in mappings : Alike(k)}}

TellsAll(told, q) ==
  /\ IsInjective(consumer.sources)
  /\ q.column = Null => \A m \in Range(original) : m.originalColumn >= 0
  => AllTold(Self, Range(original), OfSource(q.source), "LEAST_UPPER_BOUND", told, q)

\* The numbers up to n that follow i without a gap in a set.
RunOf(likes, i, n) == {k \in i..n : \A j \in i..k : j \in likes}

\* The elements that the loop of allGeneratedPositionsFor takes are those from
\* the first to one of them.
LEMMA TakenIsInterval ==
  ASSUME NEW n \in Nat, NEW i \in 1..n, NEW likes, i \in likes,
         NEW taken, taken = RunOf(likes, i, n)
  PROVE  \E e \in i..n : /\ taken = i..e
                         /\ Cardinality(taken) \in Nat /\ i + Cardinality(taken) - 1 = e
<1>. DEFINE e == Greatest(taken)
<1>0. taken = {k \in i..n : \A j \in i..k : j \in likes}
  BY DEF RunOf
<1>1. i \in taken /\ taken \in SUBSET (1..n)
  BY <1>0
<1>2. e \in taken /\ \A k \in taken : e >= k
  <2>. HIDE DEF e
  <2>1. taken # {}
    BY <1>1
  <2>. QED BY <1>1, <2>1, GreatestIs DEF e
<1>. HIDE DEF e
<1>3. taken = i..e
  BY <1>0, <1>2
<1>4. e \in i..n
  BY <1>0, <1>2
<1>5. Cardinality(taken) = e - i + 1
  <2>1. Cardinality(i..e) = e - i + 1
    BY <1>4, FS_Interval
  <2>. QED BY <1>3, <2>1
<1>6. Cardinality(taken) \in Nat /\ i + Cardinality(taken) - 1 = e
  <2>. DEFINE c == Cardinality(taken)
  <2>1. c = e - i + 1
    BY <1>5
  <2>. HIDE DEF c
  <2>2. c \in Nat /\ i + c - 1 = e
    BY <1>4, <2>1
  <2>. QED BY <2>2 DEF c
<1>. QED BY <1>3, <1>4, <1>6

\* How mappings lie to each other, and to a place that is asked for.
LEMMA SamePlace ==
  ASSUME NEW m \in Located, NEW n \in Located,
         OnSide(OriginalPos(m), OriginalPos(n), "LEAST_UPPER_BOUND"),
         OnSide(OriginalPos(n), OriginalPos(m), "LEAST_UPPER_BOUND")
  PROVE  m.originalLine = n.originalLine /\ m.originalColumn = n.originalColumn
BY DEF OnSide, ComparePositions, OriginalPos, Located

\* A mapping on the upper side of another one is not before it.
LEMMA NotBefore ==
  ASSUME NEW m \in Located, NEW f \in Located,
         OnSide(OriginalOn(m), OriginalOn(f), "LEAST_UPPER_BOUND")
  PROVE  ~(ComparePositions(OriginalOn(m), OriginalOn(f)) < 0)
BY DEF OnSide, ComparePositions, OriginalOn, Located

\* A mapping that is like the one that was found, and is not before the place
\* that was asked for, is no less near.
LEMMA LikeIsOnSide ==
  ASSUME NEW m \in Located, NEW f \in Located, NEW k \in Int, NEW l \in Int,
         NEW column \in Int \cup {Null}, NEW c \in Int, column # Null => c = column,
         column = Null => c = 0 /\ m.originalColumn >= 0,
         m.source = k, f.source = k, OnSide(OriginalOn(f), <<k, l, c>>, "LEAST_UPPER_BOUND"),
         column # Null => f.originalLine = l,
         GoesOn(m, f, l, column)
  PROVE  OnSide(OriginalOn(m), <<k, l, c>>, "LEAST_UPPER_BOUND")
BY DEF GoesOn, OnSide, ComparePositions, OriginalOn, Located

\* A mapping between a place and a mapping of the same source, or line, is of it.
LEMMA OfSameSource ==
  ASSUME NEW n \in Located, NEW f \in Located, NEW k \in Int, NEW l \in Int, NEW c \in Int,
         n.source = k, OnSide(OriginalOn(f), <<k, l, c>>, "LEAST_UPPER_BOUND"),
         OnSide(OriginalOn(n), OriginalOn(f), "LEAST_UPPER_BOUND")
  PROVE  f.source = k /\ (n.originalLine = l => f.originalLine = l)
BY DEF OnSide, ComparePositions, OriginalOn, Located

\* What lies between two that are alike is like them.
LEMMA LikeBetween ==
  ASSUME NEW m \in Located, NEW f \in Located, NEW g \in Located, NEW l \in Int,
         NEW column \in Int \cup {Null},
         m.source = f.source, column # Null => f.originalLine = l,
         ComparePositions(OriginalOn(f), OriginalOn(g)) <= 0,
         ComparePositions(OriginalOn(g), OriginalOn(m)) <= 0,
         GoesOn(m, f, l, column)
  PROVE  GoesOn(g, f, l, column)
BY DEF GoesOn, ComparePositions, OriginalOn, Located

\* allGeneratedPositionsFor takes all the mappings like the one that is found.
LEMMA AllIsFound ==
  ASSUME SearchInv, turn = "done", generated \in Seq(Entries), original \in Seq(Located),
         IsAscending(OriginalPositions(Self)), consumer.sources \in Seq(Strings),
         NEW q, q.line \in Int, q.column \in Int \cup {Null}, bias = "LEAST_UPPER_BOUND",
         Resolve(consumer.root, q.source) \in Range(consumer.sources),
         haystack = OriginalPositions(Self),
         needle = <<IndexOf(consumer.sources, Resolve(consumer.root, q.source)), q.line, Num(q.column)>>,
         NEW told, told = AllGeneratedPositions(Self, index, q.line, q.column)
  PROVE  TellsAll(told, q)
<1>. DEFINE k == IndexOf(consumer.sources, Resolve(consumer.root, q.source))
            c == Num(q.column)
            own == {m \in Range(original) : m.source = k}
            ms == IF q.column = Null THEN own ELSE {m \in own : m.originalLine = q.line}
            place == <<0, q.line, c>>
            first == {m \in ms : /\ OnSide(OriginalPos(m), place, bias)
                                 /\ \A n \in ms : OnSide(OriginalPos(n), place, bias)
                                      => OnSide(OriginalPos(n), OriginalPos(m), bias)}
            Alike(m) == \E n \in first :
                          /\ m.originalLine = n.originalLine
                          /\ q.column # Null => m.originalColumn = n.originalColumn
            f == original[index]
            Like(m) == GoesOn(m, f, q.line, q.column)
<1>0. SUFFICES ASSUME IsInjective(consumer.sources),
                      q.column = Null => \A m \in Range(original) : m.originalColumn >= 0
      PROVE  AllTold(Self, Range(original), own, bias, told, q)
  <2>1. IsInjective(consumer.sources) => OfSource(q.source) = own
    BY OfSourceIs
  <2>. HIDE DEF own
  <2>. QED BY <2>1 DEF TellsAll
<1>1. SUFFICES ASSUME first # {}
      PROVE  /\ {Place(Self, m) : m \in {n \in ms : Alike(n)}} \subseteq Range(told.found)
             /\ Range(told.found) \subseteq {Place(Self, m) : m \in {n \in Range(original) : Alike(n)}}
  BY DEF AllTold, Nearest
<1>2. k \in Nat /\ c \in Int /\ (q.column = Null => c = 0) /\ (q.column # Null => c = q.column)
  <2>. DEFINE r == Resolve(consumer.root, q.source)
              set == consumer.sources
  <2>1. set \in Seq(Strings) /\ r \in Range(set) /\ k = IndexOf(set, r)
    OBVIOUS
  <2>2. c \in Int /\ (q.column = Null => c = 0) /\ (q.column # Null => c = q.column)
    BY DEF Num
  <2>. HIDE DEF r, set, k
  <2>. QED BY <2>1, <2>2, IndexOfIs
<1>3. needle = <<k, q.line, c>> /\ Self.original = original
  BY DEF Self
<1>. HIDE DEF k, c, f
<1>4. /\ \A m \in ms : /\ m \in Located /\ m \in Range(original) /\ m.source = k
                       /\ q.column # Null => m.originalLine = q.line
                       /\ OnSide(OriginalOn(m), needle, bias) <=> OnSide(OriginalPos(m), place, bias)
      /\ \A m, n \in ms : OnSide(OriginalOn(m), OriginalOn(n), bias) <=> OnSide(OriginalPos(m), OriginalPos(n), bias)
  <2>1. \A m \in ms : /\ m \in Located /\ m \in Range(original) /\ m.source = k
                      /\ q.column # Null => m.originalLine = q.line
    BY OriginalSearchFinds
  <2>. HIDE DEF ms
  <2>2. ASSUME NEW m \in ms
        PROVE  OnSide(OriginalOn(m), needle, bias) <=> OnSide(OriginalPos(m), place, bias)
    BY <1>2, <1>3, <2>1, SameSide DEF OriginalOn
  <2>3. ASSUME NEW m \in ms, NEW n \in ms
        PROVE  OnSide(OriginalOn(m), OriginalOn(n), bias) <=> OnSide(OriginalPos(m), OriginalPos(n), bias)
    BY <1>2, <2>1, SameSide DEF OriginalOn
  <2>. QED BY <2>1, <2>2, <2>3
<1>5. /\ index \in 1..Len(original) /\ f \in Located /\ f \in ms
      /\ OnSide(OriginalOn(f), needle, bias)
      /\ \A m \in Range(original) : OnSide(OriginalOn(m), needle, bias) =>
           OnSide(OriginalOn(m), OriginalOn(f), bias)
      /\ \A i \in 1..(index-1) : ComparePositions(OriginalOn(original[i]), OriginalOn(f)) < 0
  <2>1. PICK n \in ms : OnSide(OriginalPos(n), place, bias)
    BY <1>1
  <2>2. n \in Range(original) /\ OnSide(OriginalOn(n), needle, bias)
    BY <1>4, <2>1
  <2>3. index > 0 /\ index \in 1..Len(original)
    <3>1. index \in 0..Len(original) /\ Len(original) \in Nat
      BY OriginalSearchFinds
    <3>2. index # 0
      BY <2>2, OriginalSearchFinds
    <3>. QED BY <3>1, <3>2
  <2>4. /\ f \in Range(original) /\ f \in Located
        /\ OnSide(OriginalOn(f), needle, bias)
        /\ \A m \in Range(original) : OnSide(OriginalOn(m), needle, bias) =>
             OnSide(OriginalOn(m), OriginalOn(f), bias)
        /\ \A i \in 1..(index-1) : ComparePositions(OriginalOn(original[i]), OriginalOn(f)) < 0
    BY <2>3, OriginalSearchFinds DEF f
  <2>5. OnSide(OriginalOn(n), OriginalOn(f), bias)
    BY <2>2, <2>4
  <2>6. f.source = k /\ (q.column # Null => f.originalLine = q.line)
    <3>1. n \in Located /\ n.source = k /\ (q.column # Null => n.originalLine = q.line)
      BY <1>4
    <3>2. OnSide(OriginalOn(f), <<k, q.line, c>>, bias)
      BY <1>3, <2>4
    <3>. QED BY <1>2, <2>4, <2>5, <3>1, <3>2, OfSameSource
  <2>7. f \in ms
    BY <2>4, <2>6
  <2>. QED BY <2>3, <2>4, <2>7
<1>6. f \in first
  <2>1. OnSide(OriginalPos(f), place, bias)
    BY <1>4, <1>5
  <2>2. \A n \in ms : OnSide(OriginalPos(n), place, bias) => OnSide(OriginalPos(n), OriginalPos(f), bias)
    BY <1>4, <1>5
  <2>. QED BY <1>5, <2>1, <2>2
<1>7. ASSUME NEW m \in Range(original)
      PROVE  Alike(m) <=> Like(m)
  <2>1. ASSUME NEW n \in first
        PROVE  n.originalLine = f.originalLine /\ n.originalColumn = f.originalColumn
    <3>1. /\ OnSide(OriginalPos(n), OriginalPos(f), bias) /\ OnSide(OriginalPos(f), OriginalPos(n), bias)
          /\ n \in ms
      BY <1>5, <1>6, <2>1
    <3>2. n \in Located
      BY <1>4, <3>1
    <3>3. f \in Located
      BY <1>5
    <3>. QED BY <3>1, <3>2, <3>3, SamePlace
  <2>2. q.column # Null => f.originalLine = q.line
    BY <1>4, <1>5
  <2>. HIDE DEF first
  <2>. QED BY <1>6, <2>1, <2>2 DEF GoesOn
<1>. DEFINE taken == {j \in index..Len(original) : \A i \in index..j : Like(original[i])}
            many == Cardinality(taken)
<1>8. PICK e \in index..Len(original) :
        taken = index..e /\ many \in Nat /\ index + many - 1 = e
  <2>. DEFINE likes == {j \in 1..Len(original) : Like(original[j])}
  <2>1. Like(f)
    BY <1>4, <1>5 DEF GoesOn
  <2>2. index \in likes
    BY <1>5, <2>1 DEF f
  <2>3. Len(original) \in Nat
    BY OriginalSearchFinds
  <2>4. taken = RunOf(likes, index, Len(original))
    BY <1>5 DEF RunOf
  <2>5. index \in 1..Len(original)
    BY <1>5
  <2>. HIDE DEF Like, likes, taken
  <2>. QED BY <2>2, <2>3, <2>4, <2>5, TakenIsInterval
<1>9. Range(told.found) = {Place(Self, original[j]) : j \in taken}
  <2>1. told = Answer([i \in 1..many |-> Place(Self, original[index + i - 1])])
    <3>1. index # 0
      BY <1>5
    <3>. QED BY <1>3, <3>1 DEF AllGeneratedPositions, f
  <2>. HIDE DEF taken, many
  <2>2. told.found = [i \in 1..many |-> Place(Self, original[index + i - 1])]
    BY <2>1 DEF Answer
  <2>3. Range(told.found) = {Place(Self, original[index + i - 1]) : i \in 1..many}
    <3>1. DOMAIN told.found = 1..many
      BY <2>2
    <3>2. \A i \in 1..many : told.found[i] = Place(Self, original[index + i - 1])
      BY <2>2
    <3>. QED BY <3>1, <3>2 DEF Range
  <2>4. /\ \A i \in 1..many : index + i - 1 \in taken
        /\ \A j \in taken : j - index + 1 \in 1..many /\ index + (j - index + 1) - 1 = j
    BY <1>5, <1>8
  <2>. QED BY <2>3, <2>4
<1>10. Range(told.found) \subseteq {Place(Self, m) : m \in {n \in Range(original) : Alike(n)}}
  <2>1. ASSUME NEW j \in taken PROVE original[j] \in Range(original) /\ Like(original[j])
    <3>1. j \in 1..Len(original) /\ j \in index..j
      BY <1>5
    <3>2. Like(original[j])
      <4>. HIDE DEF Like
      <4>. QED BY <3>1
    <3>. QED BY <3>1, <3>2, OriginalSearchFinds
  <2>2. \A j \in taken : original[j] \in {n \in Range(original) : Alike(n)}
    BY <1>7, <2>1
  <2>. HIDE DEF taken, Alike
  <2>. QED BY <1>9, <2>2
<1>11. ASSUME NEW m \in ms, Like(m)
       PROVE  \E j \in taken : m = original[j]
  <2>1. m \in Range(original) /\ m \in Located /\ m.source = k
    BY <1>4
  <2>2. f.source = k /\ (q.column # Null => m.originalLine = q.line /\ f.originalLine = q.line)
    BY <1>4, <1>5
  <2>3. PICK j \in 1..Len(original) : m = original[j]
    BY <2>1, OriginalSearchFinds
  <2>4. OnSide(OriginalOn(m), needle, bias)
    <3>1. q.column = Null => m.originalColumn >= 0
      BY <1>0, <2>1
    <3>2. f \in Located /\ OnSide(OriginalOn(f), needle, bias)
      BY <1>5
    <3>3. GoesOn(m, f, q.line, q.column) /\ OnSide(OriginalOn(f), <<k, q.line, c>>, "LEAST_UPPER_BOUND")
      BY <1>3, <1>11, <3>2
    <3>4. OnSide(OriginalOn(m), <<k, q.line, c>>, "LEAST_UPPER_BOUND")
      <4>1. k \in Int
        BY <1>2
      <4>. QED BY <1>2, <2>1, <2>2, <3>1, <3>2, <3>3, <4>1, LikeIsOnSide
    <3>. QED BY <1>3, <3>4
  <2>5. OnSide(OriginalOn(m), OriginalOn(f), bias)
    BY <1>5, <2>1, <2>4
  <2>6. j >= index
    <3>1. ~(ComparePositions(OriginalOn(m), OriginalOn(f)) < 0)
      <4>1. f \in Located
        BY <1>5
      <4>. QED BY <2>1, <2>5, <4>1, NotBefore
    <3>. QED BY <1>5, <2>3, <3>1
  <2>7. ASSUME NEW i \in index..j PROVE Like(original[i])
    <3>. DEFINE g == original[i]
    <3>1. /\ i \in 1..Len(original) /\ g \in Located
          /\ index < i => ComparePositions(OriginalOn(f), OriginalOn(g)) <= 0
          /\ i < j => ComparePositions(OriginalOn(g), OriginalOn(m)) <= 0
      <4>1. i \in 1..Len(original) /\ Len(haystack) = Len(original)
        BY <1>5, <2>3, PositionsAre
      <4>2. /\ haystack[i] = OriginalOn(g) /\ haystack[index] = OriginalOn(f)
            /\ haystack[j] = OriginalOn(m) /\ g \in Located
        BY <1>5, <2>3, <4>1, OriginalSearchFinds DEF f
      <4>. HIDE DEF g
      <4>. QED BY <1>5, <2>3, <2>6, <4>1, <4>2 DEF IsAscending
    <3>2. CASE i = index
      BY <1>4, <1>5, <2>2, <3>2 DEF GoesOn, f
    <3>3. CASE i = j
      BY <1>11, <2>3, <3>3
    <3>4. CASE index < i /\ i < j
      <4>. HIDE DEF g
      <4>1. GoesOn(g, f, q.line, q.column)
        <5>1. f \in Located
          BY <1>5
        <5>. QED BY <1>11, <2>1, <2>2, <3>1, <3>4, <5>1, LikeBetween
      <4>. QED BY <4>1 DEF g
    <3>. QED BY <1>5, <2>3, <2>6, <3>2, <3>3, <3>4
  <2>. HIDE DEF Like
  <2>8. j \in taken
    BY <1>5, <2>3, <2>6, <2>7
  <2>. QED BY <2>3, <2>8
<1>12. {Place(Self, m) : m \in {n \in ms : Alike(n)}} \subseteq Range(told.found)
  <2>1. ASSUME NEW m \in ms, Alike(m) PROVE Place(Self, m) \in Range(told.found)
    <3>1. Like(m)
      <4>. HIDE DEF Alike, Like
      <4>. QED BY <1>4, <1>7, <2>1
    <3>2. PICK j \in taken : m = original[j]
      BY <1>11, <3>1
    <3>. HIDE DEF taken
    <3>. QED BY <1>9, <3>2
  <2>. HIDE DEF Alike, ms
  <2>. QED BY <2>1
<1>. QED BY <1>10, <1>12

(***************************************************************************)
(* The invariant of a consumer on its own.  Its lists keep their mappings; *)
(* what is still out of order lies within one of the ranges that are left  *)
(* to sort; a search is for the question that was asked.                   *)
(***************************************************************************)
ReadTypes ==
  /\ consumer.sections = <<>> /\ consumer.sources \in Seq(Strings)
  /\ generated \in Seq(Entries) /\ original \in Seq(Located)

SortsInTurn ==
  /\ stage \in {"sort generated", "sort original", "ready", "searching", "answered"}
  /\ stage = "sort generated" => Pending(generated, ranges)
  /\ stage # "sort generated" => IsAscending(GeneratedPositions(Self))
  /\ stage = "sort original" => Pending(original, ranges)
  /\ stage \notin {"sort generated", "sort original"} => IsAscending(OriginalPositions(Self))

\* A search is for the question that was asked.
IsSearched(q) ==
  /\ q.kind = "original" =>
       /\ haystack = GeneratedPositions(Self)
       /\ needle = <<0, q.line, q.column>> /\ bias = q.bias
  /\ q.kind # "original" =>
       /\ Resolve(consumer.root, q.source) \in Range(consumer.sources)
       /\ haystack = OriginalPositions(Self)
       /\ needle = <<IndexOf(consumer.sources, Resolve(consumer.root, q.source)), q.line, Num(q.column)>>
       /\ bias = IF q.kind = "generated" THEN q.bias ELSE "LEAST_UPPER_BOUND"

AsksAndAnswers ==
  /\ turn # "idle" <=> stage = "searching"
  /\ stage = "searching" => question \in AnyQuestions /\ IsSearched(question)
  /\ stage # "answered" => answer = NoAnswer
  /\ stage \in {"searching", "answered"} => back = "ready"

ReadInv ==
  /\ ReadTypes /\ SortsInTurn /\ SearchInv /\ AsksAndAnswers
  /\ AnswersAreNearest

\* The three properties, of the last answer.
LEMMA AnswersTell ==
  ASSUME consumer.sections = <<>>
  PROVE  AnswersAreNearest <=>
           /\ Answered("original") => TellsOriginal(answer, question)
           /\ Answered("generated") => TellsGenerated(answer, question)
           /\ Answered("all") => TellsAll(answer, question)
BY DEF AnswersAreNearest, OriginalIsNearest, GeneratedIsNearest, AllPositionsAreFound,
       TellsOriginal, TellsGenerated, TellsAll, AllTold

\* Without an answer there is nothing to be said of it.
LEMMA NotAnswered ==
  ASSUME stage' # "answered"
  PROVE  AnswersAreNearest'
BY DEF AnswersAreNearest, OriginalIsNearest, GeneratedIsNearest, AllPositionsAreFound, Answered

\* A list of positions is made of the mappings alone.
LEMMA PositionsStay ==
  ASSUME UNCHANGED <<generated, original>>
  PROVE  /\ GeneratedPositions(Self)' = GeneratedPositions(Self)
         /\ OriginalPositions(Self)' = OriginalPositions(Self)
BY DEF GeneratedPositions, OriginalPositions, Self

\* A consumer whose mappings have just been read has all of its sorting left.
LEMMA ReadsAtFirst == ReadInit => ReadInv
<1>. SUFFICES ASSUME ReadInit PROVE ReadInv
  OBVIOUS
<1>1. ReadTypes
  <2>1. PICK text \in Seq(Int), sources, names \in Seq(Strings), root \in Strings \cup {Null} :
          consumer = SourceMap(text, sources, names, root, Null, <<>>, NewGenerator(Null))
    BY DEF ReadInit
  <2>2. consumer.sections = <<>> /\ consumer.sources = sources
    BY <2>1 DEF SourceMap
  <2>. QED BY <2>2 DEF ReadInit, ReadTypes, Entries
<1>2. SortsInTurn
  <2>1. generated \in Seq(Entries) /\ original \in Seq(Entries)
    BY <1>1 DEF ReadTypes, Entries
  <2>2. CASE stage = "sort generated"
    BY <2>1, <2>2, PendingAtFirst DEF ReadInit, SortsInTurn
  <2>3. CASE stage = "sort original"
    BY <2>1, <2>3, PendingAtFirst DEF ReadInit, SortsInTurn
  <2>. QED BY <2>2, <2>3 DEF ReadInit
<1>3. SearchInv
  <2>1. SearchInit
    BY DEF ReadInit
  <2>. QED BY <2>1, SearchBegins
<1>4. AsksAndAnswers
  BY DEF ReadInit, SearchInit, AsksAndAnswers
<1>5. AnswersAreNearest
  BY DEF ReadInit, AnswersAreNearest, OriginalIsNearest, GeneratedIsNearest, AllPositionsAreFound, Answered
<1>. QED BY <1>1, <1>2, <1>3, <1>4, <1>5 DEF ReadInv

\* One call of doQuickSort.
LEMMA SortingReads ==
  ASSUME ReadInv, SortGenerated \/ SortOriginal
  PROVE  ReadInv'
<1>1. /\ UNCHANGED <<searchVars, consumer, talkVars>>
      /\ stage \in {"sort generated", "sort original"} /\ stage' = stage
  BY DEF SortGenerated, SortOriginal, talkVars
<1>2. SearchInv'
  BY <1>1, SearchStays DEF ReadInv
<1>3. AsksAndAnswers'
  BY <1>1 DEF ReadInv, AsksAndAnswers, talkVars, searchVars
<1>4. AnswersAreNearest'
  BY <1>1, NotAnswered
<1>5. CASE SortGenerated
  <2>1. /\ Pending(generated, ranges) /\ ranges # <<>> /\ DoQuickSort(generated, generated')
        /\ original' = original /\ stage = "sort generated" /\ stage' = stage
    BY <1>1, <1>5 DEF SortGenerated, ReadInv, SortsInTurn
  <2>2. Pending(generated', ranges')
    BY <2>1, QuickSortKeeps
  <2>3. Pending(generated, ranges)'
    BY <2>1, <2>2 DEF Pending, Compare
  <2>4. generated' \in Seq(Entries)
    BY <2>2 DEF Pending
  <2>. QED BY <1>1, <1>2, <1>3, <1>4, <2>1, <2>3, <2>4 DEF ReadInv, ReadTypes, SortsInTurn
<1>6. CASE SortOriginal
  <2>1. /\ Pending(original, ranges) /\ ranges # <<>> /\ DoQuickSort(original, original')
        /\ generated' = generated /\ stage = "sort original" /\ stage' = stage
        /\ original \in Seq(Located) /\ original \in Seq(Entries)
    BY <1>1, <1>6 DEF SortOriginal, ReadInv, SortsInTurn, ReadTypes, Pending
  <2>2. Pending(original', ranges') /\ Rearranges(original, original', 1, Len(original))
    BY <2>1, QuickSortKeeps
  <2>3. Pending(original, ranges)'
    BY <2>1, <2>2 DEF Pending, Compare
  <2>4. original' \in Seq(Located)
    <3>1. Range(original') = Range(original) /\ original' \in Seq(Entries)
      BY <2>1, <2>2, RearrangingKeeps DEF Pending
    <3>2. \A i \in DOMAIN original : original[i] \in Located
      <4>1. \A L : \A t \in Seq(L) : \A i \in DOMAIN t : t[i] \in L
        OBVIOUS
      <4>. QED BY <2>1, <4>1
    <3>3. \A i \in 1..Len(original') : original'[i] \in Located
      BY <3>1, <3>2 DEF Range
    <3>. QED BY <3>1, <3>3
  <2>5. GeneratedPositions(Self)' = GeneratedPositions(Self)
    BY <2>1 DEF GeneratedPositions, Self
  <2>6. IsAscending(GeneratedPositions(Self)')
    BY <2>1, <2>5 DEF ReadInv, SortsInTurn
  <2>. QED BY <1>1, <1>2, <1>3, <1>4, <2>1, <2>3, <2>4, <2>6 DEF ReadInv, ReadTypes, SortsInTurn
<1>. QED BY <1>5, <1>6

\* A sort ends on a list in order, and the second one begins.
LEMMA SortEndsReads ==
  ASSUME ReadInv, SortEnds
  PROVE  ReadInv'
<1>1. UNCHANGED <<searchVars, consumer, generated, original, back, question, answer>> /\ ranges = <<>>
  BY DEF SortEnds
<1>2. /\ stage \in {"sort generated", "sort original"}
      /\ stage = "sort generated" => stage' = "sort original" /\ ranges' = Call(1, Len(original))
      /\ stage = "sort original" => stage' = "ready"
  BY DEF SortEnds
<1>3. ReadTypes /\ SortsInTurn /\ SearchInv /\ AsksAndAnswers
  BY DEF ReadInv
<1>4. SearchInv' /\ AnswersAreNearest' /\ ReadTypes'
  BY <1>1, <1>2, <1>3, SearchStays, NotAnswered DEF ReadTypes
<1>5. AsksAndAnswers'
  BY <1>1, <1>2, <1>3 DEF AsksAndAnswers, searchVars
<1>6. /\ GeneratedPositions(Self)' = GeneratedPositions(Self)
      /\ OriginalPositions(Self)' = OriginalPositions(Self)
  BY <1>1, PositionsStay
<1>7. CASE stage = "sort generated"
  <2>1. Pending(generated, <<>>)
    BY <1>1, <1>3, <1>7 DEF SortsInTurn
  <2>2. IsAscending(GeneratedPositions(Self))
    BY <1>7, <2>1, SortedIsAscending DEF GeneratedPositions, Self
  <2>3. original \in Seq(Entries)
    BY <1>3 DEF ReadTypes, Entries
  <2>4. Pending(original, ranges)'
    BY <1>1, <1>2, <1>7, <2>3, FirstCallIsForAll DEF Pending
  <2>5. IsAscending(GeneratedPositions(Self)')
    BY <1>6, <2>2
  <2>. QED BY <1>2, <1>4, <1>5, <1>7, <2>4, <2>5 DEF ReadInv, SortsInTurn
<1>8. CASE stage = "sort original"
  <2>1. Pending(original, <<>>) /\ original \in Seq(Located)
    BY <1>1, <1>3, <1>8 DEF SortsInTurn, ReadTypes
  <2>2. IsAscending(OriginalPositions(Self))
    BY <1>8, <2>1, SortedIsAscending DEF OriginalPositions, Self
  <2>3. IsAscending(GeneratedPositions(Self))
    BY <1>3, <1>8 DEF SortsInTurn
  <2>4. IsAscending(GeneratedPositions(Self)') /\ IsAscending(OriginalPositions(Self)')
    BY <1>6, <2>2, <2>3
  <2>. QED BY <1>2, <1>4, <1>5, <1>8, <2>4 DEF ReadInv, SortsInTurn
<1>. QED BY <1>2, <1>7, <1>8

\* What a question is made of.
LEMMA QuestionIs ==
  ASSUME NEW q \in AnyQuestions
  PROVE  /\ q.kind \in {"original", "generated", "all"} /\ q.line \in Int
         /\ q.kind # "all" => q.column \in Int /\ q.bias \in Biases /\ Num(q.column) = q.column
         /\ q.column \in Int \cup {Null} /\ Num(q.column) \in Int
BY NumIsInt, NullAssumption DEF AnyQuestions, Num

\* A source that the map does not name has no mappings.
LEMMA UnknownSourceTells ==
  ASSUME NEW q, Resolve(consumer.root, q.source) \notin Range(consumer.sources)
  PROVE  TellsGenerated(NoAnswer, q) /\ TellsAll(NoAnswer, q)
<1>1. OfSource(q.source) = {}
  BY DEF OfSource, At, Range
<1>2. NoAnswer.found = <<>>
  BY DEF NoAnswer, Answer
<1>3. TellsGenerated(NoAnswer, q)
  BY <1>1, <1>2 DEF TellsGenerated, Nearest
<1>4. TellsAll(NoAnswer, q)
  BY <1>1 DEF TellsAll, AllTold, Nearest
<1>. QED BY <1>3, <1>4

\* While the consumer stays, what an answer tells does.
LEMMA TellsStay ==
  ASSUME UNCHANGED consumerVars, consumer.sections = <<>>, stage' = "answered",
         ~answer'.threw =>
           /\ question'.kind = "original" => TellsOriginal(answer', question')
           /\ question'.kind = "generated" => TellsGenerated(answer', question')
           /\ question'.kind = "all" => TellsAll(answer', question')
  PROVE  AnswersAreNearest'
<1>1. Self' = Self /\ UNCHANGED <<consumer, generated, original>>
  BY DEF Self, consumerVars, listVars
<1>2. /\ TellsOriginal(answer', question') => TellsOriginal(answer, question)'
      /\ TellsGenerated(answer', question') => TellsGenerated(answer, question)'
      /\ TellsAll(answer', question') => TellsAll(answer, question)'
  <2>1. TellsOriginal(answer', question') => TellsOriginal(answer, question)'
    BY <1>1 DEF TellsOriginal, Nearest
  <2>2. TellsGenerated(answer', question') => TellsGenerated(answer, question)'
    BY <1>1 DEF TellsGenerated, Nearest, OfSource
  <2>3. TellsAll(answer', question') => TellsAll(answer, question)'
    <3>1. OfSource(question'.source) = OfSource(question.source)'
      BY <1>1 DEF OfSource
    <3>. QED BY <1>1, <3>1 DEF TellsAll
  <2>. QED BY <2>1, <2>2, <2>3
<1>3. /\ Answered("original")' => TellsOriginal(answer, question)'
      /\ Answered("generated")' => TellsGenerated(answer, question)'
      /\ Answered("all")' => TellsAll(answer, question)'
  BY <1>2 DEF Answered
<1>. QED BY <1>1, <1>3
         DEF AnswersAreNearest, OriginalIsNearest, GeneratedIsNearest, AllPositionsAreFound,
             TellsOriginal, TellsGenerated, TellsAll, AllTold

\* A question leads to a search for its place, or is answered at once.
LEMMA AskReads ==
  ASSUME ReadInv, NEW q \in AnyQuestions, Ask(q)
  PROVE  ReadInv'
<1>1. ReadTypes /\ SortsInTurn /\ SearchInv /\ AsksAndAnswers
  BY DEF ReadInv
<1>2. /\ stage = "ready" /\ question' = q /\ back' = "ready" /\ answer = NoAnswer
      /\ UNCHANGED consumerVars /\ UNCHANGED <<consumer, generated, original, ranges>>
  BY <1>1 DEF Ask, AsksAndAnswers, consumerVars, listVars
<1>3. /\ GeneratedPositions(Self)' = GeneratedPositions(Self)
      /\ OriginalPositions(Self)' = OriginalPositions(Self)
  BY <1>2, PositionsStay
<1>4. IsAscending(GeneratedPositions(Self)) /\ IsAscending(OriginalPositions(Self))
  BY <1>1, <1>2 DEF SortsInTurn
<1>5. stage' \in {"searching", "answered"}
  BY <1>2 DEF Ask, FindInSource, FindMapping
<1>6. ReadTypes' /\ SortsInTurn'
  <2>1. IsAscending(GeneratedPositions(Self)') /\ IsAscending(OriginalPositions(Self)')
    BY <1>3, <1>4
  <2>. QED BY <1>1, <1>2, <1>5, <2>1 DEF ReadTypes, SortsInTurn
<1>7. turn = "idle"
  BY <1>1, <1>2 DEF AsksAndAnswers
<1>8. /\ q.kind \in {"original", "generated", "all"} /\ q.line \in Int
      /\ q.kind # "all" => q.column \in Int /\ q.bias \in Biases /\ Num(q.column) = q.column
      /\ Num(q.column) \in Int
  BY QuestionIs
<1>. DEFINE r == Resolve(consumer.root, q.source)
            set == consumer.sources
            answers == stage' = "answered" /\ UNCHANGED searchVars
            asks(p, h, b) == stage' = "searching" /\ Search(p, h, b) /\ answer' = answer
<1>9. \/ answers /\ answer' = Threw
      \/ answers /\ q.kind # "original" /\ r \notin Range(set) /\ answer' = answer
      \/ q.kind = "original" /\ asks(<<0, q.line, q.column>>, GeneratedPositions(Self), q.bias)
      \/ /\ q.kind # "original" /\ r \in Range(set)
         /\ asks(<<IndexOf(set, r), q.line, Num(q.column)>>, OriginalPositions(Self),
                 IF q.kind = "generated" THEN q.bias ELSE "LEAST_UPPER_BOUND")
  BY <1>8 DEF Ask, FindInSource, FindMapping
<1>10. CASE answers /\ answer' = Threw
  <2>1. AnswersAreNearest'
    BY <1>10 DEF AnswersAreNearest, OriginalIsNearest, GeneratedIsNearest,
                 AllPositionsAreFound, Answered, Threw
  <2>2. AsksAndAnswers'
    BY <1>2, <1>7, <1>10 DEF AsksAndAnswers, searchVars
  <2>. QED BY <1>1, <1>6, <1>10, <2>1, <2>2, SearchStays DEF ReadInv
<1>11. CASE answers /\ q.kind # "original" /\ r \notin Range(set) /\ answer' = answer
  <2>1. AnswersAreNearest'
    <3>1. TellsGenerated(answer', question') /\ TellsAll(answer', question')
      BY <1>2, <1>11, UnknownSourceTells
    <3>2. consumer.sections = <<>>
      BY <1>1 DEF ReadTypes
    <3>. QED BY <1>2, <1>11, <3>1, <3>2, TellsStay
  <2>2. AsksAndAnswers'
    BY <1>2, <1>7, <1>11 DEF AsksAndAnswers, searchVars
  <2>. QED BY <1>1, <1>6, <1>11, <2>1, <2>2, SearchStays DEF ReadInv
<1>12. GeneratedPositions(Self) \in Seq(Positions) /\ OriginalPositions(Self) \in Seq(Positions)
  BY <1>1, PositionsAre DEF ReadTypes
<1>13. CASE /\ q.kind = "original"
            /\ asks(<<0, q.line, q.column>>, GeneratedPositions(Self), q.bias)
  <2>1. <<0, q.line, q.column>> \in Positions /\ q.bias \in Biases
    BY <1>8, <1>13 DEF Positions
  <2>2. SearchInv'
    BY <1>1, <1>4, <1>12, <1>13, <2>1, SearchKeeps
  <2>3. IsSearched(question)'
    BY <1>2, <1>3, <1>13 DEF IsSearched, Search
  <2>4. turn' # "idle"
    BY <1>13 DEF Search
  <2>5. AsksAndAnswers'
    BY <1>2, <1>13, <2>3, <2>4 DEF AsksAndAnswers
  <2>6. AnswersAreNearest'
    BY <1>13, NotAnswered
  <2>. QED BY <1>6, <2>2, <2>5, <2>6 DEF ReadInv
<1>14. CASE /\ q.kind # "original" /\ r \in Range(set)
            /\ asks(<<IndexOf(set, r), q.line, Num(q.column)>>, OriginalPositions(Self),
                    IF q.kind = "generated" THEN q.bias ELSE "LEAST_UPPER_BOUND")
  <2>. DEFINE b == IF q.kind = "generated" THEN q.bias ELSE "LEAST_UPPER_BOUND"
              p == <<IndexOf(set, r), q.line, Num(q.column)>>
  <2>1. p \in Positions /\ b \in Biases
    <3>1. IndexOf(set, r) \in Nat
      <4>1. set \in Seq(Strings) /\ r \in Range(set)
        BY <1>1, <1>14 DEF ReadTypes
      <4>. HIDE DEF set, r
      <4>. QED BY <4>1, IndexOfIs
    <3>2. b \in Biases
      BY <1>8 DEF Biases
    <3>. HIDE DEF set, r, b
    <3>. QED BY <1>8, <3>1, <3>2 DEF Positions
  <2>2. SearchInv'
    <3>1. Search(p, OriginalPositions(Self), b)
      BY <1>14
    <3>. HIDE DEF p, b
    <3>. QED BY <1>1, <1>4, <1>12, <2>1, <3>1, SearchKeeps
  <2>3. IsSearched(question)'
    <3>1. haystack' = OriginalPositions(Self) /\ needle' = p /\ bias' = b
      BY <1>14 DEF Search
    <3>2. r' = r /\ set' = set
      BY <1>2
    <3>. QED BY <1>2, <1>3, <1>14, <3>1, <3>2 DEF IsSearched
  <2>4. turn' # "idle"
    BY <1>14 DEF Search
  <2>5. AsksAndAnswers'
    BY <1>2, <1>14, <2>3, <2>4 DEF AsksAndAnswers
  <2>6. AnswersAreNearest'
    BY <1>14, NotAnswered
  <2>. QED BY <1>6, <2>2, <2>5, <2>6 DEF ReadInv
<1>. HIDE DEF answers, asks, r, set
<1>. QED BY <1>9, <1>10, <1>11, <1>13, <1>14

\* A step of the search is for the same question.
LEMMA SearchOnReads ==
  ASSUME ReadInv, SearchOn
  PROVE  ReadInv'
<1>1. /\ UNCHANGED <<consumer, generated, original, ranges, stage, back, question, answer, spanned>>
      /\ UNCHANGED <<haystack, needle, bias>>
      /\ turn # "idle" /\ turn' # "idle" /\ SearchStep
  BY DEF SearchOn, SearchStep, RecursiveSearch, StepBack, AboveMid, BelowMid, Found,
         consumerVars, listVars, talkVars
<1>2. stage = "searching"
  BY <1>1 DEF ReadInv, AsksAndAnswers
<1>3. SearchInv'
  BY <1>1, RecursiveSearchKeeps, StepBackKeeps DEF ReadInv, SearchStep
<1>4. AnswersAreNearest'
  BY <1>1, <1>2, NotAnswered
<1>5. Self' = Self
  BY <1>1 DEF Self
<1>6. ReadTypes' /\ SortsInTurn'
  <2>1. /\ GeneratedPositions(Self)' = GeneratedPositions(Self)
        /\ OriginalPositions(Self)' = OriginalPositions(Self)
    BY <1>1, PositionsStay
  <2>2. IsAscending(GeneratedPositions(Self)) /\ IsAscending(OriginalPositions(Self))
    BY <1>2 DEF ReadInv, SortsInTurn
  <2>3. IsAscending(GeneratedPositions(Self)') /\ IsAscending(OriginalPositions(Self)')
    BY <2>1, <2>2
  <2>. QED BY <1>1, <1>2, <2>3 DEF ReadInv, ReadTypes, SortsInTurn
<1>7. AsksAndAnswers'
  <2>1. IsSearched(question)' <=> IsSearched(question)
    BY <1>1, <1>5 DEF IsSearched, GeneratedPositions, OriginalPositions
  <2>. QED BY <1>1, <1>2, <2>1 DEF ReadInv, AsksAndAnswers
<1>. QED BY <1>3, <1>4, <1>6, <1>7 DEF ReadInv

\* The answer is made of what the search has found.
LEMMA ReplyReads ==
  ASSUME ReadInv, Reply
  PROVE  ReadInv'
<1>1. ReadTypes /\ SortsInTurn /\ SearchInv /\ AsksAndAnswers
  BY DEF ReadInv
<1>2. /\ stage = "searching" /\ stage' = "answered" /\ UNCHANGED consumerVars
      /\ UNCHANGED <<back, question, consumer, generated, original, ranges>>
      /\ turn = "done" /\ turn' = "idle" /\ Return
  BY DEF Reply, Return, consumerVars, listVars
<1>3. question \in AnyQuestions /\ IsSearched(question) /\ back = "ready"
  BY <1>1, <1>2 DEF AsksAndAnswers
<1>4. SearchInv'
  BY <1>1, <1>2, ReturnKeeps
<1>5. AsksAndAnswers'
  BY <1>2, <1>3 DEF AsksAndAnswers
<1>6. ReadTypes' /\ SortsInTurn'
  <2>1. /\ GeneratedPositions(Self)' = GeneratedPositions(Self)
        /\ OriginalPositions(Self)' = OriginalPositions(Self)
    BY <1>2, PositionsStay
  <2>2. IsAscending(GeneratedPositions(Self)) /\ IsAscending(OriginalPositions(Self))
    BY <1>1, <1>2 DEF SortsInTurn
  <2>3. IsAscending(GeneratedPositions(Self)') /\ IsAscending(OriginalPositions(Self)')
    BY <2>1, <2>2
  <2>. QED BY <1>1, <1>2, <2>3 DEF ReadTypes, SortsInTurn
<1>7. /\ question.kind \in {"original", "generated", "all"} /\ question.line \in Int
      /\ question.kind # "all" =>
           question.column \in Int /\ question.bias \in Biases /\ Num(question.column) = question.column
      /\ question.column \in Int \cup {Null}
  BY <1>3, QuestionIs
<1>8. /\ generated \in Seq(Entries) /\ original \in Seq(Located)
      /\ consumer.sources \in Seq(Strings) /\ consumer.sections = <<>>
      /\ IsAscending(OriginalPositions(Self))
  BY <1>1, <1>2 DEF ReadTypes, SortsInTurn
<1>9. CASE question.kind = "original"
  <2>1. answer' = OriginalPosition(Self, index, question.line)
    BY <1>9 DEF Reply
  <2>2. ~answer'.threw => TellsOriginal(answer', question')
    BY <1>1, <1>2, <1>3, <1>7, <1>8, <1>9, <2>1, OriginalIsFound DEF IsSearched
  <2>3. AnswersAreNearest'
    BY <1>2, <1>8, <1>9, <2>2, TellsStay
  <2>. QED BY <1>4, <1>5, <1>6, <2>3 DEF ReadInv
<1>10. CASE question.kind = "generated"
  <2>1. answer' = GeneratedPosition(Self, index, needle[1])
    BY <1>10 DEF Reply
  <2>2. TellsGenerated(answer', question')
    BY <1>1, <1>2, <1>3, <1>7, <1>8, <1>10, <2>1, GeneratedIsFound DEF IsSearched
  <2>3. AnswersAreNearest'
    BY <1>2, <1>8, <1>10, <2>2, TellsStay
  <2>. QED BY <1>4, <1>5, <1>6, <2>3 DEF ReadInv
<1>11. CASE question.kind = "all"
  <2>1. answer' = AllGeneratedPositions(Self, index, question.line, question.column)
    BY <1>11 DEF Reply
  <2>2. TellsAll(answer', question')
    BY <1>1, <1>2, <1>3, <1>7, <1>8, <1>11, <2>1, AllIsFound DEF IsSearched
  <2>3. AnswersAreNearest'
    BY <1>2, <1>8, <1>11, <2>2, TellsStay
  <2>. QED BY <1>4, <1>5, <1>6, <2>3 DEF ReadInv
<1>. QED BY <1>7, <1>9, <1>10, <1>11

\* The other steps change neither mappings nor search.
LEMMA RestReads ==
  ASSUME ReadInv, GoOn \/ ComputeColumnSpans \/ UNCHANGED vars
  PROVE  ReadInv'
<1>1. ReadTypes /\ SortsInTurn /\ SearchInv /\ AsksAndAnswers
  BY DEF ReadInv
<1>2. UNCHANGED <<consumer, generated, original, ranges, back, searchVars>>
  BY DEF GoOn, ComputeColumnSpans, vars, consumerVars, listVars, talkVars
<1>3. /\ GeneratedPositions(Self)' = GeneratedPositions(Self)
      /\ OriginalPositions(Self)' = OriginalPositions(Self)
  BY <1>2, PositionsStay
<1>4. SearchInv' /\ ReadTypes'
  BY <1>1, <1>2, SearchStays DEF ReadTypes
<1>5. CASE GoOn
  <2>1. stage = "answered" /\ stage' = "ready" /\ answer' = NoAnswer /\ turn = "idle" /\ turn' = "idle"
    BY <1>1, <1>2, <1>5 DEF GoOn, AsksAndAnswers, searchVars
  <2>2. IsAscending(GeneratedPositions(Self)') /\ IsAscending(OriginalPositions(Self)')
    BY <1>1, <1>3, <2>1 DEF SortsInTurn
  <2>3. SortsInTurn' /\ AsksAndAnswers'
    BY <2>1, <2>2 DEF SortsInTurn, AsksAndAnswers
  <2>. QED BY <1>4, <2>1, <2>3, NotAnswered DEF ReadInv
<1>6. CASE ComputeColumnSpans
  <2>1. stage = "ready" /\ UNCHANGED talkVars /\ stage' = "ready" /\ answer' = answer /\ turn' = turn
    BY <1>2, <1>6 DEF ComputeColumnSpans, talkVars, searchVars
  <2>2. IsAscending(GeneratedPositions(Self)') /\ IsAscending(OriginalPositions(Self)')
    BY <1>1, <1>3, <2>1 DEF SortsInTurn
  <2>3. SortsInTurn' /\ AsksAndAnswers'
    BY <1>1, <2>1, <2>2 DEF SortsInTurn, AsksAndAnswers
  <2>. QED BY <1>4, <2>1, <2>3, NotAnswered DEF ReadInv
<1>7. CASE UNCHANGED vars
  <2>1. UNCHANGED <<consumer, generated, original, ranges, spanned, stage, back, question, answer>>
    BY <1>7 DEF vars, consumerVars, listVars, talkVars
  <2>2. Self' = Self /\ UNCHANGED <<haystack, needle, bias, turn>>
    BY <1>2, <2>1 DEF Self, searchVars
  <2>3. SortsInTurn'
    <3>1. /\ Pending(generated, ranges)' <=> Pending(generated, ranges)
          /\ Pending(original, ranges)' <=> Pending(original, ranges)
      BY <2>1 DEF Pending, Compare
    <3>2. /\ IsAscending(GeneratedPositions(Self)') <=> IsAscending(GeneratedPositions(Self))
          /\ IsAscending(OriginalPositions(Self)') <=> IsAscending(OriginalPositions(Self))
      BY <1>3
    <3>. QED BY <1>1, <2>1, <3>1, <3>2 DEF SortsInTurn
  <2>4. AsksAndAnswers'
    BY <1>1, <2>1, <2>2 DEF AsksAndAnswers, IsSearched, GeneratedPositions, OriginalPositions
  <2>5. AnswersAreNearest'
    <3>1. AnswersAreNearest /\ consumer.sections = <<>>
      BY <1>1 DEF ReadInv, ReadTypes
    <3>2. CASE stage = "answered"
      <4>1. UNCHANGED consumerVars /\ stage' = "answered"
        BY <2>1, <3>2 DEF consumerVars, listVars
      <4>2. ~answer'.threw =>
              /\ question'.kind = "original" => TellsOriginal(answer', question')
              /\ question'.kind = "generated" => TellsGenerated(answer', question')
              /\ question'.kind = "all" => TellsAll(answer', question')
        BY <2>1, <3>1, <3>2, AnswersTell DEF Answered
      <4>. QED BY <3>1, <4>1, <4>2, TellsStay
    <3>3. CASE stage # "answered"
      BY <2>1, <3>3, NotAnswered
    <3>. QED BY <3>2, <3>3
  <2>. QED BY <1>4, <2>3, <2>4, <2>5 DEF ReadInv
<1>. QED BY <1>5, <1>6, <1>7

\* The invariant holds for any mappings and questions.
LEMMA ReadInvariant == ReadSpec => []ReadInv
<1>1. ReadInv /\ [ReadNext]_vars => ReadInv'
  BY SortingReads, SortEndsReads, AskReads, SearchOnReads, ReplyReads, RestReads DEF ReadNext
<1>. QED BY <1>1, ReadsAtFirst, PTL DEF ReadSpec

\* Whatever mappings a consumer has read, and however its sorts draw their pivots,
\* it answers each question with the nearest ones.
THEOREM AnswersNearest == ReadSpec => []AnswersAreNearest
<1>1. ReadInv => AnswersAreNearest
  BY DEF ReadInv
<1>. QED BY <1>1, ReadInvariant, PTL

\* What decode has read of a segment.
Reads == [values : Seq(Int), result : Nat, weight : Nat \ {0}]
Reading(values, result, weight) == [values |-> values, result |-> result, weight |-> weight]
DigitStep == [p \in Reads \X Int |-> DecodeDigit(p[1], p[2])]

\* A number is its quotient by the base and a digit.
LEMMA BaseIs ==
  ASSUME NEW v \in Int
  PROVE  /\ v % Base \in Nat /\ v % Base < Base
         /\ v \div Base \in Int /\ v = Base * (v \div Base) + (v % Base)
         /\ v >= 0 => v \div Base \in Nat
         /\ v >= Base => v \div Base > 0 /\ v \div Base < v
         /\ v \in 0..(Base-1) => v % Base = v
<1>1. Base \in Nat /\ Base > 1
  BY Base64Assumption
<1>2. /\ v % Base \in Nat /\ v % Base < Base
      /\ v \div Base \in Int /\ v = Base * (v \div Base) + (v % Base)
  BY <1>1
<1>3. v >= 0 => v \div Base \in Nat
  BY <1>1
<1>4. v >= Base => v \div Base > 0 /\ v \div Base < v
  BY <1>1
<1>5. v \in 0..(Base-1) => v % Base = v
  BY <1>1
<1>. QED BY <1>2, <1>3, <1>4, <1>5

\* Taking the sign off leaves an integer.
LEMMA FromVLQSignedIs ==
  ASSUME NEW v \in Int
  PROVE  FromVLQSigned(v) \in Int
BY Base64Assumption DEF FromVLQSigned, SignedWord, Word

\* A turn of decode's loop leads from a state of the loop to another.
LEMMA DigitSteps == IsStep(DigitStep, Reads, Int)
<1>. SUFFICES ASSUME NEW out \in Reads, NEW d \in Int PROVE DecodeDigit(out, d) \in Reads
  BY DEF IsStep, DigitStep
<1>1. d % Base \in Nat /\ Base \in Nat \ {0}
  BY BaseIs, Base64Assumption
<1>2. (d % Base) * out.weight \in Nat /\ out.weight * Base \in Nat \ {0}
  BY <1>1 DEF Reads
<1>3. out.result + (d % Base) * out.weight \in Nat
  BY <1>2 DEF Reads
<1>4. FromVLQSigned(out.result + (d % Base) * out.weight) \in Int
  BY <1>3, FromVLQSignedIs
<1>. HIDE DEF Reads
<1>5. out.values \in Seq(Int) /\ out = [values |-> out.values, result |-> out.result, weight |-> out.weight]
  BY DEF Reads
<1>6. CASE d >= Base
  BY <1>2, <1>3, <1>5, <1>6 DEF DecodeDigit, Reads
<1>7. CASE ~(d >= Base)
  BY <1>4, <1>5, <1>7 DEF DecodeDigit, Reads
<1>. QED BY <1>6, <1>7

\* The loop takes the digits one after another.
LEMMA DecodeIs ==
  ASSUME NEW base \in Reads, NEW seq \in Seq(Int)
  PROVE  FoldLeft(DecodeDigit, base, seq) = Folded(DigitStep, base, seq)
<1>. DEFINE Is(g) == g = [s \in SUBSET DOMAIN seq |->
                       IF s = {} THEN base ELSE DecodeDigit(g[s \ {Greatest(s)}], seq[Greatest(s)])]
            iter == CHOOSE g : Is(g)
<1>1. FoldLeft(DecodeDigit, base, seq) = iter[DOMAIN seq]
  BY DEF FoldLeft, MapThenFoldSet, Max, Greatest
<1>2. PICK f : IsFold(f, Reads, DigitStep, base, seq)
  BY DigitSteps, IsFoldExists
<1>3. Is(f)
  <2>1. /\ f = [s \in SUBSET DOMAIN seq |->
                  IF s = {} THEN base ELSE DigitStep[<<f[s \ {Greatest(s)}], seq[Greatest(s)]>>]]
        /\ \A s \in SUBSET DOMAIN seq :
             s # {} => f[s \ {Greatest(s)}] \in Reads /\ seq[Greatest(s)] \in Int
    BY <1>2, DigitSteps, FoldTypes
  <2>2. \A s \in SUBSET DOMAIN seq : s # {} =>
          DigitStep[<<f[s \ {Greatest(s)}], seq[Greatest(s)]>>] = DecodeDigit(f[s \ {Greatest(s)}], seq[Greatest(s)])
    BY <2>1 DEF DigitStep
  <2>. QED BY <2>1, <2>2, Zenon
<1>4. Is(iter)
  BY <1>3
<1>. HIDE DEF iter
<1>5. ASSUME NEW i \in 1..Len(seq), iter[1..(i-1)] \in Reads
      PROVE  iter[1..i] = DigitStep[<<iter[1..(i-1)], seq[i]>>]
  <2>1. 1..i # {} /\ Greatest(1..i) = i /\ (1..i) \ {i} = 1..(i-1) /\ 1..i \in SUBSET DOMAIN seq /\ seq[i] \in Int
    BY FoldIndices
  <2>2. iter[1..i] = DecodeDigit(iter[1..(i-1)], seq[i])
    BY <1>4, <2>1
  <2>. QED BY <1>5, <2>1, <2>2 DEF DigitStep
<1>6. iter[{}] = base
  BY <1>4
<1>7. Iterates(iter, Reads, DigitStep, base, seq)
  BY <1>5, <1>6 DEF Iterates
<1>. QED BY <1>1, <1>7, DigitSteps, FoldIsFolded

\* One turn of encode's loop, which has f for the rest of the number.
NextDigits(f) == [v \in Nat |-> IF v < Base THEN <<v>> ELSE <<Base + (v % Base)>> \o f[v \div Base]]
AreDigits(f) == f \in [Nat -> Seq(Nat)] /\ f = NextDigits(f)

\* A turn adds a digit to what the rest gives.
LEMMA NextDigitsType ==
  ASSUME NEW f \in [Nat -> Seq(Nat)]
  PROVE  NextDigits(f) \in [Nat -> Seq(Nat)]
<1>1. ASSUME NEW v \in Nat PROVE <<Base + (v % Base)>> \o f[v \div Base] \in Seq(Nat)
  <2>1. v % Base \in Nat /\ v \div Base \in Nat /\ Base \in Nat
    BY BaseIs, Base64Assumption
  <2>2. <<Base + (v % Base)>> \in Seq(Nat) /\ f[v \div Base] \in Seq(Nat)
    BY <2>1, SMTT(30)
  <2>. QED BY <2>2
<1>. QED BY <1>1 DEF NextDigits

\* The loop ends, since the quotient gets smaller.
LEMMA DigitsExist == \E f : AreDigits(f)
<1>. DEFINE D == [Nat -> Seq(Nat)]
            none == [v \in Nat |-> <<>>]
            again == [p \in Nat \X D |-> NextDigits(p[2])]
<1>1. none \in D /\ again \in [Nat \X D -> D]
  <2>1. << >> \in Seq(Nat)
    OBVIOUS
  <2>2. \A p \in Nat \X D : NextDigits(p[2]) \in D
    BY NextDigitsType
  <2>3. again \in [Nat \X D -> D]
    <3>. HIDE DEF D
    <3>. QED BY <2>2
  <2>. QED BY <2>1, <2>3
<1>2. PICK F : Recursive(F, D, none, again)
  <2>. HIDE DEF D, none, again
  <2>. QED BY <1>1, RecursionExists
<1>. HIDE DEF D
<1>3. F \in [Nat -> D] /\ \A k \in Nat : F[k+1] = NextDigits(F[k])
  <2>1. F \in [Nat -> D] /\ \A n \in Nat \ {0} : F[n] = again[<<n, F[n-1]>>]
    BY <1>2 DEF Recursive
  <2>2. ASSUME NEW k \in Nat PROVE F[k+1] = NextDigits(F[k])
    <3>1. k + 1 \in Nat \ {0} /\ (k + 1) - 1 = k /\ <<k + 1, F[k]>> \in Nat \X D
      <4>. HIDE DEF again
      <4>. QED BY <2>1
    <3>2. F[k+1] = again[<<k + 1, F[k]>>]
      <4>. HIDE DEF again
      <4>. QED BY <2>1, <3>1
    <3>. QED BY <3>1, <3>2
  <2>. QED BY <2>1, <2>2
<1>. DEFINE Settled(k) == \A v \in Nat : v < k => F[k+1][v] = F[k][v]
<1>4. ASSUME NEW k \in Nat PROVE Settled(k)
  <2>. DEFINE P == {n \in Nat : Settled(n)}
  <2>1. 0 \in P
    OBVIOUS
  <2>2. ASSUME NEW n \in Nat, n \in P PROVE n + 1 \in P
    <3>. SUFFICES ASSUME NEW v \in Nat, v < n + 1 PROVE F[(n+1)+1][v] = F[n+1][v]
      OBVIOUS
    <3>1. F[(n+1)+1] = NextDigits(F[n+1]) /\ F[n+1] = NextDigits(F[n])
      BY <1>3
    <3>2. v >= Base => v \div Base \in Nat /\ v \div Base < n
      BY BaseIs, Base64Assumption
    <3>3. v >= Base => F[n+1][v \div Base] = F[n][v \div Base]
      BY <2>2, <3>2
    <3>4. Base \in Nat
      BY Base64Assumption
    <3>5. /\ NextDigits(F[n+1])[v] = IF v < Base THEN <<v>> ELSE <<Base + (v % Base)>> \o F[n+1][v \div Base]
          /\ NextDigits(F[n])[v] = IF v < Base THEN <<v>> ELSE <<Base + (v % Base)>> \o F[n][v \div Base]
      BY DEF NextDigits
    <3>. QED BY <3>1, <3>3, <3>4, <3>5
  <2>. HIDE DEF P
  <2>3. k \in P
    BY <2>1, <2>2, Induction
  <2>. QED BY <2>3 DEF P
<1>. DEFINE g == [v \in Nat |-> F[v+1][v]]
<1>5. ASSUME NEW v \in Nat, NEW k \in Nat, v < k PROVE F[k][v] = F[v+1][v]
  <2>. DEFINE P == {n \in Nat : v < n => F[n][v] = F[v+1][v]}
  <2>1. 0 \in P
    OBVIOUS
  <2>2. ASSUME NEW n \in Nat, n \in P PROVE n + 1 \in P
    <3>1. CASE v < n
      BY <1>4, <2>2, <3>1
    <3>2. CASE ~(v < n)
      <4>1. v < n + 1 => n = v
        BY <3>2
      <4>. QED BY <4>1
    <3>. QED BY <3>1, <3>2
  <2>. HIDE DEF P
  <2>3. k \in P
    BY <2>1, <2>2, Induction
  <2>. QED BY <1>5, <2>3 DEF P
<1>. HIDE DEF Settled
<1>6. ASSUME NEW v \in Nat PROVE g[v] \in Seq(Nat) /\ g[v] = NextDigits(g)[v]
  <2>1. F[v+1][v] \in Seq(Nat)
    BY <1>3 DEF D
  <2>2. F[v+1] = NextDigits(F[v])
    BY <1>3
  <2>3. v >= Base => v \div Base \in Nat /\ v \div Base < v
    BY BaseIs, Base64Assumption
  <2>4. v >= Base => F[v][v \div Base] = g[v \div Base]
    BY <1>5, <2>3
  <2>5. Base \in Nat
    BY Base64Assumption
  <2>6. NextDigits(F[v])[v] = NextDigits(g)[v]
    <3>. HIDE DEF g
    <3>. QED BY <2>4, <2>5 DEF NextDigits
  <2>. QED BY <2>1, <2>2, <2>6
<1>7. g \in [Nat -> Seq(Nat)]
  BY <1>6
<1>8. NextDigits(g) \in [Nat -> Seq(Nat)]
  BY <1>7, NextDigitsType
<1>. HIDE DEF g
<1>9. g = NextDigits(g)
  BY <1>6, <1>7, <1>8
<1>. QED BY <1>7, <1>9 DEF AreDigits

\* The digits of a number, by the loop that finds them.
LEMMA DigitsAre ==
  /\ Digits \in [Nat -> Seq(Nat)]
  /\ \A v \in Nat : Digits[v] = IF v < Base THEN <<v>> ELSE <<Base + (v % Base)>> \o Digits[v \div Base]
<1>. DEFINE Is(f) == f = [v \in Nat |-> IF v < Base THEN <<v>> ELSE <<Base + (v % Base)>> \o f[v \div Base]]
            f == CHOOSE f : Is(f)
<1>1. Digits = f
  BY DEF Digits
<1>2. PICK h : AreDigits(h)
  BY DigitsExist
<1>3. Is(h)
  BY <1>2 DEF AreDigits, NextDigits
<1>4. Is(f)
  BY <1>3
<1>. HIDE DEF f
<1>5. ASSUME NEW n \in Nat PROVE \A v \in Nat : v < n => f[v] = h[v]
  <2>. DEFINE P == {k \in Nat : \A v \in Nat : v < k => f[v] = h[v]}
  <2>1. 0 \in P
    OBVIOUS
  <2>2. ASSUME NEW k \in Nat, k \in P PROVE k + 1 \in P
    <3>. SUFFICES ASSUME NEW v \in Nat, v < k + 1 PROVE f[v] = h[v]
      OBVIOUS
    <3>1. v >= Base => v \div Base \in Nat /\ v \div Base < k
      BY BaseIs, Base64Assumption
    <3>2. v >= Base => f[v \div Base] = h[v \div Base]
      BY <2>2, <3>1
    <3>3. Base \in Nat
      BY Base64Assumption
    <3>4. /\ f[v] = IF v < Base THEN <<v>> ELSE <<Base + (v % Base)>> \o f[v \div Base]
          /\ h[v] = IF v < Base THEN <<v>> ELSE <<Base + (v % Base)>> \o h[v \div Base]
      BY <1>3, <1>4
    <3>. QED BY <3>2, <3>3, <3>4
  <2>. HIDE DEF P
  <2>3. n \in P
    BY <2>1, <2>2, Induction
  <2>. QED BY <2>3 DEF P
<1>6. f = h
  <2>1. \A v \in Nat : f[v] = h[v]
    <3>. SUFFICES ASSUME NEW v \in Nat PROVE f[v] = h[v]
      OBVIOUS
    <3>1. v + 1 \in Nat /\ v < v + 1
      OBVIOUS
    <3>. QED BY <1>5, <3>1
  <2>. QED BY <1>3, <1>4, <2>1
<1>. QED BY <1>1, <1>2, <1>4, <1>6 DEF AreDigits

\* Decoding goes on with the digits of a number.
LEMMA DigitsAreDecoded ==
  ASSUME NEW u \in Nat, NEW vs \in Seq(Int), NEW r \in Nat, NEW w \in Nat \ {0}
  PROVE  Folded(DigitStep, Reading(vs, r, w), Digits[u]) =
           Reading(Append(vs, FromVLQSigned(r + u * w)), 0, 1)
<1>. DEFINE Done(v, q, x) == Folded(DigitStep, Reading(vs, q, x), Digits[v]) =
                               Reading(Append(vs, FromVLQSigned(q + v * x)), 0, 1)
            P == {n \in Nat : \A v \in 0..n : \A q \in Nat, x \in Nat \ {0} : Done(v, q, x)}
<1>1. \A q \in Nat, x \in Nat \ {0} : Reading(vs, q, x) \in Reads
  BY DEF Reading, Reads
<1>2. ASSUME NEW v \in Nat, NEW q \in Nat, NEW x \in Nat \ {0}, v < Base PROVE Done(v, q, x)
  <2>0. Digits[v] = <<v>>
    BY <1>2, DigitsAre
  <2>1. Digits[v] = <<v>> /\ v % Base = v /\ Base \in Nat
    <3>1. Base \in Nat /\ v \in 0..(Base-1)
      BY <1>2, Base64Assumption
    <3>. QED BY <2>0, <3>1, BaseIs
  <2>2. Reading(vs, q, x) \in Reads /\ v \in Int
    BY <1>1
  <2>3. Folded(DigitStep, Reading(vs, q, x), <<v>>) = DigitStep[<<Reading(vs, q, x), v>>]
    BY <2>2, DigitSteps, FoldedOne
  <2>4. DigitStep[<<Reading(vs, q, x), v>>] = DecodeDigit(Reading(vs, q, x), v)
    BY <2>2 DEF DigitStep
  <2>5. DecodeDigit(Reading(vs, q, x), v) = Reading(Append(vs, FromVLQSigned(q + v * x)), 0, 1)
    <3>1. ~(v >= Base)
      BY <1>2, <2>1
    <3>. QED BY <2>1, <3>1, Zenon DEF DecodeDigit, Reading
  <2>. QED BY <2>1, <2>3, <2>4, <2>5
<1>3. ASSUME NEW v \in Nat, NEW q \in Nat, NEW x \in Nat \ {0}, v >= Base,
             \A t \in Nat, y \in Nat \ {0} : Done(v \div Base, t, y)
      PROVE  Done(v, q, x)
  <2>. DEFINE d == v % Base
              h == v \div Base
              rest == Digits[v \div Base]
              first == Base + (v % Base)
  <2>1. /\ d \in Nat /\ d < Base /\ h \in Nat /\ v = Base * h + d /\ Base \in Nat /\ Base > 1
        /\ first % Base = d /\ first \in Nat /\ first >= Base
    <3>1. d \in Nat /\ d < Base /\ h \in Nat /\ v = Base * h + d /\ Base \in Nat /\ Base > 1
      BY BaseIs, Base64Assumption
    <3>2. first % Base = d
      BY <3>1
    <3>. QED BY <3>1, <3>2
  <2>2. Digits[v] = <<first>> \o rest /\ rest \in Seq(Nat)
    <3>1. ~(v < Base)
      BY <1>3, <2>1
    <3>2. Digits[v] = <<first>> \o rest
      BY <3>1, DigitsAre
    <3>. QED BY <2>1, <3>2, DigitsAre
  <2>3. Reading(vs, q, x) \in Reads /\ <<first>> \in Seq(Int) /\ rest \in Seq(Int)
    BY <1>1, <2>1, <2>2
  <2>4. d * x \in Nat /\ x * Base \in Nat \ {0}
    BY <2>1
  <2>5. q + d * x \in Nat
    BY <2>4
  <2>6. Folded(DigitStep, Reading(vs, q, x), <<first>>) = Reading(vs, q + d * x, x * Base)
    <3>1. first \in Int
      BY <2>1
    <3>2. Folded(DigitStep, Reading(vs, q, x), <<first>>) = DigitStep[<<Reading(vs, q, x), first>>]
      <4>. HIDE DEF first
      <4>. QED BY <2>3, <3>1, DigitSteps, FoldedOne
    <3>3. DigitStep[<<Reading(vs, q, x), first>>] = DecodeDigit(Reading(vs, q, x), first)
      BY <2>3, <3>1 DEF DigitStep
    <3>4. DecodeDigit(Reading(vs, q, x), first) = Reading(vs, q + d * x, x * Base)
      <4>. HIDE DEF first, d
      <4>. QED BY <2>1 DEF DecodeDigit, Reading
    <3>. QED BY <3>2, <3>3, <3>4
  <2>7. Folded(DigitStep, Reading(vs, q, x), <<first>> \o rest)
          = Folded(DigitStep, Reading(vs, q + d * x, x * Base), rest)
    <3>. DEFINE one == <<first>>
    <3>1. one \in Seq(Int) /\ Folded(DigitStep, Reading(vs, q, x), one) = Reading(vs, q + d * x, x * Base)
      BY <2>3, <2>6
    <3>. HIDE DEF one, rest, d
    <3>2. Folded(DigitStep, Reading(vs, q, x), one \o rest)
            = Folded(DigitStep, Folded(DigitStep, Reading(vs, q, x), one), rest)
      BY <2>3, <3>1, DigitSteps, FoldedConcat
    <3>. QED BY <3>1, <3>2 DEF one
  <2>8. Done(h, q + d * x, x * Base)
    <3>. HIDE DEF d, Done
    <3>. QED BY <1>3, <2>4, <2>5
  <2>9. q + d * x + h * (x * Base) = q + v * x
    <3>. HIDE DEF d, h
    <3>1. h * (x * Base) = (Base * h) * x
      BY <2>1
    <3>2. d * x + (Base * h) * x = (Base * h + d) * x
      BY <2>1
    <3>. QED BY <2>1, <2>4, <3>1, <3>2
  <2>. QED BY <2>2, <2>7, <2>8, <2>9
<1>4. 0 \in P
  BY <1>2, Base64Assumption
<1>5. ASSUME NEW n \in Nat, n \in P PROVE n + 1 \in P
  <2>. HIDE DEF Done
  <2>1. \A q \in Nat, x \in Nat \ {0} : Done(n + 1, q, x)
    <3>1. CASE n + 1 < Base
      BY <1>2, <3>1
    <3>2. CASE n + 1 >= Base
      <4>1. (n + 1) \div Base \in 0..n
        BY <3>2, BaseIs, Base64Assumption, SMTT(30)
      <4>. QED BY <1>3, <1>5, <3>2, <4>1
    <3>. QED BY <3>1, <3>2, Base64Assumption
  <2>. QED BY <1>5, <2>1
<1>6. u \in P
  <2>. HIDE DEF P
  <2>. QED BY <1>4, <1>5, Induction
<1>. QED BY <1>6

\* A value that a shift leaves within 32 bits is the one that was encoded.
LEMMA SignIsKept ==
  ASSUME NEW v \in Int, -v < Modulus \div 4, v < Modulus \div 4
  PROVE  ToVLQSigned(v) \in Nat /\ FromVLQSigned(ToVLQSigned(v)) = v
<1>1. PICK k \in Nat : Modulus = 4 * k /\ k > 0
  BY Base64Assumption
<1>2. Modulus \div 4 = k /\ Modulus \div 2 = 2 * k
  BY <1>1
<1>3. -v < k /\ v < k
  BY <1>2
<1>. DEFINE u == IF v < 0 THEN 2 * (-v) + 1 ELSE 2 * v
<1>4. u \in Nat /\ u < 2 * k
  BY <1>3
<1>5. \A n \in Nat : n < Modulus => n % Modulus = n
  BY <1>1
<1>6. u % Modulus = u
  <2>. HIDE DEF u
  <2>. QED BY <1>1, <1>4, <1>5
<1>7. ToVLQSigned(v) = u
  BY <1>6 DEF ToVLQSigned, Word
<1>8. SignedWord(u) = u
  <2>. HIDE DEF u
  <2>. QED BY <1>2, <1>4, <1>6 DEF SignedWord, Word
<1>9. u \div 2 = (IF v < 0 THEN -v ELSE v) /\ u % 2 = (IF v < 0 THEN 1 ELSE 0)
  OBVIOUS
<1>10. FromVLQSigned(u) = v
  <2>. HIDE DEF u
  <2>. QED BY <1>8, <1>9 DEF FromVLQSigned
<1>. QED BY <1>4, <1>7, <1>10

\* The numbers whose code leads back to them.
Numbers == {v \in Int : -v < Modulus \div 4 /\ v < Modulus \div 4}

\* A number is written with a digit at least.
LEMMA EncodeType ==
  ASSUME NEW v \in Numbers
  PROVE  Encode(v) \in Seq(Nat) /\ Encode(v) # <<>>
<1>1. ToVLQSigned(v) \in Nat
  BY SignIsKept DEF Numbers
<1>2. PICK u \in Nat : u = ToVLQSigned(v)
  BY <1>1
<1>3. Digits[u] \in Seq(Nat)
  BY DigitsAre
<1>4. Digits[u] # <<>>
  <2>1. u \div Base \in Nat \/ u < Base
    BY BaseIs, Base64Assumption
  <2>2. CASE u < Base
    <3>1. Digits[u] = <<u>>
      BY <2>2, DigitsAre
    <3>. QED BY <3>1
  <2>3. CASE ~(u < Base)
    <3>1. Digits[u] = <<Base + (u % Base)>> \o Digits[u \div Base] /\ Digits[u \div Base] \in Seq(Nat)
      BY <2>1, <2>3, DigitsAre
    <3>. QED BY <3>1
  <2>. QED BY <2>2, <2>3
<1>. QED BY <1>2, <1>3, <1>4 DEF Encode

\* A number that follows others is decoded after them.
LEMMA EncodeIsDecoded ==
  ASSUME NEW v \in Numbers, NEW vs \in Seq(Int)
  PROVE  Folded(DigitStep, Reading(vs, 0, 1), Encode(v)) = Reading(Append(vs, v), 0, 1)
<1>1. PICK u \in Nat : u = ToVLQSigned(v) /\ FromVLQSigned(u) = v
  BY SignIsKept DEF Numbers
<1>2. Folded(DigitStep, Reading(vs, 0, 1), Digits[u]) = Reading(Append(vs, FromVLQSigned(0 + u * 1)), 0, 1)
  BY DigitsAreDecoded
<1>3. 0 + u * 1 = u
  OBVIOUS
<1>. QED BY <1>1, <1>2, <1>3 DEF Encode

\* A number survives that it is written and read, if a shift leaves it within
\* 32 bits.
THEOREM NumbersSurvive ==
  \A v \in Int : -v < Modulus \div 4 /\ v < Modulus \div 4 => Decode(Encode(v)) = Reading(<<v>>, 0, 1)
<1>. SUFFICES ASSUME NEW v \in Numbers PROVE Decode(Encode(v)) = Reading(<<v>>, 0, 1)
  BY DEF Numbers
<1>1. << >> \in Seq(Int) /\ Append(<< >>, v) = <<v>>
  OBVIOUS
<1>2. PICK none : none = << >> /\ none \in Seq(Int)
  BY <1>1
<1>3. Reading(none, 0, 1) \in Reads /\ Encode(v) \in Seq(Int)
  BY <1>2, EncodeType DEF Reading, Reads
<1>4. Folded(DigitStep, Reading(none, 0, 1), Encode(v)) = Reading(Append(none, v), 0, 1)
  BY <1>2, EncodeIsDecoded
<1>5. FoldLeft(DecodeDigit, Reading(none, 0, 1), Encode(v)) = Reading(Append(none, v), 0, 1)
  BY <1>3, <1>4, DecodeIs
<1>. QED BY <1>1, <1>2, <1>5 DEF Decode, Reading

\* The sum of two integers is one.
LEMMA SumIs == \A i, j \in Int : i + j \in Int
OBVIOUS

\* The state of the loop in _parseMappings.
ParseStates ==
  [line : Int, column : Int, source : Int, originalLine : Int, originalColumn : Int, name : Int,
   digits : Seq(Int), mappings : Seq(Entries), failed : BOOLEAN]
ParseStep == [p \in ParseStates \X Int |-> ParseChar(p[1], p[2])]

\* A segment that is not cut short holds a value.
LEMMA DecodedHasValues ==
  ASSUME NEW digits \in Seq(Int), digits # <<>>, ~IsCutShort(Decode(digits))
  PROVE  Decode(digits).values \in Seq(Int) /\ Len(Decode(digits).values) > 0
<1>. DEFINE Of(s) == Folded(DigitStep, Reading(<< >>, 0, 1), s)
            P == {s \in Seq(Int) : /\ Of(s) \in Reads
                                   /\ s = << >> \/ Of(s).weight # 1 \/ Len(Of(s).values) > 0}
<1>1. Reading(<< >>, 0, 1) \in Reads
  BY DEF Reading, Reads
<1>2. << >> \in P
  <2>1. Of(<< >>) = Reading(<< >>, 0, 1)
    BY <1>1, DigitSteps, FoldedNone
  <2>. QED BY <1>1, <2>1
<1>3. ASSUME NEW s \in Seq(Int), NEW d \in Int, s \in P PROVE Append(s, d) \in P
  <2>1. Of(Append(s, d)) = DigitStep[<<Of(s), d>>]
    BY <1>1, DigitSteps, FoldedNext
  <2>2. PICK o \in Reads : o = Of(s)
    BY <1>3
  <2>3. Of(Append(s, d)) = DecodeDigit(o, d) /\ DecodeDigit(o, d) \in Reads
    <3>1. DigitStep[<<o, d>>] = DecodeDigit(o, d)
      BY DEF DigitStep
    <3>2. DigitStep[<<o, d>>] \in Reads
      BY DigitSteps DEF IsStep
    <3>. QED BY <2>1, <2>2, <3>1, <3>2
  <2>4. CASE d >= Base
    <3>1. DecodeDigit(o, d).weight = o.weight * Base
      BY <2>4 DEF DecodeDigit, Reads
    <3>2. o.weight \in Nat \ {0} /\ Base \in Nat /\ Base > 1
      BY Base64Assumption DEF Reads
    <3>3. o.weight * Base # 1
      BY <3>2
    <3>. HIDE DEF Of
    <3>. QED BY <2>3, <3>1, <3>3
  <2>5. CASE ~(d >= Base)
    <3>1. DecodeDigit(o, d).values = Append(o.values, FromVLQSigned(o.result + (d % Base) * o.weight))
      BY <2>5 DEF DecodeDigit
    <3>2. o.values \in Seq(Int)
      BY DEF Reads
    <3>3. Len(DecodeDigit(o, d).values) > 0
      BY <3>1, <3>2
    <3>. HIDE DEF Of
    <3>. QED BY <2>3, <3>3
  <2>. QED BY <2>4, <2>5
<1>4. digits \in P
  <2>. HIDE DEF P
  <2>. QED BY <1>2, <1>3, SequenceInduction
<1>5. Decode(digits) = Of(digits)
  BY <1>1, DecodeIs DEF Decode, Reading
<1>6. Of(digits) \in Reads /\ (Of(digits).weight # 1 \/ Len(Of(digits).values) > 0)
  <2>. HIDE DEF Of
  <2>. QED BY <1>4
<1>. HIDE DEF Of
<1>. QED BY <1>5, <1>6 DEF IsCutShort, Reads

\* A place alone is read, at column c, or one with an origin.
WithPlace(in, c) ==
  [[in EXCEPT !.column = c, !.mappings = Append(@, Mapping(in.line, c, Null, Null, Null, Null))]
     EXCEPT !.digits = << >>]
WithOrigin(in, c, s, l, o, n, name) ==
  [[in EXCEPT !.column = c, !.source = s, !.originalLine = l, !.originalColumn = o, !.name = n,
              !.mappings = Append(@, Mapping(in.line, c, s, l + 1, o, name))]
     EXCEPT !.digits = << >>]

\* The state after a place alone.
LEMMA WithPlaceType ==
  ASSUME NEW in \in ParseStates, NEW c \in Int
  PROVE  WithPlace(in, c) \in ParseStates
<1>1. in.line \in Int /\ in.mappings \in Seq(Entries)
  BY DEF ParseStates
<1>2. Mapping(in.line, c, Null, Null, Null, Null) \in Entries
  BY <1>1 DEF Mapping, Entries, Bare
<1>3. PICK m \in Entries : m = Mapping(in.line, c, Null, Null, Null, Null)
  BY <1>2
<1>4. Append(in.mappings, m) \in Seq(Entries) /\ << >> \in Seq(Int)
  BY <1>1
<1>5. PICK ms \in Seq(Entries), none \in Seq(Int) : ms = Append(in.mappings, m) /\ none = << >>
  BY <1>4
<1>6. WithPlace(in, c)
        = [[in EXCEPT !.column = c, !.mappings = ms] EXCEPT !.digits = none]
  BY <1>3, <1>5, Zenon DEF WithPlace
<1>. QED BY <1>6 DEF ParseStates

\* The state after a place that has an origin.
LEMMA WithOriginType ==
  ASSUME NEW in \in ParseStates, NEW c \in Int, NEW s \in Int, NEW l \in Int, NEW o \in Int,
         NEW n \in Int, NEW name \in Int \cup {Null}
  PROVE  WithOrigin(in, c, s, l, o, n, name) \in ParseStates
<1>1. in.line \in Int /\ in.mappings \in Seq(Entries) /\ l + 1 \in Int
  BY DEF ParseStates
<1>2. Mapping(in.line, c, s, l + 1, o, name) \in Entries
  BY <1>1 DEF Mapping, Entries, Located
<1>3. PICK m \in Entries : m = Mapping(in.line, c, s, l + 1, o, name)
  BY <1>2
<1>4. Append(in.mappings, m) \in Seq(Entries) /\ << >> \in Seq(Int)
  BY <1>1
<1>5. PICK ms \in Seq(Entries), none \in Seq(Int) : ms = Append(in.mappings, m) /\ none = << >>
  BY <1>4
<1>6. WithOrigin(in, c, s, l, o, n, name)
        = [[in EXCEPT !.column = c, !.source = s, !.originalLine = l, !.originalColumn = o,
                      !.name = n, !.mappings = ms] EXCEPT !.digits = none]
  BY <1>3, <1>5, Zenon DEF WithOrigin
<1>. QED BY <1>6 DEF ParseStates

\* What the end of a segment makes of its values.
LEMMA SegmentEnds ==
  ASSUME NEW in \in ParseStates, NEW v, v = Decode(in.digits).values, ~in.failed,
         in.digits # <<>>, ~IsCutShort(Decode(in.digits))
  PROVE  /\ Len(v) = 1 => EndSegment(in) = WithPlace(in, in.column + v[1])
         /\ Len(v) \notin {1, 2, 3} =>
              EndSegment(in) =
                WithOrigin(in, in.column + v[1], in.source + v[2], in.originalLine + v[3],
                            in.originalColumn + v[4], IF Len(v) > 4 THEN in.name + v[5] ELSE in.name,
                            IF Len(v) > 4 THEN in.name + v[5] ELSE Null)
<1>1. Len(v) \notin {2, 3} => EndSegment(in) = [ParseValues(in, v) EXCEPT !.digits = << >>]
  BY DEF EndSegment
<1>2. Len(v) = 1 => [ParseValues(in, v) EXCEPT !.digits = << >>] = WithPlace(in, in.column + v[1])
  BY Zenon DEF ParseValues, WithPlace
<1>3. Len(v) # 1 => [ParseValues(in, v) EXCEPT !.digits = << >>] =
                WithOrigin(in, in.column + v[1], in.source + v[2], in.originalLine + v[3],
                            in.originalColumn + v[4], IF Len(v) > 4 THEN in.name + v[5] ELSE in.name,
                            IF Len(v) > 4 THEN in.name + v[5] ELSE Null)
  BY Zenon DEF ParseValues, WithOrigin
<1>4. (Len(v) = 1 => Len(v) \notin {2, 3}) /\ (Len(v) \notin {1, 2, 3} => Len(v) # 1 /\ Len(v) \notin {2, 3})
  OBVIOUS
<1>. QED BY <1>1, <1>2, <1>3, <1>4, Zenon

\* The end of a segment.
LEMMA EndSegmentType ==
  ASSUME NEW in \in ParseStates
  PROVE  EndSegment(in) \in ParseStates
<1>1. CASE in.failed \/ in.digits = <<>>
  BY <1>1 DEF EndSegment
<1>2. CASE ~in.failed /\ in.digits # <<>> /\ (IsCutShort(Decode(in.digits)) \/ Len(Decode(in.digits).values) \in {2, 3})
  <2>1. EndSegment(in) = [in EXCEPT !.failed = TRUE]
    BY <1>2 DEF EndSegment
  <2>. QED BY <2>1 DEF ParseStates
<1>3. CASE /\ ~in.failed /\ in.digits # <<>>
           /\ ~IsCutShort(Decode(in.digits)) /\ Len(Decode(in.digits).values) \notin {2, 3}
  <2>1. in.digits \in Seq(Int)
    BY DEF ParseStates
  <2>2. PICK v \in Seq(Int) : v = Decode(in.digits).values /\ Len(v) > 0
    BY <1>3, <2>1, DecodedHasValues
  <2>3. PICK n \in Nat : n = Len(v)
    BY ONLY <2>2
  <2>4. n > 0 /\ n \notin {2, 3}
    BY <1>3, <2>2, <2>3
  <2>5. /\ in.column \in Int /\ in.source \in Int /\ in.originalLine \in Int
        /\ in.originalColumn \in Int /\ in.name \in Int
    BY DEF ParseStates
  <2>6. v[1] \in Int
    BY ONLY v \in Seq(Int), n \in Nat, <2>3, <2>4
  <2>7. CASE n = 1
    <3>1. EndSegment(in) = WithPlace(in, in.column + v[1])
      BY <1>3, <2>2, <2>3, <2>7, SegmentEnds
    <3>2. PICK c \in Int : c = in.column + v[1]
      BY ONLY <2>5, <2>6
    <3>. QED BY <3>1, <3>2, WithPlaceType
  <2>8. CASE n # 1
    <3>1. n \notin {1, 2, 3}
      BY <2>4, <2>8
    <3>2. v[2] \in Int /\ v[3] \in Int /\ v[4] \in Int /\ (n > 4 => v[5] \in Int)
      BY ONLY v \in Seq(Int), n \in Nat, <2>3, <2>4, <3>1
    <3>. PICK c0 \in Int, s0 \in Int, l0 \in Int, o0 \in Int, k0 \in Int :
             /\ c0 = in.column /\ s0 = in.source /\ l0 = in.originalLine
             /\ o0 = in.originalColumn /\ k0 = in.name
      BY <2>5, Zenon
    <3>. PICK v1 \in Int, v2 \in Int, v3 \in Int, v4 \in Int :
             v1 = v[1] /\ v2 = v[2] /\ v3 = v[3] /\ v4 = v[4]
      BY <2>6, <3>2, Zenon
    <3>3. PICK c \in Int, s \in Int, l \in Int, o \in Int :
             /\ c = in.column + v[1] /\ s = in.source + v[2] /\ l = in.originalLine + v[3]
             /\ o = in.originalColumn + v[4]
      <4>1. c0 + v1 \in Int /\ s0 + v2 \in Int /\ l0 + v3 \in Int /\ o0 + v4 \in Int
        BY SumIs, Zenon
      <4>. QED BY <4>1, Zenon
    <3>4. PICK k \in Int : k = IF n > 4 THEN in.name + v[5] ELSE in.name
      <4>1. (IF n > 4 THEN in.name + v[5] ELSE in.name) \in Int
        BY ONLY <2>5, <3>2
      <4>. QED BY <4>1, Zenon
    <3>5. PICK name \in Int \cup {Null} : name = IF n > 4 THEN in.name + v[5] ELSE Null
      <4>1. (IF n > 4 THEN in.name + v[5] ELSE Null) \in Int \cup {Null}
        BY ONLY <2>5, <3>2
      <4>. QED BY <4>1, Zenon
    <3>6. EndSegment(in) = WithOrigin(in, c, s, l, o, k, name)
      <4>1. Len(v) \notin {1, 2, 3}
        BY <2>3, <3>1
      <4>2. EndSegment(in) =
                WithOrigin(in, in.column + v[1], in.source + v[2], in.originalLine + v[3],
                            in.originalColumn + v[4], IF Len(v) > 4 THEN in.name + v[5] ELSE in.name,
                            IF Len(v) > 4 THEN in.name + v[5] ELSE Null)
        BY <1>3, <2>2, <4>1, SegmentEnds
      <4>. QED BY <2>3, <3>3, <3>4, <3>5, <4>2, Zenon
    <3>7. WithOrigin(in, c, s, l, o, k, name) \in ParseStates
      BY WithOriginType
    <3>. QED BY <3>6, <3>7, Zenon
  <2>. QED BY <2>7, <2>8
<1>. QED BY <1>1, <1>2, <1>3

\* The loop goes from one state to another.
LEMMA ParseSteps == IsStep(ParseStep, ParseStates, Int)
<1>. SUFFICES ASSUME NEW in \in ParseStates, NEW char \in Int PROVE ParseChar(in, char) \in ParseStates
  BY DEF IsStep, ParseStep
<1>1. EndSegment(in) \in ParseStates
  BY EndSegmentType
<1>2. CASE char = Semicolon
  <2>1. PICK e \in ParseStates : e = EndSegment(in)
    BY <1>1
  <2>2. ParseChar(in, char) = [e EXCEPT !.line = e.line + 1, !.column = 0]
    <3>0. Comma # Semicolon
      BY DEF Comma, Semicolon
    <3>1. ParseChar(in, char) = [EndSegment(in) EXCEPT !.line = @ + 1, !.column = 0]
      BY <1>2, <3>0, Zenon DEF ParseChar
    <3>. QED BY <2>1, <3>1, Zenon
  <2>3. PICK l \in Int, c \in Int : l = e.line + 1 /\ c = 0
    BY DEF ParseStates
  <2>4. ParseChar(in, char) = [e EXCEPT !.line = l, !.column = c]
    BY <2>2, <2>3
  <2>. QED BY <2>4 DEF ParseStates
<1>3. CASE char = Comma
  BY <1>1, <1>3 DEF ParseChar, Comma, Semicolon
<1>4. CASE char # Semicolon /\ char # Comma
  <2>1. ParseChar(in, char) = [in EXCEPT !.digits = Append(in.digits, char)]
    BY <1>4 DEF ParseChar
  <2>2. Append(in.digits, char) \in Seq(Int)
    BY DEF ParseStates
  <2>. QED BY <2>1, <2>2 DEF ParseStates
<1>. QED BY <1>2, <1>3, <1>4

\* The loop begins in a state of it.
LEMMA ParsingType == Parsing \in ParseStates
<1>1. << >> \in Seq(Int) /\ << >> \in Seq(Entries)
  OBVIOUS
<1>. QED BY <1>1 DEF Parsing, ParseStates

\* The loop takes the characters one after another.
LEMMA CharsAreParsed ==
  ASSUME NEW base \in ParseStates, NEW seq \in Seq(Int)
  PROVE  FoldLeft(ParseChar, base, seq) = Folded(ParseStep, base, seq)
<1>. DEFINE Is(g) == g = [s \in SUBSET DOMAIN seq |->
                       IF s = {} THEN base ELSE ParseChar(g[s \ {Greatest(s)}], seq[Greatest(s)])]
            iter == CHOOSE g : Is(g)
<1>1. FoldLeft(ParseChar, base, seq) = iter[DOMAIN seq]
  BY DEF FoldLeft, MapThenFoldSet, Max, Greatest
<1>2. PICK f : IsFold(f, ParseStates, ParseStep, base, seq)
  BY ParseSteps, IsFoldExists
<1>3. Is(f)
  <2>1. /\ f = [s \in SUBSET DOMAIN seq |->
                  IF s = {} THEN base ELSE ParseStep[<<f[s \ {Greatest(s)}], seq[Greatest(s)]>>]]
        /\ \A s \in SUBSET DOMAIN seq :
             s # {} => f[s \ {Greatest(s)}] \in ParseStates /\ seq[Greatest(s)] \in Int
    BY <1>2, ParseSteps, FoldTypes
  <2>2. \A s \in SUBSET DOMAIN seq : s # {} =>
          ParseStep[<<f[s \ {Greatest(s)}], seq[Greatest(s)]>>]
            = ParseChar(f[s \ {Greatest(s)}], seq[Greatest(s)])
    BY <2>1 DEF ParseStep
  <2>. QED BY <2>1, <2>2, Zenon
<1>4. Is(iter)
  BY <1>3
<1>. HIDE DEF iter
<1>5. ASSUME NEW i \in 1..Len(seq), iter[1..(i-1)] \in ParseStates
      PROVE  iter[1..i] = ParseStep[<<iter[1..(i-1)], seq[i]>>]
  <2>1. /\ 1..i # {} /\ Greatest(1..i) = i /\ (1..i) \ {i} = 1..(i-1)
        /\ 1..i \in SUBSET DOMAIN seq /\ seq[i] \in Int
    BY FoldIndices
  <2>2. iter[1..i] = ParseChar(iter[1..(i-1)], seq[i])
    BY <1>4, <2>1
  <2>. QED BY <1>5, <2>1, <2>2 DEF ParseStep
<1>6. iter[{}] = base
  BY <1>4
<1>7. Iterates(iter, ParseStates, ParseStep, base, seq)
  BY <1>5, <1>6 DEF Iterates
<1>. QED BY <1>1, <1>7, ParseSteps, FoldIsFolded

\* A text is parsed into mappings, or fails.
LEMMA ParseType ==
  ASSUME NEW text \in Seq(Int)
  PROVE  /\ Parse(text) = EndSegment(Folded(ParseStep, Parsing, text))
         /\ Parse(text) \in ParseStates
<1>1. Folded(ParseStep, Parsing, text) \in ParseStates
  BY ParsingType, ParseSteps, FoldedType
<1>2. FoldLeft(ParseChar, Parsing, text) = Folded(ParseStep, Parsing, text)
  BY ParsingType, CharsAreParsed
<1>. QED BY <1>1, <1>2, EndSegmentType DEF Parse

\* The digits of a segment are read up to its end.
LEMMA DigitsAreRead ==
  ASSUME NEW in \in ParseStates, NEW digits \in Seq(Nat)
  PROVE  Folded(ParseStep, in, digits) = [in EXCEPT !.digits = in.digits \o digits]
<1>. DEFINE P == {s \in Seq(Nat) : Folded(ParseStep, in, s) = [in EXCEPT !.digits = in.digits \o s]}
<1>0. PICK x \in Seq(Int) : x = in.digits
  BY DEF ParseStates
<1>1. << >> \in P
  <2>1. Folded(ParseStep, in, << >>) = in
    BY ParseSteps, FoldedNone
  <2>2. in.digits \o << >> = in.digits
    <3>1. x \o << >> = x
      BY ONLY x \in Seq(Int)
    <3>. QED BY <1>0, <3>1
  <2>3. in = [in EXCEPT !.digits = in.digits]
    BY DEF ParseStates
  <2>4. << >> \in Seq(Nat)
    OBVIOUS
  <2>. QED BY <2>1, <2>2, <2>3, <2>4, Zenon
<1>2. ASSUME NEW s \in Seq(Nat), NEW d \in Nat, s \in P PROVE Append(s, d) \in P
  <2>1. s \in Seq(Int) /\ d \in Int
    OBVIOUS
  <2>2. Folded(ParseStep, in, Append(s, d)) = ParseStep[<<Folded(ParseStep, in, s), d>>]
    BY <2>1, ParseSteps, FoldedNext
  <2>3. PICK y \in Seq(Int) : y = x \o s
    <3>1. x \o s \in Seq(Int)
      BY ONLY <2>1, x \in Seq(Int)
    <3>. QED BY <3>1, Zenon
  <2>4. PICK q \in ParseStates : q = Folded(ParseStep, in, s)
    BY <2>1, ParseSteps, FoldedType
  <2>5. q = [in EXCEPT !.digits = y]
    BY <1>0, <1>2, <2>3, <2>4
  <2>6. q.digits = y
    BY <2>5 DEF ParseStates
  <2>7. ParseStep[<<q, d>>] = [q EXCEPT !.digits = Append(q.digits, d)]
    <3>1. ParseStep[<<q, d>>] = ParseChar(q, d)
      BY <2>1 DEF ParseStep
    <3>2. ParseChar(q, d) = [q EXCEPT !.digits = Append(q.digits, d)]
      BY DEF ParseChar, Comma, Semicolon
    <3>. QED BY <3>1, <3>2
  <2>8. PICK z \in Seq(Int) : z = Append(y, d) /\ z = x \o Append(s, d)
    <3>1. Append(y, d) = y \o <<d>> /\ Append(s, d) = s \o <<d>> /\ Append(y, d) \in Seq(Int)
      BY <2>1, AppendIsConcat, AppendProperties
    <3>2. <<d>> \in Seq(Int)
      OBVIOUS
    <3>3. (x \o s) \o <<d>> = x \o (s \o <<d>>)
      BY <2>1, <3>2, ConcatAssociative, SMTT(30)
    <3>. QED BY <2>3, <3>1, <3>3, Zenon
  <2>9. [q EXCEPT !.digits = z] = [in EXCEPT !.digits = z]
    BY <2>5 DEF ParseStates
  <2>10. Folded(ParseStep, in, Append(s, d)) = [in EXCEPT !.digits = z]
    BY <2>2, <2>4, <2>6, <2>7, <2>8, <2>9
  <2>11. Append(s, d) \in Seq(Nat)
    OBVIOUS
  <2>. QED BY <1>0, <2>8, <2>10, <2>11, Zenon
<1>. HIDE DEF P
<1>3. digits \in P
  BY <1>1, <1>2, SequenceInduction
<1>. QED BY <1>3 DEF P

(***************************************************************************)
(* What a generator writes, its consumer reads.                            *)
(***************************************************************************)
\* The state of the loop in _serializeMappings.
Previouses ==
  [text : Seq(Int), generatedLine : Int, generatedColumn : Int, source : Int,
   originalLine : Int, originalColumn : Int, name : Int]

\* A generator that can be written.
IsMade(g) ==
  g.array \in Seq(Lines) /\ g.sources \in Seq(Strings) /\ g.names \in Seq(Strings) /\ IsWritable(g)

\* One that has its lines in order, too, and no number that needs more.
WellMade(g) ==
  /\ g.array \in Seq(Lines) /\ g.sources \in Seq(Strings) /\ g.names \in Seq(Strings)
  /\ IsWritable(g) /\ Len(g.sources) <= Modulus \div 4 /\ Len(g.names) <= Modulus \div 4
  /\ \A i \in DOMAIN g.array : \A j \in 1..i :
       1 <= g.array[j].generatedLine /\ g.array[j].generatedLine <= g.array[i].generatedLine
  /\ \A i \in DOMAIN g.array :
       {g.array[i].generatedColumn, Num(g.array[i].originalLine), Num(g.array[i].originalColumn)} \subseteq Short

\* A mapping with the indices that are written for its strings.
Written(g, m) ==
  IF m.source = Null THEN Told(m)
  ELSE [Told(m) EXCEPT !.source = IndexOf(g.sources, @), !.name = IF @ = Null THEN Null ELSE IndexOf(g.names, @)]

\* Any number is written with a digit at least.
LEMMA AnyEncodeType ==
  ASSUME NEW v \in Int
  PROVE  Encode(v) \in Seq(Nat) /\ Encode(v) # <<>>
<1>1. PICK w \in Int : w = IF v < 0 THEN 2 * (-v) + 1 ELSE 2 * v
  OBVIOUS
<1>2. w % Modulus \in Nat
  BY Base64Assumption
<1>3. PICK u \in Nat : u = ToVLQSigned(v)
  BY <1>1, <1>2 DEF ToVLQSigned, Word
<1>4. Digits[u] \in Seq(Nat)
  BY DigitsAre
<1>5. Digits[u] # <<>>
  <2>1. u \div Base \in Nat
    BY BaseIs, Base64Assumption
  <2>2. CASE u < Base
    <3>1. Digits[u] = <<u>>
      BY <2>2, DigitsAre
    <3>. QED BY <3>1
  <2>3. CASE ~(u < Base)
    <3>1. Digits[u] = <<Base + (u % Base)>> \o Digits[u \div Base] /\ Digits[u \div Base] \in Seq(Nat)
      BY <2>1, <2>3, DigitsAre
    <3>. QED BY <3>1
  <2>. QED BY <2>2, <2>3
<1>. QED BY <1>3, <1>4, <1>5 DEF Encode

\* A line's separators.
LEMMA SeparatorsType ==
  ASSUME NEW m, NEW p, NEW i, m.generatedLine \in Int, p.generatedLine \in Int
  PROVE  Separators(m, p, i) \in Seq(Int)
<1>1. Comma \in Int /\ Semicolon \in Int
  BY DEF Comma, Semicolon
<1>2. <<Comma>> \in Seq(Int) /\ << >> \in Seq(Int)
  BY <1>1
<1>3. PICK d \in Int : d = m.generatedLine - p.generatedLine
  OBVIOUS
<1>4. PICK n \in Nat : 1..n = 1..d
  <2>1. CASE d < 0
    <3>1. 1..0 = 1..d
      BY <2>1
    <3>. QED BY <3>1
  <2>2. CASE ~(d < 0)
    BY <2>2
  <2>. QED BY <2>1, <2>2
<1>5. [k \in 1..n |-> Semicolon] \in Seq(Int)
  BY <1>1
<1>. QED BY <1>2, <1>3, <1>4, <1>5, Zenon DEF Separators

\* The index that is written for a string.
LEMMA IndexIsShort ==
  ASSUME NEW set \in Seq(Strings), Len(set) <= Modulus \div 4, NEW s \in Range(set)
  PROVE  IndexOf(set, s) \in Short
<1>1. IndexOf(set, s) \in Nat /\ IndexOf(set, s) + 1 \in DOMAIN set
  BY IndexOfIs
<1>2. IndexOf(set, s) + 1 <= Len(set) /\ Len(set) \in Nat
  BY <1>1
<1>3. PICK k \in Nat : Modulus = 4 * k
  BY Base64Assumption
<1>4. Modulus \div 4 = k
  BY <1>3
<1>. QED BY <1>1, <1>2, <1>4 DEF Short

\* The difference of two numbers that are short is read as it was.
LEMMA DifferenceIs ==
  ASSUME NEW i \in Int, NEW j \in Int, (i \in Short /\ j \in Short) \/ (i + 1 \in Short /\ j + 1 \in Short)
  PROVE  i - j \in Numbers
<1>1. PICK k \in Nat : Modulus = 4 * k /\ k > 1
  BY Base64Assumption
<1>2. Modulus \div 4 = k
  BY <1>1
<1>. QED BY <1>1, <1>2 DEF Short, Numbers

\* A number is read after others.
LEMMA NumberIsAdded ==
  ASSUME NEW vs \in Seq(Int), NEW s \in Seq(Nat), Decode(s) = Reading(vs, 0, 1), NEW v \in Numbers
  PROVE  s \o Encode(v) \in Seq(Nat) /\ Decode(s \o Encode(v)) = Reading(Append(vs, v), 0, 1)
<1>0. v \in Int
  BY DEF Numbers
<1>1. PICK t \in Seq(Nat) : t = Encode(v)
  BY <1>0, AnyEncodeType
<1>2. PICK first \in Reads : first = Reading(<< >>, 0, 1)
  <2>1. Reading(<< >>, 0, 1) \in Reads
    BY DEF Reading, Reads
  <2>. QED BY <2>1, Zenon
<1>3. \A u \in Seq(Int) : Decode(u) = Folded(DigitStep, first, u)
  BY <1>2, DecodeIs DEF Decode, Reading
<1>4. s \in Seq(Int) /\ t \in Seq(Int) /\ s \o t \in Seq(Int) /\ s \o t \in Seq(Nat)
  OBVIOUS
<1>5. Folded(DigitStep, first, s \o t) = Folded(DigitStep, Folded(DigitStep, first, s), t)
  BY <1>4, DigitSteps, FoldedConcat
<1>6. Folded(DigitStep, first, s) = Reading(vs, 0, 1)
  BY <1>3, <1>4
<1>7. Folded(DigitStep, Reading(vs, 0, 1), t) = Reading(Append(vs, v), 0, 1)
  BY <1>1, EncodeIsDecoded
<1>. QED BY <1>1, <1>3, <1>4, <1>5, <1>6, <1>7

\* The digits s are those of n values v.
Holds(s, v, n) == s \in Seq(Nat) /\ v \in Seq(Int) /\ Len(v) = n /\ Decode(s) = Reading(v, 0, 1)

\* A number alone.
LEMMA OneIsHeld ==
  ASSUME NEW c \in Numbers
  PROVE  \E v : Holds(Encode(c), v, 1) /\ v[1] = c
<1>1. c \in Int /\ -c < Modulus \div 4 /\ c < Modulus \div 4
  BY DEF Numbers
<1>2. Encode(c) \in Seq(Nat) /\ Decode(Encode(c)) = Reading(<<c>>, 0, 1)
  BY <1>1, AnyEncodeType, NumbersSurvive
<1>3. <<c>> \in Seq(Int) /\ Len(<<c>>) = 1 /\ <<c>>[1] = c
  BY <1>1
<1>. QED BY <1>2, <1>3 DEF Holds

\* One number more.
LEMMA OneMoreIsHeld ==
  ASSUME NEW s, NEW v, NEW n \in Nat, Holds(s, v, n), NEW c \in Numbers
  PROVE  \E w : /\ Holds(s \o Encode(c), w, n + 1) /\ w[n+1] = c
                /\ \A i \in 1..n : w[i] = v[i]
<1>1. c \in Int
  BY DEF Numbers
<1>2. s \in Seq(Nat) /\ v \in Seq(Int) /\ Len(v) = n /\ Decode(s) = Reading(v, 0, 1)
  BY DEF Holds
<1>3. s \o Encode(c) \in Seq(Nat) /\ Decode(s \o Encode(c)) = Reading(Append(v, c), 0, 1)
  BY <1>2, NumberIsAdded
<1>4. /\ Append(v, c) \in Seq(Int) /\ Len(Append(v, c)) = n + 1
      /\ Append(v, c)[n+1] = c /\ \A i \in 1..n : Append(v, c)[i] = v[i]
  BY <1>1, <1>2, AppendProperties
<1>. QED BY <1>3, <1>4 DEF Holds

\* The four numbers of a mapping without a name.
LEMMA FourAreHeld ==
  ASSUME NEW c \in Numbers, NEW s \in Numbers, NEW l \in Numbers, NEW o \in Numbers
  PROVE  \E v : /\ Holds(((Encode(c) \o Encode(s)) \o Encode(l)) \o Encode(o), v, 4)
                /\ v[1] = c /\ v[2] = s /\ v[3] = l /\ v[4] = o
<1>1. PICK v1 : Holds(Encode(c), v1, 1) /\ v1[1] = c
  BY OneIsHeld
<1>2. PICK v2 : Holds(Encode(c) \o Encode(s), v2, 1+1) /\ v2[1+1] = s /\ \A i \in 1..1 : v2[i] = v1[i]
  BY <1>1, OneMoreIsHeld
<1>3. PICK v3 : /\ Holds((Encode(c) \o Encode(s)) \o Encode(l), v3, 2+1) /\ v3[2+1] = l
                /\ \A i \in 1..2 : v3[i] = v2[i]
  <2>1. 1 + 1 = 2
    OBVIOUS
  <2>. QED BY <1>2, <2>1, OneMoreIsHeld
<1>4. PICK v4 : /\ Holds(((Encode(c) \o Encode(s)) \o Encode(l)) \o Encode(o), v4, 3+1) /\ v4[3+1] = o
                /\ \A i \in 1..3 : v4[i] = v3[i]
  <2>1. 2 + 1 = 3
    OBVIOUS
  <2>. QED BY <1>3, <2>1, OneMoreIsHeld
<1>5. /\ 1 + 1 = 2 /\ 2 + 1 = 3 /\ 3 + 1 = 4
      /\ 1 \in 1..1 /\ 1 \in 1..2 /\ 2 \in 1..2 /\ 1 \in 1..3 /\ 2 \in 1..3 /\ 3 \in 1..3
  OBVIOUS
<1>. QED BY <1>1, <1>2, <1>3, <1>4, <1>5

\* A fifth number, of the name.
LEMMA FifthIsHeld ==
  ASSUME NEW x, NEW v, Holds(x, v, 4), NEW k \in Numbers
  PROVE  \E w : /\ Holds(x \o Encode(k), w, 5) /\ w[5] = k
                /\ w[1] = v[1] /\ w[2] = v[2] /\ w[3] = v[3] /\ w[4] = v[4]
<1>1. 4 \in Nat /\ 4 + 1 = 5 /\ 1 \in 1..4 /\ 2 \in 1..4 /\ 3 \in 1..4 /\ 4 \in 1..4
  OBVIOUS
<1>2. PICK w : /\ Holds(x \o Encode(k), w, 4 + 1) /\ w[4+1] = k
                /\ \A i \in 1..4 : w[i] = v[i]
  BY <1>1, OneMoreIsHeld
<1>3. Holds(x \o Encode(k), w, 5) /\ w[5] = k
  BY <1>1, <1>2
<1>4. w[1] = v[1] /\ w[2] = v[2] /\ w[3] = v[3] /\ w[4] = v[4]
  BY <1>1, <1>2
<1>. QED BY <1>3, <1>4

\* Between segments.
LEMMA NothingEnds ==
  ASSUME NEW e, e.digits = << >>
  PROVE  EndSegment(e) = e
BY DEF EndSegment

\* The state after d line breaks at the end of a segment.
Below(e, d) == [e EXCEPT !.line = @ + d, !.column = 0]

\* It is a state of the loop.
LEMMA BelowType ==
  ASSUME NEW e \in ParseStates, NEW d \in Int
  PROVE  /\ Below(e, d) \in ParseStates
         /\ Below(e, d).digits = e.digits /\ Below(e, d).line = e.line + d /\ Below(e, d).column = 0
         /\ \A f \in Int : Below(Below(e, d), f) = Below(e, d + f)
<1>1. PICK l \in Int, zero \in Int : l = e.line + d /\ zero = 0
  BY DEF ParseStates
<1>2. Below(e, d) = [e EXCEPT !.line = l, !.column = zero]
  BY <1>1, Zenon DEF Below
<1>3. PICK b \in ParseStates : b = [e EXCEPT !.line = l, !.column = zero]
  BY DEF ParseStates
<1>4. b.digits = e.digits /\ b.line = l /\ b.column = zero
  BY <1>3 DEF ParseStates
<1>5. ASSUME NEW f \in Int PROVE Below(b, f) = Below(e, d + f)
  <2>1. PICK k \in Int, g \in Int : k = l + f /\ g = d + f
    OBVIOUS
  <2>2. e.line \in Int
    BY DEF ParseStates
  <2>3. b.line + f = k /\ e.line + g = k
    BY ONLY <1>1, <1>4, <2>1, <2>2, f \in Int, d \in Int, l \in Int
  <2>4. [b EXCEPT !.line = k, !.column = zero] = [e EXCEPT !.line = k, !.column = zero]
    BY <1>3 DEF ParseStates
  <2>5. Below(b, f) = [b EXCEPT !.line = k, !.column = zero]
    BY <1>1, <2>3, Zenon DEF Below
  <2>6. Below(e, g) = [e EXCEPT !.line = k, !.column = zero]
    BY <1>1, <2>3, Zenon DEF Below
  <2>. QED BY <2>1, <2>4, <2>5, <2>6, Zenon
<1>. QED BY <1>1, <1>2, <1>3, <1>4, <1>5

\* The line breaks between two segments.
LEMMA BreaksAreRead ==
  ASSUME NEW f \in ParseStates, NEW e \in ParseStates, e = EndSegment(f), e.digits = << >>,
         NEW d \in Nat, d > 0
  PROVE  Folded(ParseStep, f, [k \in 1..d |-> Semicolon]) = Below(e, d)
<1>. DEFINE Breaks(n) == [k \in 1..n |-> Semicolon]
            P == {n \in Nat : Folded(ParseStep, f, Breaks(n+1)) = Below(e, n+1)}
<1>1. Semicolon \in Int
  BY DEF Semicolon
<1>2. \A x \in ParseStates : ParseStep[<<x, Semicolon>>] = Below(EndSegment(x), 1)
  <2>1. Comma # Semicolon
    BY DEF Comma, Semicolon
  <2>2. \A x \in ParseStates : ParseChar(x, Semicolon) = Below(EndSegment(x), 1)
    BY <2>1, Zenon DEF ParseChar, Below
  <2>. QED BY <1>1, <2>2 DEF ParseStep
<1>3. \A n \in Nat : Breaks(n) \in Seq(Int) /\ Breaks(n+1) = Append(Breaks(n), Semicolon)
  BY <1>1
<1>4. 0 \in P
  <2>1. Breaks(0+1) = <<Semicolon>>
    OBVIOUS
  <2>2. Folded(ParseStep, f, <<Semicolon>>) = ParseStep[<<f, Semicolon>>]
    BY <1>1, ParseSteps, FoldedOne
  <2>. QED BY <1>2, <2>1, <2>2
<1>5. ASSUME NEW n \in Nat, n \in P PROVE n + 1 \in P
  <2>1. Folded(ParseStep, f, Breaks(n+1)) = Below(e, n+1)
    BY <1>5
  <2>2. Breaks(n+1) \in Seq(Int) /\ Breaks((n+1)+1) = Append(Breaks(n+1), Semicolon)
    BY <1>3
  <2>. HIDE DEF Breaks
  <2>3. Folded(ParseStep, f, Append(Breaks(n+1), Semicolon)) = ParseStep[<<Below(e, n+1), Semicolon>>]
    BY <1>1, <2>1, <2>2, ParseSteps, FoldedNext
  <2>4. Below(e, n+1) \in ParseStates /\ Below(e, n+1).digits = << >>
    <3>1. n + 1 \in Int
      OBVIOUS
    <3>. QED BY <3>1, BelowType
  <2>5. ParseStep[<<Below(e, n+1), Semicolon>>] = Below(Below(e, n+1), 1)
    BY <1>2, <2>4, NothingEnds
  <2>6. Below(Below(e, n+1), 1) = Below(e, (n+1)+1)
    BY BelowType
  <2>7. Folded(ParseStep, f, Breaks((n+1)+1)) = Below(e, (n+1)+1)
    BY <2>2, <2>3, <2>5, <2>6, Zenon
  <2>8. n + 1 \in Nat
    OBVIOUS
  <2>. QED BY <2>7, <2>8, Zenon
<1>. HIDE DEF P
<1>6. PICK n \in Nat : d = n + 1
  <2>1. d - 1 \in Nat /\ d = (d - 1) + 1
    OBVIOUS
  <2>. QED BY <2>1
<1>7. n \in P
  BY <1>4, <1>5, Induction
<1>. QED BY <1>6, <1>7 DEF P

\* What a place alone leaves of a state.
LEMMA WithPlaceIs ==
  ASSUME NEW in \in ParseStates, NEW c \in Int
  PROVE  LET r == WithPlace(in, c)
         IN  /\ r.failed = in.failed /\ r.digits = << >> /\ r.line = in.line /\ r.column = c
             /\ r.source = in.source /\ r.originalLine = in.originalLine
             /\ r.originalColumn = in.originalColumn /\ r.name = in.name
             /\ r.mappings = Append(in.mappings, Mapping(in.line, c, Null, Null, Null, Null))
<1>. DEFINE r == WithPlace(in, c)
<1>1. PICK ms : ms = Append(in.mappings, Mapping(in.line, c, Null, Null, Null, Null))
  BY Zenon
<1>2. PICK none : none = << >>
  BY Zenon
<1>3. r = [[in EXCEPT !.column = c, !.mappings = ms] EXCEPT !.digits = none]
  BY <1>1, <1>2, Zenon DEF WithPlace
<1>. HIDE DEF r
<1>4. /\ r.failed = in.failed /\ r.digits = none /\ r.line = in.line /\ r.column = c
      /\ r.source = in.source /\ r.originalLine = in.originalLine
      /\ r.originalColumn = in.originalColumn /\ r.name = in.name /\ r.mappings = ms
  BY <1>3 DEF ParseStates
<1>. QED BY <1>1, <1>2, <1>4 DEF r

\* What a place with an origin leaves of it.
LEMMA WithOriginIs ==
  ASSUME NEW in \in ParseStates, NEW c \in Int, NEW s \in Int, NEW l \in Int, NEW o \in Int,
         NEW n \in Int, NEW name \in Int \cup {Null}
  PROVE  LET r == WithOrigin(in, c, s, l, o, n, name)
         IN  /\ r.failed = in.failed /\ r.digits = << >> /\ r.line = in.line /\ r.column = c
             /\ r.source = s /\ r.originalLine = l /\ r.originalColumn = o /\ r.name = n
             /\ r.mappings = Append(in.mappings, Mapping(in.line, c, s, l + 1, o, name))
<1>. DEFINE r == WithOrigin(in, c, s, l, o, n, name)
<1>1. PICK ms : ms = Append(in.mappings, Mapping(in.line, c, s, l + 1, o, name))
  BY Zenon
<1>2. PICK none : none = << >>
  BY Zenon
<1>3. r = [[in EXCEPT !.column = c, !.source = s, !.originalLine = l, !.originalColumn = o,
                      !.name = n, !.mappings = ms] EXCEPT !.digits = none]
  BY <1>1, <1>2, Zenon DEF WithOrigin
<1>. HIDE DEF r
<1>4. /\ r.failed = in.failed /\ r.digits = none /\ r.line = in.line /\ r.column = c
      /\ r.source = s /\ r.originalLine = l /\ r.originalColumn = o /\ r.name = n /\ r.mappings = ms
  BY <1>3 DEF ParseStates
<1>. QED BY <1>1, <1>2, <1>4 DEF r

\* Nothing holds no values.
LEMMA DigitsAreThere ==
  ASSUME NEW x, NEW v, NEW n \in Nat, Holds(x, v, n), n > 0
  PROVE  x # << >> /\ ~IsCutShort(Decode(x)) /\ Decode(x).values = v
<1>1. Decode(x) = Reading(v, 0, 1) /\ Len(v) = n
  BY DEF Holds
<1>2. Decode(x).values = v /\ Decode(x).weight = 1
  BY <1>1 DEF Reading
<1>3. Decode(<< >>).values = << >>
  <2>1. << >> \in Seq(Int) /\ Reading(<< >>, 0, 1) \in Reads
    BY DEF Reading, Reads
  <2>2. Decode(<< >>) = Folded(DigitStep, Reading(<< >>, 0, 1), << >>)
    BY <2>1, DecodeIs DEF Decode, Reading
  <2>3. Decode(<< >>) = Reading(<< >>, 0, 1)
    BY <2>1, <2>2, DigitSteps, FoldedNone
  <2>. QED BY <2>3 DEF Reading
<1>4. Len(<< >>) = 0
  OBVIOUS
<1>5. v # << >>
  BY <1>1, <1>4
<1>. QED BY <1>2, <1>3, <1>5 DEF IsCutShort

\* The state between segments, before digits are read.
LEMMA SegmentIsRead ==
  ASSUME NEW q \in ParseStates, ~q.failed, q.digits = << >>,
         NEW x, NEW v, NEW n \in {1, 4, 5}, Holds(x, v, n)
  PROVE  LET r == EndSegment(Folded(ParseStep, q, x))
             name == IF n = 5 THEN q.name + v[5] ELSE q.name
         IN  /\ r \in ParseStates
             /\ ~r.failed /\ r.digits = << >> /\ r.line = q.line /\ r.column = q.column + v[1]
             /\ n = 1 => /\ r.source = q.source /\ r.originalLine = q.originalLine
                         /\ r.originalColumn = q.originalColumn /\ r.name = q.name
                         /\ r.mappings = Append(q.mappings, Mapping(q.line, q.column + v[1], Null, Null, Null, Null))
             /\ n # 1 => /\ r.source = q.source + v[2] /\ r.originalLine = q.originalLine + v[3]
                         /\ r.originalColumn = q.originalColumn + v[4] /\ r.name = name
                         /\ r.mappings =
                              Append(q.mappings, Mapping(q.line, q.column + v[1], q.source + v[2],
                                       q.originalLine + v[3] + 1, q.originalColumn + v[4],
                                       IF n = 5 THEN name ELSE Null))
<1>1. x \in Seq(Nat) /\ v \in Seq(Int) /\ Len(v) = n
  BY DEF Holds
<1>2. x # << >> /\ ~IsCutShort(Decode(x)) /\ Decode(x).values = v
  BY DigitsAreThere
<1>3. PICK t \in ParseStates : t = Folded(ParseStep, q, x)
  <2>1. x \in Seq(Int)
    BY <1>1
  <2>2. Folded(ParseStep, q, x) \in ParseStates
    BY <2>1, ParseSteps, FoldedType
  <2>. QED BY <2>2, Zenon
<1>4. t = [q EXCEPT !.digits = x]
  <2>1. << >> \o x = x
    BY <1>1, ConcatEmptySeq
  <2>2. Folded(ParseStep, q, x) = [q EXCEPT !.digits = q.digits \o x]
    BY <1>1, DigitsAreRead
  <2>. QED BY <1>3, <2>1, <2>2, Zenon
<1>5. /\ t.digits = x /\ ~t.failed /\ t.line = q.line /\ t.column = q.column /\ t.source = q.source
      /\ t.originalLine = q.originalLine /\ t.originalColumn = q.originalColumn /\ t.name = q.name
      /\ t.mappings = q.mappings
  BY <1>4 DEF ParseStates
<1>6. EndSegment(t) \in ParseStates
  BY EndSegmentType
<1>7. /\ v[1] \in Int /\ (n # 1 => v[2] \in Int /\ v[3] \in Int /\ v[4] \in Int)
      /\ (n = 5 => v[5] \in Int)
  BY ONLY <1>1, n \in {1, 4, 5}
<1>8. /\ t.column \in Int /\ t.source \in Int /\ t.originalLine \in Int
      /\ t.originalColumn \in Int /\ t.name \in Int
  BY DEF ParseStates
<1>9. ~t.failed /\ t.digits # <<>> /\ ~IsCutShort(Decode(t.digits)) /\ v = Decode(t.digits).values
  BY <1>2, <1>5
<1>10. t.column + v[1] \in Int
  BY <1>7, <1>8, SumIs
<1>11. CASE n = 1
  <2>1. EndSegment(t) = WithPlace(t, t.column + v[1])
    BY <1>1, <1>9, <1>11, SegmentEnds
  <2>. QED BY <1>3, <1>5, <1>6, <1>10, <1>11, <2>1, WithPlaceIs
<1>12. CASE n # 1
  <2>. DEFINE k == IF n = 5 THEN t.name + v[5] ELSE t.name
              name == IF n = 5 THEN t.name + v[5] ELSE Null
  <2>1. Len(v) \notin {1, 2, 3} /\ (Len(v) > 4 <=> n = 5)
    BY <1>1, <1>12
  <2>2. EndSegment(t) =
          WithOrigin(t, t.column + v[1], t.source + v[2], t.originalLine + v[3],
                      t.originalColumn + v[4], k, name)
    <3>1. EndSegment(t) =
          WithOrigin(t, t.column + v[1], t.source + v[2], t.originalLine + v[3],
                      t.originalColumn + v[4], IF Len(v) > 4 THEN t.name + v[5] ELSE t.name,
                      IF Len(v) > 4 THEN t.name + v[5] ELSE Null)
      BY <1>9, <2>1, SegmentEnds
    <3>. QED BY <2>1, <3>1, Zenon
  <2>3. t.source + v[2] \in Int /\ t.originalLine + v[3] \in Int /\ t.originalColumn + v[4] \in Int
    BY <1>7, <1>8, <1>12, SumIs
  <2>4. n = 5 => t.name + v[5] \in Int
    BY <1>7, <1>8, SumIs
  <2>5. k \in Int /\ name \in Int \cup {Null}
    BY <1>8, <2>4
  <2>6. (n = 5 => name = k)
    OBVIOUS
  <2>. HIDE DEF k, name
  <2>7. /\ EndSegment(t).failed = t.failed /\ EndSegment(t).digits = << >> /\ EndSegment(t).line = t.line
        /\ EndSegment(t).column = t.column + v[1] /\ EndSegment(t).source = t.source + v[2]
        /\ EndSegment(t).originalLine = t.originalLine + v[3]
        /\ EndSegment(t).originalColumn = t.originalColumn + v[4] /\ EndSegment(t).name = k
        /\ EndSegment(t).mappings = Append(t.mappings, Mapping(t.line, t.column + v[1], t.source + v[2],
                                              t.originalLine + v[3] + 1, t.originalColumn + v[4], name))
    <3>1. PICK c \in Int, s \in Int, l \in Int, o \in Int :
             /\ c = t.column + v[1] /\ s = t.source + v[2] /\ l = t.originalLine + v[3]
             /\ o = t.originalColumn + v[4]
      BY <1>10, <2>3, Zenon
    <3>2. PICK r : r = WithOrigin(t, c, s, l, o, k, name)
      BY Zenon
    <3>3. r = EndSegment(t)
      BY <2>2, <3>1, <3>2, Zenon
    <3>4. /\ r.failed = t.failed /\ r.digits = << >> /\ r.line = t.line /\ r.column = c
          /\ r.source = s /\ r.originalLine = l /\ r.originalColumn = o /\ r.name = k
          /\ r.mappings = Append(t.mappings, Mapping(t.line, c, s, l + 1, o, name))
      BY <2>5, <3>2, WithOriginIs
    <3>. QED BY <3>1, <3>3, <3>4, Zenon
  <2>. QED BY <1>3, <1>5, <1>6, <1>12, <2>7 DEF k, name
<1>. QED BY <1>11, <1>12

\* Short numbers are integers.
LEMMA ShortIs == Short \subseteq Int /\ 0 \in Short /\ 1 \in Short
<1>1. PICK k \in Nat : Modulus = 4 * k /\ k > 1
  BY Base64Assumption
<1>2. Modulus \div 4 = k
  BY <1>1
<1>. QED BY <1>1, <1>2 DEF Short

\* What is well made is made.
LEMMA WellMadeIs == \A g : WellMade(g) => IsMade(g)
BY DEF WellMade, IsMade

\* What a text tells of a mapping is one without an origin, or with one.
LEMMA ToldIs ==
  ASSUME NEW m \in Lines
  PROVE  /\ m.generatedLine \in Int /\ m.generatedColumn \in Int
         /\ Num(m.originalLine) \in Int /\ Num(m.originalColumn) \in Int
         /\ m.source \in Strings \cup {Null} /\ m.name \in Strings \cup {Null}
         /\ m.source = Null =>
              /\ Told(m) \in Bare
              /\ Told(m) = Mapping(m.generatedLine, m.generatedColumn, Null, Null, Null, Null)
         /\ m.source # Null =>
              /\ Told(m) \in Sourced
              /\ Told(m) = Mapping(m.generatedLine, m.generatedColumn, m.source,
                                   Num(m.originalLine), Num(m.originalColumn), m.name)
<1>1. EmptyString \in Strings /\ Null \notin Strings /\ Null \notin Int
  <2>1. <<"">> \in Seq(Parts) /\ <<"">> # <<>>
    <3>1. PICK part \in Parts : part = ""
      BY PartsAssumption
    <3>2. <<part>> \in Seq(Parts) /\ <<part>> # <<>>
      OBVIOUS
    <3>. QED BY <3>1, <3>2, Zenon
  <2>. QED BY <2>1, NullAssumption DEF EmptyString, Strings
<1>2. /\ m.generatedLine \in Int /\ m.generatedColumn \in Int
      /\ m.originalLine \in Int \cup {Null} /\ m.originalColumn \in Int \cup {Null}
      /\ m.source \in Strings \cup {Null} /\ m.name \in Strings \cup {Null}
  BY <1>1 DEF Lines, Sourced, Unplaced
<1>3. PICK l \in Int, c \in Int : l = Num(m.originalLine) /\ c = Num(m.originalColumn)
  <2>1. Num(m.originalLine) \in Int /\ Num(m.originalColumn) \in Int
    BY <1>2 DEF Num
  <2>. QED BY <2>1, Zenon
<1>4. CASE m.source = Null
  <2>1. m \in Unplaced
    BY <1>1, <1>4 DEF Lines, Sourced
  <2>2. Told(m) = [m EXCEPT !.name = Null]
    BY <1>4 DEF Told
  <2>. QED BY <1>2, <1>3, <1>4, <2>1, <2>2 DEF Unplaced, Bare, Mapping
<1>5. CASE m.source # Null
  <2>1. Told(m) = [m EXCEPT !.originalLine = l, !.originalColumn = c]
    BY <1>3, <1>5 DEF Told
  <2>2. PICK t : t = [m EXCEPT !.originalLine = l, !.originalColumn = c]
    BY Zenon
  <2>3. /\ t \in Sourced /\ t.generatedLine = m.generatedLine /\ t.generatedColumn = m.generatedColumn
        /\ t.source = m.source /\ t.originalLine = l /\ t.originalColumn = c /\ t.name = m.name
    <3>1. CASE m \in Sourced
      BY <1>3, <2>2, <3>1 DEF Sourced
    <3>2. CASE m \in Unplaced
      BY <1>1, <1>2, <1>3, <1>5, <2>2, <3>2 DEF Sourced, Unplaced
    <3>. QED BY <3>1, <3>2 DEF Lines
  <2>4. t = Mapping(m.generatedLine, m.generatedColumn, m.source, l, c, m.name)
    BY <2>3 DEF Sourced, Mapping
  <2>. QED BY <1>2, <1>3, <1>5, <2>1, <2>2, <2>3, <2>4
<1>. QED BY <1>4, <1>5

\* A mapping of a generator that can be written.
LEMMA LineType ==
  ASSUME NEW g, IsMade(g), NEW i \in DOMAIN g.array
  PROVE  LET m == g.array[i]
         IN  /\ m \in Lines /\ m.generatedLine \in Int /\ m.generatedColumn \in Int
             /\ m.source # Null =>
                  /\ m.source \in Range(g.sources) /\ IndexOf(g.sources, m.source) \in Int
                  /\ Num(m.originalLine) \in Int /\ Num(m.originalColumn) \in Int
                  /\ m.name # Null => m.name \in Range(g.names) /\ IndexOf(g.names, m.name) \in Int
<1>1. PICK m \in Lines : m = g.array[i]
  <2>1. g.array \in Seq(Lines)
    BY DEF IsMade
  <2>2. g.array[i] \in Lines
    BY <2>1
  <2>. QED BY <2>2, Zenon
<1>2. m \in Range(g.array)
  <2>1. g.array \in Seq(Lines)
    BY DEF IsMade
  <2>. QED BY <1>1, <2>1 DEF Range
<1>3. m.source \in Range(g.sources) \cup {Null} /\ m.name \in Range(g.names) \cup {Null}
  BY <1>2 DEF IsMade, IsWritable
<1>4. /\ m.generatedLine \in Int /\ m.generatedColumn \in Int
      /\ Num(m.originalLine) \in Int /\ Num(m.originalColumn) \in Int
  BY ToldIs
<1>5. /\ \A s \in Range(g.sources) : IndexOf(g.sources, s) \in Int
      /\ \A s \in Range(g.names) : IndexOf(g.names, s) \in Int
  <2>1. g.sources \in Seq(Strings) /\ g.names \in Seq(Strings)
    BY DEF IsMade
  <2>2. \A s \in Range(g.sources) : IndexOf(g.sources, s) \in Nat
    BY <2>1, IndexOfIs
  <2>3. \A s \in Range(g.names) : IndexOf(g.names, s) \in Nat
    BY <2>1, IndexOfIs
  <2>. QED BY <2>2, <2>3
<1>. QED BY <1>1, <1>3, <1>4, <1>5

\* A mapping of a generator that is well made.
LEMMA LineIs ==
  ASSUME NEW g, WellMade(g), NEW i \in DOMAIN g.array
  PROVE  LET m == g.array[i]
         IN  /\ m \in Lines /\ m.generatedLine \in Int /\ m.generatedColumn \in Short
             /\ Num(m.originalLine) \in Short /\ Num(m.originalColumn) \in Short
             /\ m.source # Null =>
                  /\ m.source \in Range(g.sources) /\ IndexOf(g.sources, m.source) \in Short
                  /\ m.name # Null => m.name \in Range(g.names) /\ IndexOf(g.names, m.name) \in Short
<1>1. PICK m \in Lines : m = g.array[i]
  <2>1. g.array \in Seq(Lines)
    BY DEF WellMade
  <2>2. g.array[i] \in Lines
    BY <2>1
  <2>. QED BY <2>2, Zenon
<1>2. {m.generatedColumn, Num(m.originalLine), Num(m.originalColumn)} \subseteq Short
  BY <1>1 DEF WellMade
<1>3. m \in Range(g.array)
  <2>1. g.array \in Seq(Lines)
    BY DEF WellMade
  <2>. QED BY <1>1, <2>1 DEF Range
<1>4. m.source \in Range(g.sources) \cup {Null} /\ m.name \in Range(g.names) \cup {Null}
  BY <1>3 DEF WellMade, IsWritable
<1>5. m.generatedLine \in Int
  BY ToldIs
<1>6. \A s \in Range(g.sources) : IndexOf(g.sources, s) \in Short
  BY IndexIsShort DEF WellMade
<1>7. \A s \in Range(g.names) : IndexOf(g.names, s) \in Short
  BY IndexIsShort DEF WellMade
<1>. QED BY <1>1, <1>2, <1>4, <1>5, <1>6, <1>7

\* Of two mappings that compare as equal, a text tells the same.
LEMMA EqualIs ==
  ASSUME NEW m \in Lines, NEW n \in Lines, CompareByGeneratedPositionsInflated(m, n) = 0
  PROVE  Told(m) = Told(n) /\ m.source = n.source /\ m.generatedLine = n.generatedLine
<1>. DEFINE a == Difference(m.generatedLine, n.generatedLine)
            b == Difference(m.generatedColumn, n.generatedColumn)
            c == Strcmp(m.source, n.source)
            d == Difference(m.originalLine, n.originalLine)
            e == Difference(m.originalColumn, n.originalColumn)
            f == Strcmp(m.name, n.name)
<1>1. \A k \in Lines : /\ k.generatedLine \in Int /\ k.generatedColumn \in Int
                       /\ Num(k.generatedLine) = k.generatedLine /\ Num(k.generatedColumn) = k.generatedColumn
                       /\ Num(k.originalLine) \in Int /\ Num(k.originalColumn) \in Int
  BY NullAssumption, ToldIs DEF Num
<1>2. a \in Int /\ b \in Int /\ d \in Int /\ e \in Int
  BY <1>1 DEF Difference
<1>3. c \in Int /\ f \in Int /\ (c = 0 => m.source = n.source) /\ (f = 0 => m.name = n.name)
  BY DEF Strcmp
<1>4. FirstDifference(<<a, b, c, d, e, f>>) = 0
  BY DEF CompareByGeneratedPositionsInflated
<1>. HIDE DEF a, b, c, d, e, f
<1>5. a = 0 /\ b = 0 /\ c = 0 /\ d = 0 /\ e = 0 /\ f = 0
  <2>1. FirstDifference(<<a, b, c, d, e, f>>) =
           IF a # 0 THEN a ELSE IF b # 0 THEN b ELSE IF c # 0 THEN c
           ELSE IF d # 0 THEN d ELSE IF e # 0 THEN e ELSE f
    BY <1>2, <1>3, FirstDifferenceIs, SMTT(30)
  <2>. QED BY <1>4, <2>1, Zenon
<1>6. /\ m.generatedLine = n.generatedLine /\ m.generatedColumn = n.generatedColumn
      /\ Num(m.originalLine) = Num(n.originalLine) /\ Num(m.originalColumn) = Num(n.originalColumn)
  BY <1>1, <1>5 DEF a, b, d, e, Difference
<1>7. m.source = n.source /\ m.name = n.name
  BY <1>3, <1>5
<1>8. CASE m.source = Null
  BY <1>6, <1>7, <1>8, ToldIs
<1>9. CASE m.source # Null
  BY <1>6, <1>7, <1>9, ToldIs
<1>. QED BY <1>6, <1>7, <1>8, <1>9

\* A mapping that is written is not skipped.
Skips(g, p, i) ==
  /\ g.array[i].generatedLine = p.generatedLine /\ i > 1
  /\ CompareByGeneratedPositionsInflated(g.array[i], g.array[i-1]) = 0
Started(g, p, i) ==
  (p.text \o Separators(g.array[i], p, i)) \o Encode(g.array[i].generatedColumn - StartColumn(g.array[i], p))

\* The types of what is written of a mapping.
LEMMA StartedType ==
  ASSUME NEW g, IsMade(g), NEW i \in DOMAIN g.array, NEW p \in Previouses
  PROVE  /\ Separators(g.array[i], p, i) \in Seq(Int)
         /\ g.array[i].generatedColumn - StartColumn(g.array[i], p) \in Int
         /\ Started(g, p, i) \in Seq(Int)
         /\ g.array[i].source # Null => OriginalFields(g, g.array[i], p) \in Seq(Nat)
<1>. DEFINE m == g.array[i]
<1>1. /\ p.text \in Seq(Int) /\ p.generatedLine \in Int /\ p.generatedColumn \in Int /\ p.source \in Int
      /\ p.originalLine \in Int /\ p.originalColumn \in Int /\ p.name \in Int
  BY DEF Previouses
<1>2. /\ m.generatedLine \in Int /\ m.generatedColumn \in Int
      /\ m.source # Null => /\ IndexOf(g.sources, m.source) \in Int
                            /\ Num(m.originalLine) \in Int /\ Num(m.originalColumn) \in Int
                            /\ m.name # Null => IndexOf(g.names, m.name) \in Int
  BY LineType
<1>. HIDE DEF m
<1>3. Separators(m, p, i) \in Seq(Int)
  BY <1>1, <1>2, SeparatorsType
<1>4. StartColumn(m, p) \in Int
  BY <1>1 DEF StartColumn
<1>5. m.generatedColumn - StartColumn(m, p) \in Int
  BY <1>2, <1>4
<1>6. Encode(m.generatedColumn - StartColumn(m, p)) \in Seq(Int)
  <2>1. Encode(m.generatedColumn - StartColumn(m, p)) \in Seq(Nat)
    BY <1>5, AnyEncodeType
  <2>. QED BY <2>1
<1>7. Started(g, p, i) \in Seq(Int)
  <2>1. p.text \o Separators(m, p, i) \in Seq(Int)
    BY <1>1, <1>3
  <2>2. (p.text \o Separators(m, p, i)) \o Encode(m.generatedColumn - StartColumn(m, p)) \in Seq(Int)
    BY <1>6, <2>1
  <2>. QED BY <2>2 DEF Started, m
<1>8. ASSUME m.source # Null PROVE OriginalFields(g, m, p) \in Seq(Nat)
  <2>1. /\ IndexOf(g.sources, m.source) - p.source \in Int
        /\ Num(m.originalLine) - 1 - p.originalLine \in Int /\ Num(m.originalColumn) - p.originalColumn \in Int
    BY <1>1, <1>2, <1>8, SMTT(30)
  <2>2. m.name # Null => IndexOf(g.names, m.name) - p.name \in Int
    BY <1>1, <1>2, <1>8
  <2>3. PICK s \in Seq(Nat), l \in Seq(Nat), o \in Seq(Nat) :
          /\ s = Encode(IndexOf(g.sources, m.source) - p.source)
          /\ l = Encode(Num(m.originalLine) - 1 - p.originalLine) /\ o = Encode(Num(m.originalColumn) - p.originalColumn)
    BY <2>1, AnyEncodeType
  <2>4. (IF m.name = Null THEN << >> ELSE Encode(IndexOf(g.names, m.name) - p.name)) \in Seq(Nat)
    <3>1. << >> \in Seq(Nat)
      OBVIOUS
    <3>. QED BY <2>2, <3>1, AnyEncodeType
  <2>5. PICK n \in Seq(Nat) : n = IF m.name = Null THEN << >> ELSE Encode(IndexOf(g.names, m.name) - p.name)
    BY <2>4, Zenon
  <2>6. OriginalFields(g, m, p) = ((s \o l) \o o) \o n
    BY <2>3, <2>5, Zenon DEF OriginalFields
  <2>. QED BY <2>6
<1>. QED BY <1>3, <1>5, <1>7, <1>8 DEF m

\* One turn of _serializeMappings, by what it changes.
LEMMA SerializedIs ==
  ASSUME NEW g, IsMade(g), NEW i \in DOMAIN g.array, NEW p \in Previouses
  PROVE  LET m == g.array[i]
             r == SerializeMapping(g, p, i)
         IN  /\ r \in Previouses
             /\ Skips(g, p, i) => r = p
             /\ ~Skips(g, p, i) =>
                  /\ r.generatedLine = m.generatedLine /\ r.generatedColumn = m.generatedColumn
                  /\ m.source = Null =>
                       /\ r.text = Started(g, p, i) /\ r.source = p.source /\ r.originalLine = p.originalLine
                       /\ r.originalColumn = p.originalColumn /\ r.name = p.name
                  /\ m.source # Null =>
                       /\ r.text = Started(g, p, i) \o OriginalFields(g, m, p)
                       /\ r.source = IndexOf(g.sources, m.source) /\ r.originalLine = Num(m.originalLine) - 1
                       /\ r.originalColumn = Num(m.originalColumn)
                       /\ r.name = IF m.name = Null THEN p.name ELSE IndexOf(g.names, m.name)
<1>. DEFINE m == g.array[i]
<1>1. /\ m.generatedLine \in Int /\ m.generatedColumn \in Int
      /\ m.source # Null => /\ IndexOf(g.sources, m.source) \in Int
                            /\ Num(m.originalLine) \in Int /\ Num(m.originalColumn) \in Int
                            /\ m.name # Null => IndexOf(g.names, m.name) \in Int
  BY LineType
<1>2. CASE Skips(g, p, i)
  BY <1>2 DEF Skips, SerializeMapping
<1>3. CASE ~Skips(g, p, i) /\ m.source = Null
  <2>1. Started(g, p, i) \in Seq(Int)
    BY StartedType
  <2>2. PICK x \in Seq(Int), a \in Int, b \in Int :
          x = Started(g, p, i) /\ a = m.generatedLine /\ b = m.generatedColumn
    BY <1>1, <2>1, Zenon
  <2>3. SerializeMapping(g, p, i) = [[p EXCEPT !.generatedLine = a, !.generatedColumn = b] EXCEPT !.text = x]
    BY <1>3, <2>2, Zenon DEF Skips, SerializeMapping, Started
  <2>4. PICK r : r = [[p EXCEPT !.generatedLine = a, !.generatedColumn = b] EXCEPT !.text = x]
    BY Zenon
  <2>5. /\ r \in Previouses
        /\ r.generatedLine = a /\ r.generatedColumn = b /\ r.text = x /\ r.source = p.source
        /\ r.originalLine = p.originalLine /\ r.originalColumn = p.originalColumn /\ r.name = p.name
    BY <2>4 DEF Previouses
  <2>6. SerializeMapping(g, p, i) = r
    BY <2>3, <2>4, Zenon
  <2>. QED BY <1>3, <2>2, <2>5, <2>6
<1>4. CASE ~Skips(g, p, i) /\ m.source # Null
  <2>1. Started(g, p, i) \in Seq(Int) /\ OriginalFields(g, m, p) \in Seq(Nat)
    BY <1>4, StartedType
  <2>2. Started(g, p, i) \o OriginalFields(g, m, p) \in Seq(Int)
    <3>1. OriginalFields(g, m, p) \in Seq(Int)
      BY <2>1
    <3>. QED BY <2>1, <3>1
  <2>3. p.name \in Int
    BY DEF Previouses
  <2>4. (IF m.name = Null THEN p.name ELSE IndexOf(g.names, m.name)) \in Int /\ Num(m.originalLine) - 1 \in Int
    BY <1>1, <1>4, <2>3
  <2>5. PICK x \in Seq(Int), a \in Int, b \in Int, s \in Int, l \in Int, o \in Int, n \in Int :
          /\ x = Started(g, p, i) \o OriginalFields(g, m, p) /\ a = m.generatedLine /\ b = m.generatedColumn
          /\ s = IndexOf(g.sources, m.source) /\ l = Num(m.originalLine) - 1 /\ o = Num(m.originalColumn)
          /\ n = IF m.name = Null THEN p.name ELSE IndexOf(g.names, m.name)
    BY <1>1, <1>4, <2>2, <2>4, Zenon
  <2>6. SerializeMapping(g, p, i) =
          [[p EXCEPT !.generatedLine = a, !.generatedColumn = b]
             EXCEPT !.text = x, !.source = s, !.originalLine = l, !.originalColumn = o, !.name = n]
    BY <1>4, <2>5, Zenon DEF Skips, SerializeMapping, Started
  <2>7. PICK r : r = [[p EXCEPT !.generatedLine = a, !.generatedColumn = b]
             EXCEPT !.text = x, !.source = s, !.originalLine = l, !.originalColumn = o, !.name = n]
    BY Zenon
  <2>8. /\ r \in Previouses
        /\ r.generatedLine = a /\ r.generatedColumn = b /\ r.text = x /\ r.source = s
        /\ r.originalLine = l /\ r.originalColumn = o /\ r.name = n
    BY <2>7 DEF Previouses
  <2>9. SerializeMapping(g, p, i) = r
    BY <2>6, <2>7, Zenon
  <2>. QED BY <1>4, <2>5, <2>8, <2>9
<1>. QED BY <1>2, <1>3, <1>4

\* The line breaks change nothing else.
LEMMA BelowKeeps ==
  ASSUME NEW e \in ParseStates, NEW d \in Int
  PROVE  /\ Below(e, d).failed = e.failed /\ Below(e, d).source = e.source
         /\ Below(e, d).originalLine = e.originalLine /\ Below(e, d).originalColumn = e.originalColumn
         /\ Below(e, d).name = e.name /\ Below(e, d).mappings = e.mappings
<1>1. PICK l, zero : l = e.line + d /\ zero = 0
  BY Zenon
<1>2. PICK b : b = [e EXCEPT !.line = l, !.column = zero]
  BY Zenon
<1>3. Below(e, d) = b
  BY <1>1, <1>2, Zenon DEF Below
<1>4. /\ b.failed = e.failed /\ b.source = e.source /\ b.originalLine = e.originalLine
      /\ b.originalColumn = e.originalColumn /\ b.name = e.name /\ b.mappings = e.mappings
  BY <1>2 DEF ParseStates
<1>. QED BY <1>3, <1>4, Zenon

\* The text that is written up to mapping k is read as these mappings, and the loop
\* that reads it is where the loop that writes it is.
Follows(g, p, k) ==
  LET e == Parse(p.text)
  IN  /\ p \in Previouses /\ e \in ParseStates /\ ~e.failed /\ e.digits = << >>
      /\ e.line = p.generatedLine /\ e.column = p.generatedColumn /\ e.source = p.source
      /\ e.originalLine = p.originalLine /\ e.originalColumn = p.originalColumn /\ e.name = p.name
      /\ p.generatedColumn \in Short /\ p.source \in Short /\ p.originalLine + 1 \in Short
      /\ p.originalColumn \in Short /\ p.name \in Short
      /\ k = 0 => p = Previous
      /\ k # 0 => p.generatedLine = g.array[k].generatedLine
      /\ Range(e.mappings) = {Written(g, g.array[j]) : j \in 1..k}

\* Nothing is written at first, and nothing read.
LEMMA PreviousFollows ==
  ASSUME NEW g
  PROVE  Follows(g, Previous, 0)
<1>1. << >> \in Seq(Int)
  OBVIOUS
<1>2. Previous \in Previouses
  BY <1>1 DEF Previous, Previouses
<1>3. Parse(<< >>) = Parsing
  <2>1. Parse(<< >>) = EndSegment(Folded(ParseStep, Parsing, << >>))
    BY <1>1, ParseType
  <2>2. Folded(ParseStep, Parsing, << >>) = Parsing
    BY ParsingType, ParseSteps, FoldedNone
  <2>3. Parsing.digits = << >>
    BY DEF Parsing
  <2>. QED BY <2>1, <2>2, <2>3, NothingEnds
<1>4. Previous.text = << >>
  BY DEF Previous
<1>5. Range(Parsing.mappings) = {Written(g, g.array[j]) : j \in 1..0}
  BY DEF Parsing, Range
<1>6. /\ ~Parsing.failed /\ Parsing.digits = << >> /\ Parsing.line = Previous.generatedLine
      /\ Parsing.column = Previous.generatedColumn /\ Parsing.source = Previous.source
      /\ Parsing.originalLine = Previous.originalLine /\ Parsing.originalColumn = Previous.originalColumn
      /\ Parsing.name = Previous.name
  BY DEF Parsing, Previous
<1>7. /\ Previous.generatedColumn \in Short /\ Previous.source \in Short /\ Previous.originalLine + 1 \in Short
      /\ Previous.originalColumn \in Short /\ Previous.name \in Short
  BY ShortIs DEF Previous
<1>. QED BY <1>2, <1>3, <1>4, <1>5, <1>6, <1>7, ParsingType DEF Follows

\* The separators end the segment before, and lead to where the next one begins.
LEMMA SeparatorsAreRead ==
  ASSUME NEW g, WellMade(g), NEW i \in DOMAIN g.array, NEW p, Follows(g, p, i - 1)
  PROVE  LET m == g.array[i]
             e == Parse(p.text)
             q == Folded(ParseStep, Folded(ParseStep, Parsing, p.text), Separators(m, p, i))
         IN  /\ q \in ParseStates /\ ~q.failed /\ q.digits = << >> /\ q.line = m.generatedLine
             /\ q.column = StartColumn(m, p) /\ q.source = e.source /\ q.originalLine = e.originalLine
             /\ q.originalColumn = e.originalColumn /\ q.name = e.name /\ q.mappings = e.mappings
             /\ StartColumn(m, p) \in Short
<1>. DEFINE m == g.array[i]
<1>1. p \in Previouses /\ p.text \in Seq(Int) /\ p.generatedLine \in Int
  BY DEF Follows, Previouses
<1>2. PICK f \in ParseStates : f = Folded(ParseStep, Parsing, p.text)
  <2>1. Folded(ParseStep, Parsing, p.text) \in ParseStates
    BY <1>1, ParsingType, ParseSteps, FoldedType
  <2>. QED BY <2>1, Zenon
<1>3. PICK e \in ParseStates : e = Parse(p.text) /\ e = EndSegment(f)
  BY <1>1, <1>2, ParseType
<1>4. /\ ~e.failed /\ e.digits = << >> /\ e.line = p.generatedLine /\ e.column = p.generatedColumn
      /\ p.generatedColumn \in Short /\ (i - 1 = 0 => p = Previous)
      /\ i - 1 # 0 => p.generatedLine = g.array[i-1].generatedLine
  BY <1>3 DEF Follows
<1>5. m.generatedLine \in Int
  BY LineIs
<1>6. DOMAIN g.array = 1..Len(g.array) /\ Len(g.array) \in Nat
  BY DEF WellMade
<1>7. p.generatedLine <= m.generatedLine
  <2>1. CASE i = 1
    <3>1. p.generatedLine = 1
      BY <1>4, <2>1 DEF Previous
    <3>2. 1 <= m.generatedLine
      BY <1>6 DEF WellMade
    <3>. QED BY <3>1, <3>2
  <2>2. CASE i # 1
    <3>1. i - 1 \in 1..i /\ i - 1 # 0
      BY <1>6, <2>2
    <3>. QED BY <1>4, <3>1 DEF WellMade
  <2>. QED BY <2>1, <2>2
<1>8. StartColumn(m, p) \in Short
  BY <1>4, ShortIs DEF StartColumn
<1>. DEFINE q == Folded(ParseStep, f, Separators(m, p, i))
<1>9. CASE m.generatedLine = p.generatedLine
  <2>1. StartColumn(m, p) = p.generatedColumn
    BY <1>9 DEF StartColumn
  <2>2. q = e
    <3>1. CASE i > 1
      <4>1. Separators(m, p, i) = <<Comma>>
        BY <1>9, <3>1 DEF Separators
      <4>2. Comma \in Int /\ Comma # Semicolon
        BY DEF Comma, Semicolon
      <4>3. Folded(ParseStep, f, <<Comma>>) = ParseStep[<<f, Comma>>]
        BY <4>2, ParseSteps, FoldedOne
      <4>4. ParseStep[<<f, Comma>>] = ParseChar(f, Comma)
        BY <4>2 DEF ParseStep
      <4>5. ParseChar(f, Comma) = EndSegment(f)
        BY <4>2, Zenon DEF ParseChar
      <4>. QED BY <1>3, <4>1, <4>3, <4>4, <4>5
    <3>2. CASE ~(i > 1)
      <4>1. Separators(m, p, i) = << >>
        BY <1>9, <3>2 DEF Separators
      <4>2. i - 1 = 0
        BY <1>6, <3>2
      <4>3. p.text = << >>
        BY <1>4, <4>2 DEF Previous
      <4>4. f = Parsing /\ q = f
        BY <1>2, <4>1, <4>3, ParsingType, ParseSteps, FoldedNone
      <4>5. f.digits = << >>
        BY <4>4 DEF Parsing
      <4>. QED BY <1>3, <4>4, <4>5, NothingEnds
    <3>. QED BY <3>1, <3>2
  <2>. QED BY <1>2, <1>3, <1>4, <1>8, <1>9, <2>1, <2>2
<1>10. CASE m.generatedLine # p.generatedLine
  <2>1. PICK d \in Nat : d = m.generatedLine - p.generatedLine /\ d > 0
    BY <1>1, <1>5, <1>7, <1>10
  <2>2. Separators(m, p, i) = [k \in 1..d |-> Semicolon] /\ StartColumn(m, p) = 0
    BY <1>10, <2>1, Zenon DEF Separators, StartColumn
  <2>3. Folded(ParseStep, f, [k \in 1..d |-> Semicolon]) = Below(e, d)
    BY <1>3, <1>4, <2>1, BreaksAreRead
  <2>4. q = Below(e, d)
    BY <2>2, <2>3
  <2>5. p.generatedLine + d = m.generatedLine
    BY <1>1, <1>5, <2>1
  <2>6. d \in Int
    OBVIOUS
  <2>7. /\ q \in ParseStates /\ q.digits = e.digits /\ q.line = e.line + d /\ q.column = 0
    BY <2>4, <2>6, BelowType
  <2>8. /\ q.failed = e.failed /\ q.source = e.source /\ q.originalLine = e.originalLine
        /\ q.originalColumn = e.originalColumn /\ q.name = e.name /\ q.mappings = e.mappings
    BY <2>4, <2>6, BelowKeeps
  <2>. HIDE DEF q
  <2>9. q.line = m.generatedLine
    BY <1>4, <2>5, <2>7
  <2>. QED BY <1>2, <1>3, <1>4, <1>8, <2>2, <2>7, <2>8, <2>9 DEF q
<1>. QED BY <1>9, <1>10

\* One element more.
LEMMA RangeOfAppend ==
  ASSUME NEW S, NEW s \in Seq(S), NEW x \in S
  PROVE  Range(Append(s, x)) = Range(s) \cup {x}
<1>. DEFINE t == Append(s, x)
<1>1. /\ t \in Seq(S) /\ Len(t) = Len(s) + 1 /\ t[Len(s) + 1] = x
      /\ \A i \in 1..Len(s) : t[i] = s[i]
  BY AppendProperties
<1>2. DOMAIN s = 1..Len(s) /\ DOMAIN t = 1..(Len(s) + 1) /\ Len(s) \in Nat
  BY <1>1
<1>. HIDE DEF t
<1>3. Range(t) = Range(s) \cup {x}
  BY <1>1, <1>2 DEF Range
<1>. QED BY <1>3 DEF t

\* What is written of a mapping without an origin, and of one that has one.
LEMMA BareIsWritten ==
  ASSUME NEW g, NEW m \in Lines, m.source = Null
  PROVE  /\ Written(g, m) \in Bare
         /\ Mapping(m.generatedLine, m.generatedColumn, Null, Null, Null, Null) = Written(g, m)
BY ToldIs DEF Written

\* It is read with its indices.
LEMMA SourcedIsWritten ==
  ASSUME NEW g, NEW m \in Lines, m.source # Null, NEW s \in Int, s = IndexOf(g.sources, m.source),
         NEW n \in Int \cup {Null}, n = IF m.name = Null THEN Null ELSE IndexOf(g.names, m.name)
  PROVE  Written(g, m) = Mapping(m.generatedLine, m.generatedColumn, s,
                                 Num(m.originalLine), Num(m.originalColumn), n)
<1>1. PICK t : t = Told(m)
  BY Zenon
<1>2. PICK l \in Int, c \in Int : l = Num(m.originalLine) /\ c = Num(m.originalColumn)
  BY ToldIs
<1>3. t \in Sourced /\ t = Mapping(m.generatedLine, m.generatedColumn, m.source, l, c, m.name)
  BY <1>1, <1>2, ToldIs
<1>4. t.source = m.source /\ t.name = m.name
  BY <1>3 DEF Mapping
<1>5. Written(g, m) = [t EXCEPT !.source = s, !.name = n]
  BY <1>1, <1>4, Zenon DEF Written
<1>. QED BY <1>2, <1>3, <1>5 DEF Mapping

\* One mapping more.
LEMMA OneMoreIsWritten ==
  ASSUME NEW g, NEW i \in Nat, i > 0
  PROVE  {Written(g, g.array[j]) : j \in 1..i}
           = {Written(g, g.array[j]) : j \in 1..(i-1)} \cup {Written(g, g.array[i])}
<1>1. 1..i = (1..(i-1)) \cup {i}
  OBVIOUS
<1>. QED BY <1>1

\* A mapping that is skipped is like the one before.
LEMMA SkippedFollows ==
  ASSUME NEW g, WellMade(g), NEW i \in DOMAIN g.array, NEW p, Follows(g, p, i - 1), Skips(g, p, i)
  PROVE  Follows(g, p, i)
<1>1. g.array \in Seq(Lines)
  BY DEF WellMade
<1>2. i \in Nat /\ i > 1 /\ i - 1 \in DOMAIN g.array /\ i - 1 # 0 /\ i # 0
  <2>1. i > 1
    BY DEF Skips
  <2>. QED BY <1>1, <2>1
<1>3. g.array[i] \in Lines /\ g.array[i-1] \in Lines
  BY <1>1, <1>2
<1>4. /\ Told(g.array[i]) = Told(g.array[i-1]) /\ g.array[i].source = g.array[i-1].source
      /\ g.array[i].generatedLine = g.array[i-1].generatedLine
  BY <1>3, EqualIs DEF Skips
<1>5. Written(g, g.array[i]) \in {Written(g, g.array[j]) : j \in 1..(i-1)}
  <2>1. i - 1 \in 1..(i-1)
    BY <1>2
  <2>2. Written(g, g.array[i]) = Written(g, g.array[i-1])
    <3>1. PICK k, l : k = g.array[i] /\ l = g.array[i-1]
      BY Zenon
    <3>2. \A k0 \in Lines : /\ Told(k0).source = k0.source /\ (k0.source # Null => Told(k0).name = k0.name)
      BY ToldIs DEF Mapping
    <3>3. k.source = l.source /\ Told(k) = Told(l)
      BY <1>4, <3>1
    <3>. QED BY <3>1, <3>3, Zenon DEF Written
  <2>. QED BY <2>1, <2>2
<1>6. {Written(g, g.array[j]) : j \in 1..i} = {Written(g, g.array[j]) : j \in 1..(i-1)}
  <2>1. i > 0
    BY <1>2
  <2>. QED BY <1>2, <1>5, <2>1, OneMoreIsWritten
<1>. QED BY <1>2, <1>4, <1>6 DEF Follows

\* Digits after a text that ends with separators.
LEMMA DigitsFollow ==
  ASSUME NEW t \in Seq(Int), NEW s \in Seq(Int), NEW x \in Seq(Int)
  PROVE  Folded(ParseStep, Parsing, (t \o s) \o x)
           = Folded(ParseStep, Folded(ParseStep, Folded(ParseStep, Parsing, t), s), x)
<1>1. t \o s \in Seq(Int)
  OBVIOUS
<1>2. Folded(ParseStep, Parsing, (t \o s) \o x) = Folded(ParseStep, Folded(ParseStep, Parsing, t \o s), x)
  <2>1. PICK ts \in Seq(Int) : ts = t \o s
    BY <1>1, Zenon
  <2>2. Folded(ParseStep, Parsing, ts \o x) = Folded(ParseStep, Folded(ParseStep, Parsing, ts), x)
    BY ParsingType, ParseSteps, FoldedConcat
  <2>. QED BY <2>1, <2>2
<1>3. Folded(ParseStep, Parsing, t \o s) = Folded(ParseStep, Folded(ParseStep, Parsing, t), s)
  BY ParsingType, ParseSteps, FoldedConcat
<1>. QED BY <1>2, <1>3

\* A mapping without an origin is written and read.
LEMMA BareFollows ==
  ASSUME NEW g, WellMade(g), NEW i \in DOMAIN g.array, NEW p, Follows(g, p, i - 1), ~Skips(g, p, i),
         g.array[i].source = Null
  PROVE  Follows(g, SerializeMapping(g, p, i), i)
<1>1. PICK m \in Lines : m = g.array[i] /\ m.source = Null
  BY LineIs
<1>2. PICK r \in Previouses : r = SerializeMapping(g, p, i)
  BY SerializedIs, WellMadeIs DEF Follows
<1>3. /\ r.generatedLine = m.generatedLine /\ r.generatedColumn = m.generatedColumn
      /\ r.text = Started(g, p, i) /\ r.source = p.source /\ r.originalLine = p.originalLine
      /\ r.originalColumn = p.originalColumn /\ r.name = p.name
  BY <1>1, <1>2, SerializedIs, WellMadeIs DEF Follows
<1>4. p \in Previouses /\ p.text \in Seq(Int) /\ Separators(m, p, i) \in Seq(Int)
  BY <1>1, StartedType, WellMadeIs DEF Follows, Previouses
<1>5. PICK e : e = Parse(p.text)
  BY Zenon
<1>6. PICK q \in ParseStates :
        /\ q = Folded(ParseStep, Folded(ParseStep, Parsing, p.text), Separators(m, p, i))
        /\ ~q.failed /\ q.digits = << >> /\ q.line = m.generatedLine
        /\ q.column = StartColumn(m, p) /\ q.source = e.source /\ q.originalLine = e.originalLine
        /\ q.originalColumn = e.originalColumn /\ q.name = e.name /\ q.mappings = e.mappings
        /\ StartColumn(m, p) \in Short
  BY <1>1, <1>5, SeparatorsAreRead
<1>7. m.generatedColumn \in Short
  BY <1>1, LineIs
<1>8. PICK c \in Numbers : c = m.generatedColumn - StartColumn(m, p)
  BY <1>6, <1>7, ShortIs, DifferenceIs
<1>9. q.column + c = m.generatedColumn
  <2>1. PICK b \in Int, k \in Int : b = StartColumn(m, p) /\ k = m.generatedColumn
    BY <1>6, <1>7, ShortIs, Zenon
  <2>2. b + (k - b) = k
    OBVIOUS
  <2>. QED BY <1>6, <1>8, <2>1, <2>2, Zenon
<1>10. PICK v : Holds(Encode(c), v, 1) /\ v[1] = c
  BY OneIsHeld
<1>11. r.text = (p.text \o Separators(m, p, i)) \o Encode(c) /\ r.text \in Seq(Int) /\ Encode(c) \in Seq(Int)
  <2>1. Encode(c) \in Seq(Nat)
    BY <1>10 DEF Holds
  <2>2. Encode(c) \in Seq(Int)
    BY <2>1
  <2>. QED BY <1>1, <1>3, <1>8, <2>2, Zenon DEF Started, Previouses
<1>12. Parse(r.text) = EndSegment(Folded(ParseStep, q, Encode(c)))
  <2>1. Parse(r.text) = EndSegment(Folded(ParseStep, Parsing, r.text))
    BY <1>11, ParseType
  <2>2. Folded(ParseStep, Parsing, (p.text \o Separators(m, p, i)) \o Encode(c))
          = Folded(ParseStep, Folded(ParseStep, Folded(ParseStep, Parsing, p.text), Separators(m, p, i)), Encode(c))
    BY <1>4, <1>11, DigitsFollow
  <2>. QED BY <1>6, <1>11, <2>1, <2>2, Zenon
<1>13. PICK d \in ParseStates : d = EndSegment(Folded(ParseStep, q, Encode(c)))
  <2>1. EndSegment(Folded(ParseStep, q, Encode(c))) \in ParseStates
    BY <1>6, <1>10, SegmentIsRead
  <2>. QED BY <2>1, Zenon
<1>14. /\ ~d.failed /\ d.digits = << >> /\ d.line = q.line /\ d.column = q.column + v[1]
       /\ d.source = q.source /\ d.originalLine = q.originalLine
       /\ d.originalColumn = q.originalColumn /\ d.name = q.name
       /\ d.mappings = Append(q.mappings, Mapping(q.line, q.column + v[1], Null, Null, Null, Null))
  BY <1>6, <1>10, <1>13, SegmentIsRead
<1>15. /\ Written(g, m) \in Bare
       /\ Mapping(q.line, q.column + v[1], Null, Null, Null, Null) = Written(g, m)
  BY <1>1, <1>6, <1>9, <1>10, BareIsWritten
<1>16. Range(d.mappings) = Range(e.mappings) \cup {Written(g, m)}
  <2>1. q.mappings \in Seq(Entries) /\ Written(g, m) \in Entries
    BY <1>15 DEF ParseStates, Entries
  <2>2. d.mappings = Append(q.mappings, Written(g, m))
    BY <1>14, <1>15
  <2>. QED BY <1>6, <2>1, <2>2, RangeOfAppend
<1>17. i \in Nat /\ i > 0 /\ i # 0
  BY DEF WellMade
<1>18. Range(d.mappings) = {Written(g, g.array[j]) : j \in 1..i}
  BY <1>1, <1>5, <1>15, <1>16, <1>17, OneMoreIsWritten DEF Follows
<1>19. /\ e.source = p.source /\ e.originalLine = p.originalLine /\ e.originalColumn = p.originalColumn
       /\ e.name = p.name /\ p.source \in Short /\ p.originalLine + 1 \in Short
       /\ p.originalColumn \in Short /\ p.name \in Short
  BY <1>5 DEF Follows
<1>20. Parse(r.text) = d
  BY <1>12, <1>13
<1>21. /\ d.line = r.generatedLine /\ d.column = r.generatedColumn /\ d.source = r.source
       /\ d.originalLine = r.originalLine /\ d.originalColumn = r.originalColumn /\ d.name = r.name
  BY <1>3, <1>6, <1>9, <1>10, <1>14, <1>19
<1>. QED BY <1>1, <1>2, <1>3, <1>7, <1>14, <1>17, <1>18, <1>19, <1>20, <1>21 DEF Follows

\* A text of digits, and three of them in whichever order they are put together.
Text(s) == s \in Seq(Nat)
Three(a, b, d) == Text(a \o b) /\ (a \o b) \o d = a \o (b \o d)

\* The order does not matter.
LEMMA ThreeTexts ==
  ASSUME NEW a, NEW b, NEW d, Text(a), Text(b), Text(d)
  PROVE  Three(a, b, d)
<1>1. a \in Seq(Nat) /\ b \in Seq(Nat) /\ d \in Seq(Nat)
  BY DEF Text
<1>2. a \o b \in Seq(Nat)
  BY <1>1
<1>3. (a \o b) \o d = a \o (b \o d)
  BY <1>1, ConcatAssociative
<1>. QED BY <1>2, <1>3 DEF Three, Text

\* The digits of a mapping, in the order in which they are read.
LEMMA FieldsAre ==
  ASSUME NEW c, NEW s, NEW l, NEW o, NEW n, Text(c), Text(s), Text(l), Text(o), Text(n)
  PROVE  /\ c \o (((s \o l) \o o) \o n) = (((c \o s) \o l) \o o) \o n
         /\ Text(c \o (((s \o l) \o o) \o n))
<1>1. PICK sl, slo, f : sl = s \o l /\ slo = sl \o o /\ f = slo \o n
  BY Zenon
<1>2. Three(s, l, o)
  BY ThreeTexts, Zenon
<1>3. Text(sl)
  BY <1>1, <1>2, Zenon DEF Three
<1>4. Three(sl, o, n)
  BY <1>3, ThreeTexts, Zenon
<1>5. Text(slo)
  BY <1>1, <1>4, Zenon DEF Three
<1>6. Three(slo, n, n)
  BY <1>5, ThreeTexts, Zenon
<1>7. Text(f)
  BY <1>1, <1>6, Zenon DEF Three
<1>8. Three(c, f, n)
  BY <1>7, ThreeTexts, Zenon
<1>9. Three(c, slo, n)
  BY <1>5, ThreeTexts, Zenon
<1>10. Three(c, sl, o)
  BY <1>3, ThreeTexts, Zenon
<1>11. Three(c, s, l)
  BY ThreeTexts, Zenon
<1>. QED BY <1>1, <1>8, <1>9, <1>10, <1>11, Zenon DEF Three

\* The numbers of a mapping with an origin, and their digits.
LEMMA SourcedIsHeld ==
  ASSUME NEW g, WellMade(g), NEW i \in DOMAIN g.array, g.array[i].source # Null,
         NEW p, Follows(g, p, i - 1), StartColumn(g.array[i], p) \in Short
  PROVE  LET m == g.array[i]
             x == Encode(m.generatedColumn - StartColumn(m, p)) \o OriginalFields(g, m, p)
         IN  /\ x \in Seq(Nat)
             /\ \E v : /\ Holds(x, v, IF m.name = Null THEN 4 ELSE 5)
                       /\ v[1] = m.generatedColumn - StartColumn(m, p)
                       /\ v[2] = IndexOf(g.sources, m.source) - p.source
                       /\ v[3] = Num(m.originalLine) - 1 - p.originalLine
                       /\ v[4] = Num(m.originalColumn) - p.originalColumn
                       /\ m.name # Null => v[5] = IndexOf(g.names, m.name) - p.name
<1>. DEFINE m == g.array[i]
<1>1. /\ m.generatedColumn \in Short /\ IndexOf(g.sources, m.source) \in Short
      /\ Num(m.originalLine) \in Short /\ Num(m.originalColumn) \in Short
      /\ m.name # Null => IndexOf(g.names, m.name) \in Short
  BY LineIs
<1>2. /\ p.source \in Short /\ p.originalLine + 1 \in Short /\ p.originalColumn \in Short /\ p.name \in Short
      /\ p \in Previouses
  BY DEF Follows
<1>3. p.originalLine \in Int
  BY <1>2 DEF Previouses
<1>. HIDE DEF m
<1>4. PICK c \in Numbers, s \in Numbers, l \in Numbers, o \in Numbers :
        /\ c = m.generatedColumn - StartColumn(m, p)
        /\ s = IndexOf(g.sources, m.source) - p.source
        /\ l = Num(m.originalLine) - 1 - p.originalLine
        /\ o = Num(m.originalColumn) - p.originalColumn
  <2>1. \A a, b \in Short : a - b \in Numbers
    BY ShortIs, DifferenceIs
  <2>2. Num(m.originalLine) - 1 - p.originalLine \in Numbers
    <3>1. Num(m.originalLine) \in Int
      BY <1>1, ShortIs
    <3>2. PICK a \in Int, b \in Int : a = Num(m.originalLine) - 1 /\ b = p.originalLine
      BY <1>3, <3>1
    <3>3. a + 1 = Num(m.originalLine)
      BY <3>1, <3>2
    <3>4. a - b \in Numbers
      BY <1>1, <1>2, <3>2, <3>3, DifferenceIs
    <3>. QED BY <3>2, <3>4
  <2>3. StartColumn(m, p) \in Short
    BY DEF m
  <2>4. /\ m.generatedColumn - StartColumn(m, p) \in Numbers
        /\ IndexOf(g.sources, m.source) - p.source \in Numbers
        /\ Num(m.originalColumn) - p.originalColumn \in Numbers
    BY <1>1, <1>2, <2>1, <2>3
  <2>. QED BY <2>2, <2>4, Zenon
<1>5. /\ Encode(c) \in Seq(Nat) /\ Encode(s) \in Seq(Nat) /\ Encode(l) \in Seq(Nat) /\ Encode(o) \in Seq(Nat)
  BY AnyEncodeType DEF Numbers
<1>6. PICK v : /\ Holds(((Encode(c) \o Encode(s)) \o Encode(l)) \o Encode(o), v, 4)
               /\ v[1] = c /\ v[2] = s /\ v[3] = l /\ v[4] = o
  BY FourAreHeld
<1>7. PICK n : n = IF m.name = Null THEN << >> ELSE Encode(IndexOf(g.names, m.name) - p.name)
  BY Zenon
<1>8. OriginalFields(g, m, p) = ((Encode(s) \o Encode(l)) \o Encode(o)) \o n
  BY <1>4, <1>7, Zenon DEF OriginalFields
<1>9. CASE m.name = Null
  <2>1. n = << >> /\ n \in Seq(Nat)
    BY <1>7, <1>9
  <2>2. PICK y \in Seq(Nat) : y = ((Encode(c) \o Encode(s)) \o Encode(l)) \o Encode(o)
    BY <1>6 DEF Holds
  <2>3. y \o << >> = y
    BY <2>2, ConcatEmptySeq
  <2>4. Encode(c) \o OriginalFields(g, m, p) = y /\ Encode(c) \o OriginalFields(g, m, p) \in Seq(Nat)
    <3>1. Text(Encode(c)) /\ Text(Encode(s)) /\ Text(Encode(l)) /\ Text(Encode(o)) /\ Text(n)
      BY <1>5, <2>1 DEF Text
    <3>2. /\ Encode(c) \o (((Encode(s) \o Encode(l)) \o Encode(o)) \o n)
               = (((Encode(c) \o Encode(s)) \o Encode(l)) \o Encode(o)) \o n
          /\ Text(Encode(c) \o (((Encode(s) \o Encode(l)) \o Encode(o)) \o n))
      BY <3>1, FieldsAre, Zenon
    <3>. QED BY <1>8, <2>1, <2>2, <2>3, <3>2, Zenon DEF Text
  <2>5. Holds(Encode(c) \o OriginalFields(g, m, p), v, 4)
    BY <1>6, <2>2, <2>4
  <2>. QED BY <1>4, <1>6, <1>9, <2>4, <2>5 DEF m
<1>10. CASE m.name # Null
  <2>1. PICK k \in Numbers : k = IndexOf(g.names, m.name) - p.name
    BY <1>1, <1>2, <1>10, ShortIs, DifferenceIs
  <2>2. n = Encode(k) /\ n \in Seq(Nat)
    BY <1>7, <1>10, <2>1, AnyEncodeType DEF Numbers
  <2>3. PICK w : /\ Holds((((Encode(c) \o Encode(s)) \o Encode(l)) \o Encode(o)) \o Encode(k), w, 5) /\ w[5] = k
                /\ w[1] = v[1] /\ w[2] = v[2] /\ w[3] = v[3] /\ w[4] = v[4]
    BY <1>6, FifthIsHeld
  <2>4. /\ Encode(c) \o OriginalFields(g, m, p) = (((Encode(c) \o Encode(s)) \o Encode(l)) \o Encode(o)) \o Encode(k)
        /\ Encode(c) \o OriginalFields(g, m, p) \in Seq(Nat)
    <3>1. Text(Encode(c)) /\ Text(Encode(s)) /\ Text(Encode(l)) /\ Text(Encode(o)) /\ Text(n)
      BY <1>5, <2>2 DEF Text
    <3>2. /\ Encode(c) \o (((Encode(s) \o Encode(l)) \o Encode(o)) \o n)
               = (((Encode(c) \o Encode(s)) \o Encode(l)) \o Encode(o)) \o n
          /\ Text(Encode(c) \o (((Encode(s) \o Encode(l)) \o Encode(o)) \o n))
      BY <3>1, FieldsAre, Zenon
    <3>. QED BY <1>8, <2>2, <3>2, Zenon DEF Text
  <2>5. Holds(Encode(c) \o OriginalFields(g, m, p), w, 5)
    BY <2>3, <2>4
  <2>. QED BY <1>4, <1>6, <1>10, <2>1, <2>3, <2>4, <2>5 DEF m
<1>. QED BY <1>9, <1>10

\* The digits of the origin after those of the column.
LEMMA OriginFollows ==
  ASSUME NEW t \in Seq(Int), NEW s \in Seq(Int), NEW x \in Seq(Int), NEW y \in Seq(Int)
  PROVE  Folded(ParseStep, Parsing, ((t \o s) \o x) \o y)
           = Folded(ParseStep, Folded(ParseStep, Folded(ParseStep, Parsing, t), s), x \o y)
<1>1. PICK z \in Seq(Int) : z = (t \o s) \o x
  <2>1. t \o s \in Seq(Int)
    OBVIOUS
  <2>2. (t \o s) \o x \in Seq(Int)
    BY <2>1
  <2>. QED BY <2>2, Zenon
<1>2. Folded(ParseStep, Parsing, z \o y) = Folded(ParseStep, Folded(ParseStep, Parsing, z), y)
  BY ParsingType, ParseSteps, FoldedConcat
<1>3. Folded(ParseStep, Parsing, z) = Folded(ParseStep, Folded(ParseStep, Folded(ParseStep, Parsing, t), s), x)
  BY <1>1, DigitsFollow
<1>4. Folded(ParseStep, Parsing, t) \in ParseStates
  BY ParsingType, ParseSteps, FoldedType
<1>5. PICK q \in ParseStates : q = Folded(ParseStep, Folded(ParseStep, Parsing, t), s)
  <2>1. Folded(ParseStep, Folded(ParseStep, Parsing, t), s) \in ParseStates
    BY <1>4, ParseSteps, FoldedType
  <2>. QED BY <2>1, Zenon
<1>6. Folded(ParseStep, q, x \o y) = Folded(ParseStep, Folded(ParseStep, q, x), y)
  BY ParseSteps, FoldedConcat
<1>. QED BY <1>1, <1>2, <1>3, <1>5, <1>6, Zenon

\* A number and the difference to another is that other.
LEMMA DifferenceAdds ==
  \A a, b \in Int : a + (b - a) = b
OBVIOUS

\* What the digits of a place with an origin leave of the state between segments.
IsPlaced(r, q, v, n, name) ==
  /\ ~r.failed /\ r.digits = << >> /\ r.line = q.line /\ r.column = q.column + v[1]
  /\ r.source = q.source + v[2] /\ r.originalLine = q.originalLine + v[3]
  /\ r.originalColumn = q.originalColumn + v[4] /\ r.name = name
  /\ r.mappings =
       Append(q.mappings, Mapping(q.line, q.column + v[1], q.source + v[2],
                q.originalLine + v[3] + 1, q.originalColumn + v[4], IF n = 5 THEN name ELSE Null))

\* They are read that way.
LEMMA OriginIsRead ==
  ASSUME NEW q \in ParseStates, ~q.failed, q.digits = << >>,
         NEW x, NEW v, NEW n \in {4, 5}, Holds(x, v, n),
         NEW r, r = EndSegment(Folded(ParseStep, q, x)),
         NEW name, name = IF n = 5 THEN q.name + v[5] ELSE q.name
  PROVE  IsPlaced(r, q, v, n, name)
<1>1. n \in {1, 4, 5} /\ n # 1
  OBVIOUS
<1>. QED BY <1>1, SegmentIsRead DEF IsPlaced

\* A mapping with an origin is written and read.
LEMMA SourcedFollows ==
  ASSUME NEW g, WellMade(g), NEW i \in DOMAIN g.array, NEW p, Follows(g, p, i - 1), ~Skips(g, p, i),
         g.array[i].source # Null
  PROVE  Follows(g, SerializeMapping(g, p, i), i)
<1>1. PICK m \in Lines : m = g.array[i] /\ m.source # Null
  BY LineIs, Zenon
<1>2. PICK r \in Previouses : r = SerializeMapping(g, p, i)
  BY SerializedIs, WellMadeIs DEF Follows
<1>3. /\ r.generatedLine = m.generatedLine /\ r.generatedColumn = m.generatedColumn
      /\ r.text = Started(g, p, i) \o OriginalFields(g, m, p)
      /\ r.source = IndexOf(g.sources, m.source) /\ r.originalLine = Num(m.originalLine) - 1
      /\ r.originalColumn = Num(m.originalColumn)
      /\ r.name = IF m.name = Null THEN p.name ELSE IndexOf(g.names, m.name)
  BY <1>1, <1>2, SerializedIs, WellMadeIs DEF Follows
<1>4. p \in Previouses /\ p.text \in Seq(Int) /\ Separators(m, p, i) \in Seq(Int)
  BY <1>1, StartedType, WellMadeIs DEF Follows, Previouses
<1>5. PICK e : e = Parse(p.text)
  BY Zenon
<1>6. PICK q \in ParseStates :
        /\ q = Folded(ParseStep, Folded(ParseStep, Parsing, p.text), Separators(m, p, i))
        /\ ~q.failed /\ q.digits = << >> /\ q.line = m.generatedLine
        /\ q.column = StartColumn(m, p) /\ q.source = e.source /\ q.originalLine = e.originalLine
        /\ q.originalColumn = e.originalColumn /\ q.name = e.name /\ q.mappings = e.mappings
        /\ StartColumn(m, p) \in Short
  BY <1>1, <1>5, SeparatorsAreRead
<1>7. /\ m.generatedColumn \in Short /\ IndexOf(g.sources, m.source) \in Short
      /\ Num(m.originalLine) \in Short /\ Num(m.originalColumn) \in Short
      /\ m.name # Null => IndexOf(g.names, m.name) \in Short
  BY <1>1, LineIs
<1>8. /\ e.source = p.source /\ e.originalLine = p.originalLine /\ e.originalColumn = p.originalColumn
      /\ e.name = p.name /\ p.source \in Short /\ p.originalLine + 1 \in Short
      /\ p.originalColumn \in Short /\ p.name \in Short
  BY <1>5 DEF Follows
<1>9. PICK c : c = m.generatedColumn - StartColumn(m, p)
  BY Zenon
<1>10. PICK x \in Seq(Nat) : x = Encode(c) \o OriginalFields(g, m, p)
  BY <1>1, <1>6, <1>9, SourcedIsHeld
<1>11. PICK k \in {4, 5} : k = IF m.name = Null THEN 4 ELSE 5
  OBVIOUS
<1>12. PICK v : /\ Holds(x, v, k) /\ v[1] = m.generatedColumn - StartColumn(m, p)
                /\ v[2] = IndexOf(g.sources, m.source) - p.source
                /\ v[3] = Num(m.originalLine) - 1 - p.originalLine /\ v[4] = Num(m.originalColumn) - p.originalColumn
                /\ m.name # Null => v[5] = IndexOf(g.names, m.name) - p.name
  BY <1>1, <1>6, <1>9, <1>10, <1>11, SourcedIsHeld
<1>13. Parse(r.text) = EndSegment(Folded(ParseStep, q, x))
  <2>1. Encode(c) \in Seq(Int) /\ OriginalFields(g, m, p) \in Seq(Int) /\ r.text \in Seq(Int)
    <3>1. c \in Int
      BY <1>1, <1>4, <1>9, StartedType, WellMadeIs
    <3>2. Encode(c) \in Seq(Nat) /\ OriginalFields(g, m, p) \in Seq(Nat)
      BY <1>1, <1>4, <3>1, AnyEncodeType, StartedType, WellMadeIs
    <3>. QED BY <3>2 DEF Previouses
  <2>2. r.text = ((p.text \o Separators(m, p, i)) \o Encode(c)) \o OriginalFields(g, m, p)
    BY <1>1, <1>3, <1>9, Zenon DEF Started
  <2>3. Folded(ParseStep, Parsing, ((p.text \o Separators(m, p, i)) \o Encode(c)) \o OriginalFields(g, m, p))
          = Folded(ParseStep, Folded(ParseStep, Folded(ParseStep, Parsing, p.text), Separators(m, p, i)),
                   Encode(c) \o OriginalFields(g, m, p))
    BY <1>4, <2>1, OriginFollows
  <2>4. Parse(r.text) = EndSegment(Folded(ParseStep, Parsing, r.text))
    BY <2>1, ParseType
  <2>. QED BY <1>6, <1>10, <2>2, <2>3, <2>4, Zenon
<1>14. PICK d \in ParseStates : d = EndSegment(Folded(ParseStep, q, x))
  <2>1. EndSegment(Folded(ParseStep, q, x)) \in ParseStates
    BY <1>6, <1>12, SegmentIsRead
  <2>. QED BY <2>1, Zenon
<1>15. PICK name : name = IF k = 5 THEN q.name + v[5] ELSE q.name
  BY Zenon
<1>16. /\ ~d.failed /\ d.digits = << >> /\ d.line = q.line /\ d.column = q.column + v[1]
       /\ d.source = q.source + v[2] /\ d.originalLine = q.originalLine + v[3]
       /\ d.originalColumn = q.originalColumn + v[4] /\ d.name = name
       /\ d.mappings =
            Append(q.mappings, Mapping(q.line, q.column + v[1], q.source + v[2],
                     q.originalLine + v[3] + 1, q.originalColumn + v[4], IF k = 5 THEN name ELSE Null))
  <2>1. ~q.failed /\ q.digits = << >> /\ Holds(x, v, k)
    BY <1>6, <1>12
  <2>2. IsPlaced(d, q, v, k, name)
    BY <1>14, <1>15, <2>1, OriginIsRead, Zenon
  <2>. QED BY <2>2, Zenon DEF IsPlaced
<1>17. PICK s \in Int, l \in Int : s = IndexOf(g.sources, m.source) /\ l = Num(m.originalLine) - 1
  <2>1. Num(m.originalLine) \in Int /\ IndexOf(g.sources, m.source) \in Int
    BY <1>7, ShortIs
  <2>2. Num(m.originalLine) - 1 \in Int
    BY <2>1
  <2>. QED BY <2>1, <2>2, Zenon
<1>18. /\ q.column + v[1] = m.generatedColumn /\ q.source + v[2] = s
       /\ q.originalLine + v[3] = l /\ q.originalColumn + v[4] = Num(m.originalColumn)
  <2>1. /\ StartColumn(m, p) \in Int /\ p.source \in Int /\ p.originalLine \in Int /\ p.originalColumn \in Int
        /\ m.generatedColumn \in Int /\ Num(m.originalColumn) \in Int
    BY <1>4, <1>6, <1>7, ShortIs DEF Previouses
  <2>2. /\ StartColumn(m, p) + (m.generatedColumn - StartColumn(m, p)) = m.generatedColumn
        /\ p.source + (s - p.source) = s /\ p.originalLine + (l - p.originalLine) = l
        /\ p.originalColumn + (Num(m.originalColumn) - p.originalColumn) = Num(m.originalColumn)
    BY <2>1, DifferenceAdds
  <2>. QED BY <1>6, <1>8, <1>12, <1>17, <2>2, Zenon
<1>19. PICK n \in Int \cup {Null} : n = IF m.name = Null THEN Null ELSE IndexOf(g.names, m.name)
  BY <1>7, ShortIs
<1>20. (IF k = 5 THEN name ELSE Null) = n /\ name = IF m.name = Null THEN p.name ELSE IndexOf(g.names, m.name)
  <2>1. CASE m.name = Null
    <3>1. k # 5
      BY <1>11, <2>1
    <3>. QED BY <1>6, <1>8, <1>15, <1>19, <2>1, <3>1
  <2>2. CASE m.name # Null
    <3>1. k = 5
      BY <1>11, <2>2
    <3>2. PICK a \in Int, b \in Int : a = p.name /\ b = IndexOf(g.names, m.name)
      BY <1>7, <1>8, <2>2, ShortIs
    <3>3. a + (b - a) = b
      BY DifferenceAdds
    <3>4. name = b
      BY <1>6, <1>8, <1>12, <1>15, <2>2, <3>1, <3>2, <3>3, Zenon
    <3>. QED BY <1>19, <2>2, <3>1, <3>2, <3>4
  <2>. QED BY <2>1, <2>2
<1>21. l + 1 = Num(m.originalLine) /\ Num(m.originalLine) \in Short
  <2>1. Num(m.originalLine) \in Int
    BY ToldIs
  <2>. QED BY <1>7, <1>17, <2>1
<1>22. Written(g, m) = Mapping(m.generatedLine, m.generatedColumn, s, Num(m.originalLine), Num(m.originalColumn), n)
  BY <1>1, <1>17, <1>19, SourcedIsWritten
<1>23. d.mappings = Append(q.mappings, Written(g, m))
  BY <1>6, <1>16, <1>18, <1>20, <1>21, <1>22, Zenon
<1>24. Range(d.mappings) = Range(e.mappings) \cup {Written(g, m)}
  <2>1. q.mappings \in Seq(Entries)
    BY DEF ParseStates
  <2>2. Written(g, m) \in Entries
    <3>1. /\ m.generatedLine \in Int /\ m.generatedColumn \in Int
          /\ Num(m.originalLine) \in Int /\ Num(m.originalColumn) \in Int
      BY ToldIs
    <3>2. Mapping(m.generatedLine, m.generatedColumn, s, Num(m.originalLine), Num(m.originalColumn), n) \in Entries
      BY <3>1 DEF Mapping, Entries, Located
    <3>. QED BY <1>22, <3>2
  <2>. QED BY <1>6, <1>23, <2>1, <2>2, RangeOfAppend
<1>25. i \in Nat /\ i > 0 /\ i # 0
  BY DEF WellMade
<1>26. Range(d.mappings) = {Written(g, g.array[j]) : j \in 1..i}
  BY <1>1, <1>5, <1>24, <1>25, OneMoreIsWritten DEF Follows
<1>27. Parse(r.text) = d
  BY <1>13, <1>14
<1>28. /\ d.line = r.generatedLine /\ d.column = r.generatedColumn /\ d.source = r.source
       /\ d.originalLine = r.originalLine /\ d.originalColumn = r.originalColumn /\ d.name = r.name
  BY <1>3, <1>6, <1>16, <1>17, <1>18, <1>20, ZenonT(30)
<1>29. /\ r.generatedColumn \in Short /\ r.source \in Short /\ r.originalLine + 1 \in Short
       /\ r.originalColumn \in Short /\ r.name \in Short
  BY <1>3, <1>7, <1>8, <1>17, <1>21
<1>. QED BY <1>1, <1>2, <1>3, <1>16, <1>25, <1>26, <1>27, <1>28, <1>29 DEF Follows

\* A turn of the loop in _serializeMappings, as a function.
SerializeStep(g) == [x \in Previouses \X DOMAIN g.array |-> SerializeMapping(g, x[1], x[2])]

\* The loop goes from one state to another.
LEMMA SerializeSteps ==
  ASSUME NEW g, IsMade(g)
  PROVE  IsStep(SerializeStep(g), Previouses, DOMAIN g.array)
<1>1. ASSUME NEW p \in Previouses, NEW i \in DOMAIN g.array
      PROVE  SerializeStep(g)[<<p, i>>] = SerializeMapping(g, p, i) /\ SerializeMapping(g, p, i) \in Previouses
  BY SerializedIs DEF SerializeStep
<1>. QED BY <1>1 DEF IsStep, SerializeStep

\* The fold in _serializeMappings.
LEMMA SerializedIsFolded ==
  ASSUME NEW g, NEW D, NEW step, IsStep(step, Previouses, D), NEW base \in Previouses, base = Previous,
         NEW seq \in Seq(D), seq = [i \in DOMAIN g.array |-> i],
         \A p \in Previouses, i \in D : step[<<p, i>>] = SerializeMapping(g, p, i)
  PROVE  SerializeMappings(g) = Folded(step, base, seq).text
<1>. DEFINE Is(h) == h = [s \in SUBSET DOMAIN seq |->
                       IF s = {} THEN base ELSE SerializeMapping(g, h[s \ {Greatest(s)}], seq[Greatest(s)])]
            iter == CHOOSE h : Is(h)
<1>1. SerializeMappings(g) = iter[DOMAIN seq].text
  BY DEF SerializeMappings, FoldLeftDomain, FoldLeft, MapThenFoldSet, Max, Greatest
<1>2. PICK f : IsFold(f, Previouses, step, base, seq)
  BY IsFoldExists
<1>3. Is(f)
  <2>1. /\ f = [s \in SUBSET DOMAIN seq |->
                  IF s = {} THEN base ELSE step[<<f[s \ {Greatest(s)}], seq[Greatest(s)]>>]]
        /\ \A s \in SUBSET DOMAIN seq :
             s # {} => f[s \ {Greatest(s)}] \in Previouses /\ seq[Greatest(s)] \in D
    BY ONLY <1>2, IsStep(step, Previouses, D), base \in Previouses, seq \in Seq(D), FoldTypes
  <2>2. \A s \in SUBSET DOMAIN seq : s # {} =>
          step[<<f[s \ {Greatest(s)}], seq[Greatest(s)]>>]
            = SerializeMapping(g, f[s \ {Greatest(s)}], seq[Greatest(s)])
    BY <2>1
  <2>. QED BY <2>1, <2>2, Zenon
<1>4. Is(iter)
  BY <1>3
<1>. HIDE DEF iter
<1>5. ASSUME NEW i \in 1..Len(seq), iter[1..(i-1)] \in Previouses
      PROVE  iter[1..i] = step[<<iter[1..(i-1)], seq[i]>>]
  <2>1. /\ 1..i # {} /\ Greatest(1..i) = i /\ (1..i) \ {i} = 1..(i-1)
        /\ 1..i \in SUBSET DOMAIN seq /\ seq[i] \in D
    BY FoldIndices
  <2>2. iter[1..i] = SerializeMapping(g, iter[1..(i-1)], seq[i])
    <3>1. PICK s \in SUBSET DOMAIN seq : s = 1..i
      BY <2>1
    <3>2. iter[s] = SerializeMapping(g, iter[s \ {Greatest(s)}], seq[Greatest(s)])
      BY <1>4, <2>1, <3>1, ZenonT(30)
    <3>. QED BY <2>1, <3>1, <3>2, Zenon
  <2>. QED BY <1>5, <2>1, <2>2
<1>6. iter[{}] = base
  BY <1>4
<1>7. Iterates(iter, Previouses, step, base, seq)
  BY <1>5, <1>6 DEF Iterates
<1>8. iter[1..Len(seq)] = Folded(step, base, seq)
  BY ONLY <1>7, IsStep(step, Previouses, D), base \in Previouses, seq \in Seq(D), FoldIsFolded
<1>9. DOMAIN seq = 1..Len(seq)
  OBVIOUS
<1>. QED BY <1>1, <1>8, <1>9

\* One mapping more is written and read.
LEMMA OneMoreFollows ==
  ASSUME NEW g, WellMade(g), NEW i \in DOMAIN g.array, NEW p, Follows(g, p, i - 1)
  PROVE  Follows(g, SerializeMapping(g, p, i), i)
<1>1. CASE Skips(g, p, i)
  <2>1. SerializeMapping(g, p, i) = p
    BY <1>1, SerializedIs, WellMadeIs DEF Follows
  <2>. QED BY <1>1, <2>1, SkippedFollows
<1>2. CASE ~Skips(g, p, i)
  BY <1>2, BareFollows, SourcedFollows
<1>. QED BY <1>1, <1>2

\* All of them are.
LEMMA AllFollow ==
  ASSUME NEW g, WellMade(g)
  PROVE  Follows(g, Folded(SerializeStep(g), Previous, [i \in DOMAIN g.array |-> i]), Len(g.array))
<1>. DEFINE Upto(n) == [i \in 1..n |-> i]
            P == {n \in Nat : n <= Len(g.array) => Follows(g, Folded(SerializeStep(g), Previous, Upto(n)), n)}
<1>1. DOMAIN g.array = 1..Len(g.array) /\ Len(g.array) \in Nat
  BY DEF WellMade
<1>2. Previous \in Previouses
  BY PreviousFollows DEF Follows
<1>3. 0 \in P
  <2>1. Upto(0) = << >>
    OBVIOUS
  <2>2. Folded(SerializeStep(g), Previous, Upto(0)) = Previous
    BY <1>2, <2>1, SerializeSteps, WellMadeIs, FoldedNone
  <2>. QED BY <2>2, PreviousFollows
<1>4. ASSUME NEW n \in Nat, n \in P PROVE n + 1 \in P
  <2>1. CASE n + 1 <= Len(g.array)
    <3>1. n + 1 \in DOMAIN g.array /\ n <= Len(g.array) /\ (n + 1) - 1 = n
      BY <1>1, <2>1
    <3>2. Upto(n) \in Seq(DOMAIN g.array) /\ Upto(n + 1) = Append(Upto(n), n + 1)
      BY <1>1, <3>1
    <3>3. PICK p : p = Folded(SerializeStep(g), Previous, Upto(n))
      BY Zenon
    <3>4. Follows(g, p, (n + 1) - 1)
      BY <1>4, <3>1, <3>3
    <3>5. Folded(SerializeStep(g), Previous, Append(Upto(n), n + 1)) = SerializeStep(g)[<<p, n + 1>>]
      <4>1. PICK D, u, step, k : D = DOMAIN g.array /\ u = Upto(n) /\ step = SerializeStep(g) /\ k = n + 1
        BY Zenon
      <4>2. u \in Seq(D) /\ k \in D /\ IsStep(step, Previouses, D)
        BY <3>1, <3>2, <4>1, SerializeSteps, WellMadeIs, Zenon
      <4>3. Folded(step, Previous, Append(u, k)) = step[<<Folded(step, Previous, u), k>>]
        BY <1>2, <4>2, FoldedNext
      <4>. QED BY <3>3, <4>1, <4>3, Zenon
    <3>6. SerializeStep(g)[<<p, n + 1>>] = SerializeMapping(g, p, n + 1)
      BY <3>1, <3>4 DEF SerializeStep, Follows
    <3>7. Follows(g, SerializeMapping(g, p, n + 1), n + 1)
      BY <3>1, <3>4, OneMoreFollows
    <3>8. Follows(g, Folded(SerializeStep(g), Previous, Upto(n + 1)), n + 1)
      BY <3>2, <3>5, <3>6, <3>7, Zenon
    <3>. QED BY <3>8
  <2>. QED BY <2>1
<1>5. Len(g.array) \in P
  <2>. HIDE DEF P
  <2>. QED BY <1>1, <1>3, <1>4, Induction
<1>. QED BY <1>1, <1>5

\* What is written is what the loop ends on.
LEMMA TextIsFolded ==
  ASSUME NEW g, IsMade(g)
  PROVE  SerializeMappings(g) = Folded(SerializeStep(g), Previous, [i \in DOMAIN g.array |-> i]).text
<1>1. [i \in DOMAIN g.array |-> i] \in Seq(DOMAIN g.array)
  BY DEF IsMade
<1>2. Previous \in Previouses
  BY PreviousFollows DEF Follows
<1>3. \A q \in Previouses, i \in DOMAIN g.array : SerializeStep(g)[<<q, i>>] = SerializeMapping(g, q, i)
  BY DEF SerializeStep
<1>4. PICK D, step, seq : D = DOMAIN g.array /\ step = SerializeStep(g) /\ seq = [i \in DOMAIN g.array |-> i]
  BY Zenon
<1>5. /\ IsStep(step, Previouses, D) /\ seq \in Seq(D)
      /\ \A q \in Previouses, i \in D : step[<<q, i>>] = SerializeMapping(g, q, i)
  BY <1>1, <1>3, <1>4, SerializeSteps, Zenon
<1>6. SerializeMappings(g) = Folded(step, Previous, seq).text
  BY <1>2, <1>4, <1>5, SerializedIsFolded
<1>. QED BY <1>4, <1>6, Zenon

(***************************************************************************)
(* What _serializeMappings writes of any generator that is well made, the  *)
(* consumer's _parseMappings reads without an error, and as exactly these  *)
(* mappings: no number changes on the way, none is lost, and none is read  *)
(* that was not there.                                                     *)
(***************************************************************************)
THEOREM TextSurvives ==
  ASSUME NEW g, WellMade(g)
  PROVE  LET out == Parse(SerializeMappings(g))
         IN  ~out.failed /\ Range(out.mappings) = {Written(g, m) : m \in Range(g.array)}
<1>1. PICK p : p = Folded(SerializeStep(g), Previous, [i \in DOMAIN g.array |-> i])
  BY Zenon
<1>2. SerializeMappings(g) = p.text
  BY <1>1, TextIsFolded, WellMadeIs, Zenon
<1>3. Follows(g, p, Len(g.array))
  BY <1>1, AllFollow
<1>4. ~Parse(p.text).failed /\ Range(Parse(p.text).mappings) = {Written(g, g.array[j]) : j \in 1..Len(g.array)}
  BY <1>3 DEF Follows
<1>5. {Written(g, g.array[j]) : j \in 1..Len(g.array)} = {Written(g, m) : m \in Range(g.array)}
  BY DEF WellMade, Range
<1>. QED BY <1>2, <1>4, <1>5

===============================================================================
