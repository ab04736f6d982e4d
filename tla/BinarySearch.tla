----------------------------- MODULE BinarySearch ------------------------------
(***************************************************************************)
(* binarySearch.search: where in a sorted array of positions a needle is,  *)
(* or its neighbour below or above.  A position is a source, a line and a  *)
(* column; what else a mapping holds is not compared in a search.  Indices *)
(* are from 1, and 0 stands for the -1 of the code.  One step is one call  *)
(* of recursiveSearch, or one turn of the loop that follows it.            *)
(***************************************************************************)
EXTENDS Integers, Sequences

VARIABLES
  haystack,  \* the positions that are searched
  needle,
  bias,      \* GREATEST_LOWER_BOUND or LEAST_UPPER_BOUND
  low,       \* aLow: here and lower the needle is not
  high,      \* aHigh: here and higher neither
  index,     \* what recursiveSearch has returned
  turn       \* where the search is

searchVars == <<haystack, needle, bias, low, high, index, turn>>

Biases == {"GREATEST_LOWER_BOUND", "LEAST_UPPER_BOUND"}
Positions == Int \X Int \X Int

\* The comparators with onlyCompareOriginal or onlyCompareGenerated.
ComparePositions(p, q) ==
  IF p[1] # q[1] THEN p[1] - q[1]
  ELSE IF p[2] # q[2] THEN p[2] - q[2] ELSE p[3] - q[3]

IsAscending(s) ==
  \A i, j \in 1..Len(s) : i < j => ComparePositions(s[i], s[j]) <= 0

SearchTypeOK ==
  /\ haystack \in Seq(Positions)
  /\ needle \in Positions
  /\ bias \in Biases
  /\ low \in 0..Len(haystack) /\ high \in 0..Len(haystack)+1
  /\ index \in 0..Len(haystack)
  /\ turn \in {"idle", "halve", "back", "done"}

SearchInit ==
  /\ haystack = <<>> /\ needle = <<0, 0, 0>> /\ bias = "GREATEST_LOWER_BOUND"
  /\ low = 0 /\ high = 0 /\ index = 0 /\ turn = "idle"

\* search is called; nothing is found in an empty array.
Search(p, h, b) ==
  /\ turn = "idle"
  /\ needle' = p /\ haystack' = h /\ bias' = b
  /\ low' = 0 /\ high' = Len(h) + 1 /\ index' = 0
  /\ turn' = IF h = <<>> THEN "done" ELSE "halve"

Mid == (high - low) \div 2 + low

Found(i) ==
  /\ index' = i /\ turn' = (IF i = 0 THEN "done" ELSE "back")
  /\ UNCHANGED <<haystack, needle, bias, low, high>>

\* Mutant: below the needle the upper neighbour is returned whatever the bias.
AboveMidUpwards ==
  IF high - Mid > 1
    THEN low' = Mid /\ UNCHANGED <<haystack, needle, bias, high, index, turn>>
    ELSE Found(IF high <= Len(haystack) THEN high ELSE 0)

\* Mutant: the upper half is entered even when nothing is between mid and high.
AboveMidAgain ==
  IF high - Mid >= 1
    THEN low' = Mid /\ UNCHANGED <<haystack, needle, bias, high, index, turn>>
    ELSE Found(IF bias = "GREATEST_LOWER_BOUND" THEN Mid
               ELSE IF high <= Len(haystack) THEN high ELSE 0)

\* The needle is greater: in the upper half, or between mid and high.
AboveMid ==
  IF high - Mid > 1
    THEN low' = Mid /\ UNCHANGED <<haystack, needle, bias, high, index, turn>>
    ELSE Found(IF bias = "GREATEST_LOWER_BOUND" THEN Mid
               ELSE IF high <= Len(haystack) THEN high ELSE 0)

\* The needle is less: in the lower half, or between low and mid.
BelowMid ==
  IF Mid - low > 1
    THEN high' = Mid /\ UNCHANGED <<haystack, needle, bias, low, index, turn>>
    ELSE Found(IF bias = "LEAST_UPPER_BOUND" THEN Mid ELSE low)

\* One call of recursiveSearch.
RecursiveSearch ==
  LET cmp == ComparePositions(needle, haystack[Mid]) IN
  /\ turn = "halve"
  /\ \/ cmp = 0 /\ Found(Mid)
     \/ cmp > 0 /\ AboveMid
     \/ cmp < 0 /\ BelowMid

\* One turn of the loop that looks for the first of several equal positions.
StepBack ==
  /\ turn = "back"
  /\ IF index > 1 /\ ComparePositions(haystack[index], haystack[index-1]) = 0
       THEN index' = index - 1 /\ UNCHANGED turn
       ELSE turn' = "done" /\ UNCHANGED index
  /\ UNCHANGED <<haystack, needle, bias, low, high>>

\* The caller takes the result, and forgets the search.
Return ==
  /\ turn = "done" /\ turn' = "idle"
  /\ haystack' = <<>> /\ needle' = <<0, 0, 0>> /\ bias' = "GREATEST_LOWER_BOUND"
  /\ low' = 0 /\ high' = 0 /\ index' = 0

SearchStep == RecursiveSearch \/ StepBack

\* A search on its own: any sorted array, any needle.
SearchNext ==
  \/ \E p \in Positions, h \in Seq(Positions), b \in Biases :
       IsAscending(h) /\ Search(p, h, b)
  \/ SearchStep
  \/ Return

SearchSpec == SearchInit /\ [][SearchNext]_searchVars

\* What the bias admits besides the needle itself.
Admits(p) ==
  IF bias = "GREATEST_LOWER_BOUND" THEN ComparePositions(p, needle) <= 0
  ELSE ComparePositions(needle, p) <= 0

\* p is at least as near to the needle as q is, both on the admitted side.
Nearer(p, q) ==
  IF bias = "GREATEST_LOWER_BOUND" THEN ComparePositions(q, p) <= 0
  ELSE ComparePositions(p, q) <= 0

\* A search ends on the first of the elements that are nearest to the needle on
\* the side of its bias, and on none only when there is none on that side.
SearchIsExact ==
  turn = "done" =>
    /\ index = 0 => \A i \in 1..Len(haystack) : ~Admits(haystack[i])
    /\ index > 0 =>
         /\ Admits(haystack[index])
         /\ \A i \in 1..Len(haystack) :
              Admits(haystack[i]) => Nearer(haystack[index], haystack[i])
         /\ \A i \in 1..(index-1) : ComparePositions(haystack[i], haystack[index]) < 0

\* A search comes to its end: each call of recursiveSearch returns or makes one
\* for fewer elements, and for one at least, as it could not get further with
\* none; and each turn of the loop returns or takes a lower index.
SearchAdvances ==
  [][/\ turn = "halve" /\ turn' = "halve" => high' - low' \in 2..(high-low-1)
     /\ turn = "back" /\ turn' = "back" => index' \in 1..(index-1)]_searchVars

===============================================================================
