-------------------------- MODULE SourceMapQuestions --------------------------
(***************************************************************************)
(* What a consumer answers, once its mappings are read and sorted and the  *)
(* search has found an index in them.  A map is a record of the two lists, *)
(* the sources, names and contents, and the sourceRoot; spanned says       *)
(* whether computeColumnSpans was called.                                  *)
(***************************************************************************)
EXTENDS SourceMapUtil, BinarySearch

CONSTANT Infinity

ASSUME InfinityAssumption == Infinity \notin Int

\* Contents, by the index of their source.
ContentLists == Seq(Strings \cup {Null}) \cup {Null}

ASSUME NoContentsAssumption == Null \notin Seq(Strings \cup {Null})

Maps == [generated : Seq(Entries), original : Seq(Located), spanned : BOOLEAN,
         sources : Seq(Strings), names : Seq(Strings), root : Strings \cup {Null},
         contents : ContentLists]

\* How a call ends: it returns what it found, or throws.
Answer(found) == [threw |-> FALSE, found |-> found]
NoAnswer == Answer(<<>>)
Threw == [threw |-> TRUE, found |-> <<>>]

\* indexOf of an ArraySet, from 0; at, which throws for an index that is none.
IndexOf(set, s) == (CHOOSE i \in DOMAIN set : set[i] = s /\ \A j \in 1..(i-1) : set[j] # s) - 1
At(set, i) == set[i + 1]
IsIndex(set, i) == i = Null \/ i + 1 \in DOMAIN set

GeneratedPositions(map) ==
  [i \in DOMAIN map.generated |->
     <<0, map.generated[i].generatedLine, map.generated[i].generatedColumn>>]
OriginalPositions(map) ==
  [i \in DOMAIN map.original |-> <<map.original[i].source, map.original[i].originalLine,
                                   map.original[i].originalColumn>>]

\* p lies on the side of q that the bias asks for.
OnSide(p, q, b) ==
  IF b = "GREATEST_LOWER_BOUND" THEN ComparePositions(p, q) <= 0
  ELSE ComparePositions(q, p) <= 0

\* What search returns, by SearchIsExact.
SearchResult(positions, p, b) ==
  LET near == {i \in DOMAIN positions : OnSide(positions[i], p, b)}
      best == {i \in near : \A j \in near : OnSide(positions[j], positions[i], b)}
  IN  IF best = {} THEN 0 ELSE Min(best)

\* Every index leads to a source and a name.
IsInflatable(map, m) == IsIndex(map.sources, m.source) /\ IsIndex(map.names, m.name)

\* A mapping with its source and name as strings.
Inflate(map, m) ==
  [m EXCEPT !.source = IF m.source = Null THEN Null ELSE Show(map.root, At(map.sources, m.source)),
            !.name = IF m.name = Null THEN Null ELSE At(map.names, m.name)]

\* Where a mapping is from; none of the fields is there without a source.
OriginalOf(m) ==
  [source |-> m.source, line |-> m.originalLine, column |-> m.originalColumn, name |-> m.name]

\* Mutant: the nearest mapping is taken from another line, too.
OriginalPositionOfAnyLine(map, i, line) ==
  IF i = 0 \/ map.generated[i].source = Null THEN NoAnswer
  ELSE IF ~IsInflatable(map, map.generated[i]) THEN Threw
  ELSE Answer(<<OriginalOf(Inflate(map, map.generated[i]))>>)

\* The mapping must be on the line asked for.  One without a source is answered
\* like one that was not found, with nulls.
OriginalPosition(map, i, line) ==
  IF i = 0 \/ map.generated[i].generatedLine # line \/ map.generated[i].source = Null
    THEN NoAnswer
  ELSE IF ~IsInflatable(map, map.generated[i]) THEN Threw
  ELSE Answer(<<OriginalOf(Inflate(map, map.generated[i]))>>)

\* _findMapping throws for a line before the first, or a column before that.
IsPlace(line, column) == line > 0 /\ column >= 0

OriginalPositionFor(map, line, column, b) ==
  IF ~IsPlace(line, column) THEN Threw
  ELSE OriginalPosition(map, SearchResult(GeneratedPositions(map), <<0, line, column>>, b), line)

\* Mutant: a span ends with the column that the next one begins with.
LastColumnAtNext(map, i) ==
  IF i < Len(map.generated)
       /\ map.generated[i].generatedLine = map.generated[i+1].generatedLine
    THEN map.generated[i+1].generatedColumn ELSE Infinity

\* The lastGeneratedColumn that computeColumnSpans gives a mapping.
LastColumn(map, i) ==
  IF i < Len(map.generated)
       /\ map.generated[i].generatedLine = map.generated[i+1].generatedLine
    THEN map.generated[i+1].generatedColumn - 1 ELSE Infinity

\* The place of a mapping.
Place(map, m) ==
  [line |-> m.generatedLine, column |-> m.generatedColumn,
   lastColumn |-> IF ~map.spanned THEN Null
                  ELSE LastColumn(map, CHOOSE i \in DOMAIN map.generated : map.generated[i] = m)]

\* The mapping must be of the source asked for, on whatever line.
GeneratedPosition(map, i, source) ==
  IF i = 0 \/ map.original[i].source # source THEN NoAnswer
  ELSE Answer(<<Place(map, map.original[i])>>)

\* generatedPositionFor; a source that the map does not name is answered at once.
GeneratedPositionFor(map, name, line, column, b) ==
  LET source == Resolve(map.root, name)
      p == <<IndexOf(map.sources, source), line, column>>
  IN  IF source \notin Range(map.sources) THEN NoAnswer
      ELSE IF ~IsPlace(line, column) THEN Threw
      ELSE GeneratedPosition(map, SearchResult(OriginalPositions(map), p, b), p[1])

\* Does the loop of allGeneratedPositionsFor take m, when it began with first?
GoesOn(m, first, line, column) ==
  IF column = Null THEN m.originalLine = first.originalLine
  ELSE m.originalLine = line /\ m.originalColumn = first.originalColumn

\* The mappings from the one found, as long as they are on its line, or at its
\* place.  The source is not looked at again.
AllGeneratedPositions(map, i, line, column) ==
  IF i = 0 THEN NoAnswer
  ELSE LET taken == {k \in i..Len(map.original) :
                       \A j \in i..k : GoesOn(map.original[j], map.original[i], line, column)}
       IN  Answer([k \in 1..Cardinality(taken) |-> Place(map, map.original[i + k - 1])])

\* eachMapping, in the generated order.
EachMapping(map) ==
  IF \E m \in Range(map.generated) : ~IsInflatable(map, m) THEN Threw
  ELSE Answer([i \in DOMAIN map.generated |-> Inflate(map, map.generated[i])])

\* The getter sources.
SourceNames(map) == [i \in DOMAIN map.sources |-> Show(map.root, map.sources[i])]

HasContentsOfAllSources(map) ==
  /\ map.contents # Null
  /\ Len(map.contents) >= Cardinality(Range(map.sources))
  /\ Null \notin Range(map.contents)

\* The names by which sourceContentFor looks for a source, in their order:
\* file:// is dropped, and a slash added when the root is a host.
Aliases(map, source) ==
  LET path == IF IsStrictPrefix(<<"file:", "">>, source) THEN SubSeq(source, 3, Len(source))
              ELSE source
      hasUrl == map.root # Null /\ IsUrl(map.root)
  IN  <<source>>
        \o (IF hasUrl /\ map.root[1] = "file:" THEN <<path>> ELSE <<>>)
        \o (IF hasUrl /\ UrlPath(map.root) \in {EmptyString, Slash}
              THEN <<EmptyString \o source>> ELSE <<>>)

\* The first of the names that the sources have.
FirstOf[c \in Seq(Strings) \X Seq(Strings)] ==
  LET known == {i \in DOMAIN c[2] : c[2][i] \in Range(c[1])}
  IN  IF known = {} THEN <<>> ELSE <<c[2][Min(known)]>>

\* sourceContentFor, which throws for an unknown source but for nullOnMissing.
SourceContentFor(map, name, nullOnMissing) ==
  LET found == FirstOf[<<map.sources, Aliases(map, Resolve(map.root, name))>>]
      i == IndexOf(map.sources, found[1]) + 1
  IN  IF map.contents = Null THEN Answer(Null)
      ELSE IF found # <<>>
        THEN Answer(IF i \in DOMAIN map.contents THEN map.contents[i] ELSE Null)
      ELSE IF nullOnMissing THEN Answer(Null) ELSE Threw

===============================================================================
