-------------------------- MODULE SourceMapGenerator --------------------------
(***************************************************************************)
(* SourceMapGenerator, with its MappingList and the ArraySets of sources   *)
(* and names: mappings are added one by one, in order or not, rewritten by *)
(* the map of an earlier compilation, and written as a text in which each  *)
(* number is the difference to the one before.                             *)
(***************************************************************************)
EXTENDS SourceMapQuestions, Base64VLQ

\* Smaller than every mapping.
Infimum == Mapping(-1, 0, Null, Null, Null, Null)

\* A generator: the array of its MappingList, whether that is sorted, the last
\* mapping that came in order; its sources, names and sourceRoot, and contents
\* by source.
NewGenerator(root) ==
  [array |-> <<>>, sorted |-> TRUE, last |-> Infimum,
   sources |-> <<>>, names |-> <<>>, root |-> root, contents |-> <<>>]

\* _validateMapping lets through a place alone, or one with a place in a source.
\* It asks whether the others are falsy: without a place in a source, an empty
\* string is let through as source or name, and kept.
IsValid(m) ==
  /\ m.generatedLine > 0 /\ m.generatedColumn >= 0
  /\ \/ m.originalLine = Null /\ {m.source, m.name} \subseteq {Null, EmptyString}
     \/ /\ m.originalLine # Null /\ m.source \notin {Null, EmptyString}
        /\ m.originalLine > 0 /\ m.originalColumn >= 0

\* Mutant: duplicates are allowed, as they are for a consumer.
AddAgain(set, s) == IF s = Null THEN set ELSE Append(set, s)

\* add of an ArraySet, for a string that is not null.
Add(set, s) == IF s = Null \/ s \in Range(set) THEN set ELSE Append(set, s)

\* An ArraySet of what is there of these.
ArraySet[strings \in Seq(Strings \cup {Null})] == FoldLeft(Add, <<>>, strings)

GeneratedPositionAfter(a, b) ==
  \/ b.generatedLine > a.generatedLine
  \/ b.generatedLine = a.generatedLine /\ b.generatedColumn >= a.generatedColumn
  \/ CompareByGeneratedPositionsInflated(a, b) <= 0

\* add of the MappingList.
AddToList(g, m) ==
  LET inOrder == GeneratedPositionAfter(g.last, m)
  IN  [g EXCEPT !.array = Append(@, m), !.last = IF inOrder THEN m ELSE @,
                !.sorted = @ /\ inOrder]

\* addMapping, of a mapping that is valid; otherwise it throws.
AddMapping(g, m) ==
  [AddToList(g, m) EXCEPT !.sources = Add(@, m.source), !.names = Add(@, m.name)]

\* setSourceContent; null deletes.
SetSourceContent(g, file, content) ==
  LET source == Resolve(g.root, file)
  IN  [g EXCEPT !.contents =
         IF content = Null THEN Restrict(@, DOMAIN @ \ {source})
         ELSE [s \in DOMAIN @ \cup {source} |-> IF s = source THEN content ELSE g.contents[s]]]

\* The contents of the sources that a map has, for a generator that gets them
\* under the names given; a source that the map does not know throws.
CopyContents(g, map, names) ==
  LET Turn(out, i) ==
        LET content == SourceContentFor(map, SourceNames(map)[i], FALSE)
        IN  IF out.threw \/ content.threw THEN [out EXCEPT !.threw = TRUE]
            ELSE IF content.found = Null THEN out
            ELSE [out EXCEPT !.generator = SetSourceContent(@, names[i], content.found)]
  IN  FoldLeftDomain(Turn, [threw |-> FALSE, generator |-> g], names)

\* The mappings and contents of a map that has been read, in a new generator; it
\* throws for a mapping that is not valid, or an index that is none.
GeneratorOf(map) ==
  LET each == EachMapping(map).found
      mappings == [i \in DOMAIN each |->
                     IF each[i].source = Null THEN each[i]
                     ELSE [each[i] EXCEPT !.source = Resolve(map.root, @)]]
      generator == FoldLeft(AddMapping, NewGenerator(map.root), mappings)
  IN  IF EachMapping(map).threw \/ \E m \in Range(mappings) : ~IsValid(m)
        THEN [threw |-> TRUE, generator |-> generator]
      ELSE CopyContents(generator, map, SourceNames(map))

\* The name under which applySourceMap takes over a source of the applied map.
Rename(g, source, path) == Resolve(g.root, IF path = Null THEN source ELSE Join(path, source))

\* Mutant: the column stays where it was.
RewriteLine(g, m, original, path) ==
  [m EXCEPT !.source = Rename(g, original.source, path), !.originalLine = original.line,
            !.name = IF original.name = Null THEN @ ELSE original.name]

\* A mapping to where the applied map says that its place comes from.  It keeps
\* its name when that has none.
Rewrite(g, m, original, path) ==
  [m EXCEPT !.source = Rename(g, original.source, path),
            !.originalLine = original.line, !.originalColumn = original.column,
            !.name = IF original.name = Null THEN @ ELSE original.name]

\* applySourceMap.  A mapping without a place in its source asks for line 0, which
\* throws.  The mappings are rewritten one by one, in place, and only
\* then get sources and names replaced: a question that throws leaves the
\* generator with mappings whose sources it does not have.
ApplySourceMap(g, map, file, path) ==
  LET applies == {i \in DOMAIN g.array : g.array[i].source = Resolve(g.root, file)}
      answers == [i \in applies |->
                    OriginalPositionFor(map, Num(g.array[i].originalLine),
                                        Num(g.array[i].originalColumn), "GREATEST_LOWER_BOUND")]
      throws == {i \in applies : answers[i].threw}
      Line(i) == IF /\ i \in applies /\ (\A j \in throws : i < j)
                    /\ answers[i].found # <<>>
                   THEN Rewrite(g, g.array[i], answers[i].found[1], path) ELSE g.array[i]
      rewritten == [g EXCEPT
        !.array = [i \in DOMAIN @ |-> Line(i)],
        !.last = IF g.array = <<>> THEN @ ELSE Line(Max({i \in DOMAIN g.array : g.array[i] = @}))]
      files == SourceNames(map)
  IN  IF throws # {} THEN [threw |-> TRUE, generator |-> rewritten]
      ELSE CopyContents([rewritten EXCEPT
                           !.sources = ArraySet[[i \in DOMAIN g.array |-> Line(i).source]],
                           !.names = ArraySet[[i \in DOMAIN g.array |-> Line(i).name]]],
                         map, [i \in DOMAIN files |-> Rename(g, files[i], path)])

\* Array.prototype.sort, which is external: some order the comparator allows.
Sortings(s) ==
  {t \in {[i \in DOMAIN s |-> s[p[i]]] : p \in Bijection(DOMAIN s, DOMAIN s)} :
     \A i \in 1..(Len(s)-1) : CompareByGeneratedPositionsInflated(t[i], t[i+1]) <= 0}

\* What toArray of the MappingList can make of a generator.
ToArray(g) ==
  IF g.sorted THEN {g}
  ELSE {[g EXCEPT !.array = mappings, !.sorted = TRUE] : mappings \in Sortings(g.array)}

\* Without this a mapping has no index to be written with, and toString throws.
IsWritable(g) ==
  \A m \in Range(g.array) : m.source \in Range(g.sources) \cup {Null}
                              /\ m.name \in Range(g.names) \cup {Null}

\* _generateSourcesContent, for the generator's own sources and root.
GenerateSourcesContent(g) ==
  [i \in DOMAIN g.sources |->
     LET source == Resolve(g.root, g.sources[i])
     IN  IF source \in DOMAIN g.contents THEN g.contents[source] ELSE Null]

\* What the next segment is told from; the array is already sorted.
Previous == [text |-> <<>>, generatedLine |-> 1, generatedColumn |-> 0,
             source |-> 0, originalLine |-> 0, originalColumn |-> 0, name |-> 0]

\* Mutant: columns are told from the line above, too.
StartColumnGoesOn(m, previous) == previous.generatedColumn

\* previousGeneratedColumn is reset for each line.
StartColumn(m, previous) ==
  IF m.generatedLine = previous.generatedLine THEN previous.generatedColumn ELSE 0

\* The fields of the place in the source, and of the name.
OriginalFields(g, m, previous) ==
  Encode(IndexOf(g.sources, m.source) - previous.source)
    \o Encode(Num(m.originalLine) - 1 - previous.originalLine)
    \o Encode(Num(m.originalColumn) - previous.originalColumn)
    \o (IF m.name = Null THEN <<>> ELSE Encode(IndexOf(g.names, m.name) - previous.name))

\* A semicolon for each new line, a comma between the segments of one.
Separators(m, previous, i) ==
  IF m.generatedLine = previous.generatedLine
    THEN IF i > 1 THEN <<Comma>> ELSE <<>>
    ELSE [k \in 1..(m.generatedLine - previous.generatedLine) |-> Semicolon]

\* One turn of _serializeMappings: a mapping equal to its predecessor is skipped.
SerializeMapping(g, previous, i) ==
  LET m == g.array[i]
      text == previous.text \o Separators(m, previous, i)
                \o Encode(m.generatedColumn - StartColumn(m, previous))
      next == [previous EXCEPT !.generatedLine = m.generatedLine,
                               !.generatedColumn = m.generatedColumn]
  IN  IF /\ m.generatedLine = previous.generatedLine /\ i > 1
         /\ CompareByGeneratedPositionsInflated(m, g.array[i-1]) = 0
        THEN previous
      ELSE IF m.source = Null THEN [next EXCEPT !.text = text]
      ELSE [next EXCEPT
              !.text = text \o OriginalFields(g, m, previous),
              !.source = IndexOf(g.sources, m.source),
              !.originalLine = Num(m.originalLine) - 1,
              !.originalColumn = Num(m.originalColumn),
              !.name = IF m.name = Null THEN @ ELSE IndexOf(g.names, m.name)]

SerializeMappings(g) ==
  FoldLeftDomain(LAMBDA previous, i : SerializeMapping(g, previous, i), Previous, g.array).text

===============================================================================
