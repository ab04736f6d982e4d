------------------------------ MODULE SourceNode -------------------------------
(***************************************************************************)
(* SourceNode: generated code as a tree of snippets, each node with the    *)
(* place in a source that its own snippets come from.  A program builds    *)
(* such a tree and has a generator filled from it, or takes code apart     *)
(* along the map that a consumer has read.  A string of code is a sequence *)
(* of characters.                                                          *)
(***************************************************************************)
EXTENDS IndexedSourceMapConsumer

VARIABLE nodes   \* of one tree; the first is its root

treeVars == <<vars, nodes>>

Newline == "newline"

\* A child: a node, or a snippet.
Node(i) == [node |-> i, text |-> <<>>]
Snippet(text) == [node |-> 0, text |-> text]

\* Where a node is from; null stands for what was not given.
Origin(source, line, column, name) ==
  [source |-> source, line |-> line, column |-> column, name |-> name]

NewSourceNode(origin, children) ==
  [origin |-> origin, children |-> children, contents |-> <<>>]

\* Only with a source, line and column is there a mapping.
IsFull(origin) == Null \notin {origin.source, origin.line, origin.column}

\* add, which leaves out an empty string.
AddChunk(children, chunk) ==
  IF chunk = Snippet(<<>>) THEN children ELSE Append(children, chunk)

\* walk: the snippets from left to right, those that are empty left out, with
\* their nodes.
Walk(ns) ==
  LET walk[i \in DOMAIN ns] ==
        FlattenSeq([k \in DOMAIN ns[i].children |->
          LET child == ns[i].children[k]
          IN  IF child.node # 0 THEN walk[child.node]
              ELSE IF child.text = <<>> THEN <<>>
              ELSE <<[text |-> child.text, origin |-> ns[i].origin]>>])
  IN  walk[1]

\* toString.
Code(ns) == FlattenSeq([k \in DOMAIN Walk(ns) |-> Walk(ns)[k].text])

(***************************************************************************)
(* toStringWithSourceMap.                                                  *)
(***************************************************************************)
MapTo(g, line, column, o) ==
  AddMapping(g, Mapping(line, column, o.source, o.line, o.column, o.name))

Nowhere == Origin(Null, Null, Null, Null)

\* Mutant: a mapping goes on over the end of a line.
WriteCharOn(out, origin, char, isLast) ==
  IF char # Newline THEN [out EXCEPT !.column = @ + 1]
  ELSE [out EXCEPT !.line = @ + 1, !.column = 0]

\* A mapping ends at the end of a line, and a snippet that goes on is mapped
\* anew.
WriteChar(out, origin, char, isLast) ==
  IF char # Newline THEN [out EXCEPT !.column = @ + 1]
  ELSE [out EXCEPT
          !.line = @ + 1, !.column = 0,
          !.last = IF isLast THEN Nowhere ELSE @,
          !.active = @ /\ ~isLast,
          !.map = IF ~isLast /\ out.active THEN MapTo(@, out.line + 1, 0, origin) ELSE @]

\* A snippet is mapped if it is from somewhere else than the one before, and if
\* it is from nowhere, but the one before is not.
WriteSnippet(out, piece) ==
  LET o == piece.origin
      start == [out EXCEPT
        !.map = IF IsFull(o) /\ out.last # o THEN MapTo(@, out.line, out.column, o)
                ELSE IF ~IsFull(o) /\ out.active THEN MapTo(@, out.line, out.column, Nowhere)
                ELSE @,
        !.last = IF IsFull(o) THEN o ELSE IF out.active THEN Nowhere ELSE @,
        !.active = IsFull(o)]
  IN  FoldLeftDomain(LAMBDA s, k : WriteChar(s, o, piece.text[k], k = Len(piece.text)),
                     start, piece.text)

\* walkSourceContents: those of a node come after those of its children.
WalkContents(ns, map) ==
  LET own(i) == LET files == SetToSeq(DOMAIN ns[i].contents)
                IN  [k \in DOMAIN files |-> <<files[k], ns[i].contents[files[k]]>>]
      walk[i \in DOMAIN ns] ==
        FlattenSeq([k \in DOMAIN ns[i].children |->
          IF ns[i].children[k].node # 0 THEN walk[ns[i].children[k].node] ELSE <<>>]) \o own(i)
  IN  FoldLeft(LAMBDA g, pair : SetSourceContent(g, pair[1], pair[2]), map, walk[1])

Written(ns) ==
  WalkContents(ns, FoldLeft(WriteSnippet,
    [map |-> NewGenerator(program.root), line |-> 1, column |-> 0, last |-> Nowhere,
     active |-> FALSE], Walk(ns)).map)

\* addMapping throws for a place that is not valid.
IsWrittenWell(ns) ==
  \A p \in Range(Walk(ns)) :
    IsFull(p.origin) => p.origin.source # EmptyString /\ p.origin.line > 0 /\ p.origin.column >= 0

WriteTree ==
  /\ stage = "none" /\ nodes # <<>> /\ generator.array = <<>>
  /\ IF IsWrittenWell(nodes) THEN generator' = Written(nodes) /\ Quiet
     ELSE Tell("tree", Threw, stage) /\ UNCHANGED generator
  /\ UNCHANGED <<program, searchVars, consumerVars, nodes>>

(***************************************************************************)
(* A tree is built.  Children have higher numbers than their parents.      *)
(***************************************************************************)
Size == FoldFunction(LAMBDA n, sum : Len(n.children) + sum, 0, nodes)

Building == stage = "none" /\ generator.array = <<>>

Chunks(i) == {Snippet(text) : text \in program.snippets} \cup {Node(j) : j \in i+1..Len(nodes)}

Edit(i, children) ==
  /\ nodes' = [nodes EXCEPT ![i].children = children]
  /\ UNCHANGED vars

NewNode(origin) ==
  /\ Building /\ Len(nodes) < program.nodes
  /\ nodes' = Append(nodes, NewSourceNode(origin, <<>>))
  /\ UNCHANGED vars

AppendChunk(i, chunk) ==
  Building /\ Size < program.size /\ Edit(i, AddChunk(nodes[i].children, chunk))

Prepend(i, chunk) ==
  Building /\ Size < program.size /\ Edit(i, <<chunk>> \o nodes[i].children)

\* join: the separator between each two of the children.
JoinWith(i, chunk) ==
  LET n == Len(nodes[i].children) IN
  /\ Building /\ n > 1 /\ Size + n - 1 <= program.size
  /\ Edit(i, [k \in 1..(2*n - 1) |->
               IF k % 2 = 1 THEN nodes[i].children[(k + 1) \div 2] ELSE chunk])

\* The node of the right-most snippet; a node without children has none, and the
\* look at its last child throws.
Rightmost(i) ==
  LET right[k \in DOMAIN nodes] ==
        IF nodes[k].children = <<>> THEN 0
        ELSE IF Last(nodes[k].children).node # 0 THEN right[Last(nodes[k].children).node]
        ELSE k
  IN  right[i]

\* replaceRight, for a pattern that finds the newline at the end.
ReplaceRight(i) ==
  LET k == Rightmost(i)
      children == nodes[k].children
      text == Last(children).text
      trimmed == IF text # <<>> /\ Last(text) = Newline THEN Front(text) ELSE text
  IN  /\ Building
      /\ IF k = 0
           THEN Tell("replace", Threw, stage)
                  /\ UNCHANGED <<program, generator, searchVars, consumerVars, nodes>>
           ELSE Edit(k, Append(Front(children), Snippet(trimmed)))

SetNodeContent(i, file, content) ==
  /\ Building
  /\ nodes' = [nodes EXCEPT ![i].contents = (file :> content) @@ @]
  /\ UNCHANGED vars

(***************************************************************************)
(* fromStringWithSourceMap.                                                *)
(***************************************************************************)
\* The lines of a code, without their newlines.
LinesOf(code) ==
  FoldLeft(LAMBDA lines, char :
             IF char = Newline THEN Append(lines, <<>>)
             ELSE [lines EXCEPT ![Len(lines)] = Append(@, char)], <<<<>>>>, code)

\* shiftNextLine, which is "undefined" when no line is left.
NextLine(lines) ==
  IF lines = <<>> THEN <<Undefined>>
  ELSE Head(lines) \o (IF Len(lines) > 1 THEN <<Newline>> ELSE <<>>)

Rest(lines) == IF lines = <<>> THEN <<>> ELSE Tail(lines)

\* The code goes to the root as a snippet, or as a node with the origin of a
\* mapping; a path cannot be joined to a source that is none.
AddCode(out, text) ==
  [out EXCEPT !.nodes[1].children = AddChunk(@, Snippet(text))]

AddMappingWithCode(out, m, text, path) ==
  LET isJoined == path \notin {Null, EmptyString}
      source == IF isJoined THEN Join(path, m.source) ELSE m.source
  IN  IF isJoined /\ m.source = Null THEN [out EXCEPT !.threw = TRUE]
      ELSE [out EXCEPT
              !.nodes = Append([@ EXCEPT ![1].children = Append(@, Node(Len(out.nodes) + 1))],
                          NewSourceNode(Origin(source, m.originalLine, m.originalColumn, m.name),
                                        AddChunk(<<>>, Snippet(text))))]

\* A line goes as a whole, to the last mapping or to none.
ShiftMapped(out, path) ==
  [AddMappingWithCode(out, out.last, NextLine(out.lines), path) EXCEPT
     !.lines = Rest(@), !.line = @ + 1, !.column = 0]
ShiftPlain(out) ==
  [AddCode(out, NextLine(out.lines)) EXCEPT !.lines = Rest(@), !.line = @ + 1]

\* substr from a start on, which is told from the end of the text if it is
\* negative.
Substr(text, start) ==
  SubSeq(text, 1 + IF start < 0 THEN Max({Len(text) + start, 0}) ELSE start, Len(text))

\* The code on a line up to a column is cut off; where no line is left, this
\* throws.
CutText(out, width) ==
  IF out.lines = <<>> THEN <<>> ELSE SubSeq(out.lines[1], 1, Min({width, Len(out.lines[1])}))
Cut(out, width, column) ==
  IF out.lines = <<>> THEN [out EXCEPT !.threw = TRUE]
  ELSE [out EXCEPT !.lines[1] = Substr(@, width), !.column = column]

\* Lines before the mapping's are without mapping, and so is the code on its own.
SkipTo(out, m) ==
  LET there == FoldLeft(LAMBDA o, k : ShiftPlain(o), out, [k \in 1..(m.generatedLine - out.line) |-> k])
  IN  IF there.column < m.generatedColumn
        THEN AddCode(Cut(there, m.generatedColumn, m.generatedColumn),
                     CutText(there, m.generatedColumn))
        ELSE there

\* Mutant: the rest of a line is cut off behind the last mapping, not before.
TakeMappingLate(out, m, path) ==
  IF out.threw THEN out
  ELSE [SkipTo(IF out.last # Null /\ out.line < m.generatedLine THEN ShiftMapped(out, path) ELSE out, m)
          EXCEPT !.last = m]

\* One turn of eachMapping's loop: the code up to the mapping goes to the one
\* before, but no further than to the end of its line.
TakeMapping(out, m, path) ==
  LET width == m.generatedColumn - out.column IN
  IF out.threw THEN out
  ELSE IF out.last # Null /\ out.line = m.generatedLine
    THEN [AddMappingWithCode(Cut(out, width, m.generatedColumn), out.last,
                             CutText(out, width), path) EXCEPT !.last = m]
  ELSE [SkipTo(IF out.last # Null THEN ShiftMapped(out, path) ELSE out, m) EXCEPT !.last = m]

\* The rest of the code.
TakeRest(out, path) ==
  LET line == IF out.last # Null THEN ShiftMapped(out, path) ELSE out
      rest == FlattenSeq([k \in DOMAIN line.lines |->
                line.lines[k] \o (IF k < Len(line.lines) THEN <<Newline>> ELSE <<>>)])
  IN  IF out.threw \/ out.lines = <<>> THEN out ELSE AddCode(line, rest)

\* Sources are joined to a path that is empty, too.
TakeContent(out, name, path) ==
  LET content == SourceContentFor(Self, name, FALSE)
      file == IF path = Null THEN name ELSE Join(path, name)
  IN  IF out.threw \/ content.threw THEN [out EXCEPT !.threw = TRUE]
      ELSE IF content.found = Null THEN out
      ELSE [out EXCEPT !.nodes[1].contents = (file :> content.found) @@ @]

FromStringWithSourceMap(code, path) ==
  LET start == [lines |-> LinesOf(code), line |-> 1, column |-> 0, last |-> Null,
                nodes |-> <<NewSourceNode(Nowhere, <<>>)>>, threw |-> EachMapping(Self).threw]
      taken == FoldLeft(LAMBDA out, m : TakeMapping(out, m, path), start, EachMapping(Self).found)
  IN  FoldLeft(LAMBDA out, name : TakeContent(out, name, path), TakeRest(taken, path),
               SourceNames(Self))

\* The program goes on with the tree, and lets the consumer go.
ReadTree(code, path) ==
  LET out == FromStringWithSourceMap(code, path) IN
  /\ stage = "ready" /\ consumer.sections = <<>> /\ generator.array = <<>> /\ nodes = <<>>
  /\ IF out.threw THEN Tell("read", Threw, stage) /\ UNCHANGED <<consumerVars, nodes>>
     ELSE /\ nodes' = out.nodes
          /\ consumer' = NoMap /\ generated' = <<>> /\ original' = <<>>
          /\ spanned' = FALSE /\ UNCHANGED ranges
          /\ stage' = "none" /\ UNCHANGED <<back, question, answer>>
  /\ UNCHANGED <<program, generator, searchVars>>

NodeNext ==
  \/ \E origin \in program.origins : NewNode(origin)
  \/ \E i \in DOMAIN nodes :
       \/ \E chunk \in Chunks(i) : AppendChunk(i, chunk) \/ Prepend(i, chunk) \/ JoinWith(i, chunk)
       \/ ReplaceRight(i)
       \/ \E file \in program.files, content \in program.contents : SetNodeContent(i, file, content)
  \/ \E code \in program.codes, path \in program.paths : ReadTree(code, path)
  \/ WriteTree

TreeInit == Init /\ nodes = <<>>

TreeNext == ((ConsumerNext \/ IndexedNext) /\ UNCHANGED nodes) \/ NodeNext

Spec == TreeInit /\ [][TreeNext]_treeVars

(***************************************************************************)
(* Properties.                                                             *)
(***************************************************************************)
\* The characters of a tree's code, with their places and origins.
Chars(ns) ==
  LET pieces == Walk(ns)
      chars == FlattenSeq([k \in DOMAIN pieces |->
        [j \in DOMAIN pieces[k].text |-> [char |-> pieces[k].text[j], origin |-> pieces[k].origin]]])
      Line(i) == 1 + Cardinality({j \in 1..i-1 : chars[j].char = Newline})
      Column(i) == i - 1 - Max({0} \cup {j \in 1..i-1 : chars[j].char = Newline})
  IN  [i \in DOMAIN chars |-> [origin |-> chars[i].origin, line |-> Line(i), column |-> Column(i)]]

\* The map that a tree has written, when it has been read, leads from each
\* character of the code to the origin of its node, and to none when the node has
\* none, whatever is before it on the line.
CharsAreMapped ==
  stage = "ready" /\ nodes # <<>> /\ consumer.made.array # <<>>
    /\ consumer.made = Written(nodes) =>
    \A c \in Range(Chars(nodes)) :
      OriginalPositionFor(Self, c.line, c.column, "GREATEST_LOWER_BOUND") =
        IF IsFull(c.origin)
          THEN Answer(<<[c.origin EXCEPT !.source = Show(consumer.root, @)]>>)
          ELSE NoAnswer

\* The nodes that can be reached from the root.
InTree(ns) ==
  LET below[i \in DOMAIN ns] ==
        {i} \cup UNION {below[c.node] : c \in {d \in Range(ns[i].children) : d.node # 0}}
  IN  below[1]

\* The map that a tree has written has a content for a source that it maps to if
\* a node of the tree has one: that of the root, or of one of the nodes below.
RootHasTheLastWord ==
  stage = "ready" /\ nodes # <<>> /\ consumer.made.array # <<>>
    /\ consumer.made = Written(nodes) =>
    \A source \in Range(consumer.made.sources) :
      LET content == SourceContentFor(Self, Show(consumer.root, source), FALSE).found
          having == {i \in InTree(nodes) : source \in DOMAIN nodes[i].contents}
      IN  IF having = {} THEN content = Null
          ELSE \E i \in having : (1 \in having => i = 1) /\ content = nodes[i].contents[source]

\* A tree is written with a map of its code, and with the contents it has.
TreeIsMapped == CharsAreMapped /\ RootHasTheLastWord

\* The places of the mappings are in the code.
IsWithin(m, code) ==
  LET lines == LinesOf(code)
  IN  m.generatedLine <= Len(lines) /\ m.generatedColumn \in 0..Len(lines[m.generatedLine])

\* A tree that is read has the code that it was read from, if no mapping is in a
\* line that the code does not have: otherwise this throws, or puts "undefined"
\* into the code; and none is before the first column: between two of these the
\* line is cut at a place that is told from its end, and what is before it is lost.
CodeIsKept ==
  stage = "ready" /\ stage' = "none" /\ nodes' # nodes =>
    \A code \in program.codes, path \in program.paths :
      ReadTree(code, path)
        /\ (\A m \in Range(generated) : /\ m.generatedLine <= Len(LinesOf(code))
                                        /\ m.generatedColumn >= 0)
        => Code(nodes') = code

\* Each character of a tree that is read has the origin that the map has for its
\* place, with the path before its source, and the root has the contents of the
\* sources, if all mappings are at places of the code, and no two at the same: of
\* these the last one gets the code, where originalPositionFor answers with the
\* first.
MapIsKept ==
  stage = "ready" /\ stage' = "none" /\ nodes' # nodes =>
    \A code \in program.codes, path \in program.paths :
      LET Name(source) == IF path \in {Null, EmptyString} THEN source ELSE Join(path, source) IN
      ReadTree(code, path)
        /\ (\A m \in Range(generated) : IsWithin(m, code))
        /\ IsInjective(GeneratedPositions(Self))
        => /\ \A c \in Range(Chars(nodes')) :
                LET told == OriginalPositionFor(Self, c.line, c.column, "GREATEST_LOWER_BOUND").found
                IN  IF told = <<>> THEN c.origin.source = Null
                    ELSE c.origin = [told[1] EXCEPT !.source = Name(@)]
           /\ \A name \in Range(SourceNames(Self)) :
                LET content == SourceContentFor(Self, name, TRUE).found
                IN  content # Null => nodes'[1].contents[Name(name)] = content

\* Whatever is made of a map that was read, a generator or a tree, keeps what the
\* map knows.
CopiesKeep == [][RegenerateKeeps /\ NamesKeep /\ CodeIsKept /\ MapIsKept]_treeVars

===============================================================================
