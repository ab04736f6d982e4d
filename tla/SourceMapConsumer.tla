-------------------------- MODULE SourceMapConsumer ---------------------------
(***************************************************************************)
(* A program that uses source-map.js: it fills a SourceMapGenerator, lets  *)
(* it apply the maps of earlier compilations, and has a                    *)
(* BasicSourceMapConsumer read its text, copy what it holds, or read what  *)
(* another tool has written.  The consumer sorts its mappings twice with a *)
(* quicksort of its own, and then answers questions for a place by a       *)
(* binary search.  Generator and consumer share nothing: sources and names *)
(* are copied, and the mappings made anew.                                 *)
(***************************************************************************)
EXTENDS SourceMapGenerator

CONSTANT Programs   \* bound: for each program, the values in its calls

VARIABLES
  program,    \* what the library is called with
  generator,
  consumer,   \* what its constructor has stored
  generated,  \* __generatedMappings, with indices for sources and names
  original,   \* __originalMappings
  spanned,    \* computeColumnSpans was called
  ranges,     \* quicksort's calls that are still to be made: [p, r]
  stage,      \* how far the program is
  back,       \* the stage it goes on in when it has got its answer
  question,   \* what was asked
  answer      \* what was answered

listVars == <<generated, original, spanned, ranges>>
consumerVars == <<consumer, listVars>>
talkVars == <<stage, back, question, answer>>
vars == <<program, generator, searchVars, consumerVars, talkVars>>

NoQuestion == [kind |-> "none"]

\* A source map: its text or its sections, what else its constructor keeps, and
\* the generator it was written from, if one has written it.
SourceMap(text, sources, names, root, contents, sections, made) ==
  [text |-> text, sources |-> sources, names |-> names, root |-> root,
   contents |-> contents, sections |-> sections, made |-> made]

\* The maps of other tools.
Texts == [text : Seq(Int), sources : Seq(Strings), names : Seq(Strings),
          root : Strings \cup {Null}, contents : ContentLists, sections : {<<>>},
          made : {NewGenerator(Null)}]

\* What addMapping may be called with; it checks the rest.
Wanted == {m \in [generatedLine : Int, generatedColumn : Int, source : Strings \cup {Null},
                  originalLine : Int \cup {Null}, originalColumn : Int \cup {Null},
                  name : Strings \cup {Null}] :
             m.originalLine = Null <=> m.originalColumn = Null}

ASSUME ProgramsAssumption == \A p \in Programs :
  /\ p.root \in Strings \cup {Null} /\ p.mappings \subseteq Wanted
  /\ p.files \cup p.asked \subseteq Strings /\ p.contents \subseteq Strings \cup {Null}
  /\ \A a \in p.applied : a.map \in Maps /\ a.file \in Strings /\ a.path \in Strings \cup {Null}
  /\ p.texts \subseteq Texts /\ p.lines \cup p.columns \subseteq Int

NoMap == SourceMap(<<>>, <<>>, <<>>, Null, Null, <<>>, NewGenerator(Null))

\* The consumer, once its mappings are read.
Self == [generated |-> generated, original |-> original, spanned |-> spanned,
         sources |-> consumer.sources, names |-> consumer.names,
         root |-> consumer.root, contents |-> consumer.contents]

\* quickSort's calls that have something to sort.
Call(p, r) == IF p < r THEN <<[p |-> p, r |-> r]>> ELSE <<>>

Init ==
  /\ program \in Programs
  /\ generator = NewGenerator(program.root)
  /\ SearchInit
  /\ consumer = NoMap /\ stage = "none" /\ back = "none"
  /\ generated = <<>> /\ original = <<>> /\ spanned = FALSE /\ ranges = <<>>
  /\ question = NoQuestion /\ answer = NoAnswer

\* A call ends with an answer, or throws; then the program goes on.
Tell(kind, told, next) ==
  /\ stage' = "answered" /\ back' = next
  /\ question' = [kind |-> kind] /\ answer' = told

Quiet == UNCHANGED talkVars

(***************************************************************************)
(* The generator.                                                          *)
(***************************************************************************)
Generate(m) ==
  /\ stage = "none" /\ Len(generator.array) < program.most
  /\ IF IsValid(m) THEN generator' = AddMapping(generator, m) /\ Quiet
     ELSE Tell("add", Threw, stage) /\ UNCHANGED generator
  /\ UNCHANGED <<program, searchVars, consumerVars>>

SetContent(file, content) ==
  /\ stage = "none"
  /\ generator' = SetSourceContent(generator, file, content)
  /\ UNCHANGED <<program, searchVars, consumerVars, talkVars>>

Apply(map, file, path) ==
  /\ stage = "none"
  /\ \E out \in {ApplySourceMap(generator, map, file, path)} :
       /\ generator' = out.generator
       /\ IF out.threw THEN Tell("apply", Threw, stage) ELSE Quiet
  /\ UNCHANGED <<program, searchVars, consumerVars>>

\* toString of the generator sorts its mappings, which may then grow again.
Stringify ==
  /\ stage = "none" /\ ~generator.sorted /\ generator' \in ToArray(generator)
  /\ UNCHANGED <<program, searchVars, consumerVars, talkVars>>

(***************************************************************************)
(* A consumer is made.                                                     *)
(***************************************************************************)
\* A source as the constructor stores it.
Store(root, source) ==
  LET s == Normalize(source)
  IN  IF root # Null /\ IsAbsolute(root) /\ IsAbsolute(s) THEN Relative(root, s) ELSE s

Stored(map) ==
  [map EXCEPT !.sources = [i \in DOMAIN @ |-> Store(map.root, @[i])]]

\* The constructor, for what another tool has written.  The text is parsed when
\* the first question is asked.
Construct(map) ==
  /\ stage = "none" /\ generator.array = <<>>
  /\ consumer' = Stored(map) /\ stage' = "text"
  /\ UNCHANGED <<program, generator, searchVars, listVars, back, question, answer>>

\* The constructor, for the toString of the generator, which throws for a
\* mapping whose source it does not have.
ConstructFromGenerator ==
  /\ stage = "none" /\ generator.array # <<>>
  /\ generator' \in ToArray(generator)
  /\ IF IsWritable(generator')
       THEN /\ consumer' = Stored(SourceMap(
                 SerializeMappings(generator'), generator.sources, generator.names,
                 generator.root,
                 IF DOMAIN generator.contents = {} THEN Null
                 ELSE GenerateSourcesContent(generator),
                 <<>>, generator'))
            /\ stage' = "text" /\ UNCHANGED <<back, question, answer>>
       ELSE Tell("write", Threw, stage) /\ UNCHANGED consumer
  /\ UNCHANGED <<program, searchVars, listVars>>

\* fromSourceMap: strings become indices, unless they are empty.
Deflate(g, m) ==
  IF m.source \in {Null, EmptyString}
    THEN Mapping(m.generatedLine, m.generatedColumn, Null, Null, Null, Null)
    ELSE [m EXCEPT !.source = IndexOf(g.sources, @),
                   !.name = IF @ \in {Null, EmptyString} THEN Null
                            ELSE IndexOf(g.names, @)]

\* Only the copy of the mappings is sorted.
FromSourceMap ==
  /\ stage = "none" /\ generator.array # <<>>
  /\ generator' \in ToArray(generator)
  /\ IF IsWritable(generator')
       THEN /\ consumer' = SourceMap(<<>>, generator.sources, generator.names, generator.root,
                 GenerateSourcesContent(generator), <<>>, generator')
            /\ generated' = [i \in DOMAIN generator.array |-> Deflate(generator', generator'.array[i])]
            /\ original' = Originals(generated')
            /\ ranges' = Call(1, Len(original')) /\ stage' = "sort original"
            /\ UNCHANGED <<back, question, answer>>
       ELSE Tell("copy", Threw, stage) /\ UNCHANGED <<consumer, generated, original, ranges>>
  /\ UNCHANGED <<program, searchVars, spanned>>

(***************************************************************************)
(* _parseMappings.                                                         *)
(***************************************************************************)
Parsing == [line |-> 1, column |-> 0, source |-> 0, originalLine |-> 0,
            originalColumn |-> 0, name |-> 0, digits |-> <<>>,
            mappings |-> <<>>, failed |-> FALSE]

\* The values of a segment are told from those of the one before.
ParseValues(in, v) ==
  LET column == in.column + v[1]
      source == in.source + v[2]
      line == in.originalLine + v[3]
      originalColumn == in.originalColumn + v[4]
      name == in.name + v[5]
  IN  IF Len(v) = 1
        THEN [in EXCEPT !.column = column, !.mappings =
                Append(@, Mapping(in.line, column, Null, Null, Null, Null))]
        ELSE [in EXCEPT
                !.column = column, !.source = source, !.originalLine = line,
                !.originalColumn = originalColumn,
                !.name = IF Len(v) > 4 THEN name ELSE @,
                !.mappings = Append(@, Mapping(in.line, column, source, line + 1,
                               originalColumn, IF Len(v) > 4 THEN name ELSE Null))]

\* A segment is at its end, where it may turn out to be no mapping.
EndSegment(in) ==
  LET out == Decode(in.digits) IN
  IF in.failed \/ in.digits = <<>> THEN in
  ELSE IF IsCutShort(out) \/ Len(out.values) \in {2, 3} THEN [in EXCEPT !.failed = TRUE]
  ELSE [ParseValues(in, out.values) EXCEPT !.digits = <<>>]

ParseChar(in, char) ==
  CASE char = Semicolon -> [EndSegment(in) EXCEPT !.line = @ + 1, !.column = 0]
    [] char = Comma -> EndSegment(in)
    [] OTHER -> [in EXCEPT !.digits = Append(@, char)]

Parse(text) == EndSegment(FoldLeft(ParseChar, Parsing, text))

\* The first question has the text parsed; a text that fails, fails each time.
ParseMappings ==
  LET out == Parse(consumer.text) IN
  /\ stage = "text"
  /\ IF out.failed THEN Tell("parse", Threw, stage) /\ UNCHANGED <<generated, original, ranges>>
     ELSE /\ generated' = out.mappings
          /\ original' = Originals(out.mappings)
          /\ ranges' = Call(1, Len(out.mappings))
          /\ stage' = "sort generated" /\ UNCHANGED <<back, question, answer>>
  /\ UNCHANGED <<program, generator, searchVars, consumer, spanned>>

(***************************************************************************)
(* quickSort.  The pivot is drawn at random.                               *)
(***************************************************************************)
Swap(s, x, y) == [s EXCEPT ![x] = s[y], ![y] = s[x]]

\* The comparator that the two sorts are called with.
Compare(a, b) ==
  IF stage = "sort generated" THEN CompareByGeneratedPositionsDeflated(a, b)
  ELSE CompareByOriginalPositions(a, b)

\* What is not greater than the pivot comes before it; i is where it ends up.
Partition(s, p, r, pivot) ==
  LET t == Swap(s, pivot, r)
      Turn(out, j) ==
        IF Compare(out.ary[j], t[r]) <= 0
          THEN [ary |-> Swap(out.ary, out.i + 1, j), i |-> out.i + 1] ELSE out
      end == FoldLeft(Turn, [ary |-> t, i |-> p - 1], [k \in 1..(r-p) |-> p + k - 1])
  IN  [ary |-> Swap(end.ary, end.i + 1, r), i |-> end.i + 1]

\* The two calls that follow a partition.
Halves(p, i, r) == Call(p, i - 1) \o Call(i + 1, r)

\* One call of doQuickSort, from ary to sorting.
DoQuickSort(ary, sorting) ==
  \E pivot \in Head(ranges).p..Head(ranges).r :
    LET p == Head(ranges).p
        r == Head(ranges).r
        out == Partition(ary, p, r, pivot)
    IN  sorting = out.ary /\ ranges' = Halves(p, out.i, r) \o Tail(ranges)

SortGenerated ==
  /\ stage = "sort generated" /\ ranges # <<>>
  /\ DoQuickSort(generated, generated')
  /\ UNCHANGED <<program, generator, searchVars, consumer, original, spanned, talkVars>>

SortOriginal ==
  /\ stage = "sort original" /\ ranges # <<>>
  /\ DoQuickSort(original, original')
  /\ UNCHANGED <<program, generator, searchVars, consumer, generated, spanned, talkVars>>

\* The generated mappings are sorted first, then the original ones.
SortEnds ==
  /\ ranges = <<>>
  /\ \/ /\ stage = "sort generated"
        /\ ranges' = Call(1, Len(original)) /\ stage' = "sort original"
     \/ stage = "sort original" /\ stage' = "ready" /\ UNCHANGED ranges
  /\ UNCHANGED <<program, generator, searchVars, consumer, generated, original, spanned,
                 back, question, answer>>

(***************************************************************************)
(* Questions, one at a time.                                               *)
(***************************************************************************)
\* _findMapping throws for a line before the first, or a column before that.
FindMapping(position, positions, b) ==
  IF ~IsPlace(position[2], position[3])
    THEN stage' = "answered" /\ answer' = Threw /\ UNCHANGED searchVars
    ELSE stage' = "searching" /\ Search(position, positions, b) /\ UNCHANGED answer

\* A source that the map does not name is answered at once.
FindInSource(q, b) ==
  LET source == Resolve(consumer.root, q.source) IN
  IF source \notin Range(consumer.sources)
    THEN stage' = "answered" /\ UNCHANGED <<answer, searchVars>>
    ELSE FindMapping(<<IndexOf(consumer.sources, source), q.line, Num(q.column)>>,
                     OriginalPositions(Self), b)

\* originalPositionFor, generatedPositionFor and allGeneratedPositionsFor.
Ask(q) ==
  /\ stage = "ready" /\ consumer.sections = <<>>
  /\ question' = q /\ back' = stage
  /\ \/ q.kind = "original"
        /\ FindMapping(<<0, q.line, q.column>>, GeneratedPositions(Self), q.bias)
     \/ q.kind = "generated" /\ FindInSource(q, q.bias)
     \/ q.kind = "all" /\ FindInSource(q, "LEAST_UPPER_BOUND")
  /\ UNCHANGED <<program, generator, consumerVars>>

SearchOn ==
  /\ SearchStep
  /\ UNCHANGED <<program, generator, consumerVars, talkVars>>

\* The end of the three functions, with what the search has found.
Reply ==
  /\ stage = "searching" /\ Return
  /\ stage' = "answered"
  /\ answer' = CASE question.kind = "original" -> OriginalPosition(Self, index, question.line)
                 [] question.kind = "generated" -> GeneratedPosition(Self, index, needle[1])
                 [] question.kind = "all" ->
                      AllGeneratedPositions(Self, index, question.line, question.column)
  /\ UNCHANGED <<program, generator, consumerVars, back, question>>

\* The program goes on.
GoOn ==
  /\ stage = "answered" /\ stage' = back
  /\ question' = NoQuestion /\ answer' = NoAnswer
  /\ UNCHANGED <<program, generator, searchVars, consumerVars, back>>

\* Left out for mappings that are alike in everything: of these each would need
\* a span of its own.
ComputeColumnSpans ==
  /\ stage = "ready" /\ consumer.sections = <<>> /\ IsInjective(generated)
  /\ spanned' = TRUE
  /\ UNCHANGED <<program, generator, searchVars, consumer, generated, original, ranges, talkVars>>

\* SourceMapGenerator.fromSourceMap: the program goes on with a generator made
\* of a map, and lets the consumer go.
Regenerate ==
  LET out == GeneratorOf(Self) IN
  /\ stage = "ready" /\ consumer.sections = <<>> /\ generator.array = <<>>
  /\ IF out.threw THEN Tell("generate", Threw, stage) /\ UNCHANGED <<generator, consumerVars>>
     ELSE /\ generator' = out.generator
          /\ consumer' = NoMap /\ generated' = <<>> /\ original' = <<>>
          /\ spanned' = FALSE /\ UNCHANGED ranges
          /\ stage' = "none" /\ UNCHANGED <<back, question, answer>>
  /\ UNCHANGED <<program, searchVars>>

Questions ==
  [kind : {"original"}, line : program.lines, column : program.columns, bias : Biases]
    \cup [kind : {"generated"}, source : program.asked, line : program.lines, column : program.columns,
          bias : Biases]
    \cup [kind : {"all"}, source : program.asked, line : program.lines, column : program.columns \cup {Null}]

ConsumerNext ==
  \/ \E m \in program.mappings : Generate(m)
  \/ \E source \in program.files, content \in program.contents : SetContent(source, content)
  \/ \E a \in program.applied : Apply(a.map, a.file, a.path)
  \/ \E map \in program.texts : Construct(map)
  \/ \E q \in Questions : Ask(q)
  \/ Stringify \/ ConstructFromGenerator \/ FromSourceMap
  \/ ParseMappings \/ SortGenerated \/ SortOriginal \/ SortEnds
  \/ SearchOn \/ Reply \/ GoOn \/ ComputeColumnSpans \/ Regenerate

ConsumerSpec == Init /\ [][ConsumerNext]_vars

(***************************************************************************)
(* Properties.                                                             *)
(***************************************************************************)
\* The mappings keep their shape, the consumer's lists are made of indices, and
\* a search goes on only while an answer is due.
TypeOK ==
  /\ generator.sorted \in BOOLEAN /\ (generator.array = <<>> <=> generator.last = Infimum)
  /\ Range(generator.array) \subseteq Lines
  /\ IsInjective(generator.sources) /\ IsInjective(generator.names)
  /\ Null \notin Range(generator.contents)
  /\ SearchTypeOK /\ (turn # "idle" <=> stage = "searching")
  /\ stage \in {"none", "text", "sections", "sort generated", "sort original",
                "ready", "searching", "answered"}
  /\ back \in {"none", "text", "sections", "ready"}
  /\ \A m \in Range(generated) : m.source \in Int \cup {Null}
  /\ Range(original) = {m \in Range(generated) : m.originalLine # Null}
  /\ \A i \in DOMAIN ranges : 1 <= ranges[i].p /\ ranges[i].r <= Len(generated)
  /\ answer.threw \in BOOLEAN /\ spanned \in BOOLEAN

\* The numbers that a shift by one leaves within its 32 bits.
Short == 0..(Modulus \div 4 - 1)

Fits(g) ==
  /\ \A m \in Range(g.array) :
       {m.generatedColumn, Num(m.originalLine), Num(m.originalColumn)} \subseteq Short
  /\ Len(g.sources) <= Modulus \div 4 /\ Len(g.names) <= Modulus \div 4

\* What can be told of a generator's mapping: no name without a source, and with a
\* source that is an empty string, the line and column 0 in it.
Told(m) ==
  IF m.source = Null THEN [m EXCEPT !.name = Null]
  ELSE [m EXCEPT !.originalLine = Num(@), !.originalColumn = Num(@)]

\* A generator's mapping, as its consumer shows it.
Shown(m) ==
  IF m.source = Null THEN Told(m)
  ELSE [Told(m) EXCEPT !.source = Show(consumer.root, IF consumer.text = <<>> THEN @
                                                      ELSE Store(consumer.root, @))]

\* A consumer that was made from a generator, over its text or directly, has the
\* mappings that were added, those with a source in both of its lists; over the
\* text this holds for numbers below 2^30, directly for strings that are not empty.
\* Of one that has an empty string, but no place, there is what can be told.
MappingsSurvive ==
  LET made == Range(consumer.made.array) IN
  /\ stage = "ready" /\ made # {}
  /\ IF consumer.text # <<>> THEN Fits(consumer.made)
     ELSE \A m \in made : EmptyString \notin {m.source, m.name}
  =>
      /\ {Inflate(Self, m) : m \in Range(generated)} = {Shown(m) : m \in made}
      /\ {Inflate(Self, m) : m \in Range(original)}
           = {Shown(m) : m \in {k \in made : k.source # Null}}

\* The mappings of ms that are nearest to a position on that side, by Pos.
Nearest(ms, Pos(_), q, b) ==
  {m \in ms : /\ OnSide(Pos(m), q, b)
              /\ \A n \in ms : OnSide(Pos(n), q, b) => OnSide(Pos(n), Pos(m), b)}

Answered(kind) == stage = "answered" /\ question.kind = kind /\ ~answer.threw

\* originalPositionFor answers with the nearest mapping of the line that was
\* asked for, on the side of the bias, and with nulls only when the line has
\* none there, or the nearest one has no source.
OriginalIsNearest ==
  Answered("original") /\ consumer.sections = <<>> =>
    LET PosOf(m) == <<0, m.generatedLine, m.generatedColumn>>
        line == {m \in Range(generated) : m.generatedLine = question.line}
        nearest == Nearest(line, PosOf, <<0, question.line, question.column>>, question.bias)
    IN  IF answer.found = <<>> THEN nearest = {} \/ \E m \in nearest : m.source = Null
        ELSE \E m \in nearest :
               /\ m.source # Null /\ IsInflatable(Self, m)
               /\ answer.found = <<OriginalOf(Inflate(Self, m))>>

\* The mappings of a source, by its name.
OfSource(s) ==
  {m \in Range(original) : /\ m.source + 1 \in DOMAIN consumer.sources
                           /\ At(consumer.sources, m.source) = Resolve(consumer.root, s)}

OriginalPos(m) == <<0, m.originalLine, m.originalColumn>>

\* generatedPositionFor answers with the nearest mapping of the source on the
\* side of the bias, and with nulls only when the source has none there, unless
\* the map names a source twice: then the mappings of its second index are not
\* seen.
GeneratedIsNearest ==
  Answered("generated") /\ consumer.sections = <<>> /\ IsInjective(consumer.sources) =>
    LET nearest == Nearest(OfSource(question.source), OriginalPos,
                           <<0, question.line, question.column>>, question.bias)
    IN  IF answer.found = <<>> THEN nearest = {}
        ELSE \E m \in nearest : answer.found = <<Place(Self, m)>>

\* allGeneratedPositionsFor leaves out no mapping of the first line, or column,
\* from the one that was asked for that has mappings of the source; what else
\* it returns is of the same line, or place, of another source.  Without a column
\* it begins at column 0, so that none may be before that.
AllPositionsAreFound ==
  /\ Answered("all") /\ consumer.sections = <<>> /\ IsInjective(consumer.sources)
  /\ question.column = Null => \A m \in Range(original) : m.originalColumn >= 0
  =>
    LET ms == IF question.column = Null THEN OfSource(question.source)
              ELSE {m \in OfSource(question.source) : m.originalLine = question.line}
        first == Nearest(ms, OriginalPos, <<0, question.line, Num(question.column)>>,
                         "LEAST_UPPER_BOUND")
        Alike(m) == \E n \in first :
                      /\ m.originalLine = n.originalLine
                      /\ question.column # Null => m.originalColumn = n.originalColumn
    IN  first # {} =>
          /\ {Place(Self, m) : m \in {k \in ms : Alike(k)}} \subseteq Range(answer.found)
          /\ Range(answer.found)
               \subseteq {Place(Self, m) : m \in {k \in Range(original) : Alike(k)}}

\* The three questions are answered with the nearest mappings there are.
AnswersAreNearest ==
  OriginalIsNearest /\ GeneratedIsNearest /\ AllPositionsAreFound

\* How many parts a root has that ".." can take away.
Depth(root) ==
  Len(SelectSeq(IF IsUrl(root) THEN SubSeq(root, 4, Len(root)) ELSE Split[root],
                LAMBDA part : part \notin {"", ".", ".."}))

\* Sources whose name under the root leads back to them: below the root, not the
\* root itself, or above it by less than its depth, and absolute only where the root is a path
\* that they are not below.
IsUnder(root, source) ==
  \/ root = Null
  \/ /\ Normalize(source) # Dot
     /\ IsAbsolute(source) => ~IsUrl(root) /\ ~IsPrefix(root, source)
     /\ Len(SelectSeq(source, LAMBDA part : part = ".."))
          < Depth(root) + (IF IsUrl(root) THEN 1 ELSE 0)

\* Every source can be asked for by the name that is shown for it, and, if the
\* root is the beginning of its own name, is not taken for another one.
IsNamed(root, sources) ==
  /\ \A s \in Range(sources) : IsUnder(root, s)
  /\ IsInjective([i \in DOMAIN sources |-> Resolve(root, sources[i])])

\* The names that a consumer shows for its sources lead back to them, each to one.
NamesLeadBack(root, sources) ==
  /\ IsInjective(sources)
  /\ \A s \in Range(sources) : Resolve(root, Show(root, s)) = s

\* They do when the sources are named well.
NamesKeep ==
  stage = "none" /\ stage' \in {"text", "sort original"} =>
    LET from == IF consumer'.made.array = <<>> THEN consumer' ELSE consumer'.made
    IN  IsNamed(from.root, from.sources) => NamesLeadBack(consumer'.root, consumer'.sources)

\* Where a place comes from can be asked for again by the name in the answer, if
\* it is a place and names lead back, and leads to a place that comes from there.
ThereAndBack ==
  Answered("original") /\ consumer.sections = <<>> /\ answer.found # <<>> =>
    LET o == answer.found[1]
        again == GeneratedPositionFor(Self, o.source, o.line, o.column, "GREATEST_LOWER_BOUND")
    IN  IsPlace(o.line, o.column) /\ NamesLeadBack(consumer.root, consumer.sources) =>
          /\ again.found # <<>>
          /\ \E m \in Range(generated) :
               /\ Place(Self, m) = again.found[1]
               /\ LET from == OriginalOf(Inflate(Self, m))
                  IN  <<from.source, from.line, from.column>> = <<o.source, o.line, o.column>>

\* computeColumnSpans divides each line among its mappings: a column is in the
\* span of one mapping at most, which is the one that originalPositionFor
\* answers with, unless another one shares its place: then the first of them is
\* answered, and the last of them has the span.
SpansTile ==
  spanned /\ Answered("original") /\ question.bias = "GREATEST_LOWER_BOUND" =>
    LET spanning == {m \in Range(generated) :
                       /\ m.generatedLine = question.line
                       /\ m.generatedColumn <= question.column
                       /\ \/ Place(Self, m).lastColumn = Infinity
                          \/ question.column <= Place(Self, m).lastColumn}
    IN  /\ spanning = {} => answer.found = <<>>
        /\ \A m \in spanning :
             /\ spanning = {m}
             /\ (\A n \in Range(generated) :
                   <<n.generatedLine, n.generatedColumn>> = <<m.generatedLine, m.generatedColumn>>
                     => n = m)
                =>
                  answer.found = IF m.source = Null THEN <<>>
                                 ELSE <<OriginalOf(Inflate(Self, m))>>

\* The answers to different questions about one map agree: the names in one are
\* understood by another, and the spans are of the mappings that it finds.
AnswersAgree == ThereAndBack /\ SpansTile

\* What is set as the content of a generator's source is what its consumer
\* answers with for the name that it shows, if names lead back, and
\* hasContentsOfAllSources says whether it has been set for all of them.
ContentsSurvive ==
  LET made == consumer.made
      Key(source) == Resolve(made.root, source)
  IN  stage = "ready" /\ made.array # <<>> /\ NamesLeadBack(consumer.root, consumer.sources) =>
        /\ \A i \in DOMAIN made.sources :
             SourceContentFor(Self, SourceNames(Self)[i], FALSE) =
               Answer(IF Key(made.sources[i]) \in DOMAIN made.contents
                        THEN made.contents[Key(made.sources[i])] ELSE Null)
        /\ made.sources # <<>> => HasContentsOfAllSources(Self) =
             (\A i \in DOMAIN made.sources : Key(made.sources[i]) \in DOMAIN made.contents)

\* What a generator was told, its mappings and contents, its consumer knows.
MapSurvives == MappingsSurvive /\ ContentsSurvive

\* applySourceMap, unless it throws, leaves a generator that can be written, with
\* no source that no mapping is from.  Also when a question throws half way, a
\* mapping keeps its place, and its origin is the old one, or as a whole one that
\* the applied map has for that place or for one before it on its line, with the
\* content that the applied map has for it; and sources, names and contents are
\* still the old ones then.
ApplyIsWhole ==
  [][stage = "none" /\ generator' # generator => \A a \in program.applied :
       Apply(a.map, a.file, a.path) =>
         LET g == generator'
             ended == stage' = "none" IN
         /\ ended => IsWritable(g)
         /\ ended => Range(g.sources) = {m.source : m \in Range(g.array)} \ {Null}
         /\ ~ended => /\ g.sources = generator.sources /\ g.names = generator.names
                      /\ g.contents = generator.contents
         /\ \A i \in DOMAIN g.array :
              LET m == generator.array[i]
                  n == g.array[i]
              IN  /\ IsValid(n)
                  /\ <<m.generatedLine, m.generatedColumn>> = <<n.generatedLine, n.generatedColumn>>
                  /\ n # m => \E k \in Range(a.map.generated) :
                       /\ k.source # Null /\ k.generatedLine = m.originalLine
                       /\ k.generatedColumn <= m.originalColumn
                       /\ <<n.originalLine, n.originalColumn>> = <<k.originalLine, k.originalColumn>>
                       /\ LET content == SourceContentFor(a.map, Inflate(a.map, k).source, TRUE).found
                          IN  ~ended \/ content = Null \/
                                content = At(GenerateSourcesContent(g), IndexOf(g.sources, n.source))
    ]_vars

\* A generator that is made of a map shows the mappings of the map, unless a
\* source is above its root; it has the contents of the sources, but for those
\* whose own name begins as the root does.
RegenerateKeeps ==
  /\ stage = "ready" /\ stage' = "none" /\ Regenerate
  /\ IsInjective(consumer.sources)
  /\ \A s \in Range(consumer.sources) : IsUnder(consumer.root, s)
  =>
     LET g == generator'
         Name(m) == IF m.source = Null THEN m ELSE [m EXCEPT !.source = Show(g.root, @)]
     IN  /\ {Name(m) : m \in Range(g.array)} = {Inflate(Self, m) : m \in Range(generated)}
         /\ \A s \in Range(g.sources) :
              Resolve(g.root, s) = s =>
                At(GenerateSourcesContent(g), IndexOf(g.sources, s))
                  = SourceContentFor(Self, Show(g.root, s), TRUE).found

===============================================================================
