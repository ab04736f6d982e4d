----------------------- MODULE IndexedSourceMapConsumer ------------------------
(***************************************************************************)
(* IndexedSourceMapConsumer: a source map made of sections, each of them a *)
(* map for the code from an offset on.  A question goes to the map of a    *)
(* section, and its answer is moved by the offset; only for eachMapping    *)
(* are the mappings of all sections put into lists of the consumer's own.  *)
(* The maps of the sections have been read; indexed ones, and sections     *)
(* with a url, which the constructor refuses, are left out.                *)
(***************************************************************************)
EXTENDS SourceMapConsumer

CONSTANT Undefined   \* undefined, where null was used as an index

\* The generatedOffset of a section, from 1.
Offset(section) == <<0, section.line + 1, section.column + 1>>

\* Each section is compared with the one before it.
IsOrdered(sections) ==
  \A i \in 2..Len(sections) : ComparePositions(Offset(sections[i-1]), Offset(sections[i])) <= 0

ConstructSections(sections) ==
  /\ stage = "none" /\ generator.array = <<>>
  /\ IF IsOrdered(sections)
       THEN /\ consumer' = [NoMap EXCEPT !.sections = sections]
            /\ stage' = "sections" /\ UNCHANGED <<back, question, answer>>
       ELSE Tell("construct", Threw, stage) /\ UNCHANGED consumer
  /\ UNCHANGED <<program, generator, searchVars, listVars>>

\* search, for the section that a position is in.  The column of an offset is
\* from 1, that of a position from 0.  Two sections that are compared with each
\* other are NaN, so that the first of equal ones is not looked for.
FindSection(sections, position) ==
  LET n == Len(sections)
      find[l \in 0..n, h \in 0..n+1] ==
        LET mid == (h - l) \div 2 + l
            cmp == ComparePositions(position, Offset(sections[mid]))
        IN  IF cmp = 0 THEN mid
            ELSE IF cmp > 0 THEN IF h - mid > 1 THEN find[mid, h] ELSE mid
            ELSE IF mid - l > 1 THEN find[l, mid] ELSE l
  IN  IF n = 0 THEN 0 ELSE find[0, n + 1]

\* originalPositionFor: the section's map is asked for the place in the section.
SectionOriginal(sections, q) ==
  LET i == FindSection(sections, <<0, q.line, q.column>>)
      s == sections[i]
  IN  IF i = 0 THEN NoAnswer
      ELSE OriginalPositionFor(s.map, q.line - s.line,
             q.column - (IF s.line + 1 = q.line THEN s.column ELSE 0), q.bias)

\* Mutant: the column is never moved.
ShiftLine(section, place) == [line |-> place.line + section.line, column |-> place.column]

\* A place in the map of a section, as a place in the code.  The line of the
\* section is compared with one that is told from the section.
Shift(section, place) ==
  [line |-> place.line + section.line,
   column |-> place.column + (IF section.line + 1 = place.line THEN section.column ELSE 0)]

\* generatedPositionFor: only the first section with such a source is asked.
\* Where that finds nothing, the nulls in its answer count as 0.
SectionGenerated(sections, q) ==
  LET naming == {i \in DOMAIN sections : q.source \in Range(SourceNames(sections[i].map))}
      s == sections[Min(naming)]
      told == GeneratedPositionFor(s.map, q.source, q.line, q.column, q.bias)
  IN  IF naming = {} THEN NoAnswer
      ELSE IF told.threw THEN Threw
      ELSE Answer(<<Shift(s, IF told.found # <<>> THEN told.found[1]
                             ELSE [line |-> 0, column |-> 0])>>)

\* sourceContentFor: the first content that is not empty.
SectionContent(sections, name, nullOnMissing) ==
  LET told == [i \in DOMAIN sections |-> SourceContentFor(sections[i].map, name, TRUE).found]
      full == {i \in DOMAIN sections : told[i] \notin {Null, EmptyString}}
  IN  IF full # {} THEN Answer(told[Min(full)])
      ELSE IF nullOnMissing THEN Answer(Null) ELSE Threw

\* allGeneratedPositionsFor: no source is known before eachMapping is called, and
\* from then on there is no _findMapping to be called.
SectionAll(q) == IF q.source \in Range(consumer.sources) THEN Threw ELSE NoAnswer

AskSections(q) ==
  /\ stage \in {"sections", "ready"} /\ consumer.sections # <<>>
  /\ stage' = "answered" /\ back' = stage /\ question' = q
  /\ answer' = CASE q.kind = "original" -> SectionOriginal(consumer.sections, q)
                 [] q.kind = "generated" -> SectionGenerated(consumer.sections, q)
                 [] q.kind = "all" -> SectionAll(q)
                 [] q.kind = "content" -> SectionContent(consumer.sections, q.source, q.nullOnMissing)
  /\ UNCHANGED <<program, generator, searchVars, consumerVars>>

(***************************************************************************)
(* _parseMappings, which eachMapping calls once.                           *)
(***************************************************************************)
\* at of an ArraySet that is asked for null.
Lookup(set, i) == IF i = Null THEN Undefined ELSE At(set, i)
IsLookup(set, i) == IF i = Null THEN set # <<>> ELSE i + 1 \in DOMAIN set

\* A mapping whose source or name is not found ends the loop with an exception,
\* and so does one without a source, where it is joined to a root.
FailsAtSource(map, m) == ~IsLookup(map.sources, m.source) \/ (m.source = Null /\ map.root # Null)
Fails(map, m) == FailsAtSource(map, m) \/ ~IsLookup(map.names, m.name)

\* The source has been added when the name is not found.
JoinMapping(out, section, m) ==
  LET map == section.map
      source == IF m.source = Null THEN Undefined ELSE Show(map.root, At(map.sources, m.source))
      name == Lookup(map.names, m.name)
      sources == Add(out.sources, source)
      names == Add(out.names, name)
      place == Shift(section, [line |-> m.generatedLine, column |-> m.generatedColumn])
  IN  IF out.threw THEN out
      ELSE IF Fails(map, m)
        THEN [out EXCEPT !.threw = TRUE,
                         !.sources = IF FailsAtSource(map, m) THEN @ ELSE sources]
      ELSE [out EXCEPT !.sources = sources, !.names = names,
              !.mappings = Append(@, [m EXCEPT
                 !.generatedLine = place.line, !.generatedColumn = place.column,
                 !.source = IndexOf(sources, source), !.name = IndexOf(names, name)])]

JoinSection(out, section) ==
  FoldLeft(LAMBDA o, m : JoinMapping(o, section, m), out, section.map.generated)

\* The lists are the consumer's from the start: what is in them when the loop
\* fails, stays there, and is not sorted.
JoinSections ==
  LET out == FoldLeft(JoinSection, [threw |-> FALSE, mappings |-> <<>>,
                                    sources |-> <<>>, names |-> <<>>], consumer.sections)
  IN  /\ stage = "sections"
      /\ consumer' = [consumer EXCEPT !.sources = out.sources, !.names = out.names]
      /\ generated' = out.mappings
      /\ original' = Originals(out.mappings)
      /\ IF out.threw THEN Tell("each", Threw, "ready") /\ UNCHANGED ranges
         ELSE /\ stage' = "sort generated" /\ ranges' = Call(1, Len(out.mappings))
              /\ UNCHANGED <<back, question, answer>>
      /\ UNCHANGED <<program, generator, searchVars, spanned>>

ContentQuestions == [kind : {"content"}, source : program.asked, nullOnMissing : BOOLEAN]

IndexedNext ==
  \/ \E sections \in program.sections : ConstructSections(sections)
  \/ \E q \in Questions \cup ContentQuestions : AskSections(q)
  \/ JoinSections

(***************************************************************************)
(* Properties.                                                             *)
(***************************************************************************)
\* The section that a position is in: the last one that does not begin after it.
Containing(line, column) ==
  {i \in DOMAIN consumer.sections :
     /\ ComparePositions(<<0, consumer.sections[i].line + 1, consumer.sections[i].column>>,
                         <<0, line, column>>) <= 0
     /\ \A j \in DOMAIN consumer.sections : j > i =>
          ComparePositions(<<0, line, column>>,
            <<0, consumer.sections[j].line + 1, consumer.sections[j].column>>) < 0}

\* The place in a section's map of a place in the code.
Within(section, line, column) ==
  [line |-> line - section.line,
   column |-> IF line = section.line + 1 THEN column - section.column ELSE column]

StartsAt(line, column) ==
  \E i \in DOMAIN consumer.sections :
    consumer.sections[i].line + 1 = line /\ consumer.sections[i].column = column

\* An indexed map answers for a place in the code what the map of the section
\* that the place is in says of it, except where a section starts: its first
\* column is taken to be before it.  No two sections may start at the same place.
SectionAnswers ==
  stage = "answered" /\ question.kind = "original" /\ consumer.sections # <<>>
    /\ IsPlace(question.line, question.column) /\ ~StartsAt(question.line, question.column)
    /\ IsInjective([i \in DOMAIN consumer.sections |-> Offset(consumer.sections[i])]) =>
    LET found == Containing(question.line, question.column) IN
    answer = IF found = {} THEN NoAnswer
             ELSE LET s == consumer.sections[Min(found)]
                      p == Within(s, question.line, question.column)
                  IN  OriginalPositionFor(s.map, p.line, p.column, question.bias)

\* A place that an indexed map answers with for a source is the place in the code
\* of a mapping of the first section that has the source, if that section has a
\* mapping to answer with, and starts on the first line or in a first column:
\* otherwise the column may be left where it is in the section, or moved in
\* another line.
SectionPlaces ==
  Answered("generated") /\ consumer.sections # <<>> /\ answer.found # <<>> =>
    LET naming == {i \in DOMAIN consumer.sections :
                     question.source \in Range(SourceNames(consumer.sections[i].map))}
        s == consumer.sections[Min(naming)]
        place == answer.found[1]
        p == Within(s, place.line, place.column)
        told == GeneratedPositionFor(s.map, question.source, question.line, question.column,
                                     question.bias)
    IN  (s.line = 0 \/ s.column = 0) /\ told.found # <<>> =>
          \E m \in Range(s.map.generated) :
            /\ <<m.generatedLine, m.generatedColumn>> = <<p.line, p.column>>
            /\ m.source # Null /\ At(SourceNames(s.map), m.source) = question.source

\* The content that an indexed map answers with for a source is what the map of
\* the first section that has a source of this name, and a content for it that
\* is not empty, would answer with; and without one it throws, or returns null if
\* it is told to.  No section may have the source under its root.
SectionContents ==
  stage = "answered" /\ question.kind = "content"
    /\ (\A i \in DOMAIN consumer.sections : consumer.sections[i].map.root = Null) =>
    LET full == {i \in DOMAIN consumer.sections :
                   LET map == consumer.sections[i].map IN
                   \E k \in DOMAIN map.sources :
                     /\ map.sources[k] = question.source
                     /\ map.contents # Null /\ map.contents[k] \notin {Null, EmptyString}}
    IN  IF full = {} THEN answer.threw = ~question.nullOnMissing /\ answer.found \in {<<>>, Null}
        ELSE /\ ~answer.threw
             /\ \E k \in DOMAIN consumer.sections[Min(full)].map.sources :
                  answer.found = consumer.sections[Min(full)].map.contents[k]

\* eachMapping of an indexed map shows the mappings of all sections, in the order
\* of the code, each at its place in the code, if the sections start on the first
\* line or in a first column, unless it has thrown before: then it shows what was
\* read until then.
SectionsShowAll ==
  LET sections == Range(consumer.sections)
      InCode(s, m) ==
        [m EXCEPT !.generatedLine = @ + s.line,
                  !.generatedColumn = IF m.generatedLine = 1 THEN @ + s.column ELSE @,
                  !.source = IF @ = Null THEN Undefined ELSE @,
                  !.name = IF @ = Null THEN Undefined ELSE @]
  IN  /\ stage = "ready" /\ consumer.sections # <<>>
      /\ \A s \in sections : /\ s.line = 0 \/ s.column = 0
                             /\ \A m \in Range(s.map.generated) : ~Fails(s.map, m)
      =>
        /\ Range(EachMapping(Self).found)
             = UNION {{InCode(s, Inflate(s.map, m)) : m \in Range(s.map.generated)} :
                        s \in sections}
        /\ \A i \in 1..(Len(generated) - 1) :
             OnSide(GeneratedPositions(Self)[i], GeneratedPositions(Self)[i+1],
                    "GREATEST_LOWER_BOUND")

\* A map made of sections says of its code what the maps of the sections say of
\* their pieces of it, to each of the questions.
SectionsSpeakForAll ==
  SectionAnswers /\ SectionPlaces /\ SectionContents /\ SectionsShowAll

===============================================================================
