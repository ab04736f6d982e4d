---------------------------- MODULE SourceMapUtil -----------------------------
(***************************************************************************)
(* Mappings and how util.js compares them.  A mapping leads from a place   *)
(* in the generated code to a place in a source; it may lack the latter,   *)
(* and its name.  In a generator source and name are strings, in a         *)
(* consumer they are indices.  Null is also the false that addMapping      *)
(* stores where there is no original place.                                *)
(***************************************************************************)
EXTENDS SourceMapPaths

CONSTANT Above(_, _)   \* the order of strings: the first is greater

Mapping(gl, gc, s, ol, oc, n) ==
  [generatedLine |-> gl, generatedColumn |-> gc, source |-> s,
   originalLine |-> ol, originalColumn |-> oc, name |-> n]

\* A mapping with a place alone; as a generator has it with a place in a source,
\* or without one, when its source and name may be empty strings; and as a
\* consumer has it.
Bare == [generatedLine : Int, generatedColumn : Int, source : {Null},
         originalLine : {Null}, originalColumn : {Null}, name : {Null}]
Sourced == [generatedLine : Int, generatedColumn : Int, source : Strings,
            originalLine : Int, originalColumn : Int, name : Strings \cup {Null}]
Unplaced == [generatedLine : Int, generatedColumn : Int, source : {Null, EmptyString},
             originalLine : {Null}, originalColumn : {Null}, name : {Null, EmptyString}]
Located == [generatedLine : Int, generatedColumn : Int, source : Int,
            originalLine : Int, originalColumn : Int, name : Int \cup {Null}]
Lines == Sourced \cup Unplaced
Entries == Located \cup Bare

\* The mappings that have an original place, in their order.
Originals(mappings) ==
  FoldLeft(LAMBDA out, m : IF m.originalLine = Null THEN out ELSE Append(out, m), <<>>, mappings)

\* null and false count as 0 in a subtraction, and in a comparison with a number.
Num(x) == IF x = Null THEN 0 ELSE x
Difference(x, y) == Num(x) - Num(y)

\* A comparison with null is false both ways.
Strcmp(s, t) ==
  IF s = t THEN 0 ELSE IF s # Null /\ t # Null /\ Above(s, t) THEN 1 ELSE -1

\* Each comparator returns the first of its differences that is not 0.
FirstDifference(ds) ==
  LET differs == {i \in DOMAIN ds : ds[i] # 0}
  IN  IF differs = {} THEN 0 ELSE ds[CHOOSE i \in differs : \A j \in differs : i <= j]

CompareByOriginalPositions(a, b) == FirstDifference(<<
  Difference(a.source, b.source),
  Difference(a.originalLine, b.originalLine),
  Difference(a.originalColumn, b.originalColumn),
  Difference(a.generatedColumn, b.generatedColumn),
  Difference(a.generatedLine, b.generatedLine),
  Difference(a.name, b.name)>>)

CompareByGeneratedPositionsDeflated(a, b) == FirstDifference(<<
  Difference(a.generatedLine, b.generatedLine),
  Difference(a.generatedColumn, b.generatedColumn),
  Difference(a.source, b.source),
  Difference(a.originalLine, b.originalLine),
  Difference(a.originalColumn, b.originalColumn),
  Difference(a.name, b.name)>>)

CompareByGeneratedPositionsInflated(a, b) == FirstDifference(<<
  Difference(a.generatedLine, b.generatedLine),
  Difference(a.generatedColumn, b.generatedColumn),
  Strcmp(a.source, b.source),
  Difference(a.originalLine, b.originalLine),
  Difference(a.originalColumn, b.originalColumn),
  Strcmp(a.name, b.name)>>)

===============================================================================
