------------------------------ MODULE MCSourceMap ------------------------------
(***************************************************************************)
(* The programs that use source-map.js, for TLC: each a small set of calls *)
(* that meets some of the hard cases, by a name of its own.                *)
(***************************************************************************)
EXTENDS SourceNode

a == <<"a">>
b == <<"b">>
x == <<"x">>
y == <<"y">>

\* The order of the strings that are used here.
Ascending == <<EmptyString, <<"..", "..", "..", "a">>, <<"..", "..", "a">>, <<"..", "a">>, <<"..", "b">>, <<"", "a">>, <<"", "b">>, <<"", "r", "a">>,
               a, b, <<"file:", "", "">>, <<"http:", "", "h", "a">>, <<"http:", "", "h", "r", "b">>, <<"r", "a">>, <<"r", "b">>, x, y>>
AboveHere(s, t) == IndexOf(Ascending, s) > IndexOf(Ascending, t)

\* The parts of these, and of the contents.
PartsHere == {"", ".", "..", "file:", "http:", "h", "a", "b", "c", "p", "q", "r", "x", "y",
              "A", "B", "R", "S", "T"}

\* A program that does nothing.
Idle == [root |-> Null, mappings |-> {}, most |-> 0, files |-> {}, contents |-> {},
         applied |-> {}, texts |-> {}, sections |-> {},
         origins |-> {}, nodes |-> 0, snippets |-> {}, size |-> 0, codes |-> {}, paths |-> {}, lines |-> {1}, columns |-> {0}, asked |-> {}]

(***************************************************************************)
(* Order.  The second and third share a place, with sources in descending  *)
(* order; the third and fifth share an original place; one has no source;  *)
(* the column 9 is beyond the numbers that fit; the last one is not valid. *)
(***************************************************************************)
Added == {
  Mapping(2, 0, a, 1, 3, x),
  Mapping(1, 1, b, 1, 0, y),
  Mapping(1, 1, a, 2, 1, Null),
  Mapping(1, 0, Null, Null, Null, Null),
  Mapping(2, 1, a, 2, 1, x),
  Mapping(1, 9, b, 2, 0, Null),
  Mapping(1, 0, Null, Null, Null, x)}

Segment(fields) == FlattenSeq([i \in DOMAIN fields |-> Encode(fields[i])])

\* What another tool has written, without a root.
Text(text, sources, names) == SourceMap(text, sources, names, Null, Null, <<>>, NewGenerator(Null))

\* Columns that go back, in a map that names source a twice, an origin before the
\* first column, an index that no source has, and texts that end within a number, or after two fields.
Foreign == {
  Text(Segment(<<2, 0, 0, 0, 0>>) \o <<Comma>> \o Segment(<<-1, 1, 0, 1>>)
              \o <<Semicolon, Comma>> \o Segment(<<0, 1, 1, -1>>)
              \o <<Comma>> \o Segment(<<1>>),
       <<a, a, b>>, <<y>>),
  Text(Segment(<<2, 1, 0, 0>>) \o <<Comma>> \o Segment(<<-2, 0, 1, -1>>)
              \o <<Comma>> \o Segment(<<1, -1, 0, 1>>) \o <<Comma>> \o Segment(<<0, 2, 0, 0>>),
       <<a, b>>, <<>>),
  Text(<<0, 0, Base>>, <<a>>, <<>>),
  Text(Segment(<<0, 0>>), <<a>>, <<>>)}

Order == [Idle EXCEPT !.mappings = Added, !.most = 4, !.texts = Foreign,
            !.lines = {0, 1, 2}, !.columns = {-1, 0, 1, 2}, !.asked = {a, b, <<"c">>}]

(***************************************************************************)
(* Roots and contents: sources below, above and at the root, with contents *)
(* under the same names; maps to be applied, in which a place of a is from *)
(* b; in one a later place of the line has a name that is none.            *)
(***************************************************************************)
Map(mappings, sources, names, root, contents) ==
  [generated |-> mappings, original |-> Originals(mappings),
   sources |-> sources, names |-> names, root |-> root, contents |-> contents,
   spanned |-> FALSE]

ToB == Map(<<Mapping(1, 1, 0, 2, 1, Null), Mapping(2, 0, 0, 1, 0, 0)>>, <<b>>, <<x>>, Null, <<<<"B">>>>)
Broken == Map(<<Mapping(2, 0, 0, 2, 1, Null), Mapping(2, 1, 0, 1, 0, 3)>>, <<b>>, <<x>>, Null, <<<<"B">>>>)

Rooted(root, sources) ==
  [Idle EXCEPT
     !.root = root, !.most = 2, !.files = sources, !.contents = {<<"A">>},
     !.mappings = {Mapping(1, 0, s, 1, 1, Null) : s \in sources}
                    \cup {Mapping(1, 1, s, 2, 1, Null) : s \in sources},
     !.texts = {SourceMap(Segment(<<0, 0, 0, 0>>) \o <<Comma>> \o Segment(<<1, 1, 1, 0>>),
                          <<s, t>>, <<>>, root, <<<<"S">>, <<"T">>>>, <<>>, NewGenerator(Null)) :
                  s, t \in sources},
     !.columns = {0, 1}]

Applied(root) ==
  [Idle EXCEPT
     !.root = root, !.most = 2, !.files = {a}, !.contents = {Null, <<"A">>},
     !.mappings = {Mapping(1, 1, a, 2, 0, Null), Mapping(1, 0, a, 2, 2, y),
                   Mapping(1, 1, b, 1, 1, x)},
     !.applied = [map : {ToB, Broken}, file : {a}, path : {Null, <<"r">>}],
     !.columns = {0, 1}]

\* Mappings without a place in a source, but with an empty string as source or
\* name; a map is applied to this source.
WithoutPlace(root) ==
  [Idle EXCEPT
     !.root = root, !.most = 3,
     !.mappings = {Mapping(1, 0, EmptyString, Null, Null, Null), Mapping(1, 1, Null, Null, Null, EmptyString),
                   Mapping(1, 1, EmptyString, Null, Null, EmptyString), Mapping(1, 1, a, 2, 1, x),
                   Mapping(1, 2, Null, Null, Null, Null)},
     !.applied = [map : {ToB}, file : {EmptyString, a}, path : {Null}],
     !.columns = 0..2, !.asked = {EmptyString, <<".">>, a}]

(***************************************************************************)
(* Sections.  In the first map all is from a source, in the second not;    *)
(* the third has a root; the last mapping of the fourth has no such name.  *)
(***************************************************************************)
Plain == Map(<<Mapping(1, 0, 0, 1, 0, 0), Mapping(1, 2, 1, 1, 0, 0), Mapping(2, 1, 0, 2, 1, 0)>>,
             <<a, b>>, <<x>>, Null, <<EmptyString, <<"B">>>>)
Gaps == Map(<<Mapping(1, 0, Null, Null, Null, Null), Mapping(1, 1, 0, 1, 1, Null)>>,
            <<a>>, <<y>>, Null, <<<<"A">>>>)
Below == Map(<<Mapping(1, 0, 0, 1, 0, 0)>>, <<a>>, <<x>>, <<"r">>, <<<<"R">>>>)
Nameless == Map(<<Mapping(1, 0, 0, 1, 0, 0), Mapping(2, 0, 0, 1, 1, 1)>>, <<b>>, <<x>>, Null, Null)

Section(line, column, map) == [line |-> line, column |-> column, map |-> map]

Sections ==
  [Idle EXCEPT
     !.sections =
       {<<Section(0, 0, m), Section(l, c, n)>> :
          m \in {Plain, Gaps}, l \in 0..1, c \in 0..2, n \in {Plain, Gaps, Below, Nameless}}
         \cup {<<Section(1, 1, Gaps), Section(1, 3, Plain), Section(3, 0, Below)>>,
               <<Section(1, 0, Plain), Section(0, 1, Gaps)>>},
     !.lines = 0..4, !.columns = 0..3, !.asked = {a, b, <<"r", "a">>}]

(***************************************************************************)
(* Trees: a root from nowhere and two nodes, of which the first may be the *)
(* parent of the second; and code that is taken apart, with maps that go   *)
(* beyond it, have two mappings at a place, or one without a source.       *)
(***************************************************************************)
Trees ==
  [Idle EXCEPT
     !.origins = {Origin(a, 1, 0, Null), Origin(a, 1, 0, x), Origin(Null, Null, Null, Null)},
     !.nodes = 3, !.size = 3, !.snippets = {<<"t">>, <<"t", Newline>>, <<Newline, "t">>},
     !.lines = {}, !.columns = {}]

WithContents ==
  [Trees EXCEPT !.nodes = 2, !.size = 2, !.snippets = {<<"t", Newline>>}, !.root = <<"r">>,
     !.origins = {Origin(a, 1, 0, Null)}, !.files = {a}, !.contents = {<<"A">>, <<"B">>}]

FromCode(mappings, sources, contents) ==
  SourceMap(FlattenSeq(mappings), sources, <<x>>, Null, contents, <<>>, NewGenerator(Null))

Pieces ==
  [Idle EXCEPT
     !.texts =
       {FromCode(<<Segment(<<0, 0, 0, 0, 0>>), <<Comma>>, Segment(<<2>>), <<Semicolon, Semicolon>>,
                   Segment(<<1, 0, 1, 1>>)>>, <<a>>, <<<<"A">>>>),
        FromCode(<<Segment(<<1, 0, 0, 0>>), <<Comma>>, Segment(<<0, 1, 0, 1>>), <<Semicolon>>,
                   Segment(<<0, 0, 1, 0>>)>>, <<a, b>>, Null),
        FromCode(<<Segment(<<1, 0, 0, 1>>), <<Comma>>, Segment(<<2, 0, 1, 0>>), <<Semicolon, Semicolon>>,
                   Segment(<<0, 0, 0, 1>>)>>, <<a>>, Null),
        FromCode(<<Segment(<<1, 0, 0, 0>>), <<Semicolon>>, Segment(<<-2, 0, 1, 0>>), <<Comma>>,
                   Segment(<<1, 0, 0, 1>>)>>, <<a>>, Null)},
     !.codes = {<<"s", "t", "u">>, <<"s", "t", "u", Newline, "v", Newline, "w", "z">>,
                <<Newline, "s">>, <<>>},
     !.paths = {Null, EmptyString, <<"p">>}]

Uses == {
  Trees, WithContents, Pieces, Sections, Order,
  Rooted(<<"r">>, {a, <<"r", "a">>, <<"..", "a">>}),
  Rooted(<<"r", "q">>, {a, <<"..", "a">>, <<"..", "..", "a">>}),
  Rooted(<<"", "r">>, {<<"", "r", "a">>, <<"", "a">>}),
  Rooted(<<"http:", "", "h">>, {a, <<"", "a">>}),
  Rooted(<<"file:", "", "">>, {a, <<"", "a">>}),
  Applied(Null), Applied(<<"r">>), WithoutPlace(Null), WithoutPlace(<<"r">>)}

===============================================================================
