---------------------------- MODULE SourceMapPaths ----------------------------
(***************************************************************************)
(* Paths and URLs, by which util.js names sources.  A string is modelled   *)
(* by its parts between the slashes: "/a/b" is <<"", "a", "b">> and        *)
(* "http://h/a" is <<"http:", "", "h", "a">>.  User and port are part of   *)
(* the host; data URIs are left out.                                       *)
(***************************************************************************)
EXTENDS Integers, SequencesExt

CONSTANTS
  Null,     \* null
  Parts,    \* what may be between two slashes
  Schemes   \* the parts that end with a colon

Strings == Seq(Parts) \ {<<>>}

ASSUME PartsAssumption == {"", ".", ".."} \cup Schemes \subseteq Parts
ASSUME NullAssumption == Null \notin Int \cup Strings

EmptyString == <<"">>
Dot == <<".">>
Slash == <<"", "">>

\* urlParse finds a URL: a scheme or none, two slashes, and a host or none.
IsUrl(p) == Len(p) > 2 /\ p[1] \in Schemes \cup {""} /\ p[2] = ""

\* The path of a parsed URL, which begins with a slash or is empty.
UrlPath(url) == <<"">> \o SubSeq(url, 4, Len(url))

\* urlGenerate, for a URL that got another path.
UrlGenerate(url, path) == SubSeq(url, 1, 3) \o Tail(path)

IsAbsolute(p) == IsUrl(p) \/ (p[1] = "" /\ Len(p) > 1)

\* split(/\/+/): only the first and the last part may be empty.
Split[p \in Seq(Parts)] ==
  LET parts[n \in 0..Len(p)] ==
        IF n = 0 THEN <<>>
        ELSE IF p[n] # "" \/ n \in {1, Len(p)} THEN Append(parts[n-1], p[n]) ELSE parts[n-1]
  IN  parts[Len(p)]

\* One turn of normalize's loop, from the right: s.up of the parts that are
\* kept are ".." that still look for the part they cancel; there is none above
\* the root.
NormalizePart(s, part) ==
  CASE part = "." -> s
    [] part = ".." -> [parts |-> <<part>> \o s.parts, up |-> s.up + 1]
    [] part = "" /\ s.up > 0 ->
         [parts |-> <<part>> \o SubSeq(s.parts, s.up + 1, Len(s.parts)), up |-> 0]
    [] part \notin {".", "..", ""} /\ s.up > 0 ->
         [parts |-> Tail(s.parts), up |-> s.up - 1]
    [] OTHER -> [s EXCEPT !.parts = <<part>> \o @]

\* The loop, from the last part on.
NormalizeParts[parts \in Seq(Parts)] ==
  LET s[n \in 0..Len(parts)] ==
        IF n = 0 THEN [parts |-> <<>>, up |-> 0]
        ELSE NormalizePart(s[n-1], parts[Len(parts) + 1 - n])
  IN  s[Len(parts)]

NormalizePath(path) ==
  LET parts == NormalizeParts[Split[path]].parts
  IN  IF parts \notin {<<>>, EmptyString} THEN parts
      ELSE IF IsAbsolute(path) THEN Slash ELSE Dot

Normalize(p) ==
  IF ~IsUrl(p) THEN NormalizePath(p)
  ELSE IF UrlPath(p) = EmptyString THEN p ELSE UrlGenerate(p, NormalizePath(UrlPath(p)))

\* replace(/\/+$/, ""): without the slashes at its end.
WithoutSlashes(p) == SubSeq(p, 1, Max({1} \cup {i \in DOMAIN p : p[i] # ""}))

\* The path of a root that another path is joined to.
RootPath(root) ==
  IF ~IsUrl(root) THEN root ELSE IF UrlPath(root) = EmptyString THEN Slash ELSE UrlPath(root)

\* join, of two that are not empty: a URL stays as it is, but for a scheme that
\* it lacks; an absolute path replaces the path of the root.
Joined[paths \in Strings \X Strings] ==
  LET root == paths[1]
      path == paths[2]
      joined == IF path[1] = "" THEN path ELSE Normalize(WithoutSlashes(RootPath(root)) \o path)
  IN  CASE IsUrl(path) -> IF path[1] = "" /\ IsUrl(root) THEN <<root[1]>> \o Tail(path) ELSE path
        [] ~IsUrl(path) /\ IsUrl(root) /\ root[3] = "" /\ UrlPath(root) = EmptyString ->
             SubSeq(root, 1, 2) \o path
        [] ~IsUrl(path) /\ IsUrl(root) /\ (root[3] # "" \/ UrlPath(root) # EmptyString) ->
             UrlGenerate(root, joined)
        [] ~IsUrl(path) /\ ~IsUrl(root) -> joined

OrDot(path) == IF path = EmptyString THEN Dot ELSE path
Join(root, path) == Joined[<<OrDot(root), OrDot(path)>>]

\* Nothing is left of a root but its scheme, or slashes.
IsExhausted(root) ==
  /\ \A i \in 2..Len(root) : root[i] = ""
  /\ root[1] \in Schemes => Len(root) > 1
  /\ root[1] \in Schemes \cup {""}

WithoutSlash(root) == IF root[Len(root)] = "" THEN Front(root) ELSE root

\* How many parts the root keeps until it is a prefix of the path; none, if it is
\* exhausted before.
Kept(root, path) ==
  Max({0} \cup {k \in DOMAIN root : /\ IsStrictPrefix(SubSeq(root, 1, k), path)
                                    /\ \A j \in k..Len(root)-1 : ~IsExhausted(SubSeq(root, 1, j))})

\* Mutant: no "../" for the parts that the root has lost.
UnderPrefix[paths \in Seq(Parts) \X Strings] ==
  SubSeq(paths[2], Kept(paths[1], paths[2]) + 1, Len(paths[2]))
RelativeOfPrefix(root, path) == UnderPrefix[<<WithoutSlash(OrDot(root)), path>>]

\* relative: the root loses parts at its end until it is a prefix of the path,
\* with a "../" for each; without such a prefix the path stays as it is.
Under[paths \in Seq(Parts) \X Strings] ==
  LET root == paths[1]
      path == paths[2]
      kept == Kept(root, path)
  IN  IF kept = 0 THEN path
      ELSE [i \in 1..(Len(root) - kept) |-> ".."] \o SubSeq(path, kept + 1, Len(path))
Relative(root, path) == Under[<<WithoutSlash(OrDot(root)), path>>]

\* A source under a root, as a consumer shows it, and back.
Show(root, source) == IF root = Null THEN source ELSE Join(root, source)
Resolve(root, source) == IF root = Null THEN source ELSE Relative(root, source)

===============================================================================
