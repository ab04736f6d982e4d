-------------------------------- MODULE MCEmbed --------------------------------
(***************************************************************************)
(* Embed for TLC: calls of ready and of scan.                              *)
(***************************************************************************)
EXTENDS Embed, TLC

CONSTANTS r1, r2, r3, s1, s2

\* Calls that differ in nothing but their name.
Interchangeable == Permutations(Calls \ Scans) \cup Permutations(Scans)

===============================================================================
