------------------------------ MODULE MCEmbedSeed ------------------------------
(***************************************************************************)
(* EmbedSeed for TLC.                                                      *)
(***************************************************************************)
EXTENDS EmbedSeed

CONSTANTS store, block1, block2, old1, old2, db1, db2, art1

===============================================================================
