----------------------------- MODULE MessageTable -----------------------------
(***************************************************************************)
(* What an application may rely on when it reads its tables: a row is      *)
(* keyed by a transaction and holds a message that very transaction        *)
(* carries for that table; rows change one at a time; and a row is lost    *)
(* only when a full rescan clears its whole table, which happens to the    *)
(* basic models only.                                                      *)
(***************************************************************************)
CONSTANTS
  Models,   \* tables
  Basic,    \* those a rescan clears
  Txs,      \* transactions
  Carried,  \* model -> transaction -> the messages it may put into the table
  None      \* no row

VARIABLES
  table,    \* model -> transaction -> the message in its row, or None
  clearing  \* a full rescan is about to begin

TableInit ==
  /\ table = [m \in Models |-> [t \in Txs |-> None]]
  /\ clearing = FALSE

Put(m, t) ==
  /\ \E b \in Carried[m][t] : table' = [table EXCEPT ![m][t] = b]
  /\ UNCHANGED clearing

Clear(m) ==
  /\ clearing
  /\ table' = [table EXCEPT ![m] = [t \in Txs |-> None]]
  /\ UNCHANGED clearing

Rescanning ==
  /\ clearing' = ~clearing
  /\ UNCHANGED table

TableNext ==
  \/ \E m \in Models, t \in Txs : Put(m, t)
  \/ \E m \in Basic : Clear(m)
  \/ Rescanning

Spec == TableInit /\ [][TableNext]_<<table, clearing>>

===============================================================================
