---------------------------- MODULE BundleProcessor ----------------------------
(***************************************************************************)
(* BundleProcessor.processTransactions: a thread of the HEAT core hands    *)
(* over a list of transactions; for each of them in turn the bundles are   *)
(* read and given to their handlers, which merge rows into tables.         *)
(* Several threads do this at the same time.                               *)
(*                                                                         *)
(* The handlers are the application's.  They are described by what the     *)
(* processor can tell apart: Kind, Filter, and the table they write to     *)
(* (one for each handler, as in the sample application).  What they report *)
(* to the response collector is the subject of BundleDriver.               *)
(***************************************************************************)
EXTENDS BundleReader

CONSTANTS
  Threads,    \* threads of the core that announce transactions
  Models,     \* bundle ids with a handler: its table goes by the same name
  HandlerOf,  \* bundle -> the handler of its bundle id, None without one
  Kind,       \* bundle -> what becomes of it in its handler
  Filter      \* handler -> transaction -> isConfirmed -> is it let through

(***************************************************************************)
(* "unreadable": filter or getMessage throws; "null": getMessage returns   *)
(* null; "invalid": validate throws, or apply does before it stores;       *)
(* "good": apply stores the message.                                       *)
(* A bundle of less than three bytes has no handler.                       *)
(***************************************************************************)
ASSUME ProcessorAssumption ==
  /\ None \notin Models
  /\ HandlerOf \in [Bundles -> Models \cup {None}]
  /\ Kind \in [Bundles -> {"unreadable", "null", "invalid", "good"}]
  /\ Filter \in [Models -> [Txs -> [BOOLEAN -> BOOLEAN]]]

VARIABLES
  rows,      \* model -> transaction id -> the message in its row, or None
  batch,     \* thread -> transactions left, the current one first
  confirmed, \* thread -> isConfirmed
  at,        \* thread -> "read" before getBytes, "bundles" in the loop
  todo       \* thread -> bundles of the current transaction left

processorVars == <<rows, batch, confirmed, at, todo>>

ProcessorTypeOK ==
  /\ rows \in [Models -> [Txs -> Bundles \cup {None}]]
  /\ batch \in [Threads -> Seq(Txs)]
  /\ confirmed \in [Threads -> BOOLEAN]
  /\ at \in [Threads -> {"read", "bundles"}]
  /\ todo \in [Threads -> Seq(Bundles)]

\* A thread that is in the loop over the bundles has a transaction.
InLoopHasTransaction == \A p \in Threads : at[p] = "bundles" => batch[p] # << >>

EmptyTable == [t \in Txs |-> None]

ProcessorInit ==
  /\ rows = [m \in Models |-> EmptyTable]
  /\ batch = [p \in Threads |-> << >>]
  /\ confirmed = [p \in Threads |-> FALSE]
  /\ at = [p \in Threads |-> "read"]
  /\ todo = [p \in Threads |-> << >>]

Idle(p) == batch[p] = << >>
Tx(p) == Head(batch[p])
Bundle(p) == Head(todo[p])

\* The listener calls processTransactions.
Receive(p, txs, isConfirmed) ==
  /\ Idle(p)
  /\ batch' = [batch EXCEPT ![p] = txs]
  /\ confirmed' = [confirmed EXCEPT ![p] = isConfirmed]
  /\ UNCHANGED <<rows, at, todo>>

\* Mutant: the place in the loop over the bundles is kept.
NextTransactionInLoop(p) ==
  /\ batch' = [batch EXCEPT ![p] = Tail(@)]
  /\ UNCHANGED at
  /\ todo' = [todo EXCEPT ![p] = << >>]

\* processTransaction returns or throws; either way forEach goes on.
NextTransaction(p) ==
  /\ batch' = [batch EXCEPT ![p] = Tail(@)]
  /\ at' = [at EXCEPT ![p] = "read"]
  /\ todo' = [todo EXCEPT ![p] = << >>]

ReadBytes(p) ==
  /\ ~Idle(p)
  /\ at[p] = "read"
  /\ ~GetBytesThrows(Tx(p))
  /\ todo' = [todo EXCEPT ![p] = GetBytes(Tx(p))]
  /\ at' = [at EXCEPT ![p] = "bundles"]
  /\ UNCHANGED <<rows, batch, confirmed>>

ReadBytesThrows(p) ==
  /\ ~Idle(p)
  /\ at[p] = "read"
  /\ GetBytesThrows(Tx(p))
  /\ NextTransaction(p)
  /\ UNCHANGED <<rows, confirmed>>

\* The filter lets a bundle of transaction t through to its handler.
Passes(b, t, isConfirmed) ==
  HandlerOf[b] # None /\ Filter[HandlerOf[b]][t][isConfirmed]

AtBundle(p) == at[p] = "bundles" /\ todo[p] # << >>
PassesNow(p) == Passes(Bundle(p), Tx(p), confirmed[p])

\* The continue statements: no handler, filtered, or no message.
SkipBundle(p) ==
  /\ AtBundle(p)
  /\ PassesNow(p) => Kind[Bundle(p)] = "null"
  /\ todo' = [todo EXCEPT ![p] = Tail(@)]
  /\ UNCHANGED <<rows, batch, confirmed, at>>

\* Mutant: the catch is around the loop over the transactions.
BundleThrowsOutOfTheBatch(p) ==
  /\ AtBundle(p)
  /\ PassesNow(p) /\ Kind[Bundle(p)] \in {"unreadable", "invalid"}
  /\ batch' = [batch EXCEPT ![p] = << >>]
  /\ at' = [at EXCEPT ![p] = "read"]
  /\ todo' = [todo EXCEPT ![p] = << >>]
  /\ UNCHANGED <<rows, confirmed>>

\* An exception leaves processTransaction: the bundles behind it are dropped.
BundleThrows(p) ==
  /\ AtBundle(p)
  /\ PassesNow(p) /\ Kind[Bundle(p)] \in {"unreadable", "invalid"}
  /\ NextTransaction(p)
  /\ UNCHANGED <<rows, confirmed>>

\* The row of transaction t in the table of b's handler becomes b.
Merge(b, t) == rows' = [rows EXCEPT ![HandlerOf[b]][t] = b]

\* MERGE INTO ... KEY (id): one row for each transaction, the last bundle wins.
Apply(p) ==
  /\ AtBundle(p)
  /\ PassesNow(p) /\ Kind[Bundle(p)] = "good"
  /\ Merge(Bundle(p), Tx(p))
  /\ todo' = [todo EXCEPT ![p] = Tail(@)]
  /\ UNCHANGED <<batch, confirmed, at>>

\* The database throws an SQLException; nothing is stored.
ApplyFails(p) ==
  /\ AtBundle(p)
  /\ PassesNow(p) /\ Kind[Bundle(p)] = "good"
  /\ NextTransaction(p)
  /\ UNCHANGED <<rows, confirmed>>

EndOfBundles(p) ==
  /\ at[p] = "bundles"
  /\ todo[p] = << >>
  /\ NextTransaction(p)
  /\ UNCHANGED <<rows, confirmed>>

ProcessTransactions(p) ==
  \/ ReadBytes(p) \/ ReadBytesThrows(p)
  \/ SkipBundle(p) \/ BundleThrows(p) \/ Apply(p)
  \/ EndOfBundles(p)

-------------------------------------------------------------------------------
(***************************************************************************)
(* What the loop above computes for one transaction when nothing fails:    *)
(* the last good bundle for a table, unless one before it threw.           *)
(***************************************************************************)
Throws(b, t, isConfirmed) ==
  Passes(b, t, isConfirmed) /\ Kind[b] \in {"unreadable", "invalid"}

Stored(m, t, isConfirmed) ==
  LET bs == GetBytes(t) IN
  {i \in DOMAIN bs :
     /\ HandlerOf[bs[i]] = m /\ Passes(bs[i], t, isConfirmed)
     /\ Kind[bs[i]] = "good"
     /\ \A j \in 1..(i-1) : ~Throws(bs[j], t, isConfirmed)}

Expected(m, t, isConfirmed) ==
  LET is == Stored(m, t, isConfirmed) IN
  IF GetBytesThrows(t) \/ is = {} THEN None ELSE GetBytes(t)[Max(is)]

===============================================================================
