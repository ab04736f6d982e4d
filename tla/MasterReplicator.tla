--------------------------- MODULE MasterReplicator ---------------------------
(***************************************************************************)
(* MasterReplicator between the HEAT core and the tables.  The core pushes *)
(* blocks to its chain and pops them, announces confirmed transactions     *)
(* with each block and unconfirmed ones at any time, and rescans: it calls *)
(* beforeFullRescan and then announces every block again.  The node may    *)
(* crash at any step; the chain and the tables survive.                    *)
(*                                                                         *)
(* Blocks are pushed, popped and rescanned by one thread at a time (the    *)
(* core holds its blockchain lock), the thread Pusher; the other Threads   *)
(* announce unconfirmed transactions.                                      *)
(***************************************************************************)
EXTENDS BundleProcessor, Functions

CONSTANTS
  Pusher,      \* the thread that pushes, pops and rescans
  ModelOrder,  \* the array models, without the MasterReplicator itself
  Basic,       \* the models that are instances of BasicReplicator
  MaxBlock     \* bound: transactions in one announcement

ASSUME ReplicatorAssumption ==
  /\ Pusher \in Threads
  /\ ModelOrder \in Seq(Models)
  /\ Models = Range(ModelOrder)
  /\ Basic \subseteq Models
  /\ MaxBlock \in Nat

VARIABLES
  chain,  \* the core's blocks, each the sequence of its transactions
  scan,   \* "off", "clear" in beforeFullRescan, "replay" after it
  pos,    \* position of the rescan in models, then in the chain
  hurt,   \* history: model -> transactions with a run that was cut short
  touched \* history: transactions announced as unconfirmed in this rescan

coreVars == <<chain, scan, pos>>
replicatorVars == <<coreVars, hurt, touched>>
vars == <<processorVars, replicatorVars>>

Confirmed(blocks) == UNION {Range(blocks[i]) : i \in DOMAIN blocks}
OnChain == Confirmed(chain)

\* The transactions some thread has still to finish.
Held == UNION {Range(batch[p]) : p \in Threads}

TypeOK ==
  /\ ProcessorTypeOK
  /\ InLoopHasTransaction
  /\ chain \in Seq(Seq(Txs))
  /\ scan \in {"off", "clear", "replay"}
  /\ pos \in Nat \ {0}
  /\ hurt \in [Models -> SUBSET Txs]
  /\ touched \in SUBSET Txs

Init ==
  /\ ProcessorInit
  /\ chain = << >>
  /\ scan = "off"
  /\ pos = 1
  /\ hurt = [m \in Models |-> {}]
  /\ touched = {}

\* What one event announces: some transactions, each of them once.
Announcements(ts) ==
  UNION {{s \in [1..n -> ts] : IsInjective(s)} : n \in 1..MaxBlock}

-------------------------------------------------------------------------------
(***************************************************************************)
(* The core.                                                               *)
(***************************************************************************)

\* A block is pushed: addedConfirmedListener.
PushBlock ==
  /\ scan = "off"
  /\ \E block \in Announcements(Txs \ OnChain) :
       /\ Receive(Pusher, block, TRUE)
       /\ chain' = Append(chain, block)
  /\ UNCHANGED <<scan, pos, hurt, touched>>

\* A block is popped off in a reorganisation.  MasterReplicator does not listen.
PopBlock ==
  /\ scan = "off"
  /\ Idle(Pusher)
  /\ chain # << >>
  /\ chain' = SubSeq(chain, 1, Len(chain) - 1)
  /\ UNCHANGED <<processorVars, scan, pos, hurt, touched>>

\* A transaction that is not on the chain: addedUnconfirmedListener.
Unconfirmed(p) ==
  /\ p # Pusher
  /\ \E txs \in Announcements(Txs \ OnChain) :
       /\ Receive(p, txs, FALSE)
       /\ touched' = IF scan = "off" THEN {} ELSE touched \cup Range(txs)
  /\ UNCHANGED <<coreVars, hurt>>

StartRescan ==
  /\ scan = "off"
  /\ Idle(Pusher)
  /\ scan' = "clear"
  /\ pos' = 1
  /\ touched' = Held
  /\ UNCHANGED <<processorVars, chain, hurt>>

\* Mutant: the loop over the models starts too late.
BeforeFullRescanSkipsOne ==
  LET m == ModelOrder[pos] IN
  /\ scan = "clear"
  /\ pos \in DOMAIN ModelOrder
  /\ \/ /\ m \in Basic /\ pos > 1
        /\ rows' = [rows EXCEPT ![m] = EmptyTable]
        /\ hurt' = [hurt EXCEPT ![m] = {}]
     \/ /\ m \notin Basic \/ pos = 1
        /\ UNCHANGED <<rows, hurt>>
  /\ pos' = pos + 1
  /\ UNCHANGED <<batch, confirmed, at, todo, chain, scan, touched>>

\* One round of the loop in beforeFullRescan.
BeforeFullRescan ==
  LET m == ModelOrder[pos] IN
  /\ scan = "clear"
  /\ pos \in DOMAIN ModelOrder
  /\ \/ /\ m \in Basic
        /\ rows' = [rows EXCEPT ![m] = EmptyTable]
        /\ hurt' = [hurt EXCEPT ![m] = {}]
     \/ /\ m \notin Basic
        /\ UNCHANGED <<rows, hurt>>
  /\ pos' = pos + 1
  /\ UNCHANGED <<batch, confirmed, at, todo, chain, scan, touched>>

\* The last element of models is the MasterReplicator, which is not cleared.
StartReplay ==
  /\ scan = "clear"
  /\ pos \notin DOMAIN ModelOrder
  /\ scan' = "replay"
  /\ pos' = 1
  /\ UNCHANGED <<processorVars, chain, hurt, touched>>

\* The rescan announces the next block again.
ReplayBlock ==
  /\ scan = "replay"
  /\ pos \in DOMAIN chain
  /\ Receive(Pusher, chain[pos], TRUE)
  /\ pos' = pos + 1
  /\ UNCHANGED <<chain, scan, hurt, touched>>

\* Mutant: the tables are cleared after the rescan instead of before it.
EndRescanClears ==
  /\ scan = "replay"
  /\ Idle(Pusher)
  /\ pos \notin DOMAIN chain
  /\ rows' = [m \in Models |-> IF m \in Basic THEN EmptyTable ELSE rows[m]]
  /\ scan' = "off"
  /\ pos' = 1
  /\ touched' = {}
  /\ UNCHANGED <<batch, confirmed, at, todo, chain, hurt>>

\* afterFullRescan does nothing.
EndRescan ==
  /\ scan = "replay"
  /\ Idle(Pusher)
  /\ pos \notin DOMAIN chain
  /\ scan' = "off"
  /\ pos' = 1
  /\ touched' = {}
  /\ UNCHANGED <<processorVars, chain, hurt>>

\* The node dies and starts again.  What its threads were doing is lost: the
\* transactions they held, and in a rescan those not announced again yet.
Crash ==
  /\ batch' = [p \in Threads |-> << >>]
  /\ confirmed' = [p \in Threads |-> FALSE]
  /\ at' = [p \in Threads |-> "read"]
  /\ todo' = [p \in Threads |-> << >>]
  /\ hurt' = [m \in Models |->
                hurt[m] \cup Held \cup IF scan = "off" THEN {} ELSE OnChain]
  /\ scan' = "off"
  /\ pos' = 1
  /\ touched' = {}
  /\ UNCHANGED <<rows, chain>>

-------------------------------------------------------------------------------
Process(p) ==
  \/ ProcessTransactions(p) /\ UNCHANGED replicatorVars
  \/ /\ ApplyFails(p)
     /\ hurt' = [m \in Models |-> hurt[m] \cup {Tx(p)}]
     /\ UNCHANGED <<coreVars, touched>>

Rescan == StartReplay \/ BeforeFullRescan \/ ReplayBlock \/ EndRescan

Next ==
  \/ PushBlock \/ PopBlock \/ StartRescan \/ Rescan \/ Crash
  \/ \E p \in Threads : Process(p) \/ Unconfirmed(p)

Spec == Init /\ [][Next]_vars

-------------------------------------------------------------------------------
(***************************************************************************)
(* Properties.                                                             *)
(***************************************************************************)

\* What an undisturbed run of transaction t may leave in the table of m.
Results(m, t) == {Expected(m, t, c) : c \in BOOLEAN} \ {None}

\* This rescan, if there is one, has announced transaction t again.
Replayed(m, t) ==
  \/ scan = "off"
  \/ m \notin Basic
  \/ scan = "replay" /\ t \in Confirmed(SubSeq(chain, 1, pos - 1))

\* Every message on the chain is in its table: for a transaction on the chain
\* that no thread is working on, the row is there and is one the handlers
\* conclude from the whole transaction, not from a part of it -- whatever else
\* was in its block and threw, however confirmed and unconfirmed announcements
\* of it overlapped, and in spite of reorganisations and rescans.  The
\* exceptions are a run cut short by a crash or a failing database (hurt).
ChainIsInTables ==
  \A m \in Models, t \in OnChain :
    /\ t \notin hurt[m] \cup Held
    /\ Replayed(m, t)
    /\ Expected(m, t, TRUE) # None
    => rows[m][t] \in Results(m, t)

\* A rescan rebuilds each table that is cleared from the chain alone: what
\* reorganisations, unconfirmed announcements and failures left behind is gone,
\* and nothing of the chain is missing.
RescanRebuilds ==
  scan = "replay" /\ Idle(Pusher) =>
    \A m \in Basic : \A t \in Txs \ (touched \cup hurt[m]) :
      rows[m][t] = IF t \in Confirmed(SubSeq(chain, 1, pos - 1))
                   THEN Expected(m, t, TRUE) ELSE None

\* The tables behave as MessageTable says.
Tables == INSTANCE MessageTable WITH
  table <- rows,
  clearing <- scan = "clear",
  Carried <- [m \in Models |-> [t \in Txs |->
                {b \in {Encrypted[t], ToSelf[t], Plain[t]} \ {None} :
                   HandlerOf[b] = m /\ Kind[b] = "good"}]]

KeepsTables == Tables!Spec

===============================================================================
