------------------------ MODULE MasterReplicatorProofs ------------------------
(***************************************************************************)
(* Proofs about MasterReplicator, for any transactions, handlers, filters, *)
(* threads and models: its type invariant, that the tables behave as       *)
(* MessageTable promises, that what the chain has is in its table, and     *)
(* that a rescan rebuilds the tables from the chain alone.                 *)
(***************************************************************************)
EXTENDS MasterReplicator, TLAPS

-------------------------------------------------------------------------------
(***************************************************************************)
(* What the operators return.                                              *)
(***************************************************************************)

\* An event announces a sequence of transactions.
LEMMA AnnouncementsAreSeqs ==
  ASSUME NEW ts, NEW s \in Announcements(ts)
  PROVE  s \in Seq(ts)
<1>1. PICK n \in 1..MaxBlock : s \in [1..n -> ts]
  BY DEF Announcements
<1>2. n \in Nat
  BY <1>1, ReplicatorAssumption DEF ReplicatorAssumption
<1>. QED BY <1>1, <1>2

\* An attachment that is present holds a bundle.
LEMMA IfPresentType ==
  ASSUME NEW b \in Bundles \cup {None}
  PROVE  /\ IfPresent(b) \in Seq(Bundles)
         /\ \A i \in DOMAIN IfPresent(b) : IfPresent(b)[i] = b
BY DEF IfPresent

\* The bundles transaction t carries.
Attached(t) == {Encrypted[t], ToSelf[t], Plain[t]} \ {None}

\* The elements of a concatenation come from its parts.
LEMMA ConcatFrom ==
  ASSUME NEW S, NEW s \in Seq(S), NEW r \in Seq(S), NEW P,
         \A i \in DOMAIN s : s[i] \in P, \A i \in DOMAIN r : r[i] \in P
  PROVE  /\ s \o r \in Seq(S)
         /\ \A i \in DOMAIN (s \o r) : (s \o r)[i] \in P
OBVIOUS

\* getBytes returns bundles, all of them attached to the transaction.
LEMMA GetBytesType ==
  ASSUME NEW t \in Txs
  PROVE  /\ GetBytes(t) \in Seq(Bundles)
         /\ \A i \in DOMAIN GetBytes(t) : GetBytes(t)[i] \in Attached(t)
<1>1. /\ Encrypted[t] \in Bundles \cup {None}
      /\ ToSelf[t] \in Bundles \cup {None}
      /\ Plain[t] \in Bundles \cup {None}
      /\ None \notin Bundles
  BY ReaderAssumption DEF ReaderAssumption
<1>2. ASSUME NEW b \in {Encrypted[t], ToSelf[t], Plain[t]}
      PROVE  /\ IfPresent(b) \in Seq(Bundles)
             /\ \A i \in DOMAIN IfPresent(b) : IfPresent(b)[i] \in Attached(t)
  BY <1>1 DEF IfPresent, Attached
<1>. DEFINE e == IfPresent(Encrypted[t])
            f == IfPresent(ToSelf[t])
            g == IfPresent(Plain[t])
            h == IF Me = None THEN << >> ELSE e \o f
<1>3. /\ e \in Seq(Bundles) /\ f \in Seq(Bundles) /\ g \in Seq(Bundles)
      /\ \A i \in DOMAIN e : e[i] \in Attached(t)
      /\ \A i \in DOMAIN f : f[i] \in Attached(t)
      /\ \A i \in DOMAIN g : g[i] \in Attached(t)
  BY <1>2
<1>. HIDE DEF e, f, g
<1>4. /\ e \o f \in Seq(Bundles)
      /\ \A i \in DOMAIN (e \o f) : (e \o f)[i] \in Attached(t)
  BY <1>3, ConcatFrom
<1>5. /\ h \in Seq(Bundles)
      /\ \A i \in DOMAIN h : h[i] \in Attached(t)
  BY <1>4
<1>. HIDE DEF h
<1>6. /\ h \o g \in Seq(Bundles)
      /\ \A i \in DOMAIN (h \o g) : (h \o g)[i] \in Attached(t)
  BY <1>3, <1>5, ConcatFrom
<1>7. GetBytes(t) = h \o g
  BY DEF GetBytes, e, f, g, h
<1>. QED BY <1>6, <1>7

-------------------------------------------------------------------------------
(***************************************************************************)
(* Type correctness.                                                       *)
(***************************************************************************)

\* The initial state has its types.
LEMMA InitType == Init => TypeOK
BY ReplicatorAssumption, ProcessorAssumption
   DEF Init, TypeOK, ProcessorInit, ProcessorTypeOK, InLoopHasTransaction,
       EmptyTable, ReplicatorAssumption

\* A thread that is idle may be handed any sequence of transactions.
LEMMA ReceiveType ==
  ASSUME ProcessorTypeOK, InLoopHasTransaction, NEW p \in Threads,
         NEW s \in Seq(Txs), NEW c \in BOOLEAN, Receive(p, s, c)
  PROVE  ProcessorTypeOK' /\ InLoopHasTransaction'
BY DEF ProcessorTypeOK, InLoopHasTransaction, Receive, Idle

\* Going on to the next transaction.
LEMMA NextTransactionType ==
  ASSUME ProcessorTypeOK, InLoopHasTransaction, NEW p \in Threads,
         ~Idle(p), NextTransaction(p)
  PROVE  /\ batch' \in [Threads -> Seq(Txs)]
         /\ at' \in [Threads -> {"read", "bundles"}]
         /\ todo' \in [Threads -> Seq(Bundles)]
         /\ InLoopHasTransaction'
BY DEF ProcessorTypeOK, InLoopHasTransaction, NextTransaction, Idle

\* Every step of a run.
LEMMA ProcessType ==
  ASSUME ProcessorTypeOK, InLoopHasTransaction, NEW p \in Threads,
         ProcessTransactions(p) \/ ApplyFails(p)
  PROVE  ProcessorTypeOK' /\ InLoopHasTransaction'
<1>1. CASE ReadBytes(p)
  <2>1. Tx(p) \in Txs
    BY <1>1 DEF ReadBytes, Idle, Tx, ProcessorTypeOK
  <2>2. GetBytes(Tx(p)) \in Seq(Bundles)
    BY <2>1, GetBytesType
  <2>. QED
    BY <1>1, <2>2 DEF ReadBytes, ProcessorTypeOK, InLoopHasTransaction, Idle
<1>2. CASE ReadBytesThrows(p)
  BY <1>2, NextTransactionType DEF ReadBytesThrows, ProcessorTypeOK
<1>3. CASE SkipBundle(p)
  BY <1>3 DEF SkipBundle, AtBundle, ProcessorTypeOK, InLoopHasTransaction
<1>4. ASSUME at[p] = "bundles" PROVE ~Idle(p)
  BY <1>4 DEF InLoopHasTransaction, Idle
<1>5. CASE BundleThrows(p)
  BY <1>5, <1>4, NextTransactionType DEF BundleThrows, AtBundle, ProcessorTypeOK
<1>6. CASE Apply(p)
  <2>1. /\ Bundle(p) \in Bundles
        /\ Tx(p) \in Txs
    BY <1>6, <1>4 DEF Apply, AtBundle, Bundle, Tx, Idle, ProcessorTypeOK
  <2>2. HandlerOf[Bundle(p)] \in Models
    BY <1>6, <2>1, ProcessorAssumption
    DEF Apply, PassesNow, Passes, ProcessorAssumption
  <2>3. rows' \in [Models -> [Txs -> Bundles \cup {None}]]
    BY <1>6, <2>1, <2>2 DEF Apply, Merge, ProcessorTypeOK
  <2>. QED
    BY <1>6, <2>3 DEF Apply, AtBundle, ProcessorTypeOK, InLoopHasTransaction
<1>7. CASE EndOfBundles(p)
  BY <1>7, <1>4, NextTransactionType DEF EndOfBundles, ProcessorTypeOK
<1>8. CASE ApplyFails(p)
  BY <1>8, <1>4, NextTransactionType DEF ApplyFails, AtBundle, ProcessorTypeOK
<1>. QED BY <1>1, <1>2, <1>3, <1>5, <1>6, <1>7, <1>8 DEF ProcessTransactions

\* The transactions a thread holds are transactions.
LEMMA HeldType == ASSUME TypeOK PROVE Held \in SUBSET Txs /\ OnChain \in SUBSET Txs
BY DEF TypeOK, ProcessorTypeOK, Held, OnChain, Confirmed, Range

\* Every step keeps the types.
LEMMA StepType == ASSUME TypeOK, [Next]_vars PROVE TypeOK'
<1>1. CASE PushBlock
  <2>1. PICK b \in Announcements(Txs \ OnChain) :
          Receive(Pusher, b, TRUE) /\ chain' = Append(chain, b)
    BY <1>1 DEF PushBlock
  <2>2. b \in Seq(Txs)
    BY <2>1, AnnouncementsAreSeqs
  <2>3. ProcessorTypeOK' /\ InLoopHasTransaction'
    BY <2>1, <2>2, ReceiveType, ReplicatorAssumption
    DEF TypeOK, ReplicatorAssumption
  <2>4. chain' \in Seq(Seq(Txs))
    BY <2>1, <2>2 DEF TypeOK
  <2>. QED BY <1>1, <2>3, <2>4 DEF PushBlock, TypeOK
<1>2. CASE PopBlock
  <2>1. chain' \in Seq(Seq(Txs))
    BY <1>2 DEF PopBlock, TypeOK
  <2>. QED
    BY <1>2, <2>1
    DEF PopBlock, TypeOK, processorVars, ProcessorTypeOK, InLoopHasTransaction
<1>3. CASE StartRescan
  BY <1>3, HeldType
  DEF StartRescan, TypeOK, processorVars, ProcessorTypeOK, InLoopHasTransaction
<1>4. CASE StartReplay
  BY <1>4
  DEF StartReplay, TypeOK, processorVars, ProcessorTypeOK, InLoopHasTransaction
<1>5. CASE BeforeFullRescan
  <2>1. rows' \in [Models -> [Txs -> Bundles \cup {None}]]
    BY <1>5 DEF BeforeFullRescan, EmptyTable, TypeOK, ProcessorTypeOK
  <2>2. hurt' \in [Models -> SUBSET Txs]
    BY <1>5 DEF BeforeFullRescan, TypeOK
  <2>. QED
    BY <1>5, <2>1, <2>2
    DEF BeforeFullRescan, TypeOK, ProcessorTypeOK, InLoopHasTransaction
<1>6. CASE ReplayBlock
  <2>1. chain[pos] \in Seq(Txs)
    BY <1>6 DEF ReplayBlock, TypeOK
  <2>2. ProcessorTypeOK' /\ InLoopHasTransaction'
    BY <1>6, <2>1, ReceiveType, ReplicatorAssumption
    DEF ReplayBlock, TypeOK, ReplicatorAssumption
  <2>. QED BY <1>6, <2>2 DEF ReplayBlock, TypeOK
<1>7. CASE EndRescan
  BY <1>7
  DEF EndRescan, TypeOK, processorVars, ProcessorTypeOK, InLoopHasTransaction
<1>8. CASE Crash
  <2>1. hurt' \in [Models -> SUBSET Txs]
    BY <1>8, HeldType DEF Crash, TypeOK
  <2>2. ProcessorTypeOK' /\ InLoopHasTransaction'
    BY <1>8 DEF Crash, TypeOK, ProcessorTypeOK, InLoopHasTransaction
  <2>. QED BY <1>8, <2>1, <2>2 DEF Crash, TypeOK
<1>9. ASSUME NEW p \in Threads, Process(p) PROVE TypeOK'
  <2>1. ProcessorTypeOK' /\ InLoopHasTransaction'
    BY <1>9, ProcessType DEF Process, TypeOK
  <2>2. CASE ProcessTransactions(p) /\ UNCHANGED replicatorVars
    BY <2>1, <2>2 DEF TypeOK, replicatorVars, coreVars
  <2>3. CASE /\ ApplyFails(p)
             /\ hurt' = [m \in Models |-> hurt[m] \cup {Tx(p)}]
             /\ UNCHANGED <<coreVars, touched>>
    <3>1. Tx(p) \in Txs
      BY <2>3 DEF ApplyFails, AtBundle, Tx, TypeOK, ProcessorTypeOK,
                  InLoopHasTransaction
    <3>2. hurt' \in [Models -> SUBSET Txs]
      BY <2>3, <3>1 DEF TypeOK
    <3>. QED BY <2>1, <2>3, <3>2 DEF TypeOK, coreVars
  <2>. QED BY <1>9, <2>2, <2>3 DEF Process
<1>10. ASSUME NEW p \in Threads, Unconfirmed(p) PROVE TypeOK'
  <2>1. PICK s \in Announcements(Txs \ OnChain) :
          /\ Receive(p, s, FALSE)
          /\ touched' = IF scan = "off" THEN {} ELSE touched \cup Range(s)
    BY <1>10 DEF Unconfirmed
  <2>2. s \in Seq(Txs)
    BY <2>1, AnnouncementsAreSeqs
  <2>3. ProcessorTypeOK' /\ InLoopHasTransaction'
    BY <2>1, <2>2, ReceiveType DEF TypeOK
  <2>4. touched' \in SUBSET Txs
    BY <2>1, <2>2 DEF TypeOK, Range
  <2>. QED BY <1>10, <2>3, <2>4 DEF Unconfirmed, TypeOK, coreVars
<1>11. CASE UNCHANGED vars
  BY <1>11
  DEF TypeOK, ProcessorTypeOK, InLoopHasTransaction, vars, processorVars,
      replicatorVars, coreVars
<1>. QED
  BY <1>1, <1>2, <1>3, <1>4, <1>5, <1>6, <1>7, <1>8, <1>9, <1>10, <1>11
  DEF Next, Rescan

\* Whatever the core announces, replays or pops, and wherever the node crashes,
\* the state keeps its shape, and a thread inside the loop over the bundles has
\* a transaction to go with them.
THEOREM TypeCorrect == Spec => []TypeOK
<1>1. Init => TypeOK
  BY InitType
<1>2. TypeOK /\ [Next]_vars => TypeOK'
  BY StepType
<1>. QED BY <1>1, <1>2, PTL DEF Spec

-------------------------------------------------------------------------------
(***************************************************************************)
(* The tables refine MessageTable.  A row can only be right if the bundles *)
(* a thread still has to apply belong to the transaction it is at: they    *)
(* are read for it and dropped with it.                                    *)
(***************************************************************************)
OwnBundles(p) ==
  /\ at[p] = "read" => todo[p] = << >>
  /\ ~Idle(p) => \A i \in DOMAIN todo[p] : todo[p][i] \in Attached(Tx(p))

TodoInv == \A p \in Threads : OwnBundles(p)

\* Taking the first bundle off the list leaves bundles of the list.
LEMMA TailOfTodo ==
  ASSUME NEW S, NEW s \in Seq(Bundles), s # << >>, \A i \in DOMAIN s : s[i] \in S
  PROVE  Head(s) \in S /\ \A i \in DOMAIN Tail(s) : Tail(s)[i] \in S
<1>1. Head(s) = s[1] /\ 1 \in DOMAIN s
  OBVIOUS
<1>2. ASSUME NEW i \in DOMAIN Tail(s)
      PROVE  Tail(s)[i] = s[i + 1] /\ i + 1 \in DOMAIN s
  OBVIOUS
<1>. QED BY <1>1, <1>2

\* The other threads keep their bundles.
LEMMA OthersKeepBundles ==
  ASSUME NEW p \in Threads, NEW q \in Threads, OwnBundles(q),
         at'[q] = at[q], todo'[q] = todo[q], batch'[q] = batch[q]
  PROVE  OwnBundles(q)'
BY DEF OwnBundles, Idle, Tx

\* A step of a run keeps to the bundles of its transaction.
LEMMA ProcessOwnBundles ==
  ASSUME TypeOK, NEW p \in Threads, OwnBundles(p),
         ProcessTransactions(p) \/ ApplyFails(p)
  PROVE  OwnBundles(p)'
<1>. USE DEF TypeOK, ProcessorTypeOK
<1>1. CASE ReadBytes(p)
  <2>1. Tx(p) \in Txs /\ ~Idle(p) /\ batch' = batch
    BY <1>1 DEF ReadBytes, Idle, Tx
  <2>2. todo'[p] = GetBytes(Tx(p)) /\ at'[p] = "bundles"
    BY <1>1 DEF ReadBytes
  <2>3. \A i \in DOMAIN GetBytes(Tx(p)) : GetBytes(Tx(p))[i] \in Attached(Tx(p))
    BY <2>1, GetBytesType
  <2>. QED BY <2>1, <2>2, <2>3 DEF OwnBundles, Idle, Tx
<1>2. ASSUME NextTransaction(p) PROVE OwnBundles(p)'
  BY <1>2 DEF NextTransaction, OwnBundles
<1>3. ASSUME AtBundle(p), batch' = batch, at' = at,
             todo' = [todo EXCEPT ![p] = Tail(@)]
      PROVE  OwnBundles(p)'
  <2>1. todo'[p] = Tail(todo[p]) /\ at'[p] = "bundles"
    BY <1>3 DEF AtBundle
  <2>2. ~Idle(p) => \A i \in DOMAIN Tail(todo[p]) :
                      Tail(todo[p])[i] \in Attached(Tx(p))
    BY <1>3, TailOfTodo DEF AtBundle, OwnBundles
  <2>. QED BY <1>3, <2>1, <2>2 DEF OwnBundles, Idle, Tx
<1>4. CASE SkipBundle(p)
  BY <1>3, <1>4 DEF SkipBundle
<1>5. CASE Apply(p)
  BY <1>3, <1>5 DEF Apply
<1>. QED
  BY <1>1, <1>2, <1>4, <1>5
  DEF ProcessTransactions, ApplyFails, ReadBytesThrows, BundleThrows, EndOfBundles

\* A thread that is handed transactions has no bundles of earlier ones left.
LEMMA ReceiveOwnBundles ==
  ASSUME TypeOK, NEW p \in Threads, OwnBundles(p), NEW s, NEW c, Receive(p, s, c)
  PROVE  OwnBundles(p)'
<1>1. at[p] = "read"
  BY DEF Receive, Idle, TypeOK, ProcessorTypeOK, InLoopHasTransaction
<1>2. todo[p] = << >>
  BY <1>1 DEF OwnBundles
<1>3. todo'[p] = << >>
  BY <1>2 DEF Receive
<1>. QED BY <1>3 DEF OwnBundles

\* So does every other step.
LEMMA StepTodo == ASSUME TypeOK, TodoInv, [Next]_vars PROVE TodoInv'
<1>. SUFFICES ASSUME NEW q \in Threads PROVE OwnBundles(q)'
  BY DEF TodoInv
<1>1. OwnBundles(q)
  BY DEF TodoInv
<1>2. ASSUME at' = at, todo' = todo, batch' = batch PROVE OwnBundles(q)'
  BY <1>1, <1>2, OthersKeepBundles
<1>3. ASSUME NEW p \in Threads, NEW s, NEW c, Receive(p, s, c)
      PROVE  OwnBundles(q)'
  <2>1. CASE p = q
    BY <1>1, <1>3, <2>1, ReceiveOwnBundles
  <2>2. CASE p # q
    BY <1>1, <1>3, <2>2, OthersKeepBundles
    DEF Receive, TypeOK, ProcessorTypeOK
  <2>. QED BY <2>1, <2>2
<1>4. ASSUME NEW p \in Threads, ProcessTransactions(p) \/ ApplyFails(p)
      PROVE  OwnBundles(q)'
  <2>1. CASE p = q
    BY <1>1, <1>4, <2>1, ProcessOwnBundles
  <2>2. CASE p # q
    <3>1. at'[q] = at[q] /\ todo'[q] = todo[q] /\ batch'[q] = batch[q]
      BY <1>4, <2>2
      DEF ProcessTransactions, ApplyFails, ReadBytes, ReadBytesThrows,
          SkipBundle, BundleThrows, Apply, EndOfBundles, NextTransaction,
          TypeOK, ProcessorTypeOK
    <3>. QED BY <1>1, <3>1, OthersKeepBundles
  <2>. QED BY <2>1, <2>2
<1>5. CASE PushBlock
  BY <1>3, <1>5, ReplicatorAssumption DEF PushBlock, ReplicatorAssumption
<1>6. CASE ReplayBlock
  BY <1>3, <1>6, ReplicatorAssumption DEF ReplayBlock, ReplicatorAssumption
<1>7. CASE \E p \in Threads : Unconfirmed(p)
  BY <1>3, <1>7 DEF Unconfirmed
<1>8. CASE \E p \in Threads : Process(p)
  BY <1>4, <1>8 DEF Process
<1>9. CASE Crash
  BY <1>9 DEF Crash, OwnBundles, Idle
<1>10. CASE BeforeFullRescan
  BY <1>2, <1>10 DEF BeforeFullRescan
<1>11. CASE PopBlock \/ StartRescan \/ StartReplay \/ EndRescan
  BY <1>2, <1>11 DEF PopBlock, StartRescan, StartReplay, EndRescan, processorVars
<1>12. CASE UNCHANGED vars
  BY <1>2, <1>12 DEF vars, processorVars
<1>. QED
  BY <1>5, <1>6, <1>7, <1>8, <1>9, <1>10, <1>11, <1>12 DEF Next, Rescan

\* The types and TodoInv hold throughout.
LEMMA TodoInvariant == Spec => [](TypeOK /\ TodoInv)
<1>1. Init => TypeOK /\ TodoInv
  <2>1. Init => TodoInv
    BY DEF Init, ProcessorInit, TodoInv, OwnBundles, Idle
  <2>. QED BY <2>1, InitType
<1>2. TypeOK /\ TodoInv /\ [Next]_vars => (TypeOK /\ TodoInv)'
  BY StepType, StepTodo
<1>. QED BY <1>1, <1>2, PTL DEF Spec

\* The messages transaction t may put into the table of m.
Messages == [m \in Models |-> [t \in Txs |->
               {b \in {Encrypted[t], ToSelf[t], Plain[t]} \ {None} :
                  HandlerOf[b] = m /\ Kind[b] = "good"}]]

\* The tables start as MessageTable has them start: empty.
LEMMA InitTables == Init => Tables!TableInit
BY DEF Init, ProcessorInit, EmptyTable, Tables!TableInit

\* A step that leaves the rows and beforeFullRescan alone is a stutter.
LEMMA StepTables ==
  ASSUME TypeOK, TodoInv, [Next]_vars
  PROVE  [Tables!TableNext]_<<rows, scan = "clear">>
<1>. SUFFICES ASSUME <<rows, scan = "clear">>' # <<rows, scan = "clear">>
     PROVE  Tables!TableNext
  OBVIOUS
<1>1. CASE rows' = rows
  <2>1. (scan = "clear")' = ~(scan = "clear")
    BY <1>1
  <2>. QED BY <1>1, <2>1 DEF Tables!TableNext, Tables!Rescanning
<1>2. ASSUME NEW p \in Threads, Apply(p), UNCHANGED scan
      PROVE  Tables!TableNext
  <2>1. ~Idle(p)
    BY <1>2 DEF Apply, AtBundle, TypeOK, InLoopHasTransaction, Idle
  <2>2. Tx(p) \in Txs /\ Bundle(p) \in Bundles
    BY <1>2, <2>1
    DEF Apply, AtBundle, Bundle, Tx, Idle, TypeOK, ProcessorTypeOK
  <2>3. HandlerOf[Bundle(p)] \in Models /\ Kind[Bundle(p)] = "good"
    BY <1>2, <2>2, ProcessorAssumption
    DEF Apply, PassesNow, Passes, ProcessorAssumption
  <2>4. Bundle(p) \in Attached(Tx(p))
    BY <1>2, <2>1, TailOfTodo
    DEF Apply, AtBundle, TodoInv, OwnBundles, Bundle, TypeOK, ProcessorTypeOK
  <2>5. Bundle(p) \in Messages[HandlerOf[Bundle(p)]][Tx(p)]
    BY <2>2, <2>3, <2>4 DEF Messages, Attached
  <2>6. rows' = [rows EXCEPT ![HandlerOf[Bundle(p)]][Tx(p)] = Bundle(p)]
    BY <1>2 DEF Apply, Merge
  <2>7. Tables!Put(HandlerOf[Bundle(p)], Tx(p))
    BY <1>2, <2>5, <2>6 DEF Tables!Put, Messages
  <2>. QED BY <2>2, <2>3, <2>7 DEF Tables!TableNext
<1>3. CASE BeforeFullRescan /\ rows' # rows
  <2>. DEFINE m == ModelOrder[pos]
  <2>1. m \in Basic /\ rows' = [rows EXCEPT ![m] = EmptyTable]
    BY <1>3 DEF BeforeFullRescan
  <2>2. Tables!Clear(m)
    BY <1>3, <2>1 DEF BeforeFullRescan, Tables!Clear, EmptyTable
  <2>. QED BY <2>1, <2>2 DEF Tables!TableNext
<1>4. CASE PushBlock \/ PopBlock \/ StartRescan \/ StartReplay \/ ReplayBlock
           \/ EndRescan \/ Crash \/ UNCHANGED vars
  <2>1. rows' = rows
    BY <1>4
    DEF PushBlock, PopBlock, StartRescan, StartReplay, ReplayBlock, EndRescan,
        Crash, vars, processorVars, Receive
  <2>. QED BY <1>1, <2>1
<1>5. CASE \E p \in Threads : Unconfirmed(p)
  BY <1>1, <1>5 DEF Unconfirmed, Receive
<1>6. CASE \E p \in Threads : Process(p)
  <2>1. PICK p \in Threads : Process(p)
    BY <1>6
  <2>2. CASE Apply(p) /\ UNCHANGED scan
    BY <1>2, <2>2
  <2>3. CASE rows' = rows
    BY <1>1, <2>3
  <2>. QED
    BY <2>1, <2>2, <2>3
    DEF Process, ProcessTransactions, ApplyFails, ReadBytes, ReadBytesThrows,
        SkipBundle, BundleThrows, EndOfBundles, replicatorVars, coreVars
<1>7. CASE BeforeFullRescan /\ rows' = rows
  BY <1>1, <1>7
<1>. QED BY <1>3, <1>4, <1>5, <1>6, <1>7 DEF Next, Rescan

\* A row only ever changes to a message its own transaction carries for that
\* table, one row at a time, and rows vanish only when a rescan clears a whole
\* basic model: for any interleaving of announcements, crashes, failures of
\* the database and reorganisations.
THEOREM TablesAreKept == Spec => KeepsTables
<1>1. Init => Tables!TableInit
  BY InitTables
<1>2. TypeOK /\ TodoInv /\ [Next]_vars
        => [Tables!TableNext]_<<rows, scan = "clear">>
  BY StepTables
<1>. QED
  BY <1>1, <1>2, TodoInvariant, PTL DEF Spec, KeepsTables, Tables!Spec

-------------------------------------------------------------------------------
(***************************************************************************)
(* The tables hold what the chain says.  A thread works through the        *)
(* bundles of its transaction in the order of getBytes, and what it has    *)
(* passed has not thrown.                                                  *)
(***************************************************************************)
Passed(p) == Len(GetBytes(Tx(p))) - Len(todo[p])

InOrder(p) ==
  at[p] = "bundles" =>
    /\ ~GetBytesThrows(Tx(p))
    /\ Passed(p) \in Nat
    /\ \A i \in DOMAIN todo[p] : todo[p][i] = GetBytes(Tx(p))[Passed(p) + i]
    /\ \A j \in 1..Passed(p) : ~Throws(GetBytes(Tx(p))[j], Tx(p), confirmed[p])

OrderInv == \A p \in Threads : InOrder(p)

\* Thread p has still to store a bundle of transaction t in the table of m.
Fixing(p, m, t) ==
  /\ at[p] = "bundles" /\ Tx(p) = t
  /\ \E i \in Stored(m, t, confirmed[p]) : i > Passed(p)

\* The bundle a thread is at is the next one of getBytes.
LEMMA BundleIsNext ==
  ASSUME TypeOK, NEW p \in Threads, InOrder(p), AtBundle(p)
  PROVE  /\ Tx(p) \in Txs /\ ~Idle(p)
         /\ Passed(p) + 1 \in DOMAIN GetBytes(Tx(p))
         /\ Bundle(p) = GetBytes(Tx(p))[Passed(p) + 1]
         /\ Bundle(p) \in Bundles
<1>. USE DEF TypeOK, ProcessorTypeOK, AtBundle
<1>1. ~Idle(p) /\ Tx(p) \in Txs
  BY DEF InLoopHasTransaction, Idle, Tx
<1>2. GetBytes(Tx(p)) \in Seq(Bundles)
  BY <1>1, GetBytesType
<1>3. /\ todo[p] \in Seq(Bundles) /\ todo[p] # << >>
      /\ Bundle(p) = todo[p][1] /\ Bundle(p) \in Bundles
  BY DEF Bundle
<1>4. Passed(p) \in Nat /\ Len(todo[p]) > 0
  BY <1>3 DEF InOrder
<1>5. Passed(p) + 1 \in DOMAIN GetBytes(Tx(p))
  BY <1>2, <1>3, <1>4 DEF Passed
<1>6. Bundle(p) = GetBytes(Tx(p))[Passed(p) + 1]
  BY <1>3, <1>4 DEF InOrder
<1>. QED BY <1>1, <1>3, <1>5, <1>6

\* Going on to the next bundle.
LEMMA Advances ==
  ASSUME TypeOK, NEW p \in Threads, InOrder(p), AtBundle(p),
         ~Throws(Bundle(p), Tx(p), confirmed[p]),
         UNCHANGED <<batch, confirmed, at>>, todo' = [todo EXCEPT ![p] = Tail(@)]
  PROVE  InOrder(p)' /\ Passed(p)' = Passed(p) + 1 /\ Tx(p)' = Tx(p)
<1>. USE DEF TypeOK, ProcessorTypeOK, AtBundle
<1>1. todo[p] \in Seq(Bundles) /\ todo[p] # << >> /\ todo'[p] = Tail(todo[p])
  OBVIOUS
<1>2. Tx(p)' = Tx(p)
  BY DEF Tx
<1>3. GetBytes(Tx(p)) \in Seq(Bundles)
  BY BundleIsNext, GetBytesType
<1>4. Passed(p)' = Passed(p) + 1 /\ Passed(p) \in Nat
  BY <1>1, <1>2, <1>3 DEF Passed, InOrder
<1>5. \A i \in DOMAIN todo'[p] :
        todo'[p][i] = GetBytes(Tx(p))[Passed(p) + 1 + i]
  <2>. SUFFICES ASSUME NEW i \in DOMAIN todo'[p]
                PROVE  todo'[p][i] = GetBytes(Tx(p))[Passed(p) + 1 + i]
    OBVIOUS
  <2>1. i \in Nat /\ i + 1 \in DOMAIN todo[p] /\ todo'[p][i] = todo[p][i + 1]
    BY <1>1
  <2>2. todo[p][i + 1] = GetBytes(Tx(p))[Passed(p) + (i + 1)]
    BY <2>1 DEF InOrder
  <2>3. Passed(p) + (i + 1) = Passed(p) + 1 + i
    BY <1>4, <2>1
  <2>. QED BY <2>1, <2>2, <2>3
<1>6. \A j \in 1..(Passed(p) + 1) : ~Throws(GetBytes(Tx(p))[j], Tx(p), confirmed[p])
  <2>1. \A j \in 1..(Passed(p) + 1) : j \in 1..Passed(p) \/ j = Passed(p) + 1
    BY <1>4
  <2>. QED BY <2>1, BundleIsNext DEF InOrder
<1>. QED BY <1>2, <1>4, <1>5, <1>6 DEF InOrder

\* A bundle that is skipped is not one that is stored.
LEMMA SkipFixes ==
  ASSUME TypeOK, NEW p \in Threads, InOrder(p), SkipBundle(p)
  PROVE  /\ InOrder(p)'
         /\ \A m, t : Fixing(p, m, t)' <=> Fixing(p, m, t)
<1>1. AtBundle(p) /\ UNCHANGED <<batch, confirmed, at>>
      /\ todo' = [todo EXCEPT ![p] = Tail(@)]
  BY DEF SkipBundle
<1>2. ~Throws(Bundle(p), Tx(p), confirmed[p])
  BY DEF SkipBundle, PassesNow, Throws
<1>3. InOrder(p)' /\ Passed(p)' = Passed(p) + 1 /\ Tx(p)' = Tx(p)
  BY <1>1, <1>2, Advances
<1>4. \A m : Passed(p) + 1 \notin Stored(m, Tx(p), confirmed[p])
  BY <1>1, BundleIsNext DEF SkipBundle, PassesNow, Stored
<1>5. \A m : \A i \in Stored(m, Tx(p), confirmed[p]) :
        i > Passed(p) <=> i > Passed(p) + 1
  <2>1. GetBytes(Tx(p)) \in Seq(Bundles) /\ Passed(p) \in Nat
    BY <1>1, BundleIsNext, GetBytesType DEF InOrder, AtBundle
  <2>. QED BY <1>4, <2>1 DEF Stored
<1>. QED BY <1>1, <1>3, <1>5 DEF Fixing, AtBundle

\* Max is what its name says, where there is a greatest element.
LEMMA MaxIsGreatest ==
  ASSUME NEW S \in SUBSET Nat, NEW k \in S, \A i \in S : i <= k
  PROVE  Max(S) = k
<1>1. \E x \in S : \A y \in S : x >= y
  OBVIOUS
<1>2. Max(S) \in S /\ \A y \in S : Max(S) >= y
  BY <1>1 DEF Max
<1>3. Max(S) \in Nat /\ k \in Nat
  BY <1>2
<1>4. Max(S) <= k /\ Max(S) >= k
  BY <1>2
<1>. QED BY <1>3, <1>4

\* A bundle that is applied becomes the row, and is what the run leaves there
\* unless a later bundle is stored over it.
LEMMA ApplyFixes ==
  ASSUME TypeOK, NEW p \in Threads, InOrder(p), Apply(p)
  PROVE  /\ InOrder(p)'
         /\ \A m, t :
              IF m = HandlerOf[Bundle(p)] /\ t = Tx(p)
              THEN Fixing(p, m, t)' \/ Bundle(p) = Expected(m, t, confirmed[p])
              ELSE Fixing(p, m, t)' <=> Fixing(p, m, t)
<1>1. AtBundle(p) /\ UNCHANGED <<batch, confirmed, at>>
      /\ todo' = [todo EXCEPT ![p] = Tail(@)]
  BY DEF Apply
<1>2. ~Throws(Bundle(p), Tx(p), confirmed[p])
  BY DEF Apply, Throws
<1>3. InOrder(p)' /\ Passed(p)' = Passed(p) + 1 /\ Tx(p)' = Tx(p)
  BY <1>1, <1>2, Advances
<1>4. GetBytes(Tx(p)) \in Seq(Bundles) /\ Passed(p) \in Nat
  BY <1>1, BundleIsNext, GetBytesType DEF InOrder, AtBundle
<1>5. ASSUME NEW m, NEW t, m # HandlerOf[Bundle(p)], t = Tx(p)
      PROVE  Fixing(p, m, t)' <=> Fixing(p, m, t)
  <2>1. Passed(p) + 1 \notin Stored(m, t, confirmed[p])
    BY <1>1, <1>5, BundleIsNext DEF Stored
  <2>2. \A i \in Stored(m, t, confirmed[p]) :
          i > Passed(p) <=> i > Passed(p) + 1
    BY <1>4, <1>5, <2>1 DEF Stored
  <2>. QED BY <1>1, <1>3, <1>5, <2>2 DEF Fixing, AtBundle
<1>6. ASSUME NEW m, NEW t, t # Tx(p)
      PROVE  Fixing(p, m, t)' <=> Fixing(p, m, t)
  BY <1>3, <1>6 DEF Fixing
<1>7. ASSUME NEW m, NEW t, m = HandlerOf[Bundle(p)], t = Tx(p),
             ~Fixing(p, m, t)'
      PROVE  Bundle(p) = Expected(m, t, confirmed[p])
  <2>. DEFINE S == Stored(m, t, confirmed[p])
              k == Passed(p) + 1
  <2>1. S \in SUBSET Nat
    BY <1>4, <1>7 DEF Stored
  <2>2. k \in S
    <3>1. \A j \in 1..(k - 1) : ~Throws(GetBytes(t)[j], t, confirmed[p])
      BY <1>1, <1>4, <1>7 DEF InOrder, AtBundle
    <3>. QED BY <1>1, <1>7, <3>1, BundleIsNext DEF Apply, PassesNow, Stored
  <2>3. \A i \in S : i <= k
    BY <1>1, <1>3, <1>4, <1>7, <2>1 DEF Fixing, AtBundle
  <2>4. Max(S) = k
    BY <2>1, <2>2, <2>3, MaxIsGreatest
  <2>5. ~GetBytesThrows(t)
    BY <1>1, <1>7 DEF InOrder, AtBundle
  <2>. QED BY <1>1, <1>7, <2>2, <2>4, <2>5, BundleIsNext DEF Expected
<1>. QED BY <1>3, <1>5, <1>6, <1>7

\* A transaction whose bundles have come to their end, or one of whose bundles
\* throws, has nothing left to store.
LEMMA EndFixes ==
  ASSUME TypeOK, NEW p \in Threads, InOrder(p), EndOfBundles(p) \/ BundleThrows(p)
  PROVE  \A m, t : ~Fixing(p, m, t)
<1>. SUFFICES ASSUME NEW m, NEW i \in Stored(m, Tx(p), confirmed[p]),
                     at[p] = "bundles", i > Passed(p)
              PROVE  FALSE
  BY DEF Fixing
<1>1. Tx(p) \in Txs
  BY DEF TypeOK, ProcessorTypeOK, InLoopHasTransaction, Tx
<1>2. GetBytes(Tx(p)) \in Seq(Bundles)
  BY <1>1, GetBytesType
<1>3. i \in 1..Len(GetBytes(Tx(p))) /\ Passed(p) \in Nat
  BY <1>2 DEF Stored, InOrder
<1>4. CASE EndOfBundles(p)
  BY <1>2, <1>3, <1>4 DEF EndOfBundles, Passed
<1>5. CASE BundleThrows(p)
  <2>1. Throws(GetBytes(Tx(p))[Passed(p) + 1], Tx(p), confirmed[p])
    BY <1>5, BundleIsNext DEF BundleThrows, PassesNow, Throws
  <2>2. i # Passed(p) + 1
    BY <2>1 DEF Stored, Throws
  <2>3. Passed(p) + 1 \in 1..(i - 1)
    BY <1>3, <2>2
  <2>. QED BY <2>1, <2>3 DEF Stored
<1>. QED BY <1>4, <1>5

\* What a thread has still to do is its own affair.
LEMMA OthersFix ==
  ASSUME NEW q \in Threads, at'[q] = at[q], todo'[q] = todo[q],
         batch'[q] = batch[q], confirmed'[q] = confirmed[q]
  PROVE  /\ InOrder(q)' <=> InOrder(q)
         /\ \A m, t : Fixing(q, m, t)' <=> Fixing(q, m, t)
<1>1. Tx(q)' = Tx(q) /\ Passed(q)' = Passed(q)
  BY DEF Tx, Passed
<1>. QED BY <1>1 DEF InOrder, Fixing

\* A step of one thread, or an announcement to it, leaves the others alone.
LEMMA OneThread ==
  ASSUME TypeOK, NEW p \in Threads, NEW q \in Threads, p # q,
         \/ ProcessTransactions(p) \/ ApplyFails(p)
         \/ \E s \in Seq(Txs), c \in BOOLEAN : Receive(p, s, c)
  PROVE  /\ at'[q] = at[q] /\ todo'[q] = todo[q]
         /\ batch'[q] = batch[q] /\ confirmed'[q] = confirmed[q]
BY DEF TypeOK, ProcessorTypeOK, ProcessTransactions, ApplyFails, ReadBytes,
       ReadBytesThrows, SkipBundle, BundleThrows, Apply, EndOfBundles,
       NextTransaction, Receive

\* A thread that is announced transactions is not at a bundle, before or after.
LEMMA ReceiveFixes ==
  ASSUME TypeOK, NEW p \in Threads, NEW s \in Seq(Txs), NEW c \in BOOLEAN,
         Receive(p, s, c)
  PROVE  at[p] = "read" /\ at'[p] = "read" /\ UNCHANGED rows
BY DEF Receive, Idle, TypeOK, ProcessorTypeOK, InLoopHasTransaction

\* The announcements of the core, seen from the tables.
LEMMA Announced ==
  ASSUME TypeOK, PushBlock \/ ReplayBlock \/ \E p \in Threads : Unconfirmed(p)
  PROVE  \E p \in Threads, s \in Seq(Txs), c \in BOOLEAN :
           Receive(p, s, c) /\ UNCHANGED <<rows, hurt>>
<1>. USE ReplicatorAssumption DEF ReplicatorAssumption
<1>0. \A p, s, c : Receive(p, s, c) => UNCHANGED rows
  BY DEF Receive
<1>1. CASE PushBlock
  <2>1. PICK b \in Announcements(Txs \ OnChain) : Receive(Pusher, b, TRUE)
    BY <1>1 DEF PushBlock
  <2>2. b \in Seq(Txs)
    BY <2>1, AnnouncementsAreSeqs
  <2>. QED BY <1>0, <1>1, <2>1, <2>2 DEF PushBlock
<1>2. CASE ReplayBlock
  <2>1. chain[pos] \in Seq(Txs)
    BY <1>2 DEF ReplayBlock, TypeOK
  <2>. QED BY <1>0, <1>2, <2>1 DEF ReplayBlock
<1>3. ASSUME NEW p \in Threads, Unconfirmed(p)
      PROVE  \E s \in Seq(Txs), c \in BOOLEAN :
               Receive(p, s, c) /\ UNCHANGED <<rows, hurt>>
  <2>1. PICK s \in Announcements(Txs \ OnChain) : Receive(p, s, FALSE)
    BY <1>3 DEF Unconfirmed
  <2>2. s \in Seq(Txs)
    BY <2>1, AnnouncementsAreSeqs
  <2>. QED BY <1>0, <1>3, <2>1, <2>2 DEF Unconfirmed
<1>. QED BY <1>1, <1>2, <1>3

\* A step of a run, seen from a row: either the row stays and whoever has still
\* to store something there has still to do so, or the row is the current
\* transaction's and gets the run's result unless more is to come.
LEMMA RunStep ==
  ASSUME TypeOK, OrderInv, NEW p \in Threads, ProcessTransactions(p)
  PROVE  /\ OrderInv'
         /\ \A m \in Models, t \in Txs :
              \/ /\ rows'[m][t] = rows[m][t]
                 /\ \A q \in Threads : Fixing(q, m, t) => Fixing(q, m, t)'
              \/ /\ ~Idle(p) /\ t = Tx(p) /\ rows'[m][t] # None
                 /\ \/ Fixing(p, m, t)'
                    \/ rows'[m][t] = Expected(m, t, confirmed[p])
<1>. USE DEF TypeOK, ProcessorTypeOK
<1>1. ASSUME NEW q \in Threads, q # p
      PROVE  InOrder(q)' /\ \A m, t : Fixing(q, m, t)' <=> Fixing(q, m, t)
  <2>1. /\ at'[q] = at[q] /\ todo'[q] = todo[q]
        /\ batch'[q] = batch[q] /\ confirmed'[q] = confirmed[q]
    BY <1>1, OneThread
  <2>. QED BY <2>1, OthersFix DEF OrderInv
<1>2. InOrder(p)
  BY DEF OrderInv
<1>3. CASE ReadBytes(p)
  <2>1. /\ Tx(p) \in Txs /\ Tx(p)' = Tx(p) /\ at[p] = "read" /\ UNCHANGED rows
        /\ todo'[p] = GetBytes(Tx(p)) /\ ~GetBytesThrows(Tx(p))
    BY <1>3 DEF ReadBytes, Idle, Tx
  <2>2. GetBytes(Tx(p)) \in Seq(Bundles)
    BY <2>1, GetBytesType
  <2>3. Passed(p)' = 0
    BY <2>1, <2>2 DEF Passed
  <2>4. InOrder(p)'
    <3>1. \A i \in DOMAIN todo'[p] : 0 + i = i
      BY <2>1, <2>2
    <3>. QED BY <2>1, <2>3, <3>1 DEF InOrder
  <2>. QED BY <1>1, <2>1, <2>4 DEF OrderInv, Fixing
<1>4. ASSUME NextTransaction(p), UNCHANGED rows, \A m, t : ~Fixing(p, m, t)
      PROVE  /\ OrderInv'
             /\ \A m \in Models, t \in Txs :
                  /\ rows'[m][t] = rows[m][t]
                  /\ \A q \in Threads : Fixing(q, m, t) => Fixing(q, m, t)'
  <2>1. InOrder(p)'
    BY <1>4 DEF NextTransaction, InOrder
  <2>. QED BY <1>1, <1>4, <2>1 DEF OrderInv
<1>5. CASE ReadBytesThrows(p)
  BY <1>4, <1>5 DEF ReadBytesThrows, Fixing
<1>6. CASE SkipBundle(p)
  BY <1>1, <1>2, <1>6, SkipFixes DEF OrderInv, SkipBundle
<1>7. CASE BundleThrows(p) \/ EndOfBundles(p)
  BY <1>2, <1>4, <1>7, EndFixes DEF BundleThrows, EndOfBundles
<1>8. CASE Apply(p)
  <2>1. OrderInv'
    BY <1>1, <1>2, <1>8, ApplyFixes DEF OrderInv
  <2>2. Tx(p) \in Txs /\ ~Idle(p) /\ Bundle(p) \in Bundles
    BY <1>2, <1>8, BundleIsNext DEF Apply
  <2>3. ASSUME NEW m \in Models, NEW t \in Txs,
               m = HandlerOf[Bundle(p)], t = Tx(p)
        PROVE  /\ ~Idle(p) /\ t = Tx(p) /\ rows'[m][t] # None
               /\ \/ Fixing(p, m, t)'
                  \/ rows'[m][t] = Expected(m, t, confirmed[p])
    <3>1. rows'[m][t] = Bundle(p)
      BY <1>8, <2>3 DEF Apply, Merge
    <3>2. Bundle(p) # None
      BY <2>2, ReaderAssumption DEF ReaderAssumption
    <3>. QED BY <1>2, <1>8, <2>2, <2>3, <3>1, <3>2, ApplyFixes
  <2>4. ASSUME NEW m \in Models, NEW t \in Txs,
               ~(m = HandlerOf[Bundle(p)] /\ t = Tx(p))
        PROVE  /\ rows'[m][t] = rows[m][t]
               /\ \A q \in Threads : Fixing(q, m, t) => Fixing(q, m, t)'
    <3>1. rows'[m][t] = rows[m][t]
      BY <1>8, <2>4 DEF Apply, Merge
    <3>. QED BY <1>1, <1>2, <1>8, <2>4, <3>1, ApplyFixes
  <2>. QED BY <2>1, <2>3, <2>4
<1>. QED BY <1>3, <1>4, <1>5, <1>6, <1>7, <1>8 DEF ProcessTransactions

\* Every thread goes through the bundles in order.
LEMMA OrderStep == ASSUME TypeOK, OrderInv, [Next]_vars PROVE OrderInv'
<1>1. ASSUME UNCHANGED <<batch, confirmed, at, todo>> PROVE OrderInv'
  BY <1>1, OthersFix DEF OrderInv
<1>2. ASSUME NEW p \in Threads, at'[p] = "read",
             \/ ApplyFails(p)
             \/ \E s \in Seq(Txs), c \in BOOLEAN : Receive(p, s, c)
      PROVE  OrderInv'
  <2>1. InOrder(p)'
    BY <1>2 DEF InOrder
  <2>2. ASSUME NEW q \in Threads, q # p PROVE InOrder(q)'
    BY <1>2, <2>2, OneThread, OthersFix DEF OrderInv
  <2>. QED BY <2>1, <2>2 DEF OrderInv
<1>3. CASE PushBlock \/ ReplayBlock \/ \E p \in Threads : Unconfirmed(p)
  BY <1>2, <1>3, Announced, ReceiveFixes
<1>4. CASE \E p \in Threads : Process(p)
  <2>1. ASSUME NEW p \in Threads, ApplyFails(p) PROVE at'[p] = "read"
    BY <2>1 DEF ApplyFails, NextTransaction, TypeOK, ProcessorTypeOK
  <2>. QED BY <1>2, <1>4, <2>1, RunStep DEF Process
<1>5. CASE Crash
  BY <1>5 DEF Crash, OrderInv, InOrder
<1>. QED BY <1>1, <1>3, <1>4, <1>5
  DEF Next, Rescan, vars, processorVars, PopBlock, StartRescan, StartReplay,
      EndRescan, BeforeFullRescan

(***************************************************************************)
(* A row is what some run leaves there, or a thread is about to store over *)
(* it, unless a run of its transaction was cut short.                      *)
(***************************************************************************)
RowInv(m, t) ==
  \/ t \in hurt[m]
  \/ rows[m][t] \in Results(m, t) \cup {None}
  \/ \E p \in Threads : Fixing(p, m, t)

RowsInv == \A m \in Models, t \in Txs : RowInv(m, t)

\* No step leaves a part of a run behind without somebody to finish it.
LEMMA RowsStep ==
  ASSUME TypeOK, OrderInv, RowsInv, [Next]_vars
  PROVE  RowsInv'
<1>. SUFFICES ASSUME NEW m \in Models, NEW t \in Txs PROVE RowInv(m, t)'
  BY DEF RowsInv
<1>. USE DEF TypeOK, ProcessorTypeOK
<1>0. RowInv(m, t)
  BY DEF RowsInv
<1>1. ASSUME UNCHANGED <<processorVars, hurt>> PROVE RowInv(m, t)'
  BY <1>0, <1>1, OthersFix DEF RowInv, Results, processorVars
<1>2. CASE PushBlock \/ ReplayBlock \/ \E p \in Threads : Unconfirmed(p)
  <2>1. PICK p \in Threads, s \in Seq(Txs), c \in BOOLEAN :
               Receive(p, s, c) /\ UNCHANGED <<rows, hurt>>
    BY <1>2, Announced
  <2>2. ~Fixing(p, m, t)
    BY <2>1, ReceiveFixes DEF Fixing
  <2>3. ASSUME NEW q \in Threads, q # p PROVE Fixing(q, m, t)' <=> Fixing(q, m, t)
    <3>1. /\ at'[q] = at[q] /\ todo'[q] = todo[q]
          /\ batch'[q] = batch[q] /\ confirmed'[q] = confirmed[q]
      BY <2>1, <2>3, OneThread
    <3>. QED BY <3>1, OthersFix
  <2>. QED BY <1>0, <2>1, <2>2, <2>3 DEF RowInv, Results
<1>3. ASSUME NEW p \in Threads, ProcessTransactions(p), UNCHANGED hurt
      PROVE  RowInv(m, t)'
  <2>1. confirmed[p] \in BOOLEAN
    OBVIOUS
  <2>2. rows'[m][t] # None /\ rows'[m][t] = Expected(m, t, confirmed[p])
          => rows'[m][t] \in Results(m, t)
    BY <2>1 DEF Results
  <2>3. \/ /\ rows'[m][t] = rows[m][t]
           /\ \A q \in Threads : Fixing(q, m, t) => Fixing(q, m, t)'
        \/ Fixing(p, m, t)'
        \/ rows'[m][t] \in Results(m, t)
    BY <1>3, <2>2, RunStep
  <2>. QED BY <1>0, <1>3, <2>3 DEF RowInv, Results
<1>4. ASSUME NEW p \in Threads, ApplyFails(p), UNCHANGED rows,
             hurt' = [n \in Models |-> hurt[n] \cup {Tx(p)}]
      PROVE  RowInv(m, t)'
  <2>1. CASE t = Tx(p)
    BY <1>4, <2>1 DEF RowInv
  <2>2. CASE t # Tx(p)
    <3>1. \A q \in Threads : Fixing(q, m, t) => Fixing(q, m, t)'
      BY <1>4, <2>2, OneThread, OthersFix DEF Fixing
    <3>. QED BY <1>0, <1>4, <3>1 DEF RowInv, Results
  <2>. QED BY <2>1, <2>2
<1>5. CASE BeforeFullRescan
  <2>1. \A q \in Threads : Fixing(q, m, t)' <=> Fixing(q, m, t)
    BY <1>5, OthersFix DEF BeforeFullRescan
  <2>2. \/ rows'[m][t] = None
        \/ rows'[m][t] = rows[m][t] /\ hurt'[m] = hurt[m]
    BY <1>5 DEF BeforeFullRescan, EmptyTable
  <2>. QED BY <1>0, <2>1, <2>2 DEF RowInv, Results
<1>6. CASE Crash
  <2>1. \A q \in Threads : Fixing(q, m, t) => t \in hurt'[m]
    BY <1>6 DEF Crash, Fixing, Held, Range, InLoopHasTransaction, Tx
  <2>2. rows' = rows /\ hurt[m] \subseteq hurt'[m]
    BY <1>6 DEF Crash
  <2>. QED BY <1>0, <2>1, <2>2 DEF RowInv, Results
<1>. QED BY <1>1, <1>2, <1>3, <1>4, <1>5, <1>6
  DEF Next, Rescan, Process, ApplyFails, vars, replicatorVars, PopBlock,
      StartRescan, StartReplay, EndRescan

(***************************************************************************)
(* What the chain has is in the table, or the thread that pushes has still *)
(* to work on it.                                                          *)
(***************************************************************************)
Pending(m, t) ==
  \E i \in DOMAIN batch[Pusher] :
    /\ batch[Pusher][i] = t
    /\ i = 1 /\ at[Pusher] = "bundles" => Fixing(Pusher, m, t)

Wanted(m, t) ==
  /\ t \in OnChain \ hurt[m]
  /\ Replayed(m, t)
  /\ Expected(m, t, TRUE) # None

ChainInv ==
  /\ ~Idle(Pusher) => confirmed[Pusher]
  /\ scan = "replay" => pos <= Len(chain) + 1
  /\ \A m \in Models, t \in Txs :
       Wanted(m, t) => rows[m][t] # None \/ Pending(m, t)

\* The pusher's announcements are of confirmed transactions, and a rescan stops
\* at the end of the chain.
LEMMA PusherStep ==
  ASSUME TypeOK, ChainInv, [Next]_vars
  PROVE  /\ ~Idle(Pusher)' => confirmed'[Pusher]
         /\ scan' = "replay" => pos' <= Len(chain') + 1
<1>. USE ReplicatorAssumption
     DEF ReplicatorAssumption, TypeOK, ProcessorTypeOK, ChainInv
<1>1. ASSUME NEW p \in Threads, NEW s, Receive(p, s, p = Pusher)
      PROVE  ~Idle(Pusher)' => confirmed'[Pusher]
  BY <1>1 DEF Receive, Idle
<1>2. ASSUME NEW p \in Threads, Process(p)
      PROVE  ~Idle(Pusher)' => confirmed'[Pusher]
  <2>. USE DEF Process, ProcessTransactions, ApplyFails, ReadBytes, ReadBytesThrows,
               SkipBundle, BundleThrows, Apply, EndOfBundles
  <2>1. UNCHANGED confirmed
    BY <1>2
  <2>2. \/ UNCHANGED batch
        \/ ~Idle(p) /\ batch' = [batch EXCEPT ![p] = Tail(@)]
    BY <1>2 DEF NextTransaction, AtBundle, InLoopHasTransaction, Idle
  <2>. QED BY <2>1, <2>2 DEF Idle
<1>3. ~Idle(Pusher)' => confirmed'[Pusher]
  <2>1. CASE PushBlock \/ ReplayBlock
    BY <1>1, <2>1 DEF PushBlock, ReplayBlock
  <2>2. CASE \E p \in Threads : Unconfirmed(p)
    BY <1>1, <2>2 DEF Unconfirmed
  <2>3. CASE Crash
    BY <2>3 DEF Crash, Idle
  <2>. QED BY <1>2, <2>1, <2>2, <2>3
    DEF Next, Rescan, vars, processorVars, PopBlock, StartRescan, StartReplay,
        EndRescan, BeforeFullRescan, Idle
<1>4. scan' = "replay" => pos' <= Len(chain') + 1
  <2>1. CASE ReplayBlock
    BY <2>1 DEF ReplayBlock
  <2>2. CASE StartReplay
    BY <2>2 DEF StartReplay
  <2>3. CASE UNCHANGED coreVars
    BY <2>3 DEF coreVars
  <2>4. CASE scan' # "replay"
    BY <2>4
  <2>. QED BY <2>1, <2>2, <2>3, <2>4
    DEF Next, Rescan, vars, replicatorVars, Process, PushBlock, PopBlock,
        StartRescan, EndRescan, BeforeFullRescan, Crash, Unconfirmed
<1>. QED BY <1>3, <1>4

\* The transactions of the first n blocks.
LEMMA ConfirmedUpTo ==
  ASSUME NEW ch \in Seq(Seq(Txs)), NEW n \in 0..Len(ch)
  PROVE  Confirmed(SubSeq(ch, 1, n)) = UNION {Range(ch[i]) : i \in 1..n}
<1>1. DOMAIN SubSeq(ch, 1, n) = 1..n
  OBVIOUS
<1>2. \A i \in 1..n : SubSeq(ch, 1, n)[i] = ch[i]
  OBVIOUS
<1>. QED BY <1>1, <1>2 DEF Confirmed

\* What the first blocks of a chain confirm: nothing in no block, one more block
\* adds its transactions, and all of the blocks confirm what the chain does.
LEMMA ConfirmedBlocks ==
  ASSUME NEW ch \in Seq(Seq(Txs))
  PROVE  /\ Confirmed(SubSeq(ch, 1, Len(ch))) = Confirmed(ch)
         /\ Confirmed(SubSeq(ch, 1, 0)) = {}
         /\ \A n \in DOMAIN ch : Confirmed(SubSeq(ch, 1, n))
              = Confirmed(SubSeq(ch, 1, n - 1)) \cup Range(ch[n])
         /\ \A n \in DOMAIN ch :
              Confirmed(SubSeq(ch, 1, n - 1)) \subseteq Confirmed(ch)
         /\ \A b \in Seq(Txs) :
              Confirmed(Append(ch, b)) = Confirmed(ch) \cup Range(b)
<1>1. \A n \in 0..Len(ch) :
        Confirmed(SubSeq(ch, 1, n)) = UNION {Range(ch[i]) : i \in 1..n}
  BY ConfirmedUpTo
<1>2. Confirmed(ch) = UNION {Range(ch[i]) : i \in 1..Len(ch)}
  <2>1. DOMAIN ch = 1..Len(ch)
    OBVIOUS
  <2>. QED BY <2>1 DEF Confirmed
<1>3. Confirmed(SubSeq(ch, 1, Len(ch))) = Confirmed(ch)
  BY <1>1, <1>2
<1>4. Confirmed(SubSeq(ch, 1, 0)) = {}
  BY <1>1
<1>5. ASSUME NEW n \in DOMAIN ch
      PROVE  /\ Confirmed(SubSeq(ch, 1, n))
                  = Confirmed(SubSeq(ch, 1, n - 1)) \cup Range(ch[n])
             /\ Confirmed(SubSeq(ch, 1, n - 1)) \subseteq Confirmed(ch)
  <2>1. n \in 0..Len(ch) /\ n - 1 \in 0..Len(ch)
    OBVIOUS
  <2>2. 1..n = (1..(n-1)) \cup {n} /\ 1..(n-1) \subseteq 1..Len(ch)
    BY <2>1
  <2>3. /\ Confirmed(SubSeq(ch, 1, n)) = UNION {Range(ch[i]) : i \in 1..n}
        /\ Confirmed(SubSeq(ch, 1, n - 1)) = UNION {Range(ch[i]) : i \in 1..(n - 1)}
    BY <1>1, <2>1
  <2>. QED BY <1>2, <2>2, <2>3
<1>6. ASSUME NEW b \in Seq(Txs)
      PROVE  Confirmed(Append(ch, b)) = Confirmed(ch) \cup Range(b)
  <2>1. DOMAIN Append(ch, b) = (1..Len(ch)) \cup {Len(ch) + 1}
    OBVIOUS
  <2>2. /\ \A i \in 1..Len(ch) : Append(ch, b)[i] = ch[i]
        /\ Append(ch, b)[Len(ch) + 1] = b
    OBVIOUS
  <2>. QED BY <1>2, <2>1, <2>2 DEF Confirmed
<1>. QED BY <1>3, <1>4, <1>5, <1>6

\* As long as the pusher does not move, it has the same work to do.
LEMMA SamePending ==
  ASSUME TypeOK, NEW m, NEW t,
         at'[Pusher] = at[Pusher], todo'[Pusher] = todo[Pusher],
         batch'[Pusher] = batch[Pusher], confirmed'[Pusher] = confirmed[Pusher]
  PROVE  Pending(m, t)' <=> Pending(m, t)
BY OthersFix, ReplicatorAssumption DEF Pending, ReplicatorAssumption

\* What the pusher is announced it has still to work on.
LEMMA AnnouncedPending ==
  ASSUME TypeOK, NEW m, NEW t, NEW s \in Seq(Txs), Receive(Pusher, s, TRUE),
         t \in Range(s)
  PROVE  Pending(m, t)'
<1>. USE ReplicatorAssumption DEF ReplicatorAssumption
<1>1. at'[Pusher] = "read"
  BY ReceiveFixes
<1>2. batch'[Pusher] = s
  BY DEF Receive, TypeOK, ProcessorTypeOK
<1>. QED BY <1>1, <1>2 DEF Pending, Range

\* What lies behind the current transaction is still to be worked on when the
\* pusher drops that.
LEMMA LaterPending ==
  ASSUME TypeOK, NEW m, NEW t, NextTransaction(Pusher),
         NEW i \in DOMAIN batch[Pusher], i # 1, batch[Pusher][i] = t
  PROVE  Pending(m, t)'
<1>. USE ReplicatorAssumption
     DEF ReplicatorAssumption, TypeOK, ProcessorTypeOK, NextTransaction
<1>1. at'[Pusher] = "read" /\ batch'[Pusher] = Tail(batch[Pusher])
  OBVIOUS
<1>2. batch[Pusher] \in Seq(Txs)
  OBVIOUS
<1>3. i - 1 \in DOMAIN Tail(batch[Pusher]) /\ Tail(batch[Pusher])[i - 1] = t
  BY <1>2
<1>. QED BY <1>1, <1>3 DEF Pending

\* A step of the pusher's run leaves nothing undone.
LEMMA PusherRuns ==
  ASSUME TypeOK, OrderInv, ChainInv, NEW m \in Models, NEW t \in Txs,
         ProcessTransactions(Pusher), Expected(m, t, TRUE) # None,
         Pending(m, t), rows'[m][t] = rows[m][t],
         Fixing(Pusher, m, t) => Fixing(Pusher, m, t)'
  PROVE  Pending(m, t)'
<1>. USE ReplicatorAssumption DEF ReplicatorAssumption
<1>1. PICK i \in DOMAIN batch[Pusher] :
             /\ batch[Pusher][i] = t
             /\ i = 1 /\ at[Pusher] = "bundles" => Fixing(Pusher, m, t)
  BY DEF Pending
<1>2. batch[Pusher] \in Seq(Txs) /\ confirmed[Pusher] = TRUE
  BY <1>1 DEF TypeOK, ProcessorTypeOK, ChainInv, Idle
<1>3. i = 1 => Tx(Pusher) = t
  BY <1>1, <1>2 DEF Tx
<1>4. ASSUME NextTransaction(Pusher), i # 1 PROVE Pending(m, t)'
  BY <1>1, <1>4, LaterPending
<1>5. CASE ReadBytes(Pusher)
  <2>1. UNCHANGED <<batch, confirmed>>
    BY <1>5 DEF ReadBytes
  <2>2. i = 1 => Fixing(Pusher, m, t)'
    <3>. SUFFICES ASSUME i = 1 PROVE Fixing(Pusher, m, t)'
      OBVIOUS
    <3>1. /\ at'[Pusher] = "bundles" /\ Tx(Pusher)' = t
          /\ todo'[Pusher] = GetBytes(t)
      BY <1>3, <1>5 DEF ReadBytes, Tx, TypeOK, ProcessorTypeOK
    <3>2. GetBytes(t) \in Seq(Bundles)
      BY GetBytesType
    <3>3. Passed(Pusher)' = 0
      BY <3>1, <3>2 DEF Passed
    <3>4. PICK k \in Stored(m, t, TRUE) : TRUE
      BY DEF Expected
    <3>5. k > 0
      BY <3>2, <3>4 DEF Stored
    <3>. QED BY <1>2, <2>1, <3>1, <3>3, <3>5 DEF Fixing
  <2>. QED BY <1>1, <2>1, <2>2 DEF Pending
<1>6. CASE ReadBytesThrows(Pusher)
  <2>1. i # 1
    BY <1>3, <1>6 DEF ReadBytesThrows, Expected
  <2>. QED BY <1>4, <1>6, <2>1 DEF ReadBytesThrows
<1>7. CASE SkipBundle(Pusher) \/ Apply(Pusher)
  <2>1. UNCHANGED <<batch, at>>
    BY <1>7 DEF SkipBundle, Apply
  <2>. QED BY <1>1, <2>1 DEF Pending
<1>8. CASE BundleThrows(Pusher) \/ EndOfBundles(Pusher)
  <2>1. ~Fixing(Pusher, m, t) /\ at[Pusher] = "bundles"
    BY <1>8, EndFixes DEF OrderInv, BundleThrows, AtBundle, EndOfBundles
  <2>. QED BY <1>1, <1>4, <1>8, <2>1 DEF BundleThrows, EndOfBundles
<1>. QED BY <1>5, <1>6, <1>7, <1>8 DEF ProcessTransactions

\* Nothing that is wanted goes missing.
LEMMA WantedStep ==
  ASSUME TypeOK, OrderInv, ChainInv, [Next]_vars,
         NEW m \in Models, NEW t \in Txs, Wanted(m, t)'
  PROVE  rows'[m][t] # None \/ Pending(m, t)'
<1>. USE ReplicatorAssumption
     DEF ReplicatorAssumption, TypeOK, ProcessorTypeOK, ChainInv
<1>1. Wanted(m, t) => rows[m][t] # None \/ Pending(m, t)
  OBVIOUS
<1>2. Idle(Pusher) => ~Pending(m, t)
  BY DEF Idle, Pending
<1>3. CASE PushBlock
  <2>1. PICK b \in Announcements(Txs \ OnChain) :
               Receive(Pusher, b, TRUE) /\ chain' = Append(chain, b)
    BY <1>3 DEF PushBlock
  <2>2. b \in Seq(Txs)
    BY <2>1, AnnouncementsAreSeqs
  <2>3. OnChain' = OnChain \cup Range(b)
    BY <2>1, <2>2, ConfirmedBlocks DEF OnChain
  <2>4. CASE t \in Range(b)
    BY <2>1, <2>2, <2>4, AnnouncedPending
  <2>5. CASE t \notin Range(b)
    <3>1. Wanted(m, t)
      BY <1>3, <2>3, <2>5 DEF PushBlock, Wanted, Replayed
    <3>. QED BY <1>1, <1>2, <2>1, <3>1 DEF Receive
  <2>. QED BY <2>4, <2>5
<1>4. CASE ReplayBlock
  <2>1. Receive(Pusher, chain[pos], TRUE) /\ pos' = pos + 1 /\ pos \in DOMAIN chain
    BY <1>4 DEF ReplayBlock
  <2>2. chain[pos] \in Seq(Txs)
    BY <2>1
  <2>3. Confirmed(SubSeq(chain, 1, pos))
          = Confirmed(SubSeq(chain, 1, pos - 1)) \cup Range(chain[pos])
    BY <2>1, ConfirmedBlocks
  <2>4. CASE t \in Range(chain[pos])
    BY <2>1, <2>2, <2>4, AnnouncedPending
  <2>5. CASE t \notin Range(chain[pos])
    <3>0. pos' - 1 = pos
      BY <2>1
    <3>1. Wanted(m, t)
      <4>1. Replayed(m, t)
        BY <1>4, <2>3, <2>5, <3>0 DEF ReplayBlock, Wanted, Replayed
      <4>. QED BY <1>4, <4>1 DEF ReplayBlock, Wanted, OnChain
    <3>. QED BY <1>1, <1>2, <2>1, <3>1 DEF Receive
  <2>. QED BY <2>4, <2>5
<1>5. CASE PopBlock
  <2>1. OnChain' \subseteq OnChain
    <3>1. Len(chain) \in DOMAIN chain
      BY <1>5 DEF PopBlock
    <3>. QED BY <1>5, <3>1, ConfirmedBlocks DEF PopBlock, OnChain
  <2>2. Wanted(m, t)
    BY <1>5, <2>1 DEF PopBlock, Wanted, Replayed
  <2>. QED BY <1>1, <1>2, <1>5, <2>2 DEF PopBlock, processorVars
<1>6. CASE StartRescan \/ StartReplay \/ EndRescan
  <2>1. UNCHANGED processorVars /\ UNCHANGED <<chain, hurt>>
    BY <1>6 DEF StartRescan, StartReplay, EndRescan
  <2>2. Replayed(m, t)
    <3>1. CASE StartRescan
      BY <3>1 DEF StartRescan, Replayed
    <3>2. CASE StartReplay
      BY <3>2, ConfirmedBlocks DEF StartReplay, Wanted, Replayed
    <3>3. CASE EndRescan
      <4>1. pos - 1 = Len(chain)
        <5>1. pos <= Len(chain) + 1 /\ pos \notin 1..Len(chain)
          BY <3>3 DEF EndRescan
        <5>. QED BY <5>1
      <4>. QED
        BY <3>3, <4>1, ConfirmedBlocks DEF EndRescan, Wanted, OnChain, Replayed
    <3>. QED BY <1>6, <3>1, <3>2, <3>3
  <2>3. Wanted(m, t)
    BY <2>1, <2>2 DEF Wanted, OnChain
  <2>. QED BY <1>1, <2>1, <2>3, SamePending DEF processorVars
<1>7. CASE BeforeFullRescan
  <2>1. m \notin Basic
    BY <1>7 DEF BeforeFullRescan, Wanted, Replayed
  <2>2. rows'[m] = rows[m] /\ hurt'[m] = hurt[m]
    BY <1>7, <2>1 DEF BeforeFullRescan
  <2>3. Wanted(m, t)
    BY <1>7, <2>1, <2>2 DEF BeforeFullRescan, Wanted, OnChain, Replayed
  <2>. QED BY <1>1, <1>7, <2>2, <2>3, SamePending DEF BeforeFullRescan
<1>8. ASSUME NEW p \in Threads, Unconfirmed(p)
      PROVE  rows'[m][t] # None \/ Pending(m, t)'
  <2>1. Wanted(m, t)
    BY <1>8 DEF Unconfirmed, coreVars, Wanted, OnChain, Replayed
  <2>2. /\ at'[Pusher] = at[Pusher] /\ todo'[Pusher] = todo[Pusher]
        /\ batch'[Pusher] = batch[Pusher] /\ confirmed'[Pusher] = confirmed[Pusher]
        /\ UNCHANGED rows
    BY <1>8 DEF Unconfirmed, Receive
  <2>. QED BY <1>1, <2>1, <2>2, SamePending
<1>9. CASE Crash
  <2>1. t \notin hurt[m] \cup Held /\ scan = "off"
    BY <1>9 DEF Crash, Wanted, OnChain
  <2>2. Wanted(m, t)
    BY <1>9, <2>1 DEF Crash, Wanted, OnChain, Replayed
  <2>3. ~Pending(m, t)
    BY <2>1 DEF Pending, Held, Range
  <2>. QED BY <1>1, <1>9, <2>2, <2>3 DEF Crash
<1>10. ASSUME NEW p \in Threads, ProcessTransactions(p), UNCHANGED replicatorVars
       PROVE  rows'[m][t] # None \/ Pending(m, t)'
  <2>1. Wanted(m, t)
    BY <1>10 DEF replicatorVars, coreVars, Wanted, OnChain, Replayed
  <2>2. SUFFICES ASSUME rows'[m][t] = None PROVE Pending(m, t)'
    OBVIOUS
  <2>3. rows'[m][t] = rows[m][t] /\ (Fixing(Pusher, m, t) => Fixing(Pusher, m, t)')
    BY <1>10, <2>2, RunStep
  <2>4. Pending(m, t)
    BY <1>1, <2>1, <2>2, <2>3
  <2>5. CASE p = Pusher
    BY <1>10, <2>1, <2>3, <2>4, <2>5, PusherRuns DEF Wanted
  <2>6. CASE p # Pusher
    BY <1>10, <2>4, <2>6, OneThread, SamePending
  <2>. QED BY <2>5, <2>6
<1>11. ASSUME NEW p \in Threads, ApplyFails(p), UNCHANGED <<coreVars, touched>>,
              hurt' = [n \in Models |-> hurt[n] \cup {Tx(p)}]
       PROVE  rows'[m][t] # None \/ Pending(m, t)'
  <2>1. Wanted(m, t) /\ t # Tx(p)
    BY <1>11 DEF coreVars, Wanted, OnChain, Replayed
  <2>2. SUFFICES ASSUME Pending(m, t) PROVE Pending(m, t)'
    BY <1>1, <1>11, <2>1 DEF ApplyFails
  <2>3. CASE p = Pusher
    <3>1. PICK i \in DOMAIN batch[Pusher] : batch[Pusher][i] = t
      BY <2>2 DEF Pending
    <3>2. i # 1
      BY <2>1, <2>3, <3>1 DEF Tx
    <3>. QED BY <1>11, <2>3, <3>1, <3>2, LaterPending DEF ApplyFails
  <2>4. CASE p # Pusher
    BY <1>11, <2>2, <2>4, OneThread, SamePending
  <2>. QED BY <2>3, <2>4
<1>12. CASE UNCHANGED vars
  <2>1. Wanted(m, t)
    BY <1>12 DEF vars, replicatorVars, coreVars, Wanted, OnChain, Replayed
  <2>. QED BY <1>1, <1>12, <2>1, SamePending DEF vars, processorVars
<1>. QED
  BY <1>3, <1>4, <1>5, <1>6, <1>7, <1>8, <1>9, <1>10, <1>11, <1>12
  DEF Next, Rescan, Process

\* The types and what the order of a run, the rows and the chain promise hold
\* throughout.
LEMMA ChainInvariant == Spec => [](TypeOK /\ OrderInv /\ RowsInv /\ ChainInv)
<1>1. Init => TypeOK /\ OrderInv /\ RowsInv /\ ChainInv
  <2>1. Init => OrderInv
    BY DEF Init, ProcessorInit, OrderInv, InOrder
  <2>2. Init => RowsInv
    BY DEF Init, ProcessorInit, EmptyTable, RowsInv, RowInv
  <2>3. Init => ChainInv
    BY ReplicatorAssumption
    DEF ReplicatorAssumption, Init, ProcessorInit, Idle, ChainInv, Wanted, OnChain,
        Confirmed
  <2>. QED BY <2>1, <2>2, <2>3, InitType
<1>2. TypeOK /\ OrderInv /\ RowsInv /\ ChainInv /\ [Next]_vars
        => (TypeOK /\ OrderInv /\ RowsInv /\ ChainInv)'
  <2>. SUFFICES ASSUME TypeOK, OrderInv, RowsInv, ChainInv, [Next]_vars
                PROVE  TypeOK' /\ OrderInv' /\ RowsInv' /\ ChainInv'
    OBVIOUS
  <2>1. ChainInv'
    BY PusherStep, WantedStep DEF ChainInv
  <2>. QED BY <2>1, StepType, OrderStep, RowsStep
<1>. QED BY <1>1, <1>2, PTL DEF Spec

\* Every message on the chain that no thread is working on is in its table, as
\* the handlers conclude it from the whole transaction, whatever else was in its
\* block, however announcements of it overlapped, and in spite of
\* reorganisations, rescans and crashes.
THEOREM TablesFollowChain == Spec => []ChainIsInTables
<1>1. ASSUME TypeOK, RowsInv, ChainInv PROVE ChainIsInTables
  <2>. SUFFICES ASSUME NEW m \in Models, NEW t \in OnChain,
                       t \notin hurt[m] \cup Held, Replayed(m, t),
                       Expected(m, t, TRUE) # None
                PROVE  rows[m][t] \in Results(m, t)
    BY DEF ChainIsInTables
  <2>. USE ReplicatorAssumption
       DEF ReplicatorAssumption, TypeOK, ProcessorTypeOK
  <2>1. t \in Txs
    BY <1>1, HeldType
  <2>2. ~Pending(m, t)
    BY DEF Pending, Held, Range
  <2>3. rows[m][t] # None
    BY <1>1, <2>1, <2>2 DEF ChainInv, Wanted
  <2>4. \A p \in Threads : ~Fixing(p, m, t)
    BY <1>1 DEF Fixing, Held, Range, InLoopHasTransaction, Tx
  <2>. QED BY <1>1, <2>1, <2>3, <2>4 DEF RowsInv, RowInv
<1>. QED BY <1>1, ChainInvariant, PTL

(***************************************************************************)
(* A rescan.  Until it ends, the transactions it has not seen announced as *)
(* unconfirmed belong to the pusher alone.                                 *)
(***************************************************************************)
Again == Confirmed(SubSeq(chain, 1, pos - 1))
Untouched(m) == Txs \ (touched \cup hurt[m])

\* Behind the place beforeFullRescan is at, the basic tables are empty.
ClearInv ==
  /\ Idle(Pusher)
  /\ \A i \in DOMAIN ModelOrder : i < pos /\ ModelOrder[i] \in Basic
       => \A t \in Untouched(ModelOrder[i]) : rows[ModelOrder[i]][t] = None

\* A basic table has what was announced again, and nothing else.
RebuiltInv(m, t) ==
  /\ \/ rows[m][t] \in {None, Expected(m, t, TRUE)}
     \/ Fixing(Pusher, m, t)
  /\ t \notin Again => rows[m][t] = None

ReplayInv ==
  /\ Range(batch[Pusher]) \subseteq Again
  /\ \A m \in Basic : \A t \in Untouched(m) : RebuiltInv(m, t)

ScanInv ==
  /\ scan # "off" => \A p \in Threads \ {Pusher} : Range(batch[p]) \subseteq touched
  /\ scan = "clear" => ClearInv
  /\ scan = "replay" => ReplayInv

\* Going on to the next transaction adds none.
LEMMA TailRange ==
  ASSUME NEW s \in Seq(Txs), s # << >>
  PROVE  Range(Tail(s)) \subseteq Range(s)
<1>. SUFFICES ASSUME NEW i \in DOMAIN Tail(s) PROVE Tail(s)[i] \in Range(s)
  BY DEF Range
<1>1. i + 1 \in DOMAIN s /\ Tail(s)[i] = s[i + 1]
  OBVIOUS
<1>. QED BY <1>1 DEF Range

\* A rescan announces blocks of the chain.
LEMMA ReplayedIsOnChain ==
  ASSUME TypeOK, ChainInv, scan = "replay"
  PROVE  Again \subseteq OnChain
<1>1. pos - 1 \in 0..Len(chain)
  BY DEF TypeOK, ChainInv
<1>2. Again = UNION {Range(chain[i]) : i \in 1..(pos - 1)}
  BY <1>1, ConfirmedUpTo DEF Again, TypeOK
<1>3. DOMAIN chain = 1..Len(chain) /\ 1..(pos - 1) \subseteq 1..Len(chain)
  BY <1>1 DEF TypeOK
<1>. QED BY <1>2, <1>3 DEF OnChain, Confirmed

\* In a rescan every thread but the pusher holds what is touched.
LEMMA TouchedStep ==
  ASSUME TypeOK, ScanInv, [Next]_vars, scan' # "off",
         NEW p \in Threads \ {Pusher}
  PROVE  Range(batch'[p]) \subseteq touched'
<1>. USE ReplicatorAssumption
     DEF ReplicatorAssumption, TypeOK, ProcessorTypeOK, ScanInv
<1>1. CASE StartRescan
  BY <1>1 DEF StartRescan, Held, processorVars
<1>2. CASE ReplayBlock
  <2>1. batch'[p] = batch[p]
    BY <1>2 DEF ReplayBlock, Receive
  <2>. QED BY <1>2, <2>1 DEF ReplayBlock
<1>3. ASSUME NEW q \in Threads, Unconfirmed(q)
      PROVE  Range(batch'[p]) \subseteq touched'
  <2>1. PICK txs \in Announcements(Txs \ OnChain) :
               /\ batch' = [batch EXCEPT ![q] = txs]
               /\ touched' = touched \cup Range(txs)
    BY <1>3 DEF Unconfirmed, Receive, coreVars
  <2>2. scan # "off"
    BY <1>3 DEF Unconfirmed, coreVars
  <2>. QED BY <2>1, <2>2
<1>4. ASSUME NEW q \in Threads, Process(q)
      PROVE  Range(batch'[p]) \subseteq touched'
  <2>1. UNCHANGED <<scan, touched>>
    BY <1>4 DEF Process, replicatorVars, coreVars
  <2>2. batch'[p] = batch[p] \/ (~Idle(p) /\ batch'[p] = Tail(batch[p]))
    BY <1>4 DEF Process, ProcessTransactions, ApplyFails, ReadBytes,
                ReadBytesThrows, SkipBundle, BundleThrows, Apply, EndOfBundles,
                NextTransaction, AtBundle, InLoopHasTransaction, Idle
  <2>3. ~Idle(p) => Range(Tail(batch[p])) \subseteq Range(batch[p])
    BY TailRange DEF Idle
  <2>. QED BY <2>1, <2>2, <2>3
<1>5. CASE UNCHANGED <<batch, scan, touched>>
  BY <1>5
<1>6. CASE StartReplay
  BY <1>6 DEF StartReplay, processorVars
<1>. QED BY <1>1, <1>2, <1>3, <1>4, <1>5, <1>6
  DEF Next, Rescan, vars, processorVars, replicatorVars, coreVars, PushBlock,
      PopBlock, EndRescan, Crash, BeforeFullRescan

\* A step of a run, seen from a row that is not touched in this rescan: it is
\* kept, or the pusher is at its transaction.
LEMMA UntouchedRow ==
  ASSUME TypeOK, OrderInv, ChainInv, ScanInv, scan # "off",
         NEW p \in Threads, Process(p), NEW m \in Models, NEW t \in Untouched(m)'
  PROVE  /\ t \in Untouched(m)
         /\ \/ /\ rows'[m][t] = rows[m][t]
               /\ Fixing(Pusher, m, t) => Fixing(Pusher, m, t)'
            \/ /\ t \in Range(batch[Pusher])
               /\ \/ Fixing(Pusher, m, t)'
                  \/ rows'[m][t] = Expected(m, t, TRUE)
<1>. USE ReplicatorAssumption
     DEF ReplicatorAssumption, TypeOK, ProcessorTypeOK
<1>1. CASE ProcessTransactions(p) /\ UNCHANGED replicatorVars
  <2>1. t \in Untouched(m) /\ t \notin touched /\ t \in Txs
    BY <1>1 DEF replicatorVars, Untouched
  <2>2. ~Idle(p) /\ t = Tx(p) => t \in Range(batch[p])
    BY DEF Idle, Tx, Range
  <2>3. ~Idle(p) /\ t = Tx(p) => p = Pusher
    BY <2>1, <2>2 DEF ScanInv
  <2>4. p = Pusher /\ ~Idle(p) => confirmed[p] = TRUE
    BY DEF ChainInv
  <2>. QED BY <1>1, <2>1, <2>2, <2>3, <2>4, RunStep
<1>2. CASE /\ ApplyFails(p)
           /\ hurt' = [n \in Models |-> hurt[n] \cup {Tx(p)}]
           /\ UNCHANGED <<coreVars, touched>>
  <2>1. t \in Untouched(m) /\ t # Tx(p)
    BY <1>2 DEF Untouched
  <2>2. UNCHANGED rows
    BY <1>2 DEF ApplyFails
  <2>3. Fixing(Pusher, m, t) => Fixing(Pusher, m, t)'
    <3>1. CASE p = Pusher
      BY <2>1, <3>1 DEF Fixing
    <3>2. CASE p # Pusher
      BY <1>2, <3>2, OneThread, OthersFix
    <3>. QED BY <3>1, <3>2
  <2>. QED BY <2>1, <2>2, <2>3
<1>. QED BY <1>1, <1>2 DEF Process

\* A rescan first empties the basic tables and then fills them from the chain.
LEMMA ScanStep ==
  ASSUME TypeOK, OrderInv, ChainInv, ScanInv, [Next]_vars
  PROVE  ScanInv'
<1>. USE ReplicatorAssumption
     DEF ReplicatorAssumption, TypeOK, ProcessorTypeOK
<1>0. SUFFICES /\ scan' = "clear" => ClearInv'
               /\ scan' = "replay" => ReplayInv'
  BY TouchedStep DEF ScanInv
<1>1. CASE StartRescan
  BY <1>1 DEF StartRescan, ClearInv, processorVars, Idle
<1>2. CASE BeforeFullRescan
  <2>1. /\ scan' = "clear" /\ scan = "clear"
        /\ pos' = pos + 1 /\ pos \in DOMAIN ModelOrder
        /\ UNCHANGED <<batch, touched>>
    BY <1>2 DEF BeforeFullRescan
  <2>2. Idle(Pusher)'
    BY <2>1 DEF ScanInv, ClearInv, Idle
  <2>3. ASSUME NEW i \in DOMAIN ModelOrder, i < pos', ModelOrder[i] \in Basic,
               NEW t \in Untouched(ModelOrder[i])'
        PROVE  rows'[ModelOrder[i]][t] = None
    <3>1. CASE ModelOrder[i] = ModelOrder[pos]
      BY <1>2, <2>3, <3>1 DEF BeforeFullRescan, EmptyTable, Untouched
    <3>2. CASE ModelOrder[i] # ModelOrder[pos]
      <4>1. i < pos
        BY <2>1, <2>3, <3>2
      <4>2. hurt'[ModelOrder[i]] = hurt[ModelOrder[i]]
            /\ rows'[ModelOrder[i]] = rows[ModelOrder[i]]
        BY <1>2, <3>2 DEF BeforeFullRescan
      <4>3. t \in Untouched(ModelOrder[i])
        BY <2>1, <2>3, <4>2 DEF Untouched
      <4>. QED BY <2>1, <2>3, <4>1, <4>2, <4>3 DEF ScanInv, ClearInv
    <3>. QED BY <3>1, <3>2
  <2>. QED BY <2>1, <2>2, <2>3 DEF ClearInv
<1>3. CASE StartReplay
  <2>1. /\ scan = "clear" /\ scan' = "replay"
        /\ pos' = 1 /\ pos \notin DOMAIN ModelOrder
        /\ UNCHANGED <<processorVars, chain, hurt, touched>>
    BY <1>3 DEF StartReplay
  <2>2. Again' = {}
    BY <2>1, ConfirmedBlocks DEF Again
  <2>3. Range(batch'[Pusher]) = {}
    BY <2>1 DEF ScanInv, ClearInv, Idle, Range, processorVars
  <2>4. ASSUME NEW m \in Basic, NEW t \in Untouched(m)' PROVE rows'[m][t] = None
    <3>1. PICK i \in DOMAIN ModelOrder : ModelOrder[i] = m
      BY DEF Range
    <3>2. i < pos
      BY <2>1, <3>1
    <3>3. t \in Untouched(m)
      BY <2>1 DEF Untouched
    <3>. QED BY <2>1, <3>1, <3>2, <3>3 DEF ScanInv, ClearInv, processorVars
  <2>. QED BY <2>1, <2>2, <2>3, <2>4 DEF ReplayInv, RebuiltInv
<1>4. CASE ReplayBlock
  <2>1. /\ scan = "replay" /\ scan' = "replay" /\ pos' - 1 = pos
        /\ pos \in DOMAIN chain /\ chain[pos] \in Seq(Txs)
        /\ Receive(Pusher, chain[pos], TRUE) /\ UNCHANGED <<chain, hurt, touched>>
    <3>1. /\ scan = "replay" /\ scan' = scan
          /\ pos' = pos + 1 /\ pos \in DOMAIN chain
          /\ Receive(Pusher, chain[pos], TRUE) /\ UNCHANGED <<chain, hurt, touched>>
      BY <1>4 DEF ReplayBlock
    <3>2. chain[pos] \in Seq(Txs)
      BY <3>1
    <3>3. pos' - 1 = pos
      BY <3>1
    <3>. QED BY <3>1, <3>2, <3>3
  <2>2. Again' = Again \cup Range(chain[pos])
    BY <2>1, ConfirmedBlocks DEF Again
  <2>3. batch'[Pusher] = chain[pos]
    BY <2>1 DEF Receive
  <2>4. \A m, t : ~Fixing(Pusher, m, t) 
    BY <2>1, ReceiveFixes DEF Fixing
  <2>5. ASSUME NEW m \in Basic, NEW t \in Untouched(m)' PROVE RebuiltInv(m, t)'
    <3>1. RebuiltInv(m, t)
      BY <2>1 DEF ScanInv, ReplayInv, Untouched
    <3>. QED BY <2>1, <2>2, <2>4, <3>1, ReceiveFixes DEF RebuiltInv
  <2>. QED BY <2>1, <2>2, <2>3, <2>5 DEF ReplayInv
<1>5. ASSUME NEW p \in Threads, Unconfirmed(p)
      PROVE  /\ scan' = "clear" => ClearInv'
             /\ scan' = "replay" => ReplayInv'
  <2>1. /\ UNCHANGED <<rows, chain, scan, pos, hurt>>
        /\ at'[Pusher] = at[Pusher] /\ todo'[Pusher] = todo[Pusher]
        /\ batch'[Pusher] = batch[Pusher] /\ confirmed'[Pusher] = confirmed[Pusher]
    BY <1>5 DEF Unconfirmed, Receive, coreVars
  <2>2. scan # "off" => touched \subseteq touched'
    BY <1>5 DEF Unconfirmed
  <2>3. scan # "off" => \A m : Untouched(m)' \subseteq Untouched(m)
    BY <2>1, <2>2 DEF Untouched
  <2>4. scan = "clear" => ClearInv'
    BY <2>1, <2>3 DEF ScanInv, ClearInv, Idle
  <2>5. \A m, t : Fixing(Pusher, m, t)' <=> Fixing(Pusher, m, t)
    BY <2>1, OthersFix
  <2>6. scan = "replay" => ReplayInv'
    BY <2>1, <2>3, <2>5 DEF ScanInv, ReplayInv, RebuiltInv, Again
  <2>. QED BY <2>1, <2>4, <2>6
<1>6. ASSUME NEW p \in Threads, Process(p)
      PROVE  /\ scan' = "clear" => ClearInv'
             /\ scan' = "replay" => ReplayInv'
  <2>1. UNCHANGED <<chain, scan, pos>>
    BY <1>6 DEF Process, replicatorVars, coreVars
  <2>2. \/ batch'[Pusher] = batch[Pusher]
        \/ ~Idle(Pusher) /\ batch'[Pusher] = Tail(batch[Pusher])
    BY <1>6 DEF Process, ProcessTransactions, ApplyFails, ReadBytes,
                ReadBytesThrows, SkipBundle, BundleThrows, Apply, EndOfBundles,
                NextTransaction, AtBundle, InLoopHasTransaction, Idle
  <2>3. CASE scan = "clear"
    <3>1. Idle(Pusher) /\ Range(batch[Pusher]) = {}
      BY <2>3 DEF ScanInv, ClearInv, Idle, Range
    <3>2. Idle(Pusher)'
      BY <2>2, <3>1 DEF Idle
    <3>3. ASSUME NEW m \in Models, NEW t \in Untouched(m)'
          PROVE  t \in Untouched(m) /\ rows'[m][t] = rows[m][t]
      BY <1>6, <2>3, <3>1, UntouchedRow
    <3>. QED BY <2>1, <2>3, <3>2, <3>3 DEF ScanInv, ClearInv
  <2>4. CASE scan = "replay"
    <3>1. Range(batch'[Pusher]) \subseteq Again'
      BY <2>1, <2>2, <2>4, TailRange DEF ScanInv, ReplayInv, Idle, Again
    <3>2. ASSUME NEW m \in Basic, NEW t \in Untouched(m)' PROVE RebuiltInv(m, t)'
      <4>1. RebuiltInv(m, t) /\ Range(batch[Pusher]) \subseteq Again
        BY <1>6, <2>4, UntouchedRow DEF ScanInv, ReplayInv
      <4>. QED BY <1>6, <2>1, <2>4, <4>1, UntouchedRow DEF RebuiltInv, Again
    <3>. QED BY <2>1, <2>4, <3>1, <3>2 DEF ReplayInv
  <2>. QED BY <2>1, <2>3, <2>4
<1>7. CASE UNCHANGED vars
  BY <1>7, OthersFix
  DEF vars, processorVars, replicatorVars, coreVars, ScanInv, ClearInv, ReplayInv,
      RebuiltInv, Untouched, Again, Idle
<1>8. CASE scan' = "off"
  BY <1>8
<1>. QED BY <1>1, <1>2, <1>3, <1>4, <1>5, <1>6, <1>7, <1>8
  DEF Next, Rescan, PushBlock, PopBlock, EndRescan, Crash

\* While a rescan replays the chain and nobody works on it, every basic table
\* has exactly what the blocks replayed so far say.
THEOREM RescanIsExact == Spec => []RescanRebuilds
<1>1. Init => ScanInv
  BY DEF Init, ScanInv
<1>2. TypeOK /\ OrderInv /\ ChainInv /\ ScanInv /\ [Next]_vars => ScanInv'
  BY ScanStep
<1>3. ASSUME TypeOK, ChainInv, ScanInv PROVE RescanRebuilds
  <2>. SUFFICES ASSUME scan = "replay", Idle(Pusher), NEW m \in Basic,
                       NEW t \in Untouched(m)
                PROVE  rows[m][t] = IF t \in Again
                                    THEN Expected(m, t, TRUE) ELSE None
    BY DEF RescanRebuilds, Untouched, Again
  <2>. USE ReplicatorAssumption DEF ReplicatorAssumption
  <2>1. RebuiltInv(m, t)
    BY <1>3 DEF ScanInv, ReplayInv
  <2>2. ~Fixing(Pusher, m, t) /\ ~Pending(m, t)
    BY <1>3 DEF Fixing, Pending, Idle, TypeOK, InLoopHasTransaction
  <2>3. CASE t \notin Again
    BY <2>1, <2>3 DEF RebuiltInv
  <2>4. CASE t \in Again
    <3>1. t \in OnChain
      BY <1>3, <2>4, ReplayedIsOnChain
    <3>2. Expected(m, t, TRUE) # None => rows[m][t] # None
      BY <1>3, <2>2, <2>4, <3>1 DEF ChainInv, Wanted, Replayed, Untouched, Again
    <3>. QED BY <2>1, <2>2, <2>4, <3>2 DEF RebuiltInv
  <2>. QED BY <2>3, <2>4
<1>. QED BY <1>1, <1>2, <1>3, ChainInvariant, PTL DEF Spec

===============================================================================
