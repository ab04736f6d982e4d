-------------------------- MODULE BundleDriverProofs --------------------------
(***************************************************************************)
(* What holds of BundleDriver for every set of calls, announcements and    *)
(* transactions, and every way the calls share them: types, what becomes   *)
(* of the lists, whose answer a call is given, that a call which shares    *)
(* nothing is answered exactly, and the refinement of SendPromise.         *)
(***************************************************************************)
EXTENDS BundleDriver, TLAPS

(***************************************************************************)
(* Types depend on the control: the local variables of a run and of a call *)
(* have been set by the time they are used.                                *)
(***************************************************************************)
RunReady ==
  \A r \in Runs :
    /\ at[r] # "off" => tx[r] \in TxIds
    /\ at[r] \in {"lookup", "find", "grow", "store", "status", "exception"}
         => verdict[r] \in Verdicts
    /\ at[r] \in {"find", "grow", "store"} => list[r] \in Calls
    /\ at[r] \in {"store", "status", "exception"} => target[r] \in Runs

OwnRun == \A c \in Calls : tx[c] = TxOf[c]

CallReady ==
  \A c \in Calls :
    pc[c] \in {"stamp", "answer"} \/ (pc[c] = "end" /\ outcome[c] = "none")
      => held[c] \in Calls

TypeInv == TypeOK /\ RunReady /\ OwnRun /\ CallReady

-------------------------------------------------------------------------------
(***************************************************************************)
(* Type correctness.                                                       *)
(***************************************************************************)

\* Storing an element keeps a list a list of runs and nulls.
LEMMA StoreType ==
  ASSUME NEW s \in Seq(Runs \cup {None}), NEW i \in DOMAIN s, NEW r \in Runs
  PROVE  [s EXCEPT ![i] = r] \in Seq(Runs \cup {None})
<1>1. s \in [1..Len(s) -> Runs \cup {None}] /\ Len(s) \in Nat
  OBVIOUS
<1>2. [s EXCEPT ![i] = r] \in [1..Len(s) -> Runs \cup {None}]
  BY <1>1
<1>3. QED  BY <1>1, <1>2

\* Growing a list, whatever it keeps, leaves a list of runs and nulls.
LEMMA GrowType ==
  ASSUME NEW s \in Seq(Runs \cup {None}),
         NEW n \in 1..Len(s) + 1, NEW kept \in SUBSET DOMAIN s
  PROVE  [i \in 1..n |-> IF i \in kept THEN s[i] ELSE None]
           \in Seq(Runs \cup {None})
<1> DEFINE g == [i \in 1..n |-> IF i \in kept THEN s[i] ELSE None]
<1>1. n \in Nat /\ s \in [DOMAIN s -> Runs \cup {None}]
  OBVIOUS
<1>2. g \in [1..n -> Runs \cup {None}]
  BY <1>1
<1>3. QED  BY <1>1, <1>2

LEMMA InitType == Init => TypeInv
<1> SUFFICES ASSUME Init PROVE TypeInv
  OBVIOUS
<1> USE CollectorAssumption DEF Init, CollectorInit
<1>1. CollectorTypeOK
  BY DEF CollectorTypeOK, Runs
<1>2. TypeOK
  BY <1>1 DEF TypeOK
<1>3. RunReady /\ CallReady
  BY DEF RunReady, CallReady
<1>4. OwnRun
  BY DEF OwnRun, Runs
<1>5. QED  BY <1>2, <1>3, <1>4 DEF TypeInv

\* What next() returns to a call is a run's response.
LEMMA NextIsRun ==
  ASSUME TypeInv, NEW c \in Calls, pc[c] \in {"stamp", "answer"},
         ~AtEnd(c), ~NextThrows(c)
  PROVE  lists[held[c]][cursor[c]] \in Runs
<1> DEFINE l == lists[held[c]]
<1>1. l \in Seq(Runs \cup {None})
  BY DEF TypeInv, TypeOK, CollectorTypeOK, CallReady
<1>2. cursor[c] \in 1..Len(l) /\ l[cursor[c]] # None
  BY <1>1 DEF AtEnd, NextThrows, TypeInv, TypeOK
<1>3. QED  BY <1>1, <1>2

\* And so is the element a run finds.
LEMMA FoundIsRun ==
  ASSUME TypeInv, NEW r \in Runs, at[r] = "find",
         lists[list[r]] # << >>, lists[list[r]][1] # None
  PROVE  lists[list[r]][1] \in Runs
<1> DEFINE l == lists[list[r]]
<1>1. l \in Seq(Runs \cup {None})
  BY DEF TypeInv, TypeOK, CollectorTypeOK, RunReady
<1>2. QED  BY <1>1

\* The steps of the sending thread.
LEMMA SendType ==
  ASSUME TypeInv, NEW c \in Calls, Send(c)
  PROVE  TypeInv'
<1>0. TypeOK /\ CollectorTypeOK /\ RunReady /\ OwnRun /\ CallReady
  BY DEF TypeInv, TypeOK
<1>1. CASE StartCollector(c)
  <2>1. pc' \in [Calls -> {"idle", "broadcast", "announcing", "collect", "stamp",
                       "end", "answer", "done"}]
    BY <1>0, <1>1
    DEF StartCollector, Goto, TypeOK
  <2>2. map' \in [TxIds -> Calls \cup {None}]
    BY <1>0, <1>1, CollectorAssumption
    DEF StartCollector, PutList, CollectorTypeOK
  <2>3. lists' \in [Calls -> Seq(Runs \cup {None})]
    BY <1>0, <1>1
    DEF StartCollector, PutList, CollectorTypeOK
  <2>4. TypeOK'
    BY <1>0, <1>1, <2>1, <2>2, <2>3
    DEF StartCollector, TypeOK, CollectorTypeOK, collectorVars, collection,
        responses, locals, callVars, coreVars
  <2>5. RunReady' /\ OwnRun'
    BY <1>0, <1>1 DEF StartCollector, RunReady, OwnRun, CollectorTypeOK,
        collectorVars, collection, responses, locals
  <2>6. CallReady'
    BY <1>0, <1>1 DEF StartCollector, Goto, CallReady, TypeOK, callVars
  <2>7. QED  BY <2>4, <2>5, <2>6 DEF TypeInv
<1>2. CASE FailEarly(c)
  <2>1. pc' \in [Calls -> {"idle", "broadcast", "announcing", "collect", "stamp",
                       "end", "answer", "done"}]
    BY <1>0, <1>2
    DEF FailEarly, Goto, TypeOK
  <2>2. outcome' \in [Calls -> Outcomes \cup {"none"}]
    BY <1>0, <1>2
    DEF FailEarly, Outcomes, Errors, TypeOK
  <2>3. TypeOK'
    BY <1>0, <1>2, <2>1, <2>2
    DEF FailEarly, TypeOK, CollectorTypeOK, collectorVars, collection,
        responses, locals, callVars, coreVars
  <2>4. RunReady' /\ OwnRun'
    BY <1>0, <1>2 DEF FailEarly, RunReady, OwnRun, CollectorTypeOK,
        collectorVars, collection, responses, locals
  <2>5. CallReady'
    BY <1>0, <1>2 DEF FailEarly, Goto, CallReady, TypeOK, callVars
  <2>6. QED  BY <2>3, <2>4, <2>5 DEF TypeInv
<1>3. CASE BroadcastFails(c)
  <2>1. pc' \in [Calls -> {"idle", "broadcast", "announcing", "collect", "stamp",
                       "end", "answer", "done"}]
    BY <1>0, <1>3
    DEF BroadcastFails, Goto, TypeOK
  <2>2. outcome' \in [Calls -> Outcomes \cup {"none"}]
    BY <1>0, <1>3
    DEF BroadcastFails, Outcomes, Errors, SendErrors, TypeOK
  <2>3. TypeOK'
    BY <1>0, <1>3, <2>1, <2>2
    DEF BroadcastFails, TypeOK, CollectorTypeOK, collectorVars, collection,
        responses, locals, callVars, coreVars
  <2>4. RunReady' /\ OwnRun'
    BY <1>0, <1>3 DEF BroadcastFails, RunReady, OwnRun, CollectorTypeOK,
        collectorVars, collection, responses, locals
  <2>5. CallReady'
    BY <1>0, <1>3 DEF BroadcastFails, Goto, CallReady, TypeOK, callVars
  <2>6. QED  BY <2>3, <2>4, <2>5 DEF TypeInv
<1>4. CASE BroadcastAnnounces(c)
  <2>1. pc' \in [Calls -> {"idle", "broadcast", "announcing", "collect", "stamp",
                       "end", "answer", "done"}]
    BY <1>0, <1>4
    DEF BroadcastAnnounces, Goto, TypeOK
  <2>2. at' \in [Runs -> {"off", "handle", "lookup", "find", "grow", "store",
                      "status", "exception", "end"}]
    BY <1>0, <1>4
    DEF BroadcastAnnounces, Reach, CollectorTypeOK
  <2>3. TypeOK'
    BY <1>0, CollectorAssumption, <1>4, <2>1, <2>2
    DEF BroadcastAnnounces, TypeOK, CollectorTypeOK, collectorVars, collection,
        responses, locals, callVars, coreVars
  <2>4. RunReady' /\ OwnRun'
    BY <1>0, <1>4, CollectorAssumption
    DEF BroadcastAnnounces, Reach, Runs, RunReady, OwnRun, CollectorTypeOK,
        collectorVars, collection, responses, locals
  <2>5. CallReady'
    BY <1>0, <1>4 DEF BroadcastAnnounces, Goto, CallReady, TypeOK, callVars
  <2>6. QED  BY <2>3, <2>4, <2>5 DEF TypeInv
<1>5. CASE BroadcastSilent(c)
  <2>1. pc' \in [Calls -> {"idle", "broadcast", "announcing", "collect", "stamp",
                       "end", "answer", "done"}]
    BY <1>0, <1>5
    DEF BroadcastSilent, Goto, TypeOK
  <2>2. TypeOK'
    BY <1>0, CollectorAssumption, <1>5, <2>1
    DEF BroadcastSilent, TypeOK, CollectorTypeOK, collectorVars, collection,
        responses, locals, callVars, coreVars
  <2>3. RunReady' /\ OwnRun'
    BY <1>0, <1>5 DEF BroadcastSilent, RunReady, OwnRun, CollectorTypeOK,
        collectorVars, collection, responses, locals
  <2>4. CallReady'
    BY <1>0, <1>5 DEF BroadcastSilent, Goto, CallReady, TypeOK, callVars
  <2>5. QED  BY <2>2, <2>3, <2>4 DEF TypeInv
<1>6. CASE BroadcastReturns(c)
  <2>1. pc' \in [Calls -> {"idle", "broadcast", "announcing", "collect", "stamp",
                       "end", "answer", "done"}]
    BY <1>0, <1>6
    DEF BroadcastReturns, Goto, TypeOK
  <2>2. TypeOK'
    BY <1>0, <1>6, <2>1
    DEF BroadcastReturns, TypeOK, CollectorTypeOK, collectorVars, collection,
        responses, locals, callVars, coreVars
  <2>3. RunReady' /\ OwnRun'
    BY <1>0, <1>6 DEF BroadcastReturns, RunReady, OwnRun, CollectorTypeOK,
        collectorVars, collection, responses, locals
  <2>4. CallReady'
    BY <1>0, <1>6 DEF BroadcastReturns, Goto, CallReady, TypeOK, callVars
  <2>5. QED  BY <2>2, <2>3, <2>4 DEF TypeInv
<1>7. CASE GetResponses(c)
  <2>1. pc' \in [Calls -> {"idle", "broadcast", "announcing", "collect", "stamp",
                       "end", "answer", "done"}]
    BY <1>0, <1>7
    DEF GetResponses, Goto, TypeOK
  <2>2. held' \in [Calls -> Calls \cup {None}]
    BY <1>0, <1>7, CollectorAssumption
    DEF GetResponses, CollectorTypeOK, TypeOK
  <2>3. expected' \in [Calls -> Nat]
    <3>1. map[TxOf[c]] \in Calls \cup {None}
      BY <1>0, CollectorAssumption DEF CollectorTypeOK
    <3>2. \/ expected' = expected
          \/ /\ map[TxOf[c]] # None
             /\ expected' = [expected EXCEPT ![c] = mods[map[TxOf[c]]]]
      BY <1>7 DEF GetResponses
    <3>3. QED  BY <1>0, <3>1, <3>2 DEF TypeOK, CollectorTypeOK
  <2>4. outcome' \in [Calls -> Outcomes \cup {"none"}]
    BY <1>0, <1>7
    DEF GetResponses, Outcomes, Errors, SendErrors, TypeOK
  <2>5. TypeOK'
    BY <1>0, <1>7, <2>1, <2>2, <2>3, <2>4
    DEF GetResponses, TypeOK, CollectorTypeOK, collectorVars, collection,
        responses, locals, callVars, coreVars
  <2>6. RunReady' /\ OwnRun'
    BY <1>0, <1>7 DEF GetResponses, RunReady, OwnRun, CollectorTypeOK,
        collectorVars, collection, responses, locals
  <2>7. CallReady'
    <3>1. map[TxOf[c]] \in Calls \cup {None}
      BY <1>0, CollectorAssumption DEF CollectorTypeOK
    <3>2. QED
      BY <1>0, <1>7, <3>1 DEF GetResponses, Goto, CallReady, TypeOK
  <2>8. QED  BY <2>5, <2>6, <2>7 DEF TypeInv
<1>8. CASE Stamp(c)
  <2>1. pc' \in [Calls -> {"idle", "broadcast", "announcing", "collect", "stamp",
                       "end", "answer", "done"}]
    BY <1>0, <1>8
    DEF Stamp, Goto, TypeOK
  <2>2. cursor' \in [Calls -> Nat \ {0}]
    BY <1>0, <1>8
    DEF Stamp, TypeOK
  <2>3. transactionId' \in [Runs -> TxIds \cup {None}]
    BY <1>0, <1>8, CollectorAssumption
    DEF Stamp, CollectorTypeOK
  <2>4. outcome' \in [Calls -> Outcomes \cup {"none"}]
    BY <1>0, <1>8
    DEF Stamp, Outcomes, Errors, SendErrors, TypeOK
  <2>5. TypeOK'
    BY <1>0, <1>8, <2>1, <2>2, <2>3, <2>4
    DEF Stamp, TypeOK, CollectorTypeOK, collectorVars, collection,
        responses, locals, callVars, coreVars
  <2>6. RunReady' /\ OwnRun'
    BY <1>0, <1>8 DEF Stamp, RunReady, OwnRun, CollectorTypeOK,
        collectorVars, collection, responses, locals
  <2>7. CallReady'
    BY <1>0, <1>8 DEF Stamp, Goto, CallReady, TypeOK, callVars
  <2>8. QED  BY <2>5, <2>6, <2>7 DEF TypeInv
<1>9. CASE EndCollector(c)
  <2>1. pc' \in [Calls -> {"idle", "broadcast", "announcing", "collect", "stamp",
                       "end", "answer", "done"}]
    BY <1>0, <1>9
    DEF EndCollector, Goto, TypeOK
  <2>2. map' \in [TxIds -> Calls \cup {None}]
    BY <1>0, <1>9
    DEF EndCollector, RemoveList, CollectorTypeOK
  <2>3. cursor' \in [Calls -> Nat \ {0}]
    BY <1>0, <1>9
    DEF EndCollector, TypeOK
  <2>4. expected' \in [Calls -> Nat]
    <3>1. \/ expected' = expected
          \/ /\ held[c] \in Calls
             /\ expected' = [expected EXCEPT ![c] = mods[held[c]]]
      BY <1>0, <1>9 DEF EndCollector, CallReady
    <3>2. expected \in [Calls -> Nat] /\ mods \in [Calls -> Nat]
      BY <1>0 DEF TypeOK, CollectorTypeOK
    <3>3. QED  BY <3>1, <3>2
  <2>5. TypeOK'
    BY <1>0, <1>9, <2>1, <2>2, <2>3, <2>4
    DEF EndCollector, TypeOK, CollectorTypeOK, collectorVars, collection,
        responses, locals, callVars, coreVars
  <2>6. RunReady' /\ OwnRun'
    BY <1>0, <1>9 DEF EndCollector, RunReady, OwnRun, CollectorTypeOK,
        collectorVars, collection, responses, locals
  <2>7. CallReady'
    BY <1>0, <1>9 DEF EndCollector, Goto, CallReady, TypeOK, callVars
  <2>8. QED  BY <2>5, <2>6, <2>7 DEF TypeInv
<1>10. CASE Answer(c)
  <2>1. pc' \in [Calls -> {"idle", "broadcast", "announcing", "collect", "stamp",
                       "end", "answer", "done"}]
    BY <1>0, <1>10
    DEF Answer, Goto, TypeOK
  <2>2. cursor' \in [Calls -> Nat \ {0}]
    BY <1>0, <1>10
    DEF Answer, TypeOK
  <2>3. outcome' \in [Calls -> Outcomes \cup {"none"}]
    <3>1. \/ outcome' = outcome
          \/ outcome' = [outcome EXCEPT ![c] = "notReached"]
          \/ outcome' = [outcome EXCEPT ![c] = "raced"]
          \/ \E r \in Runs : /\ Decide(r) # "none"
                              /\ outcome' = [outcome EXCEPT ![c] = Decide(r)]
      BY <1>0, <1>10, NextIsRun DEF Answer
    <3>2. \A r \in Runs : Decide(r) # "none" => Decide(r) \in Outcomes
      BY <1>0 DEF Decide, Outcomes, Errors, ReadErrors, CollectorTypeOK
    <3>3. {"notReached", "raced"} \subseteq Outcomes
      BY DEF Outcomes, Errors, ReadErrors
    <3>4. QED  BY <1>0, <3>1, <3>2, <3>3 DEF TypeOK
  <2>4. returned' \in [Calls -> TxIds \cup {None}]
    <3>1. \/ returned' = returned
          \/ \E r \in Runs : \E o \in {transactionId[r], None} :
               returned' = [returned EXCEPT ![c] = o]
      BY <1>10, NextIsRun DEF Answer
    <3>2. /\ returned \in [Calls -> TxIds \cup {None}]
          /\ transactionId \in [Runs -> TxIds \cup {None}]
      BY <1>0 DEF TypeOK, CollectorTypeOK
    <3>3. QED  BY <3>1, <3>2
  <2>5. TypeOK'
    BY <1>0, <1>10, <2>1, <2>2, <2>3, <2>4
    DEF Answer, TypeOK, CollectorTypeOK, collectorVars, collection,
        responses, locals, callVars, coreVars
  <2>6. RunReady' /\ OwnRun'
    BY <1>0, <1>10 DEF Answer, RunReady, OwnRun, CollectorTypeOK,
        collectorVars, collection, responses, locals
  <2>7. CallReady'
    BY <1>0, <1>10 DEF Answer, Goto, CallReady, TypeOK, callVars
  <2>8. QED  BY <2>5, <2>6, <2>7 DEF TypeInv
<1>11. QED
  BY <1>1, <1>2, <1>3, <1>4, <1>5, <1>6, <1>7, <1>8, <1>9, <1>10 DEF Send

\* The steps of a run of processTransaction.
LEMMA ProcessType ==
  ASSUME TypeInv, NEW r \in Runs, Process(r)
  PROVE  TypeInv'
<1>0. TypeOK /\ CollectorTypeOK /\ RunReady /\ OwnRun /\ CallReady
  BY DEF TypeInv, TypeOK
<1>1. CASE Handle(r)
  <2>1. at' \in [Runs -> {"off", "handle", "lookup", "find", "grow", "store",
                      "status", "exception", "end"}]
    <3>1. at' = [at EXCEPT ![r] = "end"] \/ at' = [at EXCEPT ![r] = "lookup"]
      BY <1>1 DEF Handle, Reach
    <3>2. QED  BY <1>0, <3>1 DEF CollectorTypeOK
  <2>2. verdict' \in [Runs -> Verdicts \cup {"none"}]
    BY <1>0, <1>1
    DEF Handle, CollectorTypeOK
  <2>3. verdicts' \in [TxIds -> SUBSET Verdicts]
    BY <1>0, <1>1
    DEF Handle, RunReady, TypeOK
  <2>4. TypeOK'
    BY <1>0, <1>1, <2>1, <2>2, <2>3
    DEF Handle, TypeOK, CollectorTypeOK, collectorVars, collection,
        responses, locals, callVars, coreVars
  <2>5. RunReady' /\ OwnRun'
    BY <1>0, <1>1 DEF Handle, Reach, RunReady, OwnRun, CollectorTypeOK,
        collectorVars, collection, responses, locals
  <2>6. CallReady'
    BY <1>0, <1>1 DEF Handle, CallReady, TypeOK, callVars
  <2>7. QED  BY <2>4, <2>5, <2>6 DEF TypeInv
<1>2. CASE Lookup(r) /\ UNCHANGED <<callVars, coreVars>>
  <2>1. at' \in [Runs -> {"off", "handle", "lookup", "find", "grow", "store",
                      "status", "exception", "end"}]
    <3>1. at' = [at EXCEPT ![r] = "end"] \/ at' = [at EXCEPT ![r] = "find"]
      BY <1>2 DEF Lookup, Reach
    <3>2. QED  BY <1>0, <3>1 DEF CollectorTypeOK
  <2>2. list' \in [Runs -> Calls \cup {None}]
    BY <1>0, <1>2
    DEF Lookup, RunReady, CollectorTypeOK
  <2>3. seen' \in [Runs -> Nat]
    BY <1>0, <1>2
    DEF Lookup, RunReady, CollectorTypeOK
  <2>4. TypeOK'
    BY <1>0, <1>2, <2>1, <2>2, <2>3
    DEF Lookup, TypeOK, CollectorTypeOK, collectorVars, collection,
        responses, locals, callVars, coreVars
  <2>5. RunReady' /\ OwnRun'
    BY <1>0, <1>2 DEF Lookup, Reach, RunReady, OwnRun, CollectorTypeOK,
        collectorVars, collection, responses, locals
  <2>6. CallReady'
    BY <1>0, <1>2 DEF Lookup, CallReady, TypeOK, callVars
  <2>7. QED  BY <2>4, <2>5, <2>6 DEF TypeInv
<1>3. CASE Find(r) /\ UNCHANGED <<callVars, coreVars>>
  <2>1. at' \in [Runs -> {"off", "handle", "lookup", "find", "grow", "store",
                      "status", "exception", "end"}]
    BY <1>0, <1>3
    DEF Find, Reach, CollectorTypeOK
  <2>2. target' \in [Runs -> Runs \cup {None}]
    <3>1. \/ target' = target
          \/ \E n \in Runs : target' = [target EXCEPT ![r] = n]
      BY <1>3, FoundIsRun DEF Find
    <3>2. QED  BY <1>0, <3>1 DEF CollectorTypeOK
  <2>3. TypeOK'
    BY <1>0, <1>3, <2>1, <2>2
    DEF Find, TypeOK, CollectorTypeOK, collectorVars, collection,
        responses, locals, callVars, coreVars
  <2>4. RunReady' /\ OwnRun'
    BY <1>0, <1>3, FoundIsRun
    DEF Find, Reach, RunReady, OwnRun, CollectorTypeOK, responses
  <2>5. CallReady'
    BY <1>0, <1>3 DEF Find, CallReady, TypeOK, callVars
  <2>6. QED  BY <2>3, <2>4, <2>5 DEF TypeInv
<1>4. CASE Grow(r) /\ UNCHANGED <<callVars, coreVars>>
  <2>1. at' \in [Runs -> {"off", "handle", "lookup", "find", "grow", "store",
                      "status", "exception", "end"}]
    BY <1>0, <1>4
    DEF Grow, Reach, CollectorTypeOK
  <2>2. target' \in [Runs -> Runs \cup {None}]
    BY <1>0, <1>4
    DEF Grow, CollectorTypeOK
  <2>3. slot' \in [Runs -> Nat]
    BY <1>0, <1>4
    DEF Grow, CollectorTypeOK
  <2>4. lists' \in [Calls -> Seq(Runs \cup {None})]
    <3>1. PICK n \in 1..Len(lists[list[r]]) + 1,
               kept \in SUBSET DOMAIN lists[list[r]] :
            lists' = [lists EXCEPT ![list[r]] =
                        [i \in 1..n |-> IF i \in kept THEN lists[list[r]][i]
                                       ELSE None]]
      BY <1>4 DEF Grow
    <3>2. lists[list[r]] \in Seq(Runs \cup {None})
      BY <1>0, <1>4 DEF Grow, RunReady, CollectorTypeOK
    <3>3. lists \in [Calls -> Seq(Runs \cup {None})]
      BY <1>0 DEF CollectorTypeOK
    <3>4. QED  BY <3>1, <3>2, <3>3, GrowType
  <2>5. mods' \in [Calls -> Nat]
    BY <1>0, <1>4
    DEF Grow, RunReady, CollectorTypeOK
  <2>6. TypeOK'
    BY <1>0, <1>4, <2>1, <2>2, <2>3, <2>4, <2>5
    DEF Grow, TypeOK, CollectorTypeOK, collectorVars, collection,
        responses, locals, callVars, coreVars
  <2>7. RunReady' /\ OwnRun'
    BY <1>0, <1>4 DEF Grow, Reach, RunReady, OwnRun, CollectorTypeOK,
        collectorVars, collection, responses, locals
  <2>8. CallReady'
    BY <1>0, <1>4 DEF Grow, CallReady, TypeOK, callVars
  <2>9. QED  BY <2>6, <2>7, <2>8 DEF TypeInv
<1>5. CASE Store(r) /\ UNCHANGED <<callVars, coreVars>>
  <2>1. at' \in [Runs -> {"off", "handle", "lookup", "find", "grow", "store",
                      "status", "exception", "end"}]
    BY <1>0, <1>5
    DEF Store, Reach, CollectorTypeOK
  <2>2. lists' \in [Calls -> Seq(Runs \cup {None})]
    <3>1. \/ lists' = lists
          \/ /\ slot[r] \in DOMAIN lists[list[r]]
             /\ lists' = [lists EXCEPT ![list[r]] =
                            [lists[list[r]] EXCEPT ![slot[r]] = r]]
      BY <1>5 DEF Store
    <3>2. lists[list[r]] \in Seq(Runs \cup {None})
      BY <1>0, <1>5 DEF Store, RunReady, CollectorTypeOK
    <3>3. lists \in [Calls -> Seq(Runs \cup {None})]
      BY <1>0 DEF CollectorTypeOK
    <3>4. slot[r] \in DOMAIN lists[list[r]] =>
            [lists[list[r]] EXCEPT ![slot[r]] = r] \in Seq(Runs \cup {None})
      BY <3>2, StoreType
    <3>5. QED  BY <3>1, <3>3, <3>4
  <2>3. TypeOK'
    BY <1>0, <1>5, <2>1, <2>2
    DEF Store, TypeOK, CollectorTypeOK, collectorVars, collection,
        responses, locals, callVars, coreVars
  <2>4. RunReady' /\ OwnRun'
    <3>1. /\ at[r] = "store" /\ at' = [at EXCEPT ![r] = "status"]
          /\ UNCHANGED <<tx, verdict, list, target>>
      BY <1>5 DEF Store, Reach
    <3>2. QED  BY <1>0, <3>1 DEF RunReady, OwnRun, CollectorTypeOK
  <2>5. CallReady'
    BY <1>0, <1>5 DEF Store, CallReady, TypeOK, callVars
  <2>6. QED  BY <2>3, <2>4, <2>5 DEF TypeInv
<1>6. CASE SetStatus(r) /\ UNCHANGED <<callVars, coreVars>>
  <2>1. at' \in [Runs -> {"off", "handle", "lookup", "find", "grow", "store",
                      "status", "exception", "end"}]
    BY <1>0, <1>6
    DEF SetStatus, Reach, CollectorTypeOK
  <2>2. status' \in [Runs -> Verdicts \cup {"unset"}]
    BY <1>0, <1>6
    DEF SetStatus, RunReady, CollectorTypeOK
  <2>3. TypeOK'
    BY <1>0, <1>6, <2>1, <2>2
    DEF SetStatus, TypeOK, CollectorTypeOK, collectorVars, collection,
        responses, locals, callVars, coreVars
  <2>4. RunReady' /\ OwnRun'
    BY <1>0, <1>6 DEF SetStatus, Reach, RunReady, OwnRun, CollectorTypeOK,
        collectorVars, collection, responses, locals
  <2>5. CallReady'
    BY <1>0, <1>6 DEF SetStatus, CallReady, TypeOK, callVars
  <2>6. QED  BY <2>3, <2>4, <2>5 DEF TypeInv
<1>7. CASE SetException(r) /\ UNCHANGED <<callVars, coreVars>>
  <2>1. at' \in [Runs -> {"off", "handle", "lookup", "find", "grow", "store",
                      "status", "exception", "end"}]
    BY <1>0, <1>7
    DEF SetException, Reach, CollectorTypeOK
  <2>2. exception' \in [Runs -> {"null", "set"}]
    BY <1>0, <1>7
    DEF SetException, CollectorTypeOK
  <2>3. TypeOK'
    BY <1>0, <1>7, <2>1, <2>2
    DEF SetException, TypeOK, CollectorTypeOK, collectorVars, collection,
        responses, locals, callVars, coreVars
  <2>4. RunReady' /\ OwnRun'
    BY <1>0, <1>7 DEF SetException, Reach, RunReady, OwnRun, CollectorTypeOK,
        collectorVars, collection, responses, locals
  <2>5. CallReady'
    BY <1>0, <1>7 DEF SetException, CallReady, TypeOK, callVars
  <2>6. QED  BY <2>3, <2>4, <2>5 DEF TypeInv
<1>8. QED
  BY <1>1, <1>2, <1>3, <1>4, <1>5, <1>6, <1>7 DEF Process, Report

LEMMA AnnounceType ==
  ASSUME TypeInv, NEW e \in Events, Announce(e)
  PROVE  TypeInv'
  BY CollectorAssumption
  DEF Announce, TypeInv, TypeOK, CollectorTypeOK, CallReady, RunReady, OwnRun,
      Reach, collection, responses, callVars, coreVars, Runs

\* Every reachable state has the types, and the runs and calls are ready.
THEOREM TypeInvariant == Spec => []TypeInv
<1>1. Init => TypeInv
  BY InitType
<1>2. TypeInv /\ [Next]_vars => TypeInv'
  <2> SUFFICES ASSUME TypeInv, [Next]_vars PROVE TypeInv'
    OBVIOUS
  <2>1. CASE UNCHANGED vars
    BY <2>1 DEF vars, callVars, coreVars, collectorVars, collection, responses,
                locals, TypeInv, TypeOK, CollectorTypeOK, RunReady, OwnRun,
                CallReady
  <2>2. CASE Next
    BY <2>2, SendType, AnnounceType, ProcessType DEF Next
  <2>3. QED  BY <2>1, <2>2
<1>3. QED  BY <1>1, <1>2, PTL DEF Spec

\* The type invariant of BundleDriver: every variable of the driver and of the
\* collector keeps its type, so no list holds anything but responses and nulls
\* and no call is handed anything but a list or null.
THEOREM TypeCorrect == Spec => []TypeOK
<1>1. TypeInv => TypeOK
  BY DEF TypeInv
<1>2. QED  BY TypeInvariant, <1>1, PTL

-------------------------------------------------------------------------------
(***************************************************************************)
(* The collector does not leak.                                            *)
(***************************************************************************)

\* The call is between startCollector and endCollector.
Collecting(c) == pc[c] \notin {"idle", "answer", "done"}

\* Nothing changes the map but startCollector and endCollector, and no other
\* step ends a call that is between the two.
LEMMA QuietSteps ==
  ASSUME TypeInv, NEW c \in Calls, Send(c)
  PROVE  \/ StartCollector(c)
         \/ EndCollector(c)
         \/ /\ UNCHANGED map
            /\ \A d \in Calls : Collecting(d) => Collecting(d)'
<1> USE DEF Collecting, Goto, TypeInv, TypeOK, collectorVars, collection
<1>1. CASE FailEarly(c)
  BY <1>1 DEF FailEarly
<1>2. CASE BroadcastFails(c)
  BY <1>2 DEF BroadcastFails
<1>3. CASE BroadcastAnnounces(c)
  BY <1>3 DEF BroadcastAnnounces
<1>4. CASE BroadcastSilent(c)
  BY <1>4 DEF BroadcastSilent
<1>5. CASE BroadcastReturns(c)
  BY <1>5 DEF BroadcastReturns
<1>6. CASE GetResponses(c)
  BY <1>6 DEF GetResponses
<1>7. CASE Stamp(c)
  BY <1>7 DEF Stamp
<1>8. CASE Answer(c)
  BY <1>8 DEF Answer
<1>9. QED  BY <1>1, <1>2, <1>3, <1>4, <1>5, <1>6, <1>7, <1>8 DEF Send

\* A run of processTransaction leaves the map and the calls alone.
LEMMA RunsLeaveCalls ==
  ASSUME NEW r \in Runs, Process(r)
  PROVE  UNCHANGED <<map, callVars, known>>
  BY DEF Process, Handle, Report, Lookup, Find, Grow, Store, SetStatus,
         SetException, collection, coreVars

LEMMA AnnouncementsLeaveCalls ==
  ASSUME NEW e \in Events, Announce(e)
  PROVE  UNCHANGED <<collection, responses, callVars, coreVars>>
  BY DEF Announce

\* A list stays in the collector only while a call for its transaction is
\* between startCollector and endCollector, for any number of calls that share
\* transactions in any way (the try/finally of buildAndBroadCast).
THEOREM CollectorIsCleared == Spec => []NoLeakedCollector
<1> USE DEF NoLeakedCollector
<1>1. Init => NoLeakedCollector
  BY DEF Init, CollectorInit
<1>2. TypeInv /\ NoLeakedCollector /\ [Next]_vars => NoLeakedCollector'
  <2> SUFFICES ASSUME TypeInv, NoLeakedCollector, [Next]_vars
               PROVE  NoLeakedCollector'
    OBVIOUS
  <2>1. ASSUME NEW c \in Calls, StartCollector(c)
        PROVE  NoLeakedCollector'
    BY <2>1 DEF StartCollector, PutList, Goto, TypeInv, TypeOK, CollectorTypeOK
  <2>2. ASSUME NEW c \in Calls, EndCollector(c)
        PROVE  NoLeakedCollector'
    <3>1. /\ map' = [map EXCEPT ![TxOf[c]] = None]
          /\ \A d \in Calls \ {c} : pc'[d] = pc[d]
      BY <2>2 DEF EndCollector, RemoveList, Goto, TypeInv, TypeOK
    <3>2. ASSUME NEW t \in TxIds, map'[t] # None
          PROVE  t # TxOf[c] /\ map'[t] = map[t]
      BY <3>1, <3>2 DEF TypeInv, TypeOK, CollectorTypeOK
    <3>3. ASSUME NEW t \in TxIds, map'[t] # None
          PROVE  \E d \in Calls : TxOf[d] = t /\ Collecting(d)'
      BY <3>1, <3>2, <3>3 DEF Collecting
    <3>4. QED  BY <3>2, <3>3 DEF Collecting
  <2>3. ASSUME UNCHANGED map, \A d \in Calls : Collecting(d) => Collecting(d)'
        PROVE  NoLeakedCollector'
    BY <2>3 DEF Collecting
  <2>4. ASSUME NEW r \in Runs, Process(r)
        PROVE  NoLeakedCollector'
    BY <2>3, <2>4, RunsLeaveCalls DEF Collecting, callVars
  <2>5. ASSUME NEW e \in Events, Announce(e)
        PROVE  NoLeakedCollector'
    BY <2>3, <2>5, AnnouncementsLeaveCalls DEF Collecting, callVars, collection
  <2>6. CASE UNCHANGED vars
    BY <2>3, <2>6 DEF Collecting, vars, callVars, collectorVars, collection
  <2>7. QED
    BY <2>1, <2>2, <2>3, <2>4, <2>5, <2>6, QuietSteps DEF Next
<1>3. QED  BY <1>1, <1>2, TypeInvariant, PTL DEF Spec

-------------------------------------------------------------------------------
(***************************************************************************)
(* A call that shares its transaction with no other one keeps its list in  *)
(* the map from startCollector to getResponses.                            *)
(***************************************************************************)
Alone(c) == \A d \in Calls \ {c} : TxOf[d] # TxOf[c]

ListInv ==
  \A c \in Calls : Alone(c) =>
    /\ pc[c] \in {"broadcast", "announcing", "collect"} => map[TxOf[c]] = c
    /\ outcome[c] # "noCollector"

LEMMA SendKeepsList ==
  ASSUME TypeInv, ListInv, NEW c \in Calls, Send(c)
  PROVE  ListInv'
<1>0. /\ map \in [TxIds -> Calls \cup {None}]
      /\ pc \in [Calls -> {"idle", "broadcast", "announcing", "collect",
                           "stamp", "end", "answer", "done"}]
      /\ outcome \in [Calls -> Outcomes \cup {"none"}]
      /\ TxOf \in [Calls -> TxIds]
      /\ None \notin Calls
  BY CollectorAssumption DEF TypeInv, TypeOK, CollectorTypeOK
<1> USE DEF ListInv, Alone, Goto, collectorVars, collection
<1>1. CASE StartCollector(c)
  BY <1>0, <1>1 DEF StartCollector, PutList
<1>2. CASE FailEarly(c)
  BY <1>0, <1>2 DEF FailEarly, Unsent
<1>3. CASE BroadcastFails(c)
  BY <1>0, <1>3 DEF BroadcastFails
<1>4. CASE BroadcastAnnounces(c)
  BY <1>0, <1>4 DEF BroadcastAnnounces
<1>5. CASE BroadcastSilent(c)
  BY <1>0, <1>5 DEF BroadcastSilent
<1>6. CASE BroadcastReturns(c)
  BY <1>0, <1>6 DEF BroadcastReturns
<1>7. CASE GetResponses(c)
  BY <1>0, <1>7 DEF GetResponses
<1>8. CASE Stamp(c)
  BY <1>0, <1>8 DEF Stamp
<1>9. CASE EndCollector(c)
  BY <1>0, <1>9 DEF EndCollector, RemoveList
<1>10. CASE Answer(c)
  <2>1. \/ outcome' = outcome
        \/ \E o \in Outcomes \ {"noCollector"} :
             outcome' = [outcome EXCEPT ![c] = o]
    <3>1. \A r \in Runs : Decide(r) # "none"
                            => Decide(r) \in Outcomes \ {"noCollector"}
      BY DEF Decide, Outcomes, Errors, ReadErrors, Verdicts, TypeInv, TypeOK,
             CollectorTypeOK
    <3>2. {"notReached", "raced"} \subseteq Outcomes \ {"noCollector"}
      BY DEF Outcomes, Errors, ReadErrors
    <3>3. QED  BY <1>10, <3>1, <3>2, NextIsRun DEF Answer
  <2>2. /\ UNCHANGED map
        /\ pc' = pc \/ pc' = [pc EXCEPT ![c] = "done"]
    BY <1>10 DEF Answer
  <2>3. QED  BY <1>0, <2>1, <2>2
<1>11. QED
  BY <1>1, <1>2, <1>3, <1>4, <1>5, <1>6, <1>7, <1>8, <1>9, <1>10 DEF Send

\* getResponses returns null only to a call that shares its transaction with
\* another one, however many announcements interleave with it.
THEOREM ListIsKept == Spec => []OnlySharingLosesTheList
<1>1. Init => ListInv
  BY DEF Init, CollectorInit, ListInv
<1>2. TypeInv /\ ListInv /\ [Next]_vars => ListInv'
  <2> SUFFICES ASSUME TypeInv, ListInv, [Next]_vars PROVE ListInv'
    OBVIOUS
  <2>1. ASSUME UNCHANGED <<map, pc, outcome>> PROVE ListInv'
    BY <2>1 DEF ListInv, Alone
  <2>2. ASSUME NEW r \in Runs, Process(r) PROVE ListInv'
    BY <2>1, <2>2, RunsLeaveCalls DEF callVars
  <2>3. ASSUME NEW e \in Events, Announce(e) PROVE ListInv'
    BY <2>1, <2>3, AnnouncementsLeaveCalls DEF callVars, collection
  <2>4. CASE UNCHANGED vars
    BY <2>1, <2>4 DEF vars, callVars, collectorVars, collection
  <2>5. QED  BY <2>2, <2>3, <2>4, SendKeepsList DEF Next
<1>3. ListInv => OnlySharingLosesTheList
  BY DEF ListInv, OnlySharingLosesTheList, Alone
<1>4. QED  BY <1>1, <1>2, <1>3, TypeInvariant, PTL DEF Spec

-------------------------------------------------------------------------------
(***************************************************************************)
(* The transaction runs like a thread through everything a verdict passes  *)
(* on its way to the caller: the list found in the map is that of a call   *)
(* for the transaction, what is in it was made by runs for it, and so is   *)
(* the response a run writes to.  Without this the answer of a call could  *)
(* not be tied to the transaction it sent.                                 *)
(***************************************************************************)
RunKeepsTx ==
  \A r \in Runs :
    /\ r \in Events /\ at[r] = "off" => tx[r] = None
    /\ verdict[r] # "none" => tx[r] \in TxIds /\ verdict[r] \in verdicts[tx[r]]
    /\ list[r] # None => TxOf[list[r]] = tx[r]
    /\ target[r] # None => tx[r] \in TxIds /\ tx[target[r]] = tx[r]

ListKeepsTx ==
  \A c \in Calls : \A i \in 1..Len(lists[c]) :
    lists[c][i] # None => tx[lists[c][i]] = TxOf[c]

StatusKeepsTx ==
  \A r \in Runs :
    status[r] # "unset" => tx[r] \in TxIds /\ status[r] \in verdicts[tx[r]]

HeldKeepsTx == \A c \in Calls : held[c] # None => TxOf[held[c]] = TxOf[c]

MapKeepsTx == \A t \in TxIds : map[t] # None => TxOf[map[t]] = t

TxInv == /\ RunKeepsTx /\ ListKeepsTx /\ StatusKeepsTx /\ HeldKeepsTx
         /\ MapKeepsTx /\ AnswerWasReached

LEMMA InitTx == Init => TxInv
<1> SUFFICES ASSUME Init PROVE TxInv
  OBVIOUS
<1> USE CollectorAssumption DEF Init, CollectorInit
<1>1. RunKeepsTx
  BY DEF RunKeepsTx
<1>2. ListKeepsTx
  BY DEF ListKeepsTx
<1>3. StatusKeepsTx
  BY DEF StatusKeepsTx
<1>4. HeldKeepsTx /\ MapKeepsTx
  BY DEF HeldKeepsTx, MapKeepsTx
<1>5. AnswerWasReached
  BY DEF AnswerWasReached, Verdicts
<1>6. QED  BY <1>1, <1>2, <1>3, <1>4, <1>5 DEF TxInv

\* What a sending thread leaves alone.
LEMMA SendLeavesRuns ==
  ASSUME NEW c \in Calls, Send(c)
  PROVE  /\ UNCHANGED <<tx, verdict, list, target, status, verdicts>>
         /\ UNCHANGED at \/ at' = [at EXCEPT ![c] = "handle"]
         /\ UNCHANGED lists \/ lists' = [lists EXCEPT ![c] = << >>]
         /\ UNCHANGED map \/ StartCollector(c) \/ EndCollector(c)
         /\ UNCHANGED held \/ GetResponses(c)
  BY DEF Send, FailEarly, BroadcastFails, BroadcastAnnounces, BroadcastSilent,
         BroadcastReturns, GetResponses, Stamp, EndCollector, Answer,
         StartCollector, PutList, collectorVars, collection, responses, locals,
         coreVars, Reach

\* The answers a sending thread gives.
LEMMA SendAnswers ==
  ASSUME TypeInv, NEW c \in Calls, Send(c)
  PROVE  \/ UNCHANGED outcome
         \/ \E o \in Errors : outcome' = [outcome EXCEPT ![c] = o]
         \/ /\ pc[c] = "answer" /\ pc' = [pc EXCEPT ![c] = "done"]
            /\ \E i \in 1..Len(lists[held[c]]) :
                 /\ lists[held[c]][i] \in Runs
                 /\ status[lists[held[c]][i]] \in Verdicts
                 /\ outcome' = [outcome EXCEPT ![c] =
                                  status[lists[held[c]][i]]]
<1>1. CASE FailEarly(c)
  BY <1>1 DEF FailEarly, Errors
<1>2. CASE BroadcastFails(c)
  BY <1>2 DEF BroadcastFails, Errors, SendErrors
<1>3. CASE GetResponses(c)
  BY <1>3 DEF GetResponses, Errors, SendErrors
<1>4. CASE Stamp(c)
  BY <1>4 DEF Stamp, Errors, SendErrors
<1>5. CASE Answer(c)
  <2>1. {"notReached", "raced", "nullThrown"} \subseteq Errors
    BY DEF Errors, ReadErrors
  <2>2. CASE UNCHANGED outcome
    BY <2>2
  <2>3. CASE \E o \in {"notReached", "raced"} :
               outcome' = [outcome EXCEPT ![c] = o]
    BY <2>1, <2>3
  <2>4. CASE /\ ~AtEnd(c) /\ ~NextThrows(c)
             /\ Decide(lists[held[c]][cursor[c]]) # "none"
             /\ pc' = [pc EXCEPT ![c] = "done"]
             /\ outcome' = [outcome EXCEPT ![c] =
                              Decide(lists[held[c]][cursor[c]])]
    <3> DEFINE r == lists[held[c]][cursor[c]]
    <3>1. pc[c] = "answer"
      BY <1>5 DEF Answer
    <3>2. r \in Runs
      BY <2>4, <3>1, NextIsRun
    <3>3. cursor[c] \in 1..Len(lists[held[c]])
      BY <2>4, <3>1 DEF AtEnd, NextThrows, TypeInv, TypeOK, CollectorTypeOK,
                        CallReady
    <3>4. CASE Decide(r) = "nullThrown"
      BY <2>1, <2>4, <3>4
    <3>5. CASE Decide(r) # "nullThrown"
      <4>1. Decide(r) = status[r] /\ status[r] \in Verdicts
        BY <2>4, <3>2, <3>5 DEF Decide, TypeInv, TypeOK, CollectorTypeOK
      <4>2. QED  BY <2>4, <3>1, <3>2, <3>3, <4>1
    <3>6. QED  BY <3>4, <3>5
  <2>5. QED  BY <1>5, <2>2, <2>3, <2>4 DEF Answer, Goto
<1>6. QED
  BY <1>1, <1>2, <1>3, <1>4, <1>5
  DEF Send, StartCollector, BroadcastAnnounces, BroadcastSilent,
      BroadcastReturns, EndCollector

LEMMA ErrorsAreNoVerdicts == Errors \cap Verdicts = {}
  BY DEF Errors, Unsent, SendErrors, ReadErrors, Verdicts

LEMMA SendTx ==
  ASSUME TypeInv, TxInv, NEW c \in Calls, Send(c)
  PROVE  TxInv'
<1>0. /\ TypeOK /\ CollectorTypeOK /\ RunReady /\ OwnRun /\ CallReady
      /\ RunKeepsTx /\ ListKeepsTx /\ StatusKeepsTx /\ HeldKeepsTx
      /\ MapKeepsTx /\ AnswerWasReached
  BY DEF TypeInv, TypeOK, TxInv
<1>1. /\ UNCHANGED <<tx, verdict, list, target, status, verdicts>>
      /\ UNCHANGED at \/ at' = [at EXCEPT ![c] = "handle"]
      /\ UNCHANGED lists \/ lists' = [lists EXCEPT ![c] = << >>]
      /\ UNCHANGED map \/ StartCollector(c) \/ EndCollector(c)
      /\ UNCHANGED held \/ GetResponses(c)
  BY SendLeavesRuns
<1>2. RunKeepsTx'
  BY <1>0, <1>1 DEF RunKeepsTx, CollectorTypeOK
<1>3. ListKeepsTx'
  BY <1>0, <1>1 DEF ListKeepsTx, CollectorTypeOK
<1>4. StatusKeepsTx'
  BY <1>0, <1>1 DEF StatusKeepsTx
<1>5. HeldKeepsTx'
  <2>1. CASE UNCHANGED held
    BY <1>0, <2>1 DEF HeldKeepsTx
  <2>2. CASE held' = [held EXCEPT ![c] = map[TxOf[c]]]
    BY <1>0, <2>2, CollectorAssumption DEF HeldKeepsTx, MapKeepsTx, TypeOK
  <2>3. QED  BY <1>1, <2>1, <2>2 DEF GetResponses
<1>6. MapKeepsTx'
  <2>1. \/ map' = map
        \/ map' = [map EXCEPT ![TxOf[c]] = c]
        \/ map' = [map EXCEPT ![TxOf[c]] = None]
    BY <1>1 DEF StartCollector, PutList, EndCollector, RemoveList
  <2>2. map \in [TxIds -> Calls \cup {None}] /\ MapKeepsTx
    BY <1>0 DEF CollectorTypeOK
  <2>3. QED  BY <2>1, <2>2 DEF MapKeepsTx
<1>7. AnswerWasReached'
  <2>1. CASE UNCHANGED outcome
    BY <1>0, <1>1, <2>1 DEF AnswerWasReached
  <2>2. CASE \E o \in Errors : outcome' = [outcome EXCEPT ![c] = o]
    BY <1>0, <1>1, <2>2, ErrorsAreNoVerdicts DEF AnswerWasReached, TypeOK
  <2>3. CASE /\ pc[c] = "answer"
             /\ \E i \in 1..Len(lists[held[c]]) :
                  /\ lists[held[c]][i] \in Runs
                  /\ status[lists[held[c]][i]] \in Verdicts
                  /\ outcome' = [outcome EXCEPT ![c] =
                                   status[lists[held[c]][i]]]
    <3>1. PICK i \in 1..Len(lists[held[c]]) :
                 /\ lists[held[c]][i] \in Runs
                 /\ status[lists[held[c]][i]] \in Verdicts
                 /\ outcome' = [outcome EXCEPT ![c] =
                                  status[lists[held[c]][i]]]
      BY <2>3
    <3> DEFINE r == lists[held[c]][i]
    <3>2. held[c] \in Calls /\ r # None
      BY <1>0, <2>3, <3>1, CollectorAssumption DEF CallReady, Runs
    <3>3. tx[r] = TxOf[c]
      BY <1>0, <3>2, CollectorAssumption DEF ListKeepsTx, HeldKeepsTx
    <3>4. status[r] \in verdicts[TxOf[c]]
      BY <1>0, <3>1, <3>3 DEF StatusKeepsTx, Verdicts
    <3>5. QED  BY <1>0, <1>1, <3>1, <3>4 DEF AnswerWasReached, TypeOK
  <2>4. QED  BY <2>1, <2>2, <2>3, SendAnswers
<1>8. QED  BY <1>2, <1>3, <1>4, <1>5, <1>6, <1>7 DEF TxInv

LEMMA AnnounceTx ==
  ASSUME TypeInv, TxInv, NEW e \in Events, Announce(e)
  PROVE  TxInv'
<1>0. /\ TypeOK /\ CollectorTypeOK /\ RunReady
      /\ RunKeepsTx /\ ListKeepsTx /\ StatusKeepsTx /\ HeldKeepsTx
      /\ MapKeepsTx /\ AnswerWasReached
  BY DEF TypeInv, TypeOK, TxInv
<1>1. /\ e \in Runs /\ tx[e] = None
      /\ at' = [at EXCEPT ![e] = "handle"]
      /\ UNCHANGED <<map, lists, status, verdict, list, target, held, outcome,
                     verdicts>>
  BY <1>0 DEF Announce, Reach, RunKeepsTx, Runs, collection, responses,
              callVars, coreVars
<1>2. PICK t \in TxIds : tx' = [tx EXCEPT ![e] = t]
  BY <1>0 DEF Announce, TypeOK
<1>3. \A r \in Runs : tx[r] # None => tx'[r] = tx[r]
  BY <1>0, <1>1, <1>2 DEF CollectorTypeOK
<1>4. \A c \in Calls : TxOf[c] # None
  BY CollectorAssumption
<1>5. RunKeepsTx'
  <2>1. verdict[e] = "none" /\ list[e] = None /\ target[e] = None
    BY <1>0, <1>1, <1>4, CollectorAssumption DEF RunKeepsTx, CollectorTypeOK
  <2>2. \A r \in Runs : target[r] # None => tx'[target[r]] = tx[target[r]]
    BY <1>0, <1>3, CollectorAssumption DEF RunKeepsTx, CollectorTypeOK
  <2>3. QED
    BY <1>0, <1>1, <1>2, <2>1, <2>2 DEF RunKeepsTx, CollectorTypeOK
<1>6. ListKeepsTx'
  <2>1. ASSUME NEW c \in Calls, NEW i \in 1..Len(lists[c]), lists[c][i] # None
        PROVE  lists[c][i] \in Runs
    <3>1. lists[c] \in Seq(Runs \cup {None})
      BY <1>0 DEF CollectorTypeOK
    <3>2. QED  BY <2>1, <3>1
  <2>2. QED  BY <1>0, <1>1, <1>3, <1>4, <2>1 DEF ListKeepsTx
<1>7. StatusKeepsTx'
  BY <1>0, <1>1, <1>3, CollectorAssumption DEF StatusKeepsTx
<1>8. HeldKeepsTx' /\ MapKeepsTx' /\ AnswerWasReached'
  BY <1>0, <1>1 DEF HeldKeepsTx, MapKeepsTx, AnswerWasReached
<1>9. QED  BY <1>5, <1>6, <1>7, <1>8 DEF TxInv

LEMMA ProcessTx ==
  ASSUME TypeInv, TxInv, NEW r \in Runs, Process(r)
  PROVE  TxInv'
<1>0. /\ TypeOK /\ CollectorTypeOK /\ RunReady
      /\ RunKeepsTx /\ ListKeepsTx /\ StatusKeepsTx /\ HeldKeepsTx
      /\ MapKeepsTx /\ AnswerWasReached
  BY DEF TypeInv, TypeOK, TxInv
<1>a. UNCHANGED <<tx, map, held, outcome>>
  BY DEF Process, Report, Handle, Lookup, Find, Grow, Store, SetStatus,
         SetException, collection, callVars
<1>b. HeldKeepsTx' /\ MapKeepsTx'
  BY <1>0, <1>a DEF HeldKeepsTx, MapKeepsTx
<1>c. \A e \in Events : at'[e] = "off" => at[e] = "off"
  <2>1. \E l \in {"lookup", "find", "grow", "store", "status", "exception",
                  "end"} : at' = [at EXCEPT ![r] = l]
    BY DEF Process, Report, Handle, Lookup, Find, Grow, Store, SetStatus,
           SetException, Reach
  <2>2. QED  BY <1>0, <2>1 DEF CollectorTypeOK, Runs
<1>d. at[r] # "handle" => UNCHANGED verdicts
  BY DEF Process, Handle, coreVars
<1>1. CASE Handle(r)
  <2>1. UNCHANGED <<lists, status, list, target>>
    BY <1>1 DEF Handle, collection, responses
  <2>2. \/ UNCHANGED <<verdict, verdicts>>
        \/ \E v \in Verdicts :
             /\ verdict' = [verdict EXCEPT ![r] = v]
             /\ verdicts' = [verdicts EXCEPT ![tx[r]] = @ \cup {v}]
    BY <1>1 DEF Handle
  <2>3. tx[r] \in TxIds
    BY <1>0, <1>1 DEF Handle, RunReady
  <2>4. \A t \in TxIds : verdicts[t] \subseteq verdicts'[t]
    BY <1>0, <2>2 DEF TypeOK
  <2>5. RunKeepsTx'
    <3>1. \A q \in Runs : verdict'[q] # "none" =>
            tx[q] \in TxIds /\ verdict'[q] \in verdicts'[tx[q]]
      BY <1>0, <2>2, <2>3, <2>4 DEF RunKeepsTx, CollectorTypeOK, TypeOK
    <3>2. QED  BY <1>0, <1>a, <1>c, <2>1, <3>1 DEF RunKeepsTx
  <2>6. ListKeepsTx' /\ StatusKeepsTx'
    BY <1>0, <1>a, <2>1, <2>4 DEF ListKeepsTx, StatusKeepsTx
  <2>7. AnswerWasReached'
    BY <1>0, <1>a, <2>4, CollectorAssumption DEF AnswerWasReached
  <2>8. QED  BY <1>b, <2>5, <2>6, <2>7 DEF TxInv
<1>2. CASE Lookup(r)
  <2>1. UNCHANGED <<lists, status, verdict, target, verdicts>>
    BY <1>2, <1>d DEF Lookup, collection, responses
  <2>2. \/ UNCHANGED list
        \/ /\ map[tx[r]] # None
           /\ list' = [list EXCEPT ![r] = map[tx[r]]]
    BY <1>2 DEF Lookup
  <2>3. tx[r] \in TxIds
    BY <1>0, <1>2 DEF Lookup, RunReady
  <2>4. \A q \in Runs : list'[q] # None => TxOf[list'[q]] = tx[q]
    BY <1>0, <2>2, <2>3 DEF RunKeepsTx, MapKeepsTx, CollectorTypeOK
  <2>5. RunKeepsTx'
    BY <1>0, <1>a, <1>c, <2>1, <2>4 DEF RunKeepsTx
  <2>6. ListKeepsTx' /\ StatusKeepsTx' /\ AnswerWasReached'
    BY <1>0, <1>a, <2>1 DEF ListKeepsTx, StatusKeepsTx, AnswerWasReached
  <2>7. QED  BY <1>b, <2>5, <2>6 DEF TxInv
<1>3. CASE Find(r)
  <2>1. UNCHANGED <<lists, status, verdict, list, verdicts>>
    BY <1>3, <1>d DEF Find, collection, responses
  <2>2. \/ UNCHANGED target
        \/ /\ lists[list[r]] # << >> /\ lists[list[r]][1] # None
           /\ target' = [target EXCEPT ![r] = lists[list[r]][1]]
    BY <1>3 DEF Find
  <2>3. tx[r] \in TxIds /\ list[r] \in Calls /\ list[r] # None
    BY <1>0, <1>3, CollectorAssumption DEF Find, RunReady
  <2>4. lists[list[r]] # << >> /\ lists[list[r]][1] # None
          => tx[lists[list[r]][1]] = tx[r]
    <3>1. lists[list[r]] \in Seq(Runs \cup {None})
      BY <1>0, <2>3 DEF CollectorTypeOK
    <3>2. lists[list[r]] # << >> => 1 \in 1..Len(lists[list[r]])
      BY <3>1
    <3>3. QED  BY <1>0, <2>3, <3>2 DEF ListKeepsTx, RunKeepsTx
  <2>5. \A q \in Runs : target'[q] # None
                          => tx[q] \in TxIds /\ tx[target'[q]] = tx[q]
    BY <1>0, <2>2, <2>3, <2>4 DEF RunKeepsTx, CollectorTypeOK
  <2>6. RunKeepsTx'
    BY <1>0, <1>a, <1>c, <2>1, <2>5 DEF RunKeepsTx
  <2>7. ListKeepsTx' /\ StatusKeepsTx' /\ AnswerWasReached'
    BY <1>0, <1>a, <2>1 DEF ListKeepsTx, StatusKeepsTx, AnswerWasReached
  <2>8. QED  BY <1>b, <2>6, <2>7 DEF TxInv
<1>4. CASE Grow(r)
  <2>1. UNCHANGED <<status, verdict, list, verdicts>>
    BY <1>4, <1>d DEF Grow, responses
  <2>2. target' = [target EXCEPT ![r] = r]
    BY <1>4 DEF Grow
  <2>3. tx[r] \in TxIds /\ list[r] \in Calls
    BY <1>0, <1>4 DEF Grow, RunReady
  <2>4. \A q \in Runs : target'[q] # None
                          => tx[q] \in TxIds /\ tx[target'[q]] = tx[q]
    BY <1>0, <2>2, <2>3 DEF RunKeepsTx, CollectorTypeOK
  <2>5. RunKeepsTx'
    BY <1>0, <1>a, <1>c, <2>1, <2>4 DEF RunKeepsTx
  <2>6. ListKeepsTx'
    <3> DEFINE old == lists[list[r]]
    <3>1. PICK n \in 1..Len(old) + 1, kept \in SUBSET DOMAIN old :
            lists' = [lists EXCEPT ![list[r]] =
                        [i \in 1..n |-> IF i \in kept THEN old[i] ELSE None]]
      BY <1>4 DEF Grow
    <3>2. /\ lists \in [Calls -> Seq(Runs \cup {None})]
          /\ old \in Seq(Runs \cup {None})
      BY <1>0, <2>3 DEF CollectorTypeOK
    <3> DEFINE new == [i \in 1..n |-> IF i \in kept THEN old[i] ELSE None]
    <3>3. new \in Seq(Runs \cup {None}) /\ Len(new) = n
      BY <3>2, GrowType
    <3>4. \A i \in 1..Len(new) : new[i] # None => tx[new[i]] = TxOf[list[r]]
      BY <1>0, <2>3, <3>2, <3>3 DEF ListKeepsTx
    <3>5. lists'[list[r]] = new
          /\ \A c \in Calls \ {list[r]} : lists'[c] = lists[c]
      BY <2>3, <3>1, <3>2
    <3> HIDE DEF new
    <3>6. QED  BY <1>0, <1>a, <3>4, <3>5 DEF ListKeepsTx
  <2>7. StatusKeepsTx' /\ AnswerWasReached'
    BY <1>0, <1>a, <2>1 DEF StatusKeepsTx, AnswerWasReached
  <2>8. QED  BY <1>b, <2>5, <2>6, <2>7 DEF TxInv
<1>5. CASE Store(r)
  <2>1. UNCHANGED <<status, verdict, list, target, verdicts>>
    BY <1>5, <1>d DEF Store, responses
  <2>2. RunKeepsTx'
    BY <1>0, <1>a, <1>c, <2>1 DEF RunKeepsTx
  <2>3. list[r] \in Calls /\ tx[r] = TxOf[list[r]]
    BY <1>0, <1>5, CollectorAssumption DEF Store, RunReady, RunKeepsTx
  <2>4. ListKeepsTx'
    <3>1. CASE UNCHANGED lists
      BY <1>0, <1>a, <3>1 DEF ListKeepsTx
    <3>2. CASE /\ slot[r] \in DOMAIN lists[list[r]]
               /\ lists' = [lists EXCEPT ![list[r]] = [@ EXCEPT ![slot[r]] = r]]
      <4> DEFINE new == [lists[list[r]] EXCEPT ![slot[r]] = r]
      <4>1. /\ lists \in [Calls -> Seq(Runs \cup {None})]
            /\ lists[list[r]] \in Seq(Runs \cup {None})
        BY <1>0, <2>3 DEF CollectorTypeOK
      <4>2. /\ Len(new) = Len(lists[list[r]])
            /\ \A i \in 1..Len(new) :
                 new[i] = IF i = slot[r] THEN r ELSE lists[list[r]][i]
        BY <3>2, <4>1
      <4>3. \A i \in 1..Len(new) : new[i] # None => tx[new[i]] = TxOf[list[r]]
        BY <1>0, <2>3, <4>2 DEF ListKeepsTx
      <4>4. lists'[list[r]] = new
            /\ \A c \in Calls \ {list[r]} : lists'[c] = lists[c]
        BY <2>3, <3>2, <4>1
      <4> HIDE DEF new
      <4>5. QED  BY <1>0, <1>a, <4>3, <4>4 DEF ListKeepsTx
    <3>3. QED  BY <1>5, <3>1, <3>2 DEF Store
  <2>5. StatusKeepsTx' /\ AnswerWasReached'
    BY <1>0, <1>a, <2>1 DEF StatusKeepsTx, AnswerWasReached
  <2>6. QED  BY <1>b, <2>2, <2>4, <2>5 DEF TxInv
<1>6. CASE SetStatus(r)
  <2>1. UNCHANGED <<lists, verdict, list, target, verdicts>>
    BY <1>6, <1>d DEF SetStatus, collection
  <2>2. RunKeepsTx' /\ ListKeepsTx' /\ AnswerWasReached'
    BY <1>0, <1>a, <1>c, <2>1 DEF RunKeepsTx, ListKeepsTx, AnswerWasReached
  <2>3. status' = [status EXCEPT ![target[r]] = verdict[r]]
    BY <1>6 DEF SetStatus
  <2>4. /\ target[r] \in Runs /\ verdict[r] \in verdicts[tx[r]]
        /\ tx[r] \in TxIds /\ tx[target[r]] = tx[r]
    BY <1>0, <1>6, CollectorAssumption
    DEF SetStatus, RunReady, RunKeepsTx, Verdicts, Runs
  <2>5. StatusKeepsTx'
    BY <1>0, <1>a, <2>1, <2>3, <2>4 DEF StatusKeepsTx, CollectorTypeOK
  <2>6. QED  BY <1>b, <2>2, <2>5 DEF TxInv
<1>7. CASE SetException(r)
  <2>1. UNCHANGED <<lists, status, verdict, list, target, verdicts>>
    BY <1>7, <1>d DEF SetException, collection
  <2>2. RunKeepsTx' /\ ListKeepsTx' /\ StatusKeepsTx' /\ AnswerWasReached'
    BY <1>0, <1>a, <1>c, <2>1
    DEF RunKeepsTx, ListKeepsTx, StatusKeepsTx, AnswerWasReached
  <2>3. QED  BY <1>b, <2>2 DEF TxInv
<1>8. QED
  BY <1>1, <1>2, <1>3, <1>4, <1>5, <1>6, <1>7 DEF Process, Report

\* Every reachable state keeps the transaction of every verdict on its way.
THEOREM TxInvariant == Spec => []TxInv
<1>1. Init => TxInv
  BY InitTx
<1>2. TypeInv /\ TxInv /\ [Next]_vars => TxInv'
  <2> SUFFICES ASSUME TypeInv, TxInv, [Next]_vars PROVE TxInv'
    OBVIOUS
  <2>1. CASE UNCHANGED vars
    BY <2>1
    DEF vars, callVars, coreVars, collectorVars, collection, responses, locals,
        TxInv, RunKeepsTx, ListKeepsTx, StatusKeepsTx, HeldKeepsTx, MapKeepsTx,
        AnswerWasReached
  <2>2. CASE Next
    BY <2>2, SendTx, AnnounceTx, ProcessTx DEF Next
  <2>3. QED  BY <2>1, <2>2
<1>3. QED  BY <1>1, <1>2, TypeInvariant, PTL DEF Spec

\* A verdict that sendMessage returns or throws was reached by a handler for
\* the transaction the call sent, and for no other one, although the responses
\* travel through lists that several threads share without a lock.
THEOREM AnswersAreReached == Spec => []AnswerWasReached
<1>1. TxInv => AnswerWasReached
  BY DEF TxInv
<1>2. QED  BY <1>1, TxInvariant, PTL

-------------------------------------------------------------------------------
(***************************************************************************)
(* BundleDriver implements SendPromise.                                    *)
(***************************************************************************)

\* A call that is not over has an error ahead of it, if anything.
PendingInv == \A c \in Calls : pc[c] # "done" => outcome[c] \in Errors \cup {"none"}

LEMMA PendingStep ==
  ASSUME TypeInv, PendingInv, [Next]_vars
  PROVE  PendingInv'
<1>1. ASSUME UNCHANGED <<pc, outcome>> PROVE PendingInv'
  BY <1>1 DEF PendingInv
<1>2. ASSUME NEW c \in Calls, Send(c) PROVE PendingInv'
  <2>1. pc \in [Calls -> {"idle", "broadcast", "announcing", "collect", "stamp",
                          "end", "answer", "done"}]
        /\ outcome \in [Calls -> Outcomes \cup {"none"}]
    BY DEF TypeInv, TypeOK
  <2>2. pc[c] # "done" /\ \A d \in Calls \ {c} : pc'[d] = pc[d]
    BY <1>2, <2>1
    DEF Send, FailEarly, BroadcastFails, BroadcastAnnounces, BroadcastSilent,
        BroadcastReturns, GetResponses, Stamp, EndCollector, Answer,
        StartCollector, Goto
  <2>3. \/ UNCHANGED outcome
        \/ \E o \in Errors : outcome' = [outcome EXCEPT ![c] = o]
        \/ /\ pc' = [pc EXCEPT ![c] = "done"]
           /\ \A d \in Calls \ {c} : outcome'[d] = outcome[d]
    BY <1>2, <2>1, SendAnswers
  <2>4. QED  BY <2>1, <2>2, <2>3 DEF PendingInv
<1>3. ASSUME NEW r \in Runs, Process(r) PROVE PendingInv'
  BY <1>1, <1>3, RunsLeaveCalls DEF callVars
<1>4. ASSUME NEW e \in Events, Announce(e) PROVE PendingInv'
  BY <1>1, <1>4, AnnouncementsLeaveCalls DEF callVars
<1>5. CASE UNCHANGED vars
  BY <1>1, <1>5 DEF vars, callVars
<1>6. QED  BY <1>2, <1>3, <1>4, <1>5 DEF Next

\* How far a call is, as SendPromise sees it.
Answered == [c \in Calls |-> IF pc[c] = "idle" THEN "idle"
                             ELSE IF pc[c] = "done" THEN outcome[c]
                             ELSE "waiting"]

LEMMA SendRefines ==
  ASSUME TypeInv, TxInv, TxInv', PendingInv, NEW c \in Calls, Send(c)
  PROVE  \/ Promise!Begin(c) \/ Promise!Reply(c) \/ Promise!Fail(c)
         \/ UNCHANGED <<Answered, verdicts>>
<1>0. /\ pc \in [Calls -> {"idle", "broadcast", "announcing", "collect",
                           "stamp", "end", "answer", "done"}]
      /\ outcome \in [Calls -> Outcomes \cup {"none"}]
  BY DEF TypeInv, TypeOK
<1>1. UNCHANGED verdicts
  BY SendLeavesRuns
<1>2. ASSUME NEW l \in {"broadcast", "announcing", "collect", "stamp", "end",
                        "answer"},
             pc[c] \in {"broadcast", "announcing", "collect", "stamp", "end",
                        "answer"},
             pc' = [pc EXCEPT ![c] = l],
             \A d \in Calls \ {c} : outcome'[d] = outcome[d]
      PROVE  UNCHANGED Answered
  BY <1>0, <1>2 DEF Answered
<1>3. ASSUME pc[c] = "idle", pc' = [pc EXCEPT ![c] = "broadcast"],
             UNCHANGED outcome
      PROVE  Promise!Begin(c)
  <2>1. Answered[c] = "idle" /\ Answered' = [Answered EXCEPT ![c] = "waiting"]
    BY <1>0, <1>3 DEF Answered
  <2>2. QED  BY <1>1, <2>1 DEF Promise!Begin, Answered
<1>4. ASSUME pc' = [pc EXCEPT ![c] = "done"], pc[c] # "done",
             outcome'[c] \in Errors, outcome' \in [Calls -> Outcomes \cup {"none"}],
             \A d \in Calls \ {c} : outcome'[d] = outcome[d]
      PROVE  Promise!Fail(c)
  <2>1. /\ Answered[c] \in {"idle", "waiting"}
        /\ Answered' = [Answered EXCEPT ![c] = outcome'[c]]
    BY <1>0, <1>4 DEF Answered
  <2>2. QED  BY <1>1, <1>4, <2>1 DEF Promise!Fail, Answered
<1>5. ASSUME pc' = [pc EXCEPT ![c] = "done"], pc[c] = "answer",
             outcome'[c] \in Verdicts, outcome' \in [Calls -> Outcomes \cup {"none"}],
             \A d \in Calls \ {c} : outcome'[d] = outcome[d]
      PROVE  Promise!Reply(c)
  <2>1. /\ Answered[c] = "waiting"
        /\ Answered' = [Answered EXCEPT ![c] = outcome'[c]]
    BY <1>0, <1>5 DEF Answered
  <2>2. outcome'[c] \in verdicts[TxOf[c]]
    BY <1>1, <1>5 DEF TxInv, AnswerWasReached
  <2>3. QED  BY <1>1, <2>1, <2>2 DEF Promise!Reply, Answered
<1>6. outcome' \in [Calls -> Outcomes \cup {"none"}]
  BY SendType DEF TypeInv, TypeOK
<1>7. CASE StartCollector(c)
  BY <1>3, <1>7 DEF StartCollector, Goto
<1>8. CASE FailEarly(c)
  <2>1. outcome'[c] \in Errors /\ \A d \in Calls \ {c} : outcome'[d] = outcome[d]
    BY <1>0, <1>8 DEF FailEarly, Errors
  <2>2. QED  BY <1>4, <1>6, <1>8, <2>1 DEF FailEarly, Goto
<1>9. CASE BroadcastFails(c)
  BY <1>0, <1>1, <1>2, <1>9 DEF BroadcastFails, Goto
<1>10. CASE BroadcastAnnounces(c)
  BY <1>1, <1>2, <1>10 DEF BroadcastAnnounces, Goto
<1>11. CASE BroadcastSilent(c)
  BY <1>1, <1>2, <1>11 DEF BroadcastSilent, Goto
<1>12. CASE BroadcastReturns(c)
  BY <1>1, <1>2, <1>12 DEF BroadcastReturns, Goto
<1>13. CASE GetResponses(c)
  BY <1>0, <1>1, <1>2, <1>13 DEF GetResponses, Goto
<1>14. CASE Stamp(c)
  <2>1. CASE UNCHANGED <<pc, outcome>>
    BY <1>1, <2>1 DEF Answered
  <2>2. CASE /\ pc' = [pc EXCEPT ![c] = "end"]
             /\ \A d \in Calls \ {c} : outcome'[d] = outcome[d]
    BY <1>1, <1>2, <1>14, <2>2 DEF Stamp
  <2>3. QED  BY <1>0, <1>14, <2>1, <2>2 DEF Stamp, Goto
<1>15. CASE EndCollector(c)
  <2>1. CASE outcome[c] = "none"
    BY <1>1, <1>2, <1>15, <2>1 DEF EndCollector, Goto
  <2>2. CASE outcome[c] # "none"
    <3>1. outcome'[c] \in Errors
      BY <1>15, <2>2 DEF EndCollector, PendingInv
    <3>2. QED  BY <1>4, <1>6, <1>15, <2>2, <3>1 DEF EndCollector, Goto
  <2>3. QED  BY <2>1, <2>2
<1>16. CASE Answer(c)
  <2>1. pc[c] = "answer"
    BY <1>16 DEF Answer
  <2>2. CASE UNCHANGED <<pc, outcome>>
    BY <1>1, <2>2 DEF Answered
  <2>3. CASE /\ pc' = [pc EXCEPT ![c] = "done"]
             /\ outcome'[c] # "none"
             /\ \A d \in Calls \ {c} : outcome'[d] = outcome[d]
    <3>1. outcome'[c] \in Verdicts \cup Errors
      BY <1>6, <2>3 DEF Outcomes
    <3>2. QED  BY <1>4, <1>5, <1>6, <2>1, <2>3, <3>1
  <2>4. QED  BY <1>0, <1>16, <2>2, <2>3 DEF Answer, Goto
<1>17. QED
  BY <1>7, <1>8, <1>9, <1>10, <1>11, <1>12, <1>13, <1>14, <1>15, <1>16 DEF Send

LEMMA RunsRefine ==
  ASSUME TypeInv, NEW r \in Runs, Process(r)
  PROVE  \/ \E t \in TxIds : Promise!Conclude(t)
         \/ UNCHANGED <<Answered, verdicts>>
<1>1. UNCHANGED Answered
  BY RunsLeaveCalls DEF Answered, callVars
<1>2. CASE Handle(r)
  <2>1. tx[r] \in TxIds
    BY <1>2 DEF Handle, TypeInv, RunReady
  <2>2. UNCHANGED verdicts \/ Promise!Conclude(tx[r])
    BY <1>1, <1>2 DEF Handle, Promise!Conclude, Answered
  <2>3. QED  BY <1>1, <2>1, <2>2
<1>3. CASE UNCHANGED coreVars
  BY <1>1, <1>3 DEF coreVars
<1>4. QED  BY <1>2, <1>3 DEF Process

\* sendMessage, with its collector, lists and threads, implements SendPromise:
\* a call is answered once, and a verdict it is told had been reached by then.
THEOREM PromiseIsKept == Spec => KeepsPromise
<1>1. Init => Promise!Init
  BY DEF Init, Promise!Init
<1>2. TypeInv /\ TxInv /\ TxInv' /\ PendingInv /\ [Next]_vars
        => [Promise!Next]_(Promise!vars)
  <2> SUFFICES ASSUME TypeInv, TxInv, TxInv', PendingInv, [Next]_vars
               PROVE  [Promise!Next]_(Promise!vars)
    OBVIOUS
  <2>1. ASSUME UNCHANGED <<Answered, verdicts>>
        PROVE  UNCHANGED Promise!vars
    BY <2>1 DEF Promise!vars, Answered
  <2>2. ASSUME NEW c \in Calls, Send(c)
        PROVE  [Promise!Next]_(Promise!vars)
    BY <2>1, <2>2, SendRefines DEF Promise!Next
  <2>3. ASSUME NEW r \in Runs, Process(r)
        PROVE  [Promise!Next]_(Promise!vars)
    BY <2>1, <2>3, RunsRefine DEF Promise!Next
  <2>4. ASSUME NEW e \in Events, Announce(e)
        PROVE  [Promise!Next]_(Promise!vars)
    BY <2>1, <2>4, AnnouncementsLeaveCalls DEF Answered, callVars, coreVars
  <2>5. CASE UNCHANGED vars
    BY <2>1, <2>5 DEF vars, callVars, coreVars, Answered
  <2>6. QED  BY <2>2, <2>3, <2>4, <2>5 DEF Next
<1>3. Spec => []PendingInv
  <2>1. Init => PendingInv
    BY DEF Init, PendingInv
  <2>2. QED  BY <2>1, PendingStep, TypeInvariant, PTL DEF Spec
<1>4. QED
  BY <1>1, <1>2, <1>3, TypeInvariant, TxInvariant, PTL
  DEF Spec, KeepsPromise, Promise!Spec

-------------------------------------------------------------------------------
(***************************************************************************)
(* An undisturbed call.  Nobody else reaches its list, its run or its      *)
(* response; its list is empty until its run has added the one response it *)
(* makes, and the count its iterators began with does not change.          *)
(***************************************************************************)

\* The run of call c has put its response into the list.
Added(c) == \/ at[c] \in {"status", "exception"}
            \/ at[c] = "end" /\ verdict[c] # "none"

\* What the run of call c has done so far.
RunExact(c) ==
  /\ lists[c] = IF Added(c) THEN <<c>>
                ELSE IF at[c] = "store" THEN <<None>> ELSE << >>
  /\ at[c] \in {"off", "handle"} => verdict[c] = "none"
  /\ at[c] \in {"find", "grow", "store"} => list[c] = c
  /\ at[c] = "store" => slot[c] = 1
  /\ at[c] \in {"store", "status", "exception"} => target[c] = c
  /\ at[c] = "exception" => verdict[c] = "exception"
  /\ Added(c) /\ at[c] # "status" => status[c] = verdict[c]
  /\ at[c] = "end" /\ verdict[c] = "exception" => exception[c] = "set"

\* The response of call c, if there is one, has its transaction's id.
Stamped(c) == Added(c) => transactionId[c] = TxOf[c]

\* How far the run of call c can be.
RunPlaces(c) ==
  IF pc[c] \in {"idle", "broadcast"} THEN {"off"}
  ELSE IF pc[c] = "announcing"
       THEN {"handle", "lookup", "find", "grow", "store", "status", "exception",
             "end"}
       ELSE {"off", "end"}

\* What call c has done so far.
CallExact(c) ==
  /\ map[TxOf[c]] = IF Collecting(c) THEN c ELSE None
  /\ at[c] \in RunPlaces(c)
  /\ pc[c] # "done" => returned[c] = None
  /\ outcome[c] # "none" => pc[c] \in {"end", "done"}
  /\ pc[c] = "end" /\ outcome[c] # "none"
       => outcome[c] = "broadcastFailed" /\ verdict[c] = "none"
  /\ pc[c] \notin {"stamp", "end", "done"} => cursor[c] = 1
  /\ pc[c] = "stamp" => /\ held[c] = c /\ expected[c] = mods[c]
                        /\ cursor[c] \in 1..Len(lists[c]) + 1
                        /\ cursor[c] = 2 => transactionId[c] = TxOf[c]
  /\ pc[c] = "end" /\ outcome[c] = "none" => held[c] = c /\ Stamped(c)
  /\ pc[c] = "answer" => held[c] = c /\ Stamped(c) /\ expected[c] = mods[c]
  /\ pc[c] = "done" => ExactAnswer(c)

ExactInv == \A c \in Calls : Undisturbed(c) => RunExact(c) /\ CallExact(c)

\* Everything that has to do with call c.
View(c) == <<map[TxOf[c]], lists[c], mods[c], status[c], exception[c],
             transactionId[c], at[c], verdict[c], list[c], slot[c], target[c],
             pc[c], held[c], cursor[c], expected[c], outcome[c], returned[c]>>

\* A step that leaves all of that alone leaves the call exact.
LEMMA SameView ==
  ASSUME NEW c \in Calls, UNCHANGED View(c), RunExact(c), CallExact(c)
  PROVE  RunExact(c)' /\ CallExact(c)'
BY DEF View, RunExact, CallExact, Added, Stamped, RunPlaces, Collecting, ExactAnswer

\* Who was undisturbed was so before: a transaction once taken up by another
\* thread is not given back.
LEMMA StaysUndisturbed ==
  ASSUME TypeInv, TxInv, [Next]_vars, NEW c \in Calls, Undisturbed(c)'
  PROVE  Undisturbed(c)
<1>. SUFFICES ASSUME NEW e \in Events PROVE tx'[e] = tx[e] \/ tx[e] = None
  BY CollectorAssumption DEF Undisturbed
<1>1. ASSUME NEW d \in Calls, Send(d) PROVE tx'[e] = tx[e]
  BY <1>1, SendLeavesRuns
<1>2. ASSUME NEW r \in Runs, Process(r) PROVE tx'[e] = tx[e]
  BY <1>2 DEF Process, Handle, Report, Lookup, Find, Grow, Store, SetStatus,
              SetException
<1>3. ASSUME NEW f \in Events, Announce(f) PROVE tx'[e] = tx[e] \/ tx[e] = None
  <2>1. e = f => tx[e] = None
    BY <1>3 DEF Announce, TxInv, RunKeepsTx, Runs
  <2>2. e # f => tx'[e] = tx[e]
    BY <1>3 DEF Announce, TypeInv, TypeOK, CollectorTypeOK, Runs
  <2>. QED BY <2>1, <2>2
<1>4. CASE UNCHANGED vars
  BY <1>4 DEF vars, collectorVars, locals
<1>. QED BY <1>1, <1>2, <1>3, <1>4 DEF Next

\* The run of another thread has another transaction, list and response.
LEMMA OtherRunsAreElsewhere ==
  ASSUME TypeInv, TxInv, NEW c \in Calls, Undisturbed(c),
         NEW r \in Runs, r # c
  PROVE  tx[r] # TxOf[c] /\ list[r] # c /\ target[r] # c
<1>1. tx[r] # TxOf[c] /\ tx[c] = TxOf[c]
  BY DEF Undisturbed, TypeInv, OwnRun, Runs
<1>. QED BY <1>1, CollectorAssumption DEF TxInv, RunKeepsTx

\* The other calls leave an undisturbed one alone.
LEMMA OthersSend ==
  ASSUME TypeInv, TxInv, NEW c \in Calls, Undisturbed(c),
         NEW d \in Calls, d # c, Send(d)
  PROVE  UNCHANGED View(c)
<1>1. TxOf[d] # TxOf[c] /\ TxOf[c] \in TxIds /\ c \in Runs
  BY CollectorAssumption DEF Undisturbed, Runs
<1>2. UNCHANGED <<mods, exception>>
  BY DEF Send, FailEarly, BroadcastFails, BroadcastAnnounces, BroadcastSilent,
         BroadcastReturns, GetResponses, Stamp, EndCollector, Answer,
         StartCollector, PutList, collectorVars, collection, responses
<1>3. UNCHANGED <<list[c], target[c], slot[c], verdict[c], status[c], at[c]>>
  BY <1>1 DEF Send, FailEarly, BroadcastFails, BroadcastAnnounces, BroadcastSilent,
         BroadcastReturns, GetResponses, Stamp, EndCollector, Answer,
         StartCollector, collectorVars, responses, locals, Reach, TypeInv, TypeOK,
         CollectorTypeOK
<1>4. UNCHANGED <<map[TxOf[c]], lists[c]>>
  BY <1>1 DEF Send, FailEarly, BroadcastFails, BroadcastAnnounces, BroadcastSilent,
         BroadcastReturns, GetResponses, Stamp, EndCollector, Answer,
         StartCollector, PutList, RemoveList, collectorVars, collection, TypeInv,
         TypeOK, CollectorTypeOK
<1>5. UNCHANGED <<pc[c], held[c], cursor[c], expected[c]>>
  BY DEF Send, FailEarly, BroadcastFails, BroadcastAnnounces, BroadcastSilent,
         BroadcastReturns, GetResponses, Stamp, EndCollector, Answer,
         StartCollector, Goto, TypeInv, TypeOK
<1>6. UNCHANGED <<outcome[c], returned[c]>>
  BY DEF Send, FailEarly, BroadcastFails, BroadcastAnnounces, BroadcastSilent,
         BroadcastReturns, GetResponses, Stamp, EndCollector, Answer,
         StartCollector, TypeInv, TypeOK
<1>7. UNCHANGED transactionId[c]
  <2>1. CASE /\ Stamp(d) /\ ~AtEnd(d) /\ ~NextThrows(d)
             /\ transactionId' = [transactionId EXCEPT
                                    ![lists[held[d]][cursor[d]]] = TxOf[d]]
    <3> DEFINE r == lists[held[d]][cursor[d]]
    <3>1. r \in Runs
      BY <2>1, NextIsRun DEF Stamp
    <3>2. held[d] \in Calls /\ cursor[d] \in 1..Len(lists[held[d]])
      BY <2>1 DEF Stamp, TypeInv, CallReady, AtEnd, NextThrows, TypeOK,
                  CollectorTypeOK
    <3>3. tx[r] = TxOf[d]
      BY <3>1, <3>2, CollectorAssumption
      DEF TxInv, ListKeepsTx, HeldKeepsTx, Runs
    <3>4. r # c
      BY <1>1, <3>3 DEF TypeInv, OwnRun
    <3>. QED BY <2>1, <3>4
  <2>. QED
    BY <2>1
    DEF Send, FailEarly, BroadcastFails, BroadcastAnnounces, BroadcastSilent,
        BroadcastReturns, GetResponses, Stamp, EndCollector, Answer,
        StartCollector, collectorVars, responses
<1>. QED BY <1>2, <1>3, <1>4, <1>5, <1>6, <1>7 DEF View

\* And so do the other runs.
LEMMA OthersProcess ==
  ASSUME TypeInv, TxInv, NEW c \in Calls, Undisturbed(c),
         NEW r \in Runs, r # c, Process(r)
  PROVE  UNCHANGED View(c)
<1>. USE DEF Process, Handle, Report, Lookup, Find, Grow, Store, SetStatus,
             SetException, Reach, TypeInv, TypeOK, CollectorTypeOK
<1>1. list[r] # c /\ target[r] # c /\ c \in Runs
  BY OtherRunsAreElsewhere DEF Runs
<1>2. UNCHANGED <<map, transactionId, callVars>>
  BY RunsLeaveCalls DEF collection, responses
<1>3. UNCHANGED <<at[c], verdict[c], list[c], slot[c], target[c]>>
  BY <1>1
<1>4. UNCHANGED <<lists[c], mods[c]>>
  BY <1>1 DEF collection
<1>5. UNCHANGED <<status[c], exception[c]>>
  BY <1>1 DEF responses
<1>. QED BY <1>2, <1>3, <1>4, <1>5 DEF View, callVars

\* What an undisturbed call's own run does.
LEMMA OwnProcess ==
  ASSUME TypeInv, TxInv, NEW c \in Calls, Undisturbed(c), RunExact(c), CallExact(c),
         Process(c)
  PROVE  RunExact(c)' /\ CallExact(c)'
<1>. USE DEF Process, Report
<1>1. c \in Runs /\ c # None /\ TxOf[c] \in TxIds /\ tx[c] = TxOf[c]
  BY CollectorAssumption DEF Runs, TypeInv, OwnRun
<1>2. pc[c] = "announcing" /\ map[TxOf[c]] = c
  BY DEF Handle, Lookup, Find, Grow, Store, SetStatus, SetException, CallExact,
         RunPlaces, Collecting
<1>3. UNCHANGED <<map, callVars>>
  BY <1>1, RunsLeaveCalls
<1>4. at'[c] \in RunPlaces(c)' => CallExact(c)'
  BY <1>2, <1>3 DEF CallExact, callVars, RunPlaces, Collecting
<1>5. \A l : Reach(c, l) => at'[c] = l
  BY <1>1 DEF Reach, TypeInv, TypeOK, CollectorTypeOK
<1>6. SUFFICES RunExact(c)' /\ at'[c] \in RunPlaces(c)'
  BY <1>4
<1>. USE DEF RunPlaces, callVars
<1>7. CASE Handle(c)
  BY <1>1, <1>2, <1>3, <1>5, <1>7
  DEF Handle, RunExact, Added, Verdicts, collection, TypeInv, TypeOK, CollectorTypeOK
<1>8. CASE Lookup(c)
  <2>1. at[c] = "lookup" /\ lists[c] = << >>
    BY <1>8 DEF Lookup, RunExact, Added
  <2>2. at'[c] = "find" /\ list'[c] = c
        /\ UNCHANGED <<collection, responses, verdict, slot, target>>
    BY <1>1, <1>2, <1>5, <1>8 DEF Lookup, TypeInv, TypeOK, CollectorTypeOK
  <2>. QED BY <1>2, <1>3, <2>1, <2>2 DEF RunExact, Added, collection
<1>9. CASE Find(c)
  <2>1. at[c] = "find" /\ lists[c] = << >> /\ list[c] = c
    BY <1>9 DEF Find, RunExact, Added
  <2>2. at'[c] = "grow"
        /\ UNCHANGED <<collection, responses, verdict, list, slot, target>>
    BY <1>5, <1>9, <2>1 DEF Find
  <2>. QED BY <1>2, <1>3, <2>1, <2>2 DEF RunExact, Added, collection
<1>10. CASE Grow(c)
  <2>1. at[c] = "grow" /\ lists[c] = << >> /\ list[c] = c
    BY <1>10 DEF Grow, RunExact, Added
  <2>2. PICK s \in 1..Len(lists[list[c]]) + 1, kept \in SUBSET DOMAIN lists[list[c]] :
          /\ slot' = [slot EXCEPT ![c] = s]
          /\ lists' = [lists EXCEPT ![list[c]] =
                         [i \in 1..s |-> IF i \in kept THEN lists[list[c]][i]
                                        ELSE None]]
    BY <1>10 DEF Grow
  <2>3. s = 1 /\ kept = {}
    BY <2>1
  <2>4. lists'[c] = <<None>> /\ slot'[c] = 1
    <3>1. lists'[c] = [i \in 1..1 |-> None] /\ slot'[c] = 1
      BY <1>1, <2>1, <2>2, <2>3 DEF TypeInv, TypeOK, CollectorTypeOK
    <3>. QED BY <3>1
  <2>5. at'[c] = "store" /\ target'[c] = c
        /\ UNCHANGED <<responses, verdict, list>>
    BY <1>1, <1>5, <1>10 DEF Grow, TypeInv, TypeOK, CollectorTypeOK
  <2>. QED BY <1>2, <1>3, <2>1, <2>4, <2>5 DEF RunExact, Added
<1>11. CASE Store(c)
  <2>1. at[c] = "store" /\ lists[c] = <<None>> /\ list[c] = c /\ slot[c] = 1
        /\ target[c] = c
    BY <1>11 DEF Store, RunExact, Added
  <2>2. ~\E q \in Runs \ {c} : list[q] = c
    BY OtherRunsAreElsewhere
  <2>3. lists' = [lists EXCEPT ![c] = [@ EXCEPT ![1] = c]]
    BY <1>11, <2>1, <2>2 DEF Store
  <2>4. lists'[c] = <<c>>
    BY <2>1, <2>3 DEF TypeInv, TypeOK, CollectorTypeOK
  <2>5. at'[c] = "status" /\ UNCHANGED <<responses, verdict, list, slot, target>>
    BY <1>5, <1>11 DEF Store
  <2>. QED BY <1>2, <1>3, <2>1, <2>4, <2>5 DEF RunExact, Added
<1>12. CASE SetStatus(c)
  <2>1. at[c] = "status" /\ lists[c] = <<c>> /\ target[c] = c
        /\ verdict[c] \in Verdicts
    BY <1>1, <1>12 DEF SetStatus, RunExact, Added, TypeInv, RunReady
  <2>2. status'[c] = verdict[c]
        /\ at'[c] = (IF verdict[c] = "exception" THEN "exception" ELSE "end")
        /\ UNCHANGED <<collection, verdict, list, slot, target>>
    BY <1>1, <1>5, <1>12, <2>1 DEF SetStatus, TypeInv, TypeOK, CollectorTypeOK
  <2>. QED
    BY <1>2, <1>3, <2>1, <2>2 DEF RunExact, Added, collection, Verdicts
<1>13. CASE SetException(c)
  <2>1. at[c] = "exception" /\ lists[c] = <<c>> /\ target[c] = c
        /\ verdict[c] = "exception" /\ status[c] = verdict[c]
    BY <1>13 DEF SetException, RunExact, Added
  <2>2. exception'[c] = "set" /\ at'[c] = "end"
        /\ UNCHANGED <<collection, status, verdict, list, slot, target>>
    BY <1>1, <1>5, <1>13, <2>1 DEF SetException, TypeInv, TypeOK, CollectorTypeOK
  <2>. QED
    BY <1>2, <1>3, <2>1, <2>2 DEF RunExact, Added, collection
<1>. QED BY <1>7, <1>8, <1>9, <1>10, <1>11, <1>12, <1>13

\* What an undisturbed call does itself.
LEMMA OwnSend ==
  ASSUME TypeInv, NEW c \in Calls, RunExact(c), CallExact(c), Send(c)
  PROVE  RunExact(c)' /\ CallExact(c)'
<1>1. c \in Runs /\ c # None /\ TxOf[c] \in TxIds
  BY CollectorAssumption DEF Runs
<1>2. \A l : Goto(c, l) => pc'[c] = l
  BY DEF Goto, TypeInv, TypeOK
<1>3. ASSUME UNCHANGED <<collection, status, exception, locals>>
      PROVE  RunExact(c)'
  BY <1>3 DEF RunExact, Added, collection, locals
<1>4. CASE FailEarly(c)
  <2>1. outcome'[c] \in Unsent
    BY <1>4 DEF FailEarly, TypeInv, TypeOK
  <2>2. pc'[c] = "done" /\ verdict[c] = "none" /\ at[c] = "off"
    BY <1>2, <1>4 DEF FailEarly, RunExact, CallExact, RunPlaces
  <2>. QED
    BY <1>3, <1>4, <2>1, <2>2
    DEF FailEarly, collectorVars, responses, locals, collection, CallExact,
        Collecting, RunPlaces, ExactAnswer, Unsent
<1>5. CASE StartCollector(c)
  <2>1. pc[c] = "idle" /\ pc'[c] = "broadcast"
        /\ map'[TxOf[c]] = c /\ lists'[c] = << >>
        /\ UNCHANGED <<mods, responses, locals, held, cursor, expected, outcome,
                       returned>>
    BY <1>1, <1>2, <1>5
    DEF StartCollector, PutList, TypeInv, TypeOK, CollectorTypeOK
  <2>. QED
    BY <2>1 DEF RunExact, CallExact, Collecting, RunPlaces, Added, responses, locals
<1>6. CASE BroadcastFails(c)
  <2>1. pc[c] = "broadcast" /\ pc'[c] = "end" /\ outcome'[c] = "broadcastFailed"
        /\ UNCHANGED <<collectorVars, held, cursor, expected, returned>>
    BY <1>2, <1>6 DEF BroadcastFails, TypeInv, TypeOK
  <2>2. verdict[c] = "none" /\ at[c] = "off"
    BY <2>1 DEF RunExact, CallExact, RunPlaces
  <2>. QED
    BY <1>3, <2>1, <2>2
    DEF CallExact, Collecting, RunPlaces, collectorVars, responses, locals, collection
<1>7. CASE BroadcastAnnounces(c)
  <2>1. pc[c] = "broadcast" /\ pc'[c] = "announcing" /\ at'[c] = "handle"
        /\ UNCHANGED <<collection, responses, verdict, list, slot, target, held,
                       cursor, expected, outcome, returned>>
    BY <1>1, <1>2, <1>7
    DEF BroadcastAnnounces, Reach, TypeInv, TypeOK, CollectorTypeOK
  <2>. QED
    BY <2>1 DEF RunExact, CallExact, Collecting, RunPlaces, Added, collection
<1>8. CASE BroadcastSilent(c) \/ BroadcastReturns(c)
  <2>1. pc'[c] = "collect" /\ at[c] \in {"off", "end"}
        /\ pc[c] \in {"broadcast", "announcing"}
        /\ UNCHANGED <<collectorVars, held, cursor, expected, outcome, returned>>
    BY <1>2, <1>8 DEF BroadcastSilent, BroadcastReturns, CallExact, RunPlaces
  <2>. QED
    BY <1>3, <2>1
    DEF CallExact, Collecting, RunPlaces, collectorVars, responses, locals, collection
<1>9. CASE GetResponses(c)
  <2>1. pc[c] = "collect" /\ map[TxOf[c]] = c /\ cursor[c] = 1 /\ outcome[c] = "none"
        /\ at[c] \in {"off", "end"}
    BY <1>9 DEF GetResponses, CallExact, Collecting, RunPlaces
  <2>2. pc'[c] = "stamp" /\ held'[c] = c /\ expected'[c] = mods[c]
        /\ UNCHANGED <<collectorVars, cursor, outcome, returned>>
    BY <1>1, <1>2, <1>9, <2>1 DEF GetResponses, TypeInv, TypeOK
  <2>3. 1 \in 1..Len(lists[c]) + 1
    BY DEF TypeInv, TypeOK, CollectorTypeOK
  <2>. QED
    BY <1>3, <2>1, <2>2, <2>3
    DEF CallExact, Collecting, RunPlaces, collectorVars, responses, locals, collection
<1>10. CASE Stamp(c)
  <2>1. /\ pc[c] = "stamp" /\ held[c] = c /\ expected[c] = mods[c]
        /\ outcome[c] = "none" /\ at[c] \in {"off", "end"}
        /\ cursor[c] \in 1..Len(lists[c]) + 1 /\ returned[c] = None
        /\ cursor[c] = 2 => transactionId[c] = TxOf[c]
    BY <1>10 DEF Stamp, CallExact, RunPlaces
  <2>2. lists[c] = IF Added(c) THEN <<c>> ELSE << >>
    BY <2>1 DEF RunExact
  <2>3. ~NextThrows(c)
    BY <1>1, <2>1, <2>2 DEF NextThrows, AtEnd
  <2>4. RunExact(c)'
    BY <1>3, <1>10 DEF Stamp
  <2>5. CASE AtEnd(c)
    <3>1. pc'[c] = "end"
          /\ UNCHANGED <<collectorVars, held, cursor, expected, outcome, returned>>
      BY <1>2, <1>10, <2>3, <2>5
      DEF Stamp, collectorVars, responses
    <3>2. Stamped(c)
      <4>1. CASE Added(c)
        <5>1. lists[c] = <<c>> /\ cursor[c] = Len(lists[c]) + 1
          BY <2>1, <2>2, <2>5, <4>1 DEF AtEnd
        <5>2. cursor[c] = 2
          BY <5>1
        <5>. QED BY <2>1, <5>2 DEF Stamped
      <4>. QED BY <4>1 DEF Stamped
    <3>. QED
      BY <2>1, <2>4, <3>1, <3>2
      DEF CallExact, Collecting, RunPlaces, Stamped, Added, collectorVars,
          responses, locals, collection
  <2>6. CASE ~AtEnd(c)
    <3>1. lists[c] = <<c>> /\ cursor[c] = 1
      BY <2>1, <2>2, <2>6 DEF AtEnd
    <3>2. cursor'[c] = 2 /\ transactionId'[c] = TxOf[c]
          /\ UNCHANGED <<pc, outcome, collection, locals, held, expected, returned>>
      BY <1>1, <1>10, <2>1, <2>3, <2>6, <3>1
      DEF Stamp, TypeInv, TypeOK, CollectorTypeOK
    <3>3. cursor'[c] \in 1..Len(lists'[c]) + 1
      <4>1. lists'[c] = <<c>>
        BY <3>1, <3>2 DEF collection
      <4>2. Len(lists'[c]) = 1
        BY <4>1
      <4>. QED BY <3>2, <4>2
    <3>. QED
      BY <2>1, <2>4, <3>2, <3>3
      DEF CallExact, Collecting, RunPlaces, collection, locals
  <2>. QED BY <2>5, <2>6
<1>11. CASE EndCollector(c)
  <2>1. pc[c] = "end" /\ map'[TxOf[c]] = None /\ at[c] \in {"off", "end"}
        /\ returned[c] = None
        /\ UNCHANGED <<lists, mods, responses, locals, held, outcome, returned>>
    BY <1>1, <1>11
    DEF EndCollector, RemoveList, TypeInv, TypeOK, CollectorTypeOK, CallExact,
        RunPlaces
  <2>2. RunExact(c)'
    BY <2>1 DEF RunExact, Added, responses, locals
  <2>3. CASE outcome[c] # "none"
    <3>1. pc'[c] = "done" /\ outcome[c] = "broadcastFailed" /\ verdict[c] = "none"
      BY <1>2, <1>11, <2>3 DEF EndCollector, CallExact
    <3>. QED
      BY <2>1, <2>2, <2>3, <3>1
      DEF CallExact, Collecting, RunPlaces, ExactAnswer, locals
  <2>4. CASE outcome[c] = "none"
    <3>1. pc'[c] = "answer" /\ cursor'[c] = 1 /\ held[c] = c /\ Stamped(c)
          /\ expected'[c] = mods[c]
      BY <1>2, <1>11, <2>4 DEF EndCollector, CallExact, TypeInv, TypeOK
    <3>. QED
      BY <2>1, <2>2, <2>4, <3>1
      DEF CallExact, Collecting, RunPlaces, Stamped, Added, responses, locals
  <2>. QED BY <2>3, <2>4
<1>12. CASE Answer(c)
  <2>1. pc[c] = "answer" /\ held[c] = c /\ expected[c] = mods[c] /\ Stamped(c)
        /\ cursor[c] = 1 /\ at[c] \in {"off", "end"} /\ returned[c] = None
        /\ map[TxOf[c]] = None
    BY <1>12 DEF Answer, CallExact, Collecting, RunPlaces
  <2>2. lists[c] = IF Added(c) THEN <<c>> ELSE << >>
    BY <2>1 DEF RunExact
  <2>3. ~NextThrows(c) /\ (AtEnd(c) <=> ~Added(c))
    BY <1>1, <2>1, <2>2 DEF NextThrows, AtEnd
  <2>4. UNCHANGED <<collectorVars, held, expected>>
    BY <1>12 DEF Answer
  <2>5. RunExact(c)'
    BY <1>3, <2>4 DEF collectorVars, responses
  <2>6. CASE ~Added(c)
    <3>1. pc'[c] = "done" /\ outcome'[c] = "notReached" /\ UNCHANGED returned
      BY <1>2, <1>12, <2>3, <2>6 DEF Answer, TypeInv, TypeOK
    <3>2. verdict[c] = "none"
      BY <2>1, <2>6 DEF RunExact, Added
    <3>. QED
      BY <2>1, <2>4, <2>5, <3>1, <3>2
      DEF CallExact, Collecting, RunPlaces, ExactAnswer, collectorVars, collection,
          locals
  <2>7. CASE Added(c)
    <3>1. /\ lists[c][1] = c /\ status[c] = verdict[c] /\ verdict[c] # "none"
          /\ verdict[c] \in Verdicts
          /\ verdict[c] = "exception" => exception[c] = "set"
      BY <1>1, <2>1, <2>2, <2>7 DEF RunExact, Added, TypeInv, TypeOK, CollectorTypeOK
    <3>2. Decide(c) = verdict[c]
      BY <3>1 DEF Decide, Verdicts
    <3>3. pc'[c] = "done" /\ outcome'[c] = verdict[c]
          /\ returned'[c] = IF verdict[c] = "success" THEN TxOf[c] ELSE None
      BY <1>2, <1>12, <2>1, <2>3, <2>7, <3>1, <3>2
      DEF Answer, Stamped, TypeInv, TypeOK
    <3>. QED
      BY <2>1, <2>4, <2>5, <3>3
      DEF CallExact, Collecting, RunPlaces, ExactAnswer, collectorVars, collection,
          locals
  <2>. QED BY <2>6, <2>7
<1>. QED
  BY <1>4, <1>5, <1>6, <1>7, <1>8, <1>9, <1>10, <1>11, <1>12 DEF Send

\* The answer to an undisturbed call is the one its own run reported, with the
\* id of its transaction, however calls and announcements for other
\* transactions interleave with it in the collector.
THEOREM UndisturbedAnswersAreExact == Spec => []UndisturbedIsExact
<1>1. Init => ExactInv
  <2>. SUFFICES ASSUME Init, NEW c \in Calls PROVE RunExact(c) /\ CallExact(c)
    BY DEF ExactInv
  <2>1. c \in Runs /\ TxOf[c] \in TxIds
    BY CollectorAssumption DEF Runs
  <2>. QED
    BY <2>1 DEF Init, CollectorInit, RunExact, CallExact, Added, Collecting, RunPlaces
<1>2. TypeInv /\ TxInv /\ ExactInv /\ [Next]_vars => ExactInv'
  <2>. SUFFICES ASSUME TypeInv, TxInv, ExactInv, [Next]_vars, NEW c \in Calls,
                       Undisturbed(c)'
                PROVE  RunExact(c)' /\ CallExact(c)'
    BY DEF ExactInv
  <2>1. Undisturbed(c) /\ RunExact(c) /\ CallExact(c)
    BY StaysUndisturbed DEF ExactInv
  <2>2. ASSUME NEW d \in Calls, Send(d) PROVE RunExact(c)' /\ CallExact(c)'
    BY <2>1, <2>2, OwnSend, OthersSend, SameView
  <2>3. ASSUME NEW r \in Runs, Process(r) PROVE RunExact(c)' /\ CallExact(c)'
    BY <2>1, <2>3, OwnProcess, OthersProcess, SameView
  <2>4. ASSUME NEW e \in Events, Announce(e) PROVE RunExact(c)' /\ CallExact(c)'
    <3>1. e # c /\ c \in Runs
      BY CollectorAssumption DEF Runs
    <3>2. UNCHANGED View(c)
      BY <2>4, <3>1 DEF Announce, Reach, View, collection, responses, callVars,
                        TypeInv, TypeOK, CollectorTypeOK
    <3>. QED BY <2>1, <3>2, SameView
  <2>5. CASE UNCHANGED vars
    <3>1. UNCHANGED View(c)
      BY <2>5 DEF vars, collectorVars, collection, responses, locals, callVars, View
    <3>. QED BY <2>1, <3>1, SameView
  <2>. QED BY <2>2, <2>3, <2>4, <2>5 DEF Next
<1>3. ExactInv => UndisturbedIsExact
  BY DEF ExactInv, CallExact, UndisturbedIsExact
<1>. QED BY <1>1, <1>2, <1>3, TypeInvariant, TxInvariant, PTL DEF Spec

===============================================================================
