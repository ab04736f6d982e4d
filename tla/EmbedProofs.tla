------------------------------ MODULE EmbedProofs ------------------------------
(***************************************************************************)
(* Proofs about Embed, for any number of calls, scans and events, and      *)
(* about EmbedSeed, the setup that precedes them: two specifications of    *)
(* one class, each with a state of its own.                                *)
(***************************************************************************)
EXTENDS Embed, EmbedSeed, SequenceTheorems, WellFoundedInduction, TLAPS

(***************************************************************************)
(* Types, in the parts the steps change.  That only the runnables of scan  *)
(* scan is not in TypeOK, which is not inductive without it.               *)
(***************************************************************************)
ListType == list \in Seq(Calls \cup {None}) /\ mods \in Nat /\ isReady \in BOOLEAN

CoreType ==
  /\ core \in {"starting", "failed", "waiting", "begin", "forEach", "running",
               "clear", "remove", "gone"}
  /\ next \in Nat \ {0} /\ count \in Nat
  /\ array \in Seq(Calls \cup {None})
  /\ events \in 0..MaxEvents

CallType ==
  /\ pc \in [Calls -> {"idle", "add", "grow", "store", "running", "done"}]
  /\ sizes \in [Calls -> SUBSET Nat] /\ counts \in [Calls -> SUBSET Nat]
  /\ slot \in [Calls -> Nat]

BodyType ==
  /\ body \in [Calls -> {"off", "run", "scan", "scanning", "unlisten", "ended",
                         "threw"}]
  /\ ran \in [Calls -> Nat]
  /\ \A c \in Calls \ Scans : body[c] \notin {"scan", "scanning", "unlisten"}

ScanType ==
  /\ listening \in SUBSET Scans
  /\ scanner \in Scans \cup {None}
  /\ heard \in [Scans -> SUBSET Scans]
  /\ threw \in SUBSET Scans /\ mingled \in SUBSET Scans

PastType ==
  raced \in SUBSET Calls /\ straddled \in SUBSET Calls /\ aborted \in BOOLEAN

TypeInv ==
  ListType /\ CoreType /\ CallType /\ BodyType /\ ScanType /\ PastType

\* Whoever starts a runnable keeps the types.
LEMMA BeginType ==
  ASSUME BodyType, ScanType, NEW c \in Calls, Begin(c)
  PROVE  BodyType' /\ ScanType'
BY DEF BodyType, ScanType, Begin, Body, scanVars

\* The list AddGrows leaves: elements stay where they are or are missing.
LEMMA Grown ==
  ASSUME ListType, CallType, NEW c \in Calls, AddGrows(c)
  PROVE  \E n \in sizes[c], m \in counts[c] :
           /\ slot' = [slot EXCEPT ![c] = n + 1]
           /\ list' \in Seq(Calls \cup {None}) /\ mods' = m + 1
           /\ Len(list') = n + 1
           /\ \A i \in DOMAIN list' : \/ list'[i] = None
                                      \/ i \in DOMAIN list /\ list'[i] = list[i]
           /\ \A i \in DOMAIN list : i <= Min(sizes[c]) /\ i <= n + 1
                                      => i \in DOMAIN list' /\ list'[i] = list[i]
           /\ sizes' = [d \in Calls |->
                          sizes[d] \cup IF pc[d] = "grow" THEN {n + 1} ELSE {}]
           /\ counts' = [d \in Calls |->
                           counts[d] \cup IF pc[d] = "grow" THEN {m + 1} ELSE {}]
<1>. USE DEF ListType, CallType
<1>1. PICK n \in sizes[c], m \in counts[c] :
        \E kept \in SUBSET (Min(sizes[c])+1..n) :
          /\ slot' = [slot EXCEPT ![c] = n + 1]
          /\ Resize([i \in 1..n+1 |->
                      IF i \in DOMAIN list /\ (i <= Min(sizes[c]) \/ i \in kept)
                      THEN list[i] ELSE None], m + 1)
  BY DEF AddGrows
<1>2. PICK kept :
        Resize([i \in 1..n+1 |->
                  IF i \in DOMAIN list /\ (i <= Min(sizes[c]) \/ i \in kept)
                  THEN list[i] ELSE None], m + 1)
  BY <1>1
<1>3. n \in Nat
  OBVIOUS
<1>8. list' = [i \in 1..n+1 |->
                 IF i \in DOMAIN list /\ (i <= Min(sizes[c]) \/ i \in kept)
                 THEN list[i] ELSE None]
  BY <1>2 DEF Resize
<1>4. DOMAIN list' = 1..n+1 /\ Len(list') = n + 1
  BY <1>3, <1>8
<1>5. \A i \in DOMAIN list' : \/ list'[i] = None
                              \/ i \in DOMAIN list /\ list'[i] = list[i]
  <2>. SUFFICES ASSUME NEW i \in DOMAIN list'
                PROVE  \/ list'[i] = None
                       \/ i \in DOMAIN list /\ list'[i] = list[i]
    OBVIOUS
  <2>1. list'[i] = IF i \in DOMAIN list /\ (i <= Min(sizes[c]) \/ i \in kept)
                   THEN list[i] ELSE None
    BY <1>4, <1>8
  <2>. QED BY <2>1
<1>6. \A i \in DOMAIN list : i <= Min(sizes[c]) /\ i <= n + 1
                              => i \in DOMAIN list' /\ list'[i] = list[i]
  <2>. SUFFICES ASSUME NEW i \in DOMAIN list, i <= Min(sizes[c]), i <= n + 1
                PROVE  i \in DOMAIN list' /\ list'[i] = list[i]
    OBVIOUS
  <2>1. i \in 1..n+1
    BY <1>3
  <2>. QED BY <1>4, <1>8, <2>1
<1>7. list' \in Seq(Calls \cup {None})
  BY <1>3, <1>8
<1>9. /\ sizes' = [d \in Calls |->
                     sizes[d] \cup IF pc[d] = "grow" THEN {n + 1} ELSE {}]
      /\ counts' = [d \in Calls |->
                      counts[d] \cup IF pc[d] = "grow" THEN {m + 1} ELSE {}]
  BY <1>2, <1>4 DEF Resize
<1>10. mods' = m + 1
  BY <1>2 DEF Resize
<1>. QED BY <1>1, <1>4, <1>5, <1>6, <1>7, <1>9, <1>10

\* An add keeps the types.
LEMMA GrowType ==
  ASSUME ListType, CallType, NEW c \in Calls, AddGrows(c)
  PROVE  ListType' /\ CallType'
<1>1. PICK n \in sizes[c], m \in counts[c] :
        /\ slot' = [slot EXCEPT ![c] = n + 1]
        /\ list' \in Seq(Calls \cup {None}) /\ mods' = m + 1
        /\ sizes' = [d \in Calls |->
                       sizes[d] \cup IF pc[d] = "grow" THEN {n + 1} ELSE {}]
        /\ counts' = [d \in Calls |->
                        counts[d] \cup IF pc[d] = "grow" THEN {m + 1} ELSE {}]
  BY Grown
<1>2. ListType'
  BY <1>1 DEF ListType, CallType, AddGrows
<1>3. CallType'
  BY <1>1 DEF CallType, AddGrows, Goto
<1>. QED BY <1>2, <1>3

\* The types are inductive.
LEMMA TypeInvariant == Spec => []TypeInv
<1>1. Init => TypeInv
  <2>. SUFFICES ASSUME Init PROVE TypeInv
    OBVIOUS
  <2>. USE EmbedAssumption DEF EmbedAssumption, Init
  <2>1. ListType
    <3>1. list \in Seq(Calls \cup {None})
      BY EmptySeq
    <3>. QED BY <3>1 DEF ListType
  <2>5. CoreType
    BY DEF CoreType
  <2>2. CallType
    BY DEF CallType
  <2>3. BodyType /\ ScanType
    BY DEF BodyType, ScanType
  <2>4. PastType
    BY DEF PastType
  <2>. QED BY <2>1, <2>2, <2>3, <2>4, <2>5 DEF TypeInv
<1>2. TypeInv /\ [Next]_vars => TypeInv'
  <2>. SUFFICES ASSUME TypeInv, [Next]_vars PROVE TypeInv'
    OBVIOUS
  <2>0. /\ ListType /\ CoreType /\ CallType
        /\ BodyType /\ ScanType /\ PastType
    BY DEF TypeInv
  <2>. USE EmbedAssumption
       DEF EmbedAssumption, fields, coreVars, addVars, scanVars, runVars, raceVars,
           notBody, notCore, Goto, Body, At
  <2>1. ListType'
    <3>1. ASSUME NEW c \in Calls, AddStores(c) PROVE ListType'
      BY <2>0, <3>1, ExceptSeq DEF ListType, AddStores
    <3>2. CASE Clear
      BY <2>0, <3>2 DEF ListType, Clear, Resize
    <3>3. CASE OnReady
      BY <2>0, <3>3 DEF ListType, OnReady
    <3>. QED BY <2>0, <3>1, <3>2, <3>3, GrowType
      DEF ListType, vars, Next, CoreStep, Call, RunBody, Start, ForEachBegins,
          ForEach, RunnableEnds, RemoveListener, Ready, AddBegins, RunReturns,
          RunPlain, Listen, ScanBegins, ScanEnds, ScanThrows, Unlisten
  <2>2. CoreType'
    <3>1. CASE ForEach
      BY <2>0, <3>1 DEF CoreType, ForEach, Abort
    <3>2. CASE RunnableEnds
      BY <2>0, <3>2 DEF CoreType, RunnableEnds, Abort
    <3>. QED BY <2>0, <3>1, <3>2
      DEF CoreType, ListType, vars, Next, CoreStep, Call, RunBody, Start, OnReady,
          ForEachBegins, Clear, RemoveListener, Ready, AddBegins, AddGrows,
          AddStores, RunReturns, RunPlain, Listen, ScanBegins, ScanEnds,
          ScanThrows, Unlisten
  <2>3. CallType'
    <3>1. CASE Clear
      BY <2>0, <3>1 DEF CallType, ListType, Clear, Resize
    <3>2. ASSUME NEW c \in Calls, AddBegins(c) PROVE CallType'
      BY <3>2, <2>0 DEF CallType, ListType, AddBegins
    <3>3. ASSUME NEW c \in Calls, Ready(c) \/ AddStores(c) \/ RunReturns(c)
          PROVE  CallType'
      BY <3>3, <2>0 DEF CallType, Ready, AddStores, RunReturns
    <3>. QED BY <2>0, <3>1, <3>2, <3>3, GrowType
      DEF CallType, vars, Next, CoreStep, Call, RunBody, Start, OnReady,
          ForEachBegins, ForEach, RunnableEnds, RemoveListener, RunPlain, Listen,
          ScanBegins, ScanEnds, ScanThrows, Unlisten
  <2>4. BodyType' /\ ScanType'
    <3>1. CASE ForEach
      <4>1. mods = count /\ next <= Len(array)
              => Elements \subseteq Calls \cup {None}
        BY <2>0 DEF CoreType, ListType, Elements
      <4>2. UNCHANGED runVars \/ \E c \in Calls : Begin(c)
        BY <2>0, <3>1, <4>1 DEF ForEach
      <4>. QED BY <2>0, <4>2, BeginType DEF BodyType, ScanType
    <3>2. CASE RunnableEnds
      BY <2>0, <3>2 DEF BodyType, ScanType, RunnableEnds
    <3>3. ASSUME NEW c \in Calls, Call(c) PROVE BodyType' /\ ScanType'
      BY <2>0, <3>3, BeginType
      DEF BodyType, ScanType, Call, Ready, AddBegins, AddGrows, AddStores, RunReturns
    <3>4. ASSUME NEW c \in Calls, RunBody(c) PROVE BodyType' /\ ScanType'
      <4>1. CASE RunPlain(c) \/ Listen(c)
        BY <2>0, <4>1 DEF BodyType, ScanType, RunPlain, Listen, Running
      <4>2. CASE ScanBegins(c) \/ Unlisten(c)
        BY <2>0, <4>2 DEF BodyType, ScanType, ScanBegins, Unlisten
      <4>3. CASE ScanEnds(c) \/ ScanThrows(c)
        <5>1. c \in Scans
          BY <2>0, <4>3 DEF BodyType, ScanEnds, ScanThrows
        <5>. QED BY <2>0, <4>3, <5>1 DEF BodyType, ScanType, ScanEnds, ScanThrows
      <4>. QED BY <2>0, <3>4, <4>1, <4>2, <4>3 DEF RunBody
    <3>. QED BY <2>0, <3>1, <3>2, <3>3, <3>4
      DEF BodyType, ScanType, vars, Next, CoreStep, Start, OnReady, ForEachBegins,
          Clear, RemoveListener
  <2>5. PastType'
    BY <2>0 DEF PastType, vars, Next, CoreStep, Call, RunBody, Start, OnReady,
           ForEachBegins, ForEach, Abort, RunnableEnds, Clear, RemoveListener,
           Ready, AddBegins, AddGrows, AddStores, RunReturns, RunPlain, Listen,
           ScanBegins, ScanEnds, ScanThrows, Unlisten, Adding
  <2>. QED BY <2>1, <2>2, <2>3, <2>4, <2>5 DEF TypeInv
<1>. QED BY <1>1, <1>2, PTL DEF Spec

\* The state of ready, scan, onReady and their list keeps its types.
THEOREM TypeCorrect == Spec => []TypeOK
<1>1. TypeInv => TypeOK
  BY DEF TypeInv, ListType, CoreType, CallType, BodyType, ScanType, PastType, TypeOK
<1>. QED BY <1>1, TypeInvariant, PTL

(***************************************************************************)
(* What is in the list, and in the array forEach began with, are calls     *)
(* whose add is over, each at the position it stored to and nowhere else;  *)
(* a call that runs its runnable itself has no position.                   *)
(***************************************************************************)
Placed(s) ==
  \A i \in DOMAIN s : s[i] # None => slot[s[i]] = i /\ pc[s[i]] = "done"

Slots ==
  /\ \A c \in Calls : pc[c] \in {"idle", "add", "grow", "running"} => slot[c] = 0
  /\ \A c \in Calls : pc[c] = "store" => slot[c] # 0
  /\ Placed(list) /\ Placed(array)

\* A step of anybody keeps the elements where their calls have put them.
LEMMA SlotsStep ==
  ASSUME TypeInv, Slots, [Next]_vars PROVE Slots'
<1>. USE EmbedAssumption
     DEF EmbedAssumption, TypeInv, ListType, CoreType, CallType, fields, coreVars,
         addVars, raceVars, notBody, notCore, Goto
<1>1. CASE ForEachBegins
  BY <1>1 DEF ForEachBegins, Slots, Placed
<1>2. CASE Clear
  BY <1>2 DEF Clear, Resize, Slots, Placed
<1>3. ASSUME NEW c \in Calls, AddGrows(c) PROVE Slots'
  <2>1. PICK n \in sizes[c] :
          /\ slot' = [slot EXCEPT ![c] = n + 1]
          /\ \A i \in DOMAIN list' : \/ list'[i] = None
                                     \/ i \in DOMAIN list /\ list'[i] = list[i]
    BY <1>3, Grown
  <2>2. /\ \A d \in Calls : pc'[d] \in {"idle", "add", "grow", "running"}
                              => slot'[d] = 0
        /\ \A d \in Calls : pc'[d] = "store" => slot'[d] # 0
    BY <1>3, <2>1 DEF Slots, AddGrows
  <2>3. Placed(list)'
    BY <1>3, <2>1 DEF Slots, Placed, AddGrows
  <2>4. Placed(array)'
    BY <1>3, <2>1 DEF Slots, Placed, AddGrows
  <2>. QED BY <2>2, <2>3, <2>4 DEF Slots
<1>4. ASSUME NEW c \in Calls, AddStores(c) PROVE Slots'
  <2>1. pc' = [pc EXCEPT ![c] = "done"] /\ pc[c] = "store"
    BY <1>4 DEF AddStores
  <2>2. /\ \A d \in Calls : pc'[d] \in {"idle", "add", "grow", "running"}
                              => slot'[d] = 0
        /\ \A d \in Calls : pc'[d] = "store" => slot'[d] # 0
    BY <1>4, <2>1 DEF AddStores, Slots
  <2>3. Placed(list)'
    <3>1. /\ DOMAIN list' = DOMAIN list
          /\ \A i \in DOMAIN list : \/ list'[i] = list[i]
                                    \/ i = slot[c] /\ list'[i] = c
      <4>1. CASE UNCHANGED list
        BY <4>1
      <4>2. CASE list' = [list EXCEPT ![slot[c]] = c]
        BY <4>2
      <4>. QED BY <1>4, <4>1, <4>2 DEF AddStores
    <3>. QED BY <1>4, <2>1, <3>1 DEF AddStores, Slots, Placed
  <2>4. Placed(array)'
    BY <1>4, <2>1 DEF AddStores, Slots, Placed
  <2>. QED BY <2>2, <2>3, <2>4 DEF Slots
<1>5. ASSUME NEW c \in Calls, Ready(c) \/ AddBegins(c) \/ RunReturns(c) PROVE Slots'
  BY <1>5 DEF Ready, AddBegins, RunReturns, Slots, Placed
<1>6. CASE UNCHANGED <<pc, slot, list, array>>
  BY <1>6 DEF Slots, Placed
<1>. QED BY <1>1, <1>2, <1>3, <1>4, <1>5, <1>6
  DEF vars, Next, CoreStep, Call, RunBody, Start, OnReady, ForEach, RunnableEnds,
      RemoveListener, RunPlain, Listen, ScanBegins, ScanEnds, ScanThrows, Unlisten

\* Until its add is over nobody runs the runnable of a call; who runs it himself
\* does so once; the core's thread runs the others one at a time.
Threads ==
  /\ \A c \in Calls : pc[c] \in {"idle", "add", "grow", "store"}
                        => ran[c] = 0 /\ body[c] = "off"
  /\ \A c \in Calls : pc[c] \in {"running", "done"} /\ slot[c] = 0 => ran[c] = 1
  /\ \A c \in Calls : pc[c] # "running" /\ body[c] # "off" => core = "running"
  /\ \A c, d \in Calls : /\ pc[c] # "running" /\ body[c] # "off"
                         /\ pc[d] # "running" /\ body[d] # "off"
                         => c = d

\* forEach stops, with or without an exception, or starts the runnable that was
\* stored at the position it looks at.
LEMMA ForEachRuns ==
  ASSUME TypeInv, Slots, ForEach
  PROVE  \/ core' = "waiting" /\ aborted' /\ UNCHANGED <<body, ran>>
         \/ core' = "clear" /\ next > Len(array) /\ UNCHANGED <<body, ran, aborted>>
         \/ \E c \in Calls :
              /\ c \in Elements /\ next \in DOMAIN array
              /\ pc[c] = "done" /\ slot[c] = next
              /\ core' = "running" /\ UNCHANGED aborted
              /\ body' = [body EXCEPT ![c] = "run"]
              /\ ran' = [ran EXCEPT ![c] = @ + 1]
<1>. USE EmbedAssumption
     DEF EmbedAssumption, TypeInv, ListType, CoreType, scanVars, runVars, At
<1>1. CASE mods # count \/ next > Len(array)
  BY <1>1 DEF ForEach, Abort
<1>2. CASE next <= Len(array)
  <2>1. next \in DOMAIN array
    BY <1>2
  <2>2. ASSUME NEW c \in Elements, c # None
        PROVE  c \in Calls /\ pc[c] = "done" /\ slot[c] = next
    BY <2>1, <2>2 DEF Elements, Slots, Placed
  <2>. QED BY <1>2, <2>1, <2>2 DEF ForEach, Abort, Begin, Body
<1>. QED BY <1>1, <1>2

\* No step gives a runnable a second thread.
LEMMA ThreadsStep == ASSUME TypeInv, Slots, Threads, [Next]_vars PROVE Threads'
<1>. USE EmbedAssumption
     DEF EmbedAssumption, TypeInv, CoreType, CallType, BodyType, fields, coreVars,
         addVars, scanVars, runVars, raceVars, notBody, notCore, Goto, Body, At
<1>1. CASE ForEach
  <2>1. UNCHANGED <<pc, slot>> /\ core = "forEach"
    BY <1>1 DEF ForEach
  <2>2. CASE core' # "running" /\ UNCHANGED <<body, ran>>
    BY <2>1, <2>2 DEF Threads
  <2>3. ASSUME NEW c \in Calls, pc[c] = "done", slot[c] = next, core' = "running",
               body' = [body EXCEPT ![c] = "run"], ran' = [ran EXCEPT ![c] = @ + 1]
        PROVE  Threads'
    BY <2>1, <2>3 DEF Threads
  <2>. QED BY <1>1, <2>2, <2>3, ForEachRuns
<1>2. CASE RunnableEnds
  <2>. PICK c \in Calls : /\ pc[c] # "running" /\ body[c] \in {"ended", "threw"}
                          /\ body' = [body EXCEPT ![c] = "off"]
    BY <1>2 DEF RunnableEnds
  <2>1. \A d \in Calls : pc[d] # "running" => body'[d] = "off"
    BY DEF Threads
  <2>. QED BY <1>2, <2>1 DEF RunnableEnds, Threads
<1>3. CASE /\ UNCHANGED <<pc, slot, body, ran>>
           /\ core # "running" /\ core' # "running"
  BY <1>3 DEF Threads
<1>4. CASE UNCHANGED <<pc, slot, body, ran, core>>
  BY <1>4 DEF Threads
<1>5. ASSUME NEW c \in Calls, Ready(c) PROVE Threads'
  <2>1. pc[c] = "idle" /\ slot[c] = 0 /\ ran[c] = 0 /\ UNCHANGED <<core, slot>>
    BY <1>5 DEF Ready, Slots, Threads
  <2>2. CASE pc' = [pc EXCEPT ![c] = "add"] /\ UNCHANGED <<body, ran>>
    BY <2>1, <2>2 DEF Threads
  <2>3. CASE /\ pc' = [pc EXCEPT ![c] = "running"] 
             /\ body' = [body EXCEPT ![c] = "run"] /\ ran' = [ran EXCEPT ![c] = @ + 1]
    BY <2>1, <2>3 DEF Threads
  <2>. QED BY <1>5, <2>2, <2>3 DEF Ready, Begin
<1>6. ASSUME NEW c \in Calls, AddBegins(c) PROVE Threads'
  BY <1>6 DEF AddBegins, Threads
<1>7. ASSUME NEW c \in Calls, AddGrows(c) PROVE Threads'
  BY <1>7, Grown DEF AddGrows, Threads
<1>8. ASSUME NEW c \in Calls, AddStores(c) PROVE Threads'
  BY <1>8 DEF AddStores, Slots, Threads
<1>9. ASSUME NEW c \in Calls, RunReturns(c) PROVE Threads'
  BY <1>9 DEF RunReturns, Threads
<1>10. ASSUME NEW c \in Calls, RunBody(c) PROVE Threads'
  <2>1. /\ UNCHANGED <<pc, slot, ran, core>> /\ body[c] # "off"
        /\ \E where \in {"scan", "scanning", "unlisten", "ended", "threw"} :
             body' = [body EXCEPT ![c] = where]
    BY <1>10 DEF RunBody, RunPlain, Listen, ScanBegins, ScanEnds, ScanThrows, Unlisten
  <2>. QED BY <2>1 DEF Threads
<1>. QED BY <1>1, <1>2, <1>3, <1>4, <1>5, <1>6, <1>7, <1>8, <1>9, <1>10
  DEF vars, Next, CoreStep, Call, Start, OnReady, ForEachBegins, Clear, RemoveListener

\* What forEach has run so far lies before the position it looks at.
Behind(c) == \/ core = "forEach" /\ slot[c] < next
             \/ core = "running" /\ slot[c] <= next
             \/ core \in {"clear", "remove", "gone"}

\* Without an exception in onReady, nothing but what forEach has passed has run.
Once ==
  ~aborted => \A c \in Calls :
                slot[c] # 0 /\ ran[c] # 0 => ran[c] = 1 /\ Behind(c)

\* No step without an exception starts a runnable that was started.
LEMMA OnceStep == ASSUME TypeInv, Slots, Threads, Once, [Next]_vars PROVE Once'
<1>. USE EmbedAssumption
     DEF EmbedAssumption, TypeInv, CoreType, CallType, BodyType, fields, coreVars,
         addVars, scanVars, runVars, raceVars, notBody, notCore, Goto, At
<1>. SUFFICES ASSUME ~aborted' PROVE Once'
  BY DEF Once
<1>1. ~aborted
  BY DEF vars, Next, CoreStep, Call, RunBody, Start, OnReady, ForEachBegins, ForEach,
         Abort, RunnableEnds, Clear, RemoveListener, Ready, AddBegins, AddGrows,
         AddStores, RunReturns, RunPlain, Listen, ScanBegins, ScanEnds, ScanThrows,
         Unlisten
<1>2. CASE ForEach
  <2>1. core = "forEach" /\ UNCHANGED <<slot, next>>
    BY <1>2 DEF ForEach
  <2>2. CASE core' = "clear" /\ UNCHANGED <<body, ran>>
    BY <1>1, <2>1, <2>2 DEF Once, Behind
  <2>3. ASSUME NEW c \in Calls, slot[c] = next, core' = "running",
               ran' = [ran EXCEPT ![c] = @ + 1]
        PROVE  Once'
    BY <1>1, <2>1, <2>3 DEF Once, Behind
  <2>. QED BY <1>2, <2>2, <2>3, ForEachRuns
<1>3. CASE RunnableEnds
  BY <1>1, <1>3 DEF RunnableEnds, Abort, Once, Behind
<1>4. CASE Start \/ OnReady \/ ForEachBegins
  BY <1>1, <1>4 DEF Start, OnReady, ForEachBegins, Once, Behind
<1>5. CASE Clear \/ RemoveListener
  BY <1>1, <1>5 DEF Clear, RemoveListener, Once, Behind
<1>6. ASSUME NEW c \in Calls, Ready(c) PROVE Once'
  BY <1>1, <1>6 DEF Ready, Begin, Slots, Once, Behind
<1>7. ASSUME NEW c \in Calls, AddGrows(c) PROVE Once'
  BY <1>1, <1>7, Grown DEF AddGrows, Threads, Once, Behind
<1>8. CASE UNCHANGED <<core, next, slot, ran>>
  BY <1>1, <1>8 DEF Once, Behind
<1>. QED BY <1>2, <1>3, <1>4, <1>5, <1>6, <1>7, <1>8
  DEF vars, Next, CoreStep, Call, RunBody, AddBegins, AddStores, RunReturns, RunPlain,
      Listen, ScanBegins, ScanEnds, ScanThrows, Unlisten

CallInv == Slots /\ Threads /\ Once

\* The three together are inductive, with the types.
LEMMA CallInvariant == Spec => []CallInv
<1>1. Init => CallInv
  BY EmbedAssumption
  DEF EmbedAssumption, Init, CallInv, Slots, Placed, Threads, Once
<1>2. TypeInv /\ CallInv /\ [Next]_vars => CallInv'
  BY SlotsStep, ThreadsStep, OnceStep DEF CallInv
<1>. QED BY <1>1, <1>2, TypeInvariant, PTL DEF Spec

\* A runnable is run a second time only when an exception has ended onReady.
THEOREM RunnablesRunOnce == Spec => []RunsOnce
<1>1. TypeInv /\ CallInv => RunsOnce
  BY DEF TypeInv, CallType, BodyType, CallInv, Slots, Threads, Once, RunsOnce
<1>. QED BY <1>1, TypeInvariant, CallInvariant, PTL

\* Threads inside add overlap unless one is alone there; with isReady set only
\* those that straddled onReady are on their way to add.
Overlaps ==
  /\ \A c \in Adding : c \in raced \/ Adding = {c}
  /\ isReady => \A c \in Calls : pc[c] \in {"add", "grow", "store"}
                                   => c \in straddled
  /\ ~isReady => core \in {"starting", "failed", "waiting"}

\* Every step keeps account of the calls that overlap and straddle.
LEMMA OverlapsStep == ASSUME TypeInv, Overlaps, [Next]_vars PROVE Overlaps'
<1>. USE EmbedAssumption
     DEF EmbedAssumption, TypeInv, CoreType, CallType, fields, coreVars, addVars,
         raceVars, notBody, notCore, Goto, At, Adding, Overlaps
<1>1. CASE UNCHANGED <<isReady, pc, raced, straddled>>
           /\ (core \in {"starting", "failed", "waiting"}
                 => core' \in {"starting", "failed", "waiting"})
  BY <1>1
<1>2. CASE OnReady
  BY <1>2 DEF OnReady
<1>3. CASE Clear
  BY <1>3 DEF Clear
<1>4. ASSUME NEW c \in Calls, Ready(c) PROVE Overlaps'
  BY <1>4 DEF Ready
<1>5. ASSUME NEW c \in Calls, AddBegins(c) PROVE Overlaps'
  BY <1>5 DEF AddBegins
<1>6. ASSUME NEW c \in Calls, AddGrows(c) PROVE Overlaps'
  BY <1>6 DEF AddGrows
<1>7. ASSUME NEW c \in Calls, AddStores(c) PROVE Overlaps'
  BY <1>7 DEF AddStores
<1>8. ASSUME NEW c \in Calls, RunReturns(c) PROVE Overlaps'
  BY <1>8 DEF RunReturns
<1>. QED BY <1>1, <1>2, <1>3, <1>4, <1>5, <1>6, <1>7, <1>8
  DEF vars, Next, CoreStep, Call, RunBody, Start, ForEachBegins, ForEach, Abort,
      RunnableEnds, RemoveListener, RunPlain, Listen, ScanBegins, ScanEnds,
      ScanThrows, Unlisten

\* A call whose add is over and neither overlapped another one nor straddled
\* onReady: its element stays where it is until the list is cleared, ...
Stays(c) ==
  /\ slot[c] \in DOMAIN list /\ list[slot[c]] = c
  /\ \A d \in Calls : pc[d] = "grow" => \A n \in sizes[d] : slot[c] <= n
  /\ \A d \in Calls : pc[d] = "store" => slot[c] < slot[d]

\* ... forEach meets it, and when it has passed it the runnable was started.
Met(c) ==
  /\ core \in {"forEach", "running"} => slot[c] \in DOMAIN array
                                        /\ array[slot[c]] = c
  /\ Behind(c) => ran[c] # 0

Kept ==
  \A c \in Calls :
    pc[c] = "done" /\ slot[c] # 0 /\ c \notin raced \cup straddled
      => (core \notin {"remove", "gone"} => Stays(c)) /\ Met(c)

\* Min is what its name says: a set of natural numbers has a least element.
LEMMA MinIsLeast ==
  ASSUME NEW S \in SUBSET Nat, S # {}
  PROVE  Min(S) \in S /\ \A n \in S : Min(S) <= n
<1>. DEFINE Less == {ss \in Nat \X Nat : ss[1] < ss[2]}
<1>1. IsWellFoundedOn(Less, Nat)
  BY NatLessThanWellFounded DEF OpToRel
<1>2. PICK m \in S : \A n \in S : <<n, m>> \notin Less
  BY <1>1, WFMin
<1>3. ASSUME NEW n \in S PROVE m <= n
  <2>1. <<n, m>> \in Nat \X Nat => ~(n < m)
    BY <1>2
  <2>. QED BY <2>1
<1>. QED BY <1>3 DEF Min

\* An add of another call leaves the element where it is.
LEMMA GrowKeeps ==
  ASSUME TypeInv, NEW c \in Calls, NEW d \in Calls, c # d, Stays(c), AddGrows(d)
  PROVE  Stays(c)'
<1>. USE DEF TypeInv, ListType, CallType
<1>1. PICK n \in sizes[d] :
        /\ slot' = [slot EXCEPT ![d] = n + 1]
        /\ \A i \in DOMAIN list : i <= Min(sizes[d]) /\ i <= n + 1
                                   => i \in DOMAIN list' /\ list'[i] = list[i]
        /\ sizes' = [e \in Calls |->
                       sizes[e] \cup IF pc[e] = "grow" THEN {n + 1} ELSE {}]
  BY Grown
<1>2. pc[d] = "grow" /\ pc' = [pc EXCEPT ![d] = "store"]
  BY DEF AddGrows, Goto
<1>3. /\ slot[c] \in DOMAIN list /\ list[slot[c]] = c
      /\ \A n1 \in sizes[d] : slot[c] <= n1
  BY <1>2 DEF Stays
<1>4. slot[c] <= Min(sizes[d])
  <2>1. Min(sizes[d]) \in sizes[d]
    BY <1>1, MinIsLeast
  <2>. QED BY <1>3, <2>1
<1>5. slot[c] \in DOMAIN list' /\ list'[slot[c]] = c /\ slot'[c] = slot[c]
  BY <1>1, <1>3, <1>4
<1>6. \A e \in Calls : pc'[e] = "grow" => \A n1 \in sizes'[e] : slot'[c] <= n1
  BY <1>1, <1>2, <1>3, <1>5 DEF Stays
<1>7. \A e \in Calls : pc'[e] = "store" => slot'[c] < slot'[e]
  BY <1>1, <1>2, <1>3, <1>5 DEF Stays
<1>. QED BY <1>5, <1>6, <1>7 DEF Stays

\* No step of another call or of the core takes away the element of such a call
\* before forEach has met it.
LEMMA KeptStep ==
  ASSUME TypeInv, CallInv, Overlaps, Kept, [Next]_vars
  PROVE  Kept'
<1>. USE EmbedAssumption
     DEF EmbedAssumption, TypeInv, ListType, CoreType, CallType, BodyType, PastType,
         fields, coreVars, addVars, scanVars, runVars, raceVars, notBody, notCore,
         Goto, At
<1>. SUFFICES ASSUME NEW c \in Calls, pc'[c] = "done", slot'[c] # 0,
                     c \notin raced' \cup straddled'
              PROVE  /\ core' \notin {"remove", "gone"} => Stays(c)'
                     /\ Met(c)'
  BY DEF Kept
<1>1. c \notin raced \cup straddled
  BY DEF vars, Next, CoreStep, Call, RunBody, Start, OnReady, ForEachBegins, ForEach,
         RunnableEnds, Clear, RemoveListener, Ready, AddBegins, AddGrows, AddStores,
         RunReturns, RunPlain, Listen, ScanBegins, ScanEnds, ScanThrows, Unlisten
<1>2. CASE AddStores(c)
  <2>1. Adding = {c} /\ core \in {"starting", "failed", "waiting"}
    BY <1>1, <1>2 DEF AddStores, Overlaps, Adding
  <2>2. slot[c] \in DOMAIN list /\ list' = [list EXCEPT ![slot[c]] = c]
    BY <1>1, <1>2 DEF AddStores
  <2>3. \A d \in Calls : pc'[d] \notin {"grow", "store"}
    BY <1>2, <2>1 DEF AddStores, Adding
  <2>4. slot'[c] \in DOMAIN list' /\ list'[slot'[c]] = c
    BY <1>2, <2>2 DEF AddStores
  <2>. QED BY <1>2, <2>1, <2>3, <2>4 DEF AddStores, Stays, Met, Behind
<1>3. CASE ~AddStores(c)
  <2>1. pc[c] = "done" /\ slot'[c] = slot[c]
    <3>1. CASE \E d \in Calls : AddGrows(d)
      BY <3>1, Grown DEF AddGrows
    <3>2. CASE \E d \in Calls : RunReturns(d)
      BY <3>2 DEF RunReturns, CallInv, Slots
    <3>. QED BY <1>3, <3>1, <3>2
      DEF vars, Next, CoreStep, Call, RunBody, Start, OnReady, ForEachBegins, ForEach,
          RunnableEnds, Clear, RemoveListener, Ready, AddBegins, AddStores, RunPlain,
          Listen, ScanBegins, ScanEnds, ScanThrows, Unlisten
  <2>2. (core \notin {"remove", "gone"} => Stays(c)) /\ Met(c)
    BY <1>1, <2>1 DEF Kept
  <2>3. CASE UNCHANGED <<list, sizes, slot, pc, core, array, next, ran>>
    BY <2>2, <2>3 DEF Stays, Met, Behind
  <2>4. ASSUME NEW d \in Calls, AddBegins(d)
        PROVE  (core' \notin {"remove", "gone"} => Stays(c)') /\ Met(c)'
    BY <2>1, <2>2, <2>4 DEF AddBegins, Stays, Met, Behind
  <2>5. ASSUME NEW d \in Calls, AddGrows(d)
        PROVE  (core' \notin {"remove", "gone"} => Stays(c)') /\ Met(c)'
    <3>1. c # d
      BY <2>1, <2>5 DEF AddGrows
    <3>. QED BY <2>1, <2>2, <2>5, <3>1, GrowKeeps DEF AddGrows, Met, Behind
  <2>6. ASSUME NEW d \in Calls, AddStores(d)
        PROVE  (core' \notin {"remove", "gone"} => Stays(c)') /\ Met(c)'
    <3>1. UNCHANGED <<core, slot, sizes, array, next, ran>> /\ pc[d] = "store"
          /\ pc' = [pc EXCEPT ![d] = "done"]
      BY <2>6 DEF AddStores
    <3>2. CASE core \notin {"remove", "gone"}
      <4>1. slot[c] < slot[d] /\ slot[c] \in DOMAIN list /\ list[slot[c]] = c
        BY <2>2, <3>1, <3>2 DEF Stays
      <4>2. slot[c] \in DOMAIN list' /\ list'[slot[c]] = c
        BY <2>6, <4>1 DEF AddStores
      <4>. QED BY <2>2, <3>1, <3>2, <4>2 DEF Stays, Met, Behind
    <3>. QED BY <2>2, <3>1, <3>2 DEF Met, Behind
  <2>7. CASE ForEachBegins
    BY <2>1, <2>2, <2>7 DEF ForEachBegins, Stays, Met, Behind
  <2>8. CASE ForEach
    <3>1. /\ core = "forEach" /\ UNCHANGED <<list, sizes, slot, pc, array, next>>
          /\ core' \in {"waiting", "clear", "running"}
      BY <2>8, ForEachRuns DEF CallInv, ForEach
    <3>2. Stays(c)'
      BY <2>2, <3>1 DEF Stays
    <3>3. CASE core' = "waiting"
      BY <3>2, <3>3 DEF Met, Behind
    <3>4. CASE core' = "clear" /\ next > Len(array) /\ UNCHANGED ran
      <4>1. slot[c] < next
        BY <2>2, <3>1, <3>4 DEF Met
      <4>. QED BY <2>2, <3>1, <3>2, <3>4, <4>1 DEF Met, Behind
    <3>5. ASSUME NEW d \in Elements, d \in Calls, next \in DOMAIN array,
                 core' = "running", ran' = [ran EXCEPT ![d] = @ + 1]
          PROVE  (core' \notin {"remove", "gone"} => Stays(c)') /\ Met(c)'
      <4>1. slot[c] = next => d = c
        BY <2>2, <3>1 DEF Elements, Stays, Met
      <4>2. slot[c] <= next => ran'[c] # 0
        BY <2>2, <3>1, <3>5, <4>1 DEF Met, Behind
      <4>. QED BY <2>2, <3>1, <3>2, <3>5, <4>2 DEF Met, Behind
    <3>. QED BY <2>8, <3>3, <3>4, <3>5, ForEachRuns DEF CallInv
  <2>9. CASE RunnableEnds
    BY <2>1, <2>2, <2>9 DEF RunnableEnds, Abort, Stays, Met, Behind
  <2>10. CASE Clear \/ RemoveListener
    BY <2>1, <2>2, <2>10 DEF Clear, RemoveListener, Met, Behind
  <2>11. CASE Start \/ OnReady
    BY <2>1, <2>2, <2>11 DEF Start, OnReady, Stays, Met, Behind
  <2>12. ASSUME NEW d \in Calls, Ready(d) \/ RunReturns(d)
         PROVE  (core' \notin {"remove", "gone"} => Stays(c)') /\ Met(c)'
    <3>1. /\ UNCHANGED <<list, sizes, slot, core, array, next>>
          /\ pc' = [pc EXCEPT ![d] = pc'[d]] /\ pc'[d] \notin {"grow", "store"}
          /\ ran[c] # 0 => ran'[c] # 0
      BY <2>12 DEF Ready, Begin, RunReturns
    <3>. QED BY <2>1, <2>2, <3>1 DEF Stays, Met, Behind
  <2>. QED BY <2>3, <2>4, <2>5, <2>6, <2>7, <2>8, <2>9, <2>10, <2>11, <2>12
    DEF vars, Next, CoreStep, Call, RunBody, RunPlain, Listen, ScanBegins, ScanEnds,
        ScanThrows, Unlisten
<1>. QED BY <1>2, <1>3

ReadyInv == Overlaps /\ Kept

\* What becomes of the elements is inductive, with where they are.
LEMMA ReadyInvariant == Spec => []ReadyInv
<1>1. Init => ReadyInv
  BY DEF Init, ReadyInv, Overlaps, Adding, Kept
<1>2. TypeInv /\ CallInv /\ ReadyInv /\ [Next]_vars => ReadyInv'
  BY OverlapsStep, KeptStep DEF ReadyInv
<1>. QED BY <1>1, <1>2, TypeInvariant, CallInvariant, PTL DEF Spec

\* Once onReady has come to its end, a runnable is lost only when the call that
\* handed it over straddled the beginning of onReady or overlapped another one.
THEOREM NothingElseIsLost == Spec => []LostOnlyInARace
<1>1. TypeInv /\ CallInv /\ ReadyInv => LostOnlyInARace
  BY DEF TypeInv, CallType, BodyType, CallInv, Slots, Threads, ReadyInv, Kept, Met,
         Behind, LostOnlyInARace
<1>. QED BY <1>1, TypeInvariant, CallInvariant, ReadyInvariant, PTL

\* Nobody who was on his way to add as onReady began changes the modCount below
\* forEach, ...
Steady == straddled = {} /\ core \in {"forEach", "running"} => mods = count

\* ... and where no adds have overlapped either, the only unfilled element is that
\* of a call that is going to store it, and forEach has none.
Filled ==
  raced = {} /\ straddled = {} =>
    /\ \A c \in Calls : pc[c] = "grow" => sizes[c] = {Len(list)}
    /\ \A i \in DOMAIN list : list[i] = None => \E c \in Calls : pc[c] = "store" /\ slot[c] = i
    /\ core \in {"forEach", "running"} =>
         \A i \in DOMAIN array \cup DOMAIN list :
           /\ i \in DOMAIN array => array[i] # None
           /\ i \in DOMAIN list => list[i] # None

\* The modCount changes below forEach only by a call that straddled onReady.
LEMMA SteadyStep == ASSUME TypeInv, Overlaps, Steady, [Next]_vars PROVE Steady'
<1>. USE EmbedAssumption
     DEF EmbedAssumption, fields, coreVars, addVars, scanVars, runVars, raceVars, notBody, notCore,
         Goto, At, Steady
<1>1. ASSUME NEW c \in Calls, AddGrows(c) PROVE Steady'
  BY <1>1 DEF AddGrows, Overlaps
<1>2. CASE ForEach
  BY <1>2 DEF ForEach, Abort
<1>3. CASE RunnableEnds
  BY <1>3 DEF RunnableEnds, Abort
<1>4. CASE ForEachBegins \/ Clear \/ OnReady
  BY <1>4 DEF ForEachBegins, Clear, OnReady
<1>. QED BY <1>1, <1>2, <1>3, <1>4
  DEF vars, Next, CoreStep, Call, RunBody, Start, RemoveListener, Ready, AddBegins, AddStores,
      RunReturns, RunPlain, Listen, ScanBegins, ScanEnds, ScanThrows, Unlisten

\* A call that is alone with the list fills what it has added.
LEMMA FilledStep == ASSUME TypeInv, CallInv, Overlaps, Filled, [Next]_vars PROVE Filled'
<1>. USE EmbedAssumption
     DEF EmbedAssumption, TypeInv, ListType, CoreType, CallType, PastType, fields, coreVars, addVars,
         scanVars, runVars, raceVars, notBody, notCore, Goto, At
<1>. SUFFICES ASSUME raced' = {}, straddled' = {} PROVE Filled'
  BY DEF Filled
<1>1. raced = {} /\ straddled = {}
  BY DEF vars, Next, CoreStep, Call, RunBody, Start, OnReady, ForEachBegins, ForEach, RunnableEnds,
         Clear, RemoveListener, Ready, AddBegins, AddGrows, AddStores, RunReturns, RunPlain, Listen,
         ScanBegins, ScanEnds, ScanThrows, Unlisten
<1>2. /\ \A c \in Calls : pc[c] = "grow" => sizes[c] = {Len(list)}
      /\ \A i \in DOMAIN list : list[i] = None => \E c \in Calls : pc[c] = "store" /\ slot[c] = i
      /\ core \in {"forEach", "running"} =>
           \A i \in DOMAIN array \cup DOMAIN list :
             /\ i \in DOMAIN array => array[i] # None
             /\ i \in DOMAIN list => list[i] # None
      /\ \A c \in Calls : pc[c] \in {"grow", "store"} => Adding = {c}
      /\ core \notin {"starting", "failed", "waiting"} =>
           \A c \in Calls : pc[c] \notin {"add", "grow", "store"}
  BY <1>1 DEF Filled, Overlaps, Adding
<1>3. CASE UNCHANGED <<list, pc, slot, sizes, array>> /\ (core' \in {"forEach", "running"} => core \in {"forEach", "running"})
  BY <1>2, <1>3 DEF Filled
<1>4. CASE ForEachBegins
  BY <1>2, <1>4 DEF ForEachBegins, Filled
<1>5. CASE Clear
  BY <1>2, <1>5 DEF Clear, Resize, Filled
<1>6. ASSUME NEW c \in Calls, Ready(c) \/ RunReturns(c) PROVE Filled'
  BY <1>2, <1>6, SMTT(30) DEF Ready, RunReturns, Filled
<1>7. ASSUME NEW c \in Calls, AddBegins(c) PROVE Filled'
  <2>1. Adding = {}
    BY <1>7 DEF AddBegins
  <2>2. \A d \in Calls \ {c} : pc'[d] # "grow"
    BY <1>7, <2>1 DEF AddBegins, Adding
  <2>. QED BY <1>2, <1>7, <2>2 DEF AddBegins, Filled
<1>8. ASSUME NEW c \in Calls, AddGrows(c) PROVE Filled'
  <2>1. pc[c] = "grow" /\ pc' = [pc EXCEPT ![c] = "store"] /\ UNCHANGED <<core, array>>
    BY <1>8 DEF AddGrows
  <2>2. \A d \in Calls \ {c} : pc[d] \notin {"grow", "store"}
    BY <1>2, <2>1 DEF Adding
  <2>3. PICK n \in sizes[c] :
          /\ slot' = [slot EXCEPT ![c] = n + 1]
          /\ \A i \in DOMAIN list : i <= Min(sizes[c]) /\ i <= n + 1
                                     => i \in DOMAIN list' /\ list'[i] = list[i]
          /\ Len(list') = n + 1
    BY <1>8, Grown
  <2>4. n = Len(list) /\ Min(sizes[c]) = Len(list)
    <3>1. sizes[c] = {Len(list)} /\ sizes[c] \in SUBSET Nat
      BY <1>2, <2>1
    <3>. QED BY <2>3, <3>1, MinIsLeast
  <2>5. \A i \in DOMAIN list' : list'[i] = None => i = slot'[c]
    <3>1. list' \in Seq(Calls \cup {None})
      BY <1>8, GrowType
    <3>2. \A i \in DOMAIN list : list[i] # None
      BY <1>2, <2>1, <2>2
    <3>3. DOMAIN list' = 1..Len(list) + 1 /\ DOMAIN list = 1..Len(list)
      BY <2>3, <2>4, <3>1
    <3>4. slot'[c] = Len(list) + 1
      BY <2>3, <2>4
    <3>. QED BY <2>3, <2>4, <3>2, <3>3, <3>4
  <2>6. core' \notin {"forEach", "running"}
    BY <1>2, <2>1
  <2>. QED BY <2>1, <2>2, <2>5, <2>6 DEF Filled
<1>9. ASSUME NEW c \in Calls, AddStores(c) PROVE Filled'
  <2>1. /\ pc[c] = "store" /\ pc' = [pc EXCEPT ![c] = "done"] /\ UNCHANGED <<core, slot, array>>
        /\ slot[c] \in DOMAIN list /\ list' = [list EXCEPT ![slot[c]] = c]
    BY <1>1, <1>9 DEF AddStores
  <2>2. \A d \in Calls \ {c} : pc[d] \notin {"grow", "store"}
    BY <1>2, <2>1 DEF Adding
  <2>3. \A i \in DOMAIN list' : list'[i] # None
    BY <1>2, <2>1, <2>2
  <2>4. core' \notin {"forEach", "running"}
    BY <1>2, <2>1
  <2>. QED BY <2>1, <2>2, <2>3, <2>4 DEF Filled
<1>10. CASE RunnableEnds
  BY <1>2, <1>10 DEF RunnableEnds, Abort, Filled
<1>11. CASE ForEach
  BY <1>2, <1>11 DEF ForEach, Abort, Filled
<1>. QED BY <1>3, <1>4, <1>5, <1>6, <1>7, <1>8, <1>9, <1>10, <1>11
  DEF vars, Next, CoreStep, Call, RunBody, Start, OnReady, RemoveListener, RunPlain, Listen,
      ScanBegins, ScanEnds, ScanThrows, Unlisten

\* Both are inductive, with where the calls are.
LEMMA FilledInvariant == Spec => [](Steady /\ Filled)
<1>1. Init => Steady /\ Filled
  BY DEF Init, Steady, Filled
<1>2. TypeInv /\ CallInv /\ ReadyInv /\ Steady /\ Filled /\ [Next]_vars => (Steady /\ Filled)'
  BY SteadyStep, FilledStep DEF ReadyInv
<1>. QED BY <1>1, <1>2, TypeInvariant, CallInvariant, ReadyInvariant, PTL DEF Spec

\* For any number of calls, nothing but a race stops forEach by itself.
THEOREM OnlyRacesBreakForEach == Spec => IterationBreaksInARace
<1>1. TypeInv /\ ReadyInv /\ Steady /\ Filled /\ [Next]_vars =>
        [core = "forEach" /\ core' = "waiting" => straddled # {} \/ (mods = count /\ raced # {})]_vars
  <2>. SUFFICES ASSUME TypeInv, Steady, Filled, [Next]_vars, core = "forEach", core' = "waiting",
                       straddled = {}
                PROVE  mods = count /\ raced # {}
    OBVIOUS
  <2>1. ForEach /\ mods = count
    BY DEF Steady, At, vars, fields, coreVars, addVars, raceVars, notBody, notCore, Next, CoreStep,
           Call, RunBody, Start, OnReady, ForEachBegins, RunnableEnds, Clear, RemoveListener, Ready,
           AddBegins, AddGrows, AddStores, RunReturns, RunPlain, Listen, ScanBegins, ScanEnds,
           ScanThrows, Unlisten
  <2>2. next \in DOMAIN array /\ None \in Elements
    BY <2>1 DEF ForEach, At, TypeInv, CoreType
  <2>. QED BY <2>1, <2>2 DEF Filled, Elements
<1>. QED BY <1>1, TypeInvariant, ReadyInvariant, FilledInvariant, PTL DEF Spec, IterationBreaksInARace

\* The listeners that are registered belong to scans that run or have thrown;
\* scans that run at the same time have mingled.
Listeners ==
  /\ listening \subseteq Running \cup threw
  /\ \A c, d \in Running : c # d => c \in mingled

ScanInv == Listeners /\ HearsOwnScan

\* The scans that run are threads of their own: nobody starts their runnable anew.
LEMMA RunningStep ==
  ASSUME TypeInv, CallInv, [Next]_vars
  PROVE  \/ UNCHANGED <<scanVars, Running>>
         \/ \E c \in Calls : Listen(c) \/ ScanEnds(c) \/ ScanThrows(c) \/ Unlisten(c)
         \/ \E c \in Calls : ScanBegins(c)
<1>. USE DEF TypeInv, BodyType, CallType, fields, coreVars, addVars, scanVars, runVars,
             raceVars, notBody, notCore, Goto, Body
<1>1. CASE ForEach
  <2>1. \A c \in Calls : pc[c] # "running" => body[c] = "off"
    BY <1>1 DEF ForEach, CallInv, Threads
  <2>2. UNCHANGED scanVars
    BY <1>1 DEF ForEach, Abort, Begin
  <2>3. UNCHANGED Running
    BY EmbedAssumption, <2>1, ForEachRuns, <1>1 DEF CallInv, Running, EmbedAssumption
  <2>. QED BY <2>2, <2>3
<1>2. CASE RunnableEnds
  <2>1. UNCHANGED Running
    BY EmbedAssumption, <1>2 DEF RunnableEnds, Running, EmbedAssumption
  <2>. QED BY <1>2, <2>1 DEF RunnableEnds
<1>3. ASSUME NEW c \in Calls, Ready(c)
      PROVE  UNCHANGED <<scanVars, Running>>
  <2>1. body[c] = "off"
    BY <1>3 DEF Ready, CallInv, Threads
  <2>2. UNCHANGED Running
    BY EmbedAssumption, <1>3, <2>1 DEF Ready, Begin, Running, EmbedAssumption
  <2>. QED BY <1>3, <2>2 DEF Ready, Begin
<1>4. ASSUME NEW c \in Calls, RunReturns(c) \/ RunPlain(c)
      PROVE  UNCHANGED <<scanVars, Running>>
  <2>1. UNCHANGED Running
    BY EmbedAssumption, <1>4 DEF RunReturns, RunPlain, Running, EmbedAssumption
  <2>. QED BY <1>4, <2>1 DEF RunReturns, RunPlain
<1>5. CASE UNCHANGED <<body, scanVars>>
  BY <1>5 DEF Running
<1>. QED BY <1>1, <1>2, <1>3, <1>4, <1>5
  DEF vars, Next, CoreStep, Call, RunBody, Start, OnReady, ForEachBegins, Clear,
      RemoveListener, AddBegins, AddGrows, AddStores

\* No step lets a listener hear what it should not.
LEMMA ScanStep ==
  ASSUME TypeInv, CallInv, ScanInv, [Next]_vars
  PROVE  ScanInv'
<1>. USE EmbedAssumption
     DEF EmbedAssumption, TypeInv, BodyType, ScanType, scanVars, Body, ScanInv, Listeners,
         HearsOwnScan
<1>1. CASE UNCHANGED <<scanVars, Running>>
  BY <1>1
<1>2. ASSUME NEW c \in Calls, Listen(c) PROVE ScanInv'
  <2>1. Running' = Running \cup {c} /\ c \notin Running
    BY <1>2 DEF Listen, Running
  <2>. QED BY <1>2, <2>1 DEF Listen
<1>3. ASSUME NEW c \in Calls, ScanBegins(c) PROVE ScanInv'
  <2>1. Running' = Running
    BY <1>3 DEF ScanBegins, Running
  <2>. QED BY <1>3, <2>1 DEF ScanBegins
<1>4. ASSUME NEW c \in Calls, ScanEnds(c) PROVE ScanInv'
  <2>1. Running' = Running /\ c \in Running
    BY <1>4 DEF ScanEnds, Running
  <2>. QED BY <1>4, <2>1 DEF ScanEnds
<1>5. ASSUME NEW c \in Calls, ScanThrows(c) PROVE ScanInv'
  <2>1. Running' = Running \ {c} /\ c \in Running
    BY <1>5 DEF ScanThrows, Running
  <2>. QED BY <1>5, <2>1 DEF ScanThrows
<1>6. ASSUME NEW c \in Calls, Unlisten(c) PROVE ScanInv'
  <2>1. Running' = Running \ {c} /\ c \in Running
    BY <1>6 DEF Unlisten, Running
  <2>. QED BY <1>6, <2>1 DEF Unlisten
<1>. QED BY <1>1, <1>2, <1>3, <1>4, <1>5, <1>6, RunningStep

\* The listener of a scan hears of another thread's blocks only when the two
\* overlapped or a scan threw and left its listener behind.
THEOREM ListenersHearTheirOwn == Spec => []HearsOwnScan
<1>1. Init => ScanInv
  BY EmbedAssumption
  DEF EmbedAssumption, Init, ScanInv, Listeners, Running, HearsOwnScan
<1>2. TypeInv /\ CallInv /\ ScanInv /\ [Next]_vars => ScanInv'
  BY ScanStep
<1>3. ScanInv => HearsOwnScan
  BY DEF ScanInv
<1>. QED BY <1>1, <1>2, <1>3, TypeInvariant, CallInvariant, PTL DEF Spec

(***************************************************************************)
(* The setup, for seeds and directories of any size.                       *)
(***************************************************************************)
\* The state keeps its types, and the file is empty while it is being written.
THEOREM SeedTypeCorrect == SeedSpec => []SeedTypeOK
<1>1. SeedInit => SeedTypeOK
  BY DEF SeedInit, SeedTypeOK, ScanFlags
<1>2. SeedTypeOK /\ [SeedNext]_seedVars => SeedTypeOK'
  <2>. SUFFICES ASSUME SeedTypeOK, [SeedNext]_seedVars PROVE SeedTypeOK'
    OBVIOUS
  <2>. USE DEF SeedTypeOK, ScanFlags, disk, storeVars, builder
  <2>1. CASE SetupBegins
    BY <2>1 DEF SetupBegins
  <2>2. CASE InSetup /\ Throw
    BY <2>2 DEF Throw, InSetup
  <2>3. CASE DeleteArtifacts
    BY <2>3 DEF DeleteArtifacts
  <2>4. CASE DeleteDb
    BY <2>4 DEF DeleteDb
  <2>5. CASE DeleteBlockchain
    BY <2>5 DEF DeleteBlockchain
  <2>6. CASE Copy
    BY <2>6 DEF Copy
  <2>7. CASE Load
    BY <2>7 DEF Load
  <2>8. CASE Open
    BY <2>8 DEF Open
  <2>9. CASE Write
    BY <2>9 DEF Write
  <2>10. CASE CoreRuns
    BY <2>10 DEF CoreRuns
  <2>11. CASE Crash
    BY <2>11 DEF Crash
  <2>12. CASE UNCHANGED seedVars
    BY <2>12 DEF seedVars
  <2>. QED
    BY <2>1, <2>2, <2>3, <2>4, <2>5, <2>6, <2>7, <2>8, <2>9, <2>10, <2>11, <2>12
    DEF SeedNext, SetupStep
<1>. QED BY <1>1, <1>2, PTL DEF SeedSpec

(***************************************************************************)
(* The setup works through the directories in order: what is behind it is  *)
(* done, whatever an earlier start that failed or died had left.           *)
(***************************************************************************)
InOrder ==
  /\ setup \in {"db", "blockchain", "copy", "load", "open", "write"}
       => artifacts = {}
  /\ setup \in {"blockchain", "copy", "load", "open", "write"} => db = {}
  /\ setup \in {"copy", "load", "open", "write"} => blockchain \subseteq SeedFiles
  /\ setup \in {"load", "open", "write"} => blockchain = SeedFiles

SeedInv == InOrder /\ StartsOnSeed /\ NoMixture /\ NoStaleTables

LEMMA SeedInvariant == SeedSpec => []SeedInv
<1>. USE SeedAssumption DEF SeedAssumption
<1>1. SeedInit => SeedInv
  BY DEF SeedInit, SeedInv, InOrder, StartsOnSeed, NoMixture, NoStaleTables
<1>2. SeedInv /\ [SeedNext]_seedVars => SeedInv'
  <2>. SUFFICES ASSUME SeedInv, [SeedNext]_seedVars PROVE SeedInv'
    OBVIOUS
  <2>. USE DEF SeedInv, InOrder, StartsOnSeed, NoMixture, NoStaleTables, disk,
               storeVars, builder
  <2>1. CASE SetupBegins
    BY <2>1 DEF SetupBegins
  <2>2. CASE InSetup /\ Throw
    BY <2>2 DEF Throw, InSetup
  <2>3. CASE DeleteArtifacts
    BY <2>3 DEF DeleteArtifacts
  <2>4. CASE DeleteDb
    BY <2>4 DEF DeleteDb
  <2>5. CASE DeleteBlockchain
    BY <2>5 DEF DeleteBlockchain
  <2>6. CASE Copy
    BY <2>6 DEF Copy
  <2>7. CASE Load
    BY <2>7 DEF Load
  <2>8. CASE Open
    BY <2>8 DEF Open
  <2>9. CASE Write
    BY <2>9 DEF Write
  <2>10. CASE CoreRuns
    BY <2>10 DEF CoreRuns
  <2>11. CASE Crash
    BY <2>11 DEF Crash
  <2>12. CASE UNCHANGED seedVars
    BY <2>12 DEF seedVars
  <2>. QED
    BY <2>1, <2>2, <2>3, <2>4, <2>5, <2>6, <2>7, <2>8, <2>9, <2>10, <2>11, <2>12
    DEF SeedNext, SetupStep
<1>. QED BY <1>1, <1>2, PTL DEF SeedSpec

\* A start without an exception hands the core the whole seed and nothing else,
\* whatever earlier starts left behind.
THEOREM SeedIsWhole == SeedSpec => []StartsOnSeed
<1>1. SeedInv => StartsOnSeed
  BY DEF SeedInv
<1>. QED BY <1>1, SeedInvariant, PTL

\* No failure and no crash leaves a mixture of two chains.
THEOREM ChainsDoNotMix == SeedSpec => []NoMixture
<1>1. SeedInv => NoMixture
  BY DEF SeedInv
<1>. QED BY <1>1, SeedInvariant, PTL

\* No failure and no crash leaves old tables beside the seed.
THEOREM TablesGoFirst == SeedSpec => []NoStaleTables
<1>1. SeedInv => NoStaleTables
  BY DEF SeedInv
<1>. QED BY <1>1, SeedInvariant, PTL

===============================================================================
