--------------------------------- MODULE Embed ---------------------------------
(***************************************************************************)
(* Embed.ready and Embed.scan: application threads hand over work that is  *)
(* to be done once the blockchain is ready.  Until then it is kept in an   *)
(* ArrayList; the listener onReady sets isReady and works the list off on  *)
(* a thread of the HEAT core; later callers do their work themselves.      *)
(* Neither isReady nor the list is guarded by a lock, so an add is split   *)
(* where another thread can step in, as in BundleHandlerResponseCollector. *)
(*                                                                         *)
(* The core is external: it calls init's callback once, then fires         *)
(* BLOCKCHAIN_READY, perhaps more than once while somebody listens; a      *)
(* full scan is made by one thread at a time and tells every listener of   *)
(* BLOCK_SCANNED about its blocks.                                         *)
(***************************************************************************)
EXTENDS Naturals, Sequences, FiniteSetsExt

CONSTANTS
  Calls,     \* calls of ready or scan, each on its own application thread
  Scans,     \* those that are calls of scan
  MaxEvents, \* bound: how often the core fires BLOCKCHAIN_READY
  None       \* null

ASSUME EmbedAssumption ==
  /\ Scans \subseteq Calls
  /\ None \notin Calls
  /\ MaxEvents \in Nat

VARIABLES
  isReady,   \* the field
  list,      \* readyRunnables: each is named by the call that made it
  mods,      \* its modCount
  core,      \* where the core's thread is
  next,      \* forEach: the index it looks at
  array,     \* forEach: the elements it began with
  count,     \* forEach: the modCount it began with
  events,    \* how often BLOCKCHAIN_READY was fired
  pc,        \* call -> where it is
  sizes,     \* call -> the sizes the list has had since its add began
  counts,    \* call -> the modCounts it has had since then
  slot,      \* call -> the position its add stores to
  body,      \* call -> where its runnable is, "off" when it does not run
  ran,       \* call -> how often its runnable was started
  listening, \* the scan calls whose listener is registered
  scanner,   \* the scan call whose scan is going on, or None
  heard      \* scan call -> the scans whose blocks its listener was told of

VARIABLES    \* history
  raced,     \* calls whose add overlapped a change of the list
  straddled, \* calls that were on their way to add when onReady began
  aborted,   \* has an exception ended onReady
  threw,     \* scan calls whose scan ended with an exception
  mingled    \* scan calls that ran while another one did

fields == <<isReady, list, mods>>
coreVars == <<core, next, array, count, events>>
addVars == <<sizes, counts, slot>>
scanVars == <<listening, scanner, heard, threw, mingled>>
runVars == <<body, ran, scanVars>>
raceVars == <<raced, straddled>>
vars == <<fields, coreVars, pc, addVars, runVars, raceVars, aborted>>

TypeOK ==
  /\ isReady \in BOOLEAN
  /\ list \in Seq(Calls \cup {None})
  /\ mods \in Nat
  /\ core \in {"starting", "failed", "waiting", "begin", "forEach", "running",
               "clear", "remove", "gone"}
  /\ next \in Nat \ {0} /\ count \in Nat
  /\ array \in Seq(Calls \cup {None})
  /\ events \in 0..MaxEvents
  /\ pc \in [Calls -> {"idle", "add", "grow", "store", "running", "done"}]
  /\ sizes \in [Calls -> SUBSET Nat] /\ counts \in [Calls -> SUBSET Nat]
  /\ slot \in [Calls -> Nat]
  /\ body \in [Calls -> {"off", "run", "scan", "scanning", "unlisten", "ended",
                         "threw"}]
  /\ ran \in [Calls -> Nat]
  /\ listening \in SUBSET Scans
  /\ scanner \in Scans \cup {None}
  /\ heard \in [Scans -> SUBSET Scans]
  /\ raced \in SUBSET Calls /\ straddled \in SUBSET Calls
  /\ aborted \in BOOLEAN
  /\ threw \in SUBSET Scans /\ mingled \in SUBSET Scans

Init ==
  /\ isReady = FALSE
  /\ list = << >>
  /\ mods = 0
  /\ core = "starting"
  /\ next = 1 /\ array = << >> /\ count = 0
  /\ events = 0
  /\ pc = [c \in Calls |-> "idle"]
  /\ sizes = [c \in Calls |-> {}]
  /\ counts = [c \in Calls |-> {}]
  /\ slot = [c \in Calls |-> 0]
  /\ body = [c \in Calls |-> "off"]
  /\ ran = [c \in Calls |-> 0]
  /\ listening = {}
  /\ scanner = None
  /\ heard = [c \in Scans |-> {}]
  /\ raced = {} /\ straddled = {}
  /\ aborted = FALSE
  /\ threw = {} /\ mingled = {}

Goto(c, label) == pc' = [pc EXCEPT ![c] = label]
Body(c, label) == body' = [body EXCEPT ![c] = label]

\* Somebody calls run() on the runnable of c.
Begin(c) ==
  /\ Body(c, "run")
  /\ ran' = [ran EXCEPT ![c] = @ + 1]
  /\ UNCHANGED scanVars

-------------------------------------------------------------------------------
(***************************************************************************)
(* The application's threads.                                              *)
(***************************************************************************)

\* The if statement of ready.
Ready(c) ==
  /\ pc[c] = "idle"
  /\ \/ isReady /\ Goto(c, "running") /\ Begin(c)
     \/ ~isReady /\ Goto(c, "add") /\ UNCHANGED runVars
  /\ UNCHANGED <<fields, coreVars, addVars, raceVars, aborted>>

\* The calls that are inside add.
Adding == {d \in Calls : pc[d] \in {"grow", "store"}}

\* The list gets a new size and modCount, which calls inside add may read.
Resize(new, m) ==
  /\ list' = new
  /\ mods' = m
  /\ sizes' = [d \in Calls |-> IF pc[d] = "grow" THEN sizes[d] \cup {Len(new)}
                                ELSE sizes[d]]
  /\ counts' = [d \in Calls |-> IF pc[d] = "grow" THEN counts[d] \cup {m}
                                 ELSE counts[d]]

\* add is called.  Adds that are under way overlap with this one.
AddBegins(c) ==
  /\ pc[c] = "add"
  /\ Goto(c, "grow")
  /\ sizes' = [sizes EXCEPT ![c] = {Len(list)}]
  /\ counts' = [counts EXCEPT ![c] = {mods}]
  /\ raced' = IF Adding = {} THEN raced ELSE raced \cup Adding \cup {c}
  /\ UNCHANGED <<fields, coreVars, slot, runVars, straddled, aborted>>

\* modCount and the size go up and the array is replaced when it is full.  This
\* thread may have read a size and a modCount from before the changes of
\* overlapping calls, and its copy of the array may lack their elements.
AddGrows(c) ==
  /\ pc[c] = "grow"
  /\ Goto(c, "store")
  /\ \E n \in sizes[c], m \in counts[c] :
       \E kept \in SUBSET (Min(sizes[c])+1..n) :
         /\ slot' = [slot EXCEPT ![c] = n + 1]
         /\ Resize([i \in 1..n+1 |->
                      IF i \in DOMAIN list /\ (i <= Min(sizes[c]) \/ i \in kept)
                      THEN list[i] ELSE None], m + 1)
  /\ UNCHANGED <<isReady, coreVars, runVars, raceVars, aborted>>

\* Mutant: isReady is read again behind the add.
AddStoresAndRechecks(c) ==
  /\ pc[c] = "store"
  /\ slot[c] \in DOMAIN list /\ list' = [list EXCEPT ![slot[c]] = c]
  /\ \/ isReady /\ body[c] = "off" /\ Goto(c, "running") /\ Begin(c)
     \/ ~isReady /\ Goto(c, "done") /\ UNCHANGED runVars
  /\ UNCHANGED <<isReady, mods, coreVars, addVars, raceVars, aborted>>

\* The element is stored, or is lost when the add overlapped another change.
AddStores(c) ==
  /\ pc[c] = "store"
  /\ Goto(c, "done")
  /\ \/ slot[c] \in DOMAIN list /\ list' = [list EXCEPT ![slot[c]] = c]
     \/ c \in raced /\ UNCHANGED list
  /\ UNCHANGED <<isReady, mods, coreVars, addVars, runVars, raceVars, aborted>>

\* The runnable ready has called returns or throws.
RunReturns(c) ==
  /\ pc[c] = "running"
  /\ body[c] \in {"ended", "threw"}
  /\ Goto(c, "done")
  /\ Body(c, "off")
  /\ UNCHANGED <<fields, coreVars, addVars, ran, scanVars, raceVars, aborted>>

-------------------------------------------------------------------------------
(***************************************************************************)
(* The runnables, on whatever thread runs them.                            *)
(***************************************************************************)

notBody == <<fields, coreVars, pc, addVars, ran, raceVars, aborted>>

\* An application's runnable returns or throws.
RunPlain(c) ==
  /\ body[c] = "run" /\ c \notin Scans
  /\ Body(c, "ended") \/ Body(c, "threw")
  /\ UNCHANGED <<notBody, scanVars>>

\* The scan calls whose runnable runs.
Running == {d \in Scans : body[d] \in {"scan", "scanning", "unlisten"}}

\* scan: the listener is registered before the scan begins.
Listen(c) ==
  /\ body[c] = "run" /\ c \in Scans
  /\ Body(c, "scan")
  /\ listening' = listening \cup {c}
  /\ mingled' = IF Running = {} THEN mingled ELSE mingled \cup Running \cup {c}
  /\ UNCHANGED <<notBody, scanner, heard, threw>>

\* Mutant: a scan waits for the listeners of others to be removed.
ScanBeginsAlone(c) ==
  /\ body[c] = "scan"
  /\ scanner = None
  /\ listening = {c}
  /\ scanner' = c
  /\ Body(c, "scanning")
  /\ UNCHANGED <<notBody, listening, heard, threw, mingled>>

\* processor.scan waits for scans of other threads to end.
ScanBegins(c) ==
  /\ body[c] = "scan"
  /\ scanner = None
  /\ scanner' = c
  /\ Body(c, "scanning")
  /\ UNCHANGED <<notBody, listening, heard, threw, mingled>>

\* The blocks are scanned and every listener is told.
ScanEnds(c) ==
  /\ body[c] = "scanning"
  /\ scanner' = None
  /\ heard' = [d \in Scans |-> IF d \in listening THEN heard[d] \cup {c}
                               ELSE heard[d]]
  /\ Body(c, "unlisten")
  /\ UNCHANGED <<notBody, listening, threw, mingled>>

\* processor.scan throws, before or after it told the listeners: the listener
\* stays, there is no finally block.
ScanThrows(c) ==
  /\ body[c] = "scanning"
  /\ scanner' = None
  /\ \/ UNCHANGED heard
     \/ heard' = [d \in Scans |-> IF d \in listening THEN heard[d] \cup {c}
                                  ELSE heard[d]]
  /\ threw' = threw \cup {c}
  /\ Body(c, "threw")
  /\ UNCHANGED <<notBody, listening, mingled>>

\* Mutant: the listener is not removed.
UnlistenNot(c) ==
  /\ body[c] = "unlisten"
  /\ Body(c, "ended")
  /\ UNCHANGED <<notBody, scanVars>>

Unlisten(c) ==
  /\ body[c] = "unlisten"
  /\ listening' = listening \ {c}
  /\ Body(c, "ended")
  /\ UNCHANGED <<notBody, scanner, heard, threw, mingled>>

RunBody(c) == \/ RunPlain(c) \/ Listen(c) \/ ScanBegins(c)
              \/ ScanEnds(c) \/ ScanThrows(c) \/ Unlisten(c)

-------------------------------------------------------------------------------
(***************************************************************************)
(* The core's thread.                                                      *)
(***************************************************************************)

At(label) == core' = label
notCore == <<pc, addVars, runVars>>

\* Heat.init calls back and onReady is registered; or something throws before,
\* start prints it and the node never becomes ready.
Start ==
  /\ core = "starting"
  /\ At("waiting") \/ At("failed")
  /\ UNCHANGED <<fields, next, array, count, events, notCore, raceVars, aborted>>

\* Mutant: isReady is not set.
OnReadySetsNothing ==
  /\ core = "waiting"
  /\ events < MaxEvents
  /\ events' = events + 1
  /\ At("begin")
  /\ straddled' = straddled \cup {c \in Calls : pc[c] \in {"add", "grow", "store"}}
  /\ UNCHANGED <<fields, next, array, count, notCore, raced, aborted>>

\* BLOCKCHAIN_READY is fired and onReady sets isReady.
OnReady ==
  /\ core = "waiting"
  /\ events < MaxEvents
  /\ events' = events + 1
  /\ isReady' = TRUE
  /\ At("begin")
  /\ straddled' = straddled \cup {c \in Calls : pc[c] \in {"add", "grow", "store"}}
  /\ UNCHANGED <<list, mods, next, array, count, notCore, raced, aborted>>

\* readyRunnables.forEach takes the array, its size and modCount.
ForEachBegins ==
  /\ core = "begin"
  /\ At("forEach")
  /\ next' = 1 /\ array' = list /\ count' = mods
  /\ UNCHANGED <<fields, events, notCore, raceVars, aborted>>

\* An exception leaves onReady: the list is not cleared and onReady stays
\* registered for the next BLOCKCHAIN_READY.
Abort ==
  /\ At("waiting")
  /\ aborted' = TRUE

\* The element at next: as it was, or as it is now if the array is the same.
Elements == {array[next]} \cup (IF next \in DOMAIN list THEN {list[next]} ELSE {})

\* One round: stop when modCount has changed (a ConcurrentModificationException)
\* or all elements have run; call run() on the next one, which may be null.
ForEach ==
  /\ core = "forEach"
  /\ \/ mods # count /\ Abort /\ UNCHANGED runVars
     \/ /\ mods = count /\ next > Len(array)
        /\ At("clear")
        /\ UNCHANGED <<runVars, aborted>>
     \/ /\ mods = count /\ next <= Len(array)
        /\ \E c \in Elements :
             \/ c = None /\ Abort /\ UNCHANGED runVars
             \/ c # None /\ At("running") /\ Begin(c) /\ UNCHANGED aborted
  /\ UNCHANGED <<fields, next, array, count, events, pc, addVars, raceVars>>

\* Mutant: each runnable is removed from the list as it has run.
RunnableEndsAndRemoves ==
  /\ core = "running"
  /\ \E c \in Calls :
       /\ pc[c] # "running"
       /\ \/ body[c] = "ended" /\ At("forEach") /\ next' = next + 1
             /\ Resize(SelectSeq(list, LAMBDA d : d # c), mods + 1)
             /\ UNCHANGED aborted
          \/ body[c] = "threw" /\ Abort /\ UNCHANGED <<next, list, mods, sizes, counts>>
       /\ Body(c, "off")
  /\ UNCHANGED <<isReady, array, count, events, pc, slot, ran, scanVars, raceVars>>

\* The runnable has returned or thrown.
RunnableEnds ==
  /\ core = "running"
  /\ \E c \in Calls :
       /\ pc[c] # "running"
       /\ \/ body[c] = "ended" /\ At("forEach") /\ next' = next + 1
             /\ UNCHANGED aborted
          \/ body[c] = "threw" /\ Abort /\ UNCHANGED next
       /\ Body(c, "off")
  /\ UNCHANGED <<fields, array, count, events, pc, addVars, ran, scanVars,
                 raceVars>>

\* readyRunnables.clear().
Clear ==
  /\ core = "clear"
  /\ At("remove")
  /\ Resize(<< >>, mods + 1)
  /\ raced' = raced \cup Adding
  /\ UNCHANGED <<isReady, next, array, count, events, pc, slot, runVars,
                 straddled, aborted>>

\* removeListener(onReady, BLOCKCHAIN_READY).
RemoveListener ==
  /\ core = "remove"
  /\ At("gone")
  /\ UNCHANGED <<fields, next, array, count, events, notCore, raceVars, aborted>>

CoreStep == \/ ForEachBegins \/ ForEach \/ RunnableEnds \/ Clear \/ RemoveListener

Call(c) == \/ Ready(c) \/ AddBegins(c) \/ AddGrows(c) \/ AddStores(c)
           \/ RunReturns(c)

Next == \/ Start \/ OnReady \/ CoreStep
        \/ \E c \in Calls : Call(c) \/ RunBody(c)

Spec == Init /\ [][Next]_vars

\* Threads that are running keep running, and runnables and scans end; nothing
\* makes an application call, or the core become ready.
Fairness ==
  /\ WF_vars(CoreStep)
  /\ \A c \in Calls : WF_vars(pc[c] # "idle" /\ Call(c)) /\ WF_vars(RunBody(c))

FairSpec == Spec /\ Fairness

-------------------------------------------------------------------------------
(***************************************************************************)
(* Properties.                                                             *)
(***************************************************************************)

\* A runnable is run a second time only when an exception has ended onReady
\* (thrown by a runnable, by an unfilled element, or for a concurrent add), for
\* then the list is neither cleared nor left alone.
RunsOnce == \A c \in Calls : ran[c] > 1 => aborted

\* Once onReady has come to its end, a runnable is lost only when the call that
\* handed it over was under way when onReady began, or overlapped another one:
\* not when it came early, and not when it came late.
LostOnlyInARace ==
  core = "gone" => \A c \in Calls :
    pc[c] = "done" /\ ran[c] = 0 => c \in raced \cup straddled

\* An exception of the iteration itself ends forEach -- for a changed modCount or an
\* unfilled element -- only when a call was on its way to add as onReady began or, the
\* count being the same, adds had overlapped: calls that each found the list alone
\* before onReady leave nothing in it that could stop the runnables, also at the
\* next BLOCKCHAIN_READY after one of them has thrown.
IterationBreaksInARace ==
  [][core = "forEach" /\ core' = "waiting" =>
       straddled # {} \/ (mods = count /\ raced # {})]_vars

\* The listener of a scan hears the blocks of another thread's scan only when
\* the two overlapped or a scan threw and left its listener behind.
HearsOwnScan ==
  \A c \in Scans : heard[c] \ {c} # {} => c \in mingled \cup threw

\* Every call of ready and scan returns, whatever the other threads do, and
\* onReady comes to an end, with or without an exception.
CallsReturn ==
  /\ \A c \in Calls : pc[c] # "idle" ~> pc[c] = "done"
  /\ core = "begin" ~> core \in {"waiting", "gone"}

===============================================================================
