-------------------- MODULE BundleHandlerResponseCollector --------------------
(***************************************************************************)
(* The rendezvous between a thread that sends a bundle message and the     *)
(* threads on which the HEAT core announces transactions                   *)
(* (bundles/BundleHandlerResponseCollector.java).                          *)
(*                                                                         *)
(* The map from transaction ids to lists is a ConcurrentHashMap, so each   *)
(* access to it is one step.  The lists in it are plain ArrayLists that    *)
(* several threads reach without a lock: their accesses are split where    *)
(* another thread can step in, and what two overlapping add calls can      *)
(* leave behind is a choice.                                               *)
(*                                                                         *)
(* A transaction sent by BundleDriver carries one bundle, so every         *)
(* response in a list has the bundle id of that transaction and the        *)
(* comparison of bundle ids always succeeds; bundle ids are left out.      *)
(***************************************************************************)
EXTENDS Naturals, Sequences

CONSTANTS
  Calls,   \* invocations of BundleDriver.sendMessage, each on its own thread
  Events,  \* announcements of a transaction on a thread of the HEAT core
  TxIds,   \* transaction ids
  TxOf,    \* the id of the transaction a call builds and signs
  None     \* null, and the transaction id 0 of a fresh response

(***************************************************************************)
(* Two calls may share a transaction: everything they hand to the builder  *)
(* can be equal, and the id is computed from the content.                  *)
(***************************************************************************)
ASSUME CollectorAssumption ==
  /\ Calls \cap Events = {}
  /\ TxOf \in [Calls -> TxIds]
  /\ None \notin Calls \cup Events \cup TxIds

\* The runs of BundleProcessor.processTransaction: one inside the broadcast
\* of a call, one for each announcement.  A run makes at most one response,
\* which goes by the name of the run.
Runs == Calls \cup Events

\* What a run can report; a response whose status was never set has "unset".
Verdicts == {"success", "filterFailed", "messageNull", "exception"}

VARIABLES
  map,       \* transaction id -> the call that put its list there, or None
  lists,     \* call -> its list; an element is the run that made the response
  mods,      \* call -> modCount of its list
  status,         \* run -> status of its response
  exception,      \* run -> exception of its response
  transactionId,  \* run -> transactionId of its response
  at,        \* run -> where it is in processTransaction and its report
  tx,        \* run -> the transaction
  verdict,   \* run -> what it is going to report
  list,      \* run -> the list it found in the map
  seen,      \* run -> modCount its iterator was made with
  slot,      \* run -> the position its add stores to
  target     \* run -> the response it is going to set

collection == <<map, lists, mods>>
responses == <<status, exception, transactionId>>
locals == <<at, tx, verdict, list, seen, slot, target>>
collectorVars == <<collection, responses, locals>>

CollectorTypeOK ==
  /\ map \in [TxIds -> Calls \cup {None}]
  /\ lists \in [Calls -> Seq(Runs \cup {None})]
  /\ mods \in [Calls -> Nat]
  /\ status \in [Runs -> Verdicts \cup {"unset"}]
  /\ exception \in [Runs -> {"null", "set"}]
  /\ transactionId \in [Runs -> TxIds \cup {None}]
  /\ at \in [Runs -> {"off", "handle", "lookup", "find", "grow", "store",
                      "status", "exception", "end"}]
  /\ tx \in [Runs -> TxIds \cup {None}]
  /\ verdict \in [Runs -> Verdicts \cup {"none"}]
  /\ list \in [Runs -> Calls \cup {None}]
  /\ seen \in [Runs -> Nat]
  /\ slot \in [Runs -> Nat]
  /\ target \in [Runs -> Runs \cup {None}]

CollectorInit ==
  /\ map = [t \in TxIds |-> None]
  /\ lists = [c \in Calls |-> << >>]
  /\ mods = [c \in Calls |-> 0]
  /\ status = [r \in Runs |-> "unset"]
  /\ exception = [r \in Runs |-> "null"]
  /\ transactionId = [r \in Runs |-> None]
  /\ at = [r \in Runs |-> "off"]
  /\ tx = [r \in Runs |-> IF r \in Calls THEN TxOf[r] ELSE None]
  /\ verdict = [r \in Runs |-> "none"]
  /\ list = [r \in Runs |-> None]
  /\ seen = [r \in Runs |-> 0]
  /\ slot = [r \in Runs |-> 0]
  /\ target = [r \in Runs |-> None]

-------------------------------------------------------------------------------
(***************************************************************************)
(* startCollector, endCollector.                                           *)
(***************************************************************************)

PutList(c) ==
  /\ map' = [map EXCEPT ![TxOf[c]] = c]
  /\ lists' = [lists EXCEPT ![c] = << >>]

\* Mutant: the whole map is cleared.
RemoveEveryList(c) == map' = [t \in TxIds |-> None]

RemoveList(c) == map' = [map EXCEPT ![TxOf[c]] = None]

-------------------------------------------------------------------------------
(***************************************************************************)
(* The four report methods, a step at a time.  The list is iterated with   *)
(* an Iterator, which remembers modCount when it is made and throws a      *)
(* ConcurrentModificationException from next when the count has changed.   *)
(***************************************************************************)

Reach(r, label) == at' = [at EXCEPT ![r] = label]

\* map.get, the null test, and the iterator over the list.
Lookup(r) ==
  LET l == map[tx[r]] IN
  /\ at[r] = "lookup"
  /\ \/ /\ l = None
        /\ Reach(r, "end")
        /\ UNCHANGED <<list, seen>>
     \/ /\ l # None
        /\ Reach(r, "find")
        /\ list' = [list EXCEPT ![r] = l]
        /\ seen' = [seen EXCEPT ![r] = mods[l]]
  /\ UNCHANGED <<collection, responses, tx, verdict, slot, target>>

\* The first element decides: it matches, or next throws, or it is a slot not
\* yet filled and its field access throws.  An exception loses the report.
Find(r) ==
  LET l == lists[list[r]]
      broken == mods[list[r]] # seen[r] \/ l[1] = None
  IN
  /\ at[r] = "find"
  /\ \/ /\ l = << >>
        /\ Reach(r, "grow")
        /\ UNCHANGED target
     \/ /\ l # << >> /\ ~broken
        /\ Reach(r, "status")
        /\ target' = [target EXCEPT ![r] = l[1]]
     \/ /\ l # << >> /\ broken
        /\ Reach(r, "end")
        /\ UNCHANGED target
  /\ UNCHANGED <<collection, responses, tx, verdict, list, seen, slot>>

\* add counts the modification, replaces the array if it is too small, and
\* raises the size, before it stores the element.  This thread found the list
\* empty, so whatever is in it now was added since, by threads whose add
\* overlaps this one: it may have read size and modCount before any of their
\* updates, and may put in place a copy of the array from before their stores.
Grow(r) ==
  LET old == lists[list[r]] IN
  /\ at[r] = "grow"
  /\ Reach(r, "store")
  /\ target' = [target EXCEPT ![r] = r]
  /\ \E s \in 1..Len(old) + 1, kept \in SUBSET DOMAIN old :
       /\ slot' = [slot EXCEPT ![r] = s]
       /\ lists' = [lists EXCEPT ![list[r]] =
                      [i \in 1..s |-> IF i \in kept THEN old[i] ELSE None]]
  /\ \E m \in 1..mods[list[r]] + 1 : mods' = [mods EXCEPT ![list[r]] = m]
  /\ UNCHANGED <<map, responses, tx, verdict, list, seen>>

\* The element is stored; or it is lost, in an array that an overlapping add
\* has replaced or beyond the size that one has written.
Store(r) ==
  /\ at[r] = "store"
  /\ Reach(r, "status")
  /\ \/ /\ slot[r] \in DOMAIN lists[list[r]]
        /\ lists' = [lists EXCEPT ![list[r]] = [@ EXCEPT ![slot[r]] = r]]
     \/ /\ \E q \in Runs \ {r} : list[q] = list[r] /\ target[q] = q
        /\ UNCHANGED lists
  /\ UNCHANGED <<map, mods, responses, tx, verdict, list, seen, slot, target>>

\* Mutant: a report of an exception leaves the status of a success.
SetStatusOfSuccess(r) ==
  /\ at[r] = "status"
  /\ Reach(r, IF verdict[r] = "exception" THEN "exception" ELSE "end")
  /\ status' = [status EXCEPT ![target[r]] =
                  IF verdict[r] = "exception" THEN "success" ELSE verdict[r]]
  /\ UNCHANGED <<collection, exception, transactionId, tx, verdict, list, seen,
                 slot, target>>

\* Mutant: the report of an exception ends with the status.
SetStatusAlone(r) ==
  /\ at[r] = "status"
  /\ Reach(r, "end")
  /\ status' = [status EXCEPT ![target[r]] = verdict[r]]
  /\ UNCHANGED <<collection, exception, transactionId, tx, verdict, list, seen,
                 slot, target>>

\* response.status = ...
SetStatus(r) ==
  /\ at[r] = "status"
  /\ Reach(r, IF verdict[r] = "exception" THEN "exception" ELSE "end")
  /\ status' = [status EXCEPT ![target[r]] = verdict[r]]
  /\ UNCHANGED <<collection, exception, transactionId, tx, verdict, list, seen,
                 slot, target>>

\* response.exception = ..., a second write.
SetException(r) ==
  /\ at[r] = "exception"
  /\ Reach(r, "end")
  /\ exception' = [exception EXCEPT ![target[r]] = "set"]
  /\ UNCHANGED <<collection, status, transactionId, tx, verdict, list, seen,
                 slot, target>>

Report(r) == \/ Lookup(r) \/ Find(r) \/ Grow(r) \/ Store(r)
             \/ SetStatus(r) \/ SetException(r)

===============================================================================
