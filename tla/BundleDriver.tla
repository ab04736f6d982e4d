----------------------------- MODULE BundleDriver -----------------------------
(***************************************************************************)
(* BundleDriver.sendMessage: build and sign a transaction that carries one *)
(* bundle, put a list for it in the response collector, broadcast it, take *)
(* the list back, remove it from the collector, and turn the response in   *)
(* it into a return value or an exception.  Meanwhile the HEAT core may    *)
(* announce the same transaction on threads of its own: as an unconfirmed  *)
(* transaction when it accepts it later or gets it from a peer, and as a   *)
(* confirmed one with each block it is in.                                 *)
(*                                                                         *)
(* The core (TransactionProcessor.broadcast and its events) is external:   *)
(* broadcast may refuse the transaction, accept it and announce it on the  *)
(* calling thread before it returns, or return without an announcement     *)
(* (it is known already, or is accepted later).                            *)
(***************************************************************************)
EXTENDS BundleHandlerResponseCollector

VARIABLES
  pc,        \* call -> where it is in sendMessage
  held,      \* call -> the list getResponses gave it, or None
  cursor,    \* call -> position of its iterator over that list
  expected,  \* call -> modCount the iterator was made with
  outcome,   \* call -> how sendMessage ended, or "none"
  returned,  \* call -> the transaction id it returned, None for 0
  known,     \* the transactions the core has taken
  verdicts   \* history: what the handlers concluded for each transaction

callVars == <<pc, held, cursor, expected, outcome, returned>>
coreVars == <<known, verdicts>>
vars == <<collectorVars, callVars, coreVars>>

(***************************************************************************)
(* How a call can end.  The first row never started a collector; the       *)
(* second and "buildFailed" are the APIException of buildAndBroadCast, one *)
(* name for each cause; the last row escapes from the loop in sendMessage: *)
(* "nullThrown" throws a null exception, "raced" is an exception of the    *)
(* iteration itself, "notReached" is the last line of sendMessage.         *)
(***************************************************************************)
Unsent == {"rejected", "buildFailed"}
SendErrors == {"broadcastFailed", "noCollector", "stampRaced"}
ReadErrors == {"nullThrown", "raced", "notReached"}
Errors == Unsent \cup SendErrors \cup ReadErrors
Outcomes == Verdicts \cup Errors

TypeOK ==
  /\ CollectorTypeOK
  /\ pc \in [Calls -> {"idle", "broadcast", "announcing", "collect", "stamp",
                       "end", "answer", "done"}]
  /\ held \in [Calls -> Calls \cup {None}]
  /\ cursor \in [Calls -> Nat \ {0}]
  /\ expected \in [Calls -> Nat]
  /\ outcome \in [Calls -> Outcomes \cup {"none"}]
  /\ returned \in [Calls -> TxIds \cup {None}]
  /\ known \in SUBSET TxIds
  /\ verdicts \in [TxIds -> SUBSET Verdicts]

Init ==
  /\ CollectorInit
  /\ pc = [c \in Calls |-> "idle"]
  /\ held = [c \in Calls |-> None]
  /\ cursor = [c \in Calls |-> 1]
  /\ expected = [c \in Calls |-> 0]
  /\ outcome = [c \in Calls |-> "none"]
  /\ returned = [c \in Calls |-> None]
  /\ known = {}
  /\ verdicts = [t \in TxIds |-> {}]

Goto(c, label) == pc' = [pc EXCEPT ![c] = label]

-------------------------------------------------------------------------------
(***************************************************************************)
(* The sending thread.                                                     *)
(***************************************************************************)

\* toArray overflows its buffer, or there is no recipient; or build or sign
\* throws.  Nothing is in the collector yet; in the latter case the finally
\* block dereferences the null transaction inside the outer try.
FailEarly(c) ==
  /\ pc[c] = "idle"
  /\ Goto(c, "done")
  /\ \E o \in Unsent : outcome' = [outcome EXCEPT ![c] = o]
  /\ UNCHANGED <<collectorVars, held, cursor, expected, returned, coreVars>>

StartCollector(c) ==
  /\ pc[c] = "idle"
  /\ Goto(c, "broadcast")
  /\ PutList(c)
  /\ UNCHANGED <<mods, responses, locals, held, cursor, expected, outcome,
                 returned, coreVars>>

\* Mutant: no finally block, the exception leaves at once.
BroadcastFailsNoFinally(c) ==
  /\ pc[c] = "broadcast"
  /\ Goto(c, "done")
  /\ outcome' = [outcome EXCEPT ![c] = "broadcastFailed"]
  /\ UNCHANGED <<collectorVars, held, cursor, expected, returned, coreVars>>

\* The core refuses the transaction: the finally block runs with an exception.
BroadcastFails(c) ==
  /\ pc[c] = "broadcast"
  /\ Goto(c, "end")
  /\ outcome' = [outcome EXCEPT ![c] = "broadcastFailed"]
  /\ UNCHANGED <<collectorVars, held, cursor, expected, returned, coreVars>>

\* The core accepts it and announces it on this thread.
BroadcastAnnounces(c) ==
  /\ pc[c] = "broadcast"
  /\ TxOf[c] \notin known
  /\ known' = known \cup {TxOf[c]}
  /\ Goto(c, "announcing")
  /\ Reach(c, "handle")
  /\ UNCHANGED <<collection, responses, tx, verdict, list, seen, slot, target,
                 held, cursor, expected, outcome, returned, verdicts>>

BroadcastReturns(c) ==
  /\ pc[c] = "announcing"
  /\ at[c] = "end"
  /\ Goto(c, "collect")
  /\ UNCHANGED <<collectorVars, held, cursor, expected, outcome, returned,
                 coreVars>>

\* The core knows it already, or keeps it for later.
BroadcastSilent(c) ==
  /\ pc[c] = "broadcast"
  /\ known' = known \cup {TxOf[c]}
  /\ Goto(c, "collect")
  /\ UNCHANGED <<collectorVars, held, cursor, expected, outcome, returned,
                 verdicts>>

\* Mutant: wait for a response instead of taking the list as it is.
GetResponsesWaits(c) ==
  LET l == map[TxOf[c]] IN
  /\ pc[c] = "collect"
  /\ l # None
  /\ lists[l] # << >>
  /\ held' = [held EXCEPT ![c] = l]
  /\ expected' = [expected EXCEPT ![c] = mods[l]]
  /\ Goto(c, "stamp")
  /\ UNCHANGED <<collectorVars, cursor, outcome, returned, coreVars>>

\* getResponses, and the iterator of the loop that stamps the responses; a
\* null list makes that loop throw.
GetResponses(c) ==
  LET l == map[TxOf[c]] IN
  /\ pc[c] = "collect"
  /\ held' = [held EXCEPT ![c] = l]
  /\ \/ /\ l = None
        /\ outcome' = [outcome EXCEPT ![c] = "noCollector"]
        /\ Goto(c, "end")
        /\ UNCHANGED expected
     \/ /\ l # None
        /\ expected' = [expected EXCEPT ![c] = mods[l]]
        /\ Goto(c, "stamp")
        /\ UNCHANGED outcome
  /\ UNCHANGED <<collectorVars, cursor, returned, coreVars>>

\* hasNext is false: the cursor meets the size.
AtEnd(c) == cursor[c] = Len(lists[held[c]]) + 1

\* hasNext is true, and next() throws or returns null.
NextThrows(c) == /\ ~AtEnd(c)
                 /\ \/ mods[held[c]] # expected[c]
                    \/ cursor[c] > Len(lists[held[c]])
                    \/ lists[held[c]][cursor[c]] = None

\* Mutant: the responses are not stamped.
StampNothing(c) ==
  /\ pc[c] = "stamp"
  /\ Goto(c, "end")
  /\ UNCHANGED <<collectorVars, held, cursor, expected, outcome, returned,
                 coreVars>>

\* One round of the loop that sets resp.transactionId.
Stamp(c) ==
  LET l == lists[held[c]] IN
  /\ pc[c] = "stamp"
  /\ \/ /\ AtEnd(c)
        /\ Goto(c, "end")
        /\ UNCHANGED <<transactionId, cursor, outcome>>
     \/ /\ ~AtEnd(c) /\ ~NextThrows(c)
        /\ transactionId' = [transactionId EXCEPT ![l[cursor[c]]] = TxOf[c]]
        /\ cursor' = [cursor EXCEPT ![c] = @ + 1]
        /\ UNCHANGED <<pc, outcome>>
     \/ /\ NextThrows(c)
        /\ outcome' = [outcome EXCEPT ![c] = "stampRaced"]
        /\ Goto(c, "end")
        /\ UNCHANGED <<transactionId, cursor>>
  /\ UNCHANGED <<collection, status, exception, locals, held, expected,
                 returned, coreVars>>

\* The finally block; then the exception if there is one, otherwise a new
\* iterator for the loop in sendMessage.
EndCollector(c) ==
  /\ pc[c] = "end"
  /\ RemoveList(c)
  /\ \/ /\ outcome[c] # "none"
        /\ Goto(c, "done")
        /\ UNCHANGED <<cursor, expected>>
     \/ /\ outcome[c] = "none"
        /\ Goto(c, "answer")
        /\ cursor' = [cursor EXCEPT ![c] = 1]
        /\ expected' = [expected EXCEPT ![c] = mods[held[c]]]
  /\ UNCHANGED <<lists, mods, responses, locals, held, outcome, returned,
                 coreVars>>

\* Mutant: any status that is not one of the failures counts as a success.
DecideByFailures(r) == IF status[r] = "unset" THEN "success" ELSE status[r]

\* What the switch makes of a response: a status without a case falls out of
\* it, and the exception field may still be null.
Decide(r) == IF status[r] = "unset" THEN "none"
             ELSE IF status[r] = "exception" /\ exception[r] = "null"
                  THEN "nullThrown"
                  ELSE status[r]

\* One round of the loop over the responses in sendMessage.
Answer(c) ==
  LET l == lists[held[c]]
      r == l[cursor[c]]
      End(o) == Goto(c, "done") /\ outcome' = [outcome EXCEPT ![c] = o]
  IN
  /\ pc[c] = "answer"
  /\ \/ /\ AtEnd(c)
        /\ End("notReached")
        /\ UNCHANGED <<cursor, returned>>
     \/ /\ NextThrows(c)
        /\ End("raced")
        /\ UNCHANGED <<cursor, returned>>
     \/ /\ ~AtEnd(c) /\ ~NextThrows(c) /\ Decide(r) = "none"
        /\ cursor' = [cursor EXCEPT ![c] = @ + 1]
        /\ UNCHANGED <<pc, outcome, returned>>
     \/ /\ ~AtEnd(c) /\ ~NextThrows(c) /\ Decide(r) # "none"
        /\ End(Decide(r))
        /\ returned' = [returned EXCEPT ![c] =
                          IF Decide(r) = "success"
                          THEN transactionId[r] ELSE None]
        /\ UNCHANGED cursor
  /\ UNCHANGED <<collectorVars, held, expected, coreVars>>

-------------------------------------------------------------------------------
(***************************************************************************)
(* The runs of processTransaction.                                         *)
(***************************************************************************)

\* The core announces a transaction it has taken on a thread of its own.
Announce(e) ==
  /\ at[e] = "off"
  /\ Reach(e, "handle")
  /\ \E t \in known : tx' = [tx EXCEPT ![e] = t]
  /\ UNCHANGED <<collection, responses, verdict, list, seen, slot, target,
                 callVars, coreVars>>

\* The handler's part.  Nothing is reported for a payload of less than three
\* bytes, a bundle id without a handler, or an exception of the filter or of
\* getMessage; the other ways out report a verdict.  Which one it is depends
\* on the application's handler and on its database.
Handle(r) ==
  /\ at[r] = "handle"
  /\ \/ /\ Reach(r, "end")
        /\ UNCHANGED <<verdict, verdicts>>
     \/ \E v \in Verdicts :
          /\ Reach(r, "lookup")
          /\ verdict' = [verdict EXCEPT ![r] = v]
          /\ verdicts' = [verdicts EXCEPT ![tx[r]] = @ \cup {v}]
  /\ UNCHANGED <<collection, responses, tx, list, seen, slot, target, callVars,
                 known>>

Process(r) == \/ Handle(r)
              \/ Report(r) /\ UNCHANGED <<callVars, coreVars>>

Send(c) ==
  \/ StartCollector(c) \/ FailEarly(c)
  \/ BroadcastFails(c) \/ BroadcastAnnounces(c) \/ BroadcastSilent(c)
  \/ BroadcastReturns(c) \/ GetResponses(c) \/ Stamp(c) \/ EndCollector(c)
  \/ Answer(c)

Next == \/ \E c \in Calls : Send(c)
        \/ \E e \in Events : Announce(e)
        \/ \E r \in Runs : Process(r)

Spec == Init /\ [][Next]_vars

\* Threads that are running keep running and broadcast returns; nothing makes
\* a caller call or the core announce.
Fairness == /\ \A c \in Calls : WF_vars(pc[c] # "idle" /\ Send(c))
            /\ \A r \in Runs : WF_vars(Process(r))

FairSpec == Spec /\ Fairness

-------------------------------------------------------------------------------
(***************************************************************************)
(* Properties.                                                             *)
(***************************************************************************)

\* The collector never leaks: a list is in the map only while a call for that
\* transaction is between startCollector and endCollector, and it is the list
\* of a call for that very transaction -- whichever of the two calls that share
\* a transaction overwrote or removed the other's list, and whatever the
\* broadcast did (try/finally of buildAndBroadCast).
NoLeakedCollector ==
  \A t \in TxIds : map[t] # None =>
    /\ TxOf[map[t]] = t
    /\ \E c \in Calls : TxOf[c] = t /\ pc[c] \notin {"idle", "answer", "done"}

\* A verdict that sendMessage returns or throws was reached by a handler for
\* the transaction this call sent, and never for another one, under any
\* interleaving of callers and announcements.
AnswerWasReached ==
  \A c \in Calls : outcome[c] \in Verdicts => outcome[c] \in verdicts[TxOf[c]]

\* Nobody else has to do with the call's transaction: no other call sends it
\* and no other thread has begun to process it.
Undisturbed(c) ==
  /\ \A d \in Calls \ {c} : TxOf[d] # TxOf[c]
  /\ \A e \in Events : tx[e] # TxOf[c]

\* The answer to an undisturbed call: what its own run reported, with the id
\* of its transaction on success; "not reached" when its run reported nothing.
ExactAnswer(c) ==
  \/ outcome[c] \in Unsent \cup {"broadcastFailed"} /\ verdict[c] = "none"
  \/ /\ outcome[c] = verdict[c]
     /\ returned[c] = IF outcome[c] = "success" THEN TxOf[c] ELSE None
  \/ outcome[c] = "notReached" /\ verdict[c] = "none"

\* Calls and announcements for other transactions never show in the answer of
\* an undisturbed call, however they interleave with it in the collector.
UndisturbedIsExact ==
  \A c \in Calls : pc[c] = "done" /\ Undisturbed(c) => ExactAnswer(c)

\* getResponses returns null (and the caller gets an error although its message
\* may have been applied) only to a call that shares its transaction with
\* another one: no announcement takes a list out of the collector.
OnlySharingLosesTheList ==
  \A c \in Calls : outcome[c] = "noCollector" =>
    \E d \in Calls \ {c} : TxOf[d] = TxOf[c]

\* A call fails in the loops over its responses, or returns a success with another
\* id than that of its transaction, or does not see what its own run concluded, only
\* when some other thread has taken the list that it reads for a report, or its own
\* run reported to a list that another call had replaced.  What a call's own run
\* writes in several steps -- the element, the status, the exception -- is complete
\* before the call reads it.
Harmed(c) == \/ outcome[c] \in {"stampRaced", "raced", "nullThrown"}
             \/ outcome[c] = "success" /\ returned[c] # TxOf[c]
             \/ outcome[c] = "notReached" /\ verdict[c] # "none"

RacesNeedAnother ==
  \A c \in Calls : Harmed(c) =>
    list[c] # held[c] \/ \E r \in Runs \ {c} : list[r] = held[c]

\* sendMessage says of its last statement "not reached [bundle driver]".
LastLineNotReached == \A c \in Calls : outcome[c] # "notReached"

\* sendMessage keeps the promise of SendPromise: each answer is given once and
\* is backed by a verdict a handler had reached by then.
Promise == INSTANCE SendPromise WITH
  answer <- [c \in Calls |-> IF pc[c] = "idle" THEN "idle"
                             ELSE IF pc[c] = "done" THEN outcome[c]
                             ELSE "waiting"]

KeepsPromise == Promise!Spec

\* The liveness half of the promise: a call that is waiting is answered.  Every
\* path out of broadcast, the races included, ends, and the iterations over the
\* list end although other threads add to it.
PromiseIsKeptInTime == Promise!Fairness

===============================================================================
