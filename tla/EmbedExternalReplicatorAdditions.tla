------------------ MODULE EmbedExternalReplicatorAdditions ------------------
(***************************************************************************)
(* EmbedExternalReplicatorAdditions.getExternalReplicatorAdditions: the    *)
(* master replicator is made when it is first asked for, of the bundle     *)
(* processor and the models that the application's two providers make.     *)
(* The providers are those of the sample application: each writes what it  *)
(* made into a field of the application, which sends messages with the     *)
(* driver of that processor and reads that table, and reads the field      *)
(* again for what it returns.                                              *)
(*                                                                         *)
(* Nothing here is synchronized; the HEAT core may ask on several threads, *)
(* and each access to a field is a step of its own.                        *)
(***************************************************************************)
CONSTANTS
  Calls,   \* calls of getExternalReplicatorAdditions
  Nobody   \* null

(***************************************************************************)
(* A processor, a table and a replicator are known by the call that made   *)
(* them: each call makes at most one of each.  A replicator may be given a *)
(* processor or a table that another call made.                            *)
(***************************************************************************)
Made == Calls \cup {Nobody}
Replicators == [by : Calls, processor : Calls, models : Calls]

ASSUME CallsAssumption == Nobody \notin Calls \cup Replicators

VARIABLES
  masterReplicator, \* the field
  bundleProcessor,  \* fields of the application: the processor,
  sampleMessageDB,  \* the table,
  handlers,         \* and the table of the handler in its map
  pc,               \* call -> where it is
  processor,        \* call -> the processor that its first provider returned
  table,            \* call -> the table that it read last
  outrun,           \* the calls whose put another one may undo
  returned,         \* call -> the replicator whose models it has returned
  beside            \* history: call -> those that were making one together with it

application == <<bundleProcessor, sampleMessageDB, handlers>>
locals == <<processor, table, outrun>>
vars == <<masterReplicator, application, pc, locals, returned, beside>>

TypeOK ==
  /\ masterReplicator \in Replicators \cup {Nobody}
  /\ bundleProcessor \in Made /\ sampleMessageDB \in Made /\ handlers \in Made
  /\ pc \in [Calls -> {"waiting", "check", "processor", "return processor", "models",
                       "handler", "put", "store", "return models", "assign", "get",
                       "done", "threw"}]
  /\ processor \in [Calls -> Made] /\ table \in [Calls -> Made]
  /\ outrun \in SUBSET Calls
  /\ returned \in [Calls -> Replicators \cup {Nobody}]
  /\ beside \in [Calls -> SUBSET Calls]

Init ==
  /\ masterReplicator = Nobody
  /\ bundleProcessor = Nobody /\ sampleMessageDB = Nobody /\ handlers = Nobody
  /\ pc = [c \in Calls |-> "waiting"]
  /\ processor = [c \in Calls |-> Nobody] /\ table = [c \in Calls |-> Nobody]
  /\ outrun = {}
  /\ returned = [c \in Calls |-> Nobody]
  /\ beside = [c \in Calls |-> {}]

\* The call has found the field null.
Making(c) == pc[c] \in {"processor", "return processor", "models", "handler", "put", "store",
                        "return models", "assign"}
Makers == {c \in Calls : Making(c)}

GoTo(c, place) == pc' = [pc EXCEPT ![c] = place]

Begin(c) ==
  /\ pc[c] = "waiting"
  /\ GoTo(c, "check")
  /\ UNCHANGED <<masterReplicator, application, locals, returned, beside>>

\* Mutant: the field is not looked at.
CheckNothing(c) ==
  /\ pc[c] = "check"
  /\ GoTo(c, "processor")
  /\ beside' = [d \in Calls |-> IF d = c THEN Makers
                                ELSE IF d \in Makers THEN beside[d] \cup {c} ELSE beside[d]]
  /\ UNCHANGED <<masterReplicator, application, locals, returned>>

Check(c) ==
  /\ pc[c] = "check"
  /\ \/ /\ masterReplicator = Nobody
        /\ GoTo(c, "processor")
        /\ beside' = [d \in Calls |-> IF d = c THEN Makers
                                      ELSE IF d \in Makers THEN beside[d] \cup {c} ELSE beside[d]]
     \/ masterReplicator # Nobody /\ GoTo(c, "get") /\ UNCHANGED beside
  /\ UNCHANGED <<masterReplicator, application, locals, returned>>

\* What a provider makes throws, or super("master_replicator_db"): the field stays
\* null, and what the application has of this call stays with it.
Throw(c) ==
  /\ pc[c] \in {"processor", "models", "handler", "assign"}
  /\ GoTo(c, "threw")
  /\ UNCHANGED <<masterReplicator, application, locals, returned, beside>>

\* Mutant: a processor that an earlier call made is kept.
MakeProcessorOnce(c) ==
  /\ pc[c] = "processor"
  /\ bundleProcessor' = IF bundleProcessor = Nobody THEN c ELSE bundleProcessor
  /\ GoTo(c, "return processor")
  /\ UNCHANGED <<masterReplicator, sampleMessageDB, handlers, locals, returned, beside>>

MakeProcessor(c) ==
  /\ pc[c] = "processor"
  /\ bundleProcessor' = c
  /\ GoTo(c, "return processor")
  /\ UNCHANGED <<masterReplicator, sampleMessageDB, handlers, locals, returned, beside>>

ReturnProcessor(c) ==
  /\ pc[c] = "return processor"
  /\ processor' = [processor EXCEPT ![c] = bundleProcessor]
  /\ GoTo(c, "models")
  /\ UNCHANGED <<masterReplicator, application, table, outrun, returned, beside>>

MakeModels(c) ==
  /\ pc[c] = "models"
  /\ sampleMessageDB' = c
  /\ GoTo(c, "handler")
  /\ UNCHANGED <<masterReplicator, bundleProcessor, handlers, locals, returned, beside>>

\* The handler gets the table that the field has by now.
MakeHandler(c) ==
  /\ pc[c] = "handler"
  /\ table' = [table EXCEPT ![c] = sampleMessageDB]
  /\ GoTo(c, "put")
  /\ UNCHANGED <<masterReplicator, application, processor, outrun, returned, beside>>

Put(c) ==
  /\ pc[c] = "put"
  /\ GoTo(c, "store")
  /\ UNCHANGED <<masterReplicator, application, locals, returned, beside>>

Stored(c, Handler) ==
  /\ pc[c] = "store"
  /\ Handler
  /\ outrun' = IF handlers # Nobody THEN outrun ELSE outrun \cup {d \in Calls : pc[d] = "store"}
  /\ GoTo(c, "return models")
  /\ UNCHANGED <<masterReplicator, bundleProcessor, sampleMessageDB, processor, table, returned,
                 beside>>

\* Mutant: the handler of an earlier call is kept.
StoreOnce(c) == Stored(c, handlers' = IF handlers = Nobody THEN table[c] ELSE handlers)

\* put of the HashMap ends.  One that began on the empty map may have stored into
\* an array that an overlapping one has replaced: then it is lost.  (That the entry
\* can be missing until the last of them ends is left out: nobody asks for it here.)
Store(c) == Stored(c, handlers' = table[c] \/ (c \in outrun /\ UNCHANGED handlers))

\* The array of models gets the table that the field has by now.
ReturnModels(c) ==
  /\ pc[c] = "return models"
  /\ table' = [table EXCEPT ![c] = sampleMessageDB]
  /\ GoTo(c, "assign")
  /\ UNCHANGED <<masterReplicator, application, processor, outrun, returned, beside>>

Assign(c) ==
  /\ pc[c] = "assign"
  /\ masterReplicator' = [by |-> c, processor |-> processor[c], models |-> table[c]]
  /\ GoTo(c, "get")
  /\ UNCHANGED <<application, locals, returned, beside>>

\* The field is read again.
GetModels(c) ==
  /\ pc[c] = "get"
  /\ returned' = [returned EXCEPT ![c] = masterReplicator]
  /\ GoTo(c, "done")
  /\ UNCHANGED <<masterReplicator, application, locals, beside>>

Step(c) == \/ Check(c) \/ MakeProcessor(c) \/ ReturnProcessor(c) \/ MakeModels(c) \/ MakeHandler(c)
           \/ Put(c) \/ Store(c) \/ ReturnModels(c) \/ Assign(c) \/ GetModels(c)

Next == \E c \in Calls : Begin(c) \/ Step(c) \/ Throw(c)

Spec == Init /\ [][Next]_vars

-------------------------------------------------------------------------------
\* As long as no two calls make a replicator at one time, all callers are given
\* the models of one replicator, and the application sends with the processor of
\* that replicator, reads its table and has a handler that writes to it -- also
\* when earlier calls threw half way, and while others ask.
OneReplicator ==
  (\A c \in Calls : beside[c] = {}) =>
    \A c \in Calls : returned[c] # Nobody =>
      /\ returned[c] = masterReplicator
      /\ returned[c] = [by |-> returned[c].by, processor |-> bundleProcessor,
                        models |-> sampleMessageDB]
      /\ handlers = sampleMessageDB

\* Calls that race may be given a replicator with the processor of one of them and
\* the table of another, but never with what a call has left behind that was over
\* before; and by the time there is a replicator there is a handler for its messages.
RacersGetFresh ==
  \A r \in {masterReplicator} \cup {returned[c] : c \in Calls} : r # Nobody =>
    /\ {r.processor, r.models} \subseteq {r.by} \cup beside[r.by]
    /\ handlers # Nobody

\* Two calls both make a replicator only if they were at it together: all of them
\* had found the field null before the first replicator was there, so that a call
\* that comes when one has been made never makes another.
NoneAfterAnother ==
  LET made == {c \in Calls : pc[c] \in {"get", "done"} /\ table[c] # Nobody}
  IN  \A c, d \in made : c # d => d \in beside[c]

===============================================================================
