--------------- MODULE EmbedExternalReplicatorAdditionsProofs ---------------
(***************************************************************************)
(* The theorems of EmbedExternalReplicatorAdditions, for any number of     *)
(* calls.                                                                  *)
(***************************************************************************)
EXTENDS EmbedExternalReplicatorAdditions, TLAPS

\* What c finds in a field that it has written: its own, or that of a call that
\* was making a replicator together with it.
Fresh(c) == {c} \cup beside[c]

\* A replicator was made by the call that it names, of fresh parts.
Whole(r) ==
  /\ r \in Replicators
  /\ r.processor \in Fresh(r.by) /\ r.models \in Fresh(r.by)
  /\ pc[r.by] \in {"get", "done"}

\* The call is making a replicator, or has made one.
AtIt(c) == Making(c) \/ (pc[c] \in {"get", "done"} /\ table[c] # Nobody)

\* Whatever races: who makes is beside all others that do or did, so that what c
\* reads behind its own write is fresh.
Together == \A c, d \in Calls : AtIt(c) /\ AtIt(d) /\ c # d => d \in beside[c]

FieldInv ==
  /\ masterReplicator # Nobody => Whole(masterReplicator) /\ handlers # Nobody
  /\ outrun # {} => handlers # Nobody

CallInv(c) ==
  /\ pc[c] \in {"waiting", "check", "processor", "return processor", "models", "handler"} =>
       table[c] = Nobody
  /\ pc[c] = "return processor" => bundleProcessor \in Fresh(c)
  /\ pc[c] \in {"models", "handler", "put", "store", "return models", "assign"} =>
       processor[c] \in Fresh(c)
  /\ pc[c] \in {"handler", "put", "store", "return models"} => sampleMessageDB \in Fresh(c)
  /\ pc[c] \in {"put", "store", "return models", "assign"} => table[c] \in Fresh(c)
  /\ pc[c] \in {"return models", "assign"} => handlers # Nobody
  /\ pc[c] \in {"get", "done"} => masterReplicator # Nobody
  /\ returned[c] # Nobody => Whole(returned[c])

Untouched(c) == pc[c] \in {"waiting", "check"} => beside[c] = {}

RaceInv == Together /\ FieldInv /\ \A c \in Calls : CallInv(c) /\ Untouched(c)

\* No two calls were making at one time.
Calm == \A c \in Calls : beside[c] = {}

\* Then there is one maker at most, the field is null while it is at it, and the
\* application has what was made last.
CalmFields ==
  masterReplicator # Nobody =>
    /\ bundleProcessor = masterReplicator.by /\ sampleMessageDB = masterReplicator.by
    /\ handlers = masterReplicator.by

CalmCall(c) ==
  /\ Making(c) => masterReplicator = Nobody
  /\ pc[c] \in {"return processor", "models", "handler", "put", "store", "return models",
                "assign"} => bundleProcessor = c
  /\ pc[c] \in {"handler", "put", "store", "return models", "assign"} => sampleMessageDB = c
  /\ pc[c] \in {"return models", "assign"} => handlers = c
  /\ c \in outrun => pc[c] \in {"return models", "assign", "get", "done", "threw"}
  /\ returned[c] # Nobody => returned[c] = masterReplicator

CalmInv == CalmFields /\ \A c \in Calls : CalmCall(c)

Inv == TypeOK /\ RaceInv /\ (Calm => CalmInv)

LEMMA InitInv == Init => Inv
<1>. SUFFICES ASSUME Init PROVE Inv
  OBVIOUS
<1>. USE CallsAssumption DEF Init
<1>1. TypeOK
  BY DEF TypeOK, Made
<1>2. RaceInv
  BY DEF RaceInv, Together, FieldInv, CallInv, Untouched, AtIt, Making
<1>3. CalmInv
  BY DEF CalmInv, CalmFields, CalmCall, Making
<1>. QED BY <1>1, <1>2, <1>3 DEF Inv

\* The parts of a replicator that was made in calm are of one call.
LEMMA CalmWhole ==
  ASSUME Calm, NEW r, Whole(r)
  PROVE  r = [by |-> r.by, processor |-> r.by, models |-> r.by]
<1>1. r \in [by : Calls, processor : Calls, models : Calls] /\ beside[r.by] = {}
  BY DEF Whole, Replicators, Calm
<1>2. r.processor = r.by /\ r.models = r.by
  BY <1>1 DEF Whole, Fresh
<1>. QED BY <1>1, <1>2

\* Whoever makes at the same time as another is not in calm.
LEMMA CalmMaker ==
  ASSUME Inv, Calm, NEW c \in Calls, NEW d \in Calls, AtIt(c), AtIt(d)
  PROVE  c = d
BY DEF Inv, RaceInv, Together, Calm

LEMMA StepInv == Inv /\ [Next]_vars => Inv'
<1> SUFFICES ASSUME Inv, [Next]_vars
             PROVE  Inv'
  OBVIOUS
<1> USE CallsAssumption DEF GoTo, locals, application
<1>0. /\ TypeOK /\ Together /\ FieldInv /\ (\A c \in Calls : CallInv(c)) /\ (\A c \in Calls : Untouched(c)) /\ (Calm => CalmInv)
      /\ \A r \in Replicators : r # Nobody /\ r.by \in Calls /\ r.processor \in Calls /\ r.models \in Calls
  BY DEF Inv, RaceInv, TypeOK, Replicators
<1>1. ASSUME NEW c \in Calls, Begin(c)
      PROVE  Inv'
  <2> USE <1>1 DEF Begin
  <2>1. TypeOK'
    BY <1>0 DEF TypeOK, Made, Replicators
  <2>2. \A d \in Calls : Fresh(d) \subseteq Fresh(d)'
    BY <1>0 DEF TypeOK, Fresh
  <2>3. \A d \in Calls \ {c} : pc'[d] = pc[d] /\ table'[d] = table[d] /\ processor'[d] = processor[d]
                                                /\ returned'[d] = returned[d]
    BY <1>0 DEF TypeOK
  <2>4. pc'[c] = "check" /\ pc[c] # "get" /\ pc[c] # "done" /\ UNCHANGED beside
    BY <1>0 DEF TypeOK
  <2>5. \A r : Whole(r) => Whole(r)'
    BY <1>0, <2>2, <2>3, <2>4 DEF Whole
  <2>6. \A d \in Calls : AtIt(d)' => AtIt(d)
    BY <1>0, <2>3, <2>4 DEF AtIt, Making, CallInv, TypeOK
  <2>7. Together'
    BY <1>0, <2>4, <2>6 DEF Together
  <2>8. FieldInv'
    BY <1>0, <2>2, <2>3, <2>4, <2>5 DEF FieldInv, CallInv
  <2>9. ASSUME NEW d \in Calls
        PROVE  CallInv(d)'
    <3>1. CASE d = c
      BY <1>0, <2>1, <2>2, <2>4, <2>5, <3>1 DEF CallInv, TypeOK, Fresh, FieldInv
    <3>2. CASE d # c
      BY <1>0, <2>1, <2>2, <2>3, <2>4, <2>5, <3>2 DEF CallInv, TypeOK, Fresh, Together, AtIt, Making
    <3> QED
      BY <3>1, <3>2
  <2>10. ASSUME NEW d \in Calls
        PROVE  Untouched(d)'
    BY <1>0, <2>3, <2>4 DEF Untouched
  <2>11. ASSUME Calm'
         PROVE  CalmInv'
    <3>1. Calm /\ CalmInv
      BY <1>0, <2>4, <2>11 DEF Calm
    <3>2. CalmFields'
      BY <1>0, <2>3, <2>4, <3>1, CalmMaker DEF CalmInv, CalmFields, CalmCall, AtIt, Making, TypeOK
    <3>3. ASSUME NEW d \in Calls, d # c
          PROVE  CalmCall(d)'
      BY <1>0, <2>3, <2>4, <3>1, <3>3, CalmMaker DEF CalmInv, CalmFields, CalmCall, AtIt, Making, TypeOK
    <3>4. CalmCall(c)'
      BY <1>0, <2>3, <2>4, <3>1, CalmMaker DEF CalmInv, CalmFields, CalmCall, AtIt, Making, TypeOK
    <3> QED
      BY <3>2, <3>3, <3>4 DEF CalmInv
  <2> QED
    BY <2>1, <2>7, <2>8, <2>9, <2>10, <2>11 DEF Inv, RaceInv
<1>2. ASSUME NEW c \in Calls, Check(c)
      PROVE  Inv'
  <2> USE <1>2 DEF Check
  <2>1. beside' \in [Calls -> SUBSET Calls] /\ \A d \in Calls :
          beside[d] \subseteq beside'[d] /\ (d # c /\ ~Making(d) => beside'[d] = beside[d])
    <3>1. CASE masterReplicator = Nobody
      <4>1. Makers \subseteq Calls
        BY DEF Makers
      <4>2. beside' = [d \in Calls |-> IF d = c THEN Makers
                                      ELSE IF d \in Makers THEN beside[d] \cup {c} ELSE beside[d]]
        BY <3>1
      <4>3. beside[c] = {}
        BY <1>0 DEF Untouched
      <4> QED
        <5>1. ASSUME NEW d \in Calls
              PROVE  /\ beside[d] \subseteq beside'[d] /\ beside'[d] \subseteq Calls
                     /\ d # c /\ ~Making(d) => beside'[d] = beside[d]
          BY <1>0, <4>1, <4>2, <4>3 DEF TypeOK, Makers
        <5> QED
          BY <4>2, <5>1
    <3>2. CASE masterReplicator # Nobody
      BY <1>0, <3>2 DEF TypeOK
    <3> QED
      BY <3>1, <3>2
  <2>2. TypeOK'
    BY <1>0, <2>1 DEF TypeOK, Made, Replicators
  <2>3. \A d \in Calls : Fresh(d) \subseteq Fresh(d)'
    BY <1>0, <2>1 DEF TypeOK, Fresh
  <2>4. \A d \in Calls \ {c} : pc'[d] = pc[d] /\ table'[d] = table[d] /\ processor'[d] = processor[d]
                                                /\ returned'[d] = returned[d]
    BY <1>0 DEF TypeOK
  <2>5. /\ (pc'[c] = "processor" /\ masterReplicator = Nobody) \/ (pc'[c] = "get" /\ masterReplicator # Nobody)
        /\ UNCHANGED <<masterReplicator, bundleProcessor, sampleMessageDB, handlers, processor, table, outrun, returned>>
    BY <1>0 DEF TypeOK
  <2>6. \A r : Whole(r) => Whole(r)'
    BY <1>0, <2>3, <2>4, <2>5 DEF Whole
  <2>7. \A d \in Calls \ {c} : AtIt(d)' = AtIt(d)
    BY <1>0, <2>4, <2>5 DEF AtIt, Making
  <2>8. Together'
    <3>1. CASE masterReplicator = Nobody
      <4>1. \A d \in Calls \ {c} : AtIt(d) => d \in Makers
        BY <1>0, <3>1 DEF AtIt, Makers, CallInv
      <4>2. beside' = [d \in Calls |-> IF d = c THEN Makers
                                      ELSE IF d \in Makers THEN beside[d] \cup {c} ELSE beside[d]]
        BY <3>1
      <4> QED
        BY <1>0, <2>7, <4>1, <4>2 DEF Together
    <3>2. CASE masterReplicator # Nobody
      <4>1. ~AtIt(c)' /\ UNCHANGED beside
        BY <1>0, <2>5, <3>2 DEF AtIt, Making, CallInv
      <4> QED
        BY <1>0, <2>7, <4>1 DEF Together
    <3> QED
      BY <3>1, <3>2
  <2>9. FieldInv'
    BY <1>0, <2>5, <2>6 DEF FieldInv
  <2>10. ASSUME NEW d \in Calls
        PROVE  CallInv(d)'
    <3>1. CASE d = c
      BY <1>0, <2>2, <2>3, <2>5, <2>6, <3>1 DEF CallInv
    <3>2. CASE d # c
      BY <1>0, <2>2, <2>3, <2>4, <2>5, <2>6, <3>2 DEF CallInv
    <3> QED
      BY <3>1, <3>2
  <2>11. ASSUME NEW d \in Calls
        PROVE  Untouched(d)'
    <3>1. CASE d = c
      BY <2>5, <3>1 DEF Untouched
    <3>2. CASE d # c
      BY <1>0, <2>4, <3>2, <2>1 DEF Untouched, Making
    <3> QED
      BY <3>1, <3>2
  <2>12. ASSUME Calm'
         PROVE  CalmInv'
    <3>1. Calm /\ CalmInv
      BY <1>0, <2>1, <2>12 DEF Calm
    <3>2. CalmFields'
      BY <2>5, <3>1 DEF CalmInv, CalmFields
    <3>3. ASSUME NEW d \in Calls
          PROVE  CalmCall(d)'
      BY <1>0, <2>4, <2>5, <3>1, <3>3 DEF CalmInv, CalmCall, Making
    <3> QED
      BY <3>2, <3>3 DEF CalmInv
  <2> QED
    BY <2>2, <2>8, <2>9, <2>10, <2>11, <2>12 DEF Inv, RaceInv
<1>3. ASSUME NEW c \in Calls, Throw(c)
      PROVE  Inv'
  <2> USE <1>3 DEF Throw
  <2>1. TypeOK'
    BY <1>0 DEF TypeOK, Made, Replicators
  <2>2. \A d \in Calls : Fresh(d) \subseteq Fresh(d)'
    BY <1>0 DEF TypeOK, Fresh
  <2>3. \A d \in Calls \ {c} : pc'[d] = pc[d] /\ table'[d] = table[d] /\ processor'[d] = processor[d]
                                                /\ returned'[d] = returned[d]
    BY <1>0 DEF TypeOK
  <2>4. pc'[c] = "threw" /\ pc[c] # "get" /\ pc[c] # "done" /\ UNCHANGED beside
    BY <1>0 DEF TypeOK
  <2>5. \A r : Whole(r) => Whole(r)'
    BY <1>0, <2>2, <2>3, <2>4 DEF Whole
  <2>6. \A d \in Calls : AtIt(d)' => AtIt(d)
    BY <1>0, <2>3, <2>4 DEF AtIt, Making, CallInv, TypeOK
  <2>7. Together'
    BY <1>0, <2>4, <2>6 DEF Together
  <2>8. FieldInv'
    BY <1>0, <2>2, <2>3, <2>4, <2>5 DEF FieldInv, CallInv
  <2>9. ASSUME NEW d \in Calls
        PROVE  CallInv(d)'
    <3>1. CASE d = c
      BY <1>0, <2>1, <2>2, <2>4, <2>5, <3>1 DEF CallInv, TypeOK, Fresh, FieldInv
    <3>2. CASE d # c
      BY <1>0, <2>1, <2>2, <2>3, <2>4, <2>5, <3>2 DEF CallInv, TypeOK, Fresh, Together, AtIt, Making
    <3> QED
      BY <3>1, <3>2
  <2>10. ASSUME NEW d \in Calls
        PROVE  Untouched(d)'
    BY <1>0, <2>3, <2>4 DEF Untouched
  <2>11. ASSUME Calm'
         PROVE  CalmInv'
    <3>1. Calm /\ CalmInv
      BY <1>0, <2>4, <2>11 DEF Calm
    <3>2. CalmFields'
      BY <1>0, <2>3, <2>4, <3>1, CalmMaker DEF CalmInv, CalmFields, CalmCall, AtIt, Making, TypeOK
    <3>3. ASSUME NEW d \in Calls, d # c
          PROVE  CalmCall(d)'
      BY <1>0, <2>3, <2>4, <3>1, <3>3, CalmMaker DEF CalmInv, CalmFields, CalmCall, AtIt, Making, TypeOK
    <3>4. CalmCall(c)'
      BY <1>0, <2>3, <2>4, <3>1, CalmMaker DEF CalmInv, CalmFields, CalmCall, AtIt, Making, TypeOK
    <3> QED
      BY <3>2, <3>3, <3>4 DEF CalmInv
  <2> QED
    BY <2>1, <2>7, <2>8, <2>9, <2>10, <2>11 DEF Inv, RaceInv
<1>4. ASSUME NEW c \in Calls, MakeProcessor(c)
      PROVE  Inv'
  <2> USE <1>4 DEF MakeProcessor
  <2>1. TypeOK'
    BY <1>0 DEF TypeOK, Made, Replicators
  <2>2. \A d \in Calls : Fresh(d) \subseteq Fresh(d)'
    BY <1>0 DEF TypeOK, Fresh
  <2>3. \A d \in Calls \ {c} : pc'[d] = pc[d] /\ table'[d] = table[d] /\ processor'[d] = processor[d]
                                                /\ returned'[d] = returned[d]
    BY <1>0 DEF TypeOK
  <2>4. pc'[c] = "return processor" /\ pc[c] # "get" /\ pc[c] # "done" /\ UNCHANGED beside
    BY <1>0 DEF TypeOK
  <2>5. \A r : Whole(r) => Whole(r)'
    BY <1>0, <2>2, <2>3, <2>4 DEF Whole
  <2>6. \A d \in Calls : AtIt(d)' => AtIt(d)
    BY <1>0, <2>3, <2>4 DEF AtIt, Making, CallInv, TypeOK
  <2>7. Together'
    BY <1>0, <2>4, <2>6 DEF Together
  <2>8. FieldInv'
    BY <1>0, <2>2, <2>3, <2>4, <2>5 DEF FieldInv, CallInv
  <2>9. ASSUME NEW d \in Calls
        PROVE  CallInv(d)'
    <3>1. CASE d = c
      BY <1>0, <2>1, <2>2, <2>4, <2>5, <3>1 DEF CallInv, TypeOK, Fresh, FieldInv
    <3>2. CASE d # c
      BY <1>0, <2>1, <2>2, <2>3, <2>4, <2>5, <3>2 DEF CallInv, TypeOK, Fresh, Together, AtIt, Making
    <3> QED
      BY <3>1, <3>2
  <2>10. ASSUME NEW d \in Calls
        PROVE  Untouched(d)'
    BY <1>0, <2>3, <2>4 DEF Untouched
  <2>11. ASSUME Calm'
         PROVE  CalmInv'
    <3>1. Calm /\ CalmInv
      BY <1>0, <2>4, <2>11 DEF Calm
    <3>2. CalmFields'
      BY <1>0, <2>3, <2>4, <3>1, CalmMaker DEF CalmInv, CalmFields, CalmCall, AtIt, Making, TypeOK
    <3>3. ASSUME NEW d \in Calls, d # c
          PROVE  CalmCall(d)'
      <4>1. ~AtIt(d)
        BY <1>0, <3>1, <3>3, CalmMaker DEF AtIt, Making
      <4> QED
        BY <1>0, <2>3, <2>4, <3>1, <3>3, <4>1 DEF CalmInv, CalmCall, AtIt, Making, TypeOK
    <3>4. CalmCall(c)'
      BY <1>0, <2>3, <2>4, <3>1, CalmMaker DEF CalmInv, CalmFields, CalmCall, AtIt, Making, TypeOK
    <3> QED
      BY <3>2, <3>3, <3>4 DEF CalmInv
  <2> QED
    BY <2>1, <2>7, <2>8, <2>9, <2>10, <2>11 DEF Inv, RaceInv
<1>5. ASSUME NEW c \in Calls, ReturnProcessor(c)
      PROVE  Inv'
  <2> USE <1>5 DEF ReturnProcessor
  <2>1. TypeOK'
    BY <1>0 DEF TypeOK, Made, Replicators
  <2>2. \A d \in Calls : Fresh(d) \subseteq Fresh(d)'
    BY <1>0 DEF TypeOK, Fresh
  <2>3. \A d \in Calls \ {c} : pc'[d] = pc[d] /\ table'[d] = table[d] /\ processor'[d] = processor[d]
                                                /\ returned'[d] = returned[d]
    BY <1>0 DEF TypeOK
  <2>4. processor'[c] = bundleProcessor /\ table'[c] = table[c] /\ returned'[c] = returned[c]
    BY <1>0 DEF TypeOK, CallInv, FieldInv, Fresh, Replicators, Made
  <2>5. pc'[c] = "models" /\ pc[c] # "get" /\ pc[c] # "done" /\ UNCHANGED beside
    BY <1>0 DEF TypeOK
  <2>6. \A r : Whole(r) => Whole(r)'
    BY <1>0, <2>2, <2>3, <2>5 DEF Whole
  <2>7. \A d \in Calls : AtIt(d)' => AtIt(d)
    BY <1>0, <2>3, <2>5 DEF AtIt, Making, CallInv, TypeOK
  <2>8. Together'
    BY <1>0, <2>5, <2>7 DEF Together
  <2>9. FieldInv'
    BY <1>0, <2>2, <2>3, <2>4, <2>5, <2>6 DEF FieldInv, CallInv
  <2>10. ASSUME NEW d \in Calls
        PROVE  CallInv(d)'
    <3>1. CASE d = c
      <4>1. Fresh(c)' = Fresh(c)
        BY <2>5 DEF Fresh
      <4> QED
        BY <1>0, <2>4, <2>5, <2>6, <3>1, <4>1 DEF CallInv
    <3>2. CASE d # c
      BY <1>0, <2>1, <2>2, <2>3, <2>4, <2>5, <2>6, <3>2 DEF CallInv, TypeOK, Fresh, Together, AtIt, Making
    <3> QED
      BY <3>1, <3>2
  <2>11. ASSUME NEW d \in Calls
        PROVE  Untouched(d)'
    BY <1>0, <2>3, <2>5 DEF Untouched
  <2>12. ASSUME Calm'
         PROVE  CalmInv'
    <3>1. Calm /\ CalmInv
      BY <1>0, <2>5, <2>12 DEF Calm
    <3>2. CalmFields'
      BY <1>0, <2>3, <2>4, <2>5, <3>1, CalmMaker DEF CalmInv, CalmFields, CalmCall, AtIt, Making, TypeOK
    <3>3. ASSUME NEW d \in Calls, d # c
          PROVE  CalmCall(d)'
      <4>1. ~AtIt(d)
        BY <1>0, <3>1, <3>3, CalmMaker DEF AtIt, Making
      <4> QED
        BY <1>0, <2>3, <2>4, <2>5, <3>1, <3>3, <4>1 DEF CalmInv, CalmCall, AtIt, Making, TypeOK
    <3>4. CalmCall(c)'
      BY <1>0, <2>3, <2>4, <2>5, <3>1, CalmMaker DEF CalmInv, CalmFields, CalmCall, AtIt, Making, TypeOK
    <3> QED
      BY <3>2, <3>3, <3>4 DEF CalmInv
  <2> QED
    BY <2>1, <2>8, <2>9, <2>10, <2>11, <2>12 DEF Inv, RaceInv
<1>6. ASSUME NEW c \in Calls, MakeModels(c)
      PROVE  Inv'
  <2> USE <1>6 DEF MakeModels
  <2>1. TypeOK'
    BY <1>0 DEF TypeOK, Made, Replicators
  <2>2. \A d \in Calls : Fresh(d) \subseteq Fresh(d)'
    BY <1>0 DEF TypeOK, Fresh
  <2>3. \A d \in Calls \ {c} : pc'[d] = pc[d] /\ table'[d] = table[d] /\ processor'[d] = processor[d]
                                                /\ returned'[d] = returned[d]
    BY <1>0 DEF TypeOK
  <2>4. pc'[c] = "handler" /\ pc[c] # "get" /\ pc[c] # "done" /\ UNCHANGED beside
    BY <1>0 DEF TypeOK
  <2>5. \A r : Whole(r) => Whole(r)'
    BY <1>0, <2>2, <2>3, <2>4 DEF Whole
  <2>6. \A d \in Calls : AtIt(d)' => AtIt(d)
    BY <1>0, <2>3, <2>4 DEF AtIt, Making, CallInv, TypeOK
  <2>7. Together'
    BY <1>0, <2>4, <2>6 DEF Together
  <2>8. FieldInv'
    BY <1>0, <2>2, <2>3, <2>4, <2>5 DEF FieldInv, CallInv
  <2>9. ASSUME NEW d \in Calls
        PROVE  CallInv(d)'
    <3>1. CASE d = c
      BY <1>0, <2>1, <2>2, <2>4, <2>5, <3>1 DEF CallInv, TypeOK, Fresh, FieldInv
    <3>2. CASE d # c
      BY <1>0, <2>1, <2>2, <2>3, <2>4, <2>5, <3>2 DEF CallInv, TypeOK, Fresh, Together, AtIt, Making
    <3> QED
      BY <3>1, <3>2
  <2>10. ASSUME NEW d \in Calls
        PROVE  Untouched(d)'
    BY <1>0, <2>3, <2>4 DEF Untouched
  <2>11. ASSUME Calm'
         PROVE  CalmInv'
    <3>1. Calm /\ CalmInv
      BY <1>0, <2>4, <2>11 DEF Calm
    <3>2. CalmFields'
      BY <1>0, <2>3, <2>4, <3>1, CalmMaker DEF CalmInv, CalmFields, CalmCall, AtIt, Making, TypeOK
    <3>3. ASSUME NEW d \in Calls, d # c
          PROVE  CalmCall(d)'
      BY <1>0, <2>3, <2>4, <3>1, <3>3, CalmMaker DEF CalmInv, CalmFields, CalmCall, AtIt, Making, TypeOK
    <3>4. CalmCall(c)'
      BY <1>0, <2>3, <2>4, <3>1, CalmMaker DEF CalmInv, CalmFields, CalmCall, AtIt, Making, TypeOK
    <3> QED
      BY <3>2, <3>3, <3>4 DEF CalmInv
  <2> QED
    BY <2>1, <2>7, <2>8, <2>9, <2>10, <2>11 DEF Inv, RaceInv
<1>7. ASSUME NEW c \in Calls, MakeHandler(c)
      PROVE  Inv'
  <2> USE <1>7 DEF MakeHandler
  <2>1. TypeOK'
    BY <1>0 DEF TypeOK, Made, Replicators
  <2>2. \A d \in Calls : Fresh(d) \subseteq Fresh(d)'
    BY <1>0 DEF TypeOK, Fresh
  <2>3. \A d \in Calls \ {c} : pc'[d] = pc[d] /\ table'[d] = table[d] /\ processor'[d] = processor[d]
                                                /\ returned'[d] = returned[d]
    BY <1>0 DEF TypeOK
  <2>4. processor'[c] = processor[c] /\ table'[c] = sampleMessageDB /\ returned'[c] = returned[c]
    BY <1>0 DEF TypeOK, CallInv, FieldInv, Fresh, Replicators, Made
  <2>5. pc'[c] = "put" /\ pc[c] # "get" /\ pc[c] # "done" /\ UNCHANGED beside
    BY <1>0 DEF TypeOK
  <2>6. \A r : Whole(r) => Whole(r)'
    BY <1>0, <2>2, <2>3, <2>5 DEF Whole
  <2>7. \A d \in Calls : AtIt(d)' => AtIt(d)
    BY <1>0, <2>3, <2>5 DEF AtIt, Making, CallInv, TypeOK
  <2>8. Together'
    BY <1>0, <2>5, <2>7 DEF Together
  <2>9. FieldInv'
    BY <1>0, <2>2, <2>3, <2>4, <2>5, <2>6 DEF FieldInv, CallInv
  <2>10. ASSUME NEW d \in Calls
        PROVE  CallInv(d)'
    <3>1. CASE d = c
      <4>1. Fresh(c)' = Fresh(c)
        BY <2>5 DEF Fresh
      <4> QED
        BY <1>0, <2>4, <2>5, <2>6, <3>1, <4>1 DEF CallInv
    <3>2. CASE d # c
      BY <1>0, <2>2, <2>3, <2>5, <2>6, <3>2 DEF CallInv
    <3> QED
      BY <3>1, <3>2
  <2>11. ASSUME NEW d \in Calls
        PROVE  Untouched(d)'
    BY <1>0, <2>3, <2>5 DEF Untouched
  <2>12. ASSUME Calm'
         PROVE  CalmInv'
    <3>1. Calm /\ CalmInv
      BY <1>0, <2>5, <2>12 DEF Calm
    <3>2. CalmFields'
      BY <1>0, <2>3, <2>4, <2>5, <3>1, CalmMaker DEF CalmInv, CalmFields, CalmCall, AtIt, Making, TypeOK
    <3>3. ASSUME NEW d \in Calls, d # c
          PROVE  CalmCall(d)'
      <4>1. ~AtIt(d)
        BY <1>0, <3>1, <3>3, CalmMaker DEF AtIt, Making
      <4> QED
        BY <1>0, <2>3, <2>4, <2>5, <3>1, <3>3, <4>1 DEF CalmInv, CalmCall, AtIt, Making, TypeOK
    <3>4. CalmCall(c)'
      BY <1>0, <2>3, <2>4, <2>5, <3>1, CalmMaker DEF CalmInv, CalmFields, CalmCall, AtIt, Making, TypeOK
    <3> QED
      BY <3>2, <3>3, <3>4 DEF CalmInv
  <2> QED
    BY <2>1, <2>8, <2>9, <2>10, <2>11, <2>12 DEF Inv, RaceInv
<1>8. ASSUME NEW c \in Calls, Put(c)
      PROVE  Inv'
  <2> USE <1>8 DEF Put
  <2>1. TypeOK'
    BY <1>0 DEF TypeOK, Made, Replicators
  <2>2. \A d \in Calls : Fresh(d) \subseteq Fresh(d)'
    BY <1>0 DEF TypeOK, Fresh
  <2>3. \A d \in Calls \ {c} : pc'[d] = pc[d] /\ table'[d] = table[d] /\ processor'[d] = processor[d]
                                                /\ returned'[d] = returned[d]
    BY <1>0 DEF TypeOK
  <2>4. pc'[c] = "store" /\ pc[c] # "get" /\ pc[c] # "done" /\ UNCHANGED beside
    BY <1>0 DEF TypeOK
  <2>5. \A r : Whole(r) => Whole(r)'
    BY <1>0, <2>2, <2>3, <2>4 DEF Whole
  <2>6. \A d \in Calls : AtIt(d)' => AtIt(d)
    BY <1>0, <2>3, <2>4 DEF AtIt, Making, CallInv, TypeOK
  <2>7. Together'
    BY <1>0, <2>4, <2>6 DEF Together
  <2>8. FieldInv'
    BY <1>0, <2>2, <2>3, <2>4, <2>5 DEF FieldInv, CallInv
  <2>9. ASSUME NEW d \in Calls
        PROVE  CallInv(d)'
    <3>1. CASE d = c
      BY <1>0, <2>1, <2>2, <2>4, <2>5, <3>1 DEF CallInv, TypeOK, Fresh, FieldInv
    <3>2. CASE d # c
      BY <1>0, <2>1, <2>2, <2>3, <2>4, <2>5, <3>2 DEF CallInv, TypeOK, Fresh, Together, AtIt, Making
    <3> QED
      BY <3>1, <3>2
  <2>10. ASSUME NEW d \in Calls
        PROVE  Untouched(d)'
    BY <1>0, <2>3, <2>4 DEF Untouched
  <2>11. ASSUME Calm'
         PROVE  CalmInv'
    <3>1. Calm /\ CalmInv
      BY <1>0, <2>4, <2>11 DEF Calm
    <3>2. CalmFields'
      BY <1>0, <2>3, <2>4, <3>1, CalmMaker DEF CalmInv, CalmFields, CalmCall, AtIt, Making, TypeOK
    <3>3. ASSUME NEW d \in Calls, d # c
          PROVE  CalmCall(d)'
      <4>1. ~AtIt(d)
        BY <1>0, <3>1, <3>3, CalmMaker DEF AtIt, Making
      <4> QED
        BY <1>0, <2>3, <2>4, <3>1, <3>3, <4>1 DEF CalmInv, CalmCall, AtIt, Making, TypeOK
    <3>4. CalmCall(c)'
      BY <1>0, <2>3, <2>4, <3>1, CalmMaker DEF CalmInv, CalmFields, CalmCall, AtIt, Making, TypeOK
    <3> QED
      BY <3>2, <3>3, <3>4 DEF CalmInv
  <2> QED
    BY <2>1, <2>7, <2>8, <2>9, <2>10, <2>11 DEF Inv, RaceInv
<1>9. ASSUME NEW c \in Calls, Store(c)
      PROVE  Inv'
  <2> USE <1>9 DEF Store, Stored
  <2>1. TypeOK'
    BY <1>0 DEF TypeOK, Made, Replicators
  <2>2. \A d \in Calls : Fresh(d) \subseteq Fresh(d)'
    BY <1>0 DEF TypeOK, Fresh
  <2>3. \A d \in Calls \ {c} : pc'[d] = pc[d] /\ table'[d] = table[d] /\ processor'[d] = processor[d]
                                                /\ returned'[d] = returned[d]
    BY <1>0 DEF TypeOK
  <2>4. handlers' # Nobody
    <3>1. CASE handlers' = table[c]
      <4>1. table[c] \in Calls
        BY <1>0 DEF TypeOK, CallInv, Fresh
      <4> QED
        BY <3>1, <4>1
    <3>2. CASE c \in outrun /\ UNCHANGED handlers
      BY <1>0, <3>2 DEF FieldInv
    <3> QED
      BY <3>1, <3>2
  <2>5. pc'[c] = "return models" /\ pc[c] # "get" /\ pc[c] # "done" /\ UNCHANGED beside
    BY <1>0 DEF TypeOK
  <2>6. \A r : Whole(r) => Whole(r)'
    BY <1>0, <2>2, <2>3, <2>5 DEF Whole
  <2>7. \A d \in Calls : AtIt(d)' => AtIt(d)
    BY <1>0, <2>3, <2>5 DEF AtIt, Making, CallInv, TypeOK
  <2>8. Together'
    BY <1>0, <2>5, <2>7 DEF Together
  <2>9. FieldInv'
    BY <1>0, <2>2, <2>3, <2>4, <2>5, <2>6 DEF FieldInv, CallInv
  <2>10. ASSUME NEW d \in Calls
        PROVE  CallInv(d)'
    <3>1. CASE d = c
      BY <1>0, <2>1, <2>2, <2>4, <2>5, <2>6, <3>1 DEF CallInv, TypeOK, Fresh, FieldInv
    <3>2. CASE d # c
      BY <1>0, <2>1, <2>2, <2>3, <2>4, <2>5, <2>6, <3>2 DEF CallInv, TypeOK, Fresh, Together, AtIt, Making
    <3> QED
      BY <3>1, <3>2
  <2>11. ASSUME NEW d \in Calls
        PROVE  Untouched(d)'
    BY <1>0, <2>3, <2>5 DEF Untouched
  <2>12. ASSUME Calm'
         PROVE  CalmInv'
    <3>1. Calm /\ CalmInv
      BY <1>0, <2>5, <2>12 DEF Calm
    <3>2. CalmFields'
      BY <1>0, <3>1 DEF CalmInv, CalmFields, CalmCall, Making
    <3>3. ASSUME NEW d \in Calls, d # c
          PROVE  CalmCall(d)'
      <4>1. ~AtIt(d)
        BY <1>0, <3>1, <3>3, CalmMaker DEF AtIt, Making
      <4> QED
        BY <1>0, <2>3, <2>4, <2>5, <3>1, <3>3, <4>1 DEF CalmInv, CalmCall, AtIt, Making, TypeOK
    <3>4. CalmCall(c)'
      <4>1. handlers' = table[c] /\ table[c] = c
        BY <1>0, <3>1 DEF CalmInv, CalmCall, CallInv, Fresh, Calm
      <4>2. /\ bundleProcessor' = c /\ sampleMessageDB' = c /\ masterReplicator' = Nobody
            /\ returned' = returned
        BY <1>0, <3>1 DEF CalmInv, CalmCall, Making
      <4> QED
        BY <1>0, <2>5, <3>1, <4>1, <4>2 DEF CalmInv, CalmCall
    <3> QED
      BY <3>2, <3>3, <3>4 DEF CalmInv
  <2> QED
    BY <2>1, <2>8, <2>9, <2>10, <2>11, <2>12 DEF Inv, RaceInv
<1>10. ASSUME NEW c \in Calls, ReturnModels(c)
      PROVE  Inv'
  <2> USE <1>10 DEF ReturnModels
  <2>1. TypeOK'
    BY <1>0 DEF TypeOK, Made, Replicators
  <2>2. \A d \in Calls : Fresh(d) \subseteq Fresh(d)'
    BY <1>0 DEF TypeOK, Fresh
  <2>3. \A d \in Calls \ {c} : pc'[d] = pc[d] /\ table'[d] = table[d] /\ processor'[d] = processor[d]
                                                /\ returned'[d] = returned[d]
    BY <1>0 DEF TypeOK
  <2>4. processor'[c] = processor[c] /\ table'[c] = sampleMessageDB /\ returned'[c] = returned[c]
    BY <1>0 DEF TypeOK, CallInv, FieldInv, Fresh, Replicators, Made
  <2>5. pc'[c] = "assign" /\ pc[c] # "get" /\ pc[c] # "done" /\ UNCHANGED beside
    BY <1>0 DEF TypeOK
  <2>6. \A r : Whole(r) => Whole(r)'
    BY <1>0, <2>2, <2>3, <2>5 DEF Whole
  <2>7. \A d \in Calls : AtIt(d)' => AtIt(d)
    BY <1>0, <2>3, <2>5 DEF AtIt, Making, CallInv, TypeOK
  <2>8. Together'
    BY <1>0, <2>5, <2>7 DEF Together
  <2>9. FieldInv'
    BY <1>0, <2>2, <2>3, <2>4, <2>5, <2>6 DEF FieldInv, CallInv
  <2>10. ASSUME NEW d \in Calls
        PROVE  CallInv(d)'
    <3>1. CASE d = c
      <4>1. Fresh(c)' = Fresh(c)
        BY <2>5 DEF Fresh
      <4> QED
        BY <1>0, <2>4, <2>5, <2>6, <3>1, <4>1 DEF CallInv
    <3>2. CASE d # c
      BY <1>0, <2>2, <2>3, <2>5, <2>6, <3>2 DEF CallInv, TypeOK, Fresh
    <3> QED
      BY <3>1, <3>2
  <2>11. ASSUME NEW d \in Calls
        PROVE  Untouched(d)'
    BY <1>0, <2>3, <2>5 DEF Untouched
  <2>12. ASSUME Calm'
         PROVE  CalmInv'
    <3>1. Calm /\ CalmInv
      BY <1>0, <2>5, <2>12 DEF Calm
    <3>2. CalmFields'
      BY <1>0, <2>3, <2>4, <2>5, <3>1, CalmMaker DEF CalmInv, CalmFields, CalmCall, AtIt, Making, TypeOK
    <3>3. ASSUME NEW d \in Calls, d # c
          PROVE  CalmCall(d)'
      <4>1. ~AtIt(d)
        BY <1>0, <3>1, <3>3, CalmMaker DEF AtIt, Making
      <4> QED
        BY <1>0, <2>3, <2>4, <2>5, <3>1, <3>3, <4>1 DEF CalmInv, CalmCall, AtIt, Making, TypeOK
    <3>4. CalmCall(c)'
      BY <1>0, <2>3, <2>4, <2>5, <3>1, CalmMaker DEF CalmInv, CalmFields, CalmCall, AtIt, Making, TypeOK
    <3> QED
      BY <3>2, <3>3, <3>4 DEF CalmInv
  <2> QED
    BY <2>1, <2>8, <2>9, <2>10, <2>11, <2>12 DEF Inv, RaceInv
<1>11. ASSUME NEW c \in Calls, Assign(c)
      PROVE  Inv'
  <2> USE <1>11 DEF Assign
  <2>1. /\ masterReplicator' \in Replicators /\ masterReplicator'.by = c
        /\ masterReplicator'.processor \in Fresh(c) /\ masterReplicator'.models \in Fresh(c)
    <3>1. processor[c] \in Fresh(c) /\ table[c] \in Fresh(c)
      BY <1>0 DEF CallInv
    <3>2. Fresh(c) \subseteq Calls
      BY <1>0 DEF TypeOK, Fresh
    <3>3. masterReplicator' = [by |-> c, processor |-> processor[c], models |-> table[c]]
      OBVIOUS
    <3> QED
      BY <3>1, <3>2, <3>3 DEF Replicators
  <2>2. TypeOK'
    BY <1>0, <2>1 DEF TypeOK
  <2>3. \A d \in Calls : Fresh(d) \subseteq Fresh(d)'
    BY <1>0 DEF TypeOK, Fresh
  <2>4. \A d \in Calls \ {c} : pc'[d] = pc[d] /\ table'[d] = table[d] /\ processor'[d] = processor[d]
                                                /\ returned'[d] = returned[d]
    BY <1>0 DEF TypeOK
  <2>5. pc'[c] = "get" /\ pc[c] # "get" /\ pc[c] # "done" /\ UNCHANGED beside
    BY <1>0 DEF TypeOK
  <2>6. \A r : Whole(r) => Whole(r)'
    BY <1>0, <2>3, <2>4, <2>5 DEF Whole
  <2>7. \A d \in Calls : AtIt(d)' => AtIt(d)
    BY <1>0, <2>4, <2>5 DEF AtIt, Making, CallInv, TypeOK
  <2>8. Together'
    BY <1>0, <2>5, <2>7 DEF Together
  <2>9. FieldInv'
    BY <1>0, <2>3, <2>4, <2>1, <2>5, <2>6 DEF FieldInv, CallInv, Whole
  <2>10. ASSUME NEW d \in Calls
        PROVE  CallInv(d)'
    <3>1. CASE d = c
      BY <1>0, <2>2, <2>3, <2>1, <2>5, <2>6, <3>1 DEF CallInv, TypeOK, Fresh, FieldInv
    <3>2. CASE d # c
      BY <1>0, <2>2, <2>3, <2>4, <2>1, <2>5, <2>6, <3>2 DEF CallInv, TypeOK, Fresh, Together, AtIt, Making
    <3> QED
      BY <3>1, <3>2
  <2>11. ASSUME NEW d \in Calls
        PROVE  Untouched(d)'
    BY <1>0, <2>4, <2>5 DEF Untouched
  <2>12. ASSUME Calm'
         PROVE  CalmInv'
    <3>1. Calm /\ CalmInv
      BY <1>0, <2>5, <2>12 DEF Calm
    <3>2. CalmFields'
      BY <1>0, <2>4, <2>1, <2>5, <3>1, CalmMaker DEF CalmInv, CalmFields, CalmCall, AtIt, Making, TypeOK
    <3>3. ASSUME NEW d \in Calls, d # c
          PROVE  CalmCall(d)'
      <4>1. ~AtIt(d)
        BY <1>0, <3>1, <3>3, CalmMaker DEF AtIt, Making
      <4> QED
        BY <1>0, <2>4, <2>1, <2>5, <3>1, <3>3, <4>1 DEF CalmInv, CalmCall, AtIt, Making, TypeOK
    <3>4. CalmCall(c)'
      BY <1>0, <2>4, <2>1, <2>5, <3>1, CalmMaker DEF CalmInv, CalmFields, CalmCall, AtIt, Making, TypeOK
    <3> QED
      BY <3>2, <3>3, <3>4 DEF CalmInv
  <2> QED
    BY <2>2, <2>8, <2>9, <2>10, <2>11, <2>12 DEF Inv, RaceInv
<1>12. ASSUME NEW c \in Calls, GetModels(c)
      PROVE  Inv'
  <2> USE <1>12 DEF GetModels
  <2>1. TypeOK'
    BY <1>0 DEF TypeOK, Made, Replicators
  <2>2. \A d \in Calls : Fresh(d) \subseteq Fresh(d)'
    BY <1>0 DEF TypeOK, Fresh
  <2>3. \A d \in Calls \ {c} : pc'[d] = pc[d] /\ table'[d] = table[d] /\ processor'[d] = processor[d]
                                                /\ returned'[d] = returned[d]
    BY <1>0 DEF TypeOK
  <2>4. pc'[c] = "done" /\ pc[c] = "get" /\ UNCHANGED <<beside, table>>
    BY <1>0 DEF TypeOK
  <2>5. \A r : Whole(r) => Whole(r)'
    BY <1>0, <2>2, <2>3, <2>4 DEF Whole
  <2>6. \A d \in Calls : AtIt(d)' => AtIt(d)
    BY <1>0, <2>3, <2>4 DEF AtIt, Making, CallInv, TypeOK
  <2>7. Together'
    BY <1>0, <2>4, <2>6 DEF Together
  <2>8. FieldInv'
    BY <1>0, <2>2, <2>3, <2>4, <2>5 DEF FieldInv, CallInv
  <2>9. ASSUME NEW d \in Calls
        PROVE  CallInv(d)'
    <3>1. CASE d = c
      <4>1. returned'[c] = masterReplicator /\ Whole(masterReplicator)
        BY <1>0 DEF TypeOK, CallInv, FieldInv
      <4> QED
        BY <1>0, <2>4, <2>5, <3>1, <4>1 DEF CallInv
    <3>2. CASE d # c
      BY <1>0, <2>1, <2>2, <2>3, <2>4, <2>5, <3>2 DEF CallInv, TypeOK, Fresh, Together, AtIt, Making
    <3> QED
      BY <3>1, <3>2
  <2>10. ASSUME NEW d \in Calls
        PROVE  Untouched(d)'
    BY <1>0, <2>3, <2>4 DEF Untouched
  <2>11. ASSUME Calm'
         PROVE  CalmInv'
    <3>1. Calm /\ CalmInv
      BY <1>0, <2>4, <2>11 DEF Calm
    <3>2. CalmFields'
      BY <1>0, <2>3, <2>4, <3>1, CalmMaker DEF CalmInv, CalmFields, CalmCall, AtIt, Making, TypeOK
    <3>3. ASSUME NEW d \in Calls, d # c
          PROVE  CalmCall(d)'
      BY <1>0, <2>3, <2>4, <3>1, <3>3, CalmMaker DEF CalmInv, CalmFields, CalmCall, AtIt, Making, TypeOK
    <3>4. CalmCall(c)'
      BY <1>0, <2>3, <2>4, <3>1, CalmMaker DEF CalmInv, CalmFields, CalmCall, AtIt, Making, TypeOK
    <3> QED
      BY <3>2, <3>3, <3>4 DEF CalmInv
  <2> QED
    BY <2>1, <2>7, <2>8, <2>9, <2>10, <2>11 DEF Inv, RaceInv
<1>13. CASE UNCHANGED vars
  BY <1>13 DEF vars, Inv, TypeOK, RaceInv, Together, FieldInv, CallInv, Untouched, Whole, Fresh, AtIt, Making, Calm,
                CalmInv, CalmFields, CalmCall
<1> QED
  BY <1>1, <1>2, <1>3, <1>4, <1>5, <1>6, <1>7, <1>8, <1>9, <1>10, <1>11, <1>12, <1>13 DEF Next, Step

LEMMA InvHolds == Spec => []Inv
BY InitInv, StepInv, PTL DEF Spec

\* The fields, what the calls have read of them and what they have returned keep
\* their types.
THEOREM TypeCorrect == Spec => []TypeOK
<1>1. Inv => TypeOK
  BY DEF Inv
<1> QED
  BY <1>1, InvHolds, PTL

\* Calls that do not make a replicator at one time share one with the application,
\* whatever earlier calls threw.
THEOREM CalmCallsShare == Spec => []OneReplicator
<1>1. Inv => OneReplicator
  <2> SUFFICES ASSUME Inv, Calm, NEW c \in Calls, returned[c] # Nobody
               PROVE  /\ returned[c] = masterReplicator
                      /\ returned[c] = [by |-> returned[c].by, processor |-> bundleProcessor,
                                        models |-> sampleMessageDB]
                      /\ handlers = sampleMessageDB
    BY DEF OneReplicator, Calm
  <2>1. returned[c] = masterReplicator /\ Whole(returned[c])
    BY DEF Inv, CalmInv, CalmCall, RaceInv, CallInv
  <2>2. masterReplicator # Nobody
    BY <2>1
  <2>3. /\ bundleProcessor = returned[c].by /\ sampleMessageDB = returned[c].by
        /\ handlers = returned[c].by
    BY <2>1, <2>2 DEF Inv, CalmInv, CalmFields
  <2> QED
    BY <2>1, <2>3, CalmWhole
<1> QED
  BY <1>1, InvHolds, PTL

\* However many calls race, each is given a replicator made of what they made
\* together, and not of what was left behind before, and a handler is there.
THEOREM RacersAreServed == Spec => []RacersGetFresh
<1>1. Inv => RacersGetFresh
  <2> SUFFICES ASSUME Inv, NEW r, r # Nobody,
                      r = masterReplicator \/ \E c \in Calls : r = returned[c]
               PROVE  {r.processor, r.models} \subseteq {r.by} \cup beside[r.by] /\ handlers # Nobody
    BY DEF RacersGetFresh
  <2>1. Whole(r)
    BY DEF Inv, RaceInv, FieldInv, CallInv
  <2>2. masterReplicator # Nobody
    BY <2>1 DEF Inv, RaceInv, CallInv, Whole, Replicators
  <2> QED
    BY <2>1, <2>2 DEF Inv, RaceInv, FieldInv, Whole, Fresh
<1> QED
  BY <1>1, InvHolds, PTL

\* All that ever make a replicator find the field null together.
THEOREM MakersAreTogether == Spec => []NoneAfterAnother
<1>1. Inv => NoneAfterAnother
  BY DEF Inv, RaceInv, Together, AtIt, NoneAfterAnother
<1> QED
  BY <1>1, InvHolds, PTL

===============================================================================
