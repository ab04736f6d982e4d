-------------------------- MODULE MCMasterReplicator --------------------------
(***************************************************************************)
(* MasterReplicator for TLC: who sends what to whom.  The node's account   *)
(* is "me"; model m1 is basic and takes every message, model m2 is not and *)
(* takes confirmed ones only.                                              *)
(***************************************************************************)
EXTENDS MasterReplicator, TLC

CONSTANTS t1, t2, t3, m1, m2, block, peer, me, you

(***************************************************************************)
(* t1, from you to me, carries two bundles for m1: a sealed one, and a     *)
(* plain one that overwrites it.  t2, from me to myself, carries a bundle  *)
(* for m2 that is invalid and one for m1 behind it: the filter of m2       *)
(* decides whether the latter is reached.  t3, from me to you, has a       *)
(* sealed part this node cannot open, and a plain bundle for m2.           *)
(***************************************************************************)
Accts == {me, you}
SenderOf == Restrict(t1 :> you @@ t2 :> me @@ t3 :> me, Txs)
RecipientOf == Restrict(t1 :> me @@ t2 :> me @@ t3 :> you, Txs)

SealedIn == Restrict(t1 :> "draft" @@ t2 :> "broken" @@ t3 :> "draft", Txs)
SelfIn == Restrict(t1 :> None @@ t2 :> "unknown" @@ t3 :> None, Txs)
PlainIn == Restrict(t1 :> "final" @@ t2 :> "behind" @@ t3 :> "public", Txs)

Bytes == {"draft", "final", "broken", "unknown", "behind", "public"}
Handlers == "draft" :> m1 @@ "final" :> m1 @@ "broken" :> m2
              @@ "unknown" :> None @@ "behind" :> m1 @@ "public" :> m2
Kinds == [b \in Bytes |-> IF b = "broken" THEN "invalid" ELSE "good"]

\* m2 takes confirmed transactions only.
ConfirmedForM2 == [m \in {m1, m2} |->
                     [t \in Txs |-> [c \in BOOLEAN |-> m = m1 \/ c]]]

Order == <<m1, m2>>

===============================================================================
