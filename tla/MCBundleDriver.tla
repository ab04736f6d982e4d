---------------------------- MODULE MCBundleDriver ----------------------------
(***************************************************************************)
(* BundleDriver for TLC: who sends which transaction.                      *)
(***************************************************************************)
EXTENDS BundleDriver, TLC

CONSTANTS c1, c2, t1, t2, e1

\* Two calls that send two different transactions.
Distinct == c1 :> t1 @@ c2 :> t2

\* Two calls with the same content: one transaction.
Shared == c1 :> t1 @@ c2 :> t1

\* One call.
Single == c1 :> t1

===============================================================================
