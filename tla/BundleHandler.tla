----------------------------- MODULE BundleHandler -----------------------------
(***************************************************************************)
(* A message on its way: it is written, read by the handler of its bundle  *)
(* id, and a value of what was read is validated by the handler.  The      *)
(* values are therefore those that a sender can make a receiver see, cut   *)
(* strings among them.                                                     *)
(***************************************************************************)
EXTENDS BundleCodec, BundleValidators

ASSUME HandlerAssumption ==
  /\ MaxInt = Span[4] \div 2 - 1
  /\ NoText = Null

vars == <<codecVars, validatorVars>>

TypeOK ==
  /\ CodecTypeOK
  /\ args.check \in {"none", "timestamp", "length", "nonEmpty"}
  /\ verdict = "valid" => step \in {"read", "readJson"}

Init == CodecInit /\ ValidatorsInit

\* write and read of BundleMessage, for bytes and for JSON.
Transfer == args = NoArgs /\ CodecNext /\ UNCHANGED validatorVars

\* validate of the BundleHandler: an int is a timestamp, a text is bounded.
CallValidator ==
  /\ step \in {"read", "readJson"}
  /\ \/ got.message.kind = "int" /\ \E a \in TimestampArgs(got.message.number) : Call(a)
     \/ HasText(got.message.kind) /\ \E a \in TextArgs(got.message.text) : Call(a)
  /\ UNCHANGED codecVars

Next == Transfer \/ CallValidator \/ (Validate /\ UNCHANGED codecVars)

Spec == Init /\ [][Next]_vars

===============================================================================
