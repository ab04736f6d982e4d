--------------------------- MODULE BundleValidators ---------------------------
(***************************************************************************)
(* The validators of BundleUtil, which a handler's validate may call.      *)
(* Each compares one value of a message with what the handler allows, and  *)
(* validateTimestamp with the timestamp of the last block.                 *)
(***************************************************************************)
EXTENDS Integers, Sequences

CONSTANTS
  MaxInt,     \* the greatest int; the smallest is -MaxInt-1
  Timestamps, \* timestamps of a last block, in seconds since the genesis block
  Offsets,    \* offsets a handler allows
  Lengths,    \* lengths a handler allows
  NoText,     \* a string that is null; others are sequences of characters
  Space       \* the characters that String.trim removes

Ints == -MaxInt-1..MaxInt

ASSUME ValidatorsAssumption ==
  /\ MaxInt \in Nat
  /\ Timestamps \subseteq 0..MaxInt
  /\ Offsets \subseteq 0..MaxInt
  /\ Lengths \subseteq 0..MaxInt

\* Subtraction of ints.
Minus(x, y) ==
  LET d == x - y IN
  IF d > MaxInt THEN d - 2 * (MaxInt + 1)
  ELSE IF d < -MaxInt-1 THEN d + 2 * (MaxInt + 1) ELSE d

IsBlank(s) == \A i \in DOMAIN s : s[i] \in Space

VARIABLES
  args,    \* what the last validator was called with
  verdict  \* "none", "valid", or the message of the exception

validatorVars == <<args, verdict>>

NoArgs == [check |-> "none"]

TimestampArgs(value) ==
  [check : {"timestamp"}, value : {value} \cap Ints, last : Timestamps,
   lower : Offsets, upper : Offsets]

TextArgs(text) ==
  [check : {"length"}, text : {text}, min : Lengths, max : Lengths]
    \cup [check : {"nonEmpty"}, text : {text}]

ValidatorsInit == args = NoArgs /\ verdict = "none"

Called(check) == args.check = check /\ verdict = "none"

Verdict(check, v) ==
  /\ Called(check)
  /\ verdict' = v
  /\ UNCHANGED args

\* A handler calls a validator.
Call(a) ==
  /\ args = NoArgs
  /\ args' = a
  /\ UNCHANGED verdict

\* Mutant: the differences are looked at without asking which one is later.
ValidateTimestampUndirected ==
  Verdict("timestamp",
    IF Minus(args.value, args.last) > args.lower THEN "too far from the future"
    ELSE IF Minus(args.last, args.value) > args.upper THEN "too old"
    ELSE "valid")

ValidateTimestamp ==
  Verdict("timestamp",
    IF args.last > args.value /\ Minus(args.value, args.last) > args.lower
    THEN "too far from the future"
    ELSE IF args.last < args.value /\ Minus(args.last, args.value) > args.upper
    THEN "too old"
    ELSE "valid")

\* Mutant: a string of the greatest length is refused.
ValidateLengthBelow ==
  Verdict("length",
    IF args.text = NoText THEN "valid"
    ELSE IF Len(args.text) < args.min THEN "too short"
    ELSE IF Len(args.text) >= args.max THEN "too long" ELSE "valid")

ValidateLength ==
  Verdict("length",
    IF args.text = NoText THEN "valid"
    ELSE IF Len(args.text) < args.min THEN "too short"
    ELSE IF Len(args.text) > args.max THEN "too long" ELSE "valid")

ValidateNonEmpty ==
  Verdict("nonEmpty",
    IF args.text = NoText THEN "null" ELSE IF IsBlank(args.text) THEN "empty" ELSE "valid")

Validate == ValidateTimestamp \/ ValidateLength \/ ValidateNonEmpty

-------------------------------------------------------------------------------
\* validateTimestamp does not refuse a timestamp that is within both offsets of the
\* last block, also where a difference of ints overflows, or the offset of one side is
\* smaller than the distance on the other.
TimelyIsAccepted ==
  /\ args.check = "timestamp"
  /\ args.last - args.value <= args.lower /\ args.value - args.last <= args.upper
  => verdict \in {"none", "valid"}

\* A handler that bounds the length of a string by both validators accepts a
\* string only within the bounds; null passes the one for the length.
AcceptsWithinBounds ==
  /\ args.check = "length" =>
       (verdict = "valid" => args.text = NoText \/ Len(args.text) \in args.min..args.max)
  /\ args.check = "length" /\ args.text # NoText =>
       (Len(args.text) \in args.min..args.max => verdict \in {"none", "valid"})
  /\ args.check = "nonEmpty" /\ verdict = "valid" =>
       args.text # NoText /\ \E i \in DOMAIN args.text : args.text[i] \notin Space

\* What the exception of validateTimestamp says ("timestamp to old"): a timestamp
\* that is further back than the offset allowed is not accepted (no negative ones here,
\* so that no difference overflows).
OldTimestampIsRefused ==
  args.check = "timestamp" /\ verdict = "valid" /\ args.value >= 0 =>
    args.last - args.value <= args.lower

===============================================================================
