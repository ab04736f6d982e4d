------------------------------ MODULE BundleCodec ------------------------------
(***************************************************************************)
(* The message classes and BundleUtil.toArray, readString and writeString: *)
(* a message is written into a byte array behind its bundle id and read by *)
(* the receiver's handler, or it is put in a JSON object and read from it, *)
(* as it is or by way of JSON text.                                        *)
(*                                                                         *)
(* A byte has Radix values, 256 in Java; shorts, ints and longs have their *)
(* 2, 4 and 8 bytes, and wrap as those do.                                 *)
(***************************************************************************)
EXTENDS Integers, SequencesExt

CONSTANTS
  Radix,      \* number of values of a byte
  Capacity,   \* Constants.MAX_ARBITRARY_MESSAGE_LENGTH of the HEAT core
  BundleIds,  \* the ids, bytes, ints, longs and strings that are sent
  Ids,
  ByteValues,
  IntValues,
  LongValues,
  Texts

\* The number of values of n bytes, and their values as signed numbers.
Span[n \in Nat] == IF n = 0 THEN 1 ELSE Radix * Span[n-1]
Signed(u, n) == IF u < Span[n] \div 2 THEN u ELSE u - Span[n]
Narrow(x, n) == Signed(x % Span[n], n)
IsSigned(x, n) == Narrow(x, n) = x

ASSUME CodecAssumption ==
  /\ Radix \in Nat /\ Radix >= 4 /\ Radix % 2 = 0
  /\ Capacity \in Nat
  /\ BundleIds \cup Ids \cup ByteValues \cup IntValues \cup LongValues \subseteq Int
  /\ \A b \in BundleIds : IsSigned(b, 2)
  /\ \A x \in Ids \cup LongValues : IsSigned(x, 8)
  /\ \A x \in IntValues : IsSigned(x, 4)
  /\ \A x \in ByteValues : IsSigned(x, 1)

(***************************************************************************)
(* Strings.  A text is a sequence of characters: "a" takes one byte in     *)
(* UTF-8 and "e" two, "0" is the character of the byte 0, and "?" stands   *)
(* for what is no character.  No string (null) is the text <<"null">>.     *)
(***************************************************************************)
Null == <<"null">>

ASSUME TextAssumption == Texts \subseteq Seq({"0", "a", "e"}) \cup {Null}

\* Convert.toBytes and Convert.toString of the HEAT core.
Utf8(s) == FlattenSeq([i \in DOMAIN s |->
  CASE s[i] = "0" -> <<0>> [] s[i] = "a" -> <<1>> [] s[i] = "e" -> <<2, 3>>])

CharsAt(bytes, i) ==
  CASE bytes[i] = 0 -> <<"0">>
    [] bytes[i] = 1 -> <<"a">>
    [] bytes[i] = 2 -> IF i < Len(bytes) /\ bytes[i+1] = 3 THEN <<"e">>
                       ELSE <<"?">>
    [] OTHER -> IF i > 1 /\ bytes[i-1] = 2 THEN << >> ELSE <<"?">>

FromUtf8(bytes) == FlattenSeq([i \in DOMAIN bytes |-> CharsAt(bytes, i)])

(***************************************************************************)
(* ByteBuffer, little endian.                                              *)
(***************************************************************************)
\* x, which may be negative, in n bytes.
Little(x, n) == [i \in 1..n |-> (x \div Span[i-1]) % Radix]

Number(bytes) ==
  Signed(FoldRight(LAMBDA b, rest : b + Radix * rest, bytes, 0), Len(bytes))

GetAt(bytes, from, n) == Number(SubSeq(bytes, from, from + n - 1))

\* Mutant: the characters are counted, not the bytes.
WriteStringOfChars(s) ==
  LET length == Narrow(Len(s), 2) IN
  Little(length, 2) \o SubSeq(Utf8(s), 1, length)

\* writeString: the number of bytes is cast to a short; with a negative one the
\* loop writes nothing.
WriteString(s) ==
  LET length == Narrow(Len(Utf8(s)), 2) IN
  Little(length, 2) \o SubSeq(Utf8(s), 1, length)

StringFits(s) == Len(Utf8(s)) < Span[2] \div 2

\* readString at a position: a negative length is a NegativeArraySizeException,
\* too great a one a BufferUnderflowException.
StringLength(bytes, from) == GetAt(bytes, from, 2)

ReadStringThrows(bytes, from) ==
  \/ Len(bytes) < from + 1
  \/ StringLength(bytes, from) < 0
  \/ Len(bytes) < from + 1 + StringLength(bytes, from)

ReadString(bytes, from) ==
  FromUtf8(SubSeq(bytes, from + 2, from + 1 + StringLength(bytes, from)))

(***************************************************************************)
(* Messages.  All classes but the sample message extend LongIdMessage.     *)
(***************************************************************************)
Message(kinds, ids, numbers, texts) ==
  [kind : kinds, id : ids, number : numbers, text : texts]

Messages ==
  UNION {Message({"longId"}, Ids, {0}, {<< >>}),
         Message({"boolean"}, Ids, {0, 1}, {<< >>}),
         Message({"byte"}, Ids, ByteValues, {<< >>}),
         Message({"int"}, Ids, IntValues, {<< >>}),
         Message({"long", "unsignedLong"}, Ids, LongValues, {<< >>}),
         Message({"string"}, Ids, {0}, Texts),
         Message({"sample"}, {0}, {0}, Texts)}

HasId(kind) == kind # "sample"
HasText(kind) == kind \in {"string", "sample"}

\* The bytes a class reads for its number.
Size(kind) == CASE kind \in {"boolean", "byte"} -> 1
                [] kind = "int" -> 4
                [] kind \in {"long", "unsignedLong"} -> 8
                [] OTHER -> 0

IdSize(kind) == IF HasId(kind) THEN 8 ELSE 0

\* write(ByteBuffer)
WriteThrows(m) == HasText(m.kind) /\ m.text = Null

WriteMessage(m) ==
  Little(m.id, IdSize(m.kind)) \o
    (IF HasText(m.kind) THEN WriteString(m.text) ELSE Little(m.number, Size(m.kind)))

\* read(ByteBuffer), behind the bundle id.
ReadThrows(kind, bytes) ==
  IF HasText(kind) THEN ReadStringThrows(bytes, 3 + IdSize(kind))
  ELSE Len(bytes) < 2 + IdSize(kind) + Size(kind)

ReadMessage(kind, bytes) ==
  LET at == 3 + IdSize(kind)
      n == IF HasText(kind) \/ Size(kind) = 0 THEN 0
           ELSE GetAt(bytes, at, Size(kind))
  IN [kind |-> kind,
      id |-> IF HasId(kind) THEN GetAt(bytes, 3, 8) ELSE 0,
      number |-> IF kind = "boolean" /\ n # 0 THEN 1 ELSE n,
      text |-> IF HasText(kind) THEN ReadString(bytes, at) ELSE << >>]

\* Boxed values of a JSON object: digits are a string that spells a number.
Boxed(type, number, text) == [type |-> type, number |-> number, text |-> text]
Nothing == Boxed("none", 0, << >>)
Unsigned(x) == x % Span[8]

\* Mutant: the id is spelled as a signed number.
JsonIdSigned(m) == IF HasId(m.kind) THEN Boxed("digits", m.id, << >>) ELSE Nothing

\* write(JSONObject)
JsonId(m) ==
  IF HasId(m.kind) THEN Boxed("digits", Unsigned(m.id), << >>) ELSE Nothing

JsonValue(m) ==
  CASE m.kind = "boolean" -> Boxed("Boolean", m.number, << >>)
    [] m.kind \in {"byte", "int"} -> Boxed("Integer", m.number, << >>)
    [] m.kind = "long" -> Boxed("digits", m.number, << >>)
    [] m.kind = "unsignedLong" -> Boxed("digits", Unsigned(m.number), << >>)
    [] HasText(m.kind) -> Boxed("String", 0, m.text)
    [] OTHER -> Nothing

\* JSON text knows one integer type, which the parser reads as a Long.
Parsed(v) == IF v.type = "Integer" THEN [v EXCEPT !.type = "Long"] ELSE v

ParsesUnsigned(v) == v.type = "digits" /\ v.number \in 0..Span[8]-1
ParsesSigned(v) == v.type = "digits" /\ IsSigned(v.number, 8)

\* read(JSONObject): a cast or a parse fails.
ReadJsonThrows(kind, jid, v) ==
  \/ HasId(kind) /\ ~ParsesUnsigned(jid)
  \/ kind = "byte" /\ v.type # "Long"
  \/ kind = "int" /\ v.type \notin {"Integer", "Long"}
  \/ kind = "long" /\ ~ParsesSigned(v)
  \/ kind = "unsignedLong" /\ ~ParsesUnsigned(v)

ReadJson(kind, jid, v) ==
  [kind |-> kind,
   id |-> IF HasId(kind) THEN Signed(jid.number, 8) ELSE 0,
   number |-> CASE kind = "byte" -> Narrow(v.number, 1)
                [] kind = "int" -> Narrow(v.number, 4)
                [] kind = "unsignedLong" -> Signed(v.number, 8)
                [] OTHER -> v.number,
   text |-> v.text]

\* Mutant: the strings are not compared.
EqualsWithoutText(m, o) ==
  /\ HasId(m.kind) /\ HasId(o.kind)
  /\ m.id = o.id
  /\ m.kind # "longId" => o.kind = (IF m.kind = "unsignedLong" THEN "long" ELSE m.kind)
  /\ m.kind \notin {"longId", "string"} => m.number = o.number

\* m.equals(o).  instanceof holds for subclasses; UnsignedLongMessage asks for
\* a LongMessage, which it is not.
Equals(m, o) ==
  /\ HasId(m.kind) /\ HasId(o.kind)
  /\ m.id = o.id
  /\ m.kind # "longId" => o.kind = (IF m.kind = "unsignedLong" THEN "long" ELSE m.kind)
  /\ m.kind = "string" => m.text = o.text
  /\ m.kind \notin {"longId", "string"} => m.number = o.number

-------------------------------------------------------------------------------
VARIABLES
  bundleId,  \* what is sent: the id of the handler and the message
  message,
  array,     \* the byte array of the message
  json,      \* the JSON object: its id and its value
  got,       \* what was read, when step is "read" or "readJson"
  step       \* "made", "array", "json", "text", then "read", "readJson" or "threw"

codecVars == <<bundleId, message, array, json, got, step>>

CodecInit ==
  /\ bundleId \in BundleIds
  /\ message \in Messages
  /\ array = << >>
  /\ json = <<Nothing, Nothing>>
  /\ got = [id |-> 0, message |-> message]
  /\ step = "made"

Bytes == Little(bundleId, 2) \o WriteMessage(message)

\* Mutant: a buffer that grows.
CanWriteMore == ~WriteThrows(message)

\* Not a null string, nor a BufferOverflowException.
CanWrite == ~WriteThrows(message) /\ Len(Bytes) <= Capacity

\* toArray
ToArray ==
  /\ step = "made"
  /\ CanWrite
  /\ array' = Bytes
  /\ step' = "array"
  /\ UNCHANGED <<bundleId, message, json, got>>

ToArrayThrows ==
  /\ step = "made"
  /\ ~CanWrite
  /\ step' = "threw"
  /\ UNCHANGED <<bundleId, message, array, json, got>>

\* The receiver finds the handler of the bundle id, which reads the message.
GetMessage ==
  /\ step = "array"
  /\ ~ReadThrows(message.kind, array)
  /\ got' = [id |-> GetAt(array, 1, 2), message |-> ReadMessage(message.kind, array)]
  /\ step' = "read"
  /\ UNCHANGED <<bundleId, message, array, json>>

GetMessageThrows ==
  /\ step = "array"
  /\ ReadThrows(message.kind, array)
  /\ step' = "threw"
  /\ UNCHANGED <<bundleId, message, array, json, got>>

ToJson ==
  /\ step = "made"
  /\ json' = <<JsonId(message), JsonValue(message)>>
  /\ step' = "json"
  /\ UNCHANGED <<bundleId, message, array, got>>

\* toJSONString, and a JSON parser.
ToTextAndBack ==
  /\ step = "json"
  /\ json' = <<Parsed(json[1]), Parsed(json[2])>>
  /\ step' = "text"
  /\ UNCHANGED <<bundleId, message, array, got>>

GetFromJson ==
  /\ step \in {"json", "text"}
  /\ ~ReadJsonThrows(message.kind, json[1], json[2])
  /\ got' = [got EXCEPT !.message = ReadJson(message.kind, json[1], json[2])]
  /\ step' = "readJson"
  /\ UNCHANGED <<bundleId, message, array, json>>

GetFromJsonThrows ==
  /\ step \in {"json", "text"}
  /\ ReadJsonThrows(message.kind, json[1], json[2])
  /\ step' = "threw"
  /\ UNCHANGED <<bundleId, message, array, json, got>>

CodecNext ==
  \/ ToArray \/ ToArrayThrows \/ GetMessage \/ GetMessageThrows
  \/ ToJson \/ ToTextAndBack \/ GetFromJson \/ GetFromJsonThrows

-------------------------------------------------------------------------------
(***************************************************************************)
(* Properties.                                                             *)
(***************************************************************************)

CodecTypeOK ==
  /\ array \in Seq(0..Radix-1) /\ Len(array) <= Capacity
  /\ IsSigned(got.id, 2) /\ IsSigned(got.message.id, 8)
  /\ got.message.kind = "int" => IsSigned(got.message.number, 4)
  /\ step \in {"made", "array", "json", "text", "read", "readJson", "threw"}

Fits == HasText(message.kind) /\ message.text # Null => StringFits(message.text)

\* Whatever toArray makes of a message whose string has a length of 15 bits is
\* read, and read as it was: the id of its handler, every sign and every byte.  A
\* longer string costs itself only: what is read beside it is what was sent, and
\* of the string its first bytes are.
ArrivesAsSent ==
  /\ Fits => /\ step = "read" => got = [id |-> bundleId, message |-> message]
             /\ step = "array" => ~ReadThrows(message.kind, array)
  /\ step = "read" =>
       /\ got.id = bundleId
       /\ got.message.id = message.id
       /\ HasText(message.kind) =>
            \E n \in 0..Len(Utf8(message.text)) :
              got.message.text = FromUtf8(SubSeq(Utf8(message.text), 1, n))

\* By way of JSON every message is read as it was, with one exception: a
\* ByteMessage can only be read from text.
JsonReadsWhatItWrote ==
  /\ step = "readJson" => got.message = message
  /\ step \in {"json", "text"} =>
       (ReadJsonThrows(message.kind, json[1], json[2]) <=>
          message.kind = "byte" /\ step = "json")

\* A message read and the message sent say they are equal, each of the other,
\* when and only when they are the same; two UnsignedLongMessages never do,
\* and a SampleMessageMessage has no equals of its own.
EqualsTellsApart ==
  step \in {"read", "readJson"} =>
    ((Equals(message, got.message) /\ Equals(got.message, message)) <=>
       /\ got.message = message
       /\ message.kind \notin {"unsignedLong", "sample"})

===============================================================================
