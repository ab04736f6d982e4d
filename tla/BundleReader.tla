----------------------------- MODULE BundleReader -----------------------------
(***************************************************************************)
(* BundleReader.getBytes: the bundles a transaction carries, as far as     *)
(* this node can open them.  A transaction has up to three attachments     *)
(* that may hold a bundle: a message encrypted to the recipient, one the   *)
(* sender encrypted to itself, and a plain one.  An attachment that is     *)
(* marked as text holds none.                                              *)
(***************************************************************************)
EXTENDS Naturals, Sequences, FiniteSetsExt

CONSTANTS
  Txs,        \* transactions
  Accounts,   \* accounts
  Me,         \* the account of the node's secret phrase, None without one
  Sender,     \* transaction -> its sender
  Recipient,  \* transaction -> its recipient
  Bundles,    \* byte arrays that are attached to transactions
  Encrypted,  \* transaction -> the bundle encrypted to the recipient, or None
  ToSelf,     \* transaction -> the bundle the sender encrypted to itself
  Plain,      \* transaction -> the bundle in the plain message
  None        \* null

ASSUME ReaderAssumption ==
  /\ None \notin Txs \cup Accounts \cup Bundles
  /\ Me \in Accounts \cup {None}
  /\ Sender \in [Txs -> Accounts]
  /\ Recipient \in [Txs -> Accounts]
  /\ Encrypted \in [Txs -> Bundles \cup {None}]
  /\ ToSelf \in [Txs -> Bundles \cup {None}]
  /\ Plain \in [Txs -> Bundles \cup {None}]

(***************************************************************************)
(* EncryptedData.decrypt(myPrivateKey, theirPublicKey) of the HEAT core.   *)
(* The key of a message is agreed between two accounts; a pair of keys     *)
(* that belongs to other accounts makes decrypt throw.                     *)
(***************************************************************************)
Decrypts(mine, theirs, sealedBy, sealedFor) ==
  {mine, theirs} = {sealedBy, sealedFor}

\* The public key a message to the recipient is opened with.
SenderKey(t) == IF Sender[t] # Me THEN Sender[t] ELSE Me

\* An attachment that this node tries to open with the wrong keys.
EncryptedThrows(t) ==
  /\ Encrypted[t] # None
  /\ ~Decrypts(Me, SenderKey(t), Sender[t], Recipient[t])

ToSelfThrows(t) ==
  /\ ToSelf[t] # None
  /\ ~Decrypts(Me, Me, Sender[t], Sender[t])

\* getBytes ends with an exception.  A node without a secret phrase does not
\* look at the encrypted attachments.
GetBytesThrows(t) == Me # None /\ (EncryptedThrows(t) \/ ToSelfThrows(t))

IfPresent(b) == IF b = None THEN << >> ELSE <<b>>

\* The list getBytes returns; its null is the empty list here.
GetBytes(t) ==
  (IF Me = None THEN << >> ELSE IfPresent(Encrypted[t]) \o IfPresent(ToSelf[t]))
    \o IfPresent(Plain[t])

===============================================================================
