\* One pushing thread and one that announces unconfirmed transactions.
SPECIFICATION Spec
CONSTANTS
  t1 = t1
  t2 = t2
  t3 = t3
  m1 = m1
  m2 = m2
  block = block
  peer = peer
  me = me
  you = you
  None = None
  Txs = {t1, t2, t3}
  Accounts <- Accts
  Me = me
  Sender <- SenderOf
  Recipient <- RecipientOf
  Bundles <- Bytes
  Encrypted <- SealedIn
  ToSelf <- SelfIn
  Plain <- PlainIn
  Threads = {block, peer}
  Models = {m1, m2}
  HandlerOf <- Handlers
  Kind <- Kinds
  Filter <- ConfirmedForM2
  Pusher = block
  ModelOrder <- Order
  Basic = {m1}
  MaxBlock = 2
INVARIANTS TypeOK ChainIsInTables RescanRebuilds
PROPERTIES KeepsTables
