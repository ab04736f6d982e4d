\* A seed of three files over a blockchain of two.
SPECIFICATION SeedFairSpec
CONSTANTS
  store = store
  block1 = block1
  block2 = block2
  old1 = old1
  old2 = old2
  db1 = db1
  db2 = db2
  art1 = art1
  SeedFiles = {store, block1, block2}
  OldFiles = {old1, old2}
  DbFiles = {db1, db2}
  ArtifactFiles = {art1}
  Store = store
INVARIANTS SeedTypeOK StartsOnSeed NoMixture NoStaleTables
PROPERTIES CoreIsStarted
