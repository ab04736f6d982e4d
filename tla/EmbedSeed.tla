------------------------------- MODULE EmbedSeed -------------------------------
(***************************************************************************)
(* Embed.init with a blockchain seed: the artifacts, the database and the  *)
(* blockchain directory are deleted, the seed is copied, and its key/value *)
(* file "store" is unlocked and told whether to rescan; then the HEAT core *)
(* is started.  Each file operation may throw an IOException, which init   *)
(* prints before it starts the core all the same; and the process may die  *)
(* at any step and be started again.                                       *)
(*                                                                         *)
(* Once it runs, the core writes to all three directories.                 *)
(***************************************************************************)
CONSTANTS
  SeedFiles,      \* the files of the seed
  OldFiles,       \* the files of a blockchain the core has worked on
  DbFiles,        \* the files of the replicator's database
  ArtifactFiles,  \* the files it keeps of its work
  Store           \* the file "store" of the seed

\* (A seed without a store makes its reader throw, as Throw does.)
ASSUME SeedAssumption ==
  /\ SeedFiles \cap OldFiles = {}
  /\ Store \in SeedFiles

VARIABLES
  artifacts,  \* what is in the three directories
  db,
  blockchain,
  locked,     \* in the file store: is any key/value store locked
  scan,       \* in the file store: scan.rescan and scan.validate
  content,    \* whose key/value pairs the file store holds
  loaded,     \* is there a key/value store locked in the Properties read
  setup,         \* where init is
  failed,     \* an IOException was printed in this start
  rescan, rescanAndValidate  \* of the EmbedBuilder

disk == <<artifacts, db, blockchain>>
storeVars == <<locked, scan, content>>
builder == <<rescan, rescanAndValidate>>
seedVars == <<disk, storeVars, loaded, setup, failed, builder>>

\* What the core is told to do first.
ScanFlags == {"unset", "none", "rescan", "rescanAndValidate"}

SeedTypeOK ==
  /\ artifacts \in SUBSET ArtifactFiles
  /\ db \in SUBSET DbFiles
  /\ blockchain \in SUBSET (SeedFiles \cup OldFiles)
  /\ locked \in BOOLEAN
  /\ scan \in ScanFlags
  /\ content \in {"core", "seed", "empty"}
  /\ loaded \in BOOLEAN
  /\ setup \in {"off", "artifacts", "db", "blockchain", "copy", "load", "open",
             "write", "started", "running"}
  /\ failed \in BOOLEAN
  /\ rescan \in BOOLEAN /\ rescanAndValidate \in BOOLEAN
  /\ setup = "write" => content = "empty"

\* A node that has run before, or has not.
SeedInit ==
  /\ \/ artifacts = {} /\ db = {} /\ blockchain = {}
     \/ artifacts = ArtifactFiles /\ db = DbFiles /\ blockchain = OldFiles
  /\ locked = TRUE
  /\ scan = "unset"
  /\ content = "core"
  /\ loaded = FALSE
  /\ setup = "off"
  /\ failed = FALSE
  /\ rescan \in BOOLEAN /\ rescanAndValidate \in BOOLEAN

SetupBegins ==
  /\ setup = "off"
  /\ setup' = "artifacts"
  /\ failed' = FALSE
  /\ UNCHANGED <<disk, storeVars, loaded, builder>>

\* An IOException leaves setupBlockchainSeed; init prints it and goes on.
Throw ==
  /\ setup' = "started"
  /\ failed' = TRUE
  /\ UNCHANGED <<disk, storeVars, loaded, builder>>

\* deleteDirectory removes the files one by one; with none left it goes on.
\* One that does not let itself be removed makes it throw in the end.
DeleteArtifacts ==
  /\ setup = "artifacts"
  /\ \/ \E f \in artifacts : artifacts' = artifacts \ {f} /\ UNCHANGED setup
     \/ artifacts = {} /\ setup' = "db" /\ UNCHANGED artifacts
  /\ UNCHANGED <<db, blockchain, storeVars, loaded, failed, builder>>

\* Mutant: the database is left.
DeleteDbNot ==
  /\ setup = "db"
  /\ setup' = "blockchain"
  /\ UNCHANGED <<disk, storeVars, loaded, failed, builder>>

DeleteDb ==
  /\ setup = "db"
  /\ \/ \E f \in db : db' = db \ {f} /\ UNCHANGED setup
     \/ db = {} /\ setup' = "blockchain" /\ UNCHANGED db
  /\ UNCHANGED <<artifacts, blockchain, storeVars, loaded, failed, builder>>

\* Mutant: deleteQuietly.
DeleteBlockchainQuietly ==
  /\ setup = "blockchain"
  /\ \/ \E f \in blockchain : blockchain' = blockchain \ {f} /\ UNCHANGED setup
     \/ setup' = "copy" /\ UNCHANGED blockchain
  /\ UNCHANGED <<artifacts, db, storeVars, loaded, failed, builder>>

DeleteBlockchain ==
  /\ setup = "blockchain"
  /\ \/ \E f \in blockchain : blockchain' = blockchain \ {f} /\ UNCHANGED setup
     \/ blockchain = {} /\ setup' = "copy" /\ UNCHANGED blockchain
  /\ UNCHANGED <<artifacts, db, storeVars, loaded, failed, builder>>

\* copyDirectory; the seed's store may have been locked when it was taken.
Copy ==
  /\ setup = "copy"
  /\ \/ \E f \in SeedFiles \ blockchain :
          /\ blockchain' = blockchain \cup {f}
          /\ \/ f # Store /\ UNCHANGED storeVars
             \/ /\ f = Store
                /\ content' = "seed"
                /\ locked' \in BOOLEAN
                /\ scan' = "unset"
          /\ UNCHANGED setup
     \/ SeedFiles \subseteq blockchain /\ setup' = "load"
        /\ UNCHANGED <<blockchain, storeVars>>
  /\ UNCHANGED <<artifacts, db, loaded, failed, builder>>

\* Mutant: a locked store is waited for.
LoadWaits ==
  /\ setup = "load"
  /\ Store \in blockchain
  /\ ~locked
  /\ loaded' = locked
  /\ setup' = "open"
  /\ UNCHANGED <<disk, storeVars, failed, builder>>

\* The store is read into a Properties object.
Load ==
  /\ setup = "load"
  /\ Store \in blockchain
  /\ loaded' = locked
  /\ setup' = "open"
  /\ UNCHANGED <<disk, storeVars, failed, builder>>

\* Mutant: the file is opened for appending.
OpenAppends ==
  /\ setup = "open"
  /\ setup' = "write"
  /\ UNCHANGED <<disk, storeVars, loaded, failed, builder>>

\* new FileWriter empties the file.
Open ==
  /\ setup = "open"
  /\ content' = "empty" /\ locked' = FALSE /\ scan' = "unset"
  /\ setup' = "write"
  /\ UNCHANGED <<disk, loaded, failed, builder>>

\* Mutant: the loop that unlocks is missing.
WriteLocked ==
  /\ setup = "write"
  /\ content' = "seed"
  /\ locked' = loaded
  /\ scan' = IF rescanAndValidate THEN "rescanAndValidate"
             ELSE IF rescan THEN "rescan" ELSE "none"
  /\ setup' = "started"
  /\ UNCHANGED <<disk, loaded, failed, builder>>

\* Each lock is released, the flags are set as the builder says, and the file
\* is written.
Write ==
  /\ setup = "write"
  /\ content' = "seed"
  /\ locked' = FALSE
  /\ scan' = IF rescanAndValidate THEN "rescanAndValidate"
             ELSE IF rescan THEN "rescan" ELSE "none"
  /\ setup' = "started"
  /\ UNCHANGED <<disk, loaded, failed, builder>>

InSetup == setup \notin {"off", "started", "running"}

\* Heat.init: from now on all three directories are the core's.
CoreRuns ==
  /\ setup = "started"
  /\ setup' = "running"
  /\ artifacts' = ArtifactFiles
  /\ db' = DbFiles
  /\ blockchain' = OldFiles
  /\ content' = "core" /\ locked' = TRUE /\ scan' = "unset"
  /\ UNCHANGED <<loaded, failed, builder>>

\* The process ends or dies; or an unchecked exception leaves init, which start
\* prints, and the core is not started.
Crash ==
  /\ setup # "off"
  /\ setup' = "off"
  /\ UNCHANGED <<disk, storeVars, loaded, failed, builder>>

SetupStep == DeleteArtifacts \/ DeleteDb \/ DeleteBlockchain \/ Copy \/ Load
               \/ Open \/ Write

SeedNext == SetupBegins \/ SetupStep \/ (InSetup /\ Throw) \/ CoreRuns \/ Crash

SeedSpec == SeedInit /\ [][SeedNext]_seedVars

\* File operations end; nothing makes anybody start the node again.
SeedFairSpec == SeedSpec /\ WF_seedVars(SetupStep)

-------------------------------------------------------------------------------
(***************************************************************************)
(* Properties.                                                             *)
(***************************************************************************)

\* When no exception was printed, the core starts on the seed, the whole seed
\* and nothing else: every lock released, the flags as the builder says, and no
\* tables of another chain -- however earlier starts failed or died half way.
StartsOnSeed ==
  setup = "started" /\ ~failed =>
    /\ artifacts = {} /\ db = {} /\ blockchain = SeedFiles
    /\ content = "seed" /\ ~locked
    /\ scan = IF rescanAndValidate THEN "rescanAndValidate"
              ELSE IF rescan THEN "rescan" ELSE "none"

\* Whatever fails, the blockchain directory never mixes files of the seed with
\* files of an earlier chain.
NoMixture == blockchain \cap SeedFiles = {} \/ blockchain \cap OldFiles = {}

\* Whatever fails, the core never finds the tables of an earlier chain beside
\* the files of the seed: the tables go first.
NoStaleTables == blockchain \cap SeedFiles # {} => artifacts = {} /\ db = {}

\* A start that is not killed comes to the core, by exception or not.
CoreIsStarted == InSetup ~> ~InSetup

===============================================================================
