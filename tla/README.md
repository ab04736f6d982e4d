# Specifications of heat-embed

TLA+ specifications, TLC models and TLAPS proofs for heat-embed, the library
that runs a HEAT ledger node inside an application and turns the binary
messages of its blockchain into calls of the application's handlers. Paths
below are relative to `src/main/java/com/heatledger/embed/`, but for `conf/`.

## 1. Inventory

### 1.1 The parts and what they hold

| Part | Source | State | Operations |
|---|---|---|---|
| Response collector | `bundles/BundleHandlerResponseCollector` | a `ConcurrentHashMap` from transaction ids to plain `ArrayList`s of responses | `startCollector`, `endCollector`, `getResponses`, four `report...` methods |
| Bundle driver | `bundles/BundleDriver` | none of its own; the local state of each call | `sendMessage`, `buildAndBroadCast` |
| Bundle reader | `bundles/BundleReader` | the node's keys, immutable | `getBytes` |
| Bundle processor | `bundles/BundleProcessor`, `AbstractBundleHandler`, `BundleHandler`, `BundleFilter` | none of its own; the run of each announcement | `processTransactions`, `filter`, `getMessage`, `validate`, `apply` |
| Master replicator | `replicator/MasterReplicator` | the array of models, immutable | the confirmed and unconfirmed listeners, `beforeFullRescan` |
| Models (tables) | `replicator/BasicReplicator`, `sample/SampleMessageDB`, `sql-sample_message.properties` | SQL tables | `create` (a `MERGE`), `clear`, reads |
| Lifecycle | `Embed` | `isReady`, `readyRunnables`, `onReady` | `start`, `ready`, `scan`, `exit`, the shutdown hook |
| Blockchain seed | `Embed.setupBlockchainSeed` | three directories and the properties file `store` | delete, copy, unlock, set the rescan flags |
| Replicator additions | `EmbedExternalReplicatorAdditions` | `masterReplicator`, made on first use | `getExternalReplicatorAdditions` |
| Codec | `bundles/BundleUtil`, `bundles/messages/*`, `AbstractBundleMessage` | none | `toArray`, `readString`, `writeString`, `read`/`write` for buffers and JSON |
| Validators | `bundles/BundleUtil` | none (reads the last block's timestamp) | `validateLength`, `validateNonEmpty`, `validateTimestamp` |
| Builder, API additions, sample wiring | `EmbedBuilder`, `EmbedExternalAPIAdditions`, `sample/SampleMain`, `ResourceSample`, `Models` | configuration | setters, getters |
| Source maps | `conf/source-map.js` (Mozilla's library, vendored) | a generator's mappings, sources, names and contents; a consumer's two sorted lists; the sections of an indexed one; a tree of code | generator: `addMapping`, `setSourceContent`, `applySourceMap`, `toString`, `fromSourceMap`; consumers: the constructors, `fromSourceMap`, `originalPositionFor`, `generatedPositionFor`, `allGeneratedPositionsFor`, `sourceContentFor`, `computeColumnSpans`, `eachMapping`; `SourceNode`: `add`, `prepend`, `join`, `replaceRight`, `setSourceContent`, `toStringWithSourceMap`, `fromStringWithSourceMap` |
| HEAT core | not in the repository | blockchain, unconfirmed pool, listeners, thread pools | `broadcast`, events, `scan`, `init`, `shutdown` |

### 1.2 How they interact

* An application thread (an HTTP request, say) calls `BundleDriver.sendMessage`.
  The driver builds and signs a transaction, puts a list for its id in the
  collector, and calls the core's `broadcast`. The core may announce the
  transaction to `MasterReplicator`'s listener on that very thread before
  `broadcast` returns. The listener runs `BundleProcessor`, which reports what
  the handler concluded to the collector, where the driver picks it up.
* The core announces the same transaction on threads of its own too: when a
  peer sends it back, when it is re-broadcast, when it is in a block. Those
  threads report to the same lists, without a lock.
* The same announcements drive the tables: `apply` merges a row into a table.
  A full rescan first calls `beforeFullRescan`, which empties the tables of the
  `BasicReplicator`s, and then announces the transactions of each block again.
  A block that is popped off in a reorganisation causes no call at all.
* `Embed.start` seeds the directories, then starts the core, which calls
  `onReady` when the blockchain is ready; application threads hand work to
  `Embed.ready` and `Embed.scan`, before or after that.
* `conf/source-map.js` is copied to the core's configuration directory by the
  build; no Java code here calls it. It is most of the repository's lines, and
  its sorting and searching is the kind of code for which checks and proofs do
  best, so it is specified like the rest.

### 1.3 What is hard, and what makes each part correct

* Collector and driver: unsynchronized lists shared between threads; two calls
  that send the same transaction; a broadcast that throws. Correct: no list
  stays behind, a call is told only what a handler concluded for its own
  transaction, and it is always answered.
* Reader, processor, replicator, tables: a bundle that throws drops the rest of
  its transaction and must not touch the others; confirmed and unconfirmed
  announcements of a transaction overlap; crash or database failure between
  two bundles; a rescan while unconfirmed transactions come in. Correct: the
  tables hold what the transactions on the chain say, and a rescan makes them a
  function of the chain.
* Lifecycle: `isReady` and an `ArrayList` shared by threads without
  synchronization, callbacks that throw. Correct: a runnable handed to `ready`
  runs once, after the chain is ready.
* Seed: several file operations any of which can fail, an error that is
  swallowed, a crash in between. Correct: the node starts from the seed or
  starts over.
* Replicator additions: a field made on first use without a lock, by two
  providers that may throw. Correct: the application and the core use one and
  the same processor and models.
* Codec: 16-bit lengths and numbers of different widths. Correct: what is
  written is what is read.
* Validators: subtraction of ints overflows. Correct: what is outside the
  bounds of the handler is refused, what is inside is not.
* Source maps: numbers told as differences to the ones before, two lists sorted
  with random pivots by comparators of six keys, a binary search with two biases;
  sources that go under a root and lead back from there; maps put together from
  sections with offsets, rewritten by other maps, or written and read along a
  tree of code. Correct: what was added is what is read back, a place is answered
  with the nearest mapping, different questions get answers that agree, and no
  step of the way from map to map moves or drops one.

The full list of hazards, each at its line and with the properties that cover
it, is in `PROJECT.json`.


## 2. Plan

Modules are written in the order of what would hurt most. Those above the line
are done.

| Step | Modules | Composes | Abstract specification |
|---|---|---|---|
| A | `BundleHandlerResponseCollector`, `BundleDriver` | the driver extends the collector and runs the processor's reports on it | `SendPromise`: answered once, and only with a verdict a handler reached |
| B | `BundleReader`, `BundleProcessor`, `MasterReplicator` | the replicator extends the processor, which extends the reader | `MessageTable`: what a reader of the tables may rely on |
| C | `Embed` | | |
| D | `EmbedSeed` | | |
| E | `BundleCodec`, `BundleValidators`, `BundleHandler` | a handler validates what the codec made of a message | |
| F | `EmbedExternalReplicatorAdditions` | | |
| J | `SourceMapPaths`, `SourceMapUtil`, `Base64VLQ`, `SourceMapGenerator`, `BinarySearch`, `SourceMapQuestions`, `SourceMapConsumer` | the consumer extends the generator whose map it reads, and the search by which it answers | |
| L | `IndexedSourceMapConsumer`, `SourceNode` | an indexed consumer asks the consumers of its sections; a tree is written with a generator and read with a consumer | |
| G | proofs of `UndisturbedIsExact`, `ChainIsInTables`, `RescanRebuilds`, of the invariants of `Embed`, of `AcceptsWithinBounds` | | |
| H | proofs about the codec, with induction over bytes and fields: `ArrivesAsSent`, `JsonReadsWhatItWrote`, `EqualsTellsApart` | | |
| K | proofs that `quickSort` sorts, and that what a search finds in a sorted list is the answer to the question: `AnswersAreNearest`; that a text is read as what was written: `TextSurvives` | | |
| M | the program of a generator and its consumers as a whole: its types, `AnswersAreNearest`, `AnswersAgree`, `MapSurvives` | | |
| | | | |
| I | a specification of what `ready` promises, implemented by `Embed` outside races | | `ReadyPromise` |
| N | the same for programs with sections and trees: `SectionsSpeakForAll`, `TreeIsMapped` | | |

The theorems were chosen in this order: types; that a list never stays in the
collector; that an answer was reached; that the driver implements
`SendPromise`; that the tables implement `MessageTable`; the seed; the search;
then what the tables hold; the runnables of `Embed`; the isolation of the
senders; the codec; the answers of a source map.

## 3. Modules

`MC...` modules give constants their values for TLC; `...Proofs` modules hold
theorems, and `Recursion` the lemmas about induction that they share. In every module a thread of the program is an element of a set, its
program counter a function on that set, and a step is what the thread does
between two points where another thread can observe or disturb it.

### 3.1 `BundleHandlerResponseCollector` and `BundleDriver`

* `map`, `lists`, `mods`: the `ConcurrentHashMap`, and size, elements and
  `modCount` of each `ArrayList`. A list goes by the name of the call that
  made it, a response by the name of the run of `processTransaction` that made
  it; `status`, `exception`, `transactionId` are its fields.
* `Lookup`, `Find`, `Grow`, `Store`, `SetStatus`, `SetException` are the steps
  of a report. `ArrayList.add` reads and writes `modCount`, the size and the
  array without a lock. `Grow` and `Store` let an overlapping `add` read any
  of the values these had since it began, lose the elements of others and have
  its own lost. (An `ArrayIndexOutOfBoundsException` of such an `add` is a lost
  element.) Fields are read anew by each call, as HotSpot does; reads staler
  than that differ from these by an interleaving.
* `StartCollector` ... `Answer` are the steps of `sendMessage` and
  `buildAndBroadCast`, in the order of the code with its `finally` block. A
  call happens once: a thread that sends twice is two calls.
* `Announce`, `Handle`: the core announces a transaction on another thread,
  and the processor ends up with a verdict or reports nothing. Each event is
  one announcement.
* Two calls can have the same transaction: the id is computed from the content,
  and everything the caller passes can be equal.
* Bundle ids are left out: a transaction of the driver carries one bundle. `None`
  stands for null and for the transaction id 0.
* `broadcast` is the core's. It refuses the transaction, or announces it on the
  caller's thread before it returns, or returns without an announcement.

### 3.2 `BundleReader`, `BundleProcessor`, `MasterReplicator`

* `BundleReader` is the pure part: which bundles a transaction has for this
  node, and whether reading them throws. A wrong key makes `decrypt` throw.
* `batch`, `confirmed`, `at`, `todo` are the local state of a thread in
  `processTransactions`; `rows` are the tables, keyed by transaction as in the
  `MERGE ... KEY (id)` of the SQL. Each way out of a round of the loop over the
  bundles is an action: `SkipBundle` (the `continue`s), `BundleThrows`, `Apply`,
  `ApplyFails` (the database).
* `MasterReplicator` adds the core's chain and what it calls: the two
  listeners (`PushBlock`, `ReplayBlock`, `Unconfirmed`), `beforeFullRescan`,
  one model at a time (`BeforeFullRescan`), and a crash between any two steps.
  One thread, `Pusher`, pushes, pops and rescans, as the core holds its
  blockchain lock meanwhile. A popped block is not announced to anybody.
* `hurt` and `touched` are history variables: what a crash or a failing
  database cut short, and what was announced as unconfirmed during a rescan.
* The handlers are described by their filter, their table and what becomes of
  each bundle. A failure of `clear` in the database is left out.

### 3.3 `Embed`

* `isReady`, `list`, `mods` are the fields; `core`, `next`, `array`, `count`
  the state of `onReady` in `ArrayList.forEach`, which looks at `modCount`
  before each round and at the end. `sizes`, `counts`, `slot` are what an `add`
  under way may have read, as above.
* `Ready`, `AddBegins`, `AddGrows`, `AddStores`, `RunReturns` are `ready`;
  `Listen`, `ScanBegins`, `ScanEnds`, `ScanThrows`, `Unlisten` the runnable
  of `scan`, on whatever thread runs it; `Start`, `OnReady`, ... the core's
  thread.
* `raced`, `straddled`, `aborted`, `threw`, `mingled` record which of the known
  weaknesses a behaviour has met, so that properties can speak of the others.

### 3.4 `EmbedSeed`

Three directories as sets of files and the file `store` by its content, its
locks and its flags; `setup` is where `init` is. `DeleteArtifacts`, `DeleteDb`, `DeleteBlockchain` and `Copy`
take one file at a time; `Load`, `Open` and `Write` are the rewriting of the
store, which `Open` (a new `FileWriter`) empties first. `Throw` is an
`IOException` anywhere, printed by `init`; `Crash` is the end of the process or
an unchecked exception, which `start` prints. A file copied in part counts as
not copied.

### 3.5 `BundleCodec`, `BundleValidators`, `BundleHandler`

* `BundleCodec`: every message class, to bytes and back and to JSON and back
  (as an object, or through text, where the parser reads each integer as a
  `Long`), and `equals`. Widths are kept with a smaller byte: `Radix` values
  for a byte, so that a short has `Radix^2` and so on. Characters take one or
  two bytes in UTF-8.
* `BundleValidators`: the three validators, with subtraction as ints do it.
* `BundleHandler`: a message is sent, read, and a value of what was read is
  validated.

### 3.6 `EmbedExternalReplicatorAdditions`

The field, the fields that the sample application's providers write, and the
calls of the getter, each reading the field twice. The providers of
`sample/SampleMain` return what they read from the application's fields after
they wrote them (lines 73 and 83), and `handlers.put` reads one of them too
(line 81): each of these reads is a step of its own (`ReturnProcessor`,
`MakeHandler`, `ReturnModels`), between which another call may write, so that a
replicator is a record of the call that made it, the call whose processor it has
and the call whose table. `Put` and `Store` are the beginning and the end of
`HashMap.put`, of which one that began on the empty map may be lost to another
that overlapped it. `Throw` stands for an exception in a provider. Writes are
seen in program order; what a thread may see of an object another one is still
building is left out.

### 3.7 Source maps

* `SourceMapPaths`: `normalize`, `join`, `relative`, `isAbsolute` and the parsing of
  URLs, on strings that are split at their slashes: a string is a sequence of `Parts`
  that is not empty, of which `""`, `"."` and `".."` are some. `SourceMapUtil`: the
  shapes of mappings (`Lines` in a generator, `Entries` in a consumer) and the three
  comparators, over an order of strings that is a constant (`Above`). `Base64VLQ`: the digits of a number, with the 32-bit shifts of
  JavaScript; which letter stands for a digit is left out.
* `BinarySearch`: one step is one call of `recursiveSearch`, or one turn of the
  loop that looks for the first of several equal elements.
* `SourceMapQuestions`: what a consumer answers when the search has found an
  index, with spans, contents and names. `applySourceMap`, `fromSourceMap`,
  the sections and the trees ask a map in passing; they use `SearchResult`, which
  is what the search returns according to `SearchIsExact` and the theorem
  `SearchExact`. `Threw` is the answer of a call that throws.
* `SourceMapGenerator`: `array`, `sorted`, `last` are the `MappingList`,
  `sources` and `names` the two `ArraySet`s, `contents` the contents by source.
  `toString` may be called and mappings added afterwards, which is why `last`
  matters. `Array.prototype.sort` may leave mappings that the comparator calls
  equal in any order. `ApplySourceMap` is `applySourceMap`, with what it leaves
  behind when a question throws half way. `IsValid` is `_validateMapping` as it is
  written: it asks whether original place, source and name are falsy, so that a mapping
  without an original place may have an empty string as source or name (`Unplaced`).
  Such a mapping is stored with `false` for its line and column, which count as 0 (`Num`)
  where the text is written and where `applySourceMap` asks for it.
* `SourceMapConsumer`: `generator` and `consumer` are two objects of one program,
  `program` the values that it calls the library with. A consumer is made from
  the text of the generator (`ConstructFromGenerator`), from the generator
  (`FromSourceMap`), or from a text of another tool (`Construct`); a generator is
  made of a consumer (`Regenerate`, which is `SourceMapGenerator.fromSourceMap`).
  `ParseMappings`, then one `DoQuickSort` for each call of `doQuickSort` with any
  pivot, then questions. The text is parsed here before the first question; the
  code parses it within that question, and not at all for a source the map does
  not name. The calls of `doQuickSort` are a list, in the order of the recursion.
* `IndexedSourceMapConsumer`: a consumer with `sections`, each with an offset and a
  map. `FindSection` is the binary search among them, `AskSections` the questions,
  `JoinSections` the parsing that `eachMapping` starts, whose lists keep what was
  read when it throws.
* `SourceNode`: `nodes` is one tree, built by `AppendChunk`, `Prepend`, `JoinWith`,
  `ReplaceRight`, `SetNodeContent`; `WriteTree` is `toStringWithSourceMap`,
  `ReadTree` is `fromStringWithSourceMap`. Code is a sequence of characters, of
  which only the newline matters. `Spec` is here: it composes all of the library.
* `MCSourceMap`: the fourteen programs of the run.

## 4. Runs

| Run | Question | Bounds, and why they are enough |
|---|---|---|
| `two_senders` | do senders of different transactions and announcements stay apart? | two calls, two transactions, one announcement: the second call is any other call, and an announcement may be of either transaction |
| `same_transaction` | what can go wrong when two calls share a list, and does it stay in the collector? | two calls of one transaction and one announcement: three threads on one list, the smallest number with which an `add` and an iteration race while a third list is put in the map |
| `call_ends` | is a call always answered? | one call, one announcement that races with it |
| `last_line` | is the last line of `sendMessage` reached? | one call |
| `tables` | do the tables follow the chain? | three transactions, which between them have every kind of attachment, an overwriting, an invalid and an unreadable bundle; a basic model and another; two threads; blocks of up to two transactions, so that one that throws has one behind it |
| `embed_ready` | which runnables are lost or run twice, and what ends `forEach`? | three calls: two whose adds race and one that does not; `BLOCKCHAIN_READY` twice, which is once after an aborted `onReady` |
| `embed_scan` | whose blocks does a listener hear; do calls return? | two calls of `scan` |
| `seed` | does the core start on the seed? | two old files and three of the seed; any number of starts |
| `messages` | does a message arrive as sent? | bytes of 4 values, a buffer of 18: strings with lengths around half the range of a short (7, 8, 9) and all of it (15, 16, 17), both with characters of one and two bytes; numbers at their limits |
| `timestamps` | is an old timestamp refused? | the same |
| `source_map` | does a map keep what it was told, on every way through the library? | fourteen programs (`Uses`), in any order of their calls. `Order`: up to four mappings (`most`) of seven, written in between or not: equal places, equal original places, no source, a number that does not fit, one that is not valid; four foreign texts with columns that go back, a source named twice, an origin before the first column, an index of no source, a number cut short and a segment of two fields; questions for every place on lines 0 to 2 and columns -1 to 2, of three sources, one of them unknown. `Rooted`: five roots (a path of one part and of two, an absolute path, a host, `file://`) with sources below, above and at the root. `Applied`: a map with and without an index that is none behind one that is, so that applying it throws half way, with and without a path. `WithoutPlace`: mappings without a place, but with an empty string as source or name, with and without a root, to which a map is applied. `Sections`: two sections with every small offset, of four maps, three sections, and two out of order. `Trees`, `WithContents`: trees of three nodes and three snippets, with and without origins and contents. `Pieces`: four texts, one with columns before the first, and four codes, of which some are shorter than their maps. `Base` 4 makes numbers of several digits out of small ones, `Modulus` 32 stands for 2^32 |
| `additions` | do the core and the application use the same replicator, and of whose parts is it? | three calls: one that throws half way, one that succeeds, one that finds it; or three that race, so that a replicator may have three calls' parts |

Deadlock is not checked except in `tables`, `seed` and `source_map`: in the
others every call may be over.

Bounds that are no sets of the model: `MaxBlock` (transactions in one
announcement), `MaxEvents` (how often the core fires `BLOCKCHAIN_READY`), the
fields `most`, `nodes` and `size` of a program of `source_map` (mappings, nodes of
the tree, children in all of them), and
that each call and each event happens once. `embed_ready` uses symmetry, which
is sound as it checks invariants and a property of single steps only, and calls
differ in nothing.

What the properties say is in the comments above them. The deepest:

* `UndisturbedIsExact`, `AnswerWasReached`, `RacesNeedAnother`: isolation of the
  senders in a structure that is shared without a lock; a call that goes wrong --
  its loops throw, its success has the id 0, it is told that nobody was reached --
  shared its list with another thread.
* `ChainIsInTables`, `RescanRebuilds`: a message on the chain is in its table,
  as a whole, whatever was announced, reorganised or thrown around it, and a
  rescan makes a table a function of the chain.
* `LostOnlyInARace`, `RunsOnce`, `IterationBreaksInARace`, `HearsOwnScan`: the
  exact conditions under which the unsynchronized code of `Embed` goes wrong.
* `OneReplicator`, `RacersGetFresh`, `NoneAfterAnother`: one replicator for all
  while calls do not race, also after some that threw; and if they race, what a
  replicator may be mixed of, and who may make one.
* `TimelyIsAccepted`: `validateTimestamp` refuses nothing that is within both
  offsets, although it takes its differences the wrong way round (section 8).
* `MapSurvives`, `AnswersAreNearest`, `AnswersAgree`: written, read, sorted and
  searched, a mapping is still found from both sides, and the name in one answer
  can be asked for in the next question.
* `ApplyIsWhole`, `CopiesKeep`, `SectionsSpeakForAll`, `TreeIsMapped`: a map that is
  rewritten by another, regenerated, put together from sections, or written and
  read along a tree says of the code what the maps it came from say. Each is a
  conjunction of named parts, one for each way or each question, with the
  conditions under which the code breaks it (section 8).
* `StartsOnSeed`, `NoMixture`, `NoStaleTables`: the order of the file operations
  protects against each failure, but for those that `init` swallows.

Each property of each passing run has a mutant in `PROJECT.json`, a plausible
bug in the code under which the run finds it violated. The type invariants of
`BundleDriver`, `Embed` and `EmbedExternalReplicatorAdditions` are in no run: they
are proved, and the other proofs rest on them.

Of the hazards listed in `PROJECT.json`, some of those of `conf/source-map.js` have
no property: the code does one of several things there and nothing says which is
right. They are in the model, and the conditions of the properties leave them out
(section 8).

## 5. Fairness

* `BundleDriver`: each thread that is inside `sendMessage` or
  `processTransaction` keeps running, and `broadcast` returns. There is no lock
  to wait for, so weak fairness is what the scheduler gives. Callers need not
  call and the core need not announce.
* `MasterReplicator` states no fairness: its properties are about what the tables
  hold, not about when.
* `Embed`: `onReady`, calls that have begun and runnables that run go on.
  That a scan ends is the core's promise; the application's runnables are taken
  to end. The core need not become ready.
* `EmbedSeed`: file operations end. Nobody needs to start the node.
* `BinarySearch` and `SourceMapConsumer` state none: that a search ends is
  stated as a measure that each of its steps decreases (`SearchAdvances`).

## 6. Proofs

All theorems hold for any values of the constants that satisfy the named
assumptions of the module (`CollectorAssumption`, `ReaderAssumption`,
`ProcessorAssumption`, `ReplicatorAssumption`, `EmbedAssumption`,
`SeedAssumption`, `CodecAssumption`, `TextAssumption`, `ValidatorsAssumption`,
`HandlerAssumption`, `CallsAssumption`), which TLC evaluates in the runs.
Those of a source map are: what JavaScript tells apart is told apart (`NullAssumption`:
null is no number and no string; `NoContentsAssumption`: it is no array;
`InfinityAssumption`: `Infinity` is no integer), paths have the parts that the code
writes out (`PartsAssumption`), shifts tell more than four integers apart
(`Base64Assumption`), and the values that a program calls the library with have the
types that the library documents (`ProgramsAssumption`: integers, strings that may be
null, maps whose lists have the shape that reading gives them). Nothing is assumed
of the order, the number or the validity of the mappings. None of the invariants below is weaker than what
the code needs to be right: each was checked by TLC before it was proved.

* `BundleDriverProofs`. `TypeOK` is not inductive: a run that sets a status has
  to have a response to set, a call in its loops a list. `TypeInv` adds that
  (`RunReady`, `CallReady`) and that the run of a call is of its transaction
  (`OwnRun`). `NoLeakedCollector` and, with `ListInv` (what a call without a
  rival finds in the map), `OnlySharingLosesTheList` follow. `TxInv` follows a
  transaction through runs, lists, statuses and held lists; with it
  `AnswerWasReached`. `PendingInv` (a call that has not ended has no verdict
  yet) completes the refinement of `SendPromise`: steps of the sender map to
  `Begin`, `Reply`, `Fail` or a stutter, steps of a run to `Conclude` or a
  stutter. `ExactInv` is what makes `UndisturbedIsExact` inductive: for a call
  that nobody shares a transaction with, `RunExact` says that the list holds
  the response of its own run and no other, as far as the run has come, and
  `CallExact` that the iterators of the call were made with the list's present
  `modCount`, so that it throws nothing.
* `MasterReplicatorProofs`. `TypeOK` is inductive with lemmas about the lists
  `GetBytes` returns. `TodoInv` says that the bundles a thread has left are
  bundles of its transaction. With it each `Apply` is a `Put` of
  `MessageTable`, and everything else a `Clear`, `Rescanning` or a stutter.
  For `ChainIsInTables`: `OrderInv` (the bundles a thread has left are the end of
  what `getBytes` returned, and none of those before them has thrown), `RowsInv`
  (a row is what a whole run over the bundles leaves, or a thread has still to
  store a bundle there) and `ChainInv`: a message on the chain has its row or is
  still before the pusher. For `RescanRebuilds`, `ScanInv`: basic tables that
  have been emptied hold nothing but what was announced again since (`ClearInv`,
  `ReplayInv`), unless `touched` tells of an unconfirmed announcement.
* `EmbedProofs`. `CallInv` (`Slots`, `Threads`, `Once`) says which thread has
  which runnable, and that a runnable is in one place only; `RunsOnce` follows.
  `ReadyInv` (`Overlaps`, `Kept`) says that adds which have not raced are in the
  list with the index they took, and that `onReady` has not passed them; hence
  `LostOnlyInARace`. `Steady` (while `forEach` runs, `modCount` is what it was, unless
  a call straddled the beginning of `onReady`) and `Filled` (if no adds overlapped
  either, an element is unfilled only while the call that took its place is about to
  store it, and none is while `forEach` runs) give `IterationBreaksInARace`. `ScanInv` adds to `HearsOwnScan` that a listener is of a scan that
  runs or has thrown, and that scans which run at a time are `mingled`.
* `EmbedProofs` is also about `EmbedSeed`, which specifies the same class up to the
  start of the core, with a state of its own. `InOrder` says what is gone and what is there at each
  point of the setup; with `NoMixture` and `NoStaleTables` it is inductive, and
  `StartsOnSeed` follows.
* `BundleHandlerProofs`. The codec is proved from the bytes up: `LittleSpells`
  and `GetLittle` (a number written in n bytes is the one read), `FlattenNext`
  and `ReadsUtf8` (characters of one and two bytes), `WriteStringIs` and
  `ReadsString` (a length that fits, then its bytes), `MessageIs` and
  `ReadsMessage` for each message class, `ReadsWholeMessage` and `ReadsJson` for
  all. `CodecInv` (`Sent`: the array and the object are those of the message;
  `Got`: what was read is what they say) is inductive, and with the lemmas what
  was read is the message. `CallInv` has
  `ArgsOK`, which types the arguments of a validator, and `Started`, which
  excludes a verdict without a call. The lemmas `BehindOverflows` and
  `AheadIsNegative` say what the differences of `validateTimestamp` are: never
  above an offset, but where they overflow, and then the timestamp is further from
  the last block than any offset; hence `TimelyTimestampsPass`.
* `Recursion`. The library's induction takes an operator as its parameter. The
  lemmas here take a set in its place (`Induction`, `SequenceInduction`, from the
  well-foundedness of the numbers), and with it a recursive function exists and
  is the only one (`RecursionExists`, `RecursionIsUnique`). The codec uses them
  for `Span` and for the folds of the community modules, of which `FoldIsFolded`,
  `FoldedNone` and `FoldedNext` say how they go from one element to the next.
* `EmbedExternalReplicatorAdditionsProofs`. `RaceInv` holds whatever races. Its
  core is `Together`: of any two calls that make a replicator, or have made one, each
  was beside the other. What a call finds in a field that it has written is then
  `Fresh`, its own or that of a call beside it, and so is what it gives its replicator
  (`CallInv`, `FieldInv`); `RacersGetFresh` and `NoneAfterAnother` follow. `CalmInv`
  says where things are while no two calls made one together; a call that ends hands
  over to the next, and with `CalmWhole` there is `OneReplicator`.
* `SourceMapConsumerProofs`. The search first, for any array of positions in
  ascending order: `Narrows` is the invariant of `recursiveSearch` (what is at
  `low` and lower is less than the needle, what is at `high` and higher is
  greater, and between the two is at least one element), `IsNearest` the one of
  the loop (the element found is admitted by the bias and no admitted one is
  nearer, which holds for any element equal to it). `SearchExact` and
  `SearchGetsShorter` follow.

  Then `AnswersNearest`, of a consumer on its own (`ReadSpec`): it begins with any
  mappings, their fields any integers, in any order, and goes on with the actions
  of `SourceMapConsumer` from the sort on, for any questions. `CompareIsOrder` says
  of the comparators what a sort needs; `PartitionIs` unfolds the loop of a
  partition, `TurnsPart` is its invariant and `PartitionWorks` its result.
  `Pending` is the invariant of `quickSort`: the calls left are for parts of the
  list that lie apart, and two elements out of order are within one of them; when
  none is left the list is sorted. `OriginalIsFound`, `GeneratedIsFound` and
  `AllIsFound` lead from the index of a search to the answer, and `ReadInv` joins
  all of it: a search is in a sorted list, and for the question that was asked.

  A proof attempt found a condition that no run had met: asked for a line without
  a column, `allGeneratedPositionsFor` begins at column 0, and misses what is before
  that. A text may hold such columns; `AllPositionsAreFound` now excludes them.

  Last, `TextSurvives`: what `_serializeMappings` writes of a generator that is
  `WellMade`, `_parseMappings` reads without an error, and as exactly its mappings,
  with indices for strings. `WellMade` are the generators with a source and a name for
  each mapping, lines in order from 1 on, as `toArray` leaves them, and no number
  beyond those that a shift keeps (`Short`, with the numbers of sources and names).
  `NumbersSurvive` is the case of one number: the digits that `Encode` makes of it
  (a recursive function, by `RecursionExists`) are decoded to it, with 32-bit
  shifts, if its absolute value is less than 2^30. Then three loops are folds
  with steps of a type (`DigitStep`, `ParseStep`, `SerializeStep`), and the invariant of the
  last one is `Follows`: the text so far is read as the mappings so far, and the
  reader then holds the line, column, source, place and name that the writer tells
  the next segment from. `BareFollows` and `SourcedFollows` are a turn of the loop;
  `SkippedFollows` says that a mapping that is skipped was written before.

* `SourceMapProofs`. The program as a whole (`ConsumerSpec`): a generator is filled,
  rewritten by `applySourceMap`, written, and consumers are made of it, of its text or
  of another tool's, read, sorted, asked and copied, in any order that the code
  allows. It has every action of `SourceMapConsumer`; sections and trees, which
  `Spec` adds, are not in it.

  `ConsumerInv` is the inductive invariant. The properties are not inductive, nor would
  all of them together be: that a text is read as what was added needs to know how the
  generator came to be, that an answer is nearest needs to know that the list was
  sorted, and a copy made of a consumer becomes a generator again. So it says of the
  generator what all its methods keep (`IsGenerator`: typed fields, no string twice
  in a set, `last` at or after every mapping, and the mappings in their order if
  `sorted` says so, which is what `toArray` goes by); of the consumer, that it is made
  from such a generator, with the fields its constructor stores (`MadeInv`); of the
  lists, that they hold the mappings that were written and those with an original
  place (`ListsInv`); and of sort, search and answer what `ReadInv` says. Before the
  text has been read, nothing is answered but with an exception (`UnreadInv`).

  The lemmas go along the code. `NormalizeType`, `JoinType`, `RelativeType`: the path
  functions make strings of strings, for any path. `AddMappingKeeps`, `ToArrayKeeps`,
  `SetSourceContentKeeps`, `CopyContentsKeeps`, `ApplyKeeps`, `GeneratorOfKeeps`: each
  method of the generator keeps it one; `ApplyKeeps` holds of an `applySourceMap` that
  throws half way, too. `GeneratorIsMade` and `TextIsThere` lead to the theorem
  `TextSurvives`, `CopiesAre` to what `fromSourceMap` copies. Then one lemma for each
  group of actions (`GeneratorKeeps`, `ConstructKeeps`, `ParseMappingsKeeps`,
  `SortingKeeps`, `AskingKeeps`, `GoingOnKeeps`, ...), and `ConsumerInvariant`.

  `ConsumerTypeOK` and `ConsumerNearest` follow from it. For `ConsumerSpansTile`, the
  span of a mapping ends where the next one of its line begins (`SpanIs`), so that a
  column is in one span and its mapping is nearest (`SpanningIsNearest`). For
  `ConsumerAnswersAgree`, the search for a position that is in a list ends on it
  (`PositionIsFound`), and a name that leads back has the index of its source
  (`IndexIsBack`). For `ConsumerMapSurvives`, the strings that a consumer shows for the
  indices of a text are those that were added (`WrittenIs`, `ShownIs`), and contents
  are found under the name that is shown (`ContentIsFound`, `MadeIs`).

  What a text can tell of a mapping is `Told`, and `ToldIs` its type: a name without a
  source is lost, and an empty source without a place has line and column 0 in the
  consumer. `MapSurvives` speaks of this, and is otherwise about every mapping that
  `addMapping` accepts.

  Proof attempts found: that an origin before the first column, which a text may hold,
  cannot be asked for again, as `_findMapping` refuses it; that a generator that
  `fromSourceMap` reads directly drops a source or a name that is the empty string; and
  that the definition of sources that are well named (`IsNamed`) does not imply that
  names lead back for every path (not for the source `.` under the root `a`). The
  theorems therefore say what they mean: where names lead back (`NamesLeadBack`), the
  answers agree. That well-named sources have such names is `NamesKeep`, which TLC
  checks as a part of `CopiesKeep`, for the names of the run.

## 7. What is only model-checked

* Liveness: `PromiseIsKeptInTime`, `CallsReturn`, `CoreIsStarted`.
  Fairness and ENABLED are out of the prover's reach.
* `RacesNeedAnother`, for the three threads of its run.
* Of the source maps, `ApplyIsWhole`, `CopiesKeep`, `SectionsSpeakForAll` and
  `TreeIsMapped`, and the other invariants in programs with sections and trees: the
  theorems are about `ConsumerSpec`, the run about `Spec`, which has those in addition.
  They rest on folds over sections, characters and children. That is not out of reach,
  as the codec, the sort and `TextSurvives` show; it is the part of the plan (N) that
  is left.
* That names lead back (`NamesKeep`), which says what `join` and `relative` compute
  for every path, by induction over two paths at a time.

## 8. Findings

* `last_line`: the last line of `BundleDriver.sendMessage` throws "not reached
  [bundle driver]" and is reached whenever no response was collected. The
  sender is told of a failure although the transaction may be on its way.
* `timestamps`: `validateTimestamp` takes its two differences the wrong way
  round, so that with offsets that are not negative no timestamp is refused,
  but by overflow. Nothing that is in time is refused for all that, which is the
  theorem `TimelyTimestampsPass`.

The models also state, as the exceptions in their properties: runnables lost or
run twice in a race with `onReady`; a listener of `scan` that stays when the
scan throws; strings of 32768 bytes or more that are written without an
exception and are cut or cannot be read; a `ByteMessage` that cannot be read
from the JSON object it was written to; an `UnsignedLongMessage` that is not
equal to itself; two replicators made by racing calls,
one of which may have the processor of the one call and the table of the other; messages of popped blocks
that stay in the tables until a rescan; numbers of 2^30 and more that a source
map's text holds as others; mappings of the next source among the answers of
`allGeneratedPositionsFor`; a source that a map names twice, whose second index
is never searched; mappings of negative columns that `allGeneratedPositionsFor`
does not find without a column, and origins of negative columns that cannot be
asked for.

Of `conf/source-map.js` they state further, each where a property excludes it:

* A source that climbs above the root by its whole depth, or is absolute under
  a URL, is shown under a name that does not lead back to it (`IsUnder`): asked
  for by it, `generatedPositionFor` answers with nulls and `sourceContentFor`
  throws, and with it `applySourceMap` and both `fromSourceMap` that copy contents.
* `_validateMapping` is documented to admit three levels of data (lines 319 to 327:
  a generated position alone, or with original position and source, or with these
  and a name) and tests for the first whether the rest is falsy (line 334). A mapping
  without an original position is therefore accepted with an empty string as source or
  name. Over the text such a name is lost, and such a source becomes `.` with the
  original line and column 0, which no question can ask for and `_validateMapping`
  refuses: a map with one cannot be made a generator again, and `applySourceMap` to the
  empty source throws.
* `SourceMapConsumer.fromSourceMap` takes an empty source or name for none (lines
  1686, 1691), so that the mapping loses its original place.
* `setSourceContent` and `_generateSourcesContent` (lines 205, 433) take the root
  away from names that have lost it: a source `r/a` under the root `r` gets the
  content of `a`.
* An exception in the middle of `applySourceMap` (lines 266 to 301) leaves a
  generator that cannot be written any more.
* In an indexed map the first column of a section counts as before it (lines
  2181, 2243); an answer's column is moved when its line in the section is the
  line of the section in the file (2331, 2380), so that it is wrong unless a
  section starts on the first line or in a first column; an empty content is
  passed over, and a section with a root may answer for another's source (2289);
  what was read before an exception stays (2352); `allGeneratedPositionsFor` finds
  nothing before `eachMapping` was called, and throws afterwards.
* `fromStringWithSourceMap` puts the text "undefined" into code that is shorter
  than its map (2708 to 2711), and throws for a mapping without a source when it
  has a path to join (2790); of two mappings at one place the last gets the code,
  where `originalPositionFor` answers with the first. Between two mappings at negative
  columns it takes code from the end of the line (`substr` with a negative start, 2739),
  and what is before it is lost.
* `replaceRight` throws for a node without children, before the branch that is
  meant for it (2905 to 2913).

## 9. What is not modelled

* The HEAT core is not in the repository. What it does appears as far as the
  code here uses it, and is marked external in `PROJECT.json`.
* `EmbedBuilder`, `EmbedExternalAPIAdditions`, `ResourceSample` and the rest
  of `SampleMain`: setters, getters and constants.
* `Embed.exit`, `shutdown` and the shutdown hook only call the core. Two
  shutdowns, by a caller and by the hook, are a matter of the core.
* Directories named by the application's properties that differ from those the
  seed is copied to (`Embed.init`): a configuration, which nothing in the code
  forbids.
* Reads of the tables, `BundleHandlerResponse.toJSON`, logging.
* Of `conf/source-map.js`: indexed maps as sections of indexed maps, sections with
  a `url` (which the constructor refuses), data URIs, the fields `file` and
  `version`, `eachMapping` in the original order, names such as `__proto__`, the
  letters of base64, spans of mappings that are alike in everything, and
  generators and trees that are made of an indexed map. A tree is written or
  read once, and a consumer is let go when something else was made of it.
* The rest of `conf/` and the build files: data.
* What becomes of the replicator's threads in the long run: its liveness is not
  checked.
