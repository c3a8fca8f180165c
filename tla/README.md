# Splora: TLA+ models

Splora is a Bitcoin and Elements chain index: it follows a bitcoind, keeps its
blocks in three RocksDB databases, mirrors its mempool in memory and answers
REST, WebSocket and Electrum clients; a web page and a desktop program are its
explorers. This directory holds TLA+ models of the parts that change state or
compute what is shown, TLC configurations that check them on small instances,
and TLAPS proofs of what holds for every instance. `PROJECT.json` maps every
definition to the lines it models. Paths below are relative to the repository.

## Inventory

| Part | State | Operations | What is hard | What makes it correct |
|---|---|---|---|---|
| Index store (`src/new_index/schema.rs`, `db.rs`) | `txstore`, `history`, `cache` databases, `t` row, `added_blockhashes`, `indexed_blockhashes`, `indexed_headers` | `Store::open`, `DB::write`, `delete`, `put_sync`, `flush` | writes without WAL, keys shared by blocks, restart | what `t` names is durable |
| Indexer (`schema.rs`, `fetch.rs`) | `flush`, `from` | `update`, `add`, `index`, `reorg` | reorganisation, crash in the middle, bitcoind moving meanwhile | rows equal those of the best chain; catches up |
| Header list (`util/block.rs`, `daemon.rs`) | `headers`, `heights`, `tip` | `new`, `order`, `apply`, `get_all_headers`, `get_new_headers` | the best chain moves between two calls; orphans among the stored headers | one branch at every moment, in the end bitcoind's |
| Main loop and shutdown (`src/bin/electrs.rs`, `signal.rs`) | `tip`, `prev_txids`, the signal channel, the sticky interrupt | poll, notify, REST stop, flush, Electrum join, watchdog | one channel for several waiting threads; a join that hangs | ends after a signal, by force only after the flush |
| bitcoind client (`src/daemon.rs`) | one connection behind a mutex | requests with and without retry, reconnect every 3 s | the mutex is held through a reconnect | every client gets an answer |
| Mempool (`src/new_index/mempool.rs`) | `txstore`, `feeinfo`, `history`, `edges`, `recent`, `backlog_stats` | `update`, `add`, `add_by_txid`, `remove` | the lock is released around three RPCs; broadcasters interleave | each transaction indexed once; settles on bitcoind's pool |
| Chain and script queries (`schema.rs`, `query.rs`) | `cache` rows `A`, `U` | `stats`, `utxo`, `history`, `lookup_spend`, `tx_confirming_block` | a scan overlaps a rollback; cache saved after it was cancelled | a cached answer equals the recomputed one |
| REST handlers (`src/rest.rs`) | none; the caches of clients keep answers | blocks, transactions, statuses, histories, unspent outputs | no lock spans two reads of a handler | what may be kept for years stays true; nothing is overlooked |
| Electrum RPC (`src/electrum/server.rs`) | connections, slots, gauges, subscriptions, senders | accept, PROXY headers, requests, `notify`, join | two threads per connection, bounded channels | clients learn of changes; slots are given back; the server ends |
| MWCK hub (`src/mwck.rs`, `src/rest.rs`) | clients, `recent_confirmed`, `mempool_tx_bodies` | `notify_mempool`, `notify_new_tip`, `handle_socket` | snapshot taken before the subscription is registered; reorganisations below the remembered heights | a client that applies all events has the current view |
| Import queue (`src/queue.rs`, `src/bin/splora-import.rs`) | queue file, allowlist file, hit lists of the rate limit | `submit`, `approve`, `reject`, `remove_npub` | three processes write two files with no common lock; times out of order | an accepted row is not lost; no bucket lets more through than its limit |
| Allowlist and gate (`src/auth.rs`, `src/http_front`, `src/rest.rs`) | loaded key set, open websockets | `load`, `watch`, `reload`, NIP-98 check, routing of the front | two reload threads; three programs derive one URL | the keys follow the file; what is served was asked |
| Desktop explorer (`frontend/native`) | one screen's fields, the key file | loads, clicks, toggles, launches | a load stops at its first error, half assigned; a kill between create and write | what is painted was asked for; the npub shown is kept |
| Web explorer (`frontend/web`) | signals of the pages | routes, effects, signed requests | answers in any order, network switched meanwhile | what is painted was asked for |
| Figures of both explorers (`frontend/shared`, `screens.rs`, `rows.rs`) | the fields of the calculator | labels of scripts, amounts, lines, pagers | everything is computed twice, by parsers and roundings of their own | both agree with each other and with the answer |
| Elements assets (`src/elements`) | asset rows, registry | index, registry sync | same reorganisations as the index | as the index |

The indexer thread writes the store that every query thread reads; `reorg`
deletes cache rows that query threads write back. The main loop calls the
indexer, then the mempool, then tells the MWCK hub and the Electrum server.
Broadcast requests of any client call into the mempool from their own threads.
All of them share the one connection to bitcoind and clones of one `Waiter`.
Only the allowlist file connects the import tools with the server; only signed
HTTP requests connect the explorers with it.

## Modules

| Module | Models | Notes |
|---|---|---|
| `BlockTree` | blocks, branches and the rows of one block | pure operators, constants and their assumptions |
| `Indexer` | `Store`, `Indexer::update`, the tip poll, crashes | EXTENDS `BlockTree` |
| `IndexerMC`, `IndexerSetupsMC` | its instance; the two setups of the run | two branches, a transaction on both |
| `IndexerProofs` | theorems about `Indexer` | |
| `BestChain` | what the header list promises | abstract specification |
| `Headers` | `HeaderList` and the downloads that fill it | implements `BestChain` (`ListIsBestChain`) |
| `Mempool` | `Mempool::update`, `add`, `remove`, `add_by_txid` | one action per lock section or RPC |
| `MempoolMC` | its instance, with two configurations | a parent, its child and a replacement of the parent |
| `MempoolProofs` | theorems about `Mempool` | |
| `Mwck`, `MwckMC` | the hub's snapshots and events, the main loop's mempool difference | EXTENDS `BlockTree`; one client that tracks every script |
| `MwckProofs` | theorems about `Mwck` | |
| `ScriptCache`, `ScriptCacheMC` | `ChainQuery::stats` and its cache row beside an update | EXTENDS `BlockTree`; one query thread, one indexer thread |
| `Rest` | the handlers that read more than once or decide a lifetime, beside an update | EXTENDS `BlockTree`; one request at a time |
| `RestProofs` | theorems about `Rest` | |
| `Electrum` | accept loop, notification thread, peer and reader threads | |
| `ElectrumProofs` | a theorem about `Electrum` | |
| `Shutdown`, `ShutdownMC` | signals, the connection to bitcoind, the end of the process | |
| `ServerProofs` | theorems about `Headers`, `ScriptCache` and `Shutdown` | the refinement; three parts of the server process |
| `ImportQueue`, `ImportQueueMC` | `submit`, `approve`, `reject`, `remove_npub` and the two files | one action per file access |
| `ImportQueueProofs` | theorems about `ImportQueue`, `RateLimit` and `Access` | getting in and being let in |
| `RateLimit` | the hit lists of `submit` | times are read before the lock |
| `Allowlist` | `load`, `watch`, `reload` in two threads, open websockets | |
| `Access`, `AccessMC` | a NIP-98 event from the client through the front to the gate | four kinds of clients |
| `NativeScreens` | `ScreenHost`, its screens and the shell | one action per call, with every place a load may stop |
| `KeyStore` | the key file of the desktop explorer | two windows, kills |
| `WebPages` | pages, signals, effects and requests of the web explorer | answers in any order |
| `ScreensProofs` | theorems about `NativeScreens`, `WebPages` and `KeyStore` | |
| `ScriptLabels` | multisig, Lightning, inscription and address labels, of both explorers | scripts as sequences of tokens |
| `Calculator` | the three fields that rewrite each other, of both explorers | scaled integers |
| `TxPage`, `AddressPage`, `Pager` | the lines and pages of both explorers over a chain that goes on | |
| `SharedScreens` | the pure functions of `frontend/shared` | used by the next two |
| `Paints`, `BlockWalk` | the headless paints; the walk along the previous and next links | |
| `GateMC` | `ImportQueue`, `Allowlist` twice, `Access` | composition for one run |
| `ServerMC` | `ScriptCache`, `Electrum`, `Shutdown`, `Headers` | composition for one run |
| `RequestsMC` | `ImportQueue`, `RateLimit`, `Rest`, `Electrum` | composition for one run |
| `ExplorersMC` | all modules of the explorers | composition for one run |

The four compositions are sums: the parts share no state that any of them
models, so a behaviour is one of the part that `active` names and the product of
the state spaces is not explored. What one part sees of another (the header list
a handler reads, the histories Electrum hashes) is inside the module that reads
it, moved by actions of its environment. A part that theorems are about is
extended by one of them, so that a run and a theorem name the same
definition; the others are instantiated. `IndexerSetupsMC` checks one module under
two settings of its constants in the same way.

### Indexer

A row is a tuple that starts with its prefix letter. `add_blocks` and
`index_blocks` give the rows of a block as the sequence of groups in which the
code pushes them; the done row `D` is last, which is what makes a half deleted
block dangerous. Each database is two sets of rows, what the process reads and
what survives it. `AddBatch` and `IndexBatch` are one write batch each and reach
the disk at once only when `flush` is set; before that `MemtableFlush` may move
them there at any time. `DeleteHistoryRow` and `DeleteTxstoreRow` delete one key,
because `DB::delete` does, and `Crash` may come between any two steps. `pc` is
the place in `Indexer::update`; `"panic"` is an `expect`, `assert` or `panic!`
that failed. The header list is represented by its last block.

`DB::delete` gets the keys of up to 100 blocks at once; the model deletes block
by block. The keys come in the same order, and the only thing that changes
between two blocks of a chunk is `added_blockhashes`, which dies with the process.
A failed download or an error returned by `update` ends the process, so both are
`Crash`. The `F` rows that record a full compaction are left out, and so are the
values of rows.

### Mempool

`pool` and `mined` are bitcoind's; `Accept`, `Mine`, `Evict` and `Disconnect`
are all it may do between two steps of `update`. The history entries of a
transaction depend only on it and on the scripts of its prevouts, and the code
pushes and drops them together, so `history[tx]` counts how many times they were
pushed. `want` is `txids_to_add` until `Fetch` and the downloaded transactions
after it. `IndexChain` is one step: the model does not show a broadcaster a half
indexed block. `config` is the configuration the process was started with, one of
`Configs`, and never changes.

### Mwck

`last` is what the client was told last of each transaction. `IndexBlocks` and
`UpdateMempool` stand for the two updates the loop calls; the hub sees only
their results. `NotifyOrphans` and `NotifyBlocks` are the two halves of
`notify_new_tip`, in the order of the code: bodies of orphaned blocks go out as
removed, then the new branch as confirmed. `Window` is the 16 heights that
`recent_confirmed` keeps; 1 in the instance is the smallest value at which the
two-block reorganisations of the instance are retracted, so the comparison at the
edge matters. `mempool_tx_bodies` has no cap in the model. `MayOverlap` decides
whether an event may fall between the snapshot and the registration of a client.

### ScriptCache

The steps of `Indexer::update` are those a reader can tell apart: the header list
changes first, rows go one by one, cached answers are cancelled last, new rows
come per block. The query reads the cache row, the header list and the history
rows in three steps, then looks at one row at a time; the iterator keeps the rows
there were when it was opened, and the confirming block is looked up when the row
is looked at. A set of rows stands for the counts added up over it. `utxo`, with a
row of its own, is in `Rest`. Blocks that return are indexed again here, whatever
`indexed_blockhashes` says: that is the subject of `Indexer`. No lock covers a
query, so updates may start and go on between any two of its steps. `torn` is a
ghost: it records that a rollback took the block of the cached row between
`height_by_hash` and the scan, or the block whose rows were being counted, or that
new blocks were confirmed while the iterator still had rows of replaced ones. A
saved row carries it, and `CacheSound` is about the rows without it;
`CacheAlwaysHonest` shows that they are not exact otherwise.

### ImportQueue

Every change reads the whole file, writes `.tmp` and renames. A thread of
`splora-queue` does this under the mutex; `splora-import` is another process and
takes none, and uses the same `.tmp` name. The write of `.tmp` is one step: the
model does not show a half written one. Lines are a function from npubs, so their
order is left out, and the email of a row is represented by the length of its
line. `accepted` and `approved` are the contents the answers promise, updated when
the rename of a request succeeds. `RestartQueue` kills all threads of one process,
`Die` one `splora-import`. The rate limit and the checks before the lock refuse a
request without touching a file.

### Allowlist

`reload` is two steps, parse and store, in the watch thread and in the SIGHUP
thread. Pending inotify events and pending signals each count as one. The server
does not start on an invalid file, and an invalid version later leaves the keys as
they are. `EditsEarly` decides whether the file may change between `load` and
`watch`. A socket's task looks at the keys at the top of its loop and every two
seconds in its `select!`, but not while it awaits `sink.send` for a peer that does
not read (`stalled`); nothing bounds that wait.

### Headers and BestChain

`headers` is the list, `heights` the map, and `tip` the last hash, as in
`HeaderList`. `get_all_headers` is one step per chunk of heights,
`get_new_headers` one step per walk; bitcoind's best block may change between
any two of them, to a block with more work. An RPC error, which `update` returns
and `run_server` passes on (`electrs.rs:162` and the loop), ends the process, and so
does an assertion that fails (`ended`). Nothing in the program starts it again, so
`OpenList` is not fair; the next start reads the stored headers, orphans included, and orders
them from the stored tip. `BestChain` has one variable pair, the tip and what
readers are told; the refinement mapping takes the list as the branch, so a step
of `apply` that left a mixture would be no step of `BestChain`.

### Electrum

A connection is the record of what its two threads know. The reader passes lines
through a bounded channel; `notify` uses `try_send` and drops the notification
when it is full, and the peer compares each subscription with the current status
when it wakes, so a dropped wake-up is made good by the next one.
`Peer`, `ReaderSends`, `HungUp`, `Notifier` and `Server` are the threads.
`counts` are the slots per client, `clients` and `subscriptions` the gauges.
Read-only methods are lines that change nothing.

### Shutdown

The threads `Clients` and `Main` run one request at a time through the connection:
the mutex, the reply, then a result, or three seconds of waiting and a reconnect with
the mutex held. A signal goes through one channel to whichever `Waiter` receives
first; the sticky flag `interrupted` tells the others. `main` follows `run_server`
to its end: REST is stopped, the databases are flushed, Electrum is joined, and
the watchdog ends the process by force if the join hangs. Stopping REST waits for the
task of every connection (`http_shutdown_tx.closed()`), and no timeout ends a task
whose client has stopped reading (`ClientStalls`, `ClientReturns`). An end by an error
flushes nothing; `OrderlyProcess` is about the others.

### Rest

The writer shows what a reader can tell apart: headers first, history rows
deleted, then txstore rows, then the cache rows of the scripts in them, then the new
rows written, then the mempool refreshed. Each read of a handler is a step. Pages end
in `prepare_txs`, which leaves out a transaction whose previous outputs are in neither
store: after `Unadd` a transaction of the mempool may miss its parent until `AddBlocks`
has written it again, and is not `InView` meanwhile. `utxo` reads its `U` row, checks
that the row's block is in the header list, scans the rows above it one at a time
under the two limits, saves the row, and only then looks at the mempool. `pure` says
that no rollback met the request, nor one of those that made the row it started from.
A branch that was left does not return here (`gone`). `quiet` and `still` say that the header list, or
everything, stood still since the request came; `always` are the transactions
that were in view all the time. `ConfFinal` is `CONF_FINAL`, the confirmations after
which an answer may be kept. `kept` is what a cache holds with the long lifetime.

### RateLimit and Access

`now` is read first, then the hit list of the address is pruned and counted under
its mutex, then that of the npub. Only the length of a hit list and the times in it
are ever read, so it is the set of its hits, the k-th hit of a time being a hit of its
own. `passed` are the hits of requests that were not overtaken between the clock and
the mutex, which is what `WithinRate` counts. `Access` follows one request: the client builds
the event for a URL, the front chooses the socket and rewrites the path, and the
gate rebuilds the URL and compares. A path is a sequence of segments. Signatures
are taken as unforgeable.

### NativeScreens, WebPages, KeyStore

What is painted is abstracted to its origin: network, id and page. An operator of
`NativeScreens` gives every outcome of a call, one for each read that may fail,
because the fields assigned before the failure stay. In `WebPages` a request is a
task that sets one signal; nothing orders or cancels tasks, effects run in the
step that wakes them, and a route that only changes its id keeps its signals. A
`tour` bounds the routes of a behaviour; patient tours wait for the page before
the next click. `KeyStore` creates the file, writes it and shows the npub in
separate steps.

### ScriptLabels, Calculator, TxPage, AddressPage, Pager

Each has the operators of both explorers side by side and a small machine that
supplies their inputs: scripts one or two edits away from the patterns, sequences
of keystrokes, bodies read at two moments of a chain that grows and is
reorganised, addresses over their history, pages followed link by link.
`Calculator` scales a bitcoin to four decimals and the cap to 2, which keeps every
rounding and every comparison and leaves out only the size of the numbers.

### SharedScreens, Paints, BlockWalk

`Paints` is one machine for all headless paints: the lines come from
`SharedScreens`, a window opens, a probe fills two slots per row, the application
quits, the slots are read back and compared or returned. Where the functions
differ (when they unwrap the window, what they assert) there is one definition per
function. `BlockWalk` walks the links while blocks are mined.

## Runs

| Run | Instance | Shows |
|---|---|---|
| `indexer` | two setups: "returning" (any number of switches between two branches, no crash, chunks of one block) and "crashing" (two crashes anywhere, a branch left stays left) | the databases equal the best chain after each update (`IndexExact`); `t` is durable (`SyncedTipDurable`); no panic; `t` never jumps between branches; the index catches up (`CrashingCatchesUp`) |
| `indexer_reindex_lost` | one crash, branches may return, light mode | violation: blocks of the best chain have no history |
| `mempool` | two configurations: "polling" (no broadcasters, `-txindex`) and "broadcasting", each with one eviction, disconnect or failed RPC | every input of an indexed transaction is recorded as spent (`PollingSpendsRecorded`); one indexing per transaction, no dead edges, no panic, newcomers stay, the mempool settles |
| `mempool_parent_mined` | no broadcasters, no fault | violation: a stored transaction is never indexed |
| `mwck_reorg` | reorganisations above the start block, broadcasters, one failed update | orphaned transactions are retracted, dropped ones too unless an update failed, a transaction of both branches ends as confirmed |
| `mwck_mined` | one transaction that is in the mempool, then mined | violation: the last word on it is removed |
| `gate` | three posts, restarts, caps that are reached; three edits with two SIGHUPs and an edit before the watch, four edits without SIGHUP; four kinds of clients, a clock of three steps | the queue file is what the answers say (`QueueExact`) and every post ends (`Answered`); the keys settle on the file (`KeysSettle`) and sockets of dropped keys close unless their peer does not read (`SocketsClose`); the gate decides as documented (`GateExact`) |
| `server` | one query thread beside any number of reorganisations back and forth; one connection with a channel of one message; one client, one bitcoind outage, two signals; four reorganisations and two starts | `CacheSound`; `Informed` and `StopsUnlessStuck`; `OrderlyProcess` and `WaitsEnd`; the header list implements `BestChain` (`ListIsBestChain`) and follows (`FollowsBest`) |
| `requests` | two posts and an operator with kills; two posts at the rate limit; twelve kinds of REST requests beside two updates; two connections of one client, one through a PROXY header | `WithinCap` and `AllowExact`; `WithinRate`; `KeptAnswersTrue` and `ScriptAnswersExact`; `ConnectionsBalance` |
| `explorers` | the inputs listed in `ExplorersMC` | `ScreensShowAsked`, `PagesShowAsked`, `LabelsAgree`, `AmountsAgree`, `FiguresAgree`, `WalksAndPaintsFit`, `ShownIsKept` |
| `public_url` | a client that signs the public URL | violation: the gate answers 401 |
| `one_shot` | bitcoind goes away and does not come back | violation: a one-shot request is never answered |

Deadlock is checked in `indexer`, `mempool`, `mempool_parent_mined` and the two
`mwck` runs. In the others it is not: edits, signals, clicks, launches and
requests are bounded, so a behaviour may stop; in `indexer_reindex_lost` a panic
with no restart left is reachable.

Several properties of a run are conjunctions, each of whose parts is a named
property of the module it is about and has its own mutant in `PROJECT.json`. The
type invariant of each part that states one is among the conjuncts, except where
it is proved and not checked again (`Indexer`, `Mempool`, `ImportQueue`, `Mwck`,
`KeyStore`, `Electrum`).

Bounds. Six blocks in two branches of different length give extensions, a
one-block and a two-block rollback, a rollback of a block whose transaction the
other branch has too, and, with `MayReturn`, the way back. `MaxRestarts = 2`
allows a crash while recovering from a crash. Four transactions give a chain of
two, a conflict and a confirmed coin; `MaxFaults = 1` allows one eviction,
disconnected block or failed RPC in each behaviour, while acceptance,
replacement and mining are bounded only by the transactions there are.
`recentSize` is 1 where nobody broadcasts, smaller than a batch, and 0 in the other
configuration.
In `mwck_reorg` the transaction on both branches is never in the mempool, two
others are. `MinItems = 1` lets the cache be written from two rows on. Two npubs
and caps of one or two rows make every post compete for the last line; three
posters make one wait for the mutex while two others pass.

The chunk of the header download is two blocks, so that a reorganisation falls
between two chunks of a chain of four; the work of the branches grows so that the
best chain changes sides three times. A channel of one message is full at once,
which is when Electrum's notifications are dropped and its readers block; two
lines per connection fill it while a reply is under way. A rate limit of two in a
window of two ticks, with a clock of three, makes a request fall out of the
window while another is late. `ConfFinal = 2` is the depth of the instance's
reorganisation from `a2` to `b3`, the deepest that `ShallowAssumption` allows: at `a2`
an answer about the first block may be kept, and both blocks above it are rolled
back afterwards. Two updates let one of them be a reorganisation that a request
straddles. `MaxTxs = 2` with five transactions gives three pages. `UtxosLimit = 5`
with one row per output is passed at `a2` from scratch and not from the `U` row of
`a1`, which `MinItems = 3` lets be saved; a REST client asks about scripts or about
everything else, which do not touch each other's ghosts. Five calls of the desktop explorer are two loads with a switch
of the network and a toggle; the tours of the web explorer are two or three
routes, each with one failed answer. Labels start from every pattern and go one
token away; the calculator makes four edits. The pager's page size is 3 with up
to 22 transactions: more pages than the widest pager shows. Five launches of two
windows allow a kill at each step of the write.

Fairness. The indexer and the main loop are one thread that never waits for
anything but bitcoind, so each of their steps is weakly fair; a stopped service
is restarted by its unit, hence weak fairness of `Open`; a thread that waits for
the mempool lock gets it, and the clock runs (`Expire`). Nothing is assumed of
bitcoind except that it is finite: its moves are not fair. Threads of
`splora-queue` and of `Allowlist::watch` run, and so does the task of a websocket
that is not in `sink.send`; a peer that stopped reading need not read on, nor a REST
client (`ClientReturns` is not fair). A thread that waits for the mutex
while others come and go is served in the end (strong fairness of `LockDisk`, and
of `Lock` in `Shutdown`: the operating system's futex queue does not starve one
waiter for ever). In `Electrum` the server's threads run, the main loop goes on
notifying, and a socket whose other end is closed ends its reader; the idle
timeout and the client are not fair, so `Informed` holds without them. In
`Shutdown` an outage ends (`Restart`) only where `Returns` is set, which is the
assumption of `ClientsAnswered`, a part of `WaitsEnd`, and what `one_shot` takes away. `Headers` polls
(`Sync`) as long as the process lives, and its restart is not fair. `Mwck` has the
loop and the registration of a client. Operators, clients, edits, signals, clicks and
launches are not fair anywhere, and the explorers' modules have no fairness at all:
what they say is about states.

## Findings

* `headers_to_index` consults a set that is only filled at start-up
  (`indexer_reindex_lost`): after a restart, a reorganisation away from an already
  indexed branch and back leaves its blocks without history.
* `Mempool::add` stores a transaction before it finds that a parent is missing,
  and never looks at it again (`mempool_parent_mined`).
* The mempool difference calls a mined transaction removed, after it was announced
  as confirmed (`mwck_mined`).
* The front strips the network prefix before the gate rebuilds the URL, so an
  event for the public URL, which the repository's README asks for, is refused
  (`public_url`). The pages sign what the gate sees, so `GateExact` holds.
* A one-shot request waits for the mutex that a reconnect holds for as long as
  bitcoind is away (`one_shot`), although the comment says it does not wait.

## Statements that fail

These were stated while modelling and do not hold. Each line says how to see the
counterexample: the configuration to start from, what to change, and the formula
to give TLC in place of the configuration's properties.

| Formula | Start from | Change | What happens |
|---|---|---|---|
| `ChainStored` | `IndexerReindexLost.cfg` | none | a crash in the middle of a rollback leaves a block with its done row and not all of its rows; if the branch returns it is not added again |
| `AddressesListed` | `IndexerReindexLost.cfg` | `AddressSearch = TRUE`, `MayReturn = FALSE`, `MaxRestarts = 0` | rolling back a block deletes address search rows that an older block needs |
| `SettlesSpends` (property) | `MempoolParentMined.cfg` | `Configs <- BothConfigs` | a broadcast replacement loses its spend edge to the transaction it replaces |
| `ConfirmedSound` | `MwckReorg.cfg` | `MempoolTxs = {}`, `MayBroadcast = FALSE`, `MaxFails = 0`, and `c2` added to `Moves` | a reorganisation of blocks indexed before the hub was created is announced only in part |
| `ConfirmedSound` | `MwckReorg.cfg` | the same, and `MayOverlap = TRUE` instead of `c2` | an event between a client's snapshot and its registration is lost for it |
| `ArrivalsTold` (property) | `MwckMined.cfg` | `MempoolTxs = {other}`, `MayBroadcast = TRUE` | a transaction broadcast between two loops is in no difference |
| `DropsTold` (property) | `MwckMined.cfg` | `MempoolTxs = {other}`, `MaxFails = 1` | the removals of a mempool update that fails afterwards are never announced |
| `CacheAlwaysHonest` | `Server.cfg` | none | the rollback takes the block of the cached row between `height_by_hash` and the scan, and `stats` saves the counts of the old branch with those of the new one; likewise when it takes the block whose rows are being counted, and when a transaction is at the same height on both branches (without any one of the three causes in `torn`, `CacheSound` fails) |
| `UtxoAlwaysExact` | `Requests.cfg` | none | a rollback between the reads of a request lets outputs of the old branch be saved in the `U` row under a block of the new one, and later requests start from it |
| `FollowsBest` (property) | `Server.cfg` | `MayRewind = TRUE` | bitcoind moves back to an ancestor and the assertion at `schema.rs:331` ends the process |
| `AlwaysFollows` (property) | `Server.cfg` | none | a reorganisation during the first synchronisation is an RPC error or a failed assertion and ends the process |
| `AlwaysStops` (property) | `Server.cfg` | none | a REST client that does not read its answer keeps `rest_server.stop()` waiting, or Electrum hangs after an error |
| `SocketsAlwaysClose` (property) | `Gate.cfg` | none | the socket of a removed key stays open while its task awaits `sink.send` for a peer that stopped reading |
| `PeersFinish` (property) | `Server.cfg` | none | the reader of a peer whose reply loop failed waits on a full channel nobody reads; the main thread leaves after five seconds |
| `TermFlushes` | `ShutdownOneShot.cfg` | `Returns = TRUE` | a request of the main thread fails on the interrupt, `run_server` returns the error, and nothing is flushed |
| `QueueExact` | `Requests.cfg` | `Posters = {q1}`, `MaxRows = 2` | `splora-import` takes no mutex: an accepted row is lost or a decided one comes back |
| `StatusNextStays` | `Requests.cfg` | none | the next block that a status names has one confirmation less than the block itself, so a reorganisation of `CONF_FINAL` blocks replaces it while the answer is kept |
| `LongIsStatic` | `Requests.cfg` | `MaxKept = 2` | a reorganisation between the reads of a handler and its choice of the lifetime lets a wrong answer be kept for years |
| `HupKeysFollow` (property) | `Gate.cfg` | none; with `MaxHups <- 1`, `EditsEarly <- FALSE` in `GateMC` the pure race | a SIGHUP reload that parsed an older file stores it after the watch thread stored the newer one; another SIGHUP repairs it |
| `TransactionOfRoute` | `Explorers.cfg` | none | a route that changes to another transaction keeps the body of the first (`web/src/views.rs:1172`) |
| `SpendsOfPage` | `Explorers.cfg` | none | outspends of one page of transactions are painted below another (`views.rs:1053`) |
| `ParsersAlwaysAgree` | `Explorers.cfg` | none | a count of five to eight bytes is read by the desktop explorer (`screens.rs:1937`) and refused by the web page (`web/src/rows.rs:2200`) |
| `BadgesAlwaysAgree` | `Explorers.cfg` | none | a body without `weight` or `sigops` does not parse for the web page, which shows no badge; the desktop explorer fills in placeholders and paints them |
| `OneIsOut` | `Explorers.cfg` | none | an address with a 1 after its prefix gets a bech32 type (`web/src/rows.rs:1159`) |
| `WarningsAgree` | `Explorers.cfg` | none | the web page does not read a multisig when there is a witness script |
| `BtcCapped` | `Explorers.cfg` | none | an amount with white space before it is not capped (`form.rs:201`) |
| `WeightHalfUp` | `Explorers.cfg` | none | the web page rounds a half of a hundredth in floating point, so not always away from zero as its comment says (`web/src/rows.rs:929`) |
| `MinedPaintReturns` | `Explorers.cfg` | none | the paint of a mined block compares the trimmed row with a pool name that has white space around it |
| `RouteFits` | `Explorers.cfg` | none | the flag that selects `/scripthash/` is not the one for the text in the field (`screens.rs:959`) |
| `TipIsCurrent`, `HeldIsCurrent` | `Explorers.cfg` | none | after a switch of the network the tip, or the rows of a paused mempool, are those of the network before |
| `LaunchShows` | `Explorers.cfg` | none | killed between create and write, the file is empty and the next launch gives up (`keystore.rs:85`) |

Two hazards are in the models and assert nothing: `approve` killed between its
two files leaves the npub in neither (documented in the repository's README), and
`Query::utxo` reads the chain before it locks the mempool, so with an update in
between an output may be listed twice or be missing; `ScriptAnswersExact` says
what holds when nothing changes meanwhile. A page that was full before `prepare_txs`
may be shorter afterwards, so a client cannot tell it from the last one while an
update is under way.

## Proofs

Eight modules hold the theorems; `PROJECT.json` lists them with the property each
one states. Everything is proved for every value of the constants under the named
assumptions of the component's module (`TreeAssumption` and the like) and the
hypotheses a theorem lists. A hypothesis is there for one of three reasons: it says
what the constants are (`SyncConstants`, `ServerConstants`, `RateConstants`,
`GateConstants`, `ThreadsDistinct`), it is a rule of Bitcoin (`SpendsConfirmed`,
`WorkGrows`), or without it the statement is false and the counterexample is above,
in the table or among the findings (`~AddressSearch`, `~MayReturn`, `~MayOverlap`,
`ReorgsFit`, `~MayRewind`). The assumptions on constants are of the first two kinds,
but for two of `Rest`. `ShallowAssumption` is what `rest.rs:91` takes for granted,
"reorgs deeper than this are considered unlikely": `CONF_FINAL` blocks may be rolled
back and not more. `KnownAssumption` is bitcoind's policy: what is in its mempool
spends what is there too or what every best chain of the instance has confirmed.

### IndexerProofs

`TypeOK`, `TipBlocksDone` and `TipMovesAlongBranch`, for every block tree, every chunk
size and any number of crashes. `TipBlocksDone`, that each block up to `t` has its done
row on disk, is the part of `SyncedTipDurable` that needs no hypothesis; the run checks
the stronger one. It is not inductive: the invariant
`IInv` adds what is on disk when a phase begins (`DiskInv`), that the lists an update
works on partition the two branches (`ListsInv`), that the keys being deleted belong
to a rolled back block (`DeleteInv`), and that `added_blockhashes` never claims a
block whose done row is not readable (`AddedInv`).

`IndexExact`, `SyncedTipDurable` and `NoPanic` are about all rows, not only the done
rows, and share a second invariant, `RowsInv`. The difficulty is that blocks share
rows: a transaction of both branches has one `T` row, so a rollback could delete what
a block that stays needs. `PlaceInv` says why it does not: a stored block that may
come back lies on one branch with the synced tip and with everything being rolled
back, and the blocks of one branch have no transaction in common. From there the done
row of such a block stands for all its rows, in memory and on disk (`FullInv`,
`HistDiskInv`); in the first process there are no other rows (`OnlyInv`, which says
for each phase whose rows there are); `WorkInv` ties the lists of the phase to the
branches, and `SeenInv` says that what is stored was once in bitcoind's best chain.
A block that left the best chain may be half deleted after a crash, so nothing is
said of it when branches do not return, and when they do, nothing after the first
crash (`Tracked`): this is where the finding `indexer_reindex_lost` lives. No panic in
the lookup of spent outputs needs `SpendsConfirmed`: what a block spends was
confirmed on its branch.

### MempoolProofs

`TypeOK`, `HistoryOnce`, `EdgesLive`, `NoPanic` and `NewcomersStay` for every set of
transactions, every configuration and any number of broadcasters. The strengthening is
`SnapshotInv`: the snapshot and the removal list stay inside `txstore` until they are
used, because only `update` removes. `PollingSpendsRecorded`, in a configuration where
no client broadcasts: `PollingInv` says that what is stored, less what is about to be
removed, together with what is about to be added has no two spenders of one output, in
each phase of `update`. That the pool and the blocks have none is bitcoind's rule, kept
by its actions and assumed of the coins (`MempoolAssumption`). Where clients broadcast
it is false (`SettlesSpends` above).

### MwckProofs

`TypeOK`, for every block tree and any depth of reorganisation: `recent_confirmed`
never has two blocks for one height (`RecentInv`). `MempoolSound`: what a client
believes in the mempool has a body and is among the ids the next comparison starts
from (`BodyInv`). `ConfirmedSound` and `BlocksTold`, where reorganisations fit the
window: before the tip moves and after `notify_new_tip` the remembered blocks and what
was told belong to the branch of the tip, in between to that of the tip the loop
started from (`ChainInv`, `Settled`).

### ServerProofs

`Headers` implements `BestChain`, step by step, for every block tree, any
reorganisations during a download and any restarts (`ListIsBestChain`). `ListInv`: the
list is the path to its tip and the heights map, which keeps rolled back blocks, is
right about each block it knows. `FetchInv`: what was fetched is a run of the branch of
the target that ends in it and starts above a block of the list. So `apply` replaces
one branch by another in one step, and every other action is a stutter. `TypeOK`
follows. `FollowingSafe`: if bitcoind never rewinds to an ancestor, work only grows, so
a target that is not the tip is not on the list (`NoRewindInv`) and no update ends the
process, by an error or an assertion, once the first synchronisation is over.

`CacheSound`, with no hypothesis: branches may return, a transaction may be at one
height on both, and an update may start anywhere in a query. `UpdateInv` says for each
step of an update which history and confirming rows are stored (`Written`). A saved
answer that is not torn is exact for its block alone (`Honest`), so it stays so when
the block is rolled back and when it returns. `Clean` says what a query that was not
overtaken has counted: the rows of the branch up to the last block it looked at are
counted or still in the iterator and no others are (`Counted`), and if that block is
not written any more it was counted to the end and no further row will be. Each of
the three causes in `torn` is needed: without it a counterexample is left.

`OrderlyProcess` of `Shutdown`, for any number of clients, requests, outages and
signals: the main thread is in a request exactly in the three steps of a round
(`MainInv`), and how far the end has come fixes what was stopped and flushed
(`EndInv`).

### RestProofs

Both theorems are for every block tree and page size and any number of updates
between the reads of a request. `SpendAssumption` is consensus: what a
confirmed transaction spends is confirmed before it on its branch.

`KeptAnswersTrue` rests on `KeepInv`. `WriterInv` says which rows there are in each
step of an update, as those of a set of blocks (`Stored`, `Historic`), and that the
mempool has each transaction once. `PlaceInv` ties the request to the place its
handler is at, and `SessionInv` says what the handler's local variables guarantee
there: while `quiet` holds, what was read refers to the block of the best chain at the
height that was read. `KeptInv` says of each kept answer what makes it true for ever:
its block is so deep that `ShallowAssumption` puts it on every later branch, or it is
a raw block, which does not depend on the branch.

`ScriptAnswersExact` says that the pages of a script's history, followed to the end,
are all of it, once and in order, and that the unspent outputs are the right ones,
if nothing changed meanwhile; and, whatever changed, that a first page that was not
full lists every transaction that was in view, with its previous outputs, all the
time. `RestInv` adds, to `KeepInv`, what a list that is being put together holds
(`ListInv`), that nothing was overlooked so far (`WholeInv`), and that the pages so far
are a prefix of the whole (`PagesInv`). That `prepare_txs` takes nothing away when the
main loop is at rest needs `KnownAssumption` (`WholePrevouts`).

The unspent outputs are the hard part, because they are computed over several
requests. `Honest` says that a `U` row that is `pure` holds the outputs unspent at its
block, one that is indexed or was rolled back. A scan starts from nothing or from such
a row of a block of the chain (`From`), and `Scanning` says of a `pure` request that
what it has is what the rows it has passed fund and do not spend: the row that funds
an output comes before the one that spends it (`Earlier`), so the order of the keys
matters and the order within a key position does not. The limits only end a request.

### ScreensProofs

`ShownIsKept` of `KeyStore`: while launches do not race, the launch that creates the
file found none and the one that shows a key has that of the file (`KeyOfFile`).

`ScreensShowAsked` of `NativeScreens`, for any networks, ids and pages and any number
of calls. A load may stop at any of its reads, with the fields assigned before it
changed, so the invariant has two halves: what every outcome of a call keeps, failed
ones too (`Sound`), and what a call that ends without a notice has painted (`Shows`).
Each call is one lemma over its set of outcomes.

`PagesShowAsked` of `WebPages`, for any tour of a user. Answers come in any order, so
the page is described while they are under way: the page is the one asked for
(`AskedInv`), each part of a search has come or is coming (`PartsInv`), and, if the
page was asked for while nothing else was under way, each of its signals shows the
answer or there is just one task to it, which will bring it (`CalmInv`, `PageFits`, `Coming`);
a block that loads step by step is at one of its stages and on the network selected
(`Loading`, `LoadStage`). `WebAssumption` says that heights, hashes and addresses are
different texts.

### ElectrumProofs

`TypeOK` and `ConnectionsBalance`, for any finite number of connections and script
hashes and every setting of the limits: the slots and both gauges are the cardinalities
of what open connections hold (`Balanced`). Every action of a connection is one `Move`
of its record and of the counters with it; that a slot is taken at most once rests on
the PROXY header passing the channel at most once (`ProxyOnce`), and that none is lost
on `Leave` being the only way out of the open phase.

### ImportQueueProofs

`TypeOK` and `WithinCap` for any number of posts and operators, `QueueExact` for any
number of posts and restarts without an operator, and `AllowExact` for one operator at
a time beside any number of posts. A process does only what its job allows
(`PathInv`). For `QueueExact`, only the holder of the mutex is past the lock, so what
it read is still the file and what it staged is still in `.tmp` (`LockInv`). For
`AllowExact` the same is said of the one operator and the allowlist (`KeysInv`).
`WithinCap` needs that every copy of the queue in flight, in a process or in `.tmp`, is
within the cap (`CapInv`), which is why no lock is needed.

`WithinRate` of `RateLimit`, for every window and budget: a list remembers every
counted hit younger than the window of the latest time it has seen (`Remembered`), the
hits of one time are numbered without a gap (`Numbered`, so a new hit is new), and the
counted hits of each window fit the budget (`Fits`).

`GateExact` of `Access`, for any keys, clients, window and changes of the allowlist:
the front finds the network and the path that were asked for, at once or after the
redirect (`Found`, from lemmas on `route`), and the page's event is for the path as the
indexer sees it (`Signed`).

### Only model-checked

Everything under fairness: `CrashingCatchesUp`, `Settles`, `Answered`, `KeysSettle`,
`SocketsClose`, `Informed`, `StopsUnlessStuck`, `WaitsEnd`, `FollowsBest` (except its
invariant part, which is `FollowingSafe` and `TypeOK` of `Headers`). Then
`LabelsAgree`, `AmountsAgree`, `FiguresAgree` and `WalksAndPaintsFit`: they say what
recursive functions compute (scripts read token by token, digits, lines, pages), and
the prover has no induction over data. Where a proof above needs an argument by
induction on heights it is made by a least counterexample.

## Plan

Modelled: everything in the inventory except what the last section names. Proved:
every safety property of the runs except the four just named. What is left:

1. The safety part of `Allowlist`: the keys loaded are those of some version of the
   file, and a socket that stays open after a check has a listed key.
2. The parts of `FiguresAgree` and `WalksAndPaintsFit` that no recursive function
   enters: the walk of the previous and next links, and the slots of a paint.

## Not modelled

Peer discovery of Electrum, the sockets and TLS of the servers, and the parsing of
requests: network I/O with no state of the index. The message dialects, address
matching and the cap of the hub's body cache. REST handlers that answer from one
read, and JSON layouts. The channels between the block reader, parser and fetcher
(what one message holds and the order of messages is in `Indexer`). The Elements
asset index, whose rows follow the add and delete discipline of the index, and the
asset registry, a directory read on a timer. Configuration, metrics, fee estimates
and Merkle proofs: no state shared between threads. Of the explorers: drawing,
markup without a figure or a choice in it, pages that paint a constant, and the
lists of known pools, nodes and languages. Script and address encodings are opaque
values except where labels are read from them.
