------------------------------ MODULE Indexer ------------------------------
(***************************************************************************)
(* The chain indexer: Store, Indexer::update and the main loop that calls  *)
(* it, with process crashes and restarts.                                  *)
(*                                                                         *)
(* RocksDB is modelled by two sets of rows per database: what the process  *)
(* reads (`txstore`, `history`) and what survives the process              *)
(* (`txstoreDisk`, `historyDisk`).  A batch written with the WAL disabled  *)
(* (DBFlush::Disable, the first update of every process) reaches the       *)
(* second only when the memtable is flushed; a delete and a put_sync go    *)
(* through the WAL and reach both.  The in-memory HeaderList is the path   *)
(* from genesis to `headers`, so its last block stands for the list.       *)
(***************************************************************************)
EXTENDS BlockTree

CONSTANTS
    ChunkSize,      \* blocks per getblocks call of bitcoind_fetcher (100)
    JsonrpcImport,  \* --jsonrpc-import
    MayReturn,      \* may a branch that was left become the best one again?
    MaxRestarts     \* bound on the number of process deaths

ASSUME IndexerAssumption ==
    /\ ChunkSize \in Nat \ {0}
    /\ JsonrpcImport \in BOOLEAN
    /\ MayReturn \in BOOLEAN
    /\ MaxRestarts \in Nat

VARIABLES
    daemonTip,      \* bitcoind's best block
    abandoned,      \* blocks that have left its best chain at some time
    txstore, txstoreDisk, history, historyDisk,
    t,              \* the `t` row of txstore, always written with put_sync
    cache,          \* scripts that have a row in the cache database
    pc,             \* where the indexer thread is
    headers,        \* last block of indexed_headers
    added, indexed, \* added_blockhashes, indexed_blockhashes
    flush,          \* DBFlush: TRUE is Enable
    from,           \* FetchFrom
    loopTip,        \* `tip` of run_server
    newHeaders, reorged,   \* blocks of the two lists update works on
    work,           \* blocks of the current phase still to be processed
    del,            \* groups of row keys DB::delete has still to delete
    cancel,         \* scripts whose cache rows are still to be deleted
    restarts

disk   == <<txstoreDisk, historyDisk, t>>
memory == <<headers, added, indexed, flush, from, loopTip, newHeaders, reorged,
            work, del, cancel>>
vars   == <<daemonTip, abandoned, txstore, history, disk, cache, pc, memory, restarts>>

Phases == {"down", "panic", "idle", "update", "rollback", "unindex", "unadd",
           "cancel", "add", "index", "flushTx", "flushHist", "settip"}

TxRows == AddRowsOf(Blocks)
HistRows == IndexRowsOf(Blocks)

TypeOK ==
    /\ daemonTip \in Blocks /\ abandoned \subseteq Blocks
    /\ txstore \subseteq TxRows /\ txstoreDisk \subseteq TxRows
    /\ history \subseteq HistRows /\ historyDisk \subseteq HistRows
    /\ t \in Blocks \cup {NoBlock}
    /\ cache \subseteq Scripts
    /\ pc \in Phases
    /\ headers \in Blocks \cup {NoBlock}
    /\ added \subseteq Blocks /\ indexed \subseteq Blocks
    /\ flush \in BOOLEAN
    /\ from \in {"Bitcoind", "BlkFiles"}
    /\ loopTip \in Blocks \cup {NoBlock}
    /\ newHeaders \subseteq Blocks /\ reorged \subseteq Blocks /\ work \subseteq Blocks
    /\ del \in Seq(SUBSET (TxRows \cup HistRows))
    /\ cancel \subseteq Scripts
    /\ restarts \in 0..MaxRestarts

-----------------------------------------------------------------------------
Init ==
    /\ daemonTip \in {b \in Blocks : Parent[b] = NoBlock}
    /\ abandoned = {}
    /\ txstore = {} /\ txstoreDisk = {}
    /\ history = {} /\ historyDisk = {}
    /\ t = NoBlock
    /\ cache = {}
    /\ pc = "down"
    /\ headers = NoBlock
    /\ added = {} /\ indexed = {}
    /\ flush = FALSE
    /\ from = "Bitcoind"
    /\ loopTip = NoBlock
    /\ newHeaders = {} /\ reorged = {} /\ work = {} /\ del = <<>> /\ cancel = {}
    /\ restarts = 0

(* External: bitcoind moves its best chain to a longer one, either by      *)
(* extending it or by a reorganisation.  Unless MayReturn, a block that    *)
(* was reorganised away stays away.                                        *)
DaemonTip ==
    /\ \E b \in Blocks :
          /\ Height[b] > Height[daemonTip]
          /\ MayReturn \/ Chain[b] \cap abandoned = {}
          /\ daemonTip' = b
          /\ abandoned' = abandoned \cup (Chain[daemonTip] \ Chain[b])
    /\ UNCHANGED <<txstore, history, disk, cache, pc, memory, restarts>>

-----------------------------------------------------------------------------
(* Store::open and Indexer::open.  HeaderList::new panics when a header on *)
(* the way from `t` to genesis has no row.                                 *)
done_initial_sync == t # NoBlock

fetch_from == IF JsonrpcImport \/ done_initial_sync THEN "Bitcoind" ELSE "BlkFiles"

HeadersLoadable == \A b \in Chain[t] : HeaderRow(b) \in txstore

load_blockhashes(db) == {b \in Blocks : DoneRow(b) \in db}

LoadAdded == load_blockhashes(txstore)

Open ==
    /\ pc = "down"
    /\ pc' = IF HeadersLoadable THEN "update" ELSE "panic"
    /\ added' = LoadAdded
    /\ indexed' = load_blockhashes(history)
    /\ headers' = t
    /\ flush' = FALSE
    /\ from' = fetch_from
    /\ UNCHANGED <<daemonTip, abandoned, txstore, history, disk, cache, loopTip, newHeaders,
                   reorged, work, del, cancel, restarts>>

(* The process dies: a panic that has already happened, a signal, an error *)
(* returned from run_server, or an orderly shutdown.  Rows that never left *)
(* the memtable are gone.                                                  *)
Crash ==
    /\ pc # "down"
    /\ restarts < MaxRestarts
    /\ restarts' = restarts + 1
    /\ pc' = "down"
    /\ txstore' = txstoreDisk
    /\ history' = historyDisk
    /\ headers' = NoBlock /\ added' = {} /\ indexed' = {}
    /\ flush' = FALSE /\ from' = "Bitcoind" /\ loopTip' = NoBlock
    /\ newHeaders' = {} /\ reorged' = {} /\ work' = {} /\ del' = <<>> /\ cancel' = {}
    /\ UNCHANGED <<daemonTip, abandoned, disk, cache>>

(* External: RocksDB writes a full memtable out on its own.                *)
MemtableFlush ==
    /\ pc # "down"
    /\ \/ /\ txstoreDisk # txstore
          /\ txstoreDisk' = txstore
          /\ UNCHANGED historyDisk
       \/ /\ historyDisk # history
          /\ historyDisk' = history
          /\ UNCHANGED txstoreDisk
    /\ UNCHANGED <<daemonTip, abandoned, txstore, history, t, cache, pc, memory, restarts>>

-----------------------------------------------------------------------------
(* run_server's loop: read the best block hash, update when it differs.    *)
Poll ==
    /\ pc = "idle"
    /\ loopTip' = daemonTip
    /\ pc' = IF daemonTip # loopTip THEN "update" ELSE "idle"
    /\ UNCHANGED <<daemonTip, abandoned, txstore, history, disk, cache, headers, added, indexed,
                   flush, from, newHeaders, reorged, work, del, cancel, restarts>>

headers_to_add(S) == {b \in S : b \notin added}
IndexNotAdded(S) == {b \in S : b \notin added}   \* mutant: the other set of hashes
headers_to_index(S) == {b \in S : b \notin indexed}

(* update, up to HeaderList::apply: the best block is read again, the      *)
(* headers that lead to it are fetched, and the header list is replaced    *)
(* before any row is touched.  apply's caller asserts that the new list    *)
(* ends in the best block, which fails when that block is an ancestor of   *)
(* the old tip.                                                            *)
BeginUpdate ==
    /\ pc = "update"
    /\ IF daemonTip \in Chain[headers] /\ daemonTip # headers
         THEN /\ pc' = "panic"
              /\ UNCHANGED <<headers, newHeaders, reorged, work>>
         ELSE LET fresh == Chain[daemonTip] \ Chain[headers]
                  gone  == Chain[headers] \ Chain[daemonTip]
              IN  /\ headers' = daemonTip
                  /\ newHeaders' = fresh
                  /\ reorged' = gone
                  /\ pc' = IF gone # {} THEN "rollback" ELSE "add"
                  /\ work' = IF gone # {} THEN {} ELSE headers_to_add(fresh)
    /\ UNCHANGED <<daemonTip, abandoned, txstore, history, disk, cache, added, indexed, flush,
                   from, loopTip, del, cancel, restarts>>

(* "rollback the tip blockhash first": `t` moves back to the last header   *)
(* that apply kept, or is deleted when it kept none.                       *)
RollbackKeepsTip == t   \* mutant: reorg starts with `t` still at the old tip
RollbackTarget == LastOf(Chain[headers] \ newHeaders)

RollbackTip ==
    /\ pc = "rollback"
    /\ t' = RollbackTarget
    /\ pc' = "unindex"
    /\ work' = reorged
    /\ UNCHANGED <<daemonTip, abandoned, txstore, history, txstoreDisk, historyDisk, cache, headers,
                   added, indexed, flush, from, loopTip, newHeaders, reorged, del,
                   cancel, restarts>>

IsHighest(b, S) == b \in S /\ \A c \in S : Height[b] >= Height[c]

(* lookup_txos with allow_missing = false.                                 *)
TxosPresent(S) == \A o \in get_previous_txos(S) : TxOutRow(o) \in txstore

(* reorg, first half: Indexer::index with DeleteBlocksWithHistory, block   *)
(* by block from the old tip down.  The rows are recomputed, which needs   *)
(* the spent outputs, and their scripts are sent to the cache cancel list. *)
UnindexBlock ==
    /\ pc = "unindex" /\ del = <<>> /\ work # {}
    /\ \E b \in work :
          /\ IsHighest(b, work)
          /\ IF TxosPresent({b})
               THEN /\ del' = index_blocks(b)
                    /\ cancel' = cancel \cup ScriptsTouched(b)
                    /\ pc' = pc
               ELSE /\ pc' = "panic"
                    /\ UNCHANGED <<del, cancel>>
    /\ UNCHANGED <<daemonTip, abandoned, txstore, history, disk, cache, headers, added, indexed,
                   flush, from, loopTip, newHeaders, reorged, work, restarts>>

(* DB::delete takes one key at a time, from the first group that still has *)
(* one.  r is that key, b the block it belongs to, and the block is done   *)
(* when no key is left.                                                    *)
DeleteKey(r, b) ==
    \E i \in DOMAIN del :
        LET left == [del EXCEPT ![i] = @ \ {r}]
            last == RowsIn(left) = {}
        IN  /\ r \in del[i]
            /\ \A j \in 1..(i - 1) : del[j] = {}
            /\ IsHighest(b, work)
            /\ del' = IF last THEN <<>> ELSE left
            /\ work' = IF last THEN work \ {b} ELSE work

DeleteHistoryRow ==
    /\ pc = "unindex" /\ del # <<>>
    /\ \E r \in RowsIn(del), b \in work :
          /\ DeleteKey(r, b)
          /\ history' = history \ {r}
          /\ historyDisk' = historyDisk \ {r}
    /\ UNCHANGED <<daemonTip, abandoned, txstore, txstoreDisk, t, cache, pc, headers, added, indexed,
                   flush, from, loopTip, newHeaders, reorged, cancel, restarts>>

UnindexDone ==
    /\ pc = "unindex" /\ work = {}
    /\ pc' = "unadd"
    /\ work' = reorged
    /\ UNCHANGED <<daemonTip, abandoned, txstore, history, disk, cache, headers, added, indexed,
                   flush, from, loopTip, newHeaders, reorged, del, cancel, restarts>>

(* reorg, second half: Indexer::add with DeleteBlocks.                     *)
UnaddBlock ==
    /\ pc = "unadd" /\ del = <<>> /\ work # {}
    /\ \E b \in work : IsHighest(b, work) /\ del' = add_blocks(b)
    /\ UNCHANGED <<daemonTip, abandoned, txstore, history, disk, cache, pc, headers, added, indexed,
                   flush, from, loopTip, newHeaders, reorged, work, cancel, restarts>>

ForgetAdded(b) == added \ {b}

DeleteTxstoreRow ==
    /\ pc = "unadd" /\ del # <<>>
    /\ \E r \in RowsIn(del), b \in work :
          /\ DeleteKey(r, b)
          /\ txstore' = txstore \ {r}
          /\ txstoreDisk' = txstoreDisk \ {r}
          /\ added' = IF b \in work' THEN added ELSE ForgetAdded(b)
    /\ UNCHANGED <<daemonTip, abandoned, history, historyDisk, t, cache, pc, headers, indexed,
                   flush, from, loopTip, newHeaders, reorged, cancel, restarts>>

UnaddDone ==
    /\ pc = "unadd" /\ work = {}
    /\ pc' = "cancel"
    /\ UNCHANGED <<daemonTip, abandoned, txstore, history, disk, cache, memory, restarts>>

(* reorg, last: the A and U rows of every script of the rolled back blocks.*)
CancelCache ==
    /\ pc = "cancel"
    /\ \E s \in cancel :
          /\ cache' = cache \ {s}
          /\ cancel' = cancel \ {s}
    /\ UNCHANGED <<daemonTip, abandoned, txstore, history, disk, pc, headers, added, indexed, flush,
                   from, loopTip, newHeaders, reorged, work, del, restarts>>

ReorgDone ==
    /\ pc = "cancel" /\ cancel = {}
    /\ pc' = "add"
    /\ work' = headers_to_add(newHeaders)
    /\ UNCHANGED <<daemonTip, abandoned, txstore, history, disk, cache, headers, added, indexed,
                   flush, from, loopTip, newHeaders, reorged, del, cancel, restarts>>

-----------------------------------------------------------------------------
(* What one message of the fetcher holds: bitcoind_fetcher sends the next  *)
(* ChunkSize headers in height order, blkfiles_fetcher the wanted blocks of*)
(* the next blk*.dat file, in whatever order the files hold them.          *)
Batch(S) ==
    /\ S \subseteq work /\ S # {}
    /\ from = "Bitcoind" =>
          /\ \A b \in S, c \in work \ S : Height[b] < Height[c]
          /\ Cardinality(S) = ChunkSize
                \/ (S = work /\ Cardinality(S) < ChunkSize)

(* Indexer::add with AddBlocks: one atomic write batch, then the hashes.   *)
RecordNothing(S) == added   \* mutant: added_blockhashes is not extended
RecordAdded(S) == added \cup S

AddBatch ==
    /\ pc = "add"
    /\ \E S \in SUBSET work :
          /\ Batch(S)
          /\ txstore' = txstore \cup AddRowsOf(S)
          /\ txstoreDisk' = IF flush THEN txstoreDisk \cup AddRowsOf(S) ELSE txstoreDisk
          /\ added' = RecordAdded(S)
          /\ work' = work \ S
    /\ UNCHANGED <<daemonTip, abandoned, history, historyDisk, t, cache, pc, headers, indexed, flush,
                   from, loopTip, newHeaders, reorged, del, cancel, restarts>>

AddDone ==
    /\ pc = "add" /\ work = {}
    /\ pc' = "index"
    /\ work' = headers_to_index(newHeaders)
    /\ UNCHANGED <<daemonTip, abandoned, txstore, history, disk, cache, headers, added, indexed,
                   flush, from, loopTip, newHeaders, reorged, del, cancel, restarts>>

(* Indexer::index with AddBlocks.  It panics on a missing previous output  *)
(* and on a block that was not added.  indexed_blockhashes is not touched. *)
HistoryBatch(S) == IndexRowsOf(S)

IndexBatch ==
    /\ pc = "index"
    /\ \E S \in SUBSET work :
          /\ Batch(S)
          /\ IF TxosPresent(S) /\ S \subseteq added
               THEN /\ history' = history \cup HistoryBatch(S)
                    /\ historyDisk' = IF flush THEN historyDisk \cup HistoryBatch(S)
                                               ELSE historyDisk
                    /\ work' = work \ S
                    /\ pc' = pc
               ELSE /\ pc' = "panic"
                    /\ UNCHANGED <<history, historyDisk, work>>
    /\ UNCHANGED <<daemonTip, abandoned, txstore, txstoreDisk, t, cache, headers, added, indexed,
                   flush, from, loopTip, newHeaders, reorged, del, cancel, restarts>>

NeverFlush == "settip"   \* mutant: `t` is written before the data is durable
AfterIndex == IF flush THEN "settip" ELSE "flushTx"

IndexDone ==
    /\ pc = "index" /\ work = {}
    /\ pc' = AfterIndex
    /\ UNCHANGED <<daemonTip, abandoned, txstore, history, disk, cache, memory, restarts>>

(* The first update of a process flushes both databases by hand and turns  *)
(* the WAL on for the rest of its life.                                    *)
FlushTxstore ==
    /\ pc = "flushTx"
    /\ txstoreDisk' = txstore
    /\ pc' = "flushHist"
    /\ UNCHANGED <<daemonTip, abandoned, txstore, history, historyDisk, t, cache, memory, restarts>>

FlushHistory ==
    /\ pc = "flushHist"
    /\ historyDisk' = history
    /\ flush' = TRUE
    /\ pc' = "settip"
    /\ UNCHANGED <<daemonTip, abandoned, txstore, history, txstoreDisk, t, cache, headers, added,
                   indexed, from, loopTip, newHeaders, reorged, work, del, cancel, restarts>>

(* "update the synced tip *after* the new data is flushed to disk"; the    *)
(* first update's result is also run_server's first `tip`.                 *)
LoopTipNewest == daemonTip   \* mutant: remembers a tip that is not indexed
LoopTipAfter == IF loopTip = NoBlock THEN headers ELSE loopTip

SetTip ==
    /\ pc = "settip"
    /\ t' = headers
    /\ from' = "Bitcoind"
    /\ loopTip' = LoopTipAfter
    /\ pc' = "idle"
    /\ newHeaders' = {} /\ reorged' = {}
    /\ UNCHANGED <<daemonTip, abandoned, txstore, history, txstoreDisk, historyDisk, cache, headers,
                   added, indexed, flush, work, del, cancel, restarts>>

-----------------------------------------------------------------------------
UpdateStep ==
    \/ BeginUpdate \/ RollbackTip
    \/ UnindexBlock \/ DeleteHistoryRow \/ UnindexDone
    \/ UnaddBlock \/ DeleteTxstoreRow \/ UnaddDone
    \/ CancelCache \/ ReorgDone
    \/ AddBatch \/ AddDone \/ IndexBatch \/ IndexDone
    \/ FlushTxstore \/ FlushHistory \/ SetTip

Next == DaemonTip \/ Open \/ Crash \/ MemtableFlush \/ Poll \/ UpdateStep

Spec == Init /\ [][Next]_vars

(* The indexer thread runs whenever it can, and the service is restarted;  *)
(* nothing forces bitcoind to find blocks or the process to die.           *)
Fairness == WF_vars(Open) /\ WF_vars(Poll) /\ WF_vars(UpdateStep)

LiveSpec == Spec /\ Fairness
-----------------------------------------------------------------------------
(* Between two updates every block of the best chain has all its rows in   *)
(* txstore: add has stored each block that Indexer::update put in the      *)
(* header list, and reorg has removed no row of a block that stays.        *)
ChainStored == pc = "idle" => AddRowsOf(Chain[headers]) \subseteq txstore

(* The same for the history and edge rows of Indexer::index.               *)
ChainIndexed == pc = "idle" => IndexRowsOf(Chain[headers]) \subseteq history

(* In the first process the two databases hold, between two updates,       *)
(* exactly the rows of the best chain: update adds and indexes every new   *)
(* block once, and reorg leaves nothing of a block it rolled back, even    *)
(* when a transaction moves from a rolled back block to a new one or a     *)
(* branch returns.                                                         *)
IndexExact ==
    pc = "idle" /\ restarts = 0 =>
        /\ txstore = AddRowsOf(Chain[headers])
        /\ history = IndexRowsOf(Chain[headers])

(* update writes `t` after the flush, and moves it back before reorg       *)
(* deletes anything: at every moment a crash would leave, on disk, every   *)
(* row of every block up to `t`.                                           *)
SyncedTipDurable ==
    /\ AddRowsOf(Chain[t]) \subseteq txstoreDisk
    /\ IndexRowsOf(Chain[t]) \subseteq historyDisk

(* Every block up to `t` is marked as added on disk, whatever crashes and  *)
(* reorganisations came before.                                            *)
TipBlocksDone == \A b \in Chain[t] : DoneRow(b) \in txstoreDisk

(* No panic of the indexer thread: no output that index looks up is        *)
(* missing from txstore, no block is indexed before it is added, the       *)
(* header list always ends in the best block, and Store::open finds every  *)
(* header up to `t`.                                                       *)
NoPanic == pc # "panic"

(* With --address-search every funded address of the best chain can be     *)
(* found by prefix.                                                        *)
AddressesListed ==
    pc = "idle" /\ AddressSearch =>
        \A b \in Chain[headers] : \A tx \in TxsOf(b) :
            \A o \in {p \in OutsOf(tx) : Indexable(p)} : <<"a", ScriptOf(o)>> \in history

(* The synced tip moves along one branch at a time: forward to a           *)
(* descendant, or back to an ancestor.                                     *)
TipMovesAlongBranch == [][t' # t => Chain[t] \subseteq Chain[t'] \/ Chain[t'] \subseteq Chain[t]]_vars

(* Once bitcoind settles, the index reaches its best block and stays.      *)
CatchesUp == <>[](t = daemonTip /\ headers = daemonTip)
=============================================================================
