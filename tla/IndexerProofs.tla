--------------------------- MODULE IndexerProofs ---------------------------
(***************************************************************************)
(* What holds of the indexer for every block tree, every number of         *)
(* restarts and every reorganisation, returns to an abandoned branch       *)
(* included.                                                               *)
(***************************************************************************)
EXTENDS Indexer, SequenceTheorems, TLAPS

(* Phases in which the header list is already the new one and `t` is at    *)
(* most the point where the old and the new chain part.                    *)
Ahead == {"unindex", "unadd", "cancel", "add", "index", "flushTx", "flushHist", "settip"}

(* Disk and memory agree once the WAL is on.                               *)
DiskInv ==
    /\ txstoreDisk \subseteq txstore
    /\ flush \/ pc \in {"flushHist", "settip"} => txstoreDisk = txstore

(* How the header list, `t` and the two work lists of update are related.  *)
ListsInv ==
    /\ pc \in {"update", "idle"} => headers = t
    /\ pc = "rollback" => /\ newHeaders = Chain[headers] \ Chain[t]
                          /\ reorged = Chain[t] \ Chain[headers]
    /\ pc \in Ahead => /\ Chain[headers] = Chain[t] \cup newHeaders
                       /\ Chain[t] \cap reorged = {}

(* A rollback only deletes done rows of rolled back blocks.                *)
DeleteInv ==
    /\ pc \notin {"unindex", "unadd"} => del = <<>>
    /\ pc \in {"unindex", "unadd"} => work \subseteq reorged /\ (work = {} => del = <<>>)
    /\ pc = "unadd" => \A b \in Blocks : DoneRow(b) \in RowsIn(del) => b \in work

(* added_blockhashes holds only blocks whose done row is in txstore, and   *)
(* after the add phase it holds all the new ones.                          *)
AddedInv ==
    /\ pc \notin {"down", "panic", "unadd"} => \A b \in added : DoneRow(b) \in txstore
    /\ pc = "unadd" => \A b \in added \ work : DoneRow(b) \in txstore
    /\ pc = "add" => newHeaders \ work \subseteq added
    /\ pc \in {"index", "flushTx", "flushHist", "settip"} => newHeaders \subseteq added

IInv == TypeOK /\ TipBlocksDone /\ DiskInv /\ ListsInv /\ DeleteInv /\ AddedInv

-----------------------------------------------------------------------------
(* The rows themselves.  A block that was rolled back may keep its done    *)
(* row and lose others when the process dies in the middle, so nothing is  *)
(* said of a block that may not come back: one that left bitcoind's best   *)
(* chain, when branches do not return.  When they do, everything below is  *)
(* said only as long as the process has not died.                          *)
Tracked == ~MayReturn \/ restarts = 0
Kept(b) == b \in Chain[headers] \/ (~MayReturn /\ b \notin abandoned)
StoredTx(b) == DoneRow(b) \in txstore
StoredHist(b) == DoneRow(b) \in history

(* Blocks in the databases and in the lists were seen in bitcoind's best   *)
(* chain, and are not higher than its tip.                                 *)
SeenInv ==
    /\ \A b \in Chain[t] \cup Chain[headers] : Height[b] <= Height[daemonTip]
    /\ ~MayReturn =>
          /\ Chain[daemonTip] \cap abandoned = {}
          /\ Chain[t] \cup Chain[headers] \subseteq Chain[daemonTip] \cup abandoned
          /\ \A b \in Blocks : StoredTx(b) \/ StoredHist(b) => b \in Chain[daemonTip] \cup abandoned

(* history is to historyDisk what txstore is to txstoreDisk; a process     *)
(* that starts reads what is on disk.                                      *)
HistDiskInv ==
    /\ historyDisk \subseteq history
    /\ flush \/ pc = "settip" => historyDisk = history
    /\ pc = "down" => txstore = txstoreDisk /\ history = historyDisk /\ headers = NoBlock

(* What update works on: new blocks in its second half, and in a rollback  *)
(* the blocks of the old branch, whose rows are all there to begin with.   *)
WorkInv ==
    /\ pc \in Ahead => newHeaders \cap Chain[t] = {}
    /\ pc \in {"add", "index"} => work \subseteq newHeaders
    /\ pc = "rollback" => reorged # {}
    /\ pc \in {"unindex", "unadd"} => /\ \E o \in Blocks : Chain[o] = Chain[t] \cup reorged
                                      /\ reorged \cap Chain[headers] = {}
    /\ pc = "unindex" => AddRowsOf(reorged) \subseteq txstore /\ RowsIn(del) \subseteq IndexRowsOf(work)
    /\ pc = "unadd" => RowsIn(del) \subseteq AddRowsOf(work)
    /\ pc = "index" => \A b \in newHeaders \ work : StoredHist(b)
    /\ pc \in {"flushTx", "flushHist", "settip"} => \A b \in newHeaders : StoredHist(b)

(* Where a block that may come back is stored, it is on one branch with    *)
(* the synced tip and with what is rolled back: a rollback can then not    *)
(* delete a row of it that another block, with the same transaction, has.  *)
Gone == IF pc \in {"unindex", "unadd"} THEN reorged ELSE {}
PlaceInv ==
    \A b \in Blocks : Kept(b) /\ (StoredTx(b) \/ StoredHist(b)) =>
        /\ pc \notin {"down", "update"} => b \in Chain[headers]
        /\ \E h \in Blocks : {b} \cup Chain[t] \cup Gone \subseteq Chain[h]

(* The done row of such a block stands for all its rows, in memory and on  *)
(* disk.                                                                   *)
FullInv ==
    \A b \in Blocks : Kept(b) =>
        /\ StoredTx(b) => AddRows(b) \subseteq txstore
        /\ DoneRow(b) \in txstoreDisk => AddRows(b) \subseteq txstoreDisk
        /\ StoredHist(b) => IndexRows(b) \subseteq history
        /\ DoneRow(b) \in historyDisk => IndexRows(b) \subseteq historyDisk
        /\ b \in indexed => StoredHist(b)

(* As long as the process has not died, there are no other rows.           *)
TxBlocks ==
    CASE pc = "unindex" -> Chain[t] \cup reorged
      [] pc = "unadd" -> Chain[t] \cup work
      [] pc = "add" -> Chain[t] \cup (newHeaders \ work)
      [] pc \in {"index", "flushTx", "flushHist", "settip"} -> Chain[headers]
      [] OTHER -> Chain[t]
HistBlocks ==
    CASE pc = "unindex" -> Chain[t] \cup work
      [] pc = "index" -> Chain[t] \cup (newHeaders \ work)
      [] pc \in {"flushTx", "flushHist", "settip"} -> Chain[headers]
      [] OTHER -> Chain[t]

OnlyInv ==
    restarts = 0 =>
        /\ pc = "down" => t = NoBlock
        /\ txstore \subseteq AddRowsOf(TxBlocks) /\ history \subseteq IndexRowsOf(HistBlocks)
        /\ added \subseteq TxBlocks /\ indexed = {}
        /\ pc = "unindex" /\ del # <<>> => \A c \in work : IsHighest(c, work) =>
              history \subseteq IndexRowsOf(Chain[t] \cup (work \ {c})) \cup RowsIn(del)
        /\ pc = "unadd" /\ del # <<>> => \A c \in work : IsHighest(c, work) =>
              txstore \subseteq AddRowsOf(Chain[t] \cup (work \ {c})) \cup RowsIn(del)

Parts == /\ SyncedTipDurable /\ NoPanic /\ SeenInv /\ HistDiskInv /\ WorkInv
         /\ PlaceInv /\ FullInv /\ OnlyInv
RowsInv == Tracked => Parts

(* Consensus: what a block spends was confirmed on its branch, and is not  *)
(* provably unspendable.                                                   *)
SpendsConfirmed ==
    \A b \in Blocks : \A o \in get_previous_txos({b}) :
        o \notin Unspendable /\ \E a \in Chain[b] : o[1] \in TxsOf(a)

-----------------------------------------------------------------------------
(* The row groups of two lists, put one after the other.                   *)
LEMMA RowsInConcat ==
    ASSUME NEW S, NEW f \in Seq(SUBSET S), NEW g \in Seq(SUBSET S)
    PROVE  /\ f \o g \in Seq(SUBSET S)
           /\ RowsIn(f \o g) = RowsIn(f) \cup RowsIn(g)
<1>1. /\ f \o g \in Seq(SUBSET S)
      /\ Len(f \o g) = Len(f) + Len(g)
      /\ \A i \in 1 .. Len(f) + Len(g) :
            (f \o g)[i] = IF i <= Len(f) THEN f[i] ELSE g[i - Len(f)]
  BY ConcatProperties
<1>2. /\ DOMAIN f = 1..Len(f) /\ Len(f) \in Nat
      /\ DOMAIN g = 1..Len(g) /\ Len(g) \in Nat
      /\ DOMAIN (f \o g) = 1..(Len(f) + Len(g))
  BY <1>1
<1> DEFINE h == f \o g
<1>3. \A i \in DOMAIN h : h[i] \subseteq RowsIn(f) \cup RowsIn(g)
  <2> SUFFICES ASSUME NEW i \in DOMAIN h PROVE h[i] \subseteq RowsIn(f) \cup RowsIn(g)
    OBVIOUS
  <2>1. CASE i <= Len(f)
    <3>1. i \in DOMAIN f /\ h[i] = f[i]
      BY <1>1, <1>2, <2>1
    <3> HIDE DEF h
    <3> QED BY <3>1 DEF RowsIn
  <2>2. CASE ~(i <= Len(f))
    <3>1. i - Len(f) \in DOMAIN g /\ h[i] = g[i - Len(f)]
      BY <1>1, <1>2, <2>2
    <3> HIDE DEF h
    <3> QED BY <3>1 DEF RowsIn
  <2> QED BY <2>1, <2>2
<1>4. \A i \in DOMAIN f : i \in DOMAIN h /\ h[i] = f[i]
  BY <1>1, <1>2
<1>5. \A i \in DOMAIN g : i + Len(f) \in DOMAIN h /\ h[i + Len(f)] = g[i]
  BY <1>1, <1>2
<1> HIDE DEF h
<1>6. RowsIn(h) = RowsIn(f) \cup RowsIn(g)
  BY <1>3, <1>4, <1>5 DEF RowsIn
<1> QED BY <1>1, <1>6 DEF h

(* The rows add_blocks pushes for one block, as one set.                   *)
LEMMA AddRowsShape ==
    ASSUME NEW b \in Blocks
    PROVE  /\ add_blocks(b) \in Seq(SUBSET AddRows(b))
           /\ DoneRow(b) \in AddRows(b)
           /\ \A c \in Blocks : DoneRow(c) \in AddRows(b) => c = b
<1> DEFINE n == Len(BlockTxs[b])
           f == [i \in 1..n |-> add_transaction(BlockTxs[b][i], b)]
           g == << IF LightMode THEN {} ELSE {<<"X", b>>, <<"M", b>>},
                   {HeaderRow(b)}, {DoneRow(b)} >>
           U == RowsIn(f) \cup RowsIn(g)
<1>1. n \in Nat
  BY TxAssumption
<1>2. f \in Seq(SUBSET U)
  BY <1>1 DEF RowsIn
<1>3. g \in Seq(SUBSET U)
  BY DEF RowsIn
<1>4. add_blocks(b) = f \o g
  BY DEF add_blocks
<1>5. \A c \in Blocks : DoneRow(c) \notin RowsIn(f)
  <2>1. \A tx : \A r \in add_transaction(tx, b) : r[1] # "D"
    BY DEF add_transaction, TxOutRow
  <2>2. \A c : DoneRow(c)[1] = "D"
    BY DEF DoneRow
  <2>3. \A r \in RowsIn(f) : r[1] # "D"
    BY <2>1, <1>1 DEF RowsIn
  <2> QED BY <2>2, <2>3
<1>6. \A c \in Blocks : DoneRow(c) \in RowsIn(g) => c = b
  BY DEF RowsIn, DoneRow, HeaderRow
<1>7. DoneRow(b) \in RowsIn(g)
  BY DEF RowsIn
<1> HIDE DEF f, g, n
<1>8. f \o g \in Seq(SUBSET U) /\ RowsIn(f \o g) = U
  BY <1>2, <1>3, RowsInConcat
<1> QED BY <1>4, <1>5, <1>6, <1>7, <1>8 DEF AddRows

(* A block has its own done row among its rows and no other.               *)
LEMMA DoneRowOwn ==
    \A b, c \in Blocks : DoneRow(c) \in AddRows(b) <=> c = b
<1> SUFFICES ASSUME NEW b \in Blocks, NEW c \in Blocks
             PROVE  DoneRow(c) \in AddRows(b) <=> c = b
  OBVIOUS
<1>1. DoneRow(b) \in AddRows(b) /\ (DoneRow(c) \in AddRows(b) => c = b)
  BY AddRowsShape
<1> QED BY <1>1

(* The rows index_blocks pushes for one block, and the scripts it reports. *)
LEMMA IndexRowsShape ==
    ASSUME NEW b \in Blocks
    PROVE  /\ index_blocks(b) \in Seq(SUBSET IndexRows(b))
           /\ ScriptsTouched(b) \subseteq Scripts
<1> DEFINE n == Len(BlockTxs[b])
           f == [i \in 1..n |-> index_transaction(BlockTxs[b][i], Height[b], i)]
           g == << {DoneRow(b)} >>
           U == RowsIn(f) \cup RowsIn(g)
<1>1. n \in Nat /\ \A i \in 1..n : BlockTxs[b][i] \in Txs
  BY TxAssumption
<1>2. f \in Seq(SUBSET U)
  <2>1. DOMAIN f = 1..n /\ f = [i \in 1..n |-> f[i]]
    OBVIOUS
  <2> HIDE DEF f, g
  <2>2. \A i \in 1..n : f[i] \in SUBSET U
    BY <2>1 DEF RowsIn
  <2> QED BY <1>1, <2>1, <2>2
<1>3. g \in Seq(SUBSET U)
  BY DEF RowsIn
<1>4. index_blocks(b) = f \o g
  BY DEF index_blocks
<1>5. \A r \in RowsIn(f) : r[1] = "H" => r[2] \in Scripts
  <2>1. \A o \in Outpoints : ScriptOf(o) \in Scripts
    BY TxAssumption DEF Outpoints, ScriptOf
  <2>2. \A tx \in Txs : OutsOf(tx) \subseteq Outpoints /\ Spends[tx] \subseteq Outpoints
    BY TxAssumption DEF Outpoints, OutsOf
  <2>3. \A tx \in Txs : \A h, i : \A r \in index_transaction(tx, h, i) :
            r[1] = "H" => r[2] \in Scripts
    BY <2>1, <2>2 DEF index_transaction
  <2>4. DOMAIN f = 1..n /\ \A i \in 1..n :
            \E tx \in Txs : f[i] = index_transaction(tx, Height[b], i)
    BY <1>1
  <2> HIDE DEF f
  <2>5. \A i \in 1..n : \A r \in f[i] : r[1] = "H" => r[2] \in Scripts
    BY <2>3, <2>4
  <2> QED BY <2>4, <2>5 DEF RowsIn
<1>6. \A r \in RowsIn(g) : r[1] # "H"
  BY DEF RowsIn, DoneRow
<1> HIDE DEF f, g, n
<1>7. f \o g \in Seq(SUBSET U) /\ RowsIn(f \o g) = U
  BY <1>2, <1>3, RowsInConcat
<1>8. ScriptsTouched(b) \subseteq Scripts
  BY <1>4, <1>5, <1>6, <1>7 DEF ScriptsTouched, IndexRows
<1> QED BY <1>4, <1>7, <1>8 DEF IndexRows

(* Deleting one key leaves a list of sets of rows, with no key it did not  *)
(* have before.                                                            *)
LEMMA DeleteKeyType ==
    ASSUME NEW S, del \in Seq(SUBSET S), NEW r, NEW b, DeleteKey(r, b)
    PROVE  /\ del' \in Seq(SUBSET S)
           /\ RowsIn(del') \subseteq RowsIn(del)
           /\ r \in RowsIn(del)
           /\ b \in work
           /\ \/ work' = work
              \/ work' = work \ {b} /\ del' = <<>>
<1>1. PICK i \in DOMAIN del :
         /\ r \in del[i]
         /\ \/ del' = <<>> /\ work' = work \ {b}
            \/ del' = [del EXCEPT ![i] = @ \ {r}] /\ work' = work
  BY DEF DeleteKey
<1>2. b \in work
  BY DEF DeleteKey, IsHighest
<1>3. CASE del' = <<>> /\ work' = work \ {b}
  <2>1. RowsIn(<<>>) = {}
    BY DEF RowsIn
  <2> QED BY <1>1, <1>2, <1>3, <2>1 DEF RowsIn
<1>4. CASE del' = [del EXCEPT ![i] = @ \ {r}] /\ work' = work
  <2>1. del' \in Seq(SUBSET S) /\ DOMAIN del' = DOMAIN del
    BY <1>1, <1>4, ExceptSeq
  <2>2. \A j \in DOMAIN del' : del'[j] \subseteq del[j]
    BY <1>4, <2>1
  <2> QED BY <1>1, <1>2, <1>4, <2>1, <2>2 DEF RowsIn
<1> QED BY <1>1, <1>3, <1>4

(* The last header that apply kept exists, and its chain is what was kept. *)
LEMMA KeptTip ==
    ASSUME NEW a \in Blocks \cup {NoBlock}, NEW b \in Blocks \cup {NoBlock}
    PROVE  /\ LastOf(Chain[a] \cap Chain[b]) \in Blocks \cup {NoBlock}
           /\ Chain[LastOf(Chain[a] \cap Chain[b])] = Chain[a] \cap Chain[b]
BY ForkAssumption DEF LastOf

(* Every step keeps the variables in their types.                          *)
LEMMA TypeStep == TypeOK /\ ListsInv /\ [Next]_vars => TypeOK'
<1> SUFFICES ASSUME TypeOK, ListsInv, [Next]_vars PROVE TypeOK'
  OBVIOUS
<1> USE TreeAssumption, IndexerAssumption
<1>1. CASE DaemonTip
  BY <1>1 DEF DaemonTip, TypeOK, Phases, disk, memory
<1>2. CASE Open
  BY <1>2 DEF Open, fetch_from, LoadAdded, load_blockhashes, TypeOK, Phases, disk, memory
<1>3. CASE Crash
  <2>1. del' \in Seq(SUBSET (TxRows' \cup HistRows'))
    BY <1>3 DEF Crash
  <2>2. restarts' \in 0..MaxRestarts
    BY <1>3 DEF Crash, TypeOK
  <2> QED BY <1>3, <2>1, <2>2 DEF Crash, TypeOK, Phases, disk
<1>4. CASE MemtableFlush
  BY <1>4 DEF MemtableFlush, TypeOK, Phases, disk, memory
<1>5. CASE Poll
  BY <1>5 DEF Poll, TypeOK, Phases, disk, memory
<1>6. CASE BeginUpdate
  <2>1. /\ pc' \in Phases
        /\ headers' \in Blocks \cup {NoBlock}
        /\ newHeaders' \subseteq Blocks /\ reorged' \subseteq Blocks /\ work' \subseteq Blocks
    BY <1>6 DEF BeginUpdate, headers_to_add, TypeOK, Phases
  <2> QED BY <1>6, <2>1 DEF BeginUpdate, TypeOK, disk
<1>7. CASE RollbackTip
  <2>1. Chain[headers] \ newHeaders = Chain[headers] \cap Chain[t]
    BY <1>7 DEF RollbackTip, ListsInv
  <2>2. t' \in Blocks \cup {NoBlock}
    BY <1>7, <2>1, KeptTip DEF RollbackTip, RollbackTarget, TypeOK
  <2> QED BY <1>7, <2>2 DEF RollbackTip, RollbackTarget, TypeOK, Phases, disk, memory
<1>8. CASE UnindexBlock
  <2>1. PICK b \in work :
           \/ del' = index_blocks(b) /\ cancel' = cancel \cup ScriptsTouched(b) /\ pc' = pc
           \/ pc' = "panic" /\ UNCHANGED <<del, cancel>>
    BY <1>8 DEF UnindexBlock
  <2>2. b \in Blocks
    BY DEF TypeOK
  <2>3. SUBSET IndexRows(b) \subseteq SUBSET (TxRows \cup HistRows)
    BY <2>2 DEF HistRows, IndexRowsOf
  <2>4. /\ index_blocks(b) \in Seq(SUBSET (TxRows \cup HistRows))
        /\ ScriptsTouched(b) \subseteq Scripts
    BY <2>2, <2>3, IndexRowsShape, SeqMonotonic
  <2> QED BY <1>8, <2>1, <2>4 DEF UnindexBlock, TypeOK, Phases, disk, memory
<1>9. CASE DeleteHistoryRow
  <2>1. PICK r \in RowsIn(del), b \in work : DeleteKey(r, b)
    BY <1>9 DEF DeleteHistoryRow
  <2> DEFINE R == TxRows \cup HistRows
  <2>2. del \in Seq(SUBSET R) /\ work \subseteq Blocks
    BY DEF TypeOK
  <2> HIDE DEF R
  <2>3. del' \in Seq(SUBSET R) /\ work' \subseteq Blocks
    BY <2>1, <2>2, DeleteKeyType
  <2> QED BY <1>9, <2>3 DEF R, DeleteHistoryRow, TypeOK, Phases, disk, memory
<1>10. CASE UnindexDone
  BY <1>10 DEF UnindexDone, TypeOK, Phases, disk, memory
<1>11. CASE UnaddBlock
  <2>1. PICK b \in work : del' = add_blocks(b)
    BY <1>11 DEF UnaddBlock
  <2>2. b \in Blocks
    BY DEF TypeOK
  <2>3. SUBSET AddRows(b) \subseteq SUBSET (TxRows \cup HistRows)
    BY <2>2 DEF TxRows, AddRowsOf
  <2>4. add_blocks(b) \in Seq(SUBSET (TxRows \cup HistRows))
    BY <2>2, <2>3, AddRowsShape, SeqMonotonic
  <2> QED BY <1>11, <2>1, <2>4 DEF UnaddBlock, TypeOK, Phases, disk, memory
<1>12. CASE DeleteTxstoreRow
  <2>1. PICK r \in RowsIn(del), b \in work : DeleteKey(r, b)
    BY <1>12 DEF DeleteTxstoreRow
  <2> DEFINE R == TxRows \cup HistRows
  <2>2. del \in Seq(SUBSET R) /\ work \subseteq Blocks
    BY DEF TypeOK
  <2> HIDE DEF R
  <2>3. del' \in Seq(SUBSET R) /\ work' \subseteq Blocks
    BY <2>1, <2>2, DeleteKeyType
  <2> QED BY <1>12, <2>3 DEF R, DeleteTxstoreRow, ForgetAdded, TypeOK, Phases, disk, memory
<1>13. CASE UnaddDone
  BY <1>13 DEF UnaddDone, TypeOK, Phases, disk, memory
<1>14. CASE CancelCache
  BY <1>14 DEF CancelCache, TypeOK, Phases, disk, memory
<1>15. CASE ReorgDone
  BY <1>15 DEF ReorgDone, headers_to_add, TypeOK, Phases, disk, memory
<1>16. CASE AddBatch
  BY <1>16 DEF AddBatch, RecordAdded, Batch, AddRowsOf, TxRows, TypeOK, Phases, disk, memory
<1>17. CASE AddDone
  BY <1>17 DEF AddDone, headers_to_index, TypeOK, Phases, disk, memory
<1>18. CASE IndexBatch
  BY <1>18 DEF IndexBatch, HistoryBatch, Batch, IndexRowsOf, HistRows, TypeOK, Phases, disk, memory
<1>19. CASE IndexDone
  BY <1>19 DEF IndexDone, AfterIndex, TypeOK, Phases, disk, memory
<1>20. CASE FlushTxstore
  BY <1>20 DEF FlushTxstore, TypeOK, Phases, disk, memory
<1>21. CASE FlushHistory
  BY <1>21 DEF FlushHistory, TypeOK, Phases, disk, memory
<1>22. CASE SetTip
  BY <1>22 DEF SetTip, LoopTipAfter, TypeOK, Phases, disk, memory
<1>23. CASE UNCHANGED vars
  BY <1>23 DEF TypeOK, vars, disk, memory
<1> QED
  BY <1>1, <1>2, <1>3, <1>4, <1>5, <1>6, <1>7, <1>8, <1>9, <1>10, <1>11, <1>12, <1>13, <1>14, <1>15, <1>16, <1>17, <1>18, <1>19, <1>20, <1>21, <1>22, <1>23 DEF Next, UpdateStep

(* The inductive invariant holds initially.                                *)
LEMMA IInvInit == Init => IInv
<1> SUFFICES ASSUME Init PROVE IInv
  OBVIOUS
<1>1. TypeOK
  <2>1. del \in Seq(SUBSET (TxRows \cup HistRows))
    BY DEF Init
  <2>2. daemonTip \in Blocks /\ restarts \in 0..MaxRestarts
    BY IndexerAssumption DEF Init
  <2> QED BY <2>1, <2>2 DEF Init, TypeOK, Phases
<1>2. TipBlocksDone /\ DiskInv
  BY TreeAssumption DEF Init, TipBlocksDone, DiskInv
<1>3. ListsInv /\ DeleteInv /\ AddedInv
  BY DEF Init, ListsInv, DeleteInv, AddedInv, Ahead
<1> QED BY <1>1, <1>2, <1>3 DEF IInv

(* Every step of the indexer, of bitcoind and of RocksDB preserves the     *)
(* inductive invariant.                                                    *)
LEMMA IInvStep == IInv /\ [Next]_vars => IInv'
<1> SUFFICES ASSUME IInv, [Next]_vars PROVE IInv'
  OBVIOUS
<1> USE TreeAssumption
<1>0. TypeOK /\ TypeOK' /\ TipBlocksDone /\ DiskInv /\ ListsInv /\ DeleteInv /\ AddedInv
  BY TypeStep DEF IInv
<1>q. SUFFICES TipBlocksDone' /\ DiskInv' /\ ListsInv' /\ DeleteInv' /\ AddedInv'
  BY <1>0 DEF IInv
<1>1. CASE DaemonTip
  BY <1>1, <1>0 DEF DaemonTip, disk, memory, TypeOK, TipBlocksDone, DiskInv, ListsInv, DeleteInv, AddedInv, Ahead
<1>2. CASE Open
  BY <1>2, <1>0 DEF Open, LoadAdded, load_blockhashes, disk, memory, TypeOK, TipBlocksDone, DiskInv, ListsInv, DeleteInv, AddedInv, Ahead
<1>3. CASE Crash
  BY <1>3, <1>0 DEF Crash, disk, memory, TypeOK, TipBlocksDone, DiskInv, ListsInv, DeleteInv, AddedInv, Ahead
<1>4. CASE MemtableFlush
  BY <1>4, <1>0 DEF MemtableFlush, disk, memory, TypeOK, TipBlocksDone, DiskInv, ListsInv, DeleteInv, AddedInv, Ahead
<1>5. CASE Poll
  BY <1>5, <1>0 DEF Poll, disk, memory, TypeOK, TipBlocksDone, DiskInv, ListsInv, DeleteInv, AddedInv, Ahead
<1>6. CASE BeginUpdate
  BY <1>6, <1>0 DEF BeginUpdate, headers_to_add, disk, memory, TypeOK, TipBlocksDone, DiskInv, ListsInv, DeleteInv, AddedInv, Ahead
<1>7. CASE RollbackTip
  <2>1. Chain[headers] \ newHeaders = Chain[headers] \cap Chain[t]
    BY <1>7, <1>0 DEF RollbackTip, ListsInv
  <2>2. Chain[t'] = Chain[headers] \cap Chain[t]
    BY <1>7, <1>0, <2>1, KeptTip DEF RollbackTip, RollbackTarget, TypeOK
  <2> QED BY <1>7, <1>0, <2>2 DEF RollbackTip, TipBlocksDone, DiskInv, ListsInv, DeleteInv, AddedInv, Ahead
<1>8. CASE UnindexBlock
  BY <1>8, <1>0 DEF UnindexBlock, disk, memory, TypeOK, TipBlocksDone, DiskInv, ListsInv, DeleteInv, AddedInv, Ahead
<1>9. CASE DeleteHistoryRow
  <2>1. PICK r \in RowsIn(del), b \in work : DeleteKey(r, b)
    BY <1>9 DEF DeleteHistoryRow
  <2>2. \/ work' = work
        \/ work' = work \ {b} /\ del' = <<>>
    BY <1>0, <2>1, DeleteKeyType DEF TypeOK
  <2>3. DeleteInv'
    BY <1>9, <1>0, <2>1, <2>2 DEF DeleteHistoryRow, DeleteInv
  <2> QED BY <1>9, <1>0, <2>3 DEF DeleteHistoryRow, TipBlocksDone, DiskInv, ListsInv, DeleteInv, AddedInv, Ahead
<1>10. CASE UnindexDone
  <2>1. RowsIn(<<>>) = {}
    BY DEF RowsIn
  <2> QED BY <1>10, <1>0, <2>1 DEF UnindexDone, disk, TipBlocksDone, DiskInv, ListsInv, DeleteInv, AddedInv, Ahead
<1>11. CASE UnaddBlock
  <2>1. PICK b \in work : del' = add_blocks(b)
    BY <1>11 DEF UnaddBlock
  <2>2. RowsIn(del') = AddRows(b) /\ b \in Blocks
    BY <1>0, <2>1 DEF AddRows, TypeOK
  <2>3. \A c \in Blocks : DoneRow(c) \in RowsIn(del') => c \in work
    BY <2>2, DoneRowOwn
  <2>4. DeleteInv'
    BY <1>11, <1>0, <2>3 DEF UnaddBlock, DeleteInv
  <2> QED BY <1>11, <1>0, <2>4 DEF UnaddBlock, disk, TipBlocksDone, DiskInv, ListsInv, DeleteInv, AddedInv, Ahead
<1>12. CASE DeleteTxstoreRow
  <2>1. PICK r \in RowsIn(del), b \in work :
           /\ DeleteKey(r, b)
           /\ txstore' = txstore \ {r}
           /\ txstoreDisk' = txstoreDisk \ {r}
           /\ added' = IF b \in work' THEN added ELSE added \ {b}
    BY <1>12 DEF DeleteTxstoreRow, ForgetAdded
  <2>2. /\ RowsIn(del') \subseteq RowsIn(del)
        /\ \/ work' = work
           \/ work' = work \ {b} /\ del' = <<>>
    BY <1>0, <2>1, DeleteKeyType DEF TypeOK
  <2>3. RowsIn(<<>>) = {}
    BY DEF RowsIn
  <2>4. \A c \in Blocks : r = DoneRow(c) => c \in work /\ c \in reorged
    BY <1>12, <1>0, <2>1 DEF DeleteTxstoreRow, DeleteInv
  <2>5. DeleteInv'
    BY <1>12, <1>0, <2>1, <2>2, <2>3 DEF DeleteTxstoreRow, DeleteInv
  <2>6. TipBlocksDone'
    BY <1>12, <1>0, <2>1, <2>4 DEF DeleteTxstoreRow, TipBlocksDone, ListsInv, Ahead, TypeOK
  <2>7. AddedInv'
    BY <1>12, <1>0, <2>1, <2>2, <2>4 DEF DeleteTxstoreRow, AddedInv, TypeOK
  <2>8. DiskInv' /\ ListsInv'
    BY <1>12, <1>0, <2>1 DEF DeleteTxstoreRow, DiskInv, ListsInv, Ahead
  <2> QED BY <2>5, <2>6, <2>7, <2>8
<1>13. CASE UnaddDone
  BY <1>13, <1>0 DEF UnaddDone, disk, memory, TypeOK, TipBlocksDone, DiskInv, ListsInv, DeleteInv, AddedInv, Ahead
<1>14. CASE CancelCache
  BY <1>14, <1>0 DEF CancelCache, disk, memory, TypeOK, TipBlocksDone, DiskInv, ListsInv, DeleteInv, AddedInv, Ahead
<1>15. CASE ReorgDone
  BY <1>15, <1>0 DEF ReorgDone, headers_to_add, disk, memory, TypeOK, TipBlocksDone, DiskInv, ListsInv, DeleteInv, AddedInv, Ahead
<1>16. CASE AddBatch
  <2>1. PICK S \in SUBSET work :
           /\ txstore' = txstore \cup AddRowsOf(S)
           /\ txstoreDisk' = IF flush THEN txstoreDisk \cup AddRowsOf(S) ELSE txstoreDisk
           /\ added' = added \cup S
           /\ work' = work \ S
    BY <1>16 DEF AddBatch, RecordAdded
  <2>2. S \subseteq Blocks
    BY <1>0 DEF TypeOK
  <2>3. \A b \in S : DoneRow(b) \in AddRowsOf(S)
    BY <2>2, DoneRowOwn DEF AddRowsOf
  <2> QED BY <1>16, <1>0, <2>1, <2>3 DEF AddBatch, TipBlocksDone, DiskInv, ListsInv, DeleteInv, AddedInv, Ahead
<1>17. CASE AddDone
  BY <1>17, <1>0 DEF AddDone, headers_to_index, disk, memory, TypeOK, TipBlocksDone, DiskInv, ListsInv, DeleteInv, AddedInv, Ahead
<1>18. CASE IndexBatch
  <2>1. pc = "index" /\ pc' \in {"index", "panic"}
    BY <1>18 DEF IndexBatch
  <2>2. UNCHANGED <<txstore, txstoreDisk, t, headers, added, flush, newHeaders, reorged, del>>
    BY <1>18 DEF IndexBatch
  <2> QED BY <1>0, <2>1, <2>2 DEF TipBlocksDone, DiskInv, ListsInv, DeleteInv, AddedInv, Ahead
<1>19. CASE IndexDone
  BY <1>19, <1>0 DEF IndexDone, AfterIndex, disk, memory, TypeOK, TipBlocksDone, DiskInv, ListsInv, DeleteInv, AddedInv, Ahead
<1>20. CASE FlushTxstore
  BY <1>20, <1>0 DEF FlushTxstore, disk, memory, TypeOK, TipBlocksDone, DiskInv, ListsInv, DeleteInv, AddedInv, Ahead
<1>21. CASE FlushHistory
  BY <1>21, <1>0 DEF FlushHistory, disk, memory, TypeOK, TipBlocksDone, DiskInv, ListsInv, DeleteInv, AddedInv, Ahead
<1>22. CASE SetTip
  <2>1. txstoreDisk = txstore
    BY <1>22, <1>0 DEF SetTip, DiskInv
  <2>2. \A b \in Chain[headers] : DoneRow(b) \in txstoreDisk
    BY <1>22, <1>0, <2>1 DEF SetTip, TipBlocksDone, ListsInv, AddedInv, Ahead
  <2>3. TipBlocksDone'
    BY <1>22, <2>2 DEF SetTip, TipBlocksDone
  <2> QED BY <1>22, <1>0, <2>3 DEF SetTip, DiskInv, ListsInv, DeleteInv, AddedInv, Ahead
<1>23. CASE UNCHANGED vars
  BY <1>23, <1>0 DEF vars, disk, memory, TipBlocksDone, DiskInv, ListsInv, DeleteInv, AddedInv, Ahead
<1> QED
  BY <1>1, <1>2, <1>3, <1>4, <1>5, <1>6, <1>7, <1>8, <1>9, <1>10, <1>11, <1>12, <1>13, <1>14, <1>15, <1>16, <1>17, <1>18, <1>19, <1>20, <1>21, <1>22, <1>23 DEF Next, UpdateStep

(* Every variable of the indexer keeps its type.                           *)
THEOREM TypeCorrect == Spec => []TypeOK
<1>1. Spec => []IInv
  BY IInvInit, IInvStep, PTL DEF Spec
<1>2. IInv => TypeOK
  BY DEF IInv
<1> QED BY <1>1, <1>2, PTL

(* Whatever reorganisations and crashes come, and even when bitcoind goes  *)
(* back to a branch it left, every block up to the synced tip `t` is       *)
(* marked as added on disk.                                                *)
THEOREM TipBlocksDoneAlways == Spec => []TipBlocksDone
<1>1. Spec => []IInv
  BY IInvInit, IInvStep, PTL DEF Spec
<1>2. IInv => TipBlocksDone
  BY DEF IInv
<1> QED BY <1>1, <1>2, PTL

(* `t` only moves to a descendant or back to an ancestor.                  *)
THEOREM TipFollowsBranch == Spec => TipMovesAlongBranch
<1>1. IInv /\ [Next]_vars =>
         [t' # t => Chain[t] \subseteq Chain[t'] \/ Chain[t'] \subseteq Chain[t]]_vars
  <2> SUFFICES ASSUME IInv, [Next]_vars, t' # t
               PROVE  Chain[t] \subseteq Chain[t'] \/ Chain[t'] \subseteq Chain[t]
    OBVIOUS
  <2>1. RollbackTip \/ SetTip
    BY DEF Next, UpdateStep, vars, disk, memory, DaemonTip, Open, Crash, MemtableFlush, Poll,
           BeginUpdate, UnindexBlock, DeleteHistoryRow, UnindexDone, UnaddBlock,
           DeleteTxstoreRow, UnaddDone, CancelCache, ReorgDone, AddBatch, AddDone,
           IndexBatch, IndexDone, FlushTxstore, FlushHistory
  <2>2. CASE RollbackTip
    <3>1. Chain[headers] \ newHeaders = Chain[headers] \cap Chain[t]
      BY <2>2 DEF RollbackTip, IInv, ListsInv
    <3>2. Chain[t'] = Chain[headers] \cap Chain[t]
      BY <2>2, <3>1, KeptTip DEF RollbackTip, RollbackTarget, IInv, TypeOK
    <3> QED BY <3>2
  <2>3. CASE SetTip
    BY <2>3 DEF SetTip, IInv, ListsInv, Ahead
  <2> QED BY <2>1, <2>2, <2>3
<1>2. Spec => []IInv
  BY IInvInit, IInvStep, PTL DEF Spec
<1> QED BY <1>1, <1>2, PTL DEF Spec, TipMovesAlongBranch

-----------------------------------------------------------------------------
(* Which rows a block contributes, by their prefix.                        *)
LEMMA TxRowKinds ==
    ASSUME NEW b \in Blocks
    PROVE  /\ HeaderRow(b) \in AddRows(b) /\ DoneRow(b) \in AddRows(b)
           /\ \A r \in AddRows(b) :
                 \/ r[1] \in {"C", "T"} /\ r[2] \in TxsOf(b)
                 \/ r[1] = "O" /\ r[2][1] \in TxsOf(b)
                 \/ r[1] \in {"X", "M", "B", "D"} /\ r[2] = b
           /\ \A tx \in TxsOf(b) : \A o \in OutsOf(tx) \ Unspendable : TxOutRow(o) \in AddRows(b)
<1> DEFINE n == Len(BlockTxs[b])
           f == [i \in 1..n |-> add_transaction(BlockTxs[b][i], b)]
           g == << IF LightMode THEN {} ELSE {<<"X", b>>, <<"M", b>>},
                   {HeaderRow(b)}, {DoneRow(b)} >>
           U == RowsIn(f) \cup RowsIn(g)
<1>1. n \in Nat /\ DOMAIN BlockTxs[b] = 1..n
  BY TxAssumption
<1>2. f \in Seq(SUBSET U)
  <2>1. DOMAIN f = 1..n /\ f = [i \in 1..n |-> f[i]]
    OBVIOUS
  <2> HIDE DEF f, g
  <2>2. \A i \in 1..n : f[i] \in SUBSET U
    BY <2>1 DEF RowsIn
  <2> QED BY <1>1, <2>1, <2>2
<1>3. g \in Seq(SUBSET U)
  BY DEF RowsIn
<1>4. add_blocks(b) = f \o g
  BY DEF add_blocks
<1>5. \A r \in RowsIn(g) : r[1] \in {"X", "M", "B", "D"} /\ r[2] = b
  BY DEF RowsIn, DoneRow, HeaderRow
<1>6. HeaderRow(b) \in RowsIn(g) /\ DoneRow(b) \in RowsIn(g)
  BY DEF RowsIn
<1>7. DOMAIN f = 1..n /\ \A i \in 1..n : f[i] = add_transaction(BlockTxs[b][i], b) /\ BlockTxs[b][i] \in TxsOf(b)
  BY <1>1 DEF TxsOf
<1>8. \A tx : \A r \in add_transaction(tx, b) : \/ r[1] \in {"C", "T"} /\ r[2] = tx
                                                \/ r[1] = "O" /\ r[2][1] = tx
  BY DEF add_transaction, TxOutRow, OutsOf
<1> HIDE DEF f
<1>9. \A r \in RowsIn(f) : \/ r[1] \in {"C", "T"} /\ r[2] \in TxsOf(b)
                           \/ r[1] = "O" /\ r[2][1] \in TxsOf(b)
  BY <1>7, <1>8 DEF RowsIn
<1>10. \A tx \in TxsOf(b) : \A o \in OutsOf(tx) \ Unspendable : TxOutRow(o) \in RowsIn(f)
  <2> SUFFICES ASSUME NEW tx \in TxsOf(b), NEW o \in OutsOf(tx) \ Unspendable
               PROVE  TxOutRow(o) \in RowsIn(f)
    OBVIOUS
  <2>1. PICK i \in 1..n : tx = BlockTxs[b][i]
    BY <1>1 DEF TxsOf
  <2>2. TxOutRow(o) \in add_transaction(tx, b)
    BY DEF add_transaction
  <2> QED BY <1>7, <2>1, <2>2 DEF RowsIn
<1> HIDE DEF g, n
<1>11. f \o g \in Seq(SUBSET U) /\ RowsIn(f \o g) = U
  BY <1>2, <1>3, RowsInConcat
<1> QED BY <1>4, <1>5, <1>6, <1>9, <1>10, <1>11 DEF AddRows

LEMMA HistRowKinds ==
    ASSUME ~AddressSearch, NEW b \in Blocks
    PROVE  /\ DoneRow(b) \in IndexRows(b)
           /\ \A r \in IndexRows(b) :
                 \/ r[1] = "H" /\ r[7] \in TxsOf(b)
                 \/ r[1] = "S" /\ r[3] \in TxsOf(b)
                 \/ r[1] = "D" /\ r[2] = b
<1> DEFINE n == Len(BlockTxs[b])
           f == [i \in 1..n |-> index_transaction(BlockTxs[b][i], Height[b], i)]
           g == << {DoneRow(b)} >>
           U == RowsIn(f) \cup RowsIn(g)
<1>1. n \in Nat /\ DOMAIN BlockTxs[b] = 1..n
  BY TxAssumption
<1>2. f \in Seq(SUBSET U)
  <2>1. DOMAIN f = 1..n /\ f = [i \in 1..n |-> f[i]]
    OBVIOUS
  <2> HIDE DEF f, g
  <2>2. \A i \in 1..n : f[i] \in SUBSET U
    BY <2>1 DEF RowsIn
  <2> QED BY <1>1, <2>1, <2>2
<1>3. g \in Seq(SUBSET U)
  BY DEF RowsIn
<1>4. index_blocks(b) = f \o g
  BY DEF index_blocks
<1>5. \A r \in RowsIn(g) : r[1] = "D" /\ r[2] = b
  BY DEF RowsIn, DoneRow
<1>6. DoneRow(b) \in RowsIn(g)
  BY DEF RowsIn
<1>7. DOMAIN f = 1..n /\ \A i \in 1..n : /\ f[i] = index_transaction(BlockTxs[b][i], Height[b], i)
                                         /\ BlockTxs[b][i] \in TxsOf(b)
  BY <1>1 DEF TxsOf
<1>8. \A tx, h, i : \A r \in index_transaction(tx, h, i) : \/ r[1] = "H" /\ r[7] = tx
                                                           \/ r[1] = "S" /\ r[3] = tx
  BY DEF index_transaction
<1> HIDE DEF f
<1>9. \A r \in RowsIn(f) : \/ r[1] = "H" /\ r[7] \in TxsOf(b)
                           \/ r[1] = "S" /\ r[3] \in TxsOf(b)
  BY <1>7, <1>8 DEF RowsIn
<1> HIDE DEF g, n
<1>10. f \o g \in Seq(SUBSET U) /\ RowsIn(f \o g) = U
  BY <1>2, <1>3, RowsInConcat
<1> QED BY <1>4, <1>5, <1>6, <1>9, <1>10 DEF IndexRows

(* Two blocks of one branch have no row in common.                         *)
LEMMA RowsApart ==
    ASSUME ~AddressSearch, NEW h \in Blocks, NEW a \in Chain[h], NEW b \in Chain[h], a # b
    PROVE  AddRows(a) \cap AddRows(b) = {} /\ IndexRows(a) \cap IndexRows(b) = {}
<1>1. a \in Blocks /\ b \in Blocks
  BY TreeAssumption
<1>2. TxsOf(a) \cap TxsOf(b) = {}
  BY NoDuplicateTx DEF TxsOf
<1>3. AddRows(a) \cap AddRows(b) = {}
  BY <1>1, <1>2, TxRowKinds
<1>4. IndexRows(a) \cap IndexRows(b) = {}
  BY <1>1, <1>2, HistRowKinds
<1> QED BY <1>3, <1>4

LEMMA DoneRowsOwn ==
    ASSUME ~AddressSearch
    PROVE  /\ \A b, c \in Blocks : DoneRow(c) \in AddRows(b) <=> c = b
           /\ \A b, c \in Blocks : DoneRow(c) \in IndexRows(b) <=> c = b
           /\ \A S \in SUBSET Blocks, c \in Blocks : /\ DoneRow(c) \in AddRowsOf(S) <=> c \in S
                                                     /\ DoneRow(c) \in IndexRowsOf(S) <=> c \in S
<1>1. \A b, c \in Blocks : DoneRow(c) \in IndexRows(b) <=> c = b
  <2> SUFFICES ASSUME NEW b \in Blocks, NEW c \in Blocks
               PROVE  DoneRow(c) \in IndexRows(b) <=> c = b
    OBVIOUS
  <2>1. DoneRow(c)[1] = "D" /\ DoneRow(c)[2] = c
    BY DEF DoneRow
  <2> QED BY <2>1, HistRowKinds
<1> QED BY <1>1, DoneRowOwn DEF AddRowsOf, IndexRowsOf

(* One deleted key is the only row that leaves the list.                   *)
LEMMA DeleteKeyRows ==
    ASSUME NEW S, del \in Seq(SUBSET S), NEW r, NEW b, DeleteKey(r, b)
    PROVE  RowsIn(del) \subseteq RowsIn(del') \cup {r} /\ IsHighest(b, work)
<1>1. PICK i \in DOMAIN del :
         LET left == [del EXCEPT ![i] = @ \ {r}] IN
         /\ IsHighest(b, work)
         /\ RowsIn(left) = {} \/ del' = left
  BY DEF DeleteKey
<1> DEFINE left == [del EXCEPT ![i] = @ \ {r}]
<1>2. DOMAIN left = DOMAIN del /\ \A j \in DOMAIN del : del[j] \subseteq left[j] \cup {r}
  OBVIOUS
<1> HIDE DEF left
<1>3. RowsIn(del) \subseteq RowsIn(left) \cup {r}
  BY <1>2 DEF RowsIn
<1>4. IsHighest(b, work) /\ (RowsIn(left) = {} \/ del' = left)
  BY <1>1 DEF left
<1> QED BY <1>3, <1>4

(* Nothing restarts backwards: what is tracked after a step was before.    *)
LEMMA TrackedBefore ==
    ASSUME IInv, RowsInv, Tracked', [Next]_vars
    PROVE  Tracked /\ Parts
<1>1. restarts' = restarts \/ restarts' = restarts + 1
  BY DEF Next, UpdateStep, vars, DaemonTip, Open, Crash, MemtableFlush, Poll, BeginUpdate, RollbackTip,
         UnindexBlock, DeleteHistoryRow, UnindexDone, UnaddBlock, DeleteTxstoreRow, UnaddDone,
         CancelCache, ReorgDone, AddBatch, AddDone, IndexBatch, IndexDone, FlushTxstore,
         FlushHistory, SetTip
<1>2. restarts \in Nat
  BY IndexerAssumption DEF IInv, TypeOK
<1>3. Tracked
  BY <1>1, <1>2 DEF Tracked
<1> QED BY <1>3 DEF RowsInv

(* Every row of the header list is in txstore once its blocks were added,  *)
(* and in history once they were indexed.                                  *)
LEMMA ListStored ==
    ASSUME IInv, Parts, pc \in {"index", "flushTx", "flushHist", "settip"}
    PROVE  AddRowsOf(Chain[headers]) \subseteq txstore
<1>1. \A b \in Chain[headers] : DoneRow(b) \in txstore
  BY DEF IInv, TipBlocksDone, DiskInv, ListsInv, AddedInv, Ahead
<1>2. \A b \in Chain[headers] : b \in Blocks
  BY TreeAssumption DEF IInv, TypeOK
<1>3. \A b \in Chain[headers] : AddRows(b) \subseteq txstore
  BY <1>1, <1>2 DEF Parts, FullInv, Kept, StoredTx
<1> QED BY <1>3 DEF AddRowsOf

LEMMA ListIndexed ==
    ASSUME ~AddressSearch, IInv, Parts, pc \in {"flushTx", "flushHist", "settip"}
    PROVE  IndexRowsOf(Chain[headers]) \subseteq history
<1>0. \A b \in Chain[headers] : b \in Blocks
  BY TreeAssumption DEF IInv, TypeOK
<1>1. \A b \in Chain[t] : b \in Blocks
  BY TreeAssumption DEF IInv, TypeOK
<1>2. \A b \in Chain[t] : DoneRow(b) \in history
  BY <1>1, DoneRowsOwn DEF Parts, SyncedTipDurable, IndexRowsOf, HistDiskInv
<1>3. \A b \in Chain[headers] : DoneRow(b) \in history
  BY <1>2 DEF IInv, ListsInv, Ahead, Parts, WorkInv, StoredHist
<1>4. \A b \in Chain[headers] : IndexRows(b) \subseteq history
  BY <1>0, <1>3 DEF Parts, FullInv, Kept, StoredHist
<1> QED BY <1>4 DEF IndexRowsOf

(* No step of the indexer panics.                                          *)
LEMMA NoPanicStep ==
    ASSUME SpendsConfirmed, IInv, Parts, [Next]_vars
    PROVE  NoPanic'
<1> USE DEF NoPanic
<1>0. pc # "panic" /\ TypeOK
  BY DEF Parts, IInv
<1>t. \A S \in SUBSET Blocks : \A C : (\A b \in S : Chain[b] \subseteq C) /\ AddRowsOf(C) \subseteq txstore => TxosPresent(S)
  <2> SUFFICES ASSUME NEW S \in SUBSET Blocks, NEW C, \A b \in S : Chain[b] \subseteq C,
                      AddRowsOf(C) \subseteq txstore, NEW o \in get_previous_txos(S)
               PROVE  TxOutRow(o) \in txstore
    BY DEF TxosPresent
  <2>1. PICK b \in S : o \in get_previous_txos({b})
    BY DEF get_previous_txos
  <2>2. PICK a \in Chain[b] : o[1] \in TxsOf(a) /\ o \notin Unspendable
    BY <2>1 DEF SpendsConfirmed
  <2>3. a \in Blocks /\ a \in C
    BY <2>2, TreeAssumption
  <2>4. o \in OutsOf(o[1])
    <3>1. PICK tx \in TxsOf(b) : o \in Spends[tx]
      BY <2>1 DEF get_previous_txos
    <3>2. tx \in Txs
      BY <3>1, TxAssumption DEF TxsOf
    <3>3. o \in Outpoints
      BY <3>1, <3>2, TxAssumption
    <3> QED BY <3>3 DEF Outpoints, OutsOf
  <2>5. TxOutRow(o) \in AddRows(a)
    BY <2>2, <2>3, <2>4, TxRowKinds
  <2> QED BY <2>3, <2>5 DEF AddRowsOf
<1>1. CASE Open
  <2>1. AddRowsOf(Chain[t]) \subseteq txstore
    BY <1>1 DEF Open, Parts, SyncedTipDurable, HistDiskInv
  <2>2. \A b \in Chain[t] : b \in Blocks
    BY <1>0, TreeAssumption DEF TypeOK
  <2>3. HeadersLoadable
    BY <2>1, <2>2, TxRowKinds DEF HeadersLoadable, AddRowsOf
  <2> QED BY <1>1, <2>3 DEF Open
<1>2. CASE BeginUpdate
  <2>1. ASSUME daemonTip \in Chain[headers], daemonTip # headers PROVE FALSE
    <3>1. headers = t /\ headers \in Blocks
      BY <1>0, <1>2, <2>1, TreeAssumption DEF BeginUpdate, IInv, ListsInv, TypeOK
    <3>2. headers \in Chain[headers]
      BY <3>1, TreeAssumption
    <3>3. Height[headers] <= Height[daemonTip]
      BY <3>1, <3>2 DEF Parts, SeenInv
    <3>4. Height[daemonTip] <= Height[headers]
      BY <2>1, <3>1, HeightAssumption
    <3>5. Height[daemonTip] \in Nat /\ Height[headers] \in Nat
      BY <1>0, <3>1, TreeAssumption DEF TypeOK
    <3>6. Height[daemonTip] = Height[headers]
      BY <3>3, <3>4, <3>5
    <3> QED BY <2>1, <3>1, <3>2, <3>6, HeightAssumption
  <2> QED BY <1>2, <2>1 DEF BeginUpdate
<1>3. CASE UnindexBlock
  <2>1. PICK o \in Blocks : Chain[o] = Chain[t] \cup reorged
    BY <1>3 DEF UnindexBlock, Parts, WorkInv
  <2>2. AddRowsOf(Chain[o]) \subseteq txstore
    BY <1>3, <2>1 DEF UnindexBlock, Parts, WorkInv, SyncedTipDurable, IInv, DiskInv, AddRowsOf
  <2>3. work \subseteq Chain[o] /\ work \subseteq Blocks
    BY <1>0, <1>3, <2>1 DEF UnindexBlock, IInv, DeleteInv, TypeOK
  <2>4. \A b \in work : TxosPresent({b})
    BY <1>t, <2>1, <2>2, <2>3, TreeAssumption
  <2> QED BY <1>0, <1>3, <2>4 DEF UnindexBlock
<1>4. CASE IndexBatch
  <2>1. AddRowsOf(Chain[headers]) \subseteq txstore
    BY <1>4, ListStored DEF IndexBatch
  <2>2. work \subseteq newHeaders /\ newHeaders \subseteq Chain[headers] /\ newHeaders \subseteq added
    BY <1>4 DEF IndexBatch, Parts, WorkInv, IInv, ListsInv, AddedInv, Ahead
  <2>3. \A b \in Chain[headers] : b \in Blocks /\ Chain[b] \subseteq Chain[headers]
    BY <1>0, TreeAssumption DEF TypeOK
  <2>4. \A S \in SUBSET work : TxosPresent(S) /\ S \subseteq added
    BY <1>t, <2>1, <2>2, <2>3
  <2> QED BY <1>0, <1>4, <2>4 DEF IndexBatch
<1>5. CASE ~(Open \/ BeginUpdate \/ UnindexBlock \/ IndexBatch)
  BY <1>0, <1>5 DEF Next, UpdateStep, vars, DaemonTip, Crash, MemtableFlush, Poll, RollbackTip,
         DeleteHistoryRow, UnindexDone, UnaddBlock, DeleteTxstoreRow, UnaddDone,
         CancelCache, ReorgDone, AddBatch, AddDone, IndexDone, AfterIndex, FlushTxstore,
         FlushHistory, SetTip
<1> QED BY <1>1, <1>2, <1>3, <1>4, <1>5

(* The synced tip's blocks and what is rolled back.                        *)
LEMMA RollbackFork ==
    ASSUME IInv, RollbackTip
    PROVE  /\ Chain[t'] = Chain[headers] \cap Chain[t]
           /\ Chain[t'] \cup reorged = Chain[t] /\ reorged \cap Chain[headers] = {}
           /\ newHeaders \cap Chain[t'] = {}
<1>1. Chain[headers] \ newHeaders = Chain[headers] \cap Chain[t]
  BY DEF RollbackTip, IInv, ListsInv
<1>2. Chain[t'] = Chain[headers] \cap Chain[t]
  BY <1>1, KeptTip DEF RollbackTip, RollbackTarget, IInv, TypeOK
<1> QED BY <1>2 DEF RollbackTip, IInv, ListsInv

(* Every block of a chain is a block.                                      *)
LEMMA ChainBlocks ==
    ASSUME TypeOK
    PROVE  /\ Chain[t] \subseteq Blocks /\ Chain[headers] \subseteq Blocks /\ Chain[daemonTip] \subseteq Blocks
           /\ Chain[t] # {} => t \in Blocks
           /\ Chain[headers] # {} => headers \in Blocks
BY TreeAssumption DEF TypeOK

(* What a step does to the blocks that were stored.                        *)
LEMMA SeenStep ==
    ASSUME ~AddressSearch, IInv, IInv', Parts, [Next]_vars
    PROVE  SeenInv'
<1> USE DEF StoredTx, StoredHist
<1>0. TypeOK /\ SeenInv /\ HistDiskInv /\ WorkInv /\ DiskInv /\ ListsInv
  BY DEF Parts, IInv
<1>b. Chain[t] \subseteq Blocks /\ Chain[headers] \subseteq Blocks /\ Chain[daemonTip] \subseteq Blocks
  BY <1>0, ChainBlocks
<1>h. Height \in [Blocks -> Nat]
  BY TreeAssumption
<1>1. CASE DaemonTip
  <2>1. PICK b \in Blocks : /\ Height[b] > Height[daemonTip]
                            /\ MayReturn \/ Chain[b] \cap abandoned = {}
                            /\ daemonTip' = b
                            /\ abandoned' = abandoned \cup (Chain[daemonTip] \ Chain[b])
    BY <1>1 DEF DaemonTip
  <2>2. UNCHANGED <<txstore, history, t, headers>>
    BY <1>1 DEF DaemonTip, disk, memory
  <2>3. \A a \in Chain[t] \cup Chain[headers] : Height[a] <= Height[b]
    <3>1. \A a \in Chain[t] \cup Chain[headers] : a \in Blocks /\ Height[a] <= Height[daemonTip]
      BY <1>0, <1>b DEF SeenInv
    <3>2. daemonTip \in Blocks
      BY <1>0 DEF TypeOK
    <3> QED BY <2>1, <3>1, <3>2, <1>h
  <2> QED BY <1>0, <2>1, <2>2, <2>3 DEF SeenInv
<1>2. CASE BeginUpdate
  <2>1. \/ headers' = daemonTip
        \/ headers' = headers
    BY <1>2 DEF BeginUpdate
  <2>2. UNCHANGED <<daemonTip, abandoned, txstore, history, t>>
    BY <1>2 DEF BeginUpdate, disk
  <2>3. \A a \in Chain[daemonTip] : Height[a] <= Height[daemonTip]
    BY <1>0, HeightAssumption DEF TypeOK
  <2> QED BY <1>0, <2>1, <2>2, <2>3 DEF SeenInv
<1>3. CASE RollbackTip
  <2>1. Chain[t'] \subseteq Chain[t]
    BY <1>3, RollbackFork
  <2> QED BY <1>0, <1>3, <2>1 DEF RollbackTip, SeenInv
<1>4. CASE AddBatch
  <2>1. PICK S \in SUBSET work : txstore' = txstore \cup AddRowsOf(S)
    BY <1>4 DEF AddBatch
  <2>2. S \subseteq Chain[headers]
    BY <1>0, <1>4 DEF AddBatch, WorkInv, ListsInv, Ahead
  <2>3. \A b \in Blocks : DoneRow(b) \in txstore' => DoneRow(b) \in txstore \/ b \in Chain[headers]
    BY <1>b, <2>1, <2>2, DoneRowsOwn
  <2>4. UNCHANGED <<daemonTip, abandoned, history, t, headers>>
    BY <1>4 DEF AddBatch
  <2> QED BY <1>0, <2>3, <2>4 DEF SeenInv
<1>5. CASE IndexBatch
  <2>1. PICK S \in SUBSET work : history' = history \cup IndexRowsOf(S) \/ history' = history
    BY <1>5 DEF IndexBatch, HistoryBatch
  <2>2. S \subseteq Chain[headers]
    BY <1>0, <1>5 DEF IndexBatch, WorkInv, ListsInv, Ahead
  <2>3. \A b \in Blocks : DoneRow(b) \in history' => DoneRow(b) \in history \/ b \in Chain[headers]
    BY <1>b, <2>1, <2>2, DoneRowsOwn
  <2>4. UNCHANGED <<daemonTip, abandoned, txstore, t, headers>>
    BY <1>5 DEF IndexBatch
  <2> QED BY <1>0, <2>3, <2>4 DEF SeenInv
<1>6. CASE Crash
  <2>1. Chain[headers'] = {}
    BY <1>6, TreeAssumption DEF Crash
  <2>2. txstore' \subseteq txstore /\ history' \subseteq history
    BY <1>0, <1>6 DEF Crash, DiskInv, HistDiskInv
  <2> QED BY <1>0, <1>6, <2>1, <2>2 DEF Crash, disk, SeenInv
<1>7. CASE Open
  BY <1>0, <1>7 DEF Open, disk, SeenInv
<1>8. CASE SetTip
  BY <1>0, <1>8 DEF SetTip, SeenInv
<1>9. CASE ~(DaemonTip \/ BeginUpdate \/ RollbackTip \/ AddBatch \/ IndexBatch \/ Crash \/ Open \/ SetTip)
  <2>1. /\ UNCHANGED <<daemonTip, abandoned, t, headers>>
        /\ txstore' \subseteq txstore /\ history' \subseteq history
    BY <1>9 DEF Next, UpdateStep, vars, disk, memory, MemtableFlush, Poll,
           UnindexBlock, DeleteHistoryRow, UnindexDone, UnaddBlock, DeleteTxstoreRow, UnaddDone,
           CancelCache, ReorgDone, AddDone, IndexDone, FlushTxstore, FlushHistory
  <2> QED BY <1>0, <2>1 DEF SeenInv
<1> QED BY <1>1, <1>2, <1>3, <1>4, <1>5, <1>6, <1>7, <1>8, <1>9

(* The same for what is on disk.                                           *)
LEMMA HistDiskStep ==
    ASSUME IInv, Parts, [Next]_vars
    PROVE  HistDiskInv'
<1>0. HistDiskInv
  BY DEF Parts
<1>1. CASE IndexBatch
  <2>1. PICK S \in SUBSET work :
           \/ /\ history' = history \cup IndexRowsOf(S)
              /\ historyDisk' = IF flush THEN historyDisk \cup IndexRowsOf(S) ELSE historyDisk
           \/ history' = history /\ historyDisk' = historyDisk
    BY <1>1 DEF IndexBatch, HistoryBatch
  <2>2. pc' \in {"index", "panic"} /\ flush' = flush
    BY <1>1 DEF IndexBatch
  <2> QED BY <1>0, <2>1, <2>2 DEF HistDiskInv
<1>2. CASE Crash
  BY <1>0, <1>2 DEF Crash, disk, HistDiskInv
<1>3. CASE DeleteHistoryRow \/ DeleteTxstoreRow
  BY <1>0, <1>3 DEF DeleteHistoryRow, DeleteTxstoreRow, HistDiskInv
<1>4. CASE BeginUpdate
  BY <1>0, <1>4 DEF BeginUpdate, disk, HistDiskInv
<1>5. CASE MemtableFlush \/ FlushTxstore \/ FlushHistory
  BY <1>0, <1>5 DEF MemtableFlush, FlushTxstore, FlushHistory, memory, HistDiskInv
<1>6. CASE IndexDone
  BY <1>0, <1>6 DEF IndexDone, AfterIndex, disk, memory, HistDiskInv
<1>7. CASE DaemonTip \/ Open \/ Poll \/ UNCHANGED vars
  BY <1>0, <1>7 DEF vars, DaemonTip, Open, Poll, disk, memory, HistDiskInv
<1>8. CASE RollbackTip \/ UnindexBlock \/ UnindexDone \/ UnaddBlock \/ UnaddDone \/ CancelCache
  <2>1. /\ pc' \in {"unindex", "unadd", "cancel", "panic"}
        /\ UNCHANGED <<history, historyDisk, flush>>
    BY <1>8 DEF RollbackTip, UnindexBlock, UnindexDone, UnaddBlock, UnaddDone, CancelCache, disk, memory
  <2> QED BY <1>0, <2>1 DEF HistDiskInv
<1>9. CASE ReorgDone \/ AddBatch \/ AddDone \/ SetTip
  BY <1>0, <1>9 DEF ReorgDone, AddBatch, AddDone, SetTip, disk, memory, HistDiskInv
<1> QED
  BY <1>1, <1>2, <1>3, <1>4, <1>5, <1>6, <1>7, <1>8, <1>9 DEF Next, UpdateStep

(* What one deleted key leaves of the list and of the work.                *)
LEMMA DeleteLeaves ==
    ASSUME TypeOK, NEW r, NEW b, DeleteKey(r, b)
    PROVE  /\ RowsIn(del') \subseteq RowsIn(del)
           /\ RowsIn(del) \subseteq RowsIn(del') \cup {r}
           /\ r \in RowsIn(del) /\ b \in work /\ IsHighest(b, work)
           /\ \/ work' = work
              \/ work' = work \ {b} /\ del' = <<>>
           /\ RowsIn(<<>>) = {}
<1> DEFINE R == TxRows \cup HistRows
<1>1. del \in Seq(SUBSET R)
  BY DEF TypeOK
<1> HIDE DEF R
<1>2. /\ RowsIn(del') \subseteq RowsIn(del)
      /\ r \in RowsIn(del) /\ b \in work
      /\ \/ work' = work
         \/ work' = work \ {b} /\ del' = <<>>
  BY <1>1, DeleteKeyType
<1>3. RowsIn(del) \subseteq RowsIn(del') \cup {r} /\ IsHighest(b, work)
  BY <1>1, DeleteKeyRows
<1>4. RowsIn(<<>>) = {}
  BY DEF RowsIn
<1> QED BY <1>2, <1>3, <1>4

LEMMA WorkStep ==
    ASSUME ~AddressSearch, IInv, IInv', Parts, [Next]_vars
    PROVE  WorkInv'
<1> USE DEF StoredHist
<1>0. TypeOK /\ WorkInv /\ FullInv /\ DiskInv /\ ListsInv /\ DeleteInv /\ SyncedTipDurable
  BY DEF Parts, IInv
<1>b. Chain[t] \subseteq Blocks /\ Chain[headers] \subseteq Blocks
  BY <1>0, ChainBlocks
<1>e. RowsIn(<<>>) = {}
  BY DEF RowsIn
<1>1. CASE BeginUpdate
  <2>1. headers = t
    BY <1>0, <1>1 DEF BeginUpdate, ListsInv
  <2>2. \/ pc' = "panic"
        \/ /\ newHeaders' = Chain[daemonTip] \ Chain[headers]
           /\ reorged' = Chain[headers] \ Chain[daemonTip]
           /\ \/ reorged' # {} /\ pc' = "rollback"
              \/ pc' = "add" /\ work' \subseteq newHeaders'
    BY <1>1 DEF BeginUpdate, headers_to_add
  <2>3. t' = t
    BY <1>1 DEF BeginUpdate, disk
  <2> QED BY <2>1, <2>2, <2>3 DEF WorkInv, Ahead
<1>2. CASE RollbackTip
  <2>1. /\ Chain[t'] \cup reorged = Chain[t] /\ reorged \cap Chain[headers] = {}
        /\ newHeaders \cap Chain[t'] = {}
    BY <1>2, RollbackFork
  <2>2. t \in Blocks
    BY <1>0, <1>2, <2>1, ChainBlocks DEF RollbackTip, WorkInv
  <2>3. AddRowsOf(reorged) \subseteq txstore
    BY <1>0, <2>1 DEF SyncedTipDurable, DiskInv, AddRowsOf
  <2>4. del = <<>>
    BY <1>0, <1>2 DEF RollbackTip, DeleteInv
  <2>5. UNCHANGED <<txstore, headers, newHeaders, reorged, del>> /\ pc' = "unindex"
    BY <1>2 DEF RollbackTip
  <2> QED BY <1>e, <2>1, <2>2, <2>3, <2>4, <2>5 DEF WorkInv
<1>3. CASE UnindexBlock
  <2>1. PICK b \in work : \/ pc' = "panic"
                          \/ pc' = "unindex" /\ del' = index_blocks(b)
    BY <1>3 DEF UnindexBlock
  <2>2. RowsIn(index_blocks(b)) \subseteq IndexRowsOf(work)
    BY DEF IndexRows, IndexRowsOf
  <2>3. UNCHANGED <<t, headers, txstore, newHeaders, reorged, work>> /\ pc = "unindex"
    BY <1>3 DEF UnindexBlock, disk
  <2> QED BY <1>0, <2>1, <2>2, <2>3 DEF WorkInv, Ahead
<1>4. CASE DeleteHistoryRow
  <2>1. PICK r \in RowsIn(del), b \in work : DeleteKey(r, b)
    BY <1>4 DEF DeleteHistoryRow
  <2>2. RowsIn(del') \subseteq IndexRowsOf(work')
    BY <1>0, <1>4, <2>1, DeleteLeaves DEF DeleteHistoryRow, WorkInv
  <2>3. UNCHANGED <<pc, t, headers, txstore, newHeaders, reorged>> /\ pc = "unindex"
    BY <1>4 DEF DeleteHistoryRow
  <2> QED BY <1>0, <2>2, <2>3 DEF WorkInv, Ahead
<1>5. CASE UnindexDone
  BY <1>0, <1>5, <1>e DEF UnindexDone, disk, DeleteInv, WorkInv, Ahead
<1>6. CASE UnaddBlock
  <2>1. PICK b \in work : del' = add_blocks(b)
    BY <1>6 DEF UnaddBlock
  <2>2. RowsIn(add_blocks(b)) \subseteq AddRowsOf(work)
    BY DEF AddRows, AddRowsOf
  <2>3. UNCHANGED <<pc, t, headers, newHeaders, reorged, work>> /\ pc = "unadd"
    BY <1>6 DEF UnaddBlock, disk
  <2> QED BY <1>0, <2>1, <2>2, <2>3 DEF WorkInv, Ahead
<1>7. CASE DeleteTxstoreRow
  <2>1. PICK r \in RowsIn(del), b \in work : DeleteKey(r, b)
    BY <1>7 DEF DeleteTxstoreRow
  <2>2. RowsIn(del') \subseteq AddRowsOf(work')
    BY <1>0, <1>7, <2>1, DeleteLeaves DEF DeleteTxstoreRow, WorkInv
  <2>3. UNCHANGED <<pc, t, headers, newHeaders, reorged>> /\ pc = "unadd"
    BY <1>7 DEF DeleteTxstoreRow
  <2> QED BY <1>0, <2>2, <2>3 DEF WorkInv, Ahead
<1>8. CASE UnaddDone \/ CancelCache \/ ReorgDone
  BY <1>0, <1>8 DEF UnaddDone, CancelCache, ReorgDone, headers_to_add, disk, memory, WorkInv, Ahead
<1>9. CASE AddBatch
  BY <1>0, <1>9 DEF AddBatch, WorkInv, Ahead
<1>10. CASE AddDone
  <2>1. \A b \in newHeaders \ work' : b \in Blocks /\ Kept(b) /\ b \in indexed
    BY <1>0, <1>10, <1>b DEF AddDone, headers_to_index, ListsInv, Ahead, Kept
  <2>2. \A b \in newHeaders \ work' : DoneRow(b) \in history
    BY <1>0, <2>1 DEF FullInv
  <2> QED BY <1>0, <1>10, <2>2 DEF AddDone, headers_to_index, disk, WorkInv, Ahead
<1>11. CASE IndexBatch
  <2>1. PICK S \in SUBSET work :
           \/ pc' = "panic"
           \/ pc' = "index" /\ history' = history \cup IndexRowsOf(S) /\ work' = work \ S
    BY <1>11 DEF IndexBatch, HistoryBatch
  <2>2. \A b \in S : DoneRow(b) \in IndexRowsOf(S)
    BY <1>0, DoneRowsOwn DEF TypeOK
  <2>3. UNCHANGED <<t, headers, newHeaders, reorged>> /\ pc = "index"
    BY <1>11 DEF IndexBatch
  <2> QED BY <1>0, <2>1, <2>2, <2>3 DEF WorkInv, Ahead
<1>12. CASE IndexDone
  BY <1>0, <1>12 DEF IndexDone, AfterIndex, disk, memory, WorkInv, Ahead
<1>13. CASE FlushTxstore \/ FlushHistory \/ SetTip
  BY <1>0, <1>13 DEF FlushTxstore, FlushHistory, SetTip, memory, WorkInv, Ahead
<1>14. CASE Open \/ Crash
  BY <1>14 DEF Open, Crash, WorkInv, Ahead
<1>15. CASE Poll
  BY <1>15 DEF Poll, WorkInv, Ahead
<1>16. CASE DaemonTip \/ MemtableFlush \/ UNCHANGED vars
  <2>1. UNCHANGED <<pc, t, headers, txstore, history, newHeaders, reorged, work, del>>
    BY <1>16 DEF DaemonTip, MemtableFlush, vars, disk, memory
  <2> QED BY <1>0, <2>1 DEF WorkInv, Ahead
<1> QED
  BY <1>1, <1>2, <1>3, <1>4, <1>5, <1>6, <1>7, <1>8, <1>9, <1>10, <1>11, <1>12, <1>13, <1>14, <1>15, <1>16 DEF Next, UpdateStep

(* A rollback deletes no row of a block up to the synced tip, nor of a     *)
(* stored block that may come back.                                        *)
LEMMA DeleteSpares ==
    ASSUME ~AddressSearch, IInv, Parts, NEW c \in work, pc \in {"unindex", "unadd"}, NEW b \in Blocks,
           b \in Chain[t] \/ (Kept(b) /\ (StoredTx(b) \/ StoredHist(b)))
    PROVE  AddRows(c) \cap AddRows(b) = {} /\ IndexRows(c) \cap IndexRows(b) = {}
<1>0. TypeOK /\ WorkInv /\ ListsInv /\ DeleteInv /\ PlaceInv
  BY DEF Parts, IInv
<1>1. c \in reorged
  BY <1>0 DEF DeleteInv
<1>2. \E h \in Blocks : {b} \cup reorged \subseteq Chain[h]
  BY <1>0 DEF WorkInv, PlaceInv, Gone
<1>3. b # c
  BY <1>0, <1>1 DEF ListsInv, Ahead, WorkInv, PlaceInv
<1> QED BY <1>1, <1>2, <1>3, RowsApart

(* Every row up to the synced tip stays on disk.                           *)
LEMMA DurableStep ==
    ASSUME ~AddressSearch, IInv, IInv', Parts, [Next]_vars
    PROVE  SyncedTipDurable'
<1>0. TypeOK /\ SyncedTipDurable /\ WorkInv /\ DiskInv /\ HistDiskInv
  BY DEF Parts, IInv
<1>b. Chain[t] \subseteq Blocks
  BY <1>0, ChainBlocks
<1>1. CASE RollbackTip
  <2>1. Chain[t'] \subseteq Chain[t]
    BY <1>1, RollbackFork
  <2>2. UNCHANGED <<txstoreDisk, historyDisk>>
    BY <1>1 DEF RollbackTip
  <2> QED BY <1>0, <2>1, <2>2 DEF SyncedTipDurable, AddRowsOf, IndexRowsOf
<1>2. CASE DeleteHistoryRow
  <2>1. PICK r \in RowsIn(del) : historyDisk' = historyDisk \ {r}
    BY <1>2 DEF DeleteHistoryRow
  <2>2. PICK c \in work : r \in IndexRows(c)
    BY <1>0, <1>2 DEF DeleteHistoryRow, WorkInv, IndexRowsOf
  <2>3. \A b \in Chain[t] : r \notin IndexRows(b)
    BY <1>2, <1>b, <2>2, DeleteSpares DEF DeleteHistoryRow
  <2>4. UNCHANGED <<txstoreDisk, t>>
    BY <1>2 DEF DeleteHistoryRow
  <2> QED BY <1>0, <2>1, <2>3, <2>4 DEF SyncedTipDurable, IndexRowsOf
<1>3. CASE DeleteTxstoreRow
  <2>1. PICK r \in RowsIn(del) : txstoreDisk' = txstoreDisk \ {r}
    BY <1>3 DEF DeleteTxstoreRow
  <2>2. PICK c \in work : r \in AddRows(c)
    BY <1>0, <1>3 DEF DeleteTxstoreRow, WorkInv, AddRowsOf
  <2>3. \A b \in Chain[t] : r \notin AddRows(b)
    BY <1>3, <1>b, <2>2, DeleteSpares DEF DeleteTxstoreRow
  <2>4. UNCHANGED <<historyDisk, t>>
    BY <1>3 DEF DeleteTxstoreRow
  <2> QED BY <1>0, <2>1, <2>3, <2>4 DEF SyncedTipDurable, AddRowsOf
<1>4. CASE SetTip
  <2>1. txstoreDisk = txstore /\ historyDisk = history
    BY <1>0, <1>4 DEF SetTip, DiskInv, HistDiskInv
  <2>2. AddRowsOf(Chain[headers]) \subseteq txstore /\ IndexRowsOf(Chain[headers]) \subseteq history
    BY <1>4, ListStored, ListIndexed DEF SetTip
  <2>3. t' = headers /\ UNCHANGED <<txstoreDisk, historyDisk>>
    BY <1>4 DEF SetTip
  <2> QED BY <2>1, <2>2, <2>3 DEF SyncedTipDurable
<1>5. CASE ~(RollbackTip \/ DeleteHistoryRow \/ DeleteTxstoreRow \/ SetTip)
  <2>1. t' = t /\ txstoreDisk \subseteq txstoreDisk' /\ historyDisk \subseteq historyDisk'
    <3>1. CASE MemtableFlush \/ FlushTxstore \/ FlushHistory
      BY <1>0, <3>1 DEF MemtableFlush, FlushTxstore, FlushHistory, DiskInv, HistDiskInv
    <3>2. CASE AddBatch
      <4>1. PICK S : txstoreDisk' = txstoreDisk \/ txstoreDisk' = txstoreDisk \cup AddRowsOf(S)
        BY <3>2 DEF AddBatch
      <4> QED BY <3>2, <4>1 DEF AddBatch
    <3>3. CASE IndexBatch
      <4>1. PICK S : historyDisk' = historyDisk \/ historyDisk' = historyDisk \cup IndexRowsOf(S)
        BY <3>3 DEF IndexBatch, HistoryBatch
      <4> QED BY <3>3, <4>1 DEF IndexBatch
    <3>4. CASE ~(MemtableFlush \/ FlushTxstore \/ FlushHistory \/ AddBatch \/ IndexBatch)
      BY <1>5, <3>4 DEF Next, UpdateStep, vars, disk, DaemonTip, Open, Crash, Poll, BeginUpdate,
             UnindexBlock, UnindexDone, UnaddBlock, UnaddDone, CancelCache, ReorgDone, AddDone, IndexDone
    <3> QED BY <3>1, <3>2, <3>3, <3>4
  <2> QED BY <1>0, <2>1 DEF SyncedTipDurable
<1> QED BY <1>1, <1>2, <1>3, <1>4, <1>5

(* When update takes a new header list, a stored block of it was one that  *)
(* may come back before.                                                   *)
LEMMA UpdateKeeps ==
    ASSUME ~AddressSearch, IInv, Parts, Tracked, BeginUpdate, NoPanic', NEW b \in Blocks, Kept(b)'
    PROVE  /\ headers' = daemonTip /\ pc' \in {"rollback", "add"} /\ headers = t
           /\ StoredTx(b) \/ StoredHist(b) \/ b \in indexed => Kept(b)
           /\ StoredTx(b) \/ StoredHist(b) => /\ b \in Chain[daemonTip]
                                              /\ \E h \in Blocks : {b} \cup Chain[t] \subseteq Chain[h]
<1>0. TypeOK /\ SeenInv /\ ListsInv /\ PlaceInv /\ OnlyInv
  BY DEF Parts, IInv
<1>1. headers = t /\ pc = "update"
  BY <1>0 DEF BeginUpdate, ListsInv
<1>2. headers' = daemonTip /\ pc' \in {"rollback", "add"} /\ abandoned' = abandoned
  BY DEF BeginUpdate, NoPanic
<1>3. CASE ~MayReturn
  <2>1. Kept(b)
    BY <1>0, <1>2, <1>3 DEF Kept, SeenInv
  <2>2. StoredTx(b) \/ StoredHist(b) => b \in Chain[daemonTip]
    BY <1>0, <1>2, <1>3 DEF Kept, SeenInv
  <2>3. StoredTx(b) \/ StoredHist(b) => \E h \in Blocks : {b} \cup Chain[t] \subseteq Chain[h]
    BY <1>0, <2>1 DEF PlaceInv
  <2> QED BY <1>1, <1>2, <2>1, <2>2, <2>3
<1>4. CASE MayReturn
  <2>1. /\ txstore \subseteq AddRowsOf(Chain[t]) /\ history \subseteq IndexRowsOf(Chain[t])
        /\ indexed = {}
    BY <1>0, <1>1, <1>4 DEF Tracked, OnlyInv, TxBlocks, HistBlocks
  <2>2. Chain[t] \subseteq Blocks /\ (Chain[t] # {} => t \in Blocks)
    BY <1>0, ChainBlocks
  <2>3. StoredTx(b) \/ StoredHist(b) => b \in Chain[t]
    BY <2>1, <2>2, DoneRowsOwn DEF StoredTx, StoredHist
  <2>4. b \in Chain[daemonTip]
    BY <1>2, <1>4 DEF Kept
  <2> QED BY <1>1, <1>2, <2>1, <2>2, <2>3, <2>4 DEF Kept
<1> QED BY <1>3, <1>4

(* A process that dies or starts takes no block for one that may come back *)
(* unless it was one before, or is up to the synced tip.                   *)
LEMMA RestartKeeps ==
    ASSUME IInv, Parts, Tracked', NEW b \in Blocks, Kept(b)', Crash \/ Open
    PROVE  /\ Kept(b) \/ (Open /\ b \in Chain[t])
           /\ Crash => Kept(b)
<1>1. CASE Crash
  <2>1. restarts' # 0
    BY <1>1, IndexerAssumption DEF Crash, IInv, TypeOK
  <2>2. ~MayReturn
    BY <2>1 DEF Tracked
  <2>3. Chain[headers'] = {}
    BY <1>1, TreeAssumption DEF Crash
  <2>4. abandoned' = abandoned
    BY <1>1 DEF Crash
  <2> QED BY <2>2, <2>3, <2>4 DEF Kept
<1>2. CASE Open
  <2>1. headers' = t /\ abandoned' = abandoned
    BY <1>2 DEF Open
  <2>2. ~Crash
    BY <1>2 DEF Open, Crash
  <2> QED BY <1>2, <2>1, <2>2 DEF Kept
<1> QED BY <1>1, <1>2

LEMMA PlaceStep ==
    ASSUME ~AddressSearch, IInv, IInv', Parts, Tracked, Tracked', NoPanic', [Next]_vars
    PROVE  PlaceInv'
<1>0. TypeOK /\ PlaceInv /\ WorkInv /\ ListsInv /\ DiskInv /\ HistDiskInv
  BY DEF Parts, IInv
<1> SUFFICES ASSUME NEW b \in Blocks, Kept(b)', (StoredTx(b) \/ StoredHist(b))'
             PROVE  /\ pc' \notin {"down", "update"} => b \in Chain[headers']
                    /\ \E h \in Blocks : {b} \cup Chain[t'] \cup Gone' \subseteq Chain[h]
  BY DEF PlaceInv
<1>b. /\ Chain[t] # {} => t \in Blocks
      /\ Chain[headers] # {} => headers \in Blocks
      /\ Chain[t] \subseteq Blocks /\ Chain[headers] \subseteq Blocks
  BY <1>0, ChainBlocks
<1>1. CASE Open
  <2>1. pc' = "update" /\ UNCHANGED <<txstore, history, t>> /\ Gone' = {}
    BY <1>1 DEF Open, NoPanic, disk, Gone
  <2>2. CASE b \in Chain[t]
    BY <1>b, <2>1, <2>2
  <2>3. CASE Kept(b)
    BY <1>0, <2>1, <2>3 DEF PlaceInv, StoredTx, StoredHist
  <2> QED BY <1>1, <2>2, <2>3, RestartKeeps
<1>2. CASE Crash
  <2>1. Kept(b)
    BY <1>2, RestartKeeps
  <2>2. StoredTx(b) \/ StoredHist(b)
    BY <1>0, <1>2 DEF Crash, DiskInv, HistDiskInv, StoredTx, StoredHist
  <2>3. pc' = "down" /\ t' = t /\ Gone' = {}
    BY <1>2 DEF Crash, disk, Gone
  <2> QED BY <1>0, <2>1, <2>2, <2>3 DEF PlaceInv
<1>3. CASE BeginUpdate
  <2>1. StoredTx(b) \/ StoredHist(b)
    BY <1>3 DEF BeginUpdate, StoredTx, StoredHist
  <2>2. t' = t
    BY <1>3 DEF BeginUpdate, disk
  <2>3. Gone' = {} /\ headers' = daemonTip
    BY <1>3, UpdateKeeps DEF Gone
  <2> QED BY <1>3, <2>1, <2>2, <2>3, UpdateKeeps
<1>4. CASE RollbackTip
  <2>1. Chain[t'] \cup reorged = Chain[t]
    BY <1>4, RollbackFork
  <2>2. Gone' = reorged
    BY <1>4 DEF RollbackTip, Gone
  <2>3. Kept(b) /\ (StoredTx(b) \/ StoredHist(b)) /\ headers' = headers /\ pc = "rollback"
    BY <1>4 DEF RollbackTip, Kept, StoredTx, StoredHist
  <2> QED BY <1>0, <2>1, <2>2, <2>3 DEF PlaceInv
<1>5. CASE AddBatch \/ IndexBatch
  <2>1. /\ pc \in {"add", "index"} /\ pc' = pc
        /\ UNCHANGED <<headers, t, abandoned>>
    BY <1>5 DEF AddBatch, IndexBatch, NoPanic
  <2>2. Gone = {} /\ Gone' = {}
    BY <2>1 DEF Gone
  <2>3. work \subseteq Chain[headers] /\ Chain[t] \subseteq Chain[headers]
    BY <1>0, <2>1 DEF WorkInv, ListsInv, Ahead
  <2>4. PICK S \in SUBSET work : txstore' \subseteq txstore \cup AddRowsOf(S)
                                 /\ history' \subseteq history \cup IndexRowsOf(S)
    <3>1. CASE AddBatch
      BY <3>1 DEF AddBatch
    <3>2. CASE IndexBatch
      BY <3>2 DEF IndexBatch, HistoryBatch
    <3> QED BY <1>5, <3>1, <3>2
  <2>5. StoredTx(b) \/ StoredHist(b) \/ b \in S
    BY <1>b, <2>3, <2>4, DoneRowsOwn DEF StoredTx, StoredHist
  <2>6. CASE b \in S
    BY <1>b, <2>1, <2>2, <2>3, <2>6
  <2>7. CASE StoredTx(b) \/ StoredHist(b)
    BY <1>0, <2>1, <2>2, <2>7 DEF PlaceInv, Kept
  <2> QED BY <2>5, <2>6, <2>7
<1>6. CASE SetTip
  <2>1. Kept(b) /\ (StoredTx(b) \/ StoredHist(b)) /\ headers' = headers /\ pc = "settip" /\ t' = headers
    BY <1>6 DEF SetTip, Kept, StoredTx, StoredHist
  <2>2. Gone' = {}
    BY <1>6 DEF SetTip, Gone
  <2>3. b \in Chain[headers]
    BY <1>0, <2>1 DEF PlaceInv
  <2> QED BY <1>b, <2>1, <2>2, <2>3
<1>7. CASE ~(Open \/ Crash \/ BeginUpdate \/ RollbackTip \/ AddBatch \/ IndexBatch \/ SetTip)
  <2>1. /\ UNCHANGED <<headers, t, reorged>> /\ abandoned \subseteq abandoned'
        /\ txstore' \subseteq txstore /\ history' \subseteq history
        /\ pc' \notin {"down", "update"} => pc \notin {"down", "update"}
        /\ pc' \in {"unindex", "unadd"} => pc \in {"unindex", "unadd"}
    <3>1. CASE DaemonTip \/ MemtableFlush \/ Poll \/ UNCHANGED vars
      BY <3>1 DEF vars, disk, memory, DaemonTip, MemtableFlush, Poll
    <3>2. CASE UnindexBlock \/ DeleteHistoryRow \/ UnindexDone \/ UnaddBlock \/ DeleteTxstoreRow
      BY <3>2 DEF disk, UnindexBlock, DeleteHistoryRow, UnindexDone, UnaddBlock, DeleteTxstoreRow, NoPanic
    <3>3. CASE UnaddDone \/ CancelCache \/ ReorgDone \/ AddDone \/ IndexDone \/ FlushTxstore \/ FlushHistory
      BY <3>3 DEF disk, memory, UnaddDone, CancelCache, ReorgDone, AddDone, IndexDone, AfterIndex, FlushTxstore,
                  FlushHistory
    <3> QED BY <1>7, <3>1, <3>2, <3>3 DEF Next, UpdateStep
  <2>2. Kept(b) /\ (StoredTx(b) \/ StoredHist(b))
    BY <2>1 DEF Kept, StoredTx, StoredHist
  <2>3. Gone' \subseteq Gone
    BY <2>1 DEF Gone
  <2> QED BY <1>0, <2>1, <2>2, <2>3 DEF PlaceInv
<1> QED BY <1>1, <1>2, <1>3, <1>4, <1>5, <1>6, <1>7

LEMMA FullStep ==
    ASSUME ~AddressSearch, IInv, IInv', Parts, Tracked, Tracked', NoPanic', [Next]_vars
    PROVE  FullInv'
<1>0. TypeOK /\ FullInv /\ WorkInv /\ DiskInv /\ HistDiskInv /\ SyncedTipDurable
  BY DEF Parts, IInv
<1> SUFFICES ASSUME NEW b \in Blocks, Kept(b)'
             PROVE  /\ DoneRow(b) \in txstore' => AddRows(b) \subseteq txstore'
                    /\ DoneRow(b) \in txstoreDisk' => AddRows(b) \subseteq txstoreDisk'
                    /\ DoneRow(b) \in history' => IndexRows(b) \subseteq history'
                    /\ DoneRow(b) \in historyDisk' => IndexRows(b) \subseteq historyDisk'
                    /\ b \in indexed' => DoneRow(b) \in history'
  BY DEF FullInv, StoredTx, StoredHist
<1> USE DEF StoredTx, StoredHist
<1>1. CASE Open
  <2>1. UNCHANGED <<txstore, txstoreDisk, history, historyDisk>> /\ txstore = txstoreDisk /\ history = historyDisk
    BY <1>0, <1>1 DEF Open, disk, HistDiskInv
  <2>2. b \in indexed' => DoneRow(b) \in history
    BY <1>1 DEF Open, load_blockhashes
  <2>3. CASE b \in Chain[t]
    BY <1>0, <2>1, <2>2, <2>3 DEF SyncedTipDurable, AddRowsOf, IndexRowsOf
  <2>4. CASE Kept(b)
    BY <1>0, <2>1, <2>2, <2>4 DEF FullInv
  <2> QED BY <1>1, <2>3, <2>4, RestartKeeps
<1>2. CASE Crash
  <2>1. Kept(b)
    BY <1>2, RestartKeeps
  <2>2. /\ txstore' = txstoreDisk /\ txstoreDisk' = txstoreDisk
        /\ history' = historyDisk /\ historyDisk' = historyDisk
        /\ indexed' = {}
    BY <1>2 DEF Crash, disk
  <2> QED BY <1>0, <2>1, <2>2 DEF FullInv
<1>3. CASE BeginUpdate
  <2>1. UNCHANGED <<txstore, txstoreDisk, history, historyDisk, indexed>>
    BY <1>3 DEF BeginUpdate, disk
  <2>2. StoredTx(b) \/ StoredHist(b) \/ b \in indexed => Kept(b)
    BY <1>3, UpdateKeeps
  <2>3. txstoreDisk \subseteq txstore /\ historyDisk \subseteq history
    BY <1>0 DEF DiskInv, HistDiskInv
  <2>4. CASE Kept(b)
    BY <1>0, <2>1, <2>4 DEF FullInv
  <2>5. CASE ~(StoredTx(b) \/ StoredHist(b) \/ b \in indexed)
    BY <2>1, <2>3, <2>5
  <2> QED BY <2>2, <2>4, <2>5
<1>4. CASE DeleteHistoryRow
  <2>1. PICK r \in RowsIn(del) : history' = history \ {r} /\ historyDisk' = historyDisk \ {r}
    BY <1>4 DEF DeleteHistoryRow
  <2>2. PICK c \in work : r \in IndexRows(c)
    BY <1>0, <1>4 DEF DeleteHistoryRow, WorkInv, IndexRowsOf
  <2>3. Kept(b) /\ UNCHANGED <<txstore, txstoreDisk, indexed>>
    BY <1>4 DEF DeleteHistoryRow, Kept
  <2>4. StoredHist(b) => r \notin IndexRows(b)
    BY <1>4, <2>2, <2>3, DeleteSpares DEF DeleteHistoryRow
  <2>5. DoneRow(b) \in IndexRows(b) /\ historyDisk \subseteq history
    BY <1>0, DoneRowsOwn DEF HistDiskInv
  <2> QED BY <1>0, <2>1, <2>3, <2>4, <2>5 DEF FullInv
<1>5. CASE DeleteTxstoreRow
  <2>1. PICK r \in RowsIn(del) : txstore' = txstore \ {r} /\ txstoreDisk' = txstoreDisk \ {r}
    BY <1>5 DEF DeleteTxstoreRow
  <2>2. PICK c \in work : r \in AddRows(c)
    BY <1>0, <1>5 DEF DeleteTxstoreRow, WorkInv, AddRowsOf
  <2>3. Kept(b) /\ UNCHANGED <<history, historyDisk, indexed>>
    BY <1>5 DEF DeleteTxstoreRow, Kept
  <2>4. StoredTx(b) => r \notin AddRows(b)
    BY <1>5, <2>2, <2>3, DeleteSpares DEF DeleteTxstoreRow
  <2>5. txstoreDisk \subseteq txstore
    BY <1>0 DEF DiskInv
  <2> QED BY <1>0, <2>1, <2>3, <2>4, <2>5 DEF FullInv
<1>6. CASE AddBatch
  <2>1. PICK S \in SUBSET work :
           /\ txstore' = txstore \cup AddRowsOf(S)
           /\ txstoreDisk' = txstoreDisk \/ txstoreDisk' = txstoreDisk \cup AddRowsOf(S)
    BY <1>6 DEF AddBatch
  <2>2. Kept(b) /\ UNCHANGED <<history, historyDisk, indexed>>
    BY <1>6 DEF AddBatch, Kept
  <2>3. DoneRow(b) \in AddRowsOf(S) => AddRows(b) \subseteq AddRowsOf(S)
    <3>1. S \in SUBSET Blocks
      BY <1>0 DEF TypeOK
    <3>2. DoneRow(b) \in AddRowsOf(S) => b \in S
      BY <3>1, DoneRowsOwn
    <3> QED BY <3>2 DEF AddRowsOf
  <2> QED BY <1>0, <2>1, <2>2, <2>3 DEF FullInv
<1>7. CASE IndexBatch
  <2>1. PICK S \in SUBSET work :
           /\ history' = history \cup IndexRowsOf(S)
           /\ historyDisk' = historyDisk \/ historyDisk' = historyDisk \cup IndexRowsOf(S)
    BY <1>7 DEF IndexBatch, HistoryBatch, NoPanic
  <2>2. Kept(b) /\ UNCHANGED <<txstore, txstoreDisk, indexed>>
    BY <1>7 DEF IndexBatch, Kept
  <2>3. DoneRow(b) \in IndexRowsOf(S) => IndexRows(b) \subseteq IndexRowsOf(S)
    <3>1. S \in SUBSET Blocks
      BY <1>0 DEF TypeOK
    <3>2. DoneRow(b) \in IndexRowsOf(S) => b \in S
      BY <3>1, DoneRowsOwn
    <3> QED BY <3>2 DEF IndexRowsOf
  <2> QED BY <1>0, <2>1, <2>2, <2>3 DEF FullInv
<1>8. CASE ~(Open \/ Crash \/ BeginUpdate \/ DeleteHistoryRow \/ DeleteTxstoreRow \/ AddBatch \/ IndexBatch)
  <2>1. /\ UNCHANGED <<txstore, history, headers, indexed>> /\ abandoned \subseteq abandoned'
        /\ txstoreDisk' = txstoreDisk \/ txstoreDisk' = txstore
        /\ historyDisk' = historyDisk \/ historyDisk' = history
    BY <1>8 DEF Next, UpdateStep, vars, disk, memory, DaemonTip, MemtableFlush, Poll, RollbackTip,
           UnindexBlock, UnindexDone, UnaddBlock, UnaddDone, CancelCache, ReorgDone, AddDone,
           IndexDone, FlushTxstore, FlushHistory, SetTip
  <2>2. Kept(b)
    BY <2>1 DEF Kept
  <2> QED BY <1>0, <2>1, <2>2 DEF FullInv
<1> QED BY <1>1, <1>2, <1>3, <1>4, <1>5, <1>6, <1>7, <1>8

(* The highest block of what is rolled back is unique.                     *)
LEMMA OneHighest ==
    ASSUME IInv, Parts, pc \in {"unindex", "unadd"}, NEW b, NEW c, IsHighest(b, work), IsHighest(c, work)
    PROVE  b = c
<1>1. b \in work /\ c \in work /\ Height[b] >= Height[c] /\ Height[c] >= Height[b]
  BY DEF IsHighest
<1>2. PICK o \in Blocks : work \subseteq Chain[o]
  BY DEF IInv, DeleteInv, Parts, WorkInv
<1>3. Height[b] \in Nat /\ Height[c] \in Nat
  BY <1>1, TreeAssumption DEF IInv, TypeOK
<1>4. Height[b] = Height[c]
  BY <1>1, <1>3
<1> QED BY <1>1, <1>2, <1>4, HeightAssumption

LEMMA OnlyStep ==
    ASSUME ~AddressSearch, IInv, IInv', Parts, NoPanic', [Next]_vars
    PROVE  OnlyInv'
<1> SUFFICES ASSUME restarts' = 0
             PROVE  /\ pc' = "down" => t' = NoBlock
                    /\ txstore' \subseteq AddRowsOf(TxBlocks') /\ history' \subseteq IndexRowsOf(HistBlocks')
                    /\ added' \subseteq TxBlocks' /\ indexed' = {}
                    /\ pc' = "unindex" /\ del' # <<>> => \A c \in work' : IsHighest(c, work') =>
                          history' \subseteq IndexRowsOf(Chain[t'] \cup (work' \ {c})) \cup RowsIn(del')
                    /\ pc' = "unadd" /\ del' # <<>> => \A c \in work' : IsHighest(c, work') =>
                          txstore' \subseteq AddRowsOf(Chain[t'] \cup (work' \ {c})) \cup RowsIn(del')
  BY DEF OnlyInv, IsHighest
<1>0. TypeOK /\ WorkInv /\ ListsInv /\ DeleteInv /\ pc # "panic" /\ pc' # "panic"
  BY DEF Parts, IInv, NoPanic
<1>z. restarts = 0 /\ ~Crash
  <2>1. restarts \in Nat
    BY <1>0, IndexerAssumption DEF TypeOK
  <2> QED BY <2>1 DEF Next, UpdateStep, vars, DaemonTip, Open, Crash, MemtableFlush, Poll, BeginUpdate,
         RollbackTip, UnindexBlock, DeleteHistoryRow, UnindexDone, UnaddBlock, DeleteTxstoreRow, UnaddDone,
         CancelCache, ReorgDone, AddBatch, AddDone, IndexBatch, IndexDone, FlushTxstore,
         FlushHistory, SetTip
<1>o. /\ pc = "down" => t = NoBlock
      /\ txstore \subseteq AddRowsOf(TxBlocks) /\ history \subseteq IndexRowsOf(HistBlocks)
      /\ added \subseteq TxBlocks /\ indexed = {}
      /\ pc = "unindex" /\ del # <<>> => \A c \in work : IsHighest(c, work) =>
            history \subseteq IndexRowsOf(Chain[t] \cup (work \ {c})) \cup RowsIn(del)
      /\ pc = "unadd" /\ del # <<>> => \A c \in work : IsHighest(c, work) =>
            txstore \subseteq AddRowsOf(Chain[t] \cup (work \ {c})) \cup RowsIn(del)
  BY <1>z DEF Parts, OnlyInv
<1>m. /\ \A S, T : S \subseteq T => AddRowsOf(S) \subseteq AddRowsOf(T) /\ IndexRowsOf(S) \subseteq IndexRowsOf(T)
  BY DEF AddRowsOf, IndexRowsOf
<1>t. /\ pc \in {"down", "update", "idle", "rollback", "cancel"} => TxBlocks = Chain[t]
      /\ pc = "unindex" => TxBlocks = Chain[t] \cup reorged
      /\ pc = "unadd" => TxBlocks = Chain[t] \cup work
      /\ pc = "add" => TxBlocks = Chain[t] \cup (newHeaders \ work)
      /\ pc \in {"index", "flushTx", "flushHist", "settip"} => TxBlocks = Chain[headers]
  BY DEF TxBlocks
<1>h. /\ pc \in {"down", "update", "idle", "rollback", "unadd", "cancel", "add"} => HistBlocks = Chain[t]
      /\ pc = "unindex" => HistBlocks = Chain[t] \cup work
      /\ pc = "index" => HistBlocks = Chain[t] \cup (newHeaders \ work)
      /\ pc \in {"flushTx", "flushHist", "settip"} => HistBlocks = Chain[headers]
  BY DEF HistBlocks
<1>u. /\ pc' \in {"down", "update", "idle", "rollback", "cancel"} => TxBlocks' = Chain[t']
      /\ pc' = "unindex" => TxBlocks' = Chain[t'] \cup reorged'
      /\ pc' = "unadd" => TxBlocks' = Chain[t'] \cup work'
      /\ pc' = "add" => TxBlocks' = Chain[t'] \cup (newHeaders' \ work')
      /\ pc' \in {"index", "flushTx", "flushHist", "settip"} => TxBlocks' = Chain[headers']
  BY DEF TxBlocks
<1>i. /\ pc' \in {"down", "update", "idle", "rollback", "unadd", "cancel", "add"} => HistBlocks' = Chain[t']
      /\ pc' = "unindex" => HistBlocks' = Chain[t'] \cup work'
      /\ pc' = "index" => HistBlocks' = Chain[t'] \cup (newHeaders' \ work')
      /\ pc' \in {"flushTx", "flushHist", "settip"} => HistBlocks' = Chain[headers']
  BY DEF HistBlocks
<1>k. pc \in Ahead => Chain[headers] = Chain[t] \cup newHeaders
  BY <1>0 DEF ListsInv
<1>1. CASE Open
  <2>1. Chain[t] = {}
    BY <1>1, <1>o, TreeAssumption DEF Open
  <2>2. txstore = {} /\ history = {}
    BY <1>1, <1>o, <1>t, <1>h, <2>1 DEF Open, AddRowsOf, IndexRowsOf
  <2>3. pc' = "update" /\ added' = {} /\ indexed' = {} /\ UNCHANGED <<txstore, history, t>>
    BY <1>0, <1>1, <2>2 DEF Open, LoadAdded, load_blockhashes, disk
  <2> QED BY <2>2, <2>3
<1>2. CASE BeginUpdate
  <2>1. pc' \in {"rollback", "add"} /\ UNCHANGED <<txstore, history, t, added, indexed>> /\ pc = "update"
    BY <1>0, <1>2 DEF BeginUpdate, disk
  <2>2. TxBlocks \subseteq TxBlocks' /\ HistBlocks = HistBlocks'
    BY <1>t, <1>h, <1>u, <1>i, <2>1
  <2> QED BY <1>o, <1>m, <2>1, <2>2
<1>3. CASE RollbackTip
  <2>1. Chain[t'] \cup reorged = Chain[t] /\ pc = "rollback" /\ pc' = "unindex" /\ work' = reorged /\ reorged' = reorged
    BY <1>3, RollbackFork DEF RollbackTip
  <2>2. del = <<>> /\ UNCHANGED <<txstore, history, added, indexed, del>>
    BY <1>0, <1>3 DEF RollbackTip, DeleteInv
  <2>3. TxBlocks' = TxBlocks /\ HistBlocks' = HistBlocks
    BY <1>t, <1>h, <1>u, <1>i, <2>1
  <2> QED BY <1>o, <2>1, <2>2, <2>3
<1>4. CASE UnindexBlock
  <2>1. PICK b \in work : IsHighest(b, work) /\ del' = index_blocks(b)
    BY <1>0, <1>4 DEF UnindexBlock
  <2>2. pc = "unindex" /\ pc' = "unindex" /\ UNCHANGED <<txstore, history, t, added, indexed, work, reorged>>
    BY <1>0, <1>4 DEF UnindexBlock, disk
  <2>3. \A c \in work : IsHighest(c, work) => c = b
    BY <2>1, <2>2, OneHighest
  <2>4. history \subseteq IndexRowsOf(Chain[t] \cup (work \ {b})) \cup RowsIn(del')
    BY <1>o, <1>h, <2>1, <2>2 DEF IndexRowsOf, IndexRows
  <2>5. TxBlocks' = TxBlocks /\ HistBlocks' = HistBlocks
    BY <1>t, <1>h, <1>u, <1>i, <2>2
  <2> QED BY <1>o, <2>2, <2>3, <2>4, <2>5
<1>5. CASE DeleteHistoryRow
  <2>1. PICK r \in RowsIn(del), b \in work : DeleteKey(r, b) /\ history' = history \ {r}
    BY <1>5 DEF DeleteHistoryRow
  <2>2. pc = "unindex" /\ pc' = "unindex" /\ del # <<>> /\ UNCHANGED <<txstore, t, added, indexed, reorged>>
    BY <1>5 DEF DeleteHistoryRow
  <2>3. /\ RowsIn(del) \subseteq RowsIn(del') \cup {r}
        /\ IsHighest(b, work) /\ RowsIn(<<>>) = {}
        /\ work' = work \/ (work' = work \ {b} /\ del' = <<>>)
    BY <1>0, <2>1, DeleteLeaves
  <2>4. \A c \in work : IsHighest(c, work) =>
            history' \subseteq IndexRowsOf(Chain[t] \cup (work \ {c})) \cup RowsIn(del')
    BY <1>o, <2>1, <2>2, <2>3
  <2>5. TxBlocks' = TxBlocks
    BY <1>t, <1>u, <2>2
  <2>6. HistBlocks = Chain[t] \cup work /\ HistBlocks' = Chain[t] \cup work'
    BY <1>h, <1>i, <2>2
  <2>7. CASE work' = work
    BY <1>o, <2>1, <2>2, <2>4, <2>5, <2>6, <2>7
  <2>8. CASE work' = work \ {b} /\ del' = <<>>
    <3>1. history' \subseteq IndexRowsOf(Chain[t] \cup (work \ {b}))
      BY <2>3, <2>4, <2>8
    <3> QED BY <1>o, <2>2, <2>5, <2>6, <2>8, <3>1
  <2> QED BY <2>3, <2>7, <2>8
<1>6. CASE UnindexDone
  <2>1. pc = "unindex" /\ pc' = "unadd" /\ work = {} /\ work' = reorged /\ UNCHANGED <<txstore, history, t, added, indexed, del>>
    BY <1>6 DEF UnindexDone, disk
  <2>2. del = <<>>
    BY <1>0, <2>1 DEF DeleteInv
  <2>3. TxBlocks' = TxBlocks /\ HistBlocks' = HistBlocks
    BY <1>t, <1>h, <1>u, <1>i, <2>1
  <2> QED BY <1>o, <2>1, <2>2, <2>3
<1>7. CASE UnaddBlock
  <2>1. PICK b \in work : IsHighest(b, work) /\ del' = add_blocks(b)
    BY <1>7 DEF UnaddBlock
  <2>2. pc = "unadd" /\ pc' = "unadd" /\ UNCHANGED <<txstore, history, t, added, indexed, work, reorged>>
    BY <1>7 DEF UnaddBlock, disk
  <2>3. \A c \in work : IsHighest(c, work) => c = b
    BY <2>1, <2>2, OneHighest
  <2>4. txstore \subseteq AddRowsOf(Chain[t] \cup (work \ {b})) \cup RowsIn(del')
    BY <1>o, <1>t, <2>1, <2>2 DEF AddRowsOf, AddRows
  <2>5. TxBlocks' = TxBlocks /\ HistBlocks' = HistBlocks
    BY <1>t, <1>h, <1>u, <1>i, <2>2
  <2> QED BY <1>o, <2>2, <2>3, <2>4, <2>5
<1>8. CASE DeleteTxstoreRow
  <2>1. PICK r \in RowsIn(del), b \in work :
           /\ DeleteKey(r, b) /\ txstore' = txstore \ {r}
           /\ b \in work' => added' = added
           /\ b \notin work' => added' = added \ {b}
    BY <1>8 DEF DeleteTxstoreRow, ForgetAdded
  <2>2. pc = "unadd" /\ pc' = "unadd" /\ del # <<>> /\ UNCHANGED <<history, t, indexed>>
    BY <1>8 DEF DeleteTxstoreRow
  <2>3. /\ RowsIn(del) \subseteq RowsIn(del') \cup {r}
        /\ IsHighest(b, work) /\ RowsIn(<<>>) = {}
        /\ work' = work \/ (work' = work \ {b} /\ del' = <<>>)
    BY <1>0, <2>1, DeleteLeaves
  <2>4. \A c \in work : IsHighest(c, work) =>
            txstore' \subseteq AddRowsOf(Chain[t] \cup (work \ {c})) \cup RowsIn(del')
    BY <1>o, <2>1, <2>2, <2>3
  <2>5. HistBlocks' = HistBlocks
    BY <1>h, <1>i, <2>2
  <2>6. TxBlocks = Chain[t] \cup work /\ TxBlocks' = Chain[t] \cup work'
    BY <1>t, <1>u, <2>2
  <2>7. CASE work' = work
    BY <1>o, <2>1, <2>2, <2>4, <2>5, <2>6, <2>7
  <2>8. CASE work' = work \ {b} /\ del' = <<>>
    <3>1. txstore' \subseteq AddRowsOf(Chain[t] \cup (work \ {b}))
      BY <2>3, <2>4, <2>8
    <3>2. added' \subseteq Chain[t] \cup work'
      BY <1>o, <2>1, <2>6, <2>8
    <3> QED BY <1>o, <2>2, <2>5, <2>6, <2>8, <3>1, <3>2
  <2> QED BY <2>3, <2>7, <2>8
<1>9. CASE AddBatch
  <2>1. PICK S \in SUBSET work : /\ txstore' = txstore \cup AddRowsOf(S)
                                 /\ added' = added \cup S /\ work' = work \ S
    BY <1>9 DEF AddBatch, RecordAdded
  <2>2. pc = "add" /\ pc' = "add" /\ UNCHANGED <<history, t, headers, newHeaders, indexed>>
    BY <1>9 DEF AddBatch
  <2>3. TxBlocks \cup S \subseteq TxBlocks' /\ HistBlocks' = HistBlocks
    BY <1>0, <1>t, <1>h, <1>u, <1>i, <2>1, <2>2 DEF WorkInv
  <2> QED BY <1>o, <1>m, <2>1, <2>2, <2>3
<1>10. CASE IndexBatch
  <2>1. PICK S \in SUBSET work : history' = history \cup IndexRowsOf(S) /\ work' = work \ S
    BY <1>0, <1>10 DEF IndexBatch, HistoryBatch
  <2>2. pc = "index" /\ pc' = "index" /\ UNCHANGED <<txstore, t, headers, newHeaders, added, indexed>>
    BY <1>0, <1>10 DEF IndexBatch
  <2>3. HistBlocks \cup S \subseteq HistBlocks' /\ TxBlocks' = TxBlocks
    BY <1>0, <1>t, <1>h, <1>u, <1>i, <2>1, <2>2 DEF WorkInv
  <2> QED BY <1>o, <1>m, <2>1, <2>2, <2>3
<1>11. CASE ReorgDone \/ AddDone \/ IndexDone \/ UnaddDone \/ SetTip
  <2>1. UNCHANGED <<txstore, history, added, indexed>> /\ pc' \notin {"unindex", "unadd", "down"}
    BY <1>11 DEF ReorgDone, AddDone, IndexDone, AfterIndex, UnaddDone, SetTip, disk, memory
  <2>2. TxBlocks \subseteq TxBlocks' /\ HistBlocks \subseteq HistBlocks'
    <3>1. CASE ReorgDone
      BY <3>1, <1>t, <1>h, <1>u, <1>i DEF ReorgDone, disk
    <3>2. CASE AddDone
      BY <3>2, <1>t, <1>h, <1>u, <1>i, <1>k DEF AddDone, disk, Ahead
    <3>3. CASE IndexDone
      BY <3>3, <1>t, <1>h, <1>u, <1>i, <1>k DEF IndexDone, AfterIndex, disk, memory, Ahead
    <3>4. CASE UnaddDone
      BY <3>4, <1>t, <1>h, <1>u, <1>i DEF UnaddDone, disk, memory
    <3>5. CASE SetTip
      BY <3>5, <1>t, <1>h, <1>u, <1>i, <1>k DEF SetTip, Ahead
    <3> QED BY <1>11, <3>1, <3>2, <3>3, <3>4, <3>5
  <2> QED BY <1>o, <1>m, <2>1, <2>2
<1>12. CASE Poll \/ CancelCache \/ FlushTxstore \/ FlushHistory
  <2>1. UNCHANGED <<txstore, history, added, indexed>> /\ pc' \notin {"unindex", "unadd", "down"}
    BY <1>12 DEF Poll, CancelCache, FlushTxstore, FlushHistory, disk, memory
  <2>2. UNCHANGED <<t, headers>> /\ \/ pc \in {"idle", "cancel"} /\ pc' \in {"update", "idle", "cancel"}
                                    \/ pc \in {"flushTx", "flushHist"} /\ pc' \in {"flushHist", "settip"}
    BY <1>12 DEF Poll, CancelCache, FlushTxstore, FlushHistory, disk, memory
  <2>3. TxBlocks' = TxBlocks /\ HistBlocks' = HistBlocks
    BY <1>t, <1>h, <1>u, <1>i, <2>2
  <2> QED BY <1>o, <2>1, <2>3
<1>13. CASE DaemonTip \/ MemtableFlush \/ UNCHANGED vars
  <2>1. UNCHANGED <<txstore, history, added, indexed, pc, t, headers, newHeaders, reorged, work, del>>
    BY <1>13 DEF DaemonTip, MemtableFlush, vars, disk, memory
  <2>2. TxBlocks' = TxBlocks /\ HistBlocks' = HistBlocks
    BY <2>1 DEF TxBlocks, HistBlocks
  <2> QED BY <1>o, <2>1, <2>2
<1> QED
  BY <1>z, <1>1, <1>2, <1>3, <1>4, <1>5, <1>6, <1>7, <1>8, <1>9, <1>10, <1>11, <1>12, <1>13 DEF Next, UpdateStep

-----------------------------------------------------------------------------
(* Nothing is stored and nothing is listed in the beginning.               *)
LEMMA RowsInit == Init => RowsInv
<1> SUFFICES ASSUME Init PROVE Parts
  BY DEF RowsInv
<1>1. /\ daemonTip \in Blocks /\ Chain[t] = {} /\ Chain[headers] = {}
      /\ txstore = {} /\ txstoreDisk = {} /\ history = {} /\ historyDisk = {}
      /\ added = {} /\ indexed = {} /\ del = <<>> /\ pc = "down" /\ abandoned = {}
      /\ t = NoBlock /\ headers = NoBlock
  BY TreeAssumption DEF Init
<1>2. SyncedTipDurable
  BY <1>1 DEF SyncedTipDurable, AddRowsOf, IndexRowsOf
<1>3. NoPanic /\ SeenInv /\ WorkInv /\ PlaceInv /\ FullInv
  BY <1>1 DEF NoPanic, SeenInv, WorkInv, Ahead, PlaceInv, FullInv, StoredTx, StoredHist
<1>4. HistDiskInv
  BY <1>1 DEF Init, HistDiskInv
<1>5. OnlyInv
  BY <1>1 DEF OnlyInv
<1> QED BY <1>2, <1>3, <1>4, <1>5 DEF Parts

LEMMA RowsStep ==
    ASSUME ~AddressSearch, SpendsConfirmed
    PROVE  IInv /\ IInv' /\ RowsInv /\ [Next]_vars => RowsInv'
<1> SUFFICES ASSUME IInv, IInv', RowsInv, [Next]_vars, Tracked' PROVE Parts'
  BY DEF RowsInv
<1>1. Tracked /\ Parts
  BY TrackedBefore
<1>2. NoPanic'
  BY <1>1, NoPanicStep
<1>3. SyncedTipDurable' /\ SeenInv' /\ HistDiskInv' /\ WorkInv'
  BY <1>1, DurableStep, SeenStep, HistDiskStep, WorkStep
<1>4. PlaceInv' /\ FullInv' /\ OnlyInv'
  BY <1>1, <1>2, PlaceStep, FullStep, OnlyStep
<1> QED BY <1>2, <1>3, <1>4 DEF Parts

LEMMA RowsAlways ==
    ASSUME ~AddressSearch, SpendsConfirmed
    PROVE  Spec => [](IInv /\ RowsInv)
<1>1. IInv /\ IInv' /\ RowsInv /\ [Next]_vars => RowsInv'
  BY RowsStep
<1> QED BY <1>1, IInvInit, IInvStep, RowsInit, PTL DEF Spec

(* In the first process the databases hold exactly the rows of the best    *)
(* chain whenever update has returned, whatever reorganisations came, a    *)
(* return to a branch that was rolled back included.  Without              *)
(* --address-search: its `a` rows are shared by the blocks of a branch,    *)
(* and a rollback deletes them.                                            *)
THEOREM IndexExactAlways ==
    ASSUME ~AddressSearch, SpendsConfirmed
    PROVE  Spec => []IndexExact
<1>1. IInv /\ RowsInv => IndexExact
  <2> SUFFICES ASSUME IInv, RowsInv, pc = "idle", restarts = 0
               PROVE  txstore = AddRowsOf(Chain[headers]) /\ history = IndexRowsOf(Chain[headers])
    BY DEF IndexExact
  <2>1. Parts
    BY DEF RowsInv, Tracked
  <2>2. headers = t /\ txstoreDisk \subseteq txstore /\ historyDisk \subseteq history
    BY <2>1 DEF IInv, ListsInv, DiskInv, Parts, HistDiskInv
  <2>3. AddRowsOf(Chain[t]) \subseteq txstore /\ IndexRowsOf(Chain[t]) \subseteq history
    BY <2>1, <2>2 DEF Parts, SyncedTipDurable
  <2>4. txstore \subseteq AddRowsOf(Chain[t]) /\ history \subseteq IndexRowsOf(Chain[t])
    BY <2>1 DEF Parts, OnlyInv, TxBlocks, HistBlocks
  <2> QED BY <2>2, <2>3, <2>4
<1> QED BY <1>1, RowsAlways, PTL

(* As long as bitcoind does not return to a branch it left, or the process *)
(* does not die, a crash at any moment leaves on disk every row of every   *)
(* block up to the synced tip `t`: update flushes before it writes `t`,    *)
(* moves it back before it deletes, and deletes no row that a block it     *)
(* keeps shares with one it rolls back.                                    *)
THEOREM TipDurable ==
    ASSUME ~AddressSearch, SpendsConfirmed, ~MayReturn \/ MaxRestarts = 0
    PROVE  Spec => []SyncedTipDurable
<1>1. IInv /\ RowsInv => SyncedTipDurable
  BY DEF IInv, TypeOK, RowsInv, Tracked, Parts
<1> QED BY <1>1, RowsAlways, PTL

(* Under the same conditions the indexer thread never panics: every output *)
(* that index looks up is in txstore, no block is indexed before it is     *)
(* added, the new header list ends in the best block, and Store::open      *)
(* finds every header up to `t`.                                           *)
THEOREM NeverPanics ==
    ASSUME ~AddressSearch, SpendsConfirmed, ~MayReturn \/ MaxRestarts = 0
    PROVE  Spec => []NoPanic
<1>1. IInv /\ RowsInv => NoPanic
  BY DEF IInv, TypeOK, RowsInv, Tracked, Parts
<1> QED BY <1>1, RowsAlways, PTL
=============================================================================
