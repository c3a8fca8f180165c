---------------------------- MODULE ScriptCache ----------------------------
(***************************************************************************)
(* ChainQuery::stats for one script, run by a query thread while the       *)
(* indexer thread replaces one branch by another.                          *)
(*                                                                         *)
(* The indexer is reduced to what a reader can see of Indexer::update: the *)
(* header list changes first, then blocks lose their history rows one by   *)
(* one, in an order that is left open, then their confirmation rows, then  *)
(* cached answers are cancelled, then the new blocks get both kinds of     *)
(* rows.  A set of history rows stands for the counts that stats adds up   *)
(* over them.  utxo (module Rest) has a cache row of its own.              *)
(*                                                                         *)
(* stats holds no lock from its first read to the save, so a rollback may  *)
(* overtake it.  `torn` is a ghost variable, which no action depends on:   *)
(* it records the three ways in which that can spoil what is saved.        *)
(***************************************************************************)
EXTENDS BlockTree

CONSTANTS
    Start,       \* the indexed tip at the start
    Moves,       \* the tips bitcoind may present
    Script,      \* the script the query is about
    MinItems     \* MIN_HISTORY_ITEMS_TO_CACHE

ASSUME CacheAssumption ==
    /\ Start \in Blocks /\ Moves \subseteq Blocks
    /\ Script \in Scripts
    /\ MinItems \in Nat

VARIABLES
    indexedTip, \* last block of indexed_headers
    step,      \* where Indexer::update is
    reorged,   \* blocks of the old branch that this update rolls back
    coming,    \* blocks of the new branch still to be written
    history,   \* history rows of Script
    conf,      \* confirmation rows
    cache,     \* the StatsCacheRow of Script, as a set with at most one row
    query,     \* where stats is
    row,       \* the cache row it has read, if any
    stats,     \* the rows it has counted
    last,      \* lastblock: at most one block
    scan,      \* what is left of the iterator
    torn       \* ghost: did a rollback overtake this query?

indexer == <<indexedTip, step, reorged, coming, history, conf>>
reader == <<query, row, stats, last, scan>>
vars == <<indexer, cache, reader, torn>>

HRows(b) == {r \in IndexRows(b) : r[1] = "H" /\ r[2] = Script}
HRowsOf(S) == UNION {HRows(b) : b \in S}
CRowsOf(S) == UNION {{<<"C", t, b>> : t \in TxsOf(b)} : b \in S}
HeightOf(r) == r[3]
PositionOf(r) == r[4]
TxOf(r) == r[7]

Init ==
    /\ indexedTip = Start
    /\ step = "idle" /\ reorged = {} /\ coming = {}
    /\ history = HRowsOf(Chain[Start]) /\ conf = CRowsOf(Chain[Start])
    /\ cache = {}
    /\ query = "idle" /\ row = {} /\ stats = {} /\ last = {} /\ scan = {} /\ torn = FALSE

-----------------------------------------------------------------------------
(* Indexer::update.                                                        *)

Lowest(S) == {b \in S : \A c \in S : Height[b] <= Height[c]}

(* A rollback of the blocks in R overtakes the query: it takes away the    *)
(* block of the cached row after height_by_hash found it, or the block     *)
(* whose rows are just being counted.                                      *)
Overtakes(R) ==
    \/ query = "open" /\ \E c \in row : c.block \in R
    \/ \E l \in last \cap R : scan \cap HRows(l) # {}

ApplyHeaders(b) ==
    /\ step = "idle" /\ b \notin Chain[indexedTip]
    /\ indexedTip' = b
    /\ reorged' = Chain[indexedTip] \ Chain[b]
    /\ coming' = Chain[b] \ Chain[indexedTip]
    /\ step' = IF reorged' = {} THEN "add" ELSE "history"
    /\ torn' = (torn \/ Overtakes(reorged'))
    /\ UNCHANGED <<history, conf, cache, reader>>

NothingToDelete(S) == {}
ToDelete(S) == history \cap HRowsOf(S)

DeleteHistoryRow ==
    /\ step = "history"
    /\ \E r \in ToDelete(reorged) : history' = history \ {r}
    /\ UNCHANGED <<indexedTip, step, reorged, coming, conf, cache, reader, torn>>

HistoryDeleted ==
    /\ step = "history" /\ ToDelete(reorged) = {}
    /\ step' = "conf"
    /\ UNCHANGED <<indexedTip, reorged, coming, history, conf, cache, reader, torn>>

(* The second pass over the same blocks deletes their confirmations; the   *)
(* rows of all of them go before the caches are cancelled.                 *)
DeleteConf ==
    /\ step = "conf"
    /\ conf' = conf \ CRowsOf(reorged)
    /\ step' = "cancel"
    /\ UNCHANGED <<indexedTip, reorged, coming, history, cache, reader, torn>>

Cancelled == IF \E b \in reorged : Script \in ScriptsTouched(b) THEN {} ELSE cache

CancelCache ==
    /\ step = "cancel"
    /\ cache' = Cancelled
    /\ step' = "add"
    /\ UNCHANGED <<indexedTip, reorged, coming, history, conf, reader, torn>>

(* The third way to overtake a query: the new blocks are confirmed while   *)
(* its iterator still has rows of those that were rolled back, which may   *)
(* then pass for rows of the new ones.                                     *)
AddBlocks ==
    /\ step = "add"
    /\ conf' = conf \cup CRowsOf(coming)
    /\ step' = "index"
    /\ torn' = (torn \/ scan \cap HRowsOf(reorged) # {})
    /\ UNCHANGED <<indexedTip, reorged, coming, history, cache, reader>>

IndexBlock ==
    /\ step = "index" /\ coming # {}
    /\ \E b \in Lowest(coming) :
         /\ history' = history \cup HRows(b)
         /\ coming' = coming \ {b}
    /\ UNCHANGED <<indexedTip, step, reorged, conf, cache, reader, torn>>

Finish ==
    /\ step = "index" /\ coming = {}
    /\ step' = "idle" /\ reorged' = {}
    /\ UNCHANGED <<indexedTip, coming, history, conf, cache, reader, torn>>

-----------------------------------------------------------------------------
(* ChainQuery::stats.                                                      *)

Count(S, kind) == Cardinality({r \in S : r[5] = kind})

(* is_sane, without the sums.                                              *)
Sane(S) ==
    /\ Count(S, "S") <= Count(S, "F")
    /\ Cardinality({TxOf(r) : r \in S}) <= Count(S, "S") + Count(S, "F")

(* The cached row, if it is sane.                                          *)
GetCache ==
    /\ query = "idle"
    /\ row' = {c \in cache : Sane(c.rows)}
    /\ query' = "height" /\ torn' = FALSE
    /\ UNCHANGED <<indexer, cache, stats, last, scan>>

AnyBlock(rows) == rows

(* height_by_hash: its block must be in the header list.                   *)
OnBestChain(rows) == {c \in rows : c.block \in Chain[indexedTip]}

CheckHeight ==
    /\ query = "height"
    /\ row' = OnBestChain(row)
    /\ query' = "open"
    /\ UNCHANGED <<indexer, cache, stats, last, scan, torn>>

(* history_iter_scan over the rows above it.  The iterator keeps the rows  *)
(* there are when it is opened.                                            *)
OpenScan ==
    /\ query = "open"
    /\ stats' = UNION {c.rows : c \in row}
    /\ scan' = {r \in history : \A c \in row : HeightOf(r) > Height[c.block]}
    /\ row' = {}
    /\ query' = "scan"
    /\ torn' = (torn \/ \E c \in row : c.torn)
    /\ UNCHANGED <<indexer, cache, last>>

(* tx_confirming_block, at the moment the row is looked at.                *)
ConfirmingBlock(t) == {b \in Chain[indexedTip] : <<"C", t, b>> \in conf}

First(S) ==
    {r \in S : \A q \in S : \/ HeightOf(r) < HeightOf(q)
                            \/ HeightOf(r) = HeightOf(q) /\ PositionOf(r) <= PositionOf(q)}

AtItsHeight(r) == {b \in ConfirmingBlock(TxOf(r)) : Height[b] = HeightOf(r)}

ScanRow ==
    /\ query = "scan"
    /\ \E r \in First(scan) :
         /\ scan' = scan \ {r}
         /\ IF AtItsHeight(r) = {}
              THEN UNCHANGED <<stats, last>>
              ELSE stats' = stats \cup {r} /\ last' = AtItsHeight(r)
    /\ UNCHANGED <<indexer, cache, query, row, torn>>

Save ==
    /\ query = "scan" /\ scan = {}
    /\ cache' = IF last # {} /\ Cardinality(stats) > MinItems
                  THEN {[rows |-> stats, block |-> b, torn |-> torn] : b \in last} ELSE cache
    /\ query' = "idle" /\ stats' = {} /\ last' = {}
    /\ UNCHANGED <<indexer, scan, row, torn>>

UpdateIndex ==
    \/ \E b \in Moves : ApplyHeaders(b)
    \/ DeleteHistoryRow
    \/ HistoryDeleted
    \/ DeleteConf
    \/ CancelCache
    \/ AddBlocks
    \/ IndexBlock
    \/ Finish

Query == GetCache \/ CheckHeight \/ OpenScan \/ ScanRow \/ Save

Next == UpdateIndex \/ Query

Spec == Init /\ [][Next]_vars

-----------------------------------------------------------------------------
AllRows == HRowsOf(Blocks)

(* Every variable has its type, and at rest the rows are those of the      *)
(* best chain.                                                             *)
TypeOK ==
    /\ indexedTip \in Blocks
    /\ step \in {"idle", "history", "conf", "cancel", "add", "index"}
    /\ reorged \subseteq Blocks /\ coming \subseteq Blocks
    /\ history \subseteq AllRows /\ conf \subseteq CRowsOf(Blocks)
    /\ Cardinality(cache) <= 1
    /\ \A c \in cache \cup row : c.rows \subseteq AllRows /\ c.block \in Blocks /\ c.torn \in BOOLEAN
    /\ query \in {"idle", "height", "open", "scan"}
    /\ torn \in BOOLEAN
    /\ stats \subseteq AllRows /\ last \subseteq Blocks /\ scan \subseteq AllRows
    /\ step = "idle" => history = HRowsOf(Chain[indexedTip]) /\ conf = CRowsOf(Chain[indexedTip])

(* A cached answer counts exactly the rows of the branch that ends in the  *)
(* block it is for, whatever updates, rollbacks and returning branches it  *)
(* was computed across, unless a rollback overtook the query that saved it *)
(* or one it built on.                                                     *)
CacheHonest == \A c \in cache : ~c.torn => c.rows = HRowsOf(Chain[c.block])

(* Cached statistics are the recomputed ones, unless overtaken.            *)
CacheSound == TypeOK /\ CacheHonest

(* A cached answer that stats would start from is exact however it was     *)
(* computed.  This does not hold (README.md, "Statements that fail").      *)
CacheAlwaysHonest ==
    step = "idle" =>
        \A c \in cache : Sane(c.rows) /\ c.block \in Chain[indexedTip] =>
            c.rows = HRowsOf(Chain[c.block])
=============================================================================
