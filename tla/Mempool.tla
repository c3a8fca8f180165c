------------------------------ MODULE Mempool ------------------------------
(***************************************************************************)
(* The in-memory mempool: Mempool::update, run by the main loop, and       *)
(* Mempool::add_by_txid, run by every thread that broadcasts for a client. *)
(*                                                                         *)
(* update holds the lock only while it changes the mempool: between taking *)
(* its snapshot of the txids, listing and downloading bitcoind's pool and  *)
(* adding what it downloaded, both bitcoind and the broadcasters move on.  *)
(* One action stands for each stretch of code under one lock, or for one   *)
(* RPC.  A transaction is an opaque value; its history entries are always  *)
(* pushed and dropped together, so `history` counts how many times.        *)
(***************************************************************************)
EXTENDS SequencesExt

CONSTANTS
    Txs,           \* transactions, confirmed coins included
    NoTx,          \* the absence of a transaction
    Coins,         \* transactions confirmed and indexed from the start
    Prevouts,      \* [Txs -> SUBSET outpoints]
    Ancestors,     \* [Txs -> SUBSET Txs]
    Fee,           \* [Txs -> Nat]: what bitcoind compares for a replacement
    Configs,       \* how the server and bitcoind may be started
    MaxFaults      \* bound on evictions, disconnected blocks and failed RPCs

Parents(tx) == {o[1] : o \in Prevouts[tx]}
Spent == UNION {Prevouts[tx] : tx \in Txs}

(* No two transactions of a set spend one outpoint.                        *)
Compatible(S) == \A x, y \in S : x # y => Prevouts[x] \cap Prevouts[y] = {}

(* --mempool-recent-txs-size; does bitcoind serve confirmed transactions   *)
(* (-txindex); do clients broadcast through this server?                   *)
ASSUME ConfigAssumption ==
    Configs \subseteq [recentSize : Nat, txIndex : BOOLEAN, mayBroadcast : BOOLEAN]

ASSUME MempoolAssumption ==
    /\ NoTx \notin Txs
    /\ Coins \subseteq Txs /\ Compatible(Coins)
    /\ IsFiniteSet(Txs)
    /\ Prevouts \in [Txs -> SUBSET (Txs \X Nat)]
    /\ Ancestors \in [Txs -> SUBSET Txs]
    /\ \A tx \in Txs : Ancestors[tx] = Parents(tx) \cup UNION {Ancestors[p] : p \in Parents(tx)}
    /\ Fee \in [Txs -> Nat]
    /\ MaxFaults \in Nat

VARIABLES
    config,
    pool,       \* bitcoind's mempool
    mined,      \* transactions of its best chain
    faults,
    indexed,    \* transactions whose outputs the chain index holds
    txstore, feeinfo,
    history,    \* [Txs -> Nat]
    edges,      \* [Spent -> Txs \cup {NoTx}]: who spends an outpoint
    recent,     \* newest first
    backlog,    \* what backlog_stats was computed from
    expired,    \* has the ttl of backlog_stats passed?
    pc,         \* where the main loop is
    serving,    \* has the first update finished, so that clients are served?
    old,        \* update's snapshot of txstore
    gone, want, \* txids_to_remove, and txids_to_add until they are downloaded
    pending     \* broadcast transactions that are still to be added

daemon == <<pool, mined, faults>>
mempool == <<txstore, feeinfo, history, edges, recent>>
local == <<old, gone, want>>
vars == <<config, daemon, indexed, mempool, backlog, expired, pc, serving, local, pending>>

TypeOK ==
    /\ config \in Configs
    /\ pool \subseteq Txs /\ mined \subseteq Txs /\ faults \in 0..MaxFaults
    /\ indexed \subseteq Txs
    /\ txstore \subseteq Txs /\ feeinfo \subseteq Txs
    /\ history \in [Txs -> Nat]
    /\ edges \in [Spent -> Txs \cup {NoTx}]
    /\ recent \in Seq(Txs) /\ Len(recent) <= config.recentSize
    /\ backlog \subseteq Txs /\ expired \in BOOLEAN
    /\ pc \in {"start", "snapshot", "txids", "remove", "fetch", "add", "panic"}
    /\ serving \in BOOLEAN
    /\ old \subseteq Txs /\ gone \subseteq Txs /\ want \subseteq Txs
    /\ pending \subseteq Txs

Init ==
    /\ config \in Configs
    /\ pool = {} /\ mined = Coins /\ faults = 0
    /\ indexed = Coins
    /\ txstore = {} /\ feeinfo = {}
    /\ history = [tx \in Txs |-> 0]
    /\ edges = [o \in Spent |-> NoTx]
    /\ recent = <<>>
    /\ backlog = {} /\ expired = TRUE
    /\ pc = "snapshot" /\ serving = FALSE
    /\ old = {} /\ gone = {} /\ want = {}
    /\ pending = {}

-----------------------------------------------------------------------------
(* External: what bitcoind does to its pool.                               *)

Conflicts(tx) == {u \in Txs \ {tx} : Prevouts[u] \cap Prevouts[tx] # {}}
WithDescendants(S) == {u \in Txs : u \in S \/ Ancestors[u] \cap S # {}}
Replaced(tx) == pool \cap WithDescendants(Conflicts(tx))

MayEnter(tx) ==
    /\ tx \notin pool \cup mined
    /\ Parents(tx) \subseteq (pool \ Replaced(tx)) \cup mined
    /\ Conflicts(tx) \cap mined = {}
    /\ \A u \in Conflicts(tx) \cap pool : Fee[tx] > Fee[u]

Enter(tx) == pool' = (pool \ Replaced(tx)) \cup {tx}

Accept ==
    /\ \E tx \in Txs : MayEnter(tx) /\ Enter(tx)
    /\ UNCHANGED <<config, mined, faults, indexed, mempool, backlog, expired, pc, serving, local, pending>>

Mine ==
    /\ \E S \in SUBSET pool \ {{}} :
          /\ \A tx \in S : Ancestors[tx] \cap pool \subseteq S
          /\ mined' = mined \cup S
          /\ pool' = pool \ S
    /\ UNCHANGED <<config, faults, indexed, mempool, backlog, expired, pc, serving, local, pending>>

(* Expiry, the size limit of the pool, a restart of bitcoind.              *)
Evict ==
    /\ faults < MaxFaults
    /\ faults' = faults + 1
    /\ \E tx \in pool : pool' = pool \ WithDescendants({tx})
    /\ UNCHANGED <<config, mined, indexed, mempool, backlog, expired, pc, serving, local, pending>>

(* A reorganisation puts the transactions of a block back in the pool.     *)
Disconnect ==
    /\ faults < MaxFaults
    /\ faults' = faults + 1
    /\ \E S \in SUBSET (mined \ Coins) \ {{}} :
          /\ WithDescendants(S) \cap mined \subseteq S
          /\ mined' = mined \ S
          /\ pool' = pool \cup S
    /\ UNCHANGED <<config, indexed, mempool, backlog, expired, pc, serving, local, pending>>

-----------------------------------------------------------------------------
(* Mempool::add.  A transaction that is already stored is left alone; one  *)
(* with an output of a parent neither indexed nor stored is stored and     *)
(* nothing else.  The order within a batch is that of a hash set.          *)

AddAlways(S) == S   \* mutant: what is already stored is indexed again
Fresh(S) == S \ txstore

(* lookup_txos: the chain index first, then the mempool as phase 1 left it.*)
HasPrevouts(tx, S) == Parents(tx) \subseteq indexed \cup txstore \cup S

Processed(S) == {tx \in Fresh(S) : HasPrevouts(tx, S)}

push_front_capped(s) ==
    LET all == s \o recent
    IN  SubSeq(all, 1, IF Len(all) < config.recentSize THEN Len(all) ELSE config.recentSize)

Add(S) ==
    /\ txstore' = txstore \cup S
    /\ feeinfo' = feeinfo \cup Processed(S)
    /\ \E s \in SetToSeqs(Processed(S)) : recent' = push_front_capped(s)
    /\ history' = [tx \in Txs |-> IF tx \in Processed(S) THEN history[tx] + 1 ELSE history[tx]]
    /\ edges' = [o \in Spent |-> IF \E tx \in Processed(S) : o \in Prevouts[tx]
                                   THEN CHOOSE tx \in Processed(S) : o \in Prevouts[tx]
                                   ELSE edges[o]]

-----------------------------------------------------------------------------
(* The main loop.  The chain is indexed before the mempool is updated.     *)
IndexChain ==
    /\ pc = "start"
    /\ indexed' = mined
    /\ pc' = "snapshot"
    /\ UNCHANGED <<config, daemon, mempool, backlog, expired, serving, local, pending>>

Snapshot ==
    /\ pc = "snapshot"
    /\ old' = txstore
    /\ pc' = "txids"
    /\ UNCHANGED <<config, daemon, indexed, mempool, backlog, expired, serving, gone, want, pending>>

ToRemoveLive(all) == txstore \ all   \* mutant: the mempool as it is now
ToRemoveSwapped(all) == all \ old    \* mutant: the difference the wrong way round
ToRemove(all) == old \ all

GetTxids ==
    /\ pc = "txids"
    /\ gone' = ToRemove(pool)
    /\ want' = pool \ old
    /\ pc' = "remove"
    /\ UNCHANGED <<config, daemon, indexed, mempool, backlog, expired, serving, old, pending>>

(* An update that fails is logged and the loop goes on; the first one is   *)
(* tried again.                                                            *)
AfterError == IF serving THEN "start" ELSE "snapshot"

Abandon ==
    /\ pc' = AfterError
    /\ old' = {} /\ gone' = {} /\ want' = {}

RpcError ==
    /\ pc \in {"txids", "fetch"}
    /\ faults < MaxFaults
    /\ faults' = faults + 1
    /\ Abandon
    /\ UNCHANGED <<config, pool, mined, indexed, mempool, backlog, expired, serving, pending>>

KeepEdges(S) == edges   \* mutant: the spends of a removed transaction stay
DropFunded(S) ==        \* mutant: tests the funding transaction of the outpoint
    [o \in Spent |-> IF o[1] \in S THEN NoTx ELSE edges[o]]
EdgesWithout(S) == [o \in Spent |-> IF edges[o] \in S THEN NoTx ELSE edges[o]]

(* Mempool::remove panics on a txid that is not stored.                    *)
RemoveGone ==
    /\ pc = "remove"
    /\ IF gone \subseteq txstore
         THEN /\ txstore' = txstore \ gone
              /\ feeinfo' = feeinfo \ gone
              /\ history' = [tx \in Txs |-> IF tx \in gone THEN 0 ELSE history[tx]]
              /\ edges' = EdgesWithout(gone)
              /\ pc' = "fetch"
         ELSE /\ pc' = "panic"
              /\ UNCHANGED <<txstore, feeinfo, history, edges>>
    /\ gone' = {}
    /\ UNCHANGED <<config, daemon, indexed, recent, backlog, expired, serving, old, want, pending>>

(* gettransactions: transactions that bitcoind no longer serves are left   *)
(* out, unless they are more than a quarter of the batch (rounded half up).*)
Served == pool \cup (IF config.txIndex THEN mined ELSE {})
Threshold(n) == (n + 2) \div 4

Fetch ==
    /\ pc = "fetch"
    /\ IF Cardinality(want \ Served) > Threshold(Cardinality(want))
         THEN Abandon
         ELSE /\ want' = want \cap Served
              /\ pc' = "add"
              /\ UNCHANGED <<old, gone>>
    /\ UNCHANGED <<config, daemon, indexed, mempool, backlog, expired, serving, pending>>

StatsKept == backlog   \* mutant: the statistics are never refreshed
StatsAfter == IF expired THEN feeinfo' ELSE backlog

AddFetched ==
    /\ pc = "add"
    /\ Add(want)
    /\ backlog' = StatsAfter
    /\ expired' = FALSE
    /\ pc' = "start"
    /\ serving' = TRUE
    /\ old' = {} /\ gone' = {} /\ want' = {}
    /\ UNCHANGED <<config, daemon, indexed, pending>>

(* Time passes: the ttl of the statistics.                                 *)
Expire ==
    /\ ~expired
    /\ expired' = TRUE
    /\ UNCHANGED <<config, daemon, indexed, mempool, backlog, pc, serving, local, pending>>

-----------------------------------------------------------------------------
(* Query::broadcast_raw: bitcoind accepts the transaction, or has it       *)
(* already; only then the write lock is taken.                             *)
Broadcast ==
    /\ config.mayBroadcast /\ serving
    /\ \E tx \in Txs \ pending :
          /\ \/ MayEnter(tx) /\ Enter(tx)
             \/ tx \in pool /\ UNCHANGED pool
          /\ pending' = pending \cup {tx}
    /\ UNCHANGED <<config, mined, faults, indexed, mempool, backlog, expired, pc, serving, local>>

(* add_by_txid, with its RPC, under the write lock.                        *)
AddByTxid ==
    /\ \E tx \in pending :
          /\ pending' = pending \ {tx}
          /\ IF tx \notin txstore /\ tx \in Served
               THEN Add({tx})
               ELSE UNCHANGED mempool
    /\ UNCHANGED <<config, daemon, indexed, backlog, expired, pc, serving, local>>

-----------------------------------------------------------------------------
UpdateStep == IndexChain \/ Snapshot \/ GetTxids \/ RemoveGone \/ Fetch \/ AddFetched

Next == \/ Accept \/ Mine \/ Evict \/ Disconnect
        \/ UpdateStep \/ RpcError \/ Expire
        \/ Broadcast \/ AddByTxid

Spec == Init /\ [][Next]_vars

(* The main loop runs, time passes, and a broadcaster gets the lock.       *)
Fairness == WF_vars(UpdateStep) /\ WF_vars(Expire) /\ WF_vars(AddByTxid)
LiveSpec == Spec /\ Fairness

-----------------------------------------------------------------------------
(* Whatever update and the broadcasters do in turn, each transaction has   *)
(* its history entries pushed once, exactly when it has a TxFeeInfo, and   *)
(* only stored transactions have either.                                   *)
HistoryOnce ==
    /\ feeinfo \subseteq txstore
    /\ \A tx \in Txs : history[tx] = IF tx \in feeinfo THEN 1 ELSE 0

(* A spend edge names an indexed transaction that spends the outpoint:     *)
(* lookup_spend never answers with a transaction that has left.            *)
EdgesLive ==
    \A o \in Spent : edges[o] # NoTx => edges[o] \in feeinfo /\ o \in Prevouts[edges[o]]

(* remove is never asked for a transaction that is not stored, although    *)
(* its list is computed from a snapshot taken two lock sections earlier.   *)
NoPanic == pc # "panic"

(* A transaction that a broadcaster adds after update took its snapshot is *)
(* not removed by that update, even if bitcoind's list was read before it. *)
NewcomersStay == [][txstore \ txstore' \subseteq old]_vars

(* update alone, without broadcasters, records every input of an indexed   *)
(* transaction as spent by it.                                             *)
SpendsRecorded == \A tx \in feeinfo : \A o \in Prevouts[tx] : edges[o] = tx
PollingSpendsRecorded == ~config.mayBroadcast => SpendsRecorded

(* Once bitcoind settles, the mempool holds exactly its pool, and the      *)
(* backlog statistics are those of the indexed transactions.               *)
Settles == <>[](txstore = pool /\ backlog = feeinfo)

(* "Update local mempool to match daemon's state": once bitcoind settles,  *)
(* every transaction of its pool is indexed, not merely stored.            *)
SettlesIndexed == <>[](feeinfo = pool)

(* The same of the spend edges.                                            *)
SettlesSpends == <>[](\A tx \in feeinfo : \A o \in Prevouts[tx] : edges[o] = tx)
=============================================================================
