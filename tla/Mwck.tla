-------------------------------- MODULE Mwck --------------------------------
(***************************************************************************)
(* What a websocket client of the MWCK hub is told: the snapshot it gets   *)
(* when it subscribes, and the events the main loop sends after indexing   *)
(* new blocks (notify_new_tip) and after updating the mempool              *)
(* (notify_mempool).                                                       *)
(*                                                                         *)
(* The client tracks a script of every transaction.  `last` is the last    *)
(* thing it was told of each one: that it is in the mempool, confirmed or  *)
(* removed.  Channel and socket are FIFO, so what was sent is what the     *)
(* client gets.  Indexer::update and Mempool::update are one step each:    *)
(* the indexed chain moves to some block, the mempool becomes some set of  *)
(* unconfirmed transactions.                                               *)
(***************************************************************************)
EXTENDS BlockTree

CONSTANTS
    Start,          \* the indexed tip when the hub is created
    Moves,          \* the tips bitcoind may present
    Window,         \* 16: heights kept in recent_confirmed below the tip
    MempoolTxs,     \* transactions bitcoind may have in its mempool
    MayBroadcast,   \* do clients broadcast through this server?
    MaxFails,       \* bound on failures of Mempool::update
    MayOverlap      \* may a client subscribe while an event goes out?

ASSUME MwckAssumption ==
    /\ Start \in Blocks /\ Moves \subseteq Blocks
    /\ Window \in Nat
    /\ MempoolTxs \subseteq Txs
    /\ MayBroadcast \in BOOLEAN /\ MaxFails \in Nat /\ MayOverlap \in BOOLEAN

VARIABLES
    tip,          \* last block of the indexed chain
    mempool,      \* txids of the mempool
    pc,           \* where the main loop is
    prevHeight, prevTxids,   \* read at the top of the loop
    recent,       \* recent_confirmed: one block per height
    confirmed,    \* blocks notify_new_tip is about to emit
    bodies,       \* mempool_tx_bodies: transactions whose JSON is kept
    fails,
    client,       \* "off", "reply" (snapshot taken, not registered), "on"
    last          \* [Txs -> Said]

loop == <<pc, prevHeight, prevTxids>>
hub == <<recent, confirmed, bodies>>
vars == <<tip, mempool, loop, hub, fails, client, last>>

Said == {"nothing", "mempool", "confirmed", "removed"}
ConfirmedTxs(b) == UNION {TxsOf(c) : c \in Chain[b]}

Init ==
    /\ tip = Start
    /\ mempool = {}
    /\ pc = "wait"
    /\ prevHeight = 0 /\ prevTxids = {}
    /\ recent = {} /\ confirmed = {} /\ bodies = {}
    /\ fails = 0
    /\ client = "off"
    /\ last = [t \in Txs |-> "nothing"]

(* A registered client hears of the transactions of S.                     *)
Tell(S, what) ==
    last' = IF client = "on" THEN [t \in Txs |-> IF t \in S THEN what ELSE last[t]]
                             ELSE last

-----------------------------------------------------------------------------
(* The main loop.                                                          *)

TopOfLoop ==
    /\ pc = "wait"
    /\ MayOverlap \/ client # "reply"
    /\ prevHeight' = Height[tip] /\ prevTxids' = mempool
    /\ pc' = "poll"
    /\ UNCHANGED <<tip, mempool, hub, client, last, fails>>

IndexBlocks(b) ==
    /\ pc = "poll" /\ b # tip
    /\ tip' = b
    /\ pc' = "orphans"
    /\ UNCHANGED <<mempool, prevHeight, prevTxids, hub, client, last, fails>>

NoNewBlock ==
    /\ pc = "poll"
    /\ pc' = "mempool"
    /\ UNCHANGED <<tip, mempool, prevHeight, prevTxids, hub, client, last, fails>>

(* block_at: the block of the indexed chain at height h, if there is one.  *)
BlockAt(h) == {b \in Chain[tip] : Height[b] = h}

StaleNever == {}
ForwardOnly == {b \in Chain[tip] : Height[b] > prevHeight} \ recent

(* notify_new_tip: remembered blocks that are not on the chain any more,   *)
(* the blocks that replace them, and the blocks above the old height.      *)
Stale == recent \ Chain[tip]
Replacements == UNION {BlockAt(Height[b]) : b \in Stale}
Forward == {b \in Chain[tip] : Height[b] > prevHeight} \ (recent \cup Replacements)
EmitBlocks == Replacements \cup Forward

(* enrich_removed and on_mempool: a removed transaction reaches the client *)
(* only if the hub still has its body, or the query does.                  *)
Matched(S) == {t \in S : t \in bodies \/ t \in ConfirmedTxs(tip) \/ t \in mempool}

NotifyOrphans ==
    /\ pc = "orphans"
    /\ LET orphaned == UNION {TxsOf(b) : b \in Stale} IN
         /\ Tell(orphaned, "removed")
         /\ bodies' = bodies \ orphaned
    /\ confirmed' = EmitBlocks
    /\ recent' = recent \ Stale
    /\ pc' = "blocks"
    /\ UNCHANGED <<tip, mempool, prevHeight, prevTxids, client, fails>>

KeptAbove(R) == {b \in R : Height[b] > Height[tip] - Window}
Kept(R) == {b \in R : Height[b] >= Height[tip] - Window}

NotifyBlocks ==
    /\ pc = "blocks"
    /\ Tell(UNION {TxsOf(b) : b \in confirmed}, "confirmed")
    /\ recent' = Kept(recent \cup confirmed)
    /\ confirmed' = {}
    /\ pc' = "mempool"
    /\ UNCHANGED <<tip, mempool, prevHeight, prevTxids, bodies, client, fails>>

Unconfirmed == MempoolTxs \ ConfirmedTxs(tip)

UpdateMempool(S) ==
    /\ pc = "mempool"
    /\ mempool' = S
    /\ pc' = "diff"
    /\ UNCHANGED <<tip, prevHeight, prevTxids, hub, client, last, fails>>

(* The removals of update are applied, then a download fails.              *)
UpdateFails(S) ==
    /\ pc = "mempool" /\ fails < MaxFails
    /\ fails' = fails + 1
    /\ mempool' = S
    /\ pc' = "wait"
    /\ UNCHANGED <<tip, prevHeight, prevTxids, hub, client, last>>

RemovedSwapped == mempool \ prevTxids
Removed == prevTxids \ mempool
Added == mempool \ prevTxids

(* now_txids against prev_txids.  Added bodies are remembered first, then  *)
(* the removed ones are used and dropped.                                  *)
NotifyMempool ==
    /\ pc = "diff"
    /\ LET said == Matched(Removed) IN
         last' = IF client = "on"
                   THEN [t \in Txs |-> IF t \in Added THEN "mempool"
                                       ELSE IF t \in said THEN "removed" ELSE last[t]]
                   ELSE last
    /\ bodies' = (bodies \cup Added) \ Removed
    /\ pc' = "wait"
    /\ UNCHANGED <<tip, mempool, prevHeight, prevTxids, recent, confirmed, client, fails>>

-----------------------------------------------------------------------------
(* Other threads: add_by_txid after a broadcast, and the socket loop.      *)

Broadcast(t) ==
    /\ MayBroadcast /\ t \in Unconfirmed \ mempool
    /\ mempool' = mempool \cup {t}
    /\ UNCHANGED <<tip, loop, hub, client, last, fails>>

(* handle_socket: the snapshot is read from the query.                     *)
Subscribe ==
    /\ client = "off"
    /\ MayOverlap \/ pc = "wait"
    /\ last' = [t \in Txs |-> IF t \in ConfirmedTxs(tip) THEN "confirmed"
                              ELSE IF t \in mempool THEN "mempool" ELSE "nothing"]
    /\ bodies' = bodies \cup mempool
    /\ client' = "reply"
    /\ UNCHANGED <<tip, mempool, loop, recent, confirmed, fails>>

(* set_client_state: from here on the hub sends events.                    *)
Register ==
    /\ client = "reply"
    /\ client' = "on"
    /\ UNCHANGED <<tip, mempool, loop, hub, last, fails>>

(* detach_client, or an empty track list.                                  *)
Detach ==
    /\ client = "on"
    /\ client' = "off"
    /\ last' = [t \in Txs |-> "nothing"]
    /\ UNCHANGED <<tip, mempool, loop, hub, fails>>

LoopStep ==
    \/ TopOfLoop
    \/ \E b \in Moves : IndexBlocks(b)
    \/ NoNewBlock
    \/ NotifyOrphans
    \/ NotifyBlocks
    \/ \E S \in SUBSET Unconfirmed : UpdateMempool(S)
    \/ \E S \in SUBSET mempool : UpdateFails(S)
    \/ NotifyMempool

Next ==
    \/ LoopStep
    \/ \E t \in MempoolTxs : Broadcast(t)
    \/ Subscribe
    \/ Register
    \/ Detach

(* The main loop runs for ever, and a socket loop that took a snapshot     *)
(* goes on to register it.                                                 *)
Spec == Init /\ [][Next]_vars /\ WF_vars(LoopStep) /\ WF_vars(Register)

-----------------------------------------------------------------------------
(* Every variable has its type, and recent_confirmed has one block for a   *)
(* height.                                                                 *)
TypeOK ==
    /\ tip \in Blocks
    /\ mempool \subseteq Txs /\ prevTxids \subseteq Txs /\ bodies \subseteq Txs
    /\ pc \in {"wait", "poll", "orphans", "blocks", "mempool", "diff"}
    /\ prevHeight \in Nat
    /\ recent \subseteq Blocks /\ confirmed \subseteq Blocks
    /\ \A a, b \in recent \cup confirmed : Height[a] = Height[b] => a = b
    /\ fails \in 0..MaxFails
    /\ client \in {"off", "reply", "on"}
    /\ last \in [Txs -> Said]

Listening == client = "on" /\ pc = "wait"

(* Between two loops no client believes a transaction confirmed that a     *)
(* reorganisation took out of the chain: orphaned blocks were retracted.   *)
ConfirmedSound ==
    Listening => \A t \in Txs : last[t] = "confirmed" => t \in ConfirmedTxs(tip)

(* ... or, as long as no Mempool::update failed, believes a transaction in *)
(* the mempool that has left it, although broadcasters add transactions    *)
(* between the two reads of the mempool that are compared.                 *)
MempoolSound ==
    Listening /\ fails = 0 => \A t \in Txs : last[t] = "mempool" => t \in mempool

(* What the hub told last of a confirmed transaction that was never in the *)
(* mempool is that it is confirmed: on a reorganisation, transactions of   *)
(* both branches are retracted first and confirmed last.                   *)
BlocksTold ==
    Listening => \A t \in ConfirmedTxs(tip) \ MempoolTxs : last[t] = "confirmed"

(* The same of every confirmed transaction.                                *)
ConfirmedComplete ==
    Listening => \A t \in ConfirmedTxs(tip) : last[t] = "confirmed"

(* A transaction that stays in the mempool while a client listens is       *)
(* announced to the client, in the next loop or a later one.               *)
ArrivalsTold ==
    \A t \in MempoolTxs :
        client = "on" /\ t \in mempool ~> client # "on" \/ t \notin mempool \/ last[t] = "mempool"

(* A transaction that was announced and dropped is announced as removed.   *)
DropsTold ==
    \A t \in MempoolTxs :
        client = "on" /\ last[t] = "mempool" /\ t \notin mempool
            ~> client # "on" \/ t \in mempool \/ last[t] # "mempool"
=============================================================================
