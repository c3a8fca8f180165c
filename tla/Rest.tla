-------------------------------- MODULE Rest --------------------------------
(***************************************************************************)
(* The REST handlers of rest.rs over Query, ChainQuery and Mempool: what a *)
(* request reads, in which order, and what it answers, while the main loop *)
(* indexes blocks and refreshes the mempool.  No lock spans two reads of a *)
(* handler, so every read is a step of its own.                            *)
(*                                                                         *)
(* The writer is reduced to what a reader can see.  Indexer::update puts   *)
(* the new headers in place first, then deletes the history rows of the    *)
(* blocks it rolls back, then their txstore rows, then the cache rows of   *)
(* the scripts in them, then writes the txstore and the history rows of    *)
(* the new blocks; Mempool::update then drops the transactions bitcoind no *)
(* longer has and adds the others.                                         *)
(*                                                                         *)
(* One client sends one request at a time.  The Cache-Control lifetime of  *)
(* an answer is `long` (TTL_LONG, "static resources") or `short`.          *)
(***************************************************************************)
EXTENDS BlockTree, SequencesExt

CONSTANTS
    Start,      \* the indexed tip at the start
    Moves,      \* the tips bitcoind may present
    Known,      \* transactions the network knows
    Script,     \* the script the client asks about
    ConfFinal,  \* CONF_FINAL
    MaxTxs,     \* max_txs of a client that reads page by page
    MaxWhole,   \* max_txs of a client that wants the history in one page
    UtxosLimit, \* utxos_limit
    TxsPerUtxo, \* the 500 history rows allowed per unspent output
    MinItems,   \* MIN_HISTORY_ITEMS_TO_CACHE
    Ops,        \* the endpoints the client uses
    AskHeights, AskBlocks, AskTxs, AskOuts,  \* what it asks about
    MaxPaged,   \* bound: transactions collected when the client still asks for more
    MaxKept,    \* bound: answers a cache keeps
    MaxUpdates  \* bound: calls of Indexer::update

Absent == "none"

ASSUME ReaderAssumption ==
    /\ Start \in Blocks /\ Moves \subseteq Blocks
    /\ Known \subseteq Txs /\ IsFiniteSet(Known) /\ Absent \notin Txs
    /\ ConfFinal \in Nat \ {0} /\ MaxTxs \in Nat \ {0} /\ MaxWhole \in Nat
    /\ UtxosLimit \in Nat /\ TxsPerUtxo \in Nat /\ MinItems \in Nat

(* "Reorgs deeper than this are considered unlikely": CONF_FINAL blocks    *)
(* may be rolled back, and never more.  What has CONF_FINAL blocks above   *)
(* it is on every later best chain.                                        *)
ASSUME ShallowAssumption ==
    \A a, b \in Moves \cup {Start} :
        Height[a] <= Height[b] =>
            \A c \in Chain[a] : Height[a] - Height[c] >= ConfFinal => c \in Chain[b]

(* Consensus: a confirmed transaction spends outputs of transactions of    *)
(* its chain that come before it.  The outputs of the script are ones that *)
(* index_transaction indexes.                                              *)
ASSUME SpendAssumption ==
    /\ \A b \in Blocks : \A i \in DOMAIN BlockTxs[b] : \A o \in Spends[BlockTxs[b][i]] :
          \E c \in Chain[b] : \E j \in DOMAIN BlockTxs[c] : BlockTxs[c][j] = o[1] /\ (c = b => j < i)
    /\ \A o \in Outpoints : ScriptOf(o) = Script => Indexable(o)

(* bitcoind's policy: what the network knows spends what it knows, or what *)
(* every best chain has confirmed.                                         *)
ASSUME KnownAssumption ==
    \A t \in Known : \A o \in Spends[t] :
        o[1] \in Known \/ \A b \in Moves \cup {Start} : \E c \in Chain[b] : o[1] \in TxsOf(c)

VARIABLES
    best,     \* last block of indexed_headers
    step,     \* where the main loop is
    reorged,  \* blocks being rolled back
    coming,   \* blocks being written
    gone,     \* blocks that were rolled back
    stored,   \* transactions with a T row
    conf,     \* C rows: <<transaction, block>>
    metas,    \* blocks with their X and M rows
    history,  \* H rows of Script, and S rows
    ucache,   \* the U row of Script, if there is one
    pool,     \* the mempool, in the order in which it grew
    updates,  \* calls of Indexer::update so far
    place,    \* where the handler is
    req,      \* the request
    loc,      \* what the handler has read
    quiet,    \* has the header list stayed as it was since the request?
    pure,     \* no rollback met this request, nor those that made the U row it uses
    still,    \* nothing at all changed since the first page
    always,   \* transactions of Script in view ever since the request; none when its page is full
    kept,     \* answers to one request with the long lifetime, kept in a cache
    out,      \* the last answer
    pages     \* what the client has collected, page by page

backend == <<best, step, reorged, coming, gone, stored, conf, metas, history, ucache, pool, updates>>
session == <<place, req, loc, kept, out, pages>>
ghosts == <<quiet, pure, still, always>>
restVars == <<backend, session, ghosts>>

(* The elements of a finite set, each after those that `before` pairs with *)
(* it.                                                                     *)
Listed(S, before) ==
    [i \in 1..Cardinality(S) |->
        CHOOSE x \in S : Cardinality({y \in S : <<y, x>> \in before}) = i - 1]

(* The elements of a sequence that are in S, in order.                     *)
Sifted(s, S) ==
    LET chosen == {i \in DOMAIN s : s[i] \in S}
        order == Listed(chosen, {p \in chosen \X chosen : p[1] < p[2]})
    IN  [k \in DOMAIN order |-> s[order[k]]]

HeightsOf(b) == {Height[c] : c \in Chain[b]}
BestHeight == Height[best]
BlockAt(h) == CHOOSE b \in Chain[best] : Height[b] = h
Pool == {pool[i] : i \in DOMAIN pool}

TxRows(S) == UNION {TxsOf(b) : b \in S}
ConfRows(S) == UNION {{<<t, b>> : t \in TxsOf(b)} : b \in S}
HistRows(S) == {r \in IndexRowsOf(S) : r[1] = "S" \/ (r[1] = "H" /\ r[2] = Script)}
TxOf(r) == r[Len(r)]

(* tx_confirming_block: the block of the best chain a C row names.         *)
Confirming(t) == {b \in Chain[best] : <<t, b>> \in conf}

Touches(t) ==
    \/ \E o \in OutsOf(t) : ScriptOf(o) = Script
    \/ \E o \in Spends[t] : ScriptOf(o) = Script

Touching == {t \in Txs : Touches(t)}

(* lookup_txos: the transactions whose previous outputs a reader finds, in *)
(* the chain or, under the same lock, in the mempool.                      *)
WithPrevouts == {t \in Txs : \A o \in Spends[t] : o[1] \in stored \cup Pool}

(* The transactions of Script that a reader can find, in chain or mempool, *)
(* with their previous outputs.                                            *)
InView ==
    {t \in Touching \cap WithPrevouts : (t \in Pool
        \/ (t \in stored /\ Confirming(t) # {} /\ \E r \in history : r[1] = "H" /\ TxOf(r) = t))}

NoRequest == [op |-> Absent, arg |-> Absent]
NoAnswer == [ttl |-> Absent, body |-> <<>>]
Idle == [block |-> NoBlock, height |-> -1, todo |-> <<>>, got |-> <<>>, seen |-> <<>>]

RestInit ==
    /\ best = Start /\ step = "idle" /\ reorged = {} /\ coming = {} /\ gone = {}
    /\ stored = TxRows(Chain[Start]) /\ conf = ConfRows(Chain[Start])
    /\ metas = Chain[Start] /\ history = HistRows(Chain[Start]) /\ ucache = {}
    /\ pool \in SetToSeqs({t \in Known : Confirming(t) = {}})
    /\ updates = 0
    /\ place = "idle" /\ req = NoRequest /\ loc = Idle
    /\ quiet = TRUE /\ pure = TRUE /\ still = FALSE /\ always = {} /\ kept = {}
    /\ out = NoAnswer /\ pages = <<>>

-----------------------------------------------------------------------------
(* The main loop.                                                          *)

(* The order of Indexer::update and of the loop around it.                 *)
Following(s) ==
    CASE s = "idle" -> "unindex" [] s = "unindex" -> "unadd"
      [] s = "unadd" -> "cancel" [] s = "cancel" -> "add" [] s = "add" -> "index" [] s = "index" -> "drop"
      [] s = "drop" -> "fill" [] s = "fill" -> "idle"

Watched ==
    /\ still' = FALSE
    /\ always' = always \cap InView'

(* headers.apply: the longer branch replaces the shorter one at once.      *)
ApplyHeaders(b) ==
    /\ step = "idle" /\ b # best /\ updates < MaxUpdates
    /\ Chain[b] \cap gone = {} /\ Height[b] >= Height[best]
    /\ best' = b /\ updates' = updates + 1
    /\ reorged' = Chain[best] \ Chain[b] /\ coming' = Chain[b] \ Chain[best]
    /\ gone' = gone \cup (Chain[best] \ Chain[b])
    /\ step' = Following("idle")
    /\ quiet' = FALSE /\ pure' = (pure /\ Chain[best] \subseteq Chain[b])
    /\ UNCHANGED <<stored, conf, metas, history, ucache, pool, session>> /\ Watched

Unindex ==
    /\ step = "unindex" /\ step' = Following("unindex")
    /\ history' = history \ HistRows(reorged)
    /\ UNCHANGED <<best, reorged, coming, gone, stored, conf, metas, ucache, pool, updates, session, quiet, pure>>
    /\ Watched

Unadd ==
    /\ step = "unadd" /\ step' = Following("unadd")
    /\ stored' = stored \ TxRows(reorged) /\ conf' = conf \ ConfRows(reorged)
    /\ metas' = metas \ reorged
    /\ UNCHANGED <<best, reorged, coming, gone, history, ucache, pool, updates, session, quiet, pure>>
    /\ Watched

(* The cache rows of the scripts that DeleteBlocksWithHistory met.         *)
CancelCache ==
    /\ step = "cancel" /\ step' = Following("cancel")
    /\ ucache' = IF \E b \in reorged : Script \in ScriptsTouched(b) THEN {} ELSE ucache
    /\ UNCHANGED <<best, reorged, coming, gone, stored, conf, metas, history, pool, updates, session, quiet, pure>>
    /\ Watched

AddBlocks ==
    /\ step = "add" /\ step' = Following("add")
    /\ stored' = stored \cup TxRows(coming) /\ conf' = conf \cup ConfRows(coming)
    /\ metas' = metas \cup coming
    /\ UNCHANGED <<best, reorged, coming, gone, history, ucache, pool, updates, session, quiet, pure>>
    /\ Watched

IndexBlocks ==
    /\ step = "index" /\ step' = Following("index")
    /\ history' = history \cup HistRows(coming)
    /\ reorged' = {} /\ coming' = {}
    /\ UNCHANGED <<best, gone, stored, conf, metas, ucache, pool, updates, session, quiet, pure>>
    /\ Watched

(* Mempool::update: remove under one write lock, add under another.        *)
Unconfirmed == {t \in Known : \A b \in Chain[best] : t \notin TxsOf(b)}

DropGone ==
    /\ step = "drop" /\ step' = Following("drop")
    /\ pool' = Sifted(pool, Unconfirmed)
    /\ UNCHANGED <<best, reorged, coming, gone, stored, conf, metas, history, ucache, updates, session, quiet, pure>>
    /\ Watched

Everything == Unconfirmed
ToAdd == Unconfirmed \ Pool

FillPool ==
    /\ step = "fill" /\ step' = Following("fill")
    /\ \E s \in SetToSeqs(ToAdd) : pool' = pool \o s
    /\ UNCHANGED <<best, reorged, coming, gone, stored, conf, metas, history, ucache, updates, session, quiet, pure>>
    /\ Watched

MainLoop ==
    \/ \E b \in Moves : ApplyHeaders(b)
    \/ Unindex \/ Unadd \/ CancelCache \/ AddBlocks \/ IndexBlocks \/ DropGone \/ FillPool

-----------------------------------------------------------------------------
(* Requests and answers.                                                   *)

(* The first read of a request falls together with its arrival.            *)
Ask(r) ==
    /\ place = "idle" /\ r.op \in Ops
    /\ quiet' = TRUE /\ pure' = (reorged = {})
    /\ always' = IF r.op = "whole" THEN InView ELSE {}

Remembered(r) == r.op \in {"history", "whole", "utxo"}

(* The client of a history remembers the answer; a cache may keep one with *)
(* a long lifetime, or a second one to the same request.                   *)
Answer(r, ttl, body) ==
    LET answer == [op |-> r.op, arg |-> r.arg, body |-> body, quiet |-> quiet']
    IN /\ place' = "idle" /\ loc' = Idle
       /\ req' = IF Remembered(r) THEN r ELSE NoRequest
       /\ out' = IF Remembered(r) THEN [ttl |-> ttl, body |-> body] ELSE NoAnswer
       /\ \/ UNCHANGED kept
          \/ /\ ttl = "long"
             /\ \A a \in kept : a.op = answer.op /\ a.arg = answer.arg
             /\ Cardinality(kept) < MaxKept
             /\ kept' = kept \cup {answer}

Accept(r, label, l) ==
    /\ place' = label /\ loc' = l /\ req' = r
    /\ out' = NoAnswer /\ UNCHANGED kept

Reply(ttl, body) == Answer(req, ttl, body)
Continue(label, l) == Accept(req, label, l)

(* HttpError: no Cache-Control header.                                     *)
Fail(status) == Reply(Absent, status)
NotFound == Fail(404)

FreshRead == UNCHANGED <<backend, pages>> /\ still' = TRUE
Resumed == UNCHANGED <<backend, pages, ghosts>>

OneTooEarly(h) ==
    IF h = -1 THEN "short"
    ELSE IF BestHeight - h >= ConfFinal - 1 THEN "long" ELSE "short"

(* ttl_by_depth.                                                           *)
ttl_by_depth(h) ==
    IF h = -1 THEN "short"
    ELSE IF BestHeight - h >= ConfFinal THEN "long" ELSE "short"

(* Every handler that ends in ttl_by_depth takes the header lock again.    *)
Lifetime ==
    /\ place = "ttl"
    /\ Resumed
    /\ Reply(ttl_by_depth(loc.height), loc.got)

-----------------------------------------------------------------------------
(* Blocks.                                                                 *)

(* GET /block-height/:height                                               *)
ByHeight(h) ==
    LET r == [op |-> "block-height", arg |-> h]
    IN /\ Ask(r) /\ FreshRead
       /\ IF h \in HeightsOf(best)
            THEN Accept(r, "ttl", [Idle EXCEPT !.height = h, !.got = <<BlockAt(h)>>])
            ELSE Answer(r, Absent, 404)

(* GET /block/:hash/status: get_block_status holds the lock for both reads *)
Status(b) ==
    LET r == [op |-> "status", arg |-> b]
    IN /\ Ask(r) /\ FreshRead
       /\ IF b \in Chain[best]
            THEN Accept(r, "ttl", [Idle EXCEPT !.height = Height[b],
                                !.got = <<b>> \o (IF Height[b] < BestHeight
                                                    THEN <<BlockAt(Height[b] + 1)>> ELSE <<>>)])
            ELSE Accept(r, "ttl", Idle)

(* GET /block/:hash, get_block_with_meta: the header, the M row, and then  *)
(* get_mtp by height, under the header lock taken again.                   *)
Block(b) ==
    LET r == [op |-> "block", arg |-> b]
    IN /\ Ask(r) /\ FreshRead
       /\ IF b \in Chain[best]
            THEN Accept(r, "meta", [Idle EXCEPT !.block = b, !.height = Height[b]])
            ELSE Answer(r, Absent, 404)

BlockMeta ==
    /\ place = "meta" /\ Resumed
    /\ IF loc.block \in metas THEN Continue("mtp", loc) ELSE NotFound

(* get_mtp: the median over the headers that end at this height of the     *)
(* list as it is now; 0 above its end.                                     *)
Mtp(h) == IF h \in HeightsOf(best) THEN <<BlockAt(h)>> ELSE <<0>>

BlockMtp ==
    /\ place = "mtp" /\ Resumed
    /\ Reply("long", <<loc.block>> \o Mtp(loc.height))

(* GET /block/:hash/header and /raw; txids, txid and txs start with the X  *)
(* row.  A transaction of the block that has no T row ends `raw` with 404. *)
Raw(b) ==
    LET r == [op |-> "raw", arg |-> b]
    IN /\ Ask(r) /\ FreshRead
       /\ IF b \in Chain[best]
            THEN Accept(r, "rawtxids", [Idle EXCEPT !.block = b])
            ELSE Answer(r, Absent, 404)

RawTxids ==
    /\ place = "rawtxids" /\ Resumed
    /\ IF loc.block \in metas
         THEN Continue("rawtxs", [loc EXCEPT !.todo = BlockTxs[loc.block]])
         ELSE NotFound

RawTxSkipped ==
    /\ place = "rawtxs" /\ Resumed
    /\ IF loc.todo = <<>> THEN Reply("long", loc.got)
       ELSE Continue("rawtxs", [loc EXCEPT !.todo = Tail(@),
              !.got = IF Head(loc.todo) \in stored THEN Append(@, Head(loc.todo)) ELSE @])

RawTx ==
    /\ place = "rawtxs" /\ Resumed
    /\ IF loc.todo = <<>> THEN Reply("long", loc.got)
       ELSE IF Head(loc.todo) \in stored
         THEN Continue("rawtxs", [loc EXCEPT !.todo = Tail(@), !.got = Append(@, Head(loc.todo))])
         ELSE NotFound

(* GET /block/:hash/txs: X row, then blockid_by_hash, then lookup_txn for  *)
(* each transaction (T row, else mempool), then the lifetime, and last     *)
(* prepare_txs, which leaves out those whose previous outputs it does not  *)
(* find.                                                                   *)
BlockPage(b) ==
    LET r == [op |-> "txs", arg |-> b]
    IN /\ Ask(r) /\ FreshRead
       /\ IF b \in metas THEN Accept(r, "pageid", [Idle EXCEPT !.block = b, !.todo = BlockTxs[b]])
                         ELSE Answer(r, Absent, 404)

BlockPageId ==
    /\ place = "pageid" /\ Resumed
    /\ Continue("pagetxs", [loc EXCEPT !.height = IF loc.block \in Chain[best] THEN Height[loc.block] ELSE -1])

BlockPageTx ==
    /\ place = "pagetxs" /\ Resumed
    /\ IF loc.todo = <<>>
         THEN Continue("pagettl", loc)
       ELSE IF Head(loc.todo) \in stored \cup Pool
         THEN Continue("pagetxs", [loc EXCEPT !.todo = Tail(@), !.got = Append(@, Head(loc.todo))])
         ELSE Fail(400)

BlockPageTtl ==
    /\ place = "pagettl" /\ Resumed
    /\ Continue("pageprev", [loc EXCEPT !.seen = <<ttl_by_depth(loc.height)>>])

BlockPagePrev ==
    /\ place = "pageprev" /\ Resumed
    /\ Reply(loc.seen[1], <<loc.height>> \o Sifted(loc.got, WithPrevouts))

-----------------------------------------------------------------------------
(* Transactions.                                                           *)

Placed(l, t) ==
    IF Confirming(t) = {} THEN [l EXCEPT !.height = -1, !.got = <<t>>]
    ELSE LET b == CHOOSE c \in Confirming(t) : TRUE
         IN [l EXCEPT !.height = Height[b], !.got = <<t, b>>]

(* GET /tx/:txid, /hex and /raw: lookup_txn asks the chain, then the       *)
(* mempool; the block is looked up afterwards.                             *)
Tx(t) ==
    LET r == [op |-> "tx", arg |-> t]
    IN /\ Ask(r) /\ FreshRead
       /\ IF t \in stored THEN Accept(r, "txblock", Idle) ELSE Accept(r, "txpool", Idle)

TxPool ==
    /\ place = "txpool" /\ Resumed
    /\ IF req.arg \in Pool THEN Continue("txblock", loc) ELSE NotFound

TxBlock ==
    /\ place = "txblock" /\ Resumed
    /\ Continue("txttl", Placed(loc, req.arg))

(* The lifetime is taken before prepare_txs, which looks up the previous   *)
(* outputs: a transaction without them is answered with 500 and no         *)
(* lifetime.                                                               *)
TxTtl ==
    /\ place = "txttl" /\ Resumed
    /\ Continue("txprev", [loc EXCEPT !.got = <<ttl_by_depth(loc.height)>> \o @])

TxPrev ==
    /\ place = "txprev" /\ Resumed
    /\ IF \A o \in Spends[req.arg] : o[1] \in stored \cup Pool
         THEN Reply(Head(loc.got), Tail(loc.got))
         ELSE Reply(Absent, 500)

(* GET /tx/:txid/status, and the merkle proofs, which answer 404 for a     *)
(* transaction that is not confirmed.                                      *)
TxStatus(t) ==
    LET r == [op |-> "txstatus", arg |-> t]
    IN /\ Ask(r) /\ FreshRead
       /\ Accept(r, "ttl", Placed(Idle, t))

Proof(t) ==
    LET r == [op |-> "proof", arg |-> t]
    IN /\ Ask(r) /\ FreshRead
       /\ IF Confirming(t) = {} THEN Answer(r, Absent, 404)
          ELSE Accept(r, "proof", [Placed(Idle, t) EXCEPT !.block = CHOOSE b \in Confirming(t) : TRUE])

ProofTxids ==
    /\ place = "proof" /\ Resumed
    /\ IF loc.block \in metas THEN Continue("ttl", loc) ELSE NotFound

(* GET /tx/:txid/outspend/:vout: S rows with a confirmed spender, else     *)
(* the mempool's edge.                                                     *)
OutSpend(o) ==
    LET r == [op |-> "outspend", arg |-> o]
    IN /\ Ask(r) /\ FreshRead
       /\ LET by == {t \in Txs : <<"S", o, t>> \in history /\ Confirming(t) # {}}
          IN IF by # {} THEN Accept(r, "ttl", Placed(Idle, CHOOSE t \in by : TRUE))
                        ELSE Accept(r, "poolspend", Idle)

PoolSpend ==
    /\ place = "poolspend" /\ Resumed
    /\ Continue("ttl", [loc EXCEPT !.got = Sifted(pool, {t \in Txs : req.arg \in Spends[t]})])

-----------------------------------------------------------------------------
(* Histories.                                                              *)

(* The part of a list after the cursor: skip_while, then skip(1).          *)
SkipTo(s, cursor) ==
    IF cursor = Absent THEN s
    ELSE IF Contains(s, cursor) THEN SubSeq(s, Min({i \in DOMAIN s : s[i] = cursor}) + 1, Len(s))
    ELSE <<>>

Take(s, n) == SubSeq(s, 1, IF n < Len(s) THEN n ELSE Len(s))

(* Mempool::history.                                                       *)
PoolHistory(cursor, n) == Take(SkipTo(Sifted(pool, Touching), cursor), n)

(* The reverse scan of the H rows from start_height down: newest first,    *)
(* and one entry per transaction.                                          *)
Later(r, q) == r[3] > q[3] \/ (r[3] = q[3] /\ r[4] > q[4])

ChainScan(start) ==
    LET rows == {r \in history : r[1] = "H" /\ (start = -1 \/ r[3] <= start)}
        firsts == {r \in rows : \A q \in rows : TxOf(q) = TxOf(r) => ~Later(q, r)}
        entries == {<<"H", Script, r[3], r[4], TxOf(r)>> : r \in firsts}
        order == Listed(entries, {p \in entries \X entries : Later(p[1], p[2])})
    IN [i \in DOMAIN order |-> TxOf(order[i])]

(* GET /address/:addr/txs?after_txid=cursor, first find_txid: the mempool, *)
(* then the chain.                                                         *)
History(op, cursor) ==
    LET r == [op |-> op, arg |-> cursor]
    IN /\ Ask(r)
       /\ UNCHANGED <<backend, pages>> /\ still' = (cursor = Absent \/ still)
       /\ IF cursor = Absent \/ cursor \in Pool
            THEN Accept(r, "poolpage", [Idle EXCEPT !.todo = <<Absent>>])
            ELSE Accept(r, "findchain", Idle)

FindChain ==
    /\ place = "findchain" /\ Resumed
    /\ IF Confirming(req.arg) = {} THEN Fail(422)
       ELSE Continue("chainscan", [loc EXCEPT !.todo = <<req.arg>>,
                                  !.height = Height[CHOOSE b \in Confirming(req.arg) : TRUE]])

(* clamp_query_max_txs.                                                    *)
PageSize == IF req.op = "whole" THEN MaxWhole ELSE MaxTxs

PoolPage ==
    /\ place = "poolpage" /\ Resumed
    /\ Continue("chainscan", [loc EXCEPT !.got = PoolHistory(req.arg, PageSize)])

MempoolCursorKept(l) == req.arg
(* confirmed_after_txid: a mempool cursor starts the chain part afresh.    *)
ConfirmedAfter(l) == Head(l.todo)

ChainPageUnlessPool ==
    /\ place = "chainscan" /\ Resumed
    /\ IF loc.got = <<>>
         THEN Continue("chainrows", [loc EXCEPT !.todo = SkipTo(ChainScan(loc.height), ConfirmedAfter(loc))])
         ELSE Continue("chainrows", [loc EXCEPT !.todo = <<>>])

ChainPage ==
    /\ place = "chainscan" /\ Resumed
    /\ IF Len(loc.got) < PageSize
         THEN Continue("chainrows", [loc EXCEPT !.todo = SkipTo(ChainScan(loc.height), ConfirmedAfter(loc))])
         ELSE Continue("chainrows", [loc EXCEPT !.todo = <<>>])

(* Each row is kept if tx_confirming_block finds its transaction, until    *)
(* the page is full; then the T rows are read.                             *)
ChainRow ==
    /\ place = "chainrows" /\ Resumed
    /\ IF loc.todo = <<>> \/ Len(loc.got) + Len(loc.seen) >= PageSize
         THEN Continue("rowtxs", loc)
         ELSE Continue("chainrows",
                [loc EXCEPT !.todo = Tail(@),
                            !.seen = IF Confirming(Head(loc.todo)) = {} THEN @ ELSE Append(@, Head(loc.todo))])

RowTxs ==
    /\ place = "rowtxs"
    /\ UNCHANGED <<backend, quiet, pure, still>>
    /\ always' = IF Len(loc.got) + Len(loc.seen) < PageSize THEN always ELSE {}
    /\ IF \E i \in DOMAIN loc.seen : loc.seen[i] \notin stored
         THEN Fail(400) /\ pages' = <<>>
         ELSE Continue("prepare", loc) /\ UNCHANGED pages

(* prepare_txs: "transactions with missing prevouts will be filtered out". *)
Prepared(s) == Sifted(s, WithPrevouts)

PrepareTxs ==
    /\ place = "prepare"
    /\ UNCHANGED <<backend, ghosts>>
    /\ Reply("short", Prepared(loc.got \o loc.seen))
    /\ pages' = IF req.op = "whole" THEN <<>>
                ELSE (IF req.arg = Absent THEN <<>> ELSE pages) \o Prepared(loc.got \o loc.seen)

(* The client asks for the page after the last one it was given.           *)
NextPage ==
    /\ req.op = "history" /\ out.ttl = "short" /\ out.body # <<>>
    /\ Len(pages) <= MaxPaged
    /\ History("history", out.body[Len(out.body)])

(* GET /address/:addr/utxo, ChainQuery::utxo: the U row, then the height   *)
(* of its block; from there an iterator over the H rows, each of which     *)
(* counts if its transaction is confirmed at its height; then the U row is *)
(* written anew, with the block of the last row that counted.              *)
Utxo ==
    LET r == [op |-> "utxo", arg |-> Script]
    IN /\ Ask(r) /\ FreshRead
       /\ IF ucache = {} THEN Accept(r, "utxoscan", [Idle EXCEPT !.got = <<{}>>])
          ELSE \E c \in ucache : Accept(r, "utxoheight", [Idle EXCEPT !.seen = <<c>>])

(* height_by_hash: the row of an orphaned block is not used.               *)
UtxoHeight ==
    LET c == loc.seen[1] IN
    /\ place = "utxoheight" /\ UNCHANGED <<backend, pages, quiet, still, always>>
    /\ IF c.block \in Chain[best]
         THEN /\ Continue("utxoscan", [Idle EXCEPT !.got = <<c.utxos>>, !.height = Height[c.block]])
              /\ pure' = (pure /\ c.pure)
         ELSE Continue("utxoscan", [Idle EXCEPT !.got = <<{}>>]) /\ UNCHANGED pure

SkipsOne(h) == IF h = -1 THEN 0 ELSE h + 2
ScanFrom(h) == h + 1

UtxoScan ==
    /\ place = "utxoscan" /\ Resumed
    /\ Continue("utxorows", [loc EXCEPT !.todo = <<{r \in history : r[1] = "H" /\ r[3] >= ScanFrom(loc.height)}>>,
                                       !.seen = <<{}>>])

(* The order of the keys.                                                  *)
Earlier(q, r) ==
    q[3] < r[3] \/ (q[3] = r[3] /\ (q[4] < r[4] \/ (q[4] = r[4] /\ q[5] = "F" /\ r[5] = "S")))

(* apply_utxo_delta, one row; TooManyUtxos and TooManyTxs.                 *)
Applied(utxos, r) == IF r[5] = "F" THEN utxos \cup {r[6]} ELSE utxos \ {r[6]}

UtxoNext(r) ==
    LET at == {b \in Confirming(TxOf(r)) : Height[b] = r[3]}
        utxos == Applied(loc.got[1], r)
        items == loc.seen[1] \cup {r}
        rest == <<loc.todo[1] \ {r}>>
    IN IF at = {} THEN Continue("utxorows", [loc EXCEPT !.todo = rest])
       ELSE IF Cardinality(utxos) > UtxosLimit \/ Cardinality(items) > UtxosLimit * TxsPerUtxo
         THEN Fail(400)
       ELSE Continue("utxorows", [loc EXCEPT !.todo = rest, !.got = <<utxos>>, !.seen = <<items>>,
                                             !.block = CHOOSE b \in at : TRUE])

UtxoRow ==
    /\ place = "utxorows" /\ Resumed
    /\ \/ loc.todo[1] = {} /\ Continue("utxosave", loc)
       \/ \E r \in loc.todo[1] : (\A q \in loc.todo[1] : ~Earlier(q, r)) /\ UtxoNext(r)

(* A row is worth its place once there is one, or after many items.        *)
UtxoSave ==
    /\ place = "utxosave"
    /\ ucache' = IF loc.block # NoBlock /\ (loc.height # -1 \/ Cardinality(loc.seen[1]) > MinItems)
                   THEN {[utxos |-> loc.got[1], block |-> loc.block, pure |-> pure]} ELSE ucache
    /\ UNCHANGED <<best, step, reorged, coming, gone, stored, conf, metas, history, pool, updates, pages, ghosts>>
    /\ Continue("utxopool", [Idle EXCEPT !.got = loc.got])

(* Query::utxo then, under one lock, drops what the mempool spends and     *)
(* adds what it funds.                                                     *)

SpendsIgnored == {}
PoolSpent == UNION {Spends[t] : t \in Pool}
PoolFunded == {o \in UNION {OutsOf(t) : t \in Pool} : ScriptOf(o) = Script}

UtxoPool ==
    /\ place = "utxopool" /\ Resumed
    /\ Reply("short", (loc.got[1] \cup PoolFunded) \ PoolSpent)

-----------------------------------------------------------------------------
ClientAsks ==
    \/ \E h \in AskHeights : ByHeight(h)
    \/ \E b \in AskBlocks : Status(b) \/ Block(b) \/ Raw(b) \/ BlockPage(b)
    \/ \E t \in AskTxs : Tx(t) \/ TxStatus(t) \/ Proof(t)
    \/ \E o \in AskOuts : OutSpend(o)
    \/ History("history", Absent) \/ History("whole", Absent) \/ NextPage \/ Utxo

Handler ==
    \/ Lifetime \/ BlockMeta \/ BlockMtp \/ RawTxids \/ RawTx
    \/ BlockPageId \/ BlockPageTx \/ BlockPageTtl \/ BlockPagePrev
    \/ TxPool \/ TxBlock \/ TxTtl \/ TxPrev \/ ProofTxids \/ PoolSpend
    \/ FindChain \/ PoolPage \/ ChainPage \/ ChainRow \/ RowTxs \/ PrepareTxs
    \/ UtxoHeight \/ UtxoScan \/ UtxoRow \/ UtxoSave \/ UtxoPool

RestNext == MainLoop \/ ClientAsks \/ Handler
RestSpec == RestInit /\ [][RestNext]_restVars

-----------------------------------------------------------------------------
RestTypeOK ==
    /\ best \in Blocks /\ step \in {"idle", "unindex", "unadd", "cancel", "add", "index", "drop", "fill"}
    /\ reorged \subseteq Blocks /\ coming \subseteq Blocks /\ metas \subseteq Blocks
    /\ stored \subseteq Txs /\ conf \subseteq Txs \X Blocks
    /\ Len(pool) = Cardinality(Pool) /\ Pool \subseteq Txs
    /\ quiet \in BOOLEAN /\ pure \in BOOLEAN /\ still \in BOOLEAN /\ always \subseteq Txs

(* The lifetime of five years is right when no header change fell into the *)
(* request: the height, the block's place in the best chain, the           *)
(* confirmation and the page of transactions it told are the ones the best *)
(* chain has at every later time, although reorganisations may reach       *)
(* CONF_FINAL blocks back.                                                 *)
True(a) ==
    CASE a.op = "block-height" -> a.arg \in HeightsOf(best) /\ BlockAt(a.arg) = a.body[1]
      [] a.op = "status" -> a.arg \in Chain[best]
      [] a.op \in {"tx", "txstatus", "proof", "outspend"} -> a.body[2] \in Chain[best]
      [] a.op = "txs" -> a.arg \in Chain[best] /\ a.body = <<Height[a.arg]>> \o BlockTxs[a.arg]
      [] OTHER -> TRUE
QuietLongIsFinal == \A a \in kept : a.quiet => True(a)

(* The raw block is complete, however the rows change while it is put      *)
(* together.                                                               *)
RawIsWhole == \A a \in kept : a.op = "raw" => a.body = BlockTxs[a.arg]

(* Answers that caches may keep for years stay true: the ones computed     *)
(* while the header list stood still, and every raw block, however the     *)
(* rows change while it is put together.                                   *)
KeptAnswersTrue == RestTypeOK /\ QuietLongIsFinal /\ RawIsWhole

(* The next block that a kept status named stays the next one.  This does  *)
(* not hold: the block has one confirmation less than the lifetime asks    *)
(* for (README.md, "Statements that fail").                                *)
StatusNextStays ==
    \A a \in kept : a.op = "status" /\ a.quiet =>
        a.arg \in Chain[best] /\ Height[a.arg] < BestHeight /\ a.body = <<a.arg, BlockAt(Height[a.arg] + 1)>>

(* A static resource has one representation: two answers with the long     *)
(* lifetime to the same request are the same.  This does not hold          *)
(* (README.md, "Statements that fail").                                    *)
LongIsStatic ==
    \A a, b \in kept : a.body = b.body

(* The first page, when it was not full, holds every transaction of the    *)
(* script that was in view, in the mempool or in the chain and with its    *)
(* previous outputs, all the time since the request: the mempool is read   *)
(* before the chain, and a transaction moves from the first to the second. *)
(* A page that was full before prepare_txs promises nothing, even if it    *)
(* ends up shorter.                                                        *)
NothingOverlooked ==
    (req.op = "whole" /\ out.ttl = "short" /\ place = "idle")
    => always \subseteq {out.body[i] : i \in DOMAIN out.body}

(* Following after_txid from page to page while nothing changes gives      *)
(* every transaction of the history exactly once, mempool first, then the  *)
(* chain from the newest block down.                                       *)
PagesComplete ==
    (still /\ place = "idle" /\ step = "idle" /\ req.op = "history" /\ out.ttl = "short" /\ out.body = <<>>)
    => pages = Sifted(pool, Touching) \o ChainScan(-1)

(* With the main loop at rest and no change during the request, the        *)
(* unspent outputs are those the chain and the mempool fund and neither    *)
(* spends, from the U row that earlier requests left as well as from       *)
(* scratch, unless a rollback met one of those requests.                   *)
UtxoAnswered == req.op = "utxo" /\ out.ttl = "short" /\ place = "idle" /\ step = "idle" /\ still
UtxoIsExact ==
       LET known == Pool \cup TxRows(Chain[best])
       IN out.body = {o \in UNION {OutsOf(t) : t \in known} :
                        ScriptOf(o) = Script /\ \A t \in known : o \notin Spends[t]}
UtxoExact == UtxoAnswered /\ pure => UtxoIsExact

(* The same whatever the U row was made of.  This does not hold: a request *)
(* that a rollback meets may save outputs of the old branch under a block  *)
(* of the new one (README.md, "Statements that fail").                     *)
UtxoAlwaysExact == UtxoAnswered => UtxoIsExact

(* What is answered about a script is complete: a first page that is not   *)
(* full overlooks nothing, following after_txid gives the whole history    *)
(* once, and the unspent outputs are exactly those there are.              *)
ScriptAnswersExact == NothingOverlooked /\ PagesComplete /\ UtxoExact
=============================================================================
