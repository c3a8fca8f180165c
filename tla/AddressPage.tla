---------------------------- MODULE AddressPage ----------------------------
(***************************************************************************)
(* The address page of both frontends.  The indexer counts what an address *)
(* received and spent, on the chain and in the mempool apart; the pages    *)
(* derive balances and counts from these numbers, in code of their own,    *)
(* from an answer read at one point of a history that goes on.  A Liquid   *)
(* indexer leaves the sums out.                                            *)
(***************************************************************************)
EXTENDS Integers, FiniteSets, FiniteSetsExt

CONSTANTS Coins,     \* outputs paid to the address: a set of numbers
          MaxEvents  \* bound on what happens to them

VARIABLES coin,     \* where each output was made and spent
          liquid,   \* the indexer is a Liquid one
          events,   \* what happened so far
          native,   \* the native load and the bodies it read
          web       \* the web page's unanswered requests and its bodies

vars == <<coin, liquid, events, native, web>>

None  == -1000
Value(o) == 2 ^ o
Sum(S)   == FoldSet(LAMBDA o, acc : acc + Value(o), 0, S)

Made(w)  == {o \in Coins : coin[o].made = w}
Spent(w) == {o \in Coins : coin[o].spent = w}
Unspent  == {o \in Coins : coin[o].made # "no" /\ coin[o].spent = "no"}

\* One side of the indexer's answer; every funding and spending transaction
\* touches one output here.
ScriptStats(w) ==
  [tx_count |-> Cardinality(Made(w)) + Cardinality(Spent(w)),
   funded |-> Cardinality(Made(w)), spent |-> Cardinality(Spent(w)),
   funded_sum |-> IF liquid THEN None ELSE Sum(Made(w)),
   spent_sum |-> IF liquid THEN None ELSE Sum(Spent(w))]

AddressStats == [chain |-> ScriptStats("chain"), mempool |-> ScriptStats("pool")]
NoStats == [chain |-> [tx_count |-> None]]
-----------------------------------------------------------------------------
(* The words of the native screen, from one answer.  The differences are   *)
(* signed: more may be spent in the mempool than it funded.                *)

Line(words, n) == {<<words, n>>}

confirmed_balance_words(s) ==
  IF s.chain.funded_sum = None THEN {}
  ELSE Line("Confirmed balance", s.chain.funded_sum - s.chain.spent_sum)
confirmed_utxo_words(s) == Line("Confirmed UTXOs", s.chain.funded - s.chain.spent)
unspent_txo_words(s)    == Line("Unspent TXOs", s.chain.funded - s.chain.spent)
total_received_words(s) ==
  IF s.chain.funded_sum = None THEN {} ELSE Line("Total received", s.chain.funded_sum)
total_sent_words(s) ==
  IF s.mempool.spent_sum = None THEN {}
  ELSE Line("Total sent", s.chain.spent_sum + s.mempool.spent_sum)

pending_utxo_words(s) == Line("Pending UTXOs", s.mempool.funded - s.mempool.spent)
pending_amount_words(s) ==
  IF s.mempool.funded_sum = None THEN {}
  ELSE Line("Pending", s.mempool.funded_sum - s.mempool.spent_sum)
transaction_count_words(s) == Line("Transactions", s.chain.tx_count + s.mempool.tx_count)

\* What the mempool spends of the chain's outputs is forgotten.
ChainSpentOnly(s) ==
  IF s.chain.funded_sum = None THEN {}
  ELSE Line("Balance", s.chain.funded_sum + s.mempool.funded_sum - s.chain.spent_sum)

combined_balance_words(s) ==
  IF s.chain.funded_sum = None THEN {}
  ELSE Line("Balance", s.chain.funded_sum + s.mempool.funded_sum
                         - s.chain.spent_sum - s.mempool.spent_sum)

\* The stats line, the lenient one included, and the words as their own lines.
render_address_stats(s) ==
  confirmed_balance_words(s) \cup confirmed_utxo_words(s) \cup total_received_words(s)
    \cup total_sent_words(s) \cup pending_utxo_words(s) \cup transaction_count_words(s)
    \cup pending_amount_words(s) \cup combined_balance_words(s)

loaded_transactions_of_line(s, n) ==
  IF n = 0 THEN {<<"nbsp">>} ELSE {<<"of", n, s.chain.tx_count + s.mempool.tx_count>>}

render_address_txs(n) ==
  IF n = 0 THEN {<<"no transactions">>, <<"address list empty">>} ELSE {<<"Date">>}

render_utxos(n) ==
  IF n = 0 THEN {<<"no unspent outputs">>, <<"utxo list empty">>} ELSE {}

\* A list of more than two rows has a heading.
Headings(txs, utxos) ==
  (IF txs > 2 THEN {<<"Balance History">>} ELSE {})
    \cup (IF utxos > 2 THEN {<<"Unspent Outputs">>} ELSE {})

native_lines(s, txs, utxos) ==
  {<<"Address">>} \cup render_address_stats(s) \cup unspent_txo_words(s)
    \cup loaded_transactions_of_line(s, txs) \cup render_address_txs(txs) \cup render_utxos(utxos)
    \cup Headings(txs, utxos)
-----------------------------------------------------------------------------
(* The words of the web page.                                              *)

\* The mempool's spends are left out.
WebChainSpentOnly(s) ==
  IF s.chain.funded_sum = None THEN {}
  ELSE Line("Balance", s.chain.funded_sum + s.mempool.funded_sum - s.chain.spent_sum)

web_balance_words(s) ==
  IF s.chain.funded_sum = None THEN {}
  ELSE Line("Balance", (s.chain.funded_sum + s.mempool.funded_sum)
                         - (s.chain.spent_sum + s.mempool.spent_sum))

web_sum_words(s) ==
  IF s.chain.funded_sum = None THEN {}
  ELSE Line("Confirmed balance", s.chain.funded_sum - s.chain.spent_sum)
         \cup Line("Total received", s.chain.funded_sum)
         \cup Line("Total sent", s.chain.spent_sum + s.mempool.spent_sum)
         \cup Line("Pending", s.mempool.funded_sum - s.mempool.spent_sum)

web_count_words(s) ==
  Line("Confirmed UTXOs", s.chain.funded - s.chain.spent)
    \cup Line("Pending UTXOs", s.mempool.funded - s.mempool.spent)
    \cup Line("Transactions", s.chain.tx_count + s.mempool.tx_count)

\* The words of a scripthash are these without the unspent outputs.
scripthash_markup(s) == web_sum_words(s) \cup web_count_words(s) \cup web_balance_words(s)

address_summary(s) ==
  scripthash_markup(s) \cup Line("Unspent TXOs", s.chain.funded - s.chain.spent)

address_tx_of_heading(s, n) ==
  IF n = 0 THEN {<<"nbsp">>} ELSE {<<"of", n, s.chain.tx_count + s.mempool.tx_count>>}

\* Answers are put together as they come; a list not answered yet is none.
address_rows_markup(s, txs, utxos) ==
  (IF s = NoStats THEN {} ELSE {<<"Address">>} \cup address_summary(s)
     \cup (IF txs = None THEN {} ELSE address_tx_of_heading(s, txs)))
    \cup (IF txs = 0 THEN {<<"no transactions">>, <<"address list empty">>}
          ELSE IF txs = None THEN {} ELSE {<<"Date">>})
    \cup (IF utxos = 0 THEN {<<"no unspent outputs">>, <<"utxo list empty">>} ELSE {})
-----------------------------------------------------------------------------
Truth == [unspent |-> Unspent, confirmed |-> Made("chain") \ Spent("chain")]

Init ==
  /\ coin = [o \in Coins |-> [made |-> "no", spent |-> "no"]]
  /\ liquid \in BOOLEAN
  /\ events = 0
  /\ native = [pc |-> "stats", stats |-> NoStats, txs |-> None, utxos |-> None, truth |-> Truth]
  /\ web = [pending |-> {"stats", "txs", "utxos"}, stats |-> NoStats,
            txs |-> None, utxos |-> None]

Event(o, from, to) ==
  /\ events < MaxEvents
  /\ coin[o] = [made |-> from[1], spent |-> from[2]]
  /\ coin' = [coin EXCEPT ![o] = [made |-> to[1], spent |-> to[2]]]
  /\ events' = events + 1
  /\ UNCHANGED <<liquid, native, web>>

\* An output is received and spent, in the mempool first; blocks take both in
\* and a reorganisation gives them back; the mempool may forget.
Happens(o) ==
  \/ Event(o, <<"no", "no">>, <<"pool", "no">>)
  \/ Event(o, <<"pool", "no">>, <<"pool", "pool">>)
  \/ Event(o, <<"chain", "no">>, <<"chain", "pool">>)
  \/ \E s \in {"no", "pool"} : Event(o, <<"pool", s>>, <<"chain", s>>)
  \/ Event(o, <<"chain", "pool">>, <<"chain", "chain">>)
  \/ Event(o, <<"chain", "chain">>, <<"chain", "pool">>)
  \/ \E s \in {"no", "pool"} : Event(o, <<"chain", s>>, <<"pool", s>>)
  \/ Event(o, <<"chain", "pool">>, <<"chain", "no">>)
  \/ Event(o, <<"pool", "no">>, <<"no", "no">>)

TxsNow == AddressStats.chain.tx_count + AddressStats.mempool.tx_count

\* AddressScreen.load: stats, transactions, outputs, in this order.
NativeRead ==
  /\ \/ /\ native.pc = "stats"
        /\ native' = [native EXCEPT !.pc = "txs", !.stats = AddressStats, !.truth = Truth]
     \/ /\ native.pc = "txs"
        /\ native' = [native EXCEPT !.pc = "utxos", !.txs = TxsNow]
     \/ /\ native.pc = "utxos"
        /\ native' = [native EXCEPT !.pc = "done", !.utxos = Cardinality(Unspent)]
  /\ UNCHANGED <<coin, liquid, events, web>>

WebAnswer(req) ==
  /\ req \in web.pending
  /\ web' = CASE req = "stats" -> [web EXCEPT !.pending = @ \ {req}, !.stats = AddressStats]
              [] req = "txs"   -> [web EXCEPT !.pending = @ \ {req}, !.txs = TxsNow]
              [] OTHER         -> [web EXCEPT !.pending = @ \ {req}, !.utxos = Cardinality(Unspent)]
  /\ UNCHANGED <<coin, liquid, events, native>>

Next ==
  \/ \E o \in Coins : Happens(o)
  \/ NativeRead
  \/ \E req \in {"stats", "txs", "utxos"} : WebAnswer(req)

Spec == Init /\ [][Next]_vars
-----------------------------------------------------------------------------
TypeOK ==
  /\ \A o \in Coins : coin[o] \in [made : {"no", "pool", "chain"}, spent : {"no", "pool", "chain"}]
  /\ native.pc \in {"stats", "txs", "utxos", "done"}
  /\ web.pending \subseteq {"stats", "txs", "utxos"}

\* The balance a page shows is what was unspent when its statistics were read,
\* mempool spends of mined outputs included, and the two counts of outputs add
\* up to their number, though the pending one may be negative.  No sum is
\* shown for a Liquid indexer.
BalanceIsUnspent ==
  native.pc = "done" =>
    LET lines  == native_lines(native.stats, native.txs, native.utxos)
        pool   == Cardinality(native.truth.unspent) - Cardinality(native.truth.confirmed)
    IN  /\ liquid => \A l \in lines : l[1] \notin {"Balance", "Pending", "Confirmed balance"}
        /\ ~liquid => /\ <<"Balance", Sum(native.truth.unspent)>> \in lines
                      /\ <<"Confirmed balance", Sum(native.truth.confirmed)>> \in lines
        /\ <<"Confirmed UTXOs", Cardinality(native.truth.confirmed)>> \in lines
        /\ <<"Pending UTXOs", pool>> \in lines

\* What the web page has put together of the answers it got are lines the
\* native screen paints for the same answers; nothing is taken for zero while
\* an answer is still out.
AddressLinesAreGpui ==
  LET body == address_rows_markup(web.stats, web.txs, web.utxos)
  IN  IF web.pending = {} THEN body \subseteq native_lines(web.stats, web.txs, web.utxos)
      ELSE \A l \in body : l[1] \in {"no transactions", "address list empty"} => web.txs = 0
=============================================================================
