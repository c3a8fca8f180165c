----------------------------- MODULE BlockTree -----------------------------
(***************************************************************************)
(* The block tree the daemon may present, and the database rows that one   *)
(* block contributes to `txstore` and to `history`.                        *)
(*                                                                         *)
(* A block, a transaction and a script are opaque values.  What the code   *)
(* reads from them is kept in functions: the parent and height of a block, *)
(* its transactions in order, the scripts a transaction funds (one per     *)
(* output) and the outpoints it spends.  The same transaction may occur in *)
(* several blocks, as long as they are on different branches.              *)
(***************************************************************************)
EXTENDS Integers, Sequences, FiniteSets

CONSTANTS
    Blocks,        \* every block of every branch
    NoBlock,       \* the absence of a block: an empty header list, no `t` row
    Parent,        \* [Blocks -> Blocks \cup {NoBlock}]
    Height,        \* [Blocks -> Nat]
    Chain,         \* [Blocks \cup {NoBlock} -> SUBSET Blocks]: a block and its ancestors
    Txs,           \* transactions
    BlockTxs,      \* [Blocks -> Seq(Txs)]: the transactions of a block, in order
    Scripts,       \* script hashes
    OutScripts,    \* [Txs -> Seq(Scripts)]: the script of each output
    Spends,        \* [Txs -> SUBSET outpoints]: the previous outputs of its inputs
    Unspendable,   \* outpoints that is_spendable refuses (OP_RETURN and the like)
    LightMode,           \* --lightmode: no T, X and M rows
    IndexUnspendables,   \* --index-unspendables
    AddressSearch        \* --address-search: keep `a` rows

ASSUME TreeAssumption ==
    /\ NoBlock \notin Blocks
    /\ Parent \in [Blocks -> Blocks \cup {NoBlock}]
    /\ Height \in [Blocks -> Nat]
    /\ Chain \in [Blocks \cup {NoBlock} -> SUBSET Blocks]
    /\ Chain[NoBlock] = {}
    /\ \A b \in Blocks : Chain[b] = {b} \cup Chain[Parent[b]]
    /\ \A b \in Blocks : \A a \in Chain[b] : Chain[a] \subseteq Chain[b]

ASSUME HeightAssumption ==
    \A b \in Blocks :
        /\ Height[b] = IF Parent[b] = NoBlock THEN 0 ELSE Height[Parent[b]] + 1
        /\ \A a, c \in Chain[b] : Height[a] = Height[c] => a = c
        /\ \A a \in Chain[b] : Height[a] <= Height[b]

(* Two branches of a tree share a prefix.                                  *)
ASSUME ForkAssumption ==
    \A a, b \in Blocks \cup {NoBlock} :
        \E p \in Blocks \cup {NoBlock} : Chain[p] = Chain[a] \cap Chain[b]

(* The last block of a chain of headers; NoBlock when it is empty.         *)
LastOf(S) == CHOOSE p \in Blocks \cup {NoBlock} : Chain[p] = S

Outpoints == UNION {{<<tx, n>> : n \in 1..Len(OutScripts[tx])} : tx \in Txs}

ASSUME TxAssumption ==
    /\ BlockTxs \in [Blocks -> Seq(Txs)]
    /\ OutScripts \in [Txs -> Seq(Scripts)]
    /\ Spends \in [Txs -> SUBSET Outpoints]
    /\ Unspendable \subseteq Outpoints
    /\ LightMode \in BOOLEAN
    /\ IndexUnspendables \in BOOLEAN
    /\ AddressSearch \in BOOLEAN

(* Consensus: a transaction is confirmed once per branch.                  *)
ASSUME NoDuplicateTx ==
    \A b \in Blocks : \A a, c \in Chain[b] :
        \A i \in DOMAIN BlockTxs[a], j \in DOMAIN BlockTxs[c] :
            BlockTxs[a][i] = BlockTxs[c][j] => a = c /\ i = j

TxsOf(b) == {BlockTxs[b][i] : i \in DOMAIN BlockTxs[b]}
OutsOf(tx) == {<<tx, n>> : n \in 1..Len(OutScripts[tx])}
ScriptOf(o) == OutScripts[o[1]][o[2]]

-----------------------------------------------------------------------------
(* Rows of `txstore`.  A row is a tuple whose first element is the prefix. *)

HeaderRow(b) == <<"B", b>>
DoneRow(b)   == <<"D", b>>
TxOutRow(o)  == <<"O", o>>

(* add_transaction: the rows of one transaction of block b.                *)
add_transaction(tx, b) ==
    {<<"C", tx, b>>}
        \cup (IF LightMode THEN {} ELSE {<<"T", tx>>})
        \cup {TxOutRow(o) : o \in OutsOf(tx) \ Unspendable}

(* add_blocks: the rows of one block as the sequence of groups in which    *)
(* they are pushed.  The order inside a group is left open; what matters   *)
(* is that the header row comes after the rows of the transactions and the *)
(* done row comes last.                                                    *)
add_blocks(b) ==
    [i \in 1..Len(BlockTxs[b]) |-> add_transaction(BlockTxs[b][i], b)]
        \o << IF LightMode THEN {} ELSE {<<"X", b>>, <<"M", b>>},
              {HeaderRow(b)}, {DoneRow(b)} >>

(* index_transaction: the history rows of the transaction at position i of *)
(* block b.  The script of an input is that of the output it spends.       *)
Indexable(o) == o \notin Unspendable \/ IndexUnspendables

index_transaction(tx, h, i) ==
    {<<"H", ScriptOf(o), h, i, "F", o, tx>> : o \in {p \in OutsOf(tx) : Indexable(p)}}
        \cup (IF AddressSearch
                THEN {<<"a", ScriptOf(o)>> : o \in {p \in OutsOf(tx) : Indexable(p)}}
                ELSE {})
        \cup {<<"H", ScriptOf(o), h, i, "S", o, tx>> : o \in Spends[tx]}
        \cup {<<"S", o, tx>> : o \in Spends[tx]}

(* index_blocks: the same for `history`.                                   *)
index_blocks(b) ==
    [i \in 1..Len(BlockTxs[b]) |-> index_transaction(BlockTxs[b][i], Height[b], i)]
        \o << {DoneRow(b)} >>

RowsIn(groups) == UNION {groups[i] : i \in DOMAIN groups}
AddRows(b) == RowsIn(add_blocks(b))
IndexRows(b) == RowsIn(index_blocks(b))

AddRowsOf(S) == UNION {AddRows(b) : b \in S}
IndexRowsOf(S) == UNION {IndexRows(b) : b \in S}

(* get_previous_txos: the outpoints the blocks of S spend.                 *)
get_previous_txos(S) == UNION {Spends[tx] : tx \in UNION {TxsOf(b) : b \in S}}

(* The scripts that DeleteBlocksWithHistory reports for block b: those of  *)
(* its H rows.                                                             *)
ScriptsTouched(b) == {r[2] : r \in {q \in IndexRows(b) : q[1] = "H"}}
=============================================================================
