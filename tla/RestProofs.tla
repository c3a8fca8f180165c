----------------------------- MODULE RestProofs -----------------------------
(***************************************************************************)
(* What the REST handlers answer, for every block tree, page size and any  *)
(* number of updates while they read.                                      *)
(***************************************************************************)
EXTENDS Rest, FiniteSetTheorems, SequenceTheorems, WellFoundedInduction, TLAPS

(* The branch that was the best one before the headers of this update.     *)
Former == (Chain[best] \ coming) \cup reorged

(* The blocks whose txstore rows are there, and whose history rows are.    *)
Stored ==
    IF step \in {"unindex", "unadd"} THEN Former
    ELSE IF step \in {"cancel", "add"} THEN Chain[best] \ coming ELSE Chain[best]
Historic ==
    IF step = "unindex" THEN Former
    ELSE IF step \in {"unadd", "cancel", "add", "index"} THEN Chain[best] \ coming ELSE Chain[best]

(* All that the main loop writes, but the U row, which requests write too. *)
written == <<best, step, reorged, coming, gone, stored, conf, metas, history, pool, updates>>

(* What Indexer::update has written and deleted, step by step.             *)
BranchInv ==
    /\ best \in Moves \cup {Start}
    /\ step \in {"idle", "unindex", "unadd", "cancel", "add", "index", "drop", "fill"}
    /\ coming \subseteq Chain[best] /\ reorged \subseteq Blocks /\ reorged \cap Chain[best] = {}
    /\ \E p \in Blocks : Chain[p] = Former
    /\ \E p \in Blocks \cup {NoBlock} : Chain[p] = Chain[best] \ coming
    /\ step \in {"idle", "drop", "fill"} => reorged = {} /\ coming = {}
    /\ gone \subseteq Blocks /\ gone \cap Chain[best] = {}

StoreInv ==
    /\ stored = TxRows(Stored) /\ conf = ConfRows(Stored) /\ metas = Stored
    /\ history = HistRows(Historic)

(* The mempool has each transaction once, and agrees with the chain after  *)
(* Mempool::update.                                                        *)
PoolInv ==
    /\ pool \in Seq(Txs) /\ IsInjective(pool) /\ Pool \subseteq Known
    /\ step = "fill" => Pool \subseteq Unconfirmed
    /\ step = "idle" => Pool = Unconfirmed

WriterInv == BranchInv /\ StoreInv /\ PoolInv

(* A block that no reorganisation takes away any more.                     *)
Final(b) == b \in Chain[best] /\ BestHeight - Height[b] >= ConfFinal

AboutTx == {"tx", "txstatus", "proof", "outspend"}

(* An answer refers to the block c.                                        *)
Refers(op, arg, body, c) ==
    /\ op = "block-height" => Height[c] = arg /\ body[1] = c
    /\ op = "status" => arg = c
    /\ op \in AboutTx => body[2] = c
    /\ op = "txs" => arg = c /\ body = <<Height[c]>> \o BlockTxs[c]

KeptGood(a) ==
    /\ a.quiet /\ a.op \in AboutTx \cup {"block-height", "status", "txs"} =>
          \E c \in Chain[best] : Final(c) /\ Refers(a.op, a.arg, a.body, c)
    /\ a.op = "raw" => a.body = BlockTxs[a.arg]

KeptInv == \A a \in kept : KeptGood(a)

(* What the handler has read refers to the block at loc.height, while the  *)
(* header list stays as it is.                                             *)
Reading(op, body) ==
    quiet => \E c \in Chain[best] : Height[c] = loc.height /\ Refers(op, req.arg, body, c)

(* The lists of a history in the making.                                   *)
Listing == {"poolpage", "findchain", "chainscan", "chainrows", "rowtxs", "prepare"}

(* The page of a block, and the unspent outputs.                           *)
Paging == {"pageid", "pagetxs", "pagettl", "pageprev"}
Unspending == {"utxoheight", "utxoscan", "utxorows", "utxosave", "utxopool"}

(* Which requests the handler may be serving where.                        *)
PlaceInv ==
    /\ place \in Listing \cup Paging \cup Unspending \cup
                {"idle", "ttl", "meta", "mtp", "rawtxids", "rawtxs",
                 "txpool", "txblock", "txttl", "txprev", "proof", "poolspend"}
    /\ place = "idle" => req.op \in {Absent, "history", "whole", "utxo"}
    /\ place = "ttl" => req.op \in {"block-height", "status", "txstatus", "proof", "outspend"}
    /\ place \in {"meta", "mtp"} => req.op = "block"
    /\ place \in {"rawtxids", "rawtxs"} => req.op = "raw"
    /\ place \in Paging => req.op = "txs"
    /\ place \in {"txpool", "txblock", "txttl", "txprev"} => req.op = "tx"
    /\ place = "proof" => req.op = "proof"
    /\ place = "poolspend" => req.op = "outspend"
    /\ place \in Listing => req.op \in {"history", "whole"}
    /\ place \in Unspending => req.op = "utxo"

Fields == {"block", "height", "todo", "got", "seen"}

SessionInv ==
    /\ loc = [f \in Fields |-> loc[f]] /\ loc.height \in Nat \cup {-1}
    /\ place \in {"ttl", "txttl", "proof"} /\ loc.height # -1 => Reading(req.op, loc.got)
    /\ place \in {"txpool", "txblock", "poolspend"} => loc.height = -1
    /\ place = "txttl" => \E t, c : loc.got = <<t>> \/ loc.got = <<t, c>>
    /\ place = "txprev" /\ Head(loc.got) = "long" /\ quiet =>
          \E c \in Chain[best] : Final(c) /\ Refers("tx", req.arg, Tail(loc.got), c)
    /\ place = "rawtxids" => loc.block = req.arg /\ loc.got = <<>> /\ req.arg \in Blocks
    /\ place = "rawtxs" => /\ loc.got \in Seq(Txs) /\ loc.todo \in Seq(Txs)
                           /\ loc.got \o loc.todo = BlockTxs[req.arg]

(* The page of a block in the making: a block of the best chain that had   *)
(* its rows has them as long as the header list stays as it is.            *)
BlockPageInv ==
    place \in Paging =>
      /\ req.arg \in Blocks /\ loc.block = req.arg
      /\ loc.got \in Seq(Txs) /\ loc.todo \in Seq(Txs) /\ loc.got \o loc.todo = BlockTxs[req.arg]
      /\ quiet /\ req.arg \in Chain[best] => req.arg \in metas
      /\ place # "pageid" /\ quiet /\ loc.height # -1 =>
            req.arg \in Chain[best] /\ Height[req.arg] = loc.height
      /\ place \in {"pagettl", "pageprev"} => loc.todo = <<>>
      /\ place = "pageprev" => loc.seen \in {<<"long">>, <<"short">>}
      /\ place = "pageprev" /\ quiet /\ loc.seen = <<"long">> => loc.height # -1 /\ Final(req.arg)

ListInv ==
    place \in Listing =>
      /\ loc.got \in Seq(Txs) /\ loc.seen \in Seq(Txs)
      /\ place \in {"poolpage", "findchain"} => loc.got = <<>>
      /\ place \in {"poolpage", "findchain", "chainscan"} => loc.seen = <<>>
      /\ place = "poolpage" => loc.todo = <<Absent>> /\ loc.height = -1
      /\ place = "chainscan" => (loc.todo = <<Absent>> /\ loc.height = -1) \/ loc.todo = <<req.arg>>
      /\ place = "chainrows" => loc.todo \in Seq(Txs)
      /\ req.op = "whole" => req.arg = Absent /\ place # "findchain" /\ loc.height = -1

(* A transaction that was in view since the request is on the page, or the *)
(* handler will come across it in the chain.                               *)
WholeInv ==
    /\ always \subseteq InView
    /\ req.op = "whole" /\ place = "chainscan" /\ Len(loc.got) < MaxWhole =>
          \A t \in always : t \in Range(loc.got) \/ t \notin Pool
    /\ req.op = "whole" /\ place = "chainrows" /\ Len(loc.got) + Len(loc.seen) < MaxWhole =>
          \A t \in always : \/ t \in Range(loc.got) \cup Range(loc.seen)
                            \/ t \notin Pool /\ t \in Range(loc.todo)
    /\ req.op = "whole" /\ place = "rowtxs" /\ Len(loc.got) + Len(loc.seen) < MaxWhole =>
          always \subseteq Range(loc.got) \cup Range(loc.seen)
    /\ req.op = "whole" /\ place = "prepare" => always \subseteq Range(loc.got) \cup Range(loc.seen)
    /\ NothingOverlooked

(* The whole history; what the client has of it so far; what the handler   *)
(* adds.                                                                   *)
InPool == Sifted(pool, Touching)
Whole == InPool \o ChainScan(-1)
Base == IF req.arg = Absent THEN <<>> ELSE pages
SoFar == Base \o (loc.got \o loc.seen)
Full == Len(loc.got) + Len(loc.seen) >= MaxTxs

Begins(s) == Len(s) <= Len(Whole) /\ \A i \in 1..Len(s) : s[i] = Whole[i]

PagingInv ==
    /\ req.arg # Absent => Len(pages) >= 1 /\ req.arg = pages[Len(pages)]
    /\ Begins(SoFar)
    /\ place = "poolpage" => Len(Base) <= Len(InPool)
    /\ place = "findchain" => Len(Base) > Len(InPool)
    /\ place = "chainscan" =>
          \/ loc.todo = <<Absent>> /\ loc.height = -1 /\ (Full \/ Len(SoFar) = Len(InPool))
          \/ /\ loc.todo = <<req.arg>> /\ Len(Base) > Len(InPool) /\ loc.got = <<>>
             /\ \E b \in Chain[best] : Height[b] = loc.height /\ req.arg \in TxsOf(b)
    /\ place = "chainrows" => Full \/ (SoFar \o loc.todo = Whole /\ Len(SoFar) >= Len(InPool))
    /\ place \in {"rowtxs", "prepare"} => Full \/ SoFar = Whole

(* What the client has after an answer.                                    *)
AnswerInv ==
    /\ Begins(pages)
    /\ out.body = <<>> => pages = Whole
    /\ out.body # <<>> => Len(pages) >= 1 /\ out.body[Len(out.body)] = pages[Len(pages)]

PagesInv ==
    /\ pages \in Seq(Txs)
    /\ place = "idle" /\ req.op = "history" /\ out.ttl = "short" => out.body \in Seq(Txs)
    /\ still /\ step = "idle" /\ req.op = "history" /\ place \in Listing => PagingInv
    /\ still /\ step = "idle" /\ req.op = "history" /\ place = "idle" /\ out.ttl = "short" => AnswerInv

(* The outputs of the script that the chain up to p funds and does not     *)
(* spend.                                                                  *)
UnspentAt(p) ==
    {o \in UNION {OutsOf(t) : t \in TxRows(Chain[p])} :
        ScriptOf(o) = Script /\ \A t \in TxRows(Chain[p]) : o \notin Spends[t]}

GhostInv == quiet \in BOOLEAN /\ pure \in BOOLEAN /\ still \in BOOLEAN /\ always \subseteq Txs

(* A U row that no rollback met has the outputs unspent at its block, one  *)
(* that is indexed or was.                                                 *)
Reached(b) == b \in Chain[best] \ coming
Honest(c) == c.pure => (Reached(c.block) \/ c.block \in gone) /\ c.utxos = UnspentAt(c.block)
RowShape(c) == c = [utxos |-> c.utxos, block |-> c.block, pure |-> c.pure] /\ c.block \in Blocks /\ c.pure \in BOOLEAN
CacheInv == \A c \in ucache : RowShape(c) /\ Honest(c)

(* The rows of the chain up to p above a height, what they fund and spend. *)
Above(p, h) == {r \in HistRows(Chain[p]) : r[1] = "H" /\ r[3] >= h + 1}
Funds(R) == {r[6] : r \in {q \in R : q[5] = "F"}}
Uses(R) == {r[6] : r \in {q \in R : q[5] = "S"}}

(* Where a scan of the blocks S starts: from nothing, or from a row.       *)
From(S, h, U) ==
    \/ h = -1 /\ U = {}
    \/ \E b \in S : Height[b] = h /\ U = UnspentAt(b)

(* What the scan has done up to p is what its rows say.                    *)
Scanning(p) ==
    \E U : /\ From(Chain[p], loc.height, U)
           /\ loc.seen[1] \cup loc.todo[1] = Above(p, loc.height)
           /\ \A q \in loc.seen[1], r \in loc.todo[1] : ~Earlier(r, q)
           /\ loc.got[1] = (U \cup Funds(loc.seen[1])) \ Uses(loc.seen[1])

LastBlock(p) ==
    /\ loc.block = NoBlock => loc.seen[1] = {}
    /\ loc.block # NoBlock => /\ loc.block \in Chain[p]
                              /\ \A r \in loc.seen[1] : r[3] <= Height[loc.block]
                              /\ \E r \in loc.seen[1] : r[3] = Height[loc.block]

QueryInv ==
    /\ place \in Unspending /\ pure => reorged = {}
    /\ place = "utxoheight" => \E c : loc.seen = <<c>> /\ RowShape(c) /\ (pure => Honest(c))
    /\ place \in {"utxorows", "utxosave"} => loc.block \in Blocks \cup {NoBlock}
    /\ place = "utxoscan" => loc.block = NoBlock /\ (pure => From(Chain[best] \ coming, loc.height, loc.got[1]))
    /\ place \in {"utxorows", "utxosave"} /\ pure =>
          \E p \in Blocks \cup {NoBlock} :
             /\ p = NoBlock \/ Reached(p)
             /\ still /\ step = "idle" => p = best
             /\ Scanning(p) /\ LastBlock(p)
             /\ place = "utxosave" => loc.todo[1] = {}
    /\ place = "utxopool" /\ pure /\ still /\ step = "idle" => loc.got[1] = UnspentAt(best)

UtxoInv == CacheInv /\ QueryInv /\ UtxoExact

KeepInv == WriterInv /\ KeptInv /\ PlaceInv /\ SessionInv /\ BlockPageInv /\ GhostInv
RestInv == KeepInv /\ ListInv /\ WholeInv /\ PagesInv /\ UtxoInv

-----------------------------------------------------------------------------
(* Sequences that list a set.                                              *)

(* R orders S: the first of a pair comes before the second.                *)
Orders(R, S) ==
    /\ \A x \in S : <<x, x>> \notin R
    /\ \A x, y \in S : x = y \/ <<x, y>> \in R \/ <<y, x>> \in R
    /\ \A x, y, z \in S : <<x, y>> \in R /\ <<y, z>> \in R => <<x, z>> \in R

Before(x, S, R) == {y \in S : <<y, x>> \in R}

LEMMA Ranks ==
    ASSUME NEW S, NEW R, IsFiniteSet(S), Orders(R, S)
    PROVE  /\ Cardinality(S) \in Nat
           /\ \A x \in S : /\ IsFiniteSet(Before(x, S, R))
                           /\ Cardinality(Before(x, S, R)) \in 0..(Cardinality(S) - 1)
           /\ \A x, y \in S : <<x, y>> \in R => Cardinality(Before(x, S, R)) < Cardinality(Before(y, S, R))
           /\ \A x, y \in S : Cardinality(Before(x, S, R)) = Cardinality(Before(y, S, R)) => x = y
<1>0. Cardinality(S) \in Nat
  BY FS_CardinalityType
<1>1. ASSUME NEW x \in S PROVE /\ IsFiniteSet(Before(x, S, R))
                               /\ Cardinality(Before(x, S, R)) \in 0..(Cardinality(S) - 1)
  <2>1. Before(x, S, R) \in SUBSET (S \ {x})
    BY DEF Before, Orders
  <2>2. IsFiniteSet(S \ {x}) /\ Cardinality(S \ {x}) = Cardinality(S) - 1
    BY FS_RemoveElement
  <2>3. IsFiniteSet(Before(x, S, R)) /\ Cardinality(Before(x, S, R)) <= Cardinality(S) - 1
    BY <2>1, <2>2, FS_Subset
  <2>4. Cardinality(Before(x, S, R)) \in Nat
    BY <2>3, FS_CardinalityType
  <2>. QED  BY <1>0, <2>3, <2>4
<1>2. ASSUME NEW x \in S, NEW y \in S, <<x, y>> \in R
      PROVE  Cardinality(Before(x, S, R)) < Cardinality(Before(y, S, R))
  <2>1. Before(x, S, R) \in SUBSET (Before(y, S, R) \ {x}) /\ x \in Before(y, S, R)
    BY <1>2 DEF Before, Orders
  <2>2. /\ IsFiniteSet(Before(y, S, R) \ {x})
        /\ Cardinality(Before(y, S, R) \ {x}) = Cardinality(Before(y, S, R)) - 1
    BY <1>1, <2>1, FS_RemoveElement
  <2>3. Cardinality(Before(x, S, R)) <= Cardinality(Before(y, S, R)) - 1
    BY <2>1, <2>2, FS_Subset
  <2>4. Cardinality(Before(x, S, R)) \in Int /\ Cardinality(Before(y, S, R)) \in Int
    BY <1>1
  <2>. QED  BY <2>3, <2>4
<1>3. ASSUME NEW x \in S, NEW y \in S, Cardinality(Before(x, S, R)) = Cardinality(Before(y, S, R))
      PROVE  x = y
  <2>1. Cardinality(Before(x, S, R)) \in Int
    BY <1>1
  <2>2. ~(<<x, y>> \in R)
    BY <1>2, <1>3, <2>1
  <2>3. ~(<<y, x>> \in R)
    BY <1>2, <1>3, <2>1
  <2>. QED  BY <2>2, <2>3 DEF Orders
<1>. QED  BY <1>0, <1>1, <1>2, <1>3

(* The list of a set has each element once, in order.                      *)
LEMMA ListedFacts ==
    ASSUME NEW S, NEW R, IsFiniteSet(S), Orders(R, S)
    PROVE  /\ Listed(S, R) \in Seq(S) /\ Len(Listed(S, R)) = Cardinality(S) /\ Cardinality(S) \in Nat
           /\ IsInjective(Listed(S, R)) /\ Range(Listed(S, R)) = S
           /\ \A i \in 1..Cardinality(S) :
                 /\ Listed(S, R)[i] \in S
                 /\ Cardinality(Before(Listed(S, R)[i], S, R)) = i - 1
<1>. DEFINE n == Cardinality(S)
            f == [x \in S |-> Cardinality(Before(x, S, R)) + 1]
            L == Listed(S, R)
<1>0. n \in Nat
  BY FS_CardinalityType
<1>1. f \in Injection(S, 1..n)
  <2>1. \A x \in S : Cardinality(Before(x, S, R)) \in 0..(n - 1)
    BY Ranks
  <2>2. f \in [S -> 1..n]
    BY <1>0, <2>1
  <2>3. \A x, y \in S : f[x] = f[y] => x = y
    BY <1>0, <2>1, Ranks
  <2>. HIDE DEF f
  <2>. QED  BY <2>2, <2>3 DEF Injection, IsInjective
<1>2. IsFiniteSet(1..n) /\ Cardinality(1..n) = n
  BY <1>0, FS_Interval
<1>3. f \in Surjection(S, 1..n)
  <2>. HIDE DEF f
  <2>. QED  BY <1>1, <1>2, FS_Injection
<1>4. \A i \in 1..n : \E x \in S : Cardinality(Before(x, S, R)) = i - 1
  <2>. SUFFICES ASSUME NEW i \in 1..n PROVE \E x \in S : Cardinality(Before(x, S, R)) = i - 1
    OBVIOUS
  <2>1. PICK x \in S : f[x] = i
    <3>. HIDE DEF f
    <3>. QED  BY <1>3 DEF Surjection
  <2>2. Cardinality(Before(x, S, R)) \in Int /\ f[x] = Cardinality(Before(x, S, R)) + 1
    BY Ranks
  <2>. QED  BY <1>0, <2>1, <2>2
<1>5. L = [i \in 1..n |-> CHOOSE x \in S : Cardinality(Before(x, S, R)) = i - 1]
  BY DEF Listed, Before
<1>6. \A i \in 1..n : L[i] \in S /\ Cardinality(Before(L[i], S, R)) = i - 1
  <2>. HIDE DEF n
  <2>. QED  BY <1>4, <1>5
<1>7. L \in Seq(S) /\ Len(L) = n /\ DOMAIN L = 1..n
  <2>. HIDE DEF n, L
  <2>1. DOMAIN L = 1..n /\ L \in [1..n -> S]
    BY <1>5, <1>6
  <2>. QED  BY <1>0, <2>1
<1>8. \A i, j \in 1..n : L[i] = L[j] => i = j
  <2>. SUFFICES ASSUME NEW i \in 1..n, NEW j \in 1..n, L[i] = L[j] PROVE i = j
    OBVIOUS
  <2>1. i - 1 = j - 1
    BY <1>6
  <2>. QED  BY <1>0, <2>1
<1>9. \A x \in S : \E i \in 1..n : L[i] = x
  <2>. SUFFICES ASSUME NEW x \in S PROVE \E i \in 1..n : L[i] = x
    OBVIOUS
  <2>1. Cardinality(Before(x, S, R)) \in 0..(n - 1)
    BY Ranks
  <2>. DEFINE i == Cardinality(Before(x, S, R)) + 1
  <2>2. i \in 1..n /\ i - 1 = Cardinality(Before(x, S, R))
    BY <1>0, <2>1
  <2>3. L[i] = x
    BY <1>6, <2>2, Ranks
  <2>. QED  BY <2>2, <2>3
<1>. HIDE DEF n, L
<1>10. IsInjective(L) /\ Range(L) = S
  BY <1>6, <1>7, <1>8, <1>9 DEF IsInjective, Range
<1>. QED  BY <1>0, <1>6, <1>7, <1>10 DEF n, L

LEMMA ListedInOrder ==
    ASSUME NEW S, NEW R, IsFiniteSet(S), Orders(R, S),
           NEW i \in 1..Cardinality(S), NEW j \in 1..Cardinality(S), i < j
    PROVE  <<Listed(S, R)[i], Listed(S, R)[j]>> \in R
<1>. DEFINE x == Listed(S, R)[i]
            y == Listed(S, R)[j]
<1>1. /\ x \in S /\ y \in S /\ i \in Int /\ j \in Int
      /\ Cardinality(Before(x, S, R)) = i - 1 /\ Cardinality(Before(y, S, R)) = j - 1
  BY ListedFacts
<1>. HIDE DEF x, y
<1>2. <<y, x>> \notin R /\ x # y
  BY <1>1, Ranks
<1>. QED  BY <1>1, <1>2 DEF Orders, x, y

(* The list of a final segment of a set ends the list of the set.          *)
Segment(S, R, T, Q) ==
    /\ T \subseteq S
    /\ \A x \in T : \A y \in S \ T : <<y, x>> \in R
    /\ \A x, y \in T : <<x, y>> \in R <=> <<x, y>> \in Q

ListedLast(S, R, T, Q) ==
    /\ Len(Listed(T, Q)) = Cardinality(T)
    /\ Cardinality(T) \in Nat /\ Cardinality(S \ T) \in Nat
    /\ Cardinality(S) = Cardinality(S \ T) + Cardinality(T)
    /\ \A i \in 1..Cardinality(T) : Listed(S, R)[Cardinality(S \ T) + i] = Listed(T, Q)[i]

LEMMA ListedSegment ==
    ASSUME NEW S, NEW R, NEW T, NEW Q, IsFiniteSet(S), Orders(R, S), Segment(S, R, T, Q)
    PROVE  ListedLast(S, R, T, Q)
<1>. DEFINE d == Cardinality(S \ T)
            m == Cardinality(T)
<1>. USE DEF Segment, ListedLast
<1>1. IsFiniteSet(T) /\ IsFiniteSet(S \ T) /\ d \in Nat /\ m \in Nat
  BY FS_Subset, FS_CardinalityType
<1>2. Cardinality(S) = d + m
  <2>1. S = (S \ T) \cup T /\ (S \ T) \cap T = {}
    OBVIOUS
  <2>2. Cardinality((S \ T) \cup T) = d + m - Cardinality((S \ T) \cap T)
    BY <1>1, FS_Union
  <2>3. Cardinality((S \ T) \cap T) = 0
    BY <2>1, FS_EmptySet
  <2>4. Cardinality((S \ T) \cup T) = d + m
    BY <1>1, <2>2, <2>3
  <2>. QED  BY <2>1, <2>4
<1>3. Orders(Q, T)
  BY DEF Orders
<1>4. ASSUME NEW x \in T
      PROVE  Cardinality(Before(x, S, R)) = d + Cardinality(Before(x, T, Q))
  <2>1. Before(x, S, R) = (S \ T) \cup Before(x, T, Q) /\ (S \ T) \cap Before(x, T, Q) = {}
    BY DEF Before
  <2>2. IsFiniteSet(Before(x, T, Q)) /\ Cardinality(Before(x, T, Q)) \in Int
    BY <1>1, <1>3, Ranks
  <2>3. Cardinality(Before(x, S, R)) = d + Cardinality(Before(x, T, Q)) - Cardinality({})
    BY <1>1, <2>1, <2>2, FS_Union
  <2>4. Cardinality({}) = 0
    BY FS_EmptySet
  <2>. QED  BY <1>1, <2>2, <2>3, <2>4
<1>5. ASSUME NEW i \in 1..m PROVE Listed(S, R)[d + i] = Listed(T, Q)[i]
  <2>1. Listed(T, Q)[i] \in T /\ Cardinality(Before(Listed(T, Q)[i], T, Q)) = i - 1
    BY <1>1, <1>3, ListedFacts
  <2>2. Cardinality(Before(Listed(T, Q)[i], S, R)) = d + (i - 1)
    BY <1>4, <2>1
  <2>3. d + i \in 1..Cardinality(S) /\ (d + i) - 1 = d + (i - 1)
    BY <1>1, <1>2
  <2>4. Listed(S, R)[d + i] \in S /\ Cardinality(Before(Listed(S, R)[d + i], S, R)) = (d + i) - 1
    BY <2>3, ListedFacts
  <2>. QED  BY <2>1, <2>2, <2>3, <2>4, Ranks
<1>. QED  BY <1>1, <1>2, <1>3, <1>5, ListedFacts

(* Sifting keeps the order and each of the elements wanted, once.          *)
LEMMA SiftedFacts ==
    ASSUME NEW A, NEW s \in Seq(A), IsInjective(s), NEW S
    PROVE  /\ Sifted(s, S) \in Seq(A \cap S) /\ IsInjective(Sifted(s, S))
           /\ Range(Sifted(s, S)) = Range(s) \cap S
<1>. DEFINE C == {i \in DOMAIN s : s[i] \in S}
            R == {p \in C \X C : p[1] < p[2]}
            L == Listed(C, R)
<1>1. IsFiniteSet(C) /\ C \subseteq Int /\ DOMAIN s = 1..Len(s) /\ Len(s) \in Nat
  <2>1. DOMAIN s = 1..Len(s) /\ Len(s) \in Nat /\ C \in SUBSET (1..Len(s))
    OBVIOUS
  <2>2. IsFiniteSet(1..Len(s))
    BY <2>1, FS_Interval
  <2>. HIDE DEF C
  <2>3. IsFiniteSet(C)
    BY <2>1, <2>2, FS_Subset
  <2>4. C \subseteq Int
    BY <2>1
  <2>. QED  BY <2>1, <2>3, <2>4
<1>2. Orders(R, C)
  <2>1. \A x, y \in C : <<x, y>> \in R <=> x < y
    OBVIOUS
  <2>. HIDE DEF R, C
  <2>. QED  BY <1>1, <2>1 DEF Orders
<1>3. L \in Seq(C) /\ IsInjective(L) /\ Range(L) = C
  <2>. HIDE DEF R, C
  <2>. QED  BY <1>1, <1>2, ListedFacts
<1>4. Sifted(s, S) = [k \in DOMAIN L |-> s[L[k]]]
  BY DEF Sifted
<1>5. \A i \in C : i \in DOMAIN s /\ s[i] \in A \cap S
  BY <1>1
<1>6. \A x : (x \in Range(s) /\ x \in S) <=> \E i \in C : s[i] = x
  BY DEF Range
<1>. HIDE DEF L, C, R
<1>7. DOMAIN L = 1..Len(L) /\ Len(L) \in Nat /\ \A k \in DOMAIN L : L[k] \in C
  BY <1>3
<1>8. Sifted(s, S) \in Seq(A \cap S) /\ DOMAIN Sifted(s, S) = DOMAIN L
  BY <1>4, <1>5, <1>7
<1>9. IsInjective(Sifted(s, S))
  BY <1>3, <1>4, <1>5, <1>7 DEF IsInjective
<1>10. \A x : x \in Range(Sifted(s, S)) <=> \E i \in C : s[i] = x
  BY <1>3, <1>4, <1>7 DEF Range
<1>. QED  BY <1>6, <1>8, <1>9, <1>10

LEMMA SiftedRange ==
    ASSUME NEW A, NEW s \in Seq(A), NEW S
    PROVE  Range(Sifted(s, S)) = Range(s) \cap S /\ Sifted(s, S) \in Seq(A)
<1>. DEFINE C == {i \in DOMAIN s : s[i] \in S}
            R == {p \in C \X C : p[1] < p[2]}
            L == Listed(C, R)
<1>1. IsFiniteSet(C) /\ C \subseteq Int
  <2>1. DOMAIN s = 1..Len(s) /\ Len(s) \in Nat /\ C \in SUBSET (1..Len(s))
    OBVIOUS
  <2>2. IsFiniteSet(1..Len(s))
    BY <2>1, FS_Interval
  <2>. HIDE DEF C
  <2>3. IsFiniteSet(C)
    BY <2>1, <2>2, FS_Subset
  <2>. QED  BY <2>1, <2>3
<1>2. Orders(R, C)
  <2>1. \A x, y \in C : <<x, y>> \in R <=> x < y
    OBVIOUS
  <2>. HIDE DEF R, C
  <2>. QED  BY <1>1, <2>1 DEF Orders
<1>3. L \in Seq(C) /\ Range(L) = C
  <2>. HIDE DEF R, C
  <2>. QED  BY <1>1, <1>2, ListedFacts
<1>4. Sifted(s, S) = [k \in DOMAIN L |-> s[L[k]]]
  BY DEF Sifted
<1>5. \A x : (x \in Range(s) /\ x \in S) <=> \E i \in C : s[i] = x
  BY DEF Range
<1>. HIDE DEF L, C, R
<1>6. \A x : x \in Range(Sifted(s, S)) <=> \E i \in C : s[i] = x
  BY <1>3, <1>4 DEF Range
<1>7. \A i \in C : s[i] \in A
  BY DEF C
<1>8. DOMAIN L = 1..Len(L) /\ Len(L) \in Nat /\ \A k \in DOMAIN L : L[k] \in C
  BY <1>3
<1>9. Sifted(s, S) \in Seq(A)
  BY <1>4, <1>7, <1>8
<1>. QED  BY <1>5, <1>6, <1>9

(* Nothing is sifted out when every element is wanted.                     *)
LEMMA SiftedAll ==
    ASSUME NEW A, NEW s \in Seq(A), NEW S, Range(s) \subseteq S
    PROVE  Sifted(s, S) = s
<1>. DEFINE n == Len(s)
            C == {i \in DOMAIN s : s[i] \in S}
            R == {p \in C \X C : p[1] < p[2]}
            L == Listed(C, R)
<1>1. n \in Nat /\ DOMAIN s = 1..n /\ C = 1..n
  BY DEF Range
<1>2. IsFiniteSet(C) /\ Cardinality(C) = n
  <2>. HIDE DEF n, C
  <2>1. IsFiniteSet(1..n) /\ Cardinality(1..n) = IF 1 > n THEN 0 ELSE n - 1 + 1
    BY <1>1, FS_Interval
  <2>. QED  BY <1>1, <2>1
<1>3. \A x, y \in C : <<x, y>> \in R <=> x < y
  OBVIOUS
<1>4. Sifted(s, S) = [k \in DOMAIN L |-> s[L[k]]]
  BY DEF Sifted
<1>. HIDE DEF C, R, L
<1>5. Orders(R, C)
  BY <1>1, <1>3 DEF Orders
<1>6. DOMAIN L = 1..n /\ \A i \in 1..n : L[i] \in C /\ Cardinality(Before(L[i], C, R)) = i - 1
  BY <1>1, <1>2, <1>5, ListedFacts DEF L
<1>7. ASSUME NEW x \in 1..n PROVE Cardinality(Before(x, C, R)) = x - 1
  <2>1. Before(x, C, R) = 1..(x - 1)
    BY <1>1, <1>3 DEF Before
  <2>2. x - 1 \in Nat
    BY <1>1
  <2>. QED  BY <2>1, <2>2, FS_Interval
<1>8. ASSUME NEW i \in 1..n PROVE L[i] = i
  BY <1>1, <1>6, <1>7
<1>9. s = [k \in 1..n |-> s[k]]
  BY <1>1
<1>. HIDE DEF n
<1>. QED  BY <1>4, <1>6, <1>8, <1>9

-----------------------------------------------------------------------------
(* The block tree and the rows of a branch.                                *)

(* A set of heights has a smallest one: its segments 0..n are finite sets, *)
(* ordered by strict inclusion.                                            *)
LEMMA LeastNat ==
    ASSUME NEW T, T \subseteq Nat, T # {}
    PROVE  \E x \in T : \A y \in T : x <= y
<1>. DEFINE I == {0..n : n \in T}
<1>0. \A n \in Nat : IsFiniteSet(0..n) /\ 0..n \in SUBSET Nat
  BY FS_Interval
<1>1. I \subseteq FiniteSubsetsOf(Nat) /\ I # {}
  BY <1>0 DEF FiniteSubsetsOf
<1>2. \E s \in I : \A t \in I : ~(<<t, s>> \in StrictSubsetOrdering(Nat))
  <2>. HIDE DEF I
  <2>. QED  BY <1>1, WFMin, FS_StrictSubsetOrderingWellFounded
<1>3. PICK x \in T : \A y \in T : ~(<<0..y, 0..x>> \in StrictSubsetOrdering(Nat))
  BY <1>2
<1>4. ASSUME NEW y \in T, y < x PROVE FALSE
  <2>1. 0..y \subseteq 0..x /\ x \notin 0..y /\ x \in 0..x
    BY <1>4
  <2>. QED  BY <1>0, <1>3, <2>1 DEF StrictSubsetOrdering
<1>. QED  BY <1>4

(* A branch has a block at every height up to its tip: take the lowest tip *)
(* of a branch that has none at height h.                                  *)
LEMMA BlockAtHeight ==
    ASSUME NEW b \in Blocks, NEW h \in 0..Height[b]
    PROVE  \E a \in Chain[b] : Height[a] = h
<1>. DEFINE Bad == {n \in Nat : \E c \in Blocks : Height[c] = n /\ ~\E a \in Chain[c] : Height[a] = h}
<1>. DEFINE T == {n \in Bad : n >= h}
<1>. SUFFICES ASSUME T # {} PROVE FALSE
  BY TreeAssumption
<1>1. PICK n \in T : \A m \in T : n <= m
  BY LeastNat
<1>2. PICK c \in Blocks : Height[c] = n /\ ~\E a \in Chain[c] : Height[a] = h
  BY <1>1
<1>3. n # h
  BY <1>2, TreeAssumption
<1>4. Parent[c] \in Blocks /\ Height[Parent[c]] = n - 1 /\ n - 1 >= h
  BY <1>1, <1>2, <1>3, TreeAssumption, HeightAssumption
<1>5. ~\E a \in Chain[Parent[c]] : Height[a] = h
  BY <1>2, TreeAssumption
<1>6. n - 1 \in T
  BY <1>1, <1>4, <1>5
<1>7. n \in Nat
  BY <1>1
<1>. HIDE DEF T
<1>. QED  BY <1>1, <1>6, <1>7

LEMMA Branches ==
    ASSUME NEW b \in Blocks \cup {NoBlock}
    PROVE  /\ Chain[b] \subseteq Blocks
           /\ b \in Blocks => b \in Chain[b] /\ Height[b] \in Nat
           /\ \A a \in Chain[b] : Chain[a] \subseteq Chain[b] /\ Height[a] \in Nat
           /\ b \in Blocks => \A a \in Chain[b] : Height[a] <= Height[b]
           /\ \A a, c \in Chain[b] : Height[a] = Height[c] => a = c
BY TreeAssumption, HeightAssumption

LEMMA BranchFinite ==
    ASSUME NEW b \in Blocks \cup {NoBlock}
    PROVE  IsFiniteSet(Chain[b])
<1>1. CASE b = NoBlock
  BY <1>1, TreeAssumption, FS_EmptySet
<1>2. CASE b \in Blocks
  <2>. DEFINE f == [a \in Chain[b] |-> Height[a]]
  <2>1. f \in [Chain[b] -> 0..Height[b]] /\ \A x, y \in Chain[b] : f[x] = f[y] => x = y
    BY <1>2, Branches
  <2>2. f \in Injection(Chain[b], 0..Height[b])
    <3>. HIDE DEF f
    <3>. QED  BY <2>1 DEF Injection, IsInjective
  <2>3. IsFiniteSet(0..Height[b])
    BY <1>2, Branches, FS_Interval
  <2>. HIDE DEF f
  <2>. QED  BY <2>2, <2>3, FS_Injection
<1>. QED  BY <1>1, <1>2

(* A branch confirms a transaction once.                                   *)
LEMMA Once ==
    ASSUME NEW p \in Blocks \cup {NoBlock}, NEW a \in Chain[p], NEW c \in Chain[p],
           NEW i \in DOMAIN BlockTxs[a], NEW j \in DOMAIN BlockTxs[c], BlockTxs[a][i] = BlockTxs[c][j]
    PROVE  a = c /\ i = j
BY NoDuplicateTx, TreeAssumption

LEMMA OnceIn ==
    ASSUME NEW p \in Blocks \cup {NoBlock}, NEW a \in Chain[p], NEW c \in Chain[p],
           NEW t \in TxsOf(a), t \in TxsOf(c)
    PROVE  a = c
BY Once DEF TxsOf

LEMMA BlockTxsType ==
    ASSUME NEW b \in Blocks
    PROVE  BlockTxs[b] \in Seq(Txs) /\ TxsOf(b) \subseteq Txs
BY TxAssumption DEF TxsOf

LEMMA RowsInConcat ==
    ASSUME NEW S, NEW f \in Seq(SUBSET S), NEW g \in Seq(SUBSET S)
    PROVE  RowsIn(f \o g) = RowsIn(f) \cup RowsIn(g)
<1>1. /\ f \o g \in Seq(SUBSET S)
      /\ Len(f \o g) = Len(f) + Len(g)
      /\ \A i \in 1 .. Len(f) + Len(g) :
            (f \o g)[i] = IF i <= Len(f) THEN f[i] ELSE g[i - Len(f)]
  BY ConcatProperties
<1>2. /\ DOMAIN f = 1..Len(f) /\ Len(f) \in Nat
      /\ DOMAIN g = 1..Len(g) /\ Len(g) \in Nat
      /\ DOMAIN (f \o g) = 1..(Len(f) + Len(g))
  BY <1>1
<1> DEFINE h == f \o g
<1>3. \A i \in DOMAIN h : h[i] \subseteq RowsIn(f) \cup RowsIn(g)
  <2> SUFFICES ASSUME NEW i \in DOMAIN h PROVE h[i] \subseteq RowsIn(f) \cup RowsIn(g)
    OBVIOUS
  <2>1. CASE i <= Len(f)
    <3>1. i \in DOMAIN f /\ h[i] = f[i]
      BY <1>1, <1>2, <2>1
    <3> HIDE DEF h
    <3> QED BY <3>1 DEF RowsIn
  <2>2. CASE ~(i <= Len(f))
    <3>1. i - Len(f) \in DOMAIN g /\ h[i] = g[i - Len(f)]
      BY <1>1, <1>2, <2>2
    <3> HIDE DEF h
    <3> QED BY <3>1 DEF RowsIn
  <2> QED BY <2>1, <2>2
<1>4. \A i \in DOMAIN f : i \in DOMAIN h /\ h[i] = f[i]
  BY <1>1, <1>2
<1>5. \A i \in DOMAIN g : i + Len(f) \in DOMAIN h /\ h[i + Len(f)] = g[i]
  BY <1>1, <1>2
<1> HIDE DEF h
<1>6. RowsIn(h) = RowsIn(f) \cup RowsIn(g)
  BY <1>3, <1>4, <1>5 DEF RowsIn
<1> QED BY <1>1, <1>6 DEF h

LEMMA IndexRowsOfBlock ==
    ASSUME NEW b \in Blocks, NEW r
    PROVE  r \in IndexRows(b) <=>
             \/ r = DoneRow(b)
             \/ \E i \in DOMAIN BlockTxs[b] : r \in index_transaction(BlockTxs[b][i], Height[b], i)
<1> DEFINE n == Len(BlockTxs[b])
           f == [i \in 1..n |-> index_transaction(BlockTxs[b][i], Height[b], i)]
           g == << {DoneRow(b)} >>
           U == RowsIn(f) \cup RowsIn(g)
<1>1. n \in Nat /\ DOMAIN BlockTxs[b] = 1..n
  BY TxAssumption
<1>2. f \in Seq(SUBSET U)
  <2>1. DOMAIN f = 1..n /\ f = [i \in 1..n |-> f[i]]
    OBVIOUS
  <2> HIDE DEF f, g
  <2>2. \A i \in 1..n : f[i] \in SUBSET U
    BY <2>1 DEF RowsIn
  <2> QED BY <1>1, <2>1, <2>2
<1>3. g \in Seq(SUBSET U)
  BY DEF RowsIn
<1>4. index_blocks(b) = f \o g
  BY DEF index_blocks
<1>5. \A q : q \in RowsIn(g) <=> q = DoneRow(b)
  BY DEF RowsIn, DoneRow
<1>6. DOMAIN f = 1..n /\ \A i \in 1..n : f[i] = index_transaction(BlockTxs[b][i], Height[b], i)
  BY <1>1
<1> HIDE DEF f
<1>7. \A q : q \in RowsIn(f) <=> \E i \in 1..n : q \in index_transaction(BlockTxs[b][i], Height[b], i)
  BY <1>6 DEF RowsIn
<1> HIDE DEF g, n
<1>8. RowsIn(f \o g) = U
  BY <1>2, <1>3, RowsInConcat
<1> QED BY <1>1, <1>4, <1>5, <1>7, <1>8 DEF IndexRows

(* The history rows of the script that a transaction at position i of a    *)
(* block at height h has.                                                  *)
LEMMA TxHistRows ==
    ASSUME NEW t, NEW h, NEW i, NEW r \in index_transaction(t, h, i), r[1] = "S" \/ r[1] = "H"
    PROVE  /\ TxOf(r) = t
           /\ r[1] = "S" => \E o \in Spends[t] : r = <<"S", o, t>>
           /\ r[1] = "H" => /\ r = <<"H", r[2], h, i, r[5], r[6], t>> /\ r[2] = ScriptOf(r[6])
                            /\ \/ r[5] = "F" /\ r[6] \in OutsOf(t)
                               \/ r[5] = "S" /\ r[6] \in Spends[t]
<1>1. CASE r \in {<<"H", ScriptOf(o), h, i, "F", o, t>> : o \in {p \in OutsOf(t) : Indexable(p)}}
  <2>1. PICK o \in OutsOf(t) : r = <<"H", ScriptOf(o), h, i, "F", o, t>>
    BY <1>1
  <2>. QED  BY <2>1 DEF TxOf
<1>2. CASE r \in {<<"H", ScriptOf(o), h, i, "S", o, t>> : o \in Spends[t]}
  <2>1. PICK o \in Spends[t] : r = <<"H", ScriptOf(o), h, i, "S", o, t>>
    BY <1>2
  <2>. QED  BY <2>1 DEF TxOf
<1>3. CASE r \in {<<"S", o, t>> : o \in Spends[t]}
  <2>1. PICK o \in Spends[t] : r = <<"S", o, t>>
    BY <1>3
  <2>2. r[1] = "S" /\ TxOf(r) = t
    BY <2>1 DEF TxOf
  <2>. QED  BY <2>1, <2>2
<1>. QED  BY <1>1, <1>2, <1>3 DEF index_transaction

LEMMA HistRowsOf ==
    ASSUME NEW S \in SUBSET Blocks, NEW r
    PROVE  r \in HistRows(S) <=>
             /\ r[1] = "S" \/ (r[1] = "H" /\ r[2] = Script)
             /\ \E b \in S : \E i \in DOMAIN BlockTxs[b] : r \in index_transaction(BlockTxs[b][i], Height[b], i)
<1>1. \A b : DoneRow(b)[1] = "D"
  BY DEF DoneRow
<1>2. r \in HistRows(S) <=> /\ r[1] = "S" \/ (r[1] = "H" /\ r[2] = Script)
                            /\ \E b \in S : r \in IndexRows(b)
  BY DEF HistRows, IndexRowsOf
<1>. QED  BY <1>1, <1>2, IndexRowsOfBlock

(* Of what block and transaction a history row is.                         *)
LEMMA HistRowFacts ==
    ASSUME NEW S \in SUBSET Blocks, NEW r \in HistRows(S)
    PROVE  \E b \in S : \E i \in DOMAIN BlockTxs[b] :
             /\ TxOf(r) = BlockTxs[b][i] /\ r \in HistRows({b})
             /\ r[1] = "S" => \E o \in Spends[TxOf(r)] : r = <<"S", o, TxOf(r)>>
             /\ r[1] = "H" => /\ r = <<"H", Script, Height[b], i, r[5], r[6], TxOf(r)>>
                              /\ ScriptOf(r[6]) = Script
                              /\ \/ r[5] = "F" /\ r[6] \in OutsOf(TxOf(r))
                                 \/ r[5] = "S" /\ r[6] \in Spends[TxOf(r)]
<1>0. PICK b \in S : \E i \in DOMAIN BlockTxs[b] : r \in index_transaction(BlockTxs[b][i], Height[b], i)
  BY HistRowsOf
<1>1. PICK i \in DOMAIN BlockTxs[b] : r \in index_transaction(BlockTxs[b][i], Height[b], i)
  BY <1>0
<1>2. r[1] = "S" \/ (r[1] = "H" /\ r[2] = Script)
  BY HistRowsOf
<1>3. r \in HistRows({b})
  <2>1. {b} \in SUBSET Blocks
    OBVIOUS
  <2>. QED  BY <1>1, <1>2, <2>1, HistRowsOf
<1>4. /\ TxOf(r) = BlockTxs[b][i]
      /\ r[1] = "S" => \E o \in Spends[TxOf(r)] : r = <<"S", o, TxOf(r)>>
      /\ r[1] = "H" => /\ r = <<"H", r[2], Height[b], i, r[5], r[6], TxOf(r)>> /\ r[2] = ScriptOf(r[6])
                       /\ \/ r[5] = "F" /\ r[6] \in OutsOf(TxOf(r))
                          \/ r[5] = "S" /\ r[6] \in Spends[TxOf(r)]
  BY <1>1, <1>2, TxHistRows
<1>. QED  BY <1>1, <1>2, <1>3, <1>4

LEMMA HistRowTx ==
    ASSUME NEW S \in SUBSET Blocks, NEW r \in HistRows(S)
    PROVE  \E b \in S : TxOf(r) \in TxsOf(b)
<1>1. PICK b \in S : \E i \in DOMAIN BlockTxs[b] : TxOf(r) = BlockTxs[b][i]
  BY HistRowFacts
<1>. QED  BY <1>1 DEF TxsOf

(* A confirmed transaction spends outputs of its chain.                    *)
LEMMA SpentInChain ==
    ASSUME NEW b \in Blocks, NEW t \in TxsOf(b), NEW o \in Spends[t]
    PROVE  \E c \in Chain[b] : o[1] \in TxsOf(c)
<1>1. PICK i \in DOMAIN BlockTxs[b] : t = BlockTxs[b][i]
  BY DEF TxsOf
<1>2. PICK c \in Chain[b] : \E j \in DOMAIN BlockTxs[c] : BlockTxs[c][j] = o[1]
  BY <1>1, SpendAssumption
<1>. QED  BY <1>2 DEF TxsOf

(* Which rows a block contributes for the script.                          *)
LEMMA RowsThere ==
    ASSUME NEW S \in SUBSET Blocks, NEW b \in S, NEW i \in DOMAIN BlockTxs[b], NEW o, ScriptOf(o) = Script
    PROVE  LET t == BlockTxs[b][i]
           IN  /\ o \in OutsOf(t) => <<"H", Script, Height[b], i, "F", o, t>> \in HistRows(S)
               /\ o \in Spends[t] => <<"H", Script, Height[b], i, "S", o, t>> \in HistRows(S)
<1>. DEFINE t == BlockTxs[b][i]
<1>0. t \in Txs
  BY BlockTxsType DEF TxsOf
<1>1. ASSUME o \in OutsOf(t) PROVE <<"H", Script, Height[b], i, "F", o, t>> \in HistRows(S)
  <2>1. o \in Outpoints
    BY <1>0, <1>1 DEF Outpoints, OutsOf
  <2>2. Indexable(o)
    BY <2>1, SpendAssumption
  <2>. DEFINE r == <<"H", Script, Height[b], i, "F", o, t>>
  <2>3. r \in index_transaction(t, Height[b], i)
    BY <1>1, <2>2 DEF index_transaction
  <2>4. r[1] = "H" /\ r[2] = Script
    OBVIOUS
  <2>. HIDE DEF r
  <2>. QED  BY <2>3, <2>4, HistRowsOf DEF r
<1>2. ASSUME o \in Spends[t] PROVE <<"H", Script, Height[b], i, "S", o, t>> \in HistRows(S)
  <2>. DEFINE r == <<"H", Script, Height[b], i, "S", o, t>>
  <2>3. r \in index_transaction(t, Height[b], i)
    BY <1>2 DEF index_transaction
  <2>4. r[1] = "H" /\ r[2] = Script
    OBVIOUS
  <2>. HIDE DEF r
  <2>. QED  BY <2>3, <2>4, HistRowsOf DEF r
<1>. QED  BY <1>1, <1>2

LEMMA ConfRowsOf ==
    ASSUME NEW S
    PROVE  \A r : r \in ConfRows(S) <=> \E b \in S : \E t \in TxsOf(b) : r = <<t, b>>
BY DEF ConfRows

(* Rows of blocks of one branch: those of disjoint blocks are disjoint.    *)
LEMMA RowSets ==
    ASSUME NEW p \in Blocks \cup {NoBlock}, NEW S \in SUBSET Chain[p], NEW T \in SUBSET Chain[p]
    PROVE  /\ TxRows(S \cup T) = TxRows(S) \cup TxRows(T)
           /\ ConfRows(S \cup T) = ConfRows(S) \cup ConfRows(T)
           /\ HistRows(S \cup T) = HistRows(S) \cup HistRows(T)
           /\ S \cap T = {} => /\ TxRows(S) \cap TxRows(T) = {}
                               /\ ConfRows(S) \cap ConfRows(T) = {}
                               /\ HistRows(S) \cap HistRows(T) = {}
<1>0. S \in SUBSET Blocks /\ T \in SUBSET Blocks
  BY Branches
<1>1. TxRows(S \cup T) = TxRows(S) \cup TxRows(T)
  BY DEF TxRows
<1>2. ConfRows(S \cup T) = ConfRows(S) \cup ConfRows(T)
  <2>1. \A r : r \in ConfRows(S \cup T) <=> r \in ConfRows(S) \/ r \in ConfRows(T)
    BY DEF ConfRows
  <2>. QED  BY <2>1
<1>3. HistRows(S \cup T) = HistRows(S) \cup HistRows(T)
  <2>1. IndexRowsOf(S \cup T) = IndexRowsOf(S) \cup IndexRowsOf(T)
    BY DEF IndexRowsOf
  <2>. QED  BY <2>1 DEF HistRows
<1>4. ASSUME S \cap T = {} PROVE TxRows(S) \cap TxRows(T) = {}
  <2>. SUFFICES ASSUME NEW t \in TxRows(S), t \in TxRows(T) PROVE FALSE
    OBVIOUS
  <2>1. PICK a \in S : t \in TxsOf(a)
    BY DEF TxRows
  <2>2. PICK c \in T : t \in TxsOf(c)
    BY DEF TxRows
  <2>. QED  BY <1>4, <2>1, <2>2, OnceIn
<1>5. ASSUME S \cap T = {} PROVE ConfRows(S) \cap ConfRows(T) = {}
  <2>. SUFFICES ASSUME NEW r \in ConfRows(S), r \in ConfRows(T) PROVE FALSE
    OBVIOUS
  <2>1. PICK a \in S : \E t \in TxsOf(a) : r = <<t, a>>
    BY ConfRowsOf
  <2>2. PICK c \in T : \E t \in TxsOf(c) : r = <<t, c>>
    BY ConfRowsOf
  <2>. QED  BY <1>5, <2>1, <2>2
<1>6. ASSUME S \cap T = {} PROVE HistRows(S) \cap HistRows(T) = {}
  <2>. SUFFICES ASSUME NEW r \in HistRows(S), r \in HistRows(T) PROVE FALSE
    OBVIOUS
  <2>1. PICK a \in S : TxOf(r) \in TxsOf(a)
    BY <1>0, HistRowTx
  <2>2. PICK c \in T : TxOf(r) \in TxsOf(c)
    BY <1>0, HistRowTx
  <2>. QED  BY <1>6, <2>1, <2>2, OnceIn
<1>. QED  BY <1>1, <1>2, <1>3, <1>4, <1>5, <1>6

-----------------------------------------------------------------------------
(* The writer: what the main loop has written, at each of its steps.       *)

LEMMA Arrangement ==
    ASSUME NEW S, IsFiniteSet(S), NEW f \in SetToSeqs(S)
    PROVE  f \in Seq(S) /\ IsInjective(f) /\ Range(f) = S /\ Len(f) = Cardinality(S)
<1>. DEFINE n == Cardinality(S)
<1>1. n \in Nat
  BY FS_CardinalityType
<1>2. f \in [1..n -> S] /\ \A i, j \in 1..n : i # j => f[i] # f[j]
  BY DEF SetToSeqs
<1>3. IsFiniteSet(1..n) /\ Cardinality(1..n) = n
  BY <1>1, FS_Interval
<1>. HIDE DEF n
<1>4. f \in Injection(1..n, S)
  BY <1>2 DEF Injection, IsInjective
<1>5. f \in Surjection(1..n, S)
  BY <1>3, <1>4, FS_Injection DEF n
<1>6. IsInjective(f) /\ Range(f) = S
  BY <1>2, <1>5 DEF IsInjective, Range, Surjection
<1>. QED  BY <1>1, <1>2, <1>6 DEF n

(* The blocks of the best chain that confirm a transaction.                *)
LEMMA ConfirmingFacts ==
    ASSUME NEW S, conf = ConfRows(S), NEW t
    PROVE  Confirming(t) = {b \in Chain[best] \cap S : t \in TxsOf(b)}
<1>1. \A b : <<t, b>> \in conf <=> b \in S /\ t \in TxsOf(b)
  BY ConfRowsOf
<1>. QED  BY <1>1 DEF Confirming

LEMMA KnownFinite ==
    ASSUME NEW S \in SUBSET Known
    PROVE  IsFiniteSet(S) /\ S \subseteq Txs
BY ReaderAssumption, FS_Subset

LEMMA WriterInit == RestInit => WriterInv
<1>. SUFFICES ASSUME RestInit PROVE WriterInv
  OBVIOUS
<1>1. best = Start /\ Start \in Blocks /\ step = "idle" /\ reorged = {} /\ coming = {} /\ gone = {}
  BY ReaderAssumption DEF RestInit
<1>2. Former = Chain[Start] /\ Stored = Chain[Start] /\ Historic = Chain[Start]
  BY <1>1 DEF Former, Stored, Historic
<1>3. BranchInv
  BY <1>1, <1>2 DEF BranchInv
<1>4. StoreInv
  BY <1>2 DEF RestInit, StoreInv
<1>5. PoolInv
  <2>1. {t \in Known : Confirming(t) = {}} = Unconfirmed
    <3>1. \A t : Confirming(t) = {b \in Chain[best] \cap Chain[Start] : t \in TxsOf(b)}
      BY <1>2, <1>4, ConfirmingFacts DEF StoreInv
    <3>. QED  BY <1>1, <3>1 DEF Unconfirmed
  <2>2. pool \in SetToSeqs(Unconfirmed)
    BY <2>1 DEF RestInit
  <2>3. Unconfirmed \in SUBSET Known
    BY DEF Unconfirmed
  <2>4. IsFiniteSet(Unconfirmed) /\ Unconfirmed \subseteq Txs
    BY <2>3, KnownFinite
  <2>5. pool \in Seq(Unconfirmed) /\ IsInjective(pool) /\ Range(pool) = Unconfirmed
    BY <2>2, <2>4, Arrangement
  <2>6. pool \in Seq(Txs)
    BY <2>4, <2>5, SeqMonotonic
  <2>. QED  BY <1>1, <2>3, <2>5, <2>6 DEF PoolInv, Pool, Range
<1>. QED  BY <1>3, <1>4, <1>5 DEF WriterInv

(* No request writes anything that the main loop keeps, but the U row.     *)
LEMMA RequestsReadOnly ==
    ASSUME ClientAsks \/ Handler
    PROVE  UNCHANGED written /\ (UNCHANGED ucache \/ UtxoSave)
<1>1. ASSUME ClientAsks PROVE UNCHANGED backend
  <2>1. ASSUME NEW h, ByHeight(h) PROVE UNCHANGED backend
    BY <2>1 DEF ByHeight, FreshRead
  <2>2. ASSUME NEW b, Status(b) \/ Block(b) \/ Raw(b) \/ BlockPage(b) PROVE UNCHANGED backend
    BY <2>2 DEF Status, Block, Raw, BlockPage, FreshRead
  <2>3. ASSUME NEW t, Tx(t) \/ TxStatus(t) \/ Proof(t) PROVE UNCHANGED backend
    BY <2>3 DEF Tx, TxStatus, Proof, FreshRead
  <2>4. ASSUME NEW o, OutSpend(o) PROVE UNCHANGED backend
    BY <2>4 DEF OutSpend, FreshRead
  <2>5. ASSUME NEW op, NEW cursor, History(op, cursor) PROVE UNCHANGED backend
    BY <2>5 DEF History
  <2>6. CASE Utxo
    BY <2>6 DEF Utxo, FreshRead
  <2>. QED  BY <1>1, <2>1, <2>2, <2>3, <2>4, <2>5, <2>6 DEF ClientAsks, NextPage
<1>2. ASSUME \/ Lifetime \/ BlockMeta \/ BlockMtp \/ RawTxids \/ RawTx
             \/ BlockPageId \/ BlockPageTx \/ BlockPageTtl \/ BlockPagePrev
             \/ TxPool \/ TxBlock \/ TxTtl \/ TxPrev \/ ProofTxids \/ PoolSpend
      PROVE  UNCHANGED backend
  BY <1>2 DEF Resumed, Lifetime, BlockMeta, BlockMtp, RawTxids, RawTx, BlockPageId, BlockPageTx, BlockPageTtl,
              BlockPagePrev, TxPool, TxBlock, TxTtl, TxPrev, ProofTxids, PoolSpend
<1>3. ASSUME \/ FindChain \/ PoolPage \/ ChainPage \/ ChainRow \/ RowTxs \/ PrepareTxs
      PROVE  UNCHANGED backend
  BY <1>3 DEF Resumed, FindChain, PoolPage, ChainPage, ChainRow, RowTxs, PrepareTxs
<1>6. ASSUME UtxoHeight \/ UtxoScan \/ UtxoPool PROVE UNCHANGED backend
  BY <1>6 DEF Resumed, UtxoHeight, UtxoScan, UtxoPool
<1>7. ASSUME UtxoRow PROVE UNCHANGED backend
  BY <1>7 DEF Resumed, UtxoRow
<1>4. CASE UtxoSave
  BY <1>4 DEF UtxoSave, written
<1>5. ASSUME UNCHANGED backend PROVE UNCHANGED written /\ UNCHANGED ucache
  BY <1>5 DEF backend, written
<1>. QED  BY <1>1, <1>2, <1>3, <1>4, <1>5, <1>6, <1>7 DEF Handler

(* The main loop touches no request.                                       *)
LEMMA LoopOutside ==
    ASSUME MainLoop
    PROVE  /\ UNCHANGED session /\ still' = FALSE /\ always' = always \cap InView'
           /\ (\E b \in Moves : ApplyHeaders(b)) \/ (UNCHANGED <<best, quiet, pure>>)
           /\ (\E b \in Moves : ApplyHeaders(b)) => quiet' = FALSE
<1>. USE DEF Watched
<1>1. ASSUME NEW b \in Moves, ApplyHeaders(b)
      PROVE  UNCHANGED session /\ still' = FALSE /\ always' = always \cap InView' /\ quiet' = FALSE
  BY <1>1 DEF ApplyHeaders
<1>2. ASSUME Unindex \/ Unadd \/ CancelCache \/ AddBlocks \/ IndexBlocks \/ DropGone \/ FillPool
      PROVE  UNCHANGED session /\ still' = FALSE /\ always' = always \cap InView' /\ UNCHANGED <<best, quiet, pure>>
  BY <1>2 DEF Unindex, Unadd, CancelCache, AddBlocks, IndexBlocks, DropGone, FillPool
<1>. QED  BY <1>1, <1>2 DEF MainLoop

LEMMA BranchStep ==
    ASSUME BranchInv, [RestNext]_restVars
    PROVE  BranchInv'
<1>0. best \in Blocks /\ Moves \subseteq Blocks
  BY ReaderAssumption DEF BranchInv
<1>1. ASSUME NEW b \in Moves, ApplyHeaders(b) PROVE BranchInv'
  <2>1. /\ best' = b /\ step' = "unindex"
        /\ reorged' = Chain[best] \ Chain[b] /\ coming' = Chain[b] \ Chain[best]
        /\ gone' = gone \cup (Chain[best] \ Chain[b]) /\ Chain[b] \cap gone = {}
    BY <1>1 DEF ApplyHeaders, Following
  <2>2. Former' = Chain[best] /\ (Chain[best] \ coming)' = Chain[b] \cap Chain[best]
    BY <2>1 DEF Former
  <2>3. \E p \in Blocks \cup {NoBlock} : Chain[p] = Chain[b] \cap Chain[best]
    BY <1>0, ForkAssumption
  <2>4. Chain[best] \subseteq Blocks
    BY <1>0, Branches
  <2>. QED  BY <1>0, <2>1, <2>2, <2>3, <2>4 DEF BranchInv
<1>2. CASE Unindex
  BY <1>2 DEF Unindex, Following, BranchInv, Former
<1>3. CASE Unadd
  BY <1>3 DEF Unadd, Following, BranchInv, Former
<1>10. CASE CancelCache
  BY <1>10 DEF CancelCache, Following, BranchInv, Former
<1>4. CASE AddBlocks
  BY <1>4 DEF AddBlocks, Following, BranchInv, Former
<1>5. CASE IndexBlocks
  <2>1. best' = best /\ step' = "drop" /\ reorged' = {} /\ coming' = {} /\ gone' = gone
    BY <1>5 DEF IndexBlocks, Following
  <2>2. Former' = Chain[best] /\ (Chain[best] \ coming)' = Chain[best]
    BY <2>1 DEF Former
  <2>. QED  BY <1>0, <2>1, <2>2 DEF BranchInv
<1>6. CASE DropGone
  BY <1>6 DEF DropGone, Following, BranchInv, Former
<1>7. CASE FillPool
  BY <1>7 DEF FillPool, Following, BranchInv, Former
<1>8. CASE UNCHANGED written
  BY <1>8 DEF written, BranchInv, Former
<1>9. CASE UNCHANGED restVars
  BY <1>8, <1>9 DEF restVars, backend, written
<1>. QED  BY <1>1, <1>2, <1>3, <1>4, <1>5, <1>6, <1>7, <1>8, <1>9, <1>10, RequestsReadOnly DEF RestNext, MainLoop

(* Taking away what is rolled back leaves what both branches share.        *)
LEMMA Sharing ==
    ASSUME BranchInv
    PROVE  /\ TxRows(Former) \ TxRows(reorged) = TxRows(Chain[best] \ coming)
           /\ ConfRows(Former) \ ConfRows(reorged) = ConfRows(Chain[best] \ coming)
           /\ HistRows(Former) \ HistRows(reorged) = HistRows(Chain[best] \ coming)
           /\ Former \ reorged = Chain[best] \ coming
           /\ TxRows(Chain[best] \ coming) \cup TxRows(coming) = TxRows(Chain[best])
           /\ ConfRows(Chain[best] \ coming) \cup ConfRows(coming) = ConfRows(Chain[best])
           /\ HistRows(Chain[best] \ coming) \cup HistRows(coming) = HistRows(Chain[best])
           /\ (Chain[best] \ coming) \cup coming = Chain[best]
<1>. DEFINE S == Chain[best] \ coming
<1>1. PICK p \in Blocks : Chain[p] = Former
  BY DEF BranchInv
<1>2. best \in Blocks
  BY ReaderAssumption DEF BranchInv
<1>3. S \cap reorged = {} /\ S \in SUBSET Chain[p] /\ reorged \in SUBSET Chain[p] /\ Former = S \cup reorged
  BY <1>1 DEF BranchInv, Former
<1>4. S \in SUBSET Chain[best] /\ coming \in SUBSET Chain[best] /\ S \cup coming = Chain[best]
  BY DEF BranchInv
<1>. HIDE DEF S
<1>5. /\ TxRows(S \cup reorged) = TxRows(S) \cup TxRows(reorged) /\ TxRows(S) \cap TxRows(reorged) = {}
      /\ ConfRows(S \cup reorged) = ConfRows(S) \cup ConfRows(reorged) /\ ConfRows(S) \cap ConfRows(reorged) = {}
      /\ HistRows(S \cup reorged) = HistRows(S) \cup HistRows(reorged) /\ HistRows(S) \cap HistRows(reorged) = {}
  <2>1. p \in Blocks \cup {NoBlock} /\ S \in SUBSET Chain[p] /\ reorged \in SUBSET Chain[p]
    BY <1>3
  <2>2. S \cap reorged = {}
    BY <1>3
  <2>3. /\ TxRows(S \cup reorged) = TxRows(S) \cup TxRows(reorged)
        /\ ConfRows(S \cup reorged) = ConfRows(S) \cup ConfRows(reorged)
        /\ HistRows(S \cup reorged) = HistRows(S) \cup HistRows(reorged)
        /\ S \cap reorged = {} => /\ TxRows(S) \cap TxRows(reorged) = {}
                                  /\ ConfRows(S) \cap ConfRows(reorged) = {}
                                  /\ HistRows(S) \cap HistRows(reorged) = {}
    BY <2>1, RowSets, Zenon
  <2>. QED  BY <2>2, <2>3
<1>6. /\ TxRows(S) \cup TxRows(coming) = TxRows(S \cup coming)
      /\ ConfRows(S) \cup ConfRows(coming) = ConfRows(S \cup coming)
      /\ HistRows(S) \cup HistRows(coming) = HistRows(S \cup coming)
  <2>1. best \in Blocks \cup {NoBlock} /\ S \in SUBSET Chain[best] /\ coming \in SUBSET Chain[best]
    BY <1>2, <1>4
  <2>. QED  BY <2>1, RowSets, Zenon
<1>7. Former \ reorged = S
  BY <1>3
<1>8. /\ TxRows(Former) \ TxRows(reorged) = TxRows(S)
      /\ ConfRows(Former) \ ConfRows(reorged) = ConfRows(S)
      /\ HistRows(Former) \ HistRows(reorged) = HistRows(S)
  BY <1>3, <1>5
<1>. QED  BY <1>4, <1>6, <1>7, <1>8 DEF S

LEMMA StoreStep ==
    ASSUME BranchInv, StoreInv, [RestNext]_restVars
    PROVE  StoreInv'
<1>1. ASSUME NEW b \in Moves, ApplyHeaders(b) PROVE StoreInv'
  <2>1. /\ step = "idle" /\ step' = "unindex" /\ best' = b /\ UNCHANGED <<stored, conf, metas, history>>
        /\ reorged' = Chain[best] \ Chain[b] /\ coming' = Chain[b] \ Chain[best]
    BY <1>1 DEF ApplyHeaders, Following
  <2>2. Former' = Chain[best]
    BY <2>1 DEF Former
  <2>3. Stored = Chain[best] /\ Historic = Chain[best] /\ Stored' = Chain[best] /\ Historic' = Chain[best]
    BY <2>1, <2>2 DEF Stored, Historic
  <2>. QED  BY <2>1, <2>3 DEF StoreInv
<1>2. CASE Unindex
  <2>1. /\ step = "unindex" /\ step' = "unadd" /\ history' = history \ HistRows(reorged)
        /\ UNCHANGED <<best, reorged, coming, stored, conf, metas>>
    BY <1>2 DEF Unindex, Following
  <2>2. /\ Former' = Former /\ Stored = Former /\ Stored' = Former
        /\ Historic = Former /\ Historic' = Chain[best] \ coming
    BY <2>1 DEF Former, Stored, Historic
  <2>3. history' = HistRows(Historic')
    BY <2>1, <2>2, Sharing DEF StoreInv
  <2>. QED  BY <2>1, <2>2, <2>3 DEF StoreInv
<1>3. CASE Unadd
  <2>1. /\ step = "unadd" /\ step' = "cancel" /\ UNCHANGED <<best, reorged, coming, history>>
        /\ stored' = stored \ TxRows(reorged) /\ conf' = conf \ ConfRows(reorged) /\ metas' = metas \ reorged
    BY <1>3 DEF Unadd, Following
  <2>2. /\ Stored = Former /\ Stored' = Chain[best] \ coming
        /\ Historic = Chain[best] \ coming /\ Historic' = Chain[best] \ coming
    BY <2>1 DEF Stored, Historic
  <2>3. stored' = TxRows(Stored') /\ conf' = ConfRows(Stored') /\ metas' = Stored'
    BY <2>1, <2>2, Sharing DEF StoreInv
  <2>. QED  BY <2>1, <2>2, <2>3 DEF StoreInv
<1>10. CASE CancelCache
  <2>1. /\ step = "cancel" /\ step' = "add"
        /\ UNCHANGED <<best, reorged, coming, stored, conf, metas, history>>
    BY <1>10 DEF CancelCache, Following
  <2>2. Stored' = Stored /\ Historic' = Historic
    BY <2>1 DEF Stored, Historic
  <2>. QED  BY <2>1, <2>2 DEF StoreInv
<1>4. CASE AddBlocks
  <2>1. /\ step = "add" /\ step' = "index" /\ UNCHANGED <<best, reorged, coming, history>>
        /\ stored' = stored \cup TxRows(coming) /\ conf' = conf \cup ConfRows(coming) /\ metas' = metas \cup coming
    BY <1>4 DEF AddBlocks, Following
  <2>2. /\ Stored = Chain[best] \ coming /\ Stored' = Chain[best]
        /\ Historic = Chain[best] \ coming /\ Historic' = Chain[best] \ coming
    BY <2>1 DEF Stored, Historic
  <2>3. stored' = TxRows(Stored') /\ conf' = ConfRows(Stored') /\ metas' = Stored'
    BY <2>1, <2>2, Sharing DEF StoreInv
  <2>. QED  BY <2>1, <2>2, <2>3 DEF StoreInv
<1>5. CASE IndexBlocks
  <2>1. /\ step = "index" /\ step' = "drop" /\ UNCHANGED <<best, stored, conf, metas>>
        /\ history' = history \cup HistRows(coming)
    BY <1>5 DEF IndexBlocks, Following
  <2>2. /\ Stored = Chain[best] /\ Stored' = Chain[best]
        /\ Historic = Chain[best] \ coming /\ Historic' = Chain[best]
    BY <2>1 DEF Stored, Historic
  <2>3. history' = HistRows(Historic')
    BY <2>1, <2>2, Sharing DEF StoreInv
  <2>. QED  BY <2>1, <2>2, <2>3 DEF StoreInv
<1>6. CASE DropGone \/ FillPool
  <2>1. /\ step \in {"drop", "fill"} /\ step' \in {"fill", "idle"}
        /\ UNCHANGED <<best, stored, conf, metas, history>>
    BY <1>6 DEF DropGone, FillPool, Following
  <2>2. /\ Stored = Chain[best] /\ Stored' = Chain[best]
        /\ Historic = Chain[best] /\ Historic' = Chain[best]
    BY <2>1 DEF Stored, Historic
  <2>. QED  BY <2>1, <2>2 DEF StoreInv
<1>8. CASE UNCHANGED written
  <2>1. Stored' = Stored /\ Historic' = Historic
    BY <1>8 DEF written, Stored, Historic, Former
  <2>. QED  BY <1>8, <2>1 DEF written, StoreInv
<1>9. CASE UNCHANGED restVars
  BY <1>8, <1>9 DEF restVars, backend, written
<1>. QED  BY <1>1, <1>2, <1>3, <1>4, <1>5, <1>6, <1>8, <1>9, <1>10, RequestsReadOnly DEF RestNext, MainLoop

(* Two lists with nothing in common make one list.                         *)
LEMMA Joined ==
    ASSUME NEW A, NEW s \in Seq(A), NEW t \in Seq(A), IsInjective(s), IsInjective(t),
           Range(s) \cap Range(t) = {}
    PROVE  s \o t \in Seq(A) /\ IsInjective(s \o t) /\ Range(s \o t) = Range(s) \cup Range(t)
<1>1. /\ s \o t \in Seq(A) /\ Len(s \o t) = Len(s) + Len(t)
      /\ \A i \in 1..(Len(s) + Len(t)) : (s \o t)[i] = IF i <= Len(s) THEN s[i] ELSE t[i - Len(s)]
  BY ConcatProperties
<1>2. /\ DOMAIN s = 1..Len(s) /\ Len(s) \in Nat /\ DOMAIN t = 1..Len(t) /\ Len(t) \in Nat
      /\ DOMAIN (s \o t) = 1..(Len(s) + Len(t))
  BY <1>1
<1>3. Range(s \o t) = Range(s) \cup Range(t)
  BY RangeConcatenation
<1>4. IsInjective(s \o t)
  <2>. DEFINE u == s \o t
  <2>. SUFFICES ASSUME NEW i \in DOMAIN u, NEW j \in DOMAIN u, u[i] = u[j] PROVE i = j
    BY DEF IsInjective
  <2>1. \A k \in DOMAIN u : \/ k <= Len(s) /\ k \in DOMAIN s /\ u[k] = s[k] /\ u[k] \in Range(s)
                            \/ /\ k > Len(s) /\ k - Len(s) \in DOMAIN t
                               /\ u[k] = t[k - Len(s)] /\ u[k] \in Range(t)
    BY <1>1, <1>2 DEF Range
  <2>. HIDE DEF u
  <2>2. i \in Int /\ j \in Int
    BY <1>2 DEF u
  <2>. QED  BY <1>2, <2>1, <2>2 DEF IsInjective
<1>. QED  BY <1>1, <1>3, <1>4

LEMMA PoolStep ==
    ASSUME BranchInv, PoolInv, [RestNext]_restVars
    PROVE  PoolInv'
<1>0. Pool = Range(pool) /\ Pool' = Range(pool)'
  BY DEF Pool, Range
<1>1. CASE (\E b \in Moves : ApplyHeaders(b)) \/ Unindex \/ Unadd \/ CancelCache \/ AddBlocks \/ IndexBlocks
  <2>1. pool' = pool /\ step' \in {"unindex", "unadd", "cancel", "add", "index", "drop"}
    BY <1>1 DEF ApplyHeaders, Unindex, Unadd, CancelCache, AddBlocks, IndexBlocks, Following
  <2>2. Pool' = Pool
    BY <2>1 DEF Pool
  <2>. QED  BY <2>1, <2>2 DEF PoolInv
<1>2. CASE DropGone
  <2>1. step' = "fill" /\ pool' = Sifted(pool, Unconfirmed) /\ best' = best
    BY <1>2 DEF DropGone, Following
  <2>2. /\ pool' \in Seq(Txs \cap Unconfirmed) /\ IsInjective(pool')
        /\ Range(pool') = Range(pool) \cap Unconfirmed
    BY <2>1, SiftedFacts DEF PoolInv
  <2>3. pool' \in Seq(Txs)
    BY <2>2, SeqMonotonic
  <2>4. Unconfirmed' = Unconfirmed /\ Pool' = Range(pool')
    BY <2>1 DEF Unconfirmed, Pool, Range
  <2>. QED  BY <1>0, <2>1, <2>2, <2>3, <2>4 DEF PoolInv
<1>3. CASE FillPool
  <2>1. PICK s \in SetToSeqs(ToAdd) : pool' = pool \o s
    BY <1>3 DEF FillPool
  <2>2. step = "fill" /\ step' = "idle" /\ best' = best
    BY <1>3 DEF FillPool, Following
  <2>3. ToAdd \in SUBSET Known /\ ToAdd = Unconfirmed \ Range(pool)
    BY <1>0 DEF ToAdd, Unconfirmed
  <2>4. IsFiniteSet(ToAdd) /\ ToAdd \subseteq Txs
    BY <2>3, KnownFinite
  <2>5. s \in Seq(ToAdd) /\ IsInjective(s) /\ Range(s) = ToAdd
    BY <2>1, <2>4, Arrangement
  <2>6. s \in Seq(Txs)
    BY <2>4, <2>5, SeqMonotonic
  <2>7. pool' \in Seq(Txs) /\ IsInjective(pool') /\ Range(pool') = Range(pool) \cup ToAdd
    BY <2>1, <2>3, <2>5, <2>6, Joined DEF PoolInv
  <2>8. Unconfirmed' = Unconfirmed /\ Pool' = Range(pool')
    BY <2>2 DEF Unconfirmed, Pool, Range
  <2>. QED  BY <1>0, <2>2, <2>3, <2>7, <2>8 DEF PoolInv
<1>8. CASE UNCHANGED written
  <2>1. Pool' = Pool /\ Unconfirmed' = Unconfirmed
    BY <1>8 DEF written, Pool, Unconfirmed
  <2>. QED  BY <1>8, <2>1 DEF written, PoolInv
<1>9. CASE UNCHANGED restVars
  BY <1>8, <1>9 DEF restVars, backend, written
<1>. QED  BY <1>1, <1>2, <1>3, <1>8, <1>9, RequestsReadOnly DEF RestNext, MainLoop

LEMMA WriterStep ==
    ASSUME WriterInv, [RestNext]_restVars
    PROVE  WriterInv'
BY BranchStep, StoreStep, PoolStep DEF WriterInv

-----------------------------------------------------------------------------
(* One request.                                                            *)

LEMMA AcceptFacts ==
    ASSUME NEW r, NEW label, NEW l, Accept(r, label, l)
    PROVE  place' = label /\ loc' = l /\ req' = r /\ kept' = kept /\ out' = NoAnswer
BY DEF Accept

LEMMA AnswerFacts ==
    ASSUME NEW r, NEW ttl, NEW body, Answer(r, ttl, body)
    PROVE  /\ place' = "idle" /\ loc' = Idle
           /\ Remembered(r) => req' = r /\ out' = [ttl |-> ttl, body |-> body]
           /\ ~Remembered(r) => req' = NoRequest /\ out' = NoAnswer
           /\ req'.op \in {Absent, "history", "whole", "utxo"}
           /\ \A a \in kept' : \/ a \in kept
                               \/ /\ ttl = "long"
                                  /\ a = [op |-> r.op, arg |-> r.arg, body |-> body, quiet |-> quiet']
<1>1. /\ place' = "idle" /\ loc' = Idle
      /\ req' = IF Remembered(r) THEN r ELSE NoRequest
      /\ out' = IF Remembered(r) THEN [ttl |-> ttl, body |-> body] ELSE NoAnswer
  BY DEF Answer
<1>2. /\ Remembered(r) => req' = r /\ out' = [ttl |-> ttl, body |-> body]
      /\ ~Remembered(r) => req' = NoRequest /\ out' = NoAnswer
  BY <1>1
<1>3. req'.op \in {Absent, "history", "whole", "utxo"}
  BY <1>1 DEF Remembered, NoRequest
<1>4. \/ kept' = kept
      \/ ttl = "long" /\ kept' = kept \cup {[op |-> r.op, arg |-> r.arg, body |-> body, quiet |-> quiet']}
  BY DEF Answer
<1>. QED  BY <1>1, <1>2, <1>3, <1>4

(* The steps of a request: the ones about histories and unspent outputs,   *)
(* and the others.                                                         *)
PlainAsks ==
    \/ \E h \in AskHeights : ByHeight(h)
    \/ \E b \in AskBlocks : Status(b) \/ Block(b) \/ Raw(b) \/ BlockPage(b)
    \/ \E t \in AskTxs : Tx(t) \/ TxStatus(t) \/ Proof(t)
    \/ \E o \in AskOuts : OutSpend(o)

PlainHandler ==
    \/ Lifetime \/ BlockMeta \/ BlockMtp \/ RawTxids \/ RawTx \/ BlockPageId \/ BlockPageTx \/ BlockPageTtl \/ BlockPagePrev
    \/ TxPool \/ TxBlock \/ TxTtl \/ TxPrev \/ ProofTxids \/ PoolSpend

ListHandler == FindChain \/ PoolPage \/ ChainPage \/ ChainRow \/ RowTxs \/ PrepareTxs
UtxoHandler == UtxoHeight \/ UtxoScan \/ UtxoRow \/ UtxoSave \/ UtxoPool

PlainPlaces ==
    {"ttl", "meta", "mtp", "rawtxids", "rawtxs", "pageid", "pagetxs", "pagettl", "pageprev",
     "txpool", "txblock", "txttl", "txprev", "proof", "poolspend"}

LEMMA PlainAsksPlace ==
    ASSUME PlaceInv, PlainAsks
    PROVE  PlaceInv' /\ (place' \in PlainPlaces \/ (place' = "idle" /\ req'.op = Absent))
<1>. USE AcceptFacts, AnswerFacts DEF PlaceInv, PlainPlaces, Listing, Paging, Unspending, Remembered, NoRequest
<1>1. ASSUME NEW h \in AskHeights, ByHeight(h) PROVE PlaceInv' /\ (place' \in PlainPlaces \/ (place' = "idle" /\ req'.op = Absent))
  BY <1>1 DEF ByHeight
<1>2. ASSUME NEW b \in AskBlocks, Status(b) PROVE PlaceInv' /\ (place' \in PlainPlaces \/ (place' = "idle" /\ req'.op = Absent))
  BY <1>2 DEF Status
<1>3. ASSUME NEW b \in AskBlocks, Block(b) PROVE PlaceInv' /\ (place' \in PlainPlaces \/ (place' = "idle" /\ req'.op = Absent))
  BY <1>3 DEF Block
<1>4. ASSUME NEW b \in AskBlocks, Raw(b) PROVE PlaceInv' /\ (place' \in PlainPlaces \/ (place' = "idle" /\ req'.op = Absent))
  BY <1>4 DEF Raw
<1>5. ASSUME NEW b \in AskBlocks, BlockPage(b) PROVE PlaceInv' /\ (place' \in PlainPlaces \/ (place' = "idle" /\ req'.op = Absent))
  BY <1>5 DEF BlockPage
<1>6. ASSUME NEW t \in AskTxs, Tx(t) PROVE PlaceInv' /\ (place' \in PlainPlaces \/ (place' = "idle" /\ req'.op = Absent))
  BY <1>6 DEF Tx
<1>7. ASSUME NEW t \in AskTxs, TxStatus(t) PROVE PlaceInv' /\ (place' \in PlainPlaces \/ (place' = "idle" /\ req'.op = Absent))
  BY <1>7 DEF TxStatus
<1>8. ASSUME NEW t \in AskTxs, Proof(t) PROVE PlaceInv' /\ (place' \in PlainPlaces \/ (place' = "idle" /\ req'.op = Absent))
  BY <1>8 DEF Proof
<1>9. ASSUME NEW o \in AskOuts, OutSpend(o) PROVE PlaceInv' /\ (place' \in PlainPlaces \/ (place' = "idle" /\ req'.op = Absent))
  BY <1>9 DEF OutSpend
<1>. QED  BY <1>1, <1>2, <1>3, <1>4, <1>5, <1>6, <1>7, <1>8, <1>9 DEF PlainAsks

LEMMA PlainHandlerPlace ==
    ASSUME PlaceInv, PlainHandler
    PROVE  PlaceInv' /\ (place' \in PlainPlaces \/ (place' = "idle" /\ req'.op = Absent))
<1>. USE AcceptFacts, AnswerFacts DEF PlaceInv, PlainPlaces, Listing, Paging, Unspending, Remembered, NoRequest,
                                      Continue, Reply, Fail, NotFound
<1>1. CASE Lifetime
  BY <1>1 DEF Lifetime
<1>2. CASE BlockMeta
  BY <1>2 DEF BlockMeta
<1>3. CASE BlockMtp
  BY <1>3 DEF BlockMtp
<1>4. CASE RawTxids
  BY <1>4 DEF RawTxids
<1>5. CASE RawTx
  BY <1>5 DEF RawTx
<1>6. CASE BlockPageId
  BY <1>6 DEF BlockPageId
<1>7. CASE BlockPageTx
  BY <1>7 DEF BlockPageTx
<1>14. CASE BlockPageTtl
  BY <1>14 DEF BlockPageTtl
<1>15. CASE BlockPagePrev
  BY <1>15 DEF BlockPagePrev
<1>8. CASE TxPool
  BY <1>8 DEF TxPool
<1>9. CASE TxBlock
  BY <1>9 DEF TxBlock
<1>10. CASE TxTtl
  BY <1>10 DEF TxTtl
<1>11. CASE TxPrev
  BY <1>11 DEF TxPrev
<1>12. CASE ProofTxids
  BY <1>12 DEF ProofTxids
<1>13. CASE PoolSpend
  BY <1>13 DEF PoolSpend
<1>. QED  BY <1>1, <1>2, <1>3, <1>4, <1>5, <1>6, <1>7, <1>8, <1>9, <1>10, <1>11, <1>12, <1>13,
             <1>14, <1>15 DEF PlainHandler

LEMMA ListAnswers ==
    ASSUME ListHandler
    PROVE  /\ place \in Listing
           /\ \/ \E ttl, body : Answer(req, ttl, body)
              \/ \E l, label : label \in Listing /\ Accept(req, label, l)
BY DEF ListHandler, Listing, Continue, Fail, Reply, FindChain, PoolPage, ChainPage, ChainRow, RowTxs, PrepareTxs

LEMMA UtxoAnswers ==
    ASSUME UtxoHandler
    PROVE  /\ place \in Unspending
           /\ \/ \E ttl, body : Answer(req, ttl, body)
              \/ \E l, label : label \in Unspending /\ Accept(req, label, l)
<1>. USE DEF Unspending, Continue
<1>1. CASE UtxoHeight
  BY <1>1 DEF UtxoHeight
<1>2. CASE UtxoScan
  BY <1>2 DEF UtxoScan
<1>3. CASE UtxoRow
  <2>1. place = "utxorows" /\ (Continue("utxosave", loc) \/ \E r : UtxoNext(r))
    BY <1>3 DEF UtxoRow
  <2>2. ASSUME NEW r, UtxoNext(r)
        PROVE  (\E ttl, body : Answer(req, ttl, body)) \/ \E l : Accept(req, "utxorows", l)
    BY <2>2 DEF UtxoNext, Fail, Reply
  <2>. QED  BY <2>1, <2>2
<1>4. CASE UtxoSave
  BY <1>4 DEF UtxoSave
<1>5. CASE UtxoPool
  BY <1>5 DEF UtxoPool, Reply
<1>. QED  BY <1>1, <1>2, <1>3, <1>4, <1>5 DEF UtxoHandler

LEMMA PlaceStep ==
    ASSUME PlaceInv, [RestNext]_restVars
    PROVE  PlaceInv'
<1>1. CASE MainLoop
  BY <1>1, LoopOutside DEF PlaceInv, session
<1>2. ASSUME NEW op \in {"history", "whole"}, NEW cursor, History(op, cursor) PROVE PlaceInv'
  BY <1>2, AcceptFacts DEF PlaceInv, Listing, Paging, Unspending, History
<1>3. ASSUME NEW ttl, NEW body, Answer(req, ttl, body) PROVE PlaceInv'
  BY <1>3, AnswerFacts DEF PlaceInv, Listing, Paging, Unspending
<1>4. ASSUME NEW l, NEW label, Accept(req, label, l),
             (place \in Listing /\ label \in Listing) \/ (place \in Unspending /\ label \in Unspending)
      PROVE  PlaceInv'
  <2>1. req' = req /\ place' = label
    BY <1>4, AcceptFacts
  <2>. QED  BY <1>4, <2>1 DEF PlaceInv, Listing, Paging, Unspending
<1>5. CASE Utxo
  <2>1. PICK l, label : label \in Unspending /\ Accept([op |-> "utxo", arg |-> Script], label, l)
    BY <1>5 DEF Utxo, Unspending
  <2>. QED  BY <2>1, AcceptFacts DEF PlaceInv, Listing, Paging, Unspending
<1>6. CASE ListHandler \/ UtxoHandler
  BY <1>3, <1>4, <1>6, ListAnswers, UtxoAnswers
<1>7. CASE UNCHANGED restVars
  BY <1>7 DEF restVars, session, PlaceInv
<1>8. CASE PlainAsks \/ PlainHandler
  BY <1>8, PlainAsksPlace, PlainHandlerPlace
<1>. QED  BY <1>1, <1>2, <1>5, <1>6, <1>7, <1>8
          DEF RestNext, ClientAsks, Handler, PlainAsks, PlainHandler, ListHandler, UtxoHandler, NextPage

LEMMA IdleFields ==
    /\ Idle = [f \in Fields |-> Idle[f]]
    /\ Idle.block = NoBlock /\ Idle.height = -1 /\ Idle.todo = <<>> /\ Idle.got = <<>> /\ Idle.seen = <<>>
BY DEF Idle, Fields

(* One field of the handler's state is assigned.                           *)
LEMMA Assigned ==
    ASSUME NEW l, l = [f \in Fields |-> l[f]], NEW g \in Fields, NEW v
    PROVE  /\ [l EXCEPT ![g] = v] = [f \in Fields |-> [l EXCEPT ![g] = v][f]]
           /\ [l EXCEPT ![g] = v][g] = v
           /\ \A f \in Fields : f # g => [l EXCEPT ![g] = v][f] = l[f]
<1>1. DOMAIN l = Fields
  OBVIOUS
<1>. QED  BY <1>1

Formed == loc = [f \in Fields |-> loc[f]]

LEMMA AnswerSession ==
    ASSUME NEW r, NEW ttl, NEW body, Answer(r, ttl, body)
    PROVE  SessionInv'
<1>1. place' = "idle" /\ loc' = Idle
  BY AnswerFacts
<1>. QED  BY <1>1, IdleFields DEF SessionInv

(* The block of the best chain at a height.                                *)
LEMMA BlockAtFacts ==
    ASSUME best \in Blocks, NEW h, h \in HeightsOf(best) \/ h \in 0..BestHeight
    PROVE  BlockAt(h) \in Chain[best] /\ Height[BlockAt(h)] = h /\ h \in Nat
<1>1. \E c \in Chain[best] : Height[c] = h
  BY BlockAtHeight DEF HeightsOf, BestHeight
<1>. QED  BY <1>1, Branches DEF BlockAt

LEMMA PlacedFacts ==
    ASSUME best \in Blocks, NEW l, l = [f \in Fields |-> l[f]], NEW t
    PROVE  LET m == Placed(l, t)
           IN  /\ m = [f \in Fields |-> m[f]] /\ m.height \in Nat \cup {-1} /\ m.block = l.block
               /\ m.height # -1 => \E c \in Chain[best] : Height[c] = m.height /\ m.got = <<t, c>>
               /\ \E x, c : m.got = <<x>> \/ m.got = <<x, c>>
<1>. DEFINE m == Placed(l, t)
<1>1. CASE Confirming(t) = {}
  <2>1. m = [l EXCEPT !.height = -1, !.got = <<t>>]
    BY <1>1 DEF Placed
  <2>2. m = [f \in Fields |-> m[f]] /\ m.height = -1 /\ m.block = l.block /\ m.got = <<t>>
    BY <2>1, Assigned DEF Fields
  <2>. QED  BY <2>2
<1>2. CASE Confirming(t) # {}
  <2>1. PICK c \in Confirming(t) : m = [l EXCEPT !.height = Height[c], !.got = <<t, c>>]
    BY <1>2 DEF Placed
  <2>2. m = [f \in Fields |-> m[f]] /\ m.height = Height[c] /\ m.block = l.block /\ m.got = <<t, c>>
    BY <2>1, Assigned DEF Fields
  <2>3. c \in Chain[best] /\ Height[c] \in Nat
    BY Branches DEF Confirming
  <2>. QED  BY <2>2, <2>3
<1>. QED  BY <1>1, <1>2

LEMMA BlockAsks ==
    ASSUME SessionInv, best \in Blocks,
           \/ \E h \in AskHeights : ByHeight(h)
           \/ \E b \in AskBlocks : Status(b) \/ Block(b) \/ Raw(b) \/ BlockPage(b)
    PROVE  SessionInv'
<1>0. best' = best
  BY DEF ByHeight, Status, Block, Raw, BlockPage, FreshRead, backend
<1>1. ASSUME NEW h \in AskHeights, ByHeight(h), h \in HeightsOf(best) PROVE SessionInv'
  <2>. DEFINE l == [Idle EXCEPT !.height = h, !.got = <<BlockAt(h)>>]
  <2>1. place' = "ttl" /\ loc' = l /\ req' = [op |-> "block-height", arg |-> h]
    BY <1>1, AcceptFacts DEF ByHeight
  <2>2. l = [f \in Fields |-> l[f]] /\ l.height = h /\ l.got = <<BlockAt(h)>>
    BY IdleFields, Assigned DEF Fields
  <2>3. BlockAt(h) \in Chain[best] /\ Height[BlockAt(h)] = h /\ h \in Nat
    BY <1>1, BlockAtFacts
  <2>. HIDE DEF l
  <2>4. Reading(req.op, loc.got)'
    BY <1>0, <2>1, <2>2, <2>3 DEF Reading, Refers, AboutTx
  <2>. QED  BY <2>1, <2>2, <2>3, <2>4 DEF SessionInv
<1>2. ASSUME NEW b \in AskBlocks, Status(b), b \in Chain[best] PROVE SessionInv'
  <2>. DEFINE g == <<b>> \o (IF Height[b] < BestHeight THEN <<BlockAt(Height[b] + 1)>> ELSE <<>>)
              l == [Idle EXCEPT !.height = Height[b], !.got = g]
  <2>1. place' = "ttl" /\ loc' = l /\ req' = [op |-> "status", arg |-> b]
    <3>1. Accept([op |-> "status", arg |-> b], "ttl", l)
      BY <1>2 DEF Status
    <3>. HIDE DEF l
    <3>. QED  BY <3>1, AcceptFacts
  <2>2. l = [f \in Fields |-> l[f]] /\ l.height = Height[b] /\ l.got = g
    <3>. HIDE DEF g
    <3>. QED  BY IdleFields, Assigned DEF Fields
  <2>3. Height[b] \in Nat
    BY <1>2, Branches
  <2>. HIDE DEF l, g
  <2>5. Reading(req.op, loc.got)'
    BY <1>0, <1>2, <2>1, <2>2 DEF Reading, Refers, AboutTx
  <2>. QED  BY <2>1, <2>2, <2>3, <2>5 DEF SessionInv
<1>3. ASSUME NEW b \in AskBlocks, Status(b), b \notin Chain[best] PROVE SessionInv'
  <2>1. place' = "ttl" /\ loc' = Idle
    BY <1>3, AcceptFacts DEF Status
  <2>. QED  BY <2>1, IdleFields DEF SessionInv
<1>4. ASSUME NEW b \in AskBlocks, Block(b), b \in Chain[best] PROVE SessionInv'
  <2>. DEFINE l == [Idle EXCEPT !.block = b, !.height = Height[b]]
  <2>1. place' = "meta" /\ loc' = l
    BY <1>4, AcceptFacts DEF Block
  <2>2. l = [f \in Fields |-> l[f]] /\ l.height = Height[b]
    BY IdleFields, Assigned DEF Fields
  <2>3. Height[b] \in Nat
    BY <1>4, Branches
  <2>. QED  BY <2>1, <2>2, <2>3 DEF SessionInv
<1>5. ASSUME NEW b \in AskBlocks, Raw(b), b \in Chain[best] PROVE SessionInv'
  <2>. DEFINE l == [Idle EXCEPT !.block = b]
  <2>1. place' = "rawtxids" /\ loc' = l /\ req' = [op |-> "raw", arg |-> b]
    BY <1>5, AcceptFacts DEF Raw
  <2>2. l = [f \in Fields |-> l[f]] /\ l.height = -1 /\ l.block = b /\ l.got = <<>>
    BY IdleFields, Assigned DEF Fields
  <2>3. b \in Blocks
    BY <1>5, Branches
  <2>. QED  BY <2>1, <2>2, <2>3 DEF SessionInv
<1>6. ASSUME NEW b \in AskBlocks, BlockPage(b), b \in metas PROVE SessionInv'
  <2>. DEFINE l == [Idle EXCEPT !.block = b, !.todo = BlockTxs[b]]
  <2>1. place' = "pageid" /\ loc' = l /\ req' = [op |-> "txs", arg |-> b]
    BY <1>6, AcceptFacts DEF BlockPage
  <2>2. l = [f \in Fields |-> l[f]] /\ l.height = -1 /\ l.block = b
    BY IdleFields, Assigned DEF Fields
  <2>. QED  BY <2>1, <2>2 DEF SessionInv
<1>7. ASSUME NEW r, NEW ttl, NEW body, Answer(r, ttl, body) PROVE SessionInv'
  BY <1>7, AnswerSession
<1>. QED  BY <1>1, <1>2, <1>3, <1>4, <1>5, <1>6, <1>7 DEF ByHeight, Status, Block, Raw, BlockPage

LEMMA TxAsks ==
    ASSUME SessionInv, best \in Blocks,
           \/ \E t \in AskTxs : Tx(t) \/ TxStatus(t) \/ Proof(t)
           \/ \E o \in AskOuts : OutSpend(o)
    PROVE  SessionInv'
<1>0. best' = best
  BY DEF Tx, TxStatus, Proof, OutSpend, FreshRead, backend
<1>1. ASSUME NEW t \in AskTxs, Tx(t) PROVE SessionInv'
  <2>1. place' \in {"txblock", "txpool"} /\ loc' = Idle
    BY <1>1, AcceptFacts DEF Tx
  <2>. QED  BY <2>1, IdleFields DEF SessionInv
<1>2. ASSUME NEW r, NEW t, Accept(r, "ttl", Placed(Idle, t)), r.op \in AboutTx PROVE SessionInv'
  <2>. DEFINE m == Placed(Idle, t)
  <2>1. place' = "ttl" /\ loc' = m /\ req' = r
    BY <1>2, AcceptFacts
  <2>2. /\ m = [f \in Fields |-> m[f]] /\ m.height \in Nat \cup {-1}
        /\ m.height # -1 => \E c \in Chain[best] : Height[c] = m.height /\ m.got = <<t, c>>
    BY IdleFields, PlacedFacts
  <2>. HIDE DEF m
  <2>3. loc'.height # -1 => Reading(req.op, loc.got)'
    BY <1>0, <1>2, <2>1, <2>2 DEF Reading, Refers, AboutTx
  <2>. QED  BY <2>1, <2>2, <2>3 DEF SessionInv
<1>3. ASSUME NEW t \in AskTxs, Proof(t), Confirming(t) # {} PROVE SessionInv'
  <2>. DEFINE m == Placed(Idle, t)
  <2>1. PICK b : /\ place' = "proof" /\ loc' = [m EXCEPT !.block = b]
                 /\ req' = [op |-> "proof", arg |-> t]
    BY <1>3, AcceptFacts DEF Proof
  <2>2. /\ m = [f \in Fields |-> m[f]] /\ m.height \in Nat \cup {-1}
        /\ m.height # -1 => \E c \in Chain[best] : Height[c] = m.height /\ m.got = <<t, c>>
    BY IdleFields, PlacedFacts
  <2>. HIDE DEF m
  <2>3. loc' = [f \in Fields |-> loc'[f]] /\ loc'.height = m.height /\ loc'.got = m.got
    BY <2>1, <2>2, Assigned DEF Fields
  <2>4. loc'.height # -1 => Reading(req.op, loc.got)'
    BY <1>0, <2>1, <2>2, <2>3 DEF Reading, Refers, AboutTx
  <2>. QED  BY <2>1, <2>2, <2>3, <2>4 DEF SessionInv
<1>4. ASSUME NEW t \in AskTxs, TxStatus(t) PROVE SessionInv'
  BY <1>2, <1>4 DEF TxStatus, AboutTx
<1>5. ASSUME NEW t \in AskTxs, Proof(t), Confirming(t) = {} PROVE SessionInv'
  BY <1>5, AnswerSession DEF Proof
<1>6. ASSUME NEW o \in AskOuts, OutSpend(o) PROVE SessionInv'
  <2>. DEFINE r == [op |-> "outspend", arg |-> o]
  <2>1. (\E t : Accept(r, "ttl", Placed(Idle, t))) \/ Accept(r, "poolspend", Idle)
    BY <1>6 DEF OutSpend
  <2>2. r.op \in AboutTx
    BY DEF AboutTx
  <2>. HIDE DEF r
  <2>3. CASE Accept(r, "poolspend", Idle)
    <3>1. place' = "poolspend" /\ loc' = Idle
      BY <2>3, AcceptFacts
    <3>. QED  BY <3>1, IdleFields DEF SessionInv
  <2>. QED  BY <1>2, <2>1, <2>2, <2>3
<1>. QED  BY <1>1, <1>3, <1>4, <1>5, <1>6

(* Moving the head of one list to the end of another.                      *)
LEMMA Moved ==
    ASSUME NEW A, NEW s \in Seq(A), NEW t \in Seq(A), t # <<>>
    PROVE  /\ Append(s, Head(t)) \in Seq(A) /\ Tail(t) \in Seq(A) /\ Head(t) \in A
           /\ Append(s, Head(t)) \o Tail(t) = s \o t
<1>1. Head(t) \in A /\ Tail(t) \in Seq(A) /\ Len(Tail(t)) = Len(t) - 1 /\ Len(t) \in Nat \ {0} /\ Head(t) = t[1]
  BY HeadTailProperties, EmptySeq
<1>2. \A i \in 1..Len(Tail(t)) : Tail(t)[i] = t[i + 1]
  BY HeadTailProperties
<1>. DEFINE u == Append(s, Head(t))
<1>3. u \in Seq(A) /\ Len(u) = Len(s) + 1 /\ u[Len(s) + 1] = t[1] /\ \A i \in 1..Len(s) : u[i] = s[i]
  BY <1>1, AppendProperties
<1>. HIDE DEF u
<1>. DEFINE v == u \o Tail(t)
            w == s \o t
<1>4. /\ v \in Seq(A) /\ Len(v) = Len(u) + Len(Tail(t))
      /\ \A i \in 1..(Len(u) + Len(Tail(t))) : v[i] = IF i <= Len(u) THEN u[i] ELSE Tail(t)[i - Len(u)]
  BY <1>1, <1>3, ConcatProperties
<1>5. /\ w \in Seq(A) /\ Len(w) = Len(s) + Len(t)
      /\ \A i \in 1..(Len(s) + Len(t)) : w[i] = IF i <= Len(s) THEN s[i] ELSE t[i - Len(s)]
  BY ConcatProperties
<1>. HIDE DEF v, w
<1>6. Len(s) \in Nat /\ Len(v) = Len(s) + Len(t) /\ Len(w) = Len(v)
  BY <1>1, <1>3, <1>4, <1>5
<1>7. ASSUME NEW i \in 1..Len(v) PROVE v[i] = w[i]
  <2>0. i \in 1..(Len(u) + Len(Tail(t))) /\ i \in 1..(Len(s) + Len(t)) /\ i \in Nat \ {0}
    BY <1>3, <1>4, <1>6, <1>7
  <2>1. CASE i <= Len(s)
    <3>1. v[i] = u[i] /\ u[i] = s[i]
      BY <1>3, <1>4, <1>6, <2>0, <2>1
    <3>2. w[i] = s[i]
      BY <1>5, <1>6, <2>0, <2>1
    <3>. QED  BY <3>1, <3>2
  <2>2. CASE i = Len(s) + 1
    <3>1. v[i] = t[1]
      BY <1>3, <1>4, <1>6, <2>0, <2>2
    <3>2. w[i] = t[1]
      BY <1>5, <1>6, <2>0, <2>2
    <3>. QED  BY <3>1, <3>2
  <2>3. CASE i > Len(s) + 1
    <3>0. ~(i <= Len(u)) /\ ~(i <= Len(s))
      BY <1>3, <1>6, <2>0, <2>3
    <3>3. v[i] = Tail(t)[i - Len(u)]
      BY <1>4, <2>0, <3>0
    <3>4. w[i] = t[i - Len(s)]
      BY <1>5, <2>0, <3>0
    <3>2. i - Len(u) \in 1..Len(Tail(t)) /\ (i - Len(u)) + 1 = i - Len(s)
      BY <1>1, <1>3, <1>6, <2>0, <2>3
    <3>. QED  BY <1>2, <3>2, <3>3, <3>4
  <2>. QED  BY <1>6, <2>0, <2>1, <2>2, <2>3
<1>8. v = w
  BY <1>4, <1>5, <1>6, <1>7, SeqEqual
<1>. QED  BY <1>1, <1>3, <1>8 DEF u, v, w

LEMMA RowMoved ==
    ASSUME NEW s \in Seq(Txs), NEW t \in Seq(Txs), t # <<>>
    PROVE  /\ Head(t) \in Txs /\ Len(s) \in Nat /\ Len(Append(s, Head(t))) = Len(s) + 1
           /\ Range(Append(s, Head(t))) = Range(s) \cup {Head(t)}
           /\ Range(t) = Range(Tail(t)) \cup {Head(t)}
<1>1. /\ Head(t) \in Txs /\ Tail(t) \in Seq(Txs) /\ Len(Tail(t)) = Len(t) - 1 /\ Len(t) \in Nat \ {0}
      /\ Head(t) = t[1] /\ \A i \in 1..Len(Tail(t)) : Tail(t)[i] = t[i + 1]
  BY HeadTailProperties, EmptySeq
<1>. DEFINE h == Head(t)
            u == Append(s, h)
            v == Tail(t)
<1>2. /\ u \in Seq(Txs) /\ Len(u) = Len(s) + 1 /\ u[Len(s) + 1] = h /\ (\A i \in 1..Len(s) : u[i] = s[i])
      /\ Len(s) \in Nat
  BY <1>1, AppendProperties
<1>3. /\ h \in Txs /\ h = t[1] /\ v \in Seq(Txs) /\ Len(v) = Len(t) - 1 /\ Len(t) \in Nat \ {0}
      /\ \A i \in 1..Len(v) : v[i] = t[i + 1]
  BY <1>1
<1>. HIDE DEF h, u, v
<1>4. DOMAIN s = 1..Len(s) /\ DOMAIN t = 1..Len(t) /\ DOMAIN u = 1..(Len(s) + 1) /\ DOMAIN v = 1..(Len(t) - 1)
  BY <1>2, <1>3
<1>5. Range(u) = Range(s) \cup {h}
  <2>1. ASSUME NEW i \in DOMAIN u PROVE u[i] \in Range(s) \cup {h}
    BY <1>2, <1>4 DEF Range
  <2>2. ASSUME NEW i \in DOMAIN s PROVE s[i] \in Range(u)
    BY <1>2, <1>4 DEF Range
  <2>3. h \in Range(u)
    BY <1>2, <1>4 DEF Range
  <2>. QED  BY <2>1, <2>2, <2>3 DEF Range
<1>6. Range(t) = Range(v) \cup {h}
  <2>1. ASSUME NEW i \in DOMAIN t PROVE t[i] \in Range(v) \cup {h}
    <3>1. CASE i = 1
      BY <1>3, <3>1
    <3>2. CASE i # 1
      <4>1. i - 1 \in 1..Len(v) /\ (i - 1) + 1 = i
        BY <1>3, <1>4, <3>2
      <4>2. v[i - 1] = t[i] /\ i - 1 \in DOMAIN v
        BY <1>3, <1>4, <4>1
      <4>. QED  BY <4>2 DEF Range
    <3>. QED  BY <3>1, <3>2
  <2>2. ASSUME NEW i \in DOMAIN v PROVE v[i] \in Range(t)
    <3>1. i + 1 \in DOMAIN t /\ v[i] = t[i + 1]
      BY <1>3, <1>4
    <3>. QED  BY <3>1 DEF Range
  <2>3. h \in Range(t)
    <3>1. 1 \in DOMAIN t
      BY <1>3, <1>4
    <3>. QED  BY <1>3, <3>1 DEF Range
  <2>. QED  BY <2>1, <2>2, <2>3 DEF Range
<1>. QED  BY <1>2, <1>3, <1>5, <1>6 DEF h, u, v

(* The lifetime is long only for what no reorganisation reaches.           *)
LEMMA LongIsDeep ==
    ASSUME best \in Blocks, NEW c \in Chain[best], ttl_by_depth(Height[c]) = "long"
    PROVE  Final(c)
<1>1. Height[c] \in Nat
  BY Branches
<1>. QED  BY <1>1 DEF ttl_by_depth, Final

LEMMA PutInFront ==
    ASSUME NEW v, NEW g, NEW x, NEW c, g = <<x>> \/ g = <<x, c>>
    PROVE  Head(<<v>> \o g) = v /\ Tail(<<v>> \o g) = g
<1>. DEFINE A == {v, x, c}
            s == <<v>> \o g
<1>0. /\ <<x>> \in Seq(A) /\ Len(<<x>>) = 1
      /\ <<x, c>> \in Seq(A) /\ Len(<<x, c>>) = 2
  OBVIOUS
<1>1. <<v>> \in Seq(A) /\ g \in Seq(A) /\ Len(<<v>>) = 1 /\ <<v>>[1] = v /\ Len(g) \in {1, 2}
  <2>1. CASE g = <<x>>
    BY <1>0, <2>1
  <2>2. CASE g = <<x, c>>
    BY <1>0, <2>2
  <2>. QED  BY <2>1, <2>2
<1>2. /\ s \in Seq(A) /\ Len(s) = 1 + Len(g)
      /\ \A i \in 1..(1 + Len(g)) : s[i] = IF i <= 1 THEN v ELSE g[i - 1]
  BY <1>1, ConcatProperties
<1>. HIDE DEF s
<1>3. s # <<>> /\ Head(s) = v
  BY <1>1, <1>2
<1>4. Tail(s) \in Seq(A) /\ Len(Tail(s)) = Len(g) /\ \A i \in 1..Len(Tail(s)) : Tail(s)[i] = s[i + 1]
  BY <1>1, <1>2, <1>3, HeadTailProperties
<1>5. \A i \in 1..Len(Tail(s)) : Tail(s)[i] = g[i]
  BY <1>1, <1>2, <1>4
<1>6. Tail(s) = g
  BY <1>1, <1>4, <1>5, SeqEqual
<1>. QED  BY <1>3, <1>6 DEF s

(* What the steps of a block page assign.                                  *)
LEMMA BlockPageFacts ==
    ASSUME NEW b, BlockPage(b)
    PROVE  /\ quiet' = TRUE /\ UNCHANGED backend
           /\ \/ Answer([op |-> "txs", arg |-> b], Absent, 404)
              \/ /\ b \in metas /\ place' = "pageid" /\ req' = [op |-> "txs", arg |-> b] /\ kept' = kept
                 /\ Formed' /\ loc'.height = -1 /\ loc'.block = b /\ loc'.todo = BlockTxs[b] /\ loc'.got = <<>>
<1>. DEFINE l == [Idle EXCEPT !.block = b, !.todo = BlockTxs[b]]
            r == [op |-> "txs", arg |-> b]
<1>1. /\ quiet' = TRUE /\ UNCHANGED backend
      /\ Answer(r, Absent, 404) \/ (b \in metas /\ Accept(r, "pageid", l))
  BY DEF BlockPage, Ask, FreshRead
<1>2. /\ l = [f \in Fields |-> l[f]] /\ l.height = -1 /\ l.block = b /\ l.todo = BlockTxs[b]
      /\ l.got = <<>>
  BY IdleFields, Assigned DEF Fields
<1>. HIDE DEF l, r
<1>3. \/ Answer(r, Absent, 404)
      \/ b \in metas /\ place' = "pageid" /\ loc' = l /\ req' = r /\ kept' = kept
  BY <1>1, AcceptFacts
<1>. QED  BY <1>1, <1>2, <1>3 DEF Formed, r

LEMMA BlockPageIdFacts ==
    ASSUME BlockPageId, Formed
    PROVE  /\ place = "pageid" /\ UNCHANGED <<backend, pages, ghosts>>
           /\ place' = "pagetxs" /\ req' = req /\ kept' = kept /\ Formed'
           /\ loc'.block = loc.block /\ loc'.todo = loc.todo /\ loc'.got = loc.got
           /\ \/ loc.block \in Chain[best] /\ loc'.height = Height[loc.block]
              \/ loc'.height = -1
<1>. DEFINE h == IF loc.block \in Chain[best] THEN Height[loc.block] ELSE -1
            l == [loc EXCEPT !.height = h]
<1>1. place = "pageid" /\ UNCHANGED <<backend, pages, ghosts>> /\ Accept(req, "pagetxs", l)
  BY DEF BlockPageId, Resumed, Continue
<1>2. (loc.block \in Chain[best] /\ h = Height[loc.block]) \/ h = -1
  OBVIOUS
<1>. HIDE DEF h
<1>3. /\ l = [f \in Fields |-> l[f]] /\ l.height = h /\ l.block = loc.block
      /\ l.todo = loc.todo /\ l.got = loc.got
  BY Assigned DEF Formed, Fields
<1>. HIDE DEF l
<1>4. place' = "pagetxs" /\ loc' = l /\ req' = req /\ kept' = kept
  BY <1>1, AcceptFacts
<1>. QED  BY <1>1, <1>2, <1>3, <1>4 DEF Formed

LEMMA BlockPageTxFacts ==
    ASSUME BlockPageTx, Formed
    PROVE  /\ place = "pagetxs" /\ UNCHANGED <<backend, pages, ghosts>>
           /\ \/ Answer(req, Absent, 400)
              \/ /\ loc.todo = <<>> /\ place' = "pagettl" /\ loc' = loc /\ req' = req /\ kept' = kept
              \/ /\ loc.todo # <<>> /\ place' = "pagetxs" /\ req' = req /\ kept' = kept /\ Formed'
                 /\ loc'.block = loc.block /\ loc'.height = loc.height
                 /\ loc'.todo = Tail(loc.todo) /\ loc'.got = Append(loc.got, Head(loc.todo))
<1>. DEFINE l == [loc EXCEPT !.todo = Tail(loc.todo), !.got = Append(loc.got, Head(loc.todo))]
<1>0. [loc EXCEPT !.todo = Tail(@), !.got = Append(@, Head(loc.todo))] = l
  BY DEF Formed, Fields
<1>1. /\ place = "pagetxs" /\ UNCHANGED <<backend, pages, ghosts>>
      /\ \/ loc.todo = <<>> /\ Accept(req, "pagettl", loc)
         \/ loc.todo # <<>> /\ Accept(req, "pagetxs", l)
         \/ Answer(req, Absent, 400)
  BY <1>0 DEF BlockPageTx, Resumed, Continue, Fail, Reply
<1>2. /\ l = [f \in Fields |-> l[f]] /\ l.height = loc.height /\ l.block = loc.block
      /\ l.todo = Tail(loc.todo) /\ l.got = Append(loc.got, Head(loc.todo))
  BY Assigned DEF Formed, Fields
<1>. HIDE DEF l
<1>3. \/ loc.todo = <<>> /\ place' = "pagettl" /\ loc' = loc /\ req' = req /\ kept' = kept
      \/ loc.todo # <<>> /\ place' = "pagetxs" /\ loc' = l /\ req' = req /\ kept' = kept
      \/ Answer(req, Absent, 400)
  BY <1>1, AcceptFacts
<1>. QED  BY <1>1, <1>2, <1>3 DEF Formed

LEMMA BlockPageTtlFacts ==
    ASSUME BlockPageTtl, Formed
    PROVE  /\ place = "pagettl" /\ UNCHANGED <<backend, pages, ghosts>>
           /\ place' = "pageprev" /\ req' = req /\ kept' = kept /\ Formed'
           /\ loc'.block = loc.block /\ loc'.todo = loc.todo /\ loc'.got = loc.got /\ loc'.height = loc.height
           /\ loc'.seen = <<ttl_by_depth(loc.height)>>
<1>. DEFINE v == ttl_by_depth(loc.height)
            l == [loc EXCEPT !.seen = <<v>>]
<1>1. place = "pagettl" /\ UNCHANGED <<backend, pages, ghosts>> /\ Accept(req, "pageprev", l)
  BY DEF BlockPageTtl, Resumed, Continue
<1>. HIDE DEF v
<1>2. /\ l = [f \in Fields |-> l[f]] /\ l.height = loc.height /\ l.block = loc.block
      /\ l.todo = loc.todo /\ l.got = loc.got /\ l.seen = <<v>>
  BY Assigned DEF Formed, Fields
<1>. HIDE DEF l
<1>3. place' = "pageprev" /\ loc' = l /\ req' = req /\ kept' = kept
  BY <1>1, AcceptFacts
<1>. QED  BY <1>1, <1>2, <1>3 DEF Formed, v

LEMMA BlockHandlers ==
    ASSUME SessionInv, PlaceInv, best \in Blocks,
           BlockMeta \/ RawTxids \/ RawTx \/ BlockPageId \/ BlockPageTx \/ BlockPageTtl
    PROVE  SessionInv'
<1>0. best' = best /\ quiet' = quiet /\ loc = [f \in Fields |-> loc[f]] /\ loc.height \in Nat \cup {-1}
  BY DEF BlockMeta, RawTxids, RawTx, BlockPageId, BlockPageTx, BlockPageTtl, Resumed, backend, ghosts, SessionInv
<1>1. ASSUME NEW ttl, NEW body, Answer(req, ttl, body) PROVE SessionInv'
  BY <1>1, AnswerSession
<1>2. CASE BlockMeta /\ loc.block \in metas
  <2>1. place' = "mtp" /\ loc' = loc
    BY <1>2, AcceptFacts DEF BlockMeta, Continue
  <2>. QED  BY <1>0, <2>1 DEF SessionInv
<1>3. CASE RawTxids /\ loc.block \in metas
  <2>. DEFINE l == [loc EXCEPT !.todo = BlockTxs[loc.block]]
  <2>1. place = "rawtxids" /\ place' = "rawtxs" /\ loc' = l /\ req' = req
    BY <1>3, AcceptFacts DEF RawTxids, Continue
  <2>2. /\ l = [f \in Fields |-> l[f]] /\ l.height = loc.height /\ l.got = loc.got
        /\ l.todo = BlockTxs[loc.block]
    BY <1>0, Assigned DEF Fields
  <2>. HIDE DEF l
  <2>3. loc.block = req.arg /\ loc.got = <<>> /\ BlockTxs[req.arg] \in Seq(Txs)
    BY <2>1, BlockTxsType DEF SessionInv
  <2>4. <<>> \in Seq(Txs) /\ <<>> \o BlockTxs[req.arg] = BlockTxs[req.arg]
    BY <2>3, ConcatEmptySeq
  <2>. QED  BY <1>0, <2>1, <2>2, <2>3, <2>4 DEF SessionInv
<1>4. CASE RawTx /\ loc.todo # <<>> /\ Head(loc.todo) \in stored
  <2>. DEFINE l == [loc EXCEPT !.todo = Tail(loc.todo), !.got = Append(loc.got, Head(loc.todo))]
  <2>1. place = "rawtxs" /\ place' = "rawtxs" /\ loc' = l /\ req' = req
    <3>1. [loc EXCEPT !.todo = Tail(@), !.got = Append(@, Head(loc.todo))] = l
      BY <1>0 DEF Fields
    <3>2. place = "rawtxs" /\ Accept(req, "rawtxs", l)
      BY <1>4, <3>1 DEF RawTx, Continue
    <3>. HIDE DEF l
    <3>. QED  BY <3>2, AcceptFacts
  <2>2. /\ l = [f \in Fields |-> l[f]] /\ l.height = loc.height
        /\ l.got = Append(loc.got, Head(loc.todo)) /\ l.todo = Tail(loc.todo)
    BY <1>0, Assigned DEF Fields
  <2>. HIDE DEF l
  <2>3. loc.got \in Seq(Txs) /\ loc.todo \in Seq(Txs) /\ loc.got \o loc.todo = BlockTxs[req.arg]
    BY <2>1 DEF SessionInv
  <2>4. /\ l.got \in Seq(Txs) /\ l.todo \in Seq(Txs) /\ l.got \o l.todo = BlockTxs[req.arg]
    <3>. DEFINE s == loc.got
                t == loc.todo
    <3>1. s \in Seq(Txs) /\ t \in Seq(Txs) /\ t # <<>>
      BY <1>4, <2>3
    <3>. HIDE DEF s, t
    <3>2. /\ Append(s, Head(t)) \in Seq(Txs) /\ Tail(t) \in Seq(Txs)
          /\ Append(s, Head(t)) \o Tail(t) = s \o t
      BY <3>1, Moved
    <3>. QED  BY <2>2, <2>3, <3>2 DEF s, t
  <2>. QED  BY <1>0, <2>1, <2>2, <2>4 DEF SessionInv
<1>5. CASE BlockPageId \/ BlockPageTx \/ BlockPageTtl
  <2>0. Formed
    BY <1>0 DEF Formed
  <2>1. CASE \E ttl, body : Answer(req, ttl, body)
    BY <1>1, <2>1
  <2>2. ASSUME ~(\E ttl, body : Answer(req, ttl, body)) PROVE SessionInv'
    <3>1. place' \in {"pagetxs", "pagettl", "pageprev"} /\ Formed' /\ loc'.height \in Nat \cup {-1}
      <4>1. CASE BlockPageId
        BY <2>0, <4>1, BlockPageIdFacts, Branches
      <4>2. CASE BlockPageTx
        BY <1>0, <2>0, <2>2, <4>2, BlockPageTxFacts DEF Formed
      <4>3. CASE BlockPageTtl
        BY <1>0, <2>0, <4>3, BlockPageTtlFacts
      <4>. QED  BY <1>5, <4>1, <4>2, <4>3
    <3>. QED  BY <3>1 DEF SessionInv, Formed
  <2>. QED  BY <2>1, <2>2
<1>. QED  BY <1>1, <1>2, <1>3, <1>4, <1>5
          DEF BlockMeta, RawTxids, RawTx, NotFound, Fail, Reply

LEMMA TxHandlers ==
    ASSUME SessionInv, PlaceInv, best \in Blocks,
           TxPool \/ TxBlock \/ TxTtl \/ ProofTxids \/ PoolSpend
    PROVE  SessionInv'
<1>0. best' = best /\ quiet' = quiet /\ loc = [f \in Fields |-> loc[f]] /\ loc.height \in Nat \cup {-1}
  BY DEF TxPool, TxBlock, TxTtl, ProofTxids, PoolSpend, Resumed, backend, ghosts, SessionInv
<1>1. ASSUME NEW ttl, NEW body, Answer(req, ttl, body) PROVE SessionInv'
  BY <1>1, AnswerSession
<1>2. CASE TxPool /\ req.arg \in Pool
  <2>1. place = "txpool" /\ place' = "txblock" /\ loc' = loc /\ req' = req
    BY <1>2, AcceptFacts DEF TxPool, Continue
  <2>. QED  BY <1>0, <2>1 DEF SessionInv
<1>3. CASE TxBlock
  <2>. DEFINE m == Placed(loc, req.arg)
  <2>1. place = "txblock" /\ place' = "txttl" /\ loc' = m /\ req' = req
    BY <1>3, AcceptFacts DEF TxBlock, Continue
  <2>2. /\ m = [f \in Fields |-> m[f]] /\ m.height \in Nat \cup {-1}
        /\ m.height # -1 => \E c \in Chain[best] : Height[c] = m.height /\ m.got = <<req.arg, c>>
        /\ \E x, c : m.got = <<x>> \/ m.got = <<x, c>>
    <3>. DEFINE t == req.arg
    <3>1. loc = [f \in Fields |-> loc[f]]
      BY <1>0
    <3>. HIDE DEF t
    <3>2. /\ Placed(loc, t) = [f \in Fields |-> Placed(loc, t)[f]] /\ Placed(loc, t).height \in Nat \cup {-1}
          /\ Placed(loc, t).height # -1 => \E c \in Chain[best] : Height[c] = Placed(loc, t).height /\ Placed(loc, t).got = <<t, c>>
          /\ \E x, c : Placed(loc, t).got = <<x>> \/ Placed(loc, t).got = <<x, c>>
      BY <3>1, PlacedFacts, Zenon
    <3>. QED  BY <3>2 DEF t
  <2>. HIDE DEF m
  <2>3. req.op = "tx"
    BY <2>1 DEF PlaceInv
  <2>4. loc'.height # -1 => Reading(req.op, loc.got)'
    BY <1>0, <2>1, <2>2, <2>3 DEF Reading, Refers, AboutTx
  <2>. QED  BY <2>1, <2>2, <2>4 DEF SessionInv
<1>4. CASE TxTtl
  <2>. DEFINE v == ttl_by_depth(loc.height)
              l == [loc EXCEPT !.got = <<v>> \o loc.got]
  <2>1. place = "txttl" /\ Accept(req, "txprev", l)
    <3>. HIDE DEF v
    <3>1. [loc EXCEPT !.got = <<v>> \o @] = l
      BY <1>0 DEF Fields
    <3>. QED  BY <1>4, <3>1 DEF TxTtl, Continue, v
  <2>. HIDE DEF v
  <2>2. l = [f \in Fields |-> l[f]] /\ l.height = loc.height /\ l.got = <<v>> \o loc.got
    BY <1>0, Assigned DEF Fields
  <2>. HIDE DEF l
  <2>3. place' = "txprev" /\ loc' = l /\ req' = req
    BY <2>1, AcceptFacts
  <2>4. Head(l.got) = v /\ Tail(l.got) = loc.got
    <3>1. PICK x, c : loc.got = <<x>> \/ loc.got = <<x, c>>
      BY <2>1 DEF SessionInv
    <3>. DEFINE g == loc.got
    <3>2. g = <<x>> \/ g = <<x, c>>
      BY <3>1
    <3>. HIDE DEF g
    <3>3. Head(<<v>> \o g) = v /\ Tail(<<v>> \o g) = g
      BY <3>2, PutInFront
    <3>. QED  BY <2>2, <3>3 DEF g
  <2>5. ASSUME v = "long", quiet
        PROVE  \E c \in Chain[best] : Final(c) /\ Refers("tx", req.arg, loc.got, c)
    <3>1. loc.height # -1 /\ req.op = "tx"
      BY <2>1, <2>5 DEF v, ttl_by_depth, PlaceInv
    <3>2. PICK c \in Chain[best] : Height[c] = loc.height /\ Refers("tx", req.arg, loc.got, c)
      BY <2>1, <2>5, <3>1 DEF SessionInv, Reading
    <3>. QED  BY <2>5, <3>2, LongIsDeep DEF v
  <2>6. Head(loc'.got) = "long" /\ quiet' =>
          (\E c \in Chain[best] : Final(c) /\ Refers("tx", req.arg, Tail(loc.got), c))'
    BY <1>0, <2>3, <2>4, <2>5 DEF Final, Refers, BestHeight, AboutTx
  <2>. QED  BY <1>0, <2>2, <2>3, <2>6 DEF SessionInv
<1>5. CASE ProofTxids /\ loc.block \in metas
  <2>1. place = "proof" /\ place' = "ttl" /\ loc' = loc /\ req' = req
    BY <1>5, AcceptFacts DEF ProofTxids, Continue
  <2>2. loc.height # -1 => Reading(req.op, loc.got)
    BY <2>1 DEF SessionInv
  <2>3. loc'.height # -1 => Reading(req.op, loc.got)'
    BY <1>0, <2>1, <2>2 DEF Reading, Refers, BestHeight
  <2>. QED  BY <1>0, <2>1, <2>3 DEF SessionInv
<1>6. CASE PoolSpend
  <2>1. PICK g : place = "poolspend" /\ Accept(req, "ttl", [loc EXCEPT !.got = g])
    BY <1>6 DEF PoolSpend, Continue
  <2>. DEFINE l == [loc EXCEPT !.got = g]
  <2>2. l = [f \in Fields |-> l[f]] /\ l.height = loc.height
    BY <1>0, Assigned DEF Fields
  <2>. HIDE DEF l
  <2>3. place' = "ttl" /\ loc' = l /\ loc.height = -1
    BY <2>1, AcceptFacts DEF l, SessionInv
  <2>. QED  BY <2>2, <2>3 DEF SessionInv
<1>. QED  BY <1>1, <1>2, <1>3, <1>4, <1>5, <1>6
          DEF TxPool, ProofTxids, NotFound, Fail, Reply

(* What the steps of a history assign.                                     *)
LEMMA HistoryFacts ==
    ASSUME NEW op \in {"history", "whole"}, NEW cursor, History(op, cursor)
    PROVE  /\ place = "idle" /\ req'.op = op /\ req'.arg = cursor
           /\ kept' = kept /\ out' = NoAnswer /\ UNCHANGED <<backend, pages>>
           /\ still' = (cursor = Absent \/ still)
           /\ always' = IF op = "whole" THEN InView ELSE {}
           /\ Formed' /\ loc'.height = -1 /\ loc'.got = <<>> /\ loc'.seen = <<>>
           /\ \/ (cursor = Absent \/ cursor \in Pool) /\ place' = "poolpage" /\ loc'.todo = <<Absent>>
              \/ cursor # Absent /\ cursor \notin Pool /\ place' = "findchain"
<1>. DEFINE l == [Idle EXCEPT !.todo = <<Absent>>]
            r == [op |-> op, arg |-> cursor]
<1>1. l = [f \in Fields |-> l[f]] /\ l.height = -1 /\ l.got = <<>> /\ l.seen = <<>> /\ l.todo = <<Absent>>
  BY IdleFields, Assigned DEF Fields
<1>2. r.op = op /\ r.arg = cursor
  OBVIOUS
<1>3. /\ place = "idle" /\ UNCHANGED <<backend, pages>> /\ still' = (cursor = Absent \/ still)
      /\ always' = IF r.op = "whole" THEN InView ELSE {}
      /\ \/ (cursor = Absent \/ cursor \in Pool) /\ Accept(r, "poolpage", l)
         \/ cursor # Absent /\ cursor \notin Pool /\ Accept(r, "findchain", Idle)
  BY DEF History, Ask
<1>. HIDE DEF l, r
<1>4. /\ req' = r /\ kept' = kept /\ out' = NoAnswer
      /\ \/ (cursor = Absent \/ cursor \in Pool) /\ place' = "poolpage" /\ loc' = l
         \/ cursor # Absent /\ cursor \notin Pool /\ place' = "findchain" /\ loc' = Idle
  BY <1>3, AcceptFacts
<1>5. Formed' /\ loc'.height = -1 /\ loc'.got = <<>> /\ loc'.seen = <<>>
  BY <1>1, <1>4, IdleFields DEF Formed
<1>. QED  BY <1>1, <1>2, <1>3, <1>4, <1>5

LEMMA FindChainFacts ==
    ASSUME FindChain, Formed
    PROVE  /\ place = "findchain" /\ UNCHANGED <<backend, pages, ghosts>>
           /\ \/ Answer(req, Absent, 422)
              \/ /\ place' = "chainscan" /\ req' = req /\ kept' = kept /\ out' = NoAnswer
                 /\ Formed' /\ loc'.got = loc.got /\ loc'.seen = loc.seen /\ loc'.todo = <<req.arg>>
                 /\ \E b \in Confirming(req.arg) : loc'.height = Height[b]
<1>1. place = "findchain" /\ UNCHANGED <<backend, pages, ghosts>>
  BY DEF FindChain, Resumed
<1>2. CASE Confirming(req.arg) = {}
  BY <1>1, <1>2 DEF FindChain, Fail, Reply
<1>3. CASE Confirming(req.arg) # {}
  <2>. DEFINE b == CHOOSE c \in Confirming(req.arg) : TRUE
              l == [loc EXCEPT !.todo = <<req.arg>>, !.height = Height[b]]
  <2>1. b \in Confirming(req.arg)
    BY <1>3
  <2>2. Accept(req, "chainscan", l)
    BY <1>3 DEF FindChain, Continue
  <2>. HIDE DEF b
  <2>3. /\ l = [f \in Fields |-> l[f]] /\ l.got = loc.got /\ l.seen = loc.seen
        /\ l.todo = <<req.arg>> /\ l.height = Height[b]
    BY Assigned DEF Formed, Fields
  <2>. HIDE DEF l
  <2>4. place' = "chainscan" /\ req' = req /\ kept' = kept /\ out' = NoAnswer /\ loc' = l
    BY <2>2, AcceptFacts
  <2>. QED  BY <1>1, <2>1, <2>3, <2>4 DEF Formed
<1>. QED  BY <1>2, <1>3

LEMMA PoolPageFacts ==
    ASSUME PoolPage, Formed
    PROVE  /\ place = "poolpage" /\ UNCHANGED <<backend, pages, ghosts>>
           /\ place' = "chainscan" /\ req' = req /\ kept' = kept /\ out' = NoAnswer
           /\ Formed' /\ loc'.got = PoolHistory(req.arg, PageSize)
           /\ loc'.seen = loc.seen /\ loc'.todo = loc.todo /\ loc'.height = loc.height
<1>. DEFINE g == PoolHistory(req.arg, PageSize)
            l == [loc EXCEPT !.got = g]
<1>1. place = "poolpage" /\ UNCHANGED <<backend, pages, ghosts>> /\ Accept(req, "chainscan", l)
  BY DEF PoolPage, Resumed, Continue
<1>. HIDE DEF g
<1>2. /\ l = [f \in Fields |-> l[f]] /\ l.got = g
      /\ l.seen = loc.seen /\ l.todo = loc.todo /\ l.height = loc.height
  BY Assigned DEF Formed, Fields
<1>. HIDE DEF l
<1>3. place' = "chainscan" /\ req' = req /\ kept' = kept /\ out' = NoAnswer /\ loc' = l
  BY <1>1, AcceptFacts
<1>. QED  BY <1>1, <1>2, <1>3 DEF Formed, g

LEMMA ChainPageFacts ==
    ASSUME ChainPage, Formed
    PROVE  /\ place = "chainscan" /\ UNCHANGED <<backend, pages, ghosts>>
           /\ place' = "chainrows" /\ req' = req /\ kept' = kept /\ out' = NoAnswer
           /\ Formed' /\ loc'.got = loc.got /\ loc'.seen = loc.seen /\ loc'.height = loc.height
           /\ \/ Len(loc.got) < PageSize /\ loc'.todo = SkipTo(ChainScan(loc.height), Head(loc.todo))
              \/ ~(Len(loc.got) < PageSize) /\ loc'.todo = <<>>
<1>. DEFINE t == SkipTo(ChainScan(loc.height), Head(loc.todo))
            l1 == [loc EXCEPT !.todo = t]
            l2 == [loc EXCEPT !.todo = <<>>]
<1>1. /\ place = "chainscan" /\ UNCHANGED <<backend, pages, ghosts>>
      /\ \/ Len(loc.got) < PageSize /\ Accept(req, "chainrows", l1)
         \/ ~(Len(loc.got) < PageSize) /\ Accept(req, "chainrows", l2)
  BY DEF ChainPage, Resumed, Continue, ConfirmedAfter
<1>. HIDE DEF t
<1>2. /\ l1 = [f \in Fields |-> l1[f]] /\ l1.got = loc.got /\ l1.seen = loc.seen
      /\ l1.height = loc.height /\ l1.todo = t
      /\ l2 = [f \in Fields |-> l2[f]] /\ l2.got = loc.got /\ l2.seen = loc.seen
      /\ l2.height = loc.height /\ l2.todo = <<>>
  BY Assigned DEF Formed, Fields
<1>. HIDE DEF l1, l2
<1>3. /\ place' = "chainrows" /\ req' = req /\ kept' = kept /\ out' = NoAnswer
      /\ \/ Len(loc.got) < PageSize /\ loc' = l1
         \/ ~(Len(loc.got) < PageSize) /\ loc' = l2
  BY <1>1, AcceptFacts
<1>. QED  BY <1>1, <1>2, <1>3 DEF Formed, t

LEMMA ChainRowFacts ==
    ASSUME ChainRow, Formed
    PROVE  /\ place = "chainrows" /\ UNCHANGED <<backend, pages, ghosts>>
           /\ req' = req /\ kept' = kept /\ out' = NoAnswer
           /\ Formed' /\ loc'.got = loc.got /\ loc'.height = loc.height
           /\ \/ /\ loc.todo = <<>> \/ Len(loc.got) + Len(loc.seen) >= PageSize
                 /\ place' = "rowtxs" /\ loc' = loc
              \/ /\ loc.todo # <<>> /\ ~(Len(loc.got) + Len(loc.seen) >= PageSize)
                 /\ place' = "chainrows" /\ loc'.todo = Tail(loc.todo)
                 /\ \/ Confirming(Head(loc.todo)) = {} /\ loc'.seen = loc.seen
                    \/ Confirming(Head(loc.todo)) # {} /\ loc'.seen = Append(loc.seen, Head(loc.todo))
<1>. DEFINE l1 == [loc EXCEPT !.todo = Tail(loc.todo), !.seen = loc.seen]
            l2 == [loc EXCEPT !.todo = Tail(loc.todo), !.seen = Append(loc.seen, Head(loc.todo))]
            l == [loc EXCEPT !.todo = Tail(@),
                             !.seen = IF Confirming(Head(loc.todo)) = {} THEN @ ELSE Append(@, Head(loc.todo))]
<1>0. (Confirming(Head(loc.todo)) = {} => l = l1) /\ (Confirming(Head(loc.todo)) # {} => l = l2)
  BY DEF Formed, Fields
<1>1. /\ place = "chainrows" /\ UNCHANGED <<backend, pages, ghosts>>
      /\ \/ (loc.todo = <<>> \/ Len(loc.got) + Len(loc.seen) >= PageSize) /\ Accept(req, "rowtxs", loc)
         \/ /\ ~(loc.todo = <<>> \/ Len(loc.got) + Len(loc.seen) >= PageSize)
            /\ Accept(req, "chainrows", l)
  BY DEF ChainRow, Resumed, Continue
<1>2. /\ l1 = [f \in Fields |-> l1[f]] /\ l1.got = loc.got /\ l1.seen = loc.seen
      /\ l1.height = loc.height /\ l1.todo = Tail(loc.todo)
      /\ l2 = [f \in Fields |-> l2[f]] /\ l2.got = loc.got /\ l2.seen = Append(loc.seen, Head(loc.todo))
      /\ l2.height = loc.height /\ l2.todo = Tail(loc.todo)
  BY Assigned DEF Formed, Fields
<1>. HIDE DEF l1, l2, l
<1>3. /\ req' = req /\ kept' = kept /\ out' = NoAnswer
      /\ \/ /\ loc.todo = <<>> \/ Len(loc.got) + Len(loc.seen) >= PageSize
            /\ place' = "rowtxs" /\ loc' = loc
         \/ /\ loc.todo # <<>> /\ ~(Len(loc.got) + Len(loc.seen) >= PageSize)
            /\ place' = "chainrows" /\ loc' = l
  BY <1>1, AcceptFacts
<1>4. l = [f \in Fields |-> l[f]] /\ l.got = loc.got /\ l.height = loc.height /\ l.todo = Tail(loc.todo)
  BY <1>0, <1>2
<1>5. \/ Confirming(Head(loc.todo)) = {} /\ l.seen = loc.seen
      \/ Confirming(Head(loc.todo)) # {} /\ l.seen = Append(loc.seen, Head(loc.todo))
  BY <1>0, <1>2
<1>. QED  BY <1>1, <1>3, <1>4, <1>5 DEF Formed

LEMMA RowTxsFacts ==
    ASSUME RowTxs
    PROVE  /\ place = "rowtxs" /\ UNCHANGED <<backend, quiet, pure, still>>
           /\ always' = IF Len(loc.got) + Len(loc.seen) < PageSize THEN always ELSE {}
           /\ \/ Answer(req, Absent, 400) /\ pages' = <<>>
              \/ /\ place' = "prepare" /\ loc' = loc /\ req' = req /\ kept' = kept /\ out' = NoAnswer
                 /\ pages' = pages
<1>1. /\ place = "rowtxs" /\ UNCHANGED <<backend, quiet, pure, still>>
      /\ always' = IF Len(loc.got) + Len(loc.seen) < PageSize THEN always ELSE {}
  BY DEF RowTxs
<1>2. (Answer(req, Absent, 400) /\ pages' = <<>>) \/ (Accept(req, "prepare", loc) /\ pages' = pages)
  BY DEF RowTxs, Fail, Reply, Continue
<1>. QED  BY <1>1, <1>2, AcceptFacts

LEMMA PrepareTxsFacts ==
    ASSUME PrepareTxs
    PROVE  /\ place = "prepare" /\ UNCHANGED <<backend, ghosts>>
           /\ Answer(req, "short", Prepared(loc.got \o loc.seen))
           /\ req.op = "whole" => pages' = <<>>
           /\ req.op # "whole" => pages' = Base \o Prepared(loc.got \o loc.seen)
BY DEF PrepareTxs, Reply, Base

(* What the steps of a request for the unspent outputs assign.             *)
LEMMA UtxoFacts ==
    ASSUME Utxo
    PROVE  /\ place = "idle" /\ UNCHANGED <<backend, pages>> /\ still' = TRUE /\ always' = {}
           /\ pure' = (reorged = {})
           /\ req' = [op |-> "utxo", arg |-> Script] /\ kept' = kept /\ out' = NoAnswer
           /\ Formed' /\ loc'.height = -1 /\ loc'.block = NoBlock
           /\ \/ ucache = {} /\ place' = "utxoscan" /\ loc'.got = <<{}>>
              \/ \E c \in ucache : place' = "utxoheight" /\ loc'.seen = <<c>>
<1>. DEFINE r == [op |-> "utxo", arg |-> Script]
            l == [Idle EXCEPT !.got = <<{}>>]
            m(c) == [Idle EXCEPT !.seen = <<c>>]
<1>1. /\ Ask(r) /\ FreshRead
      /\ \/ ucache = {} /\ Accept(r, "utxoscan", l)
         \/ \E c \in ucache : Accept(r, "utxoheight", m(c))
  BY DEF Utxo
<1>2. r.op # "whole"
  OBVIOUS
<1>3. /\ l = [f \in Fields |-> l[f]] /\ l.height = -1 /\ l.block = NoBlock /\ l.got = <<{}>>
      /\ \A c : m(c) = [f \in Fields |-> m(c)[f]] /\ m(c).height = -1 /\ m(c).block = NoBlock /\ m(c).seen = <<c>>
  BY IdleFields, Assigned DEF Fields
<1>. HIDE DEF l, m, r
<1>4. /\ req' = r /\ kept' = kept /\ out' = NoAnswer
      /\ \/ ucache = {} /\ place' = "utxoscan" /\ loc' = l
         \/ \E c \in ucache : place' = "utxoheight" /\ loc' = m(c)
  BY <1>1, AcceptFacts
<1>5. /\ place = "idle" /\ UNCHANGED <<backend, pages>> /\ still' = TRUE /\ always' = {}
      /\ pure' = (reorged = {})
  BY <1>1, <1>2 DEF Ask, FreshRead
<1>. QED  BY <1>3, <1>4, <1>5 DEF Formed, r

LEMMA UtxoHeightFacts ==
    ASSUME UtxoHeight
    PROVE  LET c == loc.seen[1] IN
           /\ place = "utxoheight" /\ UNCHANGED <<backend, pages, quiet, still, always>>
           /\ place' = "utxoscan" /\ req' = req /\ kept' = kept /\ out' = NoAnswer
           /\ Formed' /\ loc'.block = NoBlock
           /\ \/ /\ c.block \in Chain[best] /\ loc'.height = Height[c.block] /\ loc'.got = <<c.utxos>>
                 /\ pure' = (pure /\ c.pure)
              \/ loc'.height = -1 /\ loc'.got = <<{}>> /\ pure' = pure
<1>. DEFINE c == loc.seen[1]
            h == Height[c.block]
            u == c.utxos
            l == [Idle EXCEPT !.got = <<u>>, !.height = h]
            m == [Idle EXCEPT !.got = <<{}>>]
<1>1. /\ place = "utxoheight" /\ UNCHANGED <<backend, pages, quiet, still, always>>
      /\ \/ c.block \in Chain[best] /\ Accept(req, "utxoscan", l) /\ pure' = (pure /\ c.pure)
         \/ Accept(req, "utxoscan", m) /\ pure' = pure
  BY DEF UtxoHeight, Continue
<1>. HIDE DEF h, u
<1>3. /\ l = [f \in Fields |-> l[f]] /\ l.height = h /\ l.block = NoBlock /\ l.got = <<u>>
      /\ m = [f \in Fields |-> m[f]] /\ m.height = -1 /\ m.block = NoBlock /\ m.got = <<{}>>
  BY IdleFields, Assigned DEF Fields
<1>. HIDE DEF l, m
<1>4. /\ place' = "utxoscan" /\ req' = req /\ kept' = kept /\ out' = NoAnswer
      /\ \/ c.block \in Chain[best] /\ loc' = l /\ pure' = (pure /\ c.pure)
         \/ loc' = m /\ pure' = pure
  BY <1>1, AcceptFacts
<1>. QED  BY <1>1, <1>3, <1>4 DEF Formed, h, u

LEMMA UtxoScanFacts ==
    ASSUME UtxoScan, Formed
    PROVE  /\ place = "utxoscan" /\ UNCHANGED <<backend, pages, ghosts>>
           /\ place' = "utxorows" /\ req' = req /\ kept' = kept /\ out' = NoAnswer
           /\ Formed' /\ loc'.block = loc.block /\ loc'.height = loc.height /\ loc'.got = loc.got
           /\ loc'.todo = <<{r \in history : r[1] = "H" /\ r[3] >= loc.height + 1}>> /\ loc'.seen = <<{}>>
<1>. DEFINE s == {r \in history : r[1] = "H" /\ r[3] >= loc.height + 1}
            l == [loc EXCEPT !.todo = <<s>>, !.seen = <<{}>>]
<1>1. place = "utxoscan" /\ UNCHANGED <<backend, pages, ghosts>> /\ Accept(req, "utxorows", l)
  BY DEF UtxoScan, Resumed, Continue, ScanFrom
<1>. HIDE DEF s
<1>2. /\ l = [f \in Fields |-> l[f]] /\ l.height = loc.height /\ l.block = loc.block /\ l.got = loc.got
      /\ l.todo = <<s>> /\ l.seen = <<{}>>
  BY Assigned DEF Formed, Fields
<1>. HIDE DEF l
<1>3. place' = "utxorows" /\ loc' = l /\ req' = req /\ kept' = kept /\ out' = NoAnswer
  BY <1>1, AcceptFacts
<1>. QED  BY <1>1, <1>2, <1>3 DEF Formed, s

(* One row: not confirmed where it says, or applied.                       *)
Skipped(r) ==
    /\ {b \in Confirming(TxOf(r)) : Height[b] = r[3]} = {}
    /\ UNCHANGED <<loc.got, loc.seen, loc.block>>
Counted(r) ==
    /\ loc'.got = <<Applied(loc.got[1], r)>> /\ loc'.seen = <<loc.seen[1] \cup {r}>>
    /\ \E b \in Confirming(TxOf(r)) : Height[b] = r[3] /\ loc'.block = b

LEMMA UtxoNextFacts ==
    ASSUME NEW r, UtxoNext(r), Formed
    PROVE  \/ Answer(req, Absent, 400)
           \/ /\ place' = "utxorows" /\ req' = req /\ kept' = kept /\ out' = NoAnswer
              /\ Formed' /\ loc'.height = loc.height /\ loc'.todo = <<loc.todo[1] \ {r}>>
              /\ Skipped(r) \/ Counted(r)
<1>. DEFINE at == {b \in Confirming(TxOf(r)) : Height[b] = r[3]}
            c == CHOOSE b \in at : TRUE
            u == Applied(loc.got[1], r)
            s == loc.seen[1] \cup {r}
            d == loc.todo[1] \ {r}
            l == [loc EXCEPT !.todo = <<d>>]
            m == [loc EXCEPT !.todo = <<d>>, !.got = <<u>>, !.seen = <<s>>, !.block = c]
<1>1. \/ at = {} /\ Accept(req, "utxorows", l)
      \/ at # {} /\ Accept(req, "utxorows", m)
      \/ Answer(req, Absent, 400)
  BY DEF UtxoNext, Continue, Fail, Reply
<1>2. at # {} => c \in Confirming(TxOf(r)) /\ Height[c] = r[3]
  OBVIOUS
<1>. HIDE DEF at, c, u, s, d
<1>3. /\ l = [f \in Fields |-> l[f]] /\ l.height = loc.height /\ l.block = loc.block /\ l.got = loc.got
      /\ l.todo = <<d>> /\ l.seen = loc.seen
      /\ m = [f \in Fields |-> m[f]] /\ m.height = loc.height /\ m.block = c /\ m.got = <<u>>
      /\ m.todo = <<d>> /\ m.seen = <<s>>
  BY Assigned DEF Formed, Fields
<1>. HIDE DEF l, m
<1>4. \/ /\ place' = "utxorows" /\ req' = req /\ kept' = kept /\ out' = NoAnswer
         /\ (at = {} /\ loc' = l) \/ (at # {} /\ loc' = m)
      \/ Answer(req, Absent, 400)
  BY <1>1, AcceptFacts
<1>5. ASSUME at = {}, loc' = l PROVE Skipped(r)
  BY <1>3, <1>5 DEF Skipped, at
<1>6. ASSUME at # {}, loc' = m PROVE Counted(r)
  BY <1>2, <1>3, <1>6 DEF Counted, u, s
<1>. QED  BY <1>3, <1>4, <1>5, <1>6 DEF Formed, d

LEMMA UtxoRowFacts ==
    ASSUME UtxoRow, Formed
    PROVE  /\ place = "utxorows" /\ UNCHANGED <<backend, pages, ghosts>>
           /\ \/ /\ loc.todo[1] = {} /\ place' = "utxosave" /\ loc' = loc /\ req' = req
                 /\ kept' = kept /\ out' = NoAnswer
              \/ Answer(req, Absent, 400)
              \/ \E r \in loc.todo[1] :
                    /\ \A q \in loc.todo[1] : ~Earlier(q, r)
                    /\ place' = "utxorows" /\ req' = req /\ kept' = kept /\ out' = NoAnswer
                    /\ Formed' /\ loc'.height = loc.height /\ loc'.todo = <<loc.todo[1] \ {r}>>
                    /\ Skipped(r) \/ Counted(r)
<1>1. /\ place = "utxorows" /\ UNCHANGED <<backend, pages, ghosts>>
      /\ \/ loc.todo[1] = {} /\ Accept(req, "utxosave", loc)
         \/ \E r \in loc.todo[1] : (\A q \in loc.todo[1] : ~Earlier(q, r)) /\ UtxoNext(r)
  BY DEF UtxoRow, Resumed, Continue
<1>2. CASE loc.todo[1] = {} /\ Accept(req, "utxosave", loc)
  BY <1>1, <1>2, AcceptFacts
<1>3. CASE \E r \in loc.todo[1] : (\A q \in loc.todo[1] : ~Earlier(q, r)) /\ UtxoNext(r)
  <2>1. PICK r \in loc.todo[1] : (\A q \in loc.todo[1] : ~Earlier(q, r)) /\ UtxoNext(r)
    BY <1>3
  <2>2. \/ Answer(req, Absent, 400)
        \/ /\ place' = "utxorows" /\ req' = req /\ kept' = kept /\ out' = NoAnswer
           /\ Formed' /\ loc'.height = loc.height /\ loc'.todo = <<loc.todo[1] \ {r}>>
           /\ Skipped(r) \/ Counted(r)
    BY <2>1, UtxoNextFacts
  <2>. QED  BY <1>1, <2>1, <2>2
<1>. QED  BY <1>1, <1>2, <1>3

LEMMA UtxoSaveFacts ==
    ASSUME UtxoSave
    PROVE  /\ place = "utxosave" /\ UNCHANGED <<written, pages, ghosts>>
           /\ place' = "utxopool" /\ req' = req /\ kept' = kept /\ out' = NoAnswer
           /\ Formed' /\ loc'.height = -1 /\ loc'.got = loc.got
           /\ \/ ucache' = ucache
              \/ /\ loc.block # NoBlock
                 /\ ucache' = {[utxos |-> loc.got[1], block |-> loc.block, pure |-> pure]}
<1>. DEFINE g == loc.got
            l == [Idle EXCEPT !.got = g]
<1>1. /\ place = "utxosave" /\ Accept(req, "utxopool", l)
      /\ \/ ucache' = ucache
         \/ /\ loc.block # NoBlock
            /\ ucache' = {[utxos |-> loc.got[1], block |-> loc.block, pure |-> pure]}
  BY DEF UtxoSave, Continue
<1>2. UNCHANGED <<written, pages, ghosts>>
  BY DEF UtxoSave, written
<1>. HIDE DEF g
<1>3. l = [f \in Fields |-> l[f]] /\ l.height = -1 /\ l.got = g
  BY IdleFields, Assigned DEF Fields
<1>. HIDE DEF l
<1>4. place' = "utxopool" /\ loc' = l /\ req' = req /\ kept' = kept /\ out' = NoAnswer
  BY <1>1, AcceptFacts
<1>. QED  BY <1>1, <1>2, <1>3, <1>4 DEF Formed, g

LEMMA UtxoPoolFacts ==
    ASSUME UtxoPool
    PROVE  /\ place = "utxopool" /\ UNCHANGED <<backend, pages, ghosts>>
           /\ Answer(req, "short", (loc.got[1] \cup PoolFunded) \ PoolSpent)
BY DEF UtxoPool, Resumed, Reply

LEMMA SessionStep ==
    ASSUME SessionInv, PlaceInv, WriterInv, [RestNext]_restVars
    PROVE  SessionInv'
<1>0. best \in Blocks /\ Formed /\ loc.height \in Nat \cup {-1}
  BY ReaderAssumption DEF WriterInv, BranchInv, SessionInv, Formed
<1>1. CASE MainLoop
  <2>1. UNCHANGED <<place, req, loc>> /\ (quiet' = FALSE \/ UNCHANGED <<best, quiet>>)
    BY <1>1, LoopOutside DEF session
  <2>2. CASE quiet' = FALSE
    BY <2>1, <2>2 DEF SessionInv, Reading
  <2>3. CASE UNCHANGED <<best, quiet>>
    <3>1. UNCHANGED Reading(req.op, loc.got)
      BY <2>1, <2>3 DEF Reading, Refers, BestHeight
    <3>2. UNCHANGED (\E c \in Chain[best] : Final(c) /\ Refers("tx", req.arg, Tail(loc.got), c))
      BY <2>1, <2>3 DEF Final, Refers, BestHeight
    <3>. QED  BY <2>1, <2>3, <3>1, <3>2 DEF SessionInv
  <2>. QED  BY <2>1, <2>2, <2>3
<1>2. ASSUME NEW op \in {"history", "whole"}, NEW cursor, History(op, cursor) PROVE SessionInv'
  <2>1. place' \in {"poolpage", "findchain"} /\ Formed' /\ loc'.height = -1
    BY <1>2, HistoryFacts
  <2>. QED  BY <2>1 DEF SessionInv, Formed
<1>3. CASE FindChain
  <2>1. CASE place' = "chainscan"
    <3>0. ~(\E ttl, body : Answer(req, ttl, body))
      BY <2>1, AnswerFacts
    <3>1. Formed' /\ \E b \in Confirming(req.arg) : loc'.height = Height[b]
      BY <1>0, <1>3, <3>0, FindChainFacts
    <3>2. loc'.height \in Nat
      BY <1>0, <3>1, Branches DEF Confirming
    <3>. QED  BY <2>1, <3>1, <3>2 DEF SessionInv, Formed
  <2>2. CASE \E ttl, body : Answer(req, ttl, body)
    BY <2>2, AnswerSession
  <2>. QED  BY <1>0, <1>3, <2>1, <2>2, FindChainFacts
<1>4. CASE PoolPage \/ ChainPage \/ ChainRow
  <2>1. place' \in {"chainscan", "chainrows", "rowtxs"} /\ Formed' /\ loc'.height = loc.height
    BY <1>0, <1>4, PoolPageFacts, ChainPageFacts, ChainRowFacts
  <2>. QED  BY <1>0, <2>1 DEF SessionInv, Formed
<1>5. CASE RowTxs \/ PrepareTxs \/ UtxoPool
  <2>1. CASE \E ttl, body : Answer(req, ttl, body)
    BY <2>1, AnswerSession
  <2>2. CASE place' = "prepare" /\ loc' = loc
    BY <1>0, <2>2 DEF SessionInv, Formed
  <2>. QED  BY <1>5, <2>1, <2>2, RowTxsFacts, PrepareTxsFacts, UtxoPoolFacts
<1>6. CASE Utxo
  <2>1. place' \in {"utxoscan", "utxoheight"} /\ Formed' /\ loc'.height = -1
    BY <1>6, UtxoFacts
  <2>. QED  BY <2>1 DEF SessionInv, Formed
<1>7. CASE UtxoHeight \/ UtxoScan \/ UtxoRow \/ UtxoSave
  <2>1. CASE \E ttl, body : Answer(req, ttl, body)
    BY <2>1, AnswerSession
  <2>2. ASSUME ~(\E ttl, body : Answer(req, ttl, body)) PROVE SessionInv'
    <3>1. place' \in Unspending /\ Formed' /\ loc'.height \in Nat \cup {-1}
      <4>1. CASE UtxoHeight
        BY <1>0, <4>1, UtxoHeightFacts, Branches DEF Unspending
      <4>2. CASE UtxoScan
        BY <1>0, <4>2, UtxoScanFacts DEF Unspending
      <4>3. CASE UtxoRow
        BY <1>0, <2>2, <4>3, UtxoRowFacts DEF Unspending, Formed
      <4>4. CASE UtxoSave
        BY <4>4, UtxoSaveFacts DEF Unspending
      <4>. QED  BY <1>7, <4>1, <4>2, <4>3, <4>4
    <3>. QED  BY <3>1 DEF SessionInv, Formed, Unspending
  <2>. QED  BY <2>1, <2>2
<1>8. CASE Lifetime \/ BlockMtp \/ TxPrev \/ BlockPagePrev
  BY <1>8, AnswerSession DEF Lifetime, BlockMtp, TxPrev, BlockPagePrev, Reply
<1>9. CASE UNCHANGED restVars
  <2>1. UNCHANGED <<best, place, req, loc, quiet>>
    BY <1>9 DEF restVars, backend, session, ghosts
  <2>2. UNCHANGED Reading(req.op, loc.got)
    BY <2>1 DEF Reading, Refers, BestHeight
  <2>3. UNCHANGED (\E c \in Chain[best] : Final(c) /\ Refers("tx", req.arg, Tail(loc.got), c))
    BY <2>1 DEF Final, Refers, BestHeight
  <2>. QED  BY <2>1, <2>2, <2>3 DEF SessionInv
<1>. QED  BY <1>0, <1>1, <1>2, <1>3, <1>4, <1>5, <1>6, <1>7, <1>8, <1>9,
             BlockAsks, TxAsks, BlockHandlers, TxHandlers
          DEF RestNext, ClientAsks, Handler, NextPage

-----------------------------------------------------------------------------
(* The page of a block.                                                    *)

(* A block of the best chain that has its rows keeps them.                 *)
LEMMA MetasStay ==
    ASSUME BranchInv, MainLoop, UNCHANGED best
    PROVE  metas \cap Chain[best] \subseteq metas'
<1>1. reorged \cap Chain[best] = {}
  BY DEF BranchInv
<1>2. ASSUME NEW b \in Moves, ApplyHeaders(b) PROVE metas' = metas
  BY <1>2 DEF ApplyHeaders
<1>3. CASE Unindex \/ CancelCache \/ IndexBlocks \/ DropGone \/ FillPool
  BY <1>3 DEF Unindex, CancelCache, IndexBlocks, DropGone, FillPool
<1>4. CASE Unadd
  BY <1>1, <1>4 DEF Unadd
<1>5. CASE AddBlocks
  BY <1>5 DEF AddBlocks
<1>. QED  BY <1>2, <1>3, <1>4, <1>5 DEF MainLoop

(* The other steps stay away from it.                                      *)
LEMMA PageElsewhere ==
    ASSUME PlaceInv, PlaceInv', ClientAsks \/ Handler,
           ~(\E b \in AskBlocks : BlockPage(b)), ~(BlockPageId \/ BlockPageTx \/ BlockPageTtl)
    PROVE  place' \notin Paging
<1>1. req.op = "txs" => place \in Paging
  BY DEF PlaceInv, Listing, Paging, Unspending, Absent
<1>2. ASSUME NEW label, NEW l, Accept(req, label, l), place \notin Paging PROVE place' \notin Paging
  <2>1. req' = req
    BY <1>2, AcceptFacts
  <2>. QED  BY <1>1, <1>2, <2>1 DEF PlaceInv
<1>3. ASSUME NEW r, NEW ttl, NEW body, Answer(r, ttl, body) PROVE place' \notin Paging
  BY <1>3, AnswerFacts DEF Paging
<1>4. CASE ListHandler \/ UtxoHandler
  <2>1. place \notin Paging
    BY <1>4, ListAnswers, UtxoAnswers DEF Paging, Listing, Unspending
  <2>. QED  BY <1>2, <1>3, <1>4, <2>1, ListAnswers, UtxoAnswers
<1>5. CASE Lifetime \/ BlockMtp \/ BlockPagePrev \/ TxPrev
  BY <1>3, <1>5 DEF Lifetime, BlockMtp, BlockPagePrev, TxPrev, Reply
<1>6. CASE BlockMeta \/ RawTxids \/ RawTx \/ TxPool \/ TxBlock \/ TxTtl \/ ProofTxids \/ PoolSpend
  <2>1. /\ place \notin Paging
        /\ (\E label, l : Accept(req, label, l)) \/ (\E ttl, body : Answer(req, ttl, body))
    BY <1>6 DEF BlockMeta, RawTxids, RawTx, TxPool, TxBlock, TxTtl, ProofTxids, PoolSpend,
                Continue, NotFound, Fail, Reply, Paging
  <2>. QED  BY <1>2, <1>3, <2>1
<1>7. ASSUME NEW r, NEW label, NEW l, Accept(r, label, l), label \notin Paging PROVE place' \notin Paging
  BY <1>7, AcceptFacts
<1>. USE DEF Paging
<1>8. ASSUME NEW h, ByHeight(h) PROVE place' \notin Paging
  BY <1>3, <1>7, <1>8 DEF ByHeight
<1>9. ASSUME NEW b, Status(b) \/ Block(b) \/ Raw(b) PROVE place' \notin Paging
  BY <1>3, <1>7, <1>9 DEF Status, Block, Raw
<1>10. ASSUME NEW t, Tx(t) \/ TxStatus(t) \/ Proof(t) PROVE place' \notin Paging
  BY <1>3, <1>7, <1>10 DEF Tx, TxStatus, Proof
<1>11. ASSUME NEW o, OutSpend(o) PROVE place' \notin Paging
  <2>1. \E r, l : Accept(r, "ttl", l) \/ Accept(r, "poolspend", l)
    BY <1>11 DEF OutSpend
  <2>. QED  BY <1>7, <2>1
<1>12. ASSUME NEW op \in {"history", "whole"}, NEW cursor, History(op, cursor) PROVE place' \notin Paging
  BY <1>12, HistoryFacts
<1>13. CASE Utxo
  BY <1>13, UtxoFacts
<1>. QED  BY <1>4, <1>5, <1>6, <1>8, <1>9, <1>10, <1>11, <1>12, <1>13
          DEF ClientAsks, Handler, NextPage, ListHandler, UtxoHandler

LEMMA BlockPageStep ==
    ASSUME BlockPageInv, SessionInv, PlaceInv, WriterInv, [RestNext]_restVars
    PROVE  BlockPageInv'
<1>0. /\ best \in Blocks /\ Formed /\ BranchInv /\ metas \subseteq Blocks
  <2>1. best \in Blocks /\ BranchInv /\ Formed /\ Chain[best] \subseteq Blocks /\ reorged \subseteq Blocks
    BY ReaderAssumption, Branches DEF WriterInv, BranchInv, SessionInv, Formed
  <2>2. Former \subseteq Blocks
    BY <2>1 DEF Former
  <2>. QED  BY <2>1, <2>2 DEF WriterInv, StoreInv, Stored
<1>1. CASE MainLoop
  <2>1. UNCHANGED <<place, req, loc>> /\ (quiet' = FALSE \/ UNCHANGED <<best, quiet>>)
    BY <1>1, LoopOutside DEF session
  <2>2. CASE quiet' = FALSE
    BY <2>1, <2>2 DEF BlockPageInv
  <2>3. CASE UNCHANGED <<best, quiet>>
    <3>1. metas \cap Chain[best] \subseteq metas'
      BY <1>0, <1>1, <2>3, MetasStay
    <3>2. UNCHANGED Final(req.arg)
      BY <2>1, <2>3 DEF Final, BestHeight
    <3>. QED  BY <2>1, <2>3, <3>1, <3>2 DEF BlockPageInv
  <2>. QED  BY <2>1, <2>2, <2>3
<1>2. ASSUME NEW b \in AskBlocks, BlockPage(b) PROVE BlockPageInv'
  <2>1. CASE \E r, ttl, body : Answer(r, ttl, body)
    BY <2>1, AnswerFacts DEF BlockPageInv, Paging
  <2>2. CASE ~(\E r, ttl, body : Answer(r, ttl, body))
    <3>1. /\ b \in metas /\ place' = "pageid" /\ req' = [op |-> "txs", arg |-> b] /\ metas' = metas
          /\ loc'.height = -1 /\ loc'.block = b /\ loc'.todo = BlockTxs[b] /\ loc'.got = <<>>
      BY <1>2, <2>2, BlockPageFacts DEF backend
    <3>2. b \in Blocks /\ BlockTxs[b] \in Seq(Txs) /\ req'.arg = b
      BY <1>0, <3>1, BlockTxsType
    <3>3. <<>> \in Seq(Txs) /\ <<>> \o BlockTxs[b] = BlockTxs[b]
      BY <3>2, ConcatEmptySeq
    <3>. QED  BY <3>1, <3>2, <3>3 DEF BlockPageInv
  <2>. QED  BY <2>1, <2>2
<1>3. CASE BlockPageId
  <2>1. /\ place = "pageid" /\ UNCHANGED <<best, metas, quiet>> /\ place' = "pagetxs" /\ req' = req
        /\ loc'.block = loc.block /\ loc'.todo = loc.todo /\ loc'.got = loc.got
        /\ (loc.block \in Chain[best] /\ loc'.height = Height[loc.block]) \/ loc'.height = -1
    BY <1>0, <1>3, BlockPageIdFacts DEF backend, ghosts
  <2>. QED  BY <2>1 DEF BlockPageInv, Paging
<1>4. CASE BlockPageTx
  <2>0. /\ place = "pagetxs" /\ UNCHANGED <<best, metas, quiet>>
    BY <1>0, <1>4, BlockPageTxFacts DEF backend, ghosts
  <2>1. CASE \E r, ttl, body : Answer(r, ttl, body)
    BY <2>1, AnswerFacts DEF BlockPageInv, Paging
  <2>2. CASE loc.todo = <<>> /\ place' = "pagettl" /\ loc' = loc /\ req' = req
    BY <2>0, <2>2 DEF BlockPageInv, Paging
  <2>3. CASE /\ loc.todo # <<>> /\ place' = "pagetxs" /\ req' = req
             /\ loc'.block = loc.block /\ loc'.height = loc.height
             /\ loc'.todo = Tail(loc.todo) /\ loc'.got = Append(loc.got, Head(loc.todo))
    <3>. DEFINE s == loc.got
                t == loc.todo
    <3>1. s \in Seq(Txs) /\ t \in Seq(Txs) /\ t # <<>> /\ s \o t = BlockTxs[req.arg]
      BY <2>0, <2>3 DEF BlockPageInv, Paging
    <3>2. loc'.todo = Tail(t) /\ loc'.got = Append(s, Head(t))
      BY <2>3
    <3>. HIDE DEF s, t
    <3>3. /\ Append(s, Head(t)) \in Seq(Txs) /\ Tail(t) \in Seq(Txs)
          /\ Append(s, Head(t)) \o Tail(t) = s \o t
      BY <3>1, Moved
    <3>4. /\ loc'.todo \in Seq(Txs) /\ loc'.got \in Seq(Txs) /\ loc'.got \o loc'.todo = BlockTxs[req.arg]
      BY <3>1, <3>2, <3>3
    <3>. QED  BY <2>0, <2>3, <3>4 DEF BlockPageInv, Paging
  <2>. QED  BY <1>0, <1>4, <2>1, <2>2, <2>3, BlockPageTxFacts
<1>5. CASE BlockPageTtl
  <2>1. /\ place = "pagettl" /\ UNCHANGED <<best, metas, quiet>> /\ place' = "pageprev" /\ req' = req
        /\ loc'.block = loc.block /\ loc'.todo = loc.todo /\ loc'.got = loc.got /\ loc'.height = loc.height
        /\ loc'.seen = <<ttl_by_depth(loc.height)>>
    BY <1>0, <1>5, BlockPageTtlFacts DEF backend, ghosts
  <2>2. loc'.seen \in {<<"long">>, <<"short">>}
    BY <2>1 DEF ttl_by_depth
  <2>3. ASSUME quiet, loc'.seen = <<"long">> PROVE loc.height # -1 /\ Final(req.arg)
    <3>1. ttl_by_depth(loc.height) = "long"
      BY <2>1, <2>3
    <3>2. loc.height # -1
      BY <3>1 DEF ttl_by_depth
    <3>3. req.arg \in Chain[best] /\ Height[req.arg] = loc.height
      BY <2>1, <2>3, <3>2 DEF BlockPageInv, Paging
    <3>. DEFINE c == req.arg
    <3>4. c \in Chain[best] /\ ttl_by_depth(Height[c]) = "long"
      BY <3>1, <3>3
    <3>. HIDE DEF c
    <3>5. Final(c)
      BY <1>0, <3>4, LongIsDeep
    <3>. QED  BY <3>2, <3>5 DEF c
  <2>4. UNCHANGED Final(req.arg)
    BY <2>1 DEF Final, BestHeight
  <2>. QED  BY <2>1, <2>2, <2>3, <2>4 DEF BlockPageInv, Paging
<1>6. CASE /\ ClientAsks \/ Handler
           /\ ~(\E b \in AskBlocks : BlockPage(b)) /\ ~(BlockPageId \/ BlockPageTx \/ BlockPageTtl)
  BY <1>6, PlaceStep, PageElsewhere DEF BlockPageInv
<1>7. CASE UNCHANGED restVars
  <2>1. UNCHANGED <<best, metas, quiet, place, req, loc>>
    BY <1>7 DEF restVars, backend, session, ghosts
  <2>2. UNCHANGED Final(req.arg)
    BY <2>1 DEF Final, BestHeight
  <2>. QED  BY <2>1, <2>2 DEF BlockPageInv
<1>. QED  BY <1>1, <1>2, <1>3, <1>4, <1>5, <1>6, <1>7 DEF RestNext

(* Whatever the rows of a branch confirm has its previous outputs there.   *)
LEMMA StoredIsBranch ==
    ASSUME WriterInv
    PROVE  \E p \in Blocks \cup {NoBlock} : Chain[p] = Stored
<1>1. best \in Blocks
  BY ReaderAssumption DEF WriterInv, BranchInv
<1>. QED  BY <1>1 DEF WriterInv, BranchInv, Stored

LEMMA StoredPrevouts ==
    ASSUME WriterInv, NEW b \in Stored, NEW t \in TxsOf(b)
    PROVE  t \in WithPrevouts
<1>1. PICK p \in Blocks \cup {NoBlock} : Chain[p] = Stored
  BY StoredIsBranch
<1>2. b \in Blocks /\ Chain[b] \subseteq Stored /\ t \in Txs
  BY <1>1, Branches, BlockTxsType
<1>3. ASSUME NEW o \in Spends[t] PROVE o[1] \in stored
  <2>1. PICK c \in Chain[b] : o[1] \in TxsOf(c)
    BY <1>2, SpentInChain
  <2>. QED  BY <1>2, <2>1 DEF WriterInv, StoreInv, TxRows
<1>. QED  BY <1>2, <1>3 DEF WithPrevouts

-----------------------------------------------------------------------------
(* Answers that are kept for years.                                        *)

LEMMA KeptGoodStays ==
    ASSUME NEW a, KeptGood(a), best' = best
    PROVE  KeptGood(a)'
BY DEF KeptGood, Final, Refers, BestHeight

(* A reorganisation takes away no block that is final.                     *)
LEMMA FinalStays ==
    ASSUME BranchInv, NEW b \in Moves, ApplyHeaders(b), NEW c \in Chain[best], Final(c)
    PROVE  best' = b /\ c \in Chain[b] /\ Final(c)'
<1>1. /\ best' = b /\ Height[b] >= Height[best] /\ b \in Moves \cup {Start} /\ best \in Moves \cup {Start}
      /\ b \in Blocks /\ best \in Blocks
  BY ReaderAssumption DEF ApplyHeaders, BranchInv
<1>2. Height[b] \in Nat /\ Height[best] \in Nat /\ Height[c] \in Nat /\ ConfFinal \in Nat \ {0}
  BY <1>1, Branches, ReaderAssumption
<1>3. Height[best] - Height[c] >= ConfFinal
  BY DEF Final, BestHeight
<1>4. c \in Chain[b]
  BY <1>1, <1>2, <1>3, ShallowAssumption
<1>5. Final(c)'
  BY <1>1, <1>2, <1>3, <1>4 DEF Final, BestHeight
<1>. QED  BY <1>1, <1>4, <1>5

LEMMA KeptGoodMoves ==
    ASSUME BranchInv, NEW b \in Moves, ApplyHeaders(b), NEW a, KeptGood(a)
    PROVE  KeptGood(a)'
<1>1. ASSUME a.quiet, a.op \in AboutTx \cup {"block-height", "status", "txs"}
      PROVE  (\E c \in Chain[best] : Final(c) /\ Refers(a.op, a.arg, a.body, c))'
  <2>1. PICK c \in Chain[best] : Final(c) /\ Refers(a.op, a.arg, a.body, c)
    BY <1>1 DEF KeptGood
  <2>2. best' = b /\ c \in Chain[b] /\ Final(c)'
    BY <2>1, FinalStays
  <2>3. Refers(a.op, a.arg, a.body, c)'
    BY <2>1, <2>2 DEF Refers
  <2>. QED  BY <2>2, <2>3
<1>. QED  BY <1>1 DEF KeptGood

(* Every answer with the long lifetime is one that lasts.                  *)
LEMMA NewAnswersGood ==
    ASSUME SessionInv, BlockPageInv, PlaceInv, WriterInv, best \in Blocks, ClientAsks \/ Handler
    PROVE  best' = best /\ \A a \in kept' : a \in kept \/ KeptGood(a)'
<1>0. best' = best
  BY RequestsReadOnly DEF written
<1>1. CASE Lifetime
  <2>1. place = "ttl" /\ quiet' = quiet /\ Answer(req, ttl_by_depth(loc.height), loc.got)
    BY <1>1 DEF Lifetime, Resumed, ghosts, Reply
  <2>2. SUFFICES ASSUME NEW a, a = [op |-> req.op, arg |-> req.arg, body |-> loc.got, quiet |-> quiet'],
                        ttl_by_depth(loc.height) = "long"
                 PROVE  KeptGood(a)'
    BY <1>0, <2>1, AnswerFacts
  <2>3. a.op = req.op /\ a.arg = req.arg /\ a.body = loc.got /\ a.quiet = quiet'
    BY <2>2
  <2>4. req.op # "raw" /\ loc.height # -1
    BY <2>1, <2>2 DEF PlaceInv, ttl_by_depth
  <2>5. ASSUME quiet PROVE \E c \in Chain[best] : Final(c) /\ Refers(req.op, req.arg, loc.got, c)
    <3>1. PICK c \in Chain[best] : Height[c] = loc.height /\ Refers(req.op, req.arg, loc.got, c)
      BY <2>1, <2>4, <2>5 DEF SessionInv, Reading
    <3>. QED  BY <2>2, <3>1, LongIsDeep
  <2>6. KeptGood(a)
    BY <2>1, <2>3, <2>4, <2>5 DEF KeptGood
  <2>. QED  BY <1>0, <2>6, KeptGoodStays
<1>2. CASE TxPrev
  <2>1. place = "txprev" /\ quiet' = quiet
    BY <1>2 DEF TxPrev, Resumed, ghosts
  <2>2. Answer(req, Head(loc.got), Tail(loc.got)) \/ Answer(req, Absent, 500)
    BY <1>2 DEF TxPrev, Reply
  <2>. DEFINE new == [op |-> req.op, arg |-> req.arg, body |-> Tail(loc.got), quiet |-> quiet']
  <2>9. \A a \in kept' : a \in kept \/ (Head(loc.got) = "long" /\ a = new)
    <3>1. CASE Answer(req, Absent, 500)
      BY <3>1, AnswerFacts DEF Absent
    <3>2. CASE Answer(req, Head(loc.got), Tail(loc.got))
      BY <3>2, AnswerFacts
    <3>. QED  BY <2>2, <3>1, <3>2
  <2>3. SUFFICES ASSUME NEW a, a = new, Head(loc.got) = "long"
                 PROVE  KeptGood(a)'
    <3>. HIDE DEF new
    <3>. QED  BY <1>0, <2>9
  <2>4. a.op = "tx" /\ a.arg = req.arg /\ a.body = Tail(loc.got) /\ a.quiet = quiet'
    BY <2>1, <2>3 DEF PlaceInv
  <2>5. quiet => \E c \in Chain[best] : Final(c) /\ Refers("tx", req.arg, Tail(loc.got), c)
    BY <2>1, <2>3 DEF SessionInv
  <2>6. KeptGood(a)
    BY <2>1, <2>4, <2>5 DEF KeptGood
  <2>. QED  BY <1>0, <2>6, KeptGoodStays
<1>3. CASE BlockMtp
  <2>1. place = "mtp" /\ \E body : Answer(req, "long", body)
    BY <1>3 DEF BlockMtp, Reply
  <2>2. \A a \in kept' : a \in kept \/ a.op = "block"
    BY <2>1, AnswerFacts DEF PlaceInv
  <2>. QED  BY <1>0, <2>2 DEF KeptGood, AboutTx
<1>4. CASE RawTx
  <2>1. place = "rawtxs" /\ req.op = "raw"
    BY <1>4 DEF RawTx, PlaceInv
  <2>2. CASE loc.todo = <<>>
    <3>1. Answer(req, "long", loc.got)
      BY <1>4, <2>2 DEF RawTx, Reply
    <3>2. loc.got = BlockTxs[req.arg]
      <4>1. loc.got \in Seq(Txs) /\ loc.got \o <<>> = BlockTxs[req.arg]
        BY <2>1, <2>2 DEF SessionInv
      <4>. QED  BY <4>1, ConcatEmptySeq
    <3>3. \A a \in kept' : a \in kept \/ (a.op = "raw" /\ a.body = BlockTxs[a.arg])
      BY <2>1, <3>1, <3>2, AnswerFacts
    <3>. QED  BY <1>0, <3>3 DEF KeptGood, AboutTx
  <2>3. CASE loc.todo # <<>>
    BY <1>0, <1>4, <2>3, AcceptFacts, AnswerFacts DEF RawTx, Continue, NotFound, Fail, Reply, Absent
  <2>. QED  BY <2>2, <2>3
<1>5. ASSUME \/ \E r, label, l : Accept(r, label, l)
             \/ \E r, ttl, body : Answer(r, ttl, body) /\ ttl # "long"
      PROVE  \A a \in kept' : a \in kept \/ KeptGood(a)'
  BY <1>5, AcceptFacts, AnswerFacts
<1>6. CASE ClientAsks
  <2>1. ASSUME \/ \E h \in AskHeights : ByHeight(h)
               \/ \E b \in AskBlocks : Status(b) \/ Block(b) \/ Raw(b) \/ BlockPage(b)
        PROVE  (\E r, label, l : Accept(r, label, l)) \/ (\E r, body : Answer(r, Absent, body))
    <3>1. ASSUME NEW h, ByHeight(h)
          PROVE  (\E r, label, l : Accept(r, label, l)) \/ (\E r, body : Answer(r, Absent, body))
      BY <3>1 DEF ByHeight
    <3>2. ASSUME NEW b, Status(b) PROVE \E r, label, l : Accept(r, label, l)
      BY <3>2 DEF Status
    <3>3. ASSUME NEW b, Block(b) \/ Raw(b) \/ BlockPage(b)
          PROVE  (\E r, label, l : Accept(r, label, l)) \/ (\E r, body : Answer(r, Absent, body))
      BY <3>3 DEF Block, Raw, BlockPage
    <3>. QED  BY <2>1, <3>1, <3>2, <3>3
  <2>2. ASSUME \/ \E t \in AskTxs : Tx(t) \/ TxStatus(t) \/ Proof(t)
               \/ \E o \in AskOuts : OutSpend(o)
        PROVE  (\E r, label, l : Accept(r, label, l)) \/ (\E r, body : Answer(r, Absent, body))
    BY <2>2 DEF Tx, TxStatus, Proof, OutSpend
  <2>3. ASSUME NEW op \in {"history", "whole"}, NEW cursor, History(op, cursor) PROVE kept' = kept
    BY <2>3, HistoryFacts
  <2>4. ASSUME Utxo PROVE kept' = kept
    BY <2>4, UtxoFacts
  <2>5. (\E op \in {"history", "whole"} : \E cursor : History(op, cursor)) \/ Utxo =>  kept' = kept
    BY <2>3, <2>4
  <2>6. ClientAsks => \/ \E h \in AskHeights : ByHeight(h)
                      \/ \E b \in AskBlocks : Status(b) \/ Block(b) \/ Raw(b) \/ BlockPage(b)
                      \/ \E t \in AskTxs : Tx(t) \/ TxStatus(t) \/ Proof(t)
                      \/ \E o \in AskOuts : OutSpend(o)
                      \/ (\E op \in {"history", "whole"} : \E cursor : History(op, cursor)) \/ Utxo
    BY DEF ClientAsks, NextPage
  <2>7. \/ (\E r, label, l : Accept(r, label, l)) \/ (\E r, body : Answer(r, Absent, body))
        \/ kept' = kept
    <3>. HIDE DEF ClientAsks
    <3>. QED  BY <1>6, <2>1, <2>2, <2>5, <2>6, Zenon
  <2>. QED  BY <1>0, <1>5, <2>7 DEF Absent
<1>7. CASE RowTxs \/ PrepareTxs \/ UtxoPool
  <2>1. \/ kept' = kept
        \/ \E ttl, body : Answer(req, ttl, body) /\ ttl \in {Absent, "short"}
    BY <1>7, RowTxsFacts, PrepareTxsFacts, UtxoPoolFacts
  <2>. QED  BY <1>0, <1>5, <2>1 DEF Absent
<1>8. CASE UtxoHeight \/ UtxoScan \/ UtxoRow \/ UtxoSave
  <2>0. Formed
    BY DEF SessionInv, Formed
  <2>1. kept' = kept \/ Answer(req, Absent, 400)
    BY <1>8, <2>0, UtxoHeightFacts, UtxoScanFacts, UtxoRowFacts, UtxoSaveFacts
  <2>. QED  BY <1>0, <1>5, <2>1 DEF Absent
<1>10. CASE BlockPagePrev
  <2>. DEFINE c == req.arg
              v == loc.seen[1]
              body == <<loc.height>> \o Sifted(loc.got, WithPrevouts)
              new == [op |-> req.op, arg |-> c, body |-> body, quiet |-> quiet']
  <2>1. place = "pageprev" /\ quiet' = quiet /\ Answer(req, v, body)
    BY <1>10 DEF BlockPagePrev, Resumed, ghosts, Reply
  <2>2. \A a \in kept' : a \in kept \/ (v = "long" /\ a = new)
    <3>. HIDE DEF v, body
    <3>. QED  BY <2>1, AnswerFacts
  <2>3. SUFFICES ASSUME NEW a, a = new, v = "long" PROVE KeptGood(a)'
    <3>. HIDE DEF new
    <3>. QED  BY <1>0, <2>2
  <2>4. a.op = "txs" /\ a.arg = c /\ a.body = body /\ a.quiet = quiet'
    BY <2>1, <2>3 DEF PlaceInv, Paging
  <2>5. ASSUME quiet PROVE Final(c) /\ body = <<Height[c]>> \o BlockTxs[c]
    <3>1. loc.seen = <<"long">>
      BY <2>1, <2>3 DEF BlockPageInv, Paging
    <3>2. Final(c) /\ loc.height # -1
      BY <2>1, <2>5, <3>1 DEF BlockPageInv, Paging
    <3>3. Height[c] = loc.height /\ c \in metas /\ c \in Blocks
      BY <2>1, <2>5, <3>2 DEF BlockPageInv, Paging, Final
    <3>4. loc.got \in Seq(Txs) /\ loc.got = BlockTxs[c]
      <4>1. loc.got \in Seq(Txs) /\ loc.got \o <<>> = BlockTxs[c]
        BY <2>1 DEF BlockPageInv, Paging
      <4>. QED  BY <4>1, ConcatEmptySeq
    <3>5. Range(BlockTxs[c]) \subseteq WithPrevouts
      <4>1. c \in Stored
        BY <3>3 DEF WriterInv, StoreInv
      <4>. HIDE DEF c
      <4>. QED  BY <4>1, StoredPrevouts DEF Range, TxsOf
    <3>6. BlockTxs[c] \in Seq(Txs)
      BY <3>4
    <3>. HIDE DEF c
    <3>7. Sifted(BlockTxs[c], WithPrevouts) = BlockTxs[c]
      BY <3>5, <3>6, SiftedAll
    <3>. QED  BY <3>2, <3>3, <3>4, <3>7
  <2>. HIDE DEF body
  <2>6. KeptGood(a)
    BY <2>1, <2>4, <2>5 DEF KeptGood, Final, Refers, AboutTx
  <2>. QED  BY <1>0, <2>6, KeptGoodStays
<1>9. CASE \/ BlockMeta \/ RawTxids \/ BlockPageId \/ BlockPageTx \/ BlockPageTtl \/ TxPool \/ TxBlock \/ TxTtl
           \/ ProofTxids \/ PoolSpend \/ FindChain \/ PoolPage \/ ChainPage \/ ChainRow
  <2>1. \/ \E r, label, l : Accept(r, label, l)
        \/ \E r, body : Answer(r, Absent, body)
    BY <1>9 DEF BlockMeta, RawTxids, BlockPageId, BlockPageTx, BlockPageTtl, TxPool, TxBlock, TxTtl, ProofTxids,
                PoolSpend, FindChain, PoolPage, ChainPage, ChainRow, Continue, NotFound, Fail, Reply
  <2>. QED  BY <1>0, <1>5, <2>1 DEF Absent
<1>. QED  BY <1>1, <1>2, <1>3, <1>4, <1>6, <1>7, <1>8, <1>9, <1>10 DEF Handler

LEMMA KeptStep ==
    ASSUME KeptInv, SessionInv, BlockPageInv, PlaceInv, WriterInv, [RestNext]_restVars
    PROVE  KeptInv'
<1>0. BranchInv /\ best \in Blocks
  BY ReaderAssumption DEF WriterInv, BranchInv
<1>1. CASE MainLoop
  <2>1. kept' = kept /\ ((\E b \in Moves : ApplyHeaders(b)) \/ best' = best)
    BY <1>1, LoopOutside DEF session
  <2>. QED  BY <1>0, <2>1, KeptGoodMoves, KeptGoodStays DEF KeptInv
<1>2. CASE ClientAsks \/ Handler
  <2>1. best' = best /\ \A a \in kept' : a \in kept \/ KeptGood(a)'
    BY <1>0, <1>2, NewAnswersGood
  <2>. QED  BY <2>1, KeptGoodStays DEF KeptInv
<1>3. CASE UNCHANGED restVars
  <2>1. best' = best /\ kept' = kept
    BY <1>3 DEF restVars, backend, session
  <2>. QED  BY <2>1, KeptGoodStays DEF KeptInv
<1>. QED  BY <1>1, <1>2, <1>3 DEF RestNext

LEMMA GhostStep ==
    ASSUME GhostInv, [RestNext]_restVars
    PROVE  GhostInv'
<1>0. ASSUME NEW r, Ask(r) PROVE quiet' = TRUE /\ pure' \in BOOLEAN /\ always' \subseteq Txs
  BY <1>0 DEF Ask, InView, Touching
<1>1. CASE MainLoop
  BY <1>1 DEF GhostInv, MainLoop, Watched, ApplyHeaders, Unindex, Unadd, CancelCache, AddBlocks, IndexBlocks,
              DropGone, FillPool
<1>2. ASSUME NEW r, Ask(r), still' = TRUE \/ \E c : still' = (c = Absent \/ still) PROVE GhostInv'
  <2>1. still' \in BOOLEAN
    BY <1>2 DEF GhostInv
  <2>. QED  BY <1>0, <1>2, <2>1 DEF GhostInv
<1>3. CASE \E h \in AskHeights : ByHeight(h)
  BY <1>2, <1>3 DEF ByHeight, FreshRead
<1>4. CASE \E b \in AskBlocks : Status(b) \/ Block(b) \/ Raw(b) \/ BlockPage(b)
  BY <1>2, <1>4 DEF Status, Block, Raw, BlockPage, FreshRead
<1>5. CASE (\E t \in AskTxs : Tx(t) \/ TxStatus(t) \/ Proof(t)) \/ \E o \in AskOuts : OutSpend(o)
  BY <1>2, <1>5 DEF Tx, TxStatus, Proof, OutSpend, FreshRead
<1>6. ASSUME NEW op, NEW cursor, History(op, cursor) PROVE GhostInv'
  BY <1>2, <1>6 DEF History
<1>7. CASE Utxo
  BY <1>2, <1>7 DEF Utxo, FreshRead
<1>8. CASE PlainHandler \/ FindChain \/ PoolPage \/ ChainPage \/ ChainRow \/ PrepareTxs
           \/ UtxoScan \/ UtxoRow \/ UtxoSave \/ UtxoPool
  <2>1. UNCHANGED ghosts
    <3>1. CASE PlainHandler
      BY <3>1 DEF PlainHandler, Resumed, Lifetime, BlockMeta, BlockMtp, RawTxids, RawTx, BlockPageId,
                  BlockPageTx, BlockPageTtl, BlockPagePrev, TxPool, TxBlock, TxTtl, TxPrev, ProofTxids, PoolSpend
    <3>2. CASE FindChain \/ PoolPage \/ ChainPage \/ ChainRow \/ PrepareTxs
      BY <3>2 DEF Resumed, FindChain, PoolPage, ChainPage, ChainRow, PrepareTxs
    <3>3. CASE UtxoScan \/ UtxoRow \/ UtxoSave \/ UtxoPool
      BY <3>3 DEF Resumed, UtxoScan, UtxoRow, UtxoSave, UtxoPool
    <3>. QED  BY <1>8, <3>1, <3>2, <3>3
  <2>. QED  BY <2>1 DEF ghosts, GhostInv
<1>10. CASE RowTxs
  BY <1>10, RowTxsFacts DEF GhostInv
<1>11. CASE UtxoHeight
  <2>1. UNCHANGED <<quiet, still, always>> /\ pure' \in BOOLEAN
    BY <1>11, UtxoHeightFacts DEF GhostInv
  <2>. QED  BY <2>1 DEF GhostInv
<1>9. CASE UNCHANGED restVars
  BY <1>9 DEF restVars, ghosts, GhostInv
<1>. QED  BY <1>1, <1>3, <1>4, <1>5, <1>6, <1>7, <1>8, <1>9, <1>10, <1>11
          DEF RestNext, ClientAsks, NextPage, Handler, PlainHandler

LEMMA KeepInit == RestInit => KeepInv
<1>. SUFFICES ASSUME RestInit PROVE KeepInv
  OBVIOUS
<1>1. /\ place = "idle" /\ req = NoRequest /\ loc = Idle /\ kept = {} /\ quiet = TRUE /\ pure = TRUE
      /\ still = FALSE /\ always = {}
  BY DEF RestInit
<1>2. KeptInv /\ PlaceInv /\ GhostInv /\ BlockPageInv
  BY <1>1 DEF KeptInv, PlaceInv, GhostInv, BlockPageInv, NoRequest, Listing, Paging, Unspending
<1>3. SessionInv
  BY <1>1, IdleFields DEF SessionInv
<1>. QED  BY <1>2, <1>3, WriterInit DEF KeepInv

LEMMA KeepStep ==
    ASSUME KeepInv, [RestNext]_restVars
    PROVE  KeepInv'
BY WriterStep, KeptStep, PlaceStep, SessionStep, BlockPageStep, GhostStep DEF KeepInv

LEMMA TypesFromInv == ASSUME KeepInv PROVE RestTypeOK
<1>1. best \in Blocks /\ Chain[best] \subseteq Blocks /\ BranchInv /\ StoreInv /\ PoolInv /\ GhostInv
  BY ReaderAssumption, Branches DEF KeepInv, WriterInv, BranchInv
<1>2. Former \subseteq Blocks /\ Stored \subseteq Blocks
  <2>1. Former \subseteq Blocks
    BY <1>1 DEF Former, BranchInv
  <2>. QED  BY <1>1, <2>1 DEF Stored
<1>3. stored \subseteq Txs
  BY <1>1, <1>2, BlockTxsType DEF StoreInv, TxRows
<1>4. conf \subseteq Txs \X Blocks
  BY <1>1, <1>2, BlockTxsType, ConfRowsOf DEF StoreInv
<1>5. Len(pool) = Cardinality(Pool) /\ Pool \subseteq Txs
  <2>1. /\ pool \in Seq(Txs) /\ Len(pool) \in Nat /\ DOMAIN pool = 1..Len(pool)
        /\ Pool \subseteq Known /\ Known \subseteq Txs /\ \A i, j \in DOMAIN pool : pool[i] = pool[j] => i = j
    BY <1>1, ReaderAssumption DEF PoolInv, IsInjective
  <2>2. Pool = {pool[i] : i \in 1..Len(pool)}
    BY <2>1 DEF Pool
  <2>3. pool \in Bijection(1..Len(pool), Pool)
    BY <2>1, <2>2 DEF Bijection, Injection, Surjection, IsInjective
  <2>. DEFINE n == Len(pool)
              P == Pool
  <2>4. n \in Nat /\ pool \in Bijection(1..n, P)
    BY <2>1, <2>3
  <2>. HIDE DEF n, P
  <2>5. 1 \in Int /\ n \in Int /\ Cardinality(1..n) = IF 1 > n THEN 0 ELSE n - 1 + 1
    BY <2>4, FS_Interval
  <2>6. IsFiniteSet(1..n) /\ Cardinality(1..n) = n
    BY <2>4, <2>5, FS_Interval
  <2>7. Cardinality(P) = Cardinality(1..n)
    BY <2>4, <2>6, FS_Bijection DEF ExistsBijection
  <2>. QED  BY <2>1, <2>6, <2>7 DEF n, P
<1>. QED  BY <1>1, <1>2, <1>3, <1>4, <1>5 DEF RestTypeOK, BranchInv, StoreInv, GhostInv

LEMMA GoodIsTrue ==
    ASSUME best \in Blocks, NEW a, KeptGood(a), a.quiet
    PROVE  True(a)
<1>1. ASSUME a.op \in AboutTx \cup {"block-height", "status", "txs"} PROVE True(a)
  <2>1. PICK c \in Chain[best] : Final(c) /\ Refers(a.op, a.arg, a.body, c)
    BY <1>1 DEF KeptGood
  <2>3. CASE a.op = "block-height"
    <3>1. Height[c] = a.arg /\ a.body[1] = c
      BY <2>1, <2>3 DEF Refers
    <3>2. a.arg \in HeightsOf(best)
      BY <3>1 DEF HeightsOf
    <3>3. BlockAt(a.arg) \in Chain[best] /\ Height[BlockAt(a.arg)] = Height[c]
      BY <3>1, <3>2, BlockAtFacts
    <3>4. BlockAt(a.arg) = c
      BY <3>3, HeightAssumption
    <3>. QED  BY <2>3, <3>1, <3>2, <3>4 DEF True
  <2>4. CASE a.op = "status"
    BY <2>1, <2>4 DEF True, Refers
  <2>5. CASE a.op \in AboutTx
    BY <2>1, <2>5 DEF True, Refers, AboutTx
  <2>6. CASE a.op = "txs"
    BY <2>1, <2>6 DEF True, Refers, AboutTx
  <2>. QED  BY <1>1, <2>3, <2>4, <2>5, <2>6
<1>2. ASSUME a.op \notin AboutTx \cup {"block-height", "status", "txs"} PROVE True(a)
  BY <1>2 DEF True, AboutTx
<1>. QED  BY <1>1, <1>2

(* An answer with the lifetime of five years stays true: what was computed *)
(* while the header list stood still is never contradicted by a later best *)
(* chain, although CONF_FINAL blocks may be rolled back, and a raw block   *)
(* is complete whatever was deleted or written while it was put together   *)
(* (ttl_by_depth, block_raw, block_txs, block_status, tx).  The next block *)
(* a status names is not part of it.                                       *)
THEOREM LongAnswersStayTrue == RestSpec => []KeptAnswersTrue
<1>1. KeepInv => KeptAnswersTrue
  <2>. SUFFICES ASSUME KeepInv PROVE KeptAnswersTrue
    OBVIOUS
  <2>1. best \in Blocks /\ \A a \in kept : KeptGood(a)
    BY ReaderAssumption DEF KeepInv, WriterInv, BranchInv, KeptInv
  <2>2. QuietLongIsFinal
    BY <2>1, GoodIsTrue DEF QuietLongIsFinal
  <2>3. RawIsWhole
    BY <2>1 DEF KeptGood, RawIsWhole
  <2>. QED  BY <2>2, <2>3, TypesFromInv DEF KeptAnswersTrue
<1>. QED  BY <1>1, KeepInit, KeepStep, PTL DEF RestSpec

-----------------------------------------------------------------------------
(* The reverse scan of the history rows, while they are those of a branch. *)

(* The transactions of the script in the blocks up to a height.            *)
ScriptTxs(p, h) ==
    {t \in Touching : \E b \in Chain[p] : t \in TxsOf(b) /\ (h = -1 \/ Height[b] <= h)}

ScanRows(h) == {r \in history : r[1] = "H" /\ (h = -1 \/ r[3] <= h)}
FirstRows(h) == {r \in ScanRows(h) : \A q \in ScanRows(h) : TxOf(q) = TxOf(r) => ~Later(q, r)}
Entries(h) == {<<"H", Script, r[3], r[4], TxOf(r)>> : r \in FirstRows(h)}
Newer(E) == {p \in E \X E : Later(p[1], p[2])}
Scan(h) == Listed(Entries(h), Newer(Entries(h)))

LEMMA ChainScanIs == \A h : ChainScan(h) = [i \in DOMAIN Scan(h) |-> TxOf(Scan(h)[i])]
BY DEF ChainScan, Scan, Newer, Entries, FirstRows, ScanRows

(* A transaction has one place on a branch, hence one entry.               *)
LEMMA EntriesOf ==
    ASSUME NEW p \in Blocks \cup {NoBlock}, history = HistRows(Chain[p]), NEW h \in Nat \cup {-1}
    PROVE  \A e : e \in Entries(h) <=>
             \E b \in Chain[p] : \E i \in DOMAIN BlockTxs[b] :
                /\ BlockTxs[b][i] \in Touching /\ (h = -1 \/ Height[b] <= h)
                /\ e = <<"H", Script, Height[b], i, BlockTxs[b][i]>>
<1>0. Chain[p] \in SUBSET Blocks
  BY Branches
<1>1. ASSUME NEW r \in ScanRows(h)
      PROVE  \E b \in Chain[p] : \E i \in DOMAIN BlockTxs[b] :
                /\ BlockTxs[b][i] \in Touching /\ (h = -1 \/ Height[b] <= h)
                /\ TxOf(r) = BlockTxs[b][i] /\ r[3] = Height[b] /\ r[4] = i
  <2>0. r \in HistRows(Chain[p]) /\ r[1] = "H" /\ (h = -1 \/ r[3] <= h)
    BY DEF ScanRows
  <2>1. PICK b \in Chain[p] : \E i \in DOMAIN BlockTxs[b] :
             /\ TxOf(r) = BlockTxs[b][i]
             /\ r = <<"H", Script, Height[b], i, r[5], r[6], TxOf(r)>>
             /\ ScriptOf(r[6]) = Script
             /\ \/ r[5] = "F" /\ r[6] \in OutsOf(TxOf(r))
                \/ r[5] = "S" /\ r[6] \in Spends[TxOf(r)]
    BY <1>0, <2>0, HistRowFacts
  <2>2. PICK i \in DOMAIN BlockTxs[b] :
             /\ TxOf(r) = BlockTxs[b][i]
             /\ r = <<"H", Script, Height[b], i, r[5], r[6], TxOf(r)>>
             /\ ScriptOf(r[6]) = Script
             /\ \/ r[5] = "F" /\ r[6] \in OutsOf(TxOf(r))
                \/ r[5] = "S" /\ r[6] \in Spends[TxOf(r)]
    BY <2>1
  <2>3. BlockTxs[b][i] \in Txs
    BY <1>0, BlockTxsType DEF TxsOf
  <2>4. BlockTxs[b][i] \in Touching
    BY <2>2, <2>3 DEF Touching, Touches
  <2>5. r[3] = Height[b] /\ r[4] = i
    BY <2>2
  <2>. QED  BY <2>0, <2>2, <2>4, <2>5
<1>2. ASSUME NEW r \in ScanRows(h), NEW q \in ScanRows(h), TxOf(q) = TxOf(r)
      PROVE  ~Later(q, r)
  <2>1. PICK b \in Chain[p] : \E i \in DOMAIN BlockTxs[b] :
             TxOf(r) = BlockTxs[b][i] /\ r[3] = Height[b] /\ r[4] = i
    BY <1>1
  <2>2. PICK i \in DOMAIN BlockTxs[b] : TxOf(r) = BlockTxs[b][i] /\ r[3] = Height[b] /\ r[4] = i
    BY <2>1
  <2>3. PICK c \in Chain[p] : \E j \in DOMAIN BlockTxs[c] :
             TxOf(q) = BlockTxs[c][j] /\ q[3] = Height[c] /\ q[4] = j
    BY <1>1
  <2>4. PICK j \in DOMAIN BlockTxs[c] : TxOf(q) = BlockTxs[c][j] /\ q[3] = Height[c] /\ q[4] = j
    BY <2>3
  <2>5. b = c /\ i = j
    BY <1>2, <2>2, <2>4, Once
  <2>6. Height[b] \in Int /\ i \in Int
    BY <1>0, <2>2, Branches, BlockTxsType
  <2>. QED  BY <2>2, <2>4, <2>5, <2>6 DEF Later
<1>3. FirstRows(h) = ScanRows(h)
  BY <1>2 DEF FirstRows
<1>4. ASSUME NEW b \in Chain[p], NEW i \in DOMAIN BlockTxs[b],
             BlockTxs[b][i] \in Touching, h = -1 \/ Height[b] <= h
      PROVE  \E r \in ScanRows(h) : r[3] = Height[b] /\ r[4] = i /\ TxOf(r) = BlockTxs[b][i]
  <2>. DEFINE t == BlockTxs[b][i]
  <2>1. PICK o : ScriptOf(o) = Script /\ (o \in OutsOf(t) \/ o \in Spends[t])
    BY <1>4 DEF Touching, Touches
  <2>. DEFINE rf == <<"H", Script, Height[b], i, "F", o, t>>
              rs == <<"H", Script, Height[b], i, "S", o, t>>
  <2>2. (o \in OutsOf(t) => rf \in history) /\ (o \in Spends[t] => rs \in history)
    BY <1>0, <2>1, RowsThere
  <2>3. /\ rf[1] = "H" /\ rf[3] = Height[b] /\ rf[4] = i /\ TxOf(rf) = t
        /\ rs[1] = "H" /\ rs[3] = Height[b] /\ rs[4] = i /\ TxOf(rs) = t
    BY DEF TxOf
  <2>. HIDE DEF rf, rs
  <2>. QED  BY <1>4, <2>1, <2>2, <2>3 DEF ScanRows
<1>5. ASSUME NEW e, e \in Entries(h)
      PROVE  \E b \in Chain[p] : \E i \in DOMAIN BlockTxs[b] :
                /\ BlockTxs[b][i] \in Touching /\ (h = -1 \/ Height[b] <= h)
                /\ e = <<"H", Script, Height[b], i, BlockTxs[b][i]>>
  <2>1. PICK r \in ScanRows(h) : e = <<"H", Script, r[3], r[4], TxOf(r)>>
    BY <1>3, <1>5 DEF Entries
  <2>. QED  BY <1>1, <2>1
<1>6. ASSUME NEW b \in Chain[p], NEW i \in DOMAIN BlockTxs[b],
             BlockTxs[b][i] \in Touching, h = -1 \/ Height[b] <= h
      PROVE  <<"H", Script, Height[b], i, BlockTxs[b][i]>> \in Entries(h)
  BY <1>3, <1>4, <1>6 DEF Entries
<1>. QED  BY <1>5, <1>6

LEMMA EntriesFinite ==
    ASSUME NEW p \in Blocks \cup {NoBlock}, history = HistRows(Chain[p]), NEW h \in Nat \cup {-1}
    PROVE  IsFiniteSet(Entries(h))
<1>. DEFINE E(b) == {<<"H", Script, Height[b], i, BlockTxs[b][i]>> : i \in DOMAIN BlockTxs[b]}
            All == {E(b) : b \in Chain[p]}
<1>0. ASSUME NEW S, IsFiniteSet(S), NEW T, NEW f \in [S -> T], \A x \in T : \E a \in S : f[a] = x
      PROVE  IsFiniteSet(T)
  <2>1. f \in Surjection(S, T)
    BY <1>0 DEF Surjection
  <2>. QED  BY <1>0, <2>1, FS_Surjection
<1>1. IsFiniteSet(All)
  <2>. DEFINE f == [b \in Chain[p] |-> E(b)]
  <2>1. f \in [Chain[p] -> All] /\ \A x \in All : \E a \in Chain[p] : f[a] = x
    BY Zenon
  <2>. HIDE DEF f, All
  <2>. QED  BY <1>0, <2>1, BranchFinite
<1>2. ASSUME NEW b \in Chain[p] PROVE IsFiniteSet(E(b))
  <2>1. BlockTxs[b] \in Seq(Txs)
    BY Branches, BlockTxsType
  <2>2. DOMAIN BlockTxs[b] = 1..Len(BlockTxs[b]) /\ Len(BlockTxs[b]) \in Nat
    BY <2>1
  <2>3. IsFiniteSet(DOMAIN BlockTxs[b])
    BY <2>2, FS_Interval
  <2>. DEFINE f == [i \in DOMAIN BlockTxs[b] |-> <<"H", Script, Height[b], i, BlockTxs[b][i]>>]
              T == E(b)
  <2>4. f \in [DOMAIN BlockTxs[b] -> T] /\ \A x \in T : \E a \in DOMAIN BlockTxs[b] : f[a] = x
    OBVIOUS
  <2>5. IsFiniteSet(T)
    <3>. HIDE DEF f, T
    <3>. QED  BY <1>0, <2>3, <2>4
  <2>. QED  BY <2>5
<1>3. IsFiniteSet(UNION All)
  BY <1>1, <1>2, FS_UNION
<1>4. Entries(h) \subseteq UNION All
  BY EntriesOf
<1>. QED  BY <1>3, <1>4, FS_Subset

LEMMA EntriesOrdered ==
    ASSUME NEW p \in Blocks \cup {NoBlock}, history = HistRows(Chain[p]), NEW h \in Nat \cup {-1}
    PROVE  /\ Orders(Newer(Entries(h)), Entries(h))
           /\ \A e \in Entries(h) : e[3] \in Nat /\ e[4] \in Nat /\ TxOf(e) = e[5]
           /\ \A e, f \in Entries(h) : e[5] = f[5] => e = f
<1>. DEFINE E == Entries(h)
<1>1. ASSUME NEW e \in E
      PROVE  /\ e[3] \in Nat /\ e[4] \in Nat /\ TxOf(e) = e[5]
             /\ \E b \in Chain[p] : \E i \in DOMAIN BlockTxs[b] : 
                   e = <<"H", Script, Height[b], i, BlockTxs[b][i]>>
  <2>1. PICK b \in Chain[p] : \E i \in DOMAIN BlockTxs[b] : e = <<"H", Script, Height[b], i, BlockTxs[b][i]>>
    BY EntriesOf
  <2>2. PICK i \in DOMAIN BlockTxs[b] : e = <<"H", Script, Height[b], i, BlockTxs[b][i]>>
    BY <2>1
  <2>3. BlockTxs[b] \in Seq(Txs) /\ Height[b] \in Nat
    BY Branches, BlockTxsType
  <2>4. i \in Nat
    BY <2>3
  <2>5. e[3] = Height[b] /\ e[4] = i /\ TxOf(e) = e[5]
    BY <2>2 DEF TxOf
  <2>. QED  BY <2>2, <2>3, <2>4, <2>5
<1>2. ASSUME NEW e \in E, NEW f \in E, (e[3] = f[3] /\ e[4] = f[4]) \/ e[5] = f[5] PROVE e = f
  <2>1. PICK b \in Chain[p] : \E i \in DOMAIN BlockTxs[b] : e = <<"H", Script, Height[b], i, BlockTxs[b][i]>>
    BY <1>1
  <2>2. PICK i \in DOMAIN BlockTxs[b] : e = <<"H", Script, Height[b], i, BlockTxs[b][i]>>
    BY <2>1
  <2>3. PICK c \in Chain[p] : \E j \in DOMAIN BlockTxs[c] : f = <<"H", Script, Height[c], j, BlockTxs[c][j]>>
    BY <1>1
  <2>4. PICK j \in DOMAIN BlockTxs[c] : f = <<"H", Script, Height[c], j, BlockTxs[c][j]>>
    BY <2>3
  <2>5. (Height[b] = Height[c] /\ i = j) \/ BlockTxs[b][i] = BlockTxs[c][j]
    BY <1>2, <2>2, <2>4
  <2>6. b = c /\ i = j
    BY <2>5, Once, Branches
  <2>. QED  BY <2>2, <2>4, <2>6
<1>. HIDE DEF E
<1>3. \A e, f \in E : <<e, f>> \in Newer(E) <=> e[3] > f[3] \/ (e[3] = f[3] /\ e[4] > f[4])
  BY DEF Newer, Later
<1>4. Orders(Newer(E), E)
  <2>1. ASSUME NEW x \in E PROVE <<x, x>> \notin Newer(E)
    BY <1>1, <1>3
  <2>2. ASSUME NEW x \in E, NEW y \in E PROVE x = y \/ <<x, y>> \in Newer(E) \/ <<y, x>> \in Newer(E)
    <3>1. x[3] \in Nat /\ x[4] \in Nat /\ y[3] \in Nat /\ y[4] \in Nat
      BY <1>1
    <3>2. CASE x[3] = y[3] /\ x[4] = y[4]
      BY <1>2, <3>2
    <3>3. CASE ~(x[3] = y[3] /\ x[4] = y[4])
      BY <1>3, <3>1, <3>3
    <3>. QED  BY <3>2, <3>3
  <2>3. ASSUME NEW x \in E, NEW y \in E, NEW z \in E, <<x, y>> \in Newer(E), <<y, z>> \in Newer(E)
        PROVE  <<x, z>> \in Newer(E)
    <3>1. x[3] \in Nat /\ x[4] \in Nat /\ y[3] \in Nat /\ y[4] \in Nat /\ z[3] \in Nat /\ z[4] \in Nat
      BY <1>1
    <3>. QED  BY <1>3, <2>3, <3>1
  <2>. QED  BY <2>1, <2>2, <2>3 DEF Orders
<1>. QED  BY <1>1, <1>2, <1>4 DEF E

LEMMA ScanFacts ==
    ASSUME NEW p \in Blocks \cup {NoBlock}, history = HistRows(Chain[p]), NEW h \in Nat \cup {-1}
    PROVE  /\ ChainScan(h) \in Seq(Txs) /\ IsInjective(ChainScan(h)) /\ Range(ChainScan(h)) = ScriptTxs(p, h)
           /\ Len(ChainScan(h)) = Cardinality(Entries(h)) /\ Cardinality(Entries(h)) \in Nat
<1>. DEFINE E == Entries(h)
            L == Scan(h)
            c == ChainScan(h)
            n == Cardinality(E)
<1>1. /\ L \in Seq(E) /\ Len(L) = n /\ n \in Nat /\ IsInjective(L) /\ Range(L) = E
      /\ \A i \in 1..n : L[i] \in E
  BY EntriesFinite, EntriesOrdered, ListedFacts DEF Scan
<1>2. c = [i \in DOMAIN L |-> TxOf(L[i])] /\ DOMAIN L = 1..n
  BY <1>1, ChainScanIs
<1>3. \A e \in E : TxOf(e) = e[5]
  BY EntriesOrdered
<1>4. \A e, f \in E : TxOf(e) = TxOf(f) => e = f
  BY EntriesOrdered
<1>5. \A t : (\E e \in E : TxOf(e) = t) <=> t \in ScriptTxs(p, h)
  <2>1. ASSUME NEW e \in E PROVE TxOf(e) \in ScriptTxs(p, h)
    <3>1. PICK b \in Chain[p] : \E i \in DOMAIN BlockTxs[b] :
                /\ BlockTxs[b][i] \in Touching /\ (h = -1 \/ Height[b] <= h)
                /\ e = <<"H", Script, Height[b], i, BlockTxs[b][i]>>
      BY EntriesOf
    <3>2. PICK i \in DOMAIN BlockTxs[b] :
                /\ BlockTxs[b][i] \in Touching /\ (h = -1 \/ Height[b] <= h)
                /\ e = <<"H", Script, Height[b], i, BlockTxs[b][i]>>
      BY <3>1
    <3>3. TxOf(e) = BlockTxs[b][i]
      BY <1>3, <3>2
    <3>. QED  BY <3>2, <3>3 DEF ScriptTxs, TxsOf
  <2>2. ASSUME NEW t \in ScriptTxs(p, h) PROVE \E e \in E : TxOf(e) = t
    <3>1. PICK b \in Chain[p] : t \in TxsOf(b) /\ t \in Touching /\ (h = -1 \/ Height[b] <= h)
      BY DEF ScriptTxs
    <3>2. PICK i \in DOMAIN BlockTxs[b] : t = BlockTxs[b][i]
      BY <3>1 DEF TxsOf
    <3>. DEFINE e == <<"H", Script, Height[b], i, BlockTxs[b][i]>>
    <3>3. e \in E /\ e[5] = t
      BY <3>1, <3>2, EntriesOf
    <3>. QED  BY <1>3, <3>3
  <2>. QED  BY <2>1, <2>2
<1>6. ScriptTxs(p, h) \subseteq Txs
  BY DEF ScriptTxs, Touching
<1>. HIDE DEF E, L, c, n
<1>7. \A i \in 1..n : c[i] = TxOf(L[i]) /\ c[i] \in Txs
  BY <1>1, <1>2, <1>5, <1>6
<1>8. c \in Seq(Txs) /\ Len(c) = n /\ DOMAIN c = 1..n
  <2>1. DOMAIN c = 1..n /\ c \in [1..n -> Txs]
    BY <1>2, <1>7
  <2>. QED  BY <1>1, <2>1
<1>9. IsInjective(c)
  <2>. SUFFICES ASSUME NEW i \in 1..n, NEW j \in 1..n, c[i] = c[j] PROVE i = j
    BY <1>8 DEF IsInjective
  <2>1. L[i] = L[j]
    BY <1>1, <1>4, <1>7
  <2>. QED  BY <1>1, <1>2, <2>1 DEF IsInjective
<1>10. Range(c) = ScriptTxs(p, h)
  <2>1. ASSUME NEW t \in Range(c) PROVE t \in ScriptTxs(p, h)
    BY <1>1, <1>5, <1>7, <1>8 DEF Range
  <2>2. ASSUME NEW t \in ScriptTxs(p, h) PROVE t \in Range(c)
    <3>1. PICK e \in E : TxOf(e) = t
      BY <1>5
    <3>2. PICK i \in 1..n : L[i] = e
      BY <1>1, <1>2 DEF Range
    <3>. QED  BY <1>7, <1>8, <3>1, <3>2 DEF Range
  <2>. QED  BY <2>1, <2>2
<1>. QED  BY <1>1, <1>8, <1>9, <1>10 DEF c, n, E

(* The scan from a height down ends the scan from the top.                 *)
LEMMA ScanSegment ==
    ASSUME NEW p \in Blocks \cup {NoBlock}, history = HistRows(Chain[p]), NEW h \in Nat
    PROVE  LET n == Len(ChainScan(-1))
               m == Len(ChainScan(h))
           IN  m \in 0..n /\ \A i \in 1..m : ChainScan(-1)[n - m + i] = ChainScan(h)[i]
<1>. DEFINE S == Entries(-1)
            T == Entries(h)
            n == Len(ChainScan(-1))
            m == Len(ChainScan(h))
            d == Cardinality(S \ T)
<1>0. -1 \in Nat \cup {-1} /\ h \in Nat \cup {-1} /\ h # -1
  OBVIOUS
<1>1. /\ n = Cardinality(S) /\ m = Cardinality(T) /\ n \in Nat /\ m \in Nat
      /\ IsFiniteSet(S) /\ Orders(Newer(S), S)
  BY <1>0, ScanFacts, EntriesFinite, EntriesOrdered
<1>2. T \subseteq S /\ \A x \in T : x[3] <= h
  <2>. SUFFICES ASSUME NEW x \in T PROVE x \in S /\ x[3] <= h
    OBVIOUS
  <2>1. PICK b \in Chain[p] : \E i \in DOMAIN BlockTxs[b] :
                /\ BlockTxs[b][i] \in Touching /\ Height[b] <= h
                /\ x = <<"H", Script, Height[b], i, BlockTxs[b][i]>>
    BY <1>0, EntriesOf
  <2>2. \E i \in DOMAIN BlockTxs[b] :
                /\ BlockTxs[b][i] \in Touching
                /\ x = <<"H", Script, Height[b], i, BlockTxs[b][i]>>
    BY <2>1
  <2>. QED  BY <1>0, <2>1, <2>2, EntriesOf
<1>3. ASSUME NEW x \in S \ T PROVE x[3] > h
  <2>1. PICK b \in Chain[p] : \E i \in DOMAIN BlockTxs[b] :
                /\ BlockTxs[b][i] \in Touching
                /\ x = <<"H", Script, Height[b], i, BlockTxs[b][i]>>
    BY <1>0, EntriesOf
  <2>2. x[3] = Height[b] /\ Height[b] \in Nat
    BY <2>1, Branches
  <2>3. ~(Height[b] <= h)
    BY <1>0, <2>1, EntriesOf
  <2>. QED  BY <2>2, <2>3
<1>4. \A x \in S : x[3] \in Nat /\ TxOf(x) = x[5]
  BY <1>0, EntriesOrdered
<1>5. \A x \in T : \A y \in S \ T : <<y, x>> \in Newer(S)
  BY <1>2, <1>3, <1>4 DEF Newer, Later
<1>6. \A x, y \in T : <<x, y>> \in Newer(S) <=> <<x, y>> \in Newer(T)
  BY <1>2 DEF Newer
<1>. HIDE DEF S, T
<1>7. /\ Len(Listed(T, Newer(T))) = Cardinality(T) /\ d \in Nat /\ Cardinality(S) = d + Cardinality(T)
      /\ \A i \in 1..Cardinality(T) : Listed(S, Newer(S))[d + i] = Listed(T, Newer(T))[i]
  <2>. DEFINE R == Newer(S)
              Q == Newer(T)
  <2>1. IsFiniteSet(S) /\ Orders(R, S) /\ Segment(S, R, T, Q)
    BY <1>1, <1>2, <1>5, <1>6 DEF Segment
  <2>. HIDE DEF R, Q
  <2>2. ListedLast(S, R, T, Q)
    BY <2>1, ListedSegment
  <2>. QED  BY <2>2 DEF R, Q, ListedLast
<1>8. /\ DOMAIN Scan(-1) = 1..n /\ DOMAIN Scan(h) = 1..m
      /\ \A i \in 1..m : Scan(-1)[d + i] = Scan(h)[i]
  <2>1. Scan(-1) = Listed(S, Newer(S)) /\ Scan(h) = Listed(T, Newer(T))
    BY DEF S, T, Scan
  <2>2. Listed(S, Newer(S)) \in Seq(S) /\ Len(Listed(S, Newer(S))) = n
    BY <1>1, ListedFacts
  <2>3. IsFiniteSet(T) /\ Orders(Newer(T), T)
    BY <1>0, EntriesFinite, EntriesOrdered DEF T
  <2>4. Listed(T, Newer(T)) \in Seq(T) /\ Len(Listed(T, Newer(T))) = m
    BY <1>1, <2>3, ListedFacts
  <2>. DEFINE A == Listed(S, Newer(S))
              B == Listed(T, Newer(T))
  <2>5. A \in Seq(S) /\ Len(A) = n /\ B \in Seq(T) /\ Len(B) = m /\ \A i \in 1..m : A[d + i] = B[i]
    BY <1>1, <1>7, <2>2, <2>4
  <2>. HIDE DEF A, B, n, m, d
  <2>6. DOMAIN A = 1..n /\ DOMAIN B = 1..m
    BY <2>5
  <2>. QED  BY <2>1, <2>5, <2>6 DEF A, B
<1>. HIDE DEF n, m, d
<1>9. n = d + m /\ n - m = d
  BY <1>1, <1>7
<1>10. ASSUME NEW i \in 1..m PROVE ChainScan(-1)[d + i] = ChainScan(h)[i]
  <2>1. d + i \in 1..n
    BY <1>1, <1>7, <1>9
  <2>. QED  BY <1>8, <2>1, ChainScanIs
<1>11. m \in 0..n
  BY <1>1, <1>7, <1>9
<1>. QED  BY <1>9, <1>10, <1>11 DEF n, m

-----------------------------------------------------------------------------
(* What is left of a list after its first k elements, and how it begins.   *)

After(u, s, k) ==
    /\ u \in Seq(Txs) /\ k \in 0..Len(s) /\ Len(u) = Len(s) - k
    /\ \A i \in 1..Len(u) : u[i] = s[k + i]

Starts(u, s) == u \in Seq(Txs) /\ Len(u) <= Len(s) /\ \A i \in 1..Len(u) : u[i] = s[i]

Distinct(s) == s \in Seq(Txs) /\ IsInjective(s)

LEMMA SkipNothing ==
    ASSUME NEW s, Distinct(s)
    PROVE  After(SkipTo(s, Absent), s, 0)
<1>1. SkipTo(s, Absent) = s
  BY DEF SkipTo
<1>. QED  BY <1>1 DEF After, Distinct

LEMMA SkipCursor ==
    ASSUME NEW s, Distinct(s), NEW k \in 1..Len(s)
    PROVE  After(SkipTo(s, s[k]), s, k)
<1>1. /\ s \in Seq(Txs) /\ Len(s) \in Nat /\ DOMAIN s = 1..Len(s) /\ k \in Nat /\ k >= 1 /\ k <= Len(s)
      /\ s[k] # Absent /\ \A i, j \in DOMAIN s : s[i] = s[j] => i = j
  BY ReaderAssumption DEF Distinct, IsInjective
<1>2. Contains(s, s[k])
  BY <1>1 DEF Contains
<1>3. {i \in DOMAIN s : s[i] = s[k]} = {k}
  BY <1>1
<1>4. Min({k}) = k
  BY <1>1 DEF Min
<1>5. SkipTo(s, s[k]) = SubSeq(s, k + 1, Len(s))
  BY <1>1, <1>2, <1>3, <1>4 DEF SkipTo
<1>. DEFINE u == SubSeq(s, k + 1, Len(s))
            n == Len(s)
<1>6. k + 1 \in Int /\ n \in Int /\ \A i \in (k + 1)..n : s[i] \in Txs
  BY <1>1
<1>7. /\ u \in Seq(Txs) /\ Len(u) = IF k + 1 <= n THEN n - (k + 1) + 1 ELSE 0
      /\ \A i \in 1..(n - (k + 1) + 1) : u[i] = s[(k + 1) + i - 1]
  BY <1>6, SubSeqProperties
<1>10. n \in Nat /\ k \in Nat /\ k <= n
  BY <1>1
<1>. HIDE DEF u, n
<1>8. Len(u) = n - k
  BY <1>7, <1>10
<1>9. ASSUME NEW i \in 1..Len(u) PROVE u[i] = s[k + i]
  <2>1. i \in 1..(n - (k + 1) + 1) /\ (k + 1) + i - 1 = k + i
    BY <1>8, <1>9, <1>10
  <2>. QED  BY <1>7, <2>1
<1>11. u \in Seq(Txs) /\ k \in 0..Len(s) /\ Len(u) = Len(s) - k /\ \A i \in 1..Len(u) : u[i] = s[k + i]
  BY <1>7, <1>8, <1>9, <1>10 DEF n
<1>12. SkipTo(s, s[k]) = u
  BY <1>5 DEF u
<1>. QED  BY <1>11, <1>12 DEF After

LEMMA SkipType ==
    ASSUME NEW s, Distinct(s), NEW c
    PROVE  \E k \in 0..Len(s) : After(SkipTo(s, c), s, k)
<1>0. s \in Seq(Txs) /\ Len(s) \in Nat
  BY DEF Distinct
<1>1. CASE c = Absent
  BY <1>0, <1>1, SkipNothing
<1>2. CASE c # Absent /\ Contains(s, c)
  <2>1. PICK k \in 1..Len(s) : s[k] = c
    BY <1>2 DEF Contains
  <2>. QED  BY <1>0, <2>1, SkipCursor
<1>3. CASE c # Absent /\ ~Contains(s, c)
  <2>1. SkipTo(s, c) = <<>>
    BY <1>3 DEF SkipTo
  <2>2. After(<<>>, s, Len(s))
    BY <1>0 DEF After
  <2>. QED  BY <1>0, <2>1, <2>2
<1>. QED  BY <1>1, <1>2, <1>3

LEMMA TakeFacts ==
    ASSUME NEW s \in Seq(Txs), NEW n \in Nat
    PROVE  /\ Starts(Take(s, n), s)
           /\ Len(Take(s, n)) <= n /\ (Len(Take(s, n)) = n \/ Take(s, n) = s)
<1>1. Len(s) \in Nat /\ \A i \in 1..Len(s) : s[i] \in Txs
  OBVIOUS
<1>. DEFINE m == IF n < Len(s) THEN n ELSE Len(s)
            u == SubSeq(s, 1, m)
<1>2. m \in Nat /\ m <= Len(s) /\ m <= n /\ (m = n \/ m = Len(s))
  BY <1>1
<1>3. Take(s, n) = u
  BY DEF Take
<1>. HIDE DEF m
<1>4. /\ u \in Seq(Txs) /\ Len(u) = IF 1 <= m THEN m - 1 + 1 ELSE 0
      /\ \A i \in 1..(m - 1 + 1) : u[i] = s[1 + i - 1]
  BY <1>1, <1>2, SubSeqProperties
<1>. HIDE DEF u
<1>5. Len(u) = m
  BY <1>2, <1>4
<1>6. ASSUME NEW i \in 1..Len(u) PROVE u[i] = s[i]
  <2>1. i \in 1..(m - 1 + 1) /\ 1 + i - 1 = i
    BY <1>2, <1>5, <1>6
  <2>. QED  BY <1>4, <2>1
<1>7. m = Len(s) => u = s
  BY <1>4, <1>5, <1>6, SeqEqual
<1>. QED  BY <1>2, <1>3, <1>4, <1>5, <1>6, <1>7 DEF Starts

-----------------------------------------------------------------------------
(* The lists of a history.                                                 *)

(* The history rows are at all times those of some branch.                 *)
LEMMA HistoryIsOfBranch ==
    ASSUME WriterInv
    PROVE  \E p \in Blocks \cup {NoBlock} : Chain[p] = Historic /\ history = HistRows(Chain[p])
<1>1. best \in Blocks /\ BranchInv /\ StoreInv
  BY ReaderAssumption DEF WriterInv, BranchInv
<1>2. \E p \in Blocks \cup {NoBlock} : Chain[p] = Historic
  BY <1>1 DEF BranchInv, Historic
<1>. QED  BY <1>1, <1>2 DEF StoreInv

LEMMA ListsDistinct ==
    ASSUME WriterInv
    PROVE  /\ Distinct(InPool) /\ Range(InPool) = Pool \cap Touching
           /\ \A h \in Nat \cup {-1} : Distinct(ChainScan(h))
<1>1. PICK p \in Blocks \cup {NoBlock} : history = HistRows(Chain[p])
  BY HistoryIsOfBranch
<1>2. \A h \in Nat \cup {-1} : Distinct(ChainScan(h))
  BY <1>1, ScanFacts DEF Distinct
<1>3. pool \in Seq(Txs) /\ IsInjective(pool)
  BY DEF WriterInv, PoolInv
<1>4. /\ InPool \in Seq(Txs \cap Touching) /\ IsInjective(InPool)
      /\ Range(InPool) = Range(pool) \cap Touching
  BY <1>3, SiftedFacts DEF InPool
<1>5. InPool \in Seq(Txs)
  BY <1>4, SeqMonotonic
<1>6. Range(pool) = Pool
  BY DEF Range, Pool
<1>. QED  BY <1>2, <1>4, <1>5, <1>6 DEF Distinct

LEMMA PageSizeFacts == PageSize \in Nat /\ (req.op # "whole" => PageSize = MaxTxs) /\ (req.op = "whole" => PageSize = MaxWhole)
BY ReaderAssumption DEF PageSize

(* A page of the mempool: from the cursor on, until the page is full.      *)
LEMMA PoolHistoryFacts ==
    ASSUME WriterInv, NEW c, NEW n \in Nat
    PROVE  /\ PoolHistory(c, n) \in Seq(Txs) /\ Len(PoolHistory(c, n)) <= n
           /\ Starts(PoolHistory(c, n), SkipTo(InPool, c))
           /\ (Len(PoolHistory(c, n)) = n \/ PoolHistory(c, n) = SkipTo(InPool, c))
<1>1. SkipTo(InPool, c) \in Seq(Txs)
  <2>1. \E k \in 0..Len(InPool) : After(SkipTo(InPool, c), InPool, k)
    BY ListsDistinct, SkipType
  <2>. QED  BY <2>1 DEF After
<1>2. PoolHistory(c, n) = Take(SkipTo(InPool, c), n)
  BY DEF PoolHistory, InPool
<1>3. /\ Starts(Take(SkipTo(InPool, c), n), SkipTo(InPool, c)) /\ Len(Take(SkipTo(InPool, c), n)) <= n
      /\ (Len(Take(SkipTo(InPool, c), n)) = n \/ Take(SkipTo(InPool, c), n) = SkipTo(InPool, c))
  BY <1>1, TakeFacts
<1>. QED  BY <1>2, <1>3 DEF Starts

LEMMA StepKinds ==
    ASSUME [RestNext]_restVars
    PROVE  \/ MainLoop \/ UNCHANGED restVars \/ PlainAsks \/ PlainHandler
           \/ History("history", Absent) \/ History("whole", Absent) \/ NextPage
           \/ ListHandler \/ Utxo \/ UtxoHandler
BY DEF RestNext, ClientAsks, Handler, PlainAsks, PlainHandler, ListHandler, UtxoHandler

(* The other requests leave the histories and the unspent outputs alone.   *)
LEMMA PlainLeaves ==
    ASSUME PlaceInv, PlainAsks \/ PlainHandler
    PROVE  /\ place' \notin Listing \cup Unspending /\ (place' = "idle" => req'.op = Absent)
           /\ UNCHANGED <<backend, pages>> /\ (always' = always \/ always' = {})
<1>1. place' \in PlainPlaces \/ (place' = "idle" /\ req'.op = Absent)
  BY PlainAsksPlace, PlainHandlerPlace
<1>2. ASSUME PlainHandler PROVE UNCHANGED <<backend, pages, ghosts>>
  BY <1>2 DEF PlainHandler, Resumed, Lifetime, BlockMeta, BlockMtp, RawTxids, RawTx, BlockPageId, BlockPageTx,
              BlockPageTtl, BlockPagePrev, TxPool, TxBlock, TxTtl, TxPrev, ProofTxids, PoolSpend
<1>3. ASSUME NEW r, Ask(r), r.op # "whole" PROVE always' = {}
  BY <1>3 DEF Ask
<1>4. ASSUME PlainAsks PROVE UNCHANGED <<backend, pages>> /\ always' = {}
  <2>1. ASSUME NEW h, ByHeight(h) PROVE UNCHANGED <<backend, pages>> /\ always' = {}
    BY <1>3, <2>1 DEF ByHeight, FreshRead
  <2>2. ASSUME NEW b, Status(b) PROVE UNCHANGED <<backend, pages>> /\ always' = {}
    BY <1>3, <2>2 DEF Status, FreshRead
  <2>3. ASSUME NEW b, Block(b) \/ Raw(b) \/ BlockPage(b) PROVE UNCHANGED <<backend, pages>> /\ always' = {}
    BY <1>3, <2>3 DEF Block, Raw, BlockPage, FreshRead
  <2>4. ASSUME NEW t, Tx(t) \/ TxStatus(t) \/ Proof(t) PROVE UNCHANGED <<backend, pages>> /\ always' = {}
    BY <1>3, <2>4 DEF Tx, TxStatus, Proof, FreshRead
  <2>5. ASSUME NEW o, OutSpend(o) PROVE UNCHANGED <<backend, pages>> /\ always' = {}
    BY <1>3, <2>5 DEF OutSpend, FreshRead
  <2>. QED  BY <1>4, <2>1, <2>2, <2>3, <2>4, <2>5 DEF PlainAsks
<1>5. place' \notin Listing \cup Unspending /\ (place' = "idle" => req'.op = Absent)
  BY <1>1 DEF PlainPlaces, Listing, Unspending
<1>. QED  BY <1>2, <1>4, <1>5 DEF ghosts

(* What NextPage asks for.                                                 *)
LEMMA NextPageFacts ==
    ASSUME NextPage
    PROVE  /\ req.op = "history" /\ out.ttl = "short" /\ out.body # <<>>
           /\ History("history", out.body[Len(out.body)])
BY DEF NextPage

LEMMA ListStep ==
    ASSUME ListInv, SessionInv, PlaceInv, WriterInv, [RestNext]_restVars
    PROVE  ListInv'
<1>0. Formed
  BY DEF SessionInv, Formed
<1>1. CASE MainLoop \/ UNCHANGED restVars
  <2>1. UNCHANGED <<place, loc, req>>
    BY <1>1, LoopOutside DEF restVars, session
  <2>. QED  BY <2>1 DEF ListInv
<1>2. CASE PlainAsks \/ PlainHandler
  BY <1>2, PlainLeaves DEF ListInv
<1>3. ASSUME NEW op \in {"history", "whole"}, NEW c, History(op, c), op = "whole" => c = Absent PROVE ListInv'
  <2>1. /\ req'.op = op /\ req'.arg = c /\ loc'.height = -1 /\ loc'.got = <<>> /\ loc'.seen = <<>>
        /\ (place' = "poolpage" /\ loc'.todo = <<Absent>>) \/ (place' = "findchain" /\ c # Absent)
    BY <1>3, HistoryFacts
  <2>. QED  BY <1>3, <2>1 DEF ListInv
<1>4. CASE History("history", Absent) \/ History("whole", Absent) \/ NextPage
  BY <1>3, <1>4, NextPageFacts
<1>5. ASSUME NEW r, NEW ttl, NEW body, Answer(r, ttl, body) PROVE ListInv'
  BY <1>5, AnswerFacts DEF ListInv, Listing
<1>6. CASE FindChain
  <2>1. CASE \E ttl, body : Answer(req, ttl, body)
    BY <1>5, <2>1
  <2>2. CASE /\ place' = "chainscan" /\ req' = req
             /\ loc'.got = loc.got /\ loc'.seen = loc.seen /\ loc'.todo = <<req.arg>>
    <3>1. place = "findchain"
      BY <1>6 DEF FindChain
    <3>2. loc.got = <<>> /\ loc.seen = <<>> /\ req.op # "whole"
      BY <3>1 DEF ListInv, Listing
    <3>. QED  BY <2>2, <3>2 DEF ListInv
  <2>. QED  BY <1>0, <1>6, <2>1, <2>2, FindChainFacts
<1>7. CASE PoolPage
  <2>1. /\ place = "poolpage" /\ place' = "chainscan" /\ req' = req
        /\ loc'.got = PoolHistory(req.arg, PageSize)
        /\ loc'.seen = loc.seen /\ loc'.todo = loc.todo /\ loc'.height = loc.height
    BY <1>0, <1>7, PoolPageFacts
  <2>2. loc'.got \in Seq(Txs)
    BY <2>1, PageSizeFacts, PoolHistoryFacts
  <2>3. loc.seen = <<>> /\ loc.todo = <<Absent>> /\ loc.height = -1 /\ (req.op = "whole" => req.arg = Absent)
    BY <2>1 DEF ListInv, Listing
  <2>. QED  BY <2>1, <2>2, <2>3 DEF ListInv
<1>8. CASE ChainPage
  <2>1. /\ place = "chainscan" /\ place' = "chainrows" /\ req' = req
        /\ loc'.got = loc.got /\ loc'.seen = loc.seen /\ loc'.height = loc.height
        /\ loc'.todo = SkipTo(ChainScan(loc.height), Head(loc.todo)) \/ loc'.todo = <<>>
    BY <1>0, <1>8, ChainPageFacts
  <2>2. SkipTo(ChainScan(loc.height), Head(loc.todo)) \in Seq(Txs)
    <3>1. Distinct(ChainScan(loc.height))
      BY ListsDistinct DEF SessionInv
    <3>2. \E k \in 0..Len(ChainScan(loc.height)) :
             After(SkipTo(ChainScan(loc.height), Head(loc.todo)), ChainScan(loc.height), k)
      BY <3>1, SkipType
    <3>. QED  BY <3>2 DEF After
  <2>3. loc'.todo \in Seq(Txs)
    <3>. DEFINE t == SkipTo(ChainScan(loc.height), Head(loc.todo))
                u == loc'.todo
    <3>1. t \in Seq(Txs) /\ (u = t \/ u = <<>>) /\ <<>> \in Seq(Txs)
      BY <2>1, <2>2, EmptySeq
    <3>. HIDE DEF t, u
    <3>2. u \in Seq(Txs)
      BY <3>1
    <3>. QED  BY <3>2 DEF u
  <2>4. loc.got \in Seq(Txs) /\ loc.seen \in Seq(Txs) /\ (req.op = "whole" => req.arg = Absent /\ loc.height = -1)
    BY <2>1 DEF ListInv, Listing
  <2>. QED  BY <2>1, <2>3, <2>4 DEF ListInv
<1>9. CASE ChainRow
  <2>1. /\ place = "chainrows" /\ req' = req /\ loc'.got = loc.got /\ loc'.height = loc.height
        /\ \/ place' = "rowtxs" /\ loc' = loc
           \/ /\ loc.todo # <<>>
              /\ place' = "chainrows" /\ loc'.todo = Tail(loc.todo)
              /\ loc'.seen = loc.seen \/ loc'.seen = Append(loc.seen, Head(loc.todo))
    BY <1>0, <1>9, ChainRowFacts
  <2>2. /\ loc.got \in Seq(Txs) /\ loc.seen \in Seq(Txs) /\ loc.todo \in Seq(Txs)
        /\ (req.op = "whole" => req.arg = Absent /\ loc.height = -1)
    BY <2>1 DEF ListInv, Listing
  <2>3. loc.todo # <<>> => Tail(loc.todo) \in Seq(Txs) /\ Append(loc.seen, Head(loc.todo)) \in Seq(Txs)
    <3>. DEFINE s == loc.seen
                t == loc.todo
    <3>1. s \in Seq(Txs) /\ t \in Seq(Txs)
      BY <2>2
    <3>. HIDE DEF s, t
    <3>2. t # <<>> => Tail(t) \in Seq(Txs) /\ Append(s, Head(t)) \in Seq(Txs)
      BY <3>1, Moved
    <3>. QED  BY <3>2 DEF s, t
  <2>4. loc'.seen \in Seq(Txs) /\ (place' = "chainrows" => loc'.todo \in Seq(Txs))
    BY <2>1, <2>2, <2>3
  <2>. QED  BY <2>1, <2>2, <2>4 DEF ListInv
<1>10. CASE RowTxs
  <2>1. CASE place' = "prepare" /\ loc' = loc /\ req' = req /\ place = "rowtxs"
    BY <2>1 DEF ListInv, Listing
  <2>. QED  BY <1>5, <1>10, <2>1, RowTxsFacts
<1>11. CASE PrepareTxs
  BY <1>5, <1>11, PrepareTxsFacts
<1>12. CASE Utxo
  <2>1. place' \in Unspending
    BY <1>12, UtxoFacts DEF Unspending
  <2>. QED  BY <2>1 DEF ListInv, Listing, Unspending
<1>13. CASE UtxoHandler
  <2>1. ASSUME NEW l, NEW label \in Unspending, Accept(req, label, l) PROVE ListInv'
    <3>1. place' = label
      BY <2>1, AcceptFacts
    <3>. QED  BY <3>1 DEF ListInv, Listing, Unspending
  <2>. QED  BY <1>5, <1>13, <2>1, UtxoAnswers
<1>. QED  BY <1>1, <1>2, <1>4, <1>6, <1>7, <1>8, <1>9, <1>10, <1>11, <1>12, <1>13, StepKinds DEF ListHandler

-----------------------------------------------------------------------------
(* Nothing that stays in view is overlooked.                               *)

LEMMA InViewFacts ==
    ASSUME WriterInv, NEW t \in InView
    PROVE  /\ t \in Touching /\ t \in Txs /\ t \in WithPrevouts
           /\ t \notin Pool => /\ Confirming(t) # {} /\ t \notin Unconfirmed
                               /\ t \in Range(ChainScan(-1))
<1>1. t \in Touching /\ t \in Txs /\ t \in WithPrevouts
  BY DEF InView, Touching
<1>2. ASSUME t \notin Pool
      PROVE  Confirming(t) # {} /\ t \notin Unconfirmed /\ t \in Range(ChainScan(-1))
  <2>1. Confirming(t) # {} /\ \E r \in history : r[1] = "H" /\ TxOf(r) = t
    BY <1>2 DEF InView
  <2>2. Confirming(t) = {b \in Chain[best] \cap Stored : t \in TxsOf(b)}
    BY ConfirmingFacts DEF WriterInv, StoreInv
  <2>3. t \notin Unconfirmed
    BY <2>1, <2>2 DEF Unconfirmed
  <2>4. PICK p \in Blocks \cup {NoBlock} : history = HistRows(Chain[p])
    BY HistoryIsOfBranch
  <2>5. PICK r \in HistRows(Chain[p]) : TxOf(r) = t
    BY <2>1, <2>4
  <2>6. Chain[p] \in SUBSET Blocks
    BY Branches
  <2>7. \E b \in Chain[p] : t \in TxsOf(b)
    BY <2>5, <2>6, HistRowTx
  <2>8. t \in ScriptTxs(p, -1)
    BY <1>1, <2>7 DEF ScriptTxs
  <2>9. Range(ChainScan(-1)) = ScriptTxs(p, -1)
    BY <2>4, ScanFacts
  <2>. QED  BY <2>1, <2>3, <2>8, <2>9
<1>. QED  BY <1>1, <1>2

(* A transaction that was found in the chain does not return to the pool.  *)
LEMMA LeavesPoolForGood ==
    ASSUME WriterInv, MainLoop, NEW t \in InView, t \notin Pool
    PROVE  t \notin Pool'
<1>0. Pool = Range(pool) /\ Pool' = Range(pool)'
  BY DEF Pool, Range
<1>1. CASE (\E b \in Moves : ApplyHeaders(b)) \/ Unindex \/ Unadd \/ CancelCache \/ AddBlocks \/ IndexBlocks
  <2>1. pool' = pool
    BY <1>1 DEF ApplyHeaders, Unindex, Unadd, CancelCache, AddBlocks, IndexBlocks
  <2>. QED  BY <2>1 DEF Pool
<1>2. CASE DropGone
  <2>1. pool' = Sifted(pool, Unconfirmed) /\ pool \in Seq(Txs) /\ IsInjective(pool)
    BY <1>2 DEF DropGone, WriterInv, PoolInv
  <2>2. Range(pool)' = Range(pool) \cap Unconfirmed
    <3>1. Range(Sifted(pool, Unconfirmed)) = Range(pool) \cap Unconfirmed
      BY <2>1, SiftedFacts
    <3>2. Range(pool)' = Range(Sifted(pool, Unconfirmed))
      BY <2>1 DEF Range
    <3>. QED  BY <3>1, <3>2
  <2>. QED  BY <1>0, <2>2
<1>3. CASE FillPool
  <2>1. PICK s \in SetToSeqs(ToAdd) : pool' = pool \o s
    BY <1>3 DEF FillPool
  <2>2. ToAdd \in SUBSET Known /\ ToAdd \subseteq Unconfirmed
    BY DEF ToAdd, Unconfirmed
  <2>3. IsFiniteSet(ToAdd) /\ ToAdd \subseteq Txs
    BY <2>2, KnownFinite
  <2>4. s \in Seq(ToAdd) /\ Range(s) = ToAdd
    BY <2>1, <2>3, Arrangement
  <2>5. s \in Seq(Txs) /\ pool \in Seq(Txs)
    BY <2>3, <2>4, SeqMonotonic DEF WriterInv, PoolInv
  <2>6. Range(pool \o s) = Range(pool) \cup Range(s)
    BY <2>5, RangeConcatenation
  <2>7. t \notin Unconfirmed
    BY InViewFacts
  <2>. QED  BY <1>0, <2>1, <2>2, <2>4, <2>6, <2>7 DEF Range
<1>. QED  BY <1>1, <1>2, <1>3 DEF MainLoop

(* The parts of WholeInv.                                                  *)
Scanned == \A t \in always : t \in Range(loc.got) \/ t \notin Pool
Listened == \A t \in always : \/ t \in Range(loc.got) \cup Range(loc.seen)
                              \/ t \notin Pool /\ t \in Range(loc.todo)

LEMMA WholeLoop ==
    ASSUME WholeInv, WriterInv, MainLoop
    PROVE  WholeInv'
<1>1. /\ UNCHANGED <<place, loc, req, out>> /\ always' = always \cap InView'
  BY LoopOutside DEF session
<1>2. always' \subseteq InView' /\ always' \subseteq always /\ always \subseteq InView
  BY <1>1 DEF WholeInv
<1>3. \A t \in always' : t \notin Pool => t \notin Pool'
  BY <1>2, LeavesPoolForGood
<1>4. Scanned => Scanned'
  BY <1>1, <1>2, <1>3 DEF Scanned
<1>5. Listened => Listened'
  BY <1>1, <1>2, <1>3 DEF Listened
<1>6. NothingOverlooked'
  BY <1>1, <1>2 DEF WholeInv, NothingOverlooked
<1>7. (req.op = "whole" /\ place = "chainscan" /\ Len(loc.got) < MaxWhole => Scanned)'
  BY <1>1, <1>4 DEF WholeInv, Scanned
<1>8. (req.op = "whole" /\ place = "chainrows" /\ Len(loc.got) + Len(loc.seen) < MaxWhole => Listened)'
  BY <1>1, <1>5 DEF WholeInv, Listened
<1>9. (req.op = "whole" /\ place = "rowtxs" /\ Len(loc.got) + Len(loc.seen) < MaxWhole =>
          always \subseteq Range(loc.got) \cup Range(loc.seen))'
  BY <1>1, <1>2 DEF WholeInv
<1>10. (req.op = "whole" /\ place = "prepare" => always \subseteq Range(loc.got) \cup Range(loc.seen))'
  BY <1>1, <1>2 DEF WholeInv
<1>. QED  BY <1>2, <1>6, <1>7, <1>8, <1>9, <1>10 DEF WholeInv, Scanned, Listened

(* Requests leave what is in view as it is.                                *)
LEMMA ViewStays ==
    ASSUME UNCHANGED written \/ UNCHANGED backend
    PROVE  UNCHANGED <<InView, WithPrevouts, Pool>>
<1>1. UNCHANGED <<best, stored, conf, history, pool>>
  BY DEF written, backend
<1>2. UNCHANGED <<WithPrevouts, Pool>>
  BY <1>1 DEF WithPrevouts, Pool
<1>3. \A t : UNCHANGED Confirming(t)
  BY <1>1 DEF Confirming
<1>. QED  BY <1>1, <1>2, <1>3 DEF InView

(* Steps after which no whole history is being put together or answered.   *)
LEMMA WholeElsewhere ==
    ASSUME WholeInv, UNCHANGED written, always' \subseteq always \/ always' \subseteq InView,
           place' \notin {"chainscan", "chainrows", "rowtxs", "prepare"} \/ req'.op # "whole",
           place' = "idle" => req'.op # "whole" \/ out'.ttl # "short"
    PROVE  WholeInv'
<1>1. InView' = InView
  BY ViewStays
<1>2. always' \subseteq InView'
  BY <1>1 DEF WholeInv
<1>3. NothingOverlooked'
  BY DEF NothingOverlooked
<1>. QED  BY <1>2, <1>3 DEF WholeInv

LEMMA WholeStep ==
    ASSUME WholeInv, ListInv, SessionInv, PlaceInv, WriterInv, [RestNext]_restVars
    PROVE  WholeInv'
<1>0. Formed /\ always \subseteq InView
  BY DEF SessionInv, Formed, WholeInv
<1>a. ASSUME UNCHANGED backend PROVE UNCHANGED written
  BY <1>a DEF backend, written
<1>1. CASE MainLoop
  BY <1>1, WholeLoop
<1>2. CASE UNCHANGED restVars
  <2>1. /\ UNCHANGED <<backend, place, loc, req, out, always>>
    BY <1>2 DEF restVars, session, ghosts
  <2>2. InView' = InView /\ Pool' = Pool
    BY <2>1, ViewStays
  <2>3. UNCHANGED NothingOverlooked
    BY <2>1 DEF NothingOverlooked
  <2>. QED  BY <2>1, <2>2, <2>3 DEF WholeInv
<1>3. CASE PlainAsks \/ PlainHandler
  <2>1. /\ UNCHANGED written /\ always' \subseteq always /\ place' \notin Listing
        /\ (place' = "idle" => req'.op = Absent)
    BY <1>3, <1>a, PlainLeaves
  <2>. QED  BY <2>1, WholeElsewhere DEF Listing, Absent
<1>4. ASSUME NEW op \in {"history", "whole"}, NEW c, History(op, c) PROVE WholeInv'
  <2>1. UNCHANGED written /\ place' \in {"poolpage", "findchain"} /\ always' \subseteq InView
    BY <1>4, <1>a, HistoryFacts
  <2>. QED  BY <2>1, WholeElsewhere
<1>5. CASE History("history", Absent) \/ History("whole", Absent) \/ NextPage
  BY <1>4, <1>5, NextPageFacts
<1>6. ASSUME NEW ttl, ttl # "short", NEW body, Answer(req, ttl, body),
             UNCHANGED backend, always' \subseteq always
      PROVE  WholeInv'
  <2>1. place' = "idle" /\ (out'.ttl = ttl \/ out'.ttl = Absent)
    BY <1>6, AnswerFacts DEF NoAnswer
  <2>. QED  BY <1>6, <1>a, <2>1, WholeElsewhere DEF Absent
<1>7. CASE FindChain
  <2>1. UNCHANGED <<backend, ghosts>> /\ place = "findchain"
    BY <1>7 DEF FindChain, Resumed
  <2>2. CASE Answer(req, Absent, 422)
    BY <1>6, <2>1, <2>2 DEF Absent, ghosts
  <2>3. CASE place' = "chainscan" /\ req' = req
    <3>1. req.op # "whole"
      BY <2>1 DEF ListInv, Listing
    <3>. QED  BY <1>a, <2>1, <2>3, <3>1, WholeElsewhere DEF ghosts
  <2>. QED  BY <1>0, <1>7, <2>2, <2>3, FindChainFacts
<1>8. CASE PoolPage
  <2>1. /\ place = "poolpage" /\ place' = "chainscan" /\ req' = req /\ UNCHANGED <<backend, ghosts>>
        /\ loc'.got = PoolHistory(req.arg, PageSize)
    BY <1>0, <1>8, PoolPageFacts
  <2>2. always' = always /\ Pool' = Pool /\ InView' = InView
    BY <2>1, ViewStays DEF ghosts
  <2>3. ASSUME req.op = "whole", Len(loc'.got) < MaxWhole PROVE Scanned'
    <3>1. req.arg = Absent /\ PageSize = MaxWhole /\ MaxWhole \in Nat
      BY <2>1, <2>3, PageSizeFacts, ReaderAssumption DEF ListInv, Listing
    <3>2. /\ PoolHistory(Absent, MaxWhole) \in Seq(Txs)
          /\ (Len(PoolHistory(Absent, MaxWhole)) = MaxWhole \/ PoolHistory(Absent, MaxWhole) = SkipTo(InPool, Absent))
      BY <3>1, PoolHistoryFacts
    <3>3. loc'.got = PoolHistory(Absent, MaxWhole)
      BY <2>1, <3>1
    <3>4. loc'.got = InPool
      BY <2>3, <3>1, <3>2, <3>3 DEF SkipTo
    <3>5. Range(InPool) = Pool \cap Touching
      BY ListsDistinct
    <3>6. ASSUME NEW t \in always PROVE t \in Range(loc'.got) \/ t \notin Pool
      <4>1. t \in Touching
        BY <1>0, InViewFacts
      <4>. QED  BY <3>4, <3>5, <4>1
    <3>. QED  BY <2>2, <3>6 DEF Scanned, Range
  <2>. QED  BY <1>0, <2>1, <2>2, <2>3 DEF WholeInv, Scanned, NothingOverlooked
<1>9. CASE ChainPage
  <2>1. /\ place = "chainscan" /\ place' = "chainrows" /\ req' = req /\ UNCHANGED <<backend, ghosts>>
        /\ loc'.got = loc.got /\ loc'.seen = loc.seen
        /\ Len(loc.got) < PageSize => loc'.todo = SkipTo(ChainScan(loc.height), Head(loc.todo))
    BY <1>0, <1>9, ChainPageFacts
  <2>2. always' = always /\ Pool' = Pool /\ InView' = InView
    BY <2>1, ViewStays DEF ghosts
  <2>3. ASSUME req.op = "whole", Len(loc'.got) + Len(loc'.seen) < MaxWhole PROVE Listened'
    <3>1. /\ req.arg = Absent /\ PageSize = MaxWhole /\ loc.height = -1 /\ loc.seen = <<>> /\ loc.todo = <<Absent>>
          /\ loc.got \in Seq(Txs)
      BY <2>1, <2>3, PageSizeFacts DEF ListInv, Listing
    <3>2. Len(loc.got) \in Nat /\ Len(loc.seen) = 0
      BY <3>1
    <3>3. Len(loc.got) < MaxWhole
      BY <2>1, <2>3, <3>2
    <3>4. loc'.todo = ChainScan(-1)
      BY <2>1, <3>1, <3>3 DEF SkipTo
    <3>5. \A t \in always : t \in Range(loc.got) \/ t \notin Pool
      BY <2>1, <2>3, <3>3 DEF WholeInv
    <3>6. \A t \in always : t \notin Pool => t \in Range(ChainScan(-1))
      BY <1>0, InViewFacts
    <3>7. Range(loc.got)' = Range(loc.got) /\ Range(loc.todo)' = Range(ChainScan(-1))
      BY <2>1, <3>4 DEF Range
    <3>. QED  BY <2>2, <3>5, <3>6, <3>7 DEF Listened
  <2>. QED  BY <1>0, <2>1, <2>2, <2>3 DEF WholeInv, Listened, NothingOverlooked
<1>10. CASE ChainRow
  <2>1. place = "chainrows" /\ req' = req /\ UNCHANGED <<backend, ghosts>> /\ loc'.got = loc.got
    BY <1>0, <1>10, ChainRowFacts
  <2>2. always' = always /\ Pool' = Pool /\ InView' = InView
    BY <2>1, ViewStays DEF ghosts
  <2>3. loc.got \in Seq(Txs) /\ loc.seen \in Seq(Txs) /\ loc.todo \in Seq(Txs)
    BY <2>1 DEF ListInv, Listing
  <2>4. CASE /\ loc.todo = <<>> \/ Len(loc.got) + Len(loc.seen) >= PageSize
             /\ place' = "rowtxs" /\ loc' = loc
    <3>1. ASSUME req.op = "whole", Len(loc.got) + Len(loc.seen) < MaxWhole
          PROVE  always \subseteq Range(loc.got) \cup Range(loc.seen)
      <4>1. Listened
        BY <2>1, <3>1 DEF WholeInv, Listened
      <4>2. Len(loc.got) \in Nat /\ Len(loc.seen) \in Nat /\ PageSize = MaxWhole /\ MaxWhole \in Nat
        BY <2>3, <3>1, PageSizeFacts, ReaderAssumption
      <4>3. loc.todo = <<>>
        <5>. DEFINE a == Len(loc.got)
                    b == Len(loc.seen)
        <5>1. a \in Nat /\ b \in Nat /\ a + b < MaxWhole /\ (loc.todo = <<>> \/ a + b >= MaxWhole)
          BY <2>4, <3>1, <4>2
        <5>. HIDE DEF a, b
        <5>. QED  BY <4>2, <5>1
      <4>4. Range(loc.todo) = {}
        BY <4>3 DEF Range
      <4>. QED  BY <4>1, <4>4 DEF Listened
    <3>2. Range(loc.got)' = Range(loc.got) /\ Range(loc.seen)' = Range(loc.seen)
      BY <2>4 DEF Range
    <3>. QED  BY <1>0, <2>1, <2>2, <2>4, <3>1, <3>2 DEF WholeInv, NothingOverlooked
  <2>5. CASE /\ loc.todo # <<>>
             /\ place' = "chainrows" /\ loc'.todo = Tail(loc.todo)
             /\ \/ Confirming(Head(loc.todo)) = {} /\ loc'.seen = loc.seen
                \/ Confirming(Head(loc.todo)) # {} /\ loc'.seen = Append(loc.seen, Head(loc.todo))
    <3>. DEFINE s == loc.seen
                t == loc.todo
                h == Head(t)
    <3>1. s \in Seq(Txs) /\ t \in Seq(Txs) /\ t # <<>>
      BY <2>3, <2>5
    <3>2. /\ h \in Txs /\ Len(s) \in Nat /\ Len(Append(s, h)) = Len(s) + 1
          /\ Range(Append(s, h)) = Range(s) \cup {h} /\ Range(t) = Range(Tail(t)) \cup {h}
      <4>. HIDE DEF s, t
      <4>. QED  BY <3>1, RowMoved
    <3>3. ASSUME req.op = "whole", Len(loc'.got) + Len(loc'.seen) < MaxWhole PROVE Listened'
      <4>1. Len(loc'.seen) = Len(loc.seen) \/ Len(loc'.seen) = Len(loc.seen) + 1
        BY <2>5, <3>2
      <4>2. Len(loc.got) \in Nat /\ Len(loc.seen) \in Nat /\ MaxWhole \in Nat
        BY <2>3, ReaderAssumption
      <4>3. Len(loc.got) + Len(loc.seen) < MaxWhole
        <5>. DEFINE a == Len(loc.got)
                    b == Len(loc.seen)
                    c == Len(loc'.seen)
        <5>1. a \in Nat /\ b \in Nat /\ (c = b \/ c = b + 1) /\ a + c < MaxWhole
          BY <2>1, <3>3, <4>1, <4>2
        <5>. HIDE DEF a, b, c
        <5>2. a + b < MaxWhole
          BY <4>2, <5>1
        <5>. QED  BY <5>2 DEF a, b
      <4>4. Listened
        BY <2>1, <3>3, <4>3 DEF WholeInv, Listened
      <4>5. /\ Range(loc.got)' = Range(loc.got) /\ Range(loc.todo)' = Range(Tail(loc.todo))
            /\ Range(loc.seen)' = Range(loc'.seen)
        BY <2>1, <2>5 DEF Range
      <4>6. \/ Confirming(h) = {} /\ Range(loc'.seen) = Range(s)
            \/ Range(loc'.seen) = Range(s) \cup {h}
        BY <2>5, <3>2
      <4>7. \A x \in always : x \notin Pool => Confirming(x) # {}
        BY <1>0, InViewFacts
      <4>8. \A x \in always : x \in Range(loc.got) \cup Range(s) \/ (x \notin Pool /\ x \in Range(Tail(t)) \cup {h})
        BY <3>2, <4>4 DEF Listened
      <4>. HIDE DEF s, t, h
      <4>9. \A x \in always : \/ x \in Range(loc.got) \cup Range(loc'.seen)
                              \/ x \notin Pool /\ x \in Range(Tail(t))
        BY <4>6, <4>7, <4>8
      <4>. QED  BY <2>2, <4>5, <4>9 DEF Listened, t
    <3>. QED  BY <1>0, <2>1, <2>2, <2>5, <3>3 DEF WholeInv, Listened, NothingOverlooked
  <2>. QED  BY <1>0, <1>10, <2>4, <2>5, ChainRowFacts
<1>11. CASE RowTxs
  <2>1. place = "rowtxs" /\ UNCHANGED backend /\ always' \subseteq always
    BY <1>11, RowTxsFacts
  <2>2. CASE Answer(req, Absent, 400)
    BY <1>6, <2>1, <2>2 DEF Absent
  <2>3. CASE place' = "prepare" /\ loc' = loc /\ req' = req
    <3>1. ASSUME req.op = "whole" PROVE always' \subseteq Range(loc.got) \cup Range(loc.seen)
      <4>1. PageSize = MaxWhole
        BY <3>1, PageSizeFacts
      <4>2. CASE Len(loc.got) + Len(loc.seen) < MaxWhole
        BY <2>1, <3>1, <4>2 DEF WholeInv
      <4>3. CASE ~(Len(loc.got) + Len(loc.seen) < MaxWhole)
        BY <1>11, <4>1, <4>3, RowTxsFacts
      <4>. QED  BY <4>2, <4>3
    <3>2. UNCHANGED InView /\ always' \subseteq InView
      BY <1>0, <2>1, ViewStays
    <3>3. Range(loc.got)' = Range(loc.got) /\ Range(loc.seen)' = Range(loc.seen)
      BY <2>3 DEF Range
    <3>. QED  BY <2>3, <3>1, <3>2, <3>3 DEF WholeInv, NothingOverlooked
  <2>. QED  BY <1>11, <2>2, <2>3, RowTxsFacts
<1>12. CASE PrepareTxs
  <2>. DEFINE s == loc.got
              t == loc.seen
              body == Prepared(s \o t)
  <2>1. place = "prepare" /\ UNCHANGED <<backend, ghosts>> /\ Answer(req, "short", body)
    BY <1>12, PrepareTxsFacts
  <2>2. CASE req.op = "whole"
    <3>1. s \in Seq(Txs) /\ t \in Seq(Txs)
      BY <2>1 DEF ListInv, Listing
    <3>2. Range(s \o t) = Range(s) \cup Range(t) /\ s \o t \in Seq(Txs)
      <4>. HIDE DEF s, t
      <4>. QED  BY <3>1, ConcatProperties, RangeConcatenation
    <3>3. Range(body) = Range(s \o t) \cap WithPrevouts
      <4>. HIDE DEF s, t
      <4>. QED  BY <3>2, SiftedRange DEF Prepared
    <3>4. Remembered(req)
      BY <2>2 DEF Remembered
    <3>5. place' = "idle" /\ req' = req /\ out' = [ttl |-> "short", body |-> body]
      <4>. HIDE DEF body
      <4>. QED  BY <2>1, <3>4, AnswerFacts
    <3>6. always' = always /\ InView' = InView
      BY <2>1, ViewStays DEF ghosts
    <3>7. always \subseteq Range(s) \cup Range(t)
      BY <2>1, <2>2 DEF WholeInv
    <3>8. always \subseteq Range(body)
      <4>. HIDE DEF s, t, body
      <4>. QED  BY <1>0, <3>2, <3>3, <3>7, InViewFacts
    <3>9. out'.body = body
      BY <3>5
    <3>10. NothingOverlooked'
      <4>. HIDE DEF body
      <4>. QED  BY <3>6, <3>8, <3>9 DEF NothingOverlooked, Range
    <3>. QED  BY <1>0, <3>5, <3>6, <3>10 DEF WholeInv
  <2>3. CASE req.op # "whole"
    <3>. HIDE DEF body
    <3>1. place' = "idle" /\ (req' = req \/ req' = NoRequest)
      BY <2>1, AnswerFacts
    <3>2. req'.op # "whole"
      BY <2>3, <3>1 DEF NoRequest, Absent
    <3>. QED  BY <1>a, <2>1, <3>1, <3>2, WholeElsewhere DEF ghosts
  <2>. QED  BY <2>2, <2>3
<1>13. CASE Utxo
  <2>1. UNCHANGED backend /\ always' = {} /\ place' \in Unspending
    BY <1>13, UtxoFacts DEF Unspending
  <2>. QED  BY <1>a, <2>1, WholeElsewhere DEF Unspending
<1>14. CASE UtxoHandler
  <2>1. place \in Unspending
    BY <1>14, UtxoAnswers
  <2>2. UNCHANGED written
    BY <1>14, RequestsReadOnly DEF UtxoHandler, Handler
  <2>3. always' = always
    <3>1. CASE UtxoRow
      BY <3>1 DEF UtxoRow, Resumed, ghosts
    <3>2. CASE UtxoHeight \/ UtxoScan \/ UtxoSave \/ UtxoPool
      BY <3>2 DEF UtxoHeight, UtxoScan, UtxoSave, UtxoPool, Resumed, ghosts
    <3>. QED  BY <1>14, <3>1, <3>2 DEF UtxoHandler
  <2>4. req.op = "utxo"
    BY <2>1 DEF PlaceInv
  <2>5. ASSUME NEW ttl, NEW body, Answer(req, ttl, body) PROVE WholeInv'
    <3>1. place' = "idle" /\ (req' = req \/ req' = NoRequest)
      BY <2>5, AnswerFacts
    <3>2. req'.op # "whole"
      BY <2>4, <3>1 DEF NoRequest, Absent
    <3>. QED  BY <2>2, <2>3, <3>1, <3>2, WholeElsewhere
  <2>6. ASSUME NEW l, NEW label \in Unspending, Accept(req, label, l) PROVE WholeInv'
    <3>1. place' \in Unspending
      BY <2>6, AcceptFacts
    <3>. QED  BY <2>2, <2>3, <3>1, WholeElsewhere DEF Unspending
  <2>. QED  BY <1>14, <2>5, <2>6, UtxoAnswers
<1>. QED  BY <1>1, <1>2, <1>3, <1>5, <1>7, <1>8, <1>9, <1>10, <1>11, <1>12, <1>13, <1>14, StepKinds DEF ListHandler

-----------------------------------------------------------------------------
(* The unspent outputs.                                                    *)

LEMMA ScriptRow ==
    ASSUME NEW p \in Blocks \cup {NoBlock}, NEW r \in HistRows(Chain[p]), r[1] = "H"
    PROVE  \E b \in Chain[p] : \E i \in DOMAIN BlockTxs[b] :
              /\ TxOf(r) = BlockTxs[b][i] /\ r[3] = Height[b] /\ r[4] = i /\ ScriptOf(r[6]) = Script
              /\ \/ r[5] = "F" /\ r[6] \in OutsOf(TxOf(r))
                 \/ r[5] = "S" /\ r[6] \in Spends[TxOf(r)]
<1>1. Chain[p] \in SUBSET Blocks
  BY Branches
<1>2. PICK b \in Chain[p] : \E i \in DOMAIN BlockTxs[b] :
         /\ TxOf(r) = BlockTxs[b][i]
         /\ r = <<"H", Script, Height[b], i, r[5], r[6], TxOf(r)>> /\ ScriptOf(r[6]) = Script
         /\ \/ r[5] = "F" /\ r[6] \in OutsOf(TxOf(r))
            \/ r[5] = "S" /\ r[6] \in Spends[TxOf(r)]
  BY <1>1, HistRowFacts
<1>. QED  BY <1>2

(* What the rows above a height say is funded and spent, the blocks there  *)
(* fund and spend.                                                         *)
Funding(S, o) == ScriptOf(o) = Script /\ \E c \in S : \E t \in TxsOf(c) : o \in OutsOf(t)
Spending(S, o) == ScriptOf(o) = Script /\ \E c \in S : \E t \in TxsOf(c) : o \in Spends[t]
Higher(p, h) == {c \in Chain[p] : Height[c] >= h + 1}

LEMMA RowsTell ==
    ASSUME NEW p \in Blocks \cup {NoBlock}, NEW h \in Nat \cup {-1}, NEW o
    PROVE  /\ o \in Funds(Above(p, h)) <=> Funding(Higher(p, h), o)
           /\ o \in Uses(Above(p, h)) <=> Spending(Higher(p, h), o)
<1>1. Chain[p] \in SUBSET Blocks
  BY Branches
<1>2. ASSUME NEW r \in Above(p, h), r[6] = o
      PROVE  \E c \in Higher(p, h) : \E t \in TxsOf(c) :
                ScriptOf(o) = Script /\ (r[5] = "F" => o \in OutsOf(t)) /\ (r[5] = "S" => o \in Spends[t])
  <2>1. r \in HistRows(Chain[p]) /\ r[1] = "H" /\ r[3] >= h + 1
    BY <1>2 DEF Above
  <2>2. PICK b \in Chain[p] : \E i \in DOMAIN BlockTxs[b] :
           /\ TxOf(r) = BlockTxs[b][i] /\ r[3] = Height[b] /\ ScriptOf(r[6]) = Script
           /\ \/ r[5] = "F" /\ r[6] \in OutsOf(TxOf(r))
              \/ r[5] = "S" /\ r[6] \in Spends[TxOf(r)]
    BY <2>1, ScriptRow
  <2>3. b \in Higher(p, h) /\ TxOf(r) \in TxsOf(b)
    BY <2>1, <2>2 DEF Higher, TxsOf
  <2>. QED  BY <1>2, <2>2, <2>3
<1>3. ASSUME NEW c \in Higher(p, h), NEW t \in TxsOf(c), ScriptOf(o) = Script
      PROVE  (o \in OutsOf(t) => o \in Funds(Above(p, h))) /\ (o \in Spends[t] => o \in Uses(Above(p, h)))
  <2>1. PICK i \in DOMAIN BlockTxs[c] : t = BlockTxs[c][i]
    BY DEF TxsOf
  <2>2. c \in Chain[p] /\ Height[c] >= h + 1
    BY DEF Higher
  <2>. DEFINE rf == <<"H", Script, Height[c], i, "F", o, t>>
              rs == <<"H", Script, Height[c], i, "S", o, t>>
  <2>3. (o \in OutsOf(t) => rf \in HistRows(Chain[p])) /\ (o \in Spends[t] => rs \in HistRows(Chain[p]))
    BY <1>1, <1>3, <2>1, <2>2, RowsThere
  <2>4. /\ rf[1] = "H" /\ rf[3] = Height[c] /\ rf[5] = "F" /\ rf[6] = o
        /\ rs[1] = "H" /\ rs[3] = Height[c] /\ rs[5] = "S" /\ rs[6] = o
    OBVIOUS
  <2>. HIDE DEF rf, rs
  <2>5. (o \in OutsOf(t) => rf \in Above(p, h)) /\ (o \in Spends[t] => rs \in Above(p, h))
    BY <2>2, <2>3, <2>4 DEF Above
  <2>. QED  BY <2>4, <2>5 DEF Funds, Uses
<1>4. ASSUME o \in Funds(Above(p, h)) PROVE Funding(Higher(p, h), o)
  <2>1. PICK r \in Above(p, h) : r[5] = "F" /\ r[6] = o
    BY <1>4 DEF Funds
  <2>. QED  BY <1>2, <2>1 DEF Funding
<1>5. ASSUME o \in Uses(Above(p, h)) PROVE Spending(Higher(p, h), o)
  <2>1. PICK r \in Above(p, h) : r[5] = "S" /\ r[6] = o
    BY <1>5 DEF Uses
  <2>. QED  BY <1>2, <2>1 DEF Spending
<1>. QED  BY <1>3, <1>4, <1>5 DEF Funding, Spending

(* The blocks of a branch that are not above one of them lead to it.       *)
LEMMA LowerPart ==
    ASSUME NEW p \in Blocks \cup {NoBlock}, NEW b \in Chain[p], NEW c \in Chain[p], Height[c] <= Height[b]
    PROVE  c \in Chain[b]
<1>1. b \in Blocks /\ Height[c] \in Nat /\ Height[b] \in Nat /\ Chain[b] \subseteq Chain[p]
  BY Branches
<1>2. Height[c] \in 0..Height[b]
  BY <1>1
<1>3. PICK a \in Chain[b] : Height[a] = Height[c]
  BY <1>1, <1>2, BlockAtHeight
<1>4. a = c
  BY <1>1, <1>3, Branches
<1>. QED  BY <1>3, <1>4

LEMMA UnspentIs ==
    ASSUME NEW p
    PROVE  \A o : o \in UnspentAt(p) <=> Funding(Chain[p], o) /\ ~Spending(Chain[p], o)
<1>1. \A t : t \in TxRows(Chain[p]) <=> \E c \in Chain[p] : t \in TxsOf(c)
  BY DEF TxRows
<1>. QED  BY <1>1 DEF UnspentAt, Funding, Spending

(* From an honest row, or from nothing, the rows above lead to the outputs *)
(* unspent at p: what the blocks above fund, no block below spends.        *)
LEMMA UnspentAbove ==
    ASSUME NEW p \in Blocks \cup {NoBlock}, NEW h \in Nat \cup {-1}, NEW U, From(Chain[p], h, U)
    PROVE  (U \cup Funds(Above(p, h))) \ Uses(Above(p, h)) = UnspentAt(p)
<1>. DEFINE D == Higher(p, h)
            L == Chain[p] \ D
<1>0. /\ D \subseteq Chain[p] /\ Chain[p] \subseteq Blocks
      /\ \A a \in Chain[p] : Chain[a] \subseteq Chain[p] /\ Height[a] \in Nat
  BY Branches DEF Higher
<1>1. /\ \A c \in L : Chain[c] \subseteq L
      /\ \A o : o \in U <=> Funding(L, o) /\ ~Spending(L, o)
  <2>1. CASE h = -1 /\ U = {}
    <3>1. \A c \in Chain[p] : Height[c] >= h + 1
      BY <1>0, <2>1
    <3>2. L = {}
      BY <3>1 DEF Higher
    <3>. QED  BY <2>1, <3>2 DEF Funding
  <2>2. CASE \E b \in Chain[p] : Height[b] = h /\ U = UnspentAt(b)
    <3>1. PICK b \in Chain[p] : Height[b] = h /\ U = UnspentAt(b)
      BY <2>2
    <3>2. b \in Blocks /\ Chain[b] \subseteq Chain[p] /\ Height[b] \in Nat
      BY <1>0, <3>1
    <3>3. \A c \in Chain[b] : Height[c] <= Height[b] /\ Height[c] \in Nat /\ Chain[c] \subseteq Chain[b]
      BY <3>2, Branches
    <3>4. ASSUME NEW c PROVE c \in L <=> c \in Chain[b]
      <4>1. ASSUME c \in Chain[b] PROVE c \in L
        BY <3>1, <3>2, <3>3, <4>1 DEF Higher
      <4>2. ASSUME c \in L PROVE c \in Chain[b]
        <5>1. c \in Chain[p] /\ ~(Height[c] >= h + 1) /\ Height[c] \in Nat
          BY <1>0, <4>2 DEF Higher
        <5>2. Height[c] <= Height[b]
          BY <3>1, <3>2, <5>1
        <5>. QED  BY <5>1, <5>2, LowerPart
      <4>. QED  BY <4>1, <4>2
    <3>5. L = Chain[b]
      <4>. HIDE DEF L
      <4>. QED  BY <3>4
    <3>. QED  BY <3>1, <3>3, <3>5, UnspentIs
  <2>. QED  BY <2>1, <2>2 DEF From
<1>2. Chain[p] = L \cup D
  BY <1>0
<1>3. ASSUME NEW o, Funding(D, o), Spending(L, o) PROVE FALSE
  <2>1. PICK e \in D : \E t \in TxsOf(e) : o \in OutsOf(t)
    BY <1>3 DEF Funding
  <2>2. PICK c \in L : \E t \in TxsOf(c) : o \in Spends[t]
    BY <1>3 DEF Spending
  <2>3. o[1] \in TxsOf(e)
    BY <2>1 DEF OutsOf
  <2>4. c \in Blocks /\ e \in Chain[p]
    BY <1>0, <2>1, <2>2
  <2>5. PICK d \in Chain[c] : o[1] \in TxsOf(d)
    BY <2>2, <2>4, SpentInChain
  <2>6. d \in L
    BY <1>1, <2>2, <2>5
  <2>7. d = e
    BY <2>3, <2>4, <2>5, <2>6, OnceIn
  <2>. QED  BY <2>1, <2>6, <2>7
<1>. DEFINE R == (U \cup Funds(Above(p, h))) \ Uses(Above(p, h))
<1>4. \A o : o \in R <=> (o \in U \/ Funding(D, o)) /\ ~Spending(D, o)
  BY RowsTell
<1>. HIDE DEF D, L, R
<1>5. \A o : /\ Funding(Chain[p], o) <=> Funding(L, o) \/ Funding(D, o)
             /\ Spending(Chain[p], o) <=> Spending(L, o) \/ Spending(D, o)
  BY <1>2 DEF Funding, Spending
<1>6. \A o : o \in R <=> o \in UnspentAt(p)
  BY <1>1, <1>3, <1>4, <1>5, UnspentIs
<1>7. R = UnspentAt(p)
  BY <1>6
<1>. QED  BY <1>7 DEF R

(* Nothing changes above the last row.                                     *)
LEMMA UnspentAtLast ==
    ASSUME NEW p \in Blocks \cup {NoBlock}, NEW b \in Chain[p], Above(p, Height[b]) = {}
    PROVE  UnspentAt(b) = UnspentAt(p)
<1>1. Height[b] \in Nat
  BY Branches
<1>2. From(Chain[p], Height[b], UnspentAt(b))
  BY DEF From
<1>3. (UnspentAt(b) \cup Funds({})) \ Uses({}) = UnspentAt(p)
  BY <1>1, <1>2, UnspentAbove
<1>4. Funds({}) = {} /\ Uses({}) = {}
  BY DEF Funds, Uses
<1>. QED  BY <1>3, <1>4

(* An output is funded before it is spent.                                 *)
LEMMA FundedFirst ==
    ASSUME NEW p \in Blocks \cup {NoBlock}, NEW r \in HistRows(Chain[p]), NEW q \in HistRows(Chain[p]),
           r[1] = "H", q[1] = "H", r[5] = "F", q[5] = "S", r[6] = q[6]
    PROVE  Earlier(r, q)
<1>1. PICK b \in Chain[p] : \E i \in DOMAIN BlockTxs[b] :
         TxOf(r) = BlockTxs[b][i] /\ r[3] = Height[b] /\ r[4] = i /\ r[6] \in OutsOf(TxOf(r))
  BY ScriptRow
<1>2. PICK i \in DOMAIN BlockTxs[b] :
         TxOf(r) = BlockTxs[b][i] /\ r[3] = Height[b] /\ r[4] = i /\ r[6] \in OutsOf(TxOf(r))
  BY <1>1
<1>3. PICK c \in Chain[p] : \E j \in DOMAIN BlockTxs[c] :
         TxOf(q) = BlockTxs[c][j] /\ q[3] = Height[c] /\ q[4] = j /\ q[6] \in Spends[TxOf(q)]
  BY ScriptRow
<1>4. PICK j \in DOMAIN BlockTxs[c] :
         TxOf(q) = BlockTxs[c][j] /\ q[3] = Height[c] /\ q[4] = j /\ q[6] \in Spends[TxOf(q)]
  BY <1>3
<1>5. r[6][1] = TxOf(r)
  BY <1>2 DEF OutsOf
<1>6. c \in Blocks /\ Chain[c] \subseteq Chain[p] /\ Height[b] \in Nat /\ Height[c] \in Nat
  BY Branches
<1>7. PICK d \in Chain[c] : \E k \in DOMAIN BlockTxs[d] : BlockTxs[d][k] = q[6][1] /\ (d = c => k < j)
  BY <1>4, <1>6, SpendAssumption
<1>8. PICK k \in DOMAIN BlockTxs[d] : BlockTxs[d][k] = q[6][1] /\ (d = c => k < j)
  BY <1>7
<1>9. d = b /\ k = i
  BY <1>2, <1>5, <1>6, <1>7, <1>8, Once
<1>10. CASE b = c
  BY <1>2, <1>4, <1>8, <1>9, <1>10 DEF Earlier
<1>11. CASE b # c
  <2>1. Height[b] <= Height[c] /\ Height[b] # Height[c]
    BY <1>6, <1>7, <1>9, <1>11, Branches
  <2>. QED  BY <1>2, <1>4, <1>6, <2>1 DEF Earlier
<1>. QED  BY <1>10, <1>11

(* No confirmed transaction spends an output of an unconfirmed one.        *)
LEMMA PoolOutputsUnspent ==
    ASSUME WriterInv, step = "idle", NEW t \in Pool, NEW o \in OutsOf(t), NEW u \in TxRows(Chain[best])
    PROVE  o \notin Spends[u]
<1>. SUFFICES ASSUME o \in Spends[u] PROVE FALSE
  OBVIOUS
<1>1. best \in Blocks /\ Chain[best] \subseteq Blocks
  BY ReaderAssumption, Branches DEF WriterInv, BranchInv
<1>2. PICK b \in Chain[best] : u \in TxsOf(b)
  BY DEF TxRows
<1>3. \E c \in Chain[b] : o[1] \in TxsOf(c)
  BY <1>1, <1>2, SpentInChain
<1>4. Chain[b] \subseteq Chain[best]
  BY <1>1, Branches
<1>5. o[1] = t
  BY DEF OutsOf
<1>6. t \in Unconfirmed
  BY DEF WriterInv, PoolInv
<1>. QED  BY <1>3, <1>4, <1>5, <1>6 DEF Unconfirmed

(* Where the invariant has nothing to say about the request.               *)
LEMMA UtxoElsewhere ==
    ASSUME UtxoInv, UNCHANGED backend, place' \notin Unspending,
           place' = "idle" => req'.op # "utxo" \/ out'.ttl # "short"
    PROVE  UtxoInv'
<1>1. UNCHANGED <<best, coming, gone, ucache>>
  BY DEF backend
<1>2. CacheInv'
  BY <1>1 DEF UtxoInv, CacheInv, RowShape, Honest, Reached, UnspentAt
<1>3. QueryInv'
  BY DEF QueryInv, Unspending
<1>4. UtxoExact'
  BY DEF UtxoExact, UtxoAnswered
<1>. QED  BY <1>2, <1>3, <1>4 DEF UtxoInv

(* A block that is indexed stays so, or is rolled back; while the request  *)
(* meets no rollback, it stays.                                            *)
LEMMA ReachedStays ==
    ASSUME BranchInv, MainLoop, NEW b, Reached(b) \/ b \in gone
    PROVE  (Reached(b) \/ b \in gone)'
<1>1. ASSUME NEW a \in Moves, ApplyHeaders(a) PROVE (Reached(b) \/ b \in gone)'
  <2>1. /\ best' = a /\ coming' = Chain[a] \ Chain[best] /\ gone' = gone \cup (Chain[best] \ Chain[a])
    BY <1>1 DEF ApplyHeaders
  <2>2. (Chain[best] \ coming)' = Chain[a] \ (Chain[a] \ Chain[best])
    BY <2>1
  <2>. QED  BY <2>1, <2>2 DEF Reached
<1>2. CASE Unindex \/ Unadd \/ CancelCache \/ AddBlocks \/ IndexBlocks \/ DropGone \/ FillPool
  <2>1. best' = best /\ gone' = gone /\ (coming' = coming \/ coming' = {})
    BY <1>2 DEF Unindex, Unadd, CancelCache, AddBlocks, IndexBlocks, DropGone, FillPool
  <2>. QED  BY <2>1 DEF Reached
<1>. QED  BY <1>1, <1>2 DEF MainLoop

LEMMA PureStays ==
    ASSUME BranchInv, GhostInv, MainLoop, pure'
    PROVE  /\ pure /\ \A b : Reached(b) => Reached(b)'
           /\ reorged = {} => reorged' = {}
<1>1. ASSUME NEW a \in Moves, ApplyHeaders(a)
      PROVE  pure /\ (\A b : Reached(b) => Reached(b)') /\ reorged' = {}
  <2>1. /\ best' = a /\ coming' = Chain[a] \ Chain[best] /\ reorged' = Chain[best] \ Chain[a]
        /\ pure' = (pure /\ Chain[best] \subseteq Chain[a])
    BY <1>1 DEF ApplyHeaders
  <2>2. pure /\ Chain[best] \subseteq Chain[a]
    BY <2>1
  <2>3. (Chain[best] \ coming)' = Chain[a] \ (Chain[a] \ Chain[best])
    BY <2>1
  <2>. QED  BY <2>1, <2>2, <2>3 DEF Reached
<1>2. CASE Unindex \/ Unadd \/ CancelCache \/ AddBlocks \/ IndexBlocks \/ DropGone \/ FillPool
  <2>1. /\ best' = best /\ pure' = pure
        /\ (coming' = coming /\ reorged' = reorged) \/ (coming' = {} /\ reorged' = {})
    BY <1>2 DEF Unindex, Unadd, CancelCache, AddBlocks, IndexBlocks, DropGone, FillPool
  <2>. QED  BY <2>1 DEF Reached
<1>. QED  BY <1>1, <1>2 DEF MainLoop

LEMMA CacheLoop ==
    ASSUME BranchInv, CacheInv, MainLoop
    PROVE  CacheInv'
<1>1. ucache' \subseteq ucache
  <2>1. CASE (\E b \in Moves : ApplyHeaders(b)) \/ Unindex \/ Unadd \/ AddBlocks \/ IndexBlocks
    BY <2>1 DEF ApplyHeaders, Unindex, Unadd, AddBlocks, IndexBlocks
  <2>2. CASE CancelCache \/ DropGone \/ FillPool
    BY <2>2 DEF CancelCache, DropGone, FillPool
  <2>. QED  BY <2>1, <2>2 DEF MainLoop
<1>2. ASSUME NEW c \in ucache PROVE RowShape(c)' /\ Honest(c)'
  <2>1. RowShape(c) /\ Honest(c)
    BY DEF CacheInv
  <2>2. (Reached(c.block) \/ c.block \in gone) => (Reached(c.block) \/ c.block \in gone)'
    BY ReachedStays
  <2>. QED  BY <2>1, <2>2 DEF RowShape, Honest, UnspentAt
<1>. QED  BY <1>1, <1>2 DEF CacheInv

LEMMA QueryLoop ==
    ASSUME BranchInv, GhostInv, QueryInv, MainLoop
    PROVE  QueryInv'
<1>1. /\ UNCHANGED <<place, loc, req>> /\ ~still'
  BY LoopOutside DEF session
<1>2. pure' => /\ pure /\ \A b : Reached(b) => Reached(b)'
               /\ reorged = {} => reorged' = {}
  BY PureStays
<1>3. (place \in Unspending /\ pure => reorged = {})'
  BY <1>1, <1>2 DEF QueryInv
<1>4. (place = "utxoheight" => \E c : loc.seen = <<c>> /\ RowShape(c) /\ (pure => Honest(c)))'
  <2>. SUFFICES ASSUME place = "utxoheight"
                PROVE  \E c : loc'.seen = <<c>> /\ RowShape(c)' /\ (pure' => Honest(c)')
    BY <1>1
  <2>1. PICK c : loc.seen = <<c>> /\ RowShape(c) /\ (pure => Honest(c))
    BY DEF QueryInv
  <2>2. (Reached(c.block) \/ c.block \in gone) => (Reached(c.block) \/ c.block \in gone)'
    BY ReachedStays
  <2>3. RowShape(c)' /\ (pure' => Honest(c)')
    BY <1>2, <2>1, <2>2 DEF RowShape, Honest, UnspentAt
  <2>. QED  BY <1>1, <2>1, <2>3
<1>5. (place \in {"utxorows", "utxosave"} => loc.block \in Blocks \cup {NoBlock})'
  BY <1>1 DEF QueryInv
<1>6. (place = "utxoscan" => loc.block = NoBlock /\ (pure => From(Chain[best] \ coming, loc.height, loc.got[1])))'
  <2>. SUFFICES ASSUME place = "utxoscan", pure'
                PROVE  From((Chain[best] \ coming)', loc'.height, loc'.got[1])
    BY <1>1 DEF QueryInv, From, UnspentAt
  <2>1. From(Chain[best] \ coming, loc.height, loc.got[1])
    BY <1>2 DEF QueryInv
  <2>2. Chain[best] \ coming \subseteq (Chain[best] \ coming)'
    BY <1>2 DEF Reached
  <2>. QED  BY <1>1, <2>1, <2>2 DEF From
<1>7. (place \in {"utxorows", "utxosave"} /\ pure =>
          \E p \in Blocks \cup {NoBlock} :
             /\ p = NoBlock \/ Reached(p)
             /\ still /\ step = "idle" => p = best
             /\ Scanning(p) /\ LastBlock(p)
             /\ place = "utxosave" => loc.todo[1] = {})'
  <2>. SUFFICES ASSUME place \in {"utxorows", "utxosave"}, pure'
                PROVE  \E p \in Blocks \cup {NoBlock} :
                         /\ p = NoBlock \/ Reached(p)'
                         /\ Scanning(p)' /\ LastBlock(p)'
                         /\ place = "utxosave" => loc'.todo[1] = {}
    BY <1>1
  <2>1. PICK p \in Blocks \cup {NoBlock} :
             /\ p = NoBlock \/ Reached(p)
             /\ Scanning(p) /\ LastBlock(p)
             /\ place = "utxosave" => loc.todo[1] = {}
    BY <1>2 DEF QueryInv
  <2>2. Scanning(p)' /\ LastBlock(p)'
    BY <1>1, <2>1 DEF Scanning, LastBlock, From, UnspentAt, Above, Funds, Uses
  <2>. QED  BY <1>1, <1>2, <2>1, <2>2
<1>8. (place = "utxopool" /\ pure /\ still /\ step = "idle" => loc.got[1] = UnspentAt(best))'
  BY <1>1
<1>. QED  BY <1>3, <1>4, <1>5, <1>6, <1>7, <1>8 DEF QueryInv

(* While a request met no rollback, the history rows are those of the      *)
(* indexed part of the best chain.                                         *)
LEMMA PureHistory ==
    ASSUME WriterInv, reorged = {}
    PROVE  \E p \in Blocks \cup {NoBlock} :
              /\ Chain[p] = Chain[best] \ coming /\ history = HistRows(Chain[p])
              /\ p = NoBlock \/ Reached(p)
              /\ step = "idle" => p = best
<1>1. best \in Blocks /\ best \in Chain[best] /\ (step \in {"idle", "drop", "fill"} => coming = {})
  BY ReaderAssumption, Branches DEF WriterInv, BranchInv
<1>2. Historic = Chain[best] \ coming
  BY <1>1 DEF Historic, Former, WriterInv, BranchInv
<1>3. CASE step = "idle"
  <2>1. Chain[best] = Chain[best] \ coming /\ Reached(best)
    BY <1>1, <1>3 DEF Reached
  <2>. QED  BY <1>1, <1>2, <2>1 DEF WriterInv, StoreInv
<1>4. CASE step # "idle"
  <2>1. PICK p \in Blocks \cup {NoBlock} : Chain[p] = Historic /\ history = HistRows(Chain[p])
    BY HistoryIsOfBranch
  <2>2. p \in Blocks => p \in Chain[p]
    BY Branches
  <2>. QED  BY <1>2, <1>4, <2>1, <2>2 DEF Reached
<1>. QED  BY <1>3, <1>4

(* The rows of such a request are confirmed where they say.                *)
LEMMA RowConfirmed ==
    ASSUME WriterInv, reorged = {}, NEW p \in Blocks \cup {NoBlock}, p = NoBlock \/ Reached(p),
           NEW r \in HistRows(Chain[p]), r[1] = "H"
    PROVE  /\ \E b \in Confirming(TxOf(r)) : Height[b] = r[3]
           /\ \A b \in Confirming(TxOf(r)) : Height[b] = r[3] => b \in Chain[p] /\ b \in Blocks
<1>1. PICK b \in Chain[p] : TxOf(r) \in TxsOf(b) /\ r[3] = Height[b]
  <2>1. PICK b \in Chain[p] : \E i \in DOMAIN BlockTxs[b] : TxOf(r) = BlockTxs[b][i] /\ r[3] = Height[b]
    BY ScriptRow
  <2>. QED  BY <2>1 DEF TxsOf
<1>2. p # NoBlock
  BY <1>1, TreeAssumption
<1>3. PICK q \in Blocks \cup {NoBlock} : Chain[q] = Chain[best] \ coming
  BY DEF WriterInv, BranchInv
<1>4. Chain[p] \subseteq Chain[best] \ coming
  BY <1>2, <1>3, Branches DEF Reached
<1>5. best \in Blocks
  BY ReaderAssumption DEF WriterInv, BranchInv
<1>6. Chain[best] \ coming \subseteq Stored
  BY DEF Stored, Former
<1>7. Confirming(TxOf(r)) = {c \in Chain[best] \cap Stored : TxOf(r) \in TxsOf(c)}
  BY ConfirmingFacts DEF WriterInv, StoreInv
<1>8. b \in Confirming(TxOf(r))
  BY <1>1, <1>4, <1>6, <1>7
<1>9. ASSUME NEW c \in Confirming(TxOf(r)) PROVE c = b
  <2>1. c \in Chain[best] /\ b \in Chain[best] /\ TxOf(r) \in TxsOf(c)
    BY <1>1, <1>4, <1>7
  <2>. QED  BY <1>1, <1>5, <2>1, OnceIn
<1>10. b \in Blocks
  BY Branches
<1>. QED  BY <1>1, <1>8, <1>9, <1>10

(* One more row of the scan.                                               *)
LEMMA CountRow ==
    ASSUME NEW p \in Blocks \cup {NoBlock}, Scanning(p), LastBlock(p),
           NEW r \in loc.todo[1], \A q \in loc.todo[1] : ~Earlier(q, r), Counted(r),
           loc'.height = loc.height, loc.height \in Nat \cup {-1}, loc'.todo = <<loc.todo[1] \ {r}>>,
           \A b \in Confirming(TxOf(r)) : Height[b] = r[3] => b \in Chain[p] /\ b \in Blocks
    PROVE  Scanning(p)' /\ LastBlock(p)'
<1>. DEFINE done == loc.seen[1]
            todo == loc.todo[1]
            h == loc.height
            o == r[6]
<1>1. PICK U : /\ From(Chain[p], h, U) /\ done \cup todo = Above(p, h)
               /\ \A q \in done, x \in todo : ~Earlier(x, q)
               /\ loc.got[1] = (U \cup Funds(done)) \ Uses(done)
  BY DEF Scanning
<1>2. PICK b : Height[b] = r[3] /\ loc'.block = b /\ b \in Chain[p] /\ b \in Blocks
  BY DEF Counted
<1>3. /\ loc'.seen[1] = done \cup {r} /\ loc'.todo[1] = todo \ {r} /\ loc'.got[1] = Applied(loc.got[1], r)
  BY DEF Counted
<1>4. \A q \in done \cup todo : q \in HistRows(Chain[p]) /\ q[1] = "H" /\ q[3] \in Nat /\ q[5] \in {"F", "S"}
  <2>1. ASSUME NEW q \in Above(p, h) PROVE q \in HistRows(Chain[p]) /\ q[1] = "H" /\ q[3] \in Nat /\ q[5] \in {"F", "S"}
    <3>1. q \in HistRows(Chain[p]) /\ q[1] = "H"
      BY DEF Above
    <3>2. PICK c \in Chain[p] : q[3] = Height[c] /\ q[5] \in {"F", "S"}
      BY <3>1, ScriptRow
    <3>. QED  BY <3>1, <3>2, Branches
  <2>. QED  BY <1>1, <2>1
<1>. HIDE DEF done, todo
<1>5. Funds(done \cup {r}) = Funds(done) \cup (IF r[5] = "F" THEN {o} ELSE {})
  BY DEF Funds
<1>6. Uses(done \cup {r}) = Uses(done) \cup (IF r[5] = "S" THEN {o} ELSE {})
  BY DEF Uses
<1>7. r[5] = "F" => o \notin Uses(done)
  <2>. SUFFICES ASSUME r[5] = "F", o \in Uses(done) PROVE FALSE
    OBVIOUS
  <2>1. PICK q \in done : q[5] = "S" /\ q[6] = o
    BY DEF Uses
  <2>2. Earlier(r, q)
    BY <1>4, <2>1, FundedFirst DEF todo
  <2>. QED  BY <1>1, <2>1, <2>2 DEF todo
<1>8. Applied(loc.got[1], r) = (U \cup Funds(done \cup {r})) \ Uses(done \cup {r})
  <2>1. CASE r[5] = "F"
    BY <1>1, <1>5, <1>6, <1>7, <2>1 DEF Applied
  <2>2. CASE r[5] = "S"
    BY <1>1, <1>5, <1>6, <2>2 DEF Applied
  <2>. QED  BY <1>4, <2>1, <2>2 DEF todo
<1>9. (done \cup {r}) \cup (todo \ {r}) = Above(p, h)
  BY <1>1 DEF todo
<1>10. \A q \in done \cup {r}, x \in todo \ {r} : ~Earlier(x, q)
  BY <1>1 DEF todo
<1>11. Scanning(p)'
  <2>1. From(Chain[p], loc'.height, U) /\ Above(p, loc'.height) = Above(p, h)
    BY <1>1
  <2>2. /\ loc'.seen[1] \cup loc'.todo[1] = Above(p, loc'.height)
        /\ \A q \in loc'.seen[1], x \in loc'.todo[1] : ~Earlier(x, q)
        /\ loc'.got[1] = (U \cup Funds(loc'.seen[1])) \ Uses(loc'.seen[1])
    BY <1>3, <1>8, <1>9, <1>10, <2>1
  <2>. QED  BY <2>1, <2>2 DEF Scanning, From, UnspentAt, Above, Funds, Uses, Earlier
<1>12. LastBlock(p)'
  <2>1. b # NoBlock /\ Height[b] \in Nat
    BY <1>2, TreeAssumption
  <2>2. ASSUME NEW q \in done \cup {r} PROVE q[3] <= r[3]
    <3>1. ~Earlier(r, q) \/ q = r
      BY <1>1 DEF todo
    <3>2. q[3] \in Nat /\ r[3] \in Nat
      BY <1>4 DEF todo
    <3>. QED  BY <3>1, <3>2 DEF Earlier
  <2>. QED  BY <1>2, <1>3, <2>1, <2>2 DEF LastBlock
<1>. QED  BY <1>11, <1>12

(* A finished scan has found what is unspent at its end, and the same at   *)
(* the block of the last row.                                              *)
LEMMA ScanEnds ==
    ASSUME NEW p \in Blocks \cup {NoBlock}, Scanning(p), LastBlock(p), loc.todo[1] = {},
           loc.height \in Nat \cup {-1}
    PROVE  /\ loc.got[1] = UnspentAt(p)
           /\ loc.block # NoBlock => loc.block \in Chain[p] /\ loc.got[1] = UnspentAt(loc.block)
<1>1. PICK U : /\ From(Chain[p], loc.height, U) /\ loc.seen[1] = Above(p, loc.height)
               /\ loc.got[1] = (U \cup Funds(loc.seen[1])) \ Uses(loc.seen[1])
  BY DEF Scanning
<1>2. loc.got[1] = UnspentAt(p)
  BY <1>1, UnspentAbove
<1>3. ASSUME loc.block # NoBlock PROVE loc.block \in Chain[p] /\ loc.got[1] = UnspentAt(loc.block)
  <2>1. /\ loc.block \in Chain[p] /\ \A r \in Above(p, loc.height) : r[3] <= Height[loc.block]
        /\ \E r \in Above(p, loc.height) : r[3] = Height[loc.block]
    BY <1>1, <1>3 DEF LastBlock
  <2>2. Height[loc.block] \in Nat /\ Height[loc.block] >= loc.height + 1
    BY <2>1, Branches DEF Above
  <2>3. ASSUME NEW r \in Above(p, Height[loc.block]) PROVE FALSE
    <3>1. r \in HistRows(Chain[p]) /\ r[1] = "H" /\ r[3] >= Height[loc.block] + 1
      BY DEF Above
    <3>2. r[3] \in Nat
      <4>1. PICK c \in Chain[p] : r[3] = Height[c]
        BY <3>1, ScriptRow
      <4>. QED  BY <4>1, Branches
    <3>3. r[3] >= loc.height + 1
      BY <2>2, <3>1, <3>2
    <3>4. r \in Above(p, loc.height)
      BY <3>1, <3>3 DEF Above
    <3>. QED  BY <2>1, <2>2, <3>1, <3>2, <3>4
  <2>4. Above(p, Height[loc.block]) = {}
    BY <2>3
  <2>. QED  BY <1>2, <2>1, <2>4, UnspentAtLast
<1>. QED  BY <1>2, <1>3

LEMMA UtxoStarts ==
    ASSUME UtxoInv, WriterInv, Utxo
    PROVE  UtxoInv'
<1>1. /\ UNCHANGED backend /\ pure' = (reorged = {}) /\ loc'.height = -1 /\ loc'.block = NoBlock
      /\ \/ place' = "utxoscan" /\ loc'.got = <<{}>>
         \/ \E c \in ucache : place' = "utxoheight" /\ loc'.seen = <<c>>
  BY UtxoFacts
<1>2. UNCHANGED <<best, coming, gone, ucache, reorged>>
  BY <1>1 DEF backend
<1>3. \A c : UNCHANGED RowShape(c) /\ UNCHANGED Honest(c)
  BY <1>2 DEF RowShape, Honest, Reached, UnspentAt
<1>4. CacheInv'
  BY <1>2, <1>3 DEF UtxoInv, CacheInv
<1>5. pure' => reorged' = {}
  BY <1>1, <1>2
<1>6. CASE place' = "utxoscan" /\ loc'.got = <<{}>>
  <2>1. From((Chain[best] \ coming)', loc'.height, loc'.got[1])
    BY <1>1, <1>6 DEF From
  <2>. QED  BY <1>1, <1>4, <1>5, <1>6, <2>1 DEF UtxoInv, QueryInv, UtxoExact, UtxoAnswered, From, UnspentAt
<1>7. CASE \E c \in ucache : place' = "utxoheight" /\ loc'.seen = <<c>>
  <2>1. PICK c \in ucache : place' = "utxoheight" /\ loc'.seen = <<c>>
    BY <1>7
  <2>2. RowShape(c)' /\ Honest(c)'
    BY <1>3 DEF UtxoInv, CacheInv
  <2>. QED  BY <1>4, <1>5, <2>1, <2>2 DEF UtxoInv, QueryInv, UtxoExact, UtxoAnswered
<1>. QED  BY <1>1, <1>6, <1>7

LEMMA UtxoRowUsed ==
    ASSUME UtxoInv, WriterInv, GhostInv, UtxoHeight
    PROVE  UtxoInv'
<1>. DEFINE c == loc.seen[1]
<1>1. /\ place = "utxoheight" /\ UNCHANGED backend /\ place' = "utxoscan" /\ loc'.block = NoBlock
      /\ \/ /\ c.block \in Chain[best] /\ loc'.height = Height[c.block] /\ loc'.got = <<c.utxos>>
            /\ pure' = (pure /\ c.pure)
         \/ loc'.height = -1 /\ loc'.got = <<{}>> /\ pure' = pure
  BY UtxoHeightFacts
<1>2. UNCHANGED <<best, coming, gone, ucache, reorged>>
  BY <1>1 DEF backend
<1>3. CacheInv'
  BY <1>2 DEF UtxoInv, CacheInv, RowShape, Honest, Reached, UnspentAt
<1>4. RowShape(c) /\ (pure => Honest(c))
  BY <1>1 DEF UtxoInv, QueryInv
<1>5. pure \in BOOLEAN /\ c.pure \in BOOLEAN
  BY <1>4 DEF GhostInv, RowShape
<1>6. pure' => pure
  BY <1>1, <1>5
<1>7. pure' => reorged' = {}
  BY <1>1, <1>2, <1>6 DEF UtxoInv, QueryInv, Unspending
<1>8. ASSUME pure' PROVE From(Chain[best] \ coming, loc'.height, loc'.got[1])
  <2>1. CASE loc'.height = -1 /\ loc'.got = <<{}>>
    BY <2>1 DEF From
  <2>2. CASE /\ c.block \in Chain[best] /\ loc'.height = Height[c.block] /\ loc'.got = <<c.utxos>>
             /\ pure' = (pure /\ c.pure)
    <3>1. (Reached(c.block) \/ c.block \in gone) /\ c.utxos = UnspentAt(c.block)
      BY <1>4, <1>5, <1>8, <2>2 DEF Honest
    <3>2. Reached(c.block)
      BY <2>2, <3>1 DEF WriterInv, BranchInv
    <3>. QED  BY <2>2, <3>1, <3>2 DEF From, Reached
  <2>. QED  BY <1>1, <2>1, <2>2
<1>9. pure' => From((Chain[best] \ coming)', loc'.height, loc'.got[1])
  BY <1>2, <1>8
<1>. HIDE DEF c
<1>. QED  BY <1>1, <1>3, <1>7, <1>9 DEF UtxoInv, QueryInv, UtxoExact, UtxoAnswered, From, UnspentAt

LEMMA UtxoScans ==
    ASSUME UtxoInv, WriterInv, SessionInv, GhostInv, UtxoScan
    PROVE  UtxoInv'
<1>1. /\ place = "utxoscan" /\ UNCHANGED <<backend, ghosts>> /\ place' = "utxorows"
      /\ loc'.block = loc.block /\ loc'.height = loc.height /\ loc'.got = loc.got
      /\ loc'.todo = <<{r \in history : r[1] = "H" /\ r[3] >= loc.height + 1}>> /\ loc'.seen = <<{}>>
  BY UtxoScanFacts DEF SessionInv, Formed
<1>2. UNCHANGED <<best, coming, gone, ucache, reorged, step, pure, still>>
  BY <1>1 DEF backend, ghosts
<1>3. CacheInv'
  BY <1>2 DEF UtxoInv, CacheInv, RowShape, Honest, Reached, UnspentAt
<1>4. pure => reorged = {} /\ loc.block = NoBlock /\ From(Chain[best] \ coming, loc.height, loc.got[1])
  BY <1>1 DEF UtxoInv, QueryInv, Unspending
<1>5. ASSUME pure
      PROVE  \E p \in Blocks \cup {NoBlock} :
               /\ p = NoBlock \/ Reached(p)'
               /\ still' /\ step' = "idle" => p = best'
               /\ Scanning(p)' /\ LastBlock(p)'
  <2>1. PICK p \in Blocks \cup {NoBlock} :
              /\ Chain[p] = Chain[best] \ coming /\ history = HistRows(Chain[p])
              /\ p = NoBlock \/ Reached(p)
              /\ step = "idle" => p = best
    BY <1>4, <1>5, PureHistory
  <2>2. From(Chain[p], loc'.height, loc.got[1])
    BY <1>1, <1>4, <1>5, <2>1
  <2>3. /\ loc'.seen[1] = {} /\ loc'.todo[1] = Above(p, loc'.height) /\ loc'.got[1] = loc.got[1]
    BY <1>1, <2>1 DEF Above
  <2>4. Funds({}) = {} /\ Uses({}) = {}
    BY DEF Funds, Uses
  <2>5. loc'.got[1] = (loc.got[1] \cup Funds(loc'.seen[1])) \ Uses(loc'.seen[1])
    BY <2>3, <2>4
  <2>6. /\ loc'.seen[1] \cup loc'.todo[1] = Above(p, loc'.height)
        /\ \A q \in loc'.seen[1], x \in loc'.todo[1] : ~Earlier(x, q)
    BY <2>3
  <2>7. Scanning(p)'
    BY <2>2, <2>5, <2>6 DEF Scanning, From, UnspentAt, Above, Funds, Uses, Earlier
  <2>8. LastBlock(p)'
    BY <1>1, <1>4, <1>5, <2>3 DEF LastBlock
  <2>9. p = NoBlock \/ Reached(p)'
    BY <1>2, <2>1 DEF Reached
  <2>. QED  BY <1>2, <2>1, <2>7, <2>8, <2>9
<1>6. loc'.block = NoBlock
  BY <1>1 DEF UtxoInv, QueryInv
<1>7. QueryInv'
  BY <1>1, <1>2, <1>4, <1>5, <1>6 DEF QueryInv, Unspending
<1>. QED  BY <1>1, <1>3, <1>7 DEF UtxoInv, UtxoExact, UtxoAnswered

LEMMA UtxoRows ==
    ASSUME UtxoInv, WriterInv, SessionInv, GhostInv, UtxoRow
    PROVE  UtxoInv'
<1>0. Formed /\ loc.height \in Nat \cup {-1}
  BY DEF SessionInv, Formed
<1>1. place = "utxorows" /\ UNCHANGED <<backend, ghosts>>
  BY <1>0, UtxoRowFacts
<1>2. UNCHANGED <<best, coming, gone, ucache, reorged, step, pure, still>>
  BY <1>1 DEF backend, ghosts
<1>3. CacheInv'
  BY <1>2 DEF UtxoInv, CacheInv, RowShape, Honest, Reached, UnspentAt
<1>4. pure => reorged = {}
  BY <1>1 DEF UtxoInv, QueryInv, Unspending
<1>5. CASE Answer(req, Absent, 400)
  <2>1. place' = "idle" /\ (out' = [ttl |-> Absent, body |-> 400] \/ out' = NoAnswer)
    BY <1>5, AnswerFacts
  <2>2. out'.ttl # "short"
    BY <2>1 DEF NoAnswer, Absent
  <2>. QED  BY <1>1, <2>1, <2>2, UtxoElsewhere DEF Unspending
<1>6. loc.block \in Blocks \cup {NoBlock}
  BY <1>1 DEF UtxoInv, QueryInv
<1>7. ASSUME pure
      PROVE  \E p \in Blocks \cup {NoBlock} :
               /\ p = NoBlock \/ Reached(p)
               /\ still /\ step = "idle" => p = best
               /\ Scanning(p) /\ LastBlock(p)
  BY <1>1, <1>7 DEF UtxoInv, QueryInv
<1>8. CASE loc.todo[1] = {} /\ place' = "utxosave" /\ loc' = loc
  <2>1. ASSUME NEW p PROVE UNCHANGED <<Reached(p), Scanning(p), LastBlock(p)>>
    BY <1>2, <1>8 DEF Reached, Scanning, LastBlock, From, UnspentAt, Above, Funds, Uses, Earlier
  <2>2. QueryInv'
    BY <1>2, <1>4, <1>6, <1>7, <1>8, <2>1 DEF QueryInv, Unspending
  <2>. QED  BY <1>3, <1>8, <2>2 DEF UtxoInv, UtxoExact, UtxoAnswered
<1>9. ASSUME NEW r \in loc.todo[1], \A q \in loc.todo[1] : ~Earlier(q, r),
             place' = "utxorows", loc'.height = loc.height, loc'.todo = <<loc.todo[1] \ {r}>>,
             Skipped(r) \/ Counted(r)
      PROVE  UtxoInv'
  <2>1. ASSUME NEW b \in Confirming(TxOf(r)) PROVE b \in Blocks
    <3>1. b \in Chain[best] /\ best \in Blocks
      BY ReaderAssumption DEF Confirming, WriterInv, BranchInv
    <3>. QED  BY <3>1, Branches
  <2>2. loc'.block \in Blocks \cup {NoBlock}
    BY <1>6, <1>9, <2>1 DEF Skipped, Counted
  <2>3. ASSUME pure
        PROVE  \E p \in Blocks \cup {NoBlock} :
                 /\ p = NoBlock \/ Reached(p)'
                 /\ still' /\ step' = "idle" => p = best'
                 /\ Scanning(p)' /\ LastBlock(p)'
    <3>1. PICK p \in Blocks \cup {NoBlock} :
               /\ p = NoBlock \/ Reached(p)
               /\ still /\ step = "idle" => p = best
               /\ Scanning(p) /\ LastBlock(p)
      BY <1>7, <2>3
    <3>2. r \in HistRows(Chain[p]) /\ r[1] = "H"
      <4>1. r \in Above(p, loc.height)
        BY <3>1 DEF Scanning
      <4>. QED  BY <4>1 DEF Above
    <3>3. /\ \E b \in Confirming(TxOf(r)) : Height[b] = r[3]
          /\ \A b \in Confirming(TxOf(r)) : Height[b] = r[3] => b \in Chain[p] /\ b \in Blocks
      BY <1>4, <2>3, <3>1, <3>2, RowConfirmed
    <3>4. Counted(r)
      BY <1>9, <3>3 DEF Skipped
    <3>5. Scanning(p)' /\ LastBlock(p)'
      BY <1>0, <1>9, <3>1, <3>3, <3>4, CountRow
    <3>6. p = NoBlock \/ Reached(p)'
      BY <1>2, <3>1 DEF Reached
    <3>. QED  BY <1>2, <3>1, <3>5, <3>6
  <2>4. QueryInv'
    BY <1>2, <1>4, <1>9, <2>2, <2>3 DEF QueryInv, Unspending
  <2>. QED  BY <1>3, <1>9, <2>4 DEF UtxoInv, UtxoExact, UtxoAnswered
<1>. QED  BY <1>0, <1>5, <1>8, <1>9, UtxoRowFacts

LEMMA UtxoSaves ==
    ASSUME UtxoInv, WriterInv, SessionInv, GhostInv, UtxoSave
    PROVE  UtxoInv'
<1>1. /\ place = "utxosave" /\ UNCHANGED <<written, ghosts>> /\ place' = "utxopool" /\ loc'.got = loc.got
      /\ \/ ucache' = ucache
         \/ /\ loc.block # NoBlock
            /\ ucache' = {[utxos |-> loc.got[1], block |-> loc.block, pure |-> pure]}
  BY UtxoSaveFacts
<1>2. UNCHANGED <<best, coming, gone, reorged, step, pure, still>>
  BY <1>1 DEF written, ghosts
<1>3. loc.block \in Blocks \cup {NoBlock} /\ loc.height \in Nat \cup {-1} /\ pure \in BOOLEAN
  BY <1>1 DEF UtxoInv, QueryInv, SessionInv, GhostInv
<1>4. ASSUME pure
      PROVE  \E p \in Blocks \cup {NoBlock} :
               /\ p = NoBlock \/ Reached(p)
               /\ still /\ step = "idle" => p = best
               /\ loc.got[1] = UnspentAt(p)
               /\ loc.block # NoBlock => loc.block \in Chain[p] /\ loc.got[1] = UnspentAt(loc.block)
  <2>1. PICK p \in Blocks \cup {NoBlock} :
             /\ p = NoBlock \/ Reached(p)
             /\ still /\ step = "idle" => p = best
             /\ Scanning(p) /\ LastBlock(p) /\ loc.todo[1] = {}
    BY <1>1, <1>4 DEF UtxoInv, QueryInv
  <2>. QED  BY <1>3, <2>1, ScanEnds
<1>5. ASSUME pure, loc.block # NoBlock PROVE Reached(loc.block) /\ loc.got[1] = UnspentAt(loc.block)
  <2>1. PICK p \in Blocks \cup {NoBlock} :
             /\ p = NoBlock \/ Reached(p)
             /\ loc.block \in Chain[p] /\ loc.got[1] = UnspentAt(loc.block)
    BY <1>4, <1>5
  <2>2. PICK q \in Blocks \cup {NoBlock} : Chain[q] = Chain[best] \ coming
    BY DEF WriterInv, BranchInv
  <2>3. p # NoBlock
    BY <2>1, TreeAssumption
  <2>4. Chain[p] \subseteq Chain[q]
    BY <2>1, <2>2, <2>3, Branches DEF Reached
  <2>. QED  BY <2>1, <2>2, <2>4 DEF Reached
<1>6. CacheInv'
  <2>1. CASE ucache' = ucache
    BY <1>2, <2>1 DEF UtxoInv, CacheInv, RowShape, Honest, Reached, UnspentAt
  <2>2. CASE /\ loc.block # NoBlock
             /\ ucache' = {[utxos |-> loc.got[1], block |-> loc.block, pure |-> pure]}
    <3>. DEFINE c == [utxos |-> loc.got[1], block |-> loc.block, pure |-> pure]
    <3>1. c.utxos = loc.got[1] /\ c.block = loc.block /\ c.pure = pure
      OBVIOUS
    <3>2. RowShape(c)
      BY <1>3, <2>2 DEF RowShape
    <3>. HIDE DEF c
    <3>3. Honest(c)
      BY <1>5, <2>2, <3>1 DEF Honest
    <3>4. ucache' = {c}
      BY <2>2 DEF c
    <3>5. ASSUME NEW d, d = c PROVE RowShape(d)' /\ Honest(d)'
      <4>1. RowShape(d) /\ Honest(d)
        BY <3>2, <3>3, <3>5
      <4>. QED  BY <1>2, <4>1 DEF RowShape, Honest, Reached, UnspentAt
    <3>. QED  BY <3>4, <3>5 DEF CacheInv
  <2>. QED  BY <1>1, <2>1, <2>2
<1>7. pure' => reorged' = {}
  BY <1>1, <1>2 DEF UtxoInv, QueryInv, Unspending
<1>8. pure' /\ still' /\ step' = "idle" => loc'.got[1] = UnspentAt(best')
  BY <1>1, <1>2, <1>4
<1>9. QueryInv'
  BY <1>1, <1>7, <1>8 DEF QueryInv, UnspentAt
<1>. QED  BY <1>1, <1>6, <1>9 DEF UtxoInv, UtxoExact, UtxoAnswered

(* The mempool's part of the answer.                                       *)
LEMMA UtxoAnswersRight ==
    ASSUME UtxoInv, PlaceInv, WriterInv, UtxoPool
    PROVE  UtxoInv'
<1>. DEFINE body == (loc.got[1] \cup PoolFunded) \ PoolSpent
            known == Pool \cup TxRows(Chain[best])
            right == {o \in UNION {OutsOf(t) : t \in known} : ScriptOf(o) = Script /\ \A t \in known : o \notin Spends[t]}
<1>1. place = "utxopool" /\ UNCHANGED <<backend, ghosts>> /\ Answer(req, "short", body)
  BY UtxoPoolFacts
<1>2. req.op = "utxo"
  BY <1>1 DEF PlaceInv, Unspending
<1>3. place' = "idle" /\ out' = [ttl |-> "short", body |-> body]
  <2>. HIDE DEF body
  <2>. QED  BY <1>1, <1>2, AnswerFacts DEF Remembered
<1>4. UNCHANGED <<best, coming, gone, ucache, step, pool, still, pure>>
  BY <1>1 DEF backend, ghosts
<1>5. ASSUME still, pure, step = "idle" PROVE body = right
  <2>1. loc.got[1] = UnspentAt(best)
    BY <1>1, <1>5 DEF UtxoInv, QueryInv
  <2>2. \A o : o \in UnspentAt(best) <=> /\ ScriptOf(o) = Script /\ \E t \in TxRows(Chain[best]) : o \in OutsOf(t)
                                         /\ \A t \in TxRows(Chain[best]) : o \notin Spends[t]
    BY DEF UnspentAt
  <2>3. \A o : o \in PoolFunded <=> ScriptOf(o) = Script /\ \E t \in Pool : o \in OutsOf(t)
    BY DEF PoolFunded
  <2>4. \A o : o \in PoolSpent <=> \E t \in Pool : o \in Spends[t]
    BY DEF PoolSpent
  <2>5. \A o : (\E t \in Pool : o \in OutsOf(t)) => \A t \in TxRows(Chain[best]) : o \notin Spends[t]
    BY <1>5, PoolOutputsUnspent
  <2>6. \A o : o \in right <=> /\ ScriptOf(o) = Script
                               /\ (\E t \in Pool : o \in OutsOf(t)) \/ (\E t \in TxRows(Chain[best]) : o \in OutsOf(t))
                               /\ \A t \in TxRows(Chain[best]) : o \notin Spends[t]
                               /\ \A t \in Pool : o \notin Spends[t]
    OBVIOUS
  <2>7. \A o : o \in body <=> (o \in UnspentAt(best) \/ o \in PoolFunded) /\ o \notin PoolSpent
    BY <2>1
  <2>. HIDE DEF body, right
  <2>8. \A o : o \in body <=> o \in right
    BY <2>2, <2>3, <2>4, <2>5, <2>6, <2>7
  <2>9. \A S, T : (\A o : o \in S <=> o \in T) => S = T
    OBVIOUS
  <2>. QED  BY <2>8, <2>9
<1>6. out'.body = body
  BY <1>3
<1>7. Pool' = Pool /\ right' = right
  BY <1>4 DEF Pool
<1>8. UtxoExact'
  <2>1. still' /\ pure' /\ step' = "idle" => out'.body = right'
    <3>. HIDE DEF body, right
    <3>. QED  BY <1>4, <1>5, <1>6, <1>7
  <2>. QED  BY <2>1 DEF UtxoExact, UtxoAnswered, UtxoIsExact
<1>9. CacheInv'
  BY <1>4 DEF UtxoInv, CacheInv, RowShape, Honest, Reached, UnspentAt
<1>10. QueryInv'
  <2>. HIDE DEF body, right
  <2>. QED  BY <1>3 DEF QueryInv, Unspending
<1>. QED  BY <1>8, <1>9, <1>10 DEF UtxoInv

LEMMA UtxoStep ==
    ASSUME UtxoInv, ListInv, SessionInv, PlaceInv, WriterInv, GhostInv, [RestNext]_restVars
    PROVE  UtxoInv'
<1>1. CASE MainLoop
  <2>1. CacheInv' /\ QueryInv' /\ ~still'
    BY <1>1, CacheLoop, QueryLoop, LoopOutside DEF UtxoInv, WriterInv
  <2>. QED  BY <2>1 DEF UtxoInv, UtxoExact, UtxoAnswered
<1>2. CASE UNCHANGED restVars
  <2>1. UNCHANGED <<best, step, pool, coming, gone, reorged, ucache, place, loc, req, out, still, pure>>
    BY <1>2 DEF restVars, session, ghosts, backend
  <2>2. UNCHANGED UtxoExact
    BY <2>1 DEF UtxoExact, UtxoAnswered, UtxoIsExact, Pool
  <2>3. UNCHANGED CacheInv
    BY <2>1 DEF CacheInv, RowShape, Honest, Reached, UnspentAt
  <2>4. UNCHANGED QueryInv
    BY <2>1 DEF QueryInv, Scanning, LastBlock, From, Above, Funds, Uses, Earlier, RowShape, Honest, Reached, UnspentAt
  <2>. QED  BY <2>2, <2>3, <2>4 DEF UtxoInv
<1>3. CASE PlainAsks \/ PlainHandler
  <2>1. /\ UNCHANGED backend /\ place' \notin Listing \cup Unspending /\ (place' = "idle" => req'.op = Absent)
    BY <1>3, PlainLeaves
  <2>. QED  BY <2>1, UtxoElsewhere DEF Absent
<1>4. ASSUME NEW op \in {"history", "whole"}, NEW c, History(op, c) PROVE UtxoInv'
  <2>1. UNCHANGED backend /\ place' \in {"poolpage", "findchain"}
    BY <1>4, HistoryFacts
  <2>. QED  BY <2>1, UtxoElsewhere DEF Unspending
<1>5. CASE History("history", Absent) \/ History("whole", Absent) \/ NextPage
  BY <1>4, <1>5, NextPageFacts
<1>6. CASE ListHandler
  <2>1. place \in Listing
    BY <1>6, ListAnswers
  <2>2. req.op # "utxo"
    BY <2>1 DEF PlaceInv, Listing
  <2>3. UNCHANGED backend
    BY <1>6 DEF ListHandler, Resumed, FindChain, PoolPage, ChainPage, ChainRow, RowTxs, PrepareTxs
  <2>4. ASSUME NEW ttl, NEW body, Answer(req, ttl, body) PROVE UtxoInv'
    <3>1. place' = "idle" /\ (req' = req \/ req' = NoRequest)
      BY <2>4, AnswerFacts
    <3>2. req'.op # "utxo"
      BY <2>2, <3>1 DEF NoRequest, Absent
    <3>. QED  BY <2>3, <3>1, <3>2, UtxoElsewhere DEF Unspending
  <2>5. ASSUME NEW l, NEW label \in Listing, Accept(req, label, l) PROVE UtxoInv'
    <3>1. place' \in Listing
      BY <2>5, AcceptFacts
    <3>. QED  BY <2>3, <3>1, UtxoElsewhere DEF Unspending, Listing
  <2>. QED  BY <1>6, <2>4, <2>5, ListAnswers
<1>7. CASE Utxo
  BY <1>7, UtxoStarts
<1>8. CASE UtxoHandler
  BY <1>8, UtxoRowUsed, UtxoScans, UtxoRows, UtxoSaves, UtxoAnswersRight DEF UtxoHandler
<1>. QED  BY <1>1, <1>2, <1>3, <1>5, <1>6, <1>7, <1>8, StepKinds

-----------------------------------------------------------------------------
(* Page by page.                                                           *)

(* At rest the mempool's part and the chain's part have nothing in common. *)
LEMMA WholeFacts ==
    ASSUME WriterInv, step = "idle"
    PROVE  /\ Distinct(InPool) /\ Distinct(ChainScan(-1)) /\ Distinct(Whole)
           /\ Len(Whole) = Len(InPool) + Len(ChainScan(-1))
           /\ \A i \in 1..Len(InPool) : Whole[i] = InPool[i] /\ Whole[i] \in Pool
           /\ \A i \in 1..Len(ChainScan(-1)) :
                 /\ Whole[Len(InPool) + i] = ChainScan(-1)[i]
                 /\ ChainScan(-1)[i] \in Touching /\ ChainScan(-1)[i] \notin Pool
                 /\ Confirming(ChainScan(-1)[i]) # {}
<1>. DEFINE P == InPool
            C == ChainScan(-1)
            W == P \o C
<1>1. best \in Blocks /\ Pool = Unconfirmed /\ history = HistRows(Chain[best]) /\ conf = ConfRows(Chain[best])
  BY ReaderAssumption DEF WriterInv, BranchInv, PoolInv, StoreInv, Stored, Historic
<1>2. Distinct(P) /\ Range(P) = Pool \cap Touching /\ Distinct(C)
  BY ListsDistinct
<1>3. Range(C) = ScriptTxs(best, -1)
  BY <1>1, ScanFacts
<1>4. \A t \in Range(C) : t \in Touching /\ t \notin Pool /\ Confirming(t) # {}
  <2>. SUFFICES ASSUME NEW t \in Range(C) PROVE t \in Touching /\ t \notin Pool /\ Confirming(t) # {}
    OBVIOUS
  <2>1. t \in Touching /\ \E b \in Chain[best] : t \in TxsOf(b)
    BY <1>3 DEF ScriptTxs
  <2>2. Confirming(t) = {b \in Chain[best] \cap Chain[best] : t \in TxsOf(b)}
    BY <1>1, ConfirmingFacts
  <2>. QED  BY <1>1, <2>1, <2>2 DEF Unconfirmed
<1>. HIDE DEF P, C
<1>5. P \in Seq(Txs) /\ C \in Seq(Txs) /\ IsInjective(P) /\ IsInjective(C) /\ Range(P) \cap Range(C) = {}
  BY <1>2, <1>4 DEF Distinct
<1>6. W \in Seq(Txs) /\ IsInjective(W)
  BY <1>5, Joined
<1>7. /\ Len(W) = Len(P) + Len(C) /\ Len(P) \in Nat /\ Len(C) \in Nat
      /\ \A i \in 1..(Len(P) + Len(C)) : W[i] = IF i <= Len(P) THEN P[i] ELSE C[i - Len(P)]
  BY <1>5, ConcatProperties
<1>8. DOMAIN P = 1..Len(P) /\ DOMAIN C = 1..Len(C)
  BY <1>5
<1>9. \A i \in 1..Len(P) : P[i] \in Range(P)
  BY <1>8 DEF Range
<1>10. \A i \in 1..Len(C) : C[i] \in Range(C)
  BY <1>8 DEF Range
<1>11. Whole = W
  BY DEF Whole, P, C
<1>. HIDE DEF W
<1>12. ASSUME NEW i \in 1..Len(P) PROVE W[i] = P[i] /\ W[i] \in Pool
  <2>1. i \in 1..(Len(P) + Len(C)) /\ i <= Len(P)
    BY <1>7
  <2>2. W[i] = P[i]
    BY <1>7, <2>1
  <2>. QED  BY <1>2, <1>9, <2>2
<1>13. ASSUME NEW i \in 1..Len(C) PROVE W[Len(P) + i] = C[i]
  <2>1. Len(P) + i \in 1..(Len(P) + Len(C)) /\ ~(Len(P) + i <= Len(P)) /\ (Len(P) + i) - Len(P) = i
    BY <1>7
  <2>. QED  BY <1>7, <2>1
<1>. QED  BY <1>2, <1>4, <1>6, <1>7, <1>10, <1>11, <1>12, <1>13 DEF P, C, Distinct

(* A beginning of the whole grows by what comes next in it.                *)
LEMMA Grows ==
    ASSUME NEW W \in Seq(Txs), NEW s, NEW u \in Seq(Txs), Starts(s, W),
           Len(s) + Len(u) <= Len(W), \A i \in 1..Len(u) : u[i] = W[Len(s) + i]
    PROVE  /\ Starts(s \o u, W) /\ Len(s \o u) = Len(s) + Len(u)
           /\ Len(s) + Len(u) = Len(W) => s \o u = W
<1>. DEFINE v == s \o u
<1>1. s \in Seq(Txs) /\ Len(s) \in Nat /\ Len(u) \in Nat /\ \A i \in 1..Len(s) : s[i] = W[i]
  BY DEF Starts
<1>2. /\ v \in Seq(Txs) /\ Len(v) = Len(s) + Len(u)
      /\ \A i \in 1..(Len(s) + Len(u)) : v[i] = IF i <= Len(s) THEN s[i] ELSE u[i - Len(s)]
  BY <1>1, ConcatProperties
<1>. HIDE DEF v
<1>3. ASSUME NEW i \in 1..Len(v) PROVE v[i] = W[i]
  <2>0. i \in 1..(Len(s) + Len(u)) /\ i \in Nat
    BY <1>2
  <2>1. CASE i <= Len(s)
    <3>1. i \in 1..Len(s) /\ v[i] = s[i]
      BY <1>1, <1>2, <2>0, <2>1
    <3>. QED  BY <1>1, <3>1
  <2>2. CASE ~(i <= Len(s))
    <3>1. i - Len(s) \in 1..Len(u) /\ Len(s) + (i - Len(s)) = i /\ v[i] = u[i - Len(s)]
      BY <1>1, <1>2, <2>0, <2>2
    <3>. QED  BY <3>1
  <2>. QED  BY <2>1, <2>2
<1>4. Len(v) = Len(W) => v = W
  BY <1>2, <1>3, SeqEqual
<1>. QED  BY <1>2, <1>3, <1>4 DEF v, Starts

LEMMA StartsPart ==
    ASSUME NEW s \in Seq(Txs), NEW u \in Seq(Txs)
    PROVE  Starts(s, s \o u)
<1>. DEFINE v == s \o u
<1>1. /\ v \in Seq(Txs) /\ Len(v) = Len(s) + Len(u) /\ Len(s) \in Nat /\ Len(u) \in Nat
      /\ \A i \in 1..(Len(s) + Len(u)) : v[i] = IF i <= Len(s) THEN s[i] ELSE u[i - Len(s)]
  BY ConcatProperties
<1>. HIDE DEF v
<1>2. ASSUME NEW i \in 1..Len(s) PROVE s[i] = v[i]
  <2>1. i \in 1..(Len(s) + Len(u)) /\ i <= Len(s)
    BY <1>1
  <2>. QED  BY <1>1, <2>1
<1>. QED  BY <1>1, <1>2 DEF v, Starts

LEMMA BeginsIs == ASSUME NEW s \in Seq(Txs) PROVE Begins(s) <=> Starts(s, Whole)
BY DEF Begins, Starts

Regrouped(s, t, u) == (s \o t) \o u = s \o (t \o u)

LEMMA Regroup ==
    ASSUME NEW s \in Seq(Txs), NEW t \in Seq(Txs), NEW u \in Seq(Txs)
    PROVE  Regrouped(s, t, u)
BY ConcatAssociative DEF Regrouped

(* What the handler has put together is a list of transactions.            *)
LEMMA SoFarType ==
    ASSUME pages \in Seq(Txs), loc.got \in Seq(Txs), loc.seen \in Seq(Txs)
    PROVE  /\ Base \in Seq(Txs) /\ Len(Base) \in Nat /\ SoFar \in Seq(Txs)
           /\ loc.got \o loc.seen \in Seq(Txs) /\ Len(loc.got) \in Nat /\ Len(loc.seen) \in Nat
           /\ Len(loc.got \o loc.seen) = Len(loc.got) + Len(loc.seen)
           /\ Len(SoFar) = Len(Base) + (Len(loc.got) + Len(loc.seen))
           /\ SoFar = (Base \o loc.got) \o loc.seen
           /\ loc.got = <<>> /\ loc.seen = <<>> => SoFar = Base
           /\ loc.seen = <<>> => SoFar = Base \o loc.got
<1>. DEFINE b == Base
            g == loc.got
            s == loc.seen
<1>1. b \in Seq(Txs) /\ g \in Seq(Txs) /\ s \in Seq(Txs)
  BY EmptySeq DEF Base
<1>. HIDE DEF b, g, s
<1>2. /\ Len(b) \in Nat /\ Len(g) \in Nat /\ Len(s) \in Nat
      /\ g \o s \in Seq(Txs) /\ Len(g \o s) = Len(g) + Len(s)
  BY <1>1, ConcatProperties
<1>3. b \o (g \o s) \in Seq(Txs) /\ Len(b \o (g \o s)) = Len(b) + (Len(g) + Len(s))
  BY <1>1, <1>2, ConcatProperties
<1>4. (b \o g) \o s = b \o (g \o s)
  <2>1. Regrouped(b, g, s)
    BY <1>1, Regroup
  <2>. QED  BY <2>1 DEF Regrouped
<1>5. g \o <<>> = g /\ b \o <<>> = b
  BY <1>1, ConcatEmptySeq
<1>6. s = <<>> => b \o (g \o s) = b \o g
  BY <1>5
<1>7. g = <<>> /\ s = <<>> => b \o (g \o s) = b
  <2>1. <<>> \o <<>> = <<>>
    BY ConcatEmptySeq, EmptySeq
  <2>. QED  BY <1>5, <2>1
<1>. QED  BY <1>1, <1>2, <1>3, <1>4, <1>6, <1>7 DEF b, g, s, SoFar

LEMMA PagesElsewhere ==
    ASSUME pages' \in Seq(Txs), place' \notin Listing,
           place' = "idle" => req'.op # "history" \/ out'.ttl # "short"
    PROVE  PagesInv'
BY DEF PagesInv

LEMMA PagesListing ==
    ASSUME pages' \in Seq(Txs), place' \in Listing,
           still' /\ step' = "idle" /\ req'.op = "history" => PagingInv'
    PROVE  PagesInv'
BY DEF PagesInv, Listing

LEMMA SameLists ==
    ASSUME UNCHANGED backend
    PROVE  step' = step /\ best' = best /\ InPool' = InPool /\ Whole' = Whole /\ Pool' = Pool
BY DEF backend, InPool, Whole, ChainScan, Pool

LEMMA PagesAsk ==
    ASSUME WriterInv, PagesInv, PlaceInv, GhostInv, History("history", Absent) \/ NextPage
    PROVE  PagesInv'
<1>. DEFINE c == IF History("history", Absent) THEN Absent ELSE out.body[Len(out.body)]
<1>1. History("history", c)
  BY NextPageFacts
<1>2. /\ place = "idle" /\ req'.op = "history" /\ req'.arg = c /\ UNCHANGED <<backend, pages>>
      /\ still' = (c = Absent \/ still) /\ loc'.got = <<>> /\ loc'.seen = <<>>
      /\ \/ (c = Absent \/ c \in Pool) /\ place' = "poolpage" /\ loc'.todo = <<Absent>>
         \/ c # Absent /\ c \notin Pool /\ place' = "findchain"
  <2>. HIDE DEF c
  <2>. QED  BY <1>1, HistoryFacts
<1>3. pages \in Seq(Txs) /\ pages' \in Seq(Txs) /\ place' \in Listing
  BY <1>2 DEF PagesInv, Listing
<1>4. step' = step /\ InPool' = InPool /\ Whole' = Whole
  BY <1>2, SameLists
<1>5. Base' \in Seq(Txs) /\ SoFar' = Base' /\ Base' = IF c = Absent THEN <<>> ELSE pages
  <2>1. Base' = IF c = Absent THEN <<>> ELSE pages
    BY <1>2 DEF Base
  <2>. DEFINE b == Base'
  <2>2. b \in Seq(Txs)
    BY <1>3, <2>1, EmptySeq
  <2>3. SoFar' = b \o (<<>> \o <<>>)
    BY <1>2 DEF SoFar
  <2>. HIDE DEF b
  <2>4. b \o (<<>> \o <<>>) = b
    BY <2>2, ConcatEmptySeq, EmptySeq
  <2>. QED  BY <2>1, <2>2, <2>3, <2>4 DEF b
<1>6. CASE c = Absent
  <2>1. Base' = <<>> /\ SoFar' = <<>> /\ place' = "poolpage" /\ req'.arg = Absent
    BY <1>2, <1>5, <1>6
  <2>2. (Len(InPool) \in Nat /\ Len(Whole) \in Nat) \/ step # "idle"
    BY WholeFacts DEF Distinct
  <2>3. step = "idle" => PagingInv'
    BY <1>4, <2>1, <2>2 DEF PagingInv, Begins
  <2>. QED  BY <1>3, <1>4, <2>3, PagesListing
<1>7. CASE c # Absent
  <2>1. NextPage /\ c = out.body[Len(out.body)]
    BY <1>7
  <2>2. req.op = "history" /\ out.ttl = "short" /\ out.body # <<>>
    BY <2>1, NextPageFacts
  <2>. HIDE DEF c
  <2>3. Base' = pages /\ SoFar' = pages /\ (still' => still)
    BY <1>2, <1>5, <1>7 DEF GhostInv
  <2>4. ASSUME still, step = "idle" PROVE PagingInv'
    <3>. DEFINE k == Len(pages)
                W == Whole
                P == InPool
                C == ChainScan(-1)
    <3>1. /\ Begins(pages) /\ k >= 1 /\ k \in Nat /\ c = pages[k]
      BY <1>2, <1>3, <2>1, <2>2, <2>4 DEF PagesInv, AnswerInv
    <3>2. /\ Len(W) = Len(P) + Len(C) /\ Len(P) \in Nat /\ Len(C) \in Nat
          /\ \A i \in 1..Len(P) : W[i] \in Pool
          /\ \A i \in 1..Len(C) : W[Len(P) + i] = C[i] /\ C[i] \notin Pool
      BY <2>4, WholeFacts DEF Distinct
    <3>3. c = W[k] /\ k <= Len(W)
      BY <3>1 DEF Begins
    <3>. HIDE DEF W, P, C, k
    <3>4. c \in Pool => k <= Len(P)
      <4>. SUFFICES ASSUME k > Len(P) PROVE c \notin Pool
        BY <3>1, <3>2
      <4>1. k - Len(P) \in 1..Len(C) /\ Len(P) + (k - Len(P)) = k
        BY <3>1, <3>2, <3>3
      <4>. QED  BY <3>2, <3>3, <4>1
    <3>5. c \notin Pool => k > Len(P)
      <4>. SUFFICES ASSUME k <= Len(P) PROVE c \in Pool
        BY <3>1, <3>2
      <4>1. k \in 1..Len(P)
        BY <3>1, <3>2
      <4>. QED  BY <3>2, <3>3, <4>1
    <3>6. /\ place' = "poolpage" => Len(Base') <= Len(InPool')
          /\ place' = "findchain" => Len(Base') > Len(InPool')
          /\ place' \in {"poolpage", "findchain"}
      BY <1>2, <1>4, <1>7, <2>3, <3>4, <3>5 DEF k, P
    <3>7. Begins(SoFar)' /\ req'.arg = pages'[Len(pages')] /\ Len(pages') >= 1
      BY <1>2, <1>4, <2>3, <3>1 DEF Begins, k
    <3>. QED  BY <3>6, <3>7 DEF PagingInv
  <2>. QED  BY <1>3, <1>4, <2>3, <2>4, PagesListing
<1>. QED  BY <1>6, <1>7

(* A read of the handler that keeps what the client has.                   *)
LEMMA PagesRead ==
    ASSUME PagesInv, place \in Listing, place' \in Listing, UNCHANGED <<backend, pages, ghosts>>, req' = req,
           PagingInv /\ step = "idle" /\ req.op = "history" => PagingInv'
    PROVE  PagesInv'
<1>1. pages' \in Seq(Txs) /\ still' = still /\ step' = step
  BY DEF PagesInv, ghosts, backend
<1>2. still' /\ step' = "idle" /\ req'.op = "history" => PagingInv'
  BY <1>1 DEF PagesInv
<1>. QED  BY <1>1, <1>2, PagesListing

LEMMA PagesFailed ==
    ASSUME NEW body, Answer(req, Absent, body), pages' \in Seq(Txs)
    PROVE  PagesInv'
<1>1. place' = "idle" /\ (out' = [ttl |-> Absent, body |-> body] \/ out' = NoAnswer)
  BY AnswerFacts
<1>2. out'.ttl # "short"
  BY <1>1 DEF NoAnswer, Absent
<1>. QED  BY <1>1, <1>2, PagesElsewhere DEF Listing

LEMMA PagesFind ==
    ASSUME WriterInv, PagesInv, ListInv, SessionInv, FindChain
    PROVE  PagesInv'
<1>0. Formed
  BY DEF SessionInv, Formed
<1>1. place = "findchain" /\ UNCHANGED <<backend, pages, ghosts>>
  BY <1>0, FindChainFacts
<1>2. CASE Answer(req, Absent, 422)
  BY <1>1, <1>2, PagesFailed DEF PagesInv
<1>3. CASE /\ place' = "chainscan" /\ req' = req
           /\ loc'.got = loc.got /\ loc'.seen = loc.seen /\ loc'.todo = <<req.arg>>
           /\ \E b \in Confirming(req.arg) : loc'.height = Height[b]
  <2>1. loc.got = <<>> /\ loc.seen = <<>>
    BY <1>1 DEF ListInv, Listing
  <2>2. PICK b \in Confirming(req.arg) : loc'.height = Height[b]
    BY <1>3
  <2>3. ASSUME PagingInv, step = "idle", req.op = "history" PROVE PagingInv'
    <3>1. conf = ConfRows(Chain[best])
      BY <2>3 DEF WriterInv, StoreInv, Stored
    <3>2. b \in Chain[best] /\ req.arg \in TxsOf(b)
      BY <2>2, <3>1, ConfirmingFacts
    <3>3. best' = best /\ InPool' = InPool /\ Whole' = Whole /\ Base' = Base /\ SoFar' = SoFar /\ pages' = pages
      BY <1>1, <1>3, SameLists DEF Base, SoFar
    <3>4. \E c \in Chain[best'] : Height[c] = loc'.height /\ req'.arg \in TxsOf(c)
      BY <1>3, <2>2, <3>2, <3>3
    <3>5. Len(Base') > Len(InPool')
      BY <1>1, <2>3, <3>3 DEF PagingInv
    <3>6. Begins(SoFar)'
      BY <2>3, <3>3 DEF PagingInv, Begins
    <3>. QED  BY <1>3, <2>1, <2>3, <3>3, <3>4, <3>5, <3>6 DEF PagingInv
  <2>4. place \in Listing /\ place' \in Listing
    BY <1>1, <1>3 DEF Listing
  <2>. QED  BY <1>1, <1>3, <2>3, <2>4, PagesRead
<1>. QED  BY <1>0, <1>2, <1>3, FindChainFacts

LEMMA PagesPool ==
    ASSUME WriterInv, PagesInv, ListInv, SessionInv, PoolPage
    PROVE  PagesInv'
<1>0. Formed
  BY DEF SessionInv, Formed
<1>1. /\ place = "poolpage" /\ UNCHANGED <<backend, pages, ghosts>>
      /\ place' = "chainscan" /\ req' = req /\ loc'.got = PoolHistory(req.arg, PageSize)
      /\ loc'.seen = loc.seen /\ loc'.todo = loc.todo /\ loc'.height = loc.height
  BY <1>0, PoolPageFacts
<1>2. loc.got = <<>> /\ loc.seen = <<>> /\ loc.todo = <<Absent>> /\ loc.height = -1 /\ pages \in Seq(Txs)
  BY <1>1 DEF ListInv, Listing, PagesInv
<1>3. ASSUME PagingInv, step = "idle", req.op = "history" PROVE PagingInv'
  <2>. DEFINE b == Base
              P == InPool
              W == Whole
              k == Len(Base)
              u == SkipTo(InPool, req.arg)
              g == PoolHistory(req.arg, MaxTxs)
  <2>1. /\ b \in Seq(Txs) /\ k \in Nat /\ SoFar = b
    BY <1>2, SoFarType, EmptySeq
  <2>2. /\ Distinct(P) /\ W \in Seq(Txs) /\ Len(P) \in Nat /\ Len(W) \in Nat /\ Len(P) <= Len(W)
        /\ \A i \in 1..Len(P) : W[i] = P[i]
    BY <1>3, WholeFacts DEF Distinct
  <2>3. k <= Len(P) /\ Starts(b, W)
    BY <1>1, <1>3, <2>1, BeginsIs DEF PagingInv
  <2>4. After(u, P, k)
    <3>1. CASE req.arg = Absent
      <4>1. k = 0
        BY <3>1 DEF Base
      <4>. QED  BY <2>2, <3>1, <4>1, SkipNothing
    <3>2. CASE req.arg # Absent
      <4>1. b = pages /\ k >= 1 /\ req.arg = b[k]
        BY <1>3, <3>2 DEF Base, PagingInv
      <4>. HIDE DEF b, P, W, k
      <4>2. k \in 1..Len(P) /\ Len(b) = k
        BY <2>1, <2>2, <2>3, <4>1 DEF k, b
      <4>3. req.arg = P[k]
        BY <2>2, <2>3, <4>1, <4>2 DEF Starts
      <4>4. After(SkipTo(P, P[k]), P, k)
        BY <2>2, <4>2, SkipCursor
      <4>. QED  BY <4>3, <4>4 DEF P
    <3>. QED  BY <3>1, <3>2
  <2>5. MaxTxs \in Nat /\ PageSize = MaxTxs
    BY <1>3, PageSizeFacts, ReaderAssumption
  <2>6. g \in Seq(Txs) /\ Starts(g, u) /\ (Len(g) = MaxTxs \/ g = u)
    BY <2>5, PoolHistoryFacts
  <2>7. loc'.got = g /\ Base' = b /\ InPool' = P /\ Whole' = W /\ best' = best /\ pages' = pages
    BY <1>1, <2>5, SameLists DEF Base
  <2>8. SoFar' = b \o g
    <3>1. SoFar' = b \o (g \o <<>>)
      BY <1>1, <1>2, <2>7 DEF SoFar
    <3>. HIDE DEF b, g
    <3>2. g \o <<>> = g
      BY <2>6, ConcatEmptySeq
    <3>. QED  BY <3>1, <3>2
  <2>9. Full' <=> Len(g) + 0 >= MaxTxs
    BY <1>1, <1>2, <2>7 DEF Full
  <2>10. Len(b) = k
    OBVIOUS
  <2>. HIDE DEF b, P, W, k, u, g
  <2>11. /\ Len(g) \in Nat /\ Len(u) = Len(P) - k /\ Len(g) <= Len(u)
    BY <2>4, <2>6 DEF After, Starts
  <2>12. \A i \in 1..Len(g) : g[i] = W[k + i]
    <3>. SUFFICES ASSUME NEW i \in 1..Len(g) PROVE g[i] = W[k + i]
      OBVIOUS
    <3>1. i \in 1..Len(u) /\ k + i \in 1..Len(P)
      BY <2>1, <2>2, <2>3, <2>11
    <3>. QED  BY <2>2, <2>4, <2>6, <3>1 DEF After, Starts
  <2>13. k + Len(g) <= Len(W)
    BY <2>1, <2>2, <2>11
  <2>14. Starts(b \o g, W) /\ Len(b \o g) = k + Len(g)
    BY <2>2, <2>3, <2>6, <2>10, <2>12, <2>13, Grows
  <2>15. Len(g) = MaxTxs \/ Len(b \o g) = Len(P)
    <3>1. g = u => Len(g) = Len(P) - k
      BY <2>11
    <3>2. g = u => k + Len(g) = Len(P)
      BY <2>1, <2>2, <2>11, <3>1
    <3>. QED  BY <2>6, <2>14, <3>2, Zenon
  <2>16. Begins(SoFar)'
    BY <2>7, <2>8, <2>14 DEF Begins, Starts
  <2>17. Full' \/ Len(SoFar') = Len(InPool')
    BY <2>5, <2>7, <2>8, <2>9, <2>11, <2>15
  <2>18. req'.arg # Absent => Len(pages') >= 1 /\ req'.arg = pages'[Len(pages')]
    BY <1>1, <1>3, <2>7 DEF PagingInv
  <2>. QED  BY <1>1, <1>2, <2>16, <2>17, <2>18 DEF PagingInv
<1>4. place \in Listing /\ place' \in Listing
  BY <1>1 DEF Listing
<1>. QED  BY <1>1, <1>3, <1>4, PagesRead

LEMMA PagesScan ==
    ASSUME WriterInv, PagesInv, ListInv, SessionInv, ChainPage
    PROVE  PagesInv'
<1>0. Formed
  BY DEF SessionInv, Formed
<1>1. /\ place = "chainscan" /\ UNCHANGED <<backend, pages, ghosts>>
      /\ place' = "chainrows" /\ req' = req
      /\ loc'.got = loc.got /\ loc'.seen = loc.seen
      /\ \/ Len(loc.got) < PageSize /\ loc'.todo = SkipTo(ChainScan(loc.height), Head(loc.todo))
         \/ ~(Len(loc.got) < PageSize) /\ loc'.todo = <<>>
  BY <1>0, ChainPageFacts
<1>2. loc.got \in Seq(Txs) /\ loc.seen = <<>> /\ <<>> \in Seq(Txs) /\ pages \in Seq(Txs)
  BY <1>1, EmptySeq DEF ListInv, Listing, PagesInv
<1>3. ASSUME PagingInv, step = "idle", req.op = "history" PROVE PagingInv'
  <2>. DEFINE s == SoFar
              P == InPool
              W == Whole
              C == ChainScan(-1)
              u == loc'.todo
              k == Len(SoFar)
  <2>1. /\ s \in Seq(Txs) /\ k \in Nat /\ Len(Base) \in Nat /\ Len(loc.got) \in Nat
        /\ loc.got = <<>> => s = Base
    BY <1>2, SoFarType
  <2>2. /\ Distinct(P) /\ Distinct(C) /\ W \in Seq(Txs) /\ Len(P) \in Nat /\ Len(W) \in Nat /\ Len(C) \in Nat
        /\ Len(W) = Len(P) + Len(C)
        /\ \A i \in 1..Len(C) : W[Len(P) + i] = C[i] /\ C[i] \in Touching
    BY <1>3, WholeFacts DEF Distinct
  <2>3. Starts(s, W)
    BY <1>3, <2>1, BeginsIs DEF PagingInv
  <2>4. SoFar' = s /\ InPool' = P /\ Whole' = W /\ pages' = pages
    BY <1>1, SameLists DEF Base, SoFar
  <2>5. MaxTxs \in Nat /\ MaxTxs >= 1 /\ PageSize = MaxTxs
    BY <1>3, PageSizeFacts, ReaderAssumption
  <2>6. Len(loc.seen) = 0 /\ (Full <=> Len(loc.got) + 0 >= MaxTxs) /\ Full' = Full
    BY <1>1, <1>2 DEF Full
  <2>7. CASE Full
    <3>1. Begins(SoFar)'
      BY <1>3, <2>4 DEF PagingInv, Begins
    <3>. QED  BY <1>1, <1>3, <2>4, <2>6, <2>7, <3>1 DEF PagingInv
  <2>8. CASE ~Full
    <3>1. u = SkipTo(ChainScan(loc.height), Head(loc.todo))
      BY <1>1, <2>1, <2>5, <2>6, <2>8
    <3>2. /\ u \in Seq(Txs) /\ k >= Len(P) /\ k + Len(u) = Len(W)
          /\ \A i \in 1..Len(u) : u[i] = W[k + i]
      <4>1. CASE loc.todo = <<Absent>> /\ loc.height = -1 /\ (Full \/ k = Len(P))
        <5>1. u = C
          BY <3>1, <4>1 DEF SkipTo
        <5>2. k = Len(P)
          BY <2>8, <4>1
        <5>. HIDE DEF u, C, P, W, k
        <5>. QED  BY <2>2, <5>1, <5>2 DEF Distinct
      <4>2. CASE /\ loc.todo = <<req.arg>> /\ Len(Base) > Len(P) /\ loc.got = <<>>
                 /\ \E b \in Chain[best] : Height[b] = loc.height /\ req.arg \in TxsOf(b)
        <5>. DEFINE D == ChainScan(loc.height)
                    m == Len(D)
                    n == Len(C)
                    a == req.arg
        <5>1. PICK b \in Chain[best] : Height[b] = loc.height /\ a \in TxsOf(b)
          BY <4>2
        <5>2. best \in Blocks /\ history = HistRows(Chain[best])
          BY <1>3, ReaderAssumption DEF WriterInv, BranchInv, StoreInv, Historic
        <5>3. b \in Blocks /\ Height[b] \in Nat
          BY <5>1, <5>2, Branches
        <5>4. /\ D \in Seq(Txs) /\ IsInjective(D) /\ Range(D) = ScriptTxs(best, loc.height)
              /\ m \in 0..n /\ \A i \in 1..m : C[n - m + i] = D[i]
          BY <5>1, <5>2, <5>3, ScanFacts, ScanSegment
        <5>5. k = Len(Base) /\ k > Len(P) /\ s = Base
          BY <2>1, <4>2
        <5>6. u = SkipTo(D, a)
          BY <3>1, <4>2
        <5>7. a = s[k]
          <6>1. a # Absent => a = pages[Len(pages)] /\ s = pages
            BY <1>3, <5>5 DEF PagingInv, Base
          <6>2. a # Absent
            BY <2>2, <5>5 DEF Base
          <6>. QED  BY <6>1, <6>2
        <5>8. Len(s) = k
          OBVIOUS
        <5>13. loc.height \in Nat
          BY <5>1, <5>3
        <5>. HIDE DEF s, P, W, C, u, k, D, m, n, a
        <5>9. k - Len(P) \in 1..n /\ Len(P) + (k - Len(P)) = k /\ a = W[k]
          BY <2>1, <2>2, <2>3, <5>5, <5>7, <5>8 DEF Starts, n
        <5>10. a = C[k - Len(P)] /\ a \in Touching
          BY <2>2, <5>9 DEF n
        <5>11. a \in Range(D)
          BY <5>1, <5>4, <5>10, <5>13 DEF ScriptTxs
        <5>12. PICK j \in 1..m : D[j] = a
          BY <5>4, <5>11 DEF Range, m
        <5>14. m \in Nat /\ n \in Nat /\ m <= n /\ j \in Nat /\ j >= 1 /\ j <= m
          BY <2>2, <5>4, <5>12 DEF n
        <5>15. n - m + j \in 1..n /\ C[n - m + j] = C[k - Len(P)]
          BY <5>4, <5>10, <5>12, <5>14
        <5>16. n - m + j = k - Len(P)
          BY <2>2, <5>9, <5>15 DEF Distinct, IsInjective, n
        <5>17. Distinct(D) /\ After(SkipTo(D, D[j]), D, j)
          BY <5>4, <5>12, SkipCursor DEF Distinct, m
        <5>18. After(u, D, j)
          BY <5>6, <5>12, <5>17
        <5>19. u \in Seq(Txs) /\ Len(u) = m - j /\ \A i \in 1..Len(u) : u[i] = D[j + i]
          BY <5>18 DEF After, m
        <5>20. Len(u) \in Nat /\ k + Len(u) = Len(W)
          BY <2>1, <2>2, <5>14, <5>16, <5>19 DEF n
        <5>21. ASSUME NEW i \in 1..Len(u) PROVE u[i] = W[k + i]
          <6>. DEFINE p == Len(P)
          <6>0. p \in Nat /\ k \in Nat /\ i \in Nat /\ i >= 1 /\ i <= m - j /\ n - m + j = k - p
            BY <2>1, <2>2, <5>14, <5>16, <5>19, <5>21
          <6>. HIDE DEF p
          <6>1. j + i \in 1..m /\ n - m + (j + i) \in 1..n /\ p + (n - m + (j + i)) = k + i
            BY <5>14, <6>0
          <6>2. u[i] = D[j + i]
            BY <5>19, <5>21
          <6>3. D[j + i] = C[n - m + (j + i)]
            BY <5>4, <6>1
          <6>4. C[n - m + (j + i)] = W[p + (n - m + (j + i))]
            BY <2>2, <6>1 DEF n, p
          <6>. QED  BY <6>1, <6>2, <6>3, <6>4
        <5>22. k >= Len(P)
          BY <2>1, <2>2, <5>5
        <5>. QED  BY <5>19, <5>20, <5>21, <5>22
      <4>. QED  BY <1>1, <1>3, <4>1, <4>2 DEF PagingInv
    <3>3. Len(s) = k
      OBVIOUS
    <3>4. s \o u = W
      <4>. HIDE DEF s, u, W, k
      <4>1. Len(s) + Len(u) <= Len(W)
        BY <2>2, <3>2, <3>3
      <4>. QED  BY <2>2, <2>3, <3>2, <3>3, <4>1, Grows
    <3>5. SoFar' \o loc'.todo = Whole' /\ Len(SoFar') >= Len(InPool')
      BY <2>4, <3>2, <3>4
    <3>6. Begins(SoFar)'
      BY <1>3, <2>4 DEF PagingInv, Begins
    <3>. QED  BY <1>1, <1>3, <2>4, <3>5, <3>6 DEF PagingInv
  <2>. QED  BY <2>7, <2>8
<1>4. place \in Listing /\ place' \in Listing
  BY <1>1 DEF Listing
<1>. QED  BY <1>1, <1>3, <1>4, PagesRead

LEMMA PagesRow ==
    ASSUME WriterInv, PagesInv, ListInv, SessionInv, ChainRow
    PROVE  PagesInv'
<1>0. Formed
  BY DEF SessionInv, Formed
<1>1. /\ place = "chainrows" /\ UNCHANGED <<backend, pages, ghosts>> /\ req' = req /\ loc'.got = loc.got
      /\ \/ /\ loc.todo = <<>> \/ Len(loc.got) + Len(loc.seen) >= PageSize
            /\ place' = "rowtxs" /\ loc' = loc
         \/ /\ loc.todo # <<>> /\ ~(Len(loc.got) + Len(loc.seen) >= PageSize)
            /\ place' = "chainrows" /\ loc'.todo = Tail(loc.todo)
            /\ \/ Confirming(Head(loc.todo)) = {} /\ loc'.seen = loc.seen
               \/ Confirming(Head(loc.todo)) # {} /\ loc'.seen = Append(loc.seen, Head(loc.todo))
  BY <1>0, ChainRowFacts
<1>2. loc.got \in Seq(Txs) /\ loc.seen \in Seq(Txs) /\ loc.todo \in Seq(Txs) /\ pages \in Seq(Txs)
  BY <1>1 DEF ListInv, Listing, PagesInv
<1>3. ASSUME PagingInv, step = "idle", req.op = "history" PROVE PagingInv'
  <2>. DEFINE s == SoFar
              t == loc.todo
              P == InPool
              W == Whole
              C == ChainScan(-1)
              k == Len(SoFar)
  <2>1. s \in Seq(Txs) /\ t \in Seq(Txs) /\ k \in Nat
    <3>1. s \in Seq(Txs) /\ Len(s) = k
      BY <1>2, SoFarType
    <3>2. t \in Seq(Txs)
      BY <1>2
    <3>. HIDE DEF s, t, k
    <3>. QED  BY <3>1, <3>2
  <2>2. InPool' = P /\ Whole' = W /\ pages' = pages /\ Base' = Base /\ PageSize = MaxTxs
    BY <1>1, <1>3, SameLists, PageSizeFacts DEF Base
  <2>3. Full \/ (s \o t = W /\ k >= Len(P))
    BY <1>1, <1>3 DEF PagingInv
  <2>4. CASE place' = "rowtxs" /\ loc' = loc /\ (loc.todo = <<>> \/ Full)
    <3>1. SoFar' = s /\ Full' = Full
      BY <2>2, <2>4 DEF SoFar, Full
    <3>4. place' = "rowtxs" /\ req' = req /\ pages' = pages
      BY <1>1, <2>2, <2>4
    <3>2. ~Full => s = W
      <4>1. ~Full => s \o <<>> = W
        BY <2>3, <2>4
      <4>. HIDE DEF s, W
      <4>. QED  BY <2>1, <4>1, ConcatEmptySeq
    <3>3. Begins(SoFar)'
      BY <1>3, <2>2, <3>1 DEF PagingInv, Begins
    <3>5. Full' \/ SoFar' = Whole'
      BY <2>2, <3>1, <3>2
    <3>. QED  BY <1>3, <3>3, <3>4, <3>5 DEF PagingInv
  <2>5. CASE /\ loc.todo # <<>> /\ ~Full /\ place' = "chainrows" /\ loc'.todo = Tail(loc.todo)
             /\ \/ Confirming(Head(loc.todo)) = {}
                \/ loc'.seen = Append(loc.seen, Head(loc.todo))
    <3>. DEFINE x == Head(t)
    <3>1. /\ Len(W) = Len(P) + Len(C) /\ Len(P) \in Nat /\ Len(C) \in Nat /\ W \in Seq(Txs)
          /\ \A i \in 1..Len(C) : W[Len(P) + i] = C[i] /\ Confirming(C[i]) # {}
      BY <1>3, WholeFacts DEF Distinct
    <3>2. s \o t = W /\ k >= Len(P) /\ t # <<>>
      BY <2>3, <2>5
    <3>3. Len(s) = k
      OBVIOUS
    <3>4. Confirming(x) # {}
      <4>. HIDE DEF s, t, W, P, C, k
      <4>1. /\ Len(t) \in Nat /\ Len(t) >= 1 /\ x = t[1]
        BY <2>1, <3>2, HeadTailProperties, EmptySeq
      <4>2. /\ Len(W) = k + Len(t)
            /\ \A i \in 1..(k + Len(t)) : W[i] = IF i <= k THEN s[i] ELSE t[i - k]
        BY <2>1, <3>2, <3>3, ConcatProperties
      <4>3. k + 1 \in 1..(k + Len(t)) /\ ~(k + 1 <= k) /\ (k + 1) - k = 1
        BY <2>1, <4>1
      <4>4. W[k + 1] = x
        BY <4>1, <4>2, <4>3
      <4>. DEFINE i == (k + 1) - Len(P)
      <4>5. i \in 1..Len(C) /\ Len(P) + i = k + 1
        BY <2>1, <3>1, <3>2, <4>1, <4>2
      <4>. QED  BY <3>1, <4>4, <4>5
    <3>5. loc'.seen = Append(loc.seen, x)
      BY <2>5, <3>4
    <3>6. SoFar' = Append(s, x) /\ x \in Txs
      <4>. DEFINE b == Base
                  g == loc.got
                  e == loc.seen
      <4>1. b \in Seq(Txs) /\ g \in Seq(Txs) /\ e \in Seq(Txs) /\ s = b \o (g \o e)
        BY <1>2, SoFarType DEF SoFar
      <4>2. SoFar' = b \o (g \o Append(e, x))
        BY <1>1, <2>2, <3>5 DEF SoFar
      <4>. HIDE DEF b, g, e, s, t
      <4>3. x \in Txs
        BY <2>1, <3>2, Moved
      <4>. HIDE DEF x
      <4>4. <<x>> \in Seq(Txs) /\ g \o e \in Seq(Txs)
        BY <4>1, <4>3
      <4>5. Append(e, x) = e \o <<x>> /\ Append(s, x) = s \o <<x>>
        BY <2>1, <4>1, <4>3, AppendIsConcat
      <4>. DEFINE y == <<x>>
                  h == g \o e
      <4>8. y \in Seq(Txs) /\ h \in Seq(Txs)
        BY <4>4
      <4>. HIDE DEF y, h
      <4>9. Regrouped(g, e, y) /\ Regrouped(b, h, y)
        BY <4>1, <4>8, Regroup
      <4>6. g \o (e \o <<x>>) = (g \o e) \o <<x>>
        BY <4>9 DEF Regrouped, y
      <4>7. b \o ((g \o e) \o <<x>>) = (b \o (g \o e)) \o <<x>>
        BY <4>9 DEF Regrouped, y, h
      <4>. QED  BY <4>1, <4>2, <4>3, <4>5, <4>6, <4>7
    <3>7. /\ SoFar' \o loc'.todo = Whole' /\ SoFar' \in Seq(Txs) /\ loc'.todo \in Seq(Txs)
          /\ Len(SoFar') >= Len(InPool')
      <4>1. loc'.todo = Tail(t)
        BY <2>5
      <4>. HIDE DEF s, t, W, P, k
      <4>2. Append(s, x) \in Seq(Txs) /\ Tail(t) \in Seq(Txs) /\ Append(s, x) \o Tail(t) = s \o t
        BY <2>1, <3>2, Moved
      <4>3. Len(Append(s, x)) = k + 1
        BY <2>1, <3>3, <3>6, AppendProperties
      <4>4. k + 1 >= Len(P)
        BY <2>1, <3>1, <3>2
      <4>. QED  BY <2>2, <3>2, <3>6, <4>1, <4>2, <4>3, <4>4
    <3>8. Begins(SoFar)'
      <4>. DEFINE v == SoFar'
                  u == loc'.todo
      <4>1. v \in Seq(Txs) /\ u \in Seq(Txs) /\ v \o u = Whole'
        BY <3>7
      <4>. HIDE DEF v, u
      <4>2. Starts(v, v \o u)
        BY <4>1, StartsPart
      <4>. QED  BY <4>1, <4>2 DEF Begins, Starts, v
    <3>. QED  BY <1>1, <1>3, <2>2, <2>5, <3>7, <3>8 DEF PagingInv
  <2>6. Full <=> Len(loc.got) + Len(loc.seen) >= PageSize
    BY <2>2 DEF Full
  <2>. QED  BY <1>1, <2>4, <2>5, <2>6
<1>4. place \in Listing /\ place' \in Listing
  BY <1>1 DEF Listing
<1>. QED  BY <1>1, <1>3, <1>4, PagesRead

(* At rest every transaction of the history has its previous outputs.      *)
LEMMA WholePrevouts ==
    ASSUME WriterInv, step = "idle", NEW i \in 1..Len(Whole)
    PROVE  Whole[i] \in WithPrevouts
<1>1. /\ best \in Moves \cup {Start} /\ best \in Blocks /\ Pool = Unconfirmed /\ Pool \subseteq Known /\ Known \subseteq Txs
      /\ stored = TxRows(Chain[best]) /\ conf = ConfRows(Chain[best]) /\ Stored = Chain[best]
  BY ReaderAssumption DEF WriterInv, BranchInv, PoolInv, StoreInv, Stored
<1>. DEFINE P == InPool
            C == ChainScan(-1)
            W == Whole
<1>2. /\ Len(W) = Len(P) + Len(C) /\ Len(P) \in Nat /\ Len(C) \in Nat
      /\ \A n \in 1..Len(P) : W[n] \in Pool
      /\ \A n \in 1..Len(C) : W[Len(P) + n] = C[n] /\ Confirming(C[n]) # {}
  BY WholeFacts DEF Distinct
<1>3. ASSUME NEW t \in Pool PROVE t \in WithPrevouts
  <2>1. t \in Known /\ t \in Txs
    BY <1>1
  <2>2. ASSUME NEW o \in Spends[t] PROVE o[1] \in stored \cup Pool
    <3>1. CASE o[1] \in Known
      <4>1. o[1] \in Unconfirmed \/ \E c \in Chain[best] : o[1] \in TxsOf(c)
        BY <3>1 DEF Unconfirmed
      <4>. QED  BY <1>1, <4>1 DEF TxRows
    <3>2. CASE \E c \in Chain[best] : o[1] \in TxsOf(c)
      BY <1>1, <3>2 DEF TxRows
    <3>. QED  BY <1>1, <2>1, <3>1, <3>2, KnownAssumption
  <2>. QED  BY <2>1, <2>2 DEF WithPrevouts
<1>4. ASSUME NEW t, Confirming(t) # {} PROVE t \in WithPrevouts
  <2>1. Confirming(t) = {b \in Chain[best] \cap Chain[best] : t \in TxsOf(b)}
    BY <1>1, ConfirmingFacts
  <2>2. PICK b \in Stored : t \in TxsOf(b)
    BY <1>1, <1>4, <2>1
  <2>. QED  BY <2>2, StoredPrevouts
<1>5. i \in 1..Len(W)
  OBVIOUS
<1>. HIDE DEF P, C, W
<1>6. CASE i <= Len(P)
  <2>1. i \in 1..Len(P)
    BY <1>2, <1>5, <1>6
  <2>2. W[i] \in WithPrevouts
    BY <1>2, <1>3, <2>1
  <2>. QED  BY <2>2 DEF W
<1>7. CASE ~(i <= Len(P))
  <2>1. i - Len(P) \in 1..Len(C) /\ Len(P) + (i - Len(P)) = i
    BY <1>2, <1>5, <1>7
  <2>2. W[i] \in WithPrevouts
    BY <1>2, <1>4, <2>1
  <2>. QED  BY <2>2 DEF W
<1>. QED  BY <1>6, <1>7

LEMMA PagesTake ==
    ASSUME PagesInv, ListInv, PlaceInv, RowTxs
    PROVE  PagesInv'
<1>1. place = "rowtxs" /\ UNCHANGED <<backend, still>>
  BY RowTxsFacts
<1>2. pages \in Seq(Txs) /\ <<>> \in Seq(Txs)
  BY EmptySeq DEF PagesInv
<1>3. CASE Answer(req, Absent, 400) /\ pages' = <<>>
  BY <1>2, <1>3, PagesFailed
<1>4. CASE place' = "prepare" /\ loc' = loc /\ req' = req /\ pages' = pages
  <2>1. step' = step /\ InPool' = InPool /\ Whole' = Whole
    BY <1>1, SameLists
  <2>2. Base' = Base /\ SoFar' = SoFar /\ Full' = Full
    BY <1>4 DEF Base, SoFar, Full
  <2>3. ASSUME PagingInv PROVE PagingInv'
    <3>1. Begins(SoFar)'
      BY <2>1, <2>2, <2>3 DEF PagingInv, Begins
    <3>2. Full' \/ SoFar' = Whole'
      BY <1>1, <2>1, <2>2, <2>3 DEF PagingInv
    <3>. QED  BY <1>4, <2>3, <3>1, <3>2 DEF PagingInv
  <2>4. still' /\ step' = "idle" /\ req'.op = "history" => PagingInv'
    BY <1>1, <1>4, <2>1, <2>3 DEF PagesInv, Listing
  <2>. QED  BY <1>2, <1>4, <2>4, PagesListing DEF Listing
<1>. QED  BY <1>3, <1>4, RowTxsFacts

(* Nothing is filtered out of a page of a quiet history.                   *)
LEMMA NothingFiltered ==
    ASSUME WriterInv, step = "idle", pages \in Seq(Txs), loc.got \in Seq(Txs), loc.seen \in Seq(Txs), Begins(SoFar)
    PROVE  Prepared(loc.got \o loc.seen) = loc.got \o loc.seen
<1>. DEFINE b == Base
            u == loc.got \o loc.seen
            v == SoFar
            W == Whole
<1>1. b \in Seq(Txs) /\ u \in Seq(Txs) /\ v = b \o u
  BY SoFarType DEF SoFar
<1>2. Len(v) <= Len(W) /\ \A n \in 1..Len(v) : v[n] = W[n]
  BY DEF Begins
<1>3. \A n \in 1..Len(W) : W[n] \in WithPrevouts
  BY WholePrevouts
<1>4. Len(W) \in Nat
  BY WholeFacts DEF Distinct
<1>. HIDE DEF b, u, v, W
<1>5. /\ Len(v) = Len(b) + Len(u) /\ Len(b) \in Nat /\ Len(u) \in Nat
      /\ \A n \in 1..(Len(b) + Len(u)) : v[n] = IF n <= Len(b) THEN b[n] ELSE u[n - Len(b)]
  BY <1>1, ConcatProperties
<1>6. ASSUME NEW n \in 1..Len(u) PROVE u[n] \in WithPrevouts
  <2>1. /\ Len(b) + n \in 1..(Len(b) + Len(u)) /\ ~(Len(b) + n <= Len(b)) /\ (Len(b) + n) - Len(b) = n
        /\ Len(b) + n \in 1..Len(W)
    BY <1>2, <1>4, <1>5
  <2>2. v[Len(b) + n] = u[n]
    BY <1>5, <2>1
  <2>3. v[Len(b) + n] = W[Len(b) + n]
    BY <1>2, <1>5, <2>1
  <2>. QED  BY <1>3, <2>1, <2>2, <2>3
<1>7. DOMAIN u = 1..Len(u)
  BY <1>1
<1>8. Range(u) \subseteq WithPrevouts
  BY <1>6, <1>7 DEF Range
<1>9. Sifted(u, WithPrevouts) = u
  BY <1>1, <1>8, SiftedAll
<1>. QED  BY <1>9 DEF Prepared, u

LEMMA PagesAnswer ==
    ASSUME WriterInv, PagesInv, ListInv, PlaceInv, PrepareTxs
    PROVE  PagesInv'
<1>. DEFINE body == Prepared(loc.got \o loc.seen)
<1>1. /\ place = "prepare" /\ UNCHANGED <<backend, ghosts>> /\ Answer(req, "short", body)
      /\ req.op = "whole" => pages' = <<>>
      /\ req.op # "whole" => pages' = Base \o body
  BY PrepareTxsFacts
<1>2. loc.got \in Seq(Txs) /\ loc.seen \in Seq(Txs) /\ pages \in Seq(Txs) /\ <<>> \in Seq(Txs)
  BY <1>1, EmptySeq DEF ListInv, Listing, PagesInv
<1>3. /\ SoFar \in Seq(Txs) /\ Base \in Seq(Txs) /\ loc.got \o loc.seen \in Seq(Txs)
      /\ Len(loc.got) \in Nat /\ Len(loc.seen) \in Nat /\ Len(loc.got \o loc.seen) = Len(loc.got) + Len(loc.seen)
  BY <1>2, SoFarType
<1>4. body \in Seq(Txs)
  <2>. DEFINE u == loc.got \o loc.seen
  <2>1. u \in Seq(Txs)
    BY <1>3
  <2>. HIDE DEF u
  <2>2. Sifted(u, WithPrevouts) \in Seq(Txs)
    BY <2>1, SiftedRange
  <2>. QED  BY <2>2 DEF Prepared, u
<1>5. req.op \in {"history", "whole"}
  BY <1>1 DEF PlaceInv, Listing
<1>6. place' = "idle" /\ req' = req /\ out' = [ttl |-> "short", body |-> body]
  <2>. HIDE DEF body
  <2>. QED  BY <1>1, <1>5, AnswerFacts DEF Remembered
<1>7. CASE req.op = "whole"
  <2>1. pages' \in Seq(Txs)
    BY <1>1, <1>2, <1>7
  <2>. QED  BY <1>6, <1>7, <2>1, PagesElsewhere DEF Listing
<1>8. CASE req.op = "history"
  <2>1. pages' = Base \o body /\ out'.body = body
    BY <1>1, <1>6, <1>8
  <2>2. pages' \in Seq(Txs)
    <3>. DEFINE b == Base
    <3>1. b \in Seq(Txs) /\ pages' = b \o body
      BY <1>3, <2>1
    <3>. HIDE DEF b, body
    <3>. QED  BY <1>4, <3>1, ConcatProperties
  <2>3. step' = step /\ still' = still /\ Whole' = Whole
    BY <1>1, SameLists DEF ghosts
  <2>4. ASSUME still, step = "idle" PROVE AnswerInv'
    <3>1. PagingInv
      BY <1>1, <1>8, <2>4 DEF PagesInv, Listing
    <3>2. body = loc.got \o loc.seen
      BY <1>2, <2>4, <3>1, NothingFiltered DEF PagingInv
    <3>3. pages' = SoFar /\ Len(body) = Len(loc.got) + Len(loc.seen)
      BY <1>3, <2>1, <3>2 DEF SoFar
    <3>4. Begins(pages)'
      BY <2>3, <3>1, <3>3 DEF PagingInv, Begins
    <3>5. body = <<>> => pages' = Whole'
      <4>1. body = <<>> => ~Full
        <5>1. MaxTxs \in Nat /\ MaxTxs >= 1
          BY ReaderAssumption
        <5>2. Full <=> Len(body) >= MaxTxs
          BY <3>3 DEF Full
        <5>. HIDE DEF body
        <5>. QED  BY <5>1, <5>2
      <4>. HIDE DEF body
      <4>. QED  BY <1>1, <2>3, <3>1, <3>3, <4>1 DEF PagingInv
    <3>6. body # <<>> => Len(pages') >= 1 /\ body[Len(body)] = pages'[Len(pages')]
      <4>. DEFINE b == Base
                  v == b \o body
      <4>1. b \in Seq(Txs) /\ body \in Seq(Txs) /\ pages' = v
        BY <1>3, <1>4, <2>1
      <4>. HIDE DEF b, body
      <4>2. /\ Len(v) = Len(b) + Len(body) /\ Len(b) \in Nat /\ Len(body) \in Nat
            /\ \A i \in 1..(Len(b) + Len(body)) : v[i] = IF i <= Len(b) THEN b[i] ELSE body[i - Len(b)]
        BY <4>1, ConcatProperties
      <4>. HIDE DEF v
      <4>3. body # <<>> => Len(body) >= 1
        BY <4>1, <4>2, EmptySeq
      <4>. DEFINE i == Len(b) + Len(body)
      <4>4. body # <<>> => i \in 1..(Len(b) + Len(body)) /\ ~(i <= Len(b)) /\ i - Len(b) = Len(body) /\ i >= 1
        BY <4>2, <4>3
      <4>. HIDE DEF i
      <4>5. body # <<>> => v[i] = body[Len(body)]
        BY <4>2, <4>4
      <4>6. Len(v) = i
        BY <4>2 DEF i
      <4>. QED  BY <4>1, <4>4, <4>5, <4>6
    <3>. HIDE DEF body
    <3>. QED  BY <2>1, <3>4, <3>5, <3>6 DEF AnswerInv
  <2>5. out'.body \in Seq(Txs)
    BY <1>4, <2>1
  <2>6. place' \notin Listing
    BY <1>6 DEF Listing
  <2>. HIDE DEF body
  <2>. QED  BY <2>2, <2>3, <2>4, <2>5, <2>6 DEF PagesInv
<1>. QED  BY <1>5, <1>7, <1>8

LEMMA PagesStep ==
    ASSUME PagesInv, ListInv, SessionInv, PlaceInv, WriterInv, GhostInv, [RestNext]_restVars
    PROVE  PagesInv'
<1>0. pages \in Seq(Txs)
  BY DEF PagesInv
<1>1. CASE MainLoop
  <2>1. UNCHANGED <<place, loc, req, out, pages>> /\ ~still'
    BY <1>1, LoopOutside DEF session
  <2>. QED  BY <2>1 DEF PagesInv
<1>2. CASE UNCHANGED restVars
  <2>1. UNCHANGED <<backend, place, loc, req, out, pages, still>>
    BY <1>2 DEF restVars, session, ghosts
  <2>2. UNCHANGED <<best, step, InPool, Whole>>
    BY <2>1, SameLists
  <2>3. UNCHANGED <<Base, SoFar, Full>>
    BY <2>1 DEF Base, SoFar, Full
  <2>4. UNCHANGED PagingInv
    BY <2>1, <2>2, <2>3 DEF PagingInv, Begins
  <2>5. UNCHANGED AnswerInv
    BY <2>1, <2>2 DEF AnswerInv, Begins
  <2>. QED  BY <2>1, <2>2, <2>4, <2>5 DEF PagesInv
<1>3. CASE PlainAsks \/ PlainHandler
  <2>1. /\ place' \notin Listing \cup Unspending /\ (place' = "idle" => req'.op = Absent)
        /\ UNCHANGED <<backend, pages>>
    BY <1>3, PlainLeaves
  <2>. QED  BY <1>0, <2>1, PagesElsewhere DEF Absent
<1>4. CASE History("whole", Absent)
  <2>1. req'.op = "whole" /\ place' \in {"poolpage", "findchain"} /\ pages' = pages
    BY <1>4, HistoryFacts
  <2>. QED  BY <1>0, <2>1, PagesListing DEF Listing
<1>5. CASE Utxo
  <2>1. place' \in Unspending /\ pages' = pages
    BY <1>5, UtxoFacts DEF Unspending
  <2>. QED  BY <1>0, <2>1, PagesElsewhere DEF Listing, Unspending
<1>6. CASE UtxoHandler
  <2>1. place \in Unspending
    BY <1>6, UtxoAnswers
  <2>2. req.op = "utxo"
    BY <2>1 DEF PlaceInv
  <2>3. pages' = pages
    <3>1. CASE UtxoRow
      BY <3>1 DEF UtxoRow, Resumed
    <3>2. CASE UtxoHeight \/ UtxoScan \/ UtxoSave \/ UtxoPool
      BY <3>2 DEF UtxoHeight, UtxoScan, UtxoSave, UtxoPool, Resumed
    <3>. QED  BY <1>6, <3>1, <3>2 DEF UtxoHandler
  <2>4. ASSUME NEW ttl, NEW body, Answer(req, ttl, body) PROVE PagesInv'
    <3>1. place' = "idle" /\ (req' = req \/ req' = NoRequest)
      BY <2>4, AnswerFacts
    <3>2. req'.op # "history"
      BY <2>2, <3>1 DEF NoRequest, Absent
    <3>. QED  BY <1>0, <2>3, <3>1, <3>2, PagesElsewhere DEF Listing
  <2>5. ASSUME NEW l, NEW label \in Unspending, Accept(req, label, l) PROVE PagesInv'
    <3>1. place' \in Unspending
      BY <2>5, AcceptFacts
    <3>. QED  BY <1>0, <2>3, <3>1, PagesElsewhere DEF Listing, Unspending
  <2>. QED  BY <1>6, <2>4, <2>5, UtxoAnswers
<1>. QED  BY <1>1, <1>2, <1>3, <1>4, <1>5, <1>6, StepKinds,
             PagesAsk, PagesFind, PagesPool, PagesScan, PagesRow, PagesTake, PagesAnswer DEF ListHandler

-----------------------------------------------------------------------------
LEMMA RestInvInit == RestInit => RestInv
<1>. SUFFICES ASSUME RestInit PROVE RestInv
  OBVIOUS
<1>1. /\ place = "idle" /\ req.op = Absent /\ always = {} /\ pages = <<>>
  BY DEF RestInit, NoRequest
<1>2. KeepInv
  BY KeepInit
<1>3. <<>> \in Seq(Txs)
  BY EmptySeq
<1>4. ListInv /\ UtxoInv
  <2>1. ucache = {}
    BY DEF RestInit
  <2>2. CacheInv
    BY <2>1 DEF CacheInv
  <2>3. QueryInv
    BY <1>1 DEF QueryInv, Unspending
  <2>4. UtxoExact
    BY <1>1 DEF UtxoExact, UtxoAnswered, Absent
  <2>. QED  BY <1>1, <2>2, <2>3, <2>4 DEF ListInv, Listing, UtxoInv
<1>5. WholeInv
  BY <1>1 DEF WholeInv, NothingOverlooked, Absent
<1>6. PagesInv
  BY <1>1, <1>3 DEF PagesInv, Listing, Absent
<1>. QED  BY <1>2, <1>4, <1>5, <1>6 DEF RestInv

(* Whatever the main loop does meanwhile: a first page that is not full    *)
(* before prepare_txs filters it overlooks no transaction that was in view *)
(* all along with its previous outputs; the pages of a quiet history give  *)
(* each transaction once and in order, and the filter takes none of them   *)
(* away; and the unspent outputs of a quiet request are exactly those      *)
(* there are, whether it starts from nothing or from the U row that        *)
(* earlier requests left at any block, unless a rollback met one of them.  *)
THEOREM ScriptsAnsweredExactly == RestSpec => []ScriptAnswersExact
<1>1. RestInit => RestInv
  BY RestInvInit
<1>2. RestInv /\ [RestNext]_restVars => RestInv'
  BY KeepStep, ListStep, WholeStep, PagesStep, UtxoStep DEF RestInv, KeepInv
<1>3. RestInv => ScriptAnswersExact
  <2>. SUFFICES ASSUME RestInv PROVE ScriptAnswersExact
    OBVIOUS
  <2>1. NothingOverlooked /\ UtxoExact
    BY DEF RestInv, WholeInv, UtxoInv
  <2>2. PagesComplete
    BY DEF RestInv, PagesInv, AnswerInv, PagesComplete, Whole, InPool
  <2>. QED  BY <2>1, <2>2 DEF ScriptAnswersExact
<1>. QED  BY <1>1, <1>2, <1>3, PTL DEF RestSpec

=============================================================================
