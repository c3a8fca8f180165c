---------------------------- MODULE ServerProofs ----------------------------
(***************************************************************************)
(* Theorems about three parts of the server: the header list (Headers),    *)
(* for every block tree, every chunk size and any number of                *)
(* reorganisations and restarts; the cached answers of stats               *)
(* (ScriptCache), however the query overlaps the updates of the index; and *)
(* the process and its end (Shutdown), for any number of client threads,   *)
(* requests, outages and signals, whether or not bitcoind and Electrum     *)
(* come to an end.                                                         *)
(***************************************************************************)
EXTENDS ScriptCache, Headers, Shutdown, FiniteSetTheorems, SequenceTheorems,
        WellFoundedInduction, TLAPS

(* The header list.                                                        *)

(* What is used of the constants: bitcoind has a best block, and a chunk   *)
(* of get_all_headers is not empty.                                        *)
SyncConstants == FirstBest \in Blocks /\ ChunkHeaders \in Nat \ {0}

(* The work of a branch grows with every block.                            *)
WorkGrows ==
    /\ Work \in [Blocks -> Nat]
    /\ \A b \in Blocks : \A a \in Chain[b] \ {b} : Work[a] < Work[b]

(* The list is the path to its tip, and the heights map, which also keeps  *)
(* blocks that were rolled back, is right about every block it knows.      *)
ListInv ==
    /\ tip \in Blocks \cup {NoBlock}
    /\ headers = Path(tip)
    /\ DOMAIN heights \subseteq Blocks /\ Chain[tip] \subseteq DOMAIN heights
    /\ heights = [b \in DOMAIN heights |-> Height[b]]

(* The fetched headers are the last ones of the branch of the target.      *)
ToTarget ==
    \A i \in 1..Len(fetched) :
        /\ fetched[i] \in Chain[target]
        /\ Height[fetched[i]] = Height[target] - Len(fetched) + i

FetchInv ==
    /\ best \in Blocks /\ pc \in {"idle", "all", "walk", "apply"}
    /\ ended \in {"no", "error", "panic"}
    /\ target \in Blocks \cup {NoBlock} /\ (pc # "idle" => target \in Blocks)
    /\ fetched \in Seq(Blocks) /\ hashes \in Seq(Blocks)
    /\ pc = "all" => tip = NoBlock
    /\ pc \in {"walk", "apply"} /\ fetched # <<>> => ToTarget /\ target \notin Chain[tip]
    /\ pc = "apply" /\ fetched # <<>> => Parent[fetched[1]] \in Chain[tip] \cup {NoBlock}

HeadersInv == ListInv /\ FetchInv

-----------------------------------------------------------------------------
(* Lemmas about the block tree and the paths in it.                        *)

(* A set of heights has a smallest one: its segments 0..n are finite sets, *)
(* ordered by strict inclusion.                                            *)
LEMMA LeastNat ==
    ASSUME NEW T, T \subseteq Nat, T # {}
    PROVE  \E x \in T : \A y \in T : x <= y
<1>. DEFINE I == {0..n : n \in T}
<1>0. \A n \in Nat : IsFiniteSet(0..n) /\ 0..n \in SUBSET Nat
  BY FS_Interval
<1>1. I \subseteq FiniteSubsetsOf(Nat) /\ I # {}
  BY <1>0 DEF FiniteSubsetsOf
<1>2. \E s \in I : \A t \in I : ~(<<t, s>> \in StrictSubsetOrdering(Nat))
  <2>. HIDE DEF I
  <2>. QED  BY <1>1, WFMin, FS_StrictSubsetOrderingWellFounded
<1>3. PICK x \in T : \A y \in T : ~(<<0..y, 0..x>> \in StrictSubsetOrdering(Nat))
  BY <1>2
<1>4. ASSUME NEW y \in T, y < x PROVE FALSE
  <2>1. 0..y \subseteq 0..x /\ x \notin 0..y /\ x \in 0..x
    BY <1>4
  <2>. QED  BY <1>0, <1>3, <2>1 DEF StrictSubsetOrdering
<1>. QED  BY <1>4

(* A branch has a block at every height up to its tip: take the lowest tip *)
(* of a branch that has none at height h.                                  *)
LEMMA BlockAtHeight ==
    ASSUME NEW b \in Blocks, NEW h \in 0..Height[b]
    PROVE  \E a \in Chain[b] : Height[a] = h
<1>. DEFINE Bad == {n \in Nat : \E c \in Blocks : Height[c] = n /\ ~\E a \in Chain[c] : Height[a] = h}
<1>. DEFINE T == {n \in Bad : n >= h}
<1>. SUFFICES ASSUME T # {} PROVE FALSE
  BY TreeAssumption
<1>1. PICK n \in T : \A m \in T : n <= m
  BY LeastNat
<1>2. PICK c \in Blocks : Height[c] = n /\ ~\E a \in Chain[c] : Height[a] = h
  BY <1>1
<1>3. n # h
  BY <1>2, TreeAssumption
<1>4. Parent[c] \in Blocks /\ Height[Parent[c]] = n - 1 /\ n - 1 >= h
  BY <1>1, <1>2, <1>3, TreeAssumption, HeightAssumption
<1>5. ~\E a \in Chain[Parent[c]] : Height[a] = h
  BY <1>2, TreeAssumption
<1>6. n - 1 \in T
  BY <1>1, <1>4, <1>5
<1>. QED BY <1>1, <1>6

LEMMA TreeFacts ==
    ASSUME NEW b \in Blocks
    PROVE  /\ b \in Chain[b] /\ Chain[b] \subseteq Blocks
           /\ Height[b] \in Nat
           /\ \A a \in Chain[b] : Height[a] \in 0..Height[b]
           /\ \A a, c \in Chain[b] : Height[a] = Height[c] => a = c
           /\ Parent[b] # NoBlock => /\ Parent[b] \in Chain[b] /\ Parent[b] \in Blocks
                                     /\ Height[b] = Height[Parent[b]] + 1
           /\ Parent[b] = NoBlock => Height[b] = 0 /\ Chain[b] = {b}
BY TreeAssumption, HeightAssumption

(* AtHeight picks the one block of a branch at a height.                   *)
LEMMA AtFacts ==
    ASSUME NEW b \in Blocks, NEW h \in 0..Height[b]
    PROVE  /\ AtHeight(b, h) \in Chain[b] /\ Height[AtHeight(b, h)] = h
           /\ \A c \in Chain[b] : Height[c] = h => c = AtHeight(b, h)
<1>1. AtHeight(b, h) \in Chain[b] /\ Height[AtHeight(b, h)] = h
  BY BlockAtHeight DEF AtHeight
<1>. QED  BY <1>1, TreeFacts

(* Branches agree below a block they share.                                *)
LEMMA SharedBelow ==
    ASSUME NEW a \in Blocks, NEW b \in Blocks, NEW p \in Chain[a] \cap Chain[b],
           NEW h \in 0..Height[p]
    PROVE  AtHeight(a, h) = AtHeight(b, h)
<1>1. p \in Blocks /\ Chain[p] \subseteq Chain[a] /\ Chain[p] \subseteq Chain[b]
  BY TreeAssumption
<1>2. AtHeight(p, h) \in Chain[p] /\ Height[AtHeight(p, h)] = h
  BY <1>1, AtFacts
<1>3. h \in 0..Height[a] /\ h \in 0..Height[b]
  BY <1>1, <1>2, TreeFacts
<1>. QED  BY <1>1, <1>2, <1>3, AtFacts

LEMMA BranchShape ==
    ASSUME NEW b \in Blocks, NEW m \in Nat, NEW n \in Nat, n <= Height[b], m <= n + 1
    PROVE  /\ Branch(b, m, n) \in Seq(Blocks)
           /\ Len(Branch(b, m, n)) = n - m + 1
           /\ \A i \in 1..(n - m + 1) : Branch(b, m, n)[i] = AtHeight(b, m + i - 1)
<1>1. \A i \in 1..(n - m + 1) : AtHeight(b, m + i - 1) \in Blocks
  <2>. SUFFICES ASSUME NEW i \in 1..(n - m + 1) PROVE AtHeight(b, m + i - 1) \in Blocks
    OBVIOUS
  <2>1. m + i - 1 \in 0..Height[b]
    BY TreeFacts
  <2>. QED  BY <2>1, AtFacts, TreeFacts
<1>2. n - m + 1 \in Nat
  OBVIOUS
<1>. QED  BY <1>1, <1>2 DEF Branch

LEMMA PathShape ==
    ASSUME NEW b \in Blocks
    PROVE  /\ Path(b) \in Seq(Blocks) /\ Len(Path(b)) = Height[b] + 1
           /\ \A i \in 1..(Height[b] + 1) : Path(b)[i] = AtHeight(b, i - 1)
           /\ Path(b) # <<>> /\ Last(Path(b)) = b
<1>1. Height[b] \in Nat /\ b # NoBlock
  BY TreeFacts, TreeAssumption
<1>2. /\ Path(b) \in Seq(Blocks) /\ Len(Path(b)) = Height[b] + 1
      /\ \A i \in 1..(Height[b] + 1) : Path(b)[i] = AtHeight(b, i - 1)
  <2>1. Path(b) = Branch(b, 0, Height[b])
    BY <1>1 DEF Path
  <2>2. /\ Branch(b, 0, Height[b]) \in Seq(Blocks)
        /\ Len(Branch(b, 0, Height[b])) = Height[b] - 0 + 1
        /\ \A i \in 1..(Height[b] - 0 + 1) : Branch(b, 0, Height[b])[i] = AtHeight(b, 0 + i - 1)
    <3>1. 0 \in Nat /\ Height[b] <= Height[b] /\ 0 <= Height[b] + 1
      BY <1>1
    <3>. QED  BY <1>1, <3>1, BranchShape, Zenon
  <2>3. \A i \in 1..(Height[b] + 1) : Branch(b, 0, Height[b])[i] = AtHeight(b, i - 1)
    <3>. SUFFICES ASSUME NEW i \in 1..(Height[b] + 1)
                  PROVE  Branch(b, 0, Height[b])[i] = AtHeight(b, i - 1)
      OBVIOUS
    <3>1. i \in 1..(Height[b] - 0 + 1) /\ 0 + i - 1 = i - 1
      BY <1>1
    <3>. QED  BY <2>2, <3>1
  <2>. QED  BY <1>1, <2>1, <2>2, <2>3
<1>3. AtHeight(b, Height[b]) = b
  BY <1>1, TreeFacts, AtFacts
<1>. QED  BY <1>1, <1>2, <1>3 DEF Last

(* header_by_blockhash finds exactly the blocks of the branch.             *)
LEMMA OnList ==
    ASSUME ListInv, NEW c \in Blocks
    PROVE  header_by_blockhash(headers, heights, c) <=> c \in Chain[tip]
<1>1. CASE tip = NoBlock
  <2>1. headers = <<>> /\ Chain[tip] = {}
    BY <1>1, TreeAssumption DEF ListInv, Path
  <2>2. c \in DOMAIN heights => heights[c] \in Nat
    BY TreeAssumption DEF ListInv
  <2>. QED  BY <2>1, <2>2 DEF header_by_blockhash
<1>2. CASE tip \in Blocks
  <2>1. /\ Len(headers) = Height[tip] + 1
        /\ \A i \in 1..(Height[tip] + 1) : headers[i] = AtHeight(tip, i - 1)
    BY <1>2, PathShape DEF ListInv
  <2>2. Height[c] \in Nat /\ Height[tip] \in Nat
    BY <1>2, TreeFacts
  <2>3. c \in DOMAIN heights => heights[c] = Height[c]
    BY DEF ListInv
  <2>4. ASSUME header_by_blockhash(headers, heights, c) PROVE c \in Chain[tip]
    <3>1. Height[c] + 1 \in 1..(Height[tip] + 1) /\ headers[Height[c] + 1] = c
      BY <2>1, <2>2, <2>3, <2>4 DEF header_by_blockhash
    <3>2. c = AtHeight(tip, Height[c]) /\ Height[c] \in 0..Height[tip]
      BY <2>1, <2>2, <3>1
    <3>. QED  BY <1>2, <3>2, AtFacts
  <2>5. ASSUME c \in Chain[tip] PROVE header_by_blockhash(headers, heights, c)
    <3>1. Height[c] \in 0..Height[tip] /\ c = AtHeight(tip, Height[c])
      BY <1>2, <2>5, TreeFacts, AtFacts
    <3>2. Height[c] + 1 \in 1..(Height[tip] + 1) /\ (Height[c] + 1) - 1 = Height[c]
      BY <2>2, <3>1
    <3>3. headers[Height[c] + 1] = c
      BY <2>1, <3>1, <3>2
    <3>4. c \in DOMAIN heights
      BY <2>5 DEF ListInv
    <3>. QED  BY <2>1, <2>2, <2>3, <3>1, <3>3, <3>4 DEF header_by_blockhash
  <2>. QED  BY <2>4, <2>5
<1>. QED  BY <1>1, <1>2 DEF ListInv

(* The assertions of get_all_headers: linked headers from genesis to the   *)
(* target are its branch.  Heights are right from the first one on, and    *)
(* ancestry from the last one back.                                        *)
LEMMA LinkedIsBranch ==
    ASSUME target \in Blocks, fetched \in Seq(Blocks), Len(fetched) = Height[target] + 1,
           Linked(fetched), Parent[fetched[1]] = NoBlock, Last(fetched) = target
    PROVE  ToTarget
<1>. DEFINE N == Len(fetched)
<1>1. N \in Nat /\ N >= 1 /\ \A i \in 1..N : fetched[i] \in Blocks
  BY TreeFacts
<1>2. \A i \in 2..N : Parent[fetched[i]] = fetched[i - 1]
  BY DEF Linked
<1>3. \A i \in 1..N : Height[fetched[i]] = i - 1
  <2>. DEFINE T == {i \in 1..N : Height[fetched[i]] # i - 1}
  <2>. SUFFICES ASSUME T # {} PROVE FALSE
    OBVIOUS
  <2>1. PICK i \in T : \A j \in T : i <= j
    <3>1. T \subseteq Nat
      BY <1>1
    <3>. HIDE DEF T
    <3>. QED  BY <3>1, LeastNat
  <2>2. i # 1
    <3>1. fetched[1] \in Blocks /\ Height[fetched[1]] = 0
      BY <1>1, TreeFacts
    <3>. QED  BY <2>1, <3>1
  <2>3. i \in 2..N /\ i - 1 \in 1..N /\ i - 1 \notin T
    BY <1>1, <2>1, <2>2
  <2>4. Parent[fetched[i]] = fetched[i - 1] /\ fetched[i - 1] \in Blocks
    BY <1>1, <1>2, <2>3
  <2>5. Height[fetched[i]] = Height[fetched[i - 1]] + 1
    BY <1>1, <2>3, <2>4, TreeFacts, TreeAssumption
  <2>6. Height[fetched[i - 1]] = (i - 1) - 1
    BY <2>3
  <2>. QED  BY <2>3, <2>5, <2>6
<1>4. \A i \in 1..N : fetched[i] \in Chain[target]
  <2>. DEFINE T == {k \in 0..(N - 1) : fetched[N - k] \notin Chain[target]}
  <2>. SUFFICES ASSUME T # {} PROVE FALSE
    <3>. SUFFICES ASSUME NEW i \in 1..N PROVE fetched[i] \in Chain[target]
      OBVIOUS
    <3>1. N - i \in 0..(N - 1) /\ N - (N - i) = i
      BY <1>1
    <3>. QED  BY <3>1
  <2>1. PICK k \in T : \A j \in T : k <= j
    <3>1. T \subseteq Nat
      BY <1>1
    <3>. HIDE DEF T
    <3>. QED  BY <3>1, LeastNat
  <2>2. k # 0
    BY <1>1, TreeFacts DEF Last
  <2>3. k - 1 \in 0..(N - 1) /\ k - 1 \notin T
    BY <1>1, <2>1, <2>2
  <2>4. N - (k - 1) \in 2..N /\ (N - (k - 1)) - 1 = N - k
    BY <1>1, <2>2
  <2>5. fetched[N - (k - 1)] \in Chain[target] /\ fetched[N - (k - 1)] \in Blocks
    BY <1>1, <2>3, <2>4
  <2>6. Parent[fetched[N - (k - 1)]] = fetched[N - k] /\ fetched[N - k] \in Blocks
    BY <1>1, <1>2, <2>4
  <2>7. fetched[N - k] \in Chain[fetched[N - (k - 1)]]
    BY <2>5, <2>6, TreeFacts, TreeAssumption
  <2>. QED  BY <2>5, <2>7, TreeAssumption
<1>5. \A i \in 1..N : Height[target] - N + i = i - 1
  BY <1>1, TreeFacts
<1>. QED  BY <1>3, <1>4, <1>5 DEF ToTarget

LEMMA BranchIsLinked ==
    ASSUME target \in Blocks, fetched \in Seq(Blocks), fetched # <<>>, ToTarget
    PROVE  /\ Linked(fetched) /\ Last(fetched) = target
           /\ Height[fetched[1]] = Height[target] - Len(fetched) + 1 /\ fetched[1] \in Blocks
<1>1. Len(fetched) \in Nat /\ Len(fetched) >= 1 /\ \A i \in 1..Len(fetched) : fetched[i] \in Blocks
  OBVIOUS
<1>2. Last(fetched) = target
  <2>1. Last(fetched) \in Chain[target] /\ Height[Last(fetched)] = Height[target]
    BY <1>1, TreeFacts DEF ToTarget, Last
  <2>. QED  BY <2>1, TreeFacts
<1>3. ASSUME NEW i \in 2..Len(fetched) PROVE Parent[fetched[i]] = fetched[i - 1]
  <2>1. /\ fetched[i] \in Chain[target] /\ fetched[i - 1] \in Chain[target]
        /\ Height[fetched[i]] = Height[target] - Len(fetched) + i
        /\ Height[fetched[i - 1]] = Height[target] - Len(fetched) + (i - 1)
    BY <1>1 DEF ToTarget
  <2>2. Height[fetched[i - 1]] \in Nat /\ Height[fetched[i]] = Height[fetched[i - 1]] + 1
    BY <1>1, <2>1, TreeFacts
  <2>3. Parent[fetched[i]] # NoBlock
    BY <1>1, <2>2, TreeFacts
  <2>4. /\ Parent[fetched[i]] \in Chain[fetched[i]]
        /\ Height[Parent[fetched[i]]] = Height[fetched[i - 1]]
    BY <1>1, <2>2, <2>3, TreeFacts
  <2>. QED  BY <2>1, <2>4, TreeFacts, TreeAssumption
<1>. QED  BY <1>1, <1>2, <1>3 DEF Linked, ToTarget

-----------------------------------------------------------------------------
(* order and apply.                                                        *)

LEMMA OrderIsHeight ==
    ASSUME HeadersInv, pc = "apply", fetched # <<>>
    PROVE  order(headers, heights, fetched) = Height[fetched[1]]
<1>1. fetched[1] \in Blocks
  BY DEF HeadersInv, FetchInv
<1>2. CASE Parent[fetched[1]] = NoBlock
  BY <1>1, <1>2, TreeFacts DEF order
<1>3. CASE Parent[fetched[1]] # NoBlock
  <2>1. Parent[fetched[1]] \in Chain[tip] /\ Parent[fetched[1]] \in Blocks
    BY <1>1, <1>3, TreeFacts DEF HeadersInv, FetchInv
  <2>2. header_by_blockhash(headers, heights, Parent[fetched[1]])
    BY <2>1, OnList DEF HeadersInv
  <2>3. heights[Parent[fetched[1]]] = Height[Parent[fetched[1]]]
    BY <2>1 DEF HeadersInv, ListInv
  <2>. QED  BY <1>1, <1>3, <2>2, <2>3, TreeFacts DEF order
<1>. QED  BY <1>2, <1>3

(* The kept prefix and the new headers are the path to the target.         *)
LEMMA NewPath ==
    ASSUME HeadersInv, pc = "apply", fetched # <<>>
    PROVE  SubSeq(headers, 1, Height[fetched[1]]) \o fetched = Path(target)
<1>. DEFINE h == Height[fetched[1]]
            kept == SubSeq(headers, 1, h)
<1>1. /\ target \in Blocks /\ fetched \in Seq(Blocks) /\ fetched[1] \in Blocks
      /\ Len(fetched) \in Nat /\ h \in Nat /\ Height[target] \in Nat
      /\ fetched[1] \in Chain[target]
      /\ h = Height[target] - Len(fetched) + 1
  BY BranchIsLinked, TreeFacts DEF HeadersInv, FetchInv, ToTarget
<1>2. /\ kept \in Seq(Blocks) /\ Len(kept) = h
      /\ \A i \in 1..h : kept[i] = AtHeight(target, i - 1)
  <2>1. CASE h = 0
    <3>1. kept = <<>>
      BY <2>1, SubSeqEmpty
    <3>. QED  BY <2>1, <3>1
  <2>2. CASE h # 0
    <3>. DEFINE p == Parent[fetched[1]]
    <3>1. p \in Blocks /\ p \in Chain[fetched[1]] /\ Height[p] = h - 1
      BY <1>1, <2>2, TreeFacts
    <3>2. tip \in Blocks /\ p \in Chain[tip] /\ p \in Chain[target]
      BY <1>1, <3>1, TreeAssumption DEF HeadersInv, ListInv, FetchInv
    <3>3. /\ headers \in Seq(Blocks) /\ Len(headers) = Height[tip] + 1
          /\ \A i \in 1..(Height[tip] + 1) : headers[i] = AtHeight(tip, i - 1)
      BY <3>2, PathShape DEF HeadersInv, ListInv
    <3>4. Height[tip] \in Nat /\ h - 1 <= Height[tip]
      BY <3>1, <3>2, TreeFacts
    <3>5. \A i \in 1..h : headers[i] = AtHeight(target, i - 1) /\ headers[i] \in Blocks
      <4>. SUFFICES ASSUME NEW i \in 1..h
                    PROVE  headers[i] = AtHeight(target, i - 1) /\ headers[i] \in Blocks
        OBVIOUS
      <4>1. i \in 1..(Height[tip] + 1) /\ i - 1 \in 0..Height[p]
        BY <1>1, <3>1, <3>4
      <4>2. AtHeight(tip, i - 1) = AtHeight(target, i - 1)
        BY <1>1, <3>2, <4>1, SharedBelow
      <4>. QED  BY <3>3, <4>1, <4>2
    <3>. QED  BY <1>1, <3>5, SubSeqProperties
  <2>. QED  BY <2>1, <2>2
<1>3. \A i \in 1..Len(fetched) : fetched[i] = AtHeight(target, h + i - 1)
  <2>. SUFFICES ASSUME NEW i \in 1..Len(fetched) PROVE fetched[i] = AtHeight(target, h + i - 1)
    OBVIOUS
  <2>1. fetched[i] \in Chain[target] /\ Height[fetched[i]] = h + i - 1
    BY <1>1 DEF HeadersInv, FetchInv, ToTarget
  <2>2. h + i - 1 \in 0..Height[target]
    BY <1>1
  <2>. QED  BY <1>1, <2>1, <2>2, AtFacts
<1>. HIDE DEF kept, h
<1>4. /\ kept \o fetched \in Seq(Blocks) /\ Len(kept \o fetched) = Height[target] + 1
      /\ \A i \in 1..(Height[target] + 1) :
            (kept \o fetched)[i] = IF i <= h THEN kept[i] ELSE fetched[i - h]
  <2>1. Len(kept) + Len(fetched) = Height[target] + 1
    BY <1>1, <1>2
  <2>2. /\ kept \o fetched \in Seq(Blocks)
        /\ Len(kept \o fetched) = Len(kept) + Len(fetched)
        /\ \A i \in 1..(Len(kept) + Len(fetched)) :
              (kept \o fetched)[i] = IF i <= Len(kept) THEN kept[i] ELSE fetched[i - Len(kept)]
    BY <1>1, <1>2, ConcatProperties
  <2>. QED  BY <1>2, <2>1, <2>2
<1>5. ASSUME NEW i \in 1..(Height[target] + 1)
      PROVE  (kept \o fetched)[i] = Path(target)[i]
  <2>1. Path(target)[i] = AtHeight(target, i - 1)
    BY <1>1, PathShape
  <2>2. CASE i <= h
    BY <1>1, <1>2, <1>4, <2>1, <2>2
  <2>3. CASE ~(i <= h)
    <3>1. i - h \in 1..Len(fetched) /\ h + (i - h) - 1 = i - 1
      <4>. DEFINE n == Len(fetched)
                  t == Height[target]
      <4>1. n \in Nat /\ h \in Nat /\ t \in Nat /\ h = t - n + 1 /\ i \in 1..(t + 1)
        BY <1>1
      <4>. HIDE DEF n, t
      <4>2. i - h \in 1..n /\ h + (i - h) - 1 = i - 1
        BY <2>3, <4>1
      <4>. QED  BY <4>2 DEF n
    <3>2. fetched[i - h] = AtHeight(target, i - 1)
      BY <1>3, <3>1
    <3>. QED  BY <1>4, <2>1, <2>3, <3>2
  <2>. QED  BY <2>2, <2>3
<1>6. kept \o fetched = Path(target)
  BY <1>1, <1>4, <1>5, PathShape, SeqEqual
<1>. QED  BY <1>6 DEF kept, h

(* apply enters every new header with its height, and forgets none.        *)
LEMMA NewHeights ==
    ASSUME HeadersInv, pc = "apply", fetched # <<>>,
           Apply(headers, heights, fetched, Height[fetched[1]])
    PROVE  /\ DOMAIN heights' = DOMAIN heights \cup ToSet(fetched)
           /\ heights' = [b \in DOMAIN heights' |-> Height[b]]
           /\ DOMAIN heights' \subseteq Blocks /\ Chain[target] \subseteq DOMAIN heights'
<1>. DEFINE h == Height[fetched[1]]
<1>1. /\ target \in Blocks /\ fetched \in Seq(Blocks) /\ fetched[1] \in Blocks
      /\ fetched[1] \in Chain[target] /\ Len(fetched) \in Nat /\ Len(fetched) >= 1
      /\ h \in Nat /\ Height[target] \in Nat /\ h = Height[target] - Len(fetched) + 1
  BY BranchIsLinked, TreeFacts DEF HeadersInv, FetchInv, ToTarget
<1>2. \A i \in 1..Len(fetched) : fetched[i] \in Chain[target] /\ Height[fetched[i]] = h + i - 1
  <2>. SUFFICES ASSUME NEW i \in 1..Len(fetched)
                PROVE  fetched[i] \in Chain[target] /\ Height[fetched[i]] = h + i - 1
    OBVIOUS
  <2>1. /\ fetched[i] \in Chain[target]
        /\ Height[fetched[i]] = Height[target] - Len(fetched) + i
    BY DEF HeadersInv, FetchInv, ToTarget
  <2>. HIDE DEF h
  <2>. QED  BY <1>1, <2>1
<1>3. ToSet(fetched) \subseteq Blocks
  BY <1>1 DEF ToSet
<1>4. ASSUME NEW b \in ToSet(fetched) PROVE HeightsFrom(fetched, h)[b] = Height[b]
  <2>. DEFINE k == CHOOSE i \in DOMAIN fetched : fetched[i] = b
  <2>1. k \in DOMAIN fetched /\ fetched[k] = b
    BY DEF ToSet
  <2>2. DOMAIN fetched = 1..Len(fetched)
    BY <1>1
  <2>3. Height[b] = h + k - 1
    BY <1>2, <2>1, <2>2
  <2>. QED  BY <2>3 DEF HeightsFrom
<1>5. heights' = [b \in DOMAIN heights \cup ToSet(fetched) |->
                    IF b \in ToSet(fetched) THEN HeightsFrom(fetched, h)[b] ELSE heights[b]]
  BY DEF Apply
<1>6. DOMAIN heights' = DOMAIN heights \cup ToSet(fetched)
  BY <1>5
<1>7. \A b \in DOMAIN heights' : heights'[b] = Height[b]
  <2>1. \A b \in DOMAIN heights : heights[b] = Height[b]
    BY DEF HeadersInv, ListInv
  <2>. QED  BY <1>4, <1>5, <2>1
<1>8. ASSUME NEW c \in Chain[target] PROVE c \in DOMAIN heights'
  <2>1. Height[c] \in 0..Height[target]
    BY <1>1, TreeFacts
  <2>2. CASE Height[c] >= h
    <3>1. Height[c] - h + 1 \in 1..Len(fetched) /\ h + (Height[c] - h + 1) - 1 = Height[c]
      <4>. DEFINE n == Len(fetched)
                  t == Height[target]
                  k == Height[c]
      <4>1. n \in Nat /\ h \in Nat /\ t \in Nat /\ h = t - n + 1 /\ k \in 0..t /\ k >= h
        BY <1>1, <2>1, <2>2
      <4>. HIDE DEF n, t, k, h
      <4>2. k - h + 1 \in 1..n /\ h + (k - h + 1) - 1 = k
        BY <4>1
      <4>. QED  BY <4>2 DEF n, k
    <3>2. fetched[Height[c] - h + 1] \in Chain[target] /\ Height[fetched[Height[c] - h + 1]] = Height[c]
      BY <1>2, <3>1
    <3>3. fetched[Height[c] - h + 1] = c
      BY <1>1, <3>2, TreeFacts
    <3>. QED  BY <1>1, <1>6, <3>1, <3>3 DEF ToSet
  <2>3. CASE Height[c] < h
    <3>. DEFINE p == Parent[fetched[1]]
    <3>1. p \in Blocks /\ p \in Chain[fetched[1]] /\ Height[p] = h - 1
      BY <1>1, <2>1, <2>3, TreeFacts
    <3>2. tip \in Blocks /\ p \in Chain[tip] /\ p \in Chain[target]
      BY <1>1, <3>1, TreeAssumption DEF HeadersInv, ListInv, FetchInv
    <3>3. Height[c] \in 0..Height[p]
      BY <1>1, <2>1, <2>3, <3>1
    <3>4. AtHeight(p, Height[c]) = c
      BY <1>1, <2>1, <3>1, <3>2, <3>3, SharedBelow, AtFacts, TreeFacts
    <3>5. c \in Chain[tip]
      BY <3>1, <3>2, <3>3, <3>4, AtFacts, TreeAssumption
    <3>. QED  BY <1>6, <3>5 DEF HeadersInv, ListInv
  <2>. QED  BY <1>1, <2>1, <2>2, <2>3
<1>9. DOMAIN heights' \subseteq Blocks
  BY <1>3, <1>6 DEF HeadersInv, ListInv
<1>. QED  BY <1>5, <1>6, <1>7, <1>8, <1>9

-----------------------------------------------------------------------------
LEMMA InvInit == SyncConstants /\ HeadersInit => HeadersInv
<1>. SUFFICES ASSUME SyncConstants, HeadersInit PROVE HeadersInv
  OBVIOUS
<1>1. ListInv
  BY TreeAssumption DEF HeadersInit, ListInv, Path
<1>2. FetchInv
  BY DEF HeadersInit, FetchInv, SyncConstants
<1>. QED  BY <1>1, <1>2 DEF HeadersInv

LEMMA ListKept ==
    ASSUME ListInv, UNCHANGED list
    PROVE  ListInv'
<1>1. headers' = headers /\ heights' = heights /\ tip' = tip
  BY DEF list
<1>. QED  BY <1>1 DEF ListInv, Path, Branch, AtHeight

LEMMA InvStep ==
    ASSUME SyncConstants, HeadersInv, [HeadersNext]_headersVars
    PROVE  HeadersInv'
<1>. USE DEF HeadersInv
<1>0. tip \in Blocks \cup {NoBlock} /\ Chain[tip] \subseteq Blocks
  BY TreeAssumption DEF ListInv
<1>1. ASSUME NEW b \in Blocks, Reorg(b) PROVE HeadersInv'
  BY <1>1, ListKept DEF Reorg, FetchInv, ToTarget, list
<1>2. CASE UpdateList
  <2>1. headers = <<>> => tip = NoBlock
    BY PathShape DEF ListInv
  <2>. QED  BY <1>2, <2>1, ListKept DEF UpdateList, FetchInv, list
<1>3. CASE ChunkHashes
  <2>. DEFINE m == Len(fetched)
              n == IF m + ChunkHeaders - 1 < Height[target] THEN m + ChunkHeaders - 1
                                                           ELSE Height[target]
  <2>1. target \in Blocks /\ Height[target] \in Nat /\ best \in Blocks
    BY <1>3, TreeFacts DEF ChunkHashes, FetchInv
  <2>2. m \in Nat /\ m <= Height[target] /\ n \in Nat /\ m <= n + 1
    BY <1>3, <2>1 DEF ChunkHashes, FetchInv, SyncConstants
  <2>3. n <= Height[best] => Branch(best, m, n) \in Seq(Blocks)
    <3>. HIDE DEF m, n
    <3>. QED  BY <2>1, <2>2, BranchShape
  <2>4. hashes' \in Seq(Blocks) /\ ended' \in {"no", "error", "panic"}
    <3>1. \/ n <= Height[best] /\ hashes' = Branch(best, m, n) /\ ended' = ended
          \/ hashes' = hashes /\ ended' = "error"
      BY <1>3 DEF ChunkHashes
    <3>. HIDE DEF m, n
    <3>2. hashes \in Seq(Blocks) /\ ended \in {"no", "error", "panic"}
      BY DEF FetchInv
    <3>. QED  BY <2>3, <3>1, <3>2, Zenon
  <2>. QED  BY <1>3, <2>4, ListKept DEF ChunkHashes, FetchInv, list
<1>4. CASE ChunkHeadersFetched
  BY <1>4, ListKept DEF ChunkHeadersFetched, FetchInv, list
<1>5. CASE AllFetched
  <2>1. CASE Linked(fetched) /\ Parent[fetched[1]] = NoBlock /\ Last(fetched) = target
    <3>1. ToTarget /\ target \notin Chain[tip]
      BY <1>5, <2>1, LinkedIsBranch, TreeAssumption DEF AllFetched, FetchInv
    <3>. QED  BY <1>5, <2>1, <3>1, ListKept DEF AllFetched, Checked, FetchInv, ToTarget, list
  <2>2. CASE ~(Linked(fetched) /\ Parent[fetched[1]] = NoBlock /\ Last(fetched) = target)
    BY <1>5, <2>2, ListKept DEF AllFetched, Checked, FetchInv, list
  <2>. QED  BY <2>1, <2>2
<1>6. CASE WalkBack
  <2>. DEFINE b == IF fetched = <<>> THEN target ELSE Parent[fetched[1]]
  <2>1. /\ target \in Blocks /\ fetched \in Seq(Blocks) /\ pc = "walk"
        /\ fetched # <<>> => ToTarget /\ target \notin Chain[tip]
        /\ UNCHANGED <<list, best, target, hashes, ended>>
    BY <1>6 DEF WalkBack, FetchInv
  <2>2. ListInv' /\ tip' = tip
    BY <2>1, ListKept DEF list
  <2>3. b \in Blocks \cup {NoBlock}
    BY <2>1, TreeAssumption
  <2>4. CASE b = NoBlock \/ header_by_blockhash(headers, heights, b)
    <3>1. pc' = "apply" /\ fetched' = fetched
      BY <1>6, <2>4 DEF WalkBack
    <3>2. fetched # <<>> => Parent[fetched[1]] \in Chain[tip] \cup {NoBlock}
      BY <2>3, <2>4, OnList
    <3>. QED  BY <2>1, <2>2, <3>1, <3>2 DEF FetchInv, ToTarget
  <2>5. CASE ~(b = NoBlock \/ header_by_blockhash(headers, heights, b))
    <3>1. pc' = "walk" /\ fetched' = <<b>> \o fetched
      BY <1>6, <2>1, <2>5 DEF WalkBack
    <3>2. b \in Blocks /\ b \notin Chain[tip]
      BY <2>3, <2>5, OnList
    <3>3. target \notin Chain[tip]
      BY <2>1, <3>2
    <3>. HIDE DEF b
    <3>4. /\ fetched' \in Seq(Blocks) /\ Len(fetched') = Len(fetched) + 1
          /\ \A i \in 1..(Len(fetched) + 1) : fetched'[i] = IF i = 1 THEN b ELSE fetched[i - 1]
      BY <2>1, <3>1, <3>2
    <3>5. b \in Chain[target] /\ Height[b] = Height[target] - Len(fetched)
      <4>1. CASE fetched = <<>>
        BY <2>1, <4>1, TreeFacts DEF b
      <4>2. CASE fetched # <<>>
        <5>1. /\ fetched[1] \in Blocks /\ fetched[1] \in Chain[target]
              /\ Height[fetched[1]] = Height[target] - Len(fetched) + 1
              /\ Len(fetched) \in Nat /\ Height[target] \in Nat
          BY <2>1, <4>2, BranchIsLinked, TreeFacts DEF ToTarget
        <5>2. b = Parent[fetched[1]] /\ b # NoBlock
          BY <2>5, <4>2 DEF b
        <5>3. b \in Chain[fetched[1]] /\ Height[fetched[1]] = Height[b] + 1 /\ Height[b] \in Nat
          BY <5>1, <5>2, TreeFacts
        <5>. QED  BY <2>1, <5>1, <5>3, TreeAssumption
      <4>. QED  BY <4>1, <4>2
    <3>6. ToTarget'
      <4>. SUFFICES ASSUME NEW i \in 1..(Len(fetched) + 1)
                    PROVE  /\ fetched'[i] \in Chain[target]
                           /\ Height[fetched'[i]] = Height[target] - (Len(fetched) + 1) + i
        BY <2>1, <3>4 DEF ToTarget
      <4>1. Len(fetched) \in Nat /\ Height[target] \in Nat
        BY <2>1, TreeFacts
      <4>2. CASE i = 1
        BY <3>4, <3>5, <4>1, <4>2
      <4>3. CASE i # 1
        <5>1. i - 1 \in 1..Len(fetched) /\ fetched # <<>>
          BY <2>1, <4>1, <4>3
        <5>2. /\ fetched[i - 1] \in Chain[target]
              /\ Height[fetched[i - 1]] = Height[target] - Len(fetched) + (i - 1)
          BY <2>1, <5>1 DEF ToTarget
        <5>3. fetched'[i] = fetched[i - 1]
          BY <3>4, <4>3
        <5>4. Height[target] - Len(fetched) + (i - 1) = Height[target] - (Len(fetched) + 1) + i
          BY <4>1
        <5>. QED  BY <5>2, <5>3, <5>4
      <4>. QED  BY <4>2, <4>3
    <3>. QED  BY <2>1, <2>2, <3>1, <3>3, <3>4, <3>6 DEF FetchInv
  <2>. QED  BY <2>4, <2>5
<1>7. CASE ApplyNew
  <2>. DEFINE h == IF fetched = <<>> THEN -1 ELSE order(headers, heights, fetched)
  <2>1. /\ pc = "apply" /\ UNCHANGED <<best, target, fetched, hashes>>
        /\ ended' \in {"no", "error", "panic"}
    BY <1>7 DEF ApplyNew, FetchInv
  <2>2. CASE fetched # <<>> /\ Linked(fetched) /\ h >= 0 /\ Last(fetched) = target
    <3>1. Apply(headers, heights, fetched, h) /\ pc' = "idle"
      BY <1>7, <2>2 DEF ApplyNew
    <3>2. h = Height[fetched[1]]
      BY <2>1, <2>2, OrderIsHeight
    <3>3. tip' = target /\ headers' = Path(target) /\ target \in Blocks
      BY <2>1, <2>2, <3>1, <3>2, NewPath DEF Apply, FetchInv
    <3>4. ListInv'
      BY <2>1, <2>2, <3>1, <3>2, <3>3, NewHeights DEF ListInv, Path, Branch, AtHeight
    <3>. QED  BY <2>1, <3>1, <3>3, <3>4 DEF FetchInv
  <2>3. CASE ~(fetched # <<>> /\ Linked(fetched) /\ h >= 0 /\ Last(fetched) = target)
    <3>1. UNCHANGED <<list, pc>>
      BY <1>7, <2>3 DEF ApplyNew
    <3>. QED  BY <2>1, <3>1, ListKept DEF FetchInv, ToTarget, list
  <2>. QED  BY <2>2, <2>3
<1>8. CASE OpenList
  <2>1. ListInv'
    BY <1>0, <1>8, TreeAssumption DEF OpenList, ListInv, Path, Branch, AtHeight
  <2>. QED  BY <1>8, <2>1 DEF OpenList, FetchInv
<1>9. CASE UNCHANGED headersVars
  BY <1>9, ListKept DEF headersVars, FetchInv, ToTarget, list
<1>. QED  BY <1>1, <1>2, <1>3, <1>4, <1>5, <1>6, <1>7, <1>8, <1>9 DEF HeadersNext, Sync

LEMMA HeadersInvAlways ==
    ASSUME SyncConstants
    PROVE  HeadersSpec => []HeadersInv
<1>1. HeadersInit => HeadersInv
  BY InvInit
<1>2. HeadersInv /\ [HeadersNext]_headersVars => HeadersInv'
  BY InvStep
<1>. QED  BY <1>1, <1>2, PTL DEF HeadersSpec

(* Every reachable state of the header list has its type.                  *)
THEOREM HeadersTypeCorrect ==
    ASSUME SyncConstants
    PROVE  HeadersSpec => []HeadersTypeOK
<1>1. HeadersInv => HeadersTypeOK
  <2>. SUFFICES ASSUME HeadersInv PROVE HeadersTypeOK
    OBVIOUS
  <2>1. headers \in Seq(Blocks)
    BY PathShape DEF HeadersInv, ListInv, Path
  <2>. QED  BY <2>1 DEF HeadersInv, ListInv, FetchInv, HeadersTypeOK
<1>. QED  BY <1>1, HeadersInvAlways, PTL

-----------------------------------------------------------------------------
(* Refinement of BestChain: the branch that readers see.                   *)

TopOf == IF headers = <<>> THEN NoBlock ELSE Last(headers)
ViewOf(b) == {<<a, Height[a]>> : a \in Chain[b]}

LEMMA SeenIsBranch ==
    ASSUME HeadersInv
    PROVE  TopOf = tip /\ Found = ViewOf(tip)
<1>1. TopOf = tip
  BY PathShape DEF HeadersInv, ListInv, TopOf, Path
<1>2. {c \in Blocks : header_by_blockhash(headers, heights, c)} = Chain[tip]
  BY OnList, TreeAssumption DEF HeadersInv, ListInv
<1>3. \A c \in Chain[tip] : heights[c] = Height[c]
  BY DEF HeadersInv, ListInv
<1>. QED  BY <1>1, <1>2, <1>3 DEF Found, ViewOf

(* A step moves the tip to a block off the branch, or leaves it.           *)
LEMMA TipMoves ==
    ASSUME HeadersInv, [HeadersNext]_headersVars
    PROVE  tip' = tip \/ (tip' \in Blocks /\ tip' \notin Chain[tip])
<1>1. CASE ApplyNew
  <2>1. CASE tip' = tip
    BY <2>1
  <2>2. CASE tip' # tip
    <3>1. pc = "apply" /\ fetched # <<>> /\ tip' = Last(fetched) /\ Last(fetched) = target
      BY <1>1, <2>2 DEF ApplyNew, Apply, list
    <3>. QED  BY <3>1 DEF HeadersInv, FetchInv
  <2>. QED  BY <2>1, <2>2
<1>2. CASE UNCHANGED tip
  BY <1>2
<1>3. ApplyNew \/ UNCHANGED tip
  BY DEF HeadersNext, Sync, headersVars, list, Reorg, UpdateList, ChunkHashes, ChunkHeadersFetched, AllFetched,
         WalkBack, OpenList
<1>. QED  BY <1>1, <1>2, <1>3

(* The header list implements BestChain: whatever bitcoind reorganises     *)
(* between two calls, and whatever assertion stops the process, readers of *)
(* header_by_blockhash see one branch, with its heights, and apply         *)
(* replaces it in one step by that of a block that was not on it.          *)
THEOREM ListImplementsBestChain ==
    ASSUME SyncConstants
    PROVE  HeadersSpec => ListIsBestChain
<1>0. HeadersInv' => (TopOf = tip /\ Found = ViewOf(tip))'
  <2>1. HeadersInv => TopOf = tip /\ Found = ViewOf(tip)
    BY SeenIsBranch
  <2>. QED  BY <2>1, PTL
<1>1. HeadersInit /\ HeadersInv => Best!Init
  <2>. SUFFICES ASSUME HeadersInit, HeadersInv PROVE Best!Init
    OBVIOUS
  <2>1. TopOf = tip /\ Found = ViewOf(tip) /\ tip = NoBlock
    BY SeenIsBranch DEF HeadersInit
  <2>. QED  BY <2>1 DEF Best!Init, Best!View, ViewOf, TopOf
<1>2. HeadersInv /\ HeadersInv' /\ [HeadersNext]_headersVars => [Best!Next]_<<TopOf, Found>>
  <2>. SUFFICES ASSUME HeadersInv, HeadersInv', [HeadersNext]_headersVars
                PROVE  [Best!Next]_<<TopOf, Found>>
    OBVIOUS
  <2>1. TopOf = tip /\ Found = ViewOf(tip)
    BY SeenIsBranch
  <2>2. TopOf' = tip' /\ Found' = ViewOf(tip')
    BY <1>0 DEF ViewOf
  <2>3. CASE tip' = tip
    BY <2>1, <2>2, <2>3 DEF ViewOf
  <2>4. CASE tip' \in Blocks /\ tip' \notin Chain[tip]
    <3>1. Best!Move(tip')
      BY <2>1, <2>2, <2>4 DEF Best!Move, Best!View, ViewOf, TopOf
    <3>. QED  BY <2>4, <3>1 DEF Best!Next
  <2>. QED  BY <2>3, <2>4, TipMoves
<1>3. Best!Spec <=> Best!Init /\ [][Best!Next]_<<TopOf, Found>>
  BY DEF Best!Spec, TopOf
<1>. QED  BY <1>1, <1>2, <1>3, HeadersInvAlways, PTL DEF HeadersSpec, ListIsBestChain

-----------------------------------------------------------------------------
(* The assertions.  When bitcoind never goes back to an ancestor, the list *)
(* never has more work than bitcoind's best block, so a target that is not *)
(* the tip is not on the list, and the walk back fetches something.        *)
NoRewindInv ==
    /\ tip \in Blocks => Work[tip] <= Work[best]
    /\ target \in Blocks => Work[target] <= Work[best]
    /\ pc # "idle" => target \notin Chain[tip]
    /\ pc = "apply" => fetched # <<>>
    /\ FollowingNeverEnds

LEMMA NoRewindStep ==
    ASSUME SyncConstants, WorkGrows, ~MayRewind, HeadersInv, NoRewindInv, [HeadersNext]_headersVars
    PROVE  NoRewindInv'
<1>0. /\ best \in Blocks /\ tip \in Blocks \cup {NoBlock} /\ target \in Blocks \cup {NoBlock}
      /\ \A b \in Blocks : Work[b] \in Nat
      /\ NoBlock \notin Blocks
  BY TreeAssumption DEF HeadersInv, ListInv, FetchInv, WorkGrows
<1>. USE DEF NoRewindInv, FollowingNeverEnds
<1>1. ASSUME NEW b \in Blocks, Reorg(b) PROVE NoRewindInv'
  BY <1>0, <1>1 DEF Reorg, list
<1>2. CASE UpdateList
  <2>1. ASSUME best \in Chain[tip] PROVE FALSE
    <3>1. tip \in Blocks /\ best # tip
      BY <1>0, <1>2, <2>1, TreeAssumption DEF UpdateList
    <3>2. Work[best] < Work[tip]
      BY <2>1, <3>1 DEF WorkGrows
    <3>. QED  BY <1>0, <3>1, <3>2
  <2>. QED  BY <1>0, <1>2, <2>1 DEF UpdateList, list
<1>3. CASE ChunkHashes
  <2>1. headers = <<>>
    BY <1>3 DEF ChunkHashes, HeadersInv, FetchInv, ListInv, Path
  <2>. QED  BY <1>3, <2>1 DEF ChunkHashes, list
<1>4. CASE ChunkHeadersFetched
  BY <1>4 DEF ChunkHeadersFetched, list
<1>5. CASE AllFetched
  <2>1. fetched # <<>> /\ headers = <<>>
    <3>1. target \in Blocks /\ tip = NoBlock
      BY <1>5 DEF AllFetched, HeadersInv, FetchInv
    <3>2. Len(fetched) = Height[target] + 1 /\ Height[target] \in Nat
      BY <1>5, <3>1, TreeFacts DEF AllFetched
    <3>. QED  BY <3>1, <3>2 DEF HeadersInv, ListInv, Path
  <2>. QED  BY <1>5, <2>1 DEF AllFetched, Checked, list
<1>6. CASE WalkBack
  <2>1. target \in Blocks /\ target \notin Chain[tip] /\ target # NoBlock
    BY <1>0, <1>6 DEF WalkBack, HeadersInv, FetchInv
  <2>2. ~header_by_blockhash(headers, heights, target)
    BY <2>1, OnList DEF HeadersInv
  <2>3. pc' = "apply" => fetched' # <<>>
    BY <1>6, <2>1, <2>2 DEF WalkBack
  <2>. QED  BY <1>6, <2>3 DEF WalkBack, list
<1>7. CASE ApplyNew
  <2>1. /\ pc = "apply" /\ fetched # <<>> /\ target \in Blocks /\ fetched \in Seq(Blocks) /\ ToTarget
    BY <1>7 DEF ApplyNew, HeadersInv, FetchInv
  <2>2. Linked(fetched) /\ Last(fetched) = target /\ fetched[1] \in Blocks
    BY <2>1, BranchIsLinked
  <2>3. order(headers, heights, fetched) >= 0
    BY <2>1, <2>2, OrderIsHeight, TreeFacts
  <2>4. /\ Apply(headers, heights, fetched, order(headers, heights, fetched))
        /\ pc' = "idle" /\ UNCHANGED <<ended, best, target>>
    BY <1>7, <2>1, <2>2, <2>3 DEF ApplyNew
  <2>. QED  BY <1>7, <2>1, <2>2, <2>4 DEF ApplyNew, Apply, Running
<1>8. CASE OpenList
  BY <1>0, <1>8 DEF OpenList
<1>9. CASE UNCHANGED headersVars
  BY <1>9 DEF headersVars
<1>. QED  BY <1>1, <1>2, <1>3, <1>4, <1>5, <1>6, <1>7, <1>8, <1>9 DEF HeadersNext, Sync

(* While bitcoind only moves to branches with more work, a list that       *)
(* follows a tip never ends the process: no call of update fails and no    *)
(* assertion of order, apply or update does.  Only the first               *)
(* synchronisation can be caught by a reorganisation.                      *)
THEOREM FollowingSafe ==
    ASSUME SyncConstants, WorkGrows, ~MayRewind
    PROVE  HeadersSpec => []FollowingNeverEnds
<1>1. HeadersInit => NoRewindInv
  BY TreeAssumption DEF HeadersInit, NoRewindInv, FollowingNeverEnds
<1>2. HeadersInv /\ NoRewindInv /\ [HeadersNext]_headersVars => NoRewindInv'
  BY NoRewindStep
<1>3. NoRewindInv => FollowingNeverEnds
  BY DEF NoRewindInv
<1>. QED  BY <1>1, <1>2, <1>3, HeadersInvAlways, PTL DEF HeadersSpec

-----------------------------------------------------------------------------
(* The cached answers of stats.                                            *)

(* The blocks of the best chain whose history rows are written.            *)
Written == Chain[indexedTip] \ coming

(* The steps of an update before the new blocks are confirmed.             *)
Early == {"history", "conf", "cancel", "add"}

(* What Indexer::update has written and deleted, step by step.  Until the  *)
(* new blocks are confirmed, what is written lies below what is rolled     *)
(* back.                                                                   *)
BlocksInv ==
    /\ indexedTip \in Blocks /\ reorged \subseteq Blocks /\ coming \subseteq Chain[indexedTip]
    /\ step \in Early \cup {"idle", "index"}
    /\ reorged \cap Chain[indexedTip] = {}
    /\ \A y \in Written : Chain[y] \subseteq Written
    /\ step = "idle" => coming = {} /\ reorged = {}
    /\ step \in Early => \A y \in Written, z \in reorged : Height[y] < Height[z]

StoredInv ==
    /\ HRowsOf(Written) \subseteq history
    /\ history \subseteq HRowsOf(Written \cup reorged)
    /\ step # "history" => history \subseteq HRowsOf(Written)
    /\ step \in {"history", "conf"} => conf = CRowsOf(Written \cup reorged)
    /\ step \in {"cancel", "add"} => conf = CRowsOf(Written)
    /\ step = "index" => conf = CRowsOf(Chain[indexedTip])
    /\ step = "idle" => conf = CRowsOf(Chain[indexedTip])

UpdateInv == BlocksInv /\ StoredInv

(* What a saved answer is worth depends on its block alone, so it stays    *)
(* true when the block is rolled back, and when it returns.                *)
Honest(c) ==
    /\ c.rows \subseteq AllRows /\ c.block \in Blocks /\ c.torn \in BOOLEAN
    /\ ~c.torn => c.rows = HRowsOf(Chain[c.block])

CacheInv ==
    /\ \A c \in cache \cup row : Honest(c)
    /\ \E x : cache \subseteq {x}
    /\ \E x : row \subseteq {x}
    /\ query \in {"idle", "height", "open", "scan"} /\ torn \in BOOLEAN
    /\ query = "open" /\ ~torn => \A c \in row : c.block \in Chain[indexedTip]
    /\ query \in {"idle", "scan"} => row = {}

(* Of the branch up to y, every row is counted or still in the iterator,   *)
(* and no other row is counted.                                            *)
Counted(y) ==
    /\ stats \subseteq HRowsOf(Chain[y])
    /\ HRowsOf(Chain[y]) \subseteq stats \cup scan

(* The iterator of a query that was not overtaken: its rows are of written *)
(* blocks, or of blocks being rolled back, which no new block is mistaken  *)
(* for yet.  If the last block counted is not written any more, it was     *)
(* counted to the end, and no further row will be.                         *)
Clean ==
    /\ scan \subseteq HRowsOf(Written \cup reorged)
    /\ step \notin Early => scan \subseteq HRowsOf(Written)
    /\ \A y \in Written : scan \cap HRows(y) # {} => Counted(y)
    /\ \A l \in last :
        /\ Counted(l) /\ \A r \in scan : HeightOf(r) >= Height[l]
        /\ l \in Written \/ (HRowsOf(Chain[l]) \subseteq stats /\ scan \cap HRowsOf(Written) = {})

ScanInv ==
    /\ query # "scan" => last = {} /\ stats = {} /\ scan = {}
    /\ stats \subseteq AllRows /\ scan \subseteq AllRows /\ last \subseteq Blocks
    /\ \E x : last \subseteq {x}
    /\ ~torn => Clean

ReaderInv == CacheInv /\ ScanInv

-----------------------------------------------------------------------------
(* Lemmas about the block tree.                                            *)

(* The blocks of a branch up to one of its blocks are that block's branch. *)
LEMMA Below ==
    ASSUME NEW h \in Blocks, NEW x \in Chain[h]
    PROVE  {b \in Chain[h] : Height[b] <= Height[x]} = Chain[x]
<1>1. x \in Blocks /\ Chain[x] \subseteq Chain[h] /\ \A a \in Chain[x] : Height[a] <= Height[x]
  BY TreeAssumption, HeightAssumption
<1>2. ASSUME NEW b \in Chain[h], Height[b] <= Height[x] PROVE b \in Chain[x]
  <2>1. b \in Blocks /\ Height[b] \in 0..Height[x]
    BY <1>1, <1>2, TreeAssumption
  <2>2. PICK a \in Chain[x] : Height[a] = Height[b]
    BY <1>1, <2>1, BlockAtHeight
  <2>3. a = b
    BY <1>1, <1>2, <2>2, HeightAssumption
  <2>. QED  BY <2>2, <2>3
<1>. QED  BY <1>1, <1>2

LEMMA BranchFacts ==
    ASSUME NEW b \in Blocks
    PROVE  /\ b \in Chain[b] /\ Chain[b] \subseteq Blocks /\ Height[b] \in Nat
           /\ \A a \in Chain[b] : Chain[a] \subseteq Chain[b] /\ Height[a] <= Height[b]
           /\ \A a, c \in Chain[b] : Height[a] = Height[c] => a = c
BY TreeAssumption, HeightAssumption

-----------------------------------------------------------------------------
(* Lemmas about the rows.                                                  *)

LEMMA RowsInConcat ==
    ASSUME NEW S, NEW f \in Seq(SUBSET S), NEW g \in Seq(SUBSET S)
    PROVE  RowsIn(f \o g) = RowsIn(f) \cup RowsIn(g)
<1>1. /\ f \o g \in Seq(SUBSET S)
      /\ Len(f \o g) = Len(f) + Len(g)
      /\ \A i \in 1 .. Len(f) + Len(g) :
            (f \o g)[i] = IF i <= Len(f) THEN f[i] ELSE g[i - Len(f)]
  BY ConcatProperties
<1>2. /\ DOMAIN f = 1..Len(f) /\ Len(f) \in Nat
      /\ DOMAIN g = 1..Len(g) /\ Len(g) \in Nat
      /\ DOMAIN (f \o g) = 1..(Len(f) + Len(g))
  BY <1>1
<1> DEFINE h == f \o g
<1>3. \A i \in DOMAIN h : h[i] \subseteq RowsIn(f) \cup RowsIn(g)
  <2> SUFFICES ASSUME NEW i \in DOMAIN h PROVE h[i] \subseteq RowsIn(f) \cup RowsIn(g)
    OBVIOUS
  <2>1. CASE i <= Len(f)
    <3>1. i \in DOMAIN f /\ h[i] = f[i]
      BY <1>1, <1>2, <2>1
    <3> HIDE DEF h
    <3> QED BY <3>1 DEF RowsIn
  <2>2. CASE ~(i <= Len(f))
    <3>1. i - Len(f) \in DOMAIN g /\ h[i] = g[i - Len(f)]
      BY <1>1, <1>2, <2>2
    <3> HIDE DEF h
    <3> QED BY <3>1 DEF RowsIn
  <2> QED BY <2>1, <2>2
<1>4. \A i \in DOMAIN f : i \in DOMAIN h /\ h[i] = f[i]
  BY <1>1, <1>2
<1>5. \A i \in DOMAIN g : i + Len(f) \in DOMAIN h /\ h[i + Len(f)] = g[i]
  BY <1>1, <1>2
<1> HIDE DEF h
<1>6. RowsIn(h) = RowsIn(f) \cup RowsIn(g)
  BY <1>3, <1>4, <1>5 DEF RowsIn
<1> QED BY <1>1, <1>6 DEF h

(* A history row has the height and a transaction of its block.            *)
LEMMA HRowKinds ==
    ASSUME NEW b \in Blocks, NEW r \in HRows(b)
    PROVE  HeightOf(r) = Height[b] /\ TxOf(r) \in TxsOf(b)
<1> DEFINE n == Len(BlockTxs[b])
           f == [i \in 1..n |-> index_transaction(BlockTxs[b][i], Height[b], i)]
           g == << {DoneRow(b)} >>
           U == RowsIn(f) \cup RowsIn(g)
<1>1. n \in Nat /\ DOMAIN BlockTxs[b] = 1..n
  BY TxAssumption
<1>2. f \in Seq(SUBSET U)
  <2>1. DOMAIN f = 1..n /\ f = [i \in 1..n |-> f[i]]
    OBVIOUS
  <2> HIDE DEF f, g
  <2>2. \A i \in 1..n : f[i] \in SUBSET U
    BY <2>1 DEF RowsIn
  <2> QED BY <1>1, <2>1, <2>2
<1>3. g \in Seq(SUBSET U)
  BY DEF RowsIn
<1>4. index_blocks(b) = f \o g
  BY DEF index_blocks
<1>5. \A q \in RowsIn(g) : q[1] = "D"
  BY DEF RowsIn, DoneRow
<1>6. DOMAIN f = 1..n /\ \A i \in 1..n : /\ f[i] = index_transaction(BlockTxs[b][i], Height[b], i)
                                         /\ BlockTxs[b][i] \in TxsOf(b)
  BY <1>1 DEF TxsOf
<1>7. \A tx, h, i : \A q \in index_transaction(tx, h, i) : q[1] = "H" => q[3] = h /\ q[7] = tx
  BY DEF index_transaction
<1> HIDE DEF f
<1>8. \A q \in RowsIn(f) : q[1] = "H" => q[3] = Height[b] /\ q[7] \in TxsOf(b)
  BY <1>6, <1>7 DEF RowsIn
<1> HIDE DEF g, n
<1>9. RowsIn(f \o g) = U
  <2>1. \A V, p, q : p \in Seq(SUBSET V) /\ q \in Seq(SUBSET V)
                     => RowsIn(p \o q) = RowsIn(p) \cup RowsIn(q)
    BY RowsInConcat
  <2>2. U = RowsIn(f) \cup RowsIn(g)
    OBVIOUS
  <2> HIDE DEF U
  <2> QED BY <1>2, <1>3, <2>1, <2>2
<1> QED BY <1>4, <1>5, <1>8, <1>9 DEF IndexRows, HRows, HeightOf, TxOf

LEMMA Sets ==
    ASSUME NEW S, NEW T
    PROVE  /\ \A r : r \in HRowsOf(S) <=> \E y \in S : r \in HRows(y)
           /\ \A r : r \in CRowsOf(S) <=> \E y \in S : \E t \in TxsOf(y) : r = <<"C", t, y>>
           /\ HRowsOf(S \cup T) = HRowsOf(S) \cup HRowsOf(T)
           /\ CRowsOf(S \cup T) = CRowsOf(S) \cup CRowsOf(T)
           /\ S \subseteq T => HRowsOf(S) \subseteq HRowsOf(T) /\ CRowsOf(S) \subseteq CRowsOf(T)
           /\ S \cap T = {} => CRowsOf(S) \cap CRowsOf(T) = {}
<1>1. \A r : r \in HRowsOf(S) <=> \E y \in S : r \in HRows(y)
  BY DEF HRowsOf
<1>2. \A r : r \in CRowsOf(S) <=> \E y \in S : \E t \in TxsOf(y) : r = <<"C", t, y>>
  BY DEF CRowsOf
<1>3. HRowsOf(S \cup T) = HRowsOf(S) \cup HRowsOf(T)
  BY DEF HRowsOf
<1>4. CRowsOf(S \cup T) = CRowsOf(S) \cup CRowsOf(T)
  <2>1. \A r : r \in CRowsOf(S \cup T) <=> r \in CRowsOf(S) \/ r \in CRowsOf(T)
    BY DEF CRowsOf
  <2>. QED  BY <2>1
<1>5. S \subseteq T => HRowsOf(S) \subseteq HRowsOf(T) /\ CRowsOf(S) \subseteq CRowsOf(T)
  BY DEF HRowsOf, CRowsOf
<1>6. S \cap T = {} => CRowsOf(S) \cap CRowsOf(T) = {}
  BY DEF CRowsOf
<1>. QED  BY <1>1, <1>2, <1>3, <1>4, <1>5, <1>6

LEMMA Monotone ==
    ASSUME NEW S, NEW T, S \subseteq T
    PROVE  HRowsOf(S) \subseteq HRowsOf(T) /\ CRowsOf(S) \subseteq CRowsOf(T)
BY DEF HRowsOf, CRowsOf

(* Rows of blocks of different heights are different.                      *)
LEMMA Apart ==
    ASSUME NEW S \in SUBSET Blocks, NEW T \in SUBSET Blocks,
           \A y \in S, z \in T : Height[y] < Height[z]
    PROVE  HRowsOf(S) \cap HRowsOf(T) = {} /\ CRowsOf(S) \cap CRowsOf(T) = {}
<1>1. ASSUME NEW r \in HRowsOf(S), r \in HRowsOf(T) PROVE FALSE
  <2>1. PICK y \in S, z \in T : r \in HRows(y) /\ r \in HRows(z)
    BY <1>1 DEF HRowsOf
  <2>2. Height[y] = Height[z] /\ Height[y] \in Nat
    BY <2>1, HRowKinds, BranchFacts
  <2>. QED  BY <2>1, <2>2
<1>2. S \cap T = {}
  <2>1. ASSUME NEW y \in S, y \in T PROVE FALSE
    <3>1. Height[y] \in Nat /\ Height[y] < Height[y]
      BY <2>1, BranchFacts
    <3>. QED  BY <3>1
  <2>. QED  BY <2>1
<1>. QED  BY <1>1, <1>2, Sets

-----------------------------------------------------------------------------
LEMMA CacheInit == Init => UpdateInv /\ ReaderInv
<1>. SUFFICES ASSUME Init PROVE UpdateInv /\ ReaderInv
  OBVIOUS
<1>. USE DEF Init
<1>0. Start \in Blocks /\ \A y \in Chain[Start] : Chain[y] \subseteq Chain[Start]
  BY CacheAssumption, TreeAssumption
<1>1. BlocksInv
  BY <1>0 DEF BlocksInv, Written, Early
<1>2. StoredInv
  BY <1>0 DEF StoredInv, Written
<1>3. CacheInv
  BY <1>0 DEF CacheInv
<1>4. ScanInv
  BY <1>0 DEF ScanInv, Clean
<1>. QED  BY <1>1, <1>2, <1>3, <1>4 DEF UpdateInv, ReaderInv

(* What the steps of the query leave alone.                                *)
LEMMA QuerySteps == ASSUME Query PROVE UNCHANGED indexer
BY DEF Query, GetCache, CheckHeight, OpenScan, ScanRow, Save

(* The header list changes first: what both branches share stays written,  *)
(* and the rest of the old branch lies above it.                           *)
LEMMA HeadersStep ==
    ASSUME UpdateInv, NEW b \in Moves, ApplyHeaders(b)
    PROVE  /\ b \in Blocks /\ indexedTip' = b /\ step = "idle" /\ step' \in {"history", "add"}
           /\ step' = "add" => reorged' = {}
           /\ Written = Chain[indexedTip] /\ Written' = Chain[b] \cap Chain[indexedTip]
           /\ Written' \cup reorged' = Chain[indexedTip] /\ reorged' \cap Chain[b] = {}
           /\ coming' \subseteq Chain[b] /\ reorged' \subseteq Blocks
           /\ \A y \in Written', z \in reorged' : Height[y] < Height[z]
           /\ UNCHANGED <<history, conf, cache, reader>>
<1>1. b \in Blocks /\ step = "idle" /\ indexedTip \in Blocks /\ coming = {} /\ reorged = {}
  BY CacheAssumption DEF ApplyHeaders, UpdateInv, BlocksInv
<1>2. /\ indexedTip' = b /\ reorged' = Chain[indexedTip] \ Chain[b]
      /\ coming' = Chain[b] \ Chain[indexedTip]
      /\ UNCHANGED <<history, conf, cache, reader>>
  BY DEF ApplyHeaders
<1>3. step' \in {"history", "add"} /\ (step' = "add" => reorged' = {})
  BY DEF ApplyHeaders
<1>4. Written = Chain[indexedTip] /\ Written' = Chain[b] \cap Chain[indexedTip]
  BY <1>1, <1>2 DEF Written
<1>5. ASSUME NEW y \in Written', NEW z \in reorged' PROVE Height[y] < Height[z]
  <2>1. y \in Chain[b] /\ y \in Chain[indexedTip] /\ z \in Chain[indexedTip] /\ z \notin Chain[b]
    BY <1>2, <1>4
  <2>2. Height[y] \in Nat /\ Height[z] \in Nat /\ Chain[y] \subseteq Chain[b]
    BY <1>1, <2>1, TreeAssumption
  <2>3. ~(Height[z] <= Height[y])
    BY <1>1, <2>1, <2>2, Below
  <2>. QED  BY <2>2, <2>3
<1>6. Chain[indexedTip] \subseteq Blocks
  BY <1>1, TreeAssumption
<1>. QED  BY <1>1, <1>2, <1>3, <1>4, <1>5, <1>6

LEMMA BlocksStep ==
    ASSUME UpdateInv, [Next]_vars
    PROVE  BlocksInv'
<1>. USE DEF UpdateInv, BlocksInv
<1>1. ASSUME NEW b \in Moves, ApplyHeaders(b) PROVE BlocksInv'
  <2>1. indexedTip \in Blocks
    OBVIOUS
  <2>2. \A y \in Chain[b] \cap Chain[indexedTip] : Chain[y] \subseteq Chain[b] \cap Chain[indexedTip]
    BY <1>1, <2>1, HeadersStep, TreeAssumption
  <2>3. \A y \in Written' : Chain[y] \subseteq Written'
    BY <1>1, <2>2, HeadersStep
  <2>. QED  BY <1>1, <2>3, HeadersStep DEF Early
<1>2. CASE DeleteHistoryRow
  BY <1>2 DEF DeleteHistoryRow, Written
<1>3. CASE HistoryDeleted
  BY <1>3 DEF HistoryDeleted, Written, Early
<1>4. CASE DeleteConf
  BY <1>4 DEF DeleteConf, Written, Early
<1>5. CASE CancelCache
  BY <1>5 DEF CancelCache, Written, Early
<1>6. CASE AddBlocks
  BY <1>6 DEF AddBlocks, Written, Early
<1>7. CASE IndexBlock
  <2>1. PICK b \in Lowest(coming) : coming' = coming \ {b}
    BY <1>7 DEF IndexBlock
  <2>2. UNCHANGED <<indexedTip, step, reorged>> /\ step = "index"
    BY <1>7 DEF IndexBlock
  <2>3. b \in coming /\ b \in Chain[indexedTip] /\ b \in Blocks /\ \A c \in coming : Height[b] <= Height[c]
    BY <2>1, TreeAssumption DEF Lowest
  <2>4. Written' = Written \cup {b}
    BY <2>1, <2>2, <2>3 DEF Written
  <2>5. \A a \in Chain[b] : a \in Written \cup {b}
    <3>1. SUFFICES ASSUME NEW a \in Chain[b], a # b PROVE a \notin coming /\ a \in Chain[indexedTip]
      BY DEF Written
    <3>2. a \in Chain[indexedTip] /\ a \in Blocks /\ Height[a] <= Height[b] /\ Height[a] # Height[b]
      BY <2>3, <3>1, BranchFacts
    <3>3. Height[a] \in Nat /\ Height[b] \in Nat
      BY <2>3, <3>2, BranchFacts
    <3>. QED  BY <2>3, <3>2, <3>3
  <2>6. \A y \in Written' : Chain[y] \subseteq Written'
    BY <2>4, <2>5
  <2>. QED  BY <2>1, <2>2, <2>3, <2>6 DEF Early
<1>8. CASE Finish
  BY <1>8 DEF Finish, Written, Early
<1>9. CASE Query
  BY <1>9, QuerySteps DEF indexer, Written
<1>10. CASE UNCHANGED vars
  BY <1>10 DEF vars, indexer, Written
<1>. QED  BY <1>1, <1>2, <1>3, <1>4, <1>5, <1>6, <1>7, <1>8, <1>9, <1>10 DEF Next, UpdateIndex

LEMMA StoredStep ==
    ASSUME UpdateInv, [Next]_vars
    PROVE  StoredInv'
<1>0. /\ indexedTip \in Blocks /\ reorged \subseteq Blocks /\ Written \subseteq Blocks
      /\ Written \cup coming = Chain[indexedTip] /\ Written \cap coming = {}
  BY TreeAssumption DEF UpdateInv, BlocksInv, Written
<1>w. /\ HRowsOf(Written \cup reorged) = HRowsOf(Written) \cup HRowsOf(reorged)
      /\ CRowsOf(Written \cup reorged) = CRowsOf(Written) \cup CRowsOf(reorged)
      /\ step \in Early => /\ HRowsOf(Written) \cap HRowsOf(reorged) = {}
                            /\ CRowsOf(Written) \cap CRowsOf(reorged) = {}
  <2>1. step \in Early => /\ HRowsOf(Written) \cap HRowsOf(reorged) = {}
                          /\ CRowsOf(Written) \cap CRowsOf(reorged) = {}
    BY <1>0, Apart DEF UpdateInv, BlocksInv
  <2>. QED  BY <2>1, Sets
<1>. USE DEF UpdateInv, StoredInv
<1>1. ASSUME NEW b \in Moves, ApplyHeaders(b) PROVE StoredInv'
  <2>1. HRowsOf(Written') \subseteq HRowsOf(Chain[indexedTip])
    <3>1. Written' \subseteq Chain[indexedTip]
      BY <1>1, HeadersStep
    <3>. QED  BY <3>1, Sets
  <2>2. history' = history /\ conf' = conf /\ step = "idle" /\ Written = Chain[indexedTip]
        /\ Written' \cup reorged' = Chain[indexedTip] /\ step' \in {"history", "add"}
        /\ (step' = "add" => Written' = Chain[indexedTip])
    BY <1>1, HeadersStep
  <2>. QED  BY <2>1, <2>2
<1>2. CASE DeleteHistoryRow
  <2>1. PICK r \in history \cap HRowsOf(reorged) : history' = history \ {r}
    BY <1>2 DEF DeleteHistoryRow, ToDelete
  <2>2. UNCHANGED <<indexedTip, step, reorged, coming, conf>> /\ step = "history" /\ Written' = Written
    BY <1>2 DEF DeleteHistoryRow, Written
  <2>. QED  BY <1>w, <2>1, <2>2 DEF Early
<1>3. CASE HistoryDeleted
  <2>1. /\ history \cap HRowsOf(reorged) = {} /\ step = "history" /\ step' = "conf"
        /\ UNCHANGED <<indexedTip, reorged, coming, history, conf>> /\ Written' = Written
    BY <1>3 DEF HistoryDeleted, ToDelete, Written
  <2>. QED  BY <1>w, <2>1 DEF Early
<1>4. CASE DeleteConf
  <2>1. /\ conf' = conf \ CRowsOf(reorged) /\ step = "conf" /\ step' = "cancel"
        /\ UNCHANGED <<indexedTip, reorged, coming, history>> /\ Written' = Written
    BY <1>4 DEF DeleteConf, Written
  <2>. QED  BY <1>w, <2>1 DEF Early
<1>5. CASE CancelCache
  <2>1. /\ step = "cancel" /\ step' = "add"
        /\ UNCHANGED <<indexedTip, reorged, coming, history, conf>> /\ Written' = Written
    BY <1>5 DEF CancelCache, Written
  <2>. QED  BY <1>w, <2>1
<1>6. CASE AddBlocks
  <2>1. /\ step = "add" /\ step' = "index" /\ conf' = conf \cup CRowsOf(coming)
        /\ UNCHANGED <<indexedTip, reorged, coming, history>> /\ Written' = Written
    BY <1>6 DEF AddBlocks, Written
  <2>2. CRowsOf(Written) \cup CRowsOf(coming) = CRowsOf(Chain[indexedTip])
    <3>1. CRowsOf(Written \cup coming) = CRowsOf(Written) \cup CRowsOf(coming)
      BY Sets
    <3>. QED  BY <1>0, <3>1
  <2>. QED  BY <1>w, <2>1, <2>2
<1>7. CASE IndexBlock
  <2>1. PICK b \in coming : coming' = coming \ {b} /\ history' = history \cup HRows(b)
    BY <1>7 DEF IndexBlock, Lowest
  <2>2. UNCHANGED <<indexedTip, step, reorged, conf>> /\ step = "index"
    BY <1>7 DEF IndexBlock
  <2>3. Written' = Written \cup {b}
    BY <1>0, <2>1, <2>2 DEF Written
  <2>4. HRowsOf(Written \cup {b}) = HRowsOf(Written) \cup HRows(b)
    BY DEF HRowsOf
  <2>5. HRowsOf(Written \cup {b}) \subseteq HRowsOf((Written \cup {b}) \cup reorged)
    BY DEF HRowsOf
  <2>. QED  BY <2>1, <2>2, <2>3, <2>4, <2>5
<1>8. CASE Finish
  <2>1. /\ step = "index" /\ step' = "idle" /\ reorged' = {}
        /\ UNCHANGED <<indexedTip, coming, history, conf>> /\ Written' = Written
    BY <1>8 DEF Finish, Written
  <2>. QED  BY <1>w, <2>1
<1>9. CASE Query
  BY <1>9, QuerySteps DEF indexer, Written
<1>10. CASE UNCHANGED vars
  BY <1>10 DEF vars, indexer, Written
<1>. QED  BY <1>1, <1>2, <1>3, <1>4, <1>5, <1>6, <1>7, <1>8, <1>9, <1>10 DEF Next, UpdateIndex

(* A step of the update leaves the query alone, but for the ghost.         *)
LEMMA UpdateSteps ==
    ASSUME CacheInv, UpdateIndex
    PROVE  /\ UNCHANGED reader /\ (cache' = cache \/ cache' = {})
           /\ torn' \in BOOLEAN /\ (torn => torn')
           /\ UNCHANGED indexedTip \/ \E b \in Moves : ApplyHeaders(b)
<1>1. torn \in BOOLEAN
  BY DEF CacheInv
<1>2. /\ UNCHANGED reader /\ (cache' = cache \/ cache' = {})
      /\ UNCHANGED indexedTip \/ \E b \in Moves : ApplyHeaders(b)
  BY DEF UpdateIndex, ApplyHeaders, DeleteHistoryRow, HistoryDeleted, DeleteConf, CancelCache,
         Cancelled, AddBlocks, IndexBlock, Finish
<1>3. \/ torn' = torn
      \/ \E b \in Moves : torn' = (torn \/ Overtakes(reorged'))
      \/ torn' = (torn \/ scan \cap HRowsOf(reorged) # {})
  BY DEF UpdateIndex, ApplyHeaders, DeleteHistoryRow, HistoryDeleted, DeleteConf, CancelCache,
         AddBlocks, IndexBlock, Finish
<1>4. torn' \in BOOLEAN /\ (torn => torn')
  BY <1>1, <1>3, Zenon
<1>. QED  BY <1>2, <1>4

LEMMA CacheStep ==
    ASSUME UpdateInv, ReaderInv, [Next]_vars
    PROVE  CacheInv'
<1>. USE DEF ReaderInv, CacheInv
<1>e. \A c : Honest(c)' = Honest(c)
  BY DEF Honest
<1>1. CASE UpdateIndex
  <2>1. /\ UNCHANGED <<query, row>> /\ cache' \subseteq cache
        /\ torn' \in BOOLEAN /\ (torn => torn')
    BY <1>1, UpdateSteps DEF reader
  <2>2. query = "open" /\ ~torn' => \A c \in row : c.block \in Chain[indexedTip']
    <3>1. ASSUME NEW b \in Moves, ApplyHeaders(b), query = "open", ~torn', NEW c \in row
          PROVE  c.block \in Chain[indexedTip']
      <4>1. ~Overtakes(reorged')
        BY <3>1 DEF ApplyHeaders
      <4>2. c.block \in Chain[indexedTip] /\ c.block \notin reorged'
        BY <2>1, <3>1, <4>1 DEF Overtakes
      <4>. QED  BY <3>1, <4>2, HeadersStep
    <3>. QED  BY <1>1, <2>1, <3>1, UpdateSteps
  <2>3. \E x : cache' \subseteq {x}
    BY <2>1
  <2>. QED  BY <1>e, <2>1, <2>2, <2>3
<1>2. CASE Query
  <2>0. indexedTip' = indexedTip
    BY <1>2, QuerySteps DEF indexer
  <2>1. CASE GetCache
    <3>1. row' \subseteq cache /\ query' = "height" /\ cache' = cache /\ torn' = FALSE
      BY <2>1 DEF GetCache
    <3>2. \E x : row' \subseteq {x}
      BY <3>1
    <3>. QED  BY <1>e, <2>0, <3>1, <3>2
  <2>2. CASE CheckHeight
    <3>1. /\ row' \subseteq row /\ query' = "open" /\ cache' = cache /\ torn' = torn
          /\ \A c \in row' : c.block \in Chain[indexedTip]
      BY <2>2 DEF CheckHeight, OnBestChain
    <3>2. \E x : row' \subseteq {x}
      BY <3>1
    <3>. QED  BY <1>e, <2>0, <3>1, <3>2
  <2>3. CASE OpenScan
    <3>1. row' = {} /\ query' = "scan" /\ cache' = cache /\ torn' = (torn \/ \E c \in row : c.torn)
      BY <2>3 DEF OpenScan
    <3>2. torn' \in BOOLEAN
      BY <3>1, Zenon
    <3>. QED  BY <1>e, <2>0, <3>1, <3>2
  <2>4. CASE ScanRow
    <3>1. row' = row /\ query' = query /\ cache' = cache /\ torn' = torn
      BY <2>4 DEF ScanRow
    <3>. QED  BY <1>e, <2>0, <3>1
  <2>5. CASE Save
    <3>1. row' = row /\ row = {} /\ query' = "idle" /\ scan = {} /\ torn' = torn
      BY <2>5 DEF Save
    <3>2. CASE cache' = cache
      BY <1>e, <2>0, <3>1, <3>2
    <3>3. CASE cache' = {[rows |-> stats, block |-> b, torn |-> torn] : b \in last}
      <4>1. ASSUME NEW c \in cache' PROVE Honest(c)
        <5>1. c.block \in last /\ c.rows = stats /\ c.torn = torn
          BY <3>3, <4>1
        <5>2. ~torn => stats = HRowsOf(Chain[c.block])
          BY <3>1, <5>1 DEF ScanInv, Clean, Counted
        <5>. QED  BY <5>1, <5>2 DEF ScanInv, Honest
      <4>2. PICK x : last \subseteq {x}
        BY DEF ScanInv
      <4>3. cache' \subseteq {[rows |-> stats, block |-> x, torn |-> torn]}
        BY <3>3, <4>2
      <4>4. \E z : cache' \subseteq {z}
        BY <4>3
      <4>. QED  BY <1>e, <2>0, <3>1, <4>1, <4>4
    <3>. QED  BY <2>5, <3>2, <3>3 DEF Save
  <2>. QED  BY <1>2, <2>1, <2>2, <2>3, <2>4, <2>5 DEF Query
<1>3. CASE UNCHANGED vars
  <2>1. UNCHANGED <<indexedTip, cache, query, row, torn>>
    BY <1>3 DEF vars, indexer, reader
  <2>. QED  BY <1>e, <2>1
<1>. QED  BY <1>1, <1>2, <1>3 DEF Next

(* The rollback that overtakes no query: what the iterator has of the old  *)
(* branch will not be counted, and of the last block all is counted.       *)
LEMMA CleanHeaders ==
    ASSUME UpdateInv, ScanInv, ~torn, NEW b \in Moves, ApplyHeaders(b), ~torn'
    PROVE  Clean'
<1>. USE DEF ScanInv, Clean
<1>0. /\ indexedTip \in Blocks /\ Chain[indexedTip] \subseteq Blocks /\ ~Overtakes(reorged')
      /\ UNCHANGED <<stats, last, scan>> /\ step \notin Early /\ step' \in Early
  <2>1. ~Overtakes(reorged')
    BY DEF ApplyHeaders
  <2>. QED  BY <2>1, HeadersStep, TreeAssumption DEF UpdateInv, BlocksInv, reader, Early
<1>1. scan \subseteq HRowsOf(Written' \cup reorged')
  BY <1>0, HeadersStep
<1>2. \A y : Counted(y)' = Counted(y)
  BY <1>0 DEF Counted
<1>3. Written' \subseteq Written
  BY HeadersStep
<1>4. ASSUME NEW l \in last, l \notin Written'
      PROVE  HRowsOf(Chain[l]) \subseteq stats /\ scan \cap HRowsOf(Written') = {}
  <2>1. CASE l \notin Written
    <3>1. HRowsOf(Chain[l]) \subseteq stats /\ scan = {}
      BY <1>0, <2>1
    <3>. QED  BY <3>1
  <2>2. CASE l \in Written
    <3>1. l \in reorged' /\ l \in Blocks /\ Height[l] \in Nat /\ scan \cap HRows(l) = {}
      BY <1>0, <1>4, <2>2, HeadersStep, TreeAssumption DEF Overtakes
    <3>2. ASSUME NEW r \in scan, r \in HRowsOf(Chain[l]) PROVE FALSE
      <4>1. PICK a \in Chain[l] : r \in HRows(a)
        BY <3>2 DEF HRowsOf
      <4>2. a \in Blocks /\ Height[a] \in Nat /\ Height[a] <= Height[l] /\ HeightOf(r) = Height[a]
        BY <3>1, <4>1, BranchFacts, HRowKinds
      <4>3. Height[a] = Height[l]
        BY <3>1, <3>2, <4>2
      <4>4. a = l
        BY <3>1, <4>1, <4>3, BranchFacts
      <4>. QED  BY <3>1, <3>2, <4>1, <4>4
    <3>3. ASSUME NEW r \in scan, r \in HRowsOf(Written') PROVE FALSE
      <4>1. PICK a \in Written' : r \in HRows(a)
        BY <3>3 DEF HRowsOf
      <4>2. a \in Blocks /\ Height[a] \in Nat /\ HeightOf(r) = Height[a]
        BY <1>0, <1>3, <4>1, HeadersStep, BranchFacts, HRowKinds
      <4>3. Height[a] < Height[l] /\ HeightOf(r) >= Height[l]
        BY <3>1, <3>3, <4>1, HeadersStep
      <4>. QED  BY <3>1, <4>2, <4>3
    <3>4. HRowsOf(Chain[l]) \subseteq stats
      BY <3>2 DEF Counted
    <3>. QED  BY <3>3, <3>4
  <2>. QED  BY <2>1, <2>2
<1>. QED  BY <1>0, <1>1, <1>2, <1>3, <1>4

LEMMA ScanUpdate ==
    ASSUME UpdateInv, ReaderInv, UpdateIndex
    PROVE  ScanInv'
<1>0. UNCHANGED <<query, stats, last, scan>> /\ (torn => torn')
  BY UpdateSteps DEF reader, ReaderInv
<1>. SUFFICES ASSUME ~torn' PROVE Clean'
  BY <1>0 DEF ReaderInv, ScanInv
<1>1. Clean /\ ~torn
  BY <1>0 DEF ReaderInv, ScanInv
<1>2. \A y : Counted(y)' = Counted(y)
  BY <1>0 DEF Counted
<1>. USE DEF Clean
<1>3. ASSUME NEW b \in Moves, ApplyHeaders(b) PROVE Clean'
  BY <1>1, <1>3, CleanHeaders DEF ReaderInv
<1>4. ASSUME UNCHANGED <<indexedTip, reorged, coming>>, step' \in Early PROVE Clean'
  <2>1. Written' = Written
    BY <1>4 DEF Written
  <2>. QED  BY <1>0, <1>1, <1>2, <1>4, <2>1
<1>5. CASE DeleteHistoryRow
  BY <1>4, <1>5 DEF DeleteHistoryRow, Early
<1>6. CASE HistoryDeleted \/ DeleteConf \/ CancelCache
  BY <1>4, <1>6 DEF HistoryDeleted, DeleteConf, CancelCache, Early
<1>7. CASE AddBlocks
  <2>1. Written' = Written /\ reorged' = reorged /\ scan \cap HRowsOf(reorged) = {}
    BY <1>7 DEF AddBlocks, Written
  <2>2. scan \subseteq HRowsOf(Written)
    BY <1>1, <2>1, Sets
  <2>. QED  BY <1>0, <1>1, <1>2, <2>1, <2>2
<1>8. CASE IndexBlock
  <2>1. PICK b \in coming : coming' = coming \ {b}
    BY <1>8 DEF IndexBlock, Lowest
  <2>2. /\ UNCHANGED <<indexedTip, step, reorged>> /\ step = "index"
        /\ b \in Chain[indexedTip] /\ indexedTip \in Blocks
    BY <1>8 DEF IndexBlock, UpdateInv, BlocksInv
  <2>3. Written' = Written \cup {b} /\ b \notin Written /\ Written \subseteq Chain[indexedTip]
    BY <2>1, <2>2 DEF Written
  <2>4. scan \subseteq HRowsOf(Written)
    BY <1>1, <2>2 DEF Early
  <2>5. ASSUME NEW r \in scan, r \in HRows(b) PROVE FALSE
    <3>1. PICK a \in Written : r \in HRows(a)
      BY <2>4, <2>5 DEF HRowsOf
    <3>2. Height[a] = Height[b]
      BY <2>2, <2>3, <2>5, <3>1, HRowKinds, TreeAssumption
    <3>. QED  BY <2>2, <2>3, <3>1, <3>2, BranchFacts
  <2>6. HRowsOf(Written) \subseteq HRowsOf(Written') /\ HRowsOf(Written') \subseteq HRowsOf(Written' \cup reorged')
    BY <2>3 DEF HRowsOf
  <2>7. scan \cap HRowsOf(Written') = scan \cap HRowsOf(Written)
    BY <2>3, <2>5 DEF HRowsOf
  <2>. QED  BY <1>0, <1>1, <1>2, <2>2, <2>3, <2>4, <2>5, <2>6, <2>7
<1>9. CASE Finish
  <2>1. Written' = Written /\ reorged' = {} /\ step = "index"
    BY <1>9 DEF Finish, Written
  <2>2. scan \subseteq HRowsOf(Written) /\ Written \cup reorged' = Written
    BY <1>1, <2>1 DEF Early
  <2>. QED  BY <1>0, <1>1, <1>2, <2>1, <2>2
<1>. QED  BY <1>3, <1>5, <1>6, <1>7, <1>8, <1>9 DEF UpdateIndex

(* The iterator is opened over rows that are written, above the cached     *)
(* block: below it, the cached rows are those of the branch.               *)
LEMMA OpenStep ==
    ASSUME UpdateInv, ReaderInv, OpenScan
    PROVE  ScanInv'
<1>0. /\ indexedTip \in Blocks /\ Chain[indexedTip] \subseteq Blocks /\ reorged \subseteq Blocks
      /\ Written \subseteq Chain[indexedTip] /\ Written \subseteq Blocks
      /\ \A y \in Written : Chain[y] \subseteq Written
      /\ HRowsOf(Written) \subseteq history /\ history \subseteq HRowsOf(Written \cup reorged)
      /\ step \notin Early => history \subseteq HRowsOf(Written)
  BY TreeAssumption DEF UpdateInv, BlocksInv, StoredInv, Written, Early
<1>1. /\ query = "open" /\ query' = "scan" /\ last' = last
      /\ UNCHANGED <<indexedTip, step, coming, reorged>> /\ Written' = Written
      /\ stats' = UNION {c.rows : c \in row}
      /\ scan' = {r \in history : \A c \in row : HeightOf(r) > Height[c.block]}
      /\ torn' = (torn \/ \E c \in row : c.torn)
  BY DEF OpenScan, indexer, Written
<1>2. last' = {}
  BY <1>1 DEF ReaderInv, ScanInv
<1>3. \A c \in row : Honest(c)
  BY DEF ReaderInv, CacheInv
<1>4. scan' \subseteq AllRows /\ stats' \subseteq AllRows
  <2>1. HRowsOf(Written \cup reorged) \subseteq AllRows
    BY <1>0 DEF AllRows, HRowsOf
  <2>2. stats' \subseteq AllRows
    BY <1>1, <1>3 DEF Honest
  <2>. QED  BY <1>0, <1>1, <2>1, <2>2
<1>. SUFFICES ASSUME ~torn' PROVE Clean'
  BY <1>1, <1>2, <1>4 DEF ScanInv
<1>5. \A c \in row : c.block \in Chain[indexedTip] /\ c.rows = HRowsOf(Chain[c.block])
  BY <1>1, <1>3 DEF Honest, ReaderInv, CacheInv
<1>6. ASSUME NEW y \in Written, scan' \cap HRows(y) # {}
      PROVE  stats' \subseteq HRowsOf(Chain[y]) /\ HRowsOf(Chain[y]) \subseteq stats' \cup scan'
  <2>1. PICK r \in scan' : r \in HRows(y)
    BY <1>6
  <2>2. y \in Blocks /\ y \in Chain[indexedTip] /\ Chain[y] \subseteq Written
    BY <1>0, <1>6
  <2>3. HRowsOf(Chain[y]) \subseteq history
    BY <1>0, <2>2, Sets
  <2>4. ASSUME NEW c \in row
        PROVE  /\ Chain[c.block] \subseteq Chain[y]
               /\ \A a \in Chain[y] : Height[a] <= Height[c.block] => a \in Chain[c.block]
    <3>1. HeightOf(r) = Height[y] /\ HeightOf(r) > Height[c.block]
      BY <1>1, <2>1, <2>2, HRowKinds
    <3>2. c.block \in Chain[indexedTip] /\ c.block \in Blocks
      BY <1>0, <1>5
    <3>3. Height[c.block] \in Nat /\ Height[y] \in Nat
      BY <2>2, <3>2, BranchFacts
    <3>4. c.block \in Chain[y]
      BY <1>0, <2>2, <3>1, <3>2, <3>3, Below
    <3>. QED  BY <2>2, <3>4, Below, BranchFacts
  <2>5. stats' \subseteq HRowsOf(Chain[y])
    <3>1. \A c \in row : c.rows \subseteq HRowsOf(Chain[y])
      BY <1>5, <2>4, Monotone
    <3>. QED  BY <1>1, <3>1
  <2>6. ASSUME NEW q \in HRowsOf(Chain[y]), q \notin scan' PROVE q \in stats'
    <3>1. PICK c \in row : ~(HeightOf(q) > Height[c.block])
      BY <1>1, <2>3, <2>6
    <3>2. PICK a \in Chain[y] : q \in HRows(a)
      BY DEF HRowsOf
    <3>3. a \in Blocks /\ HeightOf(q) = Height[a] /\ c.block \in Blocks
      BY <1>0, <1>5, <2>2, <3>2, BranchFacts, HRowKinds
    <3>4. Height[a] <= Height[c.block]
      BY <3>1, <3>3, BranchFacts
    <3>5. q \in c.rows
      BY <1>5, <2>4, <3>2, <3>4 DEF HRowsOf
    <3>. QED  BY <1>1, <3>5
  <2>. QED  BY <2>5, <2>6
<1>7. scan' \subseteq HRowsOf(Written \cup reorged) /\ (step \notin Early => scan' \subseteq HRowsOf(Written))
  BY <1>0, <1>1
<1>. QED  BY <1>1, <1>2, <1>6, <1>7 DEF Clean, Counted

(* A row is counted for the block that confirms its transaction at its     *)
(* height: the block it is a row of.  A row that is skipped is of no       *)
(* written block.                                                          *)
LEMMA ScanStep ==
    ASSUME UpdateInv, ReaderInv, ScanRow
    PROVE  ScanInv'
<1>0. /\ indexedTip \in Blocks /\ Chain[indexedTip] \subseteq Blocks /\ reorged \subseteq Blocks
      /\ Written \subseteq Chain[indexedTip] /\ \A y \in Written : Chain[y] \subseteq Written
  BY TreeAssumption DEF UpdateInv, BlocksInv, Written
<1>c. CRowsOf(Written) \subseteq conf /\ (step \in Early => conf \subseteq CRowsOf(Written \cup reorged))
  <2>1. /\ CRowsOf(Written) \subseteq CRowsOf(Written \cup reorged)
        /\ CRowsOf(Written) \subseteq CRowsOf(Chain[indexedTip])
    BY <1>0, Monotone
  <2>. QED  BY <2>1 DEF UpdateInv, BlocksInv, StoredInv, Early
<1>1. PICK r \in First(scan) :
         /\ scan' = scan \ {r}
         /\ \/ AtItsHeight(r) = {} /\ stats' = stats /\ last' = last
            \/ AtItsHeight(r) # {} /\ stats' = stats \cup {r} /\ last' = AtItsHeight(r)
  BY DEF ScanRow
<1>2. /\ query = "scan" /\ query' = query /\ torn' = torn
      /\ UNCHANGED <<indexedTip, step, coming, reorged>> /\ Written' = Written
  BY DEF ScanRow, indexer, Written
<1>3. r \in scan /\ \A q \in scan : HeightOf(r) < HeightOf(q) \/ HeightOf(r) = HeightOf(q)
  BY <1>1 DEF First
<1>4. scan' \subseteq AllRows /\ stats' \subseteq AllRows /\ last' \subseteq Blocks /\ \E x : last' \subseteq {x}
  <2>1. AtItsHeight(r) \subseteq Chain[indexedTip] /\ \A x \in AtItsHeight(r) : Height[x] = HeightOf(r)
    BY DEF AtItsHeight, ConfirmingBlock
  <2>2. \A x, y \in AtItsHeight(r) : x = y
    BY <1>0, <2>1, BranchFacts
  <2>3. \E x : AtItsHeight(r) \subseteq {x}
    <3>1. CASE AtItsHeight(r) = {}
      BY <3>1
    <3>2. CASE AtItsHeight(r) # {}
      <4>1. PICK x : x \in AtItsHeight(r)
        BY <3>2
      <4>2. AtItsHeight(r) \subseteq {x}
        BY <2>2, <4>1
      <4>. QED  BY <4>2
    <3>. QED  BY <3>1, <3>2
  <2>. QED  BY <1>0, <1>1, <1>3, <2>1, <2>3 DEF ReaderInv, ScanInv
<1>. SUFFICES ASSUME ~torn PROVE Clean'
  BY <1>2, <1>4 DEF ScanInv
<1>5. Clean
  BY DEF ReaderInv, ScanInv
<1>6. ASSUME NEW y \in Written, r \in HRows(y)
      PROVE  y \in AtItsHeight(r)
  <2>1. y \in Chain[indexedTip] /\ y \in Blocks /\ HeightOf(r) = Height[y] /\ TxOf(r) \in TxsOf(y)
    BY <1>0, <1>6, HRowKinds
  <2>2. <<"C", TxOf(r), y>> \in CRowsOf(Written)
    BY <2>1 DEF CRowsOf
  <2>. QED  BY <1>c, <2>1, <2>2 DEF AtItsHeight, ConfirmingBlock
<1>7. ASSUME NEW y \in AtItsHeight(r)
      PROVE  y \in Written /\ r \in HRows(y) /\ AtItsHeight(r) = {y} /\ Height[y] = HeightOf(r)
  <2>1. y \in Chain[indexedTip] /\ <<"C", TxOf(r), y>> \in conf /\ Height[y] = HeightOf(r) /\ y \in Blocks
    BY <1>0, <1>7 DEF AtItsHeight, ConfirmingBlock
  <2>2. PICK z \in Written \cup reorged : r \in HRows(z) /\ (step \notin Early => z \in Written)
    <3>1. CASE step \in Early
      BY <1>3, <1>5, <3>1 DEF Clean, HRowsOf
    <3>2. CASE step \notin Early
      BY <1>3, <1>5, <3>2 DEF Clean, HRowsOf
    <3>. QED  BY <3>1, <3>2
  <2>3. z \in Blocks /\ Height[z] = Height[y] /\ Height[y] \in Nat
    BY <1>0, <2>1, <2>2, HRowKinds, BranchFacts
  <2>4. z \in Written
    <3>. SUFFICES ASSUME step \in Early, z \in reorged PROVE FALSE
      BY <2>2
    <3>1. y \in Written \cup reorged
      BY <1>c, <2>1 DEF CRowsOf
    <3>2. y \in Written
      BY <2>1, <3>1 DEF UpdateInv, BlocksInv
    <3>3. Height[y] < Height[z]
      BY <3>2 DEF UpdateInv, BlocksInv
    <3>. QED  BY <2>3, <3>3
  <2>5. y = z
    BY <1>0, <2>1, <2>3, <2>4, BranchFacts
  <2>6. \A x \in AtItsHeight(r) : x = y
    BY <1>0, <2>1, BranchFacts DEF AtItsHeight, ConfirmingBlock
  <2>. QED  BY <1>7, <2>1, <2>2, <2>4, <2>5, <2>6
<1>8. /\ scan' \subseteq HRowsOf(Written \cup reorged)
      /\ step \notin Early => scan' \subseteq HRowsOf(Written)
  BY <1>1, <1>5 DEF Clean
<1>9. CASE AtItsHeight(r) = {} /\ stats' = stats /\ last' = last
  <2>1. r \notin HRowsOf(Written)
    BY <1>6, <1>9 DEF HRowsOf
  <2>2. ASSUME NEW y \in Written, Counted(y) PROVE Counted(y)'
    <3>1. r \notin HRowsOf(Chain[y])
      BY <1>0, <2>1 DEF HRowsOf
    <3>. QED  BY <1>1, <1>9, <2>2, <3>1 DEF Counted
  <2>3. \A l \in last : Counted(l)'
    BY <1>1, <1>5, <1>9, <2>2 DEF Clean, Counted
  <2>4. \A y \in Written : scan' \cap HRows(y) # {} => Counted(y)'
    BY <1>1, <1>5, <2>2 DEF Clean
  <2>. QED  BY <1>1, <1>2, <1>5, <1>8, <1>9, <2>3, <2>4 DEF Clean
<1>10. CASE AtItsHeight(r) # {} /\ stats' = stats \cup {r} /\ last' = AtItsHeight(r)
  <2>1. PICK y : y \in AtItsHeight(r)
    BY <1>10
  <2>2. last' = {y} /\ y \in Written /\ r \in HRows(y) /\ y \in Blocks /\ Height[y] = HeightOf(r)
    BY <1>0, <1>7, <1>10, <2>1
  <2>3. ASSUME NEW x \in Written, Counted(x), y \in Chain[x] PROVE Counted(x)'
    <3>1. r \in HRowsOf(Chain[x])
      BY <2>2, <2>3 DEF HRowsOf
    <3>. QED  BY <1>1, <1>10, <2>3, <3>1 DEF Counted
  <2>4. Counted(y)'
    BY <1>3, <1>5, <2>2, <2>3, BranchFacts DEF Clean
  <2>5. ASSUME NEW q \in scan PROVE HeightOf(q) \in Nat /\ HeightOf(q) >= Height[y]
    <3>1. PICK a \in Blocks : q \in HRows(a)
      BY <2>5 DEF ReaderInv, ScanInv, AllRows, HRowsOf
    <3>2. HeightOf(q) = Height[a] /\ Height[a] \in Nat /\ Height[y] \in Nat
      BY <2>2, <3>1, HRowKinds, BranchFacts
    <3>. QED  BY <1>3, <2>2, <2>5, <3>2
  <2>6. ASSUME NEW x \in Written, scan' \cap HRows(x) # {} PROVE Counted(x)'
    <3>1. PICK q \in scan : q \in HRows(x)
      BY <1>1, <2>6
    <3>2. x \in Blocks /\ HeightOf(q) = Height[x] /\ x \in Chain[indexedTip] /\ y \in Chain[indexedTip]
      BY <1>0, <2>2, <3>1, HRowKinds
    <3>3. Height[y] <= Height[x]
      BY <2>2, <2>5, <3>1, <3>2, BranchFacts
    <3>4. y \in Chain[x]
      BY <1>0, <3>2, <3>3, Below
    <3>. QED  BY <1>5, <2>3, <3>1, <3>4 DEF Clean
  <2>. QED  BY <1>1, <1>2, <1>8, <2>2, <2>4, <2>5, <2>6 DEF Clean
<1>. QED  BY <1>1, <1>9, <1>10

LEMMA ReaderStep ==
    ASSUME UpdateInv, ReaderInv, [Next]_vars
    PROVE  ReaderInv'
<1>1. CacheInv'
  BY CacheStep
<1>2. ASSUME UpdateIndex PROVE ScanInv'
  BY <1>2, ScanUpdate
<1>3. ASSUME GetCache \/ CheckHeight PROVE ScanInv'
  <2>1. query # "scan" /\ query' # "scan" /\ UNCHANGED <<stats, last, scan>>
    BY <1>3 DEF GetCache, CheckHeight
  <2>2. last = {} /\ stats = {} /\ scan = {}
    BY <2>1 DEF ReaderInv, ScanInv
  <2>. QED  BY <2>1, <2>2 DEF ScanInv, Clean
<1>4. ASSUME OpenScan PROVE ScanInv'
  BY <1>4, OpenStep
<1>5. ASSUME ScanRow PROVE ScanInv'
  BY <1>5, ScanStep
<1>6. ASSUME Save PROVE ScanInv'
  <2>1. query' = "idle" /\ stats' = {} /\ last' = {} /\ scan' = {}
    BY <1>6 DEF Save
  <2>. QED  BY <2>1 DEF ScanInv, Clean
<1>7. ASSUME UNCHANGED vars PROVE ScanInv'
  <2>1. UNCHANGED <<indexedTip, step, reorged, coming, query, stats, last, scan, torn>>
    BY <1>7 DEF vars, indexer, reader
  <2>. QED  BY <2>1 DEF ReaderInv, ScanInv, Clean, Counted, Written
<1>. QED  BY <1>1, <1>2, <1>3, <1>4, <1>5, <1>6, <1>7 DEF ReaderInv, Next, Query

LEMMA InvSound == ASSUME UpdateInv, ReaderInv PROVE CacheSound
<1>0. /\ indexedTip \in Blocks /\ Chain[indexedTip] \subseteq Blocks
      /\ reorged \subseteq Blocks /\ coming \subseteq Blocks /\ Written \subseteq Blocks
  BY TreeAssumption DEF UpdateInv, BlocksInv, Written
<1>1. history \subseteq AllRows /\ conf \subseteq CRowsOf(Blocks)
  <2>1. Written \cup reorged \subseteq Blocks
    BY <1>0
  <2>2. /\ CRowsOf(Written \cup reorged) \subseteq CRowsOf(Blocks)
        /\ CRowsOf(Written) \subseteq CRowsOf(Blocks) /\ CRowsOf(Chain[indexedTip]) \subseteq CRowsOf(Blocks)
        /\ HRowsOf(Written \cup reorged) \subseteq HRowsOf(Blocks)
    BY <1>0, <2>1, Monotone
  <2>. QED  BY <2>2 DEF UpdateInv, BlocksInv, StoredInv, AllRows, Early
<1>2. Cardinality(cache) <= 1
  <2>1. PICK x : cache \subseteq {x}
    BY DEF ReaderInv, CacheInv
  <2>2. cache = {} \/ cache = {x}
    BY <2>1
  <2>3. Cardinality({}) = 0 /\ Cardinality({x}) = 1
    BY FS_EmptySet, FS_Singleton
  <2>. QED  BY <2>2, <2>3
<1>3. \A c \in cache \cup row : c.rows \subseteq AllRows /\ c.block \in Blocks /\ c.torn \in BOOLEAN
  BY DEF ReaderInv, CacheInv, Honest
<1>4. stats \subseteq AllRows /\ last \subseteq Blocks /\ scan \subseteq AllRows
  BY DEF ReaderInv, ScanInv
<1>5. step = "idle" => history = HRowsOf(Chain[indexedTip]) /\ conf = CRowsOf(Chain[indexedTip])
  <2>1. step = "idle" => Written = Chain[indexedTip]
    BY DEF UpdateInv, BlocksInv, Written
  <2>. QED  BY <2>1 DEF UpdateInv, StoredInv
<1>6. TypeOK
  BY <1>0, <1>1, <1>2, <1>3, <1>4, <1>5 DEF TypeOK, UpdateInv, BlocksInv, ReaderInv, CacheInv, Early
<1>7. CacheHonest
  BY DEF CacheHonest, ReaderInv, CacheInv, Honest
<1>. QED  BY <1>6, <1>7 DEF CacheSound

(* A cached answer counts exactly the rows of the branch that ends in its  *)
(* block, for every block tree and whatever rollbacks and returning        *)
(* branches came while it was computed, unless one of them overtook the    *)
(* query that saved it or one it built on; each of the three ways to be    *)
(* overtaken is needed (README.md).                                        *)
THEOREM CacheAlwaysSound == Spec => []CacheSound
<1>1. UpdateInv /\ ReaderInv /\ [Next]_vars => (UpdateInv /\ ReaderInv)'
  BY BlocksStep, StoredStep, ReaderStep DEF UpdateInv
<1>. QED  BY CacheInit, <1>1, InvSound, PTL DEF Spec

-----------------------------------------------------------------------------
(* The process.                                                            *)

(* The main thread is none of the client threads, and NoOne is no thread.  *)
ThreadsDistinct == Main \notin Clients /\ NoOne \notin Threads

Holding == {"reply", "connect", "pause", "doze"}
Calls == {"none", "lock", "reply", "wait", "sleep", "relock", "connect", "pause", "doze"}
           \cup Results
Rounds == {"getbestblockhash", "indexer.update", "mempool.update"}
Endings == {"reststop", "flush", "join", "watchdog", "failed"}

ProcessType ==
    /\ up \in {"down", "warm", "up"} /\ conn \in BOOLEAN /\ lock \in Threads \cup {NoOne}
    /\ call \in [Threads -> Calls]
    /\ chan = {} \/ \E s \in Signals : chan = {s}
    /\ pending \subseteq Signals
    /\ main \in {"loop", "poll"} \cup Rounds \cup Endings
    /\ rest \in BOOLEAN /\ flushed \in BOOLEAN
    /\ exit \in {"no", "clean", "forced", "error"}

(* The main thread is in a request exactly in the three steps of a round.  *)
MainInv == call[Main] # "none" <=> main \in Rounds

(* How far the end of the process has come.                                *)
Quiet == \A c \in Clients : call[c] = "none"

EndInv ==
    /\ main \in {"flush", "join", "watchdog"} => ~rest /\ Quiet
    /\ main \in {"join", "watchdog"} => flushed
    /\ exit \in {"forced", "clean"} => main \in {"join", "watchdog"}

ProcessInv == ProcessType /\ MainInv /\ EndInv /\ ConnGuarded

LEMMA ProcessInit == ThreadsDistinct /\ ShutdownInit => ProcessInv
<1>. SUFFICES ASSUME ThreadsDistinct, ShutdownInit PROVE ProcessInv
  OBVIOUS
<1>1. ProcessType
  BY DEF ShutdownInit, ProcessType, Calls
<1>2. MainInv /\ EndInv
  BY DEF ShutdownInit, MainInv, EndInv, Threads, Rounds
<1>3. ConnGuarded
  BY DEF ShutdownInit, ConnGuarded, ThreadsDistinct
<1>. QED  BY <1>1, <1>2, <1>3 DEF ProcessInv

(* A thread's request moves on: the mutex goes with its new place, and the *)
(* main thread enters or leaves a request only with its own step.          *)
LEMMA CallStep ==
    ASSUME ThreadsDistinct, ProcessInv, NEW t \in Threads, NEW l \in Calls, At(t, l),
           lock' \in {lock, NoOne, t},
           l \in Holding => lock' = t,
           l \notin Holding => lock' = IF lock = t THEN NoOne ELSE lock,
           call[t] \notin Holding /\ l \in Holding => lock = NoOne
    PROVE  call' \in [Threads -> Calls] /\ lock' \in Threads \cup {NoOne} /\ ConnGuarded'
<1>1. call \in [Threads -> Calls] /\ lock \in Threads \cup {NoOne}
  BY DEF ProcessInv, ProcessType
<1>2. \A u \in Threads : call'[u] = IF u = t THEN l ELSE call[u]
  BY <1>1 DEF At
<1>3. \A u \in Threads : lock = u <=> call[u] \in Holding
  BY DEF ProcessInv, ConnGuarded, Holding
<1>4. \A u \in Threads : lock' = u <=> call'[u] \in Holding
  BY <1>1, <1>2, <1>3 DEF ThreadsDistinct
<1>. QED  BY <1>1, <1>4 DEF At, ConnGuarded, Holding

(* A step of a request that is under way.                                  *)
LEMMA RequestStep ==
    ASSUME ThreadsDistinct, ProcessInv, NEW t \in Threads, Step(t)
    PROVE  ProcessInv'
<1>0. /\ call \in [Threads -> Calls] /\ lock \in Threads \cup {NoOne} /\ Main \in Threads
      /\ conn \in BOOLEAN /\ up \in {"down", "warm", "up"}
      /\ lock = t <=> call[t] \in Holding
  BY DEF ProcessInv, ProcessType, Threads, ConnGuarded, Holding
<1>1. /\ call[t] # "none" /\ UNCHANGED <<up, ending, pending>> /\ conn' \in BOOLEAN
      /\ chan' \in {chan, {}}
  BY <1>0 DEF Step, Lock, Reply, BeginsWait, Waits, Receive, Connect, Results, signal
<1>2. \/ UNCHANGED <<call, lock>>
      \/ \E l \in Calls \ {"none"} :
           /\ At(t, l) /\ lock' \in {lock, NoOne, t}
           /\ l \in Holding => lock' = t
           /\ l \notin Holding => lock' = IF lock = t THEN NoOne ELSE lock
           /\ call[t] \notin Holding /\ l \in Holding => lock = NoOne
  <2>. DEFINE G(l) == /\ At(t, l) /\ lock' \in {lock, NoOne, t}
                      /\ l \in Holding => lock' = t
                      /\ l \notin Holding => lock' = IF lock = t THEN NoOne ELSE lock
                      /\ call[t] \notin Holding /\ l \in Holding => lock = NoOne
  <2>1. CASE Lock(t)
    <3>1. G(IF call[t] = "lock" THEN "reply" ELSE "connect")
      BY <1>0, <2>1 DEF Lock, Holding
    <3>. QED  BY <3>1 DEF Calls
  <2>2. CASE Reply(t)
    <3>1. PICK l \in {"ok", "busy", "gone", "wait"} : At(t, l) /\ lock' = NoOne /\ lock = t
      BY <1>0, <2>2 DEF Reply, Holding
    <3>2. G(l)
      BY <3>1 DEF Holding
    <3>. QED  BY <3>2 DEF Calls, Results
  <2>3. CASE BeginsWait(t)
    <3>1. PICK l \in {"stop", "sleep", "doze"} :
            /\ At(t, l)
            /\ lock' = IF l = "stop" /\ lock = t THEN NoOne ELSE lock
            /\ l = "sleep" => call[t] = "wait"
            /\ l = "doze" => call[t] = "pause"
      BY <1>0, <2>3 DEF BeginsWait
    <3>2. G(l)
      BY <1>0, <3>1 DEF Holding
    <3>. QED  BY <3>2 DEF Calls, Results
  <2>4. CASE Waits(t)
    <3>1. CASE UNCHANGED <<call, lock>>
      BY <3>1
    <3>2. CASE ~UNCHANGED <<call, lock>>
      <4>1. PICK l \in {"stop", "relock", "connect"} :
              /\ At(t, l)
              /\ lock' = IF l = "stop" /\ lock = t THEN NoOne ELSE lock
              /\ l = "relock" => call[t] = "sleep"
              /\ l = "connect" => call[t] = "doze"
        BY <1>0, <2>4, <3>2 DEF Waits, Receive
      <4>2. G(l)
        BY <1>0, <4>1 DEF Holding
      <4>. QED  BY <4>2 DEF Calls, Results
    <3>. QED  BY <3>1, <3>2
  <2>5. CASE Connect(t)
    <3>1. lock = t
      BY <1>0, <2>5 DEF Connect, Holding
    <3>2. G("lock") \/ G("pause")
      BY <2>5, <3>1 DEF Connect, Holding
    <3>. QED  BY <3>2 DEF Calls
  <2>. QED  BY <2>1, <2>2, <2>3, <2>4, <2>5 DEF Step
<1>3. call' \in [Threads -> Calls] /\ lock' \in Threads \cup {NoOne} /\ ConnGuarded'
  <2>1. CASE UNCHANGED <<call, lock>>
    BY <1>0, <2>1 DEF ProcessInv, ConnGuarded
  <2>. QED  BY <1>2, <2>1, CallStep
<1>4. MainInv'
  <2>1. call'[Main] = "none" <=> call[Main] = "none"
    BY <1>0, <1>1, <1>2 DEF At
  <2>. QED  BY <1>1, <2>1 DEF ProcessInv, MainInv, ending
<1>5. ProcessType'
  BY <1>1, <1>3 DEF ProcessInv, ProcessType, ending
<1>6. EndInv'
  <2>1. CASE main \in {"flush", "join", "watchdog"}
    <3>1. t \notin Clients /\ t # Main
      BY <1>1, <2>1 DEF ProcessInv, EndInv, Quiet, MainInv, Rounds
    <3>. QED  BY <3>1 DEF Threads
  <2>2. CASE main \notin {"flush", "join", "watchdog"}
    BY <1>1, <2>2 DEF ProcessInv, EndInv, ending
  <2>. QED  BY <2>1, <2>2
<1>. QED  BY <1>3, <1>4, <1>5, <1>6 DEF ProcessInv

LEMMA ProcessStep ==
    ASSUME ThreadsDistinct, ProcessInv, [ShutdownNext]_shutdownVars
    PROVE  ProcessInv'
<1>0. Main \in Threads /\ Clients \subseteq Threads /\ call \in [Threads -> Calls]
  BY DEF Threads, ProcessInv, ProcessType
<1>. USE DEF ProcessInv
<1>1. ASSUME NEW s \in Signals, Kill(s) PROVE ProcessInv'
  BY <1>1 DEF Kill, link, ending, ProcessType, MainInv, EndInv, Quiet, ConnGuarded
<1>2. CASE Notifier
  BY <1>2 DEF Notifier, link, ending, ProcessType, MainInv, EndInv, Quiet, ConnGuarded
<1>3. CASE Crash \/ Restart
  <2>1. UNCHANGED <<lock, call, signal, ending>>
    BY <1>3 DEF Crash, Restart
  <2>2. up' \in {"down", "warm", "up"}
    BY <1>3 DEF Crash, Restart
  <2>3. conn' \in BOOLEAN
    BY <1>3 DEF Crash, Restart, ProcessType
  <2>. QED  BY <2>1, <2>2, <2>3 DEF signal, ending, ProcessType, MainInv, EndInv, Quiet,
                                    ConnGuarded
<1>4. ASSUME NEW t \in Threads, Step(t) PROVE ProcessInv'
  BY <1>4, RequestStep
<1>5. ASSUME NEW c \in Clients, NEW l \in {"none", "lock"}, At(c, l), call[c] \notin Holding,
             l = "lock" => rest, UNCHANGED <<up, conn, lock, signal, ending>>
      PROVE  ProcessInv'
  <2>1. call' \in [Threads -> Calls] /\ ConnGuarded' /\ lock # c
    BY <1>0, <1>5, CallStep DEF Calls, Holding, ProcessType, ConnGuarded
  <2>2. call'[Main] = call[Main]
    BY <1>0, <1>5 DEF At, ThreadsDistinct
  <2>3. l = "none" /\ Quiet => Quiet'
    BY <1>0, <1>5 DEF At, Quiet
  <2>. QED  BY <1>5, <2>1, <2>2, <2>3 DEF signal, ending, ProcessType, MainInv, EndInv
<1>6. ASSUME NEW c \in Clients, ClientAnswered(c) \/ ClientReturns(c) PROVE ProcessInv'
  BY <1>5, <1>6 DEF ClientAnswered, ClientReturns, Results, Holding
<1>6a. ASSUME NEW c \in Clients, ClientStalls(c) PROVE ProcessInv'
  BY <1>6a DEF ClientStalls, link, signal, ending, ProcessType, MainInv, EndInv, Quiet, ConnGuarded
<1>7. ASSUME NEW c \in Clients, NEW o \in BOOLEAN, ClientAsks(c, o) PROVE ProcessInv'
  BY <1>5, <1>7 DEF ClientAsks, Holding
<1>8. ASSUME NEW l \in {"none", "lock"}, At(Main, l), call[Main] \notin Holding,
             NEW m \in {"loop", "failed"} \cup Rounds, MainAt(m), l = "lock" <=> m \in Rounds,
             Alive, UNCHANGED <<up, conn, lock, pending>>, chan' \in {chan, {}}
      PROVE  ProcessInv'
  <2>1. call' \in [Threads -> Calls] /\ ConnGuarded'
    BY <1>0, <1>8, CallStep DEF Calls, Holding, ProcessType, ConnGuarded
  <2>2. call'[Main] = l
    BY <1>0, <1>8 DEF At
  <2>3. MainInv'
    BY <1>8, <2>2 DEF MainInv, MainAt
  <2>4. EndInv'
    BY <1>8 DEF EndInv, MainAt, Alive, Rounds
  <2>. QED  BY <1>8, <2>1, <2>3, <2>4 DEF ProcessType, MainAt, Endings
<1>9. CASE BeginsRound
  BY <1>9 DEF BeginsRound, MainAt, link, signal, Alive, ProcessType, MainInv, EndInv, Quiet,
              ConnGuarded, Rounds, Endings
<1>10. CASE Poll
  <2>1. CASE MainAt("getbestblockhash") /\ At(Main, "lock")
    <3>1. call[Main] = "none"
      BY <1>10 DEF Poll, MainInv, Rounds
    <3>2. Alive /\ UNCHANGED <<up, conn, lock, pending>> /\ chan' \in {chan, {}}
      BY <1>10 DEF Poll, Receive
    <3>. QED  BY <1>8, <2>1, <3>1, <3>2 DEF Rounds, Holding
  <2>2. CASE ~(MainAt("getbestblockhash") /\ At(Main, "lock"))
    <3>1. /\ call' = call /\ UNCHANGED <<up, conn, lock, pending, rest, flushed, exit>>
          /\ Alive /\ main = "poll" /\ main' \in {main, "reststop"} /\ chan' \in {chan, {}}
      BY <1>10, <2>2 DEF Poll, Receive, MainAt, ending
    <3>. QED  BY <3>1 DEF Alive, ProcessType, MainInv, EndInv, Quiet, ConnGuarded, Rounds, Endings
  <2>. QED  BY <2>1, <2>2
<1>11. CASE MainResult
  <2>1. /\ call[Main] \notin Holding /\ Alive /\ UNCHANGED <<up, conn, lock, pending, chan>>
    BY <1>11 DEF MainResult, Results, Holding, signal
  <2>2. \/ \E m \in Rounds : MainAt(m) /\ At(Main, "lock")
        \/ \E m \in {"loop", "failed"} : MainAt(m) /\ At(Main, "none")
    BY <1>11 DEF MainResult, Rounds
  <2>. QED  BY <1>8, <2>1, <2>2 DEF Rounds
<1>12. CASE RestStop
  <2>1. /\ UNCHANGED <<link, signal, flushed, exit>> /\ main = "reststop" /\ exit = "no"
        /\ (main' = main \/ (main' = "flush" /\ ~rest /\ rest' = rest /\ Quiet))
    BY <1>12 DEF RestStop, Alive, Quiet
  <2>2. rest' \in BOOLEAN
    BY <1>12 DEF RestStop, ProcessType
  <2>. QED  BY <2>1, <2>2 DEF link, signal, ProcessType, MainInv, EndInv, Quiet, ConnGuarded,
                              Rounds, Endings
<1>13. CASE Flush
  BY <1>13 DEF Flush, link, signal, Alive, ProcessType, MainInv, EndInv, Quiet, ConnGuarded, Rounds,
               Endings
<1>14. CASE ElectrumJoin
  BY <1>14 DEF ElectrumJoin, link, signal, Alive, ProcessType, MainInv, EndInv, Quiet, ConnGuarded,
               Rounds, Endings
<1>15. CASE ArmWatchdog
  BY <1>15 DEF ArmWatchdog, link, signal, Alive, ProcessType, MainInv, EndInv, Quiet, ConnGuarded
<1>16. CASE Unwind
  BY <1>16 DEF Unwind, link, signal, Alive, ProcessType, MainInv, EndInv, Quiet, ConnGuarded
<1>17. CASE ElectrumEnds
  BY <1>17 DEF ElectrumEnds, link, signal, ProcessType, MainInv, EndInv, Quiet, ConnGuarded
<1>18. CASE UNCHANGED shutdownVars
  BY <1>18 DEF shutdownVars, link, signal, ending, ProcessType, MainInv, EndInv, Quiet, ConnGuarded
<1>. QED  BY <1>1, <1>2, <1>3, <1>4, <1>6, <1>7, <1>9, <1>10, <1>11, <1>12, <1>13, <1>14, <1>15,
             <1>16, <1>17, <1>18, <1>6a DEF ShutdownNext, MainStep, Ended

(* However requests, outages and signals interleave, the process is only   *)
(* left by force, or cleanly, after REST was stopped, its requests were    *)
(* done and the databases were flushed, and the mutex of the connection is *)
(* held by exactly the thread that uses it: none keeps it when it ends its *)
(* call.                                                                   *)
THEOREM ProcessOrderly ==
    ASSUME ThreadsDistinct
    PROVE  ShutdownSpec => []OrderlyProcess
<1>1. ShutdownInit => ProcessInv
  BY ProcessInit
<1>2. ProcessInv /\ [ShutdownNext]_shutdownVars => ProcessInv'
  BY ProcessStep
<1>3. ProcessInv => OrderlyProcess
  <2>. SUFFICES ASSUME ProcessInv PROVE OrderlyProcess
    OBVIOUS
  <2>1. Cardinality(chan) <= 1
    <3>1. CASE chan = {}
      BY <3>1, FS_EmptySet
    <3>2. ASSUME NEW s \in Signals, chan = {s} PROVE Cardinality(chan) <= 1
      BY <3>2, FS_Singleton
    <3>. QED  BY <3>1, <3>2 DEF ProcessInv, ProcessType
  <2>2. main = "loop" => call[Main] = "none"
    BY DEF ProcessInv, MainInv, Rounds
  <2>3. ShutdownTypeOK
    BY <2>1, <2>2 DEF ProcessInv, ProcessType, ShutdownTypeOK, Calls
  <2>4. ForcedAfterFlush
    BY DEF ProcessInv, EndInv, Quiet, ForcedAfterFlush
  <2>. QED  BY <2>3, <2>4 DEF ProcessInv, OrderlyProcess
<1>. QED  BY <1>1, <1>2, <1>3, PTL DEF ShutdownSpec

=============================================================================
