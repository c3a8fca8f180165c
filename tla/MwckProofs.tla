----------------------------- MODULE MwckProofs -----------------------------
(***************************************************************************)
(* Theorems about Mwck, for every block tree, every set of tips bitcoind   *)
(* may present, every window and any number of loops, subscriptions,       *)
(* broadcasts and failed mempool updates.                                  *)
(***************************************************************************)
EXTENDS Mwck, FiniteSetTheorems, WellFoundedInduction, TLAPS

-----------------------------------------------------------------------------
(* What recent_confirmed holds, however deep reorganisations go: blocks of *)
(* the branch it was last brought up to.                                   *)
RecentInv ==
    /\ pc \notin {"orphans", "blocks"} => confirmed = {} /\ recent \subseteq Chain[tip]
    /\ pc = "orphans" => confirmed = {} /\ \E o \in Blocks : recent \subseteq Chain[o]
    /\ pc = "blocks" => recent \subseteq Chain[tip] /\ confirmed \subseteq Chain[tip]

TypeInv == TypeOK /\ RecentInv

(* Type correctness.                                                       *)

LEMMA ChainOfBlock ==
    ASSUME NEW b \in Blocks
    PROVE  /\ Chain[b] \subseteq Blocks
           /\ \A c \in Chain[b] : Height[c] \in Nat
           /\ \A a, c \in Chain[b] : Height[a] = Height[c] => a = c
BY TreeAssumption, HeightAssumption

LEMMA TxsOfBlock == \A b \in Blocks : TxsOf(b) \subseteq Txs
BY TxAssumption DEF TxsOf

LEMMA TellType ==
    ASSUME last \in [Txs -> Said], NEW S, NEW what \in Said, Tell(S, what)
    PROVE  last' \in [Txs -> Said]
BY DEF Tell

LEMMA TypeInit == Init => TypeInv
BY MwckAssumption DEF Init, TypeInv, TypeOK, RecentInv, Said

LEMMA TypeStep == TypeInv /\ [Next]_vars => TypeInv'
<1>. SUFFICES ASSUME TypeInv, [Next]_vars PROVE TypeInv'
  OBVIOUS
<1>. USE DEF TypeInv, TypeOK, RecentInv
<1>0. Chain[tip] \subseteq Blocks /\ \A a, c \in Chain[tip] : Height[a] = Height[c] => a = c
  BY ChainOfBlock
<1>1. CASE TopOfLoop
  BY <1>1, TreeAssumption DEF TopOfLoop, hub
<1>2. ASSUME NEW b \in Moves, IndexBlocks(b) PROVE TypeInv'
  BY <1>2, MwckAssumption DEF IndexBlocks, hub
<1>3. CASE NoNewBlock
  BY <1>3 DEF NoNewBlock, hub
<1>4. CASE NotifyOrphans
  <2>1. EmitBlocks \subseteq Chain[tip]
    BY DEF EmitBlocks, Replacements, Forward, BlockAt
  <2>2. recent \ Stale \subseteq Chain[tip]
    BY DEF Stale
  <2>3. last' \in [Txs -> Said]
    BY <1>4, TellType DEF NotifyOrphans, Said
  <2>. QED  BY <1>0, <1>4, <2>1, <2>2, <2>3 DEF NotifyOrphans
<1>5. CASE NotifyBlocks
  <2>1. last' \in [Txs -> Said]
    BY <1>5, TellType DEF NotifyBlocks, Said
  <2>2. recent' \subseteq recent \cup confirmed
    BY <1>5 DEF NotifyBlocks, Kept
  <2>. QED  BY <1>5, <2>1, <2>2 DEF NotifyBlocks
<1>6. ASSUME NEW S \in SUBSET Unconfirmed, UpdateMempool(S) PROVE TypeInv'
  BY <1>6, MwckAssumption DEF UpdateMempool, hub, Unconfirmed
<1>7. ASSUME NEW S \in SUBSET mempool, UpdateFails(S) PROVE TypeInv'
  BY <1>7, MwckAssumption DEF UpdateFails, hub
<1>8. CASE NotifyMempool
  BY <1>8 DEF NotifyMempool, Added, Removed, Said
<1>9. ASSUME NEW t \in MempoolTxs, Broadcast(t) PROVE TypeInv'
  BY <1>9, MwckAssumption DEF Broadcast, hub, loop
<1>10. CASE Subscribe
  BY <1>10 DEF Subscribe, loop, Said
<1>11. CASE Register
  BY <1>11 DEF Register, loop, hub
<1>12. CASE Detach
  BY <1>12 DEF Detach, loop, hub, Said
<1>13. CASE UNCHANGED vars
  BY <1>13 DEF vars, loop, hub
<1>. QED  BY <1>1, <1>2, <1>3, <1>4, <1>5, <1>6, <1>7, <1>8, <1>9, <1>10, <1>11, <1>12,
             <1>13 DEF Next, LoopStep

(* Every reachable state of the hub has its type.  In particular           *)
(* recent_confirmed, which the code keys by height, never has two blocks   *)
(* for one height, however deep the reorganisations are.                   *)
THEOREM TypeCorrect == Spec => []TypeOK
<1>1. Spec => []TypeInv
  BY TypeInit, TypeStep, PTL DEF Spec
<1>. QED  BY <1>1, PTL DEF TypeInv

-----------------------------------------------------------------------------
(* Lemmas about the block tree.                                            *)

(* A set of heights has a smallest one: its segments 0..n are finite sets, *)
(* ordered by strict inclusion.                                            *)
LEMMA LeastNat ==
    ASSUME NEW T, T \subseteq Nat, T # {}
    PROVE  \E x \in T : \A y \in T : x <= y
<1>. DEFINE I == {0..n : n \in T}
<1>0. \A n \in Nat : IsFiniteSet(0..n) /\ 0..n \in SUBSET Nat
  BY FS_Interval
<1>1. I \subseteq FiniteSubsetsOf(Nat) /\ I # {}
  BY <1>0 DEF FiniteSubsetsOf
<1>2. \E s \in I : \A t \in I : ~(<<t, s>> \in StrictSubsetOrdering(Nat))
  <2>. HIDE DEF I
  <2>. QED  BY <1>1, WFMin, FS_StrictSubsetOrderingWellFounded
<1>3. PICK x \in T : \A y \in T : ~(<<0..y, 0..x>> \in StrictSubsetOrdering(Nat))
  BY <1>2
<1>4. ASSUME NEW y \in T, y < x PROVE FALSE
  <2>1. 0..y \subseteq 0..x /\ x \notin 0..y /\ x \in 0..x
    BY <1>4
  <2>. QED  BY <1>0, <1>3, <2>1 DEF StrictSubsetOrdering
<1>. QED  BY <1>4

(* A branch has a block at every height up to its tip: take the lowest tip *)
(* of a branch that has none at height h.                                  *)
LEMMA BlockAtHeight ==
    ASSUME NEW b \in Blocks, NEW h \in 0..Height[b]
    PROVE  \E a \in Chain[b] : Height[a] = h
<1>. DEFINE Bad == {n \in Nat : \E c \in Blocks : Height[c] = n /\ ~\E a \in Chain[c] : Height[a] = h}
<1>. DEFINE T == {n \in Bad : n >= h}
<1>. SUFFICES ASSUME T # {} PROVE FALSE
  BY TreeAssumption
<1>1. PICK n \in T : \A m \in T : n <= m
  BY LeastNat
<1>2. PICK c \in Blocks : Height[c] = n /\ ~\E a \in Chain[c] : Height[a] = h
  BY <1>1
<1>3. n # h
  BY <1>2, TreeAssumption
<1>4. Parent[c] \in Blocks /\ Height[Parent[c]] = n - 1 /\ n - 1 >= h
  BY <1>1, <1>2, <1>3, TreeAssumption, HeightAssumption
<1>5. ~\E a \in Chain[Parent[c]] : Height[a] = h
  BY <1>2, TreeAssumption
<1>6. n - 1 \in T
  BY <1>1, <1>4, <1>5
<1>. QED BY <1>1, <1>6

-----------------------------------------------------------------------------
(* What the client believes.                                               *)

(* A block is forkable when some tip's branch lacks it.                    *)
Tips == Moves \cup {Start}
Forkable(c) == \E m \in Moves : c \notin Chain[m]
Forks(b) == {c \in Chain[b] : Forkable(c)}

(* The hub is created below every fork, and no move abandons a block that  *)
(* is more than Window below the tip it leaves.                            *)
ReorgsFit ==
    /\ \A m \in Moves : Start \in Chain[m]
    /\ \A m, n \in Moves : \A c \in Chain[m] \ Chain[n] : Height[c] >= Height[m] - Window

(* What the client was told of the transactions of the blocks of S.        *)
SaidOnly(S) == \A t \in Txs : last[t] = "confirmed" => \E c \in S : t \in TxsOf(c)
SaidAll(S) == \A c \in S : \A t \in TxsOf(c) \ MempoolTxs : last[t] = "confirmed"

(* A client that took its snapshot is registered before the loop goes on.  *)
ReplyWaits == client = "reply" => pc = "wait"

MempoolPart == mempool \subseteq MempoolTxs /\ prevTxids \subseteq MempoolTxs

(* Before the tip moves and after notify_new_tip, what is remembered and   *)
(* what was told belong to the branch of the tip; in between, to that of   *)
(* the tip the loop started from.                                          *)
Settled(b) ==
    /\ recent \subseteq Chain[b] /\ Forks(b) \subseteq recent
    /\ client # "off" => SaidOnly(Chain[b]) /\ SaidAll(Chain[b])

ChainInv ==
    /\ tip \in Tips /\ ReplyWaits /\ MempoolPart
    /\ pc = "poll" => prevHeight = Height[tip]
    /\ pc \notin {"orphans", "blocks"} => Settled(tip)
    /\ pc = "orphans" => tip \in Moves /\ \E o \in Tips : prevHeight = Height[o] /\ Settled(o)
    /\ pc = "blocks" =>
         /\ Forks(tip) \subseteq recent \cup confirmed
         /\ client # "off" => SaidOnly(Chain[tip]) /\ SaidAll(Chain[tip] \ confirmed)

(* A transaction the client believes in the mempool has a body, and is in  *)
(* the set of txids that the next comparison starts from.                  *)
BodyInv ==
    /\ ReplyWaits
    /\ fails = 0 /\ client # "off" =>
         \A t \in Txs : last[t] = "mempool" =>
             t \in bodies /\ t \in (IF pc = "wait" THEN mempool ELSE prevTxids)

LEMMA BodyInit == Init => BodyInv
BY DEF Init, BodyInv, ReplyWaits

LEMMA BodyStep ==
    ASSUME ~MayOverlap, TypeInv, BodyInv, [Next]_vars
    PROVE  BodyInv'
<1>. USE DEF BodyInv, ReplyWaits
<1>0. /\ last \in [Txs -> Said] /\ fails \in Nat /\ mempool \subseteq Txs
      /\ client \in {"off", "reply", "on"}
  BY MwckAssumption DEF TypeInv, TypeOK
<1>1. CASE TopOfLoop
  BY <1>1 DEF TopOfLoop, hub
<1>2. ASSUME NEW b \in Moves, IndexBlocks(b) PROVE BodyInv'
  BY <1>2 DEF IndexBlocks, hub
<1>3. CASE NoNewBlock
  BY <1>3 DEF NoNewBlock, hub
<1>4. CASE NotifyOrphans
  <2>. DEFINE O == UNION {TxsOf(b) : b \in Stale}
  <2>1. /\ Tell(O, "removed") /\ bodies' = bodies \ O
        /\ pc = "orphans" /\ pc' = "blocks" /\ UNCHANGED <<prevTxids, client, fails>>
    BY <1>4 DEF NotifyOrphans
  <2>. HIDE DEF O
  <2>. QED  BY <1>0, <2>1 DEF Tell
<1>5. CASE NotifyBlocks
  BY <1>0, <1>5 DEF NotifyBlocks, Tell
<1>6. ASSUME NEW S \in SUBSET Unconfirmed, UpdateMempool(S) PROVE BodyInv'
  BY <1>6 DEF UpdateMempool, hub
<1>7. ASSUME NEW S \in SUBSET mempool, UpdateFails(S) PROVE BodyInv'
  BY <1>0, <1>7 DEF UpdateFails, hub
<1>8. CASE NotifyMempool
  <2>. SUFFICES ASSUME fails = 0, client = "on", NEW t \in Txs, last'[t] = "mempool"
                PROVE  t \in bodies' /\ t \in mempool
    BY <1>0, <1>8 DEF NotifyMempool
  <2>1. CASE t \in Added
    BY <1>8, <2>1 DEF NotifyMempool, Added, Removed
  <2>2. CASE t \notin Added
    <3>1. t \notin Matched(Removed) /\ last[t] = "mempool"
      BY <1>0, <1>8, <2>2 DEF NotifyMempool
    <3>2. t \in bodies /\ t \in prevTxids
      BY <1>8, <3>1 DEF NotifyMempool
    <3>3. t \notin Removed
      BY <3>1, <3>2 DEF Matched
    <3>. QED  BY <1>8, <3>2, <3>3 DEF NotifyMempool, Removed
  <2>. QED  BY <2>1, <2>2
<1>9. ASSUME NEW t \in MempoolTxs, Broadcast(t) PROVE BodyInv'
  BY <1>9 DEF Broadcast, hub, loop
<1>10. CASE Subscribe
  BY <1>10 DEF Subscribe, loop
<1>11. CASE Register
  BY <1>11 DEF Register, loop, hub
<1>12. CASE Detach
  BY <1>12 DEF Detach, loop, hub
<1>13. CASE UNCHANGED vars
  BY <1>13 DEF vars, loop, hub
<1>. QED  BY <1>1, <1>2, <1>3, <1>4, <1>5, <1>6, <1>7, <1>8, <1>9, <1>10, <1>11, <1>12,
             <1>13 DEF Next, LoopStep

(* As long as no Mempool::update failed, a client that listens between two *)
(* loops believes no transaction in the mempool that has left it, whatever *)
(* broadcasters add while notify_mempool compares the two reads and        *)
(* whatever blocks were orphaned.                                          *)
THEOREM MempoolNeverStale ==
    ASSUME ~MayOverlap
    PROVE  Spec => []MempoolSound
<1>1. BodyInv => MempoolSound
  BY DEF BodyInv, MempoolSound, Listening
<1>2. TypeInv /\ BodyInv /\ [Next]_vars => BodyInv'
  BY BodyStep
<1>. QED  BY <1>1, <1>2, TypeInit, TypeStep, BodyInit, PTL DEF Spec

-----------------------------------------------------------------------------
(* The tips are blocks, and blocks that can be orphaned are in the window. *)
LEMMA TipsFit ==
    ASSUME ReorgsFit, NEW b \in Tips
    PROVE  /\ b \in Blocks /\ Height[b] \in Nat
           /\ \A c \in Forks(b) : c \in Blocks /\ Height[c] >= Height[b] - Window
<1>1. b \in Blocks /\ Height[b] \in Nat
  BY MwckAssumption, TreeAssumption DEF Tips
<1>2. ASSUME NEW c \in Forks(b) PROVE c \in Blocks /\ Height[c] >= Height[b] - Window
  <2>1. PICK m \in Moves : c \in Chain[b] \ Chain[m]
    BY DEF Forks, Forkable
  <2>2. b \in Moves
    <3>1. m \in Blocks /\ Start \in Chain[m]
      BY MwckAssumption DEF ReorgsFit
    <3>2. Chain[Start] \subseteq Chain[m]
      BY <3>1, TreeAssumption
    <3>. QED  BY <2>1, <3>2 DEF Tips
  <2>. QED  BY <1>1, <2>1, <2>2, ChainOfBlock DEF ReorgsFit
<1>. QED  BY <1>1, <1>2

(* notify_new_tip emits every block of the new branch that the old one     *)
(* lacks: those above the old height, and below it the replacement of each *)
(* orphaned block.                                                         *)
LEMMA NewBlocksEmitted ==
    ASSUME NEW o \in Blocks, tip \in Moves, tip \in Blocks, prevHeight = Height[o],
           recent \subseteq Chain[o], Forks(o) \subseteq recent
    PROVE  Chain[tip] \ Chain[o] \subseteq EmitBlocks
<1>. SUFFICES ASSUME NEW c \in Chain[tip] \ Chain[o] PROVE c \in EmitBlocks
  OBVIOUS
<1>1. c \in Blocks /\ Height[c] \in Nat /\ Height[o] \in Nat
  BY ChainOfBlock, TreeAssumption
<1>2. CASE Height[c] > prevHeight
  BY <1>2 DEF EmitBlocks, Forward
<1>3. CASE ~(Height[c] > prevHeight)
  <2>1. PICK a \in Chain[o] : Height[a] = Height[c]
    BY <1>1, <1>3, BlockAtHeight
  <2>2. a \notin Chain[tip]
    BY <2>1, ChainOfBlock
  <2>3. a \in Stale
    BY <2>2 DEF Forks, Forkable, Stale
  <2>. QED  BY <2>1, <2>3 DEF EmitBlocks, Replacements, BlockAt
<1>. QED  BY <1>2, <1>3

LEMMA ChainInit == ReorgsFit /\ Init => ChainInv
<1>. SUFFICES ASSUME ReorgsFit, Init PROVE ChainInv
  OBVIOUS
<1>1. Forks(Start) = {}
  BY TreeAssumption, MwckAssumption DEF ReorgsFit, Forks, Forkable
<1>. QED  BY <1>1 DEF Init, ChainInv, Tips, ReplyWaits, MempoolPart, Settled

(* Orphans are retracted first: afterwards the client believes only blocks *)
(* of the new branch, and all of them but those about to be emitted.       *)
LEMMA OrphansStep ==
    ASSUME ReorgsFit, TypeInv, ChainInv, NotifyOrphans
    PROVE  ChainInv'
<1>1. pc = "orphans" /\ pc' = "blocks" /\ UNCHANGED <<tip, mempool, prevTxids, client>>
  BY DEF NotifyOrphans
<1>2. PICK o \in Tips : prevHeight = Height[o] /\ Settled(o)
  BY <1>1 DEF ChainInv
<1>3. o \in Blocks /\ tip \in Moves /\ tip \in Blocks
  BY <1>1, <1>2, TipsFit DEF ChainInv, TypeInv, TypeOK
<1>4. Chain[tip] \ Chain[o] \subseteq EmitBlocks
  BY <1>2, <1>3, NewBlocksEmitted DEF Settled
<1>5. \A c \in Chain[o] \ Chain[tip] : c \in Stale
  BY <1>2, <1>3 DEF Settled, Forks, Forkable, Stale
<1>. DEFINE O == UNION {TxsOf(b) : b \in Stale}
<1>6. Tell(O, "removed") /\ confirmed' = EmitBlocks /\ recent' = recent \ Stale
  BY DEF NotifyOrphans
<1>7. (Forks(tip) \subseteq recent \cup confirmed)'
  <2>1. Forks(tip) \subseteq recent' \cup confirmed'
    BY <1>2, <1>4, <1>6 DEF Settled, Forks, Stale
  <2>. QED  BY <1>1, <2>1 DEF Forks, Forkable
<1>8. ASSUME client # "off"
      PROVE  SaidOnly(Chain[tip])' /\ SaidAll(Chain[tip] \ confirmed)'
  <2>1. last \in [Txs -> Said] /\ client = "on"
    BY <1>1, <1>8 DEF TypeInv, TypeOK, ChainInv, ReplyWaits
  <2>2. \A t \in Txs : last'[t] = IF t \in O THEN "removed" ELSE last[t]
    BY <1>6, <2>1 DEF Tell
  <2>3. SaidOnly(Chain[tip])'
    <3>. SUFFICES ASSUME NEW t \in Txs, last'[t] = "confirmed"
                  PROVE  \E c \in Chain[tip] : t \in TxsOf(c)
      BY <1>1 DEF SaidOnly, TxsOf
    <3>1. t \notin O /\ last[t] = "confirmed"
      BY <2>2
    <3>2. PICK c \in Chain[o] : t \in TxsOf(c)
      BY <1>2, <1>8, <3>1 DEF Settled, SaidOnly
    <3>. QED  BY <1>5, <3>1, <3>2
  <2>4. SaidAll(Chain[tip] \ confirmed)'
    <3>. SUFFICES ASSUME NEW c \in Chain[tip] \ EmitBlocks, NEW t \in TxsOf(c) \ MempoolTxs
                  PROVE  last'[t] = "confirmed"
      BY <1>1, <1>6 DEF SaidAll, TxsOf
    <3>1. c \in Chain[o] /\ c \in Blocks /\ t \in Txs
      BY <1>3, <1>4, ChainOfBlock, TxsOfBlock
    <3>2. last[t] = "confirmed"
      BY <1>2, <1>8, <3>1 DEF Settled, SaidAll
    <3>3. ASSUME NEW d \in Stale, t \in TxsOf(d) PROVE FALSE
      <4>1. d \in Chain[o] /\ d \notin Chain[tip]
        BY <1>2 DEF Stale, Settled
      <4>. QED  BY <1>3, <3>1, <3>3, <4>1, NoDuplicateTx DEF TxsOf
    <3>. QED  BY <2>2, <3>1, <3>2, <3>3
  <2>. QED  BY <2>3, <2>4
<1>. QED  BY <1>1, <1>7, <1>8 DEF ChainInv, ReplyWaits, MempoolPart

(* The new blocks are confirmed last, and those that can be orphaned stay  *)
(* in the window.                                                          *)
LEMMA BlocksStep ==
    ASSUME ReorgsFit, TypeInv, ChainInv, NotifyBlocks
    PROVE  ChainInv'
<1>1. pc = "blocks" /\ pc' = "mempool" /\ UNCHANGED <<tip, mempool, prevTxids, client>>
  BY DEF NotifyBlocks
<1>2. recent \subseteq Chain[tip] /\ confirmed \subseteq Chain[tip] /\ tip \in Blocks
  BY <1>1 DEF TypeInv, TypeOK, RecentInv
<1>3. recent' \subseteq Chain[tip] /\ Forks(tip) \subseteq recent'
  BY <1>1, <1>2, TipsFit DEF NotifyBlocks, Kept, ChainInv
<1>4. (recent \subseteq Chain[tip] /\ Forks(tip) \subseteq recent)'
  BY <1>1, <1>3 DEF Forks, Forkable
<1>5. ASSUME client # "off"
      PROVE  SaidOnly(Chain[tip])' /\ SaidAll(Chain[tip])'
  <2>1. last \in [Txs -> Said] /\ client = "on"
    BY <1>1, <1>5 DEF TypeInv, TypeOK, ChainInv, ReplyWaits
  <2>2. \A t \in Txs : last'[t] = IF \E c \in confirmed : t \in TxsOf(c)
                                  THEN "confirmed" ELSE last[t]
    BY <2>1 DEF NotifyBlocks, Tell
  <2>3. SaidOnly(Chain[tip]) /\ SaidAll(Chain[tip] \ confirmed)
    BY <1>1, <1>5 DEF ChainInv
  <2>4. \A c \in Chain[tip] : TxsOf(c) \subseteq Txs
    BY <1>2, ChainOfBlock, TxsOfBlock
  <2>5. SaidOnly(Chain[tip])'
    BY <1>1, <1>2, <2>2, <2>3 DEF SaidOnly, TxsOf
  <2>6. SaidAll(Chain[tip])'
    BY <1>1, <2>2, <2>3, <2>4 DEF SaidAll, TxsOf
  <2>. QED  BY <2>5, <2>6
<1>. QED  BY <1>1, <1>4, <1>5 DEF ChainInv, ReplyWaits, MempoolPart, Settled

(* A step that leaves the branch, the hub and what was said of it alone.   *)
LEMMA SettledKept ==
    ASSUME NEW b, Settled(b), recent' = recent, client' # "off" => client # "off",
           \A t \in Txs : last'[t] = "confirmed" => last[t] = "confirmed",
           \A t \in Txs \ MempoolTxs : last[t] = "confirmed" => last'[t] = "confirmed",
           Chain[b] \subseteq Blocks
    PROVE  Settled(b)'
<1>1. \A c \in Chain[b] : TxsOf(c) \subseteq Txs
  BY TxsOfBlock
<1>2. (recent \subseteq Chain[b] /\ Forks(b) \subseteq recent)'
  BY DEF Settled, Forks, Forkable
<1>3. client' # "off" => SaidOnly(Chain[b])'
  BY DEF Settled, SaidOnly, TxsOf
<1>4. client' # "off" => SaidAll(Chain[b])'
  BY <1>1 DEF Settled, SaidAll, TxsOf
<1>. QED  BY <1>2, <1>3, <1>4 DEF Settled

(* Other threads do not touch the loop or the blocks of the hub.           *)
LEMMA OtherThreads ==
    ASSUME ChainInv, UNCHANGED <<tip, loop, recent, confirmed>>,
           client' # "off" => client # "off" /\ last' = last,
           (ReplyWaits /\ MempoolPart)'
    PROVE  ChainInv'
<1>1. /\ UNCHANGED <<tip, pc, prevHeight, recent, confirmed>>
      /\ Forks(tip)' = Forks(tip)
  BY DEF loop, Forks, Forkable
<1>2. ASSUME NEW b, Settled(b) PROVE Settled(b)'
  BY <1>1, <1>2 DEF Settled, Forks, Forkable, SaidOnly, SaidAll, TxsOf
<1>3. Settled(tip) => Settled(tip)'
  BY <1>1 DEF Settled, Forks, Forkable, SaidOnly, SaidAll, TxsOf
<1>4. client' # "off" => /\ SaidOnly(Chain[tip]) => SaidOnly(Chain[tip])'
                         /\ SaidAll(Chain[tip] \ confirmed) => SaidAll(Chain[tip] \ confirmed)'
  BY <1>1 DEF SaidOnly, SaidAll, TxsOf
<1>. QED  BY <1>1, <1>2, <1>3, <1>4 DEF ChainInv

LEMMA ChainStep ==
    ASSUME ~MayOverlap, ReorgsFit, TypeInv, ChainInv, [Next]_vars
    PROVE  ChainInv'
<1>0. \A b \in Tips : Chain[b] \subseteq Blocks
  BY TipsFit, ChainOfBlock
<1>. USE DEF ReplyWaits, MempoolPart
<1>1. CASE TopOfLoop
  BY <1>0, <1>1, SettledKept DEF TopOfLoop, hub, ChainInv
<1>2. ASSUME NEW b \in Moves, IndexBlocks(b) PROVE ChainInv'
  <2>1. Settled(tip) /\ prevHeight = Height[tip] /\ tip \in Tips
    BY <1>2 DEF IndexBlocks, ChainInv
  <2>2. PICK o \in Tips : o = tip
    BY <2>1
  <2>3. Settled(o)' /\ prevHeight' = Height[o]
    BY <1>0, <1>2, <2>1, <2>2, SettledKept DEF IndexBlocks, hub
  <2>. QED  BY <1>2, <2>3 DEF IndexBlocks, ChainInv, Tips
<1>3. CASE NoNewBlock
  BY <1>0, <1>3, SettledKept DEF NoNewBlock, hub, ChainInv
<1>4. CASE NotifyOrphans
  BY <1>4, OrphansStep
<1>5. CASE NotifyBlocks
  BY <1>5, BlocksStep
<1>6. ASSUME NEW S \in SUBSET Unconfirmed, UpdateMempool(S) PROVE ChainInv'
  BY <1>0, <1>6, SettledKept DEF UpdateMempool, hub, ChainInv, Unconfirmed
<1>7. ASSUME NEW S \in SUBSET mempool, UpdateFails(S) PROVE ChainInv'
  BY <1>0, <1>7, SettledKept DEF UpdateFails, hub, ChainInv
<1>8. CASE NotifyMempool
  <2>1. last \in [Txs -> Said] /\ Added \subseteq MempoolTxs /\ Matched(Removed) \subseteq MempoolTxs
    BY DEF TypeInv, TypeOK, ChainInv, Added, Removed, Matched
  <2>2. /\ \A t \in Txs : last'[t] = "confirmed" => last[t] = "confirmed"
        /\ \A t \in Txs \ MempoolTxs : last[t] = "confirmed" => last'[t] = "confirmed"
    BY <1>8, <2>1 DEF NotifyMempool
  <2>3. Settled(tip) /\ tip \in Tips
    BY <1>8 DEF NotifyMempool, ChainInv
  <2>4. Settled(tip)'
    BY <1>0, <1>8, <2>2, <2>3, SettledKept DEF NotifyMempool, Settled
  <2>. QED  BY <1>8, <2>4 DEF NotifyMempool, ChainInv
<1>9. ASSUME NEW t \in MempoolTxs, Broadcast(t) PROVE ChainInv'
  BY <1>9, OtherThreads DEF Broadcast, hub, loop, ChainInv
<1>10. CASE Subscribe
  <2>1. pc = "wait" /\ UNCHANGED <<tip, mempool, loop, recent, confirmed>>
    BY <1>10 DEF Subscribe
  <2>2. Settled(tip) /\ tip \in Tips
    BY <2>1 DEF ChainInv
  <2>3. \A c \in Chain[tip] : TxsOf(c) \subseteq Txs
    BY <1>0, <2>2, TxsOfBlock
  <2>4. \A t \in Txs : last'[t] = "confirmed" <=> \E c \in Chain[tip] : t \in TxsOf(c)
    BY <1>10 DEF Subscribe, ConfirmedTxs
  <2>5. SaidOnly(Chain[tip])' /\ SaidAll(Chain[tip])'
    BY <2>1, <2>3, <2>4 DEF SaidOnly, SaidAll, TxsOf
  <2>6. Settled(tip)'
    BY <2>1, <2>2, <2>5 DEF Settled, Forks, Forkable
  <2>. QED  BY <1>10, <2>1, <2>6 DEF Subscribe, loop, ChainInv
<1>11. CASE Register
  BY <1>11, OtherThreads DEF Register, loop, hub, ChainInv
<1>12. CASE Detach
  BY <1>12, OtherThreads DEF Detach, loop, hub, ChainInv
<1>13. CASE UNCHANGED vars
  BY <1>13, OtherThreads DEF vars, loop, hub, ChainInv
<1>. QED  BY <1>1, <1>2, <1>3, <1>4, <1>5, <1>6, <1>7, <1>8, <1>9, <1>10, <1>11, <1>12,
             <1>13 DEF Next, LoopStep

LEMMA ChainInvAlways ==
    ASSUME ~MayOverlap, ReorgsFit
    PROVE  Spec => []ChainInv
<1>1. Init => ChainInv
  BY ChainInit
<1>2. TypeInv /\ ChainInv /\ [Next]_vars => ChainInv'
  BY ChainStep
<1>. QED  BY <1>1, <1>2, TypeInit, TypeStep, PTL DEF Spec

(* Whatever the tree, no client that listens between two loops believes a  *)
(* transaction confirmed that a reorganisation took out of the chain, as   *)
(* long as reorganisations stay in notify_new_tip's window.                *)
THEOREM ConfirmedNeverStale ==
    ASSUME ~MayOverlap, ReorgsFit
    PROVE  Spec => []ConfirmedSound
<1>1. ChainInv => ConfirmedSound
  BY DEF ChainInv, Settled, SaidOnly, ConfirmedSound, Listening, ConfirmedTxs
<1>. QED  BY <1>1, ChainInvAlways, PTL

(* ... and what it was told last of a transaction that came with a block   *)
(* is that it is confirmed: the retractions come before the confirmations, *)
(* and every block of the new branch is emitted.                           *)
THEOREM BlocksAlwaysTold ==
    ASSUME ~MayOverlap, ReorgsFit
    PROVE  Spec => []BlocksTold
<1>1. ChainInv => BlocksTold
  BY DEF ChainInv, Settled, SaidAll, BlocksTold, Listening, ConfirmedTxs
<1>. QED  BY <1>1, ChainInvAlways, PTL
=============================================================================
