------------------------------ MODULE Headers ------------------------------
(***************************************************************************)
(* HeaderList, and the two ways Daemon fills it: get_all_headers for an    *)
(* empty list and get_new_headers for one that follows a tip.  bitcoind    *)
(* may reorganise between any two calls.  An error of update leaves        *)
(* run_server and an assertion that fails panics: either ends the process. *)
(* The next start loads the list from the stored headers, orphans          *)
(* included; nothing in the program makes sure that there is one.          *)
(***************************************************************************)
EXTENDS BlockTree, SequencesExt

CONSTANTS
    Work,          \* the work of the branch that ends in a block
    FirstBest,     \* bitcoind's best block at the start
    ChunkHeaders,  \* chunk_size of get_all_headers
    MayRewind,     \* may bitcoind go back to an ancestor (invalidateblock)?
    MaxReorgs, MaxStarts

VARIABLES
    best,       \* bitcoind's best block
    headers,    \* HeaderList::headers
    heights,    \* HeaderList::heights, a function from some blocks
    tip,        \* HeaderList::tip
    target,     \* the best block this update works towards
    fetched,    \* headers fetched so far
    hashes,     \* the hashes of the chunk in flight
    pc,
    ended,      \* how the process ended: "no", "error" or "panic"
    reorgs, starts

headersVars == <<best, headers, heights, tip, target, fetched, hashes, pc, ended, reorgs, starts>>
list == <<headers, heights, tip>>

(* bitcoind's branch from height m to height n, as a sequence.             *)
AtHeight(b, h) == CHOOSE a \in Chain[b] : Height[a] = h
Branch(b, m, n) == [i \in 1..(n - m + 1) |-> AtHeight(b, m + i - 1)]
Path(b) == IF b = NoBlock THEN <<>> ELSE Branch(b, 0, Height[b])

-----------------------------------------------------------------------------
NoCheck(hs, hts, b) == b \in DOMAIN hts

(* header_by_blockhash: the heights map keeps blocks that were rolled      *)
(* back, so the header found at that height is compared with the hash.     *)
header_by_blockhash(hs, hts, b) ==
    b \in DOMAIN hts /\ hts[b] < Len(hs) /\ hs[hts[b] + 1] = b

(* HeaderList::apply.  new[1] replaces what is at its height.              *)
HeightsFrom(new, h) == [b \in ToSet(new) |-> h + (CHOOSE i \in DOMAIN new : new[i] = b) - 1]

Apply(hs, hts, new, h) ==
    /\ headers' = SubSeq(hs, 1, h) \o new
    /\ heights' = [b \in DOMAIN hts \cup ToSet(new) |->
                     IF b \in ToSet(new) THEN HeightsFrom(new, h)[b] ELSE hts[b]]
    /\ tip' = Last(new)

Linked(new) == \A i \in 2..Len(new) : Parent[new[i]] = new[i - 1]

(* order: the height of the first new header, or -1 when its parent is not *)
(* in the list.                                                            *)
order(hs, hts, new) ==
    IF Parent[new[1]] = NoBlock THEN 0
    ELSE IF header_by_blockhash(hs, hts, Parent[new[1]]) THEN hts[Parent[new[1]]] + 1
    ELSE -1

-----------------------------------------------------------------------------
HeadersInit ==
    /\ best = FirstBest
    /\ headers = <<>> /\ heights = [b \in {} |-> 0] /\ tip = NoBlock
    /\ target = NoBlock /\ fetched = <<>> /\ hashes = <<>>
    /\ pc = "idle" /\ ended = "no"
    /\ reorgs = 0 /\ starts = 0

Running == ended = "no"

(* A new best block has more work, and need not be higher.                 *)
Reorg(b) ==
    /\ reorgs < MaxReorgs /\ b # best
    /\ Work[b] > Work[best] \/ (MayRewind /\ b \in Chain[best])
    /\ best' = b /\ reorgs' = reorgs + 1
    /\ UNCHANGED <<list, target, fetched, hashes, pc, ended, starts>>

(* update: getbestblockhash, then the path that fits the list.             *)
UpdateList ==
    /\ Running /\ pc = "idle" /\ best # tip
    /\ target' = best /\ fetched' = <<>> /\ hashes' = <<>>
    /\ pc' = IF headers = <<>> THEN "all" ELSE "walk"
    /\ UNCHANGED <<best, list, ended, reorgs, starts>>

ChunkRetried ==
    /\ Running /\ pc = "all" /\ hashes = <<>> /\ Len(fetched) <= Height[target]
    /\ LET m == Len(fetched)
           n == IF m + ChunkHeaders - 1 < Height[target] THEN m + ChunkHeaders - 1 ELSE Height[target]
       IN  n <= Height[best] /\ hashes' = Branch(best, m, n)
    /\ UNCHANGED <<best, list, target, fetched, pc, ended, reorgs, starts>>

(* get_all_headers: getblockhash for the heights of one chunk.  A height   *)
(* the chain no longer has is an RPC error: update fails, and with it the  *)
(* process, in the first update and in those of the main loop.             *)
ChunkHashes ==
    /\ Running /\ pc = "all" /\ hashes = <<>> /\ Len(fetched) <= Height[target]
    /\ LET m == Len(fetched)
           n == IF m + ChunkHeaders - 1 < Height[target] THEN m + ChunkHeaders - 1 ELSE Height[target]
       IN  IF n <= Height[best]
           THEN hashes' = Branch(best, m, n) /\ UNCHANGED ended
           ELSE ended' = "error" /\ UNCHANGED hashes
    /\ UNCHANGED <<best, list, target, fetched, pc, reorgs, starts>>

(* getblockheader for these hashes: bitcoind keeps headers of stale blocks.*)
ChunkHeadersFetched ==
    /\ Running /\ pc = "all" /\ hashes # <<>>
    /\ fetched' = fetched \o hashes /\ hashes' = <<>>
    /\ UNCHANGED <<best, list, target, pc, ended, reorgs, starts>>

(* The assertions of get_all_headers over the whole chain.                 *)
Checked ==
    IF Linked(fetched) /\ Parent[fetched[1]] = NoBlock /\ Last(fetched) = target
    THEN pc' = "apply" /\ UNCHANGED ended
    ELSE ended' = "panic" /\ UNCHANGED pc

AllFetched ==
    /\ Running /\ pc = "all" /\ Len(fetched) = Height[target] + 1
    /\ Checked
    /\ UNCHANGED <<best, list, target, fetched, hashes, reorgs, starts>>

WalkBackStale ==
    /\ Running /\ pc = "walk"
    /\ LET b == IF fetched = <<>> THEN target ELSE Parent[fetched[1]]
       IN  IF b = NoBlock \/ b \in DOMAIN heights
           THEN pc' = "apply" /\ UNCHANGED fetched
           ELSE fetched' = <<b>> \o fetched /\ UNCHANGED pc
    /\ UNCHANGED <<best, list, target, hashes, ended, reorgs, starts>>

(* get_new_headers: one getblockheader per block, back to a known one.     *)
WalkBack ==
    /\ Running /\ pc = "walk"
    /\ LET b == IF fetched = <<>> THEN target ELSE Parent[fetched[1]]
       IN  IF b = NoBlock \/ header_by_blockhash(headers, heights, b)
           THEN pc' = "apply" /\ UNCHANGED fetched
           ELSE fetched' = <<b>> \o fetched /\ UNCHANGED pc
    /\ UNCHANGED <<best, list, target, hashes, ended, reorgs, starts>>

(* order, then apply under the write lock, with their assertions, and      *)
(* update's assertion that the list ends in the block it asked for.        *)
ApplyNew ==
    /\ Running /\ pc = "apply"
    /\ LET h == IF fetched = <<>> THEN -1 ELSE order(headers, heights, fetched)
       IN  IF fetched # <<>> /\ Linked(fetched) /\ h >= 0 /\ Last(fetched) = target
           THEN /\ Apply(headers, heights, fetched, h)
                /\ pc' = "idle" /\ UNCHANGED ended
           ELSE ended' = "panic" /\ UNCHANGED <<list, pc>>
    /\ UNCHANGED <<best, target, fetched, hashes, reorgs, starts>>

(* HeaderList::new at the next start: the path of the stored tip, picked   *)
(* out of every stored header.  The indexer synced before it stopped.      *)
OpenList ==
    /\ starts < MaxStarts /\ starts' = starts + 1
    /\ headers' = Path(tip) /\ heights' = [b \in Chain[tip] |-> Height[b]]
    /\ pc' = "idle" /\ ended' = "no"
    /\ target' = NoBlock /\ fetched' = <<>> /\ hashes' = <<>>
    /\ UNCHANGED <<best, tip, reorgs>>

Sync == UpdateList \/ ChunkHashes \/ ChunkHeadersFetched \/ AllFetched \/ WalkBack \/ ApplyNew

HeadersNext == (\E b \in Blocks : Reorg(b)) \/ Sync \/ OpenList

(* The main loop keeps polling.                                            *)
HeadersSpec == HeadersInit /\ [][HeadersNext]_headersVars /\ WF_headersVars(Sync)

-----------------------------------------------------------------------------
(* Every variable has its type. *)
HeadersTypeOK ==
    /\ best \in Blocks /\ tip \in Blocks \cup {NoBlock}
    /\ headers \in Seq(Blocks) /\ DOMAIN heights \subseteq Blocks
    /\ pc \in {"idle", "all", "walk", "apply"} /\ ended \in {"no", "error", "panic"}

(* What a reader finds with header_by_blockhash, for every hash it may     *)
(* ask for, those of rolled back blocks included.                          *)
Found == {<<b, heights[b]>> : b \in {c \in Blocks : header_by_blockhash(headers, heights, c)}}

Best == INSTANCE BestChain WITH
    Tree <- Blocks, NoTip <- NoBlock, ChainOf <- Chain, HeightOf <- Height,
    top <- (IF headers = <<>> THEN NoBlock ELSE Last(headers)),
    onChain <- Found

(* The list is one branch at every moment, the heights map answers for     *)
(* exactly that branch, and a reorganisation replaces it in one step.      *)
ListIsBestChain == Best!Spec

(* The list reaches bitcoind's best block, or the process has ended.       *)
Follows == tip # best ~> (tip = best \/ ended # "no")

(* Only the first synchronisation can be caught by a reorganisation: with  *)
(* a list that follows a tip no call of update fails and no assertion of   *)
(* order, apply or update does.                                            *)
FollowingNeverEnds == ended # "no" => headers = <<>>
=============================================================================
