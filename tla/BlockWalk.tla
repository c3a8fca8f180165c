------------------------------ MODULE BlockWalk ------------------------------
(***************************************************************************)
(* Walking from block to block with the previous and next links of the     *)
(* shared crate, while blocks are mined: the page knows the latest height  *)
(* it was told last, the links are cut to that height, and the walkthrough *)
(* functions are the walks the links allow.                                *)
(***************************************************************************)
EXTENDS SharedScreens

CONSTANT MaxTip   \* bound on the blocks mined

VARIABLES tip,      \* the chain's height
          latest,   \* the latest confirmed height the page was told
          height,   \* the height shown, or NoHeight on /mempool-block/0
          icons     \* links drawn on the page

vars == <<tip, latest, height, icons>>

Init ==
  /\ tip \in 0..MaxTip
  /\ latest = tip
  /\ height \in 0..tip
  /\ icons = block_prev_next_links(height, latest)

Mine ==
  /\ tip < MaxTip
  /\ tip' = tip + 1
  /\ UNCHANGED <<latest, height, icons>>

\* The page hears of the new tip and draws its links again.
Told ==
  /\ latest' = tip
  /\ icons' = block_prev_next_links(height, tip)
  /\ UNCHANGED <<tip, height>>

\* ArrowRight or a click on Previous Block: older, when the link is drawn.
Older ==
  LET to == adjacent_blocks(height, latest).previous
  IN  /\ height # NoHeight
      /\ height' = IF to = NoHeight THEN height ELSE to
      /\ icons' = block_prev_next_links(height', latest)
      /\ UNCHANGED <<tip, latest>>

\* ArrowLeft or a click on Next Block: newer, or the projected block at the tip.
Newer ==
  LET to == adjacent_blocks(height, latest).next
  IN  /\ height # NoHeight
      /\ height' = to
      /\ icons' = block_prev_next_links(height', latest)
      /\ UNCHANGED <<tip, latest>>

Next == Mine \/ Told \/ Older \/ Newer

Spec == Init /\ [][Next]_vars
-----------------------------------------------------------------------------
TypeOK ==
  /\ tip \in 0..MaxTip /\ latest \in 0..MaxTip
  /\ icons \in [previous : BOOLEAN, next : BOOLEAN]

\* The links never lead off the chain: the height shown has been mined, even
\* when the page has not been told of the latest blocks, and a drawn link has
\* a block behind it.  The next link only tells the latest height apart
\* (block_prev_next_links), so this rests on every walk staying at or below it.
WalksOnChain ==
  height # NoHeight =>
    /\ height \in 0..tip
    /\ icons.next => height + 1 \in 0..tip
    /\ icons.previous => height - 1 \in 0..tip

\* The walkthrough functions that the tests of both frontends paint say what
\* the links say: each is the one walk its name tells, from the tip or from
\* genesis, with the icons of the height it ends at.
WalkthroughsFollowLinks ==
  LET older(h) == adjacent_blocks(h, Newest).previous
      newer(h) == adjacent_blocks(h, Newest).next
      drawn(h) == block_prev_next_links(h, Newest)
  IN  latest = Newest =>
        /\ height = Newest =>
             /\ FirstArrowRight.selected = icons
             /\ FirstArrowRight.after = drawn(older(height))
             /\ FirstClickRight.height = older(height)
             /\ FirstClickRight.after = drawn(older(height))
             /\ newer(height) = NoHeight /\ ~FirstArrowLeft.selected.next
        /\ height = 0 =>
             /\ GenesisArrowLeft.height = newer(0)
             /\ GenesisArrowLeft.after = drawn(newer(0))
             /\ GenesisArrowRight.height = 0 /\ GenesisArrowRight.after = icons
             /\ GenesisClickLeft.genesis = icons
             /\ GenesisClickLeft.height = newer(0)
             /\ GenesisClickLeft.after = drawn(newer(0))
=============================================================================
