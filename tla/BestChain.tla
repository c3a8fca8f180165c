----------------------------- MODULE BestChain -----------------------------
(***************************************************************************)
(* What the header list promises its readers: at every moment one branch   *)
(* of the block tree, from genesis to a tip, and the answer to "is this    *)
(* block on it, and how high".  The tip moves to blocks that are not on    *)
(* the branch; the rest of the branch follows from the tip.                *)
(***************************************************************************)
EXTENDS Naturals

CONSTANTS Tree, NoTip, ChainOf, HeightOf

VARIABLES
    top,       \* the tip, or NoTip before the first synchronisation
    onChain    \* the blocks a reader finds, with their heights

View(b) == {<<a, HeightOf[a]>> : a \in ChainOf[b]}

Init == \E b \in Tree \cup {NoTip} : top = b /\ onChain = View(b)

(* A new best block: its branch replaces the old one at once.              *)
Move(b) ==
    /\ b \notin ChainOf[top]
    /\ top' = b /\ onChain' = View(b)

Next == \E b \in Tree : Move(b)

Spec == Init /\ [][Next]_<<top, onChain>>
=============================================================================
