----------------------------- MODULE IndexerMC -----------------------------
(***************************************************************************)
(* Instances of Indexer.  Two branches from one genesis block:             *)
(*                                                                         *)
(*      g0 --- a1 --- a2 --- a3                                            *)
(*        \--- b1 --- b2                                                   *)
(*                                                                         *)
(* Transaction pay is mined in both a1 and b1, at different positions;     *)
(* spend, in a2 and in b2, spends its output.  mint, in a1 only, funds a   *)
(* script that g0 funds too.                                               *)
(***************************************************************************)
EXTENDS Indexer, TLC

CONSTANTS g0, a1, a2, a3, b1, b2, none, coin, mint, pay, spend, alice, bob

AllBlocks == {g0, a1, a2, a3, b1, b2}

ParentMC == [b \in Blocks |->
    CASE b = g0 -> none
      [] b = a1 \/ b = b1 -> g0
      [] b = a2 -> a1
      [] b = a3 -> a2
      [] b = b2 -> b1]

HeightMC == [b \in Blocks |->
    CASE b = g0 -> 0
      [] b = a1 \/ b = b1 -> 1
      [] b = a2 \/ b = b2 -> 2
      [] b = a3 -> 3]

ChainMC == [b \in Blocks \cup {none} |->
    CASE b = none -> {}
      [] b = g0 -> {g0}
      [] b = a1 -> {g0, a1}
      [] b = a2 -> {g0, a1, a2}
      [] b = a3 -> {g0, a1, a2, a3}
      [] b = b1 -> {g0, b1}
      [] b = b2 -> {g0, b1, b2}]

BlockTxsMC == [b \in Blocks |->
    CASE b = g0 -> <<coin>>
      [] b = a1 -> <<mint, pay>>
      [] b = b1 -> <<pay>>
      [] b = a2 \/ b = b2 -> <<spend>>
      [] b = a3 -> <<>>]

OutScriptsMC ==
    (coin :> <<alice, bob>>) @@ (mint :> <<bob>>) @@ (pay :> <<alice, alice>>) @@ (spend :> <<alice>>)
SpendsMC == (coin :> {}) @@ (mint :> {}) @@ (pay :> {<<coin, 1>>}) @@ (spend :> {<<pay, 1>>})
UnspendableMC == {<<pay, 2>>}
=============================================================================
