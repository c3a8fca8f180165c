--------------------------- MODULE ScriptCacheMC ---------------------------
(***************************************************************************)
(* Instances of ScriptCache.  Two branches from one genesis block:         *)
(*                                                                         *)
(*      g0 --- a1 --- a2 --- a3                                            *)
(*        \--- b1 --- b2 --- b3                                            *)
(*                                                                         *)
(* Every transaction funds alice.  Transaction both is at the same height  *)
(* in a2 and in b2, where it comes after more.                             *)
(* a3 is there for the header list of ServerMC.                            *)
(***************************************************************************)
EXTENDS ScriptCache, TLC

CONSTANTS g0, a1, a2, a3, b1, b2, b3, none, coin, left, right, both, more, alice

AllBlocks == {g0, a1, a2, a3, b1, b2, b3}

ParentMC == (g0 :> none) @@ (a1 :> g0) @@ (a2 :> a1) @@ (a3 :> a2) @@ (b1 :> g0) @@ (b2 :> b1) @@ (b3 :> b2)
HeightMC == (g0 :> 0) @@ (a1 :> 1) @@ (a2 :> 2) @@ (a3 :> 3) @@ (b1 :> 1) @@ (b2 :> 2) @@ (b3 :> 3)
ChainMC == (none :> {}) @@ (g0 :> {g0}) @@ (a1 :> {g0, a1}) @@ (a2 :> {g0, a1, a2})
             @@ (a3 :> {g0, a1, a2, a3})
             @@ (b1 :> {g0, b1}) @@ (b2 :> {g0, b1, b2}) @@ (b3 :> {g0, b1, b2, b3})

BlockTxsMC == (g0 :> <<coin>>) @@ (a1 :> <<left>>) @@ (a2 :> <<both>>) @@ (a3 :> <<>>) @@ (b1 :> <<right>>)
                @@ (b2 :> <<more, both>>)
                @@ (b3 :> <<>>)

OutScriptsMC == [t \in Txs |-> <<alice>>]
SpendsMC == [t \in Txs |-> IF t \in {left, right} THEN {<<coin, 1>>} ELSE {}]
=============================================================================
