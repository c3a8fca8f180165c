------------------------------- MODULE MwckMC -------------------------------
(***************************************************************************)
(* Instances of Mwck.  The hub starts at p1:                               *)
(*                                                                         *)
(*      g0 --- p1 --- a2 --- a3                                            *)
(*        \      \--- b2 --- b3                                            *)
(*         \--- c1 --- c2                                                  *)
(*                                                                         *)
(* Transaction both is mined in a2 and in b3; old is in p1.                *)
(***************************************************************************)
EXTENDS Mwck, TLC

CONSTANTS g0, p1, a2, a3, b2, b3, c1, c2, none, old, both, left, right, other

AllBlocks == {g0, p1, a2, a3, b2, b3, c1, c2}

ParentMC == (g0 :> none) @@ (p1 :> g0) @@ (c1 :> g0) @@ (c2 :> c1)
              @@ (a2 :> p1) @@ (a3 :> a2) @@ (b2 :> p1) @@ (b3 :> b2)

HeightMC == (g0 :> 0) @@ (p1 :> 1) @@ (c1 :> 1) @@ (c2 :> 2)
              @@ (a2 :> 2) @@ (a3 :> 3) @@ (b2 :> 2) @@ (b3 :> 3)

ChainMC == (none :> {}) @@ (g0 :> {g0}) @@ (p1 :> {g0, p1})
             @@ (c1 :> {g0, c1}) @@ (c2 :> {g0, c1, c2})
             @@ (a2 :> {g0, p1, a2}) @@ (a3 :> {g0, p1, a2, a3})
             @@ (b2 :> {g0, p1, b2}) @@ (b3 :> {g0, p1, b2, b3})

BlockTxsMC == (g0 :> <<>>) @@ (p1 :> <<old>>) @@ (c1 :> <<>>) @@ (c2 :> <<other>>)
                @@ (a2 :> <<both>>) @@ (a3 :> <<left>>) @@ (b2 :> <<right>>) @@ (b3 :> <<both>>)

NoScripts == [t \in Txs |-> <<>>]
NoSpends == [t \in Txs |-> {}]
=============================================================================
