----------------------------- MODULE RequestsMC -----------------------------
(***************************************************************************)
(* Requests of clients and operators, in one run: the import queue with    *)
(* two posts and an operator, the rate limit of its posts, the REST        *)
(* handlers over a moving chain, and two Electrum connections.  They share *)
(* no state, so they are composed as a sum: a behaviour is one of the part *)
(* `active`, and the others stay in their first state.  A REST client asks *)
(* about scripts or about everything else: the first never has an answer   *)
(* kept, the second never touches the U row.                               *)
(*                                                                         *)
(* The chain of the REST handlers:                                         *)
(*                                                                         *)
(*      g0 --- a1 --- a2                                                   *)
(*        \--- b1 --- b2 --- b3                                            *)
(*                                                                         *)
(* coin, left and both fund alice, the last two twice; left and right      *)
(* spend coin, and more spends one output of both, which is in a2 and, at  *)
(* the same height, in b2.  The history of alice is longer than the limit  *)
(* at a2, unless the U row of a1 is there.  The Electrum connections come  *)
(* from one client, one of them through a PROXY header.                    *)
(***************************************************************************)
EXTENDS ImportQueueMC, RateLimit, Rest, Electrum, TLC

CONSTANTS
    g0, a1, a2, b1, b2, b3, none, coin, left, right, both, more, alice, bob,
    c1, c2, s1, client, proxy

VARIABLE active

ParentMC == (g0 :> none) @@ (a1 :> g0) @@ (a2 :> a1) @@ (b1 :> g0) @@ (b2 :> b1) @@ (b3 :> b2)
HeightMC == (g0 :> 0) @@ (a1 :> 1) @@ (a2 :> 2) @@ (b1 :> 1) @@ (b2 :> 2) @@ (b3 :> 3)
ChainMC == (none :> {}) @@ (g0 :> {g0}) @@ (a1 :> {g0, a1}) @@ (a2 :> {g0, a1, a2})
             @@ (b1 :> {g0, b1}) @@ (b2 :> {g0, b1, b2}) @@ (b3 :> {g0, b1, b2, b3})
BlockTxsMC == (g0 :> <<coin>>) @@ (a1 :> <<left>>) @@ (a2 :> <<both>>) @@ (b1 :> <<right>>)
                @@ (b2 :> <<both>>) @@ (b3 :> <<more>>)
TxsMC == {coin, left, right, both, more}

OutScriptsMC == [t \in TxsMC |-> IF t \in {left, both} THEN <<alice, alice>>
                                 ELSE IF t \in {right, more} THEN <<bob>> ELSE <<alice>>]
SpendsMC == [t \in TxsMC |-> IF t \in {left, right} THEN {<<coin, 1>>}
                             ELSE IF t = more THEN {<<both, 1>>} ELSE {}]
AskOutsMC == {<<coin, 1>>, <<both, 1>>}

(* One connection through the proxy, one without.                          *)
DirectIpMC == (c1 :> proxy) @@ (c2 :> client)
LayersMC == (c1 :> <<client>>) @@ (c2 :> <<>>)

RequestsInit ==
    /\ active \in {"queue", "rate", "scripts", "rest", "electrum"}
    /\ Init /\ RateInit /\ RestInit /\ ElectrumInit
    /\ active \notin {"scripts", "rest"} => pool = <<both, more>>

RequestsNext ==
    /\ UNCHANGED active
    /\ \/ active = "queue" /\ Next /\ UNCHANGED <<rateVars, restVars, electrumVars>>
       \/ active = "rate" /\ RateNext /\ UNCHANGED <<vars, restVars, electrumVars>>
       \/ /\ active \in {"scripts", "rest"} /\ RestNext
          /\ req' # NoRequest => (Remembered(req') <=> active = "scripts")
          /\ UNCHANGED <<vars, rateVars, electrumVars>>
       \/ active = "electrum" /\ ElectrumNext /\ UNCHANGED <<vars, rateVars, restVars>>

RequestsSpec ==
    RequestsInit /\ [][RequestsNext]_<<active, vars, rateVars, restVars, electrumVars>>
=============================================================================
