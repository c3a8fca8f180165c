----------------------------- MODULE MempoolMC -----------------------------
(***************************************************************************)
(* An instance of Mempool: par spends a confirmed coin, kid spends par and *)
(* rbf, with a higher fee, spends the coin that par spends.  One           *)
(* configuration polls: no client broadcasts, bitcoind has -txindex, and   *)
(* one recent transaction is kept.  In the other clients broadcast while   *)
(* update runs, and bitcoind forgets mined transactions.                   *)
(***************************************************************************)
EXTENDS Mempool

CONSTANTS coin, par, kid, rbf

AllTxs == {coin, par, kid, rbf}
PrevoutsMC == (coin :> {}) @@ (par :> {<<coin, 1>>}) @@ (kid :> {<<par, 1>>}) @@ (rbf :> {<<coin, 1>>})
AncestorsMC == (coin :> {}) @@ (par :> {coin}) @@ (kid :> {par, coin}) @@ (rbf :> {coin})
Polling == [recentSize |-> 1, txIndex |-> TRUE, mayBroadcast |-> FALSE]
Broadcasting == [recentSize |-> 0, txIndex |-> FALSE, mayBroadcast |-> TRUE]
BothConfigs == {Polling, Broadcasting}
PlainConfigs == {[recentSize |-> 0, txIndex |-> FALSE, mayBroadcast |-> FALSE]}
FeeMC == (coin :> 0) @@ (par :> 1) @@ (kid :> 1) @@ (rbf :> 2)
=============================================================================
