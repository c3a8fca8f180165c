-------------------------- MODULE IndexerSetupsMC --------------------------
(***************************************************************************)
(* Two setups of Indexer in one run; a behaviour keeps the one it starts   *)
(* with.  "crashing": the process dies up to MaxRestarts times and no      *)
(* branch that was left returns.  "returning": it never dies, branches     *)
(* may return, and blocks come one by one.                                 *)
(***************************************************************************)
EXTENDS IndexerMC

VARIABLE setup

Returning == INSTANCE Indexer WITH ChunkSize <- 1, MayReturn <- TRUE, MaxRestarts <- 0

SetupsInit == Init /\ setup \in {"crashing", "returning"}

SetupsNext ==
    /\ UNCHANGED setup
    /\ \/ setup = "crashing" /\ Next
       \/ setup = "returning" /\ Returning!Next

SetupsVars == <<vars, setup>>

(* Fairness of Indexer, where bitcoind settles.                            *)
SetupsFairness ==
    /\ WF_vars(setup = "crashing" /\ Open)
    /\ WF_vars(setup = "crashing" /\ Poll)
    /\ WF_vars(setup = "crashing" /\ UpdateStep)

SetupsSpec == SetupsInit /\ [][SetupsNext]_SetupsVars /\ SetupsFairness

(* Once bitcoind settles the index reaches its best block and stays,       *)
(* whatever crashes came before.                                           *)
CrashingCatchesUp == <>[](setup = "crashing" => (t = daemonTip /\ headers = daemonTip))
=============================================================================
