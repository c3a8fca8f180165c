------------------------------ MODULE ServerMC ------------------------------
(***************************************************************************)
(* The long-lived parts of the server in one run: ScriptCache, Electrum    *)
(* (one connection, with a moving chain), Shutdown and Headers.  They do   *)
(* not share state here, so they are composed as a sum: a behaviour is one *)
(* of the component `active`, and the others stay in their first state.    *)
(*                                                                         *)
(* ScriptCache and Headers have the chain of ScriptCacheMC; the work of    *)
(* the branches grows in the order of WorkMC.                              *)
(***************************************************************************)
EXTENDS ScriptCacheMC, Shutdown, Headers

CONSTANTS c1, s1, ip1, NoAddr, TooLong, None

VARIABLES
    active,
    eTip, eHist, eChanges, eConn, eCounts, eClients, eSubscriptions, eSenders, eThreads,
    eGarbage, eAcceptor, eNotes, eExit, eRpc

Peers == INSTANCE Electrum WITH
    Conns <- {c1}, Hashes <- {s1}, Addrs <- {ip1}, DirectIp <- (c1 :> ip1), Layers <- (c1 :> <<>>),
    HaproxyDepth <- 0, PerClient <- 1, MaxClients <- 2, MaxSubs <- 1, ChanSize <- 1,
    Histories <- {0, 1}, NoHistory <- 0, MaxChanges <- 1, MaxLines <- 2, MaxNotes <- 1,
    tip <- eTip, hist <- eHist, changes <- eChanges, conn <- eConn, counts <- eCounts,
    clients <- eClients, subscriptions <- eSubscriptions, senders <- eSenders,
    threads <- eThreads, garbage <- eGarbage, acceptor <- eAcceptor, notes <- eNotes,
    exit <- eExit, rpc <- eRpc

WorkMC == (g0 :> 0) @@ (a1 :> 1) @@ (a2 :> 2) @@ (b1 :> 3) @@ (a3 :> 4) @@ (b2 :> 5) @@ (b3 :> 6)

electrumVars == <<eTip, eHist, eChanges, eConn, eCounts, eClients, eSubscriptions, eSenders,
                  eThreads, eGarbage, eAcceptor, eNotes, eExit, eRpc>>

ServerInit ==
    /\ active \in {"cache", "electrum", "shutdown", "headers"}
    /\ Init /\ Peers!ElectrumInit /\ ShutdownInit /\ HeadersInit

ServerNext ==
    /\ UNCHANGED active
    /\ \/ active = "cache" /\ Next /\ UNCHANGED <<electrumVars, shutdownVars, headersVars>>
       \/ active = "electrum" /\ Peers!ElectrumNext /\ UNCHANGED <<vars, shutdownVars, headersVars>>
       \/ active = "shutdown" /\ ShutdownNext /\ UNCHANGED <<vars, electrumVars, headersVars>>
       \/ active = "headers" /\ HeadersNext /\ UNCHANGED <<vars, electrumVars, shutdownVars>>

ServerVars == <<active, vars, electrumVars, shutdownVars, headersVars>>

(* The fairness of Electrum, Shutdown and Headers, while they are active.  *)
ElectrumFairness ==
    /\ WF_electrumVars(active = "electrum" /\ Peers!Running /\ Peers!Notify)
    /\ WF_electrumVars(active = "electrum" /\ Peers!Running /\ Peers!Notifier)
    /\ WF_electrumVars(active = "electrum" /\ Peers!Running /\ Peers!Server)
    /\ WF_electrumVars(active = "electrum" /\ Peers!Running /\ Peers!Peer(c1))
    /\ WF_electrumVars(active = "electrum" /\ Peers!Running /\ Peers!ReaderSends(c1))
    /\ WF_electrumVars(active = "electrum" /\ Peers!Running /\ Peers!HungUp(c1))

ShutdownFairness ==
    /\ WF_shutdownVars(active = "shutdown" /\ Notifier)
    /\ WF_shutdownVars(active = "shutdown" /\ MainStep)
    /\ WF_shutdownVars(active = "shutdown" /\ ElectrumEnds)
    /\ WF_shutdownVars(active = "shutdown" /\ Restart)
    /\ WF_shutdownVars(active = "shutdown" /\ ClientAnswered(c1))
    /\ \A t \in {c1, Main} : /\ WF_shutdownVars(active = "shutdown" /\ Step(t))
                             /\ SF_shutdownVars(active = "shutdown" /\ Lock(t))

ServerSpec ==
    /\ ServerInit /\ [][ServerNext]_ServerVars
    /\ ElectrumFairness /\ ShutdownFairness
    /\ WF_headersVars(active = "headers" /\ Sync)

-----------------------------------------------------------------------------
(* A client that reads its socket learns the tip and the histories it      *)
(* subscribed to, or loses the connection.                                 *)
Informed == Peers!Informed

(* The accept loop ends and every peer is joined, unless one is stuck.     *)
StopsUnlessStuck == Peers!StopsUnlessStuck

(* Once a signal is sent the process ends, whichever thread receives it,   *)
(* unless Electrum hangs after an error or a REST client does not read its *)
(* answer; and a client gets its answer, though the main thread may hold   *)
(* the mutex through an outage, as long as outages end.                    *)
WaitsEnd == Stops /\ ClientsAnswered

(* The header list ends in bitcoind's best block once that settles, unless *)
(* a reorganisation ended the process during its first synchronisation: a  *)
(* list that follows a tip goes on following.                              *)
FollowsBest ==
    /\ [](HeadersTypeOK /\ FollowingNeverEnds)
    /\ (active = "headers" /\ tip # best) ~> (tip = best \/ ended # "no")

(* Without the exception: this does not hold (README.md, "Statements that  *)
(* fail").                                                                 *)
AlwaysFollows == (active = "headers" /\ tip # best) ~> tip = best

(* Every peer thread that leaves its reply loop finishes.  This does not   *)
(* hold (README.md, "Statements that fail").                               *)
PeersFinish == Peers!PeersFinish
=============================================================================
