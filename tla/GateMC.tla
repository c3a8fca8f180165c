------------------------------- MODULE GateMC -------------------------------
(***************************************************************************)
(* Who may use the server, in one run: the import queue with three         *)
(* concurrent posts, the allowlist with and without SIGHUP, and the gate   *)
(* in front of the indexer.  The parts share files and keys only through   *)
(* an operator, so they are composed as a sum: a behaviour is one of the   *)
(* part `active`, and the others stay in their first state.                *)
(***************************************************************************)
EXTENDS ImportQueueMC, Access

CONSTANTS Garbage

VARIABLES
    active,
    lFile, lKeys, lPhase, lEvent, lHup, lPc, lParsed, lSockets, lStalled, lEdits, lHups, lHupSeen

Hup == INSTANCE Allowlist WITH
    MaxEdits <- 3, MaxHups <- 2, EditsEarly <- TRUE,
    file <- lFile, keys <- lKeys, phase <- lPhase, event <- lEvent, hup <- lHup, pc <- lPc,
    parsed <- lParsed, sockets <- lSockets, stalled <- lStalled,
    edits <- lEdits, hups <- lHups, hupSeen <- lHupSeen

Watch == INSTANCE Allowlist WITH
    MaxEdits <- 4, MaxHups <- 0, EditsEarly <- FALSE,
    file <- lFile, keys <- lKeys, phase <- lPhase, event <- lEvent, hup <- lHup, pc <- lPc,
    parsed <- lParsed, sockets <- lSockets, stalled <- lStalled,
    edits <- lEdits, hups <- lHups, hupSeen <- lHupSeen

allowlistVars == <<lFile, lKeys, lPhase, lEvent, lHup, lPc, lParsed, lSockets, lStalled,
                   lEdits, lHups, lHupSeen>>

Allowlists == {"hup", "watch"}

GateInit ==
    /\ active \in {"queue", "access"} \cup Allowlists
    /\ Init /\ Hup!Init /\ AccessInit

GateNext ==
    /\ UNCHANGED active
    /\ \/ active = "queue" /\ Next /\ UNCHANGED <<allowlistVars, accessVars>>
       \/ active = "hup" /\ Hup!Next /\ UNCHANGED <<vars, accessVars>>
       \/ active = "watch" /\ Watch!Next /\ UNCHANGED <<vars, accessVars>>
       \/ active = "access" /\ AccessNext /\ UNCHANGED <<vars, allowlistVars>>

(* The fairness of ImportQueue and Allowlist, while they are active.       *)
QueueFairness ==
    \A p \in Posters : /\ WF_vars(active = "queue" /\ Step(p))
                       /\ SF_vars(active = "queue" /\ LockDisk(p))

AllowlistFairness ==
    /\ WF_allowlistVars(active \in Allowlists /\ Hup!Load)
    /\ WF_allowlistVars(active \in Allowlists /\ Hup!Watch)
    /\ WF_allowlistVars(active \in Allowlists /\ Hup!ReceiveEvent)
    /\ WF_allowlistVars(active \in Allowlists /\ Hup!SwapFlag)
    /\ \A th \in {"watch", "hup"} : /\ WF_allowlistVars(active \in Allowlists /\ Hup!Parse(th))
                                    /\ WF_allowlistVars(active \in Allowlists /\ Hup!Store(th))
    /\ \A n \in Npubs : WF_allowlistVars(active \in Allowlists /\ Hup!PollAllowlist(n))

GateSpec ==
    /\ GateInit /\ [][GateNext]_<<active, vars, allowlistVars, accessVars>>
    /\ QueueFairness /\ AllowlistFairness

-----------------------------------------------------------------------------
(* The keys settle on the file: without SIGHUP once the watch is set up,   *)
(* and after a SIGHUP also when the watch missed an edit, whatever reloads *)
(* were under way.  An invalid file never gets into the keys.              *)
KeysSettle ==
    /\ [](IF active = "watch" THEN Watch!TypeOK ELSE Hup!TypeOK)
    /\ Hup!SighupRepairs
    /\ <>[](active = "watch" => Watch!Current)

(* Once the keys stop changing no websocket is open for another key, but   *)
(* for one whose task waits for a peer that stopped reading.               *)
SocketsClose == Hup!SocketsClose

(* No exception: this does not hold (README.md, "Statements that fail").   *)
SocketsAlwaysClose == Hup!SocketsAlwaysClose

(* The keys settle on the file with SIGHUPs too.  This does not hold       *)
(* (README.md, "Statements that fail").                                    *)
HupKeysFollow == <>[](active = "hup" => Hup!Current)
=============================================================================
