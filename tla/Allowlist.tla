----------------------------- MODULE Allowlist -----------------------------
(***************************************************************************)
(* The allowlist a running server works with: Allowlist::load at start-up, *)
(* Allowlist::watch with its two threads, and the websockets that stay     *)
(* open while their key is listed.                                         *)
(*                                                                         *)
(* Both threads call reload, which parses the file first and takes the     *)
(* lock of `keys` only to store the result.  The file is replaced by a     *)
(* rename, so a read sees one version; a version may hold a line that does *)
(* not parse.  Several pending inotify events have the effect of one, and  *)
(* so have several pending signals.                                        *)
(***************************************************************************)
EXTENDS Integers, FiniteSets

CONSTANTS
    Npubs,
    Garbage,      \* a line that is no public key, not in Npubs
    MaxEdits,     \* bound on replacements of the file
    MaxHups,      \* bound on SIGHUPs
    EditsEarly    \* may the file change between load and watch?

VARIABLES
    file,       \* the allowlist file
    keys,       \* Allowlist::keys
    phase,      \* "start", "loaded" (no watch yet), "watching"
    event,      \* is an inotify event waiting for the watch thread?
    hup,        \* the flag of signal_hook
    pc,         \* where each of the two reload calls is
    parsed,     \* what it has parsed
    sockets,    \* keys of open websockets
    stalled,    \* those whose task waits for a peer that stopped reading
    edits, hups,
    hupSeen     \* was a SIGHUP sent since the last edit?

bounds == <<edits, hups>>
vars == <<file, keys, phase, event, hup, pc, parsed, sockets, stalled, bounds, hupSeen>>

Threads == {"watch", "hup"}
Files == SUBSET (Npubs \cup {Garbage})

ValidAlways(f) == TRUE

(* parse_allowlist_file refuses the whole file for one bad line.           *)
Valid(f) == f \subseteq Npubs

Init ==
    /\ file = {} /\ keys = {}
    /\ phase = "start"
    /\ event = FALSE /\ hup = FALSE
    /\ pc = [t \in Threads |-> "idle"]
    /\ parsed = [t \in Threads |-> {}]
    /\ sockets = {} /\ stalled = {}
    /\ edits = 0 /\ hups = 0 /\ hupSeen = FALSE

(* The operator replaces the file.  inotify reports it once the directory  *)
(* is watched.                                                             *)
Edit(v) ==
    /\ edits < MaxEdits /\ v # file
    /\ phase = "loaded" => EditsEarly
    /\ file' = v
    /\ edits' = edits + 1
    /\ event' = (event \/ phase = "watching")
    /\ hupSeen' = FALSE
    /\ UNCHANGED <<keys, phase, hup, pc, parsed, sockets, stalled, hups>>

(* Allowlist::load; the server does not start on an invalid file.          *)
Load ==
    /\ phase = "start" /\ Valid(file)
    /\ keys' = file
    /\ phase' = "loaded"
    /\ UNCHANGED <<file, event, hup, pc, parsed, sockets, stalled, bounds, hupSeen>>

(* Allowlist::watch: the watcher, the thread that receives its events and  *)
(* the SIGHUP thread.                                                      *)
Watch ==
    /\ phase = "loaded"
    /\ phase' = "watching"
    /\ UNCHANGED <<file, keys, event, hup, pc, parsed, sockets, stalled, bounds, hupSeen>>

Sighup ==
    /\ phase = "watching" /\ hups < MaxHups
    /\ hup' = TRUE /\ hupSeen' = TRUE
    /\ hups' = hups + 1
    /\ UNCHANGED <<file, keys, phase, event, pc, parsed, sockets, stalled, edits>>

StartReload(t) == pc[t] = "idle" /\ pc' = [pc EXCEPT ![t] = "parse"]

ReceiveEvent ==
    /\ event /\ StartReload("watch")
    /\ event' = FALSE
    /\ UNCHANGED <<file, keys, phase, hup, parsed, sockets, stalled, bounds, hupSeen>>

SwapFlag ==
    /\ hup /\ StartReload("hup")
    /\ hup' = FALSE
    /\ UNCHANGED <<file, keys, phase, event, parsed, sockets, stalled, bounds, hupSeen>>

(* reload: parse_allowlist_file, then the assignment.  A parse error       *)
(* leaves the keys as they are.                                            *)
Parse(t) ==
    /\ pc[t] = "parse"
    /\ IF Valid(file)
         THEN pc' = [pc EXCEPT ![t] = "store"] /\ parsed' = [parsed EXCEPT ![t] = file]
         ELSE pc' = [pc EXCEPT ![t] = "idle"] /\ UNCHANGED parsed
    /\ UNCHANGED <<file, keys, phase, event, hup, sockets, stalled, bounds, hupSeen>>

Merged(t) == keys \cup parsed[t]
Replaced(t) == parsed[t]

Store(t) ==
    /\ pc[t] = "store"
    /\ keys' = Replaced(t)
    /\ pc' = [pc EXCEPT ![t] = "idle"]
    /\ parsed' = [parsed EXCEPT ![t] = {}]
    /\ UNCHANGED <<file, phase, event, hup, sockets, stalled, bounds, hupSeen>>

-----------------------------------------------------------------------------
(* The websocket gate admits a listed key.                                 *)
Upgrade(n) ==
    /\ phase = "watching" /\ n \in keys \ sockets
    /\ sockets' = sockets \cup {n}
    /\ UNCHANGED <<file, keys, phase, event, hup, pc, parsed, stalled, bounds, hupSeen>>

DroppedNever(n) == FALSE
Dropped(n) == n \notin keys

(* run_mwck_socket looks at the allowlist at the top of its loop and every *)
(* two seconds while it waits in its select.                               *)
PollAllowlist(n) ==
    /\ n \in sockets \ stalled /\ Dropped(n)
    /\ sockets' = sockets \ {n}
    /\ UNCHANGED <<file, keys, phase, event, hup, pc, parsed, stalled, bounds, hupSeen>>

(* An arm of the select awaits sink.send: a push, a reply or a pong, for a *)
(* peer that does not read.  There is no tick meanwhile and no timeout.    *)
Stall(n) ==
    /\ n \in sockets \ stalled
    /\ stalled' = stalled \cup {n}
    /\ UNCHANGED <<file, keys, phase, event, hup, pc, parsed, sockets, bounds, hupSeen>>

(* The peer reads again, send returns and the top of the loop is next.     *)
Resume(n) ==
    /\ n \in stalled
    /\ stalled' = stalled \ {n}
    /\ sockets' = IF Dropped(n) THEN sockets \ {n} ELSE sockets
    /\ UNCHANGED <<file, keys, phase, event, hup, pc, parsed, bounds, hupSeen>>

Leave(n) ==
    /\ n \in sockets
    /\ sockets' = sockets \ {n} /\ stalled' = stalled \ {n}
    /\ UNCHANGED <<file, keys, phase, event, hup, pc, parsed, bounds, hupSeen>>

ServerStep ==
    \/ Load
    \/ Watch
    \/ ReceiveEvent
    \/ SwapFlag
    \/ \E t \in Threads : Parse(t) \/ Store(t)

Next ==
    \/ \E v \in Files : Edit(v)
    \/ Sighup
    \/ ServerStep
    \/ \E n \in Npubs : Upgrade(n) \/ PollAllowlist(n) \/ Stall(n) \/ Resume(n) \/ Leave(n)

(* The threads run, and so does the task of a socket that is not in        *)
(* sink.send; nothing is assumed of the operator and the peers.            *)
Fairness ==
    /\ WF_vars(Load) /\ WF_vars(Watch)
    /\ WF_vars(ReceiveEvent) /\ WF_vars(SwapFlag)
    /\ \A t \in Threads : WF_vars(Parse(t)) /\ WF_vars(Store(t))
    /\ \A n \in Npubs : WF_vars(PollAllowlist(n))

Spec == Init /\ [][Next]_vars /\ Fairness

-----------------------------------------------------------------------------
(* Every variable has its type.                                            *)
TypeOK ==
    /\ file \in Files
    /\ keys \subseteq Npubs
    /\ phase \in {"start", "loaded", "watching"}
    /\ event \in BOOLEAN /\ hup \in BOOLEAN /\ hupSeen \in BOOLEAN
    /\ pc \in [Threads -> {"idle", "parse", "store"}]
    /\ parsed \in [Threads -> SUBSET Npubs]
    /\ sockets \subseteq Npubs /\ stalled \subseteq sockets
    /\ edits \in 0..MaxEdits /\ hups \in 0..MaxHups

Current == Valid(file) => keys = file

(* Once the operator stops editing, the server works with the file's keys, *)
(* without a restart.                                                      *)
KeysFollow == <>[]Current

(* Once the keys stop changing, no websocket is open for a key that is not *)
(* among them unless its task waits for a peer that stopped reading: a     *)
(* socket may be admitted with keys that a reload is about to replace, and *)
(* nothing tells a socket of a reload.                                     *)
SocketsClose == <>[](sockets \subseteq keys \cup stalled)

(* The same with no exception.  This does not hold (README.md, "Statements *)
(* that fail"): nothing ends the wait for a peer that stopped reading.     *)
SocketsAlwaysClose == <>[](sockets \subseteq keys)

(* A SIGHUP sent after the last edit makes up for an edit that the watch   *)
(* missed, whatever reloads were under way.                                *)
SighupRepairs == <>[](hupSeen => Current)
=============================================================================
