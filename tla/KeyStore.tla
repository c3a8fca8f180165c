------------------------------ MODULE KeyStore ------------------------------
(***************************************************************************)
(* The named key store of the native frontend.  Every launch looks for the *)
(* file, loads the key or generates one and writes it, and shows the npub. *)
(* The file is created empty and written after that, nothing locks it, and *)
(* a launch may be killed at any point; two windows may be launched.       *)
(***************************************************************************)
EXTENDS Naturals, FiniteSets

CONSTANTS Apps,        \* launches that may run at the same time
          MaxLaunches  \* bound on launches; each generates one key at most

VARIABLES file,     \* missing, empty or a key
          app,      \* per process: where its launch is, and the key it has
          launches, \* launches so far
          shown,    \* keys whose npub a window has shown
          raced     \* two launches were in load_or_generate at the same time

vars == <<file, app, launches, shown, raced>>

Idle     == [pc |-> "idle", key |-> 0]
Missing  == "missing"
Starting == {"look", "load", "open", "write"}

Init ==
  /\ file = [is |-> Missing, key |-> 0]
  /\ app = [a \in Apps |-> Idle]
  /\ launches = 0
  /\ shown = {}
  /\ raced = FALSE

Launch(a) ==
  /\ app[a].pc = "idle"
  /\ launches < MaxLaunches
  /\ launches' = launches + 1
  /\ app' = [app EXCEPT ![a] = [pc |-> "look", key |-> 0]]
  /\ raced' = (raced \/ \E b \in Apps : app[b].pc \in Starting)
  /\ UNCHANGED <<file, shown>>

\* load_or_generate: the file is looked for, and used a step later.
Look(a) ==
  /\ app[a].pc = "look"
  /\ app' = [app EXCEPT ![a] = IF file.is = Missing THEN [pc |-> "open", key |-> launches]
                               ELSE [pc |-> "load", key |-> 0]]
  /\ UNCHANGED <<file, launches, shown, raced>>

\* An empty file is a Format error, which main does not survive.
load_keys(a) ==
  /\ app[a].pc = "load"
  /\ \/ /\ file.is = "key"
        /\ app' = [app EXCEPT ![a] = [pc |-> "show", key |-> file.key]]
     \/ /\ file.is # "key"
        /\ app' = [app EXCEPT ![a] = Idle]
  /\ UNCHANGED <<file, launches, shown, raced>>

\* save_keys creates or truncates the file; the directory is there by then.
Open(a) ==
  /\ app[a].pc = "open"
  /\ file' = [is |-> "empty", key |-> 0]
  /\ app' = [app EXCEPT ![a].pc = "write"]
  /\ UNCHANGED <<launches, shown, raced>>

Write(a) ==
  /\ app[a].pc = "write"
  /\ file' = [is |-> "key", key |-> app[a].key]
  /\ app' = [app EXCEPT ![a].pc = "show"]
  /\ UNCHANGED <<launches, shown, raced>>

\* The popup opens before the file is written.
ShowsEarly(a) ==
  /\ app[a].pc \in {"open", "write", "show"}
  /\ shown' = shown \cup {app[a].key}
  /\ app' = [app EXCEPT ![a] = Idle]
  /\ UNCHANGED <<file, launches, raced>>

\* NpubPopupModel::new: the window shows the npub until it is closed.
Show(a) ==
  /\ app[a].pc = "show"
  /\ shown' = shown \cup {app[a].key}
  /\ app' = [app EXCEPT ![a] = Idle]
  /\ UNCHANGED <<file, launches, raced>>

KillLaunch(a) ==
  /\ app[a].pc # "idle"
  /\ app' = [app EXCEPT ![a] = Idle]
  /\ UNCHANGED <<file, launches, shown, raced>>

Next ==
  \E a \in Apps : \/ Launch(a) \/ Look(a) \/ load_keys(a) \/ Open(a) \/ Write(a)
                  \/ Show(a) \/ KillLaunch(a)

Spec == Init /\ [][Next]_vars
-----------------------------------------------------------------------------
TypeOK ==
  /\ file.is \in {Missing, "empty", "key"}
  /\ \A a \in Apps : app[a].pc \in Starting \cup {"idle", "show"}
  /\ launches \in 0..MaxLaunches

\* Launched one after the other, and killed at any point, the windows have all
\* shown one npub, and the file holds its secret: an identity a user has seen,
\* and an operator may have approved, is never lost (load_or_generate).
ShownIsKept ==
  ~raced => \A k \in shown : file.is = "key" /\ file.key = k

\* load_or_generate: "Load the file, or generate a key and write it when the
\* file is missing": a launch that is not killed shows an npub.
LaunchShows ==
  \A a \in Apps : app[a].pc = "load" => file.is = "key"
=============================================================================
