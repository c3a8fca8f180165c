------------------------------ MODULE Shutdown ------------------------------
(***************************************************************************)
(* Signals, the one connection to bitcoind, the main loop and its end.     *)
(*                                                                         *)
(* The main thread and the tasks that answer clients share one             *)
(* connection behind a mutex, and clones of one Waiter.  A request that    *)
(* retries waits three seconds after a connection error, takes the mutex   *)
(* and reconnects while it holds it; a proxied request fails at once.      *)
(* What a request asks is left out: it is answered, refused (503, or an    *)
(* error in the reply) or lost with the connection.                        *)
(***************************************************************************)
EXTENDS Naturals, FiniteSets

CONSTANTS
    Clients,        \* connections of REST, one request at a time
    Main,           \* the main thread
    NoOne,          \* the mutex is free
    Signals,        \* signals the operator may send, of {"usr", "term"}
    MaxCrashes,     \* bound on outages of bitcoind
    MaxRequests,    \* bound on requests of a client
    Returns,        \* does bitcoind always come back?
    ElectrumMayHang \* may Electrum's threads never end? (module Electrum)

Threads == Clients \cup {Main}

VARIABLES
    up,             \* bitcoind: "down", "warm" (RPC_IN_WARMUP) or "up"
    conn,           \* is the connection alive?
    lock,           \* who holds Daemon::conn
    call,           \* where a thread's request is
    once,           \* is it a request_proxied?
    stalled,        \* clients that stopped reading their answer
    pending,        \* signals the notifier thread has not sent
    chan,           \* the channel of signal.rs, bounded(1)
    interrupted,    \* Waiter::interrupted
    main,           \* where the main thread is
    rest,           \* does REST accept requests?
    electrum,       \* "running", "hung" or "ended"
    flushed,        \* were the three databases flushed?
    exit,           \* how the process ended
    sent, crashes, requests

link == <<up, conn, lock, call, once, crashes>>
signal == <<pending, chan, interrupted, sent>>
ending == <<main, rest, electrum, flushed, exit>>
asking == <<requests, stalled>>
shutdownVars == <<link, signal, ending, asking>>

ShutdownInit ==
    /\ up = "up" /\ conn = TRUE /\ lock = NoOne
    /\ call = [t \in Threads |-> "none"]
    /\ once = [t \in Threads |-> FALSE]
    /\ pending = {} /\ chan = {} /\ interrupted = FALSE /\ sent = {}
    /\ main = "loop" /\ rest = TRUE /\ electrum = "running"
    /\ flushed = FALSE /\ exit = "no"
    /\ crashes = 0 /\ requests = [c \in Clients |-> 0] /\ stalled = {}

Alive == exit = "no"

-----------------------------------------------------------------------------
(* Signals.                                                                *)
Kill(s) ==
    /\ Alive /\ s \in Signals \ sent
    /\ sent' = sent \cup {s} /\ pending' = pending \cup {s}
    /\ UNCHANGED <<link, chan, interrupted, ending, asking>>

(* The signal-notifier thread: `send` blocks while the channel is full.    *)
Notifier ==
    /\ Alive /\ chan = {}
    /\ \E s \in pending : chan' = {s} /\ pending' = pending \ {s}
    /\ UNCHANGED <<link, interrupted, sent, ending, asking>>

ForgetsInterrupt(usr, ok, woken, stop) ==
    \/ /\ chan = {} \/ (chan = {"usr"} /\ usr)
       /\ chan' = {} /\ ok /\ UNCHANGED <<pending, interrupted, sent>>
    \/ /\ chan = {"usr"} /\ ~usr
       /\ chan' = {} /\ woken /\ UNCHANGED <<pending, interrupted, sent>>
    \/ /\ chan = {"term"}
       /\ chan' = {} /\ stop /\ UNCHANGED <<interrupted, pending, sent>>

(* Waiter::wait for a thread that found `interrupted` unset: the deadline  *)
(* passes or SIGUSR1 is accepted (ok); SIGUSR1 is ignored and the wait     *)
(* goes on (woken); a termination signal ends it (stop).                   *)
Receive(usr, ok, woken, stop) ==
    \/ /\ chan = {} \/ (chan = {"usr"} /\ usr)
       /\ chan' = {} /\ ok /\ UNCHANGED <<pending, interrupted, sent>>
    \/ /\ chan = {"usr"} /\ ~usr
       /\ chan' = {} /\ woken /\ UNCHANGED <<pending, interrupted, sent>>
    \/ /\ chan = {"term"}
       /\ chan' = {} /\ stop /\ interrupted' = TRUE /\ UNCHANGED <<pending, sent>>

-----------------------------------------------------------------------------
(* A request.  "lock" wants the mutex to send, "reply" holds it, "wait"    *)
(* and "sleep" are the two halves of the wait before a reconnection,       *)
(* "relock" wants the mutex again, "connect", "pause" and "doze" hold it   *)
(* in tcp_connect; "ok", "busy", "stop" and "gone" are results.            *)
At(t, l) == call' = [call EXCEPT ![t] = l]

Lock(t) ==
    /\ Alive /\ call[t] \in {"lock", "relock"} /\ lock = NoOne
    /\ lock' = t
    /\ At(t, IF call[t] = "lock" THEN "reply" ELSE "connect")
    /\ UNCHANGED <<up, conn, once, crashes, signal, ending, asking>>

ReplyLocked(t) ==
    /\ Alive /\ call[t] = "reply"
    /\ lock' = IF conn THEN NoOne ELSE t
    /\ IF conn /\ up = "up" THEN At(t, "ok") \/ At(t, "busy")
       ELSE At(t, IF once[t] THEN "gone" ELSE "wait")
    /\ UNCHANGED <<up, conn, once, crashes, signal, ending, asking>>

(* call_jsonrpc and the arm of retry_request_batch or request_proxied that *)
(* takes its result.  RPC_IN_WARMUP counts as a connection error.          *)
Reply(t) ==
    /\ Alive /\ call[t] = "reply"
    /\ lock' = NoOne
    /\ IF conn /\ up = "up" THEN At(t, "ok") \/ At(t, "busy")
       ELSE At(t, IF once[t] THEN "gone" ELSE "wait")
    /\ UNCHANGED <<up, conn, once, crashes, signal, ending, asking>>

(* signal.wait(3 s, false) before the reconnection and in tcp_connect.     *)
BeginsWait(t) ==
    /\ Alive /\ call[t] \in {"wait", "pause"}
    /\ IF interrupted
       THEN At(t, "stop") /\ lock' = IF lock = t THEN NoOne ELSE lock
       ELSE At(t, IF call[t] = "wait" THEN "sleep" ELSE "doze") /\ UNCHANGED lock
    /\ UNCHANGED <<up, conn, once, crashes, signal, ending, asking>>

Waits(t) ==
    /\ Alive /\ call[t] \in {"sleep", "doze"}
    /\ Receive(FALSE,
               At(t, IF call[t] = "sleep" THEN "relock" ELSE "connect") /\ UNCHANGED lock,
               UNCHANGED <<call, lock>>,
               At(t, "stop") /\ lock' = IF lock = t THEN NoOne ELSE lock)
    /\ UNCHANGED <<up, conn, once, crashes, ending, asking>>

(* tcp_connect, with the mutex held.                                       *)
Connect(t) ==
    /\ Alive /\ call[t] = "connect"
    /\ IF up # "down" THEN conn' = TRUE /\ lock' = NoOne /\ At(t, "lock")
       ELSE At(t, "pause") /\ UNCHANGED <<conn, lock>>
    /\ UNCHANGED <<up, once, crashes, signal, ending, asking>>

Crash ==
    /\ Alive /\ up # "down" /\ crashes < MaxCrashes
    /\ up' = "down" /\ conn' = FALSE /\ crashes' = crashes + 1
    /\ UNCHANGED <<lock, call, once, signal, ending, asking>>

Restart ==
    /\ Alive /\ up # "up"
    /\ up' = IF up = "down" THEN "warm" ELSE "up"
    /\ UNCHANGED <<conn, lock, call, once, crashes, signal, ending, asking>>

-----------------------------------------------------------------------------
(* A client's request.  REST stops accepting when the main thread stops    *)
(* it; requests in flight finish.                                          *)
Results == {"ok", "busy", "stop", "gone"}

ClientAsks(c, o) ==
    /\ Alive /\ rest /\ call[c] = "none" /\ requests[c] < MaxRequests
    /\ requests' = [requests EXCEPT ![c] = @ + 1]
    /\ At(c, "lock") /\ once' = [once EXCEPT ![c] = o]
    /\ UNCHANGED <<up, conn, lock, crashes, signal, ending, stalled>>

(* The answer is written and the client reads it.                          *)
ClientAnswered(c) ==
    /\ Alive /\ call[c] \in Results /\ c \notin stalled
    /\ At(c, "none")
    /\ UNCHANGED <<up, conn, lock, once, crashes, signal, ending, asking>>

(* The client stops reading, and the task that writes to it waits: nothing *)
(* bounds that.  It may read on, or hang up, at any time.                  *)
ClientStalls(c) ==
    /\ Alive /\ call[c] \in Results /\ c \notin stalled
    /\ stalled' = stalled \cup {c}
    /\ UNCHANGED <<link, signal, ending, requests>>

ClientReturns(c) ==
    /\ Alive /\ call[c] \in Results /\ c \in stalled
    /\ At(c, "none") /\ stalled' = stalled \ {c}
    /\ UNCHANGED <<up, conn, lock, once, crashes, signal, ending, requests>>

-----------------------------------------------------------------------------
(* The main loop: "loop" enters signal.wait, "poll" is in it, then the     *)
(* three requests of a round.                                              *)
MainAt(l) == main' = l /\ UNCHANGED <<rest, electrum, flushed, exit>>

BeginsRound ==
    /\ Alive /\ main = "loop"
    /\ MainAt(IF interrupted THEN "reststop" ELSE "poll")
    /\ UNCHANGED <<link, signal, asking>>

Poll ==
    /\ Alive /\ main = "poll"
    /\ Receive(TRUE,
               MainAt("getbestblockhash") /\ At(Main, "lock"),
               UNCHANGED <<ending, call>>,
               MainAt("reststop") /\ UNCHANGED call)
    /\ UNCHANGED <<up, conn, lock, once, crashes, asking>>

(* getbestblockhash()? and indexer.update()? leave run_server on any       *)
(* error; Mempool::update's error is logged.                               *)
MainResult ==
    /\ Alive /\ call[Main] \in Results
    /\ \/ /\ call[Main] = "ok" /\ main = "getbestblockhash"
          /\ MainAt("indexer.update") /\ At(Main, "lock")
       \/ /\ call[Main] = "ok" /\ main = "getbestblockhash"     \* current_tip = tip
          /\ MainAt("mempool.update") /\ At(Main, "lock")
       \/ /\ call[Main] = "ok" /\ main = "indexer.update"
          /\ MainAt("mempool.update") /\ At(Main, "lock")
       \/ /\ call[Main] # "ok" /\ main \in {"getbestblockhash", "indexer.update"}
          /\ MainAt("failed") /\ At(Main, "none")
       \/ /\ main = "mempool.update"
          /\ MainAt("loop") /\ At(Main, "none")
    /\ UNCHANGED <<up, conn, lock, once, crashes, signal, asking>>

-----------------------------------------------------------------------------
(* The end.                                                                *)
ElectrumEnds ==
    /\ Alive /\ electrum = "running" /\ main \in {"join", "failed"}
    /\ electrum' \in {"ended"} \cup (IF ElectrumMayHang THEN {"hung"} ELSE {})
    /\ UNCHANGED <<link, signal, main, rest, flushed, exit, asking>>

(* rest::Handle::stop: no new requests, and the task of every connection   *)
(* is awaited, for as long as its client takes to read the answer.         *)
RestStop ==
    /\ Alive /\ main = "reststop"
    /\ \/ rest /\ rest' = FALSE /\ UNCHANGED main
       \/ ~rest /\ (\A c \in Clients : call[c] = "none") /\ main' = "flush" /\ UNCHANGED rest
    /\ UNCHANGED <<link, signal, electrum, flushed, exit, asking>>

FlushLater ==
    /\ Alive /\ main = "flush"
    /\ main' = "join"
    /\ UNCHANGED <<link, signal, rest, electrum, flushed, exit, asking>>

(* flush_index_store.                                                      *)
Flush ==
    /\ Alive /\ main = "flush"
    /\ flushed' = TRUE /\ main' = "join"
    /\ UNCHANGED <<link, signal, rest, electrum, exit, asking>>

(* stop_and_take_join_handle, join_thread_within: the thread ended, or     *)
(* five seconds passed and the process is left.                            *)
ElectrumJoin ==
    /\ Alive /\ main = "join"
    /\ \/ electrum = "ended" /\ main' = "watchdog" /\ UNCHANGED exit
       \/ electrum # "ended" /\ exit' = "forced" /\ UNCHANGED main
    /\ UNCHANGED <<link, signal, rest, electrum, flushed, asking>>

(* spawn_shutdown_watchdog, and run_server returns before it bites, or     *)
(* does not.                                                               *)
ArmWatchdog ==
    /\ Alive /\ main = "watchdog"
    /\ exit' \in {"clean", "forced"}
    /\ UNCHANGED <<link, signal, main, rest, electrum, flushed, asking>>

(* run_server returned an error: RPC's Drop joins Electrum, without bound, *)
(* and main exits with an error.                                           *)
Unwind ==
    /\ Alive /\ main = "failed" /\ electrum = "ended"
    /\ exit' = "error"
    /\ UNCHANGED <<link, signal, main, rest, electrum, flushed, asking>>

Ended == ~Alive /\ UNCHANGED shutdownVars

Step(t) == Lock(t) \/ Reply(t) \/ BeginsWait(t) \/ Waits(t) \/ Connect(t)
MainStep ==
    \/ BeginsRound \/ Poll \/ MainResult
    \/ RestStop \/ Flush \/ ElectrumJoin \/ ArmWatchdog \/ Unwind

ShutdownNext ==
    \/ \E s \in Signals : Kill(s)
    \/ Notifier \/ Crash \/ Restart
    \/ \E t \in Threads : Step(t)
    \/ \E c \in Clients : \/ ClientAnswered(c) \/ ClientStalls(c) \/ ClientReturns(c)
                         \/ \E o \in BOOLEAN : ClientAsks(c, o)
    \/ MainStep \/ ElectrumEnds \/ Ended

(* Threads run, the mutex is handed to those who wait for it, sleeps end,  *)
(* and bitcoind comes back where the instance says so.  A client that      *)
(* stopped reading need not return.                                        *)
Fairness ==
    /\ WF_shutdownVars(Notifier) /\ WF_shutdownVars(MainStep) /\ WF_shutdownVars(ElectrumEnds)
    /\ \A t \in Threads : WF_shutdownVars(Step(t)) /\ SF_shutdownVars(Lock(t))
    /\ \A c \in Clients : WF_shutdownVars(ClientAnswered(c))
    /\ Returns => WF_shutdownVars(Restart)

ShutdownSpec == ShutdownInit /\ [][ShutdownNext]_shutdownVars /\ Fairness

-----------------------------------------------------------------------------
(* Every variable has its type; at most one signal is in the channel, and  *)
(* the main thread waits for signals only between its requests.            *)
ShutdownTypeOK ==
    /\ up \in {"down", "warm", "up"} /\ conn \in BOOLEAN /\ lock \in Threads \cup {NoOne}
    /\ call \in [Threads -> {"none", "lock", "reply", "wait", "sleep", "relock",
                             "connect", "pause", "doze"} \cup Results]
    /\ Cardinality(chan) <= 1
    /\ exit \in {"no", "clean", "forced", "error"}
    /\ main = "loop" => call[Main] = "none"

(* The process waits without bound: for Electrum's threads after an error, *)
(* or for a REST client that stopped reading.                              *)
Blocked ==
    \/ main = "failed" /\ electrum = "hung"
    \/ main = "reststop" /\ stalled # {}

(* A termination signal ends the process, whoever receives it: a client's  *)
(* thread in its wait, or a mempool update that only logs it.  Only those  *)
(* two waits can prevent that, and only while they last.                   *)
Stops == []("term" \notin sent) \/ <>(~Alive) \/ <>[]Blocked

(* The same with no exception.  This does not hold (README.md, "Statements *)
(* that fail").                                                            *)
AlwaysStops == "term" \in sent ~> ~Alive

(* An end that is not an error, by force or not, comes after the three     *)
(* databases are flushed ("allowed only after flush"), with REST stopped   *)
(* and no request of it under way.                                         *)
ForcedAfterFlush ==
    exit \in {"forced", "clean"} => flushed /\ ~rest /\ \A c \in Clients : call[c] = "none"

(* Only the thread that has the mutex uses or replaces the connection: one *)
(* that sleeps before it reconnects, has its result or was told to stop    *)
(* has let go of it, whichever way it left the call.                       *)
ConnGuarded == \A t \in Threads : lock = t <=> call[t] \in {"reply", "connect", "pause", "doze"}

(* The mutex guards the connection, and no end of the process but one by   *)
(* an error comes before the flush.                                        *)
OrderlyProcess == ShutdownTypeOK /\ ConnGuarded /\ ForcedAfterFlush

(* A client gets its answer, though the main thread may hold the mutex     *)
(* through an outage, as long as outages end.                              *)
ClientsAnswered == \A c \in Clients : call[c] = "lock" ~> (call[c] \in Results \/ ~Alive)

(* daemon.rs, of request_proxied: "Do not retry Connection forever: the    *)
(* caller gets DaemonUnavailable".  A one-shot request is answered though  *)
(* bitcoind stays away.                                                    *)
OneShotAnswered ==
    \A c \in Clients : (call[c] = "lock" /\ once[c]) ~> (call[c] \in Results \/ ~Alive)

(* electrs.rs: "This tree stops REST, flushes the three RocksDB column     *)
(* families, then joins Electrum": after a signal the process never ends   *)
(* without the flush.                                                      *)
TermFlushes == ~Alive /\ interrupted => flushed
=============================================================================
