------------------------------ MODULE Electrum ------------------------------
(***************************************************************************)
(* The Electrum RPC server (src/electrum/server.rs): the accept loop, the  *)
(* notification thread, and for each connection a peer thread (the reply   *)
(* loop, with the subscriptions) and a reader thread, which feeds it       *)
(* through a bounded channel.                                              *)
(*                                                                         *)
(* A status is the history it is the hash of; the histories and the tip    *)
(* are moved by the indexer and the mempool, outside this module.          *)
(***************************************************************************)
EXTENDS Integers, FiniteSets, Sequences

CONSTANTS
    Conns,          \* connections, each made at most once
    Hashes,         \* script hashes
    Addrs,          \* client addresses
    NoAddr,
    DirectIp,       \* [Conns -> Addrs \cup {NoAddr}]: NoAddr for a unix socket
    Layers,         \* [Conns -> Seq(Addrs)]: what the PROXY headers report
    HaproxyDepth,
    PerClient,      \* electrum_connections_per_client; 0 is no limit
    MaxClients,     \* electrum_max_clients
    MaxSubs,        \* electrum_max_subscriptions
    ChanSize,       \* 10 in Connection::new
    Histories,      \* histories a script hash can have, NoHistory among them
    NoHistory,
    TooLong,        \* a history longer than electrum_txs_limit
    None,
    MaxChanges,     \* bound: moves of the tip or of a history
    MaxLines,       \* bound: lines one client sends
    MaxNotes        \* bound: notifications waiting

VARIABLES
    tip,            \* best header, as a number
    hist,           \* [Hashes -> Histories \cup {TooLong}]
    changes,        \* moves made so far (bound)
    conn,           \* [Conns -> the connection's record]
    counts,         \* client_counts: [Addrs -> Nat], 0 where there is no entry
    clients,        \* the two gauges of Stats
    subscriptions,
    senders,        \* connections the notifier and the stop still know
    threads,        \* peer threads not joined yet
    garbage,        \* finished peer threads, to be joined at the next accept
    acceptor,       \* streams accepted and not served yet; None ends the loop
    notes,          \* Periodic notifications waiting
    exit,           \* the Exit notification: "no", "sent" or "seen"
    rpc             \* the accept loop: "serving", "joining", "stopped", or "exited" with the process

world == <<tip, hist, changes>>
stats == <<counts, clients, subscriptions>>
loop == <<threads, garbage, acceptor, rpc>>
electrumVars == <<world, conn, stats, senders, loop, notes, exit>>

Commands == [cmd: {"headers", "ping"}] \cup [cmd: {"subscribe", "unsubscribe"}, hash: Hashes]
             \cup [cmd: {"broadcast"}]
Request(l) == [kind |-> "Request", line |-> l]
PeriodicUpdate == [kind |-> "Periodic"]
Done == [kind |-> "Done"]
Proxy == [kind |-> "Proxy"]
Messages == {Request(l): l \in Commands} \cup {PeriodicUpdate, Done, Proxy}

NoneTold == [header |-> None, status |-> [s \in Hashes |-> None]]

(* Connection::new: no header subscription, no status, an empty channel.   *)
NewConnection == [phase |-> "none", peer |-> "up", reader |-> "proxy", pending |-> None,
                  open |-> TRUE, chan |-> <<>>, told |-> NoneTold,
                  reg |-> NoAddr, killed |-> FALSE, lines |-> 0]

ElectrumInit ==
    /\ tip = 0 /\ changes = 0
    /\ hist = [s \in Hashes |-> NoHistory]
    /\ conn = [c \in Conns |-> NewConnection]
    /\ counts = [a \in Addrs |-> 0]
    /\ clients = 0 /\ subscriptions = 0
    /\ senders = {} /\ threads = {} /\ garbage = {}
    /\ acceptor = <<>> /\ notes = 0 /\ exit = "no" /\ rpc = "serving"

------------------------------------------------------------------------------
(* The index and the mempool move; a reorganisation may bring back an old
   history.                                                                 *)
World ==
    /\ changes < MaxChanges
    /\ changes' = changes + 1
    /\ \/ tip' = tip + 1 /\ UNCHANGED hist
       \/ \E s \in Hashes, h \in (Histories \cup {TooLong}) :
            hist' = [hist EXCEPT ![s] = h] /\ UNCHANGED tip
    /\ UNCHANGED <<conn, stats, senders, loop, notes, exit>>

(* RPC::notify, at the end of every round of the main loop.                *)
Notify ==
    /\ exit = "no" /\ notes < MaxNotes
    /\ notes' = notes + 1
    /\ UNCHANGED <<world, conn, stats, senders, loop, exit>>

(* stop_and_take_join_handle, and Drop.                                    *)
Stop ==
    /\ exit = "no" /\ exit' = "sent"
    /\ UNCHANGED <<world, conn, stats, senders, loop, notes>>

(* try_send: a full channel drops the message.                             *)
TrySend(r, m) == IF r.open /\ Len(r.chan) < ChanSize THEN [r EXCEPT !.chan = Append(@, m)] ELSE r

\* Mutant: a full channel loses its sender as well.
ForgetsFull ==
    /\ notes > 0 /\ notes' = notes - 1
    /\ senders' = {c \in senders : conn[c].open /\ Len(conn[c].chan) < ChanSize}
    /\ conn' = [c \in Conns |-> IF c \in senders THEN TrySend(conn[c], PeriodicUpdate) ELSE conn[c]]
    /\ UNCHANGED <<world, stats, loop, exit>>

(* start_notifier: senders of closed channels are dropped, a full channel
   loses the update and keeps its sender.                                   *)
NotifyPeriodic ==
    /\ notes > 0 /\ notes' = notes - 1
    /\ senders' = {c \in senders : conn[c].open}
    /\ conn' = [c \in Conns |-> IF c \in senders THEN TrySend(conn[c], PeriodicUpdate) ELSE conn[c]]
    /\ UNCHANGED <<world, stats, loop, exit>>

\* Mutant: the accept loop is not told.
ExitUnannounced ==
    /\ notes = 0 /\ exit = "sent" /\ exit' = "seen"
    /\ UNCHANGED <<world, conn, stats, senders, loop, notes>>

NotifyExit ==
    /\ notes = 0 /\ exit = "sent" /\ exit' = "seen"
    /\ acceptor' = Append(acceptor, None)
    /\ UNCHANGED <<world, conn, stats, senders, threads, garbage, rpc, notes>>

(* ConnectionListener::run: a stream goes to the accept loop until the
   listener sees its shutdown.                                              *)
Connect(c) ==
    /\ conn[c].phase = "none" /\ exit # "seen"
    /\ conn' = [conn EXCEPT ![c].phase = "accepted"]
    /\ acceptor' = Append(acceptor, c)
    /\ UNCHANGED <<world, stats, senders, threads, garbage, rpc, notes, exit>>

(* The body of the accept loop: join the finished peers, then enforce
   max_clients on what is left.                                             *)
Serve ==
    /\ rpc = "serving" /\ acceptor # <<>> /\ Head(acceptor) # None
    /\ LET c == Head(acceptor)
           alive == threads \ garbage
           full == Cardinality(alive) >= MaxClients
       IN /\ threads' = IF full THEN alive ELSE alive \cup {c}
          /\ conn' = [conn EXCEPT ![c].phase = IF full THEN "gone" ELSE "spawned",
                                  ![c].open = ~full]
    /\ garbage' = {}
    /\ acceptor' = Tail(acceptor)
    /\ UNCHANGED <<world, stats, senders, rpc, notes, exit>>

(* The end of the accept loop: Done to every channel with room.            *)
CloseAll ==
    /\ rpc = "serving" /\ acceptor # <<>> /\ Head(acceptor) = None
    /\ conn' = [c \in Conns |-> IF c \in senders THEN TrySend(conn[c], Done)
                                ELSE IF conn[c].phase = "accepted" THEN [conn[c] EXCEPT !.phase = "gone"]
                                ELSE conn[c]]
    /\ acceptor' = <<>>
    /\ rpc' = "joining"
    /\ UNCHANGED <<world, stats, senders, threads, garbage, notes, exit>>

(* One peer thread after the other is killed and then joined.  The killer
   shuts the stream down and stops the reply loop (properly-die).           *)
Kill(c) ==
    /\ rpc = "joining" /\ c \in threads
    /\ \A d \in threads : ~conn[d].killed
    /\ conn' = [conn EXCEPT ![c].killed = TRUE, ![c].peer = "closed"]
    /\ UNCHANGED <<world, stats, senders, loop, notes, exit>>

Join(c) ==
    /\ rpc = "joining" /\ c \in threads /\ conn[c].killed /\ conn[c].phase = "gone"
    /\ threads' = threads \ {c}
    /\ UNCHANGED <<world, conn, stats, senders, garbage, acceptor, rpc, notes, exit>>

Stopped ==
    /\ rpc = "joining" /\ threads = {} /\ rpc' = "stopped"
    /\ UNCHANGED <<world, conn, stats, senders, threads, garbage, acceptor, notes, exit>>

------------------------------------------------------------------------------
(* The peer thread registers its channel with the notifier, then run().    *)
PeerStarts(c) ==
    /\ conn[c].phase = "spawned"
    /\ senders' = senders \cup {c}
    /\ clients' = clients + 1
    /\ conn' = [conn EXCEPT ![c].phase = "open"]
    /\ UNCHANGED <<world, counts, subscriptions, loop, notes, exit>>

Subscribed(r) == {s \in Hashes : r.told.status[s] # None}

\* Mutant: the client count is only given back by an orderly end.
LeaveKeepsSlot(c, r, orderly) ==
    /\ conn' = [conn EXCEPT ![c] = [r EXCEPT !.phase = "closing", !.peer = "closed", !.reg = NoAddr,
                                              !.open = ~orderly, !.chan = IF orderly THEN <<>> ELSE @]]
    /\ clients' = clients - 1
    /\ subscriptions' = subscriptions - Cardinality(Subscribed(r))
    /\ counts' = IF r.reg = NoAddr \/ ~orderly THEN counts ELSE [counts EXCEPT ![r.reg] = @ - 1]

\* Mutant: the subscriptions of a connection that ends are not subtracted.
LeaveKeepsGauge(c, r, orderly) ==
    /\ conn' = [conn EXCEPT ![c] = [r EXCEPT !.phase = "closing", !.peer = "closed", !.reg = NoAddr,
                                              !.open = ~orderly, !.chan = IF orderly THEN <<>> ELSE @]]
    /\ clients' = clients - 1
    /\ UNCHANGED subscriptions
    /\ counts' = IF r.reg = NoAddr THEN counts ELSE [counts EXCEPT ![r.reg] = @ - 1]

(* The end of run(), after the reply loop: gauges, client count, stream.
   Only an orderly end closed the channel before.                           *)
Leave(c, r, orderly) ==
    /\ conn' = [conn EXCEPT ![c] = [r EXCEPT !.phase = "closing", !.peer = "closed", !.reg = NoAddr,
                                              !.open = ~orderly, !.chan = IF orderly THEN <<>> ELSE @]]
    /\ clients' = clients - 1
    /\ subscriptions' = subscriptions - Cardinality(Subscribed(r))
    /\ counts' = IF r.reg = NoAddr THEN counts ELSE [counts EXCEPT ![r.reg] = @ - 1]

(* child.join(): the peer thread waits for its reader, then reports itself
   finished; dropping the connection closes the channel.                    *)
Finish(c) ==
    /\ conn[c].phase = "closing" /\ conn[c].reader = "exited"
    /\ conn' = [conn EXCEPT ![c].phase = "gone", ![c].open = FALSE, ![c].chan = <<>>]
    /\ garbage' = garbage \cup {c}
    /\ UNCHANGED <<world, stats, senders, threads, acceptor, rpc, notes, exit>>

(* send_values on a stream whose other end may be closed: the client reads
   the lines, or the write fails and ends the reply loop.                   *)
Send(c, r) ==
    \/ /\ r.peer = "up"
       /\ conn' = [conn EXCEPT ![c] = r]
       /\ UNCHANGED <<clients, counts>>
       /\ subscriptions' = subscriptions + Cardinality(Subscribed(r)) - Cardinality(Subscribed(conn[c]))
    \/ /\ r.peer = "closed"
       /\ Leave(c, [r EXCEPT !.told = conn[c].told], FALSE)

(* blockchain_headers_subscribe                                            *)
HeadersSubscribe(r) == [r EXCEPT !.told.header = tip]

(* blockchain_scripthash_subscribe: the limit does not count a script hash
   subscribed to already; a history over the limit is an error.             *)
ScripthashSubscribe(r, s) ==
    IF \/ s \notin Subscribed(r) /\ Cardinality(Subscribed(r)) >= MaxSubs
       \/ hist[s] = TooLong
    THEN r ELSE [r EXCEPT !.told.status[s] = hist[s]]

(* blockchain_scripthash_unsubscribe                                       *)
ScripthashUnsubscribe(r, s) == [r EXCEPT !.told.status[s] = None]

(* blockchain_transaction_broadcast: an update for the own channel.        *)
Broadcast(r) == TrySend(r, PeriodicUpdate)

(* handle_line, handle_value, handle_command.  Every other method, and every
   request that cannot be parsed, leaves the connection as it is.           *)
HandleLine(r, l) ==
    CASE l.cmd = "headers" -> HeadersSubscribe(r)
      [] l.cmd = "subscribe" -> ScripthashSubscribe(r, l.hash)
      [] l.cmd = "unsubscribe" -> ScripthashUnsubscribe(r, l.hash)
      [] l.cmd = "broadcast" -> Broadcast(r)
      [] OTHER -> r

(* update_subscriptions: the header if it changed, then every status.      *)
UpdateSubscriptions(r) ==
    [r EXCEPT !.told = [header |-> IF @.header = None THEN None ELSE tip,
                       status |-> [s \in Hashes |-> IF s \in Subscribed(r) THEN hist[s] ELSE None]]]

(* set_proxy_client and the key of register_client.                        *)
ProxyClient(c) ==
    IF HaproxyDepth = 0 \/ Len(Layers[c]) < HaproxyDepth THEN NoAddr ELSE Layers[c][HaproxyDepth]
ClientKey(c) == IF ProxyClient(c) # NoAddr THEN ProxyClient(c) ELSE DirectIp[c]

(* handle_replies on one message of the channel.                           *)
Rest(c) == [conn[c] EXCEPT !.chan = Tail(@)]
Receiving(c, kind) ==
    conn[c].phase = "open" /\ conn[c].chan # <<>> /\ Head(conn[c].chan).kind = kind
ReplyUnchanged == UNCHANGED <<world, senders, loop, notes, exit>>

ReplyRequest(c) ==
    /\ Receiving(c, "Request")
    /\ LET r == HandleLine(Rest(c), Head(conn[c].chan).line) IN Send(c, r)
    /\ ReplyUnchanged

ReplyPeriodic(c) ==
    /\ Receiving(c, "Periodic")
    /\ IF \E s \in Subscribed(conn[c]) : hist[s] = TooLong
       THEN Leave(c, Rest(c), FALSE)
       ELSE LET r == UpdateSubscriptions(Rest(c)) IN
            IF r.told = conn[c].told      \* nothing to send
            THEN conn' = [conn EXCEPT ![c] = r] /\ UNCHANGED stats
            ELSE Send(c, r)
    /\ ReplyUnchanged

ReplyDone(c) ==
    /\ Receiving(c, "Done")
    /\ Leave(c, Rest(c), TRUE)
    /\ ReplyUnchanged

(* register_client                                                         *)
ReplyProxy(c) ==
    /\ Receiving(c, "Proxy")
    /\ LET a == ClientKey(c) IN
       IF PerClient = 0 \/ a = NoAddr
       THEN conn' = [conn EXCEPT ![c] = Rest(c)] /\ UNCHANGED stats
       ELSE IF counts[a] >= PerClient
       THEN Leave(c, Rest(c), TRUE)
       ELSE /\ counts' = [counts EXCEPT ![a] = @ + 1]
            /\ conn' = [conn EXCEPT ![c] = [Rest(c) EXCEPT !.reg = a]]
            /\ UNCHANGED <<clients, subscriptions>>
    /\ ReplyUnchanged

ReplyKilled(c) ==
    /\ conn[c].phase = "open" /\ conn[c].killed
    /\ Leave(c, conn[c], TRUE)
    /\ ReplyUnchanged

(* close_idle_connection: no request for idle_timeout, whatever else came. *)
ReplyIdle(c) ==
    /\ conn[c].phase = "open" /\ conn[c].peer # "stalled"
    /\ Leave(c, conn[c], TRUE)
    /\ ReplyUnchanged

------------------------------------------------------------------------------
(* The reader thread: it lives from run() on, and blocks in send while the
   channel is full and its receiver exists.                                 *)
Reading(c) == conn[c].phase \in {"open", "closing"} /\ conn[c].pending = None
ReaderUnchanged == UNCHANGED <<world, stats, senders, loop, notes, exit>>

(* read_proxy_headers: the headers come first, complete or absent; a header
   that is too long or an error of the socket ends the reader.              *)
ReadProxy(c) ==
    /\ Reading(c) /\ conn[c].reader = "proxy"
    /\ \/ conn' = [conn EXCEPT ![c].reader = "lines", ![c].pending = Proxy]
       \/ conn' = [conn EXCEPT ![c].reader = "exited"]
    /\ ReaderUnchanged

(* handle_requests: a line; the end of the stream, or a line that is too
   long, TLS or not UTF-8 (Done, and out); a failed read (out).             *)
ReadLine(c) ==
    /\ Reading(c) /\ conn[c].reader = "lines"
    /\ \/ \E l \in Commands :
            /\ conn[c].lines < MaxLines /\ conn[c].peer # "closed"
            /\ conn' = [conn EXCEPT ![c].pending = Request(l), ![c].lines = @ + 1]
       \/ conn' = [conn EXCEPT ![c].reader = "last", ![c].pending = Done]
       \/ conn[c].peer = "closed" /\ conn' = [conn EXCEPT ![c].reader = "exited"]
    /\ ReaderUnchanged

(* tx.send: blocking, and an error once the receiver is gone.              *)
ReaderSends(c) ==
    /\ conn[c].pending # None
    /\ conn[c].open => Len(conn[c].chan) < ChanSize
    /\ conn' = [conn EXCEPT ![c].pending = None,
                            ![c].chan = IF conn[c].open THEN Append(@, conn[c].pending) ELSE @,
                            ![c].reader = IF @ = "last" \/ ~conn[c].open THEN "exited" ELSE @]
    /\ ReaderUnchanged

(* The client hangs up, stops reading for good, or reads on.               *)
Client(c) ==
    /\ conn[c].phase \in {"accepted", "spawned", "open"} /\ conn[c].peer # "closed"
    /\ \E p \in {"up", "stalled", "closed"} \ {conn[c].peer} : conn' = [conn EXCEPT ![c].peer = p]
    /\ ReaderUnchanged

Peer(c) == PeerStarts(c) \/ Finish(c) \/ ReplyRequest(c) \/ ReplyPeriodic(c) \/ ReplyDone(c)
               \/ ReplyProxy(c) \/ ReplyKilled(c)
Reader(c) == ReadProxy(c) \/ ReadLine(c) \/ ReaderSends(c)
Server == Serve \/ CloseAll \/ Stopped \/ \E c \in Conns : Kill(c) \/ Join(c)
Notifier == NotifyPeriodic \/ NotifyExit

(* join_thread_within: the main thread waits five seconds for the rpc thread,
   then exits the process.                                                  *)
JoinTimeout ==
    /\ exit # "no" /\ rpc # "stopped" /\ rpc' = "exited"
    /\ UNCHANGED <<world, conn, stats, senders, threads, garbage, acceptor, notes, exit>>

(* A stopped server has nothing left to do. *)
Halted == rpc = "stopped" /\ UNCHANGED electrumVars

Running == rpc # "exited"

ElectrumNext ==
    \/ rpc = "exited" /\ UNCHANGED electrumVars
    \/ Running /\ (World \/ Notify \/ Stop \/ Notifier \/ Server \/ JoinTimeout \/ Halted)
    \/ Running /\ \E c \in Conns : Connect(c) \/ Peer(c) \/ ReplyIdle(c) \/ Reader(c) \/ Client(c)

(* Threads run; the main loop goes on notifying (its rounds are periodic) and
   a socket whose other end is closed ends its reader.  Nothing is assumed of
   clients.                                                                 *)
HungUp(c) == conn[c].peer = "closed" /\ (ReadProxy(c) \/ ReadLine(c))

ElectrumFairness ==
    /\ WF_electrumVars(Running /\ Notify) /\ WF_electrumVars(Running /\ Notifier)
    /\ WF_electrumVars(Running /\ Server)
    /\ \A c \in Conns : /\ WF_electrumVars(Running /\ Peer(c))
                        /\ WF_electrumVars(Running /\ ReaderSends(c))
                        /\ WF_electrumVars(Running /\ HungUp(c))

ElectrumSpec == ElectrumInit /\ [][ElectrumNext]_electrumVars /\ ElectrumFairness

------------------------------------------------------------------------------
Told == [header: Nat \cup {None}, status: [Hashes -> Histories \cup {None}]]

(* The types of the server's state. *)
ElectrumTypeOK ==
    /\ tip \in Nat /\ changes \in 0..MaxChanges
    /\ hist \in [Hashes -> Histories \cup {TooLong}]
    /\ conn \in [Conns -> [phase: {"none", "accepted", "spawned", "open", "closing", "gone"},
                           peer: {"up", "stalled", "closed"},
                           reader: {"proxy", "lines", "last", "exited"},
                           pending: Messages \cup {None}, open: BOOLEAN,
                           chan: Seq(Messages), told: Told,
                           reg: Addrs \cup {NoAddr}, killed: BOOLEAN, lines: 0..MaxLines]]
    /\ counts \in [Addrs -> Nat] /\ clients \in Nat /\ subscriptions \in Nat
    /\ senders \subseteq Conns /\ threads \subseteq Conns /\ garbage \subseteq Conns
    /\ acceptor \in Seq(Conns \cup {None})
    /\ notes \in 0..MaxNotes /\ exit \in {"no", "sent", "seen"}
    /\ rpc \in {"serving", "joining", "stopped", "exited"}

(* register_client and unregister_client balance on every way out of a
   connection: the counter of an address is the number of open connections
   that hold a slot of it, and never more than the limit.                   *)
SlotsBalance ==
    \A a \in Addrs :
        /\ counts[a] = Cardinality({c \in Conns : conn[c].reg = a})
        /\ PerClient > 0 => counts[a] <= PerClient
        /\ \A c \in Conns : conn[c].reg = a => conn[c].phase = "open"

(* The gauges come back to what the open connections hold, although
   subscribe, unsubscribe and the end of run() move them separately.        *)
GaugesBalance ==
    LET open == {c \in Conns : conn[c].phase = "open"} IN
    /\ clients = Cardinality(open)
    /\ subscriptions = Cardinality({cs \in open \X Hashes : cs[2] \in Subscribed(conn[cs[1]])})

(* Slots and gauges both are what the connections hold. *)
ConnectionsBalance == SlotsBalance /\ GaugesBalance

(* The reader of a connection whose reply loop failed waits for room in a
   channel that nobody reads any more.                                      *)
Stuck(c) == conn[c].phase = "closing" /\ conn[c].open /\ conn[c].pending # None
                /\ Len(conn[c].chan) = ChanSize

(* Notifications are dropped while a channel is full, yet a client that reads
   its socket learns the tip and the histories it subscribed to, or loses the
   connection.                                                              *)
UpToDate(c) ==
    /\ conn[c].told.header \in {None, tip}
    /\ \A s \in Hashes : conn[c].told.status[s] \in {None, hist[s]}
Informed ==
    \A c \in Conns :
        []<>(conn[c].phase # "open" \/ conn[c].peer = "stalled" \/ UpToDate(c) \/ exit # "no")

(* stop_and_take_join_handle: the accept loop ends and every peer is joined,
   unless one of them is stuck.                                             *)
StopsUnlessStuck == exit = "sent" ~> (rpc \in {"stopped", "exited"} \/ \E c \in Conns : Stuck(c))

(* "Kill the peers properly": every peer thread that leaves its reply loop
   finishes.                                                                *)
PeersFinish == \A c \in Conns : conn[c].phase = "closing" ~> (conn[c].phase = "gone" \/ ~Running)
=============================================================================
