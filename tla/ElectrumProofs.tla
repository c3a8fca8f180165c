--------------------------- MODULE ElectrumProofs ---------------------------
(***************************************************************************)
(* A theorem about Electrum, for any finite number of connections and      *)
(* script hashes and every setting of the limits.                          *)
(***************************************************************************)
EXTENDS Electrum, FiniteSetTheorems, SequenceTheorems, TLAPS

(* What is used of the constants.                                          *)
ServerConstants ==
    /\ IsFiniteSet(Conns) /\ IsFiniteSet(Hashes)
    /\ NoAddr \notin Addrs /\ None \notin Messages
    /\ DirectIp \in [Conns -> Addrs \cup {NoAddr}]
    /\ Layers \in [Conns -> Seq(Addrs)] /\ HaproxyDepth \in Nat
    /\ PerClient \in Nat /\ NoHistory \in Histories
    /\ MaxChanges \in Nat /\ MaxLines \in Nat /\ MaxNotes \in Nat

Phases == {"none", "accepted", "spawned", "open", "closing", "gone"}
ConnRecord == [phase: Phases, peer: {"up", "stalled", "closed"},
               reader: {"proxy", "lines", "last", "exited"},
               pending: Messages \cup {None}, open: BOOLEAN,
               chan: Seq(Messages), told: Told,
               reg: Addrs \cup {NoAddr}, killed: BOOLEAN, lines: 0..MaxLines]

(* The reader passes the PROXY header on once, so that register_client is  *)
(* called once: the message is still to be read, pending, in the channel   *)
(* or handled.                                                             *)
NoProxy(r) == r.reg = NoAddr /\ \A i \in DOMAIN r.chan : r.chan[i] # Proxy
ProxyOnce(r) ==
    /\ r.reader = "proxy" => r.pending # Proxy /\ NoProxy(r)
    /\ r.pending = Proxy => NoProxy(r)
    /\ \A i, j \in DOMAIN r.chan : r.chan[i] = Proxy /\ r.chan[j] = Proxy => i = j
    /\ \A i \in DOMAIN r.chan : r.chan[i] = Proxy => r.reg = NoAddr

(* A connection has no subscription before its reply loop runs, and holds  *)
(* its slot only while it runs.                                            *)
ConnOK(r) ==
    /\ r \in ConnRecord
    /\ r.phase \in {"none", "accepted", "spawned"} => Subscribed(r) = {}
    /\ r.reg # NoAddr => r.phase = "open"
    /\ ProxyOnce(r)

(* A stream waits once, and in its first phase, for the accept loop.       *)
AcceptInv ==
    /\ \A i \in DOMAIN acceptor : acceptor[i] # None => conn[acceptor[i]].phase = "accepted"
    /\ \A i, j \in DOMAIN acceptor : acceptor[i] = acceptor[j] /\ acceptor[i] # None => i = j

LoopType ==
    /\ tip \in Nat /\ changes \in 0..MaxChanges
    /\ hist \in [Hashes -> Histories \cup {TooLong}]
    /\ senders \subseteq Conns /\ threads \subseteq Conns /\ garbage \subseteq Conns
    /\ acceptor \in Seq(Conns \cup {None})
    /\ notes \in 0..MaxNotes /\ exit \in {"no", "sent", "seen"}
    /\ rpc \in {"serving", "joining", "stopped", "exited"}
ConnsOK == DOMAIN conn = Conns /\ conn = [c \in Conns |-> conn[c]] /\ \A c \in Conns : ConnOK(conn[c])

SlotLimit == \A a \in Addrs : PerClient > 0 => counts[a] <= PerClient
CountsType == counts \in [Addrs -> Int] /\ clients \in Int /\ subscriptions \in Int

OpenIn(f) == {c \in Conns : f[c].phase = "open"}
HoldersIn(f, a) == {c \in Conns : f[c].reg = a}
SubsOf(r) == IF r.phase = "open" THEN Subscribed(r) ELSE {}
HeldIn(f) == {cs \in Conns \X Hashes : cs[2] \in SubsOf(f[cs[1]])}

Balanced ==
    /\ \A a \in Addrs : counts[a] = Cardinality(HoldersIn(conn, a))
    /\ clients = Cardinality(OpenIn(conn))
    /\ subscriptions = Cardinality(HeldIn(conn))

ServerInv == LoopType /\ ConnsOK /\ AcceptInv /\ CountsType /\ Balanced /\ SlotLimit

------------------------------------------------------------------------------
(* What HandleLine and the channels need of the messages.                  *)
LEMMA MessageKinds ==
    /\ PeriodicUpdate \in Messages /\ Done \in Messages /\ Proxy \in Messages
    /\ PeriodicUpdate # Proxy /\ Done # Proxy
    /\ \A l \in Commands : Request(l) \in Messages /\ Request(l) # Proxy /\ Request(l).line = l
    /\ \A m \in Messages : /\ m.kind = "Request" => m.line \in Commands
                           /\ m.kind = "Proxy" <=> m = Proxy
<1>1. /\ PeriodicUpdate.kind = "Periodic" /\ Done.kind = "Done" /\ Proxy.kind = "Proxy"
      /\ \A l \in Commands : Request(l).kind = "Request" /\ Request(l).line = l
  BY DEF PeriodicUpdate, Done, Proxy, Request
<1>2. /\ PeriodicUpdate \in Messages /\ Done \in Messages /\ Proxy \in Messages
      /\ \A l \in Commands : Request(l) \in Messages
      /\ \A m \in Messages : m \in {PeriodicUpdate, Done, Proxy} \/ \E l \in Commands : m = Request(l)
  BY Zenon DEF Messages
<1>3. QED
  BY <1>1, <1>2

(* A set that differs from another in one element at most. *)
LEMMA CountMoves ==
    ASSUME NEW S, IsFiniteSet(S), NEW c \in S, NEW X \in SUBSET S, NEW Y \in SUBSET S,
           \A d \in S \ {c} : d \in X <=> d \in Y,
           NEW x, x = (IF c \in X THEN 1 ELSE 0), NEW y, y = (IF c \in Y THEN 1 ELSE 0)
    PROVE  /\ Cardinality(X) \in Nat /\ Cardinality(Y) \in Nat
           /\ Cardinality(Y) = Cardinality(X) + y - x
<1> DEFINE R == X \ {c}
<1>1. IsFiniteSet(X) /\ IsFiniteSet(Y) /\ IsFiniteSet(R)
  BY FS_Subset
<1>2. Cardinality(X) \in Nat /\ Cardinality(Y) \in Nat /\ Cardinality(R) \in Nat
  BY <1>1, FS_CardinalityType
<1>3. Cardinality(X) = Cardinality(R) + (IF c \in X THEN 1 ELSE 0)
  <2>1. CASE c \in X
    <3>1. X = R \cup {c} /\ c \notin R
      BY <2>1
    <3>2. QED
      BY <3>1, <1>1, <1>2, <2>1, FS_AddElement
  <2>2. CASE c \notin X
    BY <2>2, <1>2, X = R
  <2>3. QED
    BY <2>1, <2>2
<1>4. Cardinality(Y) = Cardinality(R) + (IF c \in Y THEN 1 ELSE 0)
  <2>1. CASE c \in Y
    <3>1. Y = R \cup {c} /\ c \notin R
      BY <2>1
    <3>2. QED
      BY <3>1, <1>1, <1>2, <2>1, FS_AddElement
  <2>2. CASE c \notin Y
    BY <2>2, <1>2, Y = R
  <2>3. QED
    BY <2>1, <2>2
<1>5. QED
  BY <1>2, <1>3, <1>4

(* The pairs of one connection number as its script hashes do. *)
LEMMA PairsOfOne ==
    ASSUME NEW c, NEW A, IsFiniteSet(A)
    PROVE  IsFiniteSet({c} \X A) /\ Cardinality({c} \X A) = Cardinality(A)
<1>1. IsFiniteSet({c}) /\ Cardinality({c}) = 1
  BY FS_Singleton
<1>2. /\ IsFiniteSet({c} \X A)
      /\ Cardinality({c} \X A) = Cardinality({c}) * Cardinality(A)
  BY <1>1, FS_Product
<1>3. Cardinality(A) \in Nat
  BY FS_CardinalityType
<1>4. QED
  BY <1>1, <1>2, <1>3

(* The subscriptions of all connections, when those of one change. *)
LEMMA HeldMoves ==
    ASSUME ServerConstants, NEW c \in Conns, NEW f, NEW g,
           SubsOf(f[c]) \subseteq Hashes, SubsOf(g[c]) \subseteq Hashes,
           \A d \in Conns \ {c} : SubsOf(g[d]) = SubsOf(f[d])
    PROVE  /\ Cardinality(SubsOf(f[c])) \in Nat /\ Cardinality(SubsOf(g[c])) \in Nat
           /\ Cardinality(HeldIn(f)) \in Nat
           /\ Cardinality(HeldIn(g)) = Cardinality(HeldIn(f)) + Cardinality(SubsOf(g[c]))
                                                              - Cardinality(SubsOf(f[c]))
<1> DEFINE R == {cs \in Conns \X Hashes : cs[1] # c /\ cs[2] \in SubsOf(f[cs[1]])}
           A == SubsOf(f[c])
           B == SubsOf(g[c])
<1>1. IsFiniteSet(A) /\ IsFiniteSet(B) /\ IsFiniteSet(R)
  <2>1. IsFiniteSet(Conns \X Hashes)
    BY FS_Product DEF ServerConstants
  <2>2. QED
    BY <2>1, FS_Subset DEF ServerConstants
<1>2. HeldIn(f) = R \cup ({c} \X A) /\ HeldIn(g) = R \cup ({c} \X B)
  BY SMT DEF HeldIn
<1>3. R \cap ({c} \X A) = {} /\ R \cap ({c} \X B) = {}
  OBVIOUS
<1>4. Cardinality(A) \in Nat /\ Cardinality(B) \in Nat /\ Cardinality(R) \in Nat
  BY <1>1, FS_CardinalityType
<1>5. /\ IsFiniteSet({c} \X A) /\ Cardinality({c} \X A) = Cardinality(A)
      /\ IsFiniteSet({c} \X B) /\ Cardinality({c} \X B) = Cardinality(B)
  BY <1>1, PairsOfOne
<1> HIDE DEF R, A, B
<1>6. /\ Cardinality(R \cup ({c} \X A)) = Cardinality(R) + Cardinality({c} \X A) - 0
      /\ Cardinality(R \cup ({c} \X B)) = Cardinality(R) + Cardinality({c} \X B) - 0
  BY <1>1, <1>3, <1>5, FS_Union, FS_EmptySet
<1>7. QED
  BY <1>2, <1>4, <1>5, <1>6 DEF A, B

------------------------------------------------------------------------------
(* The records of a connection.                                            *)
LEMMA TailOK ==
    ASSUME NEW r, ConnOK(r), r.chan # <<>>
    PROVE  LET q == [r EXCEPT !.chan = Tail(@)] IN
           /\ ConnOK(q) /\ Head(r.chan) \in Messages
           /\ q.phase = r.phase /\ q.told = r.told /\ q.reg = r.reg /\ q.peer = r.peer
           /\ Head(r.chan) = Proxy => NoProxy(q) /\ q.reader # "proxy" /\ q.pending # Proxy
<1> DEFINE q == [r EXCEPT !.chan = Tail(@)]
<1>1. r \in ConnRecord /\ r.chan \in Seq(Messages)
  BY DEF ConnOK, ConnRecord
<1>2. /\ Tail(r.chan) \in Seq(Messages) /\ Head(r.chan) \in Messages /\ Head(r.chan) = r.chan[1]
      /\ 1 \in DOMAIN r.chan
      /\ \A i \in DOMAIN Tail(r.chan) : /\ i + 1 \in DOMAIN r.chan /\ i \in Nat /\ i > 0
                                        /\ Tail(r.chan)[i] = r.chan[i + 1]
  <2> DEFINE s == r.chan
  <2>1. s \in Seq(Messages) /\ s # <<>>
    BY <1>1
  <2> HIDE DEF s
  <2>2. QED
    BY <2>1 DEF s
<1>3. /\ q \in ConnRecord /\ q.chan = Tail(r.chan) /\ q.phase = r.phase /\ q.told = r.told
      /\ q.reg = r.reg /\ q.reader = r.reader /\ q.pending = r.pending /\ q.peer = r.peer
  BY <1>1, <1>2 DEF ConnRecord
<1>4. Subscribed(q) = Subscribed(r)
  BY <1>3 DEF Subscribed
<1> HIDE DEF q
<1>5. NoProxy(r) => NoProxy(q)
  BY <1>2, <1>3 DEF NoProxy
<1>6. ProxyOnce(q)
  <2>1. ProxyOnce(r)
    BY DEF ConnOK
  <2>2. \A i, j \in DOMAIN q.chan : q.chan[i] = Proxy /\ q.chan[j] = Proxy => i = j
    <3> SUFFICES ASSUME NEW i \in DOMAIN q.chan, NEW j \in DOMAIN q.chan,
                        q.chan[i] = Proxy, q.chan[j] = Proxy
                 PROVE  i = j
      OBVIOUS
    <3>1. i + 1 = j + 1 /\ i \in Nat /\ j \in Nat
      BY <1>2, <1>3, <2>1 DEF ProxyOnce
    <3>2. QED
      BY <3>1
  <2>3. \A i \in DOMAIN q.chan : q.chan[i] = Proxy => q.reg = NoAddr
    BY <1>2, <1>3, <2>1 DEF ProxyOnce
  <2>4. QED
    BY <1>3, <1>5, <2>1, <2>2, <2>3 DEF ProxyOnce
<1>7. ASSUME Head(r.chan) = Proxy
      PROVE  NoProxy(q) /\ q.reader # "proxy" /\ q.pending # Proxy
  <2>1. ProxyOnce(r) /\ r.chan[1] = Proxy /\ 1 \in DOMAIN r.chan
    BY <1>2, <1>7 DEF ConnOK
  <2>2. ~NoProxy(r) /\ r.reg = NoAddr
    BY <2>1 DEF ProxyOnce, NoProxy
  <2>3. \A i \in DOMAIN q.chan : q.chan[i] # Proxy
    <3> SUFFICES ASSUME NEW i \in DOMAIN q.chan, q.chan[i] = Proxy PROVE FALSE
      OBVIOUS
    <3>1. i + 1 = 1 /\ i \in Nat /\ i > 0
      BY <1>2, <1>3, <2>1 DEF ProxyOnce
    <3>2. QED
      BY <3>1
  <2>4. QED
    BY <1>3, <2>1, <2>2, <2>3 DEF ProxyOnce, NoProxy
<1>8. ConnOK(q)
  BY <1>3, <1>4, <1>6 DEF ConnOK
<1>9. QED
  BY <1>2, <1>3, <1>7, <1>8 DEF q

LEMMA AppendOK ==
    ASSUME NEW r, ConnOK(r), NEW m \in Messages,
           m = Proxy => NoProxy(r) /\ r.pending # Proxy /\ r.reader # "proxy"
    PROVE  LET q == [r EXCEPT !.chan = Append(@, m)] IN
           /\ ConnOK(q) /\ q.phase = r.phase /\ q.told = r.told /\ q.reg = r.reg /\ q.peer = r.peer
           /\ q.reader = r.reader /\ q.pending = r.pending
<1> DEFINE q == [r EXCEPT !.chan = Append(@, m)]
<1>1. r \in ConnRecord /\ r.chan \in Seq(Messages)
  BY DEF ConnOK, ConnRecord
<1>2. /\ Append(r.chan, m) \in Seq(Messages)
      /\ \A i \in DOMAIN Append(r.chan, m) :
            \/ i \in DOMAIN r.chan /\ Append(r.chan, m)[i] = r.chan[i]
            \/ i = Len(r.chan) + 1 /\ Append(r.chan, m)[i] = m
  <2> DEFINE s == r.chan
  <2>1. s \in Seq(Messages)
    BY <1>1
  <2> HIDE DEF s
  <2>2. QED
    BY <2>1 DEF s
<1>3. /\ q \in ConnRecord /\ q.chan = Append(r.chan, m) /\ q.phase = r.phase /\ q.told = r.told
      /\ q.reg = r.reg /\ q.reader = r.reader /\ q.pending = r.pending /\ q.peer = r.peer
  BY <1>1, <1>2 DEF ConnRecord
<1>4. Subscribed(q) = Subscribed(r)
  BY <1>3 DEF Subscribed
<1> HIDE DEF q
<1>5. ProxyOnce(r)
  BY DEF ConnOK
<1>6. CASE m = Proxy
  <2>1. NoProxy(r) /\ r.pending # Proxy /\ r.reader # "proxy"
    BY <1>6
  <2>2. \A i \in DOMAIN q.chan : q.chan[i] = Proxy => i = Len(r.chan) + 1
    BY <1>2, <1>3, <2>1 DEF NoProxy
  <2>3. ProxyOnce(q)
    BY <1>3, <2>1, <2>2 DEF ProxyOnce, NoProxy
  <2>4. QED
    BY <1>3, <1>4, <2>3 DEF ConnOK, q
<1>7. CASE m # Proxy
  <2>1. \A i \in DOMAIN q.chan : q.chan[i] = Proxy => i \in DOMAIN r.chan /\ r.chan[i] = Proxy
    BY <1>2, <1>3, <1>7
  <2>2. NoProxy(r) => NoProxy(q)
    BY <2>1, <1>3 DEF NoProxy
  <2>3. ProxyOnce(q)
    BY <1>3, <1>5, <2>1, <2>2 DEF ProxyOnce
  <2>4. QED
    BY <1>3, <1>4, <2>3 DEF ConnOK, q
<1>8. QED
  BY <1>6, <1>7

LEMMA TrySendOK ==
    ASSUME NEW r, ConnOK(r), NEW m \in Messages, m # Proxy
    PROVE  LET q == TrySend(r, m) IN
           ConnOK(q) /\ q.phase = r.phase /\ q.told = r.told /\ q.reg = r.reg /\ q.peer = r.peer
<1>1. CASE r.open /\ Len(r.chan) < ChanSize
  BY <1>1, AppendOK DEF TrySend
<1>2. CASE ~(r.open /\ Len(r.chan) < ChanSize)
  BY <1>2 DEF TrySend
<1>3. QED
  BY <1>1, <1>2

(* Any change of what an open connection was told. *)
LEMMA ToldOK ==
    ASSUME NEW r, ConnOK(r), r.phase = "open", NEW t \in Told
    PROVE  LET q == [r EXCEPT !.told = t] IN
           ConnOK(q) /\ q.phase = "open" /\ q.told = t /\ q.reg = r.reg /\ q.peer = r.peer
<1> DEFINE q == [r EXCEPT !.told = t]
<1>1. r \in ConnRecord /\ ProxyOnce(r)
  BY DEF ConnOK
<1>2. /\ q \in ConnRecord /\ q.chan = r.chan /\ q.phase = r.phase /\ q.told = t
      /\ q.reg = r.reg /\ q.reader = r.reader /\ q.pending = r.pending /\ q.peer = r.peer
  BY <1>1 DEF ConnRecord
<1> HIDE DEF q
<1>3. ProxyOnce(q)
  BY <1>1, <1>2 DEF ProxyOnce, NoProxy
<1>4. QED
  BY <1>2, <1>3 DEF ConnOK, q

LEMMA HandleLineOK ==
    ASSUME NEW r, ConnOK(r), r.phase = "open", NEW l \in Commands,
           tip \in Nat, hist \in [Hashes -> Histories \cup {TooLong}]
    PROVE  LET q == HandleLine(r, l) IN
           ConnOK(q) /\ q.phase = "open" /\ q.reg = r.reg /\ q.peer = r.peer
<1>1. r \in ConnRecord /\ r.told \in Told
  BY DEF ConnOK, ConnRecord
<1>2. CASE l.cmd = "headers"
  <2> DEFINE t == [r.told EXCEPT !.header = tip]
  <2>1. t \in Told
    BY <1>1 DEF Told
  <2>2. HandleLine(r, l) = [r EXCEPT !.told = t]
    BY <1>1, <1>2 DEF HandleLine, HeadersSubscribe, ConnRecord, Told
  <2> HIDE DEF t
  <2>3. QED
    BY <2>1, <2>2, ToldOK
<1>3. CASE l.cmd = "subscribe"
  <2>1. l.hash \in Hashes
    BY <1>3 DEF Commands
  <2>2. CASE HandleLine(r, l) = r
    BY <2>2
  <2>3. CASE HandleLine(r, l) # r
    <3> DEFINE t == [r.told EXCEPT !.status[l.hash] = hist[l.hash]]
    <3>1. HandleLine(r, l) = ScripthashSubscribe(r, l.hash)
      BY <1>3 DEF HandleLine
    <3>2. hist[l.hash] # TooLong /\ HandleLine(r, l) = [r EXCEPT !.told.status[l.hash] = hist[l.hash]]
      BY <2>3, <3>1 DEF ScripthashSubscribe
    <3>3. hist[l.hash] \in Histories
      BY <2>1, <3>2
    <3>4. t \in Told
      BY <1>1, <2>1, <3>3 DEF Told
    <3>5. HandleLine(r, l) = [r EXCEPT !.told = t]
      BY <1>1, <3>2 DEF ConnRecord, Told
    <3> HIDE DEF t
    <3>6. QED
      BY <3>4, <3>5, ToldOK
  <2>4. QED
    BY <2>2, <2>3
<1>4. CASE l.cmd = "unsubscribe"
  <2> DEFINE t == [r.told EXCEPT !.status[l.hash] = None]
  <2>1. l.hash \in Hashes
    BY <1>4 DEF Commands
  <2>2. t \in Told
    BY <1>1, <2>1 DEF Told
  <2>3. HandleLine(r, l) = [r EXCEPT !.told = t]
    BY <1>1, <1>4 DEF HandleLine, ScripthashUnsubscribe, ConnRecord, Told
  <2> HIDE DEF t
  <2>4. QED
    BY <2>2, <2>3, ToldOK
<1>5. CASE l.cmd = "broadcast"
  <2>1. HandleLine(r, l) = TrySend(r, PeriodicUpdate)
    BY <1>5 DEF HandleLine, Broadcast
  <2>2. QED
    BY <2>1, TrySendOK, MessageKinds
<1>6. CASE l.cmd \notin {"headers", "subscribe", "unsubscribe", "broadcast"}
  <2>1. HandleLine(r, l) = r
    BY <1>6 DEF HandleLine
  <2>2. QED
    BY <2>1
<1>7. QED
  BY <1>2, <1>3, <1>4, <1>5, <1>6

LEMMA UpdateOK ==
    ASSUME NEW r, ConnOK(r), r.phase = "open",
           tip \in Nat, hist \in [Hashes -> Histories \cup {TooLong}],
           \A s \in Subscribed(r) : hist[s] # TooLong
    PROVE  LET q == UpdateSubscriptions(r) IN
           ConnOK(q) /\ q.phase = "open" /\ q.reg = r.reg /\ q.peer = r.peer
<1> DEFINE t == [header |-> IF r.told.header = None THEN None ELSE tip,
                 status |-> [s \in Hashes |-> IF s \in Subscribed(r) THEN hist[s] ELSE None]]
<1>1. [s \in Hashes |-> IF s \in Subscribed(r) THEN hist[s] ELSE None]
          \in [Hashes -> Histories \cup {None}]
  OBVIOUS
<1>2. t \in Told
  BY <1>1 DEF Told
<1>3. UpdateSubscriptions(r) = [r EXCEPT !.told = t]
  BY DEF UpdateSubscriptions
<1> HIDE DEF t
<1>4. QED
  BY <1>2, <1>3, ToldOK

(* The record Leave installs. *)
Left(r, orderly) == [r EXCEPT !.phase = "closing", !.peer = "closed", !.reg = NoAddr,
                              !.open = ~orderly, !.chan = IF orderly THEN <<>> ELSE @]

LEMMA LeftOK ==
    ASSUME NEW r, ConnOK(r), r.phase = "open", NEW orderly \in BOOLEAN
    PROVE  LET q == Left(r, orderly) IN ConnOK(q) /\ q.phase = "closing" /\ q.reg = NoAddr
<1> DEFINE q == Left(r, orderly)
<1>1. r \in ConnRecord /\ ProxyOnce(r) /\ r.chan \in Seq(Messages)
  BY DEF ConnOK, ConnRecord
<1>2. <<>> \in Seq(Messages) /\ \A i \in DOMAIN <<>> : FALSE
  OBVIOUS
<1>3. q.chan \in {<<>>, r.chan} /\ q.chan \in Seq(Messages)
  BY <1>1, <1>2 DEF Left, ConnRecord
<1>4. /\ q \in ConnRecord /\ q.phase = "closing" /\ q.reg = NoAddr
      /\ q.reader = r.reader /\ q.pending = r.pending
  BY <1>1, <1>2 DEF Left, ConnRecord, Phases
<1> HIDE DEF q
<1>5. \A i \in DOMAIN q.chan : i \in DOMAIN r.chan /\ q.chan[i] = r.chan[i]
  BY <1>2, <1>3
<1>6. ProxyOnce(q)
  BY <1>1, <1>4, <1>5 DEF ProxyOnce, NoProxy
<1>7. QED
  BY <1>4, <1>6 DEF ConnOK, q

------------------------------------------------------------------------------
(* One connection moves from its record to r, and the counters with it.    *)
One(b) == IF b THEN 1 ELSE 0
Move(c, r) ==
    /\ ConnOK(r)
    /\ conn' = [conn EXCEPT ![c] = r]
    /\ counts' \in [Addrs -> Int]
    /\ \A a \in Addrs : counts'[a] = counts[a] + One(r.reg = a) - One(conn[c].reg = a)
    /\ \A a \in Addrs : PerClient > 0 => counts'[a] <= PerClient
    /\ clients' = clients + One(r.phase = "open") - One(conn[c].phase = "open")
    /\ subscriptions' = subscriptions + Cardinality(SubsOf(r)) - Cardinality(SubsOf(conn[c]))

LEMMA SubsFinite ==
    ASSUME ServerConstants, NEW r
    PROVE  /\ SubsOf(r) \subseteq Hashes /\ Subscribed(r) \subseteq Hashes
           /\ IsFiniteSet(SubsOf(r)) /\ IsFiniteSet(Subscribed(r))
           /\ Cardinality(SubsOf(r)) \in Nat /\ Cardinality(Subscribed(r)) \in Nat
<1>1. SubsOf(r) \subseteq Hashes /\ Subscribed(r) \subseteq Hashes
  BY DEF SubsOf, Subscribed
<1>2. IsFiniteSet(SubsOf(r)) /\ IsFiniteSet(Subscribed(r))
  BY <1>1, FS_Subset DEF ServerConstants
<1>3. QED
  BY <1>1, <1>2, FS_CardinalityType

LEMMA MoveKeeps ==
    ASSUME ServerConstants, ServerInv, NEW c \in Conns, NEW r, Move(c, r)
    PROVE  ConnsOK' /\ CountsType' /\ Balanced' /\ SlotLimit'
<1>0. IsFiniteSet(Conns)
  BY DEF ServerConstants
<1>1. /\ DOMAIN conn' = Conns /\ conn' = [d \in Conns |-> conn'[d]]
      /\ conn'[c] = r /\ \A d \in Conns \ {c} : conn'[d] = conn[d]
  BY DEF Move, ServerInv, ConnsOK
<1>2. ConnsOK'
  BY <1>1 DEF Move, ServerInv, ConnsOK
<1>3. \A a \in Addrs : counts'[a] = Cardinality(HoldersIn(conn', a))
  <2> TAKE a \in Addrs
  <2> DEFINE X == HoldersIn(conn, a)
             Y == HoldersIn(conn', a)
             x == One(conn[c].reg = a)
             y == One(r.reg = a)
  <2>1. X \in SUBSET Conns /\ Y \in SUBSET Conns /\ \A d \in Conns \ {c} : d \in X <=> d \in Y
    BY <1>1 DEF HoldersIn
  <2>2. x = (IF c \in X THEN 1 ELSE 0) /\ y = (IF c \in Y THEN 1 ELSE 0)
    BY <1>1 DEF HoldersIn, One
  <2> HIDE DEF X, Y, x, y
  <2>3. /\ Cardinality(X) \in Nat /\ Cardinality(Y) \in Nat
        /\ Cardinality(Y) = Cardinality(X) + y - x
    BY <2>1, <2>2, <1>0, CountMoves
  <2>4. counts[a] = Cardinality(X)
    BY DEF ServerInv, Balanced, X
  <2>5. counts'[a] = counts[a] + y - x
    BY DEF Move, x, y
  <2>6. counts'[a] = Cardinality(Y)
    BY <2>3, <2>4, <2>5
  <2>7. QED
    BY <2>6 DEF Y
<1>4. clients' = Cardinality(OpenIn(conn')) /\ clients' \in Int
  <2> DEFINE X == OpenIn(conn)
             Y == OpenIn(conn')
             x == One(conn[c].phase = "open")
             y == One(r.phase = "open")
  <2>1. X \in SUBSET Conns /\ Y \in SUBSET Conns /\ \A d \in Conns \ {c} : d \in X <=> d \in Y
    BY <1>1 DEF OpenIn
  <2>2. x = (IF c \in X THEN 1 ELSE 0) /\ y = (IF c \in Y THEN 1 ELSE 0)
    BY <1>1 DEF OpenIn, One
  <2> HIDE DEF X, Y, x, y
  <2>3. /\ Cardinality(X) \in Nat /\ Cardinality(Y) \in Nat
        /\ Cardinality(Y) = Cardinality(X) + y - x
    BY <2>1, <2>2, <1>0, CountMoves
  <2>4. clients = Cardinality(X)
    BY DEF ServerInv, Balanced, X
  <2>5. clients' = clients + y - x
    BY DEF Move, x, y
  <2>6. clients' = Cardinality(Y)
    BY <2>3, <2>4, <2>5
  <2>7. QED
    BY <2>3, <2>6 DEF Y
<1>5. subscriptions' = Cardinality(HeldIn(conn')) /\ subscriptions' \in Int
  <2>1. SubsOf(conn[c]) \subseteq Hashes /\ SubsOf(conn'[c]) \subseteq Hashes
    BY SubsFinite
  <2>2. \A d \in Conns \ {c} : SubsOf(conn'[d]) = SubsOf(conn[d])
    BY <1>1
  <2>3. /\ Cardinality(SubsOf(conn[c])) \in Nat /\ Cardinality(SubsOf(conn'[c])) \in Nat
        /\ Cardinality(HeldIn(conn)) \in Nat
        /\ Cardinality(HeldIn(conn')) = Cardinality(HeldIn(conn)) + Cardinality(SubsOf(conn'[c]))
                                                                  - Cardinality(SubsOf(conn[c]))
    BY <2>1, <2>2, HeldMoves
  <2>4. /\ subscriptions = Cardinality(HeldIn(conn))
        /\ subscriptions' = subscriptions + Cardinality(SubsOf(conn'[c])) - Cardinality(SubsOf(conn[c]))
    BY <1>1 DEF ServerInv, Balanced, Move
  <2>5. QED
    BY <2>3, <2>4
<1>6. counts' \in [Addrs -> Int] /\ SlotLimit'
  BY DEF Move, SlotLimit
<1>7. QED
  BY <1>2, <1>3, <1>4, <1>5, <1>6 DEF CountsType, Balanced

(* A record that is as open, as told and as registered as before. *)
LEMMA QuietMove ==
    ASSUME ServerConstants, ServerInv, NEW c \in Conns, NEW r, ConnOK(r),
           r.phase = "open" <=> conn[c].phase = "open",
           r.told = conn[c].told, r.reg = conn[c].reg,
           conn' = [conn EXCEPT ![c] = r], UNCHANGED stats
    PROVE  Move(c, r)
<1>1. SubsOf(r) = SubsOf(conn[c])
  BY DEF SubsOf, Subscribed
<1>2. Cardinality(SubsOf(r)) \in Nat
  BY SubsFinite
<1>3. counts' = counts /\ clients' = clients /\ subscriptions' = subscriptions
  BY DEF stats
<1>4. counts \in [Addrs -> Int] /\ clients \in Int /\ subscriptions \in Int /\ SlotLimit
  BY DEF ServerInv, CountsType
<1>5. \A a \in Addrs : counts[a] = counts[a] + One(r.reg = a) - One(conn[c].reg = a)
  BY <1>4 DEF One
<1>6. clients = clients + One(r.phase = "open") - One(conn[c].phase = "open")
  BY <1>4 DEF One
<1>7. subscriptions = subscriptions + Cardinality(SubsOf(r)) - Cardinality(SubsOf(conn[c]))
  BY <1>1, <1>2, <1>4
<1>8. QED
  BY <1>3, <1>4, <1>5, <1>6, <1>7 DEF Move, SlotLimit

LEMMA LeaveMove ==
    ASSUME ServerConstants, ServerInv, NEW c \in Conns, conn[c].phase = "open",
           NEW r, ConnOK(r), r.phase = "open", r.told = conn[c].told, r.reg = conn[c].reg,
           NEW orderly \in BOOLEAN, Leave(c, r, orderly)
    PROVE  Move(c, Left(r, orderly))
<1> DEFINE q == Left(r, orderly)
<1>1. ConnOK(q) /\ q.phase = "closing" /\ q.reg = NoAddr
  BY LeftOK
<1>2. conn' = [conn EXCEPT ![c] = q]
  BY DEF Leave, Left
<1> HIDE DEF q
<1>3. counts \in [Addrs -> Int] /\ clients \in Int /\ subscriptions \in Int /\ SlotLimit
  BY DEF ServerInv, CountsType
<1>4. r.reg \in Addrs \cup {NoAddr} /\ NoAddr \notin Addrs
  BY DEF ConnOK, ConnRecord, ServerConstants
<1>5. counts' = IF r.reg = NoAddr THEN counts ELSE [counts EXCEPT ![r.reg] = @ - 1]
  BY DEF Leave
<1>6. counts' \in [Addrs -> Int]
  BY <1>3, <1>4, <1>5
<1>7. \A a \in Addrs : counts'[a] = counts[a] + One(q.reg = a) - One(conn[c].reg = a)
  BY <1>1, <1>3, <1>4, <1>5 DEF One
<1>8. \A a \in Addrs : counts'[a] <= counts[a] /\ counts[a] \in Int /\ counts'[a] \in Int
  BY <1>3, <1>4, <1>5, <1>6
<1>9. \A a \in Addrs : PerClient > 0 => counts'[a] <= PerClient
  BY <1>3, <1>8 DEF SlotLimit, ServerConstants
<1>10. clients' = clients + One(q.phase = "open") - One(conn[c].phase = "open")
  BY <1>1, <1>3 DEF One, Leave
<1>11. SubsOf(q) = {} /\ SubsOf(conn[c]) = Subscribed(r)
  BY <1>1 DEF SubsOf, Subscribed
<1>12. Cardinality(SubsOf(q)) = 0 /\ Cardinality(Subscribed(r)) \in Nat
  BY <1>11, FS_EmptySet, SubsFinite
<1>13. subscriptions' = subscriptions - Cardinality(Subscribed(r))
  BY DEF Leave
<1>14. subscriptions' = subscriptions + Cardinality(SubsOf(q)) - Cardinality(SubsOf(conn[c]))
  BY <1>3, <1>11, <1>12, <1>13
<1>15. QED
  BY <1>1, <1>2, <1>6, <1>7, <1>9, <1>10, <1>14 DEF Move, q

LEMMA SendMove ==
    ASSUME ServerConstants, ServerInv, NEW c \in Conns, conn[c].phase = "open",
           NEW r, ConnOK(r), r.phase = "open", r.reg = conn[c].reg, Send(c, r)
    PROVE  \E q : Move(c, q)
<1>0. ConnOK(conn[c])
  BY DEF ServerInv, ConnsOK
<1>1. CASE r.peer = "up"
  <2>1. /\ conn' = [conn EXCEPT ![c] = r] /\ UNCHANGED <<clients, counts>>
        /\ subscriptions' = subscriptions + Cardinality(Subscribed(r)) - Cardinality(Subscribed(conn[c]))
    BY <1>1 DEF Send
  <2>2. counts \in [Addrs -> Int] /\ clients \in Int /\ subscriptions \in Int /\ SlotLimit
    BY DEF ServerInv, CountsType
  <2>3. SubsOf(r) = Subscribed(r) /\ SubsOf(conn[c]) = Subscribed(conn[c])
    BY DEF SubsOf
  <2>4. \A a \in Addrs : counts[a] = counts[a] + One(r.reg = a) - One(conn[c].reg = a)
    BY <2>2 DEF One
  <2>5. clients = clients + One(r.phase = "open") - One(conn[c].phase = "open")
    BY <2>2 DEF One
  <2>6. Move(c, r)
    BY <2>1, <2>2, <2>3, <2>4, <2>5 DEF Move, SlotLimit
  <2>7. QED
    BY <2>6
<1>2. CASE r.peer # "up"
  <2> DEFINE q == [r EXCEPT !.told = conn[c].told]
  <2>1. Leave(c, q, FALSE)
    BY <1>2 DEF Send
  <2>2. conn[c].told \in Told
    BY <1>0 DEF ConnOK, ConnRecord
  <2>3. ConnOK(q) /\ q.phase = "open" /\ q.told = conn[c].told /\ q.reg = conn[c].reg
    BY <2>2, ToldOK
  <2> HIDE DEF q
  <2>4. Move(c, Left(q, FALSE))
    BY <2>1, <2>3, LeaveMove
  <2>5. QED
    BY <2>4
<1>3. QED
  BY <1>1, <1>2

------------------------------------------------------------------------------
(* Steps of the reader, the client and the accept loop leave the channel,  *)
(* the slot and the subscriptions of the record alone.                     *)
LEMMA FieldsOK ==
    ASSUME NEW r, ConnOK(r), NEW q \in ConnRecord,
           q.chan = r.chan, q.reg = r.reg, q.told = r.told,
           q.phase \in {"none", "accepted", "spawned"} => r.phase \in {"none", "accepted", "spawned"},
           r.phase = "open" => q.phase = "open",
           q.reader = "proxy" => r.reader = "proxy" /\ q.pending # Proxy,
           q.pending = Proxy => r.pending = Proxy \/ r.reader = "proxy"
    PROVE  ConnOK(q)
<1>1. ProxyOnce(r) /\ (r.reg # NoAddr => r.phase = "open")
  BY DEF ConnOK
<1>2. NoProxy(r) => NoProxy(q)
  BY DEF NoProxy
<1>3. ProxyOnce(q)
  BY <1>1, <1>2 DEF ProxyOnce
<1>4. Subscribed(q) = Subscribed(r)
  BY DEF Subscribed
<1>5. QED
  BY <1>1, <1>3, <1>4 DEF ConnOK

LEMMA MoveInv ==
    ASSUME ServerConstants, ServerInv, NEW c \in Conns, NEW r, Move(c, r),
           conn[c].phase = "accepted" => r.phase = "accepted",
           acceptor' = acceptor, LoopType'
    PROVE  ServerInv'
<1>1. \A d \in Conns : conn'[d] = IF d = c THEN r ELSE conn[d]
  BY DEF Move, ServerInv, ConnsOK
<1>2. \A i \in DOMAIN acceptor : acceptor[i] # None => acceptor[i] \in Conns
  BY DEF ServerInv, LoopType
<1>3. AcceptInv'
  BY <1>1, <1>2 DEF ServerInv, AcceptInv
<1>4. QED
  BY <1>3, MoveKeeps DEF ServerInv

(* A step that moves no connection in or out and counts nothing. *)
LEMMA QuietInv ==
    ASSUME ServerConstants, ServerInv, NEW c \in Conns, NEW r, ConnOK(r),
           r.phase = "open" <=> conn[c].phase = "open",
           conn[c].phase = "accepted" => r.phase = "accepted",
           r.told = conn[c].told, r.reg = conn[c].reg,
           conn' = [conn EXCEPT ![c] = r], UNCHANGED stats, acceptor' = acceptor, LoopType'
    PROVE  ServerInv'
BY QuietMove, MoveInv

LEMMA LoopKept ==
    ASSUME ServerInv, UNCHANGED <<world, senders, loop, notes, exit>>
    PROVE  LoopType' /\ acceptor' = acceptor
BY DEF ServerInv, LoopType, world, loop

LEMMA KillStep ==
    ASSUME ServerConstants, ServerInv, NEW c \in Conns, Kill(c)
    PROVE  ServerInv'
<1> DEFINE r == conn[c]
           q == [r EXCEPT !.killed = TRUE, !.peer = "closed"]
<1>1. ConnOK(r) /\ r \in ConnRecord
  BY DEF ServerInv, ConnsOK, ConnOK
<1>2. conn' = [conn EXCEPT ![c] = q] /\ UNCHANGED stats /\ LoopType' /\ acceptor' = acceptor
  BY LoopKept DEF Kill
<1> HIDE DEF r
<1>3. /\ q \in ConnRecord /\ q.chan = r.chan /\ q.reg = r.reg /\ q.told = r.told
      /\ q.phase = r.phase /\ q.reader = r.reader /\ q.pending = r.pending
  BY <1>1 DEF ConnRecord
<1> HIDE DEF q
<1>4. ConnOK(q)
  <2>1. ProxyOnce(r)
    BY <1>1 DEF ConnOK
  <2>2. QED
    BY <1>1, <1>3, <2>1, FieldsOK DEF ProxyOnce
<1>5. QED
  BY <1>2, <1>3, <1>4, QuietInv DEF r

LEMMA ClientStep ==
    ASSUME ServerConstants, ServerInv, NEW c \in Conns, Client(c)
    PROVE  ServerInv'
<1>1. PICK p \in {"up", "stalled", "closed"} : conn' = [conn EXCEPT ![c].peer = p]
  BY DEF Client
<1> DEFINE r == conn[c]
           q == [r EXCEPT !.peer = p]
<1>2. ConnOK(r) /\ r \in ConnRecord
  BY DEF ServerInv, ConnsOK, ConnOK
<1>3. conn' = [conn EXCEPT ![c] = q] /\ UNCHANGED stats /\ LoopType' /\ acceptor' = acceptor
  BY <1>1, LoopKept DEF Client, ReaderUnchanged
<1> HIDE DEF r
<1>4. /\ q \in ConnRecord /\ q.chan = r.chan /\ q.reg = r.reg /\ q.told = r.told
      /\ q.phase = r.phase /\ q.reader = r.reader /\ q.pending = r.pending
  BY <1>2 DEF ConnRecord
<1> HIDE DEF q
<1>5. ConnOK(q)
  <2>1. ProxyOnce(r)
    BY <1>2 DEF ConnOK
  <2>2. QED
    BY <1>2, <1>4, <2>1, FieldsOK DEF ProxyOnce
<1>6. QED
  BY <1>3, <1>4, <1>5, QuietInv DEF r

LEMMA ReadProxyStep ==
    ASSUME ServerConstants, ServerInv, NEW c \in Conns, ReadProxy(c)
    PROVE  ServerInv'
<1> DEFINE r == conn[c]
           q1 == [r EXCEPT !.reader = "lines", !.pending = Proxy]
           q2 == [r EXCEPT !.reader = "exited"]
<1>1. ConnOK(r) /\ r \in ConnRecord /\ Proxy \in Messages
  BY MessageKinds DEF ServerInv, ConnsOK, ConnOK
<1>2. /\ UNCHANGED stats /\ LoopType' /\ acceptor' = acceptor /\ r.reader = "proxy" /\ r.pending = None
      /\ conn' = [conn EXCEPT ![c] = q1] \/ conn' = [conn EXCEPT ![c] = q2]
  BY LoopKept DEF ReadProxy, Reading, ReaderUnchanged
<1> HIDE DEF r
<1>3. /\ q1 \in ConnRecord /\ q1.chan = r.chan /\ q1.reg = r.reg /\ q1.told = r.told
      /\ q1.phase = r.phase /\ q1.reader = "lines"
  BY <1>1 DEF ConnRecord
<1>4. /\ q2 \in ConnRecord /\ q2.chan = r.chan /\ q2.reg = r.reg /\ q2.told = r.told
      /\ q2.phase = r.phase /\ q2.reader = "exited" /\ q2.pending = r.pending
  BY <1>1 DEF ConnRecord
<1> HIDE DEF q1, q2
<1>5. ConnOK(q1) /\ ConnOK(q2)
  BY <1>1, <1>2, <1>3, <1>4, FieldsOK
<1>6. QED
  BY <1>2, <1>3, <1>4, <1>5, QuietInv DEF r

LEMMA ReadLineStep ==
    ASSUME ServerConstants, ServerInv, NEW c \in Conns, ReadLine(c)
    PROVE  ServerInv'
<1> DEFINE r == conn[c]
           q1(l) == [r EXCEPT !.pending = Request(l), !.lines = @ + 1]
           q2 == [r EXCEPT !.reader = "last", !.pending = Done]
           q3 == [r EXCEPT !.reader = "exited"]
<1>1. ConnOK(r) /\ r \in ConnRecord
  BY DEF ServerInv, ConnsOK, ConnOK
<1>2. UNCHANGED stats /\ LoopType' /\ acceptor' = acceptor /\ r.reader = "lines" /\ r.pending = None
  BY LoopKept DEF ReadLine, Reading, ReaderUnchanged
<1>3. \/ \E l \in Commands : r.lines < MaxLines /\ conn' = [conn EXCEPT ![c] = q1(l)]
      \/ conn' = [conn EXCEPT ![c] = q2]
      \/ conn' = [conn EXCEPT ![c] = q3]
  BY DEF ReadLine
<1> HIDE DEF r
<1>4. CASE \E l \in Commands : r.lines < MaxLines /\ conn' = [conn EXCEPT ![c] = q1(l)]
  <2> PICK l \in Commands : r.lines < MaxLines /\ conn' = [conn EXCEPT ![c] = q1(l)]
    BY <1>4
  <2> DEFINE q == q1(l)
             m == Request(l)
  <2>1. m \in Messages /\ m # Proxy
    BY MessageKinds
  <2> HIDE DEF m
  <2>2. r.lines + 1 \in 0..MaxLines
    BY <1>1 DEF ConnRecord, ServerConstants
  <2>3. q = [r EXCEPT !.pending = m, !.lines = @ + 1]
    BY DEF m
  <2>4. /\ q \in ConnRecord /\ q.chan = r.chan /\ q.reg = r.reg /\ q.told = r.told
        /\ q.phase = r.phase /\ q.reader = r.reader /\ q.pending = m
    BY <1>1, <2>1, <2>2, <2>3 DEF ConnRecord
  <2> HIDE DEF q
  <2>5. ConnOK(q)
    BY <1>1, <1>2, <2>1, <2>4, FieldsOK
  <2>6. conn' = [conn EXCEPT ![c] = q]
    BY DEF q
  <2>7. QED
    BY <1>2, <2>4, <2>5, <2>6, QuietInv DEF r
<1>5. CASE conn' = [conn EXCEPT ![c] = q2]
  <2>1. Done \in Messages /\ Done # Proxy
    BY MessageKinds
  <2>2. /\ q2 \in ConnRecord /\ q2.chan = r.chan /\ q2.reg = r.reg /\ q2.told = r.told
        /\ q2.phase = r.phase /\ q2.reader = "last" /\ q2.pending = Done
    BY <1>1, <2>1 DEF ConnRecord
  <2> HIDE DEF q2
  <2>3. ConnOK(q2)
    BY <1>1, <1>2, <2>1, <2>2, FieldsOK
  <2>4. QED
    BY <1>2, <1>5, <2>2, <2>3, QuietInv DEF r
<1>6. CASE conn' = [conn EXCEPT ![c] = q3]
  <2>1. /\ q3 \in ConnRecord /\ q3.chan = r.chan /\ q3.reg = r.reg /\ q3.told = r.told
        /\ q3.phase = r.phase /\ q3.reader = "exited" /\ q3.pending = r.pending
    BY <1>1 DEF ConnRecord
  <2> HIDE DEF q3
  <2>2. ConnOK(q3)
    BY <1>1, <1>2, <2>1, FieldsOK
  <2>3. QED
    BY <1>2, <1>6, <2>1, <2>2, QuietInv DEF r
<1>7. QED
  BY <1>3, <1>4, <1>5, <1>6

LEMMA ReaderSendsStep ==
    ASSUME ServerConstants, ServerInv, NEW c \in Conns, ReaderSends(c)
    PROVE  ServerInv'
<1> DEFINE r == conn[c]
           m == r.pending
           p == [r EXCEPT !.pending = None, !.reader = IF @ = "last" \/ ~r.open THEN "exited" ELSE @]
           q == IF r.open THEN [p EXCEPT !.chan = Append(@, m)] ELSE p
<1>1. ConnOK(r) /\ r \in ConnRecord /\ ProxyOnce(r) /\ None # Proxy
  BY MessageKinds DEF ServerInv, ConnsOK, ConnOK, ServerConstants
<1>2. UNCHANGED stats /\ LoopType' /\ acceptor' = acceptor /\ m # None
  BY LoopKept DEF ReaderSends, ReaderUnchanged
<1>3. conn' = [conn EXCEPT ![c] = [r EXCEPT !.pending = None,
                                            !.chan = IF r.open THEN Append(@, m) ELSE @,
                                            !.reader = IF @ = "last" \/ ~r.open THEN "exited" ELSE @]]
  BY DEF ReaderSends
<1> HIDE DEF r
<1>4. m \in Messages
  BY <1>1, <1>2 DEF ConnRecord
<1> HIDE DEF m
<1>5. [r EXCEPT !.pending = None, !.chan = IF r.open THEN Append(@, m) ELSE @,
                !.reader = IF @ = "last" \/ ~r.open THEN "exited" ELSE @] = q
  <2>1. CASE r.open
    BY <2>1, <1>1 DEF ConnRecord
  <2>2. CASE ~r.open
    BY <2>2, <1>1 DEF ConnRecord
  <2>3. QED
    BY <2>1, <2>2
<1>6. /\ p \in ConnRecord /\ p.chan = r.chan /\ p.reg = r.reg /\ p.told = r.told
      /\ p.phase = r.phase /\ p.reader \in {r.reader, "exited"} /\ p.pending = None
  BY <1>1 DEF ConnRecord
<1> HIDE DEF p
<1>7. ConnOK(p)
  BY <1>1, <1>6, FieldsOK
<1>8. m = Proxy => NoProxy(p) /\ p.pending # Proxy /\ p.reader # "proxy"
  BY <1>1, <1>6 DEF ProxyOnce, NoProxy, m
<1>9. ConnOK(q) /\ q.phase = r.phase /\ q.told = r.told /\ q.reg = r.reg
  <2>1. CASE r.open
    BY <2>1, <1>4, <1>6, <1>7, <1>8, AppendOK
  <2>2. CASE ~r.open
    BY <2>2, <1>6, <1>7
  <2>3. QED
    BY <2>1, <2>2
<1>10. conn' = [conn EXCEPT ![c] = q]
  BY <1>3, <1>5
<1> HIDE DEF q
<1>11. QED
  BY <1>2, <1>9, <1>10, QuietInv DEF r

LEMMA FinishStep ==
    ASSUME ServerConstants, ServerInv, NEW c \in Conns, Finish(c)
    PROVE  ServerInv'
<1> DEFINE r == conn[c]
           q == [r EXCEPT !.phase = "gone", !.open = FALSE, !.chan = <<>>]
<1>1. ConnOK(r) /\ r \in ConnRecord /\ ProxyOnce(r)
  BY DEF ServerInv, ConnsOK, ConnOK
<1>2. conn' = [conn EXCEPT ![c] = q] /\ UNCHANGED stats /\ acceptor' = acceptor /\ r.phase = "closing"
  BY DEF Finish
<1>3. LoopType'
  BY DEF Finish, ServerInv, LoopType, world
<1> HIDE DEF r
<1>4. <<>> \in Seq(Messages) /\ \A i \in DOMAIN <<>> : FALSE
  OBVIOUS
<1>5. /\ q \in ConnRecord /\ q.chan = <<>> /\ q.reg = r.reg /\ q.told = r.told
      /\ q.phase = "gone" /\ q.reader = r.reader /\ q.pending = r.pending
  BY <1>1, <1>4 DEF ConnRecord, Phases
<1> HIDE DEF q
<1>6. r.reg = NoAddr
  BY <1>1, <1>2 DEF ConnOK
<1>7. NoProxy(q)
  BY <1>4, <1>5, <1>6 DEF NoProxy
<1>8. ProxyOnce(q)
  BY <1>1, <1>4, <1>5, <1>7 DEF ProxyOnce
<1>9. ConnOK(q)
  BY <1>5, <1>6, <1>8 DEF ConnOK
<1>10. QED
  BY <1>2, <1>3, <1>5, <1>9, QuietInv DEF r

LEMMA PeerStartsStep ==
    ASSUME ServerConstants, ServerInv, NEW c \in Conns, PeerStarts(c)
    PROVE  ServerInv'
<1> DEFINE r == conn[c]
           q == [r EXCEPT !.phase = "open"]
<1>1. ConnOK(r) /\ r \in ConnRecord /\ ProxyOnce(r)
  BY DEF ServerInv, ConnsOK, ConnOK
<1>2. /\ conn' = [conn EXCEPT ![c] = q] /\ acceptor' = acceptor /\ r.phase = "spawned"
      /\ clients' = clients + 1 /\ counts' = counts /\ subscriptions' = subscriptions
  BY DEF PeerStarts, loop
<1>3. LoopType'
  BY DEF PeerStarts, ServerInv, LoopType, world, loop
<1>4. counts \in [Addrs -> Int] /\ clients \in Int /\ subscriptions \in Int /\ SlotLimit
  BY DEF ServerInv, CountsType
<1> HIDE DEF r
<1>5. /\ q \in ConnRecord /\ q.chan = r.chan /\ q.reg = r.reg /\ q.told = r.told
      /\ q.phase = "open" /\ q.reader = r.reader /\ q.pending = r.pending
  BY <1>1 DEF ConnRecord, Phases
<1> HIDE DEF q
<1>6. ConnOK(q)
  BY <1>1, <1>5, FieldsOK DEF ProxyOnce
<1>7. SubsOf(q) = {} /\ SubsOf(r) = {}
  BY <1>1, <1>2, <1>5 DEF SubsOf, Subscribed, ConnOK
<1>8. Cardinality(SubsOf(q)) = 0 /\ Cardinality(SubsOf(r)) = 0
  BY <1>7, FS_EmptySet
<1>9. \A a \in Addrs : counts[a] = counts[a] + One(q.reg = a) - One(r.reg = a)
  BY <1>4, <1>5 DEF One
<1>10. clients' = clients + One(q.phase = "open") - One(r.phase = "open")
  BY <1>2, <1>4, <1>5 DEF One
<1>11. subscriptions' = subscriptions + Cardinality(SubsOf(q)) - Cardinality(SubsOf(r))
  BY <1>2, <1>4, <1>8
<1>12. Move(c, q)
  BY <1>2, <1>4, <1>6, <1>9, <1>10, <1>11 DEF Move, SlotLimit, r
<1>13. QED
  BY <1>2, <1>3, <1>12, MoveInv DEF r

(* The end of the process of a message: a connection that was open. *)
LEMMA OpenInv ==
    ASSUME ServerConstants, ServerInv, NEW c \in Conns, conn[c].phase = "open",
           \E q : Move(c, q), ReplyUnchanged
    PROVE  ServerInv'
BY LoopKept, MoveInv DEF ReplyUnchanged

LEMMA RestOK ==
    ASSUME ServerInv, NEW c \in Conns, NEW kind, Receiving(c, kind)
    PROVE  /\ conn[c].phase = "open" /\ ConnOK(conn[c])
           /\ ConnOK(Rest(c)) /\ Rest(c).phase = "open" /\ Rest(c).told = conn[c].told
           /\ Rest(c).reg = conn[c].reg
           /\ Head(conn[c].chan) \in Messages /\ Head(conn[c].chan).kind = kind
           /\ Head(conn[c].chan) = Proxy => NoProxy(Rest(c)) /\ Rest(c).reader # "proxy"
                                              /\ Rest(c).pending # Proxy
<1>1. ConnOK(conn[c]) /\ conn[c].chan # <<>> /\ conn[c].phase = "open"
  BY DEF ServerInv, ConnsOK, Receiving
<1>2. QED
  BY <1>1, TailOK DEF Rest, Receiving

LEMMA ReplyRequestStep ==
    ASSUME ServerConstants, ServerInv, NEW c \in Conns, ReplyRequest(c)
    PROVE  ServerInv'
<1> DEFINE l == Head(conn[c].chan).line
           r == HandleLine(Rest(c), l)
<1>1. Receiving(c, "Request") /\ Send(c, r) /\ ReplyUnchanged
  BY DEF ReplyRequest
<1>2. l \in Commands
  BY <1>1, RestOK, MessageKinds
<1> HIDE DEF l
<1>3. tip \in Nat /\ hist \in [Hashes -> Histories \cup {TooLong}]
  BY DEF ServerInv, LoopType
<1>4. ConnOK(r) /\ r.phase = "open" /\ r.reg = conn[c].reg
  BY <1>1, <1>2, <1>3, RestOK, HandleLineOK
<1> HIDE DEF r
<1>5. QED
  BY <1>1, <1>4, RestOK, SendMove, OpenInv

LEMMA ReplyPeriodicStep ==
    ASSUME ServerConstants, ServerInv, NEW c \in Conns, ReplyPeriodic(c)
    PROVE  ServerInv'
<1> DEFINE r == UpdateSubscriptions(Rest(c))
<1>1. Receiving(c, "Periodic") /\ ReplyUnchanged
  BY DEF ReplyPeriodic
<1>2. CASE \E s \in Subscribed(conn[c]) : hist[s] = TooLong
  <2>1. Leave(c, Rest(c), FALSE)
    BY <1>2 DEF ReplyPeriodic
  <2>2. QED
    BY <1>1, <2>1, RestOK, LeaveMove, OpenInv
<1>3. CASE ~\E s \in Subscribed(conn[c]) : hist[s] = TooLong
  <2>1. \/ r.told = conn[c].told /\ conn' = [conn EXCEPT ![c] = r] /\ UNCHANGED stats
        \/ Send(c, r)
    BY <1>3 DEF ReplyPeriodic
  <2>2. tip \in Nat /\ hist \in [Hashes -> Histories \cup {TooLong}]
    BY DEF ServerInv, LoopType
  <2>3. Subscribed(Rest(c)) = Subscribed(conn[c])
    BY <1>1, RestOK DEF Subscribed
  <2>4. ConnOK(r) /\ r.phase = "open" /\ r.reg = conn[c].reg
    BY <1>1, <1>3, <2>2, <2>3, RestOK, UpdateOK
  <2> HIDE DEF r
  <2>5. CASE r.told = conn[c].told /\ conn' = [conn EXCEPT ![c] = r] /\ UNCHANGED stats
    BY <1>1, <2>4, <2>5, RestOK, QuietMove, OpenInv
  <2>6. CASE Send(c, r)
    BY <1>1, <2>4, <2>6, RestOK, SendMove, OpenInv
  <2>7. QED
    BY <2>1, <2>5, <2>6
<1>4. QED
  BY <1>2, <1>3

LEMMA LeavingSteps ==
    ASSUME ServerConstants, ServerInv, NEW c \in Conns,
           ReplyDone(c) \/ ReplyKilled(c) \/ ReplyIdle(c)
    PROVE  ServerInv'
<1>1. CASE ReplyDone(c)
  <2>1. Receiving(c, "Done") /\ Leave(c, Rest(c), TRUE) /\ ReplyUnchanged
    BY <1>1 DEF ReplyDone
  <2>2. QED
    BY <2>1, RestOK, LeaveMove, OpenInv
<1>2. CASE ReplyKilled(c) \/ ReplyIdle(c)
  <2>1. conn[c].phase = "open" /\ Leave(c, conn[c], TRUE) /\ ReplyUnchanged
    BY <1>2 DEF ReplyKilled, ReplyIdle
  <2>2. ConnOK(conn[c])
    BY DEF ServerInv, ConnsOK
  <2>3. QED
    BY <2>1, <2>2, LeaveMove, OpenInv
<1>3. QED
  BY <1>1, <1>2

LEMMA ClientKeyType ==
    ASSUME ServerConstants, NEW c \in Conns
    PROVE  ClientKey(c) \in Addrs \cup {NoAddr}
<1>1. Layers[c] \in Seq(Addrs) /\ DirectIp[c] \in Addrs \cup {NoAddr} /\ HaproxyDepth \in Nat
  BY DEF ServerConstants
<1>2. ProxyClient(c) \in Addrs \cup {NoAddr}
  <2> DEFINE s == Layers[c]
  <2>1. CASE HaproxyDepth = 0 \/ Len(s) < HaproxyDepth
    BY <2>1 DEF ProxyClient
  <2>2. CASE ~(HaproxyDepth = 0 \/ Len(s) < HaproxyDepth)
    <3>1. ProxyClient(c) = s[HaproxyDepth]
      BY <2>2 DEF ProxyClient
    <3>2. s \in Seq(Addrs)
      BY <1>1
    <3> HIDE DEF s
    <3>3. HaproxyDepth \in 1..Len(s)
      BY <1>1, <2>2, <3>2
    <3>4. QED
      BY <3>1, <3>2, <3>3
  <2>3. QED
    BY <2>1, <2>2
<1>3. QED
  BY <1>1, <1>2 DEF ClientKey

LEMMA ReplyProxyStep ==
    ASSUME ServerConstants, ServerInv, NEW c \in Conns, ReplyProxy(c)
    PROVE  ServerInv'
<1> DEFINE a == ClientKey(c)
           r == Rest(c)
<1>1. Receiving(c, "Proxy") /\ ReplyUnchanged
  BY DEF ReplyProxy
<1>2. /\ ConnOK(r) /\ r.phase = "open" /\ r.told = conn[c].told /\ r.reg = conn[c].reg
      /\ NoProxy(r) /\ r.reader # "proxy" /\ r.pending # Proxy /\ conn[c].phase = "open"
  BY <1>1, RestOK, MessageKinds
<1>3. a \in Addrs \cup {NoAddr}
  BY ClientKeyType
<1>4. \/ conn' = [conn EXCEPT ![c] = r] /\ UNCHANGED stats
      \/ Leave(c, r, TRUE)
      \/ /\ PerClient # 0 /\ a # NoAddr /\ ~(counts[a] >= PerClient)
         /\ counts' = [counts EXCEPT ![a] = @ + 1]
         /\ conn' = [conn EXCEPT ![c] = [r EXCEPT !.reg = a]]
         /\ clients' = clients /\ subscriptions' = subscriptions
  BY DEF ReplyProxy
<1> HIDE DEF a, r
<1>5. CASE conn' = [conn EXCEPT ![c] = r] /\ UNCHANGED stats
  BY <1>1, <1>2, <1>5, QuietMove, OpenInv
<1>6. CASE Leave(c, r, TRUE)
  BY <1>1, <1>2, <1>6, LeaveMove, OpenInv
<1>7. CASE /\ PerClient # 0 /\ a # NoAddr /\ ~(counts[a] >= PerClient)
           /\ counts' = [counts EXCEPT ![a] = @ + 1]
           /\ conn' = [conn EXCEPT ![c] = [r EXCEPT !.reg = a]]
           /\ clients' = clients /\ subscriptions' = subscriptions
  <2> DEFINE q == [r EXCEPT !.reg = a]
  <2>1. a \in Addrs /\ PerClient \in Nat /\ NoAddr \notin Addrs
    BY <1>3, <1>7 DEF ServerConstants
  <2>2. counts \in [Addrs -> Int] /\ clients \in Int /\ subscriptions \in Int /\ SlotLimit
    BY DEF ServerInv, CountsType
  <2>3. r \in ConnRecord /\ ProxyOnce(r)
    BY <1>2 DEF ConnOK
  <2>4. /\ q \in ConnRecord /\ q.chan = r.chan /\ q.reg = a /\ q.told = r.told
        /\ q.phase = "open" /\ q.reader = r.reader /\ q.pending = r.pending
    BY <1>2, <2>1, <2>3 DEF ConnRecord
  <2>5. conn' = [conn EXCEPT ![c] = q]
    BY <1>7
  <2> HIDE DEF q
  <2>6. ProxyOnce(q)
    BY <1>2, <2>3, <2>4 DEF ProxyOnce, NoProxy
  <2>7. ConnOK(q)
    BY <2>4, <2>6 DEF ConnOK
  <2>8. conn[c].reg = NoAddr
    BY <1>2 DEF NoProxy
  <2>9. \A b \in Addrs : counts'[b] = counts[b] + One(q.reg = b) - One(conn[c].reg = b)
    BY <1>7, <2>1, <2>2, <2>4, <2>8 DEF One
  <2>10. \A b \in Addrs : PerClient > 0 => counts'[b] <= PerClient
    BY <1>7, <2>1, <2>2 DEF SlotLimit
  <2>11. SubsOf(q) = SubsOf(conn[c])
    BY <1>2, <2>4 DEF SubsOf, Subscribed
  <2>12. clients' = clients + One(q.phase = "open") - One(conn[c].phase = "open")
    BY <1>2, <1>7, <2>2, <2>4 DEF One
  <2>13. subscriptions' = subscriptions + Cardinality(SubsOf(q)) - Cardinality(SubsOf(conn[c]))
    BY <1>7, <2>2, <2>11, SubsFinite
  <2>14. counts' \in [Addrs -> Int]
    BY <1>7, <2>1, <2>2
  <2>15. Move(c, q)
    BY <2>5, <2>7, <2>9, <2>10, <2>12, <2>13, <2>14 DEF Move
  <2>16. QED
    BY <1>1, <1>2, <2>15, OpenInv
<1>8. QED
  BY <1>4, <1>5, <1>6, <1>7

LEMMA ConnectStep ==
    ASSUME ServerConstants, ServerInv, NEW c \in Conns, Connect(c)
    PROVE  ServerInv'
<1> DEFINE r == conn[c]
           q == [r EXCEPT !.phase = "accepted"]
<1>1. ConnOK(r) /\ r \in ConnRecord /\ ProxyOnce(r)
  BY DEF ServerInv, ConnsOK, ConnOK
<1>2. conn' = [conn EXCEPT ![c] = q] /\ UNCHANGED stats /\ r.phase = "none" /\ acceptor' = Append(acceptor, c)
  BY DEF Connect
<1>3. acceptor \in Seq(Conns \cup {None})
  BY DEF ServerInv, LoopType
<1>4. acceptor' \in Seq(Conns \cup {None})
  BY <1>2, <1>3
<1>5. LoopType'
  BY <1>4 DEF Connect, ServerInv, LoopType, world
<1> HIDE DEF r
<1>6. /\ q \in ConnRecord /\ q.chan = r.chan /\ q.reg = r.reg /\ q.told = r.told
      /\ q.phase = "accepted" /\ q.reader = r.reader /\ q.pending = r.pending
  BY <1>1 DEF ConnRecord, Phases
<1> HIDE DEF q
<1>7. ConnOK(q)
  BY <1>1, <1>2, <1>6, FieldsOK DEF ProxyOnce
<1>8. Move(c, q)
  BY <1>2, <1>6, <1>7, QuietMove DEF r
<1>9. \A i \in DOMAIN acceptor' : \/ i \in DOMAIN acceptor /\ acceptor'[i] = acceptor[i]
                                  \/ i = Len(acceptor) + 1 /\ acceptor'[i] = c
  BY <1>2, <1>3
<1>10. \A i \in DOMAIN acceptor : acceptor[i] # None => acceptor[i] \in Conns /\ acceptor[i] # c
                                                          /\ conn[acceptor[i]].phase = "accepted"
  BY <1>2, <1>3 DEF ServerInv, AcceptInv, r
<1>11. \A d \in Conns : conn'[d] = IF d = c THEN q ELSE conn[d]
  BY <1>2 DEF ServerInv, ConnsOK
<1>12. \A i \in DOMAIN acceptor' : acceptor'[i] # None => conn'[acceptor'[i]].phase = "accepted"
  BY <1>6, <1>9, <1>10, <1>11
<1>13. \A i, j \in DOMAIN acceptor' : acceptor'[i] = acceptor'[j] /\ acceptor'[i] # None => i = j
  BY <1>9, <1>10 DEF ServerInv, AcceptInv
<1>14. QED
  BY <1>5, <1>8, <1>12, <1>13, MoveKeeps DEF ServerInv, AcceptInv

LEMMA ServeStep ==
    ASSUME ServerConstants, ServerInv, Serve
    PROVE  ServerInv'
<1>1. acceptor \in Seq(Conns \cup {None}) /\ acceptor # <<>> /\ Head(acceptor) # None
  BY DEF ServerInv, LoopType, Serve
<1>2. /\ Head(acceptor) = acceptor[1] /\ 1 \in DOMAIN acceptor
      /\ Tail(acceptor) \in Seq(Conns \cup {None})
      /\ \A i \in DOMAIN Tail(acceptor) : /\ i + 1 \in DOMAIN acceptor /\ i \in Nat /\ i > 0
                                          /\ Tail(acceptor)[i] = acceptor[i + 1]
  BY <1>1
<1>3. Head(acceptor) \in Conns
  BY <1>1
<1> DEFINE c == Head(acceptor)
           r == conn[c]
           full == Cardinality(threads \ garbage) >= MaxClients
           q == [r EXCEPT !.phase = IF full THEN "gone" ELSE "spawned", !.open = ~full]
<1>4. /\ conn' = [conn EXCEPT ![c] = q] /\ UNCHANGED stats /\ acceptor' = Tail(acceptor)
      /\ threads' \subseteq threads \cup {c} /\ garbage' = {}
  BY DEF Serve
<1>5. ConnOK(r) /\ r \in ConnRecord /\ ProxyOnce(r) /\ r.phase = "accepted"
  BY <1>1, <1>2, <1>3 DEF ServerInv, ConnsOK, ConnOK, AcceptInv
<1>6. LoopType'
  BY <1>2, <1>3, <1>4 DEF Serve, ServerInv, LoopType, world
<1> HIDE DEF r, full
<1>7. /\ q \in ConnRecord /\ q.chan = r.chan /\ q.reg = r.reg /\ q.told = r.told
      /\ q.phase \in {"gone", "spawned"} /\ q.reader = r.reader /\ q.pending = r.pending
  BY <1>5 DEF ConnRecord, Phases
<1> HIDE DEF q
<1>8. ConnOK(q)
  BY <1>5, <1>7, FieldsOK DEF ProxyOnce
<1>9. Move(c, q)
  BY <1>3, <1>4, <1>5, <1>7, <1>8, QuietMove DEF r
<1> HIDE DEF c
<1>10. \A d \in Conns \ {c} : conn'[d] = conn[d]
  BY <1>4 DEF ServerInv, ConnsOK
<1>11. \A i \in DOMAIN acceptor' : acceptor'[i] # None =>
          acceptor'[i] \in Conns \ {c} /\ conn[acceptor'[i]].phase = "accepted"
  <2> SUFFICES ASSUME NEW i \in DOMAIN acceptor', acceptor'[i] # None
               PROVE  acceptor'[i] \in Conns \ {c} /\ conn[acceptor'[i]].phase = "accepted"
    OBVIOUS
  <2>1. /\ i + 1 \in DOMAIN acceptor /\ i \in Nat /\ i > 0 /\ acceptor'[i] = acceptor[i + 1]
        /\ acceptor[i + 1] \in Conns \cup {None}
    BY <1>1, <1>2, <1>4
  <2>2. acceptor[i + 1] = acceptor[1] => i + 1 = 1
    BY <1>2, <2>1 DEF ServerInv, AcceptInv
  <2>3. acceptor[i + 1] # acceptor[1]
    BY <2>1, <2>2
  <2>4. QED
    BY <1>2, <2>1, <2>3 DEF ServerInv, AcceptInv, c
<1>12. \A i, j \in DOMAIN acceptor' : acceptor'[i] = acceptor'[j] /\ acceptor'[i] # None => i = j
  <2> SUFFICES ASSUME NEW i \in DOMAIN acceptor', NEW j \in DOMAIN acceptor',
                      acceptor'[i] = acceptor'[j], acceptor'[i] # None
               PROVE  i = j
    OBVIOUS
  <2>1. i + 1 = j + 1 /\ i \in Nat /\ j \in Nat
    BY <1>2, <1>4 DEF ServerInv, AcceptInv
  <2>2. QED
    BY <2>1
<1>13. AcceptInv'
  BY <1>10, <1>11, <1>12 DEF AcceptInv
<1>14. c \in Conns
  BY <1>3 DEF c
<1>15. QED
  BY <1>6, <1>9, <1>13, <1>14, MoveKeeps DEF ServerInv

(* The accept loop and the notifier touch every connection at once. *)
LEMMA AllQuiet ==
    ASSUME ServerConstants, ServerInv, LoopType', AcceptInv', UNCHANGED stats,
           DOMAIN conn' = Conns, conn' = [c \in Conns |-> conn'[c]],
           \A c \in Conns : /\ ConnOK(conn'[c]) /\ (conn'[c].phase = "open" <=> conn[c].phase = "open")
                            /\ conn'[c].told = conn[c].told /\ conn'[c].reg = conn[c].reg
    PROVE  ServerInv'
<1>1. ConnsOK'
  BY DEF ConnsOK
<1>2. OpenIn(conn') = OpenIn(conn)
  BY DEF OpenIn
<1>3. \A a \in Addrs : HoldersIn(conn', a) = HoldersIn(conn, a)
  BY DEF HoldersIn
<1>4. \A c \in Conns : SubsOf(conn'[c]) = SubsOf(conn[c])
  BY DEF SubsOf, Subscribed
<1>5. HeldIn(conn') = HeldIn(conn)
  BY <1>4 DEF HeldIn
<1>6. CountsType' /\ SlotLimit'
  BY DEF ServerInv, CountsType, SlotLimit, stats
<1>7. Balanced'
  BY <1>2, <1>3, <1>5 DEF ServerInv, Balanced, stats
<1>8. QED
  BY <1>1, <1>6, <1>7 DEF ServerInv

LEMMA NotifyPeriodicStep ==
    ASSUME ServerConstants, ServerInv, NotifyPeriodic
    PROVE  ServerInv'
<1>1. /\ conn' = [c \in Conns |-> IF c \in senders THEN TrySend(conn[c], PeriodicUpdate) ELSE conn[c]]
      /\ UNCHANGED stats /\ acceptor' = acceptor
  BY DEF NotifyPeriodic, loop
<1>2. LoopType'
  BY DEF NotifyPeriodic, ServerInv, LoopType, world, loop, ServerConstants
<1>3. \A c \in Conns : ConnOK(conn[c])
  BY DEF ServerInv, ConnsOK
<1>4. PeriodicUpdate \in Messages /\ PeriodicUpdate # Proxy
  BY MessageKinds
<1>5. \A c \in Conns : LET q == TrySend(conn[c], PeriodicUpdate) IN
          ConnOK(q) /\ q.phase = conn[c].phase /\ q.told = conn[c].told /\ q.reg = conn[c].reg
  BY <1>3, <1>4, TrySendOK
<1>6. \A c \in Conns : /\ ConnOK(conn'[c]) /\ conn'[c].phase = conn[c].phase
                       /\ conn'[c].told = conn[c].told /\ conn'[c].reg = conn[c].reg
  BY <1>1, <1>3, <1>5
<1>7. DOMAIN conn' = Conns /\ conn' = [c \in Conns |-> conn'[c]]
  BY <1>1
<1>8. \A i \in DOMAIN acceptor : acceptor[i] # None => acceptor[i] \in Conns
  BY DEF ServerInv, LoopType
<1>9. AcceptInv'
  BY <1>1, <1>6, <1>8 DEF ServerInv, AcceptInv
<1>10. QED
  BY <1>1, <1>2, <1>6, <1>7, <1>9, AllQuiet

LEMMA CloseAllStep ==
    ASSUME ServerConstants, ServerInv, CloseAll
    PROVE  ServerInv'
<1> DEFINE gone(c) == [conn[c] EXCEPT !.phase = "gone"]
<1>1. /\ conn' = [c \in Conns |-> IF c \in senders THEN TrySend(conn[c], Done)
                                  ELSE IF conn[c].phase = "accepted" THEN gone(c) ELSE conn[c]]
      /\ UNCHANGED stats /\ acceptor' = <<>>
  BY DEF CloseAll
<1>2. LoopType'
  BY DEF CloseAll, ServerInv, LoopType, world
<1>3. \A c \in Conns : ConnOK(conn[c])
  BY DEF ServerInv, ConnsOK
<1>4. Done \in Messages /\ Done # Proxy
  BY MessageKinds
<1>5. \A c \in Conns : LET q == TrySend(conn[c], Done) IN
          ConnOK(q) /\ q.phase = conn[c].phase /\ q.told = conn[c].told /\ q.reg = conn[c].reg
  BY <1>3, <1>4, TrySendOK
<1>6. ASSUME NEW c \in Conns, conn[c].phase = "accepted"
      PROVE  ConnOK(gone(c)) /\ gone(c).phase = "gone" /\ gone(c).told = conn[c].told
                 /\ gone(c).reg = conn[c].reg
  <2> DEFINE r == conn[c]
             q == [r EXCEPT !.phase = "gone"]
  <2>1. ConnOK(r) /\ r \in ConnRecord /\ ProxyOnce(r) /\ r.phase = "accepted"
    BY <1>3, <1>6 DEF ConnOK
  <2> HIDE DEF r
  <2>2. /\ q \in ConnRecord /\ q.chan = r.chan /\ q.reg = r.reg /\ q.told = r.told
        /\ q.phase = "gone" /\ q.reader = r.reader /\ q.pending = r.pending
    BY <2>1 DEF ConnRecord, Phases
  <2> HIDE DEF q
  <2>3. ConnOK(q)
    BY <2>1, <2>2, FieldsOK DEF ProxyOnce
  <2>4. QED
    BY <2>2, <2>3 DEF q, r
<1> HIDE DEF gone
<1>7. \A c \in Conns : /\ ConnOK(conn'[c]) /\ (conn'[c].phase = "open" <=> conn[c].phase = "open")
                       /\ conn'[c].told = conn[c].told /\ conn'[c].reg = conn[c].reg
  BY <1>1, <1>3, <1>5, <1>6
<1>8. DOMAIN conn' = Conns /\ conn' = [c \in Conns |-> conn'[c]]
  BY <1>1
<1>9. AcceptInv'
  BY <1>1 DEF AcceptInv
<1>10. QED
  BY <1>1, <1>2, <1>7, <1>8, <1>9, AllQuiet

------------------------------------------------------------------------------
LEMMA ServerInit ==
    ASSUME ServerConstants, ElectrumInit
    PROVE  ServerInv
<1>1. ConnOK(NewConnection) /\ NewConnection.phase = "none" /\ NewConnection.reg = NoAddr
  <2> DEFINE r == NewConnection
  <2>1. <<>> \in Seq(Messages) /\ \A i \in DOMAIN <<>> : FALSE
    OBVIOUS
  <2>2. NoneTold \in Told /\ NoneTold.status = [s \in Hashes |-> None]
    BY DEF NoneTold, Told
  <2>3. /\ r \in ConnRecord /\ r.phase = "none" /\ r.reg = NoAddr /\ r.chan = <<>>
        /\ r.pending = None /\ r.told = NoneTold
    BY <2>1, <2>2 DEF NewConnection, ConnRecord, Phases, ServerConstants
  <2>4. None # Proxy
    BY MessageKinds DEF ServerConstants
  <2>5. ProxyOnce(r)
    BY <2>1, <2>3, <2>4 DEF ProxyOnce, NoProxy
  <2>6. Subscribed(r) = {}
    BY <2>2, <2>3 DEF Subscribed
  <2>7. QED
    BY <2>3, <2>5, <2>6 DEF ConnOK
<1>2. \A c \in Conns : conn[c] = NewConnection
  BY DEF ElectrumInit
<1>3. ConnsOK
  BY <1>1, <1>2 DEF ElectrumInit, ConnsOK
<1>4. LoopType
  BY DEF ElectrumInit, LoopType, ServerConstants
<1>5. AcceptInv
  BY DEF ElectrumInit, AcceptInv
<1>6. CountsType /\ SlotLimit
  BY DEF ElectrumInit, CountsType, SlotLimit, ServerConstants
<1>7. OpenIn(conn) = {} /\ HeldIn(conn) = {} /\ \A a \in Addrs : HoldersIn(conn, a) = {}
  BY <1>1, <1>2 DEF OpenIn, HeldIn, SubsOf, HoldersIn, ServerConstants
<1>8. Cardinality({}) = 0
  BY FS_EmptySet
<1>9. Balanced
  BY <1>7, <1>8 DEF ElectrumInit, Balanced
<1>10. QED
  BY <1>3, <1>4, <1>5, <1>6, <1>9 DEF ServerInv

(* Steps that touch no connection. *)
LEMMA LoopSteps ==
    ASSUME ServerConstants, ServerInv,
           World \/ Notify \/ Stop \/ NotifyExit \/ (\E c \in Conns : Join(c)) \/ Stopped
               \/ JoinTimeout \/ UNCHANGED electrumVars
    PROVE  ServerInv'
<1>1. conn' = conn /\ UNCHANGED stats
  BY DEF World, Notify, Stop, NotifyExit, Join, Stopped, JoinTimeout, electrumVars
<1>2. acceptor' \in {acceptor, Append(acceptor, None)}
  BY DEF World, Notify, Stop, NotifyExit, Join, Stopped, JoinTimeout, electrumVars, loop
<1>3. acceptor \in Seq(Conns \cup {None})
  BY DEF ServerInv, LoopType
<1>4. acceptor' \in Seq(Conns \cup {None})
  BY <1>2, <1>3
<1>5. \A i \in DOMAIN acceptor' : acceptor'[i] # None => i \in DOMAIN acceptor /\ acceptor'[i] = acceptor[i]
  BY <1>2, <1>3
<1>6. AcceptInv'
  BY <1>1, <1>5 DEF ServerInv, AcceptInv
<1>7. LoopType'
  <2>1. /\ tip \in Nat /\ changes \in 0..MaxChanges /\ hist \in [Hashes -> Histories \cup {TooLong}]
        /\ senders \subseteq Conns /\ threads \subseteq Conns /\ garbage \subseteq Conns
        /\ notes \in 0..MaxNotes /\ exit \in {"no", "sent", "seen"}
        /\ rpc \in {"serving", "joining", "stopped", "exited"}
    BY DEF ServerInv, LoopType
  <2>2. CASE World
    BY <1>4, <2>1, <2>2 DEF World, LoopType, loop, ServerConstants
  <2>3. CASE Notify
    BY <1>4, <2>1, <2>3 DEF Notify, LoopType, loop, world, ServerConstants
  <2>4. CASE Stop \/ NotifyExit \/ (\E c \in Conns : Join(c)) \/ Stopped \/ JoinTimeout \/ UNCHANGED electrumVars
    BY <1>4, <2>1, <2>4 DEF Stop, NotifyExit, Join, Stopped, JoinTimeout, electrumVars, LoopType, loop, world
  <2>5. QED
    BY <2>2, <2>3, <2>4
<1>8. QED
  BY <1>1, <1>6, <1>7 DEF ServerInv, ConnsOK, CountsType, Balanced, SlotLimit, stats

LEMMA ServerNext ==
    ASSUME ServerConstants, ServerInv, [ElectrumNext]_electrumVars
    PROVE  ServerInv'
<1>1. CASE World \/ Notify \/ Stop \/ NotifyExit \/ (\E c \in Conns : Join(c)) \/ Stopped
               \/ JoinTimeout \/ UNCHANGED electrumVars
  BY <1>1, LoopSteps
<1>2. CASE NotifyPeriodic
  BY <1>2, NotifyPeriodicStep
<1>3. CASE Serve
  BY <1>3, ServeStep
<1>4. CASE CloseAll
  BY <1>4, CloseAllStep
<1>5. CASE \E c \in Conns : Kill(c)
  BY <1>5, KillStep
<1>6. CASE \E c \in Conns : Connect(c)
  BY <1>6, ConnectStep
<1>7. CASE \E c \in Conns : Peer(c)
  BY <1>7, PeerStartsStep, FinishStep, ReplyRequestStep, ReplyPeriodicStep, LeavingSteps,
     ReplyProxyStep DEF Peer
<1>8. CASE \E c \in Conns : ReplyIdle(c)
  BY <1>8, LeavingSteps
<1>9. CASE \E c \in Conns : Reader(c)
  BY <1>9, ReadProxyStep, ReadLineStep, ReaderSendsStep DEF Reader
<1>10. CASE \E c \in Conns : Client(c)
  BY <1>10, ClientStep
<1>11. QED
  BY <1>1, <1>2, <1>3, <1>4, <1>5, <1>6, <1>7, <1>8, <1>9, <1>10, Zenon
     DEF ElectrumNext, Notifier, Server, Halted

(* The invariant gives what the run checks. *)
LEMMA BalanceOfInv ==
    ASSUME ServerConstants, ServerInv
    PROVE  ElectrumTypeOK /\ ConnectionsBalance
<1>1. \A a \in Addrs : /\ counts[a] = Cardinality({c \in Conns : conn[c].reg = a})
                       /\ PerClient > 0 => counts[a] <= PerClient
  BY DEF ServerInv, Balanced, HoldersIn, SlotLimit
<1>2. \A c \in Conns : conn[c].reg # NoAddr => conn[c].phase = "open"
  BY DEF ServerInv, ConnsOK, ConnOK
<1>3. SlotsBalance
  BY <1>1, <1>2 DEF SlotsBalance, ServerConstants
<1>4. HeldIn(conn) = {cs \in OpenIn(conn) \X Hashes : cs[2] \in Subscribed(conn[cs[1]])}
  BY SMT DEF HeldIn, SubsOf, OpenIn
<1>5. GaugesBalance
  BY <1>4 DEF GaugesBalance, ServerInv, Balanced, OpenIn
<1>6. /\ IsFiniteSet(OpenIn(conn)) /\ IsFiniteSet(HeldIn(conn))
      /\ \A a \in Addrs : IsFiniteSet(HoldersIn(conn, a))
  <2>1. IsFiniteSet(Conns \X Hashes) /\ IsFiniteSet(Conns)
    BY FS_Product DEF ServerConstants
  <2>2. /\ OpenIn(conn) \subseteq Conns /\ HeldIn(conn) \subseteq Conns \X Hashes
        /\ \A a \in Addrs : HoldersIn(conn, a) \subseteq Conns
    BY DEF OpenIn, HeldIn, HoldersIn
  <2>3. QED
    BY <2>1, <2>2, FS_Subset
<1>7. clients \in Nat /\ subscriptions \in Nat /\ \A a \in Addrs : counts[a] \in Nat
  BY <1>6, FS_CardinalityType DEF ServerInv, Balanced
<1>8. counts \in [Addrs -> Nat]
  BY <1>7 DEF ServerInv, CountsType
<1>9. conn \in [Conns -> ConnRecord]
  BY DEF ServerInv, ConnsOK, ConnOK
<1>10. ElectrumTypeOK
  BY <1>7, <1>8, <1>9 DEF ElectrumTypeOK, ServerInv, LoopType, ConnRecord, Phases
<1>11. QED
  BY <1>3, <1>5, <1>10 DEF ConnectionsBalance

(* register_client and the gauges of Stats balance: whatever the order in  *)
(* which readers, reply loops, clients, the notifier and the stopping accept *)
(* loop run, the counter of an address is the number of open connections   *)
(* that hold a slot of it and within electrum_connections_per_client, and  *)
(* the two gauges are what the open connections hold.                      *)
THEOREM ServerBalances ==
    ASSUME ServerConstants
    PROVE  ElectrumSpec => [](ElectrumTypeOK /\ ConnectionsBalance)
<1>1. ElectrumInit => ServerInv
  BY ServerInit
<1>2. ServerInv /\ [ElectrumNext]_electrumVars => ServerInv'
  BY ServerNext
<1>3. ServerInv => ElectrumTypeOK /\ ConnectionsBalance
  BY BalanceOfInv
<1>4. QED
  BY <1>1, <1>2, <1>3, PTL DEF ElectrumSpec
=============================================================================
