----------------------------- MODULE RateLimit -----------------------------
(***************************************************************************)
(* The rate limits of `splora-queue`.  submit_impl passes a post through   *)
(* the hit list of its address, then through that of its npub, each behind *)
(* a mutex of its own.  `now` is read before either lock is taken, so on   *)
(* the unix listener, where requests run concurrently, the times reach a   *)
(* hit list out of order.                                                  *)
(*                                                                         *)
(* Only the length of a hit list and the times in it are read, so it is    *)
(* the set of its hits: <<t, k>> is the k-th of those at time t.           *)
(***************************************************************************)
EXTENDS Naturals, FiniteSets

CONSTANTS
    Posts,            \* concurrent requests
    Ips, Senders,
    NoIp,             \* no X-Forwarded-For
    RateWindow, PerIp, PerNpub,     \* QueueCaps
    MaxClock          \* bound on the clock

Buckets == Ips \cup Senders
Limit(b) == IF b \in Ips THEN PerIp ELSE PerNpub

VARIABLES
    clock,
    hits,       \* ip_hits and npub_hits
    at,         \* where a request is: "idle", "ip", "npub"
    post,       \* its address, npub and time
    seen,       \* the latest time a hit list has seen
    passed      \* the hits of requests that nobody overtook

rateVars == <<clock, hits, at, post, seen, passed>>

RateInit ==
    /\ clock = 0
    /\ hits = [b \in Buckets |-> {}]
    /\ at = [p \in Posts |-> "idle"]
    /\ post = [p \in Posts |-> [ip |-> NoIp, npub |-> NoIp, time |-> 0]]
    /\ seen = [b \in Buckets |-> 0]
    /\ passed = [b \in Buckets |-> {}]

(* handle_unix_http: the address is the first hop of X-Forwarded-For, if   *)
(* there is one, and the clock is read.                                    *)
Arrive(p, i, n) ==
    /\ at[p] = "idle"
    /\ post' = [post EXCEPT ![p] = [ip |-> i, npub |-> n, time |-> clock]]
    /\ at' = [at EXCEPT ![p] = IF i = NoIp THEN "npub" ELSE "ip"]
    /\ UNCHANGED <<clock, hits, seen, passed>>

Saturating(a, b) == IF a > b THEN a - b ELSE 0

KeptShort(hs, t) == {h \in hs : Saturating(t, h[1]) + 1 < RateWindow}

(* rate_ok's retain.                                                       *)
Kept(hs, t) == {h \in hs : Saturating(t, h[1]) < RateWindow}

Ordinals(hs, t) == {h[2] : h \in {g \in hs : g[1] = t}}
Hit(hs, t) == <<t, Cardinality(Ordinals(hs, t)) + 1>>

(* rate_ok, and what the request does next.                                *)
RateOk(p, b, next) ==
    LET t == post[p].time
        hs == Kept(hits[b], t)
        ok == Cardinality(hs) < Limit(b)
    IN  /\ hits' = [hits EXCEPT ![b] = IF ok THEN hs \cup {Hit(hs, t)} ELSE hs]
        /\ seen' = [seen EXCEPT ![b] = IF t > seen[b] THEN t ELSE seen[b]]
        /\ passed' = IF ok /\ t >= seen[b]
                     THEN [passed EXCEPT ![b] = passed[b] \cup {Hit(hs, t)}] ELSE passed
        /\ at' = [at EXCEPT ![p] = IF ok THEN next ELSE "idle"]
        /\ UNCHANGED <<clock, post>>

CheckIp(p) == at[p] = "ip" /\ RateOk(p, post[p].ip, "npub")

(* A post the npub's limit refuses has used up a hit of its address.       *)
CheckNpub(p) == at[p] = "npub" /\ RateOk(p, post[p].npub, "idle")

Second == clock < MaxClock /\ clock' = clock + 1 /\ UNCHANGED <<hits, at, post, seen, passed>>

RateNext ==
    \/ \E p \in Posts, i \in Ips \cup {NoIp}, n \in Senders : Arrive(p, i, n)
    \/ \E p \in Posts : CheckIp(p) \/ CheckNpub(p)
    \/ Second

RateSpec == RateInit /\ [][RateNext]_rateVars

(* No bucket lets more than its limit through in any RateWindow seconds,   *)
(* as long as the requests it counts were not overtaken on their way to    *)
(* the lock (on the TCP listener, which is sequential, none is).           *)
WithinRate ==
    \A b \in Buckets : \A t \in 0..MaxClock :
        Cardinality({h \in passed[b] : h[1] \in t..(t + RateWindow - 1)}) <= Limit(b)
=============================================================================
