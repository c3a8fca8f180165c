------------------------------- MODULE Access -------------------------------
(***************************************************************************)
(* A signed request on its way: the client that builds the NIP-98 event,   *)
(* the `splora-http` front that picks a network's socket and rewrites the  *)
(* path, and the gate of the indexer's REST server that rebuilds the URL   *)
(* and checks the event against it.                                        *)
(*                                                                         *)
(* Clients:                                                                *)
(*   "web"     the browser page, whose key is in a NIP-07 extension;       *)
(*   "desktop" the desktop program, whose ureq client signs nothing;       *)
(*   "signer"  callers of native's call_indexer_with_signer;               *)
(*   "wallet"  a websocket client that signs the path the server sees.     *)
(* Requests share the clock and the allowlist and nothing else, so one is  *)
(* followed at a time.  A path is the sequence of its segments.            *)
(* Signatures verify, because every client signs what it sends; base64 and *)
(* JSON are left out.                                                      *)
(***************************************************************************)
EXTENDS Naturals, Sequences, SequencesExt

CONSTANTS
    Keys,           \* public keys
    Clients,        \* those of the four that take part
    Window,         \* NIP98_WINDOW_SECS
    PublicHealth,   \* --public-health
    MaxTime,        \* bound on the clock
    MaxRelists      \* bound on changes of the allowlist

VARIABLES
    now,        \* seconds
    listed,     \* Allowlist::keys
    place,      \* where the request is
    req,        \* the request
    answer,     \* its answer
    relists

accessVars == <<now, listed, place, req, answer, relists>>

Networks == {"mainnet", "testnet", "testnet4", "mutinynet", "liquid"}
Ws == <<"api", "v1", "ws">>
Health == {<<"blocks", "tip", "hash">>, <<"blocks", "tip", "height">>}
Plain == {<<"tx">>, <<"txs", "test">>}
NoEvent == [key |-> "none"]
NoReq == [by |-> "none"]
NoAnswer == [status |-> 0, why |-> "none"]

(* Network::api_prefix.                                                    *)
api_prefix(n) == IF n = "mainnet" THEN <<"api">> ELSE <<n, "api">>

-----------------------------------------------------------------------------
(* What a client asks for.  `net` is the network it wants, `path` the path *)
(* after the network root, `event` the NIP-98 event, `seen` the path of    *)
(* the request line, `to` the socket and `at` the path the front chose.    *)
Ask(c, n, m, p, b) ==
    [by |-> c, net |-> n, method |-> m, path |-> p, body |-> b, event |-> NoEvent,
     seen |-> api_prefix(n) \o p, to |-> "none", at |-> <<>>]

Event(k, u, m, payload) ==
    [key |-> k, created |-> now, u |-> u, method |-> m, payload |-> payload]

WithPrefix(n, p) == [proto |-> "https", path |-> api_prefix(n) \o p]

(* nip98_u_url: origin and the indexer's path, without the network prefix. *)
nip98_u_url(n, p) == [proto |-> "https", path |-> p]

Send(l, r) == place' = l /\ req' = r

(* signed_fetch up to the extension's prompt.  created_at is taken before  *)
(* signEvent is awaited.  Posts go to /tx, /txs/test and /txs/package, and *)
(* have no payload tag.                                                    *)
WebAsks(k, n, m, p) ==
    /\ "web" \in Clients /\ place = "idle"
    /\ m = "POST" => p \in {<<"tx">>, <<"txs", "test">>}
    /\ p # Ws
    /\ Send("signing",
            [Ask("web", n, m, p, IF m = "POST" THEN "hex" ELSE "none")
                EXCEPT !.event = Event(k, nip98_u_url(n, p), m, "none")])
    /\ UNCHANGED <<now, listed, answer, relists>>

(* The extension signs, and the page sends the request.                    *)
WebSigned ==
    /\ place = "signing"
    /\ Send("front", req)
    /\ UNCHANGED <<now, listed, answer, relists>>

(* ExplorerClient with ureq: no Authorization header.                      *)
DesktopAsks(n, m, p) ==
    /\ "desktop" \in Clients /\ place = "idle"
    /\ p # Ws
    /\ Send("front", Ask("desktop", n, m, p, IF m = "POST" THEN "hex" ELSE "none"))
    /\ UNCHANGED <<now, listed, answer, relists>>

(* call_indexer_with_signer signs the URL it calls; sign_http adds a       *)
(* payload tag when the body is not empty.                                 *)
SignerAsks(k, n, m, p) ==
    /\ "signer" \in Clients /\ place = "idle"
    /\ LET b == IF m = "POST" THEN "hex" ELSE "none"
       IN  Send("front",
                [Ask("signer", n, m, p, b) EXCEPT !.event = Event(k, WithPrefix(n, p), m, b)])
    /\ UNCHANGED <<now, listed, answer, relists>>

(* A websocket client.  `/signet` is a public alias of mutinynet.          *)
WalletAsks(k, n) ==
    /\ "wallet" \in Clients /\ place = "idle"
    /\ LET r == Ask("wallet", n, "GET", Ws, "none")
           e == [r EXCEPT !.event = Event(k, nip98_u_url(n, Ws), "GET", "none"),
                          !.seen = (IF n = "mainnet" THEN <<>> ELSE <<n>>) \o Ws]
       IN  \/ Send("front", e)
           \/ /\ n = "mutinynet"
              /\ Send("front", [e EXCEPT !.seen = <<"signet">> \o Ws])
    /\ UNCHANGED <<now, listed, answer, relists>>

-----------------------------------------------------------------------------
(* The front.                                                              *)
KeepsApi(p) == p

(* `/api/v1/ws` stays; other paths lose `/api`.                            *)
backend_path(p) == IF IsPrefix(Ws, p) THEN p ELSE Tail(p)

NotFound == [to |-> "none"]

proxy_after_network(n, p) ==
    IF p # <<>> /\ Head(p) = "api" THEN [to |-> n, at |-> backend_path(p)] ELSE NotFound

TestnetFirst(p) ==
    IF p = <<>> THEN NotFound
    ELSE IF Head(p) = "testnet4" THEN proxy_after_network("testnet", Tail(p))
    ELSE IF Head(p) = "signet" THEN [to |-> "redirect", at |-> <<"mutinynet">> \o Tail(p)]
    ELSE IF Head(p) \in Networks \ {"mainnet"} THEN proxy_after_network(Head(p), Tail(p))
    ELSE IF Head(p) = "api" THEN proxy_after_network("mainnet", p) ELSE NotFound

(* route: the redirect of /signet, the networks' prefixes, then /api.      *)
route(p) ==
    IF p = <<>> THEN NotFound
    ELSE IF Head(p) = "signet" THEN [to |-> "redirect", at |-> <<"mutinynet">> \o Tail(p)]
    ELSE IF Head(p) \in Networks \ {"mainnet"} THEN proxy_after_network(Head(p), Tail(p))
    ELSE IF Head(p) = "api" THEN proxy_after_network("mainnet", p) ELSE NotFound

Answer(status, why) ==
    /\ place' = "done"
    /\ answer' = [status |-> status, why |-> why]

(* dispatch: a redirect is followed by the client with the same headers;   *)
(* proxy_unix answers 502 when the socket does not.                        *)
Dispatch ==
    /\ place = "front"
    /\ LET r == route(req.seen)
       IN  \/ /\ r.to = "redirect"
              /\ req' = [req EXCEPT !.seen = r.at]
              /\ UNCHANGED <<place, answer>>
           \/ r = NotFound /\ Answer(404, "route") /\ UNCHANGED req
           \/ /\ r.to \in Networks
              /\ Send("body", [req EXCEPT !.to = r.to, !.at = r.at])
              /\ UNCHANGED answer
           \/ r.to \in Networks /\ Answer(502, "backend") /\ UNCHANGED req
    /\ UNCHANGED <<now, listed, relists>>

-----------------------------------------------------------------------------
(* The indexer.                                                            *)

(* reconstruct_absolute_url: the front has set X-Forwarded-Proto.          *)
reconstruct_from_req(r) == [proto |-> "https", path |-> r.at]

(* verify_nip98_impl, in the order of its checks.  Every event has the     *)
(* right kind; the payload is compared only when the tag is there.         *)
verify_nip98(r) ==
    IF r.event = NoEvent THEN "MissingHeader"
    ELSE IF now - r.event.created > Window THEN "Expired"
    ELSE IF r.event.u # reconstruct_from_req(r) THEN "UrlMismatch"
    ELSE IF r.event.method # r.method THEN "MethodMismatch"
    ELSE IF r.event.payload # "none" /\ r.event.payload # r.body THEN "PayloadMismatch"
    ELSE IF r.event.key \notin listed THEN "NotAllowlisted" ELSE "ok"

AnyMethodHealth(r) ==
    IF PublicHealth /\ r.at \in Health THEN "health" ELSE verify_nip98(r)

(* --public-health opens GET of the two tip paths and nothing else.        *)
http_ws_auth_gate(r) ==
    IF PublicHealth /\ r.method = "GET" /\ r.at \in Health THEN "health"
    ELSE verify_nip98(r)

(* handle_mwck_upgrade, and handle_one_rest_request once the body is read. *)
Serve ==
    /\ place = "body"
    /\ LET g == http_ws_auth_gate(req)
       IN  \/ req.at = Ws /\ g = "ok" /\ Answer(101, "ok")
           \/ req.at # Ws /\ g \in {"ok", "health"} /\ Answer(200, g)
           \/ g \notin {"ok", "health"} /\ Answer(401, g)
    /\ UNCHANGED <<now, listed, req, relists>>

(* The body does not arrive within REQUEST_BODY_TIMEOUT, or is larger than *)
(* MAX_BODY_SIZE: both are answered before the gate.                       *)
BodyRefused ==
    /\ place = "body" /\ req.at # Ws /\ req.body # "none"
    /\ \/ Answer(408, "body")
       \/ Answer(413, "body")
    /\ UNCHANGED <<now, listed, req, relists>>

(* The client is done with the answer.                                     *)
Again ==
    /\ place = "done"
    /\ Send("idle", NoReq) /\ answer' = NoAnswer
    /\ UNCHANGED <<now, listed, relists>>

-----------------------------------------------------------------------------
Tick ==
    /\ now < MaxTime /\ now' = now + 1
    /\ UNCHANGED <<listed, place, req, answer, relists>>

(* A reload of the allowlist (module Allowlist).                           *)
Relist(S) ==
    /\ relists < MaxRelists /\ S # listed
    /\ listed' = S /\ relists' = relists + 1
    /\ UNCHANGED <<now, place, req, answer>>

AccessInit ==
    /\ now = 0 /\ listed = Keys /\ relists = 0
    /\ place = "idle" /\ req = NoReq /\ answer = NoAnswer

Asks ==
    \E k \in Keys, n \in Networks, m \in {"GET", "POST"}, p \in Plain \cup Health :
        WebAsks(k, n, m, p) \/ DesktopAsks(n, m, p) \/ SignerAsks(k, n, m, p)

AccessNext ==
    \/ Asks
    \/ WebSigned
    \/ \E k \in Keys, n \in Networks : WalletAsks(k, n)
    \/ Dispatch \/ Serve \/ BodyRefused \/ Again
    \/ Tick
    \/ \E S \in SUBSET Keys : Relist(S)

AccessSpec == AccessInit /\ [][AccessNext]_accessVars

-----------------------------------------------------------------------------
AccessTypeOK ==
    /\ now \in 0..MaxTime /\ listed \subseteq Keys /\ relists \in 0..MaxRelists
    /\ place \in {"idle", "signing", "front", "body", "done"}
    /\ req.by \in Clients \cup {"none"}
    /\ answer.status \in {0, 101, 200, 401, 404, 408, 413, 502}

Accepted == answer.status \in {101, 200}
Refused == answer.status \in {401, 404} /\ answer.why \notin {"Expired", "NotAllowlisted"}

(* The page, the front and the gate agree on the URL: whatever network,    *)
(* method and path the page (or a websocket client) asks for, also through *)
(* the redirect of /signet, a 401 means an old event or an unlisted key.   *)
WebServed == req.by \in {"web", "wallet"} => ~Refused

(* What is served was asked of that network, for that path.                *)
ServedWhereAsked == Accepted => req.to = req.net /\ req.at = req.path

(* A request without an event gets the two tip paths, with GET, and only   *)
(* under --public-health.                                                  *)
UnsignedSeesTip ==
    Accepted /\ req.event = NoEvent =>
        PublicHealth /\ req.method = "GET" /\ req.path \in Health

(* The gate decides as documented: a 401 of the page means an old event or *)
(* an unlisted key, because the page, the front and the gate agree on the  *)
(* URL; what is served was asked of that network, for that path; and       *)
(* without an event only the two tip paths are served, with GET, under     *)
(* --public-health.                                                        *)
GateExact == AccessTypeOK /\ WebServed /\ ServedWhereAsked /\ UnsignedSeesTip

(* README.md: "The `u` tag is the public absolute URL."  A client that     *)
(* signs the public URL is served, unless its event is old or its key is   *)
(* not listed.                                                             *)
PublicUrlAccepted == req.by = "signer" => ~Refused
=============================================================================
