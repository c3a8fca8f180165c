------------------------------ MODULE WebPages ------------------------------
(***************************************************************************)
(* The web explorer (frontend/web): the pages, the signals they keep and   *)
(* the signed requests that fill them.                                     *)
(*                                                                         *)
(* A request is a task that sets one signal when it is answered; nothing   *)
(* orders the answers of different tasks, and nothing cancels one.  The    *)
(* router keeps the component, and so its signals, when only the id of the *)
(* route changes; another route starts with fresh signals.  Effects run    *)
(* before the next event of the page, so they are part of the step that    *)
(* wakes them.                                                             *)
(*                                                                         *)
(* A body is abstracted to its origin: the network and the request it      *)
(* answers, and whether it is an answer or the text of an error.           *)
(***************************************************************************)
EXTENDS Naturals, Sequences, FiniteSets

CONSTANTS
    Nets, LiquidNet,
    BlockHashes, BlockHeights,
    HashAt,                     \* HashAt[n][h]: the block of network n at height h
    TxIds, Addrs, ScriptHashes, Assets, AddrPrefixes,
    Starts, Aligned,            \* ?start_index= of a block page; the multiples of 25
    NoId,
    Tours,                      \* bounds: pages and ids a user opens, his acts, his patience
    MaxFails                    \* bound: answers that are errors

VARIABLES
    net,        \* App: RwSignal<Network>
    page,       \* the route: its kind and its parameters
    slot,       \* the signals of the page's component
    rows,       \* its rows, keyed by path
    query,      \* SearchBox: the text searched for, and
    parts,      \* what it has loaded
    tasks,      \* one-shot tasks under way
    loads,      \* block loads under way, each one task
    asked,      \* history: what the page was last asked to show, and where
    calm,       \* history: nothing was under way at that time or at any act since
    tour, clicks, fails

webVars == <<net, page, slot, rows, query, parts, tasks, loads, asked, calm, tour, clicks, fails>>

(* One signal stands for those that are always requested together: header
   for the header, the raw block and a txid by index; proof for the proof,
   the hex, the raw transaction and the merkleblock; supply for both forms. *)
BlockSlots == {"block", "txs", "txids", "height", "status", "header", "batch"}
TxSlots == {"tx", "spends", "proof", "status", "tipheight"}
AddressSlots == {"stats", "txs", "utxo", "mempool", "summary", "chain"}
AssetSlots == {"asset", "txs", "entry", "chain", "mempool", "supply"}
HomeSlots == {"blocks", "recent", "tiphash", "tipheight", "fees", "mempool"}
ManySlots == {"txs", "scripttxs", "summary", "scriptsummary"}
Slots == BlockSlots \cup TxSlots \cup AddressSlots \cup AssetSlots \cup HomeSlots \cup ManySlots
             \cup {"list", "later", "found", "response", "recent", "txids"}
Unset == <<>>                                       \* no body yet
Empty == [s \in Slots |-> Unset]
NoRows == <<>>

Page(kind, id, start) == [kind |-> kind, id |-> id, start |-> start]
HexIds == BlockHashes \cup TxIds \cup ScriptHashes \cup Assets
Parses(b) == b # Unset /\ b.ok

(* A request: what is read, of which id, and the page or cursor. *)
Get(what, id) == [what |-> what, id |-> id, arg |-> <<>>]
GetAt(what, id, arg) == [what |-> what, id |-> id, arg |-> arg]
To(s, r) == [to |-> s, req |-> r]

(* last_seen_txid: the last transaction of a list. *)
LastSeen(b) == <<b.req.id, IF b.req.arg = <<>> THEN 1 ELSE b.req.arg[2] + 1>>

------------------------------------------------------------------------------
(* What each page requests.                                                *)

(* dashboard_screen_requests and Dashboard *)
HomeRequests == {To(s, Get(s, NoId)): s \in HomeSlots}

(* Mutant of BlockAndTxs: the page is asked for first, so that the first
   transactions replace it.                                                 *)
PageFirst(hash, start) ==
    (IF start \in Aligned THEN <<To("txs", GetAt("block/txs", hash, <<start>>))>> ELSE <<>>)
    \o <<To("block", Get("block", hash)), To("txs", Get("block/txs", hash)),
         To("txids", Get("block/txids", hash))>>

(* block_and_txs: the page of transactions is asked for last. *)
BlockAndTxs(hash, start) ==
    LET block == To("block", Get("block", hash))
        first == To("txs", Get("block/txs", hash))
        txids == To("txids", Get("block/txids", hash))
    IN IF start \in Aligned
       THEN <<block, first, txids, To("txs", GetAt("block/txs", hash, <<start>>))>>
       ELSE <<block, first, txids>>

(* assemble_block_plan before the height is known *)
BlockPlan(id, start) ==
    IF id \in BlockHeights THEN <<To("height", Get("block-height", id))>> ELSE BlockAndTxs(id, start)

(* transaction_requests, transaction_detail_requests and TransactionPage   *)
TxRequests(id) ==
    {To(s, Get(s, id)): s \in TxSlots \ {"tipheight"}} \cup {To("tipheight", Get("tipheight", NoId))}

(* address_requests: only a script hash also loads its mempool. *)
AddressRequests(id) ==
    {To(s, Get(s, id)): s \in {"stats", "txs", "utxo", "summary"}
                               \cup IF id \in HexIds THEN {"mempool"} ELSE {}}

(* Mutant of AssetRequests: the network is not looked at. *)
AnyNetwork(n, id) == {To(s, Get(s, id)): s \in AssetSlots}

(* asset_requests and liquid_asset_requests *)
AssetRequests(n, id) == IF n = LiquidNet THEN {To(s, Get(s, id)): s \in AssetSlots} ELSE {}

(* registry_list_request, registry_entry_request *)
ListRequests(n) == IF n = LiquidNet THEN {To("list", Get("list", NoId))} ELSE {}
EntryRequests(n, id) == IF n = LiquidNet THEN {To("entry", Get("entry", id))} ELSE {}

(* multi_address_screen_requests, multi_address_txs_post and
   multi_address_summary_post.  A POST has its list as argument.            *)
RowRequests(values) == {Get("stats", v): v \in values}
PostRequests(values) ==
    LET hex == values \cap HexIds
        plain == values \ HexIds
    IN (IF plain = {} THEN {} ELSE {To(s, GetAt(s, NoId, <<plain>>)): s \in {"txs", "summary"}})
       \cup IF hex = {} THEN {}
            ELSE {To(s, GetAt(s, NoId, <<hex>>)): s \in {"scripttxs", "scriptsummary"}}

(* plan_search_on: heights before 64-hex ids, addresses before prefixes.   *)
SearchPlan(text, liquid) ==
    CASE text \in BlockHeights -> {Get("block-height", text)}
      [] text \in HexIds -> {Get(w, text): w \in {"stats", "txs"}
                                           \cup IF liquid THEN {"asset", "asset/txs"} ELSE {}}
      [] text \in Addrs -> {Get("stats", text)}
      [] text \in AddrPrefixes -> {Get("address-prefix", text)}
      [] OTHER -> {}

------------------------------------------------------------------------------
(* The effects.                                                            *)

(* resolved_block_hash: the route's hash, else the height's, else the
   block's own.                                                             *)
BlockHash(p, sl) ==
    CASE p.id \in BlockHashes -> {p.id}
      [] p.id \notin BlockHashes /\ Parses(sl["height"]) ->
            {HashAt[sl["height"].net][sl["height"].req.id]}
      [] p.id \notin BlockHashes /\ ~Parses(sl["height"]) /\ Parses(sl["block"]) -> {sl["block"].req.id}
      [] OTHER -> {}

(* The third effect of BlockPage: header, raw block, a txid by index, and
   the outspends of the transactions on the page.                           *)
BlockExtras(p, sl) ==
    UNION {{To("header", Get("header", h))}
             \cup IF Parses(sl["txs"])
                  THEN {To("batch", GetAt("batch", sl["txs"].req.id, sl["txs"].req.arg))} ELSE {}
           : h \in BlockHash(p, sl)}

(* Its first two: the status of a hash, of the route or of the height.     *)
StatusOf(hash) == {To("status", Get("status", hash))}
RouteStatus(p) == IF p.id \in BlockHashes THEN StatusOf(p.id) ELSE {}
HeightStatus(b) == IF Parses(b) THEN StatusOf(HashAt[b.net][b.req.id]) ELSE {}

(* The effect of TransactionPage: a row for every output of the loaded
   transaction, or for the first output of the route's.                     *)
SpendRows(p, sl) ==
    {To("rows", GetAt("outspend", IF Parses(sl["tx"]) THEN sl["tx"].req.id ELSE p.id, <<i>>))
        : i \in IF Parses(sl["tx"]) THEN {0, 1} ELSE {0}}

(* The second effect of AddressPage: a row for every transaction of the
   summary; one stands for them.                                            *)
StatusRows(b) == IF Parses(b) THEN {To("rows", GetAt("status", b.req.id, b.req.arg))} ELSE {}

(* What a component requests when signal s was set to sl[s]. *)
Woken(p, s, sl) ==
    CASE p.kind \in {"block", "block-height"} /\ s = "height" ->
            HeightStatus(sl["height"]) \cup BlockExtras(p, sl)
      [] p.kind \in {"block", "block-height"} /\ s \in {"block", "txs"} -> BlockExtras(p, sl)
      [] p.kind = "tx" /\ s = "tx" -> SpendRows(p, sl)
      [] p.kind = "address" /\ s = "summary" -> StatusRows(sl["summary"])
      [] OTHER -> {}

(* What it requests for its route: when it is made, and by the effects that
   read the route.  TransactionPage reads the id outside its effect.        *)
Opened(p, sl, n, made) ==
    CASE p.kind = "dashboard" -> IF made THEN HomeRequests ELSE {}
      [] p.kind = "blocks" -> {To("blocks", GetAt("blocks", NoId, <<p.start>>))}
      [] p.kind \in {"block", "block-height"} -> RouteStatus(p) \cup BlockExtras(p, sl)
      [] p.kind = "tx" -> SpendRows(p, sl) \cup IF made THEN TxRequests(p.id) ELSE {}
      [] p.kind = "address" -> AddressRequests(p.id)
      [] p.kind = "wallet" -> IF made THEN PostRequests({p.id})
                                  \cup {To("rows", r): r \in RowRequests({p.id})} ELSE {}
      [] p.kind = "mempool" -> IF made THEN {To(s, Get(s, NoId)): s \in {"mempool", "recent", "txids"}}
                               ELSE {}
      [] p.kind = "asset" -> AssetRequests(n, p.id)
      [] p.kind \in {"assets", "registry"} -> IF made THEN ListRequests(n) ELSE {}
      [] p.kind = "entry" -> EntryRequests(n, p.id)
      [] OTHER -> {}

(* The signals an effect clears before it requests. *)
Cleared(p, sl) ==
    [s \in Slots |-> IF (p.kind = "asset" /\ s \in AssetSlots) \/ (p.kind = "assets" /\ s = "list")
                     THEN Unset ELSE sl[s]]

(* schedule, schedule_bytes, schedule_post and schedule_row read the network
   when the task starts.                                                    *)
Start(reqs, n) == {[to |-> x.to, req |-> x.req, net |-> n]: x \in reqs}

(* load_entered *)
EmptyRows(reqs) == [r \in reqs |-> Unset]

------------------------------------------------------------------------------
Kinds == {"dashboard", "blocks", "block", "block-height", "tx", "address", "wallet", "mempool",
          "asset", "assets", "registry", "entry", "push"}

(* The texts of a route or a search are of different kinds. *)
ASSUME WebAssumption ==
    /\ HashAt \in [Nets -> [BlockHeights -> BlockHashes]]
    /\ NoId \notin BlockHeights \cup HexIds \cup Addrs \cup AddrPrefixes
    /\ BlockHeights \cap (HexIds \cup Addrs \cup AddrPrefixes) = {}
    /\ HexIds \cap (Addrs \cup AddrPrefixes) = {} /\ Addrs \cap AddrPrefixes = {}
    /\ MaxFails \in Nat
    /\ \A t \in Tours : t.clicks \in Nat /\ t.patient \in BOOLEAN

Ids(kind) ==
    CASE kind = "block" -> BlockHashes \cup BlockHeights
      [] kind = "block-height" -> BlockHeights
      [] kind = "tx" -> TxIds
      [] kind \in {"address", "wallet"} -> Addrs \cup ScriptHashes
      [] kind \in {"asset", "entry"} -> Assets
      [] OTHER -> {NoId}

StartsOf(kind) == IF kind = "blocks" THEN BlockHeights \cup {NoId}
                  ELSE IF kind = "block" THEN Starts \cup {NoId} ELSE {NoId}

Quiet == loads = {} /\ \A c \in tasks : c.to = "parts"

(* An act of the user.  calm notes whether it met an idle page. *)
Act ==
    /\ tour.patient => Quiet
    /\ clicks < tour.clicks /\ clicks' = clicks + 1
    /\ UNCHANGED <<tour, fails>>

WebInit ==
    /\ net \in Nets
    /\ tour \in Tours
    /\ page = Page("docs", NoId, NoId)              \* a page without requests
    /\ slot = Empty /\ rows = NoRows
    /\ query = NoId /\ parts = NoRows
    /\ tasks = {} /\ loads = {}
    /\ asked = [page |-> page, net |-> net, values |-> {}] /\ calm = TRUE
    /\ clicks = 0 /\ fails = 0

(* A link or a typed address.  The same route keeps its signals and the tasks
   that will set them; the tasks of another route's signals are dropped with
   them.  The search box stays.                                             *)
Navigate(kind, id, start) ==
    /\ Act
    /\ LET p == Page(kind, id, start)
           made == page.kind # kind
           sl == Cleared(p, IF made THEN Empty ELSE slot)
       IN /\ p # page
          /\ page' = p
          /\ slot' = sl
          /\ rows' = IF ~made THEN rows ELSE IF kind = "wallet" THEN EmptyRows(RowRequests({id})) ELSE NoRows
          /\ tasks' = Start(Opened(p, sl, net, made), net)
                        \cup IF made THEN {c \in tasks: c.to = "parts"} ELSE tasks
          /\ loads' = (IF made THEN {} ELSE loads)
                        \cup IF kind \in {"block", "block-height"}
                             THEN {[id |-> id, start |-> start, todo |-> BlockPlan(id, start), net |-> net]}
                             ELSE {}
          /\ IF made \/ kind \notin {"tx", "wallet"}
             THEN asked' = [page |-> p, net |-> net, values |-> {id}] /\ calm' = Quiet
             ELSE asked' = asked /\ calm' = (calm /\ Quiet)
    /\ UNCHANGED <<net, query, parts>>

(* Switcher: only the pages of assets and of the registry load again.      *)
SwitchNetwork(n) ==
    /\ Act
    /\ n # net /\ net' = n
    /\ LET again == page.kind \in {"asset", "assets", "registry", "entry"} IN
       /\ slot' = Cleared(page, slot)
       /\ tasks' = tasks \cup IF ~again THEN {}
                              ELSE IF page.kind \in {"assets", "registry"} THEN Start(ListRequests(n), n)
                              ELSE Start(Opened(page, slot, n, FALSE), n)
       /\ asked' = IF again THEN [asked EXCEPT !.net = n] ELSE asked
       /\ calm' = (Quiet /\ (again \/ calm))
    /\ UNCHANGED <<page, rows, query, parts, loads>>

(* SearchBox: the plan of the text on the network at the time of the click. *)
Search(text) ==
    /\ Act
    /\ query' = text
    /\ parts' = NoRows
    /\ tasks' = tasks \cup Start({To("parts", r): r \in SearchPlan(text, net = LiquidNet)}, net)
    /\ UNCHANGED <<net, page, slot, rows, loads, asked, calm>>

(* The buttons of the pages: what is requested now. *)
Buttons ==
    CASE page.kind = "address" ->
            {To("mempool", Get("mempool", page.id))}
            \cup (IF Parses(slot["summary"])
                  THEN {To("summary", GetAt("summary", page.id, LastSeen(slot["summary"])))} ELSE {})
            \cup LET seen == IF slot["chain"] = Unset THEN slot["txs"] ELSE slot["chain"] IN
                 IF Parses(seen) THEN {To("chain", GetAt("chain", page.id, LastSeen(seen)))} ELSE {}
      [] page.kind = "asset" /\ net = LiquidNet /\ Parses(slot["chain"]) ->
            {To("chain", GetAt("chain", page.id, LastSeen(slot["chain"])))}
      [] page.kind = "assets" /\ net = LiquidNet -> {To("later", Get("later", NoId))}
      [] page.kind = "registry" /\ net = LiquidNet -> {To("found", Get("found", a)): a \in Assets \cap tour.ids}
      [] page.kind = "mempool" /\ Parses(slot["txids"]) ->
            {To("txids", GetAt("txids", NoId, LastSeen(slot["txids"])))}
      [] page.kind = "push" -> {To("response", Get(w, t)): w \in {"tx", "package"}, t \in TxIds \cap tour.ids}
      [] OTHER -> {}

PressButton ==
    /\ Act
    /\ \E x \in Buttons : tasks' = tasks \cup Start({x}, net)
    /\ calm' = (calm /\ Quiet)
    /\ UNCHANGED <<net, page, slot, rows, query, parts, loads, asked>>

(* MultiAddressPage: Load addresses. *)
LoadAddresses(values) ==
    /\ Act
    /\ page.kind = "wallet"
    /\ rows' = EmptyRows(RowRequests(values))
    /\ slot' = [s \in Slots |-> IF s \in ManySlots THEN Unset ELSE slot[s]]
    /\ tasks' = tasks \cup Start({To("rows", r): r \in RowRequests(values)} \cup PostRequests(values), net)
    /\ asked' = [asked EXCEPT !.values = values, !.net = net]
    /\ calm' = Quiet
    /\ UNCHANGED <<net, page, query, parts, loads>>

------------------------------------------------------------------------------
(* Answers.                                                                *)

Outcome(ok) == (ok \/ fails < MaxFails) /\ fails' = IF ok THEN fails ELSE fails + 1

Body(c, ok) == [net |-> c.net, req |-> c.req, ok |-> ok]

(* schedule_row: the row of the path, or a new one at the end. *)
PutRow(rs, r, b) == [x \in DOMAIN rs \cup {r} |-> IF x = r THEN b ELSE rs[x]]

(* body.set, rows.update: an error is stored as its text. *)
Answer(c, ok) ==
    /\ Outcome(ok)
    /\ LET sl == IF c.to \in Slots THEN [slot EXCEPT ![c.to] = Body(c, ok)] ELSE slot IN
       /\ slot' = sl
       /\ rows' = IF c.to = "rows" THEN PutRow(rows, c.req, Body(c, ok)) ELSE rows
       /\ parts' = IF c.to = "parts" THEN PutRow(parts, c.req, Body(c, ok)) ELSE parts
       /\ tasks' = (tasks \ {c}) \cup Start(Woken(page, c.to, sl), net)
    /\ UNCHANGED <<net, page, query, loads, asked, calm, tour, clicks>>

(* load_block_signed and store_block_response: the answer is stored, and the
   next request of the task goes to the network of that time.  The block of
   a height is loaded only when the height gave a hash.                     *)
AnswerLoad(l, ok) ==
    /\ Outcome(ok)
    /\ LET x == Head(l.todo)
           b == [net |-> l.net, req |-> x.req, ok |-> ok]
           sl == [slot EXCEPT ![x.to] = b]
           rest == IF x.to # "height" THEN Tail(l.todo)
                   ELSE IF ok THEN BlockAndTxs(HashAt[l.net][l.id], l.start) ELSE <<>>
       IN /\ slot' = sl
          /\ loads' = (loads \ {l}) \cup IF rest = <<>> THEN {} ELSE {[l EXCEPT !.todo = rest, !.net = net]}
          /\ tasks' = tasks \cup Start(Woken(page, x.to, sl), net)
    /\ UNCHANGED <<net, page, rows, query, parts, asked, calm, tour, clicks>>

SearchTexts == BlockHeights \cup ScriptHashes \cup Addrs \cup AddrPrefixes

WebNext ==
    \/ \E kind \in tour.pages \cap Kinds : \E id \in Ids(kind) \cap tour.ids, start \in StartsOf(kind) :
            Navigate(kind, id, start)
    \/ \E n \in Nets : SwitchNetwork(n)
    \/ \E text \in SearchTexts \cap tour.ids : "search" \in tour.pages /\ Search(text)
    \/ PressButton
    \/ \E values \in SUBSET ((Addrs \cup ScriptHashes) \cap tour.ids) : LoadAddresses(values)
    \/ \E c \in tasks, ok \in BOOLEAN : Answer(c, ok)
    \/ \E l \in loads, ok \in BOOLEAN : AnswerLoad(l, ok)

WebSpec == WebInit /\ [][WebNext]_webVars

------------------------------------------------------------------------------
Whats == Slots \cup {"block-height", "block/txs", "block/txids", "outspend", "asset/txs",
                     "address-prefix", "package"}
IsBody(b) == b = Unset \/ (b.net \in Nets /\ b.req.what \in Whats /\ b.ok \in BOOLEAN)

(* The types of the state. *)
WebTypeOK ==
    /\ net \in Nets /\ page.kind \in Kinds \cup {"docs"}
    /\ DOMAIN slot = Slots /\ \A s \in Slots : IsBody(slot[s])
    /\ \A r \in DOMAIN rows : IsBody(rows[r])
    /\ \A r \in DOMAIN parts : IsBody(parts[r])
    /\ \A c \in tasks : c.to \in Slots \cup {"rows", "parts"} /\ c.net \in Nets
    /\ \A l \in loads : l.todo # <<>> /\ l.net \in Nets
    /\ calm \in BOOLEAN /\ clicks \in 0..tour.clicks /\ fails \in 0..MaxFails

Answers(s, r) == slot[s] # Unset /\ slot[s].req = r /\ slot[s].net = asked.net

ShowsBlock(hash, start) ==
    /\ Answers("block", Get("block", hash)) /\ Answers("txids", Get("block/txids", hash))
    /\ Answers("txs", GetAt("block/txs", hash, IF start \in Aligned THEN <<start>> ELSE <<>>))
    /\ Answers("status", Get("status", hash))

ShowsHash(p) ==
    ShowsBlock(p.id, p.start) /\ Answers("header", Get("header", p.id))

ShowsHeight(p) ==
    /\ Answers("height", Get("block-height", p.id))
    /\ slot["height"].ok => ShowsBlock(HashAt[asked.net][p.id], p.start)

(* A page that was opened while nothing was under way, and left alone, shows
   in the end what its route names, read from the network selected then: the
   block, the page of its transactions and not its first transactions, the
   address, the asset, the list.  It does so whatever the signals held
   before, and in whatever order the answers came.                          *)
PageIsAsked ==
    (calm /\ Quiet) =>
        LET p == asked.page IN
        CASE p.kind \in {"block", "block-height"} ->
                IF p.id \in BlockHashes THEN ShowsHash(p) ELSE ShowsHeight(p)
          [] p.kind = "address" -> \A s \in {"stats", "txs", "utxo"} : Answers(s, Get(s, p.id))
          [] p.kind = "asset" -> \A s \in {"asset", "txs", "entry", "supply"} :
                IF asked.net = LiquidNet THEN Answers(s, Get(s, p.id)) ELSE slot[s] = Unset
          [] p.kind = "entry" -> asked.net = LiquidNet => Answers("entry", Get("entry", p.id))
          [] p.kind = "blocks" -> Answers("blocks", GetAt("blocks", NoId, <<p.start>>))
          [] p.kind = "wallet" -> rows # NoRows =>
                /\ DOMAIN rows = RowRequests(asked.values)
                /\ \A r \in DOMAIN rows : rows[r] # Unset /\ rows[r].net = asked.net
          [] OTHER -> TRUE

(* Mutant of PaintedParts: every part that was loaded. *)
AllParts == DOMAIN parts

(* search_loaded_markup: the parts that are painted. *)
PaintedParts == {r \in DOMAIN parts: r \in SearchPlan(query, net = LiquidNet)}

(* However fast the user searches again, navigates or switches the network,
   the search box paints no answer to an earlier text, and in the end every
   answer to the last one.                                                  *)
SearchShowsQuery ==
    /\ \A r \in PaintedParts : r.id = query
    /\ (\A c \in tasks : c.to # "parts") => SearchPlan(query, FALSE) \subseteq PaintedParts

(* "Liquid asks for the asset and its transactions. Other networks do not":
   no request for an asset or the registry goes to another network, also when
   the network is switched while a page loads.                              *)
AssetsOfLiquid ==
    \A c \in tasks : (c.req.what \in {"asset", "asset/txs", "list", "later", "found", "entry"})
                        => c.net = LiquidNet

(* The web explorer shows what was asked for: a page opened while nothing  *)
(* was under way, and left alone, shows in the end what its route names,   *)
(* in whatever order the answers came; the search box paints no answer to  *)
(* an earlier text; and no request for an asset goes to another network,   *)
(* also when the network is switched while a page loads.                   *)
PagesShowAsked == WebTypeOK /\ PageIsAsked /\ SearchShowsQuery /\ AssetsOfLiquid

(* "Open a block, a transaction, or an address to read that one object": the
   transaction page shows the transaction of its route.                     *)
TransactionOfRoute ==
    (calm /\ Quiet /\ page.kind = "tx") => slot["tx"] # Unset /\ slot["tx"].req.id = page.id

(* The outspends below a page of transactions are of that page. *)
SpendsOfPage ==
    (calm /\ Quiet /\ page.kind \in {"block", "block-height"} /\ slot["batch"] # Unset
         /\ slot["txs"] # Unset) => slot["batch"].req.arg = slot["txs"].req.arg
=============================================================================
