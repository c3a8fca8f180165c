---------------------------- MODULE NativeScreens ----------------------------
(***************************************************************************)
(* The desktop explorer (frontend/native): ScreenHost, its screens, and    *)
(* the shell that calls it.  A screen keeps what it last painted.  Loads   *)
(* are several reads of the indexer, each of which may fail; what a load   *)
(* leaves behind depends on where it stopped.                              *)
(*                                                                         *)
(* What is painted is abstracted to a tag: the network, the id and the     *)
(* page that were asked for.  An operator on a state u of the host returns *)
(* the set of its outcomes, each a state and whether the call was Ok.      *)
(***************************************************************************)
EXTENDS Naturals, FiniteSets

CONSTANTS
    Networks, Liquid,
    Txids, Hashes, Scripthashes, AssetIds,  \* the four kinds of 64-hex ids
    Heights, Addresses, Prefixes,           \* other text a user types
    Pages, NoPage,                          \* a start index or a cursor
    NoText,
    Blank, Message,                         \* nothing painted; an error or a sentence
    Trips                                   \* bound: screens opened, texts typed, calls made

VARIABLES ui, calls, settled, trip

screensVars == <<ui, calls, settled, trip>>

Hex64 == Txids \cup Hashes \cup Scripthashes \cup AssetIds
Texts == Hex64 \cup Heights \cup Addresses \cup Prefixes
Typed == {"Dashboard", "Block", "Blocks", "Tx", "Address", "MultiAddress", "Broadcast",
          "TestTransactions", "Rbf"}
Loaded == Typed \cup {"Mempool"}
Screens == Loaded \cup {"Popup", "Calculator", "Static"}
Paged == {"Block", "Address", "Mempool"}

ASSUME TripAssumption == Trips \subseteq [screens: SUBSET Screens, texts: SUBSET Texts, calls: Nat]

Tag(u, id, page) == [net |-> u.net, id |-> id, page |-> page]
Ok(u) == [ui |-> u, ok |-> TRUE]
Err(u) == [ui |-> u, ok |-> FALSE]
Kept(u) == [ui |-> u, ok |-> settled]       \* Ok, and no load
Paint(u, s, b, r) == [u EXCEPT !.body[s] = b, !.rows[s] = r]

(* ScreenHost::new *)
NewHost(n) ==
    [screen |-> "Popup", net |-> n,
     query |-> [s \in Typed |-> NoText], page |-> [s \in Paged |-> NoPage],
     typingPage |-> [s \in Paged |-> FALSE],
     hashRoute |-> FALSE,               \* AddressScreen::use_scripthash
     body |-> [s \in Loaded |-> Blank], rows |-> [s \in Loaded |-> Blank],
     tip |-> Blank,                     \* Dashboard::tip_height, tip_hash
     summary |-> Blank,                 \* Dashboard::mempool_backlog
     backlog |-> Blank,                 \* ScreenHost::mempool_backlog
     details |-> Blank, detailsOpen |-> FALSE,
     shown |-> Blank, held |-> Blank, paused |-> FALSE]

ScreensInit ==
    /\ \E n \in Networks : ui = NewHost(n)
    /\ trip \in Trips
    /\ calls = 0
    /\ settled = FALSE

------------------------------------------------------------------------------
(* The loads, one operator per screen.                                     *)

(* Dashboard::load_tip and load: blocks, recent, tip, fees, summary.  The
   tip and the summary are stored before the lines.                         *)
DashboardLoad(u) ==
    LET t == Tag(u, "home", NoPage)
        tipped == [u EXCEPT !.tip = t]
    IN {Err(u), Err(tipped), Err([tipped EXCEPT !.summary = Blank]), Err([tipped EXCEPT !.summary = t]),
        Ok(Paint([tipped EXCEPT !.summary = t, !.backlog = t], "Dashboard", t, t))}

(* BlocksScreen::load: only a height is a start. *)
BlocksLoad(u) ==
    LET t == Tag(u, u.query["Blocks"], NoPage) IN
    {Err(u)} \cup IF u.query["Blocks"] \in Heights \cup {NoText}
                 THEN {Ok(Paint(u, "Blocks", t, t)), Ok(Paint(u, "Blocks", t, Blank))} ELSE {}

\* Mutant: the details stay open while another block loads.
DetailsStayOpen(u) ==
    LET q == u.query["Block"]
        t == Tag(u, q, u.page["Block"])
        cleared == [u EXCEPT !.rows["Block"] = Blank]
    IN IF q = NoText THEN {Err(cleared)}
       ELSE {Err(Paint(cleared, "Block", Message, Blank)), Err(cleared),
             Ok(Paint([cleared EXCEPT !.details = t], "Block", t, t))}

(* BlockScreen::load.  The rows and the details go first; a missing block
   paints a message; a bad body or a failed read of the transactions leaves
   the text of the block before.                                            *)
BlockLoad(u) ==
    LET q == u.query["Block"]
        t == Tag(u, q, u.page["Block"])
        cleared == [u EXCEPT !.rows["Block"] = Blank, !.details = Blank, !.detailsOpen = FALSE]
    IN IF q = NoText THEN {Err(cleared)}
       ELSE {Err(Paint(cleared, "Block", Message, Blank)), Err(cleared), Err([cleared EXCEPT !.details = t]),
             Ok(Paint([cleared EXCEPT !.details = t], "Block", t, t))}
            \cup IF q \in Heights THEN {Err(Paint(cleared, "Block", t, Blank))} ELSE {}

(* TxScreen::load: nothing is stored before every read is done. *)
TxLoad(u) ==
    LET t == Tag(u, u.query["Tx"], NoPage) IN
    IF u.query["Tx"] = NoText THEN {Err(u)} ELSE {Err(u), Ok(Paint(u, "Tx", t, t))}

\* Mutant: the message of a failed load leaves the rows.
MessageKeepsRows(u) ==
    LET t == Tag(u, u.query["Address"], u.page["Address"]) IN
    IF u.query["Address"] = NoText THEN {Err(u)}
    ELSE {Err(u), Err(IF u.hashRoute THEN u ELSE [u EXCEPT !.body["Address"] = Message]),
          Ok(Paint(u, "Address", t, t))}

(* AddressScreen::load: /scripthash/ or /address/ by the flag. *)
AddressLoad(u) ==
    LET t == Tag(u, u.query["Address"], u.page["Address"]) IN
    IF u.query["Address"] = NoText THEN {Err(u)}
    ELSE {Err(u), Err(IF u.hashRoute THEN u ELSE Paint(u, "Address", Message, Blank)),
          Ok(Paint(u, "Address", t, t))}

\* Mutant: a load replaces the rows although paused.
PauseIgnored(u) ==
    LET t == Tag(u, "mempool", u.page["Mempool"]) IN
    {Err(u), Ok(Paint([u EXCEPT !.shown = t], "Mempool", t, t))}

(* MempoolScreen::load: while paused the rows are the ones held. *)
MempoolLoad(u) ==
    LET t == Tag(u, "mempool", u.page["Mempool"])
        seen == IF u.paused THEN u ELSE [u EXCEPT !.shown = t]
    IN {Err(u), Ok(Paint(seen, "Mempool", t, IF u.paused THEN u.held ELSE t))}

(* RbfScreen::load: the text is a socket message. *)
RbfLoad(u) ==
    LET t == Tag(u, u.query["Rbf"], NoPage) IN {Err(u), Ok([u EXCEPT !.body["Rbf"] = t])}

(* MultiAddressScreen::load: every list is built first and stored last.    *)
MultiAddressLoad(u) ==
    LET t == Tag(u, u.query["MultiAddress"], NoPage) IN {Err(u), Ok(Paint(u, "MultiAddress", t, t))}

(* reload_current, the dashboard apart.  The other screens make no call.   *)
ReloadScreen(u) ==
    CASE u.screen = "Blocks" -> BlocksLoad(u)
      [] u.screen = "Block" -> BlockLoad(u)
      [] u.screen = "Tx" -> TxLoad(u)
      [] u.screen = "Address" -> AddressLoad(u)
      [] u.screen = "Mempool" -> MempoolLoad(u)
      [] u.screen = "Rbf" -> RbfLoad(u)
      [] u.screen = "MultiAddress" -> MultiAddressLoad(u)
      [] OTHER -> {Ok(u)}

------------------------------------------------------------------------------
(* Opening a screen on an id.                                              *)

\* Mutant: a missing transaction leaves the one before on the screen.
MissingKeeps(u, id) ==
    LET v == [u EXCEPT !.query["Tx"] = id, !.screen = "Tx"] IN TxLoad(v) \cup {Ok(v)}

(* open_transaction: a "missing" transaction is an empty screen, and Ok.   *)
OpenTransaction(u, id) ==
    LET v == [u EXCEPT !.query["Tx"] = id, !.screen = "Tx"] IN
    TxLoad(v) \cup {Ok(Paint(v, "Tx", Blank, Blank))}

(* open_block, and open_block_page with a page of the same block. *)
OpenBlock(u, id, page) ==
    BlockLoad([u EXCEPT !.query["Block"] = id, !.page["Block"] = page,
                        !.typingPage["Block"] = page # NoPage, !.screen = "Block"])

(* open_address *)
OpenAddress(u, id) ==
    AddressLoad([u EXCEPT !.hashRoute = id \in Hex64, !.query["Address"] = id,
                          !.page["Address"] = NoPage, !.typingPage["Address"] = FALSE,
                          !.screen = "Address"])

(* open_chain_page *)
OpenChainPage(u, page) ==
    IF u.query["Address"] = NoText THEN {Err(u)}
    ELSE AddressLoad([u EXCEPT !.page["Address"] = page, !.typingPage["Address"] = TRUE,
                               !.screen = "Address"])

(* What a search paints on the dashboard: an asset, a list, a sentence.    *)
Found(u, id, r) == Ok(Paint([u EXCEPT !.screen = "Dashboard"], "Dashboard", Tag(u, id, NoPage), r))
Sentence(u) == Ok(Paint([u EXCEPT !.screen = "Dashboard"], "Dashboard", Message, Blank))

(* classify_hex: probes for a transaction, a block, on Liquid an asset, and
   a script hash, in this order; then apply_hex_hit.                        *)
SearchHex(u, id) ==
    {Err(u), Sentence(u)}
    \cup OpenTransaction(u, id) \cup OpenBlock(u, id, NoPage) \cup OpenAddress(u, id)
    \cup IF u.net = Liquid THEN {Found(u, id, Tag(u, id, NoPage)), Found(u, id, Blank)} ELSE {}

(* show_prefix and show_liquid_search *)
ShowPrefix(u, id) == {Err(u), Sentence(u), Found(u, id, Tag(u, id, NoPage))}

(* search_dashboard *)
SearchDashboard(u) ==
    LET id == u.query["Dashboard"] IN
    CASE id \in Heights -> OpenBlock(u, id, NoPage)
      [] id \in Hex64 -> SearchHex(u, id)
      [] id \in Addresses -> OpenAddress(u, id)
      [] OTHER -> ShowPrefix(u, id)

(* reload *)
Reload(u) ==
    IF u.screen # "Dashboard" THEN ReloadScreen(u)
    ELSE IF u.query["Dashboard"] = NoText THEN DashboardLoad(u) ELSE SearchDashboard(u)

(* activate *)
Activate(u, s) ==
    Reload([u EXCEPT !.screen = s, !.query["Dashboard"] = IF s = "Dashboard" THEN NoText ELSE @])

(* MempoolScreen::toggle_pause *)
TogglePause(u) ==
    IF u.paused THEN [u EXCEPT !.paused = FALSE, !.held = Blank]
    ELSE [u EXCEPT !.paused = TRUE, !.held = u.shown]

(* open_row: what a row of the current screen leads to.  Rows of blocks,
   transactions and addresses are on every list; the others name a page.    *)
OpenRow(u) ==
    CASE u.screen = "Mempool" ->
            {Kept(TogglePause(u))} \cup (UNION {OpenTransaction(u, x): x \in Txids})
                \cup (UNION {MempoolLoad([u EXCEPT !.page["Mempool"] = p]): p \in Pages})
      [] u.screen = "Block" ->
            {Kept([u EXCEPT !.detailsOpen = ~@])}
                \cup (UNION {OpenBlock(u, u.query["Block"], p): p \in Pages})
                \cup (UNION {OpenBlock(u, x, NoPage): x \in Hashes})
                \cup (UNION {OpenTransaction(u, x): x \in Txids})
      [] u.screen = "Address" ->
            (UNION {OpenChainPage(u, p): p \in Pages}) \cup (UNION {OpenTransaction(u, x): x \in Txids})
      [] u.screen = "Dashboard" /\ u.net = Liquid ->
            UNION {SearchHex(u, x): x \in AssetIds}
      [] OTHER ->
            (UNION {OpenTransaction(u, x): x \in Txids}) \cup (UNION {OpenBlock(u, x, NoPage): x \in Hashes})
                \cup (UNION {OpenAddress(u, x): x \in Addresses})

(* BroadcastScreen::submit and TestTransactionsScreen::submit: a POST; the
   result is stored only when the call returned.                            *)
Submit(u) ==
    IF u.screen \in {"Broadcast", "TestTransactions"}
    THEN LET t == Tag(u, u.query[u.screen], NoPage) IN {Err(u), Ok(Paint(u, u.screen, t, t))}
    ELSE IF u.screen = "Calculator" THEN {Ok(u)} ELSE {Err(u)}

(* set_query (the Paste button): a new id ends the paging of the old one.  *)
SetQuery(u, text, p) ==
    CASE u.screen = "Block" ->
            [u EXCEPT !.query["Block"] = text, !.page["Block"] = p, !.typingPage["Block"] = p # NoPage]
      [] u.screen = "Address" ->
            [u EXCEPT !.query["Address"] = text, !.page["Address"] = NoPage,
                      !.typingPage["Address"] = FALSE]
      [] OTHER -> [u EXCEPT !.query[u.screen] = text]

(* push_str and backspace: keys edit the id, or the page after a space.    *)
PushStr(u, text, p) ==
    IF u.screen \in Paged /\ u.typingPage[u.screen]
    THEN [u EXCEPT !.page[u.screen] = p, !.typingPage[u.screen] = p # NoPage]
    ELSE [u EXCEPT !.query[u.screen] = text]

------------------------------------------------------------------------------
(* The shell: a click or a key is one call of the host.  settled says that
   the last call was a load that returned Ok, so that no notice is shown.   *)
Call(outcomes) ==
    /\ calls < trip.calls /\ calls' = calls + 1 /\ UNCHANGED trip
    /\ \E o \in outcomes : ui' = o.ui /\ settled' = o.ok

Edit(u) ==
    /\ calls < trip.calls /\ calls' = calls + 1 /\ UNCHANGED trip
    /\ ui' = u /\ settled' = FALSE

(* screen_button *)
ScreenButton == ui.screen # "Popup" /\ \E s \in trip.screens : Call(Activate(ui, s))

(* network_button: select, set_network, reload. *)
NetworkButton == ui.screen # "Popup" /\ \E n \in Networks : Call(Reload([ui EXCEPT !.net = n]))

(* The Load button, and Enter where it reloads. *)
LoadButton == ui.screen # "Popup" /\ Call(Reload(ui))

(* The Submit button, and Enter where it submits. *)
SubmitButton == ui.screen \in {"Broadcast", "TestTransactions", "Calculator"} /\ Call(Submit(ui))

(* The Continue button: Screen::after_continue. *)
ContinueButton == Call(Activate(ui, IF ui.screen = "Popup" THEN "Dashboard" ELSE ui.screen))

(* A click on a painted row. *)
ClickRow == ui.screen \in Loaded /\ ui.rows[ui.screen] # Blank /\ Call(OpenRow(ui))

PasteText ==
    ui.screen \in Typed /\ \E text \in trip.texts, p \in Pages \cup {NoPage} : Edit(SetQuery(ui, text, p))
TypeKeys ==
    ui.screen \in Typed /\ \E text \in trip.texts \cup {NoText}, p \in Pages \cup {NoPage} :
        Edit(PushStr(ui, text, p))

ScreensNext == ScreenButton \/ NetworkButton \/ LoadButton \/ SubmitButton \/ ContinueButton \/ ClickRow
            \/ PasteText \/ TypeKeys

ScreensSpec == ScreensInit /\ [][ScreensNext]_screensVars

------------------------------------------------------------------------------
Tags == [net: Networks, id: Texts \cup {NoText, "home", "mempool"}, page: Pages \cup {NoPage}]

(* The types of the host's state. *)
ScreensTypeOK ==
    /\ trip \in Trips /\ calls \in 0..trip.calls /\ settled \in BOOLEAN
    /\ ui.screen \in Screens /\ ui.net \in Networks
    /\ ui.query \in [Typed -> Texts \cup {NoText}]
    /\ ui.page \in [Paged -> Pages \cup {NoPage}]
    /\ ui.body \in [Loaded -> Tags \cup {Blank, Message}]
    /\ ui.rows \in [Loaded -> Tags \cup {Blank}]
    /\ {ui.tip, ui.summary, ui.backlog, ui.shown, ui.held, ui.details} \subseteq Tags \cup {Blank}

(* What the current screen is asked to show: what is typed on it.  Without a
   text the dashboard is the start page; a click on a row of a Liquid
   dashboard opens an asset and leaves the text.                            *)
Asked ==
    CASE ui.screen = "Mempool" -> {Tag(ui, "mempool", ui.page["Mempool"])}
      [] ui.screen \in Paged \ {"Mempool"} -> {Tag(ui, ui.query[ui.screen], ui.page[ui.screen])}
      [] ui.screen = "Dashboard" ->
            LET typed == ui.query["Dashboard"] IN
            {Tag(ui, id, NoPage) : id \in {IF typed = NoText THEN "home" ELSE typed}
                                             \cup (IF ui.net = Liquid THEN AssetIds ELSE {})}
      [] OTHER -> {Tag(ui, ui.query[ui.screen], NoPage)}

(* A load that ends without a notice painted what was asked for, on the
   network that is selected; the text and the rows a user can click are not
   left over from another id, page or network.  Broadcast results stay.     *)
PaintedIsAsked ==
    (settled /\ ui.screen \in Loaded \ {"Broadcast", "TestTransactions"}) =>
        /\ ui.body[ui.screen] \in Asked \cup {Blank, Message}
        /\ ui.screen = "Mempool" \/ ui.rows[ui.screen] \in Asked \cup {Blank}

(* Rows never outlive the text they were painted with: a click on a row opens
   something of what is on the screen, also after a failed load.            *)
RowsOfBody ==
    \A s \in Loaded \ {"Mempool"} : ui.rows[s] # Blank => ui.rows[s] = ui.body[s]

(* "Rows captured when pause turned on. A later fetch does not replace them":
   whatever is loaded and however pause is toggled, the rows of a paused
   mempool are the ones held.                                               *)
PausedRowsStay == ui.paused => ui.rows["Mempool"] = ui.held

(* The details a toggle adds to a block are those of the block shown.      *)
DetailsOfBlock == ui.detailsOpen => ui.details = ui.body["Block"]

(* The desktop explorer shows what was asked for: a load that ends without *)
(* a notice painted it, on the selected network; rows never outlive the    *)
(* text they were painted with; the details are of the block shown; and    *)
(* the rows of a paused mempool are the ones held.                         *)
ScreensShowAsked ==
    ScreensTypeOK /\ PaintedIsAsked /\ RowsOfBody /\ DetailsOfBlock /\ PausedRowsStay

(* "A 64-hex scripthash uses `/scripthash/` instead of `/address/`": the route
   of the next load of the address screen fits the text in it.              *)
RouteFits == ui.screen = "Address" => (ui.hashRoute <=> ui.query["Address"] \in Hex64)

(* The tip line of a dashboard without a notice is of the selected network. *)
TipIsCurrent == settled /\ ui.screen = "Dashboard" /\ ui.tip # Blank => ui.tip.net = ui.net

(* So are the rows of a paused mempool. *)
HeldIsCurrent ==
    settled /\ ui.screen = "Mempool" /\ ui.rows["Mempool"] # Blank => ui.rows["Mempool"].net = ui.net
=============================================================================
