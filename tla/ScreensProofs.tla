---------------------------- MODULE ScreensProofs ----------------------------
(***************************************************************************)
(* Theorems about the desktop explorer: its screens (NativeScreens), for   *)
(* any networks, ids and pages and any number of calls, and its key        *)
(* (KeyStore), for any number of windows, launches and kills; and about    *)
(* the pages of the web explorer (WebPages), for any tour of a user.       *)
(***************************************************************************)
EXTENDS KeyStore, NativeScreens, WebPages, FiniteSetTheorems, TLAPS

(* The key.                                                                *)
KeyType ==
  /\ file \in [is : {Missing, "empty", "key"}, key : Nat]
  /\ app \in [Apps -> [pc : Starting \cup {"idle", "show"}, key : Nat]]
  /\ launches \in 0..MaxLaunches
  /\ shown \subseteq Nat
  /\ raced \in BOOLEAN

(* One launch at a time is between looking for the file and having a key.  *)
OneStarting ==
  \A a, b \in Apps : app[a].pc \in Starting /\ app[b].pc \in Starting => a = b

(* A launch that creates the file found none, so no npub was shown; one    *)
(* that is about to show a key has the key of the file.                    *)
KeyOfFile ==
  \A a \in Apps :
    /\ app[a].pc = "open" => file.is = Missing
    /\ app[a].pc = "write" => file.is = "empty"
    /\ app[a].pc = "show" => file.is = "key" /\ file.key = app[a].key

KeyInv ==
  /\ KeyType
  /\ ~raced => OneStarting /\ KeyOfFile /\ ShownIsKept

LEMMA KeyInvInit == ASSUME MaxLaunches \in Nat, Init PROVE KeyInv
<1>1. KeyType
  <2>1. launches \in 0..MaxLaunches
    BY DEF Init
  <2>2. Idle \in [pc : Starting \cup {"idle", "show"}, key : Nat]
    BY DEF Idle
  <2>. QED  BY <2>1, <2>2 DEF Init, KeyType
<1>2. OneStarting /\ KeyOfFile /\ ShownIsKept
  BY DEF Init, OneStarting, KeyOfFile, ShownIsKept, Idle, Starting
<1>. QED  BY <1>1, <1>2 DEF KeyInv

LEMMA KeyTypeStep == ASSUME MaxLaunches \in Nat, KeyType, [Next]_vars PROVE KeyType'
<1>. USE DEF KeyType, Starting, Idle
<1>1. ASSUME NEW a \in Apps, Launch(a) PROVE KeyType'
  BY <1>1 DEF Launch
<1>2. ASSUME NEW a \in Apps, Look(a) PROVE KeyType'
  BY <1>2 DEF Look
<1>3. ASSUME NEW a \in Apps, load_keys(a) PROVE KeyType'
  BY <1>3 DEF load_keys
<1>4. ASSUME NEW a \in Apps, Open(a) PROVE KeyType'
  BY <1>4 DEF Open
<1>5. ASSUME NEW a \in Apps, Write(a) PROVE KeyType'
  BY <1>5 DEF Write
<1>6. ASSUME NEW a \in Apps, Show(a) PROVE KeyType'
  BY <1>6 DEF Show
<1>7. ASSUME NEW a \in Apps, KillLaunch(a) PROVE KeyType'
  BY <1>7 DEF KillLaunch
<1>8. CASE UNCHANGED vars
  BY <1>8 DEF vars
<1>. QED  BY <1>1, <1>2, <1>3, <1>4, <1>5, <1>6, <1>7, <1>8 DEF Next

LEMMA KeyInvStep == ASSUME MaxLaunches \in Nat, KeyInv, [Next]_vars PROVE KeyInv'
<1>. SUFFICES ASSUME ~raced'
              PROVE  (OneStarting /\ KeyOfFile /\ ShownIsKept)'
  BY KeyTypeStep DEF KeyInv
<1>. DEFINE Goal == (OneStarting /\ KeyOfFile /\ ShownIsKept)'
<1>1. ASSUME NEW a \in Apps, Launch(a) PROVE Goal
  <2>1. ~raced /\ \A b \in Apps : app[b].pc \notin Starting
    BY <1>1 DEF Launch, KeyInv, KeyType
  <2>. QED  BY <1>1, <2>1 DEF Launch, KeyInv, KeyType, OneStarting, KeyOfFile, ShownIsKept, Starting
<1>2. ASSUME NEW a \in Apps, Look(a) PROVE Goal
  BY <1>2 DEF Look, KeyInv, KeyType, OneStarting, KeyOfFile, ShownIsKept, Starting
<1>3. ASSUME NEW a \in Apps, load_keys(a) PROVE Goal
  BY <1>3 DEF load_keys, KeyInv, KeyType, OneStarting, KeyOfFile, ShownIsKept, Starting, Idle
<1>4. ASSUME NEW a \in Apps, Open(a) PROVE Goal
  BY <1>4 DEF Open, KeyInv, KeyType, OneStarting, KeyOfFile, ShownIsKept, Starting, Missing
<1>5. ASSUME NEW a \in Apps, Write(a) PROVE Goal
  BY <1>5 DEF Write, KeyInv, KeyType, OneStarting, KeyOfFile, ShownIsKept, Starting, Missing
<1>6. ASSUME NEW a \in Apps, Show(a) PROVE Goal
  BY <1>6 DEF Show, KeyInv, KeyType, OneStarting, KeyOfFile, ShownIsKept, Starting, Idle
<1>7. ASSUME NEW a \in Apps, KillLaunch(a) PROVE Goal
  BY <1>7 DEF KillLaunch, KeyInv, KeyType, OneStarting, KeyOfFile, ShownIsKept, Starting, Idle
<1>8. CASE UNCHANGED vars
  BY <1>8 DEF vars, KeyInv, OneStarting, KeyOfFile, ShownIsKept
<1>. QED  BY <1>1, <1>2, <1>3, <1>4, <1>5, <1>6, <1>7, <1>8 DEF Next

(* However many windows are launched one after the other, and wherever     *)
(* load_or_generate is killed, every npub a window has shown is that of    *)
(* the key in the file.                                                    *)
THEOREM ShownKept == ASSUME MaxLaunches \in Nat PROVE Spec => [](TypeOK /\ ShownIsKept)
<1>1. Init => KeyInv
  BY KeyInvInit
<1>2. KeyInv /\ [Next]_vars => KeyInv'
  BY KeyInvStep
<1>3. KeyInv => TypeOK /\ ShownIsKept
  BY DEF KeyInv, KeyType, TypeOK, ShownIsKept
<1>. QED  BY <1>1, <1>2, <1>3, PTL DEF Spec

-----------------------------------------------------------------------------
(* The screens.                                                            *)

Lines == Tags \cup {Blank}

Hosts ==
    [screen: Screens, net: Networks,
     query: [Typed -> Texts \cup {NoText}], page: [Paged -> Pages \cup {NoPage}],
     typingPage: [Paged -> BOOLEAN], hashRoute: BOOLEAN,
     body: [Loaded -> Lines \cup {Message}], rows: [Loaded -> Lines],
     tip: Lines, summary: Lines, backlog: Lines,
     details: Lines, detailsOpen: BOOLEAN,
     shown: Lines, held: Lines, paused: BOOLEAN]

(* What holds of the host also after a failed load: the rows are those of  *)
(* the text, the screen of a replacement has none, a block with rows has   *)
(* its own details, and the mempool shows what it last fetched unpaused.   *)
Sound(u) ==
    /\ u \in Hosts
    /\ \A s \in Loaded \ {"Mempool"} : u.rows[s] # Blank => u.rows[s] = u.body[s]
    /\ u.rows["Rbf"] = Blank
    /\ u.rows["Block"] # Blank \/ u.detailsOpen = TRUE => u.details = u.body["Block"]
    /\ u.rows["Mempool"] = u.shown
    /\ u.paused = TRUE => u.held = u.shown

(* Asked and PaintedIsAsked, of any state of the host.                     *)
AskedOf(u) ==
    CASE u.screen = "Mempool" -> {Tag(u, "mempool", u.page["Mempool"])}
      [] u.screen \in Paged \ {"Mempool"} -> {Tag(u, u.query[u.screen], u.page[u.screen])}
      [] u.screen = "Dashboard" ->
            LET typed == u.query["Dashboard"] IN
            {Tag(u, id, NoPage) : id \in {IF typed = NoText THEN "home" ELSE typed}
                                             \cup (IF u.net = Liquid THEN AssetIds ELSE {})}
      [] OTHER -> {Tag(u, u.query[u.screen], NoPage)}

Shows(u) ==
    u.screen \in Loaded \ {"Broadcast", "TestTransactions"} =>
        /\ u.body[u.screen] \in AskedOf(u) \cup {Blank, Message}
        /\ u.screen = "Mempool" \/ u.rows[u.screen] \in AskedOf(u) \cup {Blank}

Fine(o) == Sound(o.ui) /\ (o.ok = FALSE \/ (o.ok = TRUE /\ Shows(o.ui)))
AllFine(S) == \A o \in S : Fine(o)

LEMMA ErrFine == ASSUME NEW u, Sound(u) PROVE Fine(Err(u))
BY DEF Fine, Err

LEMMA OkFine == ASSUME NEW u, Sound(u), Shows(u) PROVE Fine(Ok(u))
BY DEF Fine, Ok

LEMMA TagType ==
    ASSUME NEW u \in Hosts, NEW id \in Texts \cup {NoText, "home", "mempool"}, NEW p \in Pages \cup {NoPage}
    PROVE  Tag(u, id, p) \in Tags
BY DEF Tag, Tags, Hosts

(* Paint changes the text and the rows of one screen.                      *)
Painted(u, v, s, b, r) ==
    /\ v \in Hosts
    /\ \A x \in Loaded : /\ v.body[x] = IF x = s THEN b ELSE u.body[x]
                         /\ v.rows[x] = IF x = s THEN r ELSE u.rows[x]
    /\ v.screen = u.screen /\ v.net = u.net /\ v.query = u.query /\ v.page = u.page
    /\ v.details = u.details /\ v.detailsOpen = u.detailsOpen
    /\ v.shown = u.shown /\ v.held = u.held /\ v.paused = u.paused

LEMMA PaintFacts ==
    ASSUME NEW u \in Hosts, NEW s \in Loaded, NEW b, b \in Lines \/ b = Message, NEW r \in Lines
    PROVE  Painted(u, Paint(u, s, b, r), s, b, r)
BY DEF Paint, Hosts, Painted
LEMMA PaintSound ==
    ASSUME NEW u, Sound(u), NEW s \in Loaded \ {"Mempool", "Rbf", "Block"},
           NEW b \in Lines \cup {Message}, NEW r \in {b, Blank} \cap Lines
    PROVE  Sound(Paint(u, s, b, r))
<1>. DEFINE v == Paint(u, s, b, r)
<1>1. u \in Hosts
  BY DEF Sound
<1>2. /\ v \in Hosts
      /\ \A x \in Loaded : /\ v.body[x] = IF x = s THEN b ELSE u.body[x]
                           /\ v.rows[x] = IF x = s THEN r ELSE u.rows[x]
      /\ v.details = u.details /\ v.detailsOpen = u.detailsOpen
      /\ v.shown = u.shown /\ v.held = u.held /\ v.paused = u.paused
  BY <1>1, PaintFacts DEF Painted
<1>3. {"Mempool", "Rbf", "Block"} \subseteq Loaded
  BY DEF Loaded, Typed
<1>. HIDE DEF v
<1>4. /\ v.rows["Rbf"] = u.rows["Rbf"] /\ v.rows["Mempool"] = u.rows["Mempool"]
      /\ v.rows["Block"] = u.rows["Block"] /\ v.body["Block"] = u.body["Block"]
  BY <1>2, <1>3
<1>5. \A x \in Loaded \ {"Mempool"} : v.rows[x] # Blank => v.rows[x] = v.body[x]
  BY <1>2 DEF Sound
<1>. QED  BY <1>2, <1>4, <1>5 DEF Sound, v

(* A change of the host that touches none of what Sound relates.           *)
SamePaint(u, v) ==
    /\ v.body = u.body /\ v.rows = u.rows
    /\ v.details = u.details /\ v.detailsOpen = u.detailsOpen
    /\ v.shown = u.shown /\ v.held = u.held /\ v.paused = u.paused

LEMMA Elsewhere ==
    ASSUME NEW u, Sound(u), NEW v \in Hosts, SamePaint(u, v)
    PROVE  Sound(v)
BY DEF Sound, SamePaint

(* The text and the page a screen was last given.                          *)
LEMMA HostFields ==
    ASSUME NEW u \in Hosts
    PROVE  /\ u.screen \in Screens /\ u.net \in Networks
           /\ \A s \in Typed : u.query[s] \in Texts \cup {NoText}
           /\ \A s \in Paged : u.page[s] \in Pages \cup {NoPage}
BY DEF Hosts

LEMMA ScreenNames ==
    /\ "Dashboard" \in Typed /\ "Block" \in Typed /\ "Blocks" \in Typed /\ "Tx" \in Typed
    /\ "Address" \in Typed /\ "MultiAddress" \in Typed /\ "Rbf" \in Typed
    /\ "Broadcast" \in Typed /\ "TestTransactions" \in Typed
    /\ Typed \subseteq Loaded /\ Loaded \subseteq Screens /\ "Mempool" \in Loaded
    /\ "Block" \in Paged /\ "Address" \in Paged /\ "Mempool" \in Paged
BY DEF Typed, Loaded, Screens, Paged

LEMMA DashboardFine ==
    ASSUME NEW u, Sound(u), u.screen = "Dashboard", u.query["Dashboard"] = NoText
    PROVE  AllFine(DashboardLoad(u))
<1>. DEFINE t == Tag(u, "home", NoPage)
            v1 == [u EXCEPT !.tip = t]
            v2 == [v1 EXCEPT !.summary = Blank]
            v3 == [v1 EXCEPT !.summary = t]
            v4 == [v1 EXCEPT !.summary = t, !.backlog = t]
            v5 == Paint(v4, "Dashboard", t, t)
<1>0. DashboardLoad(u) = {Err(u), Err(v1), Err(v2), Err(v3), Ok(v5)}
  BY DEF DashboardLoad
<1>1. u \in Hosts /\ t \in Lines
  BY TagType DEF Sound, Lines
<1>. HIDE DEF t
<1>2. Sound(v1) /\ Sound(v2) /\ Sound(v3)
  <2>1. v1 \in Hosts /\ SamePaint(u, v1)
    BY <1>1 DEF Hosts, SamePaint
  <2>2. v2 \in Hosts /\ SamePaint(u, v2)
    BY <1>1 DEF Hosts, SamePaint, Lines
  <2>3. v3 \in Hosts /\ SamePaint(u, v3)
    BY <1>1 DEF Hosts, SamePaint
  <2>. HIDE DEF v1, v2, v3
  <2>. QED  BY <2>1, <2>2, <2>3, Elsewhere
<1>3. Sound(v4) /\ v4 \in Hosts /\ v4.screen = "Dashboard" /\ v4.query = u.query /\ v4.net = u.net
  BY <1>1, Elsewhere DEF Hosts, SamePaint
<1>. HIDE DEF v4
<1>4. Sound(v5)
  BY <1>1, <1>3, PaintSound, ScreenNames
<1>5. /\ v5.screen = "Dashboard" /\ v5.query = u.query /\ v5.net = u.net
      /\ v5.body["Dashboard"] = t /\ v5.rows["Dashboard"] = t
  BY <1>1, <1>3, PaintFacts, ScreenNames DEF Painted
<1>. HIDE DEF v5
<1>6. t = Tag(v5, "home", NoPage)
  BY <1>5 DEF Tag, t
<1>7. t \in AskedOf(v5)
  BY <1>5, <1>6 DEF AskedOf, Paged
<1>8. Shows(v5)
  BY <1>5, <1>7 DEF Shows
<1>. HIDE DEF v1, v2, v3
<1>. QED  BY <1>0, <1>2, <1>4, <1>8, ErrFine, OkFine DEF AllFine

(* A screen that is not paged and paints what is typed on it.              *)
LEMMA PaintShows ==
    ASSUME NEW u, Sound(u), NEW s \in {"Blocks", "Tx", "MultiAddress", "Address"}, u.screen = s,
           NEW r \in {Tag(u, u.query[s], IF s = "Address" THEN u.page["Address"] ELSE NoPage), Blank}
    PROVE  Fine(Ok(Paint(u, s, Tag(u, u.query[s], IF s = "Address" THEN u.page["Address"] ELSE NoPage), r)))
<1>. DEFINE p == IF s = "Address" THEN u.page["Address"] ELSE NoPage
            t == Tag(u, u.query[s], p)
            v == Paint(u, s, t, r)
<1>1. u \in Hosts /\ s \in Typed /\ s \in Loaded \ {"Mempool", "Rbf", "Block"}
  BY ScreenNames DEF Sound
<1>2. u.query[s] \in Texts \cup {NoText} /\ p \in Pages \cup {NoPage}
  BY <1>1, HostFields, ScreenNames
<1>3. t \in Lines /\ r \in {t, Blank}
  BY <1>1, <1>2, TagType DEF Lines
<1>4. r \in Lines
  BY <1>3 DEF Lines
<1>. HIDE DEF t
<1>5. Sound(v)
  BY <1>1, <1>3, <1>4, PaintSound
<1>6. /\ v.screen = s /\ v.query = u.query /\ v.net = u.net /\ v.page = u.page
      /\ v.body[s] = t /\ v.rows[s] = r
  BY <1>1, <1>3, <1>4, PaintFacts DEF Painted
<1>. HIDE DEF v
<1>7. t = Tag(v, v.query[s], p) /\ (s = "Address" => p = v.page["Address"]) /\ (s # "Address" => p = NoPage)
  BY <1>6 DEF Tag, t
<1>8. t \in AskedOf(v)
  BY <1>6, <1>7 DEF AskedOf, Paged
<1>9. Shows(v)
  BY <1>3, <1>6, <1>8 DEF Shows
<1>. QED  BY <1>5, <1>9, OkFine DEF v, t

LEMMA BlocksFine ==
    ASSUME NEW u, Sound(u), u.screen = "Blocks" PROVE AllFine(BlocksLoad(u))
<1>. DEFINE t == Tag(u, u.query["Blocks"], NoPage)
<1>1. Fine(Ok(Paint(u, "Blocks", t, t))) /\ Fine(Ok(Paint(u, "Blocks", t, Blank)))
  BY PaintShows
<1>2. BlocksLoad(u) \subseteq {Err(u), Ok(Paint(u, "Blocks", t, t)), Ok(Paint(u, "Blocks", t, Blank))}
  BY DEF BlocksLoad
<1>. HIDE DEF t
<1>. QED  BY <1>1, <1>2, ErrFine DEF AllFine

LEMMA TxFine ==
    ASSUME NEW u, Sound(u), u.screen = "Tx" PROVE AllFine(TxLoad(u))
<1>. DEFINE t == Tag(u, u.query["Tx"], NoPage)
<1>1. Fine(Ok(Paint(u, "Tx", t, t)))
  BY PaintShows
<1>2. TxLoad(u) \subseteq {Err(u), Ok(Paint(u, "Tx", t, t))}
  BY DEF TxLoad
<1>. HIDE DEF t
<1>. QED  BY <1>1, <1>2, ErrFine DEF AllFine

LEMMA MultiAddressFine ==
    ASSUME NEW u, Sound(u), u.screen = "MultiAddress" PROVE AllFine(MultiAddressLoad(u))
<1>. DEFINE t == Tag(u, u.query["MultiAddress"], NoPage)
<1>1. Fine(Ok(Paint(u, "MultiAddress", t, t)))
  BY PaintShows
<1>2. MultiAddressLoad(u) \subseteq {Err(u), Ok(Paint(u, "MultiAddress", t, t))}
  BY DEF MultiAddressLoad
<1>. HIDE DEF t
<1>. QED  BY <1>1, <1>2, ErrFine DEF AllFine

LEMMA AddressFine ==
    ASSUME NEW u, Sound(u), u.screen = "Address" PROVE AllFine(AddressLoad(u))
<1>. DEFINE t == Tag(u, u.query["Address"], u.page["Address"])
            w == Paint(u, "Address", Message, Blank)
<1>1. Fine(Ok(Paint(u, "Address", t, t)))
  BY PaintShows
<1>2. AddressLoad(u) \subseteq {Err(u), Err(w), Ok(Paint(u, "Address", t, t))}
  BY DEF AddressLoad
<1>3. Sound(w)
  BY PaintSound, ScreenNames DEF Lines
<1>. HIDE DEF t, w
<1>. QED  BY <1>1, <1>2, <1>3, ErrFine DEF AllFine

(* A block screen with closed details, the text b and the rows r.          *)
Closed(u, v, b, r) ==
    /\ v \in Hosts /\ (r = Blank \/ (r = b /\ v.details = b))
    /\ \A x \in Loaded : /\ v.body[x] = IF x = "Block" THEN b ELSE u.body[x]
                         /\ v.rows[x] = IF x = "Block" THEN r ELSE u.rows[x]
    /\ v.detailsOpen = FALSE /\ v.shown = u.shown /\ v.held = u.held /\ v.paused = u.paused

LEMMA ClosedSound ==
    ASSUME NEW u, Sound(u), NEW v, NEW b, NEW r, Closed(u, v, b, r)
    PROVE  Sound(v)
<1>1. \A x \in Loaded \ {"Mempool"} : v.rows[x] # Blank => v.rows[x] = v.body[x]
  BY DEF Sound, Closed
<1>2. v.rows["Rbf"] = Blank /\ v.rows["Mempool"] = v.shown
  BY ScreenNames DEF Sound, Closed
<1>3. v.rows["Block"] # Blank => v.details = v.body["Block"]
  BY ScreenNames DEF Closed
<1>. QED  BY <1>1, <1>2, <1>3 DEF Sound, Closed

LEMMA BlockFine ==
    ASSUME NEW u, Sound(u), u.screen = "Block" PROVE AllFine(BlockLoad(u))
<1>. DEFINE t == Tag(u, u.query["Block"], u.page["Block"])
            c == [u EXCEPT !.rows["Block"] = Blank, !.details = Blank, !.detailsOpen = FALSE]
            d == [c EXCEPT !.details = t]
            w1 == Paint(c, "Block", Message, Blank)
            w2 == Paint(c, "Block", t, Blank)
            w3 == Paint(d, "Block", t, t)
<1>0. BlockLoad(u) \subseteq {Err(c), Err(w1), Err(w2), Err(d), Ok(w3)}
  BY DEF BlockLoad
<1>1. u \in Hosts /\ "Block" \in Loaded /\ Message \in Lines \cup {Message} /\ Blank \in Lines
  BY ScreenNames DEF Sound, Lines
<1>2. t \in Lines
  BY <1>1, HostFields, TagType, ScreenNames DEF Lines
<1>. HIDE DEF t
<1>3. /\ c \in Hosts /\ c.screen = "Block" /\ c.net = u.net /\ c.query = u.query /\ c.page = u.page
      /\ \A x \in Loaded : c.rows[x] = IF x = "Block" THEN Blank ELSE u.rows[x]
      /\ c.body = u.body /\ c.details = Blank /\ c.detailsOpen = FALSE
      /\ c.shown = u.shown /\ c.held = u.held /\ c.paused = u.paused
  BY <1>1 DEF Hosts
<1>. HIDE DEF c
<1>4. /\ d \in Hosts /\ d.screen = "Block" /\ d.net = u.net /\ d.query = u.query /\ d.page = u.page
      /\ d.rows = c.rows /\ d.body = u.body /\ d.details = t /\ d.detailsOpen = FALSE
      /\ d.shown = u.shown /\ d.held = u.held /\ d.paused = u.paused
  BY <1>2, <1>3 DEF Hosts
<1>. HIDE DEF d
<1>5. Closed(u, c, u.body["Block"], Blank) /\ Closed(u, d, u.body["Block"], Blank)
  BY <1>3, <1>4 DEF Closed
<1>6. Sound(c) /\ Sound(d)
  BY <1>5, ClosedSound
<1>7. Painted(c, w1, "Block", Message, Blank) /\ Painted(c, w2, "Block", t, Blank) /\ Painted(d, w3, "Block", t, t)
  BY <1>1, <1>2, <1>3, <1>4, PaintFacts
<1>. HIDE DEF w1, w2, w3
<1>8. Closed(u, w1, Message, Blank) /\ Closed(u, w2, t, Blank)
  BY <1>3, <1>7 DEF Closed, Painted
<1>9. w3.details = t /\ w3.screen = "Block" /\ w3.net = u.net /\ w3.query = u.query /\ w3.page = u.page
  BY <1>4, <1>7 DEF Painted
<1>12. Closed(u, w3, t, t)
  BY <1>3, <1>4, <1>7, <1>9 DEF Closed, Painted
<1>10. Sound(w1) /\ Sound(w2) /\ Sound(w3)
  BY <1>8, <1>12, ClosedSound
<1>11. Shows(w3)
  <2>1. t = Tag(w3, w3.query["Block"], w3.page["Block"])
    BY <1>9 DEF Tag, t
  <2>2. t \in AskedOf(w3)
    BY <1>9, <2>1 DEF AskedOf, Paged
  <2>. QED  BY <1>1, <1>9, <1>12, <2>2 DEF Shows, Closed
<1>. QED  BY <1>0, <1>6, <1>10, <1>11, ErrFine, OkFine DEF AllFine

LEMMA MempoolFine ==
    ASSUME NEW u, Sound(u), u.screen = "Mempool" PROVE AllFine(MempoolLoad(u))
<1>. DEFINE t == Tag(u, "mempool", u.page["Mempool"])
            c == IF u.paused THEN u ELSE [u EXCEPT !.shown = t]
            r == IF u.paused THEN u.held ELSE t
            w == Paint(c, "Mempool", t, r)
<1>0. MempoolLoad(u) = {Err(u), Ok(w)}
  BY DEF MempoolLoad
<1>1. u \in Hosts /\ u.paused \in BOOLEAN /\ u.held \in Lines /\ "Mempool" \in Loaded
  BY ScreenNames DEF Sound, Hosts
<1>2. t \in Lines
  BY <1>1, HostFields, TagType, ScreenNames DEF Lines
<1>. HIDE DEF t
<1>3. /\ c \in Hosts /\ c.screen = "Mempool" /\ c.net = u.net /\ c.query = u.query /\ c.page = u.page
      /\ c.rows = u.rows /\ c.body = u.body /\ c.details = u.details /\ c.detailsOpen = u.detailsOpen
      /\ c.held = u.held /\ c.paused = u.paused /\ c.shown = r /\ r \in Lines
  <2>1. CASE u.paused = TRUE
    BY <1>1, <2>1 DEF Sound
  <2>2. CASE u.paused = FALSE
    BY <1>1, <1>2, <2>2 DEF Hosts
  <2>. QED  BY <1>1, <2>1, <2>2
<1>4. u.paused = TRUE => r = u.held
  OBVIOUS
<1>. HIDE DEF c, r
<1>8. Painted(c, w, "Mempool", t, r)
  BY <1>1, <1>2, <1>3, PaintFacts
<1>. HIDE DEF w
<1>5. /\ w \in Hosts /\ w.screen = "Mempool" /\ w.net = u.net /\ w.query = u.query /\ w.page = u.page
      /\ \A x \in Loaded : /\ w.body[x] = IF x = "Mempool" THEN t ELSE u.body[x]
                           /\ w.rows[x] = IF x = "Mempool" THEN r ELSE u.rows[x]
      /\ w.details = u.details /\ w.detailsOpen = u.detailsOpen
      /\ w.shown = r /\ w.held = u.held /\ w.paused = u.paused
  BY <1>3, <1>8 DEF Painted
<1>6. Sound(w)
  <2>1. \A x \in Loaded \ {"Mempool"} : w.rows[x] # Blank => w.rows[x] = w.body[x]
    BY <1>5 DEF Sound
  <2>2. w.rows["Rbf"] = Blank /\ w.rows["Mempool"] = w.shown
    BY <1>5, ScreenNames DEF Sound
  <2>3. w.rows["Block"] # Blank \/ w.detailsOpen = TRUE => w.details = w.body["Block"]
    BY <1>5, ScreenNames DEF Sound
  <2>. QED  BY <1>4, <1>5, <2>1, <2>2, <2>3 DEF Sound
<1>7. Shows(w)
  <2>1. t = Tag(w, "mempool", w.page["Mempool"])
    BY <1>5 DEF Tag, t
  <2>3. AskedOf(w) = {Tag(w, "mempool", w.page["Mempool"])}
    BY <1>5 DEF AskedOf
  <2>2. t \in AskedOf(w)
    BY <2>1, <2>3
  <2>. QED  BY <1>1, <1>5, <2>2 DEF Shows
<1>. QED  BY <1>0, <1>6, <1>7, ErrFine, OkFine DEF AllFine

LEMMA RbfFine ==
    ASSUME NEW u, Sound(u), u.screen = "Rbf" PROVE AllFine(RbfLoad(u))
<1>. DEFINE t == Tag(u, u.query["Rbf"], NoPage)
            w == [u EXCEPT !.body["Rbf"] = t]
<1>0. RbfLoad(u) = {Err(u), Ok(w)}
  BY DEF RbfLoad
<1>1. u \in Hosts /\ "Rbf" \in Loaded
  BY ScreenNames DEF Sound
<1>2. t \in Lines
  BY <1>1, HostFields, TagType, ScreenNames DEF Lines
<1>. HIDE DEF t
<1>3. /\ w \in Hosts /\ w.screen = "Rbf" /\ w.net = u.net /\ w.query = u.query
      /\ \A x \in Loaded : w.body[x] = IF x = "Rbf" THEN t ELSE u.body[x]
      /\ w.rows = u.rows /\ w.details = u.details /\ w.detailsOpen = u.detailsOpen
      /\ w.shown = u.shown /\ w.held = u.held /\ w.paused = u.paused
  BY <1>1, <1>2 DEF Hosts
<1>. HIDE DEF w
<1>4. Sound(w)
  <2>1. \A x \in Loaded \ {"Mempool"} : w.rows[x] # Blank => w.rows[x] = w.body[x]
    BY <1>3 DEF Sound
  <2>2. w.rows["Block"] # Blank \/ w.detailsOpen = TRUE => w.details = w.body["Block"]
    BY <1>3, ScreenNames DEF Sound
  <2>. QED  BY <1>3, <2>1, <2>2 DEF Sound
<1>5. Shows(w)
  <2>1. t = Tag(w, w.query["Rbf"], NoPage)
    BY <1>3 DEF Tag, t
  <2>2. t \in AskedOf(w)
    BY <1>3, <2>1 DEF AskedOf, Paged
  <2>3. w.rows["Rbf"] = Blank
    BY <1>4 DEF Sound
  <2>. QED  BY <1>1, <1>3, <2>2, <2>3 DEF Shows
<1>. QED  BY <1>0, <1>4, <1>5, ErrFine, OkFine DEF AllFine

LEMMA ScreenFine ==
    ASSUME NEW u, Sound(u), u.screen # "Dashboard" PROVE AllFine(ReloadScreen(u))
<1>1. u.screen \in Screens
  BY DEF Sound, Hosts
<1>2. CASE u.screen \in {"Broadcast", "TestTransactions", "Popup", "Calculator", "Static"}
  <2>1. ReloadScreen(u) = {Ok(u)}
    BY <1>2 DEF ReloadScreen
  <2>2. Shows(u)
    BY <1>2 DEF Shows, Loaded, Typed
  <2>. QED  BY <2>1, <2>2, OkFine DEF AllFine
<1>3. CASE u.screen = "Blocks"
  BY <1>3, BlocksFine DEF ReloadScreen
<1>4. CASE u.screen = "Block"
  BY <1>4, BlockFine DEF ReloadScreen
<1>5. CASE u.screen = "Tx"
  BY <1>5, TxFine DEF ReloadScreen
<1>6. CASE u.screen = "Address"
  BY <1>6, AddressFine DEF ReloadScreen
<1>7. CASE u.screen = "Mempool"
  BY <1>7, MempoolFine DEF ReloadScreen
<1>8. CASE u.screen = "Rbf"
  BY <1>8, RbfFine DEF ReloadScreen
<1>9. CASE u.screen = "MultiAddress"
  BY <1>9, MultiAddressFine DEF ReloadScreen
<1>. QED  BY <1>1, <1>2, <1>3, <1>4, <1>5, <1>6, <1>7, <1>8, <1>9 DEF Screens, Loaded, Typed

-----------------------------------------------------------------------------
(* Opening a screen.                                                       *)

LEMMA TransactionFine ==
    ASSUME NEW u, Sound(u), NEW id \in Texts PROVE AllFine(OpenTransaction(u, id))
<1>. DEFINE v == [u EXCEPT !.query["Tx"] = id, !.screen = "Tx"]
            w == Paint(v, "Tx", Blank, Blank)
<1>0. OpenTransaction(u, id) = TxLoad(v) \cup {Ok(w)}
  BY DEF OpenTransaction
<1>1. v \in Hosts /\ SamePaint(u, v) /\ v.screen = "Tx"
  BY ScreenNames DEF Sound, Hosts, SamePaint
<1>. HIDE DEF v
<1>2. Sound(v) /\ AllFine(TxLoad(v))
  BY <1>1, Elsewhere, TxFine
<1>3. "Tx" \in Loaded \ {"Mempool", "Rbf", "Block"} /\ Blank \in Lines /\ Blank \in Lines \cup {Message}
  BY ScreenNames DEF Lines
<1>4. Sound(w) /\ Painted(v, w, "Tx", Blank, Blank)
  BY <1>1, <1>2, <1>3, PaintSound, PaintFacts
<1>. HIDE DEF w
<1>5. Shows(w)
  BY <1>1, <1>3, <1>4 DEF Shows, Painted
<1>. QED  BY <1>0, <1>2, <1>4, <1>5, OkFine DEF AllFine

LEMMA OpenBlockFine ==
    ASSUME NEW u, Sound(u), NEW id \in Texts \cup {NoText}, NEW p \in Pages \cup {NoPage}
    PROVE  AllFine(OpenBlock(u, id, p))
<1>. DEFINE v == [u EXCEPT !.query["Block"] = id, !.page["Block"] = p,
                           !.typingPage["Block"] = p # NoPage, !.screen = "Block"]
<1>0. OpenBlock(u, id, p) = BlockLoad(v)
  BY DEF OpenBlock
<1>1. v \in Hosts /\ SamePaint(u, v) /\ v.screen = "Block"
  BY ScreenNames DEF Sound, Hosts, SamePaint
<1>. HIDE DEF v
<1>. QED  BY <1>0, <1>1, Elsewhere, BlockFine

LEMMA OpenAddressFine ==
    ASSUME NEW u, Sound(u), NEW id \in Texts PROVE AllFine(OpenAddress(u, id))
<1>. DEFINE h == id \in Hex64
            v == [u EXCEPT !.hashRoute = h, !.query["Address"] = id,
                           !.page["Address"] = NoPage, !.typingPage["Address"] = FALSE,
                           !.screen = "Address"]
<1>0. OpenAddress(u, id) = AddressLoad(v)
  BY DEF OpenAddress
<1>2. h \in BOOLEAN /\ NoPage \in Pages \cup {NoPage} /\ id \in Texts \cup {NoText}
  OBVIOUS
<1>. HIDE DEF h
<1>1. v \in Hosts /\ SamePaint(u, v) /\ v.screen = "Address"
  BY <1>2, ScreenNames DEF Sound, Hosts, SamePaint
<1>. HIDE DEF v
<1>. QED  BY <1>0, <1>1, Elsewhere, AddressFine

LEMMA ChainPageFine ==
    ASSUME NEW u, Sound(u), NEW p \in Pages PROVE AllFine(OpenChainPage(u, p))
<1>. DEFINE v == [u EXCEPT !.page["Address"] = p, !.typingPage["Address"] = TRUE, !.screen = "Address"]
<1>0. OpenChainPage(u, p) = IF u.query["Address"] = NoText THEN {Err(u)} ELSE AddressLoad(v)
  BY DEF OpenChainPage
<1>1. v \in Hosts /\ SamePaint(u, v) /\ v.screen = "Address"
  BY ScreenNames DEF Sound, Hosts, SamePaint
<1>. HIDE DEF v
<1>. QED  BY <1>0, <1>1, Elsewhere, AddressFine, ErrFine DEF AllFine

(* What a dashboard may paint for id: the text typed on it, or on Liquid   *)
(* an asset.                                                               *)
Sought(u, id) == (id = u.query["Dashboard"] /\ id # NoText) \/ (u.net = Liquid /\ id \in AssetIds)

LEMMA FoundFine ==
    ASSUME NEW u, Sound(u), NEW id \in Texts, Sought(u, id), NEW r \in {Tag(u, id, NoPage), Blank}
    PROVE  Fine(Found(u, id, r)) /\ Fine(Sentence(u))
<1>. DEFINE v == [u EXCEPT !.screen = "Dashboard"]
            t == Tag(u, id, NoPage)
            w == Paint(v, "Dashboard", t, r)
            x == Paint(v, "Dashboard", Message, Blank)
<1>0. Found(u, id, r) = Ok(w) /\ Sentence(u) = Ok(x)
  BY DEF Found, Sentence
<1>1. /\ v \in Hosts /\ SamePaint(u, v) /\ v.screen = "Dashboard" /\ v.net = u.net /\ v.query = u.query
      /\ u \in Hosts
  BY ScreenNames DEF Sound, Hosts, SamePaint
<1>. HIDE DEF v
<1>2. Sound(v)
  BY <1>1, Elsewhere
<1>3. t \in Lines /\ r \in {t, Blank}
  BY <1>1, TagType DEF Lines
<1>. HIDE DEF t
<1>4. "Dashboard" \in Loaded \ {"Mempool", "Rbf", "Block"} /\ Blank \in Lines /\ r \in Lines
  BY <1>3, ScreenNames DEF Lines
<1>11. t \in Lines \cup {Message} /\ r \in {t, Blank} \cap Lines /\ Message \in Lines \cup {Message}
       /\ Blank \in {Message, Blank} \cap Lines
  BY <1>3, <1>4
<1>12. Sound(w) /\ Sound(x)
  BY <1>2, <1>4, <1>11, PaintSound
<1>5. Sound(w) /\ Painted(v, w, "Dashboard", t, r) /\ Sound(x) /\ Painted(v, x, "Dashboard", Message, Blank)
  BY <1>1, <1>3, <1>4, <1>12, PaintFacts
<1>. HIDE DEF w, x
<1>6. Shows(x)
  BY <1>1, <1>4, <1>5 DEF Shows, Painted
<1>7. /\ w.screen = "Dashboard" /\ w.net = u.net /\ w.query = u.query
      /\ w.body["Dashboard"] = t /\ w.rows["Dashboard"] = r
  BY <1>1, <1>4, <1>5 DEF Painted
<1>8. t \in AskedOf(w)
  <2>1. t = Tag(w, id, NoPage)
    BY <1>7 DEF Tag, t
  <2>. DEFINE ids == {IF u.query["Dashboard"] = NoText THEN "home" ELSE u.query["Dashboard"]}
                        \cup (IF u.net = Liquid THEN AssetIds ELSE {})
  <2>2. AskedOf(w) = {Tag(w, i, NoPage) : i \in ids}
    BY <1>7 DEF AskedOf, Paged
  <2>3. id \in ids
    BY DEF Sought
  <2>. HIDE DEF ids
  <2>. QED  BY <2>1, <2>2, <2>3
<1>9. Shows(w)
  BY <1>3, <1>7, <1>8 DEF Shows
<1>. QED  BY <1>0, <1>5, <1>6, <1>9, OkFine

LEMMA HexFine ==
    ASSUME NEW u, Sound(u), NEW id \in Hex64, Sought(u, id) PROVE AllFine(SearchHex(u, id))
<1>. DEFINE t == Tag(u, id, NoPage)
            S == IF u.net = Liquid THEN {Found(u, id, t), Found(u, id, Blank)} ELSE {}
<1>1. SearchHex(u, id) = {Err(u), Sentence(u)} \cup OpenTransaction(u, id) \cup OpenBlock(u, id, NoPage)
                            \cup OpenAddress(u, id) \cup S
  BY DEF SearchHex
<1>2. id \in Texts
  BY DEF Texts
<1>3. Fine(Found(u, id, t)) /\ Fine(Found(u, id, Blank)) /\ Fine(Sentence(u))
  BY <1>2, FoundFine
<1>4. AllFine(OpenTransaction(u, id)) /\ AllFine(OpenBlock(u, id, NoPage)) /\ AllFine(OpenAddress(u, id))
  BY <1>2, TransactionFine, OpenBlockFine, OpenAddressFine
<1>5. AllFine(S)
  BY <1>3 DEF AllFine
<1>. HIDE DEF S
<1>. QED  BY <1>1, <1>3, <1>4, <1>5, ErrFine DEF AllFine

LEMMA SearchFine ==
    ASSUME NEW u, Sound(u), u.query["Dashboard"] # NoText PROVE AllFine(SearchDashboard(u))
<1>. DEFINE id == u.query["Dashboard"]
<1>1. id \in Texts /\ Sought(u, id)
  BY HostFields, ScreenNames DEF Sound, Sought
<1>2. AllFine(ShowPrefix(u, id))
  <2>1. ShowPrefix(u, id) = {Err(u), Sentence(u), Found(u, id, Tag(u, id, NoPage))}
    BY DEF ShowPrefix
  <2>2. Fine(Sentence(u)) /\ Fine(Found(u, id, Tag(u, id, NoPage)))
    BY <1>1, FoundFine
  <2>. QED  BY <2>1, <2>2, ErrFine DEF AllFine
<1>3. AllFine(OpenBlock(u, id, NoPage)) /\ AllFine(OpenAddress(u, id)) /\ (id \in Hex64 => AllFine(SearchHex(u, id)))
  BY <1>1, OpenBlockFine, OpenAddressFine, HexFine
<1>4. SearchDashboard(u) = CASE id \in Heights -> OpenBlock(u, id, NoPage)
                             [] id \in Hex64 -> SearchHex(u, id)
                             [] id \in Addresses -> OpenAddress(u, id)
                             [] OTHER -> ShowPrefix(u, id)
  BY DEF SearchDashboard
<1>. HIDE DEF id
<1>. QED  BY <1>2, <1>3, <1>4

LEMMA ReloadFine == ASSUME NEW u, Sound(u) PROVE AllFine(Reload(u))
BY ScreenFine, DashboardFine, SearchFine DEF Reload

LEMMA ActivateFine ==
    ASSUME NEW u, Sound(u), NEW s \in Screens PROVE AllFine(Activate(u, s))
<1>. DEFINE q == IF s = "Dashboard" THEN NoText ELSE u.query["Dashboard"]
            v == [u EXCEPT !.screen = s, !.query["Dashboard"] = q]
<1>0. Activate(u, s) = Reload(v)
  BY DEF Activate
<1>1. u \in Hosts /\ q \in Texts \cup {NoText}
  BY HostFields, ScreenNames DEF Sound
<1>. HIDE DEF q
<1>2. v \in Hosts /\ SamePaint(u, v)
  BY <1>1, ScreenNames DEF Hosts, SamePaint
<1>. HIDE DEF v
<1>. QED  BY <1>0, <1>2, Elsewhere, ReloadFine
(* A call that loads nothing keeps the notice of the call before it.       *)
LEMMA KeptFine ==
    ASSUME NEW u, NEW v, Sound(v), settled \in BOOLEAN, settled = TRUE => Shows(u), Shows(u) => Shows(v)
    PROVE  Fine(Kept(v))
BY DEF Fine, Kept

LEMMA PauseFine ==
    ASSUME NEW u, Sound(u), settled \in BOOLEAN, settled = TRUE => Shows(u)
    PROVE  Fine(Kept(TogglePause(u)))
<1>. DEFINE v == TogglePause(u)
<1>1. u \in Hosts /\ u.paused \in BOOLEAN /\ u.shown \in Lines /\ Blank \in Lines
  BY DEF Sound, Hosts, Lines
<1>2. /\ v \in Hosts /\ v.screen = u.screen /\ v.net = u.net /\ v.query = u.query /\ v.page = u.page
      /\ v.body = u.body /\ v.rows = u.rows /\ v.details = u.details /\ v.detailsOpen = u.detailsOpen
      /\ v.shown = u.shown /\ (v.paused = TRUE => v.held = v.shown)
  <2>1. CASE u.paused = TRUE
    BY <1>1, <2>1 DEF TogglePause, Hosts
  <2>2. CASE u.paused = FALSE
    BY <1>1, <2>2 DEF TogglePause, Hosts
  <2>. QED  BY <1>1, <2>1, <2>2
<1>. HIDE DEF v
<1>3. Sound(v)
  BY <1>2 DEF Sound
<1>4. AskedOf(v) = AskedOf(u)
  BY <1>2 DEF AskedOf, Tag
<1>5. Shows(u) => Shows(v)
  BY <1>2, <1>4 DEF Shows
<1>. QED  BY <1>3, <1>5, KeptFine DEF v

LEMMA DetailsFine ==
    ASSUME NEW u, Sound(u), u.rows["Block"] # Blank, settled \in BOOLEAN, settled = TRUE => Shows(u)
    PROVE  Fine(Kept([u EXCEPT !.detailsOpen = ~@]))
<1>. DEFINE v == [u EXCEPT !.detailsOpen = ~@]
<1>1. u \in Hosts /\ (~u.detailsOpen) \in BOOLEAN
  BY DEF Sound, Hosts
<1>2. /\ v \in Hosts /\ v.screen = u.screen /\ v.net = u.net /\ v.query = u.query /\ v.page = u.page
      /\ v.body = u.body /\ v.rows = u.rows /\ v.details = u.details
      /\ v.shown = u.shown /\ v.held = u.held /\ v.paused = u.paused
  BY <1>1 DEF Hosts
<1>. HIDE DEF v
<1>3. Sound(v)
  BY <1>2 DEF Sound
<1>4. AskedOf(v) = AskedOf(u)
  BY <1>2 DEF AskedOf, Tag
<1>5. Shows(u) => Shows(v)
  BY <1>2, <1>4 DEF Shows
<1>. QED  BY <1>3, <1>5, KeptFine DEF v

LEMMA PageOfMempoolFine ==
    ASSUME NEW u, Sound(u), u.screen = "Mempool", NEW p \in Pages
    PROVE  AllFine(MempoolLoad([u EXCEPT !.page["Mempool"] = p]))
<1>. DEFINE v == [u EXCEPT !.page["Mempool"] = p]
<1>1. v \in Hosts /\ SamePaint(u, v) /\ v.screen = "Mempool"
  BY ScreenNames DEF Sound, Hosts, SamePaint
<1>. HIDE DEF v
<1>2. AllFine(MempoolLoad(v))
  BY <1>1, Elsewhere, MempoolFine
<1>. QED  BY <1>2 DEF v

LEMMA RowFine ==
    ASSUME NEW u, Sound(u), u.rows[u.screen] # Blank, settled \in BOOLEAN, settled = TRUE => Shows(u)
    PROVE  AllFine(OpenRow(u))
<1>. DEFINE Toggle == Kept([u EXCEPT !.detailsOpen = ~@])
            Txs == UNION {OpenTransaction(u, x): x \in Txids}
            Blocks == UNION {OpenBlock(u, x, NoPage): x \in Hashes}
            AddrRows == UNION {OpenAddress(u, x): x \in Addresses}
            AssetRows == UNION {SearchHex(u, x): x \in AssetIds}
            MemPages == UNION {MempoolLoad([u EXCEPT !.page["Mempool"] = p]): p \in Pages}
            BlockTurns == UNION {OpenBlock(u, u.query["Block"], p): p \in Pages}
            ChainPages == UNION {OpenChainPage(u, p): p \in Pages}
<1>0. OpenRow(u) = CASE u.screen = "Mempool" -> {Kept(TogglePause(u))} \cup Txs \cup MemPages
                     [] u.screen = "Block" -> {Toggle} \cup BlockTurns \cup Blocks \cup Txs
                     [] u.screen = "Address" -> ChainPages \cup Txs
                     [] u.screen = "Dashboard" /\ u.net = Liquid -> AssetRows
                     [] OTHER -> Txs \cup Blocks \cup AddrRows
  BY DEF OpenRow
<1>1. Txids \subseteq Texts /\ Hashes \subseteq Texts /\ Addresses \subseteq Texts /\ AssetIds \subseteq Hex64
  BY DEF Texts, Hex64
<1>2. AllFine(Txs) /\ AllFine(Blocks) /\ AllFine(AddrRows)
  <2>1. AllFine(Txs)
    BY <1>1, TransactionFine DEF AllFine
  <2>2. AllFine(Blocks)
    BY <1>1, OpenBlockFine DEF AllFine
  <2>3. AllFine(AddrRows)
    BY <1>1, OpenAddressFine DEF AllFine
  <2>. QED  BY <2>1, <2>2, <2>3
<1>3. u.screen = "Mempool" => AllFine(MemPages)
  BY PageOfMempoolFine DEF AllFine
<1>4. AllFine(BlockTurns)
  <2>1. u.query["Block"] \in Texts \cup {NoText}
    BY HostFields, ScreenNames DEF Sound
  <2>. QED  BY <2>1, OpenBlockFine DEF AllFine
<1>5. AllFine(ChainPages)
  BY ChainPageFine DEF AllFine
<1>6. u.net = Liquid => AllFine(AssetRows)
  <2>. SUFFICES ASSUME u.net = Liquid PROVE AllFine(AssetRows)
    OBVIOUS
  <2>1. \A x \in AssetIds : x \in Hex64 /\ Sought(u, x)
    BY <1>1 DEF Sought
  <2>2. \A x \in AssetIds : AllFine(SearchHex(u, x))
    BY <2>1, HexFine
  <2>. QED  BY <2>2 DEF AllFine
<1>7. Fine(Kept(TogglePause(u))) /\ (u.screen = "Block" => Fine(Toggle))
  BY PauseFine, DetailsFine
<1>. HIDE DEF Toggle, Txs, Blocks, AddrRows, AssetRows, MemPages, BlockTurns, ChainPages
<1>8. CASE u.screen = "Mempool"
  <2>1. OpenRow(u) = {Kept(TogglePause(u))} \cup Txs \cup MemPages
    BY <1>0, <1>8
  <2>. QED  BY <1>2, <1>3, <1>7, <1>8, <2>1 DEF AllFine
<1>9. CASE u.screen = "Block"
  <2>1. OpenRow(u) = {Toggle} \cup BlockTurns \cup Blocks \cup Txs
    BY <1>0, <1>9
  <2>. QED  BY <1>2, <1>4, <1>7, <1>9, <2>1 DEF AllFine
<1>10. CASE u.screen = "Address"
  <2>1. OpenRow(u) = ChainPages \cup Txs
    BY <1>0, <1>10
  <2>. QED  BY <1>2, <1>5, <2>1 DEF AllFine
<1>11. CASE u.screen = "Dashboard" /\ u.net = Liquid
  BY <1>0, <1>6, <1>11
<1>12. CASE u.screen \notin {"Mempool", "Block", "Address"} /\ ~(u.screen = "Dashboard" /\ u.net = Liquid)
  <2>1. OpenRow(u) = Txs \cup Blocks \cup AddrRows
    BY <1>0, <1>12
  <2>. QED  BY <1>2, <2>1 DEF AllFine
<1>. QED  BY <1>8, <1>9, <1>10, <1>11, <1>12

LEMMA SubmitFine ==
    ASSUME NEW u, Sound(u), u.screen \in {"Broadcast", "TestTransactions", "Calculator"}
    PROVE  AllFine(Submit(u))
<1>1. \A v : v.screen = u.screen => Shows(v)
  BY DEF Shows, Loaded, Typed
<1>2. CASE u.screen = "Calculator"
  BY <1>1, <1>2, OkFine DEF Submit, AllFine
<1>3. CASE u.screen \in {"Broadcast", "TestTransactions"}
  <2>. DEFINE t == Tag(u, u.query[u.screen], NoPage)
              w == Paint(u, u.screen, t, t)
  <2>1. Submit(u) = {Err(u), Ok(w)}
    BY <1>3 DEF Submit
  <2>2. u \in Hosts /\ u.screen \in Typed /\ u.screen \in Loaded \ {"Mempool", "Rbf", "Block"}
    BY <1>3, ScreenNames DEF Sound
  <2>3. t \in Lines
    BY <2>2, HostFields, TagType DEF Lines
  <2>. HIDE DEF t
  <2>4. t \in Lines \cup {Message} /\ t \in {t, Blank} \cap Lines
    BY <2>3
  <2>5. Sound(w)
    BY <2>2, <2>4, PaintSound
  <2>6. w.screen = u.screen
    BY <2>2, <2>3, PaintFacts DEF Painted
  <2>. HIDE DEF w
  <2>. QED  BY <1>1, <2>1, <2>5, <2>6, OkFine, ErrFine DEF AllFine
<1>. QED  BY <1>2, <1>3

-----------------------------------------------------------------------------
(* The shell.                                                              *)

LEMMA SetQueryFine ==
    ASSUME NEW u, Sound(u), u.screen \in Typed, NEW text \in Texts, NEW p \in Pages \cup {NoPage}
    PROVE  Sound(SetQuery(u, text, p))
<1>. DEFINE v == SetQuery(u, text, p)
            k == p # NoPage
<1>1. u \in Hosts /\ text \in Texts \cup {NoText} /\ NoPage \in Pages \cup {NoPage}
  BY DEF Sound
<1>2. v \in Hosts /\ SamePaint(u, v)
  <2>1. CASE u.screen = "Block"
    <3>1. v = [u EXCEPT !.query["Block"] = text, !.page["Block"] = p, !.typingPage["Block"] = k]
      BY <2>1 DEF SetQuery
    <3>2. k \in BOOLEAN
      OBVIOUS
    <3>. HIDE DEF v, k
    <3>. QED  BY <1>1, <3>1, <3>2, ScreenNames DEF Hosts, SamePaint
  <2>2. CASE u.screen = "Address"
    <3>1. v = [u EXCEPT !.query["Address"] = text, !.page["Address"] = NoPage, !.typingPage["Address"] = FALSE]
      BY <2>2 DEF SetQuery
    <3>. HIDE DEF v
    <3>. QED  BY <1>1, <3>1, ScreenNames DEF Hosts, SamePaint
  <2>3. CASE u.screen \notin {"Block", "Address"}
    <3>1. v = [u EXCEPT !.query[u.screen] = text]
      BY <2>3 DEF SetQuery
    <3>. HIDE DEF v
    <3>. QED  BY <1>1, <3>1 DEF Hosts, SamePaint
  <2>. QED  BY <2>1, <2>2, <2>3
<1>. HIDE DEF v
<1>3. Sound(v)
  BY <1>2, Elsewhere
<1>. QED  BY <1>3 DEF v

LEMMA PushStrFine ==
    ASSUME NEW u, Sound(u), u.screen \in Typed, NEW text \in Texts \cup {NoText}, NEW p \in Pages \cup {NoPage}
    PROVE  Sound(PushStr(u, text, p))
<1>. DEFINE v == PushStr(u, text, p)
            k == p # NoPage
            v1 == [u EXCEPT !.page[u.screen] = p, !.typingPage[u.screen] = k]
            v2 == [u EXCEPT !.query[u.screen] = text]
<1>1. u \in Hosts /\ k \in BOOLEAN
  BY DEF Sound
<1>2. v = IF u.screen \in Paged /\ u.typingPage[u.screen] THEN v1 ELSE v2
  BY DEF PushStr
<1>. HIDE DEF k, v
<1>3. u.screen \in Paged => v1 \in Hosts /\ SamePaint(u, v1)
  BY <1>1 DEF Hosts, SamePaint
<1>4. v2 \in Hosts /\ SamePaint(u, v2)
  BY <1>1 DEF Hosts, SamePaint
<1>. HIDE DEF v1, v2
<1>5. Sound(v)
  BY <1>2, <1>3, <1>4, Elsewhere
<1>. QED  BY <1>5 DEF v

(* The inductive invariant: what the host keeps also through failed loads, *)
(* and what a call that ended without a notice has painted.                *)
ScreensInv ==
    /\ trip \in Trips /\ calls \in 0..trip.calls /\ settled \in BOOLEAN
    /\ Sound(ui)
    /\ settled = TRUE => Shows(ui)

LEMMA ScreensInvInit == ASSUME TripAssumption, ScreensInit PROVE ScreensInv
<1>1. PICK n \in Networks : ui = NewHost(n)
  BY DEF ScreensInit
<1>2. ui \in Hosts
  BY <1>1 DEF NewHost, Hosts, Screens, Lines
<1>3. "Rbf" \in Loaded /\ "Block" \in Loaded /\ "Mempool" \in Loaded
  BY ScreenNames
<1>4. /\ ui.rows = [s \in Loaded |-> Blank] /\ ui.body = [s \in Loaded |-> Blank] /\ ui.details = Blank
      /\ ui.shown = Blank /\ ui.held = Blank
  BY <1>1 DEF NewHost
<1>5. Sound(ui)
  BY <1>2, <1>3, <1>4 DEF Sound
<1>6. trip \in Trips /\ calls \in 0..trip.calls
  BY TripAssumption DEF ScreensInit, TripAssumption
<1>. QED  BY <1>5, <1>6 DEF ScreensInit, ScreensInv

(* Whatever a call's outcomes are, the host keeps the invariant when all   *)
(* of them are fine.                                                       *)
LEMMA CallKeeps ==
    ASSUME TripAssumption, ScreensInv, NEW S, AllFine(S), Call(S)
    PROVE  ScreensInv'
<1>1. PICK o \in S : ui' = o.ui /\ settled' = o.ok
  BY DEF Call
<1>2. Fine(o)
  BY DEF AllFine
<1>3. trip' = trip /\ calls < trip.calls /\ calls' = calls + 1 /\ trip.calls \in Nat
  BY TripAssumption DEF Call, ScreensInv, TripAssumption
<1>4. trip' \in Trips /\ calls' \in 0..trip'.calls
  BY <1>3 DEF ScreensInv
<1>. DEFINE v == o.ui
<1>5. Sound(v) /\ (o.ok = FALSE \/ o.ok = TRUE) /\ (o.ok = TRUE => Shows(v))
  BY <1>2 DEF Fine
<1>6. ui' = v /\ (settled' = FALSE \/ settled' = TRUE)
  BY <1>1, <1>5
<1>7. settled' = TRUE => Shows(v)
  BY <1>1, <1>5
<1>. HIDE DEF v
<1>8. (Sound(ui))'
  BY <1>5, <1>6
<1>9. settled' = TRUE => (Shows(ui))'
  BY <1>6, <1>7
<1>10. settled' \in BOOLEAN
  BY <1>6
<1>. QED  BY <1>4, <1>8, <1>9, <1>10 DEF ScreensInv

LEMMA EditKeeps ==
    ASSUME TripAssumption, ScreensInv, NEW v, Sound(v), Edit(v)
    PROVE  ScreensInv'
<1>1. trip' = trip /\ calls < trip.calls /\ calls' = calls + 1 /\ trip.calls \in Nat
  BY TripAssumption DEF Edit, ScreensInv, TripAssumption
<1>2. trip' \in Trips /\ calls' \in 0..trip'.calls
  BY <1>1 DEF ScreensInv
<1>3. ui' = v /\ settled' = FALSE
  BY DEF Edit
<1>4. (Sound(ui))'
  BY <1>3
<1>. QED  BY <1>2, <1>3, <1>4 DEF ScreensInv

LEMMA ScreensInvStep == ASSUME TripAssumption, ScreensInv, [ScreensNext]_screensVars PROVE ScreensInv'
<1>0. /\ trip \in Trips /\ trip.screens \subseteq Screens /\ trip.texts \subseteq Texts
      /\ settled \in BOOLEAN /\ Sound(ui) /\ (settled = TRUE => Shows(ui)) /\ ui.screen \in Screens /\ ui \in Hosts
  BY TripAssumption DEF ScreensInv, TripAssumption, Sound, Hosts
<1>1. CASE ScreenButton
  <2>1. PICK s \in trip.screens : Call(Activate(ui, s))
    BY <1>1 DEF ScreenButton
  <2>2. AllFine(Activate(ui, s))
    BY <1>0, ActivateFine
  <2>. QED  BY <2>1, <2>2, CallKeeps
<1>2. CASE NetworkButton
  <2>1. PICK n \in Networks : Call(Reload([ui EXCEPT !.net = n]))
    BY <1>2 DEF NetworkButton
  <2>. DEFINE v == [ui EXCEPT !.net = n]
  <2>2. v \in Hosts /\ SamePaint(ui, v)
    BY <1>0 DEF Hosts, SamePaint
  <2>3. Call(Reload(v))
    BY <2>1
  <2>. HIDE DEF v
  <2>4. AllFine(Reload(v))
    BY <1>0, <2>2, Elsewhere, ReloadFine
  <2>. QED  BY <2>3, <2>4, CallKeeps
<1>3. CASE LoadButton
  <2>1. AllFine(Reload(ui)) /\ Call(Reload(ui))
    BY <1>0, <1>3, ReloadFine DEF LoadButton
  <2>. QED  BY <2>1, CallKeeps
<1>4. CASE SubmitButton
  <2>1. AllFine(Submit(ui)) /\ Call(Submit(ui))
    BY <1>0, <1>4, SubmitFine DEF SubmitButton
  <2>. QED  BY <2>1, CallKeeps
<1>5. CASE ContinueButton
  <2>. DEFINE s == IF ui.screen = "Popup" THEN "Dashboard" ELSE ui.screen
  <2>1. s \in Screens /\ Call(Activate(ui, s))
    BY <1>0, <1>5, ScreenNames DEF ContinueButton
  <2>. HIDE DEF s
  <2>2. AllFine(Activate(ui, s))
    BY <1>0, <2>1, ActivateFine
  <2>. QED  BY <2>1, <2>2, CallKeeps
<1>6. CASE ClickRow
  <2>1. AllFine(OpenRow(ui)) /\ Call(OpenRow(ui))
    BY <1>0, <1>6, RowFine DEF ClickRow
  <2>. QED  BY <2>1, CallKeeps
<1>7. CASE PasteText
  <2>1. PICK text \in trip.texts, p \in Pages \cup {NoPage} : Edit(SetQuery(ui, text, p))
    BY <1>7 DEF PasteText
  <2>2. Sound(SetQuery(ui, text, p))
    BY <1>0, <1>7, SetQueryFine DEF PasteText
  <2>. QED  BY <2>1, <2>2, EditKeeps
<1>8. CASE TypeKeys
  <2>1. PICK text \in trip.texts \cup {NoText}, p \in Pages \cup {NoPage} : Edit(PushStr(ui, text, p))
    BY <1>8 DEF TypeKeys
  <2>2. Sound(PushStr(ui, text, p))
    BY <1>0, <1>8, PushStrFine DEF TypeKeys
  <2>. QED  BY <2>1, <2>2, EditKeeps
<1>9. CASE UNCHANGED screensVars
  <2>1. ui' = ui /\ calls' = calls /\ settled' = settled /\ trip' = trip
    BY <1>9 DEF screensVars
  <2>. QED  BY <2>1 DEF ScreensInv
<1>. QED  BY <1>1, <1>2, <1>3, <1>4, <1>5, <1>6, <1>7, <1>8, <1>9 DEF ScreensNext

LEMMA ScreensInvGoal == ASSUME ScreensInv PROVE ScreensShowAsked
<1>0. ui \in Hosts /\ settled \in BOOLEAN
  BY DEF ScreensInv, Sound
<1>1. ScreensTypeOK
  <2>1. trip \in Trips /\ calls \in 0..trip.calls /\ settled \in BOOLEAN
    BY DEF ScreensInv
  <2>. QED  BY <1>0, <2>1 DEF ScreensTypeOK, Hosts, Lines
<1>2. PaintedIsAsked
  <2>1. Asked = AskedOf(ui)
    BY DEF Asked, AskedOf
  <2>2. settled => Shows(ui)
    BY <1>0 DEF ScreensInv
  <2>. QED  BY <2>1, <2>2 DEF PaintedIsAsked, Shows
<1>3. RowsOfBody
  BY DEF ScreensInv, Sound, RowsOfBody
<1>4. DetailsOfBlock
  <2>1. ui.detailsOpen \in BOOLEAN
    BY <1>0 DEF Hosts
  <2>2. ui.detailsOpen = TRUE => ui.details = ui.body["Block"]
    BY DEF ScreensInv, Sound
  <2>. QED  BY <2>1, <2>2 DEF DetailsOfBlock
<1>5. PausedRowsStay
  <2>1. ui.paused \in BOOLEAN
    BY <1>0 DEF Hosts
  <2>2. ui.paused = TRUE => ui.rows["Mempool"] = ui.held
    BY DEF ScreensInv, Sound
  <2>. QED  BY <2>1, <2>2 DEF PausedRowsStay
<1>. QED  BY <1>1, <1>2, <1>3, <1>4, <1>5 DEF ScreensShowAsked

(* Whatever buttons are pressed, texts typed, networks chosen and rows     *)
(* clicked, and wherever a load of ScreenHost stops: a load that ends      *)
(* without a notice has painted what was asked for on the selected         *)
(* network; rows never outlive the text they were painted with; open       *)
(* details are of the block shown; a paused mempool keeps the rows held.   *)
THEOREM ScreensAsAsked == ScreensSpec => []ScreensShowAsked
<1>1. ScreensInit => ScreensInv
  BY TripAssumption, ScreensInvInit
<1>2. ScreensInv /\ [ScreensNext]_screensVars => ScreensInv'
  BY TripAssumption, ScreensInvStep
<1>3. ScreensInv => ScreensShowAsked
  BY ScreensInvGoal
<1>. QED  BY <1>1, <1>2, <1>3, PTL DEF ScreensSpec

------------------------------------------------------------------------------
(* The pages of the web explorer.                                          *)

AssetWhats == {"asset", "asset/txs", "list", "later", "found", "entry"}

(* A request that may be sent to network n, and a task.                    *)
Sendable(x, n) ==
    /\ x.to \in Slots \cup {"rows", "parts"}
    /\ x.req.what \in Whats
    /\ x.req.what \in AssetWhats => n = LiquidNet

IsTask(c) == Sendable(c, c.net) /\ c.net \in Nets /\ c = [to |-> c.to, req |-> c.req, net |-> c.net]

(* What is left of block_and_txs after k - 1 answers.                      *)
Left(h, s, k) ==
    LET paged == s \in Aligned
        b == To("block", Get("block", h))
        f == To("txs", Get("block/txs", h))
        i == To("txids", Get("block/txids", h))
        t == To("txs", GetAt("block/txs", h, <<s>>))
    IN CASE k = 1 -> IF paged THEN <<b, f, i, t>> ELSE <<b, f, i>>
         [] k = 2 -> IF paged THEN <<f, i, t>> ELSE <<f, i>>
         [] k = 3 -> IF paged THEN <<i, t>> ELSE <<i>>
         [] k = 4 -> IF paged THEN <<t>> ELSE <<>>
         [] OTHER -> <<>>

HeightStep(id) == To("height", Get("block-height", id))

IsLoad(l) ==
    /\ l.net \in Nets /\ l.todo # <<>>
    /\ l = [id |-> l.id, start |-> l.start, todo |-> l.todo, net |-> l.net]
    /\ l.todo = <<HeightStep(l.id)>> \/ \E h, s : \E k \in 1..4 : l.todo = Left(h, s, k)

(* Body b answers request r, read from network n; a task for signal s; and
   what holds of a signal that will show that answer.                       *)
ShowsBody(b, r, n) == b # Unset /\ b.req = r /\ b.net = n
Pend(s, r, n) == [to |-> s, req |-> r, net |-> n]
OnlyTask(ts, s, r, n) == \A c \in ts : c.to = s => c = Pend(s, r, n)
Coming(b, ts, s, r, n) == (ShowsBody(b, r, n) \/ Pend(s, r, n) \in ts) /\ OnlyTask(ts, s, r, n)

NoTask(ts, s) == \A c \in ts : c.to # s

BlockPages == {"block", "block-height"}
PageOfTxs(h, s) == GetAt("block/txs", h, IF s \in Aligned THEN <<s>> ELSE <<>>)

(* The stages of a block load. *)
LoadedBlock(sl, h, s, n) ==
    /\ ShowsBody(sl["block"], Get("block", h), n)
    /\ ShowsBody(sl["txids"], Get("block/txids", h), n)
    /\ ShowsBody(sl["txs"], PageOfTxs(h, s), n)
LoadStage(sl, todo, h, s, n) ==
    \/ todo = Left(h, s, 1)
    \/ todo = Left(h, s, 2) /\ ShowsBody(sl["block"], Get("block", h), n)
    \/ /\ todo = Left(h, s, 3) /\ ShowsBody(sl["block"], Get("block", h), n)
       /\ ShowsBody(sl["txs"], Get("block/txs", h), n)
    \/ /\ s \in Aligned /\ todo = Left(h, s, 4) /\ ShowsBody(sl["block"], Get("block", h), n)
       /\ ShowsBody(sl["txids"], Get("block/txids", h), n)
Loading(sl, ls, nt, h, s, n) ==
    \/ ls = {} /\ LoadedBlock(sl, h, s, n)
    \/ nt = n /\ \E l : ls = {l} /\ l.net = n /\ LoadStage(sl, l.todo, h, s, n)

HeightLoad(id, s, n) == [id |-> id, start |-> s, todo |-> <<HeightStep(id)>>, net |-> n]

HashFits(p, n, sl, ts, ls, nt) ==
    /\ Loading(sl, ls, nt, p.id, p.start, n)
    /\ Coming(sl["status"], ts, "status", Get("status", p.id), n)
    /\ Coming(sl["header"], ts, "header", Get("header", p.id), n)
HeightFits(p, n, sl, ts, ls, nt) ==
    \/ nt = n /\ ls = {HeightLoad(p.id, p.start, n)} /\ NoTask(ts, "status")
    \/ /\ ls = {} /\ ShowsBody(sl["height"], Get("block-height", p.id), n)
       /\ sl["height"].ok = FALSE
    \/ /\ ShowsBody(sl["height"], Get("block-height", p.id), n)
       /\ sl["height"].ok = TRUE
       /\ Loading(sl, ls, nt, HashAt[n][p.id], p.start, n)
       /\ Coming(sl["status"], ts, "status", Get("status", HashAt[n][p.id]), n)
BlockFits(p, n, sl, ts, ls, nt) ==
    /\ \A s \in {"block", "txs", "txids", "height"} : NoTask(ts, s)
    /\ p.id \in BlockHashes => HashFits(p, n, sl, ts, ls, nt)
    /\ p.id \notin BlockHashes => HeightFits(p, n, sl, ts, ls, nt)

AssetFits(p, n, sl, ts) ==
    \A s \in {"asset", "txs", "entry", "supply"} :
        /\ n = LiquidNet => Coming(sl[s], ts, s, Get(s, p.id), n)
        /\ n # LiquidNet => sl[s] = Unset /\ NoTask(ts, s)

WalletFits(vals, n, rs, ts) ==
    /\ DOMAIN rs = RowRequests(vals)
    /\ \A r \in DOMAIN rs : (rs[r] # Unset /\ rs[r].net = n) \/ Pend("rows", r, n) \in ts
    /\ \A c \in ts : c.to = "rows" => c.req \in RowRequests(vals) /\ c.net = n

(* What holds of the page that was asked for while nothing was under way. *)
PageFits(p, n, vals, sl, rs, ts, ls, nt) ==
    /\ p.kind \in BlockPages => BlockFits(p, n, sl, ts, ls, nt)
    /\ p.kind = "address" => \A s \in {"stats", "txs", "utxo"} : Coming(sl[s], ts, s, Get(s, p.id), n)
    /\ p.kind = "asset" => AssetFits(p, n, sl, ts)
    /\ p.kind = "entry" => (n = LiquidNet => Coming(sl["entry"], ts, "entry", Get("entry", p.id), n))
    /\ p.kind = "blocks" => Coming(sl["blocks"], ts, "blocks", GetAt("blocks", NoId, <<p.start>>), n)
    /\ p.kind = "wallet" => WalletFits(vals, n, rs, ts)

WebType ==
    /\ net \in Nets /\ tour \in Tours
    /\ DOMAIN slot = Slots /\ \A s \in Slots : IsBody(slot[s])
    /\ \A r \in DOMAIN rows : IsBody(rows[r])
    /\ \A r \in DOMAIN parts : IsBody(parts[r])
    /\ \A c \in tasks : IsTask(c)
    /\ \A l \in loads : IsLoad(l)
    /\ calm \in BOOLEAN /\ clicks \in 0..tour.clicks /\ fails \in 0..MaxFails

AskedInv ==
    /\ page.kind \in Kinds \cup {"docs"} /\ page.kind = asked.page.kind
    /\ DOMAIN asked = {"page", "net", "values"} /\ asked.net \in Nets
    /\ page.kind \notin {"tx", "wallet"} => page = asked.page
    /\ page.kind \in BlockPages => page.id \in BlockHashes \cup BlockHeights
    /\ page.kind \notin BlockPages => loads = {}

(* Every part of the search on any network has come or is under way. *)
PartsInv ==
    \A r \in SearchPlan(query, FALSE) :
        r \in DOMAIN parts \/ \E c \in tasks : c.to = "parts" /\ c.req = r

CalmInv == calm = TRUE => PageFits(asked.page, asked.net, asked.values, slot, rows, tasks, loads, net)

PagesInv == WebType /\ AskedInv /\ PartsInv /\ CalmInv

LEMMA LeftFirst == ASSUME NEW h, NEW s PROVE BlockAndTxs(h, s) = Left(h, s, 1)
BY DEF BlockAndTxs, Left

LEMMA LeftHead ==
    ASSUME NEW h, NEW s
    PROVE  /\ Head(Left(h, s, 1)) = To("block", Get("block", h))
           /\ Head(Left(h, s, 2)) = To("txs", Get("block/txs", h))
           /\ Head(Left(h, s, 3)) = To("txids", Get("block/txids", h))
           /\ s \in Aligned => Head(Left(h, s, 4)) = To("txs", GetAt("block/txs", h, <<s>>))
BY DEF Left

LEMMA LeftTail ==
    ASSUME NEW h, NEW s
    PROVE  /\ Tail(Left(h, s, 1)) = Left(h, s, 2)
           /\ Tail(Left(h, s, 2)) = Left(h, s, 3)
           /\ Tail(Left(h, s, 3)) = Left(h, s, 4)
           /\ s \in Aligned => Tail(Left(h, s, 4)) = <<>>
           /\ s \notin Aligned => Left(h, s, 4) = <<>>
           /\ Left(h, s, 1) # <<>> /\ Left(h, s, 2) # <<>> /\ Left(h, s, 3) # <<>>
           /\ s \in Aligned => Left(h, s, 4) # <<>>
BY DEF Left

LEMMA UnsetBody == \A n, r, ok : [net |-> n, req |-> r, ok |-> ok] # Unset
BY DEF Unset

LEMMA StartIs ==
    ASSUME NEW reqs, NEW n, NEW c
    PROVE  c \in Start(reqs, n) <=> \E x \in reqs : c = Pend(x.to, x.req, n)
BY DEF Start, Pend

(* Where the requests of a step go, and that they may be sent.             *)
AllSendable(reqs, n) == \A x \in reqs : Sendable(x, n)

LEMMA StartTasks ==
    ASSUME NEW reqs, NEW n \in Nets, AllSendable(reqs, n)
    PROVE  \A c \in Start(reqs, n) : IsTask(c)
<1> SUFFICES ASSUME NEW c \in Start(reqs, n) PROVE IsTask(c)
  OBVIOUS
<1>1. PICK x \in reqs : c = Pend(x.to, x.req, n)
  BY StartIs
<1>2. Sendable(x, n)
  BY DEF AllSendable
<1>3. c.to = x.to /\ c.req = x.req /\ c.net = n
  BY <1>1 DEF Pend
<1> QED BY <1>1, <1>2, <1>3 DEF IsTask, Sendable, Pend

LEMMA PlainSendable ==
    ASSUME NEW s \in Slots, NEW n, NEW w \in Whats, NEW id, NEW arg, w \in AssetWhats => n = LiquidNet
    PROVE  /\ Sendable(To(s, GetAt(w, id, arg)), n)
           /\ Sendable(To(s, Get(w, id)), n)
           /\ Sendable(To("rows", GetAt(w, id, arg)), n)
           /\ Sendable(To("rows", Get(w, id)), n)
           /\ Sendable(To("parts", Get(w, id)), n)
BY DEF Sendable, To, Get, GetAt

LEMMA SlotFacts ==
    /\ Slots \subseteq Whats
    /\ {"block-height", "block/txs", "block/txids", "outspend", "asset/txs", "address-prefix", "package"} \subseteq Whats
    /\ BlockSlots \subseteq Slots /\ TxSlots \subseteq Slots /\ AddressSlots \subseteq Slots
    /\ AssetSlots \subseteq Slots /\ HomeSlots \subseteq Slots /\ ManySlots \subseteq Slots
    /\ {"list", "later", "found", "response", "recent", "txids"} \subseteq Slots
    /\ "rows" \notin Slots /\ "parts" \notin Slots
BY DEF Slots, Whats, BlockSlots, TxSlots, AddressSlots, AssetSlots, HomeSlots, ManySlots

LEMMA ExtrasGo ==
    ASSUME NEW p, NEW sl, NEW n, NEW x \in BlockExtras(p, sl)
    PROVE  /\ Sendable(x, n)
           /\ \/ \E h \in BlockHash(p, sl) : x = To("header", Get("header", h))
              \/ x.to = "batch"
<1>1. PICK h \in BlockHash(p, sl) :
        x \in {To("header", Get("header", h))}
             \cup IF Parses(sl["txs"])
                  THEN {To("batch", GetAt("batch", sl["txs"].req.id, sl["txs"].req.arg))} ELSE {}
  BY DEF BlockExtras
<1>2. x = To("header", Get("header", h))
      \/ x = To("batch", GetAt("batch", sl["txs"].req.id, sl["txs"].req.arg))
  BY <1>1
<1>3. {"header", "batch"} \subseteq Slots /\ {"header", "batch"} \subseteq Whats
      /\ {"header", "batch"} \cap AssetWhats = {}
  BY SlotFacts DEF BlockSlots, AssetWhats
<1>4. Sendable(x, n)
  BY <1>2, <1>3, PlainSendable
<1> QED BY <1>2, <1>4 DEF To

LEMMA WokenGoes ==
    ASSUME NEW p, NEW s, NEW sl, NEW n, NEW x \in Woken(p, s, sl)
    PROVE  /\ Sendable(x, n)
           /\ p.kind \notin BlockPages => x.to = "rows" /\ p.kind \in {"tx", "address"}
           /\ p.kind \in BlockPages =>
                \/ s = "height" /\ x \in HeightStatus(sl["height"])
                \/ \E h \in BlockHash(p, sl) : x = To("header", Get("header", h))
                \/ x.to = "batch"
<1> {"status", "outspend"} \subseteq Whats /\ "status" \in Slots /\ {"status", "outspend"} \cap AssetWhats = {}
  BY SlotFacts DEF BlockSlots, AssetWhats
<1>1. CASE p.kind \in {"block", "block-height"} /\ x \in BlockExtras(p, sl)
  BY <1>1, ExtrasGo DEF BlockPages
<1>2. CASE p.kind \in {"block", "block-height"} /\ s = "height" /\ x \in HeightStatus(sl["height"])
  <2>1. PICK h : x = To("status", Get("status", h))
    BY <1>2 DEF HeightStatus, StatusOf
  <2> QED BY <1>2, <2>1, PlainSendable DEF BlockPages
<1>3. CASE p.kind = "tx" /\ x \in SpendRows(p, sl)
  <2>1. PICK id, i : x = To("rows", GetAt("outspend", id, <<i>>))
    BY <1>3 DEF SpendRows
  <2> QED BY <1>3, <2>1, PlainSendable DEF BlockPages, To
<1>4. CASE p.kind = "address" /\ x \in StatusRows(sl["summary"])
  <2>1. PICK id, a : x = To("rows", GetAt("status", id, a))
    BY <1>4 DEF StatusRows
  <2> QED BY <1>4, <2>1, PlainSendable DEF BlockPages, To
<1> QED BY <1>1, <1>2, <1>3, <1>4 DEF Woken

LEMMA SameSendable ==
    ASSUME NEW S \in SUBSET Slots, NEW id, NEW n, S \cap AssetWhats = {} \/ n = LiquidNet,
           NEW x \in {To(s, Get(s, id)): s \in S}
    PROVE  Sendable(x, n)
<1>1. PICK s \in S : x = To(s, Get(s, id))
  OBVIOUS
<1>2. s \in Slots /\ s \in Whats /\ (s \in AssetWhats => n = LiquidNet)
  BY SlotFacts
<1> QED BY <1>1, <1>2, PlainSendable

LEMMA PostsSendable ==
    ASSUME NEW values, NEW n
    PROVE  /\ AllSendable(PostRequests(values), n)
           /\ AllSendable({To("rows", r): r \in RowRequests(values)}, n)
           /\ \A x \in PostRequests(values) : x.to \in ManySlots
<1> ManySlots \subseteq Slots /\ ManySlots \subseteq Whats /\ ManySlots \cap AssetWhats = {}
    /\ "stats" \in Slots /\ "stats" \in Whats /\ "stats" \notin AssetWhats
  BY SlotFacts DEF ManySlots, AssetWhats, AddressSlots
<1>1. ASSUME NEW x \in PostRequests(values)
      PROVE  Sendable(x, n) /\ x.to \in ManySlots
  <2>1. PICK s, a : s \in ManySlots /\ x = To(s, GetAt(s, NoId, a))
    BY DEF PostRequests, ManySlots
  <2> QED BY <2>1, PlainSendable DEF To
<1>2. ASSUME NEW x \in {To("rows", r): r \in RowRequests(values)}
      PROVE  Sendable(x, n)
  <2>1. PICK v : x = To("rows", Get("stats", v))
    BY DEF RowRequests
  <2> QED BY <2>1, PlainSendable
<1> QED BY <1>1, <1>2 DEF AllSendable

LEMMA OpenedSendable ==
    ASSUME NEW p, NEW sl, NEW n, NEW made \in BOOLEAN
    PROVE  AllSendable(Opened(p, sl, n, made), n)
<1> SUFFICES ASSUME NEW x \in Opened(p, sl, n, made) PROVE Sendable(x, n)
  BY DEF AllSendable
<1>1. CASE x \in HomeRequests
  <2>1. HomeSlots \in SUBSET Slots /\ HomeSlots \cap AssetWhats = {}
    BY SlotFacts DEF HomeSlots, AssetWhats
  <2> QED BY <1>1, <2>1, SameSendable DEF HomeRequests
<1>2. CASE x \in {To("blocks", GetAt("blocks", NoId, <<p.start>>))}
  <2>1. "blocks" \in Slots /\ "blocks" \in Whats /\ "blocks" \notin AssetWhats
    BY SlotFacts DEF HomeSlots, AssetWhats
  <2> QED BY <1>2, <2>1, PlainSendable
<1>3. CASE x \in RouteStatus(p)
  <2>1. "status" \in Slots /\ "status" \in Whats /\ "status" \notin AssetWhats
    BY SlotFacts DEF BlockSlots, AssetWhats
  <2>2. x = To("status", Get("status", p.id))
    BY <1>3 DEF RouteStatus, StatusOf
  <2> QED BY <2>1, <2>2, PlainSendable
<1>4. CASE x \in BlockExtras(p, sl)
  BY <1>4, ExtrasGo
<1>5. CASE x \in SpendRows(p, sl)
  <2>1. PICK id, i : x = To("rows", GetAt("outspend", id, <<i>>))
    BY <1>5 DEF SpendRows
  <2>2. "outspend" \in Whats /\ "outspend" \notin AssetWhats /\ "tx" \in Slots
    BY SlotFacts DEF AssetWhats, TxSlots
  <2> QED BY <2>1, <2>2, PlainSendable
<1>6. CASE x \in TxRequests(p.id)
  <2>1. TxSlots \in SUBSET Slots /\ TxSlots \cap AssetWhats = {}
    BY SlotFacts DEF TxSlots, AssetWhats
  <2>2. x \in {To(s, Get(s, p.id)): s \in TxSlots} \/ x \in {To(s, Get(s, NoId)): s \in TxSlots}
    BY <1>6 DEF TxRequests, TxSlots
  <2> QED BY <2>1, <2>2, SameSendable
<1>7. CASE x \in AddressRequests(p.id)
  <2>1. AddressSlots \in SUBSET Slots /\ AddressSlots \cap AssetWhats = {}
    BY SlotFacts DEF AddressSlots, AssetWhats
  <2>2. x \in {To(s, Get(s, p.id)): s \in AddressSlots}
    BY <1>7 DEF AddressRequests, AddressSlots
  <2> QED BY <2>1, <2>2, SameSendable
<1>8. CASE x \in PostRequests({p.id}) \cup {To("rows", r): r \in RowRequests({p.id})}
  BY <1>8, PostsSendable DEF AllSendable
<1>9. CASE x \in {To(s, Get(s, NoId)): s \in {"mempool", "recent", "txids"}}
  <2>1. {"mempool", "recent", "txids"} \in SUBSET Slots /\ {"mempool", "recent", "txids"} \cap AssetWhats = {}
    BY SlotFacts DEF HomeSlots, AssetWhats
  <2> QED BY <1>9, <2>1, SameSendable
<1>10. CASE x \in AssetRequests(n, p.id)
  <2>1. AssetSlots \in SUBSET Slots
    BY SlotFacts
  <2> QED BY <1>10, <2>1, SameSendable DEF AssetRequests
<1>11. CASE x \in ListRequests(n)
  <2>1. "list" \in Slots /\ "list" \in Whats
    BY SlotFacts
  <2> QED BY <1>11, <2>1, PlainSendable DEF ListRequests
<1>12. CASE x \in EntryRequests(n, p.id)
  <2>1. "entry" \in Slots /\ "entry" \in Whats
    BY SlotFacts DEF AssetSlots
  <2> QED BY <1>12, <2>1, PlainSendable DEF EntryRequests
<1> QED BY <1>1, <1>2, <1>3, <1>4, <1>5, <1>6, <1>7, <1>8, <1>9, <1>10, <1>11, <1>12 DEF Opened

LEMMA SearchSendable ==
    ASSUME NEW text, NEW n
    PROVE  AllSendable({To("parts", r): r \in SearchPlan(text, n = LiquidNet)}, n)
<1> SUFFICES ASSUME NEW r \in SearchPlan(text, n = LiquidNet) PROVE Sendable(To("parts", r), n)
  BY DEF AllSendable
<1>1. PICK w \in {"block-height", "stats", "txs", "asset", "asset/txs", "address-prefix"} :
        r = Get(w, text) /\ (w \in {"asset", "asset/txs"} => n = LiquidNet)
  BY DEF SearchPlan
<1>2. w \in Whats /\ (w \in AssetWhats => n = LiquidNet)
  BY <1>1, SlotFacts DEF AssetWhats, AddressSlots, AssetSlots
<1>3. "list" \in Slots
  BY SlotFacts
<1> QED BY <1>1, <1>2, <1>3, PlainSendable

(* Where a button's request goes. *)
LEMMA ButtonsGo ==
    ASSUME NEW x \in Buttons
    PROVE  /\ Sendable(x, net)
           /\ x.to \in {"mempool", "summary", "chain", "later", "found", "txids", "response"}
           /\ page.kind \in {"address", "asset", "assets", "registry", "mempool", "push"}
           /\ x.to = "txids" => page.kind = "mempool"
<1> {"mempool", "summary", "chain", "later", "found", "txids", "response", "tx"} \subseteq Slots
    /\ Slots \subseteq Whats
    /\ {"mempool", "summary", "chain", "txids", "response", "tx"} \cap AssetWhats = {}
    /\ "package" \in Whats /\ "package" \notin AssetWhats
  BY SlotFacts DEF AddressSlots, TxSlots, AssetWhats
<1> DEFINE Goes(s, w, id, a) == /\ x = To(s, GetAt(w, id, a)) /\ s \in Slots /\ w \in Whats
                                /\ w \in AssetWhats => net = LiquidNet
<1>1. ASSUME NEW s, NEW w, NEW id, NEW a, Goes(s, w, id, a) PROVE Sendable(x, net) /\ x.to = s
  BY <1>1, PlainSendable DEF To
<1>2. CASE page.kind = "address"
  <2>a. \/ x = To("mempool", Get("mempool", page.id))
        \/ \E a : x = To("summary", GetAt("summary", page.id, a))
        \/ \E a : x = To("chain", GetAt("chain", page.id, a))
    BY <1>2 DEF Buttons
  <2>b. Get("mempool", page.id) = GetAt("mempool", page.id, <<>>)
    BY DEF Get, GetAt
  <2>1. PICK s, a : s \in {"mempool", "summary", "chain"} /\ x = To(s, GetAt(s, page.id, a))
    BY <2>a, <2>b
  <2>2. Goes(s, s, page.id, a)
    BY <2>1
  <2> QED BY <1>1, <1>2, <2>1, <2>2
<1>3. CASE page.kind = "asset"
  <2>1. PICK id, a : x = To("chain", GetAt("chain", id, a))
    BY <1>3 DEF Buttons
  <2>2. Goes("chain", "chain", id, a)
    BY <2>1
  <2> QED BY <1>1, <1>3, <2>2
<1>4. CASE page.kind = "assets"
  <2>1. x = To("later", GetAt("later", NoId, <<>>)) /\ net = LiquidNet
    BY <1>4 DEF Buttons, Get, GetAt
  <2>2. Goes("later", "later", NoId, <<>>)
    BY <2>1
  <2> QED BY <1>1, <1>4, <2>2
<1>5. CASE page.kind = "registry"
  <2>a. x \in {To("found", Get("found", a)): a \in Assets \cap tour.ids} /\ net = LiquidNet
    BY <1>5 DEF Buttons
  <2>1. PICK id : x = To("found", GetAt("found", id, <<>>)) /\ net = LiquidNet
    BY <2>a DEF Get, GetAt
  <2>2. Goes("found", "found", id, <<>>)
    BY <2>1
  <2> QED BY <1>1, <1>5, <2>2
<1>6. CASE page.kind = "mempool"
  <2>1. PICK a : x = To("txids", GetAt("txids", NoId, a))
    BY <1>6 DEF Buttons
  <2>2. Goes("txids", "txids", NoId, a)
    BY <2>1
  <2> QED BY <1>1, <1>6, <2>2
<1>7. CASE page.kind = "push"
  <2>a. PICK w \in {"tx", "package"}, id \in TxIds \cap tour.ids : x = To("response", Get(w, id))
    BY <1>7 DEF Buttons
  <2>1. x = To("response", GetAt(w, id, <<>>))
    BY <2>a DEF Get, GetAt
  <2>2. Goes("response", w, id, <<>>)
    BY <2>1
  <2> QED BY <1>1, <1>7, <2>2
<1>8. CASE page.kind \notin {"address", "asset", "assets", "registry", "mempool", "push"}
  BY <1>8 DEF Buttons
<1> QED BY <1>2, <1>3, <1>4, <1>5, <1>6, <1>7, <1>8

(* The request of a block load, and what is left of the load after it. *)
LEMMA LoadHead ==
    ASSUME NEW l, IsLoad(l)
    PROVE  /\ Head(l.todo).to \in {"height", "block", "txs", "txids"}
           /\ Head(l.todo).req.what \in Whats
           /\ Head(l.todo).to = "height" => l.todo = <<HeightStep(l.id)>>
<1>1. CASE l.todo = <<HeightStep(l.id)>>
  <2>1. Head(l.todo) = HeightStep(l.id)
    BY <1>1
  <2>2. "block-height" \in Whats
    BY SlotFacts
  <2> QED BY <1>1, <2>1, <2>2 DEF HeightStep, To, Get
<1>2. ASSUME NEW h, NEW s, NEW k \in 1..4, l.todo = Left(h, s, k)
      PROVE  /\ Head(l.todo).to \in {"block", "txs", "txids"}
             /\ Head(l.todo).req.what \in Whats
  <2>1. k = 4 => s \in Aligned
    BY <1>2, LeftTail DEF IsLoad
  <2>2. \/ Head(l.todo) = To("block", Get("block", h))
        \/ Head(l.todo) = To("txs", Get("block/txs", h))
        \/ Head(l.todo) = To("txids", Get("block/txids", h))
        \/ Head(l.todo) = To("txs", GetAt("block/txs", h, <<s>>))
    <3>1. k = 1 \/ k = 2 \/ k = 3 \/ k = 4
      OBVIOUS
    <3> QED BY <1>2, <2>1, <3>1, LeftHead
  <2>3. {"block", "block/txs", "block/txids"} \subseteq Whats
    BY SlotFacts DEF BlockSlots
  <2> QED BY <2>2, <2>3 DEF To, Get, GetAt
<1> QED BY <1>1, <1>2 DEF IsLoad

RestOfLoad(l, ok) ==
    IF Head(l.todo).to # "height" THEN Tail(l.todo)
    ELSE IF ok THEN BlockAndTxs(HashAt[l.net][l.id], l.start) ELSE <<>>

LEMMA LoadExcept ==
    ASSUME NEW l, NEW r, NEW n, l = [id |-> l.id, start |-> l.start, todo |-> l.todo, net |-> l.net]
    PROVE  [l EXCEPT !.todo = r, !.net = n] = [id |-> l.id, start |-> l.start, todo |-> r, net |-> n]
<1>1. [l EXCEPT !.todo = r] = [id |-> l.id, start |-> l.start, todo |-> r, net |-> l.net]
  OBVIOUS
<1> DEFINE q == [l EXCEPT !.todo = r]
<1>2. q.id = l.id /\ q.start = l.start /\ q.todo = r /\ DOMAIN q = {"id", "start", "todo", "net"}
  BY <1>1
<1>3. [q EXCEPT !.net = n] = [id |-> l.id, start |-> l.start, todo |-> r, net |-> n]
  <2> HIDE DEF q
  <2> QED BY <1>2
<1> QED BY <1>3

LEMMA NextLoad ==
    ASSUME NEW l, IsLoad(l), NEW ok \in BOOLEAN, NEW n \in Nets, RestOfLoad(l, ok) # <<>>
    PROVE  IsLoad([l EXCEPT !.todo = RestOfLoad(l, ok), !.net = n])
<1> DEFINE r == RestOfLoad(l, ok)
           m == [l EXCEPT !.todo = r, !.net = n]
<1>1. \E h, s : \E k \in 1..4 : r = Left(h, s, k)
  <2>1. CASE Head(l.todo).to = "height"
    <3>1. r = BlockAndTxs(HashAt[l.net][l.id], l.start)
      BY <2>1 DEF RestOfLoad
    <3>2. r = Left(HashAt[l.net][l.id], l.start, 1)
      BY <3>1, LeftFirst
    <3>3. 1 \in 1..4
      OBVIOUS
    <3> HIDE DEF r
    <3> QED BY <3>2, <3>3
  <2>2. CASE Head(l.todo).to # "height"
    <3>1. l.todo # <<HeightStep(l.id)>>
      BY <2>2 DEF HeightStep, To
    <3>2. PICK h, s : \E k \in 1..4 : l.todo = Left(h, s, k)
      BY <3>1 DEF IsLoad
    <3>3. PICK k \in 1..4 : l.todo = Left(h, s, k)
      BY <3>2
    <3>4. r = Tail(l.todo)
      BY <2>2 DEF RestOfLoad
    <3>5. k = 1 \/ k = 2 \/ k = 3 \/ k = 4
      OBVIOUS
    <3>6. k # 4
      BY <3>3, <3>4, LeftTail DEF IsLoad
    <3>7. r = Left(h, s, 2) \/ r = Left(h, s, 3) \/ r = Left(h, s, 4)
      BY <3>3, <3>4, <3>5, <3>6, LeftTail
    <3>8. 2 \in 1..4 /\ 3 \in 1..4 /\ 4 \in 1..4
      OBVIOUS
    <3> HIDE DEF r
    <3> QED BY <3>7, <3>8
  <2> QED BY <2>1, <2>2
<1>2. r # <<>>
  OBVIOUS
<1> HIDE DEF r
<1>3. m.todo = r /\ m.net = n /\ m = [id |-> m.id, start |-> m.start, todo |-> m.todo, net |-> m.net]
  <2>2. m = [id |-> l.id, start |-> l.start, todo |-> r, net |-> n]
    BY LoadExcept DEF IsLoad
  <2> HIDE DEF m
  <2> QED BY <2>2
<1> HIDE DEF m
<1>4. IsLoad(m)
  BY <1>1, <1>2, <1>3 DEF IsLoad
<1> QED BY <1>4 DEF m, r

LEMMA TasksTyped ==
    ASSUME NEW ts, \A c \in ts : IsTask(c), NEW reqs, NEW n \in Nets, AllSendable(reqs, n),
           NEW ts2, ts2 \subseteq ts \cup Start(reqs, n)
    PROVE  \A c \in ts2 : IsTask(c)
BY StartTasks

LEMMA ActTyped ==
    ASSUME WebType, Act
    PROVE  tour' \in Tours /\ clicks' \in 0..tour'.clicks /\ fails' \in 0..MaxFails
<1>1. tour.clicks \in Nat /\ MaxFails \in Nat
  BY WebAssumption DEF WebType
<1>2. clicks \in 0..tour.clicks /\ clicks < tour.clicks /\ clicks' = clicks + 1 /\ tour' = tour /\ fails' = fails
      /\ tour \in Tours /\ fails \in 0..MaxFails
  BY DEF WebType, Act
<1> DEFINE k == tour.clicks
<1>3. k \in Nat /\ clicks \in 0..k /\ clicks < k
  BY <1>1, <1>2
<1> HIDE DEF k
<1>4. clicks + 1 \in 0..k
  BY <1>3
<1> QED BY <1>2, <1>4 DEF k

LEMMA OutcomeTyped ==
    ASSUME WebType, NEW ok \in BOOLEAN, Outcome(ok)
    PROVE  fails' \in 0..MaxFails
<1>1. MaxFails \in Nat /\ fails \in 0..MaxFails
  BY WebAssumption DEF WebType
<1>2. ok = TRUE \/ ok = FALSE
  OBVIOUS
<1>3. CASE ok = TRUE
  BY <1>1, <1>3 DEF Outcome
<1>4. CASE ok = FALSE
  <2>1. fails < MaxFails /\ fails' = fails + 1
    BY <1>4 DEF Outcome
  <2> QED BY <1>1, <2>1
<1> QED BY <1>2, <1>3, <1>4

LEMMA ClearedTyped ==
    ASSUME NEW p, NEW sl, DOMAIN sl = Slots, \A s \in Slots : IsBody(sl[s])
    PROVE  /\ DOMAIN Cleared(p, sl) = Slots
           /\ \A s \in Slots : IsBody(Cleared(p, sl)[s])
BY DEF Cleared, IsBody

LEMMA EmptyTyped ==
    /\ DOMAIN Empty = Slots /\ \A s \in Slots : IsBody(Empty[s])
    /\ DOMAIN NoRows = {}
BY DEF Empty, IsBody, NoRows

LEMMA BodyTyped ==
    ASSUME NEW n \in Nets, NEW r, r.what \in Whats, NEW ok \in BOOLEAN
    PROVE  IsBody([net |-> n, req |-> r, ok |-> ok])
<1> DEFINE b == [net |-> n, req |-> r, ok |-> ok]
<1>1. b.net = n /\ b.req = r /\ b.ok = ok
  OBVIOUS
<1> HIDE DEF b
<1>2. IsBody(b)
  BY <1>1 DEF IsBody
<1> QED BY <1>2 DEF b

LEMMA NavigateType ==
    ASSUME WebType, NEW kind, NEW id \in Ids(kind), NEW start, Navigate(kind, id, start)
    PROVE  WebType'
<1> DEFINE p == Page(kind, id, start)
           made == page.kind # kind
           old == IF made THEN Empty ELSE slot
           sl == Cleared(p, old)
<1>1. tour' \in Tours /\ clicks' \in 0..tour'.clicks /\ fails' \in 0..MaxFails
  BY ActTyped DEF Navigate
<1>2. net' = net /\ net \in Nets /\ parts' = parts
  BY DEF Navigate, WebType
<1>3. DOMAIN slot' = Slots /\ \A s \in Slots : IsBody(slot'[s])
  <2>1. DOMAIN old = Slots /\ \A s \in Slots : IsBody(old[s])
    BY EmptyTyped DEF WebType
  <2>2. slot' = sl
    BY DEF Navigate
  <2> HIDE DEF old, p
  <2> QED BY <2>1, <2>2, ClearedTyped
<1>4. \A r \in DOMAIN rows' : IsBody(rows'[r])
  <2>1. rows' = rows \/ rows' = EmptyRows(RowRequests({id})) \/ rows' = NoRows
    BY DEF Navigate
  <2> QED BY <2>1, EmptyTyped DEF WebType, EmptyRows, IsBody
<1>5. \A c \in tasks' : IsTask(c)
  <2> DEFINE reqs == Opened(p, sl, net, made)
  <2>1. AllSendable(reqs, net)
    <3>1. made \in BOOLEAN
      OBVIOUS
    <3> HIDE DEF p, sl, made
    <3> QED BY <3>1, OpenedSendable
  <2>2. tasks' \subseteq tasks \cup Start(reqs, net)
    <3>1. tasks' = Start(reqs, net) \cup IF made THEN {c \in tasks: c.to = "parts"} ELSE tasks
      BY DEF Navigate
    <3> HIDE DEF reqs, made
    <3> QED BY <3>1
  <2> HIDE DEF reqs
  <2> QED BY <1>2, <2>1, <2>2, TasksTyped DEF WebType
<1>6. \A l \in loads' : IsLoad(l)
  <2> DEFINE l == [id |-> id, start |-> start, todo |-> BlockPlan(id, start), net |-> net]
  <2>1. \A m \in loads' : m \in loads \/ (m = l /\ kind \in {"block", "block-height"})
    BY DEF Navigate
  <2>2. ASSUME kind \in {"block", "block-height"} PROVE IsLoad(l)
    <3>1. BlockPlan(id, start) = <<HeightStep(id)>> \/ BlockPlan(id, start) = Left(id, start, 1)
      <4>1. BlockPlan(id, start) = <<HeightStep(id)>> \/ BlockPlan(id, start) = BlockAndTxs(id, start)
        BY DEF BlockPlan, HeightStep
      <4>2. BlockAndTxs(id, start) = Left(id, start, 1)
        BY LeftFirst
      <4> QED BY <4>1, <4>2
    <3>2. BlockPlan(id, start) # <<>>
      <4>1. Left(id, start, 1) # <<>>
        BY LeftTail
      <4>2. <<HeightStep(id)>> # <<>>
        OBVIOUS
      <4> QED BY <3>1, <4>1, <4>2
    <3>3. l.id = id /\ l.start = start /\ l.todo = BlockPlan(id, start) /\ l.net = net
          /\ l = [id |-> l.id, start |-> l.start, todo |-> l.todo, net |-> l.net]
      OBVIOUS
    <3>4. 1 \in 1..4
      OBVIOUS
    <3> HIDE DEF l
    <3> QED BY <1>2, <3>1, <3>2, <3>3, <3>4 DEF IsLoad
  <2> HIDE DEF l
  <2> QED BY <2>1, <2>2 DEF WebType
<1>7. calm' \in BOOLEAN
  BY DEF Navigate, WebType, Quiet
<1> QED BY <1>1, <1>2, <1>3, <1>4, <1>5, <1>6, <1>7 DEF WebType

LEMMA SwitchType ==
    ASSUME WebType, NEW n \in Nets, SwitchNetwork(n)
    PROVE  WebType'
<1>1. tour' \in Tours /\ clicks' \in 0..tour'.clicks /\ fails' \in 0..MaxFails
  BY ActTyped DEF SwitchNetwork
<1>2. net' = n /\ rows' = rows /\ parts' = parts /\ loads' = loads
  BY DEF SwitchNetwork
<1>3. DOMAIN slot' = Slots /\ \A s \in Slots : IsBody(slot'[s])
  BY ClearedTyped DEF SwitchNetwork, WebType
<1>4. \A c \in tasks' : IsTask(c)
  <2> DEFINE reqs == Opened(page, slot, n, FALSE)
  <2>1. AllSendable(reqs, n) /\ AllSendable({}, n)
    BY OpenedSendable DEF AllSendable
  <2>2. AllSendable(ListRequests(n), n)
    <3>1. "list" \in Slots /\ "list" \in Whats
      BY SlotFacts
    <3> QED BY <3>1, PlainSendable DEF ListRequests, AllSendable
  <2> HIDE DEF reqs
  <2>3. \/ tasks' \subseteq tasks \cup Start({}, n)
        \/ tasks' \subseteq tasks \cup Start(ListRequests(n), n)
        \/ tasks' \subseteq tasks \cup Start(reqs, n)
    BY DEF SwitchNetwork, reqs
  <2> QED BY <2>1, <2>2, <2>3, TasksTyped DEF WebType
<1>5. calm' \in BOOLEAN
  BY DEF SwitchNetwork, WebType, Quiet
<1> QED BY <1>1, <1>2, <1>3, <1>4, <1>5 DEF WebType

LEMMA SearchType ==
    ASSUME WebType, NEW text, Search(text)
    PROVE  WebType'
<1>1. tour' \in Tours /\ clicks' \in 0..tour'.clicks /\ fails' \in 0..MaxFails
  BY ActTyped DEF Search
<1>2. net' = net /\ rows' = rows /\ parts' = NoRows /\ loads' = loads /\ slot' = slot /\ calm' = calm
  BY DEF Search
<1> DEFINE reqs == {To("parts", r): r \in SearchPlan(text, net = LiquidNet)}
<1>3. AllSendable(reqs, net) /\ tasks' = tasks \cup Start(reqs, net)
  BY SearchSendable DEF Search
<1> HIDE DEF reqs
<1>4. \A c \in tasks' : IsTask(c)
  BY <1>3, TasksTyped DEF WebType
<1> QED BY <1>1, <1>2, <1>4, EmptyTyped DEF WebType

LEMMA PressType ==
    ASSUME WebType, PressButton
    PROVE  WebType'
<1>1. tour' \in Tours /\ clicks' \in 0..tour'.clicks /\ fails' \in 0..MaxFails
  BY ActTyped DEF PressButton
<1>2. net' = net /\ rows' = rows /\ parts' = parts /\ loads' = loads /\ slot' = slot
  BY DEF PressButton
<1>3. PICK x \in Buttons : tasks' = tasks \cup Start({x}, net)
  BY DEF PressButton
<1>4. AllSendable({x}, net)
  BY ButtonsGo DEF AllSendable
<1>5. \A c \in tasks' : IsTask(c)
  BY <1>3, <1>4, TasksTyped DEF WebType
<1>6. calm' \in BOOLEAN
  BY DEF PressButton, WebType, Quiet
<1> QED BY <1>1, <1>2, <1>5, <1>6 DEF WebType

LEMMA LoadAddressesType ==
    ASSUME WebType, NEW values, LoadAddresses(values)
    PROVE  WebType'
<1>1. tour' \in Tours /\ clicks' \in 0..tour'.clicks /\ fails' \in 0..MaxFails
  BY ActTyped DEF LoadAddresses
<1>2. net' = net /\ parts' = parts /\ loads' = loads /\ calm' \in BOOLEAN
  BY DEF LoadAddresses, Quiet
<1>3. DOMAIN slot' = Slots /\ \A s \in Slots : IsBody(slot'[s])
  BY DEF LoadAddresses, WebType, IsBody
<1>4. \A r \in DOMAIN rows' : IsBody(rows'[r])
  BY DEF LoadAddresses, EmptyRows, IsBody
<1> DEFINE reqs == {To("rows", r): r \in RowRequests(values)} \cup PostRequests(values)
<1>5. AllSendable(reqs, net) /\ tasks' = tasks \cup Start(reqs, net)
  BY PostsSendable DEF LoadAddresses, AllSendable
<1> HIDE DEF reqs
<1>6. \A c \in tasks' : IsTask(c)
  BY <1>5, TasksTyped DEF WebType
<1> QED BY <1>1, <1>2, <1>3, <1>4, <1>6 DEF WebType

LEMMA PutTyped ==
    ASSUME NEW rs, \A r \in DOMAIN rs : IsBody(rs[r]), NEW q, NEW b, IsBody(b)
    PROVE  \A r \in DOMAIN PutRow(rs, q, b) : IsBody(PutRow(rs, q, b)[r])
BY DEF PutRow

LEMMA AnswerType ==
    ASSUME WebType, NEW c \in tasks, NEW ok \in BOOLEAN, Answer(c, ok)
    PROVE  WebType'
<1> DEFINE b == Body(c, ok)
<1>1. net' = net /\ loads' = loads /\ calm' = calm /\ tour' = tour /\ clicks' = clicks
  BY DEF Answer
<1>2. IsTask(c) /\ net \in Nets
  BY DEF WebType
<1>3. IsBody(b)
  BY <1>2, BodyTyped DEF Body, IsTask, Sendable
<1>4. fails' \in 0..MaxFails
  BY OutcomeTyped DEF Answer
<1> HIDE DEF b
<1>5. DOMAIN slot' = Slots /\ \A s \in Slots : IsBody(slot'[s])
  <2>1. slot' = IF c.to \in Slots THEN [slot EXCEPT ![c.to] = b] ELSE slot
    BY DEF Answer, b
  <2> QED BY <1>3, <2>1 DEF WebType
<1>6. \A r \in DOMAIN rows' : IsBody(rows'[r])
  <2>1. rows' = PutRow(rows, c.req, b) \/ rows' = rows
    BY DEF Answer, b
  <2> QED BY <1>3, <2>1, PutTyped DEF WebType
<1>7. \A r \in DOMAIN parts' : IsBody(parts'[r])
  <2>1. parts' = PutRow(parts, c.req, b) \/ parts' = parts
    BY DEF Answer, b
  <2> QED BY <1>3, <2>1, PutTyped DEF WebType
<1>8. \A x \in tasks' : IsTask(x)
  <2> DEFINE reqs == Woken(page, c.to, slot')
  <2>1. AllSendable(reqs, net)
    BY WokenGoes DEF AllSendable
  <2>2. tasks' = (tasks \ {c}) \cup Start(reqs, net)
    BY DEF Answer
  <2> HIDE DEF reqs
  <2> QED BY <1>2, <2>1, <2>2, TasksTyped DEF WebType
<1> QED BY <1>1, <1>4, <1>5, <1>6, <1>7, <1>8 DEF WebType

LEMMA AnswerLoadType ==
    ASSUME WebType, NEW l \in loads, NEW ok \in BOOLEAN, AnswerLoad(l, ok)
    PROVE  WebType'
<1> DEFINE x == Head(l.todo)
           b == [net |-> l.net, req |-> x.req, ok |-> ok]
           r == RestOfLoad(l, ok)
<1>1. net' = net /\ rows' = rows /\ parts' = parts /\ calm' = calm /\ tour' = tour /\ clicks' = clicks
  BY DEF AnswerLoad
<1>2. IsLoad(l) /\ net \in Nets
  BY DEF WebType
<1>3. x.to \in Slots /\ x.req.what \in Whats /\ l.net \in Nets
  BY <1>2, LoadHead, SlotFacts DEF BlockSlots, IsLoad
<1>4. IsBody(b)
  <2> HIDE DEF x
  <2> QED BY <1>3, BodyTyped
<1>5. fails' \in 0..MaxFails
  BY OutcomeTyped DEF AnswerLoad
<1>6. slot' = [slot EXCEPT ![x.to] = b]
  BY DEF AnswerLoad
<1>7. loads' = (loads \ {l}) \cup IF r = <<>> THEN {} ELSE {[l EXCEPT !.todo = r, !.net = net]}
  BY DEF AnswerLoad, RestOfLoad
<1>8. tasks' = tasks \cup Start(Woken(page, x.to, slot'), net)
  BY DEF AnswerLoad
<1> HIDE DEF b, x
<1>9. DOMAIN slot' = Slots /\ \A s \in Slots : IsBody(slot'[s])
  BY <1>3, <1>4, <1>6 DEF WebType
<1>10. \A m \in loads' : IsLoad(m)
  <2>1. r # <<>> => IsLoad([l EXCEPT !.todo = r, !.net = net])
    BY <1>2, NextLoad
  <2> HIDE DEF r
  <2>2. \A m \in loads' : m \in loads \/ (r # <<>> /\ m = [l EXCEPT !.todo = r, !.net = net])
    BY <1>7
  <2> QED BY <2>1, <2>2 DEF WebType
<1>11. \A c \in tasks' : IsTask(c)
  <2> DEFINE reqs == Woken(page, x.to, slot')
  <2>1. AllSendable(reqs, net) /\ tasks' \subseteq tasks \cup Start(reqs, net)
    BY <1>8, WokenGoes DEF AllSendable
  <2> HIDE DEF reqs
  <2> QED BY <1>2, <2>1, TasksTyped DEF WebType
<1> QED BY <1>1, <1>5, <1>9, <1>10, <1>11 DEF WebType

LEMMA WebTypeStep == WebType /\ WebNext => WebType'
<1> SUFFICES ASSUME WebType, WebNext PROVE WebType'
  OBVIOUS
<1> QED BY NavigateType, SwitchType, SearchType, PressType, LoadAddressesType, AnswerType, AnswerLoadType
        DEF WebNext

LEMMA AskedStep ==
    ASSUME WebType, AskedInv, WebNext
    PROVE  AskedInv'
<1>1. ASSUME NEW kind \in Kinds, NEW id \in Ids(kind), NEW start, Navigate(kind, id, start) PROVE AskedInv'
  <2> DEFINE p == Page(kind, id, start)
  <2>1. page' = p /\ p.kind = kind /\ p.id = id /\ net \in Nets
    BY <1>1 DEF Navigate, Page, WebType
  <2>2. page.kind = kind => loads' = loads \/ kind \in BlockPages
    BY <1>1 DEF Navigate, BlockPages
  <2>3. page.kind # kind => loads' = {} \/ kind \in BlockPages
    BY <1>1 DEF Navigate, BlockPages
  <2>4. kind \in BlockPages => id \in BlockHashes \cup BlockHeights
    BY DEF Ids, BlockPages
  <2>5. \/ asked' = [page |-> p, net |-> net, values |-> {id}]
        \/ asked' = asked /\ page.kind = kind /\ kind \in {"tx", "wallet"}
    BY <1>1 DEF Navigate
  <2> HIDE DEF p
  <2>6. kind \notin BlockPages => loads' = {}
    BY <2>2, <2>3 DEF AskedInv
  <2>7. CASE asked' = [page |-> p, net |-> net, values |-> {id}]
    BY <2>1, <2>4, <2>6, <2>7 DEF AskedInv
  <2>8. CASE asked' = asked /\ page.kind = kind /\ kind \in {"tx", "wallet"}
    BY <2>1, <2>4, <2>6, <2>8 DEF AskedInv
  <2> QED BY <2>5, <2>7, <2>8
<1>2. ASSUME NEW n \in Nets, SwitchNetwork(n) PROVE AskedInv'
  <2>1. page' = page /\ loads' = loads /\ (asked' = asked \/ asked' = [asked EXCEPT !.net = n])
    BY <1>2 DEF SwitchNetwork
  <2>2. asked'.page = asked.page /\ asked'.net \in Nets /\ DOMAIN asked' = {"page", "net", "values"}
    BY <2>1 DEF AskedInv
  <2> QED BY <2>1, <2>2 DEF AskedInv
<1>3. ASSUME NEW values, LoadAddresses(values) PROVE AskedInv'
  <2>1. page' = page /\ loads' = loads /\ asked' = [asked EXCEPT !.values = values, !.net = net]
    BY <1>3 DEF LoadAddresses
  <2>2. asked'.page = asked.page /\ asked'.net \in Nets /\ DOMAIN asked' = {"page", "net", "values"}
    BY <2>1 DEF AskedInv, WebType
  <2> QED BY <2>1, <2>2 DEF AskedInv
<1>4. ASSUME NEW l \in loads, NEW ok \in BOOLEAN, AnswerLoad(l, ok) PROVE AskedInv'
  <2>1. page' = page /\ asked' = asked
    BY <1>4 DEF AnswerLoad
  <2> QED BY <2>1 DEF AskedInv
<1>5. ASSUME PressButton \/ (\E text : Search(text)) \/ (\E c \in tasks, ok \in BOOLEAN : Answer(c, ok))
      PROVE  AskedInv'
  <2>1. page' = page /\ asked' = asked /\ loads' = loads
    BY <1>5 DEF PressButton, Search, Answer
  <2> QED BY <2>1 DEF AskedInv
<1> QED BY <1>1, <1>2, <1>3, <1>4, <1>5 DEF WebNext

LEMMA SearchGrows ==
    ASSUME NEW text, NEW liquid \in BOOLEAN
    PROVE  SearchPlan(text, FALSE) \subseteq SearchPlan(text, liquid)
<1>1. text \in BlockHeights => text \notin HexIds /\ text \notin Addrs /\ text \notin AddrPrefixes
  BY WebAssumption
<1>2. text \in HexIds => text \notin Addrs /\ text \notin AddrPrefixes
  BY WebAssumption
<1>3. text \in Addrs => text \notin AddrPrefixes
  BY WebAssumption
<1>4. CASE text \in BlockHeights
  BY <1>1, <1>4 DEF SearchPlan
<1>5. CASE text \in HexIds
  <2>1. SearchPlan(text, FALSE) = {Get(w, text): w \in {"stats", "txs"}}
    BY <1>1, <1>2, <1>5 DEF SearchPlan
  <2>2. {Get(w, text): w \in {"stats", "txs"}} \subseteq SearchPlan(text, liquid)
    BY <1>1, <1>2, <1>5 DEF SearchPlan
  <2> QED BY <2>1, <2>2
<1>6. CASE text \in Addrs
  BY <1>1, <1>2, <1>3, <1>6 DEF SearchPlan
<1>7. CASE text \in AddrPrefixes
  BY <1>1, <1>2, <1>3, <1>7 DEF SearchPlan
<1>8. CASE text \notin BlockHeights /\ text \notin HexIds /\ text \notin Addrs /\ text \notin AddrPrefixes
  BY <1>8 DEF SearchPlan
<1> QED BY <1>4, <1>5, <1>6, <1>7, <1>8

LEMMA PartsStep ==
    ASSUME WebType, PartsInv, WebNext
    PROVE  PartsInv'
<1>1. ASSUME query' = query, parts' = parts, \A c \in tasks : c.to = "parts" => c \in tasks' PROVE PartsInv'
  BY <1>1 DEF PartsInv
<1>2. ASSUME NEW kind, NEW id, NEW start, Navigate(kind, id, start) PROVE PartsInv'
  <2>1. query' = query /\ parts' = parts
    BY <1>2 DEF Navigate
  <2>2. {c \in tasks: c.to = "parts"} \subseteq tasks'
    <3> DEFINE reqs == Opened(Page(kind, id, start),
                              Cleared(Page(kind, id, start), IF page.kind # kind THEN Empty ELSE slot),
                              net, page.kind # kind)
    <3>1. tasks' = Start(reqs, net) \cup IF page.kind # kind THEN {c \in tasks: c.to = "parts"} ELSE tasks
      BY <1>2 DEF Navigate
    <3> HIDE DEF reqs
    <3> QED BY <3>1
  <2> QED BY <1>1, <2>1, <2>2
<1>3. ASSUME NEW n \in Nets, SwitchNetwork(n) PROVE PartsInv'
  BY <1>1, <1>3 DEF SwitchNetwork
<1>4. ASSUME NEW text, Search(text) PROVE PartsInv'
  <2> SUFFICES ASSUME NEW r \in SearchPlan(text, FALSE)
               PROVE  \E c \in tasks' : c.to = "parts" /\ c.req = r
    BY <1>4 DEF PartsInv, Search
  <2> DEFINE reqs == {To("parts", q): q \in SearchPlan(text, net = LiquidNet)}
  <2>1. (net = LiquidNet) \in BOOLEAN
    OBVIOUS
  <2>2. r \in SearchPlan(text, net = LiquidNet)
    BY <2>1, SearchGrows
  <2>3. To("parts", r) \in reqs
    BY <2>2
  <2>4. tasks' = tasks \cup Start(reqs, net)
    BY <1>4 DEF Search
  <2> HIDE DEF reqs
  <2>5. Pend("parts", r, net) \in tasks'
    BY <2>3, <2>4, StartIs DEF To
  <2> QED BY <2>5 DEF Pend
<1>5. ASSUME PressButton PROVE PartsInv'
  BY <1>1, <1>5 DEF PressButton
<1>6. ASSUME NEW values, LoadAddresses(values) PROVE PartsInv'
  BY <1>1, <1>6 DEF LoadAddresses
<1>7. ASSUME NEW c \in tasks, NEW ok \in BOOLEAN, Answer(c, ok) PROVE PartsInv'
  <2>1. query' = query /\ tasks \ {c} \subseteq tasks'
    BY <1>7 DEF Answer
  <2>2. CASE c.to # "parts"
    <3>1. parts' = parts
      BY <1>7, <2>2 DEF Answer
    <3> QED BY <1>1, <2>1, <2>2, <3>1
  <2>3. CASE c.to = "parts"
    <3>1. parts' = PutRow(parts, c.req, Body(c, ok))
      BY <1>7, <2>3 DEF Answer
    <3>2. DOMAIN parts' = DOMAIN parts \cup {c.req}
      BY <3>1 DEF PutRow
    <3> QED BY <2>1, <3>2 DEF PartsInv
  <2> QED BY <2>2, <2>3
<1>8. ASSUME NEW l \in loads, NEW ok \in BOOLEAN, AnswerLoad(l, ok) PROVE PartsInv'
  BY <1>1, <1>8 DEF AnswerLoad
<1> QED BY <1>2, <1>3, <1>4, <1>5, <1>6, <1>7, <1>8 DEF WebNext

(* What the signals will show, along the steps of a page.                  *)

LEMMA ComingNew ==
    ASSUME NEW ts, NEW s, NoTask(ts, s), NEW reqs, NEW r, NEW n, NEW b,
           To(s, r) \in reqs, \A x \in reqs : x.to = s => x.req = r
    PROVE  Coming(b, Start(reqs, n) \cup ts, s, r, n)
<1>1. Pend(s, r, n) \in Start(reqs, n)
  BY StartIs DEF To
<1>2. ASSUME NEW c \in Start(reqs, n), c.to = s PROVE c = Pend(s, r, n)
  <2>1. PICK x \in reqs : c = Pend(x.to, x.req, n)
    BY StartIs
  <2> QED BY <1>2, <2>1 DEF Pend
<1> QED BY <1>1, <1>2 DEF Coming, OnlyTask, NoTask

LEMMA NoTaskStart ==
    ASSUME NEW ts, NEW s, NoTask(ts, s), NEW reqs, NEW n, \A x \in reqs : x.to # s
    PROVE  NoTask(Start(reqs, n) \cup ts, s)
<1>1. ASSUME NEW c \in Start(reqs, n) PROVE c.to # s
  <2>1. PICK x \in reqs : c = Pend(x.to, x.req, n)
    BY StartIs
  <2> QED BY <2>1 DEF Pend
<1> QED BY <1>1 DEF NoTask

LEMMA ComingMore ==
    ASSUME NEW ts, NEW ts2, NEW s, NEW r, NEW n, NEW b, Coming(b, ts, s, r, n),
           ts \subseteq ts2, \A c \in ts2 : c \in ts \/ c.to # s \/ c = Pend(s, r, n)
    PROVE  Coming(b, ts2, s, r, n)
BY DEF Coming, OnlyTask

SetSlot(sl, c, ok) == IF c.to \in Slots THEN [sl EXCEPT ![c.to] = Body(c, ok)] ELSE sl

LEMMA BodyShows ==
    ASSUME NEW r, NEW n, NEW ok
    PROVE  /\ ShowsBody([net |-> n, req |-> r, ok |-> ok], r, n)
           /\ [net |-> n, req |-> r, ok |-> ok].ok = ok
BY UnsetBody DEF ShowsBody

LEMMA ComingAnswered ==
    ASSUME NEW sl, DOMAIN sl = Slots, NEW s \in Slots, NEW ts, NEW c \in ts, NEW ok, NEW r, NEW n,
           Coming(sl[s], ts, s, r, n), NEW new, \A x \in new : x.to # s
    PROVE  Coming(SetSlot(sl, c, ok)[s], (ts \ {c}) \cup new, s, r, n)
<1>1. CASE c.to = s
  <2>1. c = Pend(s, r, n)
    BY <1>1 DEF Coming, OnlyTask
  <2>2. c.to = s /\ c.req = r /\ c.net = n
    BY <2>1 DEF Pend
  <2>3. SetSlot(sl, c, ok)[s] = [net |-> n, req |-> r, ok |-> ok]
    BY <2>2 DEF SetSlot, Body
  <2>4. ShowsBody(SetSlot(sl, c, ok)[s], r, n)
    BY <2>3, BodyShows
  <2> QED BY <2>4 DEF Coming, OnlyTask
<1>2. CASE c.to # s
  <2>1. SetSlot(sl, c, ok)[s] = sl[s]
    BY <1>2 DEF SetSlot
  <2>2. c # Pend(s, r, n)
    BY <1>2 DEF Pend
  <2> QED BY <2>1, <2>2 DEF Coming, OnlyTask
<1> QED BY <1>1, <1>2

LEMMA SetOther ==
    ASSUME NEW sl, DOMAIN sl = Slots, NEW s \in Slots, NEW c, NEW ok, c.to # s
    PROVE  SetSlot(sl, c, ok)[s] = sl[s]
BY DEF SetSlot

(* The signals that matter to a page. *)
Watched(kind) ==
    IF kind \in BlockPages THEN {"block", "txs", "txids", "height", "status", "header"}
    ELSE IF kind = "address" THEN {"stats", "txs", "utxo"}
    ELSE IF kind = "asset" THEN {"asset", "txs", "entry", "supply"}
    ELSE IF kind = "entry" THEN {"entry"}
    ELSE IF kind = "blocks" THEN {"blocks"}
    ELSE IF kind = "wallet" THEN {"rows"}
    ELSE {}

LEMMA BlockMore ==
    ASSUME NEW p, NEW n, NEW sl, NEW ts, NEW ls, NEW nt, BlockFits(p, n, sl, ts, ls, nt),
           NEW ts2, ts \subseteq ts2,
           \A c \in ts2 : c \in ts \/ c.to \notin {"block", "txs", "txids", "height", "status", "header"}
    PROVE  BlockFits(p, n, sl, ts2, ls, nt)
<1>1. \A s \in {"block", "txs", "txids", "height"} : NoTask(ts2, s)
  BY DEF BlockFits, NoTask
<1>2. NoTask(ts, "status") => NoTask(ts2, "status")
  BY DEF NoTask
<1>3. ASSUME NEW s \in {"status", "header"}, NEW r, Coming(sl[s], ts, s, r, n)
      PROVE  Coming(sl[s], ts2, s, r, n)
  BY <1>3, ComingMore
<1>4. HashFits(p, n, sl, ts, ls, nt) => HashFits(p, n, sl, ts2, ls, nt)
  BY <1>3 DEF HashFits
<1>5. HeightFits(p, n, sl, ts, ls, nt) => HeightFits(p, n, sl, ts2, ls, nt)
  BY <1>2, <1>3 DEF HeightFits
<1> QED BY <1>1, <1>4, <1>5 DEF BlockFits

LEMMA AssetMore ==
    ASSUME NEW p, NEW n, NEW sl, NEW ts, AssetFits(p, n, sl, ts),
           NEW ts2, ts \subseteq ts2,
           \A c \in ts2 : c \in ts \/ c.to \notin {"asset", "txs", "entry", "supply"}
    PROVE  AssetFits(p, n, sl, ts2)
<1> SUFFICES ASSUME NEW s \in {"asset", "txs", "entry", "supply"}
             PROVE  /\ n = LiquidNet => Coming(sl[s], ts2, s, Get(s, p.id), n)
                    /\ n # LiquidNet => sl[s] = Unset /\ NoTask(ts2, s)
  BY DEF AssetFits
<1>1. n = LiquidNet => Coming(sl[s], ts2, s, Get(s, p.id), n)
  <2>1. n = LiquidNet => Coming(sl[s], ts, s, Get(s, p.id), n)
    BY DEF AssetFits
  <2> QED BY <2>1, ComingMore
<1>2. n # LiquidNet => sl[s] = Unset /\ NoTask(ts2, s)
  BY DEF AssetFits, NoTask
<1> QED BY <1>1, <1>2

(* Tasks for other signals do not disturb a page. *)
LEMMA FitsMore ==
    ASSUME NEW p, NEW n, NEW vals, NEW sl, NEW rs, NEW ts, NEW ls, NEW nt,
           PageFits(p, n, vals, sl, rs, ts, ls, nt),
           NEW ts2, ts \subseteq ts2, \A c \in ts2 : c \in ts \/ c.to \notin Watched(p.kind)
    PROVE  PageFits(p, n, vals, sl, rs, ts2, ls, nt)
<1>1. ASSUME p.kind \in BlockPages PROVE BlockFits(p, n, sl, ts2, ls, nt)
  <2>1. BlockFits(p, n, sl, ts, ls, nt)
    BY <1>1 DEF PageFits
  <2>2. Watched(p.kind) = {"block", "txs", "txids", "height", "status", "header"}
    BY <1>1 DEF Watched
  <2> QED BY <2>1, <2>2, BlockMore
<1>2. ASSUME p.kind = "address", NEW s \in {"stats", "txs", "utxo"}
      PROVE  Coming(sl[s], ts2, s, Get(s, p.id), n)
  <2>1. Coming(sl[s], ts, s, Get(s, p.id), n)
    BY <1>2 DEF PageFits
  <2>2. s \in Watched(p.kind)
    BY <1>2 DEF Watched, BlockPages
  <2> QED BY <2>1, <2>2, ComingMore
<1>3. ASSUME p.kind = "asset" PROVE AssetFits(p, n, sl, ts2)
  <2>1. AssetFits(p, n, sl, ts)
    BY <1>3 DEF PageFits
  <2>2. Watched(p.kind) = {"asset", "txs", "entry", "supply"}
    BY <1>3 DEF Watched, BlockPages
  <2> QED BY <2>1, <2>2, AssetMore
<1>4. ASSUME p.kind = "entry", n = LiquidNet PROVE Coming(sl["entry"], ts2, "entry", Get("entry", p.id), n)
  <2>1. Coming(sl["entry"], ts, "entry", Get("entry", p.id), n)
    BY <1>4 DEF PageFits
  <2>2. "entry" \in Watched(p.kind)
    BY <1>4 DEF Watched, BlockPages
  <2> QED BY <2>1, <2>2, ComingMore
<1>5. ASSUME p.kind = "blocks"
      PROVE  Coming(sl["blocks"], ts2, "blocks", GetAt("blocks", NoId, <<p.start>>), n)
  <2>1. Coming(sl["blocks"], ts, "blocks", GetAt("blocks", NoId, <<p.start>>), n)
    BY <1>5 DEF PageFits
  <2>2. "blocks" \in Watched(p.kind)
    BY <1>5 DEF Watched, BlockPages
  <2> QED BY <2>1, <2>2, ComingMore
<1>6. ASSUME p.kind = "wallet" PROVE WalletFits(vals, n, rs, ts2)
  <2>1. WalletFits(vals, n, rs, ts)
    BY <1>6 DEF PageFits
  <2>2. "rows" \in Watched(p.kind)
    BY <1>6 DEF Watched, BlockPages
  <2>3. \A c \in ts2 : c.to = "rows" => c \in ts
    BY <2>2
  <2> QED BY <2>1, <2>3 DEF WalletFits
<1> QED BY <1>1, <1>2, <1>3, <1>4, <1>5, <1>6 DEF PageFits

OnlyParts(ts) == \A c \in ts : c.to = "parts"

LEMMA SameComing ==
    ASSUME NEW S, NEW id, NEW s \in S, s # "parts", NEW ts, OnlyParts(ts), NEW n, NEW b
    PROVE  Coming(b, Start({To(t, Get(t, id)): t \in S}, n) \cup ts, s, Get(s, id), n)
<1> DEFINE reqs == {To(t, Get(t, id)): t \in S}
<1>1. To(s, Get(s, id)) \in reqs
  OBVIOUS
<1>2. \A x \in reqs : x.to = s => x.req = Get(s, id)
  BY DEF To
<1>3. NoTask(ts, s)
  BY DEF NoTask, OnlyParts
<1> HIDE DEF reqs
<1>4. Coming(b, Start(reqs, n) \cup ts, s, Get(s, id), n)
  BY <1>1, <1>2, <1>3, ComingNew
<1> QED BY <1>4 DEF reqs

LEMMA FreshAsset ==
    ASSUME NEW p, NEW n, NEW sl, NEW ts, OnlyParts(ts),
           \A s \in {"asset", "txs", "entry", "supply"} : sl[s] = Unset
    PROVE  AssetFits(p, n, sl, Start(AssetRequests(n, p.id), n) \cup ts)
<1> SUFFICES ASSUME NEW s \in {"asset", "txs", "entry", "supply"}
             PROVE  /\ n = LiquidNet => Coming(sl[s], Start(AssetRequests(n, p.id), n) \cup ts, s, Get(s, p.id), n)
                    /\ n # LiquidNet => NoTask(Start(AssetRequests(n, p.id), n) \cup ts, s)
  BY DEF AssetFits
<1>1. CASE n = LiquidNet
  <2>1. AssetRequests(n, p.id) = {To(t, Get(t, p.id)): t \in AssetSlots}
    BY <1>1 DEF AssetRequests
  <2>2. s \in AssetSlots /\ s # "parts"
    BY DEF AssetSlots
  <2> QED BY <1>1, <2>1, <2>2, SameComing
<1>2. CASE n # LiquidNet
  <2>1. AssetRequests(n, p.id) = {}
    BY <1>2 DEF AssetRequests
  <2>2. NoTask(ts, s)
    BY DEF NoTask, OnlyParts
  <2> QED BY <1>2, <2>1, <2>2, NoTaskStart
<1> QED BY <1>1, <1>2

LEMMA FreshEntry ==
    ASSUME NEW p, NEW b, NEW ts, OnlyParts(ts)
    PROVE  Coming(b, Start(EntryRequests(LiquidNet, p.id), LiquidNet) \cup ts, "entry", Get("entry", p.id), LiquidNet)
<1>1. EntryRequests(LiquidNet, p.id) = {To(t, Get(t, p.id)): t \in {"entry"}}
  BY DEF EntryRequests
<1> QED BY <1>1, SameComing

LEMMA FreshAddress ==
    ASSUME NEW id, NEW n, NEW b, NEW ts, OnlyParts(ts), NEW s \in {"stats", "txs", "utxo"}
    PROVE  Coming(b, Start(AddressRequests(id), n) \cup ts, s, Get(s, id), n)
<1> DEFINE S == {"stats", "txs", "utxo", "summary"} \cup IF id \in HexIds THEN {"mempool"} ELSE {}
<1>1. AddressRequests(id) = {To(t, Get(t, id)): t \in S}
  BY DEF AddressRequests
<1>2. s \in S /\ s # "parts"
  OBVIOUS
<1> HIDE DEF S
<1> QED BY <1>1, <1>2, SameComing

LEMMA FreshBlocks ==
    ASSUME NEW start, NEW n, NEW b, NEW ts, OnlyParts(ts)
    PROVE  Coming(b, Start({To("blocks", GetAt("blocks", NoId, <<start>>))}, n) \cup ts,
                  "blocks", GetAt("blocks", NoId, <<start>>), n)
<1> DEFINE r == GetAt("blocks", NoId, <<start>>)
<1>1. NoTask(ts, "blocks")
  BY DEF NoTask, OnlyParts
<1>2. To("blocks", r) \in {To("blocks", r)} /\ \A x \in {To("blocks", r)} : x.to = "blocks" => x.req = r
  BY DEF To
<1> HIDE DEF r
<1>3. Coming(b, Start({To("blocks", r)}, n) \cup ts, "blocks", r, n)
  BY <1>1, <1>2, ComingNew
<1> QED BY <1>3 DEF r

LEMMA FreshWallet ==
    ASSUME NEW vals, NEW n, NEW ts, OnlyParts(ts), NEW ts2,
           ts2 = Start({To("rows", r): r \in RowRequests(vals)} \cup PostRequests(vals), n) \cup ts
    PROVE  WalletFits(vals, n, EmptyRows(RowRequests(vals)), ts2)
<1> DEFINE reqs == {To("rows", r): r \in RowRequests(vals)} \cup PostRequests(vals)
<1>1. \A r \in RowRequests(vals) : To("rows", r) \in reqs
  OBVIOUS
<1>2. ASSUME NEW x \in reqs, x.to = "rows" PROVE x.req \in RowRequests(vals)
  <2>1. x \notin PostRequests(vals)
    <3>1. "rows" \notin ManySlots
      BY DEF ManySlots
    <3> QED BY <1>2, <3>1, PostsSendable
  <2>2. PICK r \in RowRequests(vals) : x = To("rows", r)
    BY <2>1
  <2> QED BY <2>2 DEF To
<1>3. DOMAIN EmptyRows(RowRequests(vals)) = RowRequests(vals)
  BY DEF EmptyRows
<1> HIDE DEF reqs
<1>4. ts2 = Start(reqs, n) \cup ts
  BY DEF reqs
<1>5. ASSUME NEW r \in RowRequests(vals) PROVE Pend("rows", r, n) \in ts2
  BY <1>1, <1>4, StartIs DEF To
<1>6. ASSUME NEW c \in ts2, c.to = "rows" PROVE c.req \in RowRequests(vals) /\ c.net = n
  <2>1. c \in Start(reqs, n)
    BY <1>4, <1>6 DEF OnlyParts
  <2>2. PICK x \in reqs : c = Pend(x.to, x.req, n)
    BY <2>1, StartIs
  <2> QED BY <1>2, <1>6, <2>2 DEF Pend
<1> QED BY <1>3, <1>5, <1>6 DEF WalletFits

LEMMA FreshBlock ==
    ASSUME NEW kind \in BlockPages, NEW id \in BlockHashes \cup BlockHeights, NEW start,
           NEW n \in Nets, NEW sl, NEW ts, OnlyParts(ts), NEW made,
           NEW p, p = Page(kind, id, start),
           NEW ts2, ts2 = Start(Opened(p, sl, n, made), n) \cup ts,
           NEW ls, ls = {[id |-> id, start |-> start, todo |-> BlockPlan(id, start), net |-> n]}
    PROVE  BlockFits(p, n, sl, ts2, ls, n)
<1>1. p.kind = kind /\ p.id = id /\ p.start = start
  BY DEF Page
<1> DEFINE reqs == Opened(p, sl, n, made)
<1>2. reqs = RouteStatus(p) \cup BlockExtras(p, sl)
  BY <1>1 DEF Opened, BlockPages
<1> HIDE DEF reqs
<1>3. ts2 = Start(reqs, n) \cup ts
  BY DEF reqs
<1>4. ASSUME NEW x \in reqs
      PROVE  \/ x.to = "status" /\ id \in BlockHashes /\ x.req = Get("status", id)
             \/ x.to = "header" /\ \E h \in BlockHash(p, sl) : x.req = Get("header", h)
             \/ x.to = "batch"
  <2>1. CASE x \in RouteStatus(p)
    BY <1>1, <2>1 DEF RouteStatus, StatusOf, To
  <2>2. CASE x \in BlockExtras(p, sl)
    BY <2>2, ExtrasGo DEF To
  <2> QED BY <1>2, <2>1, <2>2
<1>5. \A s : s # "parts" => NoTask(ts, s)
  BY DEF NoTask, OnlyParts
<1>6. \A s \in {"block", "txs", "txids", "height"} : NoTask(ts2, s)
  BY <1>3, <1>4, <1>5, NoTaskStart
<1>7. ASSUME id \in BlockHashes PROVE HashFits(p, n, sl, ts2, ls, n)
  <2>1. BlockHash(p, sl) = {id}
    BY <1>1, <1>7 DEF BlockHash
  <2>2. To("header", Get("header", id)) \in reqs
    BY <1>2, <2>1 DEF BlockExtras
  <2>3. To("status", Get("status", id)) \in reqs
    BY <1>1, <1>2, <1>7 DEF RouteStatus, StatusOf
  <2>4. Coming(sl["status"], ts2, "status", Get("status", id), n)
    <3>1. \A x \in reqs : x.to = "status" => x.req = Get("status", id)
      BY <1>4
    <3>2. NoTask(ts, "status")
      BY <1>5
    <3> QED BY <1>3, <2>3, <3>1, <3>2, ComingNew
  <2>5. Coming(sl["header"], ts2, "header", Get("header", id), n)
    <3>1. \A x \in reqs : x.to = "header" => x.req = Get("header", id)
      BY <1>4, <2>1
    <3>2. NoTask(ts, "header")
      BY <1>5
    <3> QED BY <1>3, <2>2, <3>1, <3>2, ComingNew
  <2>6. Loading(sl, ls, n, id, start, n)
    <3>1. BlockPlan(id, start) = Left(id, start, 1)
      <4>1. id \notin BlockHeights
        BY <1>7, WebAssumption DEF HexIds
      <4> QED BY <4>1, LeftFirst DEF BlockPlan
    <3> DEFINE l == [id |-> id, start |-> start, todo |-> BlockPlan(id, start), net |-> n]
    <3>2. l.net = n /\ l.todo = Left(id, start, 1) /\ ls = {l}
      BY <3>1
    <3> HIDE DEF l
    <3> QED BY <3>2 DEF Loading, LoadStage
  <2> QED BY <1>1, <2>4, <2>5, <2>6 DEF HashFits
<1>8. ASSUME id \notin BlockHashes PROVE HeightFits(p, n, sl, ts2, ls, n)
  <2>1. NoTask(ts2, "status")
    BY <1>3, <1>4, <1>5, <1>8, NoTaskStart
  <2>2. ls = {HeightLoad(id, start, n)}
    BY <1>8 DEF BlockPlan, HeightLoad, HeightStep
  <2> QED BY <1>1, <2>1, <2>2 DEF HeightFits
<1> QED BY <1>1, <1>6, <1>7, <1>8 DEF BlockFits

(* A page opened while nothing was under way. *)
LEMMA FreshFits ==
    ASSUME NEW kind \in Kinds, NEW id \in Ids(kind), NEW start, NEW n \in Nets, NEW made \in BOOLEAN,
           made = TRUE \/ kind \notin {"tx", "wallet"},
           NEW p, p = Page(kind, id, start), NEW old, NEW sl, sl = Cleared(p, old),
           NEW rs, kind = "wallet" => rs = EmptyRows(RowRequests({id})),
           NEW ts, OnlyParts(ts), NEW ts2, ts2 = Start(Opened(p, sl, n, made), n) \cup ts,
           NEW ls, kind \in BlockPages =>
                ls = {[id |-> id, start |-> start, todo |-> BlockPlan(id, start), net |-> n]}
    PROVE  PageFits(p, n, {id}, sl, rs, ts2, ls, n)
<1>1. p.kind = kind /\ p.id = id /\ p.start = start
  BY DEF Page
<1>2. ASSUME kind \in BlockPages PROVE BlockFits(p, n, sl, ts2, ls, n)
  <2>1. id \in BlockHashes \cup BlockHeights
    BY <1>2 DEF Ids, BlockPages
  <2> QED BY <1>2, <2>1, FreshBlock
<1>3. ASSUME kind = "address", NEW s \in {"stats", "txs", "utxo"}
      PROVE  Coming(sl[s], ts2, s, Get(s, id), n)
  <2>1. Opened(p, sl, n, made) = AddressRequests(id)
    BY <1>1, <1>3 DEF Opened
  <2> QED BY <2>1, FreshAddress
<1>4. ASSUME kind = "asset" PROVE AssetFits(p, n, sl, ts2)
  <2>1. Opened(p, sl, n, made) = AssetRequests(n, p.id)
    BY <1>1, <1>4 DEF Opened
  <2>2. \A s \in {"asset", "txs", "entry", "supply"} : sl[s] = Unset
    BY <1>1, <1>4, SlotFacts DEF Cleared, AssetSlots
  <2> QED BY <2>1, <2>2, FreshAsset
<1>5. ASSUME kind = "entry", n = LiquidNet
      PROVE  Coming(sl["entry"], ts2, "entry", Get("entry", id), n)
  <2>1. Opened(p, sl, n, made) = EntryRequests(LiquidNet, p.id)
    BY <1>1, <1>5 DEF Opened
  <2> QED BY <1>1, <1>5, <2>1, FreshEntry
<1>6. ASSUME kind = "blocks"
      PROVE  Coming(sl["blocks"], ts2, "blocks", GetAt("blocks", NoId, <<start>>), n)
  <2>1. Opened(p, sl, n, made) = {To("blocks", GetAt("blocks", NoId, <<start>>))}
    BY <1>1, <1>6 DEF Opened
  <2> QED BY <2>1, FreshBlocks
<1>7. ASSUME kind = "wallet" PROVE WalletFits({id}, n, rs, ts2)
  <2>1. made = TRUE
    BY <1>7
  <2>2. Opened(p, sl, n, made) = {To("rows", r): r \in RowRequests({id})} \cup PostRequests({id})
    BY <1>1, <1>7, <2>1 DEF Opened
  <2>3. ts2 = Start({To("rows", r): r \in RowRequests({id})} \cup PostRequests({id}), n) \cup ts
    BY <2>2
  <2>4. WalletFits({id}, n, EmptyRows(RowRequests({id})), ts2)
    BY <2>3, FreshWallet
  <2> QED BY <1>7, <2>4
<1> QED BY <1>1, <1>2, <1>3, <1>4, <1>5, <1>6, <1>7 DEF PageFits

LEMMA NavigateCalm ==
    ASSUME WebType, AskedInv, CalmInv, calm' = TRUE,
           NEW kind \in Kinds, NEW id \in Ids(kind), NEW start, Navigate(kind, id, start)
    PROVE  PageFits(asked'.page, asked'.net, asked'.values, slot', rows', tasks', loads', net')
<1> DEFINE p == Page(kind, id, start)
           made == page.kind # kind
           sl == Cleared(p, IF made THEN Empty ELSE slot)
           left == IF made THEN {c \in tasks: c.to = "parts"} ELSE tasks
<1>1. /\ slot' = sl /\ net' = net /\ net \in Nets
      /\ tasks' = Start(Opened(p, sl, net, made), net) \cup left
      /\ rows' = IF ~made THEN rows ELSE IF kind = "wallet" THEN EmptyRows(RowRequests({id})) ELSE NoRows
  BY DEF Navigate, WebType
<1>2. CASE made \/ kind \notin {"tx", "wallet"}
  <2>1. Quiet /\ asked' = [page |-> p, net |-> net, values |-> {id}]
    BY <1>2 DEF Navigate
  <2>2. OnlyParts(left)
    BY <2>1 DEF Quiet, OnlyParts
  <2>3. kind \in BlockPages =>
            loads' = {[id |-> id, start |-> start, todo |-> BlockPlan(id, start), net |-> net]}
    BY <2>1 DEF Navigate, BlockPages, Quiet
  <2>4. kind = "wallet" => rows' = EmptyRows(RowRequests({id}))
    BY <1>1, <1>2
  <2>5. made \in BOOLEAN /\ (made = TRUE \/ kind \notin {"tx", "wallet"})
    BY <1>2
  <2> DEFINE old == IF made THEN Empty ELSE slot
  <2>6. sl = Cleared(p, old) /\ p = Page(kind, id, start)
    OBVIOUS
  <2>7. asked'.page = p /\ asked'.net = net /\ asked'.values = {id}
    BY <2>1
  <2> HIDE DEF p, made, sl, left, old
  <2>8. PageFits(p, net, {id}, sl, rows', tasks', loads', net)
    BY <1>1, <2>2, <2>3, <2>4, <2>5, <2>6, FreshFits
  <2> QED BY <1>1, <2>7, <2>8
<1>3. CASE ~made /\ kind \in {"tx", "wallet"}
  <2>1. calm = TRUE /\ asked' = asked /\ rows' = rows /\ left = tasks
    BY <1>1, <1>3 DEF Navigate, WebType, Quiet
  <2>2. asked.page.kind = kind
    BY <1>3 DEF AskedInv
  <2>3. kind = "wallet" => WalletFits(asked.values, asked.net, rows, tasks)
    BY <2>1, <2>2 DEF CalmInv, PageFits
  <2>4. kind = "wallet" => Opened(p, sl, net, made) = {}
    BY <1>3 DEF Opened, Page
  <2>5. kind = "wallet" => tasks' = tasks
    <3>1. Start({}, net) = {}
      BY DEF Start
    <3> HIDE DEF p, sl, made, left
    <3> QED BY <1>1, <2>1, <2>4, <3>1
  <2> QED BY <1>3, <2>1, <2>2, <2>3, <2>5 DEF PageFits, BlockPages
<1> QED BY <1>2, <1>3

LEMMA IdleSame ==
    ASSUME NEW p, NEW n, NEW sl, NEW ts, NEW nt, NEW nt2, NEW sl2, BlockFits(p, n, sl, ts, {}, nt),
           \A s \in {"block", "txs", "txids", "height", "status", "header"} : sl2[s] = sl[s]
    PROVE  BlockFits(p, n, sl2, ts, {}, nt2)
<1>1. ASSUME NEW h, NEW s, Loading(sl, {}, nt, h, s, n) PROVE Loading(sl2, {}, nt2, h, s, n)
  <2>1. LoadedBlock(sl, h, s, n)
    BY <1>1 DEF Loading
  <2> QED BY <2>1 DEF Loading, LoadedBlock
<1>2. HashFits(p, n, sl, ts, {}, nt) => HashFits(p, n, sl2, ts, {}, nt2)
  BY <1>1 DEF HashFits
<1>3. HeightFits(p, n, sl, ts, {}, nt) => HeightFits(p, n, sl2, ts, {}, nt2)
  BY <1>1 DEF HeightFits
<1> QED BY <1>2, <1>3 DEF BlockFits

LEMMA SwitchCalm ==
    ASSUME WebType, AskedInv, CalmInv, calm' = TRUE, NEW n \in Nets, SwitchNetwork(n)
    PROVE  PageFits(asked'.page, asked'.net, asked'.values, slot', rows', tasks', loads', net')
<1> DEFINE again == page.kind \in {"asset", "assets", "registry", "entry"}
<1>1. Quiet /\ (again \/ calm = TRUE) /\ slot' = Cleared(page, slot) /\ rows' = rows
      /\ asked.page.kind = page.kind
  BY DEF SwitchNetwork, WebType, AskedInv
<1>2. OnlyParts(tasks) /\ loads = {} /\ loads' = {} /\ net' = n
  BY <1>1 DEF Quiet, OnlyParts, SwitchNetwork
<1>3. CASE again
  <2>1. asked' = [asked EXCEPT !.net = n] /\ page = asked.page
    BY <1>3 DEF SwitchNetwork, AskedInv
  <2>2. asked'.page = page /\ asked'.net = n
    BY <2>1 DEF AskedInv
  <2>3. CASE page.kind = "asset"
    <3>1. Opened(page, slot, n, FALSE) = AssetRequests(n, page.id)
      BY <2>3 DEF Opened
    <3>2. tasks' = Start(AssetRequests(n, page.id), n) \cup tasks
      BY <2>3, <3>1 DEF SwitchNetwork
    <3>3. \A s \in {"asset", "txs", "entry", "supply"} : slot'[s] = Unset
      BY <1>1, <2>3, SlotFacts DEF Cleared, AssetSlots
    <3>4. AssetFits(page, n, slot', tasks')
      BY <1>2, <3>2, <3>3, FreshAsset
    <3> QED BY <2>2, <2>3, <3>4 DEF PageFits, BlockPages
  <2>4. CASE page.kind = "entry"
    <3>1. Opened(page, slot, n, FALSE) = EntryRequests(n, page.id)
      BY <2>4 DEF Opened
    <3>2. tasks' = Start(EntryRequests(n, page.id), n) \cup tasks
      BY <2>4, <3>1 DEF SwitchNetwork
    <3>3. n = LiquidNet => Coming(slot'["entry"], tasks', "entry", Get("entry", page.id), n)
      BY <1>2, <3>2, FreshEntry
    <3> QED BY <2>2, <2>4, <3>3 DEF PageFits, BlockPages
  <2>5. CASE page.kind \in {"assets", "registry"}
    BY <2>2, <2>5 DEF PageFits, BlockPages
  <2> QED BY <1>3, <2>3, <2>4, <2>5
<1>4. CASE ~again
  <2>1. calm = TRUE /\ asked' = asked /\ tasks' = tasks
    BY <1>1, <1>4 DEF SwitchNetwork
  <2>2. PageFits(asked.page, asked.net, asked.values, slot, rows, tasks, {}, net)
    BY <1>2, <2>1 DEF CalmInv
  <2>3. \A s \in Slots : slot'[s] = slot[s]
    BY <1>1, <1>4 DEF Cleared
  <2>4. ASSUME asked.page.kind \in BlockPages PROVE BlockFits(asked.page, asked.net, slot', tasks, {}, n)
    <3>1. BlockFits(asked.page, asked.net, slot, tasks, {}, net)
      BY <2>2, <2>4 DEF PageFits
    <3>2. \A s \in {"block", "txs", "txids", "height", "status", "header"} : slot'[s] = slot[s]
      BY <2>3, SlotFacts DEF BlockSlots
    <3> QED BY <3>1, <3>2, IdleSame
  <2>5. \A s \in {"stats", "txs", "utxo", "blocks"} : slot'[s] = slot[s]
    BY <2>3, SlotFacts DEF AddressSlots, HomeSlots
  <2> QED BY <1>1, <1>2, <1>4, <2>1, <2>2, <2>4, <2>5 DEF PageFits
<1> QED BY <1>3, <1>4

LEMMA SearchCalm ==
    ASSUME WebType, AskedInv, CalmInv, calm' = TRUE, NEW text, Search(text)
    PROVE  PageFits(asked'.page, asked'.net, asked'.values, slot', rows', tasks', loads', net')
<1> DEFINE reqs == {To("parts", r): r \in SearchPlan(text, net = LiquidNet)}
<1>1. /\ asked' = asked /\ slot' = slot /\ rows' = rows /\ loads' = loads /\ net' = net /\ calm' = calm
      /\ tasks' = tasks \cup Start(reqs, net)
  BY DEF Search
<1>2. \A x \in reqs : x.to = "parts"
  BY DEF To
<1> HIDE DEF reqs
<1>3. ASSUME NEW c \in tasks', c \notin tasks PROVE c.to = "parts"
  <2>1. PICK x \in reqs : c = Pend(x.to, x.req, net)
    BY <1>1, <1>3, StartIs
  <2> QED BY <1>2, <2>1 DEF Pend
<1>4. "parts" \notin Watched(asked.page.kind)
  BY DEF Watched
<1>5. PageFits(asked.page, asked.net, asked.values, slot, rows, tasks, loads, net)
  BY <1>1 DEF CalmInv
<1>6. tasks \subseteq tasks' /\ \A c \in tasks' : c \in tasks \/ c.to \notin Watched(asked.page.kind)
  BY <1>1, <1>3, <1>4
<1> QED BY <1>1, <1>5, <1>6, FitsMore

LEMMA PressCalm ==
    ASSUME WebType, AskedInv, CalmInv, calm' = TRUE, PressButton
    PROVE  PageFits(asked'.page, asked'.net, asked'.values, slot', rows', tasks', loads', net')
<1>1. PICK x \in Buttons : tasks' = tasks \cup Start({x}, net)
  BY DEF PressButton
<1>2. asked' = asked /\ slot' = slot /\ rows' = rows /\ loads' = loads /\ net' = net /\ calm = TRUE
  BY DEF PressButton, WebType
<1>3. asked.page.kind = page.kind
  BY DEF AskedInv
<1>4. x.to \notin Watched(asked.page.kind)
  <2>1. /\ x.to \in {"mempool", "summary", "chain", "later", "found", "txids", "response"}
        /\ page.kind \in {"address", "asset", "assets", "registry", "mempool", "push"}
    BY ButtonsGo
  <2> QED BY <1>3, <2>1 DEF Watched, BlockPages
<1>5. ASSUME NEW c \in tasks', c \notin tasks PROVE c.to = x.to
  <2>1. PICK y \in {x} : c = Pend(y.to, y.req, net)
    BY <1>1, <1>5, StartIs
  <2> QED BY <2>1 DEF Pend
<1>6. PageFits(asked.page, asked.net, asked.values, slot, rows, tasks, loads, net)
  BY <1>2 DEF CalmInv
<1>7. tasks \subseteq tasks' /\ \A c \in tasks' : c \in tasks \/ c.to \notin Watched(asked.page.kind)
  BY <1>1, <1>4, <1>5
<1> QED BY <1>2, <1>6, <1>7, FitsMore

LEMMA LoadAddressesCalm ==
    ASSUME WebType, AskedInv, CalmInv, calm' = TRUE, NEW values, LoadAddresses(values)
    PROVE  PageFits(asked'.page, asked'.net, asked'.values, slot', rows', tasks', loads', net')
<1>1. Quiet /\ page.kind = "wallet" /\ rows' = EmptyRows(RowRequests(values))
      /\ asked' = [asked EXCEPT !.values = values, !.net = net]
  BY DEF LoadAddresses
<1>2. asked.page.kind = "wallet"
  BY <1>1 DEF AskedInv
<1>3. asked'.page.kind = "wallet" /\ asked'.values = values /\ asked'.net = net
  BY <1>1, <1>2 DEF AskedInv
<1>4. tasks' = Start({To("rows", r): r \in RowRequests(values)} \cup PostRequests(values), net) \cup tasks
  BY DEF LoadAddresses
<1>5. OnlyParts(tasks)
  BY <1>1 DEF Quiet, OnlyParts
<1>6. WalletFits(values, net, rows', tasks')
  BY <1>1, <1>4, <1>5, FreshWallet
<1> QED BY <1>3, <1>6 DEF PageFits, BlockPages

LEMMA BlockAnswered ==
    ASSUME NEW p, NEW n, NEW sl, DOMAIN sl = Slots, NEW ts, NEW ls, NEW nt, BlockFits(p, n, sl, ts, ls, nt),
           NEW c \in ts, NEW ok
    PROVE  BlockFits(p, n, SetSlot(sl, c, ok), ts \ {c}, ls, nt)
<1> DEFINE sl2 == SetSlot(sl, c, ok)
           ts2 == ts \ {c}
<1>1. c.to \notin {"block", "txs", "txids", "height"}
  BY DEF BlockFits, NoTask
<1>2. {"block", "txs", "txids", "height", "status", "header"} \subseteq Slots
  BY SlotFacts DEF BlockSlots
<1>3. \A s \in {"block", "txs", "txids", "height"} : sl2[s] = sl[s]
  BY <1>1, <1>2, SetOther
<1>4. ASSUME NEW s \in {"status", "header"}, NEW r, Coming(sl[s], ts, s, r, n)
      PROVE  Coming(sl2[s], ts2, s, r, n)
  <2>1. Coming(sl2[s], (ts \ {c}) \cup {}, s, r, n)
    BY <1>2, <1>4, ComingAnswered
  <2>2. (ts \ {c}) \cup {} = ts2
    OBVIOUS
  <2> QED BY <2>1, <2>2
<1>5. \A s : NoTask(ts, s) => NoTask(ts2, s)
  BY DEF NoTask
<1> HIDE DEF sl2, ts2
<1>6. ASSUME NEW h, NEW s, Loading(sl, ls, nt, h, s, n) PROVE Loading(sl2, ls, nt, h, s, n)
  BY <1>3, <1>6 DEF Loading, LoadedBlock, LoadStage
<1>7. HashFits(p, n, sl, ts, ls, nt) => HashFits(p, n, sl2, ts2, ls, nt)
  BY <1>4, <1>6 DEF HashFits
<1>8. HeightFits(p, n, sl, ts, ls, nt) => HeightFits(p, n, sl2, ts2, ls, nt)
  BY <1>3, <1>4, <1>5, <1>6 DEF HeightFits
<1>9. BlockFits(p, n, sl2, ts2, ls, nt)
  BY <1>5, <1>7, <1>8 DEF BlockFits
<1> QED BY <1>9 DEF sl2, ts2

LEMMA AnswerCalm ==
    ASSUME WebType, AskedInv, CalmInv, calm' = TRUE, NEW c \in tasks, NEW ok \in BOOLEAN, Answer(c, ok)
    PROVE  PageFits(asked'.page, asked'.net, asked'.values, slot', rows', tasks', loads', net')
<1> DEFINE reqs == Woken(page, c.to, slot')
           new == Start(reqs, net)
           p == asked.page
           n == asked.net
<1>1. /\ asked' = asked /\ loads' = loads /\ net' = net /\ calm = TRUE
      /\ slot' = SetSlot(slot, c, ok) /\ tasks' = (tasks \ {c}) \cup new
      /\ rows' = IF c.to = "rows" THEN PutRow(rows, c.req, Body(c, ok)) ELSE rows
  BY DEF Answer, SetSlot
<1>2. DOMAIN slot = Slots /\ p.kind = page.kind /\ (p.kind \notin {"tx", "wallet"} => page = p)
  BY DEF WebType, AskedInv
<1>3. PageFits(p, n, asked.values, slot, rows, tasks, loads, net)
  BY <1>1 DEF CalmInv
<1>4. ASSUME p.kind \notin BlockPages, NEW x \in new PROVE x.to = "rows" /\ p.kind \in {"tx", "address"}
  <2>1. PICK y \in reqs : x = Pend(y.to, y.req, net)
    BY StartIs
  <2>2. y.to = "rows" /\ page.kind \in {"tx", "address"}
    BY <1>2, <1>4, WokenGoes
  <2> QED BY <1>2, <2>1, <2>2 DEF Pend
<1> HIDE DEF new
<1>5. ASSUME p.kind \in BlockPages PROVE BlockFits(p, n, slot', tasks', loads, net)
  <2>1. BlockFits(p, n, slot, tasks, loads, net)
    BY <1>3, <1>5 DEF PageFits
  <2>2. c.to \notin {"block", "txs", "txids", "height"}
    BY <2>1 DEF BlockFits, NoTask
  <2>3. reqs = {}
    BY <1>2, <1>5, <2>2 DEF Woken, BlockPages
  <2>4. new = {}
    BY <2>3 DEF new, Start
  <2>5. tasks' = tasks \ {c}
    BY <1>1, <2>4
  <2>6. BlockFits(p, n, SetSlot(slot, c, ok), tasks \ {c}, loads, net)
    <3> HIDE DEF p, n
    <3> QED BY <1>2, <2>1, BlockAnswered
  <2> QED BY <1>1, <2>5, <2>6
<1>6. ASSUME NEW s \in Slots, NEW r, NEW m, p.kind \notin BlockPages, Coming(slot[s], tasks, s, r, m)
      PROVE  Coming(slot'[s], tasks', s, r, m)
  <2>1. \A x \in new : x.to # s
    BY <1>4, <1>6, SlotFacts
  <2> QED BY <1>1, <1>2, <1>6, <2>1, ComingAnswered
<1>7. ASSUME p.kind = "address", NEW s \in {"stats", "txs", "utxo"}
      PROVE  Coming(slot'[s], tasks', s, Get(s, p.id), n)
  <2>1. s \in Slots /\ p.kind \notin BlockPages /\ Coming(slot[s], tasks, s, Get(s, p.id), n)
    BY <1>3, <1>7, SlotFacts DEF PageFits, BlockPages, AddressSlots
  <2> QED BY <1>6, <2>1
<1>8. ASSUME p.kind = "asset" PROVE AssetFits(p, n, slot', tasks')
  <2>1. AssetFits(p, n, slot, tasks) /\ p.kind \notin BlockPages
    BY <1>3, <1>8 DEF PageFits, BlockPages
  <2> SUFFICES ASSUME NEW s \in {"asset", "txs", "entry", "supply"}
               PROVE  /\ n = LiquidNet => Coming(slot'[s], tasks', s, Get(s, p.id), n)
                      /\ n # LiquidNet => slot'[s] = Unset /\ NoTask(tasks', s)
    BY DEF AssetFits
  <2>2. s \in Slots
    BY SlotFacts DEF AssetSlots
  <2>3. CASE n = LiquidNet
    <3>1. Coming(slot[s], tasks, s, Get(s, p.id), n)
      BY <2>1, <2>3 DEF AssetFits
    <3> QED BY <1>6, <2>1, <2>2, <2>3, <3>1
  <2>4. CASE n # LiquidNet
    <3>1. slot[s] = Unset /\ NoTask(tasks, s)
      BY <2>1, <2>4 DEF AssetFits
    <3>2. c.to # s
      BY <3>1 DEF NoTask
    <3>3. slot'[s] = slot[s]
      BY <1>1, <1>2, <2>2, <3>2, SetOther
    <3>4. NoTask(tasks', s)
      BY <1>1, <1>4, <1>8, <2>1, <3>1 DEF NoTask
    <3> QED BY <2>4, <3>1, <3>3, <3>4
  <2> QED BY <2>3, <2>4
<1>9. ASSUME p.kind = "entry", n = LiquidNet
      PROVE  Coming(slot'["entry"], tasks', "entry", Get("entry", p.id), n)
  <2>1. "entry" \in Slots /\ p.kind \notin BlockPages /\ Coming(slot["entry"], tasks, "entry", Get("entry", p.id), n)
    BY <1>3, <1>9, SlotFacts DEF PageFits, BlockPages, AssetSlots
  <2> QED BY <1>6, <2>1
<1>10. ASSUME p.kind = "blocks"
       PROVE  Coming(slot'["blocks"], tasks', "blocks", GetAt("blocks", NoId, <<p.start>>), n)
  <2>1. "blocks" \in Slots /\ p.kind \notin BlockPages
        /\ Coming(slot["blocks"], tasks, "blocks", GetAt("blocks", NoId, <<p.start>>), n)
    BY <1>3, <1>10, SlotFacts DEF PageFits, BlockPages, HomeSlots
  <2> QED BY <1>6, <2>1
<1>11. ASSUME p.kind = "wallet" PROVE WalletFits(asked.values, n, rows', tasks')
  <2>1. WalletFits(asked.values, n, rows, tasks)
    BY <1>3, <1>11 DEF PageFits
  <2>2. new = {}
    BY <1>4, <1>11 DEF BlockPages
  <2>3. tasks' = tasks \ {c}
    BY <1>1, <2>2
  <2>4. CASE c.to # "rows"
    <3>1. rows' = rows /\ \A r : Pend("rows", r, n) # c
      BY <1>1, <2>4 DEF Pend
    <3> QED BY <2>1, <2>3, <3>1 DEF WalletFits
  <2>5. CASE c.to = "rows"
    <3>1. c.req \in DOMAIN rows /\ c.net = n
      BY <2>1, <2>5 DEF WalletFits
    <3>2. rows' = PutRow(rows, c.req, Body(c, ok))
      BY <1>1, <2>5
    <3>3. DOMAIN rows' = DOMAIN rows /\ \A r \in DOMAIN rows : r # c.req => rows'[r] = rows[r]
      BY <3>1, <3>2 DEF PutRow
    <3>4. rows'[c.req] # Unset /\ rows'[c.req].net = n
      <4>1. rows'[c.req] = [net |-> c.net, req |-> c.req, ok |-> ok]
        BY <3>2 DEF PutRow, Body
      <4> QED BY <3>1, <4>1, UnsetBody
    <3>5. \A r : r # c.req => Pend("rows", r, n) # c
      BY DEF Pend
    <3> HIDE DEF n
    <3> QED BY <2>1, <2>3, <3>1, <3>3, <3>4, <3>5 DEF WalletFits
  <2> QED BY <2>4, <2>5
<1> QED BY <1>1, <1>5, <1>7, <1>8, <1>9, <1>10, <1>11 DEF PageFits

(* The next answer of a block load. *)
LoadAnswer(sl, l, n, ok, x, b, sl2, r, ls) ==
    /\ DOMAIN sl = Slots /\ IsLoad(l) /\ l.net = n
    /\ x = Head(l.todo) /\ b = [net |-> n, req |-> x.req, ok |-> ok]
    /\ sl2 = [sl EXCEPT ![x.to] = b] /\ r = RestOfLoad(l, ok)
    /\ ls = IF r = <<>> THEN {} ELSE {[l EXCEPT !.todo = r, !.net = n]}

LEMMA LoadingAnswered ==
    ASSUME NEW sl, NEW l, NEW n, NEW ok, NEW x, NEW b, NEW sl2, NEW r, NEW ls, NEW h, NEW s,
           LoadAnswer(sl, l, n, ok, x, b, sl2, r, ls), LoadStage(sl, l.todo, h, s, n)
    PROVE  x.to \in {"block", "txs", "txids"} /\ Loading(sl2, ls, n, h, s, n)
<1> USE DEF LoadAnswer
<1> {"block", "txs", "txids"} \subseteq Slots
  BY SlotFacts DEF BlockSlots
<1>1. ASSUME r # <<>>, LoadStage(sl2, r, h, s, n) PROVE Loading(sl2, ls, n, h, s, n)
  <2> DEFINE m == [l EXCEPT !.todo = r, !.net = n]
  <2>1. m = [id |-> l.id, start |-> l.start, todo |-> r, net |-> n]
    BY LoadExcept DEF IsLoad
  <2>2. m.todo = r /\ m.net = n /\ ls = {m}
    BY <1>1, <2>1
  <2> HIDE DEF m
  <2> QED BY <1>1, <2>2 DEF Loading
<1>2. ASSUME r = <<>>, LoadedBlock(sl2, h, s, n) PROVE Loading(sl2, ls, n, h, s, n)
  BY <1>2 DEF Loading
<1>3. ShowsBody(b, x.req, n)
  BY BodyShows
<1>4. x.to # "height" => r = Tail(l.todo)
  BY DEF RestOfLoad
<1>5. CASE l.todo = Left(h, s, 1)
  <2>1. x = To("block", Get("block", h))
    BY <1>5, LeftHead
  <2>2. x.to = "block" /\ x.req = Get("block", h)
    BY <2>1 DEF To
  <2>3. r = Left(h, s, 2) /\ r # <<>>
    BY <1>4, <1>5, <2>2, LeftTail
  <2>4. ShowsBody(sl2["block"], Get("block", h), n)
    BY <1>3, <2>2
  <2> QED BY <1>1, <2>2, <2>3, <2>4 DEF LoadStage
<1>6. CASE l.todo = Left(h, s, 2) /\ ShowsBody(sl["block"], Get("block", h), n)
  <2>1. x = To("txs", Get("block/txs", h))
    BY <1>6, LeftHead
  <2>2. x.to = "txs" /\ x.req = Get("block/txs", h)
    BY <2>1 DEF To
  <2>3. r = Left(h, s, 3) /\ r # <<>>
    BY <1>4, <1>6, <2>2, LeftTail
  <2>4. ShowsBody(sl2["txs"], Get("block/txs", h), n) /\ sl2["block"] = sl["block"]
    BY <1>3, <2>2
  <2> QED BY <1>1, <1>6, <2>2, <2>3, <2>4 DEF LoadStage
<1>7. CASE /\ l.todo = Left(h, s, 3) /\ ShowsBody(sl["block"], Get("block", h), n)
           /\ ShowsBody(sl["txs"], Get("block/txs", h), n)
  <2>1. x = To("txids", Get("block/txids", h))
    BY <1>7, LeftHead
  <2>2. x.to = "txids" /\ x.req = Get("block/txids", h)
    BY <2>1 DEF To
  <2>3. r = Left(h, s, 4)
    BY <1>4, <1>7, <2>2, LeftTail
  <2>4. ShowsBody(sl2["txids"], Get("block/txids", h), n) /\ sl2["block"] = sl["block"] /\ sl2["txs"] = sl["txs"]
    BY <1>3, <2>2
  <2>5. CASE s \in Aligned
    <3>1. r # <<>>
      BY <2>3, <2>5, LeftTail
    <3> QED BY <1>1, <1>7, <2>2, <2>3, <2>4, <2>5, <3>1 DEF LoadStage
  <2>6. CASE s \notin Aligned
    <3>1. r = <<>>
      BY <2>3, <2>6, LeftTail
    <3>2. PageOfTxs(h, s) = Get("block/txs", h)
      BY <2>6 DEF PageOfTxs, Get, GetAt
    <3> QED BY <1>2, <1>7, <2>2, <2>4, <3>1, <3>2 DEF LoadedBlock
  <2> QED BY <2>5, <2>6
<1>8. CASE /\ s \in Aligned /\ l.todo = Left(h, s, 4) /\ ShowsBody(sl["block"], Get("block", h), n)
           /\ ShowsBody(sl["txids"], Get("block/txids", h), n)
  <2>1. x = To("txs", GetAt("block/txs", h, <<s>>))
    BY <1>8, LeftHead
  <2>2. x.to = "txs" /\ x.req = PageOfTxs(h, s)
    BY <1>8, <2>1 DEF To, PageOfTxs
  <2>3. r = <<>>
    BY <1>4, <1>8, <2>2, LeftTail
  <2>4. ShowsBody(sl2["txs"], PageOfTxs(h, s), n) /\ sl2["block"] = sl["block"] /\ sl2["txids"] = sl["txids"]
    BY <1>3, <2>2
  <2> QED BY <1>2, <1>8, <2>2, <2>3, <2>4 DEF LoadedBlock
<1> QED BY <1>5, <1>6, <1>7, <1>8 DEF LoadStage

LEMMA AnswerLoadCalm ==
    ASSUME WebType, AskedInv, CalmInv, calm' = TRUE, NEW l \in loads, NEW ok \in BOOLEAN, AnswerLoad(l, ok)
    PROVE  PageFits(asked'.page, asked'.net, asked'.values, slot', rows', tasks', loads', net')
<1> DEFINE p == asked.page
           n == asked.net
           x == Head(l.todo)
           b == [net |-> l.net, req |-> x.req, ok |-> ok]
           r == RestOfLoad(l, ok)
           reqs == Woken(page, x.to, slot')
           m == [l EXCEPT !.todo = r, !.net = net]
<1>1. /\ asked' = asked /\ net' = net /\ calm = TRUE
      /\ slot' = [slot EXCEPT ![x.to] = b] /\ tasks' = Start(reqs, net) \cup tasks
      /\ loads' = (loads \ {l}) \cup IF r = <<>> THEN {} ELSE {m}
  BY DEF AnswerLoad, RestOfLoad
<1>2. DOMAIN slot = Slots /\ IsLoad(l) /\ p.kind \in BlockPages /\ page = p /\ n \in Nets
      /\ p.id \in BlockHashes \cup BlockHeights
  BY DEF WebType, AskedInv, BlockPages
<1>3. BlockFits(p, n, slot, tasks, loads, net)
  BY <1>1, <1>2 DEF CalmInv, PageFits
<1>4. x.to \in {"height", "block", "txs", "txids"}
  BY <1>2, LoadHead
<1>5. ASSUME NEW y \in reqs
      PROVE  \/ x.to = "height" /\ y \in HeightStatus(slot'["height"])
             \/ \E h \in BlockHash(p, slot') : y = To("header", Get("header", h))
             \/ y.to = "batch"
  <2>1. y \in Woken(p, x.to, slot') /\ p.kind \in BlockPages
    BY <1>2
  <2> HIDE DEF p, x
  <2> QED BY <2>1, WokenGoes
<1>6. \A y \in reqs : y.to \in {"status", "header", "batch"} /\ (y.to = "status" => x.to = "height")
  BY <1>5 DEF HeightStatus, StatusOf, To
<1>7. {"height", "block", "txs", "txids", "status", "header"} \subseteq Slots
  BY SlotFacts DEF BlockSlots
<1>8. slot'["status"] = slot["status"] /\ slot'["header"] = slot["header"]
  BY <1>1, <1>2, <1>4, <1>7
<1>9. slot'[x.to] = b
  BY <1>1, <1>2, <1>4, <1>7
<1> HIDE DEF p, n, x, b, r, reqs, m
<1>10. \A s \in {"block", "txs", "txids", "height"} : NoTask(tasks', s)
  <2> TAKE s \in {"block", "txs", "txids", "height"}
  <2>1. NoTask(tasks, s)
    BY <1>3 DEF BlockFits
  <2>2. \A y \in reqs : y.to # s
    BY <1>6
  <2> QED BY <1>1, <2>1, <2>2, NoTaskStart
<1>11. ASSUME NEW h, NEW s, Loading(slot, loads, net, h, s, n)
       PROVE  /\ x.to \in {"block", "txs", "txids"} /\ net = n
              /\ Loading(slot', loads', net, h, s, n)
  <2>1. net = n /\ \E k : loads = {k} /\ k.net = n /\ LoadStage(slot, k.todo, h, s, n)
    BY <1>11 DEF Loading
  <2>2. loads = {l} /\ l.net = n /\ LoadStage(slot, l.todo, h, s, n)
    BY <2>1
  <2>3. loads' = IF r = <<>> THEN {} ELSE {[l EXCEPT !.todo = r, !.net = n]}
    BY <1>1, <2>1, <2>2 DEF m
  <2>4. b = [net |-> n, req |-> x.req, ok |-> ok] /\ x = Head(l.todo) /\ r = RestOfLoad(l, ok)
    BY <2>2 DEF b, x, r
  <2>5. DOMAIN slot = Slots /\ IsLoad(l) /\ slot' = [slot EXCEPT ![x.to] = b]
    BY <1>1, <1>2
  <2>6. x.to \in {"block", "txs", "txids"} /\ Loading(slot', loads', n, h, s, n)
    <3>1. LoadAnswer(slot, l, n, ok, x, b, slot', r, loads')
      BY <2>2, <2>3, <2>4, <2>5 DEF LoadAnswer
    <3> QED BY <2>2, <3>1, LoadingAnswered
  <2> QED BY <2>1, <2>6
<1>12. ASSUME x.to # "height", NEW q, Coming(slot["status"], tasks, "status", q, n)
       PROVE  Coming(slot'["status"], tasks', "status", q, n)
  <2>1. ASSUME NEW c \in Start(reqs, net) PROVE c.to # "status"
    <3>1. PICK y \in reqs : c = Pend(y.to, y.req, net)
      BY StartIs
    <3> QED BY <1>6, <1>12, <3>1 DEF Pend
  <2>2. tasks \subseteq tasks' /\ \A c \in tasks' : c \in tasks \/ c.to # "status"
    BY <1>1, <2>1
  <2> QED BY <1>8, <1>12, <2>2, ComingMore
<1>13. ASSUME p.id \in BlockHashes PROVE HashFits(p, n, slot', tasks', loads', net)
  <2>1. HashFits(p, n, slot, tasks, loads, net)
    BY <1>3, <1>13 DEF BlockFits
  <2>2. x.to \in {"block", "txs", "txids"} /\ net = n /\ Loading(slot', loads', net, p.id, p.start, n)
    BY <1>11, <2>1 DEF HashFits
  <2>3. Coming(slot'["status"], tasks', "status", Get("status", p.id), n)
    BY <1>12, <2>1, <2>2 DEF HashFits
  <2>4. ASSUME NEW c \in Start(reqs, net), c.to = "header" PROVE c = Pend("header", Get("header", p.id), n)
    <3>1. PICK y \in reqs : c = Pend(y.to, y.req, net)
      BY StartIs
    <3>2. y.to = "header"
      BY <2>4, <3>1 DEF Pend
    <3>3. BlockHash(p, slot') = {p.id}
      BY <1>13 DEF BlockHash
    <3>4. y = To("header", Get("header", p.id))
      BY <1>5, <2>2, <3>2, <3>3
    <3> QED BY <2>2, <3>1, <3>4 DEF To, Pend
  <2>5. Coming(slot["header"], tasks, "header", Get("header", p.id), n)
    BY <2>1 DEF HashFits
  <2>6. Coming(slot'["header"], tasks', "header", Get("header", p.id), n)
    BY <1>1, <1>8, <2>4, <2>5, ComingMore
  <2> QED BY <2>2, <2>3, <2>6 DEF HashFits
<1>14. ASSUME p.id \notin BlockHashes PROVE HeightFits(p, n, slot', tasks', loads', net)
  <2>1. HeightFits(p, n, slot, tasks, loads, net)
    BY <1>3, <1>14 DEF BlockFits
  <2>2. CASE net = n /\ loads = {HeightLoad(p.id, p.start, n)} /\ NoTask(tasks, "status")
    <3>1. l = HeightLoad(p.id, p.start, n)
      BY <2>2
    <3>2. l.id = p.id /\ l.start = p.start /\ l.net = n /\ l.todo = <<HeightStep(p.id)>>
      BY <3>1 DEF HeightLoad
    <3>3. x = HeightStep(p.id)
      BY <3>2 DEF x
    <3>4. x.to = "height" /\ x.req = Get("block-height", p.id)
      BY <3>3 DEF HeightStep, To
    <3>5. ShowsBody(slot'["height"], Get("block-height", p.id), n) /\ slot'["height"].ok = ok
      BY <1>9, <3>2, <3>4, BodyShows DEF b
    <3>6. CASE ok = FALSE
      <4>1. r = <<>>
        BY <3>4, <3>6 DEF r, RestOfLoad, x
      <4>2. loads' = {}
        BY <1>1, <2>2, <3>1, <4>1
      <4> QED BY <3>5, <3>6, <4>2 DEF HeightFits
    <3>7. CASE ok = TRUE
      <4> DEFINE h == HashAt[n][p.id]
      <4>1. r = Left(h, p.start, 1)
        <5>1. r = BlockAndTxs(h, p.start)
          BY <3>2, <3>4, <3>7 DEF r, RestOfLoad, x
        <5> HIDE DEF h
        <5> QED BY <5>1, LeftFirst
      <4>2. m = [id |-> l.id, start |-> l.start, todo |-> r, net |-> net]
        BY <1>2, LoadExcept DEF m, IsLoad
      <4>3. m.todo = r /\ m.net = n
        BY <2>2, <4>2
      <4>4. r # <<>>
        <5> HIDE DEF h
        <5> QED BY <4>1, LeftTail
      <4>5. loads' = {m}
        BY <1>1, <2>2, <3>1, <4>4
      <4>6. Loading(slot', loads', net, h, p.start, n)
        <5> HIDE DEF h
        <5> QED BY <2>2, <4>1, <4>3, <4>5 DEF Loading, LoadStage
      <4>7. HeightStatus(slot'["height"]) = {To("status", Get("status", h))}
        BY <3>5, <3>7 DEF HeightStatus, StatusOf, Parses, ShowsBody, Get
      <4>8. To("status", Get("status", h)) \in reqs
        BY <1>2, <3>4, <4>7 DEF reqs, Woken, BlockPages
      <4>9. \A y \in reqs : y.to = "status" => y.req = Get("status", h)
        <5> HIDE DEF h
        <5> QED BY <1>5, <4>7 DEF To
      <4>10. Coming(slot'["status"], tasks', "status", Get("status", h), n)
        <5> HIDE DEF h
        <5> QED BY <1>1, <2>2, <4>8, <4>9, ComingNew
      <4> QED BY <3>5, <3>7, <4>6, <4>10 DEF HeightFits
    <3> QED BY <3>6, <3>7
  <2>3. CASE /\ ShowsBody(slot["height"], Get("block-height", p.id), n)
             /\ slot["height"].ok = TRUE
             /\ Loading(slot, loads, net, HashAt[n][p.id], p.start, n)
             /\ Coming(slot["status"], tasks, "status", Get("status", HashAt[n][p.id]), n)
    <3>1. x.to \in {"block", "txs", "txids"} /\ Loading(slot', loads', net, HashAt[n][p.id], p.start, n)
      BY <1>11, <2>3
    <3>2. Coming(slot'["status"], tasks', "status", Get("status", HashAt[n][p.id]), n)
      BY <1>12, <2>3, <3>1
    <3>3. slot'["height"] = slot["height"]
      BY <1>1, <1>2, <1>7, <3>1
    <3> QED BY <2>3, <3>1, <3>2, <3>3 DEF HeightFits
  <2> QED BY <2>1, <2>2, <2>3 DEF HeightFits
<1>15. BlockFits(p, n, slot', tasks', loads', net)
  BY <1>10, <1>13, <1>14 DEF BlockFits
<1> QED BY <1>1, <1>2, <1>15 DEF PageFits, BlockPages, p, n

LEMMA CalmStep ==
    ASSUME WebType, AskedInv, CalmInv, WebNext
    PROVE  CalmInv'
<1> SUFFICES ASSUME calm' = TRUE
             PROVE  PageFits(asked'.page, asked'.net, asked'.values, slot', rows', tasks', loads', net')
  BY DEF CalmInv
<1> QED BY NavigateCalm, SwitchCalm, SearchCalm, PressCalm, LoadAddressesCalm, AnswerCalm, AnswerLoadCalm
        DEF WebNext

LEMMA PagesStart == WebInit => PagesInv
<1> SUFFICES ASSUME WebInit PROVE PagesInv
  OBVIOUS
<1>1. page.kind = "docs"
  BY DEF WebInit, Page
<1>2. WebType
  <2>1. tour.clicks \in Nat /\ MaxFails \in Nat
    BY WebAssumption DEF WebInit
  <2>2. clicks = 0 /\ fails = 0 /\ 0 \in 0..tour.clicks /\ 0 \in 0..MaxFails
    BY <2>1 DEF WebInit
  <2>3. slot = Empty /\ rows = NoRows /\ parts = NoRows /\ tasks = {} /\ loads = {} /\ calm = TRUE
        /\ net \in Nets /\ tour \in Tours
    BY DEF WebInit
  <2> QED BY <2>2, <2>3, EmptyTyped DEF WebType
<1>3. AskedInv
  <2>1. asked = [page |-> page, net |-> net, values |-> {}] /\ net \in Nets /\ loads = {}
    BY DEF WebInit
  <2> QED BY <1>1, <2>1 DEF AskedInv, BlockPages
<1>4. PartsInv
  <2>1. query = NoId
    BY DEF WebInit
  <2>2. NoId \notin BlockHeights /\ NoId \notin HexIds /\ NoId \notin Addrs /\ NoId \notin AddrPrefixes
    BY WebAssumption
  <2>3. SearchPlan(query, FALSE) = {}
    BY <2>1, <2>2 DEF SearchPlan
  <2> QED BY <2>3 DEF PartsInv
<1>5. CalmInv
  <2>1. asked.page.kind = "docs"
    BY <1>1 DEF WebInit
  <2> QED BY <2>1 DEF CalmInv, PageFits, BlockPages
<1> QED BY <1>2, <1>3, <1>4, <1>5 DEF PagesInv

LEMMA PagesStep == PagesInv /\ [WebNext]_webVars => PagesInv'
<1> SUFFICES ASSUME PagesInv, [WebNext]_webVars PROVE PagesInv'
  OBVIOUS
<1>1. CASE WebNext
  BY <1>1, WebTypeStep, AskedStep, PartsStep, CalmStep DEF PagesInv
<1>2. CASE UNCHANGED webVars
  <2>1. WebType'
    BY <1>2 DEF PagesInv, WebType, webVars
  <2>2. AskedInv'
    BY <1>2 DEF PagesInv, AskedInv, webVars
  <2>3. PartsInv'
    BY <1>2 DEF PagesInv, PartsInv, webVars
  <2>4. CalmInv'
    BY <1>2 DEF PagesInv, CalmInv, webVars
  <2> QED BY <2>1, <2>2, <2>3, <2>4 DEF PagesInv
<1> QED BY <1>1, <1>2

(* What an idle page shows. *)
LEMMA ComingShown ==
    ASSUME Quiet, NEW s \in Slots, NEW r, NEW n, Coming(slot[s], tasks, s, r, n)
    PROVE  ShowsBody(slot[s], r, n)
<1>1. Pend(s, r, n) \notin tasks
  BY SlotFacts DEF Quiet, Pend
<1> QED BY <1>1 DEF Coming

LEMMA BlockShown ==
    ASSUME Quiet, NEW p, BlockFits(p, asked.net, slot, tasks, loads, net)
    PROVE  IF p.id \in BlockHashes THEN ShowsHash(p) ELSE ShowsHeight(p)
<1> DEFINE n == asked.net
<1>1. loads = {} /\ "status" \in Slots /\ "header" \in Slots
  BY SlotFacts DEF Quiet, BlockSlots
<1>2. ASSUME NEW h, NEW s, Loading(slot, loads, net, h, s, n),
             Coming(slot["status"], tasks, "status", Get("status", h), n)
      PROVE  ShowsBlock(h, s)
  <2>1. LoadedBlock(slot, h, s, n)
    BY <1>1, <1>2 DEF Loading
  <2>2. ShowsBody(slot["status"], Get("status", h), n)
    BY <1>1, <1>2, ComingShown
  <2> QED BY <2>1, <2>2 DEF ShowsBlock, LoadedBlock, Answers, ShowsBody, PageOfTxs
<1>3. CASE p.id \in BlockHashes
  <2>1. HashFits(p, n, slot, tasks, loads, net)
    BY <1>3 DEF BlockFits
  <2>2. ShowsBlock(p.id, p.start)
    BY <1>2, <2>1 DEF HashFits
  <2>3. ShowsBody(slot["header"], Get("header", p.id), n)
    BY <1>1, <2>1, ComingShown DEF HashFits
  <2> QED BY <1>3, <2>2, <2>3 DEF ShowsHash, Answers, ShowsBody
<1>4. CASE p.id \notin BlockHashes
  <2>1. HeightFits(p, n, slot, tasks, loads, net)
    BY <1>4 DEF BlockFits
  <2>2. ShowsBody(slot["height"], Get("block-height", p.id), n)
    BY <1>1, <2>1 DEF HeightFits
  <2>3. slot["height"].ok = FALSE \/ ShowsBlock(HashAt[n][p.id], p.start)
    BY <1>1, <1>2, <2>1 DEF HeightFits
  <2> QED BY <1>4, <2>2, <2>3 DEF ShowsHeight, Answers, ShowsBody
<1> QED BY <1>3, <1>4

LEMMA PageShown == PagesInv => PageIsAsked
<1> SUFFICES ASSUME PagesInv, calm, Quiet PROVE PageIsAsked
  BY DEF PageIsAsked
<1> DEFINE p == asked.page
<1>1. PageFits(p, asked.net, asked.values, slot, rows, tasks, loads, net)
  <2>1. calm = TRUE
    BY DEF PagesInv, WebType
  <2> QED BY <2>1 DEF PagesInv, CalmInv
<1>2. CASE p.kind \in {"block", "block-height"}
  <2>1. BlockFits(p, asked.net, slot, tasks, loads, net)
    BY <1>1, <1>2 DEF PageFits, BlockPages
  <2>2. IF p.id \in BlockHashes THEN ShowsHash(p) ELSE ShowsHeight(p)
    BY <2>1, BlockShown
  <2> QED BY <1>2, <2>2 DEF PageIsAsked
<1>3. CASE p.kind = "address"
  <2>1. ASSUME NEW s \in {"stats", "txs", "utxo"} PROVE Answers(s, Get(s, p.id))
    <3>1. s \in Slots /\ Coming(slot[s], tasks, s, Get(s, p.id), asked.net)
      BY <1>1, <1>3, SlotFacts DEF PageFits, AddressSlots
    <3>2. ShowsBody(slot[s], Get(s, p.id), asked.net)
      <4> HIDE DEF p
      <4> QED BY <3>1, ComingShown
    <3> QED BY <3>2 DEF ShowsBody, Answers
  <2> QED BY <1>3, <2>1 DEF PageIsAsked
<1>4. CASE p.kind = "asset"
  <2>1. ASSUME NEW s \in {"asset", "txs", "entry", "supply"}
        PROVE  IF asked.net = LiquidNet THEN Answers(s, Get(s, p.id)) ELSE slot[s] = Unset
    <3>1. s \in Slots /\ AssetFits(p, asked.net, slot, tasks)
      BY <1>1, <1>4, SlotFacts DEF PageFits, AssetSlots
    <3>2. asked.net = LiquidNet => Coming(slot[s], tasks, s, Get(s, p.id), asked.net)
      BY <3>1 DEF AssetFits
    <3>3. asked.net # LiquidNet => slot[s] = Unset
      BY <3>1 DEF AssetFits
    <3> QED BY <3>1, <3>2, <3>3, ComingShown DEF ShowsBody, Answers
  <2> QED BY <1>4, <2>1 DEF PageIsAsked
<1>5. CASE p.kind = "entry"
  <2>1. ASSUME asked.net = LiquidNet PROVE Answers("entry", Get("entry", p.id))
    <3>1. "entry" \in Slots /\ Coming(slot["entry"], tasks, "entry", Get("entry", p.id), asked.net)
      BY <1>1, <1>5, <2>1, SlotFacts DEF PageFits, AssetSlots
    <3> QED BY <3>1, ComingShown DEF ShowsBody, Answers
  <2> QED BY <1>5, <2>1 DEF PageIsAsked
<1>6. CASE p.kind = "blocks"
  <2>1. "blocks" \in Slots /\ Coming(slot["blocks"], tasks, "blocks", GetAt("blocks", NoId, <<p.start>>), asked.net)
    BY <1>1, <1>6, SlotFacts DEF PageFits, HomeSlots
  <2>2. Answers("blocks", GetAt("blocks", NoId, <<p.start>>))
    BY <2>1, ComingShown DEF ShowsBody, Answers
  <2> QED BY <1>6, <2>2 DEF PageIsAsked
<1>7. CASE p.kind = "wallet"
  <2>1. WalletFits(asked.values, asked.net, rows, tasks)
    BY <1>1, <1>7 DEF PageFits
  <2>2. \A r : Pend("rows", r, asked.net) \notin tasks
    BY DEF Quiet, Pend
  <2>3. DOMAIN rows = RowRequests(asked.values) /\ \A r \in DOMAIN rows : rows[r] # Unset /\ rows[r].net = asked.net
    BY <2>1, <2>2 DEF WalletFits
  <2> QED BY <1>7, <2>3 DEF PageIsAsked
<1>8. CASE p.kind \notin {"block", "block-height", "address", "asset", "entry", "blocks", "wallet"}
  BY <1>8 DEF PageIsAsked
<1> QED BY <1>2, <1>3, <1>4, <1>5, <1>6, <1>7, <1>8

LEMMA SearchShown == PagesInv => SearchShowsQuery
<1> SUFFICES ASSUME PagesInv PROVE SearchShowsQuery
  OBVIOUS
<1> DEFINE liquid == net = LiquidNet
<1>1. liquid \in BOOLEAN
  OBVIOUS
<1>2. PaintedParts = {r \in DOMAIN parts: r \in SearchPlan(query, liquid)}
  BY DEF PaintedParts
<1> HIDE DEF liquid
<1>3. ASSUME NEW r \in SearchPlan(query, liquid) PROVE r.id = query
  BY DEF SearchPlan, Get
<1>4. ASSUME \A c \in tasks : c.to # "parts", NEW r \in SearchPlan(query, FALSE) PROVE r \in PaintedParts
  <2>1. r \in DOMAIN parts
    BY <1>4 DEF PagesInv, PartsInv
  <2>2. r \in SearchPlan(query, liquid)
    BY <1>1, SearchGrows
  <2> QED BY <1>2, <2>1, <2>2
<1> QED BY <1>2, <1>3, <1>4 DEF SearchShowsQuery

(* The web explorer shows what was asked for, for any blocks, addresses,    *)
(* assets and networks, any tour of a user and any number of failures: an  *)
(* answer that comes late, or after a switch of the network, never stays   *)
(* on a page that was opened while nothing was under way (frontend/web,    *)
(* the effects of the pages, load_block_signed and SearchBox).             *)
THEOREM PagesAsAsked == WebSpec => []PagesShowAsked
<1>1. PagesInv => PagesShowAsked
  <2> SUFFICES ASSUME PagesInv PROVE PagesShowAsked
    OBVIOUS
  <2>1. WebTypeOK
    BY DEF PagesInv, WebType, AskedInv, WebTypeOK, IsTask, Sendable, IsLoad
  <2>2. AssetsOfLiquid
    BY DEF PagesInv, WebType, IsTask, Sendable, AssetWhats, AssetsOfLiquid
  <2> QED BY <2>1, <2>2, PageShown, SearchShown DEF PagesShowAsked
<1> QED BY <1>1, PagesStart, PagesStep, PTL DEF WebSpec

=============================================================================
