---------------------------- MODULE ExplorersMC ----------------------------
(***************************************************************************)
(* The two explorers, in one run: the screens of the desktop explorer      *)
(* and its key, the pages of the web explorer, the labels of scripts and   *)
(* addresses, the paints, the walk along the blocks, the calculator, the   *)
(* transaction and the address page, and the pager.                        *)
(*                                                                         *)
(* They share no state, so they are composed as a sum: a behaviour is one  *)
(* of the part `active`, whose variables are held in x1, x2, ... in the    *)
(* order in which it declares them; the variables it does not need are     *)
(* Unused.  The screens, the key and the pages, whose theorems are about   *)
(* the properties checked here, have variables of their own.               *)
(***************************************************************************)
EXTENDS KeyStore, NativeScreens, WebPages, Integers, Sequences, TLC

CONSTANTS
    n1, n2, t1, h1, s1, as1, a1, p1, five, word, Nothing, Unused

VARIABLES active, x1, x2, x3, x4, x5, x6, x7

TripsMC ==
    {[screens |-> {"Block", "Address", "Mempool"}, texts |-> {t1, h1, s1, a1}, calls |-> 5],
     [screens |-> {"Dashboard", "Blocks", "Tx", "MultiAddress", "Rbf", "Broadcast", "TestTransactions",
                   "Calculator", "Static"},
      texts |-> {t1, h1, as1, five, a1, word}, calls |-> 4]}

HashAtMC == [n \in {"main", "liquid"} |-> [h \in {"h"} |-> IF n = "main" THEN "b1" ELSE "b2"]]
Tour(pages, ids, n, patient) == [pages |-> pages, ids |-> ids \cup {"none"}, clicks |-> n, patient |-> patient]
ToursMC ==
    {Tour({"block"}, {"b1", "h"}, 3, TRUE), Tour({"block"}, {"b1", "b2", "h"}, 2, TRUE),
     Tour({"block-height", "blocks"}, {"h"}, 3, FALSE),
     Tour({"tx", "mempool", "push"}, {"t1", "t2"}, 3, FALSE),
     Tour({"address"}, {"a1", "s"}, 3, TRUE), Tour({"address"}, {"a1", "s"}, 2, FALSE),
     Tour({"wallet"}, {"a1", "s"}, 3, FALSE),
     Tour({"asset", "assets", "registry", "entry"}, {"x"}, 3, FALSE),
     Tour({"search", "dashboard"}, {"x", "p"}, 3, FALSE), Tour({"search"}, {"h", "a1", "s"}, 2, FALSE)}

WitnessesMC == {<<>>, <<"script">>, <<"01", "script">>, <<"", "script">>, <<"pubkey", "script">>,
    <<"ord", "control">>, <<"ord", "control", "50">>, <<"ord", "50">>, <<"ord">>, <<"control", "ord">>}
AddressesMC == [prefix: {"bc1q", "bc1p", "1", "3"}, len: {25, 26, 34, 35, 38, 58}, one: BOOLEAN, listed: BOOLEAN]

Pool(padded) == [words |-> <<"pool">>, padded |-> padded]
Pools == {Pool(FALSE), Pool(TRUE)}
Ages == (UNION {{u - 1, u, u + 1} : u \in
             {60, 90, 5399, 5430, 86400, 174599, 174600, 604800, 2592000, 2721600,
              7560000, 31536000, 47952000, 63072000}}) \cup {0}
Ranges == {<<>>, <<1>>, <<1, 2, 3, 4, 9>>, <<1, 2, 3, 5, 9>>}
Token(v) == [value |-> v, hex |-> FALSE]
Hash == [value |-> 0, hex |-> TRUE]
Fragments == {<<>>, <<Token(3), Hash, Hash, Hash>>, <<Token(3), Hash, Hash>>,
                <<Token(3), Hash, Hash, Hash, Token(0), Hash, Hash, Hash>>, <<Token(3), Hash, Token(1), Hash>>,
                <<Token(3), Hash, Hash, Hash, Token(4), Hash, Hash, Hash, Token(1)>>}
Widths == {670, 671}
TxCounts == {0, 26, 75, 126}
AnyPaint == [pool |-> Pool(FALSE), age |-> 0, range |-> <<1>>,
          fragment |-> <<>>, width |-> 671, txs |-> 126]
PaintsMC == {[AnyPaint EXCEPT !.pool = x] : x \in Pools}
         \cup {[AnyPaint EXCEPT !.age = x] : x \in Ages}
         \cup {[AnyPaint EXCEPT !.range = x] : x \in Ranges}
         \cup {[AnyPaint EXCEPT !.fragment = x] : x \in Fragments}
         \cup {[AnyPaint EXCEPT !.width = x, !.txs = y] : x \in Widths, y \in TxCounts}

Entered(w, f) == [w |-> w, f |-> f, pad |-> FALSE, comma |-> FALSE]
Fractions == {<<>>, <<5>>, <<0, 0, 0, 1>>, <<1, 2, 3, 4, 9>>, <<9, 9, 9, 9, 9>>, <<4, 9, 9, 9>>}
BtcTextsMC == {Entered(w, f) : w \in {-1, 0, 1, 2, 3, 9, 19, 99}, f \in Fractions}
               \cup {[Entered(w, <<>>) EXCEPT !.pad = TRUE] : w \in {1, 3, 50}}
               \cup {[Entered(1, <<5>>) EXCEPT !.comma = TRUE]}
FiatTextsMC == {Entered(w, f) : w \in {-1, 0, 7, 12, 25}, f \in {<<>>, <<5>>, <<0, 4>>, <<9, 9, 5>>}}
               \cup {[Entered(7, <<5>>) EXCEPT !.comma = TRUE], Entered(1, <<0, 0, 0, 0, 1>>)}
SatsTextsMC == {-1, 0, 1, 7, 8, 9, 4999, 19999, 20000, 20001}

In(k, w, s, p) == [kind |-> k, witness |-> w, script_sig |-> s, script_pubkey |-> p]
Ins == {In("p2wpkh", 214, 0, 44), In("p2wsh", 0, 0, 68), In("p2tr", 130, 0, 68),
        In("p2sh-wpkh", 56, 46, 46), In("p2sh-wsh", 300, 70, 46), In("p2sh", 0, 60, 46),
        In("p2pkh", 0, 214, 50), In("bare", 0, 40, 120), In("none", 0, 0, 0)}
AnyTx == [vin |-> <<In("p2wpkh", 214, 0, 44)>>, vout |-> <<1, 2>>, size |-> 999, weight |-> 4, sigops |-> 0,
          fee |-> 0, version |-> 2, rows |-> 12]
TxsMC == {[AnyTx EXCEPT !.vin = v] : v \in {<<a>> : a \in Ins} \cup {<<a, In("p2wpkh", 0, 0, 44)>> : a \in Ins}}
      \cup {[AnyTx EXCEPT !.weight = w, !.size = z, !.sigops = s] :
              <<w, z, s>> \in {<<0, 0, 0>>, <<3, 999, 1>>, <<5, 1000, 0>>, <<1005, 1005, 50>>, <<7, 999994, 1000>>,
                               <<999999, 999999, 999>>, <<-1, 12345, 1>>, <<400, 1, -1>>, <<4000000, 1000000, 20>>}}
      \cup {[AnyTx EXCEPT !.rows = n, !.version = n % 3, !.vout = <<5, -1>>] :
              n \in {0, 17, 18, 1000, 1005, 1006, 2000}}

Labels == INSTANCE ScriptLabels WITH
    Kinds <- {"p2sh", "v0_p2wsh", "v1_p2tr"}, Keys <- {0, 2, 3}, Witnesses <- WitnessesMC,
    Addresses <- AddressesMC, MaxEdits <- 1,
    input <- x1, address <- x2, edits <- x3

Painter == INSTANCE Paints WITH
    SatsPerStep <- 2, MaxSum <- 7, Inputs <- PaintsMC,
    page <- x1, input <- x2, pc <- x3, slots <- x4, quit <- x5, result <- x6

Walk == INSTANCE BlockWalk WITH
    SatsPerStep <- 2, MaxSum <- 7, MaxTip <- 5,
    tip <- x1, latest <- x2, height <- x3, icons <- x4

Calc == INSTANCE Calculator WITH
    Decimals <- 4, Cap <- 2, MaxSats <- 400000, MaxFraction <- 4, UsdPerBtc <- 12,
    YenPerBtc <- 1106, BtcTexts <- BtcTextsMC, FiatTexts <- FiatTextsMC, SatsTexts <- SatsTextsMC,
    MaxEdits <- 4,
    form <- x1, web <- x2, edits <- x3, clean <- x4

Tx == INSTANCE TxPage WITH
    Txs <- TxsMC, FirstTips <- {399699, 477118},
    Networks <- {"Mainnet", "Testnet3", "Liquid"}, MaxBlocks <- 2,
    tx <- x1, network <- x2, tip <- x3, mined <- x4, native <- x5, web <- x6, blocks <- x7

Address == INSTANCE AddressPage WITH
    Coins <- {0, 1}, MaxEvents <- 3,
    coin <- x1, liquid <- x2, events <- x3, native <- x4, web <- x5

Paging == INSTANCE Pager WITH
    PageSize <- 3, TxCounts <- {1, 2, 3, 4, 6, 7, 11, 14, 15, 16, 19, 22},
    Starts <- {0, 3, 4, 12, 15, 30}, MaxStart <- 30,
    txs <- x1, start <- x2, shown <- x3, walked <- x4, seen <- x5

(* The variables a part with n of its own leaves alone.                    *)
Own == <<vars, screensVars, webVars>>
Others == <<x1, x2, x3, x4, x5, x6, x7>>
After3 == <<x4, x5, x6, x7>>
After4 == <<x5, x6, x7>>
After5 == <<x6, x7>>

UnusedAfter(n) ==
    /\ (n < 3 => x1 = Unused /\ x2 = Unused /\ x3 = Unused)
    /\ (n < 4 => x4 = Unused) /\ (n < 5 => x5 = Unused) /\ (n < 6 => x6 = Unused) /\ (n < 7 => x7 = Unused)

ExplorersInit ==
    /\ \/ active \in {"screens", "web", "keys"} /\ UnusedAfter(0)
       \/ active = "labels" /\ Labels!Init /\ UnusedAfter(3)
       \/ active = "paints" /\ Painter!Init /\ UnusedAfter(6)
       \/ active = "walk" /\ Walk!Init /\ UnusedAfter(4)
       \/ active = "calculator" /\ Calc!Init /\ UnusedAfter(4)
       \/ active = "tx" /\ Tx!Init
       \/ active = "address" /\ Address!Init /\ UnusedAfter(5)
       \/ active = "pager" /\ Paging!Init /\ UnusedAfter(5)
    /\ Init
    /\ ScreensInit /\ (active # "screens" => ui.net = n1 /\ trip.calls = 5)
    /\ WebInit /\ (active # "web" => net = "main" /\ "wallet" \in tour.pages)

ExplorersNext ==
    /\ UNCHANGED active
    /\ \/ active = "screens" /\ ScreensNext /\ UNCHANGED <<vars, webVars, Others>>
       \/ active = "web" /\ WebNext /\ UNCHANGED <<vars, screensVars, Others>>
       \/ active = "keys" /\ Next /\ UNCHANGED <<screensVars, webVars, Others>>
       \/ active = "labels" /\ Labels!Next /\ UNCHANGED <<Own, After3>>
       \/ active = "paints" /\ Painter!Next /\ UNCHANGED <<Own, x7>>
       \/ active = "walk" /\ Walk!Next /\ UNCHANGED <<Own, After4>>
       \/ active = "calculator" /\ Calc!Next /\ UNCHANGED <<Own, After4>>
       \/ active = "tx" /\ Tx!Next /\ UNCHANGED Own
       \/ active = "address" /\ Address!Next /\ UNCHANGED <<Own, After5>>
       \/ active = "pager" /\ Paging!Next /\ UNCHANGED <<Own, After5>>

ExplorersSpec ==
    ExplorersInit /\ [][ExplorersNext]_<<active, Own, Others>>

-----------------------------------------------------------------------------
(* Both explorers read a script the same way, but for a multisig count of  *)
(* five to eight bytes, which only native reads: an input gets at most one *)
(* label, a count is the count of the keys in the script, an inscription   *)
(* is found exactly in what a script-path spend reveals, and an address    *)
(* has at most one type.                                                   *)
LabelsAgree ==
    active = "labels" =>
        /\ Labels!OneLabel /\ Labels!CountsKeys /\ Labels!ParsersAgree
        /\ Labels!InscriptionIsRevealed /\ Labels!OneType

(* The fields of the calculator stay one amount on both explorers after    *)
(* any edits: within the cap as typed, the same after a switch of the      *)
(* currency, stable when what is shown is entered, rounded to the nearest  *)
(* satoshi.                                                                *)
AmountsAgree ==
    active = "calculator" =>
        /\ Calc!TypeOK /\ Calc!FieldsAgree /\ Calc!CappedAsTyped /\ Calc!SwitchKeepsAmount
        /\ Calc!ShownFiatIsStable /\ Calc!FrontendsAgree /\ Calc!SatsRounded

(* What both explorers compute for a transaction, an address or the pages  *)
(* of a block agrees with each other and with the answers it is computed   *)
(* from, read at different moments of a chain that goes on.                *)
FiguresAgree ==
    /\ active = "tx" => /\ Tx!TypeOK /\ Tx!CountsFromOne /\ Tx!BadgesAgree /\ Tx!WholeLinesAreGpui
                        /\ Tx!FiguresClose /\ Tx!RowsAccounted
    /\ active = "address" => Address!TypeOK /\ Address!BalanceIsUnspent /\ Address!AddressLinesAreGpui
    /\ active = "pager" => /\ Paging!TypeOK /\ Paging!WalkShowsAll /\ Paging!PagesLabelled
                           /\ Paging!PagersAgree

(* The walk from block to block never leads off the chain and is the one   *)
(* the walkthroughs paint; a paint whose window is open returns, with each *)
(* stage's own icons; and the age of a block is told within half a unit.   *)
WalksAndPaintsFit ==
    /\ active = "walk" => Walk!TypeOK /\ Walk!WalksOnChain /\ Walk!WalkthroughsFollowLinks
    /\ active = "paints" => /\ Painter!TypeOK /\ Painter!StagesOfTheirHeights
                            /\ Painter!OpenedPaintsReturn /\ Painter!AgeIsClose

-----------------------------------------------------------------------------
(* What comments of the code, or a reader, would say next, and what does   *)
(* not hold (README.md, "Statements that fail"): Explorers.cfg with one of *)
(* these, or LaunchShows of KeyStore, as its only INVARIANT shows how.     *)

(* An address with a 1 after its prefix has no bech32 type.                *)
OneIsOut == active = "labels" => Labels!OneIsOut

(* The multisig warning of a native segwit script is the same in both      *)
(* explorers.                                                              *)
WarningsAgree == active = "labels" => Labels!WarningsAgree

(* Both explorers find the same counts in every script.                    *)
ParsersAlwaysAgree == active = "labels" => Labels!ParsersAlwaysAgree

(* Both frontends show the same badges for every answer.                   *)
BadgesAlwaysAgree == active = "tx" => Tx!BadgesAlwaysAgree

(* The bitcoin field is capped at 21000000, whatever is typed.             *)
BtcCapped == active = "calculator" => Calc!BtcCapped

(* The web page rounds the weight half away from zero, as the desktop      *)
(* explorer does.                                                          *)
WeightHalfUp == active = "tx" => Tx!WeightHalfUp

(* The paint of a mined block returns for every name of a pool.            *)
MinedPaintReturns == active = "paints" => Painter!MinedPaintReturns
=============================================================================
