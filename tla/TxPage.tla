------------------------------- MODULE TxPage -------------------------------
(***************************************************************************)
(* The transaction page of both frontends.  The native screen reads the    *)
(* transaction, then the height of the tip, and paints lines; the web page *)
(* asks for both at once and repaints as answers come.  The web rows carry *)
(* "GPUI whole lines", lines meant to be the native ones.  Those about the *)
(* transaction as a whole (its headings, sizes, fee, output total, feature *)
(* label and confirmations) are computed twice in two ways, and compared   *)
(* here on the bodies the pages hold while blocks come and go.  The whole  *)
(* lines of a party and of the warning of similar addresses repeat text of *)
(* the body and are left out.                                              *)
(***************************************************************************)
EXTENDS Integers, Sequences, SequencesExt, FiniteSetsExt

CONSTANTS Txs,        \* transactions the indexer may hold
          FirstTips,  \* heights of the tip when the pages open
          Networks,   \* networks a user selects
          MaxBlocks   \* bound on blocks mined and undone

VARIABLES tx,       \* the transaction looked at
          network,  \* the network selected
          tip,      \* height of the indexer's tip
          mined,    \* height the transaction is mined at
          native,   \* the native load and the bodies it read
          web,      \* the web page's unanswered requests and its bodies
          blocks    \* blocks mined and undone so far

vars == <<tx, network, tip, mined, native, web, blocks>>

None   == -1
Absent == [confirmed |-> FALSE, height |-> -2]   \* no status, or no body yet

StatusOf(h) == [confirmed |-> h # None, height |-> h]

\* parse_transaction_json: weight and sigops are required.  one_tx gives no
\* transaction for a body without them, and what is made of it is empty.
Readable(t) == t.weight # None /\ t.sigops # None
-----------------------------------------------------------------------------
(* Rows of inputs and outputs.                                             *)

RowLimit == 12
Increment == 1000

\* A leftover of five gets a button.
TailOfFour(len, next) ==
  LET limit == Min({len, IF next THEN Increment ELSE RowLimit})
  IN  IF len - limit < 5 THEN len ELSE limit

transactions_list_limit(len, next) ==
  LET limit == Min({len, IF next THEN Increment ELSE RowLimit})
  IN  IF len - limit <= 5 THEN len ELSE limit

MoreNone == [label |-> "none", left |-> 0]

transactions_list_more_line(len) ==
  LET shown == transactions_list_limit(len, FALSE)
  IN  IF len <= shown THEN MoreNone
      ELSE [label |-> IF transactions_list_limit(len, TRUE) >= len THEN "Show all" ELSE "Show more",
            left |-> len - shown]

angular_row_limit(len, cap) == IF len - Min({cap, len}) <= 5 THEN len ELSE cap

show_more_button(len) ==
  LET shown == angular_row_limit(len, RowLimit)
  IN  IF len <= shown THEN MoreNone
      ELSE [label |-> IF angular_row_limit(len, Increment) >= len THEN "Show all" ELSE "Show more",
            left |-> len - shown]
-----------------------------------------------------------------------------
(* Sizes.  The unit is chosen from the raw count, before rounding.         *)

Unit(n) == IF n < 10 ^ 3 THEN 0 ELSE IF n < 10 ^ 6 THEN 1 ELSE IF n < 10 ^ 9 THEN 2 ELSE 3

\* Rounds half away from zero, in integers.
scale_hundredths(n, scale) ==
  (n * 100) \div scale + IF 2 * ((n * 100) % scale) >= scale THEN 1 ELSE 0

\* Rounds the product of a double: a tie may fall to either side of it, and
\* falls below for 1005, the case both frontends' comments name.
f64_hundredths(n, scale) ==
  (n * 100) \div scale + IF 2 * ((n * 100) % scale) > scale THEN 1 ELSE 0

\* Cuts the digits after the second.
Truncated(n) == [unit |-> Unit(n), hundredths |-> (n * 100) \div 1000 ^ Unit(n)]

bytes_pipe_text(n) == [unit |-> Unit(n), hundredths |-> f64_hundredths(n, 1000 ^ Unit(n))]
wu_bytes_pipe_text(n) == [unit |-> Unit(n), hundredths |-> scale_hundredths(n, 1000 ^ Unit(n))]
size_number_and_unit(n) == [unit |-> Unit(n), hundredths |-> f64_hundredths(n, 1000 ^ Unit(n))]
weight_number_and_unit(n) == [unit |-> Unit(n), hundredths |-> f64_hundredths(n, 1000 ^ Unit(n))]

\* max(weight / 4, sigops * 5) in hundredths; painted when it is whole and not one.
adjusted_vsize(weight, sigops) ==
  LET cents == Max({weight * 25, sigops * 500})
  IN  IF cents % 100 = 0 /\ cents # 100 THEN {<<"Adjusted vsize", cents \div 100>>} ELSE {}

\* The web page's, from the two decimals it prints.
adjusted_vsize_two_decimals(weight, sigops) ==
  LET cents == Max({weight * 25, sigops * 500})
  IN  IF cents % 100 = 0 /\ cents \div 100 # 1 THEN {<<"Adjusted vsize", cents \div 100>>} ELSE {}

\* One missing value omits the total.
output_total_words(values) ==
  IF \E i \in DOMAIN values : values[i] = None THEN {}
  ELSE {<<"Output total", FoldLeft(LAMBDA a, v : a + v, 0, values)>>}
-----------------------------------------------------------------------------
(* Feature badges.                                                         *)

Features == {"rbf", "segwit", "taproot"}

activation_height(feature, net) ==
  CASE net = "Mainnet"  -> [rbf |-> 399701, segwit |-> 477120, taproot |-> 709632][feature]
    [] net = "Testnet3" -> [rbf |-> 720255, segwit |-> 872730, taproot |-> 2032291][feature]
    [] net \in {"Testnet4", "Mutinynet"} -> 0
    [] OTHER -> None

\* A missing status is off, an unconfirmed transaction on.
feature_enabled(feature, status, net) ==
  /\ status # Absent
  /\ \/ ~status.confirmed
     \/ /\ status.height # None /\ activation_height(feature, net) # None
        /\ status.height >= activation_height(feature, net)

\* Half weight units an input saves and could have saved: witness and
\* script_sig count hex characters.
Savings(in) ==
  CASE in.kind \in {"p2wpkh", "p2wsh"} -> <<3 * in.witness, 0>>
    [] in.kind = "p2tr"      -> <<3 * in.witness + 252, 0>>
    [] in.kind = "p2sh-wpkh" -> <<3 * in.witness - 168, 168>>
    [] in.kind = "p2sh-wsh"  -> <<3 * in.witness - 280, 280>>
    [] in.kind \in {"p2pkh", "p2sh", "p2pk"} -> <<0, 3 * in.script_sig>>
    [] in.kind = "bare"      -> <<0, 3 * in.script_sig - in.script_pubkey>>
    [] OTHER                 -> <<0, 0>>    \* no previous output, another type

segwit_weight_savings(t) ==
  FoldLeft(LAMBDA acc, in : <<acc[1] + Savings(in)[1], acc[2] + Savings(in)[2]>>, <<0, 0>>, t.vin)

SegwitBadge(t) == segwit_weight_savings(t)[1] # 0 /\ segwit_weight_savings(t)[2] = 0

native_badges(t, status, net) ==
  IF net = "Liquid" THEN <<>>
  ELSE (IF \E f \in Features : feature_enabled(f, status, net) THEN <<"Features">> ELSE <<>>)
       \o (IF feature_enabled("segwit", status, net) /\ SegwitBadge(t) THEN <<"SegWit">> ELSE <<>>)
       \o (IF feature_enabled("taproot", status, net) THEN <<"Taproot">> ELSE <<>>)

\* A ratio by zero is truthy unless it is not a number: the badge needs what
\* is above the line only.
js_truthy_ratio(numerator) == numerator # 0

web_enabled(feature, status, net) ==
  /\ net # "Liquid" /\ status # Absent
  /\ status.confirmed => /\ status.height # None /\ activation_height(feature, net) # None
                         /\ status.height >= activation_height(feature, net)

web_badge(badge, t, status, net) ==
  LET gains == segwit_weight_savings(t)
      on    == CASE badge = "Features" -> \E f \in Features : web_enabled(f, status, net)
                 [] badge = "SegWit"   -> /\ web_enabled("segwit", status, net)
                                          /\ js_truthy_ratio(gains[1]) /\ ~js_truthy_ratio(gains[2])
                 [] OTHER              -> web_enabled("taproot", status, net)
  IN  IF on THEN <<badge>> ELSE <<>>

\* The mainnet badges of the row stay.
AddsToMainnet(t, status, net) ==
  LET Of(n) == web_badge("Features", t, status, n) \o web_badge("SegWit", t, status, n)
               \o web_badge("Taproot", t, status, n)
  IN  Of("Mainnet") \o Of(net)

\* transaction_row_markup paints mainnet badges, TransactionPage cuts each of
\* them out and appends the network's.  Both take them from one_tx.
web_badges(t, status, net) ==
  LET Of(badge, n) == IF Readable(t) THEN web_badge(badge, t, status, n) ELSE <<>>
      Row          == Of("Features", "Mainnet") \o Of("SegWit", "Mainnet") \o Of("Taproot", "Mainnet")
      Replaced(rows, badge) ==
        (IF Of(badge, "Mainnet") = <<>> THEN rows ELSE Remove(rows, badge)) \o Of(badge, net)
  IN  Replaced(Replaced(Replaced(Row, "Features"), "SegWit"), "Taproot")
-----------------------------------------------------------------------------
(* Confirmations.                                                          *)

Confirmations(h, t) == t - h + 1

\* Absent has no height.
HeightOf(status) == IF status = Absent THEN None ELSE status.height

confirmation_words(h, t) ==
  IF h # None /\ t # None THEN {<<"confirmations", Confirmations(h, t)>>}
  ELSE IF h # None THEN {<<"Confirmed">>}
  ELSE IF t # None THEN {<<"Unconfirmed">>} ELSE {}

\* The web page's lines: counts other than 1, 3 and 11 stay in the paragraph.
confirmation_markup(h, t) ==
  IF h # None /\ t # None
  THEN {<<"confirmations", n>> : n \in {Confirmations(h, t)} \cap {1, 3, 11}}
  ELSE confirmation_words(h, t)

BlockHeightLine(status) ==
  IF status # Absent /\ status.confirmed /\ status.height # None THEN {<<"Block height">>} ELSE {}
-----------------------------------------------------------------------------
(* The lines of the two pages.                                             *)

Timestamp(status) == IF status # Absent /\ status.confirmed THEN {<<"Timestamp">>} ELSE {}

\* The lines every transaction has, and the rate of a weight of four or more.
fee_lines(t) ==
  {<<"Fee", t.fee>>, <<"Version", t.version>>, <<"Locktime">>}
    \cup (IF t.weight = None \/ t.weight \div 4 = 0 THEN {} ELSE {<<"Fee rate">>})

native_virtual_size(t) ==
  {<<"Virtual size", t.weight \div 4>>, <<"Weight", wu_bytes_pipe_text(t.weight)>>}
    \cup {<<"virtual size", q>> : q \in {t.weight \div 4} \ {1}}

\* A missing weight or count of sigops omits the lines made of it.
native_lines(t, status, tipRead, net) ==
  {<<"Transaction">>, <<"Inputs & Outputs">>, <<"Details">>, <<"Size", bytes_pipe_text(t.size)>>}
    \cup fee_lines(t) \cup Timestamp(status) \cup output_total_words(t.vout)
    \cup (IF t.weight = None THEN {} ELSE native_virtual_size(t))
    \cup (IF t.weight = None \/ t.sigops = None THEN {} ELSE adjusted_vsize(t.weight, t.sigops))
    \cup (IF t.sigops = None THEN {} ELSE {<<"Sigops">>, <<"Sigops", t.sigops>>})
    \cup confirmation_words(HeightOf(status), tipRead) \cup BlockHeightLine(status)
    \cup {<<badge>> : badge \in ToSet(native_badges(t, status, net))}

\* The quotient one is painted.
WithVirtualSizeOne(t) ==
  {<<"Virtual size", t.weight \div 4>>, <<"virtual size", t.weight \div 4>>}

virtual_size_lines(t) ==
  {<<"Virtual size", t.weight \div 4>>}
    \cup {<<"virtual size", q>> : q \in {t.weight \div 4} \ {1}}

tx_row_from_shared(t) ==
  virtual_size_lines(t) \cup adjusted_vsize_two_decimals(t.weight, t.sigops)
    \cup {<<"Locktime">>, <<"Size", size_number_and_unit(t.size)>>, <<"Fee", t.fee>>, <<"Sigops">>}
    \cup (IF t.sigops < 1000 THEN {<<"Sigops", t.sigops>>} ELSE {})
    \cup (IF t.version \in {0, 2} THEN {<<"Version", t.version>>} ELSE {})
    \cup (IF t.weight \div 4 # 0 THEN {<<"Fee rate">>} ELSE {})

\* A body that misses a field does not parse, and no line is painted.
transaction_row_markup(t, status) ==
  IF ~Readable(t) THEN {}
  ELSE {<<"Transaction">>, <<"Inputs & Outputs">>}
         \cup (IF t.weight \div 4 # 0 THEN {<<"Details">>} ELSE {})
         \cup tx_row_from_shared(t) \cup Timestamp(status) \cup output_total_words(t.vout)

web_lines(t, status, tipRead, net) ==
  LET height == IF Readable(t) THEN HeightOf(status) ELSE None
  IN  IF status = Absent THEN confirmation_markup(None, tipRead)
      ELSE transaction_row_markup(t, status) \cup confirmation_markup(height, tipRead)
             \cup (IF height = None THEN {} ELSE BlockHeightLine(status))
             \cup ({<<badge>> : badge \in ToSet(web_badges(t, status, net))} \cap {<<"Features">>})
-----------------------------------------------------------------------------
(* The chain and the two loads.                                            *)

Init ==
  /\ tx \in Txs
  /\ network \in Networks
  /\ tip \in FirstTips
  /\ mined = None
  /\ native = [pc |-> "idle", status |-> Absent, tip |-> None]
  /\ web = [pending |-> {"tx", "tip"}, status |-> Absent, tip |-> None]
  /\ blocks = 0

\* A block, with the transaction or without it.
Mine(with) ==
  /\ blocks < MaxBlocks
  /\ with => mined = None
  /\ tip' = tip + 1
  /\ mined' = IF with THEN tip + 1 ELSE mined
  /\ blocks' = blocks + 1
  /\ UNCHANGED <<tx, network, native, web>>

\* The block of the transaction is replaced by one without it; the tip's
\* height never goes down.
Reorganise ==
  /\ blocks < MaxBlocks
  /\ mined # None
  /\ mined' = None
  /\ tip' = tip + 1
  /\ blocks' = blocks + 1
  /\ UNCHANGED <<tx, network, native, web>>

SetNetwork(net) ==
  /\ network' = net
  /\ UNCHANGED <<tx, tip, mined, native, web, blocks>>

ReadTx(r) == [r EXCEPT !.status = StatusOf(mined)]

NativeReadTx ==
  /\ native.pc \in {"idle", "done"}
  /\ native' = [ReadTx(native) EXCEPT !.pc = "reading"]
  /\ UNCHANGED <<tx, network, tip, mined, web, blocks>>

\* The tip of an earlier load is used again.
KeepsTip(found) ==
  /\ native.pc = "reading"
  /\ native' = [native EXCEPT !.pc = "done",
                              !.tip = IF @ # None THEN @ ELSE IF found THEN tip ELSE None]
  /\ UNCHANGED <<tx, network, tip, mined, web, blocks>>

\* An absent tip omits the count.
NativeReadTip(found) ==
  /\ native.pc = "reading"
  /\ native' = [native EXCEPT !.pc = "done", !.tip = IF found THEN tip ELSE None]
  /\ UNCHANGED <<tx, network, tip, mined, web, blocks>>

\* Answers come in any order, and once: the page asks when it is built.
WebAnswer(req) ==
  /\ req \in web.pending
  /\ web' = IF req = "tx" THEN [ReadTx(web) EXCEPT !.pending = @ \ {req}]
            ELSE [web EXCEPT !.tip = tip, !.pending = @ \ {req}]
  /\ UNCHANGED <<tx, network, tip, mined, native, blocks>>

Next ==
  \/ \E with \in BOOLEAN : Mine(with)
  \/ Reorganise
  \/ \E net \in Networks : SetNetwork(net)
  \/ NativeReadTx
  \/ \E found \in BOOLEAN : NativeReadTip(found)
  \/ \E req \in {"tx", "tip"} : WebAnswer(req)

Spec == Init /\ [][Next]_vars
-----------------------------------------------------------------------------
Statuses == {native.status, web.status}

TypeOK ==
  /\ tx \in Txs /\ network \in Networks
  /\ native.pc \in {"idle", "reading", "done"}
  /\ web.pending \subseteq {"tx", "tip"}

\* The native screen never paints zero or fewer confirmations: it reads the
\* tip after the transaction, so a block that arrives in between is counted
\* (TxScreen.load, confirmation_words).  The web page asks for both at once
\* and has no such promise.
CountsFromOne ==
  native.pc = "done" /\ HeightOf(native.status) # None /\ native.tip # None
    => Confirmations(native.status.height, native.tip) >= 1

\* On the same answer, one the web page can read, both frontends show the same
\* badges on every network, each once: the web page's mainnet badges are all
\* taken back, whatever the user switched to since (segwit_weight_savings,
\* features_label).
BadgesAgree ==
  Readable(tx) =>
    \A status \in Statuses :
      web_badges(tx, status, network) = native_badges(tx, status, network)

\* Both frontends show the same badges for every answer.  This does not hold:
\* the native screen reads a body without weight or sigops and paints its
\* badges, the web page paints none (README.md, "Statements that fail").
BadgesAlwaysAgree ==
  \A status \in Statuses :
    web_badges(tx, status, network) = native_badges(tx, status, network)

\* Each "GPUI whole line" of web_lines is a line the native screen paints for
\* the same answers, with the same number: edges are a weight below four and
\* the quotient one.  Said of the bodies the web page can read; the lines of
\* the parties and the warning of similar addresses are not among web_lines.
WholeLinesAreGpui ==
  Readable(tx) =>
    web_lines(tx, web.status, web.tip, network)
      \subseteq native_lines(tx, web.status, web.tip, network)

\* The size and the weight shown are within half a hundredth of the unit shown,
\* also where rounding crosses into the next unit.
FiguresClose ==
  LET Close(n, text) ==
        LET scale == 1000 ^ text.unit
            off   == text.hundredths * scale - n * 100
        IN  2 * (IF off < 0 THEN -off ELSE off) <= scale
      weight == IF tx.weight = None THEN 0 ELSE tx.weight
  IN  /\ Close(tx.size, bytes_pipe_text(tx.size)) /\ Close(tx.size, size_number_and_unit(tx.size))
      /\ Close(weight, wu_bytes_pipe_text(weight)) /\ Close(weight, weight_number_and_unit(weight))

\* weight_number_and_unit's comment: "Half away from zero on the hundredths".
WeightHalfUp ==
  tx.weight # None => weight_number_and_unit(tx.weight) = wu_bytes_pipe_text(tx.weight)

\* The rows shown and the rows a button counts are all rows, on both
\* frontends, and a button never stands for five rows or fewer.
RowsAccounted ==
  \A len \in {Len(tx.vin), Len(tx.vout), tx.rows} :
    LET more == transactions_list_more_line(len)
    IN  /\ more = show_more_button(len)
        /\ transactions_list_limit(len, FALSE) + more.left = len
        /\ more.left \notin 1..5
        /\ more.label = "Show more" => len > Increment
=============================================================================
