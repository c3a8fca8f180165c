------------------------------- MODULE Paints -------------------------------
(***************************************************************************)
(* The headless paints of frontend/native: every function asks the shared  *)
(* crate for the lines of one page, opens a window that is never shown,    *)
(* lays one row out per line (a probe behind the row fills the row's two   *)
(* slots), quits the application, reads the slots back and either compares *)
(* them with the lines or returns them.  The functions differ in the lines *)
(* they lay out, in whether they cut the text read back into stages, in    *)
(* what they assert and in whether they quit before or after they unwrap   *)
(* the window: one definition per function, one machine for all.           *)
(***************************************************************************)
EXTENDS SharedScreens, FiniteSets

CONSTANTS Inputs   \* arguments a caller may give: the name of the pool, the
                   \* age and the fee range of a mined block, the fragment of
                   \* an unblinded transaction, the viewport's width and the
                   \* number of transactions of a block

VARIABLES page,    \* the function called
          input,   \* its arguments
          pc,      \* "open", "quit", "read", "returned" or "panicked"
          slots,   \* rows laid out
          quit,    \* cx.quit() was called
          result   \* what the function returned

vars == <<page, input, pc, slots, quit, result>>

-----------------------------------------------------------------------------
(* What a paint lays out and how it ends.                                  *)

\* Returns the text laid out; unwraps the window before it quits.
Laid(lines) == [lines |-> lines, first |-> Len(lines), checks |-> FALSE,
                quits |-> FALSE, child |-> 0, label |-> ""]

\* Asserts that the trimmed rows are the shared lines.
Checked(lines) == [Laid(lines) EXCEPT !.checks = TRUE]

\* The stage is cut where the whole text ends.
CutTooLate(first, later) ==
  [Laid(first \o later) EXCEPT !.first = Len(first \o later)]

\* Cuts the text after the rows of the first stage.
Staged(first, later) == [Laid(first \o later) EXCEPT !.first = Len(first)]

QuitsFirst(p) == [p EXCEPT !.quits = TRUE]

\* Opens an empty view and returns what the shared function says.
Host(label) == [QuitsFirst(Laid(<<>>)) EXCEPT !.label = label]

\* A hidden icon contributes no row.
visible_icon_lines(icons) ==
  (IF icons.next THEN <<Line(<<"Next Block">>)>> ELSE <<>>)
    \o (IF icons.previous THEN <<Line(<<"Previous Block">>)>> ELSE <<>>)

IconFlags(icons) == <<Line(<<"next", icons.next>>), Line(<<"previous", icons.previous>>)>>

switching_from_jpy_back_to_usd ==
  QuitsFirst(Checked(switched_fiat_cells("JPY") \o switched_fiat_cells("USD")))
switching_from_usd_to_jpy ==
  QuitsFirst(Checked(switched_fiat_cells("USD") \o switched_fiat_cells("JPY")))
displays_jpy_fiat_values ==
  Checked(<<format_fiat("JPY", 2), format_fiat("JPY", 2)>>)
displays_usd_fiat_values ==
  Checked(<<format_fiat("USD", 2), format_fiat("USD", 2)>>)
displays_jpy_price ==
  QuitsFirst(Checked(<<Line(<<"yen">>), Line(<<"fiat digits">>)>>))
displays_usd_price == Checked(<<Line(<<"$">>)>>)
formats_all_jpy_values ==
  Checked(<<Line(<<"JPY">>)>> \o [i \in 1..3 |-> format_fiat("JPY", <<2, 15, 1500>>[i])])
load_first_mempool_block ==
  Laid(<<Line(<<"mempool-block-", 0>>), Line(<<"blockLink">>),
         Line(<<"/mempool-block/", 0>>), Line(<<"loaders", 0>>)>>)
first_block_arrow_left ==
  Laid(IconFlags(FirstArrowLeft.selected)
         \o <<Line(FirstArrowLeft.heading), Line(FirstArrowLeft.route)>>)
first_block_arrow_right ==
  Laid(IconFlags(FirstArrowRight.selected) \o IconFlags(FirstArrowRight.after))
first_blocks_click_right ==
  Staged(visible_icon_lines(FirstClickRight.selected),
         visible_icon_lines(FirstClickRight.after) \o <<Line(FirstClickRight.route)>>)
genesis_click_left ==
  QuitsFirst(Staged(visible_icon_lines(GenesisClickLeft.genesis),
                    visible_icon_lines(GenesisClickLeft.after)
                      \o <<Line(GenesisClickLeft.route)>>))
genesis_arrow_left ==
  Laid(visible_icon_lines(GenesisArrowLeft.after) \o <<Line(GenesisArrowLeft.route)>>)
genesis_arrow_right ==
  Laid(visible_icon_lines(GenesisArrowRight.after) \o <<Line(GenesisArrowRight.route)>>)
loads_the_blocks_page ==
  Laid(<<Line(<<"btn-blocks">>), Line(<<"/blocks">>), Line(<<"loaders", 0>>)>>)
loads_the_graphs_page ==
  Laid(<<Line(<<"btn-graphs">>), Line(<<"/graphs">>), Line(<<"loaders", 0>>)>>)
shows_blocks_pagination(in) ==
  LET max   == IF in.width <= 670 THEN 3 ELSE 5
      pages == (in.txs + 24) \div 25
  IN  Laid([i \in 1..(4 + IF pages < max THEN pages ELSE max) |-> Line(<<i>>)])
calculator_form_after_price_feed == Laid(loaded_calculator_form_text)
copy_buttons_for_each_input == Laid(shows_copy_buttons_for_each_input)
input_labels_for_currency ==
  Checked([i \in 1..3 |-> Line(shows_input_labels[i].words \o <<TRUE>>)])
difficulty_adjustment_stats == Checked(<<Line(<<"difficulty host">>)>>)
latest_blocks == QuitsFirst(Checked(<<Line(<<"latest blocks host">>)>>))
pools_pie_chart == QuitsFirst(Checked(<<Line(<<"pools host">>)>>))
reward_stats == Checked(<<Line(<<"Reward stats">>)>>)
mempool_blocks(in) ==
  QuitsFirst(Checked(shows_the_mempool_blocks(5, 1, 10, 3, 1, 10)))
mined_blocks(in) ==
  QuitsFirst(Checked(shows_the_mined_blocks(7, 4, in.range, 3, 2, in.age, in.pool)))
\* No row when the fragment has no usable group.
first_unblinded_vout(in) ==
  LET row == show_unblinded_vout(in.fragment, 1)
  IN  QuitsFirst(Laid(IF row.amount = <<>> THEN <<>> ELSE <<Line(<<row>>)>>))
\* The row is the second of its table: one empty row leads it.
second_unblinded_vout(in) ==
  LET row == show_unblinded_vout(in.fragment, 2)
  IN  [QuitsFirst(Laid(IF row.amount = <<>> THEN <<>> ELSE <<Line(<<row>>)>>))
         EXCEPT !.child = row.child]
transaction_list_over_time ==
  LET batch == updates_the_transaction_list_over_time(<<"a", "b">>, <<"c", "d">>)
      rows(txids) == [i \in DOMAIN txids |-> Line(<<txids[i]>>)]
  IN  Staged(rows(batch.first), rows(batch.later))
desktop_tx_rbf ==
  Laid(<<Line(<<"alert">>), Line(<<"details">>), Line(<<"Replaced">>)>>)

details_open_after_click == Host("open after the click")
graphs_empty_child_redirects_to_mempool == Host("/graphs/mempool")
loads_peg_in_addresses == Host("Peg-in")
loads_peg_in_addresses_bitcoin_tx_url == Host("url of the peg-in")
loads_peg_out_addresses == Host("Peg-out")
loads_peg_out_addresses_bitcoin_address_url == Host("url of the peg-out")
loads_the_status_screen_backend_synchronizing == Host("Backend is synchronizing")
loads_the_status_screen_block == Host("block")
loads_the_status_screen_blocks == Host("blocks")
loads_the_status_screen_incoming_transactions == Host("Incoming Transactions")
loads_the_status_screen_mempool_size == Host("mempool size")
loads_the_status_screen_unconfirmed == Host("Unconfirmed")
loads_the_status_screen_vbytes_per_second == Host("vB/s")
loads_the_status_screen_weight_units_per_second == Host("WU/s")
show_invalid_error_unblinded_tx == Host("Error: Invalid blinding data")
shows_the_hashrate_graph == Host("hashrate host")
shows_the_latest_adjustments == Host("adjustments host")

\* Every paint function, with its arguments.
AllPaints(in) ==
  [switching_from_jpy_back_to_usd |-> switching_from_jpy_back_to_usd,
   switching_from_usd_to_jpy |-> switching_from_usd_to_jpy,
   displays_jpy_fiat_values |-> displays_jpy_fiat_values,
   displays_usd_fiat_values |-> displays_usd_fiat_values,
   displays_jpy_price |-> displays_jpy_price,
   displays_usd_price |-> displays_usd_price,
   formats_all_jpy_values |-> formats_all_jpy_values,
   load_first_mempool_block |-> load_first_mempool_block,
   first_block_arrow_left |-> first_block_arrow_left,
   first_block_arrow_right |-> first_block_arrow_right,
   first_blocks_click_right |-> first_blocks_click_right,
   genesis_click_left |-> genesis_click_left,
   genesis_arrow_left |-> genesis_arrow_left,
   genesis_arrow_right |-> genesis_arrow_right,
   loads_the_blocks_page |-> loads_the_blocks_page,
   loads_the_graphs_page |-> loads_the_graphs_page,
   shows_blocks_pagination |-> shows_blocks_pagination(in),
   calculator_form_after_price_feed |-> calculator_form_after_price_feed,
   copy_buttons_for_each_input |-> copy_buttons_for_each_input,
   input_labels_for_currency |-> input_labels_for_currency,
   difficulty_adjustment_stats |-> difficulty_adjustment_stats,
   latest_blocks |-> latest_blocks,
   pools_pie_chart |-> pools_pie_chart,
   reward_stats |-> reward_stats,
   mempool_blocks |-> mempool_blocks(in),
   mined_blocks |-> mined_blocks(in),
   first_unblinded_vout |-> first_unblinded_vout(in),
   second_unblinded_vout |-> second_unblinded_vout(in),
   transaction_list_over_time |-> transaction_list_over_time,
   desktop_tx_rbf |-> desktop_tx_rbf,
   details_open_after_click |-> details_open_after_click,
   graphs_empty_child_redirects_to_mempool |-> graphs_empty_child_redirects_to_mempool,
   loads_peg_in_addresses |-> loads_peg_in_addresses,
   loads_peg_in_addresses_bitcoin_tx_url |-> loads_peg_in_addresses_bitcoin_tx_url,
   loads_peg_out_addresses |-> loads_peg_out_addresses,
   loads_peg_out_addresses_bitcoin_address_url |-> loads_peg_out_addresses_bitcoin_address_url,
   loads_the_status_screen_backend_synchronizing |-> loads_the_status_screen_backend_synchronizing,
   loads_the_status_screen_block |-> loads_the_status_screen_block,
   loads_the_status_screen_blocks |-> loads_the_status_screen_blocks,
   loads_the_status_screen_incoming_transactions |-> loads_the_status_screen_incoming_transactions,
   loads_the_status_screen_mempool_size |-> loads_the_status_screen_mempool_size,
   loads_the_status_screen_unconfirmed |-> loads_the_status_screen_unconfirmed,
   loads_the_status_screen_vbytes_per_second |-> loads_the_status_screen_vbytes_per_second,
   loads_the_status_screen_weight_units_per_second |-> loads_the_status_screen_weight_units_per_second,
   show_invalid_error_unblinded_tx |-> show_invalid_error_unblinded_tx,
   shows_the_hashrate_graph |-> shows_the_hashrate_graph,
   shows_the_latest_adjustments |-> shows_the_latest_adjustments]

PageNames == DOMAIN AllPaints(CHOOSE in \in Inputs : TRUE)

Called == AllPaints(input)[page]
-----------------------------------------------------------------------------
(* The machine.                                                            *)

NoResult == <<>>

Init ==
  /\ page \in PageNames
  /\ input \in Inputs
  /\ pc = "open"
  /\ slots = <<>>
  /\ quit = FALSE
  /\ result = NoResult

\* open_window draws the view, and with it every row's probe.
OpenWindow ==
  /\ pc = "open"
  /\ slots' = Called.lines
  /\ pc' = "quit"
  /\ UNCHANGED <<page, input, quit, result>>

\* The expect panics: before the quit, unless the window is unwrapped last.
OpenFails ==
  /\ pc = "open"
  /\ quit' = Called.quits
  /\ pc' = "panicked"
  /\ UNCHANGED <<page, input, slots, result>>

\* cx.quit(), and once more from a spawned task.
Quit ==
  /\ pc = "quit"
  /\ quit' = TRUE
  /\ pc' = "read"
  /\ UNCHANGED <<page, input, slots, result>>

\* read_laid_out: an empty slot panics; each text is trimmed.
Trimmed(rows) == [i \in DOMAIN rows |-> [rows[i] EXCEPT !.padded = FALSE]]

\* The text joined by line feeds and cut into lines again loses an empty end.
Lines(rows) ==
  IF rows # <<>> /\ IsEmpty(Last(rows)) THEN Front(rows) ELSE rows

LeadsOneMore(child) == [i \in 1..(child + 1) |-> IF i > child THEN "assetBox" ELSE ""]

\* Classes of the table rows that vout_markup puts together.
vout_markup(child) == [i \in 1..child |-> IF i = child THEN "assetBox" ELSE ""]

Accepted(p) ==
  /\ p.checks => Trimmed(slots) = p.lines
  /\ p.child > 0 /\ slots # <<>> => vout_markup(p.child)[p.child] = "assetBox"

Read ==
  LET p    == Called
      text == Lines(Trimmed(slots))
  IN  /\ pc = "read"
      /\ \/ /\ Accepted(p)
            /\ pc' = "returned"
            /\ result' = IF p.label # "" THEN <<p.label>>
                         ELSE <<SubSeq(text, 1, p.first), SubSeq(text, p.first + 1, Len(text))>>
         \/ /\ ~Accepted(p)
            /\ pc' = "panicked"
            /\ UNCHANGED result
      /\ UNCHANGED <<page, input, slots, quit>>

Next == OpenWindow \/ OpenFails \/ Quit \/ Read

Spec == Init /\ [][Next]_vars
-----------------------------------------------------------------------------
TypeOK ==
  /\ page \in PageNames
  /\ input \in Inputs
  /\ pc \in {"open", "quit", "read", "returned", "panicked"}
  /\ quit \in BOOLEAN
  /\ result # NoResult <=> pc = "returned"

\* A paint that cuts the text it reads back into two stages returns, as each
\* stage, the icons the block links show at the height of that stage and
\* nothing of the other one: `genesis_count` and `newest_count` of
\* loads_genesis_block_and_click_on_the_arrow_left.rs and
\* loads_first_blockchain_blocks_visible_and_click_on_the_arrow_right.rs.
StagesOfTheirHeights ==
  pc = "returned" =>
    /\ page = "genesis_click_left" =>
         result = <<visible_icon_lines(block_prev_next_links(0, Newest)),
                    visible_icon_lines(block_prev_next_links(1, Newest))
                      \o <<Line(Route(1))>> >>
    /\ page = "first_blocks_click_right" =>
         result = <<visible_icon_lines(block_prev_next_links(Newest, Newest)),
                    visible_icon_lines(block_prev_next_links(Newest - 1, Newest))
                      \o <<Line(Route(Newest - 1))>> >>

\* Once its window is open, a paint returns: the rows read back after the quit
\* pass the assertions of every page, whatever the fragment or the fees, and
\* the row of the second unblinded output is the second of its table
\* (nth_tr_class).  Only a pool name with white space around it is excepted:
\* shows_the_mined_blocks.rs compares the trimmed row with the name itself.
OpenedPaintsReturn ==
  pc = "panicked" /\ slots # <<>> => page = "mined_blocks" /\ input.pool.padded

\* The mined block paint returns for every name of a pool: "This module does
\* not invent those strings", it lays out the seven lines it is given.
MinedPaintReturns == pc = "panicked" => slots = <<>>

\* The age of a mined block is told within half of the unit it is told in,
\* never as zero units, and as a single unit only when that is the minute: a
\* coarser unit is used only past the finer one's threshold (format_since).
AgeIsClose ==
  LET since == format_since(input.age)
  IN  since # <<>> =>
        LET told == since[1] * interval_seconds[since[2]]
            gap  == IF told > input.age THEN told - input.age ELSE input.age - told
        IN  /\ since[1] >= 1
            /\ 2 * gap <= interval_seconds[since[2]]
            /\ since[1] = 1 => since[2] = "minute"
=============================================================================
