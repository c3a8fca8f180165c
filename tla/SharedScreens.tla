---------------------------- MODULE SharedScreens ----------------------------
(***************************************************************************)
(* The pure functions of frontend/shared that both frontends call for what *)
(* a page says: the previous and next block links and the walkthroughs     *)
(* made of them, the lines of mined and projected blocks, the preview of   *)
(* an unblinded Liquid transaction, the fiat cells and the calculator's    *)
(* controls.  A line of text is the tuple of what was put together to make *)
(* it; `padded` says that white space surrounds it.                        *)
(***************************************************************************)
EXTENDS Integers, Sequences, SequencesExt

CONSTANTS SatsPerStep,   \* satoshis in a thousandth of a bitcoin
          MaxSum         \* the largest amount a u64 sum holds

NoHeight == -1           \* None of Option<u32>
Newest   == 2            \* NEWEST_VISIBLE_CONFIRMED_HEIGHT

Line(words)    == [words |-> words, padded |-> FALSE]
IsEmpty(l)     == l.words = <<>> /\ ~l.padded
Route(height)  == <<"/block/", height>>

-----------------------------------------------------------------------------
(* Previous and next links.                                                *)

NextAlwaysShown(height, latest) ==
  [previous |-> height # NoHeight /\ height # 0, next |-> height <= latest]

\* The previous link only tells genesis apart; the next one only the tip.
block_prev_next_links(height, latest) ==
  [previous |-> height # NoHeight /\ height # 0, next |-> height # latest]

adjacent_blocks(height, tip) ==
  LET shown == block_prev_next_links(height, tip)
  IN  [previous |-> IF shown.previous THEN height - 1 ELSE NoHeight,
       next     |-> IF shown.next THEN height + 1 ELSE NoHeight]

\* Index 0 does not read the virtual size; the last kept index is a stack.
mempool_block_ordinal_title(index, blocks, kept) ==
  IF index = 0 THEN <<"Next Block">>
  ELSE IF index = kept - 1 /\ blocks > 1 THEN <<"Stack of", blocks>>
  ELSE <<"Mempool block", index + 1>>

FirstArrowRight ==
  [selected |-> block_prev_next_links(Newest, Newest),
   after    |-> block_prev_next_links(Newest - 1, Newest)]

FirstClickRight ==
  LET selected == block_prev_next_links(Newest, Newest)
      height   == IF selected.previous THEN Newest - 1 ELSE Newest
  IN  [selected |-> selected, after |-> block_prev_next_links(height, Newest),
       height |-> height, route |-> Route(height)]

FirstArrowLeft ==
  [selected |-> block_prev_next_links(Newest, Newest),
   heading  |-> mempool_block_ordinal_title(0, 0, 8),
   route    |-> <<"/mempool-block/", 0>>]

GenesisArrowRight ==
  LET shown  == block_prev_next_links(0, Newest)
      height == 0                 \* saturating_sub keeps 0 either way
  IN  [height |-> height, route |-> Route(height), after |-> shown]

GenesisArrowLeft ==
  LET height == IF block_prev_next_links(0, Newest).next THEN 1 ELSE 0
  IN  [height |-> height, route |-> Route(height),
       after  |-> block_prev_next_links(height, Newest)]

\* The icons are those of the height before the click.
IconsBeforeClick ==
  [genesis |-> block_prev_next_links(0, Newest),
   after   |-> block_prev_next_links(0, Newest),
   height  |-> 1, route |-> Route(1)]

GenesisClickLeft ==
  LET genesis == block_prev_next_links(0, Newest)
      height  == IF genesis.next THEN GenesisArrowLeft.height ELSE 0
  IN  [genesis |-> genesis, after |-> block_prev_next_links(height, Newest),
       height |-> height, route |-> Route(height)]

-----------------------------------------------------------------------------
(* Mined and projected blocks.                                             *)

\* The low end skips the first entry when the median is the fourth one.
min_block_fee(median, range) ==
  IF range = <<>> THEN 0
  ELSE IF Len(range) > 3 /\ median = range[4] THEN range[2] ELSE range[1]

max_block_fee(range) == IF range = <<>> THEN 0 ELSE Last(range)

\* Fraction digits of the default fee pipe.
format_fee_span_end(fee) ==
  <<fee, IF fee >= 100 THEN 0 ELSE IF fee < 10 THEN 2 ELSE 1>>

\* Thousandths of a bitcoin, half a step rounding up; a third zero is dropped.
format_btc_digits_1_2_3(sats) ==
  LET up == IF sats % SatsPerStep >= SatsPerStep \div 2 THEN 1 ELSE 0
      t  == sats \div SatsPerStep + up
  IN  IF t % 10 = 0 THEN <<t \div 10, 2>> ELSE <<t, 3>>

shows_the_mempool_blocks(median, low, high, fees, count, minutes) ==
  << Line(<<"~", median, "sat/vB">>),
     Line(<<format_fee_span_end(low), "-", format_fee_span_end(high)>>),
     Line(<<format_btc_digits_1_2_3(fees), "BTC">>),
     Line(<<count, IF count = 1 THEN "transaction" ELSE "transactions">>),
     Line(<<"In ~", minutes, IF minutes = 1 THEN "minute" ELSE "minutes">>) >>

SinceUnits == <<"year", "month", "week", "day", "hour", "minute", "second">>

interval_seconds ==
  [year |-> 31536000, month |-> 2592000, week |-> 604800, day |-> 86400,
   hour |-> 3600, minute |-> 60, second |-> 1]

precision_threshold ==
  [year |-> 100, month |-> 18, week |-> 12, day |-> 31, hour |-> 48,
   minute |-> 90, second |-> 90]

round_div(seconds, interval) == (seconds + interval \div 2) \div interval

\* The coarser unit stays even when the finer one fits.
CoarseUnit(i, seconds) == SinceUnits[i]

\* The unit used when the loop stands at unit i: the next finer one, unless
\* that takes more of it than its threshold.
PrecisionUnit(i, seconds) ==
  LET finer == SinceUnits[IF i < 7 THEN i + 1 ELSE 7]
  IN  IF round_div(seconds, interval_seconds[finer]) > precision_threshold[finer]
      THEN SinceUnits[i] ELSE finer

\* The first unit of the loop whose counter is positive; minutes count as one.
SinceIndex(seconds) ==
  CHOOSE i \in 1..7 :
    LET positive(j) == \/ seconds \div interval_seconds[SinceUnits[j]] > 0
                       \/ PrecisionUnit(j, seconds) = "minute"
    IN  positive(i) /\ \A j \in 1..(i - 1) : ~positive(j)

\* <<>> is "Just now".
format_since(seconds) ==
  IF seconds < 60 THEN <<>>
  ELSE LET unit == PrecisionUnit(SinceIndex(seconds), seconds)
       IN  <<round_div(seconds, interval_seconds[unit]), unit>>

shows_the_mined_blocks(height, median, range, fees, count, elapsed, pool) ==
  LET mempool == shows_the_mempool_blocks(median, min_block_fee(median, range),
                                          max_block_fee(range), fees, count, 0)
  IN  <<Line(<<height>>)>> \o SubSeq(mempool, 1, 4)
        \o <<Line(<<format_since(elapsed)>>), pool>>

-----------------------------------------------------------------------------
(* The preview of an unblinded Liquid transaction.  A token of the fragment *)
(* is a number (the decimal value field) or "hex", a 32 byte word.         *)

IsGroup(parts, i) ==
  parts[i].value > 0 /\ \A k \in 1..3 : parts[i + k].hex

\* Groups of four; the first group that does not fit ends the list.
parse_blinder_values(parts) ==
  LET groups == Len(parts) \div 4
      bad    == {g \in 1..groups : ~IsGroup(parts, 4 * g - 3)}
      kept   == IF bad = {} THEN groups ELSE (CHOOSE g \in bad : \A b \in bad : g <= b) - 1
  IN  [g \in 1..kept |-> parts[4 * g - 3].value]

\* The sum saturates into "not ok"; a positive fee adds the line of the total.
unblinded_tx_preview(parts, fee) ==
  LET values == parse_blinder_values(parts)
      sum    == FoldLeft(LAMBDA a, b : a + b, 0, values)
      total  == IF values # <<>> /\ fee > 0 /\ sum <= MaxSum /\ sum + fee <= MaxSum
                THEN <<sum + fee>> ELSE <<>>
  IN  values \o total

\* Both rows paint the first line of the preview; only their place differs.
show_unblinded_vout(parts, child) ==
  LET preview == unblinded_tx_preview(parts, 0)
  IN  [child |-> child,
       amount |-> IF preview = <<>> THEN <<>> ELSE <<preview[1], "LBTC">>]

-----------------------------------------------------------------------------
(* Fiat cells and the calculator's controls.                               *)

format_fiat(code, amount) ==
  Line(<<IF code = "USD" THEN "$" ELSE "yen", amount>>)

switched_fiat_cells(code) == <<Line(<<code>>), format_fiat(code, 2)>>

calculator_field_names == <<"fiat", "bitcoin", "satoshis">>

loaded_calculator_form_text ==
  <<Line(<<"Calculator">>)>>
    \o [i \in 1..3 |-> Line(<<"input", calculator_field_names[i]>>)]

shows_copy_buttons_for_each_input ==
  [i \in 1..3 |-> Line(<<calculator_field_names[i], "visible">>)]

shows_input_labels ==
  <<Line(<<"USD">>), Line(<<"BTC">>), Line(<<"sats">>)>>

updates_the_transaction_list_over_time(first, second) ==
  [first |-> first, later |-> second \o first]
=============================================================================
