------------------------------- MODULE Pager -------------------------------
(***************************************************************************)
(* The pages of a block's transactions: the indexer answers them in chunks *)
(* of PageSize, the native screen follows its "row page" line and paints a *)
(* phone pager, the web page follows its older link and paints a pager     *)
(* whose list a helper replaces by one of the viewport's width.  Both go   *)
(* to any page by hand, too.                                               *)
(***************************************************************************)
EXTENDS Integers, FiniteSets, FiniteSetsExt

CONSTANTS PageSize,   \* BLOCK_TXS_PER_PAGE
          TxCounts,   \* transactions a block may have, at least the coinbase
          Starts,     \* start indices a user may type
          MaxStart    \* bound on the start index the next row reaches

VARIABLES txs,     \* tx_count of the block
          start,   \* start_index of the native screen and of the route
          shown,   \* indices of the transactions the last answer held
          walked,  \* TRUE while only the next row was followed from page one
          seen     \* transactions shown on that walk

vars == <<txs, start, shown, walked, seen>>

CeilDiv(a, b)  == (a + b - 1) \div b
Clamp(n, a, b) == Max({a, Min({n, b})})

\* The last page is not cut at the end of the block.
Uncut(n, s) == IF s % PageSize # 0 THEN {} ELSE s..(s + PageSize - 1)

\* The indexer: an index past the end or between two pages is refused.
Answer(n, s) == IF s % PageSize # 0 THEN {} ELSE {i \in s..(s + PageSize - 1) : i < n}
-----------------------------------------------------------------------------
(* The native pager.                                                       *)

tx_page_count(n) == CeilDiv(n, PageSize)

\* The window is cut one page short at the end.
WindowShort(page, count) ==
  IF count <= 3 THEN 1..count
  ELSE IF page <= 1 THEN 1..3
  ELSE IF count - page < 1 THEN (count - 3)..(count - 1)
  ELSE (page - 1)..(page + 1)

phone_page_numbers(page, count) ==
  IF count <= 3 THEN 1..count
  ELSE IF page <= 1 THEN 1..3
  ELSE IF count - page < 1 THEN (count - 2)..count
  ELSE (page - 1)..(page + 1)

\* Five pages paint all five numbers.
phone_pager_lines(n, s) ==
  LET pages  == tx_page_count(n)
      active == Clamp(s \div PageSize + 1, 1, pages)
      window == IF pages = 5 THEN 1..5 ELSE phone_page_numbers(active, pages)
  IN  [active |-> active, window |-> window, children |-> Cardinality(window) + 4]
-----------------------------------------------------------------------------
(* The web pager.                                                          *)

block_page_count(n) == CeilDiv(n, PageSize)

page_window(page, count, max) ==
  LET first == Max({1, page - max \div 2})
      low   == IF first + max - 1 > count THEN count - max + 1 ELSE first
  IN  IF count <= max THEN 1..count ELSE low..(low + max - 1)

\* First, previous, the window, next and last: the pages their links open.
pager_items(page, count) ==
  [first |-> 1, previous |-> Max({1, page - 1}), window |-> page_window(page, count, 5),
   next |-> Min({page + 1, count}), last |-> count]

block_transactions_markup(n, s) ==
  LET page == Clamp(s \div PageSize + 1, 1, block_page_count(n))
  IN  [active |-> page, items |-> pager_items(page, block_page_count(n))]

\* The helper ignores the width.
AlwaysWide(width, n) == 4 + Min({CeilDiv(n, PageSize), 5})

\* The list that replaces the linked one has this many empty items.
shows_blocks_pagination(width, n) ==
  4 + Min({CeilDiv(n, PageSize), IF width <= 670 THEN 3 ELSE 5})

\* with_helper_pagination: the labels stay, the linked list goes.
block_page_transactions_markup(n, s, width) ==
  [active |-> block_transactions_markup(n, s).active,
   children |-> shows_blocks_pagination(width, n)]
-----------------------------------------------------------------------------
Init ==
  /\ txs \in TxCounts
  /\ start = 0
  /\ shown = Answer(txs, 0)
  /\ walked = TRUE
  /\ seen = shown

Load(s) ==
  /\ start' = s
  /\ shown' = Answer(txs, s)
  /\ UNCHANGED txs

\* The row steps over the page and one transaction more.
StepsPast(s) == s + PageSize + 1

\* BlockScreen.load's "row page", the older link, next_block_tx_path.
next_page(s) == s + PageSize

\* The row and the link are offered on every page, the last one and pages past
\* it included; a start between two pages has none.
FollowNext ==
  /\ start % PageSize = 0
  /\ start < MaxStart
  /\ Load(next_page(start))
  /\ seen' = seen \cup shown'
  /\ UNCHANGED walked

\* set_query, open_block_page and the query of the route.
Type(s) ==
  /\ Load(s)
  /\ walked' = FALSE
  /\ seen' = {}

Next == FollowNext \/ \E s \in Starts : Type(s)

Spec == Init /\ [][Next]_vars
-----------------------------------------------------------------------------
TypeOK ==
  /\ txs \in TxCounts
  /\ start \in Nat
  /\ shown \subseteq 0..(txs - 1)
  /\ walked \in BOOLEAN

\* A user who only follows the next row from page one until the indexer
\* refuses has seen every transaction of the block, the last short page
\* included ("row page", block_txs_older_href).
WalkShowsAll == walked /\ shown = {} => seen = 0..(txs - 1)

\* A page that was answered is labelled with its own number on both frontends,
\* among at most five numbers in a row that reach the pages beside it: the
\* clamp of a page past the end never labels a page that has transactions.
PagesLabelled ==
  shown # {} =>
    LET native == phone_pager_lines(txs, start)
        web    == block_transactions_markup(txs, start)
        page   == start \div PageSize + 1
        beside == {page - 1, page, page + 1} \cap 1..tx_page_count(txs)
    IN  /\ native.active = page /\ web.active = page
        /\ beside \subseteq native.window /\ beside \subseteq web.items.window
        /\ {web.items.previous, web.items.next} \subseteq beside
        /\ Cardinality(native.window) <= 5 /\ Cardinality(web.items.window) <= 5

\* The list that replaces the web page's linked pager has as many items as the
\* list it replaces on a wide viewport, and on a phone as many as the native
\* pager paints, except for the five pages that one paints in full.
PagersAgree ==
  /\ block_page_transactions_markup(txs, start, 1024).children = 4 + Cardinality(block_transactions_markup(txs, start).items.window)
  /\ tx_page_count(txs) # 5 => block_page_transactions_markup(txs, start, 670).children = phone_pager_lines(txs, start).children
=============================================================================
