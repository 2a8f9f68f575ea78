------------------------------ MODULE ReportPages ------------------------------
(***************************************************************************)
(* How BitfinexV1ExecutionClient reads the reports of a mass status page   *)
(* by page (bitfinex_v1_execution.py): active orders and then the history, *)
(* halving the window of every page that is full; trades by moving the     *)
(* cursor to the last trade of a full page.  Orders close meanwhile.  The  *)
(* venue does not say which of an order's two times its window selects.    *)
(***************************************************************************)
EXTENDS Integers, Sequences, SequencesExt, FiniteSets, FiniteSetsExt

CONSTANTS
    Rows,     \* orders, or trades; their numbers are their IDs
    End,      \* the window is 0 .. End, in ms
    Limit     \* _REPORT_PAGE_LIMIT

VARIABLES
    reading,  \* "orders" or "trades"
    axis,     \* the time that the venue's window selects
    rows,     \* the venue's rows; an open order is not in the history
    windows,  \* pending: windows still to read, the next one last
    axes,     \* candidate_axes
    cursor,
    got,      \* IDs read
    outcome   \* "start", "reading", "done" or "raised"

pageVars == <<reading, axis, rows, windows, axes, cursor, got, outcome>>

Axes == {"created", "updated"}

Raises == outcome' = "raised" /\ UNCHANGED <<windows, axes, cursor, got>>

-----------------------------------------------------------------------------
(* _order_reports and _order_history_rows                                  *)

ReadActive ==
    /\ outcome = "start" /\ reading = "orders"
    /\ got' = {i \in Rows : rows[i].open}
    /\ windows' = << <<0, End>> >> /\ outcome' = "reading"
    /\ UNCHANGED <<reading, axis, rows, axes, cursor>>

Within(i, a, w) == rows[i][a] \in w[1] .. w[2]

\* A page holds what the window selects, or as many of them as fit.
HistoryPages(w) ==
    LET all == {i \in Rows : ~rows[i].open /\ Within(i, axis, w)} IN
    IF Cardinality(all) <= Limit THEN {all} ELSE kSubset(Limit, all)

\* Mutant: the half that ends in the middle misses its last millisecond.
HalvesWithGap(w) == LET mid == (w[1] + w[2]) \div 2 IN << <<mid + 1, w[2]>>, <<w[1], mid - 1>> >>

Halves(w) == LET mid == (w[1] + w[2]) \div 2 IN << <<mid + 1, w[2]>>, <<w[1], mid>> >>

ReadHistoryPage ==
    /\ outcome = "reading" /\ reading = "orders" /\ windows # <<>>
    /\ LET w == Last(windows) IN \E page \in HistoryPages(w) :
       LET fit == {a \in axes : \A i \in page : Within(i, a, w)} IN
       \/ fit = {} /\ Raises
       \/ /\ fit # {} /\ Cardinality(page) < Limit
          /\ got' = got \union page /\ windows' = Front(windows) /\ axes' = fit
          /\ UNCHANGED <<cursor, outcome>>
       \/ fit # {} /\ Cardinality(page) = Limit /\ w[1] = w[2] /\ Raises
       \/ /\ fit # {} /\ Cardinality(page) = Limit /\ w[1] # w[2]
          /\ windows' = Front(windows) \o Halves(w) /\ axes' = fit
          /\ UNCHANGED <<cursor, got, outcome>>
    /\ UNCHANGED <<reading, axis, rows>>

HistoryEnds ==
    /\ outcome = "reading" /\ reading = "orders" /\ windows = <<>>
    /\ outcome' = "done"
    /\ UNCHANGED <<reading, axis, rows, windows, axes, cursor, got>>

\* An order closes at the venue.  The window ends when the active orders are read.
OrderCloses(i) ==
    /\ reading = "orders" /\ rows[i].open
    /\ \E now \in (IF outcome = "start" THEN {End} ELSE {End, End + 1}) :
         rows' = [rows EXCEPT ![i].open = FALSE, ![i].updated = now]
    /\ UNCHANGED <<reading, axis, windows, axes, cursor, got, outcome>>

-----------------------------------------------------------------------------
(* _trade_history_rows                                                     *)

\* The first trades from the cursor on, by time and ID.
Earlier(i, j) ==
    rows[i].updated < rows[j].updated \/ (rows[i].updated = rows[j].updated /\ i < j)
TradePage ==
    LET all == SetToSortSeq({i \in Rows : rows[i].updated \in cursor .. End}, Earlier)
    IN SubSeq(all, 1, IF Len(all) < Limit THEN Len(all) ELSE Limit)

ReadTradePage ==
    /\ outcome \in {"start", "reading"} /\ reading = "trades"
    /\ LET page == TradePage  ids == ToSet(page) IN
       \/ /\ Len(page) < Limit
          /\ got' = got \union ids /\ outcome' = "done" /\ UNCHANGED cursor
       \/ /\ Len(page) = Limit /\ ids \subseteq got
          /\ outcome' = "raised" /\ UNCHANGED <<cursor, got>>
       \/ /\ Len(page) = Limit /\ ~(ids \subseteq got)
          /\ got' = got \union ids /\ cursor' = rows[Last(page)].updated
          /\ outcome' = "reading"
    /\ UNCHANGED <<reading, axis, rows, windows, axes>>

-----------------------------------------------------------------------------

PagesInit ==
    /\ reading \in {"orders", "trades"} /\ axis \in Axes
    /\ rows \in [Rows -> [created : 0 .. End, updated : 0 .. End, open : BOOLEAN]]
    /\ \A i \in Rows : rows[i].created <= rows[i].updated
    /\ reading = "trades" =>
         axis = "created" /\ \A i \in Rows : rows[i].created = 0 /\ ~rows[i].open
    /\ windows = <<>> /\ axes = Axes /\ cursor = 0 /\ got = {} /\ outcome = "start"

PagesNext ==
    \/ ReadActive \/ ReadHistoryPage \/ HistoryEnds \/ ReadTradePage
    \/ \E i \in Rows : OrderCloses(i)

\* A reading that ends without an exception has every order there was when it began,
\* the ones that closed meanwhile included, and every trade of the window.
AllReported == outcome = "done" => got = Rows
=============================================================================
