---------------------------- MODULE BitfinexAccount ----------------------------
(***************************************************************************)
(* What BitfinexV1ExecutionClient knows of its margin wallet and position  *)
(* (bitfinex_v1_execution.py), and when the two are fit to grant NEW       *)
(* budget.  Facts come from frames of the private stream and from a query  *)
(* that reads both over REST, one after the other, while frames keep       *)
(* coming and orders keep being sent.                                      *)
(*                                                                         *)
(* The account at the venue changes by fills of the client's orders and by *)
(* others (funding, a person); `ts' counts its changes and stands for the  *)
(* wallet's amounts and for the position's update time.                    *)
(***************************************************************************)
EXTENDS Integers, Sequences, SequencesExt

CONSTANT
    MaxTurns   \* bound: changes of the account and streams, together

VARIABLES
    desk,    \* the venue: its count of changes, position ID and quantity, the order sent
    tape,    \* frames on the stream, in their order
    book,    \* the client's facts
    query    \* the refresh task

accountVars == <<desk, tape, book, query>>

NoRow == [id |-> 0, ts |-> 0, qty |-> 0]
Row(d) == [id |-> d.id, ts |-> d.ts, qty |-> d.qty]
Held(row) == IF row.qty = 0 THEN NoRow ELSE row

NoQuery == [step |-> "none", fresh |-> FALSE, eligible |-> FALSE, wallet |-> 0, row |-> NoRow, at |-> 0]

-----------------------------------------------------------------------------
(* Readiness                                                               *)

\* account_budget_refresh_ready; an order without outcome is `pending'
RefreshReady == book.up /\ book.wired /\ ~book.pending

AccountBudgetReady ==
    /\ RefreshReady
    /\ book.walletCurrent /\ book.current /\ book.complete
    /\ book.acted => book.budget

\* Every revision the query compares, wallet, position or action, has moved on.
Outdated == [query EXCEPT !.fresh = FALSE]

\* Mutant: an order's outcome leaves the budget as it was.
ActingOnBudget(b) == [b EXCEPT !.acted = TRUE]

Acting(b) == [b EXCEPT !.acted = TRUE, !.budget = FALSE]

Invalidated(b) ==
    [b EXCEPT !.budget = FALSE, !.walletCurrent = FALSE, !.current = FALSE, !.complete = FALSE]

-----------------------------------------------------------------------------
(* Installing facts                                                        *)

WithWallet(b, wallet) == [b EXCEPT !.wallet = wallet, !.walletCurrent = TRUE]

\* `asof' is only observed: the change of the account the row is as recent as.
WithPosition(b, row, at) ==
    [b EXCEPT !.held = Held(row), !.last = IF row = NoRow THEN @ ELSE row,
              !.complete = TRUE, !.current = TRUE, !.asof = at]

\* _margin_position_transition_valid
TransitionValid(row, kind) ==
    LET last == book.last  held == book.held IN
    /\ last # NoRow => row.ts > last.ts \/ row = last
    /\ CASE kind = "pc" -> /\ row.qty = 0 /\ last # NoRow /\ row.id = last.id
                           /\ held # NoRow \/ row = last
         [] kind = "pu" -> row.qty # 0 /\ held # NoRow /\ row.id = held.id
         [] kind = "pn" /\ held # NoRow -> row = held
         [] OTHER -> row.qty # 0 /\ ~(held = NoRow /\ last # NoRow /\ row.id = last.id)

\* _margin_position_candidate: a delta says nothing without a complete sample.
Candidate(row, kind) ==
    /\ kind = "ps" \/ book.complete
    /\ (kind = "ps" /\ row = NoRow) \/ TransitionValid(row, kind)

Unplaced(b) == [b EXCEPT !.complete = FALSE, !.current = FALSE]

-----------------------------------------------------------------------------
(* The venue                                                               *)

Told(frames) ==
    tape' = IF ~book.up THEN tape
            ELSE tape \o frames

WalletFrame == [kind |-> "wu", at |-> desk'.ts]
PositionFrame ==
    LET row == Row(desk') IN
    [kind |-> IF row.qty = 0 THEN "pc" ELSE IF desk.qty = 0 THEN "pn" ELSE "pu",
     row |-> row, at |-> row.ts]
OrderFrame == [kind |-> "order", at |-> desk'.ts]

Moves(change) ==
    /\ desk.ts + book.streams < MaxTurns
    /\ desk' = [desk EXCEPT !.ts = @ + 1, !.qty = @ + change, !.order = FALSE,
                            !.id = IF desk.qty = 0 THEN @ + 1 ELSE @]

\* The order's outcome, the wallet and the position are told in any order.
VenueFills ==
    /\ desk.order /\ \E change \in {1, -1} : Moves(change)
    /\ \E frames \in SetToSeqs({OrderFrame, WalletFrame, PositionFrame}) : Told(frames)
    /\ UNCHANGED <<book, query>>

VenueEnds ==
    /\ desk.order /\ desk' = [desk EXCEPT !.order = FALSE]
    /\ Told(<<OrderFrame>>)
    /\ UNCHANGED <<book, query>>

\* Somebody else moves the account.
OthersMove ==
    /\ ~desk.order /\ \E change \in {1, -1} : Moves(change)
    /\ \/ Told(<<WalletFrame, PositionFrame>>)
       \/ Told(<<PositionFrame, WalletFrame>>)
    /\ UNCHANGED <<book, query>>

-----------------------------------------------------------------------------
(* The client                                                              *)

SendsOrder ==
    /\ RefreshReady
    /\ book' = [Acting(book) EXCEPT !.pending = TRUE]
    /\ desk' = [desk EXCEPT !.order = TRUE] /\ query' = Outdated
    /\ UNCHANGED tape

\* _consume_private_frame, as far as it changes the account's facts
ReadsFrame ==
    /\ tape # <<>> /\ tape' = Tail(tape) /\ query' = Outdated
    /\ LET f == Head(tape) IN
       book' = CASE f.kind = "order" ->
                      [Acting(book) EXCEPT !.pending = FALSE, !.outcome = f.at]
                 [] f.kind \in {"ws", "wu"} ->
                      [WithWallet(book, f.at) EXCEPT !.wired = @ \/ f.kind = "ws"]
                 [] OTHER -> IF Candidate(f.row, f.kind) THEN WithPosition(book, f.row, f.at)
                             ELSE Unplaced(book)
    /\ UNCHANGED desk

\* The frames on the socket are lost; the refresh task is canceled.
StreamEnds ==
    /\ book.up
    /\ book' = [Invalidated(book) EXCEPT !.up = FALSE, !.wired = FALSE]
    /\ tape' = <<>> /\ query' = NoQuery
    /\ UNCHANGED desk

\* A stream begins with snapshots of wallets and positions.
Connects ==
    /\ ~book.up /\ ~book.pending /\ desk.ts + book.streams < MaxTurns
    /\ book' = [Invalidated(book) EXCEPT !.up = TRUE, !.streams = @ + 1]
    /\ LET ws == [kind |-> "ws", at |-> desk.ts]
           ps == [kind |-> "ps", row |-> Held(Row(desk)), at |-> desk.ts]
       IN tape' \in {<<ws, ps>>, <<ps, ws>>}
    /\ UNCHANGED <<desk, query>>

-----------------------------------------------------------------------------
(* query_account                                                           *)

QueryCurrent == book.up /\ book.wired /\ query.fresh

QueryAccount ==
    /\ query.step = "none" /\ book.up /\ book.wired
    /\ query' = [NoQuery EXCEPT !.step = "wallets", !.fresh = TRUE, !.eligible = RefreshReady]
    /\ UNCHANGED <<desk, tape, book>>

\* The venue answers; the answer reaches the client a step later.
AnswersWallets ==
    /\ query.step = "wallets"
    /\ query' = [query EXCEPT !.step = "gotWallets", !.wallet = desk.ts]
    /\ UNCHANGED <<desk, tape, book>>

\* A wallet that is missing or not unique takes the old one's currency away.
TakesWallets ==
    /\ query.step = "gotWallets"
    /\ \/ /\ ~QueryCurrent
          /\ query' = NoQuery /\ UNCHANGED book
       \/ /\ QueryCurrent
          /\ query' = [query EXCEPT !.step = "positions"] /\ UNCHANGED book
       \/ /\ QueryCurrent
          /\ query' = NoQuery /\ book' = [book EXCEPT !.walletCurrent = FALSE]
    /\ UNCHANGED <<desk, tape>>

AnswersPositions ==
    /\ query.step = "positions"
    /\ query' = [query EXCEPT !.step = "gotPositions", !.row = Held(Row(desk)), !.at = desk.ts]
    /\ UNCHANGED <<desk, tape, book>>

\* Both are installed in one step, or neither.
TakesPositions ==
    /\ query.step = "gotPositions"
    /\ query' = NoQuery
    /\ book' = CASE ~QueryCurrent -> book
                 [] QueryCurrent /\ ~Candidate(query.row, "ps") -> Unplaced(book)
                 [] OTHER ->
                      [WithPosition(WithWallet(book, query.wallet), query.row, query.at)
                         EXCEPT !.budget = @ \/ (query.eligible /\ RefreshReady)]
    /\ UNCHANGED <<desk, tape>>

\* The request fails or takes longer than rest_timeout_secs.
QueryFails ==
    /\ query.step # "none" /\ query' = NoQuery
    /\ UNCHANGED <<desk, tape, book>>

-----------------------------------------------------------------------------

AccountInit ==
    /\ desk = [ts |-> 0, id |-> 0, qty |-> 0, order |-> FALSE]
    /\ tape = <<>> /\ query = NoQuery
    /\ book = [up |-> FALSE, wired |-> FALSE, pending |-> FALSE, acted |-> FALSE, budget |-> FALSE,
               wallet |-> 0, walletCurrent |-> FALSE, held |-> NoRow, last |-> NoRow,
               complete |-> FALSE, current |-> FALSE, asof |-> 0, outcome |-> 0, streams |-> 0]

AccountNext ==
    \/ VenueFills \/ VenueEnds \/ OthersMove
    \/ SendsOrder \/ ReadsFrame \/ StreamEnds \/ Connects
    \/ QueryAccount \/ AnswersWallets \/ TakesWallets
    \/ AnswersPositions \/ TakesPositions \/ QueryFails

\* Budget is granted only on facts as recent as the outcome of every order the
\* client knows of; when no frame is unread, on the venue's present facts.
BudgetIsCurrent ==
    AccountBudgetReady =>
        /\ book.wallet >= book.outcome /\ book.asof >= book.outcome
        /\ tape = <<>> => book.wallet = desk.ts /\ book.held = Held(Row(desk))

-----------------------------------------------------------------------------
(* The inductive invariant behind BudgetIsCurrent (BitfinexAccount_proofs). *)

AccountSpec == AccountInit /\ [][AccountNext]_accountVars

PositionRows == [id : Nat, ts : Nat, qty : Int]
Desks == [ts : Nat, id : Nat, qty : Int, order : BOOLEAN]
Frames ==
    [kind : {"ws", "wu", "order"}, at : Nat]
        \union [kind : {"ps", "pn", "pu", "pc"}, row : PositionRows, at : Nat]
Books ==
    [up : BOOLEAN, wired : BOOLEAN, pending : BOOLEAN, acted : BOOLEAN, budget : BOOLEAN,
     wallet : Nat, walletCurrent : BOOLEAN, held : PositionRows, last : PositionRows,
     complete : BOOLEAN, current : BOOLEAN, asof : Nat, outcome : Nat, streams : Nat]
Queries ==
    [step : {"none", "wallets", "gotWallets", "positions", "gotPositions"}, fresh : BOOLEAN,
     eligible : BOOLEAN, wallet : Nat, row : PositionRows, at : Nat]

IsWallet(frame) == frame.kind \in {"ws", "wu"}
IsPosition(frame) == frame.kind \in {"ps", "pn", "pu", "pc"}

\* The frames come in the order of the venue's changes, after the last outcome read.
InOrder(frames, low, high) ==
    \A i \in DOMAIN frames :
        /\ low <= frames[i].at /\ frames[i].at <= high
        /\ \A j \in DOMAIN frames : i <= j => frames[i].at <= frames[j].at

\* The last wallet and the last position on the stream are the present ones.
LastWallet(frames, ts) ==
    \A i \in DOMAIN frames :
        IsWallet(frames[i]) /\ (\A j \in DOMAIN frames : i < j => ~IsWallet(frames[j]))
            => frames[i].at = ts
LastPosition(frames, held) ==
    \A i \in DOMAIN frames :
        IsPosition(frames[i]) /\ (\A j \in DOMAIN frames : i < j => ~IsPosition(frames[j]))
            => Held(frames[i].row) = held

\* A fact that no frame on the stream is about is the present one.
WalletKnown(wallet, frames, ts) ==
    (\A i \in DOMAIN frames : ~IsWallet(frames[i])) => wallet = ts
PositionKnown(row, frames, held) ==
    (\A i \in DOMAIN frames : ~IsPosition(frames[i])) => row = held

StreamFollows(frames, d, low) ==
    /\ frames \in Seq(Frames) /\ low <= d.ts /\ InOrder(frames, low, d.ts)
    /\ LastWallet(frames, d.ts) /\ LastPosition(frames, Held(Row(d)))

\* Each fact of the book is what the frames already read have told, and not older than
\* the last outcome unless that outcome has withdrawn the budget.
BookFollows(b, frames, d) ==
    /\ b \in Books
    /\ ~b.up => frames = <<>> /\ ~b.walletCurrent /\ ~b.current
    /\ b.walletCurrent =>
         /\ WalletKnown(b.wallet, frames, d.ts)
         /\ (b.acted => b.budget) => b.wallet >= b.outcome
    /\ b.current =>
         /\ PositionKnown(b.held, frames, Held(Row(d)))
         /\ (b.acted => b.budget) => b.asof >= b.outcome
    /\ ~b.acted => b.outcome = 0

\* A query that nothing has overtaken has answers of that kind too.
QueryFollows(q, b, frames, d) ==
    /\ q \in Queries /\ (~b.up => q = NoQuery)
    /\ q.fresh /\ q.step \in {"gotWallets", "positions", "gotPositions"} =>
         q.wallet >= b.outcome /\ WalletKnown(q.wallet, frames, d.ts)
    /\ q.fresh /\ q.step = "gotPositions" =>
         q.at >= b.outcome /\ PositionKnown(q.row, frames, Held(Row(d)))
    /\ Held(q.row) = q.row

AccountInv ==
    /\ desk \in Desks
    /\ StreamFollows(tape, desk, book.outcome)
    /\ BookFollows(book, tape, desk)
    /\ QueryFollows(query, book, tape, desk)
=============================================================================
