----------------------------- MODULE SharedProcess -----------------------------
(***************************************************************************)
(* The Maker and the Taker in one process: one rule admits every new source*)
(* order of both (shared_admission.py), and one drain ends them            *)
(* (live_lifecycle.py).  Orders trade at the venue first, and the client   *)
(* hears of it later; what the client knows of the accounts' positions     *)
(* comes on other paths, sooner or later than the fill itself (see         *)
(* BitfinexAccount for when they grant budget).  Hedges are worked off in  *)
(* the order of the one ledger, an ounce at a time (MakerStateStore).      *)
(*                                                                         *)
(* Stores and position orders agree here, so the freezes for orders that     *)
(* differ between the two are left out, and so is what Taker and Maker     *)
(* model by themselves: crashes, failed writes and untrusted orders.       *)
(***************************************************************************)
EXTENDS CarryBounds

CONSTANTS
    Quantities,      \* of source orders, in source units
    SourceMax,       \* source_max_abs, in source units
    HedgeMax,        \* hedge_max_abs, in ounces
    MinKeep,         \* source_min_keep_abs, in source units
    MaxUnhedged,     \* max_unhedged_ounces, in source units
    Capacity,        \* what the margin of either account admits, in ounces
    MaxOrders,       \* bound: source orders of one process
    TradeSizes       \* bound: what the venue trades at a time, in source units

ASSUME ProcessAssumption ==
    /\ Quantities \subseteq Nat \ {0} /\ TradeSizes \subseteq Nat \ {0}
    /\ {SourceMax, HedgeMax, MinKeep, MaxUnhedged, Capacity, MaxOrders} \subseteq Nat

VARIABLES
    accounts,   \* the positions at the two venues
    work,       \* the source order of each view
    facts,      \* what the clients have been told of the accounts
    position,     \* the engine's source position
    owner,      \* MakerStateStore: residual, the lane of hedges and the freeze
    drain,      \* DrainingTradingNode: its phase, and the orders it canceled
    rule        \* only_long; observed: the orders, and the positions at the last admission

processVars == <<accounts, work, facts, position, owner, drain, rule>>

Views == {"long", "short", "taker"}
SidesOf(view) == IF view = "long" THEN {1} ELSE IF view = "short" THEN {-1} ELSE Sides

\* `place' and `left' are the venue's; `phase' and `leaves' are the engine's.
NoOrder == [side |-> 1, place |-> "gone", left |-> 0, phase |-> "closed", leaves |-> 0, mail |-> <<>>]

Listening == drain.phase \in {"run", "drain"}

-----------------------------------------------------------------------------
(* SharedSourceAdmission                                                   *)

\* Mutant: only the order that asks is counted.
NoLeaves(side) == 0

LeavesOf(view, side) == IF work[view].side = side THEN work[view].leaves ELSE 0
Leaves(side) == LeavesOf("long", side) + LeavesOf("short", side) + LeavesOf("taker", side)

KeepsRule(before, after, minimum) ==
    rule.onlyLong => before * after >= 0
                     /\ ~(Size(after) < minimum /\ Size(after) < Size(before))

\* _within_bounds
WithinBounds(net, buy, sell, maximum, minimum) ==
    /\ net + buy <= Largest(net, maximum)
    /\ net - sell >= Least(net, -maximum)
    /\ KeepsRule(net, net + buy, minimum) /\ KeepsRule(net, net - sell, minimum)

PositionsReady == facts.source = position /\ facts.hedge = accounts.hedge

\* can_submit_source of the view, and of the rest nothing frozen and no hedge owed.
MayAsk(view) ==
    /\ drain.phase = "run"
    /\ work[view].phase = "closed" /\ owner.freeze = "none" /\ owner.lane = <<>>
    /\ Size(owner.residual) <= Half
    /\ facts.budget

Admitted(buy, sell) ==
    LET hedgeBuy == HedgeBuys(owner.residual, sell)
        hedgeSell == HedgeSells(owner.residual, buy)
    IN  /\ Largest(buy, sell) <= Capacity * Unit
        /\ WithinBounds(facts.source, buy, sell, SourceMax, MinKeep)
        /\ CarryExposure(owner.residual, buy, sell) <= MaxUnhedged
        /\ Largest(hedgeBuy, hedgeSell) <= Capacity
        /\ WithinBounds(facts.hedge, hedgeBuy, hedgeSell, HedgeMax, 0)

\* Admission, begin_source and submit_order are one turn of the event loop.
SubmitSource(view, side, quantity) ==
    /\ MayAsk(view) /\ PositionsReady /\ rule.orders < MaxOrders
    /\ Admitted(Leaves(1) + (IF side = 1 THEN quantity ELSE 0),
                Leaves(-1) + (IF side = -1 THEN quantity ELSE 0))
    /\ work' = [work EXCEPT ![view] =
                  [side |-> side, place |-> "wire", left |-> quantity,
                   phase |-> "sent", leaves |-> quantity, mail |-> <<>>]]
    /\ facts' = [facts EXCEPT !.budget = FALSE]
    /\ rule' = [rule EXCEPT !.source = facts.source, !.hedge = facts.hedge, !.orders = @ + 1]
    /\ UNCHANGED <<accounts, position, owner, drain>>

\* A position that does not agree pauses both strategies for good.
AdmissionFreezes(view) ==
    /\ MayAsk(view) /\ ~PositionsReady
    /\ owner' = [owner EXCEPT !.freeze = "external"]
    /\ UNCHANGED <<accounts, work, facts, position, drain, rule>>

-----------------------------------------------------------------------------
(* The venue                                                               *)

Says(kind, part) == [kind |-> kind, part |-> part]
Tells(view, order, message) == work' = [work EXCEPT ![view] = [order EXCEPT !.mail = Append(@, message)]]

VenueAccepts(view) ==
    /\ work[view].place = "wire"
    /\ Tells(view, [work[view] EXCEPT !.place = "book"], Says("ack", 0))
    /\ UNCHANGED <<accounts, facts, position, owner, drain, rule>>

VenueTrades(view, part) ==
    LET order == work[view]  rest == order.left - part IN
    /\ order.place # "gone" /\ order.place # "wire" /\ rest >= 0
    /\ Tells(view, [order EXCEPT !.left = rest, !.place = IF rest = 0 THEN "gone" ELSE @], Says("trade", part))
    /\ accounts' = [accounts EXCEPT !.source = @ + order.side * part]
    /\ UNCHANGED <<facts, position, owner, drain, rule>>

\* A refused order, an IOC order that ends, a cancel that is carried out.
VenueCloses(view) ==
    LET order == work[view] IN
    /\ \/ order.place \in {"wire", "asked"}
       \/ order.place = "book" /\ view = "taker"
    /\ Tells(view, [order EXCEPT !.left = 0, !.place = "gone"], Says("end", 0))
    /\ UNCHANGED <<accounts, facts, position, owner, drain, rule>>

VenueRefusesCancel(view) ==
    /\ work[view].place = "asked"
    /\ Tells(view, [work[view] EXCEPT !.place = "book"], Says("kept", 0))
    /\ UNCHANGED <<accounts, facts, position, owner, drain, rule>>

-----------------------------------------------------------------------------
(* What the process hears                                                  *)

\* Mutant: a cycle is over when its hedges are, whatever still works.
HedgesDone(o, w) == o.lane = <<>> /\ Size(o.residual) <= Half

CycleDone(o, w) == (\A v \in Views : w[v].phase = "closed") /\ o.lane = <<>> /\ Size(o.residual) <= Half

\* Mutant: nobody lifts the freeze of a cycle.
NeverLifted(o, w) == o

\* clear_source_freezes, tried behind every event that may end a cycle
Lifted(o, w) == IF o.freeze = "cycle" /\ CycleDone(o, w) THEN [o EXCEPT !.freeze = "none"] ELSE o

\* _allocate, under the freeze every fill sets
Allocated(o, signed) ==
    LET combined == o.residual + signed
        rounded == RoundHedgeOunces(combined)
    IN  [o EXCEPT !.residual = combined - Unit * rounded,
                  !.lane = IF rounded = 0 THEN @ ELSE Append(@, -rounded),
                  !.freeze = IF @ = "external" THEN @ ELSE "cycle"]

\* The order with its first message read.
Heard(order) ==
    LET message == Head(order.mail)
        rest == [order EXCEPT !.mail = Tail(@)]
    IN CASE message.kind = "ack" -> [rest EXCEPT !.phase = IF @ = "sent" THEN "open" ELSE @]
         [] message.kind = "kept" -> [rest EXCEPT !.phase = "open"]
         [] message.kind = "end" \/ message.part = order.leaves -> NoOrder
         [] OTHER -> [rest EXCEPT !.leaves = @ - message.part]

Hears(view) ==
    /\ Listening /\ work[view].mail # <<>>
    /\ LET order == work[view]
           fill == order.side * Head(order.mail).part
           w == [work EXCEPT ![view] = Heard(order)]
           o == IF fill = 0 THEN owner ELSE Allocated(owner, fill)
       IN  /\ work' = w /\ position' = position + fill
           /\ owner' = Lifted(o, w)
           /\ facts' = [facts EXCEPT !.budget = FALSE]
    /\ UNCHANGED <<accounts, drain, rule>>

\* A frame of the stream installs a position, and grants nothing.
HearsPosition ==
    /\ Listening /\ facts.source # accounts.source
    /\ facts' = [facts EXCEPT !.source = accounts.source]
    /\ UNCHANGED <<accounts, work, position, owner, drain, rule>>

\* query_account: no request may be without its outcome.
RefreshAccount ==
    /\ Listening /\ \A v \in Views : work[v].phase \in {"open", "closed"}
    /\ facts' = [facts EXCEPT !.source = accounts.source, !.budget = TRUE]
    /\ UNCHANGED <<accounts, work, position, owner, drain, rule>>

HearsHedgePosition ==
    /\ Listening /\ facts' = [facts EXCEPT !.hedge = accounts.hedge]
    /\ UNCHANGED <<accounts, work, position, owner, drain, rule>>

\* The oldest obligation, an ounce of it.
Hedge ==
    /\ Listening /\ owner.lane # <<>>
    /\ LET first == Head(owner.lane)
           step == IF first > 0 THEN 1 ELSE -1
           o == [owner EXCEPT !.lane = IF first = step THEN Tail(@) ELSE [@ EXCEPT ![1] = first - step]]
       IN  accounts' = [accounts EXCEPT !.hedge = @ + step] /\ owner' = Lifted(o, work)
    /\ UNCHANGED <<work, facts, position, drain, rule>>

-----------------------------------------------------------------------------
(* Cancels and the drain                                                   *)

Asking(order) == [order EXCEPT !.phase = "canceling", !.place = IF @ = "book" THEN "asked" ELSE @]

\* A Maker withdraws a quote.
CancelWorking(view) ==
    /\ drain.phase = "run" /\ view # "taker" /\ work[view].phase = "open"
    /\ work' = [work EXCEPT ![view] = Asking(@)]
    /\ facts' = [facts EXCEPT !.budget = FALSE]
    /\ UNCHANGED <<accounts, position, owner, drain, rule>>

BeginDrain ==
    /\ drain.phase = "run" /\ drain' = [drain EXCEPT !.phase = "drain"]
    /\ UNCHANGED <<accounts, work, facts, position, owner, rule>>

\* Known to the venue, not closed, not pending cancel, not canceled by the drain before
Cancelable == {v \in Views : work[v].phase = "open" /\ v \notin drain.canceled}

\* One turn of the loop of drain_strategies, up to its first await
DrainCancels ==
    /\ drain.phase = "drain"
    /\ Cancelable # {} \/ owner # Lifted(owner, work)
    /\ work' = [v \in Views |-> IF v \in Cancelable THEN Asking(work[v]) ELSE work[v]]
    /\ drain' = [drain EXCEPT !.canceled = @ \union Cancelable]
    /\ owner' = Lifted(owner, work')
    /\ facts' = [facts EXCEPT !.budget = FALSE]
    /\ UNCHANGED <<accounts, position, rule>>

\* _snapshot has nothing pending.
NothingPending == owner.freeze = "none" /\ CycleDone(owner, work)

DrainCompletes ==
    /\ drain.phase = "drain" /\ NothingPending
    /\ drain' = [drain EXCEPT !.phase = "complete"]
    /\ UNCHANGED <<accounts, work, facts, position, owner, rule>>

DrainTimesOut ==
    /\ drain.phase = "drain" /\ ~NothingPending
    /\ drain' = [drain EXCEPT !.phase = "timeout"]
    /\ UNCHANGED <<accounts, work, facts, position, owner, rule>>

-----------------------------------------------------------------------------

ProcessInit ==
    /\ accounts = [source |-> 0, hedge |-> 0] /\ work = [v \in Views |-> NoOrder]
    /\ facts = [source |-> 0, hedge |-> 0, budget |-> FALSE] /\ position = 0
    /\ owner = [residual |-> 0, lane |-> <<>>, freeze |-> "none"]
    /\ drain = [phase |-> "run", canceled |-> {}]
    /\ \E onlyLong \in BOOLEAN : rule = [onlyLong |-> onlyLong, source |-> 0, hedge |-> 0, orders |-> 0]

Venue(view) ==
    VenueAccepts(view) \/ VenueCloses(view) \/ VenueRefusesCancel(view)
    \/ \E part \in TradeSizes : VenueTrades(view, part)

ProcessNext ==
    \/ \E v \in Views :
         \/ \E side \in SidesOf(v), q \in Quantities : SubmitSource(v, side, q)
         \/ AdmissionFreezes(v) \/ Venue(v) \/ Hears(v) \/ CancelWorking(v)
    \/ HearsPosition \/ RefreshAccount \/ HearsHedgePosition \/ Hedge
    \/ BeginDrain \/ DrainCancels \/ DrainCompletes \/ DrainTimesOut

\* The venue answers, the engine reads its queue, hedges are executed, and the
\* drain's loop goes on; nobody is obliged to ask for an order or to time out.
ProcessFairness ==
    /\ \A v \in Views : WF_processVars(VenueAccepts(v) \/ VenueCloses(v)) /\ WF_processVars(Hears(v))
    /\ WF_processVars(Hedge) /\ WF_processVars(DrainCancels) /\ WF_processVars(DrainCompletes)

ProcessSpec == ProcessInit /\ [][ProcessNext]_processVars /\ ProcessFairness

-----------------------------------------------------------------------------

Unhedged == accounts.source + Unit * accounts.hedge

\* However the orders of both strategies trade together, and however late each
\* fill is heard of, neither account leaves the limits that were checked when the
\* last of them was admitted, and what is not hedged stays within the budget.
JointRiskWithinLimits ==
    /\ Size(accounts.source) <= SourceMax /\ Size(accounts.hedge) <= HedgeMax
    /\ Size(Unhedged) <= MaxUnhedged
    /\ rule.source # 0 => KeepsRule(rule.source, accounts.source, MinKeep)
    /\ rule.hedge # 0 => KeepsRule(rule.hedge, accounts.hedge, 0)

\* A drain that reports completion leaves no order at the venue, no fill unheard
\* and no more than half an ounce without its hedge; and so it stays.
DrainedIsLevel ==
    drain.phase = "complete" =>
        /\ \A v \in Views : work[v].left = 0 /\ work[v].mail = <<>>
        /\ position = accounts.source /\ Size(Unhedged) <= Half

\* A drain comes to its end without the help of its timeout, unless the sources
\* were paused for another reason or the venue refused to cancel.
DrainSettles ==
    drain.phase = "drain" ~>
        \/ drain.phase # "drain" \/ owner.freeze = "external"
        \/ \E v \in drain.canceled : work[v].phase = "open"
=============================================================================
