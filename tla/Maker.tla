--------------------------------- MODULE Maker ---------------------------------
(***************************************************************************)
(* MakerStrategy (strategies/maker.py) over its owner of two stores: it    *)
(* keeps one resting bid and one resting ask on Bitfinex, freezes both and *)
(* cancels them when either trades, hedges the fills one MetaTrader order  *)
(* at a time, and quotes again once the cycle is settled.                  *)
(*                                                                         *)
(* Callbacks run one after the other on one event loop (a timer that fires *)
(* on another thread is handed over to it).  A callback is a row of steps  *)
(* ("doing"), cut after every write and before every send; the process may *)
(* die between two steps, but no other callback comes in between.  What a  *)
(* callback still does after an exception is its freezes and its cancels.  *)
(*                                                                         *)
(* Memory never differs from the last value written, except that a failed  *)
(* sync of the directory leaves the new one (_committed, _restore).        *)
(* CANCELED stands for EXPIRED too, REJECTED for DENIED.                   *)
(***************************************************************************)
EXTENDS MakerStore, CarryBounds

CONSTANTS
    Gated,        \* live: a restart gate and an account reader are bound
    Carry,        \* residual_mode is bounded-carry
    Budget,       \* max_unhedged_ounces, in source units
    Requotes,     \* prices move while a quote rests
    Tickets,      \* MetaTrader ticket numbers, all free at the start
    OpenTickets,  \* those that change by themselves
    Quantities,   \* source order quantities
    Fills,        \* quantities of a single source trade
    OneSided,     \* bound: prices only ever allow a bid
    MaxOrders,    \* bound: source orders begun in each direction
    MaxTrades,    \* bound: trades of one source order
    WritesFail,   \* writing the store may fail
    MaxMishaps    \* bound: failed writes, drains, stops, crashes, lost answers, refusals,
                  \* foreign trades

ASSUME MakerAssumption ==
    /\ Gated \in BOOLEAN /\ Carry \in BOOLEAN /\ Budget \in Nat
    /\ Carry \/ ResidualLimit = 0
    /\ Requotes \in BOOLEAN
    /\ Tickets \subseteq Nat \ {NoTicket} /\ OpenTickets \subseteq Tickets
    /\ OneSided \in BOOLEAN
    /\ Quantities \subseteq Nat \ {0} /\ Fills \subseteq Nat \ {0}
    /\ MaxOrders \in Nat /\ MaxTrades \in Nat /\ MaxMishaps \in Nat
    /\ WritesFail \in BOOLEAN

VARIABLES
    mem,        \* the owner in the running process
    disk,       \* the owner in the file
    durable,    \* the owner a power cut would leave
    failed,     \* _freeze_publication_failed
    phase,      \* "down", "starting", "trading", "draining" or "stopping"
    gate,       \* the restart gate is closed
    hold,       \* _source_hold
    doing,      \* the steps left of the callback that is running
    engine,     \* the engine's view of each source order
    toCancel,   \* _pending_source_cancels
    scheduled,  \* cancels that wait for the loop (call_soon)
    querying,   \* source orders whose final report was asked for
    alarm,      \* this process was told of a source order it cannot trust
    source,     \* the source venue's truth about each order
    hedges,     \* the hedge orders that were sent, and what became of them
    tickets,    \* the MetaTrader tickets
    mishaps

owner == <<mem, disk, durable, failed>>
cache == <<engine, toCancel, scheduled, querying>>
world == <<source, hedges, tickets>>
vars == <<owner, phase, gate, hold, doing, cache, alarm, world, mishaps>>

SourceIds == Directions \X (1 .. MaxOrders)
Absent == [state |-> "absent", quantity |-> 0, fills |-> <<>>]
Unseen == [status |-> "absent", fills |-> {}, asked |-> FALSE, updating |-> FALSE]

Init ==
    /\ mem = EmptyOwner /\ disk = EmptyOwner /\ durable = EmptyOwner /\ failed = FALSE
    /\ phase = "down" /\ gate = FALSE /\ hold = FALSE /\ doing = <<>>
    /\ engine = [p \in SourceIds |-> Unseen]
    /\ toCancel = {} /\ scheduled = {} /\ querying = {} /\ alarm = FALSE
    /\ source = [p \in SourceIds |-> Absent]
    /\ hedges = <<>> /\ tickets = [t \in Tickets |-> 0]
    /\ mishaps = 0

-----------------------------------------------------------------------------
(* Steps and writes                                                        *)

\* What a step is about: a direction, and an order or an intent of it.
Step(name, d, n) == [step |-> name, d |-> d, n |-> n]
Plain(name) == Step(name, 0, 0)
Cancels == <<Step("cancel", 1, 0), Step("cancel", -1, 0)>>
FreezeAndCancel == <<Plain("freeze")>> \o Cancels

\* _freeze_and_cancel_all for a market input: the hold is not written anywhere.
HoldAndCancel == hold' = TRUE /\ doing' = Cancels
AfterRaise(steps) == SelectSeq(steps, LAMBDA s : s.step \in {"freeze", "cancel"})

Now(name) == phase # "down" /\ doing # <<>> /\ doing[1].step = name
Rest == Tail(doing)
Free == phase \in {"trading", "draining"} /\ doing = <<>>
Listening == Free /\ ~gate

Mishap(n) == mishaps + n <= MaxMishaps /\ mishaps' = mishaps + n

\* A freeze whose write failed is not forgotten by a later write that succeeds.
Published(w) == IF failed THEN [w EXCEPT !.cycle = FALSE] ELSE w

Written(w) == mem' = w /\ disk' = w

\* Mutant: a write that fails is swallowed, and memory keeps what was not written.
PersistOrGoOn(w, then, orElse, n) ==
    \/ Written(Published(w)) /\ durable' = mem' /\ doing' = then /\ Mishap(n) /\ UNCHANGED failed
    \/ /\ WritesFail /\ Mishap(n + 1) /\ doing' = then
       /\ mem' = Published(w) /\ UNCHANGED <<disk, durable, failed>>

\* w is written, after n other mishaps: the callback goes on to "then", or with
\* "orElse" if that raises.
Persist(w, then, orElse, n) ==
    \/ Written(Published(w)) /\ durable' = mem' /\ doing' = then /\ Mishap(n) /\ UNCHANGED failed
    \/ /\ WritesFail /\ Mishap(n + 1) /\ doing' = orElse
       /\ UNCHANGED durable
       /\ \/ Written(Published(w)) /\ failed' = TRUE
          \/ UNCHANGED <<mem, disk, failed>>

\* A freeze that could not be written still counts in this process.
PersistFreeze(w, then) ==
    \/ Written(w) /\ durable' = w /\ doing' = then /\ Mishap(0) /\ UNCHANGED failed
    \/ /\ WritesFail /\ Mishap(1) /\ doing' = then /\ failed' = TRUE
       /\ UNCHANGED durable
       /\ Written(w) \/ UNCHANGED <<mem, disk>>

Proceed(then) == doing' = then /\ UNCHANGED owner /\ Mishap(0)

View(d) == mem.view[d]
InView(d, s) == [mem EXCEPT !.view[d] = s]
IsActive(p) == View(p[1]).active = p[2]

ObligationBlock ==
    \/ hold \/ failed \/ ~ResidualAdmissible(mem)
    \/ \E d \in Directions :
          \/ View(d).halt # NoHalt \/ View(d).frozen
          \/ ~AllCompleted(View(d)) \/ ~MakerBalanceAdmissible(mem, d)

-----------------------------------------------------------------------------
(* Starting and stopping                                                   *)

OnStart ==
    /\ phase = "down"
    /\ phase' = "starting" /\ gate' = Gated
    /\ doing' = <<Step("recover", 1, 0), Step("recover", -1, 0), Plain("release"), Plain("started")>>
    /\ UNCHANGED <<owner, hold, cache, alarm, world, mishaps>>

\* Nothing that was under way is trusted.
Recover ==
    /\ Now("recover")
    /\ LET d == doing[1].d
           s == RecoverForStart(View(d))
       IN  IF s = View(d) THEN Proceed(Rest) ELSE Persist(InView(d, s), Rest, <<>>, 0)
    /\ UNCHANGED <<phase, gate, hold, cache, alarm, world>>

Started ==
    /\ Now("started")
    /\ phase' = "trading" /\ doing' = <<>>
    /\ UNCHANGED <<owner, gate, hold, cache, alarm, world, mishaps>>

\* reconcile_startup without a receipt, on a store with nothing left to do.
ReconcileStartup ==
    /\ Free /\ gate
    /\ \A d \in Directions : MakerCanSubmit(mem, d) /\ MakerEvidenceComplete(mem, d)
    /\ \A p \in SourceIds : source[p].state # "absent" =>
          /\ KnowsSourceOrder(View(p[1]), p[2])
          /\ View(p[1]).orders[p[2]].status = source[p].state
          /\ View(p[1]).orders[p[2]].filled = FoldSeq(+, 0, source[p].fills)
    /\ \A q \in DOMAIN hedges : hedges[q].state = "executed" =>
          <<q[2], 1>> \in View(q[1]).seenHedge
    /\ gate' = FALSE
    /\ UNCHANGED <<owner, phase, hold, doing, cache, alarm, world, mishaps>>

BeginDrain ==
    /\ Free /\ phase = "trading" /\ Mishap(1)
    /\ phase' = "draining"
    /\ UNCHANGED <<owner, gate, hold, doing, cache, alarm, world>>

OnStop ==
    /\ Free /\ Mishap(1)
    /\ phase' = "stopping" /\ toCancel' = {} /\ scheduled' = {} /\ querying' = {}
    /\ doing' = IF gate \/ phase = "draining" THEN <<>> ELSE Cancels
    /\ UNCHANGED <<owner, gate, hold, engine, alarm, world>>

\* Nothing is left of a process but its file; the next one begins with that.
Gone ==
    /\ phase' = "down" /\ gate' = FALSE /\ hold' = FALSE /\ doing' = <<>> /\ alarm' = FALSE
    /\ engine' = [p \in SourceIds |-> Unseen]
    /\ toCancel' = {} /\ scheduled' = {} /\ querying' = {}
    /\ mem' = disk' /\ failed' = FALSE
    /\ UNCHANGED <<durable, world>>

\* Stopped, or not able to start.
Exit ==
    /\ phase \in {"starting", "stopping"} /\ doing = <<>>
    /\ UNCHANGED <<disk, mishaps>> /\ Gone

\* The process dies, wherever it is.  A power cut may undo the last rename.
Crash ==
    /\ phase # "down" /\ Mishap(1)
    /\ disk' \in {disk, durable} /\ Gone

-----------------------------------------------------------------------------
(* Freezing, canceling, releasing                                          *)

Freeze ==
    /\ Now("freeze")
    /\ IF FreezeSources(mem) = mem THEN Proceed(Rest) ELSE PersistFreeze(FreezeSources(mem), Rest)
    /\ UNCHANGED <<phase, gate, hold, cache, alarm, world>>

\* A stop does its cancels one after the other, without a net.
CancelRaised == IF phase = "stopping" THEN <<>> ELSE AfterRaise(Rest)

\* Mutant: a cancel that cannot be sent yet is forgotten.
NotedNever(p) == toCancel

\* A cancel that cannot be sent yet is noted, except by a stop.
Noted(p) == IF phase = "stopping" THEN toCancel ELSE toCancel \union {p}

\* _cancel_working: an order the venue has not accepted yet can only be noted.
Cancel ==
    /\ Now("cancel")
    /\ LET d == doing[1].d
           p == <<d, View(d).active>>
           unknown == InView(d, MarkSourceUnknown(View(d), p[2]))
           status == IF p[2] = NoOrder THEN "none" ELSE engine[p].status
       IN  \/ status = "none" /\ Proceed(Rest) /\ UNCHANGED <<engine, toCancel>>
           \/ /\ status = "absent"
              /\ Persist(unknown, Rest, CancelRaised, 0) /\ UNCHANGED <<engine, toCancel>>
           \/ /\ status = "sent" /\ Proceed(Rest) /\ UNCHANGED engine
              /\ toCancel' = Noted(p)
           \/ /\ status \notin {"none", "absent", "sent"} /\ toCancel' = toCancel \ {p}
              /\ \/ (status # "open" \/ engine[p].asked) /\ Proceed(Rest) /\ UNCHANGED engine
                 \/ /\ status = "open" /\ ~engine[p].asked /\ Proceed(Rest)
                    /\ engine' = [engine EXCEPT ![p].asked = TRUE]
                 \/ /\ status = "open" /\ ~engine[p].asked /\ UNCHANGED engine
                    /\ Persist(unknown, Rest, CancelRaised, 1)
    /\ UNCHANGED <<phase, gate, hold, scheduled, querying, alarm, world>>

\* Mutant: any complete cycle lifts any freeze.
MayClearAny ==
    /\ Frozen(mem) /\ ~failed /\ ResidualAdmissible(mem)
    /\ \A d \in Directions : MakerEvidenceComplete(mem, d)

\* A freeze that only stood for fills is lifted once all they led to is done.
MayClear ==
    /\ mem.cycle /\ Frozen(mem) /\ ~failed /\ ResidualAdmissible(mem)
    /\ \A d \in Directions : MakerEvidenceComplete(mem, d)

\* Nothing was frozen: fresh inputs lift the hold that stale ones caused.
MayLift ==
    /\ ~mem.cycle /\ ~Frozen(mem) /\ ~failed /\ ResidualAdmissible(mem)
    /\ \A d \in Directions : MakerEvidenceComplete(mem, d)

\* _try_release_cycle without fresh inputs
Release ==
    /\ Now("release")
    /\ IF ~gate /\ MayClear
       THEN Persist(ClearSourceFreezes(mem), Rest, AfterRaise(Rest), 0) /\ hold' = (hold /\ mishaps' # mishaps)
       ELSE Proceed(Rest) /\ UNCHANGED hold
    /\ UNCHANGED <<phase, gate, cache, alarm, world>>

-----------------------------------------------------------------------------
(* Quoting                                                                 *)

\* _evaluate_quotes, up to its first write: stale inputs withdraw the quotes,
\* fresh ones release what may be released.
Evaluate(fresh) ==
    /\ UNCHANGED <<owner, phase, gate, cache, alarm, world, mishaps>>
    /\ IF phase = "draining" THEN doing' = <<>> /\ UNCHANGED hold
       ELSE IF ~fresh THEN HoldAndCancel
       ELSE /\ doing' = (IF MayClear THEN <<Plain("release")>> ELSE <<>>) \o <<Plain("quote")>>
            /\ hold' = (hold /\ ~MayLift)

\* on_quote_tick of the source leg, and the account update that repeats it; a
\* tick of the hedge leg with nothing to hedge is the same.
OnQuoteTick(fresh) == Listening /\ Evaluate(fresh)

\* on_quote_tick of the hedge leg
OnHedgeTick ==
    /\ Listening /\ NextPendingHedge(mem) # NothingPending
    /\ doing' = <<Plain("dispatch"), Plain("evaluate")>>
    /\ UNCHANGED <<owner, phase, gate, hold, cache, alarm, world, mishaps>>

EvaluateAfterDispatch(fresh) == Now("evaluate") /\ Evaluate(fresh)

ContinueDrain ==
    /\ Listening /\ phase = "draining"
    /\ doing' = <<Plain("dispatch"), Plain("release")>>
    /\ UNCHANGED <<owner, phase, gate, hold, cache, alarm, world, mishaps>>

\* Costs, session, instrument or account say that quotes must not rest.
StopQuoting ==
    /\ Listening /\ HoldAndCancel
    /\ UNCHANGED <<owner, phase, gate, cache, alarm, world, mishaps>>

\* The alarm set for the age of a resting quote's inputs goes off, on another thread,
\* and is handed to the loop.  Inputs that are fresh after all only set it anew.
OnStaleTimer(d) ==
    /\ Listening /\ phase = "trading" /\ View(d).active # NoOrder
    /\ HoldAndCancel
    /\ UNCHANGED <<owner, phase, gate, cache, alarm, world, mishaps>>

\* The engine's order rests at the venue as it was accepted there.
Resting(p) ==
    engine[p].status = "open" /\ ~engine[p].asked /\ ~engine[p].updating /\ engine[p].fills = {}

Leaves(p) == View(p[1]).orders[p[2]].quantity

\* What a quote of this quantity and the other one may come to.
CarryAllows(d, quantity) ==
    LET other == IF View(-d).active = NoOrder THEN 0 ELSE Leaves(<<-d, View(-d).active>>)
        buy  == IF d = 1 THEN quantity ELSE other
        sell == IF d = 1 THEN other ELSE quantity
    IN  ~ObligationBlock /\ CarryExposure(Residual(mem), buy, sell) <= Budget

\* Mutant: each quote is admitted on its own.
AdmitsAlone(d, quantity) ==
    /\ (Gated \/ Carry) /\ View(-d).active # NoOrder => Resting(<<-d, View(-d).active>>)
    /\ Gated => ~ObligationBlock
    /\ Carry => ~ObligationBlock /\ CarryExposure(Residual(mem),
                    IF d = 1 THEN quantity ELSE 0, IF d = 1 THEN 0 ELSE quantity) <= Budget

\* _new_quote and _source_hedge_is_executable: beside the other quote only if
\* that rests undisturbed, when live or when a residual is carried.
Admits(d, quantity) ==
    /\ (Gated \/ Carry) /\ View(-d).active # NoOrder => Resting(<<-d, View(-d).active>>)
    /\ Gated => ~ObligationBlock
    /\ Carry => CarryAllows(d, quantity)

\* Live, a direction without an order comes first.
RefreshOrder ==
    LET last == IF Gated /\ View(1).active # NoOrder /\ View(-1).active = NoOrder THEN 1 ELSE -1 IN
    <<Step("refresh", -last, 0), Step("refresh", last, 0)>>

\* The end of _evaluate_quotes; a paused refresh ends it early.
Quote ==
    /\ Now("quote")
    /\ \/ ObligationBlock /\ HoldAndCancel
       \/ ~ObligationBlock /\ doing' \in {<<>>, RefreshOrder} /\ UNCHANGED hold
    /\ UNCHANGED <<owner, phase, gate, cache, alarm, world, mishaps>>

\* Market, costs, accounts and the hedge preflight decide freely.
RefreshIdle ==
    /\ Now("refresh") /\ <<doing[1].d, View(doing[1].d).active>> \notin toCancel
    /\ Proceed(Rest)
    /\ UNCHANGED <<phase, gate, hold, cache, alarm, world>>

RefreshNew(quantity) ==
    /\ Now("refresh")
    /\ LET d == doing[1].d IN
        /\ (OneSided => d = 1) /\ MakerCanSubmit(mem, d) /\ Len(View(d).orders) < MaxOrders /\ Admits(d, quantity)
        /\ Persist(InView(d, BeginSource(View(d), d, quantity, NoExit, FALSE)),
                   <<Step("submit source", d, 0)>> \o Rest, AfterRaise(Rest), 0)
    /\ UNCHANGED <<phase, gate, hold, cache, alarm, world>>

\* The quote no longer pays, or its cancel is still due.
RefreshCancels ==
    /\ Now("refresh")
    /\ View(doing[1].d).active # NoOrder
    /\ engine[<<doing[1].d, View(doing[1].d).active>>].status \in {"sent", "open"}
    /\ doing' = <<Step("cancel", doing[1].d, 0)>> \o Rest
    /\ UNCHANGED <<owner, phase, gate, hold, cache, alarm, world, mishaps>>

RefreshRequotes ==
    /\ Now("refresh") /\ Requotes
    /\ LET p == <<doing[1].d, View(doing[1].d).active>> IN
        /\ p[2] # NoOrder /\ p \notin toCancel
        /\ engine[p].status \in (IF Gated THEN {"open"} ELSE {"sent", "open"})
        /\ ~engine[p].asked /\ ~engine[p].updating
        /\ engine' = [engine EXCEPT ![p].updating = TRUE]
    /\ Proceed(Rest)
    /\ UNCHANGED <<phase, gate, hold, toCancel, scheduled, querying, alarm, world>>

Sent(p) ==
    /\ source' = [source EXCEPT ![p] = [state |-> "open", quantity |-> Leaves(p), fills |-> <<>>]]
    /\ engine' = [engine EXCEPT ![p].status = "sent"]

\* submit_order returns, or raises before or after the order is on its way.
SubmitSource ==
    /\ Now("submit source")
    /\ LET d == doing[1].d
           p == <<d, View(d).active>>
           unknown == InView(d, MarkSourceUnknown(View(d), p[2]))
       IN  \/ Sent(p) /\ Proceed(Rest)
           \/ /\ Persist(unknown, AfterRaise(Rest), AfterRaise(Rest), 1)
              /\ Sent(p) \/ UNCHANGED <<source, engine>>
    /\ UNCHANGED <<phase, gate, hold, toCancel, scheduled, querying, alarm, hedges, tickets>>

-----------------------------------------------------------------------------
(* Events of a source order                                                *)

Knows(p) == KnowsSourceOrder(View(p[1]), p[2])
Working(p) == engine[p].status \in {"sent", "open"}
Updated(p, status) == InView(p[1], UpdateSourceStatus(View(p[1]), p[2], status))

\* on_order_accepted: a cancel that waited for it is left to the loop, so that
\* a fill delivered with the acceptance comes first.
OnSourceAccepted(p) ==
    /\ Listening /\ Knows(p) /\ engine[p].status = "sent" /\ source[p].state # "REJECTED"
    /\ engine' = [engine EXCEPT ![p].status = "open"]
    /\ Persist(Updated(p, "ACCEPTED"), <<>>, <<>>, 0)
    /\ scheduled' = IF p \in toCancel /\ mishaps' = mishaps THEN scheduled \union {p} ELSE scheduled
    /\ UNCHANGED <<phase, gate, hold, toCancel, querying, alarm, world>>

CancelAfterAcceptance(p) ==
    /\ Listening /\ p \in scheduled
    /\ scheduled' = scheduled \ {p}
    /\ IF p \in toCancel /\ IsActive(p) /\ Working(p)
       THEN doing' = <<Step("cancel", p[1], 0)>> /\ UNCHANGED toCancel
       ELSE toCancel' = toCancel \ {p} /\ UNCHANGED doing
    /\ UNCHANGED <<owner, phase, gate, hold, engine, querying, alarm, world, mishaps>>

\* The venue confirms a new price.
EngineUpdated(p) ==
    /\ Free /\ engine[p].updating
    /\ engine' = [engine EXCEPT ![p].updating = FALSE]
    /\ UNCHANGED <<owner, phase, gate, hold, doing, toCancel, scheduled, querying, alarm, world, mishaps>>

\* on_order_rejected with a real reason, on_order_denied
OnSourceRejected(p) ==
    /\ Listening /\ Knows(p) /\ engine[p].status = "sent" /\ source[p].state = "REJECTED"
    /\ engine' = [engine EXCEPT ![p].status = "REJECTED"]
    /\ Persist(Updated(p, "REJECTED"), <<Plain("release")>>, <<>>, 0)
    /\ toCancel' = IF mishaps' = mishaps THEN toCancel \ {p} ELSE toCancel
    /\ UNCHANGED <<phase, gate, hold, scheduled, querying, alarm, world>>

\* _mark_source_unknown: whatever the write does, freeze and cancel follow.
MarkUnknown(p, n) ==
    /\ hold' = TRUE /\ alarm' = TRUE
    /\ Persist(InView(p[1], MarkSourceUnknown(View(p[1]), p[2])), FreezeAndCancel, FreezeAndCancel, n)

\* on_order_rejected with reason UNKNOWN: the client got no answer.
OnSourceUnknown(p) ==
    /\ Listening /\ Knows(p) /\ Working(p)
    /\ engine' = [engine EXCEPT ![p].status = "REJECTED"]
    /\ MarkUnknown(p, 1)
    /\ UNCHANGED <<phase, gate, toCancel, scheduled, querying, world>>

\* on_order_canceled: the final report is asked for unless something raised.
OnSourceTerminal(p) ==
    /\ Listening /\ Knows(p) /\ Working(p) /\ source[p].state = "CANCELED"
    /\ engine' = [engine EXCEPT ![p].status = "CANCELED", ![p].asked = FALSE]
    /\ Persist(Updated(p, "CANCELED"), <<Plain("release"), Step("query", p[1], p[2])>>, <<>>, 0)
    /\ toCancel' = IF mishaps' = mishaps THEN toCancel \ {p} ELSE toCancel
    /\ UNCHANGED <<phase, gate, hold, scheduled, querying, alarm, world>>

RequestSourceTerminalQuery ==
    /\ Now("query")
    /\ querying' = querying \union {<<doing[1].d, doing[1].n>>}
    /\ Proceed(Rest)
    /\ UNCHANGED <<phase, gate, hold, engine, toCancel, scheduled, alarm, world>>

\* Mutant: only the state of the order is compared, not what was filled.
ReportNamesState(p) == source[p].state = "CANCELED" /\ View(p[1]).orders[p[2]].status = "CANCELED"

\* source_cancel_report_is_exact: the report of the venue, the store's record
\* and the engine's order say the same.
ReportIsExact(p) ==
    /\ source[p].state = "CANCELED" /\ View(p[1]).orders[p[2]].status = "CANCELED"
    /\ engine[p].status = "CANCELED"
    /\ View(p[1]).orders[p[2]].filled = FoldSeq(+, 0, source[p].fills)

\* A report that is missing or not exact changes nothing.
CompleteSourceTerminalQuery(p) ==
    /\ Listening /\ p \in querying /\ ReportIsExact(p)
    /\ Persist(InView(p[1], ConfirmSourceReconciled(View(p[1]), p[2])),
               <<Plain("release"), Step("answered", p[1], p[2])>>, <<>>, 0)
    /\ UNCHANGED <<phase, gate, hold, cache, alarm, world>>

QueryAnswered ==
    /\ Now("answered")
    /\ querying' = querying \ {<<doing[1].d, doing[1].n>>}
    /\ Proceed(Rest)
    /\ UNCHANGED <<phase, gate, hold, engine, toCancel, scheduled, alarm, world>>

\* _source_action_is_obsolete: the order is over and in the books, or what was
\* refused is a new price while a protective cancel is on its way.
Obsolete(p, modify) ==
    LET record == View(p[1]).orders[p[2]]
        booked == \A k \in engine[p].fills : <<p[2], k>> \in View(p[1]).seenSource
    IN  /\ booked
        /\ \/ engine[p].status \in {"CANCELED", "FILLED"} /\ engine[p].status = record.status
           \/ /\ modify /\ engine[p].asked /\ hold /\ IsActive(p)
              /\ \/ record.status = "PARTIALLY_FILLED" /\ View(p[1]).frozen
                 \/ record.status = "ACCEPTED" /\ engine[p].fills = {}

Refused(p, modify) ==
    IF Obsolete(p, modify)
    THEN Proceed(<<>>) /\ UNCHANGED <<hold, alarm>>
    ELSE MarkUnknown(p, 0)

OnModifyRejected(p) ==
    /\ Listening /\ Knows(p) /\ engine[p].updating
    /\ engine' = [engine EXCEPT ![p].updating = FALSE]
    /\ Refused(p, TRUE)
    /\ UNCHANGED <<phase, gate, toCancel, scheduled, querying, world>>

\* A cancel that comes too late, or that the venue refuses.
OnCancelRejected(p) ==
    /\ Listening /\ Knows(p) /\ engine[p].asked
    /\ engine' = [engine EXCEPT ![p].asked = FALSE]
    /\ Refused(p, FALSE)
    /\ UNCHANGED <<phase, gate, toCancel, scheduled, querying, world>>

\* The engine's own state after a fill: a late one reopens a canceled order.
EngineFilled(p, k) ==
    LET fills == engine[p].fills \union {k}
        whole == FoldFunctionOnSet(+, 0, source[p].fills, fills) = source[p].quantity
        late  == engine[p].status \in {"absent", "sent", "CANCELED"} /\ k \notin engine[p].fills
    IN  engine' = [engine EXCEPT ![p].fills = fills,
                                 ![p].status = IF whole THEN "FILLED" ELSE IF late THEN "open" ELSE @]

\* on_order_filled for the source instrument: the fill, its obligation and the
\* freeze of both directions are one write; hedging and canceling follow it.
OnSourceFilled(p, k) ==
    /\ Listening /\ Knows(p) /\ k \in DOMAIN source[p].fills
    /\ EngineFilled(p, k)
    /\ IF <<p[2], k>> \in View(p[1]).seenSource
       THEN Proceed(<<>>) /\ UNCHANGED <<hold, toCancel>>
       ELSE LET w == MakerReserve(mem, p[1], <<p[2], k>>, source[p].fills[k], failed)
                hedged == w.view[p[1]].intents = View(p[1]).intents
            IN  /\ hold' = TRUE
                /\ Persist(w, (IF hedged THEN <<>> ELSE <<Plain("dispatch")>>) \o Cancels,
                           FreezeAndCancel, 0)
                /\ toCancel' = IF mishaps' = mishaps /\ w.view[p[1]].active = NoOrder
                               THEN toCancel \ {p} ELSE toCancel
    /\ UNCHANGED <<phase, gate, scheduled, querying, alarm, world>>

-----------------------------------------------------------------------------
(* Working off the hedge obligations, one at a time for both directions    *)

HedgeStep(name, p) == Step(name, p[1], p[2])
Intent(p) == View(p[1]).intents[p[2]]
About == <<doing[1].d, doing[1].n>>

\* Nothing pending, or no fresh hedge quote.
DispatchNothing ==
    /\ Now("dispatch") /\ Proceed(Rest)
    /\ UNCHANGED <<phase, gate, hold, cache, alarm, world>>

SubmitNextPendingHedge ==
    /\ Now("dispatch") /\ NextPendingHedge(mem) # NothingPending
    /\ LET p == NextPendingHedge(mem)
           plan == PlanHedgeDelta(tickets, Intent(p).side, Remaining(Intent(p)))
           bind == <<HedgeStep("bind", p)>> \o Rest
       IN  IF Intent(p).plan # <<>> THEN Proceed(bind)
           ELSE Persist(InView(p[1], BindHedgePlan(View(p[1]), p[2], plan)), bind, AfterRaise(Rest), 0)
    /\ UNCHANGED <<phase, gate, hold, cache, alarm, world>>

BindNextLeg ==
    /\ Now("bind")
    /\ LET p == About
           leg == Intent(p).plan[Intent(p).leg + 1]
           bound == InView(p[1], BindHedgeOrder(View(p[1]), p[2]))
           blocked == InView(p[1], BlockHedgeIntent(View(p[1]), p[2]))
       IN  IF ValidateHedgeLeg(leg, tickets)
           THEN Persist(bound, <<HedgeStep("submit hedge", p)>> \o Rest, AfterRaise(Rest), 0)
           ELSE Persist(blocked, Rest, AfterRaise(Rest), 0)
    /\ UNCHANGED <<phase, gate, hold, cache, alarm, world>>

SentHedge(p) ==
    LET intent == Intent(p) IN
    hedges' = <<p[1], intent.order>> :>
                  [state |-> "open", fill |-> intent.fill, index |-> intent.leg,
                   leg |-> intent.plan[intent.leg + 1]] @@ hedges

SubmitHedge ==
    /\ Now("submit hedge")
    /\ LET p == About
           unknown == InView(p[1], UpdateHedgeStatus(View(p[1]), Intent(p).order, "UNKNOWN"))
       IN  \/ SentHedge(p) /\ Proceed(Rest)
           \/ /\ Persist(unknown, AfterRaise(Rest), AfterRaise(Rest), 1)
              /\ SentHedge(p) \/ UNCHANGED hedges
    /\ UNCHANGED <<phase, gate, hold, cache, alarm, source, tickets>>

WithStatus(q, status) == InView(q[1], UpdateHedgeStatus(View(q[1]), q[2], status))

OnHedgeAccepted(q) ==
    /\ Listening /\ WithStatus(q, "ACCEPTED") # mem
    /\ Persist(WithStatus(q, "ACCEPTED"), <<>>, <<>>, 0)
    /\ UNCHANGED <<phase, gate, hold, cache, alarm, world>>

OnHedgeRejected(q) ==
    /\ Listening /\ hedges[q].state = "rejected" /\ WithStatus(q, "REJECTED") # mem
    /\ Persist(WithStatus(q, "REJECTED"), <<>>, <<>>, 0)
    /\ UNCHANGED <<phase, gate, hold, cache, alarm, world>>

\* No answer at all: what is written first decides whether both directions are frozen.
OnHedgeUnknown(q) ==
    /\ Listening /\ WithStatus(q, "UNKNOWN") # mem
    /\ Persist(WithStatus(q, "UNKNOWN"), FreezeAndCancel, <<>>, 1)
    /\ hold' = (hold \/ doing' # <<>>)
    /\ UNCHANGED <<phase, gate, cache, alarm, world>>

\* on_order_filled for the hedge instrument
OnHedgeFilled(q) ==
    /\ Listening /\ hedges[q].state = "executed"
    /\ LET s == ApplyHedgeFill(View(q[1]), <<q[2], 1>>, hedges[q].leg.quantity) IN
        IF s = View(q[1]) THEN Proceed(<<Plain("release")>>)
        ELSE Persist(InView(q[1], s), <<Plain("dispatch"), Plain("release")>>, <<>>, 0)
    /\ UNCHANGED <<phase, gate, hold, cache, alarm, world>>

-----------------------------------------------------------------------------
(* The venues                                                              *)

SourceTrades(p, quantity) ==
    /\ source[p].state = "open" /\ Len(source[p].fills) < MaxTrades
    /\ LET total == FoldSeq(+, quantity, source[p].fills) IN
        /\ total <= source[p].quantity
        /\ source' = [source EXCEPT ![p].fills = Append(@, quantity),
                                    ![p].state = IF total = source[p].quantity THEN "FILLED" ELSE @]
    /\ UNCHANGED <<owner, phase, gate, hold, doing, cache, alarm, hedges, tickets, mishaps>>

SourceEnds(p, state) ==
    /\ source[p].state = "open"
    /\ state = "REJECTED" => source[p].fills = <<>> /\ engine[p].status \in {"absent", "sent"}
    /\ source' = [source EXCEPT ![p].state = state]
    /\ UNCHANGED <<owner, phase, gate, hold, doing, cache, alarm, hedges, tickets, mishaps>>

\* MARKET FOK: all of it at once.
HedgeExecutes(q) ==
    /\ hedges[q].state = "open"
    /\ LET leg == hedges[q].leg
           fresh == Min({t \in Tickets \ OpenTickets : tickets[t] = 0})
       IN  /\ hedges' = [hedges EXCEPT ![q].state = "executed"]
           /\ tickets' = [tickets EXCEPT ![IF IsClose(leg) THEN leg.ticket ELSE fresh] =
                                @ + leg.side * leg.quantity]
    /\ UNCHANGED <<owner, phase, gate, hold, doing, cache, alarm, source, mishaps>>

HedgeIsRejected(q) ==
    /\ hedges[q].state = "open"
    /\ hedges' = [hedges EXCEPT ![q].state = "rejected"]
    /\ UNCHANGED <<owner, phase, gate, hold, doing, cache, alarm, source, tickets, mishaps>>

\* Somebody else's trade on the MetaTrader account.
TicketDrifts ==
    /\ Mishap(1)
    /\ \E t \in OpenTickets : \E v \in {-1, 0, 1} \ {tickets[t]} : tickets' = [tickets EXCEPT ![t] = v]
    /\ UNCHANGED <<owner, phase, gate, hold, doing, cache, alarm, source, hedges>>

-----------------------------------------------------------------------------

Next ==
    \/ OnStart \/ Recover \/ Started \/ ReconcileStartup \/ BeginDrain \/ OnStop \/ Exit \/ Crash
    \/ Freeze \/ Cancel \/ Release
    \/ \E fresh \in BOOLEAN : OnQuoteTick(fresh) \/ EvaluateAfterDispatch(fresh)
    \/ OnHedgeTick \/ ContinueDrain \/ StopQuoting \/ (\E d \in Directions : OnStaleTimer(d))
    \/ Quote \/ RefreshIdle \/ RefreshCancels \/ RefreshRequotes
    \/ \E quantity \in Quantities : RefreshNew(quantity)
    \/ SubmitSource \/ RequestSourceTerminalQuery \/ QueryAnswered
    \/ \E p \in SourceIds :
          \/ OnSourceAccepted(p) \/ CancelAfterAcceptance(p) \/ EngineUpdated(p)
          \/ OnSourceRejected(p) \/ OnSourceUnknown(p) \/ OnSourceTerminal(p)
          \/ CompleteSourceTerminalQuery(p) \/ OnModifyRejected(p) \/ OnCancelRejected(p)
          \/ \E k \in 1 .. MaxTrades : OnSourceFilled(p, k)
          \/ \E quantity \in Fills : SourceTrades(p, quantity)
          \/ \E state \in {"CANCELED", "REJECTED"} : SourceEnds(p, state)
    \/ DispatchNothing \/ SubmitNextPendingHedge \/ BindNextLeg \/ SubmitHedge
    \/ \E q \in DOMAIN hedges :
          \/ OnHedgeAccepted(q) \/ OnHedgeRejected(q) \/ OnHedgeUnknown(q) \/ OnHedgeFilled(q)
          \/ HedgeExecutes(q) \/ HedgeIsRejected(q)
    \/ TicketDrifts

Spec == Init /\ [][Next]_vars

\* A callback that runs is finished.
Finishes ==
    WF_vars(\/ Recover \/ Started \/ Freeze \/ Cancel \/ Release \/ (\E f \in BOOLEAN : EvaluateAfterDispatch(f))
            \/ Quote \/ RefreshIdle \/ RefreshCancels \/ SubmitSource \/ RequestSourceTerminalQuery
            \/ QueryAnswered \/ DispatchNothing \/ BindNextLeg \/ SubmitHedge)

\* The loop is a queue: what was left to it gets its turn among callbacks that
\* never cease, and so does what the venue says of an order.  Quotes need not
\* go on coming.
LoopFairness ==
    /\ Finishes
    /\ \A p \in SourceIds :
          SF_vars(OnSourceAccepted(p)) /\ SF_vars(OnSourceRejected(p)) /\ SF_vars(CancelAfterAcceptance(p))

LoopSpec == Spec /\ LoopFairness

-----------------------------------------------------------------------------
(* What the venues say happened                                            *)

SourceExposure ==
    FoldSet(LAMBDA p, sum : sum + p[1] * FoldSeq(+, 0, source[p].fills), 0, SourceIds)
HedgeExposure ==
    FoldFunction(LAMBDA h, sum :
                     IF h.state = "executed" THEN sum + h.leg.side * h.leg.quantity ELSE sum, 0, hedges)
Exposure == SourceExposure + Unit * HedgeExposure

SeenExposure(w) ==
    FoldSet(LAMBDA d, sum : sum + d * FoldSet(LAMBDA f, part : part + source[<<d, f[1]>>].fills[f[2]],
                                              0, w.view[d].seenSource), 0, Directions)
Obliged(w) ==
    FoldSet(LAMBDA p, sum : sum + IntentAt(w, p).side * IntentAt(w, p).quantity, 0, IntentsOf(w))

OwnerType(w) ==
    /\ w.cycle \in BOOLEAN /\ (w.cycle => Frozen(w))
    /\ w.view[1].frozen = w.view[-1].frozen
    /\ \A d \in Directions :
          /\ w.view[d].active \in 0 .. Len(w.view[d].orders)
          /\ \A i \in DOMAIN w.view[d].intents :
                LET intent == w.view[d].intents[i] IN
                /\ intent.status \in HedgeStatus /\ intent.leg \in 0 .. Len(intent.plan)
                /\ \E k \in DOMAIN w.ledger : w.ledger[k].d = d /\ w.ledger[k].fill = intent.fill

(* Every variable has its type; both directions are frozen or neither is,  *)
(* and every intent is in the ledger.                                      *)
TypeOK ==
    /\ OwnerType(mem) /\ OwnerType(disk) /\ OwnerType(durable)
    /\ phase \in {"down", "starting", "trading", "draining", "stopping"}
    /\ {failed, gate, hold, alarm} \subseteq BOOLEAN
    /\ toCancel \union scheduled \union querying \subseteq SourceIds
    /\ \A p \in SourceIds : engine[p].fills \subseteq DOMAIN source[p].fills
    /\ tickets \in [Tickets -> Int] /\ mishaps \in 0 .. MaxMishaps

(* A new quote goes out only when everything but the other quote is level: *)
(* no hedge works, every earlier order of either direction is over and all *)
(* it traded is in the books, and what is not hedged is the residual that  *)
(* may be carried (_try_release_cycle, _global_obligation_block,           *)
(* can_submit_source).                                                     *)
Over(p) == source[p].state # "open" /\ \A k \in DOMAIN source[p].fills :
                                           <<p[2], k>> \in View(p[1]).seenSource
Level ==
    /\ \A q \in DOMAIN hedges : hedges[q].state # "open"
    /\ \A p \in SourceIds : IsActive(p) \/ Over(p)
    /\ SeenExposure(mem) + Unit * HedgeExposure = Residual(mem)
    /\ Size(Residual(mem)) <= ResidualLimit
OpensLevel ==
    [][\A d \in Directions : Len(View(d).orders) < Len(mem'.view[d].orders) /\ phase # "down" => Level]_vars

(* A freeze that wants a human is not lifted by any cycle that completes   *)
(* later, nor taken for one that only stood for a fill (cycle_freeze_only, *)
(* clear_source_freezes).                                                  *)
ExternalFreezeStays ==
    [][Frozen(mem) /\ ~mem.cycle /\ phase' # "down" => Frozen(mem') /\ ~mem'.cycle]_vars

(* Both directions share one lane: at most one hedge order works at the    *)
(* broker, and none works while an earlier obligation of either direction  *)
(* is unfinished (next_pending_hedge).                                     *)
HedgesInTurn ==
    \A q \in DOMAIN hedges : hedges[q].state = "open" =>
        /\ \A r \in DOMAIN hedges : hedges[r].state = "open" => r = q
        /\ \A p \in IntentsOf(mem) :
              p # <<q[1], q[2][1]>> /\ Place(mem, p) < Place(mem, <<q[1], q[2][1]>>) =>
                  IntentAt(mem, p).status = "COMPLETED"

(* Every fill of either direction is in the one ledger exactly once, as    *)
(* part of an intent or of a residual of at most half an ounce             *)
(* (reserve_source_fill, _allocate, _restore).                             *)
FillsAccounted ==
    \A w \in {mem, disk, durable} :
        /\ SeenExposure(w) = Residual(w) - Unit * Obliged(w)
        /\ 2 * Size(Residual(w)) <= Unit

(* With a carried residual, whatever the two quotes trade and however late *)
(* the hedges are, the exposure stays within max_unhedged_ounces           *)
(* (_carry_source_is_executable).                                          *)
ExposureWithinBudget == Carry => Size(Exposure) <= Budget

(* Every quote that should not rest is withdrawn, also one the venue had   *)
(* not accepted when that was decided, and without another quote coming:   *)
(* its cancel goes out, or it is over, or marked for a human               *)
(* (_pending_source_cancels, _cancel_after_acceptance).                    *)
Withdrawn(p) ==
    engine[p].asked \/ ~Working(p) \/ View(p[1]).orders[p[2]].status = "UNKNOWN"
QuotesWithdrawn ==
    \A p \in SourceIds :
        (hold /\ Knows(p)) ~> (~hold \/ Withdrawn(p) \/ phase \in {"down", "stopping"})

=============================================================================
