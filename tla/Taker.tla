--------------------------------- MODULE Taker ---------------------------------
(***************************************************************************)
(* TakerStrategy (strategies/taker.py) over its store: it opens one source *)
(* order at a time on Bitfinex, turns every fill of it into a hedge        *)
(* obligation, and works the obligations off one MetaTrader order at a     *)
(* time.  The callbacks of the strategy run one after the other on one     *)
(* event loop.  A callback that writes the store more than once, or writes *)
(* it and then sends, is split after each write: the process may die       *)
(* there, but no other callback comes in between ("doing").                *)
(*                                                                         *)
(* The venues, the engine that delivers their events, and the file system  *)
(* are the environment.  Fills are delivered late, in any order, more than *)
(* once or never; a write may fail before or after the file is replaced; a *)
(* power cut takes back a replacement whose directory was not synced.      *)
(***************************************************************************)
EXTENDS StateStore

CONSTANTS
    Modes,        \* how it may be run: "paper", "live", "one-shot" or "exit"
    Tickets,      \* MetaTrader ticket numbers
    OpenTickets,  \* those that may be open at the start, or change by themselves
    Positions,    \* the positions the account may start with
    Quantities,   \* source order quantities
    Fills,        \* quantities of a single source trade
    MaxOrders,    \* bound: source orders begun
    MaxTrades,    \* bound: trades of one source order
    WritesFail,   \* writing the store may fail
    MaxMishaps    \* bound: failed writes, stops, crashes, lost answers, foreign trades

ASSUME TakerAssumption ==
    /\ WritesFail \in BOOLEAN /\ Modes \subseteq {"paper", "live", "one-shot", "exit"}
    /\ Tickets \subseteq Nat \ {NoTicket} /\ IsFiniteSet(Tickets) /\ OpenTickets \subseteq Tickets
    /\ Positions \subseteq [Tickets -> Int]
    /\ Quantities \subseteq Nat \ {0} /\ Fills \subseteq Nat \ {0}
    /\ MaxOrders \in Nat /\ MaxTrades \in Nat /\ MaxMishaps \in Nat

VARIABLES
    mem,        \* the store in the running process (when down: its last value)
    disk,       \* the store in the file, as the next open would read it
    durable,    \* the store a power cut would leave
    phase,      \* "down", "trading" or "draining"
    gate,       \* the restart gate is closed: callbacks return at once
    mode,       \* how this Taker is run, in all its lives
    permit,     \* the one-shot permission: "none", "armed" or "spent"
    doing,      \* the rest of the callback that is running
    engine,     \* the engine's view of each source order
    querying,   \* source orders whose final report was asked for
    source,     \* the source venue's truth about each order
    hedges,     \* the hedge orders that were sent, and what became of them
    tickets,    \* the MetaTrader tickets
    mishaps     \* how many mishaps there were

store == <<mem, disk, durable>>
process == <<phase, gate, mode, permit, doing, engine, querying>>
world == <<source, hedges, tickets>>
vars == <<store, process, world, mishaps>>

\* Live, the restart gate is closed until both venues were read (app.py binds
\* none; a one-shot's has no recovery to wait for and stays open).  A one-shot
\* Taker opens one source order in the life of its store, an exit also closes
\* one exact ticket.
Gated == mode = "live"
OneShot == mode \in {"one-shot", "exit"}
MustReduce == mode = "exit"

SourceIds == 1 .. MaxOrders
Idle == [step |-> "idle", intent |-> 0]
Doing(step, i) == [step |-> step, intent |-> i]

Absent == [state |-> "absent", side |-> 1, quantity |-> 0, fills |-> <<>>, filled |-> 0]

Init ==
    /\ mem = EmptyStore /\ disk = EmptyStore /\ durable = EmptyStore
    /\ phase = "down" /\ gate = FALSE /\ mode \in Modes /\ permit = "none" /\ doing = Idle
    /\ engine = [o \in SourceIds |-> [status |-> "absent", fills |-> {}]]
    /\ querying = {}
    /\ source = [o \in SourceIds |-> Absent]
    /\ hedges = <<>>
    /\ tickets \in Positions
    /\ mishaps = 0

-----------------------------------------------------------------------------
(* Writing the store                                                       *)

Mishap(n) == mishaps + n <= MaxMishaps /\ mishaps' = mishaps + n

\* Mutant: a failed write is swallowed and the callback goes on.
PersistOrGoOn(s, kept, then, n) ==
    /\ mem' = s
    /\ \/ disk' = s /\ durable' = s /\ doing' = then /\ Mishap(n)
       \/ WritesFail /\ UNCHANGED <<disk, durable>> /\ doing' = then /\ Mishap(n + 1)

\* The new value s is written, after n other mishaps: the callback goes on to
\* "then".  A failure raises, which ends the callback.  It comes either before
\* the file is replaced, and memory is then as "kept" says, or when only the
\* directory is left to sync (ParentDirectorySyncError).
Persist(s, kept, then, n) ==
    \/ mem' = s /\ disk' = s /\ durable' = s /\ doing' = then /\ Mishap(n)
    \/ /\ WritesFail /\ Mishap(n + 1) /\ doing' = Idle
       /\ UNCHANGED durable
       /\ \/ mem' = s /\ disk' = s
          \/ mem' = kept /\ UNCHANGED disk

\* The callback ends, or goes on, without touching the store.
Proceed(then) == doing' = then /\ UNCHANGED store /\ Mishap(0)
Ends(n) == doing' = Idle /\ UNCHANGED store /\ Mishap(n)

Free == phase # "down" /\ doing = Idle
Listening == Free /\ ~gate

-----------------------------------------------------------------------------
(* Starting and stopping                                                   *)

\* on_start: nothing that was under way is trusted, and that is on disk before
\* the first callback; where nothing was, nothing is written.
OnStart ==
    /\ phase = "down"
    /\ phase' = "trading" /\ gate' = Gated /\ permit' = "none"
    /\ engine' = [o \in SourceIds |-> [status |-> "absent", fills |-> {}]]
    /\ querying' = {}
    /\ LET s == RecoverForStart(disk) IN
        /\ mem' = s /\ disk' = s
        /\ durable' = IF disk.active = NoOrder /\ AllCompleted(disk) THEN durable ELSE s
    /\ doing' = Idle
    /\ UNCHANGED <<mode, world, mishaps>>

\* Everything the venues know of is in the store, and nothing is left to do.
\* (reconcile_startup without a receipt; where it raises the gate stays shut.)
ReconcileStartup ==
    /\ Free /\ gate
    /\ CanSubmitSource(mem) /\ CycleEvidenceComplete(mem)
    /\ \A o \in SourceIds : source[o].state # "absent" =>
          /\ KnowsSourceOrder(mem, o)
          /\ mem.orders[o].status = source[o].state
          /\ mem.orders[o].filled = source[o].filled
    /\ \A h \in DOMAIN hedges : hedges[h].state = "executed" =>
          \A k \in DOMAIN hedges[h].fills : <<h, k>> \in mem.seenHedge
    /\ gate' = FALSE
    /\ UNCHANGED <<store, phase, mode, permit, doing, engine, querying, world, mishaps>>

ArmOneShot ==
    /\ OneShot /\ Free /\ permit = "none"
    /\ CanSubmitSource(mem) /\ mem.orders = <<>> /\ mem.intents = <<>>
    /\ permit' = "armed"
    /\ UNCHANGED <<store, phase, gate, mode, doing, engine, querying, world, mishaps>>

DisarmOneShot ==
    /\ OneShot /\ Free /\ permit # "spent"
    /\ permit' = "spent"
    /\ UNCHANGED <<store, phase, gate, mode, doing, engine, querying, world, mishaps>>

BeginDrain ==
    /\ Free /\ phase = "trading"
    /\ phase' = "draining"
    /\ UNCHANGED <<store, gate, mode, permit, doing, engine, querying, world, mishaps>>

\* on_stop: the working source order is canceled (the venue may do that at any
\* time); one the engine does not know, or a cancel that raises, is marked.
OnStop ==
    /\ Free
    /\ phase' = "down" /\ querying' = {}
    /\ IF gate \/ phase = "draining" \/ mem.active = NoOrder
       THEN Ends(1)
       ELSE LET o == mem.active
                marked == MarkSourceUnknown(mem, o)
            IN  IF engine[o].status = "absent"
                THEN Persist(marked, marked, Idle, 1)
                ELSE \/ Ends(1)
                     \/ engine[o].status = "open" /\ Persist(marked, marked, Idle, 2)
    /\ UNCHANGED <<gate, mode, permit, engine, world>>

\* The process dies, wherever it is.  A power cut may undo the last rename, also
\* when the process is gone already.
Crash ==
    /\ phase # "down" \/ disk # durable
    /\ Mishap(1)
    /\ phase' = "down" /\ doing' = Idle
    /\ disk' \in {disk, durable} /\ (phase = "down" => disk' = durable)
    /\ UNCHANGED <<mem, durable, gate, mode, permit, engine, querying, world>>

-----------------------------------------------------------------------------
(* Opening a source order                                                  *)

\* What the one-shot exit will have to close.
ExitOf(plan) == [ticket |-> plan[1].ticket, quantity |-> plan[1].expected]

SingleClose(plan) == Len(plan) = 1 /\ IsClose(plan[1])

\* _evaluate_and_submit up to the write of begin_source.  Market, costs, margin
\* and the preflight of the hedge quantity decide freely whether it gets here.
EvaluateAndSubmit(side, quantity) ==
    /\ Listening /\ phase = "trading"
    /\ CanSubmitSource(mem)
    /\ Len(mem.orders) < MaxOrders
    /\ OneShot => permit = "armed"
    /\ LET ounces == Size(RoundHedgeOunces(quantity))
           plan == PlanHedgeDelta(tickets, -side, ounces)
           begun == BeginSource(mem, side, quantity,
                                IF MustReduce /\ ounces # 0 THEN ExitOf(plan) ELSE NoExit,
                                OneShot)
       IN  /\ MustReduce /\ ounces # 0 => SingleClose(plan)
           /\ Persist(begun, begun, Doing("submit source", 0), 0)
    /\ permit' = IF OneShot THEN "spent" ELSE permit
    /\ UNCHANGED <<phase, gate, mode, engine, querying, world>>

Sent(o) ==
    /\ source' = [source EXCEPT ![o] = [state |-> "open", side |-> mem.orders[o].side,
                                        quantity |-> mem.orders[o].quantity, fills |-> <<>>, filled |-> 0]]
    /\ engine' = [engine EXCEPT ![o].status = "open"]

\* submit_order returns, or raises before or after the order is on its way.
SubmitSource ==
    /\ phase # "down" /\ doing.step = "submit source"
    /\ LET o == mem.active
           unknown == MarkSourceUnknown(mem, o)
       IN  \/ Sent(o) /\ Proceed(Idle)
           \/ Persist(unknown, unknown, Idle, 1)
              /\ (Sent(o) \/ UNCHANGED <<source, engine>>)
    /\ UNCHANGED <<phase, gate, mode, permit, querying, hedges, tickets>>

-----------------------------------------------------------------------------
(* Events of the source order                                              *)

EngineSays(o, status) == engine' = [engine EXCEPT ![o].status = status]

\* on_order_submitted, on_order_accepted: the store treats them alike.
OnSourceAccepted(o) ==
    /\ Listening /\ KnowsSourceOrder(mem, o) /\ engine[o].status = "open"
    /\ LET s == UpdateSourceStatus(mem, o, "ACCEPTED") IN Persist(s, s, Idle, 0)
    /\ UNCHANGED <<phase, gate, mode, permit, engine, querying, world>>

\* on_order_rejected with a real reason, on_order_denied
OnSourceRejected(o) ==
    /\ Listening /\ KnowsSourceOrder(mem, o) /\ engine[o].status = "open"
    /\ source[o].state \in {"REJECTED", "DENIED"}
    /\ EngineSays(o, source[o].state)
    /\ LET s == UpdateSourceStatus(mem, o, source[o].state) IN Persist(s, s, Idle, 0)
    /\ UNCHANGED <<phase, gate, mode, permit, querying, world>>

\* on_order_rejected with reason UNKNOWN: the client got no answer.  (The engine
\* takes no rejection of an order it has a fill of.)
OnSourceUnknown(o) ==
    /\ Listening /\ KnowsSourceOrder(mem, o) /\ engine[o].status = "open"
    /\ engine[o].fills = {}
    /\ EngineSays(o, "REJECTED")
    /\ LET s == MarkSourceUnknown(mem, o) IN Persist(s, s, Idle, 1)
    /\ UNCHANGED <<phase, gate, mode, permit, querying, world>>

\* on_order_canceled, on_order_expired: the final report is asked for, unless
\* the write raised.
OnSourceTerminal(o) ==
    /\ Listening /\ KnowsSourceOrder(mem, o) /\ engine[o].status = "open"
    /\ source[o].state \in {"CANCELED", "EXPIRED"}
    /\ EngineSays(o, source[o].state)
    /\ LET s == UpdateSourceStatus(mem, o, source[o].state) IN
        Persist(s, s, Doing("query source", o), 0)
    /\ UNCHANGED <<phase, gate, mode, permit, querying, world>>

RequestSourceTerminalQuery ==
    /\ phase # "down" /\ doing.step = "query source"
    /\ querying' = querying \union {doing.intent}
    /\ Proceed(Idle)
    /\ UNCHANGED <<phase, gate, mode, permit, engine, world>>

\* Mutant: only the state of the order is compared, not what was filled.
ReportNamesState(o) ==
    /\ mem.orders[o].status = source[o].state /\ source[o].state \in {"CANCELED", "EXPIRED"}

\* source_cancel_report_is_exact: the report of the venue, the store's record
\* and the engine's order say the same.
ReportIsExact(o) ==
    /\ source[o].state \in {"CANCELED", "EXPIRED"}
    /\ mem.orders[o].status = source[o].state
    /\ engine[o].status = source[o].state
    /\ mem.orders[o].filled = source[o].filled

\* A report that is missing or not exact changes nothing.
CompleteSourceTerminalQuery(o) ==
    /\ Listening /\ o \in querying
    /\ ReportIsExact(o)
    /\ LET s == ConfirmSourceReconciled(mem, o) IN Persist(s, mem, Idle, 0)
    /\ querying' = IF mishaps' = mishaps THEN querying \ {o} ELSE querying
    /\ UNCHANGED <<phase, gate, mode, permit, engine, world>>

\* The engine's own state after a fill: late fills reopen a canceled order.
EngineFilled(o, k) ==
    LET fills == engine[o].fills \union {k}
        total == FoldFunctionOnSet(+, 0, source[o].fills, fills)
    IN  engine' = [engine EXCEPT ![o] =
            [fills |-> fills,
             status |-> IF total = source[o].quantity THEN "FILLED"
                        ELSE IF engine[o].status \in {"absent", "CANCELED", "EXPIRED"}
                             /\ k \notin engine[o].fills
                        THEN "open" ELSE engine[o].status]]

\* on_order_filled for the source instrument: the k-th trade of order o.
OnSourceFilled(o, k) ==
    /\ Listening /\ KnowsSourceOrder(mem, o)
    /\ k \in DOMAIN source[o].fills
    /\ EngineFilled(o, k)
    /\ IF <<o, k>> \in mem.seenSource
       THEN Proceed(Idle)
       ELSE LET s == ReserveSourceFill(mem, <<o, k>>, source[o].fills[k])
            IN  Persist(s, mem, IF s.intents = mem.intents THEN Idle
                                ELSE Doing("dispatch", 0), 0)
    /\ UNCHANGED <<phase, gate, mode, permit, querying, world>>

-----------------------------------------------------------------------------
(* Working off a hedge obligation                                          *)

\* on_quote_tick, and continue_drain
OnQuoteTick ==
    /\ Listening /\ NextPending(mem) # 0
    /\ doing' = Doing("dispatch", 0)
    /\ UNCHANGED <<store, phase, gate, mode, permit, engine, querying, world, mishaps>>

\* _submit_next_pending_hedge ends without a fresh hedge quote.
QuoteIsStale ==
    /\ phase # "down" /\ doing.step = "dispatch"
    /\ Proceed(Idle)
    /\ UNCHANGED <<phase, gate, mode, permit, engine, querying, world>>

\* _submit_next_pending_hedge, up to the write of the plan.
SubmitNextPendingHedge ==
    /\ phase # "down" /\ doing.step = "dispatch"
    /\ LET i == NextPending(mem)
           intent == mem.intents[i]
           plan == PlanHedgeDelta(tickets, intent.side, Remaining(intent))
           blocked == BlockHedgeIntent(mem, i)
           planned == BindHedgePlan(mem, i, plan)
       IN  IF i = 0 THEN Proceed(Idle)
           ELSE IF intent.plan # <<>> THEN Proceed(Doing("bind", i))
           ELSE IF BoundExitHolds(intent, plan)
                THEN Persist(planned, planned, Doing("bind", i), 0)
                ELSE Persist(blocked, blocked, Idle, 0)
    /\ UNCHANGED <<phase, gate, mode, permit, engine, querying, world>>

\* The leg is checked once more and bound to a new order.
BindNextLeg ==
    /\ phase # "down" /\ doing.step = "bind"
    /\ LET i == doing.intent
           leg == mem.intents[i].plan[mem.intents[i].leg + 1]
           blocked == BlockHedgeIntent(mem, i)
           bound == BindHedgeOrder(mem, i)
       IN  IF ValidateHedgeLeg(leg, tickets)
           THEN Persist(bound, bound, Doing("submit hedge", i), 0)
           ELSE Persist(blocked, blocked, Idle, 0)
    /\ UNCHANGED <<phase, gate, mode, permit, engine, querying, world>>

SentHedge(i) ==
    LET intent == mem.intents[i]
        order == [state |-> "open", fill |-> intent.fill, index |-> intent.leg,
                  leg |-> intent.plan[intent.leg + 1], fills |-> <<>>]
    IN  hedges' = [h \in DOMAIN hedges \union {intent.order} |->
                      IF h = intent.order THEN order ELSE hedges[h]]

SubmitHedge ==
    /\ phase # "down" /\ doing.step = "submit hedge"
    /\ LET i == doing.intent
           unknown == UpdateHedgeStatus(mem, mem.intents[i].order, "UNKNOWN")
       IN  \/ SentHedge(i) /\ Proceed(Idle)
           \/ Persist(unknown, unknown, Idle, 1) /\ (SentHedge(i) \/ UNCHANGED hedges)
    /\ UNCHANGED <<phase, gate, mode, permit, engine, querying, source, tickets>>

\* on_order_submitted, on_order_accepted
OnHedgeAccepted(h) ==
    /\ Listening /\ IntentOf(mem, h) # 0
    /\ LET s == UpdateHedgeStatus(mem, h, "ACCEPTED") IN
        s # mem /\ Persist(s, s, Idle, 0)
    /\ UNCHANGED <<phase, gate, mode, permit, engine, querying, world>>

\* A definite no, or no answer at all ("UNKNOWN").
OnHedgeRejected(h, status) ==
    /\ Listening /\ IntentOf(mem, h) # 0
    /\ status = "REJECTED" => hedges[h].state = "rejected"
    /\ LET s == UpdateHedgeStatus(mem, h, status) IN
        s # mem /\ Persist(s, s, Idle, IF status = "UNKNOWN" THEN 1 ELSE 0)
    /\ UNCHANGED <<phase, gate, mode, permit, engine, querying, world>>

\* on_order_filled for the hedge instrument: the k-th trade of order h.
OnHedgeFilled(h, k) ==
    /\ Listening /\ k \in DOMAIN hedges[h].fills
    /\ LET s == ApplyHedgeFill(mem, <<h, k>>, hedges[h].fills[k]) IN
        IF s = mem THEN Proceed(Idle) ELSE Persist(s, mem, Doing("dispatch", 0), 0)
    /\ UNCHANGED <<phase, gate, mode, permit, engine, querying, world>>

-----------------------------------------------------------------------------
(* The venues                                                              *)

SourceTrades(o, quantity) ==
    /\ source[o].state = "open" /\ Len(source[o].fills) < MaxTrades
    /\ LET total == source[o].filled + quantity IN
        /\ total <= source[o].quantity
        /\ source' = [source EXCEPT ![o].fills = Append(@, quantity), ![o].filled = total,
                                    ![o].state = IF total = source[o].quantity
                                                 THEN "FILLED" ELSE @]
    /\ UNCHANGED <<store, process, hedges, tickets, mishaps>>

SourceEnds(o, state) ==
    /\ source[o].state = "open"
    /\ state \in {"REJECTED", "DENIED"} => source[o].fills = <<>>
    /\ source' = [source EXCEPT ![o].state = state]
    /\ UNCHANGED <<store, process, hedges, tickets, mishaps>>

\* MARKET FOK: all of it at once.  A broker that does not honour that executes
\* the leg in two parts, a mishap.
HedgeExecutes(h) ==
    /\ hedges[h].state = "open"
    /\ LET leg == hedges[h].leg
           fresh == Min({t \in Tickets \ OpenTickets : tickets[t] = 0})
       IN  \E part \in 1 .. leg.quantity :
            /\ hedges' = [hedges EXCEPT
                    ![h].state = "executed",
                    ![h].fills = IF part = leg.quantity THEN <<part>>
                                 ELSE <<part, leg.quantity - part>>]
            /\ tickets' = [tickets EXCEPT ![IF IsClose(leg) THEN leg.ticket ELSE fresh] =
                                @ + leg.side * leg.quantity]
            /\ Mishap(IF part = leg.quantity THEN 0 ELSE 1)
    /\ UNCHANGED <<store, process, source>>

HedgeIsRejected(h) ==
    /\ hedges[h].state = "open"
    /\ hedges' = [hedges EXCEPT ![h].state = "rejected"]
    /\ UNCHANGED <<store, process, source, tickets, mishaps>>

\* Somebody else's trade on the MetaTrader account.
TicketDrifts ==
    /\ Mishap(1)
    /\ \E t \in OpenTickets : \E v \in {-1, 0, 1} \ {tickets[t]} :
            tickets' = [tickets EXCEPT ![t] = v]
    /\ UNCHANGED <<store, process, source, hedges>>

-----------------------------------------------------------------------------

Next ==
    \/ OnStart \/ ReconcileStartup \/ ArmOneShot \/ DisarmOneShot \/ BeginDrain
    \/ OnStop \/ Crash
    \/ \E side \in Sides, quantity \in Quantities : EvaluateAndSubmit(side, quantity)
    \/ SubmitSource \/ RequestSourceTerminalQuery
    \/ \E o \in SourceIds :
          \/ OnSourceAccepted(o) \/ OnSourceRejected(o) \/ OnSourceUnknown(o) \/ OnSourceTerminal(o)
          \/ CompleteSourceTerminalQuery(o)
          \/ \E k \in 1 .. MaxTrades : OnSourceFilled(o, k)
          \/ \E quantity \in Fills : SourceTrades(o, quantity)
          \/ \E state \in {"CANCELED", "EXPIRED", "REJECTED", "DENIED"} : SourceEnds(o, state)
    \/ OnQuoteTick \/ QuoteIsStale \/ SubmitNextPendingHedge \/ BindNextLeg \/ SubmitHedge
    \/ \E h \in DOMAIN hedges :
          \/ OnHedgeAccepted(h)
          \/ \E status \in {"REJECTED", "UNKNOWN"} : OnHedgeRejected(h, status)
          \/ \E k \in 1 .. 2 : OnHedgeFilled(h, k)
          \/ HedgeExecutes(h) \/ HedgeIsRejected(h)
    \/ TicketDrifts

Spec == Init /\ [][Next]_vars

\* A callback that runs is finished; fresh hedge quotes keep coming; the broker
\* decides on every order and the engine delivers what it decided.
Fairness ==
    /\ WF_vars(SubmitSource) /\ WF_vars(RequestSourceTerminalQuery)
    /\ WF_vars(OnQuoteTick) /\ SF_vars(SubmitNextPendingHedge)
    /\ WF_vars(BindNextLeg) /\ WF_vars(SubmitHedge)
    /\ WF_vars(\E h \in DOMAIN hedges : HedgeExecutes(h) \/ HedgeIsRejected(h))
    /\ WF_vars(\E h \in DOMAIN hedges :
                  OnHedgeRejected(h, "REJECTED") \/ \E k \in 1 .. 2 : OnHedgeFilled(h, k))

FairSpec == Spec /\ Fairness

-----------------------------------------------------------------------------
(* What the venues say happened                                            *)

SourceExposure ==
    SumFunction([o \in SourceIds |-> source[o].side * SumFunction(source[o].fills)])
HedgeExposure ==
    SumFunction([h \in DOMAIN hedges |-> hedges[h].leg.side * SumFunction(hedges[h].fills)])

NothingWorking ==
    /\ \A o \in SourceIds : source[o].state # "open"
    /\ \A h \in DOMAIN hedges : hedges[h].state # "open"

\* What the seen fills of a store add up to.
SeenExposure(s) ==
    SumFunction([fill \in s.seenSource |->
                    source[fill[1]].side * source[fill[1]].fills[fill[2]]])
Obliged(s) ==
    SumFunction([i \in DOMAIN s.intents |-> s.intents[i].side * s.intents[i].quantity])

StoreType(s) ==
    /\ s.active \in 0 .. Len(s.orders)
    /\ \A o \in DOMAIN s.orders :
          s.orders[o].status \in SourceStatus /\ s.orders[o].filled \in Nat
    /\ \A i \in DOMAIN s.intents :
          LET intent == s.intents[i] IN
          /\ intent.status \in HedgeStatus
          /\ intent.side \in Sides /\ intent.quantity \in Nat \ {0}
          /\ intent.leg \in 0 .. Len(intent.plan)
          /\ intent.order \in {NoHedge} \union {<<i, n>> : n \in 1 .. Len(intent.orders)}

(* Every variable has its type; an intent's cursor stays within its plan.  *)
TypeOK ==
    /\ StoreType(mem) /\ StoreType(disk) /\ StoreType(durable)
    /\ phase \in {"down", "trading", "draining"} /\ gate \in BOOLEAN
    /\ mode \in Modes /\ permit \in {"none", "armed", "spent"}
    /\ querying \subseteq SourceIds
    /\ \A o \in SourceIds : engine[o].fills \subseteq DOMAIN source[o].fills
    /\ tickets \in [Tickets -> Int]
    /\ mishaps \in 0 .. MaxMishaps

(* The strategy opens a new source order only when the two venues really   *)
(* are level: no order of either leg is working, and what the source       *)
(* traded is hedged to the unit.  Whatever was lost, delayed, repeated,    *)
(* written in vain or cut off by a crash (can_submit_source).              *)
GateImpliesFlat ==
    Listening /\ CanSubmitSource(mem) =>
        NothingWorking /\ SourceExposure + Unit * HedgeExposure = 0

(* What an intent sends is never more than its fills obliged it to: each   *)
(* leg of its plan goes to the broker at most once, across restarts too    *)
(* (bind_hedge_order, recover_for_start).                                  *)
LegSentOnce ==
    \A g, h \in DOMAIN hedges :
        g # h /\ hedges[g].fill = hedges[h].fill => hedges[g].index # hedges[h].index

(* Nothing is working at a venue that a power cut could make the store     *)
(* forget (the write before every submit_order).                           *)
SentIsDurable ==
    /\ \A o \in SourceIds : source[o].state = "open" =>
          KnowsSourceOrder(durable, o) /\ durable.active = o
    /\ \A h \in DOMAIN hedges : hedges[h].state = "open" =>
          h[1] \in DOMAIN durable.intents /\ h \in Range(durable.intents[h[1]].orders)

(* Every fill is in the books exactly once: as part of an intent, or of a  *)
(* residual of at most half an ounce (reserve_source_fill and its          *)
(* rollback, in memory and in both files).                                 *)
FillsAccounted ==
    \A s \in {mem, disk, durable} :
        /\ SeenExposure(s) = s.residual - Unit * Obliged(s)
        /\ 2 * Size(s.residual) <= Unit

(* A stop that wants a human is never forgotten: no event, restart or      *)
(* power cut turns it into a strategy with nothing left under way          *)
(* (halt_reason, the failed statuses; a hold that waits for one order's    *)
(* final report is the only one an event may lift).  Or a power cut takes  *)
(* back, with the stop, the order it was about, and that never went out.   *)
Stopped(s) == s.halt = Held \/ \E i \in DOMAIN s.intents : s.intents[i].status \in Failed
NeverBegun == \E o \in DOMAIN mem.orders : source[o].state = "absent" /\ ~KnowsSourceOrder(mem', o)
StopNeverForgotten ==
    [][Stopped(mem) => Stopped(mem') \/ mem'.active # NoOrder \/ NeverBegun]_vars

(* A one-shot store opens one source order in its life, whatever is armed  *)
(* and restarted afterwards: once one went out, no file that a restart may *)
(* find, also after a power cut, would let a second one out                *)
(* (arm_one_shot, source_freeze_reason).                                   *)
OneShotOnce ==
    OneShot /\ (\E o \in SourceIds : source[o].state # "absent") =>
        /\ Cardinality({o \in SourceIds : source[o].state # "absent"}) = 1
        /\ \A s \in {disk, durable} : s.frozen /\ s.orders # <<>>

(* Every hedge obligation is worked off, leg by leg, or the strategy stops *)
(* for a human, as long as the process runs (on_order_filled and           *)
(* on_quote_tick dispatch what is pending).                                *)
HedgeSettles == ~AllCompleted(mem) ~> AllCompleted(mem) \/ Stopped(mem) \/ phase = "down"

-----------------------------------------------------------------------------
(* What keeps the three promises above: it holds of each copy of the store *)
(* by itself, so that it does not matter which one a restart finds.        *)

\* m gives every set of the trades q what they add up to.
Weighs(m, q) ==
    /\ m[{}] = 0
    /\ \A S \in SUBSET DOMAIN q :
          m[S] <= m[DOMAIN q] /\ \A k \in DOMAIN q \ S : m[S \union {k}] = m[S] + q[k]

\* The record of an order counts the trades of it that were seen.
OrderFits(s, o, truth) ==
    /\ truth.state # "absent" => s.orders[o].quantity = truth.quantity
    /\ \E m \in [SUBSET DOMAIN truth.fills -> 0 .. truth.filled] :
          /\ Weighs(m, truth.fills) /\ m[DOMAIN truth.fills] = truth.filled
          /\ s.orders[o].filled = m[{k \in DOMAIN truth.fills : <<o, k>> \in s.seenSource}]

\* An intent is of one fill, and knows each order that was ever bound to it.
IntentFits(s, i) ==
    LET intent == s.intents[i] IN
    /\ intent.fill \in s.seenSource
    /\ \A j \in DOMAIN s.intents : s.intents[j].fill = intent.fill => j = i
    /\ \A n \in DOMAIN intent.orders : intent.orders[n] = <<i, n>>
    /\ intent.order # NoHedge => \E n \in DOMAIN intent.orders : intent.order = <<i, n>>

\* An order that went out is bound to its intent, which stands at its leg or past it.
HedgeFits(s, h, sent) ==
    /\ h[1] \in DOMAIN s.intents
    /\ LET intent == s.intents[h[1]] IN
        /\ h[2] \in DOMAIN intent.orders /\ h = <<h[1], h[2]>>
        /\ intent.fill = sent.fill
        /\ sent.index <= intent.leg /\ (sent.index = intent.leg => intent.order = h)

CopyFits(s, src, sent, once) ==
    /\ s.active \in {NoOrder} \union DOMAIN s.orders /\ DOMAIN s.orders \subseteq SourceIds
    /\ \A o \in SourceIds :
          /\ src[o].state # "absent" => o \in DOMAIN s.orders
          /\ src[o].state = "open" => s.active = o
    /\ \A o \in DOMAIN s.orders : OrderFits(s, o, src[o])
    /\ \A f \in s.seenSource :
          f = <<f[1], f[2]>> /\ f[1] \in DOMAIN s.orders /\ f[2] \in DOMAIN src[f[1]].fills
    /\ \A i \in DOMAIN s.intents : IntentFits(s, i)
    /\ \A h \in DOMAIN sent : HedgeFits(s, h, sent[h])
    /\ once => DOMAIN s.orders \subseteq {1} /\ (DOMAIN s.orders # {} => s.frozen)

\* What a callback that goes on has to go on with.
DoingFits ==
    /\ doing.step \in {"submit source", "submit hedge"} => disk = mem /\ durable = mem
    /\ doing.step = "submit source" =>
          mem.active \in DOMAIN mem.orders /\ source[mem.active].state = "absent"
    /\ doing.step \in {"bind", "submit hedge"} => doing.intent \in DOMAIN mem.intents
    /\ doing.step = "bind" => mem.intents[doing.intent].order = NoHedge
    /\ doing.step = "submit hedge" =>
          mem.intents[doing.intent].order \notin DOMAIN hedges \union {NoHedge}

VenueFits(truth) ==
    /\ truth.state = "absent" => truth.fills = <<>> /\ truth.filled = 0
    /\ truth.state = "open" => truth.filled < truth.quantity

TakerInv ==
    /\ \A o \in SourceIds : VenueFits(source[o])
    /\ \A s \in {mem, disk, durable} : CopyFits(s, source, hedges, OneShot)
    /\ DoingFits
    /\ LegSentOnce

-----------------------------------------------------------------------------
(* What keeps a stop from being forgotten: a copy of the store in which    *)
(* nothing is under way and nothing stopped has none that came after it    *)
(* with anything under way, but for an order that never went out.          *)

Quiet(s) == s.active = NoOrder /\ AllCompleted(s) /\ s.halt # Held

IntentSettled(intent) ==
    /\ intent.status \in HedgeStatus
    /\ intent.status = "COMPLETED" => intent.order = NoHedge

\* An order that no longer works has all its trades in its record; a hedge that
\* still may execute stands at the leg it was sent for.
Settled(s, src, sent) ==
    /\ \A o \in DOMAIN s.orders : o # s.active => s.orders[o].filled = src[o].filled
    /\ \A i \in DOMAIN s.intents : IntentSettled(s.intents[i])
    /\ \A h \in DOMAIN sent :
          sent[h].state = "open" => sent[h].index = s.intents[h[1]].leg

\* Copy y is x, or came after it.
Behind(x, y, src) ==
    /\ DOMAIN x.orders \subseteq DOMAIN y.orders
    /\ Quiet(x) => \/ Quiet(y)
                   \/ \E o \in DOMAIN y.orders \ DOMAIN x.orders : src[o].state = "absent"

\* A venue trades what is left of an order, and never a refused one.
TradesFit(truth) ==
    /\ truth.filled <= truth.quantity
    /\ \A k \in DOMAIN truth.fills : truth.fills[k] # 0
    /\ truth.state \in {"REJECTED", "DENIED"} => truth.fills = <<>>

StopInv ==
    /\ \A s \in {mem, disk, durable} : Settled(s, source, hedges)
    /\ Behind(disk, mem, source) /\ Behind(durable, mem, source) /\ Behind(durable, disk, source)
    /\ \A o \in SourceIds :
          /\ TradesFit(source[o])
          /\ engine[o].status = "open" /\ engine[o].fills = {} => mem.active = o
    /\ \A h \in DOMAIN hedges : hedges[h].state = "open" => hedges[h].fills = <<>>
    /\ doing.step = "bind" => mem.intents[doing.intent].status = "PENDING"

-----------------------------------------------------------------------------
(* What keeps the books, and the venues level where the gate is open:      *)
(* again it holds of each copy of the store by itself.                     *)

\* The record of an order is of the side it trades on.
SidesFit(s, src) ==
    \A o \in DOMAIN s.orders :
        /\ s.orders[o].side \in Sides
        /\ src[o].state # "absent" => src[o].side = s.orders[o].side

\* A plan is on the side of its intent, and for the whole of it.
PlanFits(intent) ==
    /\ \A n \in DOMAIN intent.plan :
          intent.plan[n].side = intent.side /\ intent.plan[n].quantity \in Nat
    /\ SumFunction([n \in DOMAIN intent.plan |-> intent.plan[n].quantity]) = intent.quantity

\* An intent stands at a leg of its plan; each leg before it was executed, by
\* an order of its own and at once.
LegsFit(intent, i, sent) ==
    /\ intent.side \in Sides /\ intent.quantity \in Nat \ {0}
    /\ IF intent.plan = <<>>
       THEN intent.leg = 0 /\ intent.filled = 0 /\ intent.order = NoHedge
       ELSE PlanFits(intent) /\ intent.leg <= Len(intent.plan)
    /\ intent.order # NoHedge \/ (intent.status = "PENDING" /\ intent.plan # <<>>) =>
          intent.leg < Len(intent.plan)
    /\ intent.status = "COMPLETED" => intent.plan # <<>> /\ intent.leg = Len(intent.plan)
    /\ intent.status \notin Failed => intent.legFilled = 0
    /\ \A n \in 1 .. intent.leg : \E h \in DOMAIN sent :
          h[1] = i /\ sent[h].index = n - 1 /\ sent[h].fills = <<intent.plan[n].quantity>>

\* What was sent is a leg of the plan, the one the intent stands at while it waits.
SentFits(intent, h, sent) ==
    /\ sent[h].index < Len(intent.plan)
    /\ sent[h].leg = intent.plan[sent[h].index + 1]
    /\ intent.order = h => sent[h].index = intent.leg

\* A hedge order is executed at once, or by a broker that splits it in two parts.
ExecutedFits(hedge) ==
    \/ hedge.fills \in {<<>>, <<hedge.leg.quantity>>}
    \/ \E part \in 1 .. hedge.leg.quantity - 1 :
          hedge.fills = <<part, hedge.leg.quantity - part>>

LevelInv ==
    /\ \A s \in {mem, disk, durable} :
          /\ SidesFit(s, source)
          /\ \A i \in DOMAIN s.intents : LegsFit(s.intents[i], i, hedges)
          /\ \A h \in DOMAIN hedges : SentFits(s.intents[h[1]], h, hedges)
    /\ \A h \in DOMAIN hedges : ExecutedFits(hedges[h])
    /\ tickets \in [Tickets -> Int]
    /\ doing.step = "bind" => mem.intents[doing.intent].plan # <<>>
    /\ FillsAccounted

=============================================================================
