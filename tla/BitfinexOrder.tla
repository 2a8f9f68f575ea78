----------------------------- MODULE BitfinexOrder -----------------------------
(***************************************************************************)
(* What BitfinexV1ExecutionClient (bitfinex_v1_execution.py) remembers of  *)
(* its orders, and what a frame of the private stream, an acknowledgement  *)
(* deadline or a REST report makes of it.  Every handler is an operator    *)
(* from the old memory to the new one; `raised' is a Python exception,     *)
(* `out' the events handed to the engine.                                  *)
(*                                                                         *)
(* A trade is one unit of an order's quantity, <<order, n>>.  Payload      *)
(* fields that are only compared with the submission (symbol, side, type,  *)
(* flags, precision) are taken to match.                                   *)
(***************************************************************************)
EXTENDS Integers, Sequences, SequencesExt, FiniteSets, TLC

CONSTANTS
    Orders,       \* client order IDs
    Taking,       \* those that are IOC; the others rest, GTC and post-only
    Reducing,     \* the IOC orders that are reduce-only
    Size          \* units each order asks for

ASSUME OrderAssumption ==
    /\ Taking \subseteq Orders /\ Reducing \subseteq Taking
    /\ Size \in [Orders -> Nat \ {0}]

Ops == {"submit", "modify", "cancel"}
Trades == {<<o, n>> : o \in Orders, n \in 1..4}

None == "none"
NoReport == [how |-> None, filled |-> 0]

(* _LiveOrder.  `silent' is terminal_reconciliation_pending with its deadline. *)
Forgotten == [known |-> FALSE, mine |-> FALSE, venueId |-> FALSE, accepted |-> FALSE,
              filled |-> 0, price |-> 0, pending |-> {}, cancel |-> FALSE,
              terminal |-> NoReport, recovered |-> NoReport, working |-> NoReport,
              emitted |-> FALSE, refused |-> FALSE, verified |-> FALSE,
              unknown |-> {}, timers |-> {}, silent |-> "no"]
Submitted == [Forgotten EXCEPT !.known = TRUE, !.mine = TRUE]

NoMemory == [live |-> [o \in Orders |-> Forgotten], seen |-> {}, interim |-> {},
             unbound |-> {}, out |-> <<>>, raised |-> FALSE]

Raised(c) == [c EXCEPT !.raised = TRUE]
Emit(c, ev, o, n) == [c EXCEPT !.out = Append(@, [ev |-> ev, o |-> o, n |-> n])]

Resolved(l, ops) == [l EXCEPT !.unknown = @ \ ops, !.timers = @ \ ops]
ResolvedAll(l) == [Resolved(l, Ops) EXCEPT !.silent = "no"]

-----------------------------------------------------------------------------
(* Operations whose outcome is open                                        *)

IsPending(l, op) ==
    CASE op = "submit" -> ~l.accepted /\ ~l.refused /\ ~l.emitted
      [] op = "modify" -> l.pending # {}
      [] op = "cancel" -> l.cancel /\ l.terminal = NoReport

\* The paper venue may end an IOC order, or a canceled quote, without a word.
CanBeSilent(paper, o, l, op) ==
    /\ paper /\ l.mine /\ l.terminal = NoReport /\ ~l.refused /\ ~l.emitted
    /\ l.filled < Size[o] /\ l.pending = {} /\ "modify" \notin l.unknown
    /\ \/ op = "submit" /\ o \in Taking
       \/ op = "cancel" /\ o \notin Taking /\ l.accepted /\ l.cancel

Armed(paper, o, l, op) ==
    IF CanBeSilent(paper, o, l, op) /\ l.silent = "no" THEN [l EXCEPT !.silent = "armed"] ELSE l

MarkedUnknown(paper, o, l, op) ==
    Armed(paper, o, [l EXCEPT !.unknown = @ \union {op}], op)

SilenceDue(paper, o, l) ==
    l.silent = "due" /\ \E op \in {"submit", "cancel"} : CanBeSilent(paper, o, l, op)

\* Mutant: the lost stream only stops the timers.
StoppedTimers(paper, c) == [c EXCEPT !.live = [o \in Orders |-> [c.live[o] EXCEPT !.timers = {}]]]

\* The stream is gone: what was not acknowledged is unknown now.
StoppedDeadlines(paper, c) ==
    LET open(o) == IF c.live[o].known THEN c.live[o].timers ELSE {}
        ops(o) == open(o) \union (IF CanBeSilent(paper, o, c.live[o], "submit")
                                  THEN {"submit"} ELSE {})
        lost(o) == FoldSet(LAMBDA op, l : MarkedUnknown(paper, o, l, op),
                           [c.live[o] EXCEPT !.timers = {}], ops(o))
    IN [c EXCEPT !.live = [o \in Orders |-> lost(o)]]

\* Mutant: an order the venue has accepted is in nobody's way.
UnresolvedUnaccepted(l) == l.known /\ ~l.refused /\ ~l.emitted /\ ~l.accepted

Unresolved(l) == l.known /\ ~l.refused /\ ~l.emitted

AwaitsFills(l) == l.terminal # NoReport /\ ~l.emitted

\* execution_hold_reason, as far as it looks at the orders
OrdersHold(paper, c) ==
    \/ c.unbound # {}
    \/ \E o \in Orders : LET l == c.live[o] IN l.known /\
          \/ l.unknown # {} \/ AwaitsFills(l) \/ SilenceDue(paper, o, l)
          \/ o \in Reducing /\ l.accepted /\ ~l.verified
          \/ l.working # NoReport

TerminalRequired(paper, c) ==
    \E o \in Orders : LET l == c.live[o] IN l.known /\
        \/ AwaitsFills(l) /\ l.terminal.filled > l.filled
        \/ l.recovered # NoReport /\ ~l.emitted
        \/ SilenceDue(paper, o, l)

-----------------------------------------------------------------------------
(* Steps the handlers share                                                *)

\* _validate_order_state, of which only the price can differ here
StateMatches(l, price) == price \in {l.price} \union l.pending

Accept(c, o) ==
    LET l == Resolved(c.live[o], {"submit"})
        d == [c EXCEPT !.live[o] = [l EXCEPT !.venueId = TRUE, !.accepted = TRUE]]
    IN IF l.accepted THEN d ELSE Emit(d, "accepted", o, 0)

AckPrice(c, o, price) ==
    IF price \notin c.live[o].pending THEN c
    ELSE Emit([c EXCEPT !.live[o] = [Resolved(@, {"modify"}) EXCEPT !.price = price,
                                                                    !.pending = {}]],
              "updated", o, price)

Finish(c, o) ==
    LET l == c.live[o] IN
    IF l.terminal = NoReport \/ l.emitted \/ l.terminal.filled > l.filled THEN c
    ELSE LET d == [c EXCEPT !.live[o].emitted = TRUE, !.live[o].pending = {}] IN
         IF l.terminal.how = "canceled" /\ l.terminal.filled < Size[o]
         THEN Emit(d, "canceled", o, 0) ELSE d

ApplyFill(c, o, t, price) ==
    LET l == c.live[o]
        n == l.filled + 1
        took == [AckPrice(Accept(c, o), o, price) EXCEPT !.live[o].filled = n]
        done == IF n < Size[o] THEN took
                ELSE [took EXCEPT !.live[o] = [Resolved(@, {"cancel"}) EXCEPT !.cancel = FALSE]]
    IN IF \/ o \in Reducing /\ ~l.verified
          \/ n > Size[o]
          \/ l.terminal # NoReport /\ n > l.terminal.filled
       THEN Raised(c)
       ELSE Finish(Emit(done, "filled", o, t[2]), o)

\* Fills that came before the order they belong to, oldest first.
Staged(c, o, named) == {p \in c.unbound : p.t[1] = o /\ (named \/ ~p.named)}

Release(c, o, staged) ==
    FoldLeft(LAMBDA d, p :
                 IF d.raised THEN d
                 ELSE LET e == ApplyFill(d, o, p.t, p.price) IN
                      IF e.raised THEN Raised(d)
                      ELSE [e EXCEPT !.interim = @ \union {p.t}, !.unbound = @ \ {p}],
             c, SetToSortSeq(staged, LAMBDA p, q : p.t[2] < q.t[2]))

\* _validated_unbound_paper_interims
StagedAreValid(c, o, staged, ev, filled) ==
    staged = {} \/
    /\ o \in Reducing /\ ev \in {"on", "oc", "os"}
    /\ \A p \in staged : IF p.named THEN ev \in {"on", "oc"} /\ c.live[o].mine
                                    ELSE ev \in {"on", "os"}
    /\ LET n == c.live[o].filled + Cardinality(staged) IN
        n <= Size[o] /\ (ev = "oc" => n <= filled)

-----------------------------------------------------------------------------
(* Finding the order a frame is about.  `cache' is the engine's view.      *)

Open(status) == status \in {"ACCEPTED", "PARTIALLY_FILLED"}
Closed(status) == status \in {"FILLED", "CANCELED", "REJECTED", "DENIED"}
Count(k) == Cardinality(k.fills) + k.inferred

\* An order of an earlier process that the engine restored as open.
Rehydrate(c, o, cache) ==
    IF c.live[o].known \/ ~Open(cache[o].status) THEN c
    ELSE [c EXCEPT !.live[o] = [Forgotten EXCEPT !.known = TRUE, !.venueId = TRUE,
              !.accepted = TRUE, !.filled = Count(cache[o]), !.price = cache[o].price]]

\* A frame names the order by its CID, or only by its venue ID.
Find(c, o, named, cache) == IF named THEN Rehydrate(c, o, cache) ELSE c
Found(c, o, named) == c.live[o].known /\ (named \/ c.live[o].venueId)

\* _confirmed_terminal_quantity: the engine applied exactly what was reported.
CacheProves(report, k) ==
    /\ report # NoReport /\ k.status = report.status /\ Count(k) = report.filled

Terminal(how, filled) ==
    [how |-> how, filled |-> filled,
     status |-> CASE how = "executed" -> "FILLED" [] how = "canceled" -> "CANCELED"
                  [] how = "refused" -> "REJECTED"
                  [] how = "working" -> IF filled = 0 THEN "ACCEPTED" ELSE "PARTIALLY_FILLED"]

TerminalReport(l) == IF l.terminal # NoReport THEN l.terminal ELSE l.recovered

\* _cached_trade_already_applied: the engine has the trade by its ID, or in a fill it
\* inferred for an order whose final report is proved: "no", "yes", or "conflict".
AlreadyApplied(c, o, t, cache) ==
    IF t[2] \in cache[o].fills THEN "yes"
    ELSE IF ~Closed(cache[o].status) THEN "no"
    ELSE IF CacheProves(TerminalReport(c.live[o]), cache[o]) /\ cache[o].inferred > 0
         THEN "yes" ELSE "conflict"

-----------------------------------------------------------------------------
(* Frames of the private stream                                            *)

\* _handle_order.  f.how is set in a terminal update.
HandleOrder(m, o, f, cache) ==
    LET c == Find(m, o, TRUE, cache)
        l == c.live[o]
        refusal == f.how = "refused" /\ ~l.accepted /\ f.filled = 0
        staged == Staged(c, o, f.ev \in {"on", "oc"})
        state == Terminal(IF f.how = "refused" /\ ~refusal THEN "canceled" ELSE f.how, f.filled)
        seen == AckPrice(Accept([c EXCEPT !.live[o].verified = TRUE], o), o, f.price)
        ended == IF f.ev # "oc" THEN seen
                 ELSE [seen EXCEPT !.live[o] = [ResolvedAll(@) EXCEPT !.cancel = FALSE,
                                                                      !.terminal = state]]
        released == Release(ended, o, staged)
    IN CASE ~Found(c, o, TRUE) -> c
         [] l.terminal # NoReport ->
              IF f.ev = "oc" /\ f.how = l.terminal.how /\ f.filled = l.terminal.filled THEN c ELSE Raised(c)
         [] ~StateMatches(l, f.price) -> Raised(c)
         [] ~StagedAreValid(c, o, staged, f.ev, f.filled) -> Raised(c)
         [] refusal /\ staged # {} -> Raised(c)
         [] l.refused -> Raised([c EXCEPT !.live[o].verified = TRUE])
         [] refusal ->
              Emit([c EXCEPT !.live[o] = [ResolvedAll(@) EXCEPT !.verified = TRUE,
                        !.terminal = state, !.emitted = TRUE, !.refused = TRUE]],
                   "rejected", o, 0)
         [] released.raised -> Raised(ended)
         [] OTHER -> IF f.ev = "oc" THEN Finish(released, o) ELSE released

\* _handle_interim_trade: `te', a fill without its fee, used on the paper venue only.
HandleInterim(m, p, paper, cache) ==
    LET o == p.t[1]
        c == Find(m, o, p.named, cache)
        l == c.live[o]
        buffer == [c EXCEPT !.unbound = @ \union {p}]
        known == p.t \in c.seen \union c.interim \union {q.t : q \in c.unbound}
        filled == ApplyFill(c, o, p.t, p.price)
    IN CASE ~Found(c, o, p.named) ->
              IF ~paper \/ p.named THEN c
              ELSE IF o \notin Taking THEN Raised(c)
              ELSE IF known THEN c ELSE buffer
         [] l.refused -> Raised(c)
         [] ~paper -> c
         [] /\ l.mine /\ ~l.accepted /\ ~l.verified /\ l.terminal = NoReport
            /\ o \in Reducing /\ p.named -> IF known THEN c ELSE buffer
         [] p.t \in c.seen \union c.interim -> c
         [] AlreadyApplied(c, o, p.t, cache) = "yes" -> c
         [] AlreadyApplied(c, o, p.t, cache) = "conflict" -> Raised(c)
         [] filled.raised -> Raised(c)
         [] OTHER -> [filled EXCEPT !.interim = @ \union {p.t}]

\* _handle_trade: `tu', the fill with its fee.
HandleTrade(m, p, cache) ==
    LET o == p.t[1]
        c == Find(m, o, TRUE, cache)
        saw(d) == [d EXCEPT !.seen = @ \union {p.t}]
        filled == ApplyFill(c, o, p.t, p.price)
    IN CASE ~Found(c, o, TRUE) -> c
         [] c.live[o].refused -> Raised(c)
         [] p.t \in c.seen -> c
         [] p.t \in c.interim -> saw(Finish(c, o))
         [] AlreadyApplied(c, o, p.t, cache) = "yes" -> c
         [] AlreadyApplied(c, o, p.t, cache) = "conflict" -> Raised(c)
         [] filled.raised -> Raised(c)
         [] OTHER -> saw(filled)

\* _handle_notification: the venue refused an operation.
HandleRefusal(m, o, op, paper, cache) ==
    LET c == Find(m, o, TRUE, cache)
        l == c.live[o]
    IN CASE ~Found(c, o, TRUE) -> c
         [] l.refused -> IF op = "submit" THEN c ELSE Raised(c)
         [] op = "submit" ->
              IF l.accepted THEN Raised(c)
              ELSE Emit([c EXCEPT !.live[o] = [ResolvedAll(@) EXCEPT !.emitted = TRUE,
                                                                    !.refused = TRUE]],
                        "rejected", o, 0)
         [] op = "modify" ->
              IF l.pending = {} /\ "modify" \notin l.unknown THEN Raised(c)
              ELSE [c EXCEPT !.live[o] = [Resolved(@, {"modify"}) EXCEPT !.pending = {}]]
         [] op = "cancel" ->
              IF ~l.cancel /\ "cancel" \notin l.unknown THEN Raised(c)
              ELSE [c EXCEPT !.live[o] =
                       [Resolved(@, {"cancel"}) EXCEPT !.cancel = FALSE,
                          !.silent = IF paper /\ l.mine /\ o \notin Taking THEN "no" ELSE @]]

\* _handle_order_snapshot, for one order that works at the venue.
HandleSnapshot(m, o, filled, price, cache) ==
    LET c == Find(m, o, TRUE, cache)
        l == c.live[o]
        staged == Staged(c, o, FALSE)
    IN IF \/ ~l.known \/ l.terminal # NoReport \/ l.refused
          \/ ~StateMatches(l, price)
          \/ ~StagedAreValid(c, o, staged, "os", filled)
       THEN Raised(c)
       ELSE Release(AckPrice(Accept([c EXCEPT !.live[o].verified = TRUE], o), o, price), o, staged)
=============================================================================
