---------------------------- MODULE BitfinexClient ----------------------------
(***************************************************************************)
(* BitfinexV1ExecutionClient and SourceTerminalReconciler (live_runtime.py)*)
(* between the engine and the venue: commands go out over a websocket whose*)
(* sends are awaited, private frames come back over the same socket, and   *)
(* what the stream does not tell is read over REST and reconciled.         *)
(*                                                                         *)
(* The venue is the environment.  It may keep a terminal to itself on the  *)
(* paper account (`silent'), the frames of an order's fills and of its     *)
(* state come in any relative order, a command may be lost or arrive late. *)
(* The engine applies the client's events one by one, later; it ignores a  *)
(* trade ID it has and a fill beyond the order's quantity.                 *)
(***************************************************************************)
EXTENDS BitfinexOrder

CONSTANTS
    Scenes,       \* the account (paper or not), the orders the engine has, mishaps used up
    MaxMishaps    \* bound: changes of price, silences, lost messages, dead streams, restarts

ASSUME ClientAssumption ==
    /\ Scenes \subseteq [paper : BOOLEAN, orders : SUBSET Orders, mishaps : Nat]
    /\ MaxMishaps \in Nat

VARIABLES
    paper,      \* raw_symbol is the paper instrument
    venue,      \* the venue's orders
    wire,       \* commands that may still reach the venue
    news,       \* per order, the venue's order frames on the stream
    prints,     \* trade frames on the stream
    up,         \* _running: the stream is authenticated and read
    fatal,      \* _fatal_failure
    mem,        \* the client's memory
    sends,      \* coroutines inside the await of a send
    queue,      \* events the engine has not applied yet
    cache,      \* the engine's orders
    gap,        \* orders of which a frame was lost with a stream (observation only)
    round,      \* the reconciler's root task
    mishaps

theVenue == <<venue, wire, news, prints, gap>>
theClient == <<up, fatal, mem, sends>>
engine == <<queue, cache>>
vars == <<paper, theVenue, theClient, engine, round, mishaps>>

Mishap == mishaps < MaxMishaps /\ mishaps' = mishaps + 1

-----------------------------------------------------------------------------
(* The venue                                                               *)

Frame(ev, how, o) ==
    [ev |-> ev, how |-> how, price |-> venue'[o].price, filled |-> venue'[o].filled]

\* While nobody listens, what the venue has to say of an order is lost.
Says(o, frames) ==
    /\ news' = IF up THEN [news EXCEPT ![o] = @ \o frames] ELSE news
    /\ gap' = IF frames = <<>> THEN gap \ {o} ELSE IF up THEN gap ELSE gap \union {o}

Prints(o, from) ==
    \E named \in (IF paper /\ o \in Taking THEN BOOLEAN ELSE {TRUE}) :
      \E kinds \in (IF paper THEN {{"te"}, {"te", "tu"}} ELSE {{"tu"}}) :
        prints' = IF ~up THEN prints
                  ELSE prints \union [kind : kinds, named : {named}, price : {venue'[o].price},
                                      t : {<<o, n>> : n \in from + 1 .. venue'[o].filled}]

Fate(o, how, n) == venue' = [venue EXCEPT ![o].phase = how, ![o].filled = n]

\* A submission is refused, matched at once, or rests.
VenueTakes(o) ==
    /\ <<"submit", o, 0>> \in wire /\ venue[o].phase = None
    /\ wire' = wire \ {<<"submit", o, 0>>}
    /\ \/ /\ Fate(o, "refused", 0)
          /\ \/ Says(o, <<Frame("no", "submit", o)>>)
             \/ Says(o, <<Frame("oc", "refused", o)>>)
          /\ UNCHANGED <<prints, mishaps>>
       \/ /\ o \notin Taking /\ Fate(o, "working", 0)
          /\ Says(o, <<Frame("on", None, o)>>)
          /\ UNCHANGED <<prints, mishaps>>
       \/ /\ o \in Taking
          /\ \E n \in 0 .. Size[o] : Fate(o, IF n = Size[o] THEN "executed" ELSE "canceled", n)
          /\ Prints(o, 0)
          /\ \/ Says(o, <<Frame("on", None, o), Frame("oc", venue'[o].phase, o)>>)
                /\ UNCHANGED mishaps
             \/ Says(o, <<Frame("oc", venue'[o].phase, o)>>) /\ UNCHANGED mishaps
             \/ paper /\ Mishap /\ Says(o, <<>>)
    /\ UNCHANGED <<paper, theClient, engine, round>>

\* Somebody takes from a resting order; the last unit ends it.
VenueTrades(o) ==
    /\ venue[o].phase = "working"
    /\ LET n == venue[o].filled + 1 IN Fate(o, IF n = Size[o] THEN "executed" ELSE "working", n)
    /\ Prints(o, venue[o].filled)
    /\ IF venue'[o].phase = "executed"
       THEN \/ Says(o, <<Frame("oc", "executed", o)>>) /\ UNCHANGED mishaps
            \/ paper /\ Mishap /\ Says(o, <<>>)
       ELSE Says(o, <<Frame("ou", None, o)>>) /\ UNCHANGED mishaps
    /\ UNCHANGED <<paper, wire, theClient, engine, round>>

VenueChanges(o) ==
    /\ \E p \in 1 .. MaxMishaps : LET m == <<"modify", o, p>> IN
        /\ m \in wire /\ wire' = wire \ {m}
        /\ \/ /\ venue[o].phase = "working"
              /\ venue' = [venue EXCEPT ![o].price = p]
              /\ Says(o, <<Frame("ou", None, o)>>)
           \/ venue' = venue /\ Says(o, <<Frame("no", "modify", o)>>)
    /\ UNCHANGED <<paper, prints, theClient, engine, round, mishaps>>

VenueCancels(o) ==
    /\ <<"cancel", o, 0>> \in wire /\ wire' = wire \ {<<"cancel", o, 0>>}
    /\ IF venue[o].phase = "working"
       THEN /\ Fate(o, "canceled", venue[o].filled)
            /\ \/ Says(o, <<Frame("oc", "canceled", o)>>) /\ UNCHANGED mishaps
               \/ paper /\ Mishap /\ Says(o, <<>>)
       ELSE venue' = venue /\ Says(o, <<Frame("no", "cancel", o)>>) /\ UNCHANGED mishaps
    /\ UNCHANGED <<paper, prints, theClient, engine, round>>

LoseCommand ==
    /\ Mishap /\ \E m \in wire : wire' = wire \ {m}
    /\ UNCHANGED <<paper, venue, news, prints, gap, theClient, engine, round>>

-----------------------------------------------------------------------------
(* The engine                                                              *)

\* One event of the client is applied to the engine's order.
Applied(k, e) ==
    CASE e.ev = "accepted" -> IF k.status = "SUBMITTED" THEN [k EXCEPT !.status = "ACCEPTED"] ELSE k
      [] e.ev = "updated" -> IF Closed(k.status) THEN k ELSE [k EXCEPT !.price = e.n]
      [] e.ev = "rejected" -> IF k.status = "SUBMITTED" THEN [k EXCEPT !.status = "REJECTED"] ELSE k
      [] e.ev = "canceled" -> IF Closed(k.status) THEN k ELSE [k EXCEPT !.status = "CANCELED"]
      [] e.ev = "filled" ->
           IF e.n \in k.fills \/ Count(k) = Size[e.o] THEN k
           ELSE [k EXCEPT !.fills = @ \union {e.n},
                          !.status = IF Count(k) + 1 = Size[e.o] THEN "FILLED"
                                     ELSE IF @ = "CANCELED" THEN @ ELSE "PARTIALLY_FILLED"]

\* _sync_reconciled_native_quantity, on every order whose fills the engine applied.
Synced(os) ==
    LET watched == {o \in os : LET l == mem.live[o] IN
                      l.known /\ (l.working # NoReport \/ l.recovered # NoReport)}
        exact == {o \in watched : cache'[o].inferred = 0}
        count(o) == IF Count(cache'[o]) > mem.live[o].filled THEN Count(cache'[o])
                    ELSE mem.live[o].filled
    IN /\ mem' = [mem EXCEPT !.live = [o \in Orders |->
                     IF o \in exact THEN [@[o] EXCEPT !.filled = count(o)] ELSE @[o]]]
       /\ fatal' = (fatal \/ exact # watched)

EngineApplies ==
    /\ queue # <<>> /\ queue' = Tail(queue)
    /\ LET e == Head(queue) IN
        /\ cache' = [cache EXCEPT ![e.o] = Applied(@, e)]
        /\ Synced(IF cache'[e.o].fills # cache[e.o].fills THEN {e.o} ELSE {})
    /\ UNCHANGED <<paper, theVenue, up, sends, round, mishaps>>

\* The client's memory is now `c'; its events go to the engine's queue.
Becomes(c) ==
    /\ mem' = [c EXCEPT !.out = <<>>, !.raised = FALSE]
    /\ queue' = queue \o c.out

-----------------------------------------------------------------------------
(* Commands                                                                *)

Hold == fatal \/ ~up \/ OrdersHold(paper, mem)

ReadyToSubmit ==   \* SourceTerminalReconciler.source_submission_ready
    round.step = "idle" /\ ~round.failed /\ ~round.restart /\ ~TerminalRequired(paper, mem)

\* _send_mutation up to its await
Send(o, op, price, l) ==
    /\ mem' = [mem EXCEPT !.live[o] = Armed(paper, o, l, op)]
    /\ wire' = wire \union {<<op, o, price>>}
    /\ sends' = sends \union {<<o, op>>}

SubmitOrder(o) ==
    /\ cache[o].status = None /\ ReadyToSubmit /\ ~Hold
    /\ cache' = [cache EXCEPT ![o].status = "SUBMITTED"]
    /\ Send(o, "submit", 0, Submitted)
    /\ UNCHANGED <<paper, venue, news, prints, gap, up, fatal, queue, round, mishaps>>

\* On hold, or the CID cannot be persisted.
DenyOrder(o) ==
    /\ cache[o].status = None /\ ReadyToSubmit
    /\ \/ Hold /\ UNCHANGED mishaps
       \/ Mishap
    /\ cache' = [cache EXCEPT ![o].status = "DENIED"]
    /\ UNCHANGED <<paper, theVenue, theClient, queue, round>>

Known(o) == mem.live[o].known /\ mem.live[o].venueId /\ mem.live[o].accepted

ModifyOrder(o) ==
    /\ o \notin Taking /\ Open(cache[o].status) /\ Known(o) /\ ~Hold
    /\ LET l == mem.live[o]  p == l.price + 1 IN
        /\ l.terminal = NoReport /\ ~l.cancel /\ l.pending = {} /\ Mishap
        /\ <<o, "modify">> \notin sends
        /\ Send(o, "modify", p, [l EXCEPT !.pending = {p}])
    /\ UNCHANGED <<paper, venue, news, prints, gap, up, fatal, engine, round>>

CancelOrder(o) ==
    /\ o \notin Taking /\ Open(cache[o].status) /\ Known(o)
    /\ LET l == mem.live[o] IN
        /\ l.terminal = NoReport /\ ~l.cancel
        /\ "cancel" \notin l.timers /\ <<o, "cancel">> \notin sends
        /\ Send(o, "cancel", 0, [l EXCEPT !.cancel = TRUE])
    /\ UNCHANGED <<paper, venue, news, prints, gap, up, fatal, engine, round, mishaps>>

\* The await returns: whoever closed the stream meanwhile, and whatever was
\* acknowledged meanwhile, is looked at now.
SendReturns(s) ==
    /\ s \in sends /\ sends' = sends \ {s}
    /\ LET o == s[1]  op == s[2]  l == mem.live[o] IN
       mem' = [mem EXCEPT !.live[o] =
                 IF ~l.known THEN l
                 ELSE IF ~up THEN MarkedUnknown(paper, o, l, op)
                 ELSE IF IsPending(l, op) THEN [l EXCEPT !.timers = @ \union {op}] ELSE l]
    /\ UNCHANGED <<paper, theVenue, up, fatal, engine, round, mishaps>>

\* The await raises; the command may have been sent all the same.
SendFails(s) ==
    /\ s \in sends /\ Mishap /\ sends' = sends \ {s}
    /\ mem' = [mem EXCEPT !.live[s[1]] = IF @.known THEN MarkedUnknown(paper, s[1], @, s[2]) ELSE @]
    /\ wire' \in {wire, {m \in wire : m[1] # s[2] \/ m[2] # s[1]}}
    /\ UNCHANGED <<paper, venue, news, prints, gap, up, fatal, engine, round>>

AckExpires(o, op) ==
    /\ op \in mem.live[o].timers
    /\ mem' = [mem EXCEPT !.live[o] = MarkedUnknown(paper, o, [@ EXCEPT !.timers = @ \ {op}], op)]
    /\ UNCHANGED <<paper, theVenue, up, fatal, sends, engine, round, mishaps>>

SilenceElapses(o) ==
    /\ mem.live[o].silent = "armed"
    /\ mem' = [mem EXCEPT !.live[o].silent = "due"]
    /\ UNCHANGED <<paper, theVenue, up, fatal, sends, engine, round, mishaps>>

-----------------------------------------------------------------------------
(* The private stream                                                      *)

Unread == {o \in Orders : news[o] # <<>>} \union {p.t[1] : p \in prints}

\* The socket is closed: frames on it are lost, deadlines become unknowns.
StreamEnds(c) ==
    /\ Becomes(StoppedDeadlines(paper, c))
    /\ up' = FALSE
    /\ news' = [o \in Orders |-> <<>>] /\ prints' = {}
    /\ gap' = gap \union Unread

\* _reader consumes a frame; an exception in a handler ends it.
Consumes(c, rest) ==
    IF c.raised THEN StreamEnds(c) /\ fatal' = TRUE
    ELSE Becomes(c) /\ rest /\ UNCHANGED <<up, fatal, gap>>

ReadNews(o) ==
    /\ up /\ news[o] # <<>>
    /\ LET f == Head(news[o]) IN
       Consumes(IF f.ev = "no" THEN HandleRefusal(mem, o, f.how, paper, cache)
                ELSE HandleOrder(mem, o, f, cache),
                news' = [news EXCEPT ![o] = Tail(@)] /\ UNCHANGED prints)
    /\ UNCHANGED <<paper, venue, wire, sends, cache, round, mishaps>>

\* Trades are told in their order, each first without its fee.
Precedes(q, p) ==
    /\ q.t[1] = p.t[1]
    /\ \/ q.t = p.t /\ q.kind = "te" /\ p.kind = "tu"
       \/ q.kind = p.kind /\ q.t[2] < p.t[2]

ReadPrint(p) ==
    /\ up /\ p \in prints /\ ~\E q \in prints : Precedes(q, p)
    /\ Consumes(IF p.kind = "te" THEN HandleInterim(mem, p, paper, cache)
                ELSE HandleTrade(mem, p, cache),
                prints' = prints \ {p} /\ UNCHANGED news)
    /\ UNCHANGED <<paper, venue, wire, sends, cache, round, mishaps>>

StreamDies ==
    /\ up /\ Mishap /\ StreamEnds(mem) /\ fatal' = TRUE
    /\ UNCHANGED <<paper, venue, wire, sends, cache, round>>

Disconnect ==
    /\ up /\ Mishap /\ StreamEnds(mem)
    /\ UNCHANGED <<paper, venue, wire, fatal, sends, cache, round>>

\* A new stream begins with a snapshot of the open orders; with an order whose
\* news may have been missed there is no new stream.  What the old connection
\* carried has reached the venue, or never will.
Connect ==
    /\ ~up /\ wire = {}
    /\ LET working == {o \in Orders : venue[o].phase = "working"}
           restored == FoldSet(LAMBDA o, c : Rehydrate(c, o, cache), mem, working)
           read == FoldSet(LAMBDA o, c : HandleSnapshot(c, o, venue[o].filled, venue[o].price, cache),
                           restored, working)
       IN IF \E o \in Orders : Unresolved(mem.live[o])
          THEN fatal' = TRUE /\ UNCHANGED <<up, mem, queue>>
          ELSE /\ fatal' = FALSE /\ up' = ~read.raised
               /\ Becomes(IF read.raised THEN restored ELSE read)
    /\ UNCHANGED <<paper, theVenue, sends, cache, round, mishaps>>

-----------------------------------------------------------------------------
(* SourceTerminalReconciler and the reports it asks for                    *)

NothingRead == [orders |-> [o \in Orders |-> NoReport], trades |-> [o \in Orders |-> {}],
                position |-> 0, read |-> {}]
IdleRound(restart) ==
    [step |-> "idle", try |-> 1, failed |-> FALSE, observed |-> FALSE, restart |-> restart,
     saw |-> NothingRead]

Required == TerminalRequired(paper, mem)

AtStep(step) == [round EXCEPT !.step = step, !.saw = NothingRead]

\* Another process: what the engine applied is in its cache, all else is gone.
Restart ==
    /\ Mishap
    /\ mem' = NoMemory /\ up' = FALSE /\ fatal' = FALSE /\ sends' = {} /\ queue' = <<>>
    /\ news' = [o \in Orders |-> <<>>] /\ prints' = {}
    /\ gap' = gap \union Unread \union {queue[i].o : i \in DOMAIN queue}
    /\ round' = IdleRound(\E o \in Orders : cache[o].status \notin {None, "absent"})
    /\ UNCHANGED <<paper, venue, wire, cache>>

\* _observe: one episode of `terminal reconciliation required' starts one root.
Observe ==
    /\ round.step = "idle"
    /\ \/ round.restart /\ ~round.failed
       \/ Required /\ ~round.observed
    /\ round' = [AtStep("begin") EXCEPT !.try = 1, !.observed = Required]
    /\ UNCHANGED <<paper, theVenue, theClient, engine, mishaps>>

\* Every few seconds a healthy node compares its quotes with the active list.
Candidate(o) ==
    LET l == mem.live[o] IN
    /\ paper /\ l.known /\ l.mine /\ l.accepted /\ o \notin Taking /\ l.pending = {}
    /\ l.venueId /\ l.terminal = NoReport /\ l.recovered = NoReport /\ ~l.refused
    /\ ~l.cancel /\ l.unknown = {} /\ Open(cache[o].status)

Watched(o) == [how |-> cache[o].status, filled |-> Count(cache[o]), price |-> cache[o].price]

ObserveWorking ==
    /\ round.step = "idle" /\ ~round.failed /\ ~round.restart /\ \E o \in Orders : Candidate(o)
    /\ round' = [AtStep("watch") EXCEPT !.try = 1,
                    !.saw.orders = [o \in Orders |-> IF Candidate(o) THEN Watched(o) ELSE NoReport]]
    /\ UNCHANGED <<paper, theVenue, theClient, engine, mishaps>>

Report(o) == IF venue[o].phase \in {None, "unborn"} THEN NoReport
             ELSE Terminal(venue[o].phase, venue[o].filled)

\* check_working_orders: a missing or different order calls for a full round; one
\* that changed since the check began is left to the next.
CheckWorking ==
    /\ round.step = "watch"
    /\ LET same(o) == round.saw.orders[o].how # None /\ Watched(o) = round.saw.orders[o] /\ Candidate(o)
           differs(o) == Report(o).how # "working" \/ Report(o).filled # Count(cache[o])
       IN round' = IF Required \/ \E o \in Orders : same(o) /\ differs(o)
                   THEN AtStep("begin") ELSE AtStep("idle")
    /\ UNCHANGED <<paper, theVenue, theClient, engine, mishaps>>

BeginRound ==
    /\ round.step = "begin"
    /\ round' = IF up THEN AtStep("reading")
                ELSE [AtStep("idle") EXCEPT !.failed = TRUE, !.observed = Required]
    /\ UNCHANGED <<paper, theVenue, theClient, engine, mishaps>>

\* A round that raises is tried once more, then held for an explicit retry.
RoundFails(c) ==
    round' = IF round.try = 1 /\ up THEN [AtStep("begin") EXCEPT !.try = 2]
             ELSE [AtStep("idle") EXCEPT !.failed = TRUE, !.observed = TerminalRequired(paper, c)]

\* The orders, the trades and the position are read side by side.
Read(what, value) ==
    /\ round.step = "reading" /\ what \notin round.saw.read
    /\ round' = [round EXCEPT !.saw.read = @ \union {what}, !.saw[what] = value]
    /\ UNCHANGED <<paper, theVenue, theClient, engine, mishaps>>

Total(f) == FoldSet(LAMBDA o, n : n + f[o], 0, Orders)

ReadReports ==
    \/ Read("orders", [o \in Orders |-> Report(o)])
    \/ Read("trades", [o \in Orders |-> 1 .. venue[o].filled])
    \/ Read("position", Total([o \in Orders |-> venue[o].filled]))

\* _validate_silent_terminal_fills: exactly the trades that make up the quantity
TradesMakeUp(o, report) == Cardinality(round.saw.trades[o]) = report.filled

\* Mutant: the venue's sum is believed without its trades.
EvidenceOfSum(o, report) == TRUE

\* _validate_terminal_fill_evidence: and among them all that the engine has.
Evidence(o, report) == TradesMakeUp(o, report) /\ cache[o].fills \subseteq round.saw.trades[o]

\* _validate_closed_order_report and _validate_closed_fill_report
ClosedAgrees(k, report, trades) == CacheProves(report, k) /\ k.fills = trades /\ k.inferred = 0

\* _validate_streamed_terminal_report
StreamedAgrees(o, l, report) ==
    /\ report = l.terminal
    /\ report.how = "canceled" \/ l.working # NoReport => Evidence(o, report)

\* _validate_cached_open_report
CacheAllows(o, report, trades) ==
    /\ report.filled >= Count(cache[o])
    /\ report.filled = Count(cache[o]) => trades \subseteq cache[o].fills

\* _reconcile_live_report, inside a full round
Reconciled(c, o, report, trades) ==
    LET l == c.live[o]
        quoting == paper /\ l.mine /\ l.accepted /\ o \notin Taking /\ l.pending = {}
                 /\ "modify" \notin l.unknown
        ended == report.how # "working"
        bound == [c EXCEPT !.live[o] = [Resolved(@, {"submit"}) EXCEPT !.verified = TRUE,
                     !.venueId = TRUE, !.accepted = TRUE,
                     !.working = IF quoting /\ report.filled > 0 THEN report ELSE @]]
        due == SilenceDue(paper, o, l) \/ quoting
    IN CASE l.terminal # NoReport \/ l.refused -> c
         [] ~CacheAllows(o, report, trades) -> Raised(c)
         [] /\ \/ quoting /\ (ended \/ report.filled > 0)
               \/ report.how = "canceled"
               \/ ended /\ due
            /\ ~Evidence(o, report) -> Raised(c)
         [] ended /\ due ->
              IF l.recovered \notin {NoReport, report} THEN Raised(c)
              ELSE [c EXCEPT !.live[o].verified = TRUE, !.live[o].venueId = TRUE,
                             !.live[o].recovered = report, !.live[o].working = NoReport]
         [] ended -> [c EXCEPT !.live[o].verified = TRUE]
         [] OTHER -> bound

\* generate_mass_status for one order
OrderReconciled(c, o) ==
    LET report == round.saw.orders[o]
        trades == round.saw.trades[o]
        k == cache[o]
        l == c.live[o]
        back == Rehydrate(c, o, cache)
        pending == l.known /\ l.mine /\ ~l.accepted /\ ~l.venueId /\ ~l.refused
                   /\ l.terminal = NoReport
    IN CASE c.raised -> c
         [] Closed(k.status) /\ report # NoReport /\ ~ClosedAgrees(k, report, trades) -> Raised(c)
         [] l.recovered # NoReport /\ ~l.emitted ->
              IF /\ report = l.recovered /\ Evidence(o, report)
                 /\ CacheAllows(o, report, trades)
              THEN c ELSE Raised(c)
         [] l.working # NoReport /\ Closed(k.status) ->
              IF report = NoReport \/ (l.terminal # NoReport /\ ~StreamedAgrees(o, l, report))
              THEN Raised(c) ELSE Reconciled(c, o, report, trades)
         [] pending /\ report # NoReport -> Reconciled(c, o, report, trades)
         [] Open(k.status) ->
              IF \/ report = NoReport
                 \/ back.live[o].terminal # NoReport /\ ~StreamedAgrees(o, back.live[o], report)
              THEN Raised(c) ELSE Reconciled(back, o, report, trades)
         [] OTHER -> c

\* The position must be the fills the engine knows and those the reports add.
PositionExplained(c) ==
    LET missing(o) ==
            LET k == cache[o]  r == round.saw.orders[o] IN
            IF /\ r.filled > Count(k)
               /\ \/ Open(k.status)
                  \/ SilenceDue(paper, o, c.live[o]) /\ k.status = "SUBMITTED"
            THEN r.filled - Count(k) ELSE 0
    IN Total([o \in Orders |-> Count(cache[o]) + missing(o)]) = round.saw.position

\* While the answers were awaited, the engine's own task drained its queue.
BuildMass ==
    /\ round.step = "reading" /\ queue = <<>>
    /\ round.saw.read = {"orders", "trades", "position"}
    /\ LET c == FoldSet(LAMBDA o, d : OrderReconciled(d, o), mem, Orders) IN
        /\ Becomes(c)
        /\ IF c.raised \/ ~PositionExplained(c) THEN RoundFails(c)
           ELSE round' = [round EXCEPT !.step = "built"]
    /\ UNCHANGED <<paper, theVenue, up, fatal, sends, cache, mishaps>>

\* The engine applies the reports: trades by their IDs, then what is missing as
\* inferred fills unless the order ended short, then the status.  It is not exact
\* when it has more than the report says.
Merged(o) ==
    LET k == cache[o]  r == round.saw.orders[o]
        fills == k.fills \union round.saw.trades[o]
        short == r.filled - Cardinality(fills) - k.inferred
    IN IF r = NoReport \/ Closed(k.status) THEN k
       ELSE [k EXCEPT !.fills = fills,
                      !.status = IF Cardinality(fills) + k.inferred = Size[o] THEN "FILLED" ELSE r.status,
                      !.inferred = IF short > 0 /\ r.how # "canceled" THEN @ + short ELSE @]

ApplyMass ==
    /\ round.step = "built"
    /\ cache' = [o \in Orders |-> Merged(o)]
    /\ Synced({o \in Orders : cache'[o].fills # cache[o].fills
                              \/ cache'[o].inferred # cache[o].inferred})
    /\ IF \E o \in Orders : LET r == round.saw.orders[o] IN
               r # NoReport /\ Count(cache'[o]) > r.filled
       THEN RoundFails(mem') ELSE round' = AtStep("applied")
    /\ UNCHANGED <<paper, theVenue, up, sends, queue, mishaps>>

\* confirm_terminal_reconciliation: what the engine proves is retired.
Confirm ==
    /\ round.step = "applied"
    /\ LET ending == {o \in Orders : LET l == mem.live[o] IN
                        l.known /\ ~l.emitted /\ TerminalReport(l) # NoReport}
           working == {o \in Orders : mem.live[o].known /\ mem.live[o].working # NoReport} \ ending
           proved == {o \in ending : CacheProves(TerminalReport(mem.live[o]), cache[o])}
           settled == {o \in working : CacheProves(mem.live[o].working, cache[o])}
           gone == IF proved = ending THEN {ending} ELSE SUBSET proved
       IN \E retired \in gone :
            LET c == [mem EXCEPT !.live = [o \in Orders |->
                        IF o \in retired THEN Forgotten
                        ELSE IF proved = ending /\ o \in settled
                             THEN [@[o] EXCEPT !.working = NoReport] ELSE @[o]]]
            IN /\ mem' = c
               /\ IF proved # ending \/ settled # working \/ TerminalRequired(paper, c)
                  THEN RoundFails(c)
                  ELSE round' = IdleRound(FALSE)
    /\ UNCHANGED <<paper, theVenue, up, fatal, sends, engine, mishaps>>

\* reconcile(): the operator, or a drain, asks again after a round that was held.
Retry ==
    /\ round.step = "idle" /\ round.failed /\ up
    /\ round' = [AtStep("begin") EXCEPT !.try = 1, !.observed = Required]
    /\ UNCHANGED <<paper, theVenue, theClient, engine, mishaps>>

-----------------------------------------------------------------------------
(* Specification                                                           *)

Init ==
    /\ \E s \in Scenes : paper = s.paper /\ mishaps = s.mishaps
         /\ cache = [o \in Orders |-> [status |-> IF o \in s.orders THEN None ELSE "absent",
                                      fills |-> {}, inferred |-> 0, price |-> 0]]
    /\ venue = [o \in Orders |-> [phase |-> None, filled |-> 0, price |-> 0]]
    /\ wire = {} /\ news = [o \in Orders |-> <<>>] /\ prints = {} /\ gap = {}
    /\ up = TRUE /\ fatal = FALSE /\ mem = NoMemory /\ sends = {}
    /\ queue = <<>>
    /\ round = IdleRound(FALSE)

Venue == LoseCommand \/ \E o \in Orders :
    VenueTakes(o) \/ VenueTrades(o) \/ VenueChanges(o) \/ VenueCancels(o)
Commands == \E o \in Orders :
    SubmitOrder(o) \/ DenyOrder(o) \/ ModifyOrder(o) \/ CancelOrder(o)
Timers == \E o \in Orders : SilenceElapses(o) \/ \E op \in Ops : AckExpires(o, op)
Stream == StreamDies \/ Disconnect \/ Connect \/ \E o \in Orders : ReadNews(o)
Reconciler ==
    Observe \/ ObserveWorking \/ CheckWorking \/ BeginRound \/ ReadReports \/ BuildMass
    \/ ApplyMass \/ Confirm \/ Retry

Next ==
    \/ Venue \/ Commands \/ Timers \/ Stream \/ EngineApplies \/ Restart \/ Reconciler
    \/ \E s \in sends : SendReturns(s) \/ SendFails(s)
    \/ \E p \in prints : ReadPrint(p)

Spec == Init /\ [][Next]_vars

-----------------------------------------------------------------------------
(* Properties                                                              *)

\* An order the engine holds for closed is closed at the venue, with exactly the
\* units the engine counts.  (An order of which it inferred some units and was told
\* others by their trades is the matter of FilledOnce.)
EngineTruth ==
    \A o \in Orders : LET k == cache[o]  v == venue[o] IN
        Closed(k.status) /\ (k.inferred = 0 \/ k.fills = {}) =>
            v.phase # "working" /\ Count(k) = v.filled

\* No unit is counted twice, inferred from a report and again from its trade.
FilledOnce == \A o \in Orders : Count(cache[o]) <= venue[o].filled

\* The client would send a new order only when the engine has, or is about to apply,
\* the venue's present state of every order of which a frame was lost with a dead
\* stream or a dead process, unless newer frames of it are on the way.
Heard(o) ==
    LET k == FoldLeft(LAMBDA c, e : IF e.o = o THEN Applied(c, e) ELSE c, cache[o], queue) IN
    /\ Count(k) = venue[o].filled
    /\ Closed(k.status) <=> venue[o].phase \notin {None, "working"}

NothingSentBlind ==
    ReadyToSubmit /\ ~Hold => \A o \in gap \ Unread : Heard(o)

\* An operation without an outcome is watched: its send is under way, its deadline
\* runs, or the client holds.
OpenIsWatched ==
    \A o \in Orders, op \in Ops : LET l == mem.live[o] IN
        l.known /\ l.mine /\ ~l.emitted /\ ~l.refused /\ IsPending(l, op) =>
            <<o, op>> \in sends \/ op \in l.timers \/ op \in l.unknown
            \/ l.terminal # NoReport \/ l.recovered # NoReport
=============================================================================
