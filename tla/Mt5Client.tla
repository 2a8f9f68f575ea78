------------------------------- MODULE Mt5Client -------------------------------
(***************************************************************************)
(* Mt5V1ExecutionClient (mt5_v1_execution.py) talking to the EA: what it   *)
(* submits, how it learns the outcome from the EA's journal, and when it   *)
(* tells the engine.  Requests go one at a time over a REQ socket that is  *)
(* dropped when an answer is late; a submission dropped that way may still *)
(* reach the EA, even when the process that sent it is gone.               *)
(*                                                                         *)
(* The EA is seen through its journal: EaExecution shows that what it      *)
(* serves is a growing prefix of its file and that it implements           *)
(* OrderCustody.  A read (hello, events, snapshot) is one step, answered   *)
(* and taken at once: while it waits the client does nothing else.         *)
(***************************************************************************)
EXTENDS EaJournal, FiniteSets, TLC

CONSTANTS
    PageLimit,    \* events on one page
    MaxLives,     \* bound: processes started
    MaxMishaps    \* bound: late answers, lost messages, deaths, failed writes

ASSUME ClientAssumption ==
    /\ PageLimit \in Nat \ {0} /\ MaxLives \in Nat /\ MaxMishaps \in Nat

VARIABLES
    events,     \* the EA's journal, as it serves it
    ea,         \* the EA: its boot, the request it executes, its failed write
    ran,        \* the requests the broker executed: the account's positions
    wire,       \* submissions on their way to the EA
    reply,      \* the EA's answer to the submission the client waits for
    client,     \* the client's memory
    job,        \* what the coroutine that holds the client's lock is doing
    told,       \* what the engine was told of each request, in order
    mine,       \* requests this process put on the wire
    lives,      \* processes started
    mishaps

service == <<events, ea, ran>>
vars == <<service, wire, reply, client, job, told, mine, lives, mishaps>>

-----------------------------------------------------------------------------
(* The EA, as its client sees it                                           *)

Running == ea.boot # 0
Blocked == ea.blocked \/ ~Recovered(events)

Free(boot) == [boot |-> boot, doing |-> NoRequest, blocked |-> FALSE, unsaved |-> <<>>]

Mishap(n) == mishaps + n <= MaxMishaps /\ mishaps' = mishaps + n

Boots == {events[i].boot : i \in DOMAIN events}

\* A start finds a line again that was written but could not be confirmed.
EaStarts ==
    /\ ~Running /\ Cardinality(Boots) < MaxBoots
    /\ LET boot == Cardinality(Boots) + 1 IN
        /\ \E left \in {events, events \o ea.unsaved} :
              events' = Append(left, NewLine(left, "stream_started", NoRequest, NoRequest, boot))
        /\ ea' = Free(boot)
    /\ UNCHANGED <<ran, wire, reply, client, job, told, mine, lives, mishaps>>

\* What it was executing may or may not have reached the broker.
EaDies ==
    /\ Running /\ Mishap(1)
    /\ ea' = [ea EXCEPT !.boot = 0, !.doing = NoRequest]
    /\ ran' \in {ran, IF ea.doing = NoRequest THEN ran ELSE ran \union {ea.doing}}
    /\ reply' = <<>>
    /\ UNCHANGED <<events, wire, client, job, told, mine, lives>>

Awaits(r) == job.kind = "submit" /\ job.step = "answer" /\ job.req = r

Answer(r, kind, cursor) ==
    reply' = IF Awaits(r) THEN <<[kind |-> kind, cursor |-> cursor]>> ELSE reply

\* Py000ExecutionSubmit up to the durable reservation, or its refusal: the
\* binding names another boot, recovery is blocked, or the write fails.  (No
\* request is sent twice, so none is found in the journal.)
EaReceives(m) ==
    /\ Running /\ ea.doing = NoRequest /\ m \in wire
    /\ wire' = wire \ {m}
    /\ LET line == NewLine(events, "submission_reserved", m.req, NoRequest, ea.boot) IN
        \/ /\ m.boot # ea.boot \/ Blocked
           /\ Answer(m.req, "error", 0)
           /\ UNCHANGED <<events, ea, mishaps>>
        \/ /\ m.boot = ea.boot /\ ~Blocked
           /\ events' = Append(events, line)
           /\ ea' = [ea EXCEPT !.doing = m.req]
           /\ UNCHANGED <<reply, mishaps>>
        \/ /\ m.boot = ea.boot /\ ~Blocked /\ Mishap(1)
           /\ ea' = [ea EXCEPT !.blocked = TRUE, !.unsaved = <<line>>]
           /\ Answer(m.req, "error", 0)
           /\ UNCHANGED events
    /\ UNCHANGED <<ran, client, job, told, mine, lives>>

\* The native call and the outcome.  An unknown one may have run or not.
EaSettles ==
    /\ Running /\ ea.doing # NoRequest
    /\ \E kind \in TerminalKinds :
        LET line == NewLine(events, kind, ea.doing, NoRequest, ea.boot) IN
        /\ ran' \in {r \in {ran, ran \union {ea.doing}} :
                        /\ kind = "order_filled" => ea.doing \in r
                        /\ kind = "order_rejected" => ea.doing \notin r}
        /\ \/ /\ events' = Append(events, line)
              /\ ea' = [ea EXCEPT !.doing = NoRequest]
              /\ Answer(ea.doing, kind, Len(events) + 1)
              /\ Mishap(IF kind = "order_unknown" THEN 1 ELSE 0)
           \/ /\ ea' = [ea EXCEPT !.doing = NoRequest, !.blocked = TRUE, !.unsaved = <<line>>]
              /\ Answer(ea.doing, "error", 0)
              /\ Mishap(1)
              /\ UNCHANGED events
    /\ UNCHANGED <<wire, client, job, told, mine, lives>>

WireLoses(m) ==
    /\ m \in wire /\ Mishap(1)
    /\ wire' = wire \ {m}
    /\ UNCHANGED <<service, reply, client, job, told, mine, lives>>

-----------------------------------------------------------------------------
(* The client's memory                                                     *)

\* boot 0: no identity, not connected.  pending: FALSE while the submission is
\* awaited, TRUE once its outcome is unknown.
NewClient ==
    [boot |-> 0, cursor |-> 0, reserved |-> {}, terminal |-> <<>>, pending |-> <<>>,
     seen |-> {}, recovery |-> "ready", healthy |-> FALSE, transient |-> FALSE,
     positions |-> {}]

Idle == [kind |-> "none", step |-> "idle", req |-> NoRequest, cursor |-> 0, target |-> 0,
         positions |-> {}, boot |-> 0, blocked |-> FALSE, events |-> 0, force |-> FALSE]

Disconnected(c) == [c EXCEPT !.boot = 0, !.healthy = FALSE, !.transient = FALSE]

Unsure(c) == {r \in c.reserved : r \notin DOMAIN c.terminal \/ c.terminal[r] = "order_unknown"}

\* Mutant: an unresolved submission of its own is no reason to hold.
HoldBesidePending(c) ==
    c.boot = 0 \/ ~c.healthy \/ c.recovery = "blocked" \/ Unsure(c) # {} \/ c.transient

\* _execution_hold_reason is set
Hold(c) ==
    \/ c.boot = 0 \/ ~c.healthy \/ c.recovery = "blocked"
    \/ Unsure(c) # {} \/ DOMAIN c.pending # {} \/ c.transient

Without(pending, r) == [q \in DOMAIN pending \ {r} |-> pending[q]]
With(known, r, what) == [q \in DOMAIN known \union {r} |-> IF q = r THEN what ELSE known[q]]

MarkUnknown(c, r) == IF r \in DOMAIN c.pending THEN [c EXCEPT !.pending[r] = TRUE] ELSE c

Tell(news, r, what) == [news EXCEPT ![r] = Append(@, what)]

\* What becomes of a pending submission whose outcome was read.
Settled(c, news, r, kind) ==
    IF kind = "order_unknown" THEN [client |-> MarkUnknown(c, r), told |-> news]
    ELSE [client |-> [c EXCEPT !.pending = Without(@, r)], told |-> Tell(news, r, kind)]

\* _apply_event: the memory, what was told, and whether it raised.
Applied(c, news, e) ==
    LET raised(d) == [client |-> d, told |-> news, ok |-> FALSE]
        reserved == [c EXCEPT !.reserved = @ \union {e.req}, !.seen = @ \union {e.req}]
        ended == [c EXCEPT !.terminal = With(@, e.req, e.kind)]
        advance(s) == [client |-> [s.client EXCEPT !.cursor = @ + 1], told |-> s.told, ok |-> TRUE]
    IN  CASE e.kind = "submission_reserved" ->
               IF e.req \in c.reserved \union DOMAIN c.terminal THEN raised(c)
               ELSE IF e.req \notin DOMAIN c.pending THEN raised(reserved)
               ELSE advance([client |-> reserved, told |-> news])
          [] e.kind \in TerminalKinds ->
               IF e.req \notin c.reserved \/ e.req \in DOMAIN c.terminal THEN raised(c)
               ELSE IF e.req \notin DOMAIN c.pending THEN raised(ended)
               ELSE advance(Settled(ended, news, e.req, e.kind))
          [] OTHER -> raised(c)

\* The events of one page up to "last", one after the other until one raises.
ApplyPage(c, news, last) ==
    LET n == IF last < c.cursor THEN 0 ELSE last - c.cursor
        step[k \in 0 .. n] ==
            IF k = 0 THEN [client |-> c, told |-> news, ok |-> TRUE]
            ELSE IF ~step[k - 1].ok THEN step[k - 1]
            ELSE Applied(step[k - 1].client, step[k - 1].told, events[c.cursor + k])
    IN  step[n]

\* _recover_local_pending_from_journal
RecoverPending(c, news) ==
    LET known == {r \in DOMAIN c.pending : r \in DOMAIN c.terminal}
        certain == {r \in known : c.terminal[r] # "order_unknown"}
    IN  [client |-> [c EXCEPT !.pending = [r \in DOMAIN @ \ certain |-> @[r] \/ r \in known]],
         told |-> [r \in Requests |-> IF r \in certain THEN Append(news[r], c.terminal[r])
                                      ELSE news[r]]]

-----------------------------------------------------------------------------
(* How a request for a read may end                                        *)

Init ==
    /\ events = <<>> /\ ea = [Free(0) EXCEPT !.boot = 0] /\ ran = {}
    /\ wire = {} /\ reply = <<>> /\ client = NewClient /\ job = Idle
    /\ told = [r \in Requests |-> <<>>]
    /\ mine = {} /\ lives = 1 /\ mishaps = 0

\* The EA answers one request at a time, and only those bound to its boot.
Answers(boot) == Running /\ ea.doing = NoRequest /\ ea.boot = boot
Refuses(boot) == Running /\ ea.doing = NoRequest /\ (ea.boot # boot \/ ea.unsaved # <<>>)
TimesOut == IF Running /\ ea.doing = NoRequest THEN Mishap(1) ELSE Mishap(0)

At(kinds, step) == job.kind \in kinds /\ job.step = step
Goes(step) == job' = [job EXCEPT !.step = step]
Stops == job' = Idle
Remembers(c) == client' = c

\* A submission that does not go out is denied.
Denies == IF job.kind = "submit" THEN told' = Tell(told, job.req, "denied") ELSE UNCHANGED told

-----------------------------------------------------------------------------
(* Connecting                                                              *)

Connect ==
    /\ client.boot = 0 /\ job = Idle
    /\ job' = [Idle EXCEPT !.kind = "connect", !.step = "hello"]
    /\ UNCHANGED <<service, wire, reply, client, told, mine, lives, mishaps>>

Hello ==
    /\ At({"connect"}, "hello") /\ Running /\ ea.doing = NoRequest
    /\ job' = [job EXCEPT !.step = "journal", !.boot = ea.boot, !.blocked = Blocked]
    /\ UNCHANGED <<service, wire, reply, client, told, mine, lives, mishaps>>

\* _read_complete_journal: all pages, between which the tail may not move.
ReadJournal ==
    /\ At({"connect"}, "journal") /\ Answers(job.boot)
    /\ job' = [job EXCEPT !.step = "snapshot", !.events = Len(events)]
    /\ UNCHANGED <<service, wire, reply, client, told, mine, lives, mishaps>>

\* What _project_journal makes of the journal.
Reservations(n) == {events[i].req : i \in {j \in 1 .. n : events[j].kind = "submission_reserved"}}
Terminals(n) ==
    LET ended == {j \in 1 .. n : IsTerminal(events[j])} IN
    [r \in {events[i].req : i \in ended} |->
        events[CHOOSE i \in ended : events[i].req = r].kind]

\* The memory of a client that has read the journal.
Known(c) ==
    [c EXCEPT !.boot = job.boot, !.cursor = job.events,
              !.reserved = Reservations(job.events), !.terminal = Terminals(job.events),
              !.seen = Reservations(job.events) \union DOMAIN c.pending,
              !.recovery = IF job.blocked THEN "blocked" ELSE "ready",
              !.healthy = TRUE, !.transient = FALSE, !.positions = job.positions]

\* Mutant: what the journal settled meanwhile is not told.
InstallOnly ==
    /\ At({"connect"}, "tail") /\ Answers(job.boot) /\ Len(events) = job.events
    /\ Remembers(Known(client)) /\ Stops
    /\ UNCHANGED <<service, wire, reply, told, mine, lives, mishaps>>

\* The journal has not moved since it was read: install it with the snapshot.
Install ==
    /\ At({"connect"}, "tail") /\ Answers(job.boot) /\ Len(events) = job.events
    /\ LET s == RecoverPending(Known(client), told) IN
        Remembers(s.client) /\ told' = s.told
    /\ Stops
    /\ UNCHANGED <<service, wire, reply, mine, lives, mishaps>>

\* Any failure closes the transport: another boot, a moved tail, a late answer.
ConnectFails ==
    /\ job.kind = "connect"
    /\ \/ Running /\ ea.doing = NoRequest /\ Mishap(0)
          /\ \/ job.step \in {"journal", "snapshot", "tail"} /\ Refuses(job.boot)
             \/ job.step = "tail" /\ Len(events) # job.events
             \/ job.step = "snapshot" /\ Blocked # job.blocked
       \/ TimesOut
    /\ Remembers(Disconnected(client)) /\ Stops
    /\ UNCHANGED <<service, wire, reply, told, mine, lives>>

-----------------------------------------------------------------------------
(* Reading events and snapshots under the lock                             *)

\* Mutant: polling waits until the last late answer is forgotten.
PollUnlessTransient ==
    /\ client.boot # 0 /\ ~client.transient /\ job = Idle
    /\ job' = [Idle EXCEPT !.kind = "poll", !.step = "consume"]
    /\ UNCHANGED <<service, wire, reply, client, told, mine, lives, mishaps>>

StartPoll ==
    /\ client.boot # 0 /\ job = Idle
    /\ job' = [Idle EXCEPT !.kind = "poll", !.step = "consume"]
    /\ UNCHANGED <<service, wire, reply, client, told, mine, lives, mishaps>>

StartMassStatus ==
    /\ client.boot # 0 /\ job = Idle
    /\ job' = [Idle EXCEPT !.kind = "report", !.step = "consume", !.force = TRUE]
    /\ UNCHANGED <<service, wire, reply, client, told, mine, lives, mishaps>>

\* Where a coroutine goes once it has read all events: a submission is done,
\* a poll refreshes the snapshot if it is due.
Consumed(c) ==
    IF job.kind = "submit" THEN Stops /\ Remembers(c)
    ELSE \/ Goes("snapshot") /\ Remembers(c)
         \/ ~job.force /\ Stops /\ Remembers([c EXCEPT !.transient = FALSE])

\* A raise while events are read: a poll disconnects, a submission does not.
ConsumeRaises(c) ==
    /\ Stops
    /\ Remembers(IF job.kind = "submit" THEN MarkUnknown(c, job.req) ELSE Disconnected(c))

\* One page of _consume_event_pages: up to the tail the first page named, or
\* up to the outcome a submission waits for.
ConsumePage ==
    /\ At({"submit", "poll", "report"}, "consume") /\ Answers(client.boot)
    /\ LET target == IF job.target = 0 THEN Len(events) ELSE job.target
           wanted == IF job.cursor = 0 THEN target ELSE job.cursor
           last == CHOOSE n \in {wanted, client.cursor + PageLimit} :
                       n <= wanted /\ n <= client.cursor + PageLimit
           s == ApplyPage(client, told, last)
       IN  /\ told' = s.told
           /\ IF ~s.ok \/ (job.cursor # 0 /\ job.cursor <= client.cursor)
              THEN ConsumeRaises(s.client)
              ELSE IF s.client.cursor >= wanted THEN Consumed(s.client)
              ELSE Remembers(s.client) /\ job' = [job EXCEPT !.target = target]
    /\ UNCHANGED <<service, wire, reply, mine, lives, mishaps>>

ConsumeFails ==
    /\ At({"submit", "poll", "report"}, "consume")
    /\ \/ Refuses(client.boot) /\ Mishap(0) /\ ConsumeRaises(client)
       \/ TimesOut /\ Stops
          /\ Remembers([MarkUnknown(client, job.req) EXCEPT
                           !.transient = TRUE, !.healthy = @ /\ job.kind # "report"])
    /\ UNCHANGED <<service, wire, reply, told, mine, lives>>

\* _refresh_snapshot_if_due: the snapshot, then once more the tail.
ReadSnapshot ==
    /\ At({"connect", "submit", "poll", "report"}, "snapshot")
    /\ Answers(IF job.kind = "connect" THEN job.boot ELSE client.boot)
    /\ Blocked = IF job.kind = "connect" THEN job.blocked ELSE client.recovery = "blocked"
    /\ job' = [job EXCEPT !.step = "tail", !.positions = ran]
    /\ UNCHANGED <<service, wire, reply, client, told, mine, lives, mishaps>>

Refreshed ==
    [client EXCEPT !.positions = job.positions, !.healthy = TRUE, !.transient = FALSE]

AfterRefresh ==
    CASE job.kind = "poll" -> Stops
      [] job.kind = "report" -> Goes("report")
      [] job.kind = "submit" -> Goes("gate")

\* Mutant: the snapshot is installed whatever happened while it was taken.
VerifyNothing ==
    /\ At({"submit", "poll", "report"}, "tail") /\ Answers(client.boot)
    /\ Remembers(Refreshed) /\ AfterRefresh
    /\ UNCHANGED <<service, wire, reply, told, mine, lives, mishaps>>

VerifyTail ==
    /\ At({"submit", "poll", "report"}, "tail") /\ Answers(client.boot)
    /\ Len(events) = client.cursor
    /\ Remembers(Refreshed) /\ AfterRefresh
    /\ UNCHANGED <<service, wire, reply, told, mine, lives, mishaps>>

\* A snapshot that is late or unavailable closes admission until the next one;
\* anything else that is wrong disconnects.
RefreshFails ==
    /\ At({"submit", "poll", "report"}, "snapshot") \/ At({"submit", "poll", "report"}, "tail")
    /\ \/ TimesOut /\ Remembers([client EXCEPT !.healthy = FALSE, !.transient = TRUE])
       \/ Answers(client.boot) /\ Mishap(1) /\ job.step = "snapshot"
          /\ Remembers([client EXCEPT !.healthy = FALSE])
       \/ Mishap(0) /\ Remembers(Disconnected(client))
          /\ \/ Refuses(client.boot)
             \/ /\ Answers(client.boot)
                /\ \/ job.step = "tail" /\ Len(events) # client.cursor
                   \/ job.step = "snapshot" /\ Blocked # (client.recovery = "blocked")
    /\ Denies /\ Stops
    /\ UNCHANGED <<service, wire, reply, mine, lives>>

\* generate_mass_status: the engine hears of the orders it still held open, or
\* of nothing; a report that contradicts the engine's own record disconnects.
Reportable ==
    /\ client.healthy /\ client.recovery # "blocked"
    /\ DOMAIN client.pending = {} /\ Unsure(client) = {}

ToldEnd(r) == \E k \in DOMAIN told[r] : told[r][k] \in TerminalKinds

\* _order_report, _fill_report: the outcome of a settled request, which the engine
\* takes unless it has one.
WithReport(r) ==
    IF r \in DOMAIN client.terminal /\ ~ToldEnd(r)
    THEN Append(told[r], client.terminal[r]) ELSE told[r]

Report ==
    /\ At({"report"}, "report") /\ Stops
    /\ \/ /\ told' = IF Reportable THEN [r \in Requests |-> WithReport(r)] ELSE told
          /\ UNCHANGED <<client, mishaps>>
       \/ /\ Reportable /\ Mishap(1)
          /\ Remembers(Disconnected(client)) /\ UNCHANGED told
    /\ UNCHANGED <<service, wire, reply, mine, lives>>

-----------------------------------------------------------------------------
(* Submitting                                                              *)

\* A new order.  A close or a planned open refreshes the snapshot first.
SubmitOrder(r, force) ==
    /\ told[r] = <<>>
    /\ IF client.boot = 0
       THEN /\ job.kind \in {"none", "connect"}
            /\ told' = Tell(told, r, "denied")
            /\ job' = IF force THEN Idle ELSE job
       ELSE /\ job = Idle
            /\ IF r \in client.seen
               THEN told' = Tell(told, r, "denied") /\ UNCHANGED job
               ELSE /\ job' = [Idle EXCEPT !.kind = "submit", !.req = r, !.force = force,
                                           !.step = IF force THEN "snapshot" ELSE "gate"]
                    /\ UNCHANGED told
    /\ UNCHANGED <<service, wire, reply, client, mine, lives, mishaps>>

\* The hold, the unresolved submissions, then _prepare, which may deny freely.
GateDenies ==
    /\ At({"submit"}, "gate")
    /\ Denies /\ Stops
    /\ UNCHANGED <<service, wire, reply, client, mine, lives, mishaps>>

GateAdmits ==
    /\ At({"submit"}, "gate") /\ ~Hold(client)
    /\ Remembers([client EXCEPT !.pending = With(@, job.req, FALSE),
                                !.seen = @ \union {job.req}])
    /\ told' = Tell(told, job.req, "submitted")
    /\ wire' = wire \union {[req |-> job.req, boot |-> client.boot]}
    /\ mine' = mine \union {job.req}
    /\ Goes("answer") /\ reply' = <<>>
    /\ UNCHANGED <<service, lives, mishaps>>

\* The answer names the outcome and its place in the journal: read up to there.
TakeAnswer ==
    /\ At({"submit"}, "answer") /\ reply # <<>>
    /\ reply' = <<>>
    /\ IF reply[1].kind = "error" \/ reply[1].cursor <= client.cursor
       THEN Stops /\ Remembers(MarkUnknown(client, job.req))
       ELSE job' = [job EXCEPT !.step = "consume", !.cursor = reply[1].cursor] /\ UNCHANGED client
    /\ UNCHANGED <<service, wire, told, mine, lives, mishaps>>

\* Mutant: a late answer is taken for a refusal.
LateIsRejected ==
    /\ At({"submit"}, "answer")
    /\ Mishap(1) /\ Stops /\ reply' = <<>>
    /\ Remembers([client EXCEPT !.pending = Without(@, job.req)])
    /\ told' = Tell(told, job.req, "order_rejected")
    /\ UNCHANGED <<service, wire, mine, lives>>

\* The answer is late, or lost with the request or the EA.
AnswerMayCome == reply # <<>> \/ ea.doing = job.req \/ \E m \in wire : m.req = job.req

AnswerIsLate ==
    /\ At({"submit"}, "answer")
    /\ Mishap(IF AnswerMayCome THEN 1 ELSE 0) /\ Stops /\ reply' = <<>>
    /\ Remembers([MarkUnknown(client, job.req) EXCEPT !.transient = TRUE])
    /\ UNCHANGED <<service, wire, told, mine, lives>>

-----------------------------------------------------------------------------
(* Losing the connection and the process                                   *)

\* _disconnect cancels what is running: a submission on the wire is unknown.
Disconnect ==
    /\ client.boot # 0 /\ Mishap(1)
    /\ Remembers(Disconnected(MarkUnknown(client, job.req))) /\ Stops /\ reply' = <<>>
    /\ UNCHANGED <<service, wire, told, mine, lives>>

ClientDies ==
    /\ lives < MaxLives
    /\ lives' = lives + 1
    /\ Remembers(NewClient) /\ Stops /\ reply' = <<>> /\ mine' = {}
    /\ UNCHANGED <<service, wire, told, mishaps>>

Next ==
    \/ EaStarts \/ EaDies \/ EaSettles
    \/ \E m \in wire : EaReceives(m) \/ WireLoses(m)
    \/ Connect \/ Hello \/ ReadJournal \/ Install \/ ConnectFails
    \/ StartPoll \/ StartMassStatus \/ ConsumePage \/ ConsumeFails
    \/ ReadSnapshot \/ VerifyTail \/ RefreshFails \/ Report
    \/ \E r \in Requests, force \in BOOLEAN : SubmitOrder(r, force)
    \/ GateDenies \/ GateAdmits \/ TakeAnswer \/ AnswerIsLate
    \/ Disconnect \/ ClientDies

Spec == Init /\ [][Next]_vars

\* The EA finishes what it executes, the client what it has begun, and it polls.
Fairness ==
    /\ WF_vars(EaSettles) /\ WF_vars(StartPoll)
    /\ WF_vars(ConsumePage \/ ConsumeFails) /\ WF_vars(ReadSnapshot \/ RefreshFails)
    /\ WF_vars(VerifyTail \/ RefreshFails) /\ WF_vars(Report)
    /\ WF_vars(GateDenies \/ GateAdmits) /\ WF_vars(TakeAnswer \/ AnswerIsLate)

FairSpec == Spec /\ Fairness

-----------------------------------------------------------------------------

Certain(r) == OutcomeIs(events, r, "order_filled") \/ OutcomeIs(events, r, "order_rejected")
(* Every variable has its type; the cursor stays within the journal.       *)
TypeOK ==
    /\ events \in Seq(Line)
    /\ ea.boot \in 0 .. MaxBoots /\ ea.doing \in Requests \union {NoRequest}
    /\ ran \subseteq Requests /\ mine \subseteq Requests
    /\ client.boot \in 0 .. MaxBoots /\ client.cursor \in 0 .. Len(events)
    /\ DOMAIN client.terminal \subseteq client.reserved
    /\ DOMAIN client.pending \subseteq mine
    /\ mishaps \in 0 .. MaxMishaps

(* A process has at most one submission the engine still waits for: no     *)
(* answer that was late, no lost connection and no restart of the EA lets  *)
(* a second one out on top of it (_pending, _seen_request_ids, _submit_    *)
(* order).                                                                 *)
OneUnresolved == Cardinality({r \in mine : ~ToldEnd(r)}) <= 1

(* What the engine is told is true and final: filled means the broker ran  *)
(* it, rejected that it did not and will not, and there is one end per     *)
(* order, across reconnections that read the whole journal again           *)
(* (_apply_event, _recover_local_pending_from_journal).                    *)
ToldTruth ==
    \A r \in Requests :
        /\ Cardinality({k \in DOMAIN told[r] : told[r][k] # "submitted"}) <= 1
        /\ \A k \in DOMAIN told[r] :
              /\ told[r][k] = "order_filled" => r \in ran
              /\ told[r][k] \in {"order_rejected", "denied"} =>
                    /\ r \notin ran /\ ea.doing # r
                    /\ \A m \in wire : m.req = r => Reserved(events, r)

(* A connected client has told the engine every outcome it has read about  *)
(* an order of its own (_connect, _apply_fill).                            *)
NothingKnownUntold ==
    client.boot # 0 => \A r \in DOMAIN client.pending \intersect DOMAIN client.terminal :
        client.terminal[r] = "order_unknown"

(* Positions and fills that go together: an order is sent on a snapshot it *)
(* asked for, and the engine is given reports, only when the account's     *)
(* positions are those the fills in the journal explain.  A submission of  *)
(* an earlier process may execute between any two reads                    *)
(* (_verify_unchanged_journal_tail).                                       *)
Explained(c) == c.positions = {r \in DOMAIN c.terminal : c.terminal[r] = "order_filled"}
PositionsExplained ==
    [][/\ wire' # wire /\ mine' # mine /\ job.force => Explained(client)
       /\ job.step = "report" /\ job' = Idle /\ client' = client /\ Reportable =>
             Explained(client)]_vars

(* An outcome that is certain in the journal reaches the engine, or the    *)
(* client closes the connection, as long as the EA runs (_poll_events).    *)
OutcomeIsTold ==
    \A r \in Requests :
        r \in DOMAIN client.pending /\ Certain(r)
            ~> r \notin DOMAIN client.pending \/ client.boot = 0 \/ ~Running

-----------------------------------------------------------------------------
(* What keeps OneUnresolved, ToldTruth and NothingKnownUntold: what the    *)
(* EA's journal, the broker and the engine each say of a request.          *)

Sent(news, r) == news[r] # <<>> /\ news[r][1] = "submitted"
Ended(news, r, kind) == news[r] = <<"submitted", kind>>
Reports == {<<>>, <<"denied">>, <<"submitted">>,
            <<"submitted", "order_filled">>, <<"submitted", "order_rejected">>}

\* What the lines of a journal say agrees with the rest: only what was sent is reserved,
\* nothing ends or runs unreserved, an end is what became of it, and what is still on its
\* way is not reserved.
HistoryFits(lines) ==
    /\ lines \in Seq(Line)
    /\ \A i \in DOMAIN lines : IsOrderEvent(lines[i]) => lines[i].req \in Requests
    /\ \A r \in Requests :
          /\ Reserved(lines, r) => Sent(told, r)
          /\ HasOutcome(lines, r) \/ r \in ran => Reserved(lines, r)
          /\ OutcomeIs(lines, r, "order_filled") => r \in ran
          /\ OutcomeIs(lines, r, "order_rejected") => r \notin ran
    /\ \A m \in wire : m.req \in Requests /\ Sent(told, m.req) /\ ~Reserved(lines, m.req)

\* The EA executes what it has reserved and not settled.  A line that was written and not
\* confirmed blocks it, and the journal fits with that line too: the next start may find it.
EaFits ==
    /\ HistoryFits(events)
    /\ \A m, n \in wire : m.req = n.req => m = n
    /\ ran \subseteq Requests
    /\ ea.boot \in 0 .. MaxBoots
    /\ ea.doing # NoRequest =>
          ea.doing \in Requests /\ Reserved(events, ea.doing) /\ ~HasOutcome(events, ea.doing)
    /\ ea.unsaved # <<>> =>
          /\ ea.doing = NoRequest /\ ea.blocked
          /\ ea.unsaved = <<ea.unsaved[1]>> /\ ea.unsaved[1] \in Line
          /\ HistoryFits(Append(events, ea.unsaved[1]))

\* What a client's memory c holds is in the journal.
Remembered(c) ==
    /\ c.cursor \in 0 .. Len(events)
    /\ \A r \in c.reserved : r \in Requests /\ Reserved(events, r)
    /\ DOMAIN c.terminal \subseteq c.reserved
    /\ \A r \in DOMAIN c.terminal :
          c.terminal[r] \in TerminalKinds /\ OutcomeIs(events, r, c.terminal[r])

\* It waits for what this process sent and the engine has heard no end of: one at most.
Awaited(c, news) ==
    /\ DOMAIN c.pending = {r \in mine : news[r] = <<"submitted">>}
    /\ \A r, q \in DOMAIN c.pending : r = q

ClientFits(c, news) ==
    /\ Remembered(c) /\ Awaited(c, news)
    /\ \A r \in DOMAIN c.pending \intersect DOMAIN c.terminal : c.terminal[r] = "order_unknown"

\* An end the engine was told of is in the journal.
NewsFit(news) ==
    /\ \A r \in Requests :
          /\ news[r] \in Reports
          /\ \A kind \in TerminalKinds : Ended(news, r, kind) => OutcomeIs(events, r, kind)
    /\ mine \subseteq {r \in Requests : Sent(news, r)}

\* The coroutine reads no further than the journal goes, and the engine has heard nothing of
\* what it has not sent yet.
JobFits ==
    /\ {job.cursor, job.target, job.events} \subseteq 0 .. Len(events)
    /\ reply # <<>> => reply[1].cursor \in 0 .. Len(events)
    /\ job.kind = "submit" =>
          /\ job.req \in Requests
          /\ job.step \in {"snapshot", "tail", "gate"} => told[job.req] = <<>>

ClientInv == EaFits /\ ClientFits(client, told) /\ NewsFit(told) /\ JobFits

=============================================================================
