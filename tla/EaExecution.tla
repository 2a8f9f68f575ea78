---------------------------- MODULE EaExecution ----------------------------
(***************************************************************************)
(* The EA's execution path: OnInit (owner lock, journal load, start        *)
(* event), Py000ExecutionSubmit cut at every point where the outside world *)
(* can intervene (a write, the native OrderSend, another chart, a manual   *)
(* trade on the account, a terminal crash), OnDeinit.                      *)
(*                                                                         *)
(* Several charts may carry the same EA on one account, symbol and magic:  *)
(* they share the journal files and compete for the owner lock.            *)
(***************************************************************************)
EXTENDS EaJournal

CONSTANTS Charts,     \* charts the EA is attached to
          NoChart,    \* value of owner when the lock file is closed
          Closing,    \* payloads that close the target ticket; the rest open
          Modes,      \* execution modes a start may have (TRUE: demo)
          InitialLots \* lots of the ticket that Closing payloads target

ASSUME ChartAssumption ==
  /\ NoChart \notin Charts
  /\ Closing \subseteq Payloads
  /\ Modes \subseteq BOOLEAN
  /\ InitialLots \in Nat

VARIABLES
  identity,  \* the identity file: "absent", "good" or "torn"
  header,    \* the events file's header: "none" (or unreadable), "open", "good"
  file,      \* the lines of the events file after its header
  owner,     \* chart holding the owner lock
  ea,        \* per chart: the running EA's memory
  boots,     \* EA starts so far
  sends,     \* per request: native OrderSend calls made
  executed,  \* per request: native executions
  ticket,    \* lots left on the target ticket (0: closed)
  answers,   \* per request: outcomes returned to a client
  touched    \* a manual trade changed the ticket since the EA last read it

disk   == <<identity, header, file>>
broker == <<sends, executed, ticket, touched>>
vars   == <<identity, header, file, owner, ea, boots, sends, executed, ticket,
            answers, touched>>

Stages == {"down", "locked", "loaded", "idle", "reserved", "checked", "sent"}

\* What the native call returned, as far as the EA tells results apart.
\* "done": sent and TRADE_RETCODE_DONE; "reject": a listed rejection code;
\* ids: order or deal or volume or an external code is set; facts: the deal
\* is in the history and matches the request.
Results == [ran : BOOLEAN, retcode : {"done", "reject", "other"},
            ids : BOOLEAN, facts : BOOLEAN]

NoResult == [ran |-> FALSE, retcode |-> "other", ids |-> FALSE, facts |-> FALSE]

Memory == [stage : Stages, journalReady : BOOLEAN, recoveryReady : BOOLEAN,
           enabled : BOOLEAN, events : Seq(Line), boot : 0 .. MaxBoots,
           req : Requests \union {NoRequest},
           payload : Payloads \union {NoRequest},
           before : Nat, result : Results]

Down == [stage |-> "down", journalReady |-> FALSE, recoveryReady |-> FALSE,
         enabled |-> FALSE, events |-> <<>>, boot |-> 0, req |-> NoRequest,
         payload |-> NoRequest, before |-> 0, result |-> NoResult]

Init ==
  /\ identity = "absent"
  /\ header = "none"
  /\ file = <<>>
  /\ owner = NoChart
  /\ ea = [c \in Charts |-> Down]
  /\ boots = 0
  /\ sends = [r \in Requests |-> 0]
  /\ executed = [r \in Requests |-> 0]
  /\ ticket = InitialLots
  /\ answers = [r \in Requests |-> {}]
  /\ touched = FALSE

-----------------------------------------------------------------------------
(* OnInit, OnDeinit and the loss of the terminal. *)

Release(c) ==
  /\ owner' = IF owner = c THEN NoChart ELSE owner
  /\ ea' = [ea EXCEPT ![c] = Down]

\* The lock file is opened without sharing, before the journal is read.
CanOwnShared(c) == TRUE   \* mutant: the lock file opened with sharing

CanOwn(c) == owner = NoChart

AcquireOwner(c) ==
  /\ ea[c].stage = "down"
  /\ boots < MaxBoots
  /\ CanOwn(c)
  /\ owner' = c
  /\ boots' = boots + 1
  /\ \E mode \in Modes :
       ea' = [ea EXCEPT ![c] = [Down EXCEPT !.stage = "locked", !.enabled = mode,
                                            !.boot = boots + 1]]
  /\ UNCHANGED <<disk, broker, answers>>

\* Neither file exists: write the identity, then the header.
CreateNew(c) ==
  /\ ea[c].stage = "locked"
  /\ identity = "absent" /\ header = "none"
  /\ \/ /\ identity' = "good"
        /\ header' = "good"
        /\ ea' = [ea EXCEPT ![c] = [@ EXCEPT !.stage = "loaded", !.journalReady = TRUE,
                                             !.recoveryReady = TRUE]]
        /\ UNCHANGED owner
     \/ /\ \E left \in {"absent", "torn", "good"} : identity' = left
        /\ header' \in IF identity' = "good" THEN {"none", "open", "good"} ELSE {"none"}
        /\ Release(c)
  /\ UNCHANGED <<file, boots, broker, answers>>

\* Load what is there.  A bad identity stops the EA; a bad events file lets
\* it start with the journal closed.
LoadJournal(c) ==
  LET good == header # "none" /\ Readable(file) /\ ValidHistory(file) IN
  /\ ea[c].stage = "locked"
  /\ identity # "absent"
  /\ IF identity = "torn"
     THEN Release(c)
     ELSE /\ ea' = [ea EXCEPT ![c] =
                      [@ EXCEPT !.stage = "loaded", !.journalReady = good,
                                !.recoveryReady = good => Recovered(file),
                                !.events = IF good THEN Loaded(file) ELSE <<>>]]
          /\ UNCHANGED owner
  /\ UNCHANGED <<disk, boots, broker, answers>>

\* Py000JournalWriteLine on the events file: success, and what a failure leaves.
GluesHeader == file = <<>> /\ header = "open"

WriteLine(line) ==
  IF GluesHeader
  THEN header' = "none" /\ UNCHANGED file
  ELSE file' = Appended(file, line) /\ UNCHANGED header

WriteFails(line) ==
  \/ GluesHeader /\ header' \in {"none", "open"} /\ UNCHANGED file
  \/ ~ GluesHeader /\ file' \in AppendFailures(file, line) /\ UNCHANGED header

\* The last step of OnInit: publish stream_started, or give up the lock.
StartStream(c) ==
  LET line == NewLine(ea[c].events, "stream_started", NoRequest, NoRequest, ea[c].boot)
  IN
  /\ ea[c].stage = "loaded"
  /\ \/ /\ ~ ea[c].journalReady
        /\ ea' = [ea EXCEPT ![c] = [@ EXCEPT !.stage = "idle"]]
        /\ UNCHANGED <<header, file, owner>>
     \/ /\ ea[c].journalReady
        /\ WriteLine(line)
        /\ ea' = [ea EXCEPT ![c] = [@ EXCEPT !.stage = "idle",
                                             !.events = Append(ea[c].events, line)]]
        /\ UNCHANGED owner
     \/ /\ ea[c].journalReady
        /\ WriteFails(line)
        /\ Release(c)
  /\ UNCHANGED <<identity, boots, broker, answers>>

\* OnDeinit, a failed bind or timer in OnInit, or the terminal's crash: the
\* memory is lost and the operating system closes the lock file.
Leave(c) ==
  /\ ea[c].stage # "down"
  /\ Release(c)
  /\ UNCHANGED <<disk, boots, broker, answers>>

-----------------------------------------------------------------------------
(* Py000ExecutionSubmit.  Requests refused without a change of state       *)
(* (closed journal, payload conflict, execution disabled, recovery not     *)
(* ready) are stuttering steps.                                            *)

\* A request that already has a durable outcome gets that outcome again.
Replay(c, r, p) ==
  /\ ea[c].stage = "idle"
  /\ ea[c].journalReady
  /\ ReservedWith(ea[c].events, r, p)
  /\ \E kind \in TerminalKinds :
       /\ OutcomeIs(ea[c].events, r, kind)
       /\ answers' = [answers EXCEPT ![r] = @ \union {kind}]
  /\ UNCHANGED <<disk, owner, ea, boots, broker>>

\* Mutant: execution resumes although a reservation is open.
MayReserveUnrecovered(m, r) ==
  /\ m.stage = "idle"
  /\ m.journalReady
  /\ ~ Reserved(m.events, r)
  /\ m.enabled

MayReserve(m, r) ==
  /\ m.stage = "idle"
  /\ m.journalReady
  /\ ~ Reserved(m.events, r)
  /\ m.enabled
  /\ m.recoveryReady

\* Py000JournalAppendReserved: durable before anything native happens.
Reserve(c, r, p) ==
  LET line == NewLine(ea[c].events, "submission_reserved", r, p, ea[c].boot) IN
  /\ MayReserve(ea[c], r)
  /\ ~ HasOutcome(ea[c].events, r)
  /\ \/ /\ WriteLine(line)
        /\ ea' = [ea EXCEPT ![c] = [@ EXCEPT !.stage = "reserved", !.recoveryReady = FALSE,
                                             !.events = Append(ea[c].events, line),
                                             !.req = r, !.payload = p]]
     \/ /\ WriteFails(line)
        /\ ea' = [ea EXCEPT ![c] = [@ EXCEPT !.recoveryReady = FALSE]]
     \/ /\ WriteLine(line)   \* written, but memory could not grow
        /\ ea' = [ea EXCEPT ![c] = [@ EXCEPT !.recoveryReady = FALSE, !.journalReady = FALSE]]
  /\ UNCHANGED <<identity, owner, boots, broker, answers>>

\* The memory after a terminal line was written and stored.
Settled(m, line) ==
  LET events == Append(m.events, line)
      valid  == ValidHistory(events)
  IN [m EXCEPT !.stage = "idle", !.events = events,
               !.journalReady = valid,
               !.recoveryReady = valid /\ Recovered(events),
               !.req = NoRequest, !.payload = NoRequest,
               !.before = 0, !.result = NoResult]

\* The memory after the terminal line could not be written, or not stored.
Unsettled(m, stored) ==
  [m EXCEPT !.stage = "idle", !.journalReady = stored, !.recoveryReady = FALSE,
            !.req = NoRequest, !.payload = NoRequest,
            !.before = 0, !.result = NoResult]

\* Mutant: the client hears the outcome although it was not written.
FinishAnswers(c, kind) ==
  LET m    == ea[c]
      line == NewLine(m.events, kind, m.req, m.payload, m.boot)
  IN
  /\ \/ /\ WriteLine(line)
        /\ ea' = [ea EXCEPT ![c] = Settled(m, line)]
     \/ /\ WriteFails(line)
        /\ ea' = [ea EXCEPT ![c] = Unsettled(m, TRUE)]
  /\ answers' = [answers EXCEPT ![m.req] = @ \union {kind}]
  /\ UNCHANGED <<identity, owner, boots>>

\* Append the outcome and answer, or answer RECOVERY_BLOCKED.
Finish(c, kind) ==
  LET m    == ea[c]
      line == NewLine(m.events, kind, m.req, m.payload, m.boot)
  IN
  /\ \/ /\ WriteLine(line)
        /\ ea' = [ea EXCEPT ![c] = Settled(m, line)]
        /\ answers' = IF ValidHistory(Append(m.events, line))
                      THEN [answers EXCEPT ![m.req] = @ \union {kind}]
                      ELSE answers
     \/ /\ WriteFails(line)
        /\ ea' = [ea EXCEPT ![c] = Unsettled(m, TRUE)]
        /\ UNCHANGED answers
     \/ /\ WriteLine(line)
        /\ ea' = [ea EXCEPT ![c] = Unsettled(m, FALSE)]
        /\ UNCHANGED answers
  /\ UNCHANGED <<identity, owner, boots>>

\* The target of a close is there and large enough; an open has no target.
TargetFresh(p) == p \in Closing => ticket >= 1

\* Preflight and OrderCheck: refuse, or remember the target's volume.
Preflight(c) ==
  /\ ea[c].stage = "reserved"
  /\ TargetFresh(ea[c].payload)
  /\ ea' = [ea EXCEPT ![c] = [@ EXCEPT !.stage = "checked",
                                       !.before = IF ea[c].payload \in Closing
                                                  THEN ticket ELSE 0]]
  /\ touched' = FALSE
  /\ UNCHANGED <<disk, owner, boots, sends, executed, ticket, answers>>

\* Any check before the native call may refuse.
Refuse(c) ==
  /\ ea[c].stage \in {"reserved", "checked"}
  /\ Finish(c, "order_rejected")
  /\ UNCHANGED broker

\* The target re-read after OrderCheck is still the one preflight saw.
TargetUnchanged(m) ==
  m.payload \in Closing => ticket = m.before /\ TargetFresh(m.payload)

\* Results the broker can return: it closes only what is there, a "done"
\* with a matching deal did run, and an execution never comes back as a
\* clean rejection (the ids contradict the code).
BrokerResults(p) ==
  {res \in Results :
     /\ res.ran /\ p \in Closing => ticket >= 1
     /\ res.retcode = "done" /\ res.ids /\ res.facts => res.ran
     /\ res.retcode = "reject" /\ res.ran => res.ids}

OrderSend(c) ==
  LET r == ea[c].req  p == ea[c].payload IN
  /\ ea[c].stage = "checked"
  /\ TargetUnchanged(ea[c])
  /\ \E res \in BrokerResults(p) :
       /\ ea' = [ea EXCEPT ![c] = [@ EXCEPT !.stage = "sent", !.result = res]]
       /\ sends' = [sends EXCEPT ![r] = @ + 1]
       /\ executed' = [executed EXCEPT ![r] = IF res.ran THEN @ + 1 ELSE @]
       /\ ticket' = IF res.ran /\ p \in Closing THEN ticket - 1 ELSE ticket
  /\ UNCHANGED <<disk, owner, boots, answers, touched>>

\* Mutant: the code alone decides, whatever ids came with it.
ResultCodeRejects(res) == res.retcode = "reject"

ResultIsRejected(res) == res.retcode = "reject" /\ ~ res.ids

\* Mutant: the position is not read again after the deal.
ClosePostStateAny(m) == TRUE

\* The close left exactly the remainder preflight implied.
ClosePostStateValid(m) == m.payload \in Closing => ticket = m.before - 1

\* Mutant: an event type the loader does not know.
OutcomeUntyped(m) ==
  IF ResultIsRejected(m.result) THEN "order_rejected" ELSE "order_uncertain"

Outcome(m) ==
  IF ResultIsRejected(m.result) THEN "order_rejected"
  ELSE IF /\ m.result.retcode = "done" /\ m.result.ids /\ m.result.facts
          /\ ClosePostStateValid(m)
       THEN "order_filled"
       ELSE "order_unknown"

Settle(c) ==
  /\ ea[c].stage = "sent"
  /\ Finish(c, Outcome(ea[c]))
  /\ UNCHANGED broker

-----------------------------------------------------------------------------
\* Someone else closes a lot of the ticket: a manual trade or a stop-out.
ManualClose ==
  /\ ticket > 0
  /\ ticket' = ticket - 1
  /\ touched' = TRUE
  /\ UNCHANGED <<disk, owner, ea, boots, sends, executed, answers>>

Next ==
  \/ \E c \in Charts :
       \/ AcquireOwner(c) \/ CreateNew(c) \/ LoadJournal(c) \/ StartStream(c)
       \/ Leave(c)
       \/ \E r \in Requests, p \in Payloads : Replay(c, r, p) \/ Reserve(c, r, p)
       \/ Preflight(c) \/ Refuse(c) \/ OrderSend(c) \/ Settle(c)
  \/ ManualClose

Spec == Init /\ [][Next]_vars

-----------------------------------------------------------------------------
(* Properties. *)

TypeOK ==
  /\ identity \in {"absent", "good", "torn"}
  /\ header \in {"none", "open", "good"}
  /\ file \in Seq(Line)
  /\ owner \in Charts \union {NoChart}
  /\ ea \in [Charts -> Memory]
  /\ boots \in 0 .. MaxBoots
  /\ sends \in [Requests -> Nat]
  /\ executed \in [Requests -> Nat]
  /\ ticket \in Nat
  /\ answers \in [Requests -> SUBSET TerminalKinds]
  /\ touched \in BOOLEAN

\* At most one native OrderSend per client_request_id, whatever writes fail,
\* however often the client repeats it, the EA restarts or a second chart
\* carries the same EA (the reservation in Py000ExecutionSubmit).
AtMostOneSend == \A r \in Requests : sends[r] <= 1

\* Write-ahead: a request that reached the broker is reserved in the file,
\* so the next start cannot mistake it for a new one.
SentIsReserved == \A r \in Requests : sends[r] > 0 => Reserved(file, r)

\* The journal tells the truth about the broker: filled requests ran,
\* rejected ones did not and never will.
OutcomeTruthful ==
  \A r \in Requests :
    /\ OutcomeIs(file, r, "order_filled") => executed[r] = 1
    /\ OutcomeIs(file, r, "order_rejected") => executed[r] = 0

\* No append was glued onto a line (or header) that lacked its line break.
Unglued ==
  /\ header = "none" => file = <<>> /\ \A c \in Charts : ~ ea[c].journalReady
  /\ \A i \in 1 .. Len(file) : file[i].end # "glued"

\* A client hears one outcome per request, ever: the one in the file.
AnswersAgree ==
  \A r \in Requests : \A k \in answers[r] :
    OutcomeIs(file, r, k) /\ answers[r] = {k}

\* The events a running EA serves by cursor are the file's first events, or
\* the file is damaged and no later start serves it: a cursor a client has
\* passed never denotes another event after a restart.
ServedIsPrefix ==
  Unglued =>
    \A c \in Charts :
      LET served == ea[c].events IN
      /\ Len(served) <= Len(file)
      /\ \A i \in 1 .. Len(served) : served[i] = Loaded(file)[i]

\* A close is recorded as filled only when nobody else changed the ticket
\* between the EA's last read of it and its check after the deal.
FilledCloseUndisturbed ==
  [][\A c \in Charts :
       (/\ ea[c].stage = "sent" /\ ea[c].payload \in Closing
        /\ Len(ea'[c].events) > Len(ea[c].events)
        /\ ea'[c].events[Len(ea'[c].events)].kind = "order_filled")
       => ~ touched]_vars

\* What a failed append left stays as it is: a line of the file never changes
\* again (docs/MT5_EA_V1_PROTOCOL.md: "Any failed or partial write remains
\* available for recovery").  Violated: see the README.
FailedWriteKept ==
  [][\A i \in 1 .. Len(file) : file'[i] = file[i]]_vars

-----------------------------------------------------------------------------
(* The inductive invariant behind AtMostOneSend, SentIsReserved and        *)
(* OutcomeTruthful (EaExecution_proofs).                                   *)

InFlight(m) == m.stage \in {"reserved", "checked", "sent"}

\* Only the lock owner runs, and no journal exists without an identity.
OneWriter ==
  /\ identity = "absent" => header = "none" /\ file = <<>>
  /\ \A c \in Charts :
       /\ ea[c].stage # "down" => owner = c
       /\ ea[c].stage \in {"down", "locked"} => ~ ea[c].journalReady
       /\ ea[c].stage \in {"down", "locked"} => ea[c].events = <<>>
       /\ ea[c].journalReady => identity # "absent"

\* The next line starts on a line of its own.
FileEnded == ~ GluesHeader /\ ~ LastIsOpen(file)

\* Memory and file say the same about every request, and where the EA may
\* append an order event, the file's last line has its line break.
MemoryIsFile ==
  \A c \in Charts :
    LET m == ea[c] IN
    /\ m.stage = "loaded" /\ m.journalReady => SameHistory(m.events, file)
    /\ m.stage = "idle" /\ m.journalReady /\ m.recoveryReady =>
         SameHistory(m.events, file) /\ FileEnded
    /\ InFlight(m) => SameHistory(m.events, file) /\ FileEnded

\* Where the request in flight stands with the broker.
FlightInv ==
  \A c \in Charts :
    LET m == ea[c] IN
    InFlight(m) =>
      /\ m.journalReady
      /\ m.req \in Requests /\ m.payload \in Payloads
      /\ Reserved(file, m.req) /\ ~ HasOutcome(file, m.req)
      /\ m.stage \in {"reserved", "checked"} => sends[m.req] = 0
      /\ m.stage = "sent" => executed[m.req] = IF m.result.ran THEN 1 ELSE 0
      /\ m.stage = "sent" =>
           /\ m.result.retcode = "done" /\ m.result.ids /\ m.result.facts => m.result.ran
           /\ m.result.retcode = "reject" /\ m.result.ran => m.result.ids

ExecutedWasSent == \A r \in Requests : executed[r] <= sends[r]

CustodyInv ==
  /\ TypeOK
  /\ OneWriter
  /\ MemoryIsFile
  /\ FlightInv
  /\ ExecutedWasSent
  /\ AtMostOneSend
  /\ SentIsReserved
  /\ OutcomeTruthful

-----------------------------------------------------------------------------
(* What AnswersAgree, ServedIsPrefix, FilledCloseUndisturbed and            *)
(* ImplementsCustody need besides.                                          *)

\* The file settles a request once, and only one it has reserved.
SettledOnce ==
  \A r \in Requests :
    /\ HasOutcome(file, r) => Reserved(file, r)
    /\ \A j, k \in TerminalKinds : OutcomeIs(file, r, j) /\ OutcomeIs(file, r, k) => j = k

\* An outcome a client can hear, or heard, is in the file.
OutcomesWritten ==
  \A r \in Requests, k \in TerminalKinds :
    /\ \A c \in Charts : OutcomeIs(ea[c].events, r, k) => OutcomeIs(file, r, k)
    /\ k \in answers[r] => OutcomeIs(file, r, k)

\* Execution is open only on a file that leaves nothing uncertain.
ReadyIsRecovered ==
  \A c \in Charts :
    /\ ea[c].stage \in {"loaded", "idle"}
    /\ ea[c].journalReady /\ ea[c].recoveryReady
    => Recovered(file)

\* The chart may still append to its events.
Appends(m) ==
  /\ m.journalReady
  /\ m.stage = "loaded" \/ (m.stage = "idle" /\ m.recoveryReady) \/ InFlight(m)

NoLineGlued == \A i \in 1 .. Len(file) : file[i].end # "glued"

\* The events served are the file's first ones, all of them while more may come.
PrefixKept ==
  \A c \in Charts :
    LET served == ea[c].events IN
    /\ header = "none" /\ file = <<>> /\ ~ ea[c].journalReady => served = <<>>
    /\ header # "none" /\ NoLineGlued =>
         /\ Len(served) <= Len(file)
         /\ \A i \in 1 .. Len(served) : served[i] = Loaded(file)[i]
         /\ Appends(ea[c]) => Len(served) = Len(file)

\* What is left of the target after the EA read it, or traded it: never more
\* than it read, and less once somebody else traded too.
TargetWatched ==
  \A c \in Charts :
    LET m    == ea[c]
        left == IF m.stage = "sent" /\ m.result.ran THEN ticket + 1 ELSE ticket
    IN
    m.payload \in Closing /\ m.stage \in {"checked", "sent"} =>
      /\ left <= m.before
      /\ touched => left < m.before

JournalInv ==
  /\ CustodyInv
  /\ SettledOnce
  /\ OutcomesWritten
  /\ ReadyIsRecovered
  /\ PrefixKept
  /\ TargetWatched

-----------------------------------------------------------------------------
(* Refinement: the stage of a request is what the journal file says.       *)

CustodyStage ==
  [r \in Requests |->
     IF OutcomeIs(file, r, "order_filled") THEN "filled"
     ELSE IF OutcomeIs(file, r, "order_rejected") THEN "rejected"
     ELSE IF OutcomeIs(file, r, "order_unknown") THEN "unknown"
     ELSE IF Reserved(file, r) THEN "open" ELSE "new"]

Custody == INSTANCE OrderCustody WITH
             stage <- CustodyStage,
             ran   <- [r \in Requests |-> executed[r] > 0]

\* The EA implements the abstract custody of a client's requests: journal,
\* restarts, write failures and competing charts are invisible to it.
ImplementsCustody == Custody!Spec
=============================================================================
