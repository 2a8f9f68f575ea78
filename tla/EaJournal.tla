------------------------------ MODULE EaJournal ------------------------------
(***************************************************************************)
(* The durable journal of the MT5 expert advisor (EA): what one line of    *)
(* the events file says, what the EA looks up in it, when a loaded file    *)
(* is a valid execution history, and what one append can leave on disk.    *)
(* Only operators: EaExecution owns the variables.                         *)
(*                                                                         *)
(* A line is a record.  Its text, checksum and timestamps are abstracted.  *)
(* "end" says how the line stands in the file: "whole"; "open", complete   *)
(* but for its line break, which a reader accepts; "short", cut before its *)
(* checksum; "glued", a further append went onto the same line.  "seq" is  *)
(* kept, because an append numbers itself from MEMORY while the loader     *)
(* counts lines of the FILE.                                               *)
(***************************************************************************)
EXTENDS Naturals, Sequences

CONSTANTS Requests,   \* client_request_ids
          Payloads,   \* side, lots and close target of a submission
          NoRequest,  \* the req and payload of a line that carries none
          MaxBoots    \* bound: EA starts in one behaviour

ASSUME RequestAssumption ==
  /\ NoRequest \notin Requests
  /\ NoRequest \notin Payloads
  /\ MaxBoots \in Nat

TerminalKinds == {"order_rejected", "order_filled", "order_unknown"}
OrderKinds    == TerminalKinds \union {"submission_reserved"}
Kinds         == OrderKinds \union {"stream_started", "torn"}

Line == [seq     : Nat,
         kind    : Kinds,
         req     : Requests \union {NoRequest},
         payload : Payloads \union {NoRequest},
         boot    : 0 .. MaxBoots,
         end     : {"whole", "open", "short", "glued"}]

TornLine == [seq |-> 0, kind |-> "torn", req |-> NoRequest,
             payload |-> NoRequest, boot |-> 0, end |-> "short"]

\* The line an append builds: numbered after the last event in memory.
NewLine(events, kind, r, p, boot) ==
  [seq |-> Len(events) + 1, kind |-> kind, req |-> r, payload |-> p, boot |-> boot,
   end |-> "whole"]

-----------------------------------------------------------------------------
(* What the EA looks up in its events. *)

IsTerminal(line)   == line.kind \in TerminalKinds
IsOrderEvent(line) == line.kind \in OrderKinds

Reserved(events, r) ==
  \E i \in 1 .. Len(events) :
    events[i].kind = "submission_reserved" /\ events[i].req = r

ReservedWith(events, r, p) ==
  \E i \in 1 .. Len(events) :
    /\ events[i].kind = "submission_reserved"
    /\ events[i].req = r
    /\ events[i].payload = p

HasOutcome(events, r) ==
  \E i \in 1 .. Len(events) : IsTerminal(events[i]) /\ events[i].req = r

OutcomeIs(events, r, kind) ==
  \E i \in 1 .. Len(events) : events[i].kind = kind /\ events[i].req = r

\* Two histories that answer every lookup alike.
SameHistory(events, lines) ==
  \A r \in Requests :
    /\ Reserved(events, r) <=> Reserved(lines, r)
    /\ HasOutcome(events, r) <=> HasOutcome(lines, r)
    /\ \A kind \in TerminalKinds :
         OutcomeIs(events, r, kind) <=> OutcomeIs(lines, r, kind)

\* A request whose native effect the journal leaves open: reserved and not
\* settled, or settled as unknown.
Uncertain(events, r) ==
  /\ Reserved(events, r)
  /\ ~ OutcomeIs(events, r, "order_rejected")
  /\ ~ OutcomeIs(events, r, "order_filled")

-----------------------------------------------------------------------------
(* Loading and validation. *)

\* The loader reads every line: none damaged, each numbered one after the last.
Intact(line) == line.end \in {"whole", "open"}

Readable(lines) ==
  \A i \in 1 .. Len(lines) : Intact(lines[i]) /\ lines[i].seq = i

\* The events in memory after reading the lines.
Loaded(lines) ==
  [i \in 1 .. Len(lines) |-> [lines[i] EXCEPT !.end = "whole"]]

BootOnce(events, i) ==
  \A j \in 1 .. i - 1 :
    events[j].kind = "stream_started" => events[j].boot # events[i].boot

ReservedOnce(events, i) ==
  \A j \in 1 .. i - 1 :
    IsOrderEvent(events[j]) => events[j].req # events[i].req

SettlesReservation(events, i) ==
  /\ \E j \in 1 .. i - 1 :
       /\ events[j].kind = "submission_reserved"
       /\ events[j].req = events[i].req
       /\ events[j].payload = events[i].payload
  /\ \A j \in 1 .. i - 1 :
       IsTerminal(events[j]) => events[j].req # events[i].req

ValidHistory(events) ==
  \A i \in 1 .. Len(events) :
    /\ events[i].kind = "stream_started" => BootOnce(events, i)
    /\ events[i].kind = "submission_reserved" => ReservedOnce(events, i)
    /\ IsTerminal(events[i]) => SettlesReservation(events, i)

\* Execution may resume only when every reservation has a certain outcome.
Recovered(events) ==
  \A r \in Requests : ~ Uncertain(events, r)

-----------------------------------------------------------------------------
(* One append.  The writer seeks to the end of the file and writes, without *)
(* looking at how the last line ended.  A failed append is retained, never *)
(* retried or truncated: the file holds nothing, a part, all but the line  *)
(* break, or all of the line (the flush may fail after every byte).        *)

LastIsOpen(lines) ==
  lines # <<>> /\ lines[Len(lines)].end \in {"open", "short"}

Glued(lines) ==
  [lines EXCEPT ![Len(lines)] = [@ EXCEPT !.end = "glued"]]

Appended(lines, line) ==
  IF LastIsOpen(lines) THEN Glued(lines) ELSE Append(lines, line)

AppendFailures(lines, line) ==
  {lines} \union
  IF LastIsOpen(lines)
  THEN {Glued(lines)}
  ELSE {Append(lines, l) : l \in {TornLine, [line EXCEPT !.end = "open"], line}}
=============================================================================
