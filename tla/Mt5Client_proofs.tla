-------------------------- MODULE Mt5Client_proofs --------------------------
(***************************************************************************)
(* Machine-checked proofs about Mt5Client, for every set of requests, any  *)
(* page size and every bound on starts, processes and mishaps.             *)
(*                                                                         *)
(* The inductive invariant Inv is ClientInv with the shape of the records. *)
(* Fits says it of a journal as such, so that one lemma per kind of line   *)
(* serves the EA's own journal and the one it may find when it starts      *)
(* again.  Good says it of the client's memory and of what the engine was  *)
(* told: applying an event, a page of them or the whole journal keeps it.  *)
(***************************************************************************)
EXTENDS Mt5Client, FiniteSetTheorems, SequenceTheorems, TLAPS

-----------------------------------------------------------------------------
(* Facts about sequences and journals. *)

LEMMA AppendToOne ==
  ASSUME NEW a, NEW b
  PROVE  Append(<<a>>, b) = <<a, b>>
  <1> DEFINE S == {a, b}
  <1>1. <<a>> \in Seq(S) /\ <<a, b>> \in Seq(S) /\ b \in S
    OBVIOUS
  <1>2. /\ Append(<<a>>, b) \in Seq(S) /\ Len(Append(<<a>>, b)) = 2
        /\ Append(<<a>>, b)[1] = a /\ Append(<<a>>, b)[2] = b
    BY <1>1
  <1>3. Len(<<a, b>>) = 2 /\ <<a, b>>[1] = a /\ <<a, b>>[2] = b
    OBVIOUS
  <1>4. ASSUME NEW i \in 1 .. 2
        PROVE  Append(<<a>>, b)[i] = <<a, b>>[i]
    <2>1. i = 1 \/ i = 2
      OBVIOUS
    <2> QED
      BY <2>1, <1>2, <1>3
  <1> QED
    BY <1>1, <1>2, <1>3, <1>4, SeqEqual

\* What is looked up in a journal with one more line.
LEMMA OneMoreLine ==
  ASSUME NEW s \in Seq(Line), NEW line \in Line, NEW r \in Requests, NEW k \in Kinds
  PROVE  /\ Append(s, line) \in Seq(Line) /\ Len(Append(s, line)) = Len(s) + 1
         /\ Reserved(Append(s, line), r)
              <=> Reserved(s, r) \/ (line.kind = "submission_reserved" /\ line.req = r)
         /\ HasOutcome(Append(s, line), r)
              <=> HasOutcome(s, r) \/ (line.kind \in TerminalKinds /\ line.req = r)
         /\ OutcomeIs(Append(s, line), r, k)
              <=> OutcomeIs(s, r, k) \/ (line.kind = k /\ line.req = r)
  <1> DEFINE t == Append(s, line)
  <1>1. /\ t \in Seq(Line) /\ Len(t) = Len(s) + 1 /\ Len(s) \in Nat
        /\ \A i \in 1 .. Len(s) : t[i] = s[i]
        /\ t[Len(s) + 1] = line
    OBVIOUS
  <1> HIDE DEF t
  <1>2. \A i : i \in 1 .. Len(t) <=> i \in 1 .. Len(s) \/ i = Len(s) + 1
    BY <1>1
  <1>3. Reserved(t, r) <=> Reserved(s, r) \/ (line.kind = "submission_reserved" /\ line.req = r)
    BY <1>1, <1>2 DEF Reserved
  <1>4. HasOutcome(t, r) <=> HasOutcome(s, r) \/ (line.kind \in TerminalKinds /\ line.req = r)
    BY <1>1, <1>2 DEF HasOutcome, IsTerminal
  <1>5. OutcomeIs(t, r, k) <=> OutcomeIs(s, r, k) \/ (line.kind = k /\ line.req = r)
    BY <1>1, <1>2 DEF OutcomeIs
  <1> QED
    BY <1>1, <1>3, <1>4, <1>5 DEF t

\* Whatever was read in a journal stays in it.
LEMMA JournalGrows ==
  ASSUME NEW s \in Seq(Line), NEW line \in Line
  PROVE  /\ Append(s, line) \in Seq(Line) /\ Len(Append(s, line)) = Len(s) + 1
         /\ \A r \in Requests :
              /\ Reserved(s, r) => Reserved(Append(s, line), r)
              /\ HasOutcome(s, r) => HasOutcome(Append(s, line), r)
              /\ \A k \in Kinds : OutcomeIs(s, r, k) => OutcomeIs(Append(s, line), r, k)
  <1>1. Append(s, line) \in Seq(Line) /\ Len(Append(s, line)) = Len(s) + 1
    OBVIOUS
  <1>2. ASSUME NEW r \in Requests, NEW k \in Kinds
        PROVE  /\ Reserved(s, r) => Reserved(Append(s, line), r)
               /\ HasOutcome(s, r) => HasOutcome(Append(s, line), r)
               /\ OutcomeIs(s, r, k) => OutcomeIs(Append(s, line), r, k)
    BY OneMoreLine
  <1>3. Kinds # {}
    BY DEF Kinds
  <1> QED
    BY <1>1, <1>2, <1>3

LEMMA LineIs ==
  ASSUME NEW s \in Seq(Line), NEW kind \in Kinds, NEW r \in Requests \union {NoRequest},
         NEW boot \in 0 .. MaxBoots
  PROVE  /\ NewLine(s, kind, r, NoRequest, boot) \in Line
         /\ NewLine(s, kind, r, NoRequest, boot).kind = kind
         /\ NewLine(s, kind, r, NoRequest, boot).req = r
  BY DEF NewLine, Line

LEMMA OutcomeOfKind ==
  ASSUME NEW s, NEW r, NEW k \in TerminalKinds, OutcomeIs(s, r, k)
  PROVE  HasOutcome(s, r)
  BY DEF OutcomeIs, HasOutcome, IsTerminal

LEMMA KindsAre ==
  /\ TerminalKinds \subseteq Kinds /\ "submission_reserved" \in Kinds \ TerminalKinds
  /\ "stream_started" \in Kinds \ TerminalKinds
  /\ TerminalKinds = {"order_filled", "order_rejected", "order_unknown"}
  BY DEF Kinds, OrderKinds, TerminalKinds

\* A journal and what agrees with it: the requests executed, the news, those on their way.
Fits(lines, done, news, way) ==
  /\ lines \in Seq(Line)
  /\ \A i \in DOMAIN lines : IsOrderEvent(lines[i]) => lines[i].req \in Requests
  /\ \A r \in Requests :
       /\ Reserved(lines, r) => Sent(news, r)
       /\ HasOutcome(lines, r) \/ r \in done => Reserved(lines, r)
       /\ OutcomeIs(lines, r, "order_filled") => r \in done
       /\ OutcomeIs(lines, r, "order_rejected") => r \notin done
  /\ \A m \in way : m.req \in Requests /\ Sent(news, m.req) /\ ~Reserved(lines, m.req)

\* Nothing that was sent becomes unsent.
Later(news, then) == \A r \in Requests : Sent(news, r) => Sent(then, r)

LEMMA FitsIs ==
  ASSUME NEW lines
  PROVE  HistoryFits(lines) <=> Fits(lines, ran, told, wire)
  BY DEF HistoryFits, Fits

\* More news and fewer messages on their way change nothing.
LEMMA FitsOn ==
  ASSUME NEW s, NEW done, NEW news, NEW way, Fits(s, done, news, way),
         NEW then, Later(news, then), NEW fewer, fewer \subseteq way
  PROVE  Fits(s, done, then, fewer)
  BY DEF Fits, Later

\* A request on its way that the journal does not know.
LEMMA FitsSent ==
  ASSUME NEW s, NEW done, NEW news, NEW way, Fits(s, done, news, way), NEW m,
         m.req \in Requests, Sent(news, m.req), ~Reserved(s, m.req)
  PROVE  Fits(s, done, news, way \union {m})
  BY DEF Fits

\* A request that is reserved and not settled may be executed.
LEMMA FitsRun ==
  ASSUME NEW s, NEW done, NEW news, NEW way, Fits(s, done, news, way),
         NEW r \in Requests, Reserved(s, r), ~HasOutcome(s, r)
  PROVE  Fits(s, done \union {r}, news, way)
  <1>1. ~OutcomeIs(s, r, "order_rejected")
    BY OutcomeOfKind, KindsAre
  <1> QED
    BY <1>1 DEF Fits

\* A line that is about no order.
LEMMA FitsStart ==
  ASSUME NEW s, NEW done, NEW news, NEW way, Fits(s, done, news, way),
         NEW line \in Line, line.kind = "stream_started"
  PROVE  Fits(Append(s, line), done, news, way)
  <1>1. s \in Seq(Line) /\ ~IsOrderEvent(line)
    BY KindsAre DEF Fits, IsOrderEvent, OrderKinds
  <1>2. /\ Append(s, line) \in Seq(Line)
        /\ \A i \in DOMAIN Append(s, line) :
             IsOrderEvent(Append(s, line)[i]) => Append(s, line)[i].req \in Requests
    <2>1. \A i \in DOMAIN s : IsOrderEvent(s[i]) => s[i].req \in Requests
      BY DEF Fits
    <2>2. \A i \in DOMAIN Append(s, line) :
             (i \in DOMAIN s /\ Append(s, line)[i] = s[i]) \/ Append(s, line)[i] = line
      BY <1>1
    <2> QED
      BY <1>1, <2>1, <2>2
  <1>3. ASSUME NEW r \in Requests
        PROVE  /\ Reserved(Append(s, line), r) <=> Reserved(s, r)
               /\ HasOutcome(Append(s, line), r) <=> HasOutcome(s, r)
               /\ \A k \in TerminalKinds : OutcomeIs(Append(s, line), r, k) <=> OutcomeIs(s, r, k)
    BY <1>1, OneMoreLine, KindsAre
  <1> HIDE DEF IsOrderEvent
  <1> QED
    BY <1>2, <1>3, KindsAre DEF Fits

\* The reservation of a request that was on its way.
LEMMA FitsReservation ==
  ASSUME NEW s, NEW done, NEW news, NEW way, Fits(s, done, news, way),
         NEW line \in Line, line.kind = "submission_reserved", line.req \in Requests,
         Sent(news, line.req), \A m \in way : m.req # line.req
  PROVE  Fits(Append(s, line), done, news, way)
  <1>1. s \in Seq(Line)
    BY DEF Fits
  <1>2. /\ Append(s, line) \in Seq(Line)
        /\ \A i \in DOMAIN Append(s, line) :
             IsOrderEvent(Append(s, line)[i]) => Append(s, line)[i].req \in Requests
    <2>1. \A i \in DOMAIN s : IsOrderEvent(s[i]) => s[i].req \in Requests
      BY DEF Fits
    <2>2. \A i \in DOMAIN Append(s, line) :
             (i \in DOMAIN s /\ Append(s, line)[i] = s[i]) \/ Append(s, line)[i] = line
      BY <1>1
    <2> QED
      BY <1>1, <2>1, <2>2
  <1>3. ASSUME NEW r \in Requests
        PROVE  /\ Reserved(Append(s, line), r) <=> Reserved(s, r) \/ line.req = r
               /\ HasOutcome(Append(s, line), r) <=> HasOutcome(s, r)
               /\ \A k \in TerminalKinds : OutcomeIs(Append(s, line), r, k) <=> OutcomeIs(s, r, k)
    BY <1>1, OneMoreLine, KindsAre
  <1> QED
    BY <1>2, <1>3, KindsAre DEF Fits

\* The outcome of a request that is reserved and not settled.
LEMMA FitsOutcome ==
  ASSUME NEW s, NEW done, NEW news, NEW way, Fits(s, done, news, way),
         NEW line \in Line, line.kind \in TerminalKinds, line.req \in Requests,
         Reserved(s, line.req),
         line.kind = "order_filled" => line.req \in done,
         line.kind = "order_rejected" => line.req \notin done
  PROVE  Fits(Append(s, line), done, news, way)
  <1>1. s \in Seq(Line)
    BY DEF Fits
  <1>2. /\ Append(s, line) \in Seq(Line)
        /\ \A i \in DOMAIN Append(s, line) :
             IsOrderEvent(Append(s, line)[i]) => Append(s, line)[i].req \in Requests
    <2>1. \A i \in DOMAIN s : IsOrderEvent(s[i]) => s[i].req \in Requests
      BY DEF Fits
    <2>2. \A i \in DOMAIN Append(s, line) :
             (i \in DOMAIN s /\ Append(s, line)[i] = s[i]) \/ Append(s, line)[i] = line
      BY <1>1
    <2> QED
      BY <1>1, <2>1, <2>2
  <1>3. ASSUME NEW r \in Requests
        PROVE  /\ Reserved(Append(s, line), r) <=> Reserved(s, r)
               /\ HasOutcome(Append(s, line), r) <=> HasOutcome(s, r) \/ line.req = r
               /\ \A k \in TerminalKinds :
                    OutcomeIs(Append(s, line), r, k)
                      <=> OutcomeIs(s, r, k) \/ (line.kind = k /\ line.req = r)
    <2>1. ASSUME NEW k \in Kinds
          PROVE  /\ Reserved(Append(s, line), r)
                      <=> Reserved(s, r) \/ (line.kind = "submission_reserved" /\ line.req = r)
                 /\ HasOutcome(Append(s, line), r)
                      <=> HasOutcome(s, r) \/ (line.kind \in TerminalKinds /\ line.req = r)
                 /\ OutcomeIs(Append(s, line), r, k)
                      <=> OutcomeIs(s, r, k) \/ (line.kind = k /\ line.req = r)
      BY <1>1, OneMoreLine
    <2> QED
      BY <2>1, KindsAre
  <1> QED
    BY <1>2, <1>3, KindsAre DEF Fits

-----------------------------------------------------------------------------
(* The client's memory. *)

ClientFields == {"boot", "cursor", "reserved", "terminal", "pending", "seen", "recovery",
                 "healthy", "transient", "positions"}
JobFields == {"kind", "step", "req", "cursor", "target", "positions", "boot", "blocked",
              "events", "force"}

IsClient(c) == DOMAIN c = ClientFields
IsNews(news) == news \in [Requests -> Reports]

Good(c, news) == IsClient(c) /\ IsNews(news) /\ ClientFits(c, news) /\ NewsFit(news)

LEMMA EndedIsSent ==
  ASSUME NEW news, NEW r, NEW k, Ended(news, r, k)
  PROVE  news[r] # <<"submitted">> /\ Sent(news, r)
  <1>1. /\ Len(news[r]) = 2 /\ Len(<<"submitted">>) = 1 /\ news[r][1] = "submitted"
        /\ Len(<<>>) = 0
    BY DEF Ended
  <1> QED
    BY <1>1 DEF Sent

LEMMA ReportsAre ==
  ASSUME NEW news, IsNews(news), NEW r \in Requests
  PROVE  /\ news[r] \in Reports
         /\ Sent(news, r) <=> news[r] = <<"submitted">> \/ Ended(news, r, "order_filled")
                                \/ Ended(news, r, "order_rejected")
         /\ \A k : Ended(news, r, k) => news[r] # <<"submitted">> /\ Sent(news, r)
  <1>1. news[r] \in Reports
    BY DEF IsNews
  <1>2. /\ news[r] = <<>> => ~Sent(news, r)
        /\ news[r] = <<"denied">> => ~Sent(news, r)
        /\ news[r] = <<"submitted">> => Sent(news, r)
    BY DEF Sent
  <1>3. ASSUME NEW k, Ended(news, r, k)
        PROVE  news[r] # <<"submitted">> /\ Sent(news, r)
    BY <1>3, EndedIsSent
  <1>4. \/ news[r] \in {<<>>, <<"denied">>, <<"submitted">>}
        \/ Ended(news, r, "order_filled") \/ Ended(news, r, "order_rejected")
    BY <1>1 DEF Reports, Ended
  <1> QED
    BY <1>1, <1>2, <1>3, <1>4

\* What decides nothing of it may change.
LEMMA SameMemory ==
  ASSUME NEW c, NEW news, Good(c, news), NEW d, IsClient(d), d.cursor = c.cursor,
         d.reserved = c.reserved, d.terminal = c.terminal, DOMAIN d.pending = DOMAIN c.pending
  PROVE  Good(d, news)
  BY DEF Good, ClientFits, Remembered, Awaited

LEMMA MarkUnknownGood ==
  ASSUME NEW c, NEW news, Good(c, news), NEW r
  PROVE  Good(MarkUnknown(c, r), news)
  <1> DEFINE p == [c.pending EXCEPT ![r] = TRUE]
             d == [c EXCEPT !.pending = p]
  <1>1. CASE r \in DOMAIN c.pending
    <2>1. MarkUnknown(c, r) = d
      BY <1>1 DEF MarkUnknown, Good, IsClient, ClientFields
    <2>2. DOMAIN p = DOMAIN c.pending
      OBVIOUS
    <2> HIDE DEF p
    <2>3. /\ IsClient(d) /\ d.cursor = c.cursor /\ d.reserved = c.reserved
          /\ d.terminal = c.terminal /\ DOMAIN d.pending = DOMAIN c.pending
      BY <2>2 DEF Good, IsClient, ClientFields
    <2> HIDE DEF d
    <2>4. Good(d, news)
      BY <2>3, SameMemory
    <2> QED
      BY <2>1, <2>4
  <1>2. CASE r \notin DOMAIN c.pending
    BY <1>2 DEF MarkUnknown
  <1> QED
    BY <1>1, <1>2

\* An event of an order of its own ends the wait for it, unless its outcome is unknown.
LEMMA EndGood ==
  ASSUME NEW c, NEW news, Good(c, news), NEW r \in DOMAIN c.pending, r \in c.reserved,
         NEW kind \in TerminalKinds, OutcomeIs(events, r, kind),
         NEW d, d = [c EXCEPT !.terminal = With(@, r, kind)]
  PROVE  /\ Good(Settled(d, news, r, kind).client, Settled(d, news, r, kind).told)
         /\ Later(news, Settled(d, news, r, kind).told)
         /\ Settled(d, news, r, kind).client.cursor = c.cursor
  <1>1. /\ IsClient(d) /\ d.cursor = c.cursor /\ d.reserved = c.reserved
        /\ d.pending = c.pending /\ d.terminal = With(c.terminal, r, kind)
    BY DEF Good, IsClient, ClientFields
  <1>2. /\ DOMAIN d.terminal = DOMAIN c.terminal \union {r} /\ d.terminal[r] = kind
        /\ \A q \in DOMAIN c.terminal : q # r => d.terminal[q] = c.terminal[q]
    BY <1>1 DEF With
  <1>3. /\ r \in Requests /\ news[r] = <<"submitted">> /\ r \in mine
        /\ \A q \in DOMAIN c.pending : q = r
    BY DEF Good, ClientFits, Remembered, Awaited, NewsFit
  <1>4. /\ \A q \in DOMAIN d.terminal :
              d.terminal[q] \in TerminalKinds /\ OutcomeIs(events, q, d.terminal[q])
        /\ DOMAIN d.terminal \subseteq d.reserved
    BY <1>1, <1>2 DEF Good, ClientFits, Remembered, Awaited
  <1>5. CASE kind = "order_unknown"
    <2>1. Good(d, news)
      BY <1>1, <1>2, <1>3, <1>4, <1>5 DEF Good, ClientFits, Remembered, Awaited
    <2>2. /\ Settled(d, news, r, kind).client = MarkUnknown(d, r)
          /\ Settled(d, news, r, kind).told = news
      BY <1>5 DEF Settled
    <2>3. MarkUnknown(d, r).cursor = d.cursor
      BY <1>1 DEF MarkUnknown, IsClient, ClientFields
    <2> QED
      BY <1>1, <2>1, <2>2, <2>3, MarkUnknownGood DEF Later
  <1>6. CASE kind # "order_unknown"
    <2> DEFINE e == [d EXCEPT !.pending = Without(d.pending, r)]
               told2 == [news EXCEPT ![r] = Append(@, kind)]
    <2>1. Settled(d, news, r, kind) = [client |-> e, told |-> told2]
      BY <1>1, <1>6 DEF Settled, Tell, IsClient, ClientFields
    <2>2. /\ IsClient(e) /\ e.cursor = d.cursor /\ e.reserved = d.reserved
          /\ e.terminal = d.terminal /\ DOMAIN e.pending = DOMAIN c.pending \ {r}
      BY <1>1 DEF Without, IsClient, ClientFields
    <2> HIDE DEF e
    <2>3. DOMAIN e.pending = {}
      BY <1>3, <2>2
    <2>4. kind \in {"order_filled", "order_rejected"}
      BY <1>6, KindsAre
    <2>5. /\ told2[r] = <<"submitted", kind>> /\ DOMAIN told2 = Requests
          /\ \A q \in Requests : q # r => told2[q] = news[q]
      <3>1. DOMAIN news = Requests
        BY DEF Good, IsNews
      <3>2. /\ told2[r] = Append(news[r], kind) /\ DOMAIN told2 = Requests
            /\ \A q \in Requests : q # r => told2[q] = news[q]
        BY <1>3, <3>1
      <3>3. Append(<<"submitted">>, kind) = <<"submitted", kind>>
        BY AppendToOne
      <3> QED
        BY <1>3, <3>2, <3>3
    <2>6. IsNews(told2)
      <3>1. \A q \in Requests : news[q] \in Reports
        BY DEF Good, IsNews
      <3>2. told2[r] \in Reports
        BY <2>4, <2>5 DEF Reports
      <3> QED
        BY <2>5, <3>1, <3>2 DEF IsNews
    <2> HIDE DEF told2
    <2>7. \A q \in Requests : q # r => (Sent(told2, q) <=> Sent(news, q))
      BY <2>5 DEF Sent
    <2>8. Sent(told2, r) /\ told2[r] # <<"submitted">>
      BY <2>5 DEF Sent
    <2>9. \A q \in Requests, k \in TerminalKinds : Ended(told2, q, k) => OutcomeIs(events, q, k)
      <3> SUFFICES ASSUME NEW q \in Requests, NEW k \in TerminalKinds, Ended(told2, q, k)
                   PROVE  OutcomeIs(events, q, k)
        OBVIOUS
      <3>1. CASE q = r
        BY <2>5, <3>1 DEF Ended
      <3>2. CASE q # r
        BY <2>5, <3>2 DEF Ended, Good, NewsFit
      <3> QED
        BY <3>1, <3>2
    <2>10. NewsFit(told2)
      BY <2>6, <2>7, <2>8, <2>9 DEF NewsFit, IsNews, Good
    <2>11. {q \in mine : told2[q] = <<"submitted">>} = {}
      BY <1>3, <2>5, <2>8 DEF Good, ClientFits, Remembered, Awaited, NewsFit
    <2>12. ClientFits(e, told2)
      BY <1>1, <1>4, <2>2, <2>3, <2>11 DEF ClientFits, Remembered, Awaited, Good
    <2> QED
      BY <1>1, <2>1, <2>2, <2>6, <2>7, <2>8, <2>10, <2>12 DEF Good, Later
  <1> QED
    BY <1>5, <1>6

\* What is read of a request that is reserved.
Learned(c, r) == [c EXCEPT !.reserved = @ \union {r}, !.seen = @ \union {r}]

LEMMA LearnGood ==
  ASSUME NEW c, NEW news, Good(c, news), NEW r \in Requests, Reserved(events, r)
  PROVE  Good(Learned(c, r), news) /\ Learned(c, r).cursor = c.cursor
  <1>1. PICK d : d = Learned(c, r)
    OBVIOUS
  <1>2. /\ IsClient(d) /\ d.cursor = c.cursor /\ d.reserved = c.reserved \union {r}
        /\ d.pending = c.pending /\ d.terminal = c.terminal
    BY <1>1 DEF Learned, Good, IsClient, ClientFields
  <1>3. Good(d, news)
    BY <1>2 DEF Good, ClientFits, Remembered, Awaited
  <1> QED
    BY <1>1, <1>2, <1>3

\* The end of a request that is not of its own.
LEMMA ForeignEndGood ==
  ASSUME NEW c, NEW news, Good(c, news), NEW r \in c.reserved, r \notin DOMAIN c.pending,
         NEW kind \in TerminalKinds, OutcomeIs(events, r, kind),
         NEW d, d = [c EXCEPT !.terminal = With(@, r, kind)]
  PROVE  Good(d, news) /\ d.cursor = c.cursor
  <1>1. /\ IsClient(d) /\ d.cursor = c.cursor /\ d.reserved = c.reserved
        /\ d.pending = c.pending /\ d.terminal = With(c.terminal, r, kind)
    BY DEF Good, IsClient, ClientFields
  <1>2. /\ DOMAIN d.terminal = DOMAIN c.terminal \union {r} /\ d.terminal[r] = kind
        /\ \A q \in DOMAIN c.terminal : q # r => d.terminal[q] = c.terminal[q]
    BY <1>1 DEF With
  <1>3. /\ \A q \in DOMAIN d.terminal :
              d.terminal[q] \in TerminalKinds /\ OutcomeIs(events, q, d.terminal[q])
        /\ DOMAIN d.terminal \subseteq d.reserved
    BY <1>1, <1>2 DEF Good, ClientFits, Remembered
  <1> QED
    BY <1>1, <1>2, <1>3 DEF Good, ClientFits, Remembered, Awaited

\* The cursor moves on.
LEMMA AdvanceGood ==
  ASSUME NEW c, NEW news, Good(c, news), c.cursor + 1 \in 0 .. Len(events),
         NEW d, d = [c EXCEPT !.cursor = @ + 1]
  PROVE  Good(d, news) /\ d.cursor = c.cursor + 1
  <1>1. /\ IsClient(d) /\ d.cursor = c.cursor + 1 /\ d.reserved = c.reserved
        /\ d.pending = c.pending /\ d.terminal = c.terminal
    BY DEF Good, IsClient, ClientFields
  <1> QED
    BY <1>1 DEF Good, ClientFits, Remembered, Awaited

\* What one page has come to when k of its events were applied.
Reached(c, news, s, k) ==
  /\ Good(s.client, s.told) /\ Later(news, s.told)
  /\ s.ok \in BOOLEAN
  /\ s.ok => s.client.cursor = c.cursor + k

\* One event of the journal.
LEMMA AppliedGood ==
  ASSUME EaFits, NEW c, NEW news, Good(c, news), c.cursor < Len(events)
  PROVE  Reached(c, news, Applied(c, news, events[c.cursor + 1]), 1)
  <1>1. PICK e : e = events[c.cursor + 1]
    OBVIOUS
  <1>2. /\ c.cursor + 1 \in 1 .. Len(events) /\ c.cursor \in Nat /\ e \in Line
        /\ c.cursor + 1 \in 0 .. Len(events)
        /\ IsOrderEvent(e) => e.req \in Requests
    BY <1>1 DEF EaFits, HistoryFits, Good, ClientFits, Remembered
  <1> DEFINE reserved == [c EXCEPT !.reserved = @ \union {e.req}, !.seen = @ \union {e.req}]
             ended == [c EXCEPT !.terminal = With(@, e.req, e.kind)]
             raised(d) == [client |-> d, told |-> news, ok |-> FALSE]
             advance(s) == [client |-> [s.client EXCEPT !.cursor = @ + 1], told |-> s.told,
                            ok |-> TRUE]
  <1>3. Reached(c, news, raised(c), 1)
    BY DEF Reached, Later
  <1>4. ASSUME NEW d, Good(d, news)
        PROVE  Reached(c, news, raised(d), 1)
    BY <1>4 DEF Reached, Later
  <1>5. ASSUME NEW s, Good(s.client, s.told), Later(news, s.told), s.client.cursor = c.cursor
        PROVE  Reached(c, news, advance(s), 1)
    BY <1>2, <1>5, AdvanceGood DEF Reached
  <1>6. CASE e.kind = "submission_reserved"
    <2>1. e.req \in Requests /\ Reserved(events, e.req)
      BY <1>1, <1>2, <1>6 DEF Reserved, IsOrderEvent, OrderKinds
    <2>2. Good(reserved, news) /\ reserved.cursor = c.cursor
      <3>1. Good(Learned(c, e.req), news) /\ Learned(c, e.req).cursor = c.cursor
        BY <2>1, LearnGood
      <3> QED
        BY <3>1 DEF Learned
    <2>3. Applied(c, news, e) =
            IF e.req \in c.reserved \union DOMAIN c.terminal THEN raised(c)
            ELSE IF e.req \notin DOMAIN c.pending THEN raised(reserved)
            ELSE advance([client |-> reserved, told |-> news])
      BY <1>6, KindsAre DEF Applied
    <2>4. PICK s : s = [client |-> reserved, told |-> news]
      OBVIOUS
    <2>5. Reached(c, news, advance(s), 1)
      <3>1. s.client = reserved /\ s.told = news
        BY <2>4
      <3> HIDE DEF reserved
      <3> QED
        BY <1>5, <2>2, <3>1 DEF Later
    <2>6. Applied(c, news, e) =
            IF e.req \in c.reserved \union DOMAIN c.terminal THEN raised(c)
            ELSE IF e.req \notin DOMAIN c.pending THEN raised(reserved)
            ELSE advance(s)
      BY <2>3, <2>4
    <2>7. Reached(c, news, raised(reserved), 1)
      BY <1>4, <2>2
    <2> HIDE DEF reserved, raised, advance
    <2> QED
      BY <1>1, <1>3, <2>5, <2>6, <2>7
  <1>7. CASE e.kind \in TerminalKinds
    <2>1. Applied(c, news, e) =
            IF e.req \notin c.reserved \/ e.req \in DOMAIN c.terminal THEN raised(c)
            ELSE IF e.req \notin DOMAIN c.pending THEN raised(ended)
            ELSE advance(Settled(ended, news, e.req, e.kind))
      BY <1>7, KindsAre DEF Applied
    <2>2. CASE e.req \notin c.reserved \/ e.req \in DOMAIN c.terminal
      BY <1>1, <1>3, <2>1, <2>2
    <2>3. CASE e.req \in c.reserved /\ e.req \notin DOMAIN c.terminal
      <3>1. OutcomeIs(events, e.req, e.kind)
        BY <1>1, <1>2 DEF OutcomeIs
      <3>2. CASE e.req \notin DOMAIN c.pending
        <4>1. Good(ended, news)
          BY <1>7, <2>3, <3>1, <3>2, ForeignEndGood
        <4> HIDE DEF ended
        <4> QED
          BY <1>1, <1>4, <2>1, <2>3, <3>2, <4>1
      <3>3. CASE e.req \in DOMAIN c.pending
        <4>1. PICK s : s = Settled(ended, news, e.req, e.kind)
          OBVIOUS
        <4>2. Good(s.client, s.told) /\ Later(news, s.told) /\ s.client.cursor = c.cursor
          BY <1>7, <2>3, <3>1, <3>3, <4>1, EndGood
        <4> HIDE DEF ended
        <4>3. Applied(c, news, e) = advance(s)
          BY <2>1, <2>3, <3>3, <4>1
        <4> QED
          BY <1>1, <1>5, <4>2, <4>3
      <3> QED
        BY <3>2, <3>3
    <2> QED
      BY <2>2, <2>3
  <1>8. CASE e.kind \notin TerminalKinds \union {"submission_reserved"}
    <2>1. Applied(c, news, e) = raised(c)
      BY <1>8 DEF Applied
    <2> QED
      BY <1>1, <1>3, <2>1
  <1> QED
    BY <1>6, <1>7, <1>8

\* What one page comes to, event after event.
PageRun(g, c, news, n) ==
  g = [k \in 0 .. n |->
        IF k = 0 THEN [client |-> c, told |-> news, ok |-> TRUE]
        ELSE IF ~g[k - 1].ok THEN g[k - 1]
        ELSE Applied(g[k - 1].client, g[k - 1].told, events[c.cursor + k])]

LEMMA LeastMember ==
  ASSUME NEW S \in SUBSET Nat, S # {}
  PROVE  \E i \in S : \A j \in S : i <= j
  <1> DEFINE R == OpToRel(<, Nat)
  <1>1. PICK i \in S : \A j \in S : ~(<<j, i>> \in R)
    BY NatLessThanWellFounded, WFMin
  <1>2. \A j \in S : j < i => <<j, i>> \in R
    BY DEF OpToRel
  <1> HIDE DEF R
  <1>3. ASSUME NEW j \in S PROVE i <= j
    <2>1. ~(j < i)
      BY <1>1, <1>2
    <2>2. i \in Nat /\ j \in Nat
      OBVIOUS
    <2> QED
      BY <2>1, <2>2
  <1> QED
    BY <1>3

\* A page of any length can be applied.
LEMMA PageRuns ==
  ASSUME NEW c, NEW news
  PROVE  \A n \in Nat : \E g : PageRun(g, c, news, n)
  <1> DEFINE stuck == {n \in Nat : \A g : ~PageRun(g, c, news, n)}
             first == [client |-> c, told |-> news, ok |-> TRUE]
             next(s, k) == IF ~s.ok THEN s ELSE Applied(s.client, s.told, events[c.cursor + k])
  <1>1. SUFFICES ASSUME stuck # {} PROVE FALSE
    OBVIOUS
  <1>2. PICK n \in stuck : \A m \in stuck : n <= m
    BY <1>1, LeastMember
  <1>3. n # 0
    <2>1. PageRun([k \in 0 .. 0 |-> first], c, news, 0)
      BY DEF PageRun
    <2> QED
      BY <2>1
  <1>4. PICK g : PageRun(g, c, news, n - 1)
    <2>1. n - 1 \in Nat /\ n - 1 \notin stuck
      BY <1>2, <1>3
    <2> QED
      BY <2>1
  <1> HIDE DEF first, next
  <1>5. DOMAIN g = 0 .. n - 1 /\ \A k \in 0 .. n - 1 :
           g[k] = IF k = 0 THEN first ELSE next(g[k - 1], k)
    BY <1>4 DEF PageRun, first, next
  <1>6. PICK h : h = [k \in 0 .. n |-> IF k < n THEN g[k] ELSE next(g[n - 1], n)]
    OBVIOUS
  <1>7. h = [k \in 0 .. n |-> IF k = 0 THEN first ELSE next(h[k - 1], k)]
    <2>1. n \in Nat /\ DOMAIN h = 0 .. n
      BY <1>6
    <2>2. ASSUME NEW k \in 0 .. n
          PROVE  h[k] = IF k = 0 THEN first ELSE next(h[k - 1], k)
      <3>1. CASE k = n
        <4>1. h[k] = next(g[n - 1], n) /\ h[k - 1] = g[n - 1]
          BY <1>3, <1>6, <2>1, <3>1
        <4> QED
          BY <1>3, <3>1, <4>1
      <3>2. CASE k # n
        <4>1. k \in 0 .. n - 1 /\ h[k] = g[k]
          BY <1>6, <2>1, <3>2
        <4>2. k # 0 => h[k - 1] = g[k - 1]
          BY <1>6, <2>1, <3>2
        <4> QED
          BY <1>5, <4>1, <4>2
      <3> QED
        BY <3>1, <3>2
    <2> QED
      BY <1>6, <2>1, <2>2
  <1>8. PageRun(h, c, news, n)
    BY <1>7 DEF PageRun, first, next
  <1> QED
    BY <1>2, <1>8

LEMMA PageIs ==
  ASSUME NEW c, NEW news, NEW last \in Nat, c.cursor \in Nat
  PROVE  \E n \in Nat : \E g :
           /\ n = (IF last < c.cursor THEN 0 ELSE last - c.cursor)
           /\ PageRun(g, c, news, n)
           /\ ApplyPage(c, news, last) = g[n]
  <1>1. PICK n : n = IF last < c.cursor THEN 0 ELSE last - c.cursor
    OBVIOUS
  <1>2. n \in Nat
    BY <1>1
  <1> DEFINE g == CHOOSE f : PageRun(f, c, news, n)
  <1>3. PageRun(g, c, news, n)
    BY <1>2, PageRuns
  <1>4. ApplyPage(c, news, last) = g[n]
    BY <1>1 DEF ApplyPage, PageRun
  <1> HIDE DEF g
  <1> QED
    BY <1>1, <1>2, <1>3, <1>4

LEMMA LaterOn ==
  ASSUME NEW news, NEW then, NEW last, Later(news, then), Later(then, last)
  PROVE  Later(news, last)
  BY DEF Later

\* One page up to the tail, or until an event raises.
LEMMA ApplyPageGood ==
  ASSUME EaFits, NEW c, NEW news, Good(c, news), NEW last \in 0 .. Len(events),
         NEW s, s = ApplyPage(c, news, last)
  PROVE  Good(s.client, s.told) /\ Later(news, s.told)
  <1>1. c.cursor \in Nat /\ last \in Nat /\ Len(events) \in Nat
    BY DEF Good, ClientFits, Remembered, EaFits, HistoryFits
  <1>2. PICK n \in Nat : \E g :
           /\ n = (IF last < c.cursor THEN 0 ELSE last - c.cursor)
           /\ PageRun(g, c, news, n)
           /\ ApplyPage(c, news, last) = g[n]
    BY <1>1, PageIs
  <1>3. PICK g : /\ n = (IF last < c.cursor THEN 0 ELSE last - c.cursor)
                 /\ PageRun(g, c, news, n)
                 /\ ApplyPage(c, news, last) = g[n]
    BY <1>2
  <1> DEFINE bad == {k \in 0 .. n : ~Reached(c, news, g[k], k)}
  <1>4. SUFFICES ASSUME bad # {} PROVE FALSE
    <2>1. bad = {} => Reached(c, news, g[n], n)
      OBVIOUS
    <2> QED
      BY <1>3, <2>1 DEF Reached
  <1>5. PICK k \in bad : \A m \in bad : k <= m
    <2>1. bad \in SUBSET Nat
      OBVIOUS
    <2> HIDE DEF bad
    <2> QED
      BY <1>4, <2>1, LeastMember
  <1>6. k # 0
    <2>1. g[0] = [client |-> c, told |-> news, ok |-> TRUE]
      BY <1>3 DEF PageRun
    <2>2. Reached(c, news, g[0], 0)
      BY <1>1, <2>1 DEF Reached, Later
    <2> QED
      BY <1>5, <2>2
  <1>7. /\ k \in 1 .. n /\ k - 1 \in 0 .. n /\ k - 1 \in Nat
        /\ Reached(c, news, g[k - 1], k - 1)
    BY <1>5, <1>6
  <1>8. g[k] = IF ~g[k - 1].ok THEN g[k - 1]
               ELSE Applied(g[k - 1].client, g[k - 1].told, events[c.cursor + k])
    <2>1. PageRun(g, c, news, n)
      BY <1>3
    <2>2. k \in 1 .. n /\ k # 0 /\ k \in 0 .. n
      BY <1>5, <1>6, <1>7
    <2> HIDE DEF bad
    <2> QED
      BY <2>1, <2>2 DEF PageRun
  <1>9. PICK d, w : d = g[k - 1].client /\ w = g[k - 1].told
    OBVIOUS
  <1>10. Reached(c, news, g[k], k)
    <2>1. CASE ~g[k - 1].ok
      BY <1>7, <1>8, <2>1 DEF Reached
    <2>2. CASE g[k - 1].ok
      <3>1. Good(d, w) /\ Later(news, w) /\ d.cursor = c.cursor + (k - 1)
        BY <1>7, <1>9, <2>2 DEF Reached
      <3>2. d.cursor < Len(events) /\ d.cursor + 1 = c.cursor + k
        BY <1>1, <1>3, <1>7, <3>1
      <3>3. Reached(d, w, Applied(d, w, events[d.cursor + 1]), 1)
        BY <3>1, <3>2, AppliedGood
      <3>4. PICK t : t = Applied(d, w, events[d.cursor + 1])
        OBVIOUS
      <3>5. g[k] = t
        BY <1>8, <1>9, <2>2, <3>2, <3>4
      <3>6. /\ Good(t.client, t.told) /\ Later(w, t.told) /\ t.ok \in BOOLEAN
            /\ t.ok => t.client.cursor = d.cursor + 1
        BY <3>3, <3>4 DEF Reached
      <3>7. Later(news, t.told)
        BY <3>1, <3>6, LaterOn
      <3> QED
        BY <3>2, <3>5, <3>6, <3>7 DEF Reached
    <2> QED
      BY <2>1, <2>2
  <1> QED
    BY <1>5, <1>10

-----------------------------------------------------------------------------
(* A client that reads the whole journal. *)

\* What the journal settled meanwhile is told.
LEMMA RecoverGood ==
  ASSUME NEW c, NEW news, IsClient(c), IsNews(news), NewsFit(news), Remembered(c),
         Awaited(c, news), NEW s, s = RecoverPending(c, news)
  PROVE  Good(s.client, s.told) /\ Later(news, s.told)
  <1> DEFINE known == {r \in DOMAIN c.pending : r \in DOMAIN c.terminal}
             certain == {r \in known : c.terminal[r] # "order_unknown"}
             left == [r \in DOMAIN c.pending \ certain |-> c.pending[r] \/ r \in known]
             d == [c EXCEPT !.pending = left]
             then == [r \in Requests |-> IF r \in certain THEN Append(news[r], c.terminal[r])
                                         ELSE news[r]]
  <1>1. s.client = d /\ s.told = then
    BY DEF RecoverPending, IsClient, ClientFields
  <1>2. /\ \A r \in certain :
             /\ r \in DOMAIN c.pending /\ r \in DOMAIN c.terminal /\ r \in Requests /\ r \in mine
             /\ news[r] = <<"submitted">>
             /\ c.terminal[r] \in {"order_filled", "order_rejected"}
             /\ OutcomeIs(events, r, c.terminal[r])
    BY KindsAre DEF Awaited, NewsFit, Remembered
  <1>3. \A r \in certain : then[r] = <<"submitted", c.terminal[r]>>
    <2> SUFFICES ASSUME NEW r \in certain PROVE then[r] = <<"submitted", c.terminal[r]>>
      OBVIOUS
    <2>1. then[r] = Append(news[r], c.terminal[r]) /\ news[r] = <<"submitted">>
      BY <1>2
    <2>2. Append(<<"submitted">>, c.terminal[r]) = <<"submitted", c.terminal[r]>>
      BY AppendToOne
    <2> QED
      BY <2>1, <2>2
  <1>4. /\ DOMAIN then = Requests /\ then = [r \in Requests |-> then[r]]
        /\ \A r \in Requests : r \notin certain => then[r] = news[r]
    OBVIOUS
  <1>5. /\ IsClient(d) /\ d.cursor = c.cursor /\ d.reserved = c.reserved
        /\ d.terminal = c.terminal /\ DOMAIN d.pending = DOMAIN c.pending \ certain
    BY DEF IsClient, ClientFields
  <1>6. \A r \in DOMAIN c.pending \ certain : r \in DOMAIN c.terminal =>
             c.terminal[r] = "order_unknown"
    OBVIOUS
  <1> HIDE DEF certain, then, d
  <1>7. ASSUME NEW r \in certain
        PROVE  then[r] \in Reports /\ Sent(then, r) /\ then[r] # <<"submitted">>
    <2>1. then[r] \in Reports
      BY <1>2, <1>3 DEF Reports
    <2>2. Ended(then, r, c.terminal[r])
      BY <1>3 DEF Ended
    <2> QED
      BY <2>1, <2>2, EndedIsSent
  <1>8. IsNews(then)
    <2>1. ASSUME NEW r \in Requests
          PROVE  then[r] \in Reports
      <3>1. news[r] \in Reports
        BY DEF IsNews
      <3> QED
        BY <1>4, <1>7, <3>1
    <2> QED
      BY <1>4, <2>1 DEF IsNews
  <1>9. Later(news, then)
    BY <1>4, <1>7 DEF Later, Sent
  <1>10. NewsFit(then)
    <2>1. ASSUME NEW r \in Requests, NEW k \in TerminalKinds, Ended(then, r, k)
          PROVE  OutcomeIs(events, r, k)
      <3>1. CASE r \in certain
        <4>1. then[r][2] = k /\ then[r][2] = c.terminal[r]
          BY <1>3, <2>1, <3>1 DEF Ended
        <4> QED
          BY <1>2, <3>1, <4>1
      <3>2. CASE r \notin certain
        BY <1>4, <2>1, <3>2 DEF Ended, NewsFit
      <3> QED
        BY <3>1, <3>2
    <2> QED
      BY <1>8, <1>9, <2>1 DEF NewsFit, IsNews, Later
  <1>11. DOMAIN d.pending = {r \in mine : then[r] = <<"submitted">>}
    BY <1>2, <1>4, <1>5, <1>7 DEF Awaited, NewsFit
  <1>12. ClientFits(d, then)
    BY <1>5, <1>6, <1>11 DEF ClientFits, Remembered, Awaited
  <1> QED
    BY <1>1, <1>5, <1>8, <1>9, <1>10, <1>12 DEF Good

\* The requests of a journal, and how they ended.
LEMMA JournalRead ==
  ASSUME EaFits, NEW n, n = Len(events)
  PROVE  /\ \A r \in Reservations(n) : r \in Requests /\ Reserved(events, r)
         /\ DOMAIN Terminals(n) \subseteq Reservations(n)
         /\ \A r \in DOMAIN Terminals(n) :
              Terminals(n)[r] \in TerminalKinds /\ OutcomeIs(events, r, Terminals(n)[r])
  <1> DEFINE ended == {j \in 1 .. n : IsTerminal(events[j])}
  <1>1. /\ n \in Nat /\ DOMAIN events = 1 .. n
        /\ \A i \in 1 .. n : IsOrderEvent(events[i]) => events[i].req \in Requests
        /\ \A r \in Requests : HasOutcome(events, r) => Reserved(events, r)
    BY DEF EaFits, HistoryFits
  <1>2. \A r \in Reservations(n) : r \in Requests /\ Reserved(events, r)
    BY <1>1 DEF Reservations, Reserved, IsOrderEvent, OrderKinds
  <1>3. DOMAIN Terminals(n) = {events[i].req : i \in ended}
    BY DEF Terminals
  <1>4. ASSUME NEW r \in DOMAIN Terminals(n)
        PROVE  /\ r \in Reservations(n) /\ Terminals(n)[r] \in TerminalKinds
               /\ OutcomeIs(events, r, Terminals(n)[r])
    <2> DEFINE i == CHOOSE i \in ended : events[i].req = r
    <2>1. i \in ended /\ events[i].req = r
      BY <1>3
    <2>2. Terminals(n)[r] = events[i].kind
      BY <1>3 DEF Terminals
    <2> HIDE DEF i
    <2>3. i \in 1 .. n /\ events[i].kind \in TerminalKinds
      BY <2>1 DEF IsTerminal
    <2>4. r \in Requests /\ HasOutcome(events, r)
      BY <1>1, <2>1, <2>3 DEF HasOutcome, IsTerminal, IsOrderEvent, OrderKinds
    <2>5. r \in Reservations(n)
      BY <1>1, <2>4 DEF Reserved, Reservations
    <2>6. OutcomeIs(events, r, events[i].kind)
      BY <1>1, <2>1, <2>3 DEF OutcomeIs
    <2> QED
      BY <2>2, <2>3, <2>5, <2>6
  <1> QED
    BY <1>2, <1>4

-----------------------------------------------------------------------------
(* The inductive invariant, with the shape of its records. *)

EaFields == {"boot", "doing", "blocked", "unsaved"}
Shape == DOMAIN job = JobFields /\ DOMAIN ea = EaFields

Inv == EaFits /\ Good(client, told) /\ JobFits /\ Shape

\* Nothing the engine, the client and its process know has been taken back.
Grew ==
  /\ events' \in Seq(Line) /\ Len(events) <= Len(events')
  /\ \A r \in Requests :
       /\ Reserved(events, r) => Reserved(events', r)
       /\ \A k \in TerminalKinds : OutcomeIs(events, r, k) => OutcomeIs(events', r, k)

LEMMA GoodGrows ==
  ASSUME Inv, Grew, UNCHANGED <<client, told, mine>>
  PROVE  Good(client, told)'
  <1>1. Len(events) \in Nat /\ Len(events') \in Nat
    BY DEF Inv, EaFits, HistoryFits, Grew
  <1>2. NewsFit(told)'
    BY DEF Inv, Good, NewsFit, Grew
  <1>3. Remembered(client)'
    BY <1>1 DEF Inv, Good, ClientFits, Remembered, Grew
  <1>4. Awaited(client, told)'
    BY DEF Inv, Good, ClientFits, Awaited
  <1> QED
    BY <1>2, <1>3, <1>4 DEF Inv, Good, ClientFits, IsClient, IsNews

LEMMA JobGrows ==
  ASSUME Inv, Grew, UNCHANGED <<job, told>>,
         reply' \in {<<>>, reply} \/ reply'[1].cursor \in 0 .. Len(events')
  PROVE  JobFits'
  <1>1. Len(events) \in Nat /\ Len(events') \in Nat
    BY DEF Inv, EaFits, HistoryFits, Grew
  <1> QED
    BY <1>1 DEF Inv, JobFits, Grew

\* The EA and what is on its way, when the client moves.
LEMMA EaStays ==
  ASSUME Inv, UNCHANGED service, wire' \subseteq wire, Later(told, told')
  PROVE  EaFits'
  <1>1. ASSUME NEW s, HistoryFits(s)
        PROVE  Fits(s, ran', told', wire')
    BY <1>1, FitsIs, FitsOn DEF service
  <1>2. Fits(events, ran', told', wire')
    BY <1>1 DEF Inv, EaFits
  <1>3. ea.unsaved # <<>> => Fits(Append(events, ea.unsaved[1]), ran', told', wire')
    BY <1>1 DEF Inv, EaFits
  <1>4. HistoryFits(events)'
    BY <1>2 DEF HistoryFits, Fits, service
  <1>5. ea.unsaved # <<>> => HistoryFits(Append(events, ea.unsaved[1]))'
    BY <1>3 DEF HistoryFits, Fits, service
  <1> QED
    BY <1>4, <1>5 DEF Inv, EaFits, service

\* The client's side of the invariant, when the journal stays.
LEMMA GoodNext ==
  ASSUME UNCHANGED <<events, mine>>, Good(client', told')
  PROVE  Good(client, told)'
  BY DEF Good, ClientFits, Remembered, Awaited, NewsFit, IsClient, IsNews

\* A coroutine that ends.
LEMMA JobStops ==
  ASSUME Inv, events' = events, Stops, reply' \in {<<>>, reply}
  PROVE  JobFits' /\ DOMAIN job' = JobFields
  <1>1. Len(events) \in Nat
    BY DEF Inv, EaFits, HistoryFits
  <1>2. /\ job' = Idle /\ DOMAIN Idle = JobFields /\ Idle.kind = "none"
        /\ Idle.cursor = 0 /\ Idle.target = 0 /\ Idle.events = 0
    BY DEF Stops, Idle, JobFields
  <1>3. JobFits'
    BY <1>1, <1>2 DEF Inv, JobFits
  <1> QED
    BY <1>2, <1>3 DEF Shape

\* A client that only loses its connection, or its hold on what it may do.
LEMMA DisconnectedGood ==
  ASSUME NEW c, NEW news, Good(c, news)
  PROVE  Good(Disconnected(c), news)
  <1> DEFINE d == Disconnected(c)
  <1>1. /\ IsClient(d) /\ d.cursor = c.cursor /\ d.reserved = c.reserved
        /\ d.terminal = c.terminal /\ d.pending = c.pending
    BY DEF Disconnected, Good, IsClient, ClientFields
  <1> HIDE DEF d
  <1>2. Good(d, news)
    BY <1>1, SameMemory
  <1> QED
    BY <1>2 DEF d

LEMMA ClientMoves ==
  ASSUME Inv, UNCHANGED <<service, wire, mine>>, Good(client', told'), Later(told, told'),
         JobFits', DOMAIN job' = JobFields
  PROVE  Inv'
  <1>1. EaFits'
    BY EaStays
  <1>2. Good(client, told)'
    BY GoodNext DEF service
  <1>3. Shape'
    BY DEF Inv, Shape, service
  <1> QED
    BY <1>1, <1>2, <1>3 DEF Inv

LEMMA ClientStops ==
  ASSUME Inv, UNCHANGED <<service, wire, mine>>, Good(client', told'), Later(told, told'),
         Stops, reply' \in {<<>>, reply}
  PROVE  Inv'
  <1>1. events' = events
    BY DEF service
  <1> QED
    BY <1>1, JobStops, ClientMoves

-----------------------------------------------------------------------------
(* Connecting. *)

LEMMA JobGoesOn ==
  ASSUME Inv, UNCHANGED <<service, wire, reply, client, told, mine>>, DOMAIN job' = JobFields,
         job'.kind # "submit", {job'.cursor, job'.target, job'.events} \subseteq 0 .. Len(events)
  PROVE  Inv'
  <1>1. JobFits'
    BY DEF Inv, JobFits, service
  <1>2. Good(client', told') /\ Later(told, told')
    BY DEF Inv, Later
  <1> QED
    BY <1>1, <1>2, ClientMoves

LEMMA ConnectStep ==
  ASSUME Inv, Connect \/ Hello \/ ReadJournal \/ StartPoll \/ StartMassStatus
  PROVE  Inv'
  <1>1. /\ Len(events) \in Nat /\ DOMAIN job = JobFields
        /\ {job.cursor, job.target, job.events} \subseteq 0 .. Len(events)
    BY DEF Inv, EaFits, HistoryFits, Shape, JobFits
  <1>2. /\ DOMAIN Idle = JobFields /\ Idle.cursor = 0 /\ Idle.target = 0 /\ Idle.events = 0
    BY DEF Idle, JobFields
  <1>3. CASE Connect
    BY <1>1, <1>2, <1>3, JobGoesOn DEF Connect, JobFields
  <1>4. CASE Hello
    BY <1>1, <1>2, <1>4, JobGoesOn DEF Hello, At, JobFields
  <1>5. CASE ReadJournal
    BY <1>1, <1>2, <1>5, JobGoesOn DEF ReadJournal, At, JobFields
  <1>6. CASE StartPoll
    BY <1>1, <1>2, <1>6, JobGoesOn DEF StartPoll, JobFields
  <1>7. CASE StartMassStatus
    BY <1>1, <1>2, <1>7, JobGoesOn DEF StartMassStatus, JobFields
  <1> QED
    BY <1>3, <1>4, <1>5, <1>6, <1>7

LEMMA InstallStep ==
  ASSUME Inv, Install
  PROVE  Inv'
  <1>1. PICK c, s : c = Known(client) /\ s = RecoverPending(c, told)
    OBVIOUS
  <1>2. /\ UNCHANGED <<service, wire, mine, reply>> /\ Stops
        /\ client' = s.client /\ told' = s.told /\ job.events = Len(events)
    BY <1>1 DEF Install, Remembers
  <1>3. /\ IsClient(c) /\ c.cursor = job.events /\ c.reserved = Reservations(job.events)
        /\ c.terminal = Terminals(job.events) /\ c.pending = client.pending
    BY <1>1 DEF Known, Inv, Good, IsClient, ClientFields
  <1>4. Remembered(c)
    <2>1. Len(events) \in Nat
      BY DEF Inv, EaFits, HistoryFits
    <2> QED
      BY <1>2, <1>3, <2>1, JournalRead DEF Remembered, Inv
  <1>5. Awaited(c, told) /\ IsNews(told) /\ NewsFit(told)
    BY <1>3 DEF Inv, Good, ClientFits, Awaited
  <1>6. Good(s.client, s.told) /\ Later(told, s.told)
    BY <1>1, <1>3, <1>4, <1>5, RecoverGood
  <1> QED
    BY <1>2, <1>6, ClientStops

LEMMA ConnectFailsStep ==
  ASSUME Inv, ConnectFails
  PROVE  Inv'
  <1>1. /\ UNCHANGED <<service, wire, mine, reply, told>> /\ Stops
        /\ client' = Disconnected(client)
    BY DEF ConnectFails, Remembers
  <1>2. Good(Disconnected(client), told)
    BY DisconnectedGood DEF Inv
  <1> QED
    BY <1>1, <1>2, ClientStops DEF Later

-----------------------------------------------------------------------------
(* Reading events and snapshots. *)

LEMMA ConsumeRaisesGood ==
  ASSUME NEW c, NEW news, Good(c, news), ConsumeRaises(c)
  PROVE  Good(client', news) /\ Stops
  BY MarkUnknownGood, DisconnectedGood DEF ConsumeRaises, Remembers

LEMMA ConsumePageStep ==
  ASSUME Inv, ConsumePage
  PROVE  Inv'
  <1> DEFINE target == IF job.target = 0 THEN Len(events) ELSE job.target
             wanted == IF job.cursor = 0 THEN target ELSE job.cursor
             last == CHOOSE n \in {wanted, client.cursor + PageLimit} :
                         n <= wanted /\ n <= client.cursor + PageLimit
  <1>1. PICK s : s = ApplyPage(client, told, last)
    OBVIOUS
  <1>2. /\ UNCHANGED <<service, wire, mine, reply>> /\ told' = s.told
        /\ IF ~s.ok \/ (job.cursor # 0 /\ job.cursor <= client.cursor)
           THEN ConsumeRaises(s.client)
           ELSE IF s.client.cursor >= wanted THEN Consumed(s.client)
           ELSE Remembers(s.client) /\ job' = [job EXCEPT !.target = target]
    BY <1>1 DEF ConsumePage
  <1>3. /\ Len(events) \in Nat /\ target \in 0 .. Len(events) /\ wanted \in 0 .. Len(events)
        /\ client.cursor \in Nat /\ PageLimit \in Nat
        /\ job.cursor \in 0 .. Len(events) /\ job.events \in 0 .. Len(events)
    BY ClientAssumption
       DEF Inv, EaFits, HistoryFits, JobFits, Good, ClientFits, Remembered
  <1>4. job.kind = "submit" => job.step = "consume" /\ job.req \in Requests
    BY DEF ConsumePage, At, Inv, JobFits
  <1> HIDE DEF target, wanted
  <1>5. last \in 0 .. Len(events)
    <2>1. \E n \in {wanted, client.cursor + PageLimit} :
             n <= wanted /\ n <= client.cursor + PageLimit
      BY <1>3
    <2>2. last \in {wanted, client.cursor + PageLimit} /\ last <= wanted
      BY <2>1
    <2> HIDE DEF last
    <2> QED
      BY <1>3, <2>2
  <1> HIDE DEF last
  <1>6. Good(s.client, s.told) /\ Later(told, s.told)
    BY <1>1, <1>5, ApplyPageGood DEF Inv
  <1>7. CASE ConsumeRaises(s.client)
    BY <1>2, <1>6, <1>7, ConsumeRaisesGood, ClientStops
  <1>8. CASE Consumed(s.client)
    <2>1. CASE Stops /\ client' = s.client
      BY <1>2, <1>6, <2>1, ClientStops
    <2>2. CASE Stops /\ client' = [s.client EXCEPT !.transient = FALSE]
      <3> DEFINE d == [s.client EXCEPT !.transient = FALSE]
      <3>1. /\ IsClient(d) /\ d.cursor = s.client.cursor /\ d.reserved = s.client.reserved
            /\ d.terminal = s.client.terminal /\ d.pending = s.client.pending
        BY <1>6 DEF Good, IsClient, ClientFields
      <3> HIDE DEF d
      <3>2. Good(d, s.told)
        BY <1>6, <3>1, SameMemory
      <3>3. client' = d /\ Stops
        BY <2>2 DEF d
      <3> QED
        BY <1>2, <1>6, <3>2, <3>3, ClientStops
    <2>3. CASE job.kind # "submit" /\ Goes("snapshot") /\ client' = s.client
      <3>1. /\ DOMAIN job' = JobFields /\ job'.kind # "submit" /\ job'.cursor = job.cursor
            /\ job'.target = job.target /\ job'.events = job.events
        BY <2>3 DEF Goes, Inv, Shape, JobFields
      <3>2. JobFits'
        BY <1>2, <3>1 DEF Inv, JobFits, service
      <3> QED
        BY <1>2, <1>6, <2>3, <3>1, <3>2, ClientMoves
    <2> QED
      BY <1>8, <2>1, <2>2, <2>3 DEF Consumed, Remembers
  <1>9. CASE client' = s.client /\ job' = [job EXCEPT !.target = target]
    <2>1. /\ DOMAIN job' = JobFields /\ job'.kind = job.kind /\ job'.cursor = job.cursor
          /\ job'.target = target /\ job'.events = job.events /\ job'.step = job.step
          /\ job'.req = job.req
      BY <1>9 DEF Inv, Shape, JobFields
    <2>2. JobFits'
      BY <1>2, <1>3, <1>4, <2>1 DEF Inv, JobFits, service
    <2> QED
      BY <1>2, <1>6, <1>9, <2>1, <2>2, ClientMoves
  <1> QED
    BY <1>2, <1>7, <1>8, <1>9 DEF Remembers

\* What a client remembers of its connection and of the account decides nothing here.
LEMMA FlagsGood ==
  ASSUME NEW c, NEW news, Good(c, news), NEW t, NEW h, NEW p
  PROVE  /\ Good([c EXCEPT !.transient = t], news)
         /\ Good([c EXCEPT !.healthy = h], news)
         /\ Good([c EXCEPT !.healthy = h, !.transient = t], news)
         /\ Good([c EXCEPT !.transient = t, !.healthy = h], news)
         /\ Good([c EXCEPT !.positions = p, !.healthy = h, !.transient = t], news)
  <1>1. ASSUME NEW d, d \in {[c EXCEPT !.transient = t],
                             [c EXCEPT !.healthy = h],
                             [c EXCEPT !.healthy = h, !.transient = t],
                             [c EXCEPT !.transient = t, !.healthy = h],
                             [c EXCEPT !.positions = p, !.healthy = h, !.transient = t]}
        PROVE  Good(d, news)
    <2>1. /\ IsClient(d) /\ d.cursor = c.cursor /\ d.reserved = c.reserved
          /\ d.terminal = c.terminal /\ d.pending = c.pending
      BY <1>1 DEF Good, IsClient, ClientFields
    <2> QED
      BY <2>1, SameMemory
  <1> QED
    BY <1>1

LEMMA ConsumeFailsStep ==
  ASSUME Inv, ConsumeFails
  PROVE  Inv'
  <1>1. UNCHANGED <<service, wire, mine, reply, told>> /\ Later(told, told')
    BY DEF ConsumeFails, Later
  <1>2. CASE ConsumeRaises(client)
    BY <1>1, <1>2, ConsumeRaisesGood, ClientStops DEF Inv
  <1>3. CASE /\ Stops
             /\ client' = [MarkUnknown(client, job.req) EXCEPT
                             !.transient = TRUE, !.healthy = @ /\ job.kind # "report"]
    <2>1. PICK c : c = MarkUnknown(client, job.req)
      OBVIOUS
    <2>2. PICK h : h = (c.healthy /\ job.kind # "report")
      OBVIOUS
    <2>3. Good(c, told)
      BY <2>1, MarkUnknownGood DEF Inv
    <2>4. IsClient(c)
      BY <2>3 DEF Good
    <2>5. client' = [c EXCEPT !.transient = TRUE, !.healthy = h]
      BY <1>3, <2>1, <2>2, <2>4 DEF IsClient, ClientFields
    <2>6. Good(client', told)
      BY <2>3, <2>5, FlagsGood
    <2> QED
      BY <1>1, <1>3, <2>6, ClientStops
  <1> QED
    BY <1>2, <1>3 DEF ConsumeFails, Remembers

LEMMA ReadSnapshotStep ==
  ASSUME Inv, ReadSnapshot
  PROVE  Inv'
  <1>1. /\ UNCHANGED <<service, wire, mine, reply, told, client>> /\ job.step = "snapshot"
        /\ job' = [job EXCEPT !.step = "tail", !.positions = ran]
    BY DEF ReadSnapshot, At
  <1>2. /\ DOMAIN job' = JobFields /\ job'.kind = job.kind /\ job'.cursor = job.cursor
        /\ job'.target = job.target /\ job'.events = job.events /\ job'.req = job.req
    BY <1>1 DEF Inv, Shape, JobFields
  <1>3. JobFits'
    BY <1>1, <1>2 DEF Inv, JobFits, service
  <1> QED
    BY <1>1, <1>2, <1>3, ClientMoves DEF Inv, Later

LEMMA VerifyTailStep ==
  ASSUME Inv, VerifyTail
  PROVE  Inv'
  <1>1. /\ UNCHANGED <<service, wire, mine, reply, told>> /\ job.step = "tail"
        /\ client' = Refreshed /\ AfterRefresh /\ job.kind \in {"submit", "poll", "report"}
    BY DEF VerifyTail, At, Remembers
  <1>2. Good(Refreshed, told)
    BY FlagsGood DEF Refreshed, Inv
  <1>3. CASE Stops
    BY <1>1, <1>2, <1>3, ClientStops DEF Later
  <1>4. ASSUME NEW step, Goes(step)
        PROVE  Inv'
    <2>1. /\ DOMAIN job' = JobFields /\ job'.kind = job.kind /\ job'.cursor = job.cursor
          /\ job'.target = job.target /\ job'.events = job.events /\ job'.req = job.req
      BY <1>4 DEF Goes, Inv, Shape, JobFields
    <2>2. JobFits'
      BY <1>1, <2>1 DEF Inv, JobFits, service
    <2> QED
      BY <1>1, <1>2, <2>1, <2>2, ClientMoves DEF Later
  <1> QED
    BY <1>1, <1>3, <1>4 DEF AfterRefresh

\* An order that is denied before it goes out.
LEMMA DeniedGood ==
  ASSUME NEW c, NEW news, Good(c, news), NEW r \in Requests, news[r] = <<>>
  PROVE  Good(c, Tell(news, r, "denied")) /\ Later(news, Tell(news, r, "denied"))
  <1> DEFINE then == Tell(news, r, "denied")
  <1>1. /\ IsNews(then) /\ then[r] = <<"denied">>
        /\ \A q \in Requests : q # r => then[q] = news[q]
    <2>1. DOMAIN news = Requests /\ \A q \in Requests : news[q] \in Reports
      BY DEF Good, IsNews
    <2>2. Append(<<>>, "denied") = <<"denied">>
      OBVIOUS
    <2>3. /\ then = [q \in Requests |-> then[q]] /\ then[r] = <<"denied">>
          /\ \A q \in Requests : q # r => then[q] = news[q]
      BY <2>1, <2>2 DEF Tell
    <2> HIDE DEF then
    <2>4. \A q \in Requests : then[q] \in Reports
      BY <2>1, <2>3 DEF Reports
    <2> QED
      BY <2>3, <2>4 DEF IsNews
  <1> HIDE DEF then
  <1>2. /\ ~Sent(news, r) /\ ~Sent(then, r) /\ news[r] # <<"submitted">>
        /\ then[r] # <<"submitted">> /\ \A k : ~Ended(then, r, k)
    <2>1. /\ Len(<<>>) = 0 /\ Len(<<"submitted">>) = 1 /\ <<"denied">>[1] = "denied"
          /\ <<"submitted">>[1] = "submitted" /\ Len(<<"denied">>) = 1
          /\ \A k : Len(<<"submitted", k>>) = 2
      OBVIOUS
    <2> QED
      BY <1>1, <2>1 DEF Sent, Ended
  <1>3. \A q \in Requests : Sent(then, q) <=> Sent(news, q)
    BY <1>1, <1>2 DEF Sent
  <1>4. NewsFit(then)
    <2>1. ASSUME NEW q \in Requests, NEW k \in TerminalKinds, Ended(then, q, k)
          PROVE  OutcomeIs(events, q, k)
      <3>1. q # r
        BY <1>2, <2>1
      <3> QED
        BY <1>1, <2>1, <3>1 DEF Ended, Good, NewsFit
    <2> QED
      BY <1>1, <1>3, <2>1 DEF NewsFit, IsNews, Good
  <1>5. Awaited(c, then)
    BY <1>1, <1>2 DEF Good, ClientFits, Awaited, NewsFit
  <1>6. Good(c, then) /\ Later(news, then)
    BY <1>1, <1>3, <1>4, <1>5 DEF Good, ClientFits, Later
  <1> QED
    BY <1>6 DEF then

LEMMA DeniesGood ==
  ASSUME NEW c, Good(c, told), Denies, JobFits,
         job.kind = "submit" => job.step \in {"snapshot", "tail", "gate"}
  PROVE  Good(c, told') /\ Later(told, told')
  <1>1. CASE job.kind = "submit"
    <2>1. job.req \in Requests /\ told[job.req] = <<>>
      BY <1>1 DEF JobFits
    <2>2. told' = Tell(told, job.req, "denied")
      BY <1>1 DEF Denies
    <2> QED
      BY <2>1, <2>2, DeniedGood
  <1>2. CASE job.kind # "submit"
    BY <1>2 DEF Denies, Later
  <1> QED
    BY <1>1, <1>2

LEMMA RefreshFailsStep ==
  ASSUME Inv, RefreshFails
  PROVE  Inv'
  <1>1. /\ UNCHANGED <<service, wire, mine, reply>> /\ Denies /\ Stops
        /\ job.step \in {"snapshot", "tail"}
        /\ client' \in {[client EXCEPT !.healthy = FALSE, !.transient = TRUE],
                        [client EXCEPT !.healthy = FALSE], Disconnected(client)}
    BY DEF RefreshFails, At, Remembers
  <1>2. PICK c : c = client'
    OBVIOUS
  <1>3. Good(c, told)
    <2>1. /\ Good([client EXCEPT !.healthy = FALSE, !.transient = TRUE], told)
          /\ Good([client EXCEPT !.healthy = FALSE], told)
      BY FlagsGood DEF Inv
    <2>2. Good(Disconnected(client), told)
      BY DisconnectedGood DEF Inv
    <2> QED
      BY <1>1, <1>2, <2>1, <2>2
  <1>4. Good(c, told') /\ Later(told, told')
    BY <1>1, <1>3, DeniesGood DEF Inv
  <1> QED
    BY <1>1, <1>2, <1>4, ClientStops

\* The engine is given the ends it has not heard of, when nothing is left open.
LEMMA ReportGood ==
  ASSUME Inv, Reportable, NEW then, then = [r \in Requests |-> WithReport(r)]
  PROVE  Good(client, then) /\ Later(told, then)
  <1>1. /\ IsNews(told) /\ NewsFit(told) /\ ClientFits(client, told) /\ IsClient(client)
        /\ DOMAIN client.pending = {}
    BY DEF Inv, Good, Reportable
  <1>2. ASSUME NEW r \in Requests
        PROVE  \/ then[r] = told[r]
               \/ /\ told[r] = <<"submitted">> /\ then[r] = <<"submitted", client.terminal[r]>>
                  /\ client.terminal[r] \in {"order_filled", "order_rejected"}
                  /\ OutcomeIs(events, r, client.terminal[r])
    <2>1. then[r] = WithReport(r)
      OBVIOUS
    <2>2. CASE r \in DOMAIN client.terminal /\ ~ToldEnd(r)
      <3>1. /\ client.terminal[r] \in TerminalKinds /\ client.terminal[r] # "order_unknown"
            /\ OutcomeIs(events, r, client.terminal[r]) /\ Reserved(events, r)
        BY <1>1, <2>2 DEF ClientFits, Remembered, Reportable, Unsure
      <3>2. Sent(told, r)
        BY <3>1 DEF Inv, EaFits, HistoryFits
      <3>3. ASSUME NEW k \in TerminalKinds, Ended(told, r, k)
            PROVE  FALSE
        <4>1. 2 \in DOMAIN told[r] /\ told[r][2] = k
          BY <3>3 DEF Ended
        <4> QED
          BY <2>2, <4>1 DEF ToldEnd
      <3>4. told[r] = <<"submitted">>
        BY <1>1, <3>2, <3>3, ReportsAre, KindsAre
      <3>5. Append(<<"submitted">>, client.terminal[r]) = <<"submitted", client.terminal[r]>>
        BY AppendToOne
      <3> QED
        BY <2>1, <2>2, <3>1, <3>4, <3>5, KindsAre DEF WithReport
    <2>3. CASE ~(r \in DOMAIN client.terminal /\ ~ToldEnd(r))
      BY <2>1, <2>3 DEF WithReport
    <2> QED
      BY <2>2, <2>3
  <1>3. DOMAIN then = Requests /\ then = [r \in Requests |-> then[r]]
    OBVIOUS
  <1>4. ASSUME NEW r \in Requests
        PROVE  /\ then[r] \in Reports
               /\ Sent(told, r) => Sent(then, r)
               /\ then[r] = <<"submitted">> => told[r] = <<"submitted">>
               /\ \A k \in TerminalKinds : Ended(then, r, k) => OutcomeIs(events, r, k)
    <2>1. CASE then[r] = told[r]
      BY <1>1, <2>1 DEF IsNews, Sent, Ended, NewsFit
    <2>2. CASE /\ told[r] = <<"submitted">> /\ then[r] = <<"submitted", client.terminal[r]>>
               /\ client.terminal[r] \in {"order_filled", "order_rejected"}
               /\ OutcomeIs(events, r, client.terminal[r])
      <3>1. then[r] \in Reports
        BY <2>2 DEF Reports
      <3>2. Ended(then, r, client.terminal[r])
        BY <2>2 DEF Ended
      <3>4. \A k : Ended(then, r, k) => k = client.terminal[r]
        <4>1. ASSUME NEW k, Ended(then, r, k) PROVE k = client.terminal[r]
          <5>1. then[r][2] = k
            BY <4>1 DEF Ended
          <5>2. then[r][2] = client.terminal[r]
            BY <2>2
          <5> QED
            BY <5>1, <5>2
        <4> QED
          BY <4>1
      <3>5. \A k \in TerminalKinds : Ended(then, r, k) => OutcomeIs(events, r, k)
        BY <2>2, <3>4
      <3>6. Sent(then, r) /\ then[r] # <<"submitted">>
        BY <3>2, EndedIsSent
      <3> QED
        BY <3>1, <3>5, <3>6
    <2> QED
      BY <1>2, <2>1, <2>2
  <1> HIDE DEF WithReport
  <1>5. IsNews(then) /\ Later(told, then)
    BY <1>3, <1>4 DEF IsNews, Later
  <1>6. NewsFit(then)
    BY <1>1, <1>4, <1>5 DEF NewsFit, IsNews
  <1>7. Awaited(client, then)
    BY <1>1, <1>4 DEF ClientFits, Awaited, NewsFit
  <1> QED
    BY <1>1, <1>5, <1>6, <1>7 DEF Good, ClientFits

LEMMA ReportStep ==
  ASSUME Inv, Report
  PROVE  Inv'
  <1>1. UNCHANGED <<service, wire, mine, reply>> /\ Stops
    BY DEF Report
  <1>2. CASE told' = told /\ client' \in {client, Disconnected(client)}
    <2>1. Good(client', told') /\ Later(told, told')
      BY <1>2, DisconnectedGood DEF Inv, Later
    <2> QED
      BY <1>1, <2>1, ClientStops
  <1>3. CASE Reportable /\ told' = [r \in Requests |-> WithReport(r)] /\ client' = client
    <2>1. PICK then : then = [r \in Requests |-> WithReport(r)]
      OBVIOUS
    <2>2. Good(client, then) /\ Later(told, then)
      BY <1>3, <2>1, ReportGood
    <2> QED
      BY <1>1, <1>3, <2>1, <2>2, ClientStops
  <1> QED
    BY <1>2, <1>3 DEF Report, Remembers

-----------------------------------------------------------------------------
(* Submitting. *)

LEMMA SubmitOrderStep ==
  ASSUME Inv, NEW r \in Requests, NEW force \in BOOLEAN, SubmitOrder(r, force)
  PROVE  Inv'
  <1>1. /\ UNCHANGED <<service, wire, reply, client, mine>> /\ told[r] = <<>>
    BY DEF SubmitOrder
  <1>2. PICK then : then = Tell(told, r, "denied")
    OBVIOUS
  <1>3. Good(client, then) /\ Later(told, then)
    BY <1>1, <1>2, DeniedGood DEF Inv
  <1>4. CASE told' = Tell(told, r, "denied") /\ job' = Idle
    BY <1>1, <1>2, <1>3, <1>4, ClientStops DEF Stops
  <1>5. CASE /\ told' = Tell(told, r, "denied") /\ job' = job
             /\ job.kind \in {"none", "connect"} \/ job = Idle
    <2>1. job.kind # "submit"
      BY <1>5 DEF Idle
    <2>2. JobFits'
      BY <1>1, <1>5, <2>1 DEF Inv, JobFits, service
    <2> QED
      BY <1>1, <1>2, <1>3, <1>5, <2>2, ClientMoves DEF Inv, Shape
  <1>6. CASE /\ told' = told
             /\ job' = [Idle EXCEPT !.kind = "submit", !.req = r, !.force = force,
                                    !.step = IF force THEN "snapshot" ELSE "gate"]
    <2>1. /\ DOMAIN job' = JobFields /\ job'.kind = "submit" /\ job'.req = r
          /\ job'.cursor = 0 /\ job'.target = 0 /\ job'.events = 0
      BY <1>6 DEF Idle, JobFields
    <2>2. Len(events) \in Nat
      BY DEF Inv, EaFits, HistoryFits
    <2>3. JobFits'
      BY <1>1, <1>6, <2>1, <2>2 DEF Inv, JobFits, service
    <2> QED
      BY <1>1, <1>6, <2>1, <2>3, ClientMoves DEF Inv, Later
  <1> QED
    BY <1>4, <1>5, <1>6 DEF SubmitOrder

LEMMA GateDeniesStep ==
  ASSUME Inv, GateDenies
  PROVE  Inv'
  <1>1. /\ UNCHANGED <<service, wire, reply, client, mine>> /\ Denies /\ Stops
        /\ job.step = "gate"
    BY DEF GateDenies, At
  <1>2. Good(client, told') /\ Later(told, told')
    BY <1>1, DeniesGood DEF Inv
  <1> QED
    BY <1>1, <1>2, ClientStops

\* An order goes out when nothing else does.
LEMMA GateAdmitsStep ==
  ASSUME Inv, GateAdmits
  PROVE  Inv'
  <1> DEFINE r == job.req
             m == [req |-> r, boot |-> client.boot]
             c == [client EXCEPT !.pending = With(@, r, FALSE), !.seen = @ \union {r}]
             then == Tell(told, r, "submitted")
  <1>1. /\ UNCHANGED service /\ job.kind = "submit" /\ job.step = "gate"
        /\ DOMAIN client.pending = {} /\ client' = c /\ told' = then
        /\ wire' = wire \union {m} /\ mine' = mine \union {r} /\ Goes("answer") /\ reply' = <<>>
    BY DEF GateAdmits, At, Hold, Remembers
  <1>2. /\ r \in Requests /\ told[r] = <<>> /\ m.req = r
    BY <1>1 DEF Inv, JobFits
  <1>3. /\ IsClient(c) /\ c.cursor = client.cursor /\ c.reserved = client.reserved
        /\ c.terminal = client.terminal /\ DOMAIN c.pending = {r}
    BY <1>1 DEF With, Inv, Good, IsClient, ClientFields
  <1>4. /\ then = [q \in Requests |-> then[q]] /\ DOMAIN then = Requests
        /\ then[r] = <<"submitted">> /\ \A q \in Requests : q # r => then[q] = told[q]
    <2>1. DOMAIN told = Requests
      BY DEF Inv, Good, IsNews
    <2>2. Append(<<>>, "submitted") = <<"submitted">>
      OBVIOUS
    <2> QED
      BY <1>2, <2>1, <2>2 DEF Tell
  <1> HIDE DEF then, c, m, r
  <1>5. IsNews(then)
    <2>1. ASSUME NEW q \in Requests
          PROVE  then[q] \in Reports
      <3>1. told[q] \in Reports
        BY DEF Inv, Good, IsNews
      <3>2. <<"submitted">> \in Reports
        BY DEF Reports
      <3> QED
        BY <1>4, <3>1, <3>2
    <2> QED
      BY <1>4, <2>1 DEF IsNews
  <1>6. ~Sent(told, r) /\ Sent(then, r) /\ \A k : ~Ended(then, r, k)
    <2>1. \A k : Len(<<"submitted", k>>) = 2 /\ Len(<<"submitted">>) = 1
      OBVIOUS
    <2> QED
      BY <1>2, <1>4, <2>1 DEF Sent, Ended
  <1>7. Later(told, then)
    BY <1>4, <1>6 DEF Later, Sent
  <1>8. /\ ~Reserved(events, r)
        /\ ea.unsaved # <<>> => ~Reserved(Append(events, ea.unsaved[1]), r)
        /\ \A n \in wire : n.req # r
    BY <1>2, <1>6 DEF Inv, EaFits, HistoryFits
  <1>9. EaFits'
    <2>1. ASSUME NEW s, HistoryFits(s), ~Reserved(s, r)
          PROVE  Fits(s, ran', told', wire')
      <3>1. Fits(s, ran, then, wire)
        BY <1>7, <2>1, FitsIs, FitsOn
      <3>2. Fits(s, ran, then, wire \union {m})
        BY <1>2, <1>6, <2>1, <3>1, FitsSent
      <3> QED
        BY <1>1, <3>2 DEF service
    <2>2. HistoryFits(events)'
      <3>1. Fits(events, ran', told', wire')
        BY <1>8, <2>1 DEF Inv, EaFits
      <3> QED
        BY <1>1, <3>1 DEF HistoryFits, Fits, service
    <2>3. ea.unsaved # <<>> => HistoryFits(Append(events, ea.unsaved[1]))'
      <3>1. ea.unsaved # <<>> => Fits(Append(events, ea.unsaved[1]), ran', told', wire')
        BY <1>8, <2>1 DEF Inv, EaFits
      <3> QED
        BY <1>1, <3>1 DEF HistoryFits, Fits, service
    <2>4. \A n, o \in wire' : n.req = o.req => n = o
      BY <1>1, <1>2, <1>8 DEF Inv, EaFits
    <2> QED
      BY <1>1, <2>2, <2>3, <2>4 DEF Inv, EaFits, service
  <1>10. Good(client, told)'
    <2>1. NewsFit(told)'
      <3>1. ASSUME NEW q \in Requests, NEW k \in TerminalKinds, Ended(then, q, k)
            PROVE  OutcomeIs(events, q, k)
        <4>1. q # r
          BY <1>6, <3>1
        <4> QED
          BY <1>4, <3>1, <4>1 DEF Ended, Inv, Good, NewsFit
      <3>2. mine' \subseteq {q \in Requests : Sent(then, q)}
        BY <1>1, <1>2, <1>6, <1>7 DEF Inv, Good, NewsFit, Later
      <3>3. \A q \in Requests : then[q] \in Reports
        BY <1>5 DEF IsNews
      <3>4. events' = events
        BY <1>1 DEF service
      <3> QED
        BY <1>1, <3>1, <3>2, <3>3, <3>4 DEF NewsFit
    <2>2. Remembered(client)'
      BY <1>1, <1>3 DEF Inv, Good, ClientFits, Remembered, service
    <2>3. Awaited(client, told)'
      <3>1. {q \in mine : told[q] = <<"submitted">>} = {}
        BY <1>1 DEF Inv, Good, ClientFits, Awaited
      <3>2. {q \in mine' : then[q] = <<"submitted">>} = {r}
        <4>1. mine' = mine \union {r} /\ mine \subseteq Requests
          BY <1>1 DEF Inv, Good, NewsFit
        <4>2. then[r] = <<"submitted">> /\ \A q \in mine : q # r => then[q] = told[q]
          BY <1>4, <4>1
        <4> QED
          BY <3>1, <4>1, <4>2
      <3> QED
        BY <1>1, <1>3, <3>2 DEF Awaited
    <2>4. r \notin DOMAIN c.terminal
      BY <1>3, <1>8 DEF Inv, Good, ClientFits, Remembered
    <2> QED
      BY <1>1, <1>3, <1>5, <2>1, <2>2, <2>3, <2>4 DEF Good, ClientFits, IsClient, IsNews
  <1>11. JobFits' /\ Shape'
    <2>1. /\ DOMAIN job' = JobFields /\ job'.kind = job.kind /\ job'.cursor = job.cursor
          /\ job'.target = job.target /\ job'.events = job.events /\ job'.req = job.req
          /\ job'.step = "answer"
      BY <1>1 DEF Goes, Inv, Shape, JobFields
    <2> QED
      BY <1>1, <2>1 DEF Inv, JobFits, Shape, service
  <1> QED
    BY <1>9, <1>10, <1>11 DEF Inv

LEMMA TakeAnswerStep ==
  ASSUME Inv, TakeAnswer
  PROVE  Inv'
  <1>1. UNCHANGED <<service, wire, told, mine>> /\ reply # <<>> /\ reply' = <<>>
    BY DEF TakeAnswer
  <1>2. CASE Stops /\ client' = MarkUnknown(client, job.req)
    <2>1. Good(client', told)
      BY <1>2, MarkUnknownGood DEF Inv
    <2> QED
      BY <1>1, <1>2, <2>1, ClientStops DEF Later
  <1>3. CASE client' = client /\ job' = [job EXCEPT !.step = "consume", !.cursor = reply[1].cursor]
    <2>1. /\ DOMAIN job' = JobFields /\ job'.kind = job.kind /\ job'.cursor = reply[1].cursor
          /\ job'.target = job.target /\ job'.events = job.events /\ job'.req = job.req
          /\ job'.step = "consume"
      BY <1>3 DEF Inv, Shape, JobFields
    <2>2. JobFits'
      BY <1>1, <2>1 DEF Inv, JobFits, service
    <2> QED
      BY <1>1, <1>3, <2>1, <2>2, ClientMoves DEF Inv, Later
  <1> QED
    BY <1>2, <1>3 DEF TakeAnswer, Remembers

LEMMA AnswerIsLateStep ==
  ASSUME Inv, AnswerIsLate
  PROVE  Inv'
  <1>1. PICK c : c = MarkUnknown(client, job.req)
    OBVIOUS
  <1>2. Good(c, told)
    BY <1>1, MarkUnknownGood DEF Inv
  <1>3. /\ UNCHANGED <<service, wire, told, mine>> /\ Stops /\ reply' = <<>>
        /\ client' = [c EXCEPT !.transient = TRUE]
    BY <1>1 DEF AnswerIsLate, Remembers
  <1>4. Good(client', told)
    BY <1>2, <1>3, FlagsGood
  <1> QED
    BY <1>3, <1>4, ClientStops DEF Later

-----------------------------------------------------------------------------
(* Losing the connection and the process. *)

LEMMA DisconnectStep ==
  ASSUME Inv, Disconnect
  PROVE  Inv'
  <1>1. PICK c : c = MarkUnknown(client, job.req)
    OBVIOUS
  <1>2. Good(c, told)
    BY <1>1, MarkUnknownGood DEF Inv
  <1>3. /\ UNCHANGED <<service, wire, told, mine>> /\ Stops /\ reply' = <<>>
        /\ client' = Disconnected(c)
    BY <1>1 DEF Disconnect, Remembers
  <1>4. Good(client', told)
    BY <1>2, <1>3, DisconnectedGood
  <1> QED
    BY <1>3, <1>4, ClientStops DEF Later

LEMMA NewClientIs ==
  /\ IsClient(NewClient) /\ NewClient.cursor = 0 /\ NewClient.reserved = {}
  /\ DOMAIN NewClient.terminal = {} /\ DOMAIN NewClient.pending = {}
  BY DEF NewClient, IsClient, ClientFields

LEMMA ClientDiesStep ==
  ASSUME Inv, ClientDies
  PROVE  Inv'
  <1>1. /\ UNCHANGED <<service, wire, told>> /\ Stops /\ reply' = <<>> /\ mine' = {}
        /\ client' = NewClient
    BY DEF ClientDies, Remembers
  <1>2. EaFits'
    BY <1>1, EaStays DEF Later
  <1>3. Good(client, told)'
    <2>1. Len(events) \in Nat /\ events' = events
      BY <1>1 DEF Inv, EaFits, HistoryFits, service
    <2> QED
      BY <1>1, <2>1, NewClientIs
         DEF Inv, Good, ClientFits, Remembered, Awaited, NewsFit, IsClient, IsNews
  <1>4. JobFits' /\ Shape'
    <2>1. events' = events /\ ea' = ea
      BY <1>1 DEF service
    <2>2. JobFits' /\ DOMAIN job' = JobFields
      BY <1>1, <2>1, JobStops
    <2> QED
      BY <2>1, <2>2 DEF Inv, Shape
  <1> QED
    BY <1>2, <1>3, <1>4 DEF Inv

-----------------------------------------------------------------------------
(* The EA and the wire. *)

\* A step of the EA leaves the client as it is.
LEMMA EaMoves ==
  ASSUME Inv, UNCHANGED <<client, job, told, mine>>, Grew, EaFits', DOMAIN ea' = EaFields,
         reply' \in {<<>>, reply} \/ reply'[1].cursor \in 0 .. Len(events')
  PROVE  Inv'
  <1>1. Good(client, told)'
    BY GoodGrows
  <1>2. JobFits'
    BY JobGrows
  <1> QED
    BY <1>1, <1>2 DEF Inv, Shape

LEMMA NothingNewGrew ==
  ASSUME Inv, events' = events
  PROVE  Grew
  <1>1. events \in Seq(Line) /\ Len(events) \in Nat
    BY DEF Inv, EaFits, HistoryFits
  <1> QED
    BY <1>1 DEF Grew

LEMMA OneLineGrew ==
  ASSUME Inv, NEW line \in Line, events' = Append(events, line)
  PROVE  Grew
  <1>1. events \in Seq(Line) /\ Len(events) \in Nat
    BY DEF Inv, EaFits, HistoryFits
  <1>2. /\ Append(events, line) \in Seq(Line) /\ Len(Append(events, line)) = Len(events) + 1
        /\ \A r \in Requests :
             /\ Reserved(events, r) => Reserved(Append(events, line), r)
             /\ \A k \in Kinds : OutcomeIs(events, r, k) => OutcomeIs(Append(events, line), r, k)
    BY <1>1, JournalGrows
  <1> QED
    BY <1>1, <1>2, KindsAre DEF Grew

LEMMA BootsCount == ASSUME Inv PROVE Cardinality(Boots) \in Nat
  <1>1. Boots \subseteq 0 .. MaxBoots
    <2>1. events \in Seq(Line)
      BY DEF Inv, EaFits, HistoryFits
    <2>2. ASSUME NEW i \in DOMAIN events
          PROVE  events[i].boot \in 0 .. MaxBoots
      <3>1. events[i] \in Line
        BY <2>1
      <3> QED
        BY <3>1 DEF Line
    <2> QED
      BY <2>2 DEF Boots
  <1>2. IsFiniteSet(0 .. MaxBoots)
    BY RequestAssumption, FS_Interval
  <1> QED
    BY <1>1, <1>2, FS_Subset, FS_CardinalityType

LEMMA EaStartsStep ==
  ASSUME Inv, EaStarts
  PROVE  Inv'
  <1> DEFINE boot == Cardinality(Boots) + 1
  <1>1. PICK left \in {events, events \o ea.unsaved} :
           events' = Append(left, NewLine(left, "stream_started", NoRequest, NoRequest, boot))
    BY DEF EaStarts
  <1>2. /\ ea' = Free(boot) /\ UNCHANGED <<ran, wire, reply, client, job, told, mine>>
        /\ Cardinality(Boots) < MaxBoots
    BY DEF EaStarts
  <1>3. boot \in 0 .. MaxBoots
    BY <1>2, BootsCount, RequestAssumption
  <1> HIDE DEF boot
  <1>4. events \in Seq(Line) /\ Fits(events, ran, told, wire)
    BY FitsIs DEF Inv, EaFits, HistoryFits
  <1>5. \/ left = events
        \/ /\ ea.unsaved[1] \in Line /\ left = Append(events, ea.unsaved[1])
           /\ Fits(left, ran, told, wire)
    <2>1. CASE ea.unsaved = <<>>
      BY <1>4, <2>1, ConcatEmptySeq
    <2>2. CASE ea.unsaved # <<>>
      <3>1. PICK u : u = ea.unsaved[1]
        OBVIOUS
      <3>2. ea.unsaved = <<u>> /\ u \in Line /\ HistoryFits(Append(events, u))
        BY <2>2, <3>1 DEF Inv, EaFits
      <3>3. events \o <<u>> = Append(events, u)
        BY <1>4, <3>2, AppendIsConcat
      <3>4. left = events \/ left = Append(events, u)
        BY <3>2, <3>3
      <3> QED
        BY <3>1, <3>2, <3>4, FitsIs
    <2> QED
      BY <2>1, <2>2
  <1>6. left \in Seq(Line) /\ Fits(left, ran, told, wire)
    BY <1>4, <1>5 DEF Fits
  <1>7. PICK line : line = NewLine(left, "stream_started", NoRequest, NoRequest, boot)
    OBVIOUS
  <1>8. line \in Line /\ line.kind = "stream_started"
    <2>1. "stream_started" \in Kinds /\ NoRequest \in Requests \union {NoRequest}
      BY KindsAre
    <2> QED
      BY <1>3, <1>6, <1>7, <2>1, LineIs
  <1>9. events' = Append(left, line)
    BY <1>1, <1>7
  <1>10. Grew
    <2>1. /\ Append(left, line) \in Seq(Line) /\ Len(Append(left, line)) = Len(left) + 1
          /\ \A r \in Requests :
               /\ Reserved(left, r) => Reserved(Append(left, line), r)
               /\ \A k \in Kinds : OutcomeIs(left, r, k) => OutcomeIs(Append(left, line), r, k)
      BY <1>6, <1>8, JournalGrows
    <2>2. /\ Len(events) <= Len(left) /\ Len(left) \in Nat /\ Len(events) \in Nat
          /\ \A r \in Requests :
               /\ Reserved(events, r) => Reserved(left, r)
               /\ \A k \in Kinds : OutcomeIs(events, r, k) => OutcomeIs(left, r, k)
      <3>1. CASE left = events
        BY <1>4, <3>1
      <3>2. CASE ea.unsaved[1] \in Line /\ left = Append(events, ea.unsaved[1])
        BY <1>4, <3>2, JournalGrows
      <3> QED
        BY <1>5, <3>1, <3>2
    <2> QED
      BY <1>9, <2>1, <2>2, KindsAre DEF Grew
  <1>11. EaFits'
    <2>1. Fits(events', ran, told, wire)
      BY <1>6, <1>8, <1>9, FitsStart
    <2>2. HistoryFits(events)'
      BY <1>2, <2>1 DEF HistoryFits, Fits
    <2> QED
      BY <1>2, <1>3, <2>2 DEF Inv, EaFits, Free
  <1>12. DOMAIN ea' = EaFields
    BY <1>2 DEF Free, EaFields
  <1> QED
    BY <1>2, <1>10, <1>11, <1>12, EaMoves

LEMMA EaDiesStep ==
  ASSUME Inv, EaDies
  PROVE  Inv'
  <1>1. /\ UNCHANGED <<events, wire, client, job, told, mine>> /\ reply' = <<>>
        /\ ea' = [ea EXCEPT !.boot = 0, !.doing = NoRequest]
        /\ ran' \in {ran, IF ea.doing = NoRequest THEN ran ELSE ran \union {ea.doing}}
    BY DEF EaDies
  <1>2. /\ DOMAIN ea' = EaFields /\ ea'.boot = 0 /\ ea'.doing = NoRequest
        /\ ea'.unsaved = ea.unsaved /\ ea'.blocked = ea.blocked
    BY <1>1 DEF Inv, Shape, EaFields
  <1>3. HistoryFits(events)' /\ ran' \subseteq Requests
    <2>1. Fits(events, ran', told, wire)
      <3>1. CASE ran' = ran
        BY <3>1, FitsIs DEF Inv, EaFits
      <3>2. CASE ea.doing # NoRequest /\ ran' = ran \union {ea.doing}
        BY <3>2, FitsIs, FitsRun DEF Inv, EaFits
      <3> QED
        BY <1>1, <3>1, <3>2
    <2> QED
      BY <1>1, <2>1 DEF HistoryFits, Fits, Inv, EaFits
  <1>4. ea.unsaved # <<>> => HistoryFits(Append(events, ea.unsaved[1]))'
    <2>1. ea.unsaved # <<>> => ran' = ran /\ Fits(Append(events, ea.unsaved[1]), ran, told, wire)
      BY <1>1, FitsIs DEF Inv, EaFits
    <2> QED
      BY <1>1, <1>2, <2>1 DEF HistoryFits, Fits
  <1>5. EaFits'
    BY <1>1, <1>2, <1>3, <1>4, RequestAssumption DEF Inv, EaFits
  <1> QED
    BY <1>1, <1>2, <1>5, NothingNewGrew, EaMoves

LEMMA EaReceivesStep ==
  ASSUME Inv, NEW m \in wire, EaReceives(m)
  PROVE  Inv'
  <1> DEFINE line == NewLine(events, "submission_reserved", m.req, NoRequest, ea.boot)
             way == wire \ {m}
  <1>1. /\ UNCHANGED <<ran, client, job, told, mine>> /\ wire' = way
        /\ Running /\ ea.doing = NoRequest
    BY DEF EaReceives
  <1>2. /\ m.req \in Requests /\ Sent(told, m.req) /\ ~Reserved(events, m.req)
        /\ \A n \in way : n.req # m.req
        /\ events \in Seq(Line) /\ ea.boot \in 0 .. MaxBoots
    BY DEF Inv, EaFits, HistoryFits
  <1>3. line \in Line /\ line.kind = "submission_reserved" /\ line.req = m.req
    BY <1>2, LineIs, KindsAre
  <1> HIDE DEF line
  <1>4. ASSUME NEW s, HistoryFits(s)
        PROVE  Fits(s, ran, told, way)
    BY <1>4, FitsIs, FitsOn DEF Later
  <1>5. Fits(events, ran, told, way)
    BY <1>4 DEF Inv, EaFits
  <1>6. Fits(Append(events, line), ran, told, way)
    BY <1>2, <1>3, <1>5, FitsReservation
  <1>7. \A n, o \in wire' : n.req = o.req => n = o
    BY <1>1 DEF Inv, EaFits
  <1>8. Answer(m.req, "error", 0) => reply' = reply \/ reply'[1].cursor \in 0 .. Len(events)
    <2>1. Len(events) \in Nat
      BY <1>2
    <2> QED
      BY <2>1 DEF Answer
  <1>9. CASE Answer(m.req, "error", 0) /\ events' = events /\ ea' = ea
    <2>1. EaFits'
      <3>1. HistoryFits(events)'
        BY <1>1, <1>5, <1>9 DEF HistoryFits, Fits
      <3>2. ea.unsaved # <<>> => HistoryFits(Append(events, ea.unsaved[1]))'
        <4>1. ea.unsaved # <<>> => Fits(Append(events, ea.unsaved[1]), ran, told, way)
          BY <1>4 DEF Inv, EaFits
        <4> QED
          BY <1>1, <1>9, <4>1 DEF HistoryFits, Fits
      <3> QED
        BY <1>1, <1>7, <1>9, <3>1, <3>2 DEF Inv, EaFits
    <2> QED
      BY <1>1, <1>8, <1>9, <2>1, NothingNewGrew, EaMoves DEF Inv, Shape
  <1>10. CASE /\ ~Blocked /\ events' = Append(events, line) /\ ea' = [ea EXCEPT !.doing = m.req]
              /\ reply' = reply
    <2>1. /\ DOMAIN ea' = EaFields /\ ea'.boot = ea.boot /\ ea'.doing = m.req
          /\ ea'.unsaved = ea.unsaved /\ ea.unsaved = <<>>
      BY <1>10 DEF Inv, Shape, EaFields, EaFits, Blocked
    <2>2. HistoryFits(events)'
      BY <1>1, <1>6, <1>10 DEF HistoryFits, Fits
    <2>3. Reserved(events', m.req) /\ ~HasOutcome(events', m.req)
      <3>1. ~HasOutcome(events, m.req)
        BY <1>2 DEF Inv, EaFits, HistoryFits
      <3> QED
        BY <1>2, <1>3, <1>10, <3>1, OneMoreLine, KindsAre
    <2>4. EaFits'
      BY <1>1, <1>2, <1>7, <2>1, <2>2, <2>3 DEF Inv, EaFits
    <2>5. Grew
      BY <1>3, <1>10, OneLineGrew
    <2> QED
      BY <1>1, <1>10, <2>1, <2>4, <2>5, EaMoves
  <1>11. CASE /\ ea' = [ea EXCEPT !.blocked = TRUE, !.unsaved = <<line>>]
              /\ Answer(m.req, "error", 0) /\ events' = events
    <2>1. /\ DOMAIN ea' = EaFields /\ ea'.boot = ea.boot /\ ea'.doing = ea.doing
          /\ ea'.unsaved = <<line>> /\ ea'.blocked = TRUE /\ ea'.unsaved[1] = line
      BY <1>11 DEF Inv, Shape, EaFields
    <2>2. HistoryFits(events)'
      BY <1>1, <1>5, <1>11 DEF HistoryFits, Fits
    <2>3. HistoryFits(Append(events, ea.unsaved[1]))'
      BY <1>1, <1>6, <1>11, <2>1 DEF HistoryFits, Fits
    <2>4. EaFits'
      BY <1>1, <1>3, <1>7, <2>1, <2>2, <2>3 DEF Inv, EaFits
    <2> QED
      BY <1>1, <1>8, <1>11, <2>1, <2>4, NothingNewGrew, EaMoves
  <1> QED
    BY <1>9, <1>10, <1>11 DEF EaReceives, line

LEMMA EaSettlesStep ==
  ASSUME Inv, EaSettles
  PROVE  Inv'
  <1> DEFINE r == ea.doing
  <1>1. /\ UNCHANGED <<wire, client, job, told, mine>> /\ ea.doing # NoRequest
    BY DEF EaSettles
  <1>2. PICK kind \in TerminalKinds :
          LET line == NewLine(events, kind, ea.doing, NoRequest, ea.boot) IN
          /\ ran' \in {s \in {ran, ran \union {ea.doing}} :
                          /\ kind = "order_filled" => ea.doing \in s
                          /\ kind = "order_rejected" => ea.doing \notin s}
          /\ \/ /\ events' = Append(events, line)
                /\ ea' = [ea EXCEPT !.doing = NoRequest]
                /\ Answer(ea.doing, kind, Len(events) + 1)
             \/ /\ ea' = [ea EXCEPT !.doing = NoRequest, !.blocked = TRUE, !.unsaved = <<line>>]
                /\ Answer(ea.doing, "error", 0)
                /\ events' = events
    BY DEF EaSettles
  <1>3. PICK line : line = NewLine(events, kind, ea.doing, NoRequest, ea.boot)
    OBVIOUS
  <1>4. /\ r \in Requests /\ Reserved(events, r) /\ ~HasOutcome(events, r)
        /\ events \in Seq(Line) /\ ea.boot \in 0 .. MaxBoots /\ ea.unsaved = <<>>
        /\ Len(events) \in Nat
    BY <1>1 DEF Inv, EaFits, HistoryFits
  <1>5. line \in Line /\ line.kind = kind /\ line.req = r
    BY <1>3, <1>4, LineIs, KindsAre
  <1>6. Fits(events, ran', told, wire) /\ ran' \subseteq Requests
    <2>1. Fits(events, ran, told, wire) /\ Fits(events, ran \union {r}, told, wire)
      BY <1>4, FitsIs, FitsRun DEF Inv, EaFits
    <2>2. ran' = ran \/ ran' = ran \union {r}
      BY <1>2
    <2> QED
      BY <1>4, <2>1, <2>2 DEF Inv, EaFits
  <1>7. Fits(Append(events, line), ran', told, wire)
    <2>1. PICK done : done = ran'
      OBVIOUS
    <2>2. /\ Fits(events, done, told, wire)
          /\ line.kind = "order_filled" => line.req \in done
          /\ line.kind = "order_rejected" => line.req \notin done
      BY <1>2, <1>5, <1>6, <2>1
    <2>3. Fits(Append(events, line), done, told, wire)
      BY <1>4, <1>5, <2>2, FitsOutcome
    <2> QED
      BY <2>1, <2>3
  <1>8. CASE /\ events' = Append(events, line) /\ ea' = [ea EXCEPT !.doing = NoRequest]
             /\ Answer(r, kind, Len(events) + 1)
    <2>1. /\ DOMAIN ea' = EaFields /\ ea'.boot = ea.boot /\ ea'.doing = NoRequest
          /\ ea'.unsaved = <<>>
      BY <1>4, <1>8 DEF Inv, Shape, EaFields
    <2>2. HistoryFits(events)'
      BY <1>1, <1>7, <1>8 DEF HistoryFits, Fits
    <2>3. EaFits'
      BY <1>1, <1>4, <1>6, <2>1, <2>2 DEF Inv, EaFits
    <2>4. Grew
      BY <1>5, <1>8, OneLineGrew
    <2>5. reply' = reply \/ reply'[1].cursor \in 0 .. Len(events')
      <3>1. Len(events') = Len(events) + 1
        BY <1>4, <1>5, <1>8
      <3> QED
        BY <1>4, <1>8, <3>1 DEF Answer
    <2> QED
      BY <1>1, <2>1, <2>3, <2>4, <2>5, EaMoves
  <1>9. CASE /\ ea' = [ea EXCEPT !.doing = NoRequest, !.blocked = TRUE, !.unsaved = <<line>>]
             /\ Answer(r, "error", 0) /\ events' = events
    <2>1. /\ DOMAIN ea' = EaFields /\ ea'.boot = ea.boot /\ ea'.doing = NoRequest
          /\ ea'.unsaved = <<line>> /\ ea'.blocked = TRUE /\ ea'.unsaved[1] = line
      BY <1>9 DEF Inv, Shape, EaFields
    <2>2. HistoryFits(events)'
      BY <1>1, <1>6, <1>9 DEF HistoryFits, Fits
    <2>3. HistoryFits(Append(events, ea.unsaved[1]))'
      BY <1>1, <1>7, <1>9, <2>1 DEF HistoryFits, Fits
    <2>4. EaFits'
      BY <1>1, <1>4, <1>5, <1>6, <2>1, <2>2, <2>3 DEF Inv, EaFits
    <2>5. reply' = reply \/ reply'[1].cursor \in 0 .. Len(events')
      BY <1>4, <1>9 DEF Answer
    <2> QED
      BY <1>1, <1>9, <2>1, <2>4, <2>5, NothingNewGrew, EaMoves
  <1> QED
    BY <1>2, <1>3, <1>8, <1>9

LEMMA WireLosesStep ==
  ASSUME Inv, NEW m \in wire, WireLoses(m)
  PROVE  Inv'
  <1>1. /\ UNCHANGED <<service, reply, client, job, told, mine>> /\ wire' = wire \ {m}
    BY DEF WireLoses
  <1>2. EaFits'
    BY <1>1, EaStays DEF Later
  <1>3. events' = events /\ ea' = ea
    BY <1>1 DEF service
  <1> QED
    BY <1>1, <1>2, <1>3, NothingNewGrew, EaMoves DEF Inv, Shape

-----------------------------------------------------------------------------
(* The inductive invariant holds. *)

LEMMA InvInit == Init => Inv
  <1> SUFFICES ASSUME Init PROVE Inv
    OBVIOUS
  <1>1. /\ events = <<>> /\ ea = [Free(0) EXCEPT !.boot = 0] /\ ran = {} /\ wire = {}
        /\ reply = <<>> /\ client = NewClient /\ job = Idle /\ mine = {}
        /\ told = [r \in Requests |-> <<>>]
    BY DEF Init
  <1>2. /\ events \in Seq(Line) /\ Len(events) = 0 /\ DOMAIN events = {}
    BY <1>1
  <1>3. \A r : ~Reserved(events, r) /\ ~HasOutcome(events, r)
    BY <1>2 DEF Reserved, HasOutcome
  <1>4. \A r, k : ~OutcomeIs(events, r, k)
    BY <1>2 DEF OutcomeIs
  <1>5. /\ DOMAIN ea = EaFields /\ ea.boot = 0 /\ ea.doing = NoRequest /\ ea.unsaved = <<>>
    BY <1>1 DEF Free, EaFields
  <1>6. EaFits
    BY <1>1, <1>2, <1>3, <1>4, <1>5, RequestAssumption DEF EaFits, HistoryFits
  <1>7. IsNews(told) /\ \A r \in Requests : told[r] = <<>>
    BY <1>1 DEF IsNews, Reports
  <1>8. NewsFit(told)
    <2>1. \A k : Len(<<"submitted", k>>) = 2 /\ Len(<<>>) = 0
      OBVIOUS
    <2>2. \A r \in Requests, k \in TerminalKinds : ~Ended(told, r, k)
      BY <1>7, <2>1 DEF Ended
    <2> QED
      BY <1>1, <1>7, <2>2 DEF NewsFit, Reports
  <1>9. ClientFits(client, told)
    BY <1>1, <1>2, NewClientIs DEF ClientFits, Remembered, Awaited
  <1>10. JobFits /\ DOMAIN job = JobFields
    BY <1>1, <1>2 DEF JobFits, Idle, JobFields
  <1> QED
    BY <1>1, <1>5, <1>6, <1>7, <1>8, <1>9, <1>10, NewClientIs DEF Inv, Good, Shape

LEMMA InvNext == Inv /\ [Next]_vars => Inv'
  <1> SUFFICES ASSUME Inv, [Next]_vars PROVE Inv'
    OBVIOUS
  <1>1. CASE UNCHANGED vars
    BY <1>1 DEF vars, service, Inv, Shape, EaFits, HistoryFits, Good, IsClient, IsNews,
                ClientFits, Remembered, Awaited, NewsFit, JobFits
  <1>2. CASE EaStarts \/ EaDies \/ EaSettles \/ \E m \in wire : EaReceives(m) \/ WireLoses(m)
    BY <1>2, EaStartsStep, EaDiesStep, EaSettlesStep, EaReceivesStep, WireLosesStep
  <1>3. CASE Connect \/ Hello \/ ReadJournal \/ Install \/ ConnectFails
    BY <1>3, ConnectStep, InstallStep, ConnectFailsStep
  <1>4. CASE StartPoll \/ StartMassStatus \/ ConsumePage \/ ConsumeFails
    BY <1>4, ConnectStep, ConsumePageStep, ConsumeFailsStep
  <1>5. CASE ReadSnapshot \/ VerifyTail \/ RefreshFails \/ Report
    BY <1>5, ReadSnapshotStep, VerifyTailStep, RefreshFailsStep, ReportStep
  <1>6. CASE \E r \in Requests, force \in BOOLEAN : SubmitOrder(r, force)
    BY <1>6, SubmitOrderStep
  <1>7. CASE GateDenies \/ GateAdmits \/ TakeAnswer \/ AnswerIsLate
    BY <1>7, GateDeniesStep, GateAdmitsStep, TakeAnswerStep, AnswerIsLateStep
  <1>8. CASE Disconnect \/ ClientDies
    BY <1>8, DisconnectStep, ClientDiesStep
  <1> QED
    BY <1>1, <1>2, <1>3, <1>4, <1>5, <1>6, <1>7, <1>8 DEF Next

(* What the EA's journal, the broker, the client and the engine hold of a  *)
(* request agrees, whatever is late, lost, cut off or started again        *)
(* (_apply_event, _connect, _consume_event_pages, _submit_order).          *)
THEOREM MemoriesAgree == Spec => []ClientInv
  <1>1. Inv => ClientInv
    BY DEF Inv, Good, ClientInv
  <1> QED
    BY <1>1, InvInit, InvNext, PTL DEF Spec

(* A process never has a second submission out on top of one the engine    *)
(* still waits for (_pending, _submit_order).                              *)
THEOREM OneSubmissionOpen == Spec => []OneUnresolved
  <1>1. Inv => OneUnresolved
    <2> SUFFICES ASSUME Inv PROVE OneUnresolved
      OBVIOUS
    <2> DEFINE open == {r \in mine : ~ToldEnd(r)}
    <2>1. open \subseteq DOMAIN client.pending
      <3> SUFFICES ASSUME NEW r \in open PROVE r \in DOMAIN client.pending
        OBVIOUS
      <3>1. r \in Requests /\ r \in mine /\ Sent(told, r) /\ IsNews(told)
        BY DEF Inv, Good, NewsFit
      <3>2. ASSUME NEW k \in TerminalKinds, Ended(told, r, k)
            PROVE  FALSE
        <4>1. 2 \in DOMAIN told[r] /\ told[r][2] = k
          BY <3>2 DEF Ended
        <4> QED
          BY <4>1 DEF ToldEnd
      <3>3. told[r] = <<"submitted">>
        BY <3>1, <3>2, ReportsAre, KindsAre
      <3> QED
        BY <3>1, <3>3 DEF Inv, Good, ClientFits, Awaited
    <2>2. \A r, q \in open : r = q
      BY <2>1 DEF Inv, Good, ClientFits, Awaited
    <2>3. CASE open = {}
      <3>1. Cardinality(open) <= 1
        BY <2>3, FS_EmptySet
      <3> QED
        BY <3>1 DEF OneUnresolved
    <2>4. CASE open # {}
      <3>1. PICK r : r \in open
        BY <2>4
      <3>2. open = {r}
        BY <2>2, <3>1
      <3> QED
        <4>1. Cardinality({r}) = 1
          BY FS_Singleton
        <4>2. Cardinality(open) <= 1
          BY <3>2, <4>1
        <4> QED
          BY <4>2 DEF OneUnresolved
    <2> QED
      BY <2>3, <2>4
  <1> QED
    BY <1>1, InvInit, InvNext, PTL DEF Spec

(* What the engine is told of an order is true and final (_apply_event,    *)
(* _recover_local_pending_from_journal, generate_mass_status).             *)
THEOREM EngineIsToldTruth == Spec => []ToldTruth
  <1>1. Inv => ToldTruth
    <2> SUFFICES ASSUME Inv, NEW r \in Requests
                 PROVE  /\ Cardinality({k \in DOMAIN told[r] : told[r][k] # "submitted"}) <= 1
                        /\ \A k \in DOMAIN told[r] :
                             /\ told[r][k] = "order_filled" => r \in ran
                             /\ told[r][k] \in {"order_rejected", "denied"} =>
                                  /\ r \notin ran /\ ea.doing # r
                                  /\ \A m \in wire : m.req = r => Reserved(events, r)
      BY DEF ToldTruth
    <2>1. told[r] \in Reports
      BY DEF Inv, Good, IsNews
    <2> DEFINE ends == {k \in DOMAIN told[r] : told[r][k] # "submitted"}
    <2>2. ends = {} \/ ends = {1} \/ ends = {2}
      <3>1. CASE told[r] = <<>>
        BY <3>1
      <3>2. CASE told[r] = <<"denied">>
        BY <3>2
      <3>3. CASE told[r] = <<"submitted">>
        BY <3>3
      <3>4. CASE told[r] = <<"submitted", "order_filled">>
        BY <3>4
      <3>5. CASE told[r] = <<"submitted", "order_rejected">>
        BY <3>5
      <3> QED
        BY <2>1, <3>1, <3>2, <3>3, <3>4, <3>5 DEF Reports
    <2>3. Cardinality(ends) <= 1
      <3> HIDE DEF ends
      <3>1. Cardinality({}) = 0
        BY FS_EmptySet
      <3>2. Cardinality({1}) = 1 /\ Cardinality({2}) = 1
        BY FS_Singleton
      <3> QED
        BY <2>2, <3>1, <3>2
    <2>4. ASSUME NEW k \in DOMAIN told[r], told[r][k] = "order_filled"
          PROVE  r \in ran
      <3>1. Ended(told, r, "order_filled")
        BY <2>1, <2>4 DEF Reports, Ended
      <3> QED
        BY <3>1, KindsAre DEF Inv, Good, NewsFit, EaFits, HistoryFits
    <2>5. ASSUME NEW k \in DOMAIN told[r], told[r][k] = "order_rejected"
          PROVE  r \notin ran /\ ea.doing # r /\ Reserved(events, r)
      <3>1. Ended(told, r, "order_rejected")
        BY <2>1, <2>5 DEF Reports, Ended
      <3>2. OutcomeIs(events, r, "order_rejected")
        BY <3>1, KindsAre DEF Inv, Good, NewsFit
      <3>3. HasOutcome(events, r)
        BY <3>2, OutcomeOfKind, KindsAre
      <3> QED
        BY <3>2, <3>3, RequestAssumption DEF Inv, EaFits, HistoryFits
    <2>6. ASSUME NEW k \in DOMAIN told[r], told[r][k] = "denied"
          PROVE  /\ r \notin ran /\ ea.doing # r
                 /\ \A m \in wire : m.req # r
      <3>1. told[r] = <<"denied">>
        BY <2>1, <2>6 DEF Reports
      <3>2. ~Sent(told, r)
        BY <3>1 DEF Sent
      <3> QED
        BY <3>2, RequestAssumption DEF Inv, EaFits, HistoryFits
    <2> QED
      BY <2>3, <2>4, <2>5, <2>6
  <1> QED
    BY <1>1, InvInit, InvNext, PTL DEF Spec

(* No outcome the client has read stays untold (_connect, _apply_fill).    *)
THEOREM NothingStaysUntold == Spec => []NothingKnownUntold
  <1>1. Inv => NothingKnownUntold
    BY DEF Inv, Good, ClientFits, NothingKnownUntold
  <1> QED
    BY <1>1, InvInit, InvNext, PTL DEF Spec

=============================================================================
