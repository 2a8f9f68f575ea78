------------------------- MODULE EaExecution_proofs -------------------------
(***************************************************************************)
(* Machine-checked proofs about EaExecution, for every set of charts,      *)
(* requests and payloads and every bound on starts and lots.               *)
(***************************************************************************)
EXTENDS EaExecution, TLAPS

-----------------------------------------------------------------------------
(* Facts about one append. *)

LEMMA LineType ==
  ASSUME NEW events \in Seq(Line), NEW kind \in Kinds,
         NEW r \in Requests \union {NoRequest},
         NEW p \in Payloads \union {NoRequest}, NEW boot \in 0 .. MaxBoots
  PROVE  NewLine(events, kind, r, p, boot) \in Line
  BY DEF NewLine, Line

LEMMA TornType == TornLine \in Line
  BY RequestAssumption DEF TornLine, Line, Kinds

LEMMA AppendLookup ==
  ASSUME NEW s \in Seq(Line), NEW line \in Line, NEW r \in Requests, NEW k \in Kinds
  PROVE  /\ Reserved(Append(s, line), r)
              <=> Reserved(s, r) \/ (line.kind = "submission_reserved" /\ line.req = r)
         /\ HasOutcome(Append(s, line), r)
              <=> HasOutcome(s, r) \/ (IsTerminal(line) /\ line.req = r)
         /\ OutcomeIs(Append(s, line), r, k)
              <=> OutcomeIs(s, r, k) \/ (line.kind = k /\ line.req = r)
  <1> DEFINE t == Append(s, line)
  <1>1. /\ Len(t) = Len(s) + 1 /\ Len(s) \in Nat
        /\ \A i \in 1 .. Len(s) : t[i] = s[i]
        /\ t[Len(s) + 1] = line
    OBVIOUS
  <1>2. 1 .. Len(t) = (1 .. Len(s)) \union {Len(s) + 1}
    BY <1>1
  <1> HIDE DEF t
  <1>3. Reserved(t, r)
          <=> Reserved(s, r) \/ (line.kind = "submission_reserved" /\ line.req = r)
    BY <1>1, <1>2 DEF Reserved
  <1>4. HasOutcome(t, r) <=> HasOutcome(s, r) \/ (IsTerminal(line) /\ line.req = r)
    BY <1>1, <1>2 DEF HasOutcome
  <1>5. OutcomeIs(t, r, k) <=> OutcomeIs(s, r, k) \/ (line.kind = k /\ line.req = r)
    BY <1>1, <1>2 DEF OutcomeIs
  <1> QED
    BY <1>3, <1>4, <1>5 DEF t

\* Lookups see only the kind and the request of a line.
LEMMA SameShape ==
  ASSUME NEW s \in Seq(Line), NEW t \in Seq(Line), Len(s) = Len(t),
         \A i \in 1 .. Len(s) : s[i].kind = t[i].kind /\ s[i].req = t[i].req
  PROVE  SameHistory(s, t)
  BY DEF SameHistory, Reserved, HasOutcome, OutcomeIs, IsTerminal

LEMMA GluedShape ==
  ASSUME NEW s \in Seq(Line), LastIsOpen(s)
  PROVE  Glued(s) \in Seq(Line) /\ SameHistory(Glued(s), s)
  <1> DEFINE n == Len(s)
             t == [s EXCEPT ![n] = [@ EXCEPT !.end = "glued"]]
  <1>1. n \in Nat /\ n # 0 /\ \A i \in 1 .. n : s[i] \in Line
    BY DEF LastIsOpen
  <1>2. ASSUME NEW l \in Line
        PROVE  /\ [l EXCEPT !.end = "glued"] \in Line
               /\ [l EXCEPT !.end = "glued"].kind = l.kind
               /\ [l EXCEPT !.end = "glued"].req = l.req
    BY DEF Line
  <1>3. t \in Seq(Line) /\ Len(t) = Len(s)
    BY <1>1, <1>2
  <1>4. \A i \in 1 .. Len(t) : t[i].kind = s[i].kind /\ t[i].req = s[i].req
    BY <1>1, <1>2, <1>3
  <1> HIDE DEF t
  <1>5. SameHistory(t, s)
    BY <1>3, <1>4, SameShape
  <1> QED
    BY <1>3, <1>5 DEF t, Glued

LEMMA LoadedShape ==
  ASSUME NEW s \in Seq(Line)
  PROVE  Loaded(s) \in Seq(Line) /\ SameHistory(Loaded(s), s)
  <1> DEFINE t == [i \in 1 .. Len(s) |-> [s[i] EXCEPT !.end = "whole"]]
  <1>1. Len(s) \in Nat /\ \A i \in 1 .. Len(s) : s[i] \in Line
    OBVIOUS
  <1>2. ASSUME NEW l \in Line
        PROVE  /\ [l EXCEPT !.end = "whole"] \in Line
               /\ [l EXCEPT !.end = "whole"].kind = l.kind
               /\ [l EXCEPT !.end = "whole"].req = l.req
    BY DEF Line
  <1>3. t \in Seq(Line) /\ Len(t) = Len(s)
    BY <1>1, <1>2
  <1>4. \A i \in 1 .. Len(t) : t[i].kind = s[i].kind /\ t[i].req = s[i].req
    BY <1>1, <1>2, <1>3
  <1> HIDE DEF t
  <1>5. SameHistory(t, s)
    BY <1>3, <1>4, SameShape
  <1> QED
    BY <1>3, <1>5 DEF t, Loaded

\* What a write on the events file does to its lines: nothing, it glues, or
\* it adds one line that says what was written or nothing at all.
LEMMA WriteShape ==
  ASSUME file \in Seq(Line), NEW line \in Line, WriteLine(line) \/ WriteFails(line)
  PROVE  \/ file' = file
         \/ LastIsOpen(file) /\ file' = Glued(file)
         \/ \E l \in Line :
              /\ file' = Append(file, l)
              /\ \/ l.kind = line.kind /\ l.req = line.req
                 \/ l.kind = "torn"
  <1>1. TornLine \in Line /\ TornLine.kind = "torn"
    BY TornType DEF TornLine
  <1>2. /\ [line EXCEPT !.end = "open"] \in Line
        /\ [line EXCEPT !.end = "open"].kind = line.kind
        /\ [line EXCEPT !.end = "open"].req = line.req
    BY DEF Line
  <1>3. CASE file' = Appended(file, line)
    BY <1>3 DEF Appended
  <1>4. CASE file' \in AppendFailures(file, line)
    BY <1>1, <1>2, <1>4 DEF AppendFailures
  <1> QED
    BY <1>3, <1>4 DEF WriteLine, WriteFails

LEMMA WriteType ==
  ASSUME file \in Seq(Line), header \in {"none", "open", "good"}, NEW line \in Line,
         WriteLine(line) \/ WriteFails(line)
  PROVE  /\ file' \in Seq(Line)
         /\ header' \in {"none", "open", "good"}
  <1>1. header' \in {"none", "open", "good"}
    BY DEF WriteLine, WriteFails
  <1>2. CASE file' = file
    BY <1>2, <1>1
  <1>3. CASE LastIsOpen(file) /\ file' = Glued(file)
    BY <1>1, <1>3, GluedShape
  <1>4. CASE \E l \in Line : file' = Append(file, l)
    BY <1>1, <1>4
  <1> QED
    BY <1>2, <1>3, <1>4, WriteShape

\* Where the file has ended its last line, a successful write adds a line.
LEMMA EndedWrite ==
  ASSUME FileEnded, NEW line, WriteLine(line)
  PROVE  file' = Append(file, line) /\ header' = header
  BY DEF FileEnded, WriteLine, Appended

\* A successful write ends the last line.
LEMMA WriteEnds ==
  ASSUME file \in Seq(Line), NEW line \in Line, line.end = "whole", WriteLine(line)
  PROVE  FileEnded'
  <1>1. CASE GluesHeader
    BY <1>1 DEF GluesHeader, WriteLine, FileEnded, LastIsOpen
  <1>2. CASE ~ GluesHeader /\ LastIsOpen(file)
    <2> DEFINE n == Len(file)
    <2>1. n \in Nat /\ n # 0 /\ \A i \in 1 .. n : file[i] \in Line
      BY <1>2 DEF LastIsOpen
    <2>2. file' = [file EXCEPT ![n] = [@ EXCEPT !.end = "glued"]]
      BY <1>2 DEF WriteLine, Appended, Glued
    <2>3. Len(file') = n /\ file'[n] = [file[n] EXCEPT !.end = "glued"] /\ file' # <<>>
      BY <2>1, <2>2
    <2>4. file'[Len(file')].end = "glued"
      BY <2>1, <2>3 DEF Line
    <2> QED
      BY <2>3, <2>4 DEF FileEnded, GluesHeader, LastIsOpen
  <1>3. CASE ~ GluesHeader /\ ~ LastIsOpen(file)
    <2>1. file' = Append(file, line)
      BY <1>3 DEF WriteLine, Appended
    <2>2. Len(file') = Len(file) + 1 /\ file'[Len(file) + 1] = line /\ file' # <<>>
      BY <2>1
    <2> QED
      BY <2>2 DEF FileEnded, GluesHeader, LastIsOpen
  <1> QED
    BY <1>1, <1>2, <1>3

-----------------------------------------------------------------------------
(* Type correctness. *)

LEMMA DownType == Down \in Memory
  <1>1. NoResult \in Results
    BY DEF NoResult, Results
  <1>2. <<>> \in Seq(Line)
    OBVIOUS
  <1>3. 0 \in 0 .. MaxBoots
    BY RequestAssumption
  <1> QED
    BY <1>1, <1>2, <1>3 DEF Down, Memory, Stages

\* One chart's memory changes.
LEMMA EaUpdate ==
  ASSUME ea \in [Charts -> Memory], NEW c \in Charts, NEW m \in Memory,
         ea' = [ea EXCEPT ![c] = m]
  PROVE  /\ ea' \in [Charts -> Memory]
         /\ ea'[c] = m
         /\ \A d \in Charts \ {c} : ea'[d] = ea[d]
  OBVIOUS

LEMMA CountUp ==
  ASSUME NEW f \in [Requests -> Nat], NEW r
  PROVE  [f EXCEPT ![r] = @ + 1] \in [Requests -> Nat]
  <1>1. CASE r \in Requests
    BY <1>1
  <1>2. CASE r \notin Requests
    BY <1>2
  <1> QED
    BY <1>1, <1>2

LEMMA StageEdit ==
  ASSUME NEW m \in Memory, NEW st \in Stages
  PROVE  [m EXCEPT !.stage = st] \in Memory
  BY DEF Memory

LEMMA FlagsEdit ==
  ASSUME NEW m \in Memory, NEW st \in Stages, NEW j \in BOOLEAN, NEW k \in BOOLEAN,
         NEW events \in Seq(Line)
  PROVE  /\ [m EXCEPT !.recoveryReady = k] \in Memory
         /\ [m EXCEPT !.recoveryReady = k, !.journalReady = j] \in Memory
         /\ [m EXCEPT !.stage = st, !.journalReady = j, !.recoveryReady = k] \in Memory
         /\ [m EXCEPT !.stage = st, !.events = events] \in Memory
         /\ [m EXCEPT !.stage = st, !.journalReady = j, !.recoveryReady = k,
                      !.events = events] \in Memory
  BY DEF Memory

LEMMA ReserveEdit ==
  ASSUME NEW m \in Memory, NEW events \in Seq(Line), NEW r \in Requests, NEW p \in Payloads
  PROVE  [m EXCEPT !.stage = "reserved", !.recoveryReady = FALSE, !.events = events,
                   !.req = r, !.payload = p] \in Memory
  BY DEF Memory, Stages

\* A chart that halts keeps its stage and is no longer ready.
Halts(m, n) ==
  \/ n = [m EXCEPT !.recoveryReady = FALSE]
  \/ n = [m EXCEPT !.recoveryReady = FALSE, !.journalReady = FALSE]

LEMMA HaltEdit ==
  ASSUME NEW m \in Memory, NEW n, Halts(m, n)
  PROVE  n \in Memory /\ n.stage = m.stage /\ ~ n.recoveryReady
  <1>1. CASE n = [m EXCEPT !.recoveryReady = FALSE]
    BY <1>1 DEF Memory
  <1>2. CASE n = [m EXCEPT !.recoveryReady = FALSE, !.journalReady = FALSE]
    BY <1>2 DEF Memory
  <1> QED
    BY <1>1, <1>2 DEF Halts

LEMMA HaltUpdate ==
  ASSUME ea \in [Charts -> Memory], NEW c \in Charts,
         \/ ea' = [ea EXCEPT ![c] = [@ EXCEPT !.recoveryReady = FALSE]]
         \/ ea' = [ea EXCEPT ![c] = [@ EXCEPT !.recoveryReady = FALSE, !.journalReady = FALSE]]
  PROVE  /\ ea' \in [Charts -> Memory]
         /\ ea'[c].stage = ea[c].stage /\ ~ ea'[c].recoveryReady
         /\ \A d \in Charts \ {c} : ea'[d] = ea[d]
  <1>1. PICK n : Halts(ea[c], n) /\ ea' = [ea EXCEPT ![c] = n]
    BY DEF Halts
  <1>2. n \in Memory /\ n.stage = ea[c].stage /\ ~ n.recoveryReady
    BY <1>1, HaltEdit
  <1> QED
    BY <1>1, <1>2, EaUpdate

LEMMA CheckedEdit ==
  ASSUME NEW m \in Memory, NEW n \in Nat
  PROVE  [m EXCEPT !.stage = "checked", !.before = n] \in Memory
  BY DEF Memory, Stages

LEMMA SentEdit ==
  ASSUME NEW m \in Memory, NEW res \in Results
  PROVE  [m EXCEPT !.stage = "sent", !.result = res] \in Memory
  BY DEF Memory, Stages

LEMMA SettledType ==
  ASSUME NEW m \in Memory, NEW line \in Line
  PROVE  Settled(m, line) \in Memory
  <1> DEFINE events == Append(m.events, line)
             valid  == ValidHistory(events)
             known  == valid /\ Recovered(events)
  <1>1. events \in Seq(Line)
    BY DEF Memory
  <1>2. valid \in BOOLEAN /\ known \in BOOLEAN
    BY DEF ValidHistory
  <1>3. 0 \in Nat /\ NoResult \in Results
    BY DEF NoResult, Results
  <1> HIDE DEF events, valid, known
  <1>4. [m EXCEPT !.stage = "idle", !.events = events, !.journalReady = valid,
                  !.recoveryReady = known, !.req = NoRequest, !.payload = NoRequest,
                  !.before = 0, !.result = NoResult] \in Memory
    BY <1>1, <1>2, <1>3 DEF Memory, Stages
  <1> QED
    BY <1>4 DEF Settled, events, valid, known

LEMMA UnsettledType ==
  ASSUME NEW m \in Memory, NEW stored \in BOOLEAN
  PROVE  /\ Unsettled(m, stored) \in Memory
         /\ Unsettled(m, stored).stage = "idle"
         /\ ~ Unsettled(m, stored).recoveryReady
  <1>1. 0 \in Nat /\ NoResult \in Results
    BY DEF NoResult, Results
  <1> QED
    BY <1>1 DEF Unsettled, Memory, Stages

LEMMA InitType == Init => TypeOK
  <1>1. <<>> \in Seq(Line) /\ 0 \in 0 .. MaxBoots
    BY RequestAssumption
  <1> SUFFICES ASSUME Init PROVE TypeOK
    OBVIOUS
  <1>2. ea \in [Charts -> Memory]
    BY DownType DEF Init
  <1>3. sends \in [Requests -> Nat] /\ executed \in [Requests -> Nat]
    BY DEF Init
  <1>4. answers \in [Requests -> SUBSET TerminalKinds]
    BY DEF Init
  <1> QED
    BY <1>1, <1>2, <1>3, <1>4, ChartAssumption DEF Init, TypeOK

LEMMA ReleaseType ==
  ASSUME TypeOK, NEW c \in Charts, Release(c)
  PROVE  ea' \in [Charts -> Memory] /\ owner' \in Charts \union {NoChart}
  BY DownType DEF TypeOK, Release

LEMMA FinishType ==
  ASSUME TypeOK, NEW c \in Charts, NEW kind \in TerminalKinds, Finish(c, kind)
  PROVE  /\ file' \in Seq(Line) /\ header' \in {"none", "open", "good"}
         /\ ea' \in [Charts -> Memory]
         /\ answers' \in [Requests -> SUBSET TerminalKinds]
  <1> DEFINE m == ea[c]
             line == NewLine(m.events, kind, m.req, m.payload, m.boot)
  <1>1. m \in Memory
    BY DEF TypeOK
  <1>2. line \in Line
    BY <1>1, LineType DEF Memory, Kinds, OrderKinds
  <1>3. file' \in Seq(Line) /\ header' \in {"none", "open", "good"}
    BY <1>2, WriteType DEF TypeOK, Finish
  <1>4. /\ Settled(m, line) \in Memory
        /\ Unsettled(m, TRUE) \in Memory /\ Unsettled(m, FALSE) \in Memory
    BY <1>1, <1>2, SettledType, UnsettledType
  <1>5. [answers EXCEPT ![m.req] = @ \union {kind}] \in [Requests -> SUBSET TerminalKinds]
    BY DEF TypeOK
  <1>6. ea \in [Charts -> Memory]
    BY DEF TypeOK
  <1>7. /\ \/ ea' = [ea EXCEPT ![c] = Settled(m, line)]
           \/ ea' = [ea EXCEPT ![c] = Unsettled(m, TRUE)]
           \/ ea' = [ea EXCEPT ![c] = Unsettled(m, FALSE)]
        /\ \/ answers' = answers
           \/ answers' = [answers EXCEPT ![m.req] = @ \union {kind}]
    BY DEF Finish
  <1> HIDE DEF m, line
  <1>8. ea' \in [Charts -> Memory]
    BY <1>4, <1>6, <1>7, EaUpdate
  <1> QED
    BY <1>3, <1>5, <1>7, <1>8 DEF TypeOK

LEMMA NextType == TypeOK /\ [Next]_vars => TypeOK'
  <1> SUFFICES ASSUME TypeOK, [Next]_vars PROVE TypeOK'
    OBVIOUS
  <1>1. ASSUME NEW c \in Charts, AcquireOwner(c) PROVE TypeOK'
    <2>1. boots' \in 0 .. MaxBoots /\ boots + 1 \in 0 .. MaxBoots
      BY <1>1, RequestAssumption DEF AcquireOwner, TypeOK
    <2>2. ASSUME NEW mode \in Modes
          PROVE  [Down EXCEPT !.stage = "locked", !.enabled = mode, !.boot = boots + 1]
                   \in Memory
      BY <2>1, DownType, ChartAssumption DEF Memory, Stages
    <2> QED
      BY <1>1, <2>1, <2>2 DEF AcquireOwner, TypeOK, disk, broker
  <1>2. ASSUME NEW c \in Charts, CreateNew(c) PROVE TypeOK'
    <2>1. CASE /\ Release(c)
               /\ identity' \in {"absent", "torn", "good"}
               /\ header' \in {"none", "open", "good"}
      BY <1>2, <2>1, ReleaseType DEF CreateNew, TypeOK, broker
    <2>2. CASE /\ identity' = "good" /\ header' = "good" /\ UNCHANGED owner
               /\ ea' = [ea EXCEPT ![c] = [@ EXCEPT !.stage = "loaded", !.journalReady = TRUE,
                                   !.recoveryReady = TRUE]]
      <3>1. [ea[c] EXCEPT !.stage = "loaded", !.journalReady = TRUE, !.recoveryReady = TRUE]
              \in Memory
        BY FlagsEdit DEF TypeOK, Stages
      <3>2. ea' \in [Charts -> Memory]
        BY <2>2, <3>1, EaUpdate DEF TypeOK
      <3> QED
        BY <1>2, <2>2, <3>2 DEF CreateNew, TypeOK, broker
    <2> QED
      BY <1>2, <2>1, <2>2 DEF CreateNew
  <1>3. ASSUME NEW c \in Charts, LoadJournal(c) PROVE TypeOK'
    <2> DEFINE good == header # "none" /\ Readable(file) /\ ValidHistory(file)
               seen == good => Recovered(file)
               kept == IF good THEN Loaded(file) ELSE <<>>
    <2>1. good \in BOOLEAN /\ seen \in BOOLEAN
      BY DEF TypeOK, Readable, ValidHistory
    <2>2. kept \in Seq(Line)
      BY LoadedShape DEF TypeOK
    <2> HIDE DEF good, seen, kept
    <2>3. CASE Release(c)
      BY <1>3, <2>3, ReleaseType DEF LoadJournal, TypeOK, disk, broker
    <2>4. CASE /\ ea' = [ea EXCEPT ![c] = [@ EXCEPT !.stage = "loaded", !.journalReady = good,
                                   !.recoveryReady = seen, !.events = kept]]
               /\ UNCHANGED owner
      <3>1. ea' \in [Charts -> Memory]
        <4>1. [ea[c] EXCEPT !.stage = "loaded", !.journalReady = good, !.recoveryReady = seen,
                            !.events = kept] \in Memory
          BY <2>1, <2>2, FlagsEdit DEF TypeOK, Stages
        <4> QED
          BY <2>4, <4>1, EaUpdate DEF TypeOK
      <3> QED
        BY <1>3, <2>4, <3>1 DEF LoadJournal, TypeOK, disk, broker
    <2> QED
      BY <1>3, <2>3, <2>4 DEF LoadJournal, good, seen, kept
  <1>4. ASSUME NEW c \in Charts, StartStream(c) PROVE TypeOK'
    <2> DEFINE line == NewLine(ea[c].events, "stream_started", NoRequest, NoRequest, ea[c].boot)
    <2>1. line \in Line
      BY LineType DEF TypeOK, Memory, Kinds
    <2>2. Append(ea[c].events, line) \in Seq(Line)
      BY <2>1 DEF TypeOK, Memory
    <2> HIDE DEF line
    <2>3. CASE ea' = [ea EXCEPT ![c] = [@ EXCEPT !.stage = "idle"]] /\ UNCHANGED <<header, file, owner>>
      <3>1. [ea[c] EXCEPT !.stage = "idle"] \in Memory
        BY StageEdit DEF TypeOK, Stages
      <3>2. ea' \in [Charts -> Memory]
        BY <2>3, <3>1, EaUpdate DEF TypeOK
      <3> QED
        BY <1>4, <2>3, <3>2 DEF StartStream, TypeOK, broker
    <2>4. CASE /\ WriteLine(line)
               /\ ea' = [ea EXCEPT ![c] = [@ EXCEPT !.stage = "idle", !.events = Append(ea[c].events, line)]]
               /\ UNCHANGED owner
      <3>1. ea' \in [Charts -> Memory]
        <4>1. [ea[c] EXCEPT !.stage = "idle", !.events = Append(ea[c].events, line)] \in Memory
          BY <2>2, FlagsEdit DEF TypeOK, Stages
        <4> QED
          BY <2>4, <4>1, EaUpdate DEF TypeOK
      <3> QED
        BY <1>4, <2>1, <2>4, <3>1, WriteType DEF StartStream, TypeOK, broker
    <2>5. CASE WriteFails(line) /\ Release(c)
      BY <1>4, <2>1, <2>5, ReleaseType, WriteType DEF StartStream, TypeOK, broker
    <2> QED
      BY <1>4, <2>3, <2>4, <2>5 DEF StartStream, line
  <1>5. ASSUME NEW c \in Charts, Leave(c) PROVE TypeOK'
    BY <1>5, ReleaseType DEF Leave, TypeOK, disk, broker
  <1>6. ASSUME NEW c \in Charts, NEW r \in Requests, NEW p \in Payloads, Replay(c, r, p)
        PROVE  TypeOK'
    BY <1>6 DEF Replay, TypeOK, disk, broker
  <1>7. ASSUME NEW c \in Charts, NEW r \in Requests, NEW p \in Payloads, Reserve(c, r, p)
        PROVE  TypeOK'
    <2> DEFINE line == NewLine(ea[c].events, "submission_reserved", r, p, ea[c].boot)
    <2>1. line \in Line
      BY LineType DEF TypeOK, Memory, Kinds, OrderKinds
    <2>2. Append(ea[c].events, line) \in Seq(Line)
      BY <2>1 DEF TypeOK, Memory
    <2> HIDE DEF line
    <2>3. file' \in Seq(Line) /\ header' \in {"none", "open", "good"}
      BY <1>7, <2>1, WriteType DEF Reserve, TypeOK, line
    <2>4. CASE ea' = [ea EXCEPT ![c] = [@ EXCEPT !.stage = "reserved", !.recoveryReady = FALSE,
                                !.events = Append(ea[c].events, line), !.req = r,
                                !.payload = p]]
      <3>1. ea' \in [Charts -> Memory]
        <4>1. [ea[c] EXCEPT !.stage = "reserved", !.recoveryReady = FALSE,
                            !.events = Append(ea[c].events, line), !.req = r, !.payload = p]
                \in Memory
          BY <2>2, ReserveEdit DEF TypeOK
        <4> QED
          BY <2>4, <4>1, EaUpdate DEF TypeOK
      <3> QED
        BY <1>7, <2>3, <3>1 DEF Reserve, TypeOK, broker
    <2>5. CASE ea' = [ea EXCEPT ![c] = [@ EXCEPT !.recoveryReady = FALSE]]
      <3>1. ea' \in [Charts -> Memory]
        BY <2>5, HaltUpdate DEF TypeOK
      <3> QED
        BY <1>7, <2>3, <3>1 DEF Reserve, TypeOK, broker
    <2>6. CASE ea' = [ea EXCEPT ![c] = [@ EXCEPT !.recoveryReady = FALSE, !.journalReady = FALSE]]
      <3>1. ea' \in [Charts -> Memory]
        BY <2>6, HaltUpdate DEF TypeOK
      <3> QED
        BY <1>7, <2>3, <3>1 DEF Reserve, TypeOK, broker
    <2> QED
      BY <1>7, <2>4, <2>5, <2>6 DEF Reserve, line
  <1>8. ASSUME NEW c \in Charts, Preflight(c) PROVE TypeOK'
    <2>1. (IF ea[c].payload \in Closing THEN ticket ELSE 0) \in Nat
      BY DEF TypeOK
    <2>2. [ea[c] EXCEPT !.stage = "checked",
                        !.before = IF ea[c].payload \in Closing THEN ticket ELSE 0] \in Memory
      BY <2>1, CheckedEdit DEF TypeOK
    <2>3. ea' \in [Charts -> Memory]
      BY <1>8, <2>2, EaUpdate DEF Preflight, TypeOK
    <2> QED
      BY <1>8, <2>3 DEF Preflight, TypeOK, disk
  <1>9. ASSUME NEW c \in Charts, Refuse(c) PROVE TypeOK'
    <2>1. Finish(c, "order_rejected") /\ "order_rejected" \in TerminalKinds
      BY <1>9 DEF Refuse, TerminalKinds
    <2> QED
      BY <1>9, <2>1, FinishType DEF Refuse, Finish, TypeOK, broker
  <1>10. ASSUME NEW c \in Charts, OrderSend(c) PROVE TypeOK'
    <2>1. PICK res \in BrokerResults(ea[c].payload) :
            /\ ea' = [ea EXCEPT ![c] = [@ EXCEPT !.stage = "sent", !.result = res]]
            /\ sends' = [sends EXCEPT ![ea[c].req] = @ + 1]
            /\ executed' = [executed EXCEPT ![ea[c].req] = IF res.ran THEN @ + 1 ELSE @]
            /\ ticket' = IF res.ran /\ ea[c].payload \in Closing THEN ticket - 1 ELSE ticket
      BY <1>10 DEF OrderSend
    <2>2. res \in Results /\ (res.ran /\ ea[c].payload \in Closing => ticket >= 1)
      BY DEF BrokerResults
    <2>3. [ea[c] EXCEPT !.stage = "sent", !.result = res] \in Memory
      BY <2>2, SentEdit DEF TypeOK
    <2>4. ea' \in [Charts -> Memory]
      BY <2>1, <2>3, EaUpdate DEF TypeOK
    <2>5. ticket' \in Nat
      BY <2>1, <2>2 DEF TypeOK
    <2>6. sends' \in [Requests -> Nat] /\ executed' \in [Requests -> Nat]
      <3>1. sends' \in [Requests -> Nat]
        BY <2>1, CountUp DEF TypeOK
      <3>2. CASE res.ran
        BY <2>1, <3>1, <3>2, CountUp DEF TypeOK
      <3>3. CASE ~ res.ran
        BY <2>1, <3>1, <3>3 DEF TypeOK
      <3> QED
        BY <3>2, <3>3
    <2> QED
      BY <1>10, <2>4, <2>5, <2>6 DEF OrderSend, TypeOK, disk
  <1>11. ASSUME NEW c \in Charts, Settle(c) PROVE TypeOK'
    <2>1. Finish(c, Outcome(ea[c])) /\ Outcome(ea[c]) \in TerminalKinds
      BY <1>11 DEF Settle, Outcome, TerminalKinds
    <2> QED
      BY <1>11, <2>1, FinishType DEF Settle, Finish, TypeOK, broker
  <1>12. ASSUME ManualClose PROVE TypeOK'
    BY <1>12 DEF ManualClose, TypeOK, disk
  <1>13. CASE UNCHANGED vars
    BY <1>13 DEF TypeOK, vars
  <1> QED
    BY <1>1, <1>2, <1>3, <1>4, <1>5, <1>6, <1>7, <1>8, <1>9, <1>10, <1>11, <1>12, <1>13
    DEF Next

\* Type correctness of every behaviour.
THEOREM TypeCorrect == Spec => []TypeOK
  BY InitType, NextType, PTL DEF Spec

-----------------------------------------------------------------------------
(* The custody invariant, per chart and per request.                       *)

HeaderInv == identity = "absent" => header = "none" /\ file = <<>>

ChartInv(c) ==
  LET m == ea[c] IN
  /\ m.stage # "down" => owner = c
  /\ m.stage \in {"down", "locked"} => ~ m.journalReady /\ m.events = <<>>
  /\ m.journalReady => identity # "absent"
  /\ m.stage = "loaded" /\ m.journalReady => SameHistory(m.events, file)
  /\ m.stage = "idle" /\ m.journalReady /\ m.recoveryReady =>
       SameHistory(m.events, file) /\ FileEnded
  /\ InFlight(m) =>
       /\ SameHistory(m.events, file) /\ FileEnded
       /\ m.journalReady
       /\ m.req \in Requests /\ m.payload \in Payloads
       /\ Reserved(file, m.req) /\ ~ HasOutcome(file, m.req)
       /\ m.stage \in {"reserved", "checked"} => sends[m.req] = 0
       /\ m.stage = "sent" => executed[m.req] = IF m.result.ran THEN 1 ELSE 0
       /\ m.stage = "sent" =>
            /\ m.result.retcode = "done" /\ m.result.ids /\ m.result.facts => m.result.ran
            /\ m.result.retcode = "reject" /\ m.result.ran => m.result.ids

RequestInv(r) ==
  /\ executed[r] <= sends[r]
  /\ sends[r] <= 1
  /\ sends[r] > 0 => Reserved(file, r)
  /\ OutcomeIs(file, r, "order_filled") => executed[r] = 1
  /\ OutcomeIs(file, r, "order_rejected") => executed[r] = 0

LEMMA PartsOf ==
  ASSUME CustodyInv
  PROVE  /\ TypeOK
         /\ HeaderInv
         /\ \A c \in Charts : ChartInv(c)
         /\ \A r \in Requests : RequestInv(r)
  <1>1. TypeOK /\ HeaderInv
    BY DEF CustodyInv, OneWriter, HeaderInv
  <1>2. \A r \in Requests : RequestInv(r)
    BY DEF CustodyInv, ExecutedWasSent, AtMostOneSend, SentIsReserved, OutcomeTruthful,
           RequestInv
  <1>3. ASSUME NEW c \in Charts PROVE ChartInv(c)
    BY DEF CustodyInv, OneWriter, MemoryIsFile, FlightInv, ChartInv
  <1> QED
    BY <1>1, <1>2, <1>3

LEMMA FromParts ==
  ASSUME TypeOK', HeaderInv', \A c \in Charts : ChartInv(c)',
         \A r \in Requests : RequestInv(r)'
  PROVE  CustodyInv'
  <1>1. OneWriter'
    BY DEF OneWriter, HeaderInv, ChartInv
  <1>2. MemoryIsFile'
    BY DEF MemoryIsFile, ChartInv, InFlight
  <1>3. FlightInv'
    BY DEF FlightInv, ChartInv, InFlight
  <1>4. ExecutedWasSent' /\ AtMostOneSend' /\ SentIsReserved' /\ OutcomeTruthful'
    BY DEF ExecutedWasSent, AtMostOneSend, SentIsReserved, OutcomeTruthful, RequestInv
  <1> QED
    BY <1>1, <1>2, <1>3, <1>4 DEF CustodyInv

LEMMA CustodyInit == Init => CustodyInv
  <1> SUFFICES ASSUME Init PROVE CustodyInv
    OBVIOUS
  <1>1. \A c \in Charts : ea[c] = Down
    BY DEF Init
  <1>2. OneWriter /\ MemoryIsFile /\ FlightInv
    BY <1>1 DEF Init, OneWriter, MemoryIsFile, FlightInv, InFlight, Down
  <1>3. \A r \in Requests, k \in Kinds : ~ Reserved(file, r) /\ ~ OutcomeIs(file, r, k)
    BY DEF Init, Reserved, OutcomeIs
  <1>4. ExecutedWasSent /\ AtMostOneSend /\ SentIsReserved /\ OutcomeTruthful
    BY <1>3 DEF Init, ExecutedWasSent, AtMostOneSend, SentIsReserved, OutcomeTruthful,
                Kinds, OrderKinds, TerminalKinds
  <1> QED
    BY <1>2, <1>4, InitType DEF CustodyInv

\* Where one chart is not down, all others are: the owner lock.
LEMMA OwnerAlone ==
  ASSUME \A d \in Charts : ChartInv(d), NEW c \in Charts,
         \/ ea[c].stage # "down"
         \/ owner = NoChart
  PROVE  \A d \in Charts \ {c} : ea[d].stage = "down"
  BY ChartAssumption DEF ChartInv

\* A step of chart c keeps the chart invariant when c keeps it and the
\* other charts, all down, keep their memory.
LEMMA ChartStep ==
  ASSUME \A d \in Charts : ChartInv(d), NEW c \in Charts,
         \A d \in Charts \ {c} : ea[d].stage = "down" /\ ea'[d] = ea[d],
         ChartInv(c)'
  PROVE  \A d \in Charts : ChartInv(d)'
  <1>1. ASSUME NEW d \in Charts \ {c} PROVE ChartInv(d)'
    <2>1. ea'[d] = ea[d] /\ ea[d].stage = "down" /\ ~ ea[d].journalReady
          /\ ea[d].events = <<>>
      BY DEF ChartInv
    <2> QED
      BY <2>1 DEF ChartInv, InFlight
  <1> QED
    BY <1>1

LEMMA ReleaseStep ==
  ASSUME TypeOK, \A d \in Charts : ChartInv(d), NEW c \in Charts, Release(c),
         ea[c].stage # "down"
  PROVE  \A d \in Charts : ChartInv(d)'
  <1>1. ea'[c] = Down /\ \A d \in Charts \ {c} : ea'[d] = ea[d]
    BY DEF Release, TypeOK
  <1>2. ChartInv(c)'
    BY <1>1 DEF ChartInv, Down, InFlight
  <1> QED
    BY <1>1, <1>2, OwnerAlone, ChartStep

\* A write that carries no outcome, or fails, keeps every request's facts.
LEMMA QuietWrite ==
  ASSUME file \in Seq(Line), NEW line \in Line, ~ IsTerminal(line),
         WriteLine(line) \/ WriteFails(line), UNCHANGED <<sends, executed>>,
         NEW r \in Requests, RequestInv(r)
  PROVE  RequestInv(r)'
  <1>1. /\ "order_filled" \in Kinds \cap TerminalKinds
        /\ "order_rejected" \in Kinds \cap TerminalKinds
    BY DEF Kinds, OrderKinds, TerminalKinds
  <1>2. CASE file' = file
    BY <1>2 DEF RequestInv
  <1>3. CASE LastIsOpen(file) /\ file' = Glued(file)
    <2>1. SameHistory(file', file)
      BY <1>3, GluedShape
    <2> QED
      BY <1>1, <2>1 DEF SameHistory, RequestInv
  <1>4. ASSUME NEW l \in Line, file' = Append(file, l), ~ IsTerminal(l)
        PROVE  RequestInv(r)'
    <2>1. /\ Reserved(file, r) => Reserved(file', r)
          /\ OutcomeIs(file', r, "order_filled") <=> OutcomeIs(file, r, "order_filled")
          /\ OutcomeIs(file', r, "order_rejected") <=> OutcomeIs(file, r, "order_rejected")
      BY <1>1, <1>4, AppendLookup DEF IsTerminal, TerminalKinds
    <2> QED
      BY <2>1 DEF RequestInv
  <1> QED
    BY <1>2, <1>3, <1>4, WriteShape DEF IsTerminal, TerminalKinds

\* A line added to memory and to the file keeps the two histories the same.
LEMMA SameAppend ==
  ASSUME NEW s \in Seq(Line), NEW t \in Seq(Line), SameHistory(s, t), NEW line \in Line
  PROVE  SameHistory(Append(s, line), Append(t, line))
  <1>1. \A kind \in TerminalKinds : kind \in Kinds
    BY DEF Kinds, OrderKinds
  <1>2. "order_filled" \in TerminalKinds
    BY DEF TerminalKinds
  <1>3. ASSUME NEW r \in Requests, NEW kind \in TerminalKinds
        PROVE  /\ Reserved(Append(s, line), r) <=> Reserved(Append(t, line), r)
               /\ HasOutcome(Append(s, line), r) <=> HasOutcome(Append(t, line), r)
               /\ OutcomeIs(Append(s, line), r, kind) <=> OutcomeIs(Append(t, line), r, kind)
    <2>1. /\ Reserved(s, r) <=> Reserved(t, r)
          /\ HasOutcome(s, r) <=> HasOutcome(t, r)
          /\ OutcomeIs(s, r, kind) <=> OutcomeIs(t, r, kind)
      BY DEF SameHistory
    <2>2. kind \in Kinds
      BY <1>1
    <2> QED
      BY <2>1, <2>2, AppendLookup
  <1> QED
    BY <1>2, <1>3 DEF SameHistory

\* A line that is neither a reservation nor an outcome changes no lookup.
LEMMA OtherAppend ==
  ASSUME NEW s \in Seq(Line), NEW line \in Line, line.kind \in {"stream_started", "torn"}
  PROVE  SameHistory(Append(s, line), s)
  <1>1. \A kind \in TerminalKinds : kind \in Kinds
    BY DEF Kinds, OrderKinds
  <1>2. "order_filled" \in TerminalKinds
    BY DEF TerminalKinds
  <1>3. ASSUME NEW r \in Requests, NEW kind \in TerminalKinds
        PROVE  /\ Reserved(Append(s, line), r) <=> Reserved(s, r)
               /\ HasOutcome(Append(s, line), r) <=> HasOutcome(s, r)
               /\ OutcomeIs(Append(s, line), r, kind) <=> OutcomeIs(s, r, kind)
    <2>1. kind \in Kinds /\ ~ IsTerminal(line) /\ line.kind # kind
          /\ line.kind # "submission_reserved"
      BY <1>1 DEF TerminalKinds, IsTerminal
    <2> QED
      BY <2>1, AppendLookup
  <1> QED
    BY <1>2, <1>3 DEF SameHistory

\* stream_started changes no lookup, in memory or through a write.
LEMMA StartKeepsHistory ==
  ASSUME file \in Seq(Line), NEW events \in Seq(Line), SameHistory(events, file),
         NEW line \in Line, line.kind = "stream_started", WriteLine(line)
  PROVE  SameHistory(Append(events, line), file')
  <1>1. SameHistory(Append(events, line), events)
    BY OtherAppend
  <1>2. SameHistory(file', file)
    <2>1. CASE file' = file
      BY <2>1 DEF SameHistory
    <2>2. CASE LastIsOpen(file) /\ file' = Glued(file)
      BY <2>2, GluedShape
    <2>3. ASSUME NEW l \in Line, file' = Append(file, l),
                 l.kind \in {"stream_started", "torn"}
          PROVE  SameHistory(file', file)
      BY <2>3, OtherAppend
    <2> QED
      BY <2>1, <2>2, <2>3, WriteShape
  <1> QED
    BY <1>1, <1>2 DEF SameHistory

\* The outcome appended for the request in flight is true of the broker.
LEMMA FinishStep ==
  ASSUME TypeOK, HeaderInv, \A d \in Charts : ChartInv(d), \A r \in Requests : RequestInv(r),
         NEW c \in Charts, NEW kind \in TerminalKinds, InFlight(ea[c]), Finish(c, kind),
         kind = "order_filled" => executed[ea[c].req] = 1,
         kind = "order_rejected" => executed[ea[c].req] = 0,
         UNCHANGED broker
  PROVE  /\ HeaderInv'
         /\ \A d \in Charts : ChartInv(d)'
         /\ \A r \in Requests : RequestInv(r)'
  <1> DEFINE m == ea[c]
             line == NewLine(m.events, kind, m.req, m.payload, m.boot)
  <1>1. /\ m \in Memory /\ ea \in [Charts -> Memory] /\ file \in Seq(Line)
        /\ m.req \in Requests /\ m.journalReady /\ identity # "absent"
        /\ SameHistory(m.events, file) /\ FileEnded
        /\ m.stage # "down"
        /\ owner = c
    BY DEF TypeOK, ChartInv, InFlight
  <1>2. line \in Line /\ line.kind = kind /\ line.req = m.req /\ line.end = "whole"
    BY <1>1, LineType DEF Memory, Kinds, OrderKinds, NewLine
  <1>3. UNCHANGED <<sends, executed, owner, identity>> /\ (WriteLine(line) \/ WriteFails(line))
    BY DEF Finish, broker
  <1>4. HeaderInv'
    BY <1>1, <1>3 DEF HeaderInv
  <1>5. /\ Settled(m, line) \in Memory
        /\ Unsettled(m, TRUE) \in Memory /\ Unsettled(m, FALSE) \in Memory
    BY <1>1, <1>2, SettledType, UnsettledType
  <1>6. \/ WriteLine(line) /\ ea' = [ea EXCEPT ![c] = Settled(m, line)]
        \/ ea' = [ea EXCEPT ![c] = Unsettled(m, TRUE)]
        \/ ea' = [ea EXCEPT ![c] = Unsettled(m, FALSE)]
    BY DEF Finish
  <1>7. \A d \in Charts : ChartInv(d)'
    <2>1. \A d \in Charts \ {c} : ea[d].stage = "down"
      BY <1>1, OwnerAlone
    <2>2. CASE WriteLine(line) /\ ea' = [ea EXCEPT ![c] = Settled(m, line)]
      <3>1. ea'[c] = Settled(m, line) /\ \A d \in Charts \ {c} : ea'[d] = ea[d]
        BY <1>1, <1>5, <2>2, EaUpdate
      <3>2. /\ ea'[c].stage = "idle"
            /\ ea'[c].events = Append(m.events, line)
        BY <1>1, <3>1 DEF Settled, Memory
      <3>3. SameHistory(ea'[c].events, file')
        <4>1. file' = Append(file, line) /\ m.events \in Seq(Line)
          BY <1>1, <2>2, EndedWrite DEF Memory
        <4> HIDE DEF line, m
        <4> QED
          BY <1>1, <1>2, <3>2, <4>1, SameAppend
      <3>4. FileEnded'
        BY <1>1, <1>2, <2>2, WriteEnds
      <3>5. ChartInv(c)'
        BY <1>1, <1>3, <3>2, <3>3, <3>4 DEF ChartInv, InFlight
      <3> QED
        BY <2>1, <3>1, <3>5, ChartStep
    <2>3. CASE \/ ea' = [ea EXCEPT ![c] = Unsettled(m, TRUE)]
               \/ ea' = [ea EXCEPT ![c] = Unsettled(m, FALSE)]
      <3>1. /\ ea'[c] = Unsettled(m, TRUE) \/ ea'[c] = Unsettled(m, FALSE)
            /\ \A d \in Charts \ {c} : ea'[d] = ea[d]
        BY <1>1, <1>5, <2>3, EaUpdate
      <3>2. ea'[c].stage = "idle" /\ ~ ea'[c].recoveryReady
        BY <1>1, <3>1, UnsettledType
      <3>3. ChartInv(c)'
        BY <1>1, <1>3, <3>2 DEF ChartInv, InFlight
      <3> QED
        BY <2>1, <3>1, <3>3, ChartStep
    <2> QED
      BY <1>6, <2>2, <2>3
  <1>8. ASSUME NEW r \in Requests PROVE RequestInv(r)'
    <2>1. RequestInv(r)
      OBVIOUS
    <2>2. "order_filled" \in Kinds /\ "order_rejected" \in Kinds
      BY DEF Kinds, OrderKinds, TerminalKinds
    <2>3. CASE file' = file
      BY <1>3, <2>1, <2>3 DEF RequestInv
    <2>4. ASSUME NEW l \in Line, file' = Append(file, l),
                 (l.kind = kind /\ l.req = m.req) \/ l.kind = "torn"
          PROVE  RequestInv(r)'
      <3>1. /\ Reserved(file, r) => Reserved(file', r)
            /\ OutcomeIs(file', r, "order_filled") =>
                 OutcomeIs(file, r, "order_filled") \/ (kind = "order_filled" /\ m.req = r)
            /\ OutcomeIs(file', r, "order_rejected") =>
                 OutcomeIs(file, r, "order_rejected") \/ (kind = "order_rejected" /\ m.req = r)
        BY <1>1, <2>2, <2>4, AppendLookup
      <3> QED
        BY <1>3, <2>1, <3>1 DEF RequestInv
    <2>5. ~ LastIsOpen(file)
      BY <1>1 DEF FileEnded
    <2> QED
      BY <1>1, <1>2, <1>3, <2>3, <2>4, <2>5, WriteShape
  <1> QED
    BY <1>4, <1>7, <1>8

LEMMA CustodyNext == CustodyInv /\ [Next]_vars => CustodyInv'
  <1> SUFFICES ASSUME CustodyInv, [Next]_vars PROVE CustodyInv'
    OBVIOUS
  <1>1. /\ TypeOK /\ HeaderInv
        /\ \A d \in Charts : ChartInv(d)
        /\ \A r \in Requests : RequestInv(r)
    BY PartsOf
  <1>2. TypeOK'
    BY <1>1, NextType
  <1>3. /\ ea \in [Charts -> Memory] /\ file \in Seq(Line)
        /\ \A d \in Charts : ea[d] \in Memory
    BY <1>1 DEF TypeOK
  <1> DEFINE Goal == /\ HeaderInv'
                     /\ \A d \in Charts : ChartInv(d)'
                     /\ \A r \in Requests : RequestInv(r)'
  <1>4. ASSUME UNCHANGED <<file, sends, executed>>
        PROVE  \A r \in Requests : RequestInv(r)'
    BY <1>1, <1>4 DEF RequestInv
  <1>5. ASSUME UNCHANGED <<identity, header, file>> PROVE HeaderInv'
    BY <1>1, <1>5 DEF HeaderInv
  <1>6. ASSUME NEW c \in Charts, AcquireOwner(c) PROVE Goal
    <2>1. PICK mode \in Modes :
            ea' = [ea EXCEPT ![c] = [Down EXCEPT !.stage = "locked", !.enabled = mode,
                                                 !.boot = boots + 1]]
      BY <1>6 DEF AcquireOwner
    <2>2. /\ ea'[c].stage = "locked" /\ ~ ea'[c].journalReady /\ ea'[c].events = <<>>
          /\ \A d \in Charts \ {c} : ea'[d] = ea[d]
      BY <1>3, <2>1 DEF Down
    <2>3. \A d \in Charts \ {c} : ea[d].stage = "down"
      BY <1>1, <1>6, OwnerAlone DEF AcquireOwner, CanOwn
    <2>4. ChartInv(c)'
      BY <1>6, <2>2 DEF AcquireOwner, ChartInv, InFlight
    <2> QED
      BY <1>1, <1>4, <1>5, <1>6, <2>2, <2>3, <2>4, ChartStep DEF AcquireOwner, disk, broker
  <1>7. ASSUME NEW c \in Charts, CreateNew(c) PROVE Goal
    <2>1. file = <<>> /\ file' = file /\ UNCHANGED <<sends, executed>>
          /\ ea[c].stage = "locked" /\ ea[c].events = <<>>
      BY <1>1, <1>7 DEF CreateNew, HeaderInv, ChartInv, broker
    <2>2. HeaderInv'
      BY <1>7, <2>1 DEF CreateNew, HeaderInv
    <2>3. CASE Release(c)
      BY <1>1, <1>4, <2>1, <2>2, <2>3, ReleaseStep
    <2>4. CASE /\ header' = "good" /\ identity' = "good" /\ UNCHANGED owner
               /\ ea' = [ea EXCEPT ![c] = [@ EXCEPT !.stage = "loaded", !.journalReady = TRUE,
                                                    !.recoveryReady = TRUE]]
      <3>1. /\ ea'[c].stage = "loaded" /\ ea'[c].events = <<>>
            /\ \A d \in Charts \ {c} : ea'[d] = ea[d]
        BY <1>3, <2>1, <2>4 DEF Memory
      <3>2. ChartInv(c)'
        BY <1>1, <2>1, <2>4, <3>1 DEF ChartInv, InFlight, SameHistory
      <3> QED
        BY <1>1, <1>4, <2>1, <2>2, <3>1, <3>2, OwnerAlone, ChartStep
    <2> QED
      BY <1>7, <2>3, <2>4 DEF CreateNew
  <1>8. ASSUME NEW c \in Charts, LoadJournal(c) PROVE Goal
    <2>1. CASE Release(c)
      BY <1>1, <1>4, <1>5, <1>8, <2>1, ReleaseStep DEF LoadJournal, disk, broker
    <2> DEFINE good == header # "none" /\ Readable(file) /\ ValidHistory(file)
               kept == IF good THEN Loaded(file) ELSE <<>>
               seen == good => Recovered(file)
    <2>2. CASE /\ ea' = [ea EXCEPT ![c] = [@ EXCEPT !.stage = "loaded", !.journalReady = good,
                                   !.recoveryReady = seen, !.events = kept]]
               /\ UNCHANGED owner
      <3>1. good => SameHistory(kept, file)
        BY <1>3, LoadedShape
      <3> HIDE DEF good, kept, seen
      <3>2. /\ ea'[c].stage = "loaded" /\ ea'[c].journalReady = good /\ ea'[c].events = kept
            /\ \A d \in Charts \ {c} : ea'[d] = ea[d]
        BY <1>3, <2>2 DEF Memory
      <3>3. UNCHANGED <<identity, header, file, sends, executed>> /\ ea[c].stage = "locked"
            /\ identity # "absent"
        BY <1>8 DEF LoadJournal, disk, broker
      <3>4. ChartInv(c)'
        BY <1>1, <2>2, <3>1, <3>2, <3>3 DEF ChartInv, InFlight
      <3> QED
        BY <1>1, <1>4, <1>5, <3>2, <3>3, <3>4, OwnerAlone, ChartStep
    <2> QED
      BY <1>8, <2>1, <2>2 DEF LoadJournal
  <1>9. ASSUME NEW c \in Charts, StartStream(c) PROVE Goal
    <2> DEFINE line == NewLine(ea[c].events, "stream_started", NoRequest, NoRequest, ea[c].boot)
    <2>1. line \in Line /\ ~ IsTerminal(line) /\ line.kind = "stream_started"
          /\ line.end = "whole"
      BY <1>3, LineType DEF Memory, Kinds, IsTerminal, NewLine, TerminalKinds
    <2>2. UNCHANGED <<identity, sends, executed>> /\ ea[c].stage = "loaded"
      BY <1>9 DEF StartStream, broker
    <2>3. CASE /\ ~ ea[c].journalReady
               /\ ea' = [ea EXCEPT ![c] = [@ EXCEPT !.stage = "idle"]]
               /\ UNCHANGED <<header, file, owner>>
      <3>1. /\ ea'[c].stage = "idle" /\ ~ ea'[c].journalReady
            /\ \A d \in Charts \ {c} : ea'[d] = ea[d]
        BY <1>3, <2>3 DEF Memory
      <3>2. ChartInv(c)'
        BY <1>1, <2>2, <2>3, <3>1 DEF ChartInv, InFlight
      <3> QED
        BY <1>1, <1>4, <1>5, <2>2, <2>3, <3>1, <3>2, OwnerAlone, ChartStep
    <2>4. CASE /\ ea[c].journalReady
               /\ WriteLine(line)
               /\ ea' = [ea EXCEPT ![c] = [@ EXCEPT !.stage = "idle",
                                                    !.events = Append(ea[c].events, line)]]
               /\ UNCHANGED owner
      <3> HIDE DEF line
      <3>1. identity # "absent" /\ SameHistory(ea[c].events, file)
        BY <1>1, <2>2, <2>4 DEF ChartInv
      <3>2. /\ ea'[c].stage = "idle" /\ ea'[c].events = Append(ea[c].events, line)
            /\ \A d \in Charts \ {c} : ea'[d] = ea[d]
        BY <1>3, <2>4 DEF Memory
      <3>3. SameHistory(ea'[c].events, file')
        BY <1>3, <2>1, <2>4, <3>1, <3>2, StartKeepsHistory DEF Memory
      <3>4. FileEnded'
        BY <1>3, <2>1, <2>4, WriteEnds
      <3>5. ChartInv(c)'
        BY <1>1, <2>2, <2>4, <3>1, <3>2, <3>3, <3>4 DEF ChartInv, InFlight
      <3>6. HeaderInv'
        BY <2>2, <3>1 DEF HeaderInv
      <3> QED
        BY <1>1, <1>3, <2>1, <2>2, <2>4, <3>2, <3>5, <3>6, OwnerAlone, ChartStep, QuietWrite
    <2>5. CASE ea[c].journalReady /\ WriteFails(line) /\ Release(c)
      <3>1. HeaderInv'
        BY <1>1, <2>2, <2>5 DEF HeaderInv, ChartInv
      <3> QED
        BY <1>1, <1>3, <2>1, <2>2, <2>5, <3>1, ReleaseStep, QuietWrite
    <2> QED
      BY <1>9, <2>3, <2>4, <2>5 DEF StartStream
  <1>10. ASSUME NEW c \in Charts, Leave(c) PROVE Goal
    BY <1>1, <1>4, <1>5, <1>10, ReleaseStep DEF Leave, disk, broker
  <1>11. ASSUME NEW c \in Charts, NEW r \in Requests, NEW p \in Payloads, Replay(c, r, p)
         PROVE  Goal
    BY <1>1, <1>4, <1>5, <1>11 DEF Replay, disk, broker, ChartInv, InFlight,
        FileEnded, GluesHeader
  <1>12. ASSUME NEW c \in Charts, NEW r \in Requests, NEW p \in Payloads, Reserve(c, r, p)
         PROVE  Goal
    <2> DEFINE line == NewLine(ea[c].events, "submission_reserved", r, p, ea[c].boot)
    <2>1. line \in Line /\ ~ IsTerminal(line) /\ line.kind = "submission_reserved"
          /\ line.req = r /\ line.end = "whole"
      BY <1>3, LineType DEF Memory, Kinds, OrderKinds, IsTerminal, NewLine, TerminalKinds
    <2>2. /\ UNCHANGED <<identity, sends, executed, owner>> /\ ea[c].stage = "idle"
          /\ WriteLine(line) \/ WriteFails(line)
      BY <1>12 DEF Reserve, MayReserve, broker
    <2>3. /\ SameHistory(ea[c].events, file) /\ FileEnded
          /\ ~ Reserved(file, r) /\ ~ HasOutcome(file, r)
          /\ ea[c].journalReady /\ identity # "absent"
      BY <1>1, <1>12 DEF Reserve, MayReserve, ChartInv, SameHistory
    <2>4. HeaderInv'
      BY <2>2, <2>3 DEF HeaderInv
    <2>5. \A q \in Requests : RequestInv(q)'
      BY <1>1, <1>3, <2>1, <2>2, QuietWrite
    <2>6. CASE /\ WriteLine(line)
               /\ ea' = [ea EXCEPT ![c] = [@ EXCEPT !.stage = "reserved", !.recoveryReady = FALSE,
                                                    !.events = Append(ea[c].events, line),
                                                    !.req = r, !.payload = p]]
      <3> HIDE DEF line
      <3>1. file' = Append(file, line)
        BY <2>3, <2>6, EndedWrite
      <3>2. /\ Reserved(file', r) /\ ~ HasOutcome(file', r)
        BY <1>3, <2>1, <2>3, <3>1, AppendLookup DEF Kinds
      <3>3. sends[r] = 0
        BY <1>1, <2>3 DEF RequestInv, TypeOK
      <3>4. /\ ea'[c].stage = "reserved" /\ ea'[c].events = Append(ea[c].events, line)
            /\ ea'[c].req = r /\ ea'[c].payload = p /\ ea'[c].journalReady
            /\ \A d \in Charts \ {c} : ea'[d] = ea[d]
        BY <1>3, <2>3, <2>6 DEF Memory
      <3>5. SameHistory(ea'[c].events, file')
        BY <1>3, <2>1, <2>3, <3>1, <3>4, SameAppend DEF Memory
      <3>6. FileEnded'
        BY <1>3, <2>1, <2>6, WriteEnds
      <3>7. ChartInv(c)'
        BY <1>1, <2>2, <2>3, <3>2, <3>3, <3>4, <3>5, <3>6 DEF ChartInv, InFlight
      <3> QED
        BY <1>1, <2>2, <2>4, <2>5, <3>4, <3>7, OwnerAlone, ChartStep
    <2>7. CASE \/ ea' = [ea EXCEPT ![c] = [@ EXCEPT !.recoveryReady = FALSE]]
               \/ ea' = [ea EXCEPT ![c] = [@ EXCEPT !.recoveryReady = FALSE,
                                                    !.journalReady = FALSE]]
      <3>1. /\ ea'[c].stage = "idle" /\ ~ ea'[c].recoveryReady
            /\ \A d \in Charts \ {c} : ea'[d] = ea[d]
        BY <1>3, <2>2, <2>7, HaltUpdate
      <3>2. ChartInv(c)'
        BY <1>1, <2>2, <2>3, <3>1 DEF ChartInv, InFlight
      <3> QED
        BY <1>1, <2>2, <2>4, <2>5, <3>1, <3>2, OwnerAlone, ChartStep
    <2> QED
      BY <1>12, <2>6, <2>7 DEF Reserve
  <1>13. ASSUME NEW c \in Charts, Preflight(c) PROVE Goal
    <2> DEFINE lots == IF ea[c].payload \in Closing THEN ticket ELSE 0
    <2>1. ea' = [ea EXCEPT ![c] = [@ EXCEPT !.stage = "checked", !.before = lots]]
      BY <1>13 DEF Preflight
    <2> HIDE DEF lots
    <2>2. /\ ea'[c] = [ea[c] EXCEPT !.stage = "checked", !.before = lots]
          /\ \A d \in Charts \ {c} : ea'[d] = ea[d]
      BY <1>3, <2>1
    <2>3. /\ ea'[c].stage = "checked" /\ ea'[c].events = ea[c].events
          /\ ea'[c].journalReady = ea[c].journalReady
          /\ ea'[c].req = ea[c].req /\ ea'[c].payload = ea[c].payload
      BY <1>3, <2>2 DEF Memory
    <2>4. UNCHANGED <<identity, header, file, owner, sends, executed>> /\ ea[c].stage = "reserved"
      BY <1>13 DEF Preflight, disk
    <2>5. ChartInv(c)'
      BY <1>1, <2>3, <2>4 DEF ChartInv, InFlight, FileEnded, GluesHeader
    <2> QED
      BY <1>1, <1>4, <1>5, <2>2, <2>4, <2>5, OwnerAlone, ChartStep
  <1>14. ASSUME NEW c \in Charts, Refuse(c) PROVE Goal
    <2>1. /\ InFlight(ea[c]) /\ Finish(c, "order_rejected") /\ UNCHANGED broker
          /\ "order_rejected" \in TerminalKinds
      BY <1>14 DEF Refuse, InFlight, TerminalKinds
    <2>2. executed[ea[c].req] = 0
      BY <1>1, <1>14, <2>1 DEF Refuse, ChartInv, RequestInv, TypeOK
    <2> QED
      BY <1>1, <2>1, <2>2, FinishStep
  <1>15. ASSUME NEW c \in Charts, OrderSend(c) PROVE Goal
    <2> DEFINE q == ea[c].req
    <2>1. PICK res \in BrokerResults(ea[c].payload) :
            /\ ea' = [ea EXCEPT ![c] = [@ EXCEPT !.stage = "sent", !.result = res]]
            /\ sends' = [sends EXCEPT ![q] = @ + 1]
            /\ executed' = [executed EXCEPT ![q] = IF res.ran THEN @ + 1 ELSE @]
      BY <1>15 DEF OrderSend
    <2>2. /\ res \in Results
          /\ res.retcode = "done" /\ res.ids /\ res.facts => res.ran
          /\ res.retcode = "reject" /\ res.ran => res.ids
      BY DEF BrokerResults
    <2>3. /\ ea'[c] = [ea[c] EXCEPT !.stage = "sent", !.result = res]
          /\ \A d \in Charts \ {c} : ea'[d] = ea[d]
      BY <1>3, <2>1
    <2>4. /\ ea'[c].stage = "sent" /\ ea'[c].events = ea[c].events
          /\ ea'[c].journalReady = ea[c].journalReady /\ ea'[c].result = res
          /\ ea'[c].req = ea[c].req /\ ea'[c].payload = ea[c].payload
      BY <1>3, <2>3 DEF Memory
    <2>5. UNCHANGED <<identity, header, file, owner>> /\ ea[c].stage = "checked"
      BY <1>15 DEF OrderSend, disk
    <2>6. /\ q \in Requests /\ sends[q] = 0 /\ Reserved(file, q) /\ ~ HasOutcome(file, q)
      BY <1>1, <2>5 DEF ChartInv, InFlight
    <2>7. executed[q] = 0
      BY <1>1, <2>6 DEF RequestInv, TypeOK
    <2>8. /\ sends'[q] = 1 /\ executed'[q] = IF res.ran THEN 1 ELSE 0
          /\ \A r \in Requests \ {q} : sends'[r] = sends[r] /\ executed'[r] = executed[r]
      BY <1>1, <2>1, <2>6, <2>7 DEF TypeOK
    <2>9. ChartInv(c)'
      BY <1>1, <2>2, <2>4, <2>5, <2>8 DEF ChartInv, InFlight, FileEnded, GluesHeader
    <2>10. ASSUME NEW r \in Requests PROVE RequestInv(r)'
      <3>1. CASE r = q
        <4>1. ~ OutcomeIs(file, q, "order_filled") /\ ~ OutcomeIs(file, q, "order_rejected")
          BY <2>6 DEF HasOutcome, OutcomeIs, IsTerminal, TerminalKinds
        <4> QED
          BY <2>5, <2>6, <2>8, <3>1, <4>1 DEF RequestInv
      <3>2. CASE r # q
        BY <1>1, <2>5, <2>8, <3>2 DEF RequestInv
      <3> QED
        BY <3>1, <3>2
    <2> QED
      BY <1>1, <1>5, <2>3, <2>5, <2>9, <2>10, OwnerAlone, ChartStep
  <1>16. ASSUME NEW c \in Charts, Settle(c) PROVE Goal
    <2>1. /\ InFlight(ea[c]) /\ Finish(c, Outcome(ea[c])) /\ UNCHANGED broker
          /\ Outcome(ea[c]) \in TerminalKinds
      BY <1>16 DEF Settle, InFlight, Outcome, TerminalKinds
    <2>2. /\ Outcome(ea[c]) = "order_filled" => executed[ea[c].req] = 1
          /\ Outcome(ea[c]) = "order_rejected" => executed[ea[c].req] = 0
      BY <1>1, <1>16, <2>1 DEF Settle, ChartInv, Outcome, ResultIsRejected
    <2> QED
      BY <1>1, <2>1, <2>2, FinishStep
  <1>17. ASSUME ManualClose PROVE Goal
    BY <1>1, <1>4, <1>5, <1>17 DEF ManualClose, disk, ChartInv, InFlight, FileEnded,
        GluesHeader
  <1>18. ASSUME UNCHANGED vars PROVE Goal
    <2>1. UNCHANGED <<identity, header, file, owner, ea, sends, executed>>
      BY <1>18 DEF vars
    <2>2. \A d \in Charts : ChartInv(d)'
      BY <1>1, <2>1 DEF ChartInv, InFlight, FileEnded, GluesHeader
    <2> QED
      BY <1>4, <1>5, <2>1, <2>2
  <1>19. Goal
    <2> HIDE DEF Goal
    <2> QED
      BY <1>6, <1>7, <1>8, <1>9, <1>10, <1>11, <1>12, <1>13, <1>14, <1>15, <1>16, <1>17, <1>18
      DEF Next
  <1> QED
    BY <1>2, <1>19, FromParts

\* The inductive invariant holds in every behaviour.
THEOREM CustodyInvariant == Spec => []CustodyInv
  BY CustodyInit, CustodyNext, PTL DEF Spec

\* At most one native order per client_request_id, for any number of charts,
\* starts, failed writes and repetitions.
THEOREM OneNativeOrder == Spec => []AtMostOneSend
  <1>1. CustodyInv => AtMostOneSend
    BY DEF CustodyInv
  <1> QED
    BY <1>1, CustodyInvariant, PTL

\* A request that reached the broker is reserved in the events file.
THEOREM WriteAhead == Spec => []SentIsReserved
  <1>1. CustodyInv => SentIsReserved
    BY DEF CustodyInv
  <1> QED
    BY <1>1, CustodyInvariant, PTL

\* Filled requests ran exactly once, rejected ones did not run.
THEOREM JournalTruthful == Spec => []OutcomeTruthful
  <1>1. CustodyInv => OutcomeTruthful
    BY DEF CustodyInv
  <1> QED
    BY <1>1, CustodyInvariant, PTL

-----------------------------------------------------------------------------
(* What one step does to the lookups in the file.                          *)

\* A reservation, by the only chart that may make one.
Reserves(r, l) ==
  /\ file' = Append(file, l)
  /\ l.kind = "submission_reserved" /\ l.req = r
  /\ ~ Reserved(file, r)
  /\ \E c \in Charts : ea[c].stage = "idle" /\ ea[c].journalReady /\ ea[c].recoveryReady

\* An outcome for the request in flight at chart c.
Settles(c, l) ==
  /\ InFlight(ea[c])
  /\ file' = Append(file, l)
  /\ l.kind \in TerminalKinds /\ l.req = ea[c].req
  /\ l.kind = "order_filled" => executed[ea[c].req] = 1
  /\ l.kind = "order_rejected" => executed[ea[c].req] = 0

\* A write of a line that is no order event changes no lookup.
LEMMA QuietLookup ==
  ASSUME file \in Seq(Line), NEW line \in Line, line.kind = "stream_started",
         WriteLine(line) \/ WriteFails(line)
  PROVE  SameHistory(file', file)
  <1>1. CASE file' = file
    BY <1>1 DEF SameHistory
  <1>2. CASE LastIsOpen(file) /\ file' = Glued(file)
    BY <1>2, GluedShape
  <1>3. ASSUME NEW l \in Line, file' = Append(file, l), l.kind \in {"stream_started", "torn"}
        PROVE  SameHistory(file', file)
    BY <1>3, OtherAppend
  <1> QED
    BY <1>1, <1>2, <1>3, WriteShape

LEMMA FinishLookup ==
  ASSUME CustodyInv, NEW c \in Charts, NEW kind \in TerminalKinds, InFlight(ea[c]),
         Finish(c, kind),
         kind = "order_filled" => executed[ea[c].req] = 1,
         kind = "order_rejected" => executed[ea[c].req] = 0
  PROVE  \/ SameHistory(file', file)
         \/ \E l \in Line : Settles(c, l)
  <1> DEFINE line == NewLine(ea[c].events, kind, ea[c].req, ea[c].payload, ea[c].boot)
  <1>1. /\ ea[c] \in Memory /\ file \in Seq(Line) /\ FileEnded
    BY DEF CustodyInv, TypeOK, MemoryIsFile
  <1>2. line \in Line /\ line.kind = kind /\ line.req = ea[c].req
    BY <1>1, LineType DEF Memory, Kinds, OrderKinds, NewLine
  <1>3. WriteLine(line) \/ WriteFails(line)
    BY DEF Finish
  <1> HIDE DEF line
  <1>4. CASE file' = file
    BY <1>4 DEF SameHistory
  <1>5. ASSUME NEW l \in Line, file' = Append(file, l), l.kind = kind, l.req = ea[c].req
        PROVE  Settles(c, l)
    BY <1>5 DEF Settles
  <1>6. ASSUME NEW l \in Line, file' = Append(file, l), l.kind = "torn"
        PROVE  SameHistory(file', file)
    BY <1>1, <1>6, OtherAppend
  <1>7. ~ LastIsOpen(file)
    BY <1>1 DEF FileEnded
  <1> QED
    BY <1>1, <1>2, <1>3, <1>4, <1>5, <1>6, <1>7, WriteShape

LEMMA ReserveLookup ==
  ASSUME CustodyInv, NEW c \in Charts, NEW r \in Requests, NEW p \in Payloads, Reserve(c, r, p)
  PROVE  \/ SameHistory(file', file)
         \/ \E l \in Line : Reserves(r, l)
  <1> DEFINE line == NewLine(ea[c].events, "submission_reserved", r, p, ea[c].boot)
  <1>1. /\ ea[c] \in Memory /\ file \in Seq(Line) /\ FileEnded
        /\ ea[c].stage = "idle" /\ ea[c].journalReady /\ ea[c].recoveryReady
        /\ ~ Reserved(file, r)
    BY DEF CustodyInv, TypeOK, MemoryIsFile, Reserve, MayReserve, SameHistory
  <1>2. line \in Line /\ line.kind = "submission_reserved" /\ line.req = r
    BY <1>1, LineType DEF Memory, Kinds, OrderKinds, NewLine
  <1>3. WriteLine(line) \/ WriteFails(line)
    BY DEF Reserve
  <1> HIDE DEF line
  <1>4. CASE file' = file
    BY <1>4 DEF SameHistory
  <1>5. ASSUME NEW l \in Line, file' = Append(file, l), l.kind = "submission_reserved", l.req = r
        PROVE  Reserves(r, l)
    BY <1>1, <1>5 DEF Reserves
  <1>6. ASSUME NEW l \in Line, file' = Append(file, l), l.kind = "torn"
        PROVE  SameHistory(file', file)
    BY <1>1, <1>6, OtherAppend
  <1>7. ~ LastIsOpen(file)
    BY <1>1 DEF FileEnded
  <1> QED
    BY <1>1, <1>2, <1>3, <1>4, <1>5, <1>6, <1>7, WriteShape

\* What Settle writes is true of the broker.
LEMMA SettleTruth ==
  ASSUME CustodyInv, NEW c \in Charts, Settle(c)
  PROVE  /\ InFlight(ea[c]) /\ Finish(c, Outcome(ea[c])) /\ Outcome(ea[c]) \in TerminalKinds
         /\ Outcome(ea[c]) = "order_filled" => executed[ea[c].req] = 1
         /\ Outcome(ea[c]) = "order_rejected" => executed[ea[c].req] = 0
  <1>1. InFlight(ea[c]) /\ ea[c].stage = "sent" /\ Finish(c, Outcome(ea[c]))
    BY DEF Settle, InFlight
  <1>2. Outcome(ea[c]) \in TerminalKinds
    BY DEF Outcome, TerminalKinds
  <1> QED
    BY <1>1, <1>2 DEF CustodyInv, FlightInv, Outcome, ResultIsRejected

LEMMA RefuseTruth ==
  ASSUME CustodyInv, NEW c \in Charts, Refuse(c)
  PROVE  /\ InFlight(ea[c]) /\ Finish(c, "order_rejected") /\ "order_rejected" \in TerminalKinds
         /\ executed[ea[c].req] = 0
  <1>1. InFlight(ea[c]) /\ ea[c].stage \in {"reserved", "checked"} /\ Finish(c, "order_rejected")
    BY DEF Refuse, InFlight
  <1>2. sends[ea[c].req] = 0 /\ ea[c].req \in Requests
    BY <1>1 DEF CustodyInv, FlightInv
  <1> QED
    BY <1>1, <1>2 DEF CustodyInv, ExecutedWasSent, TypeOK, TerminalKinds

LEMMA LookupStep ==
  ASSUME CustodyInv, [Next]_vars
  PROVE  \/ SameHistory(file', file)
         \/ \E r \in Requests, l \in Line : Reserves(r, l)
         \/ \E c \in Charts, l \in Line : Settles(c, l)
  <1>1. CASE file' = file
    BY <1>1 DEF SameHistory
  <1>2. ASSUME NEW c \in Charts, StartStream(c) PROVE SameHistory(file', file)
    <2> DEFINE line == NewLine(ea[c].events, "stream_started", NoRequest, NoRequest, ea[c].boot)
    <2>1. file \in Seq(Line) /\ line \in Line /\ line.kind = "stream_started"
      BY LineType DEF CustodyInv, TypeOK, Memory, Kinds, NewLine
    <2> QED
      BY <1>1, <1>2, <2>1, QuietLookup DEF StartStream, SameHistory
  <1>3. ASSUME NEW c \in Charts, NEW r \in Requests, NEW p \in Payloads, Reserve(c, r, p)
        PROVE  SameHistory(file', file) \/ \E l \in Line : Reserves(r, l)
    BY <1>3, ReserveLookup
  <1>4. ASSUME NEW c \in Charts, Refuse(c) \/ Settle(c)
        PROVE  SameHistory(file', file) \/ \E l \in Line : Settles(c, l)
    BY <1>4, RefuseTruth, SettleTruth, FinishLookup
  <1>5. ASSUME NEW c \in Charts,
               \/ AcquireOwner(c) \/ CreateNew(c) \/ LoadJournal(c) \/ Leave(c)
               \/ Preflight(c) \/ OrderSend(c)
        PROVE  file' = file
    BY <1>5 DEF AcquireOwner, CreateNew, LoadJournal, Leave, Preflight, OrderSend, disk
  <1>6. ASSUME NEW c \in Charts, NEW r \in Requests, NEW p \in Payloads, Replay(c, r, p)
        PROVE  file' = file
    BY <1>6 DEF Replay, disk
  <1>7. ASSUME ManualClose \/ UNCHANGED vars PROVE file' = file
    BY <1>7 DEF ManualClose, vars, disk
  <1> QED
    BY <1>1, <1>2, <1>3, <1>4, <1>5, <1>6, <1>7 DEF Next

-----------------------------------------------------------------------------
(* The file settles a request once.                                        *)

LEMMA SettledOnceNext ==
  ASSUME CustodyInv, SettledOnce, [Next]_vars
  PROVE  SettledOnce'
  <1>1. file \in Seq(Line) /\ \A k \in TerminalKinds : k \in Kinds
    BY DEF CustodyInv, TypeOK, Kinds, OrderKinds
  <1>2. CASE SameHistory(file', file)
    BY <1>2 DEF SameHistory, SettledOnce
  <1>3. ASSUME NEW q \in Requests, NEW l \in Line, Reserves(q, l) PROVE SettledOnce'
    <2>1. /\ file' = Append(file, l) /\ l.kind = "submission_reserved" /\ ~ IsTerminal(l)
          /\ l.kind \notin TerminalKinds
      BY <1>3 DEF Reserves, IsTerminal, TerminalKinds
    <2>2. ASSUME NEW r \in Requests, NEW k \in TerminalKinds
          PROVE  /\ Reserved(file, r) => Reserved(file', r)
                 /\ HasOutcome(file', r) => HasOutcome(file, r)
                 /\ OutcomeIs(file', r, k) => OutcomeIs(file, r, k)
      <3>1. k \in Kinds /\ k # l.kind
        BY <1>1, <2>1
      <3> QED
        BY <1>1, <2>1, <3>1, AppendLookup
    <2>3. "order_filled" \in TerminalKinds
      BY DEF TerminalKinds
    <2> QED
      BY <2>2, <2>3 DEF SettledOnce
  <1>4. ASSUME NEW c \in Charts, NEW l \in Line, Settles(c, l) PROVE SettledOnce'
    <2>1. /\ file' = Append(file, l) /\ l.kind \in TerminalKinds /\ l.req = ea[c].req
          /\ Reserved(file, l.req) /\ ~ HasOutcome(file, l.req)
      BY <1>4 DEF Settles, CustodyInv, FlightInv
    <2>2. ASSUME NEW r \in Requests, NEW k \in TerminalKinds
          PROVE  /\ Reserved(file, r) => Reserved(file', r)
                 /\ HasOutcome(file', r) => HasOutcome(file, r) \/ r = l.req
                 /\ OutcomeIs(file', r, k) => OutcomeIs(file, r, k) \/ (k = l.kind /\ r = l.req)
      <3>1. k \in Kinds
        BY <1>1
      <3> QED
        BY <1>1, <2>1, <3>1, AppendLookup
    <2>3. \A k \in TerminalKinds : ~ OutcomeIs(file, l.req, k)
      BY <2>1 DEF HasOutcome, OutcomeIs, IsTerminal
    <2> QED
      BY <2>1, <2>2, <2>3 DEF SettledOnce
  <1> QED
    BY <1>2, <1>3, <1>4, LookupStep

-----------------------------------------------------------------------------
(* What one step does to the events a chart serves.                        *)

\* The chart appends a line to its events and writes it to the file.
Grows(d, l) ==
  /\ Appends(ea[d])
  /\ l.end = "whole"
  /\ WriteLine(l)
  /\ ea'[d].events = Append(ea[d].events, l)
  /\ \/ ea[d].stage = "loaded" /\ l.kind = "stream_started" /\ ea'[d].journalReady
     \/ FileEnded

\* Down or starting: it serves nothing.
Empty(m) == m.events = <<>> /\ ~ m.journalReady

Keeps(d) ==
  /\ UNCHANGED <<header, file>>
  /\ ea'[d].events = ea[d].events
  /\ ea'[d].journalReady = ea[d].journalReady
  /\ Appends(ea'[d]) => Appends(ea[d])

\* The file may have a line more that the chart has not stored.
Misses(d) ==
  /\ FileEnded
  /\ UNCHANGED header
  /\ ea'[d].events = ea[d].events
  /\ ~ Appends(ea'[d])
  /\ \/ file' = file /\ ea'[d].journalReady = ea[d].journalReady
     \/ \E l \in Line : file' = Append(file, l)

EventsStep(d) ==
  \/ Empty(ea'[d])
  \/ ea'[d].events = <<>> /\ file' = <<>> /\ ea'[d].journalReady
  \/ ea'[d].events = Loaded(file) /\ UNCHANGED <<header, file>> /\ header # "none"
  \/ \E l \in Line : Grows(d, l)
  \/ Keeps(d)
  \/ Misses(d)

\* While one chart runs, or none owns the lock, the others serve nothing.
LEMMA OthersEmpty ==
  ASSUME CustodyInv, NEW c \in Charts, ea[c].stage # "down" \/ owner = NoChart
  PROVE  \A d \in Charts \ {c} : ea[d].stage = "down" /\ Empty(ea[d])
  BY ChartAssumption DEF CustodyInv, OneWriter, Empty

\* A write where the file has ended its last line.
LEMMA EndedStep ==
  ASSUME file \in Seq(Line), FileEnded, NEW line \in Line, WriteLine(line) \/ WriteFails(line)
  PROVE  /\ UNCHANGED header
         /\ file' = file \/ \E l \in Line : file' = Append(file, l)
  <1>1. UNCHANGED header
    BY DEF FileEnded, WriteLine, WriteFails
  <1> QED
    BY <1>1, WriteShape DEF FileEnded

LEMMA FinishEvents ==
  ASSUME CustodyInv, NEW c \in Charts, NEW kind \in TerminalKinds, InFlight(ea[c]),
         Finish(c, kind)
  PROVE  /\ EventsStep(c)
         /\ \A d \in Charts \ {c} : ea'[d] = ea[d]
         /\ ea'[c].stage = "idle"
         /\ \/ answers' = answers
            \/ /\ answers' = [answers EXCEPT ![ea[c].req] = @ \union {kind}]
               /\ OutcomeIs(file', ea[c].req, kind)
  <1> DEFINE m == ea[c]
             line == NewLine(m.events, kind, m.req, m.payload, m.boot)
  <1>1. /\ m \in Memory /\ ea \in [Charts -> Memory] /\ file \in Seq(Line) /\ FileEnded
        /\ m.journalReady /\ m.req \in Requests
    BY DEF CustodyInv, TypeOK, MemoryIsFile, FlightInv
  <1>2. line \in Line /\ line.end = "whole" /\ line.kind = kind /\ line.req = m.req
    BY <1>1, LineType DEF Memory, Kinds, OrderKinds, NewLine
  <1>3. Settled(m, line) \in Memory /\ Unsettled(m, TRUE) \in Memory /\ Unsettled(m, FALSE) \in Memory
    BY <1>1, <1>2, SettledType, UnsettledType
  <1>4. Appends(m)
    BY <1>1 DEF Appends
  <1>5. CASE /\ WriteLine(line)
             /\ ea' = [ea EXCEPT ![c] = Settled(m, line)]
    <2>1. ea'[c] = Settled(m, line) /\ \A d \in Charts \ {c} : ea'[d] = ea[d]
      BY <1>1, <1>3, <1>5, EaUpdate
    <2>2. ea'[c].stage = "idle" /\ ea'[c].events = Append(m.events, line)
      BY <1>1, <2>1 DEF Settled, Memory
    <2>3. EventsStep(c)
      BY <1>1, <1>2, <1>4, <1>5, <2>2 DEF EventsStep, Grows
    <2>4. OutcomeIs(file', m.req, kind)
      <3>1. file' = Append(file, line)
        BY <1>1, <1>5, EndedWrite
      <3>2. kind \in Kinds
        BY DEF Kinds, OrderKinds
      <3> HIDE DEF m, line
      <3> QED
        BY <1>1, <1>2, <3>1, <3>2, AppendLookup
    <2>5. \/ answers' = answers
          \/ answers' = [answers EXCEPT ![m.req] = @ \union {kind}]
      BY DEF Finish
    <2> QED
      BY <2>1, <2>2, <2>3, <2>4, <2>5
  <1>6. CASE /\ WriteFails(line)
             /\ ea' = [ea EXCEPT ![c] = Unsettled(m, TRUE)]
             /\ UNCHANGED answers
    <2>1. ea'[c] = Unsettled(m, TRUE) /\ \A d \in Charts \ {c} : ea'[d] = ea[d]
      BY <1>1, <1>3, <1>6, EaUpdate
    <2>2. /\ ea'[c].stage = "idle" /\ ea'[c].events = m.events
          /\ ea'[c].journalReady /\ ~ ea'[c].recoveryReady
      BY <1>1, <2>1 DEF Unsettled, Memory
    <2>3. ~ Appends(ea'[c])
      BY <2>2 DEF Appends, InFlight
    <2>4. UNCHANGED header /\ (file' = file \/ \E l \in Line : file' = Append(file, l))
      BY <1>1, <1>2, <1>6, EndedStep
    <2> QED
      BY <1>1, <1>6, <2>1, <2>2, <2>3, <2>4 DEF EventsStep, Misses
  <1>7. CASE /\ WriteLine(line)
             /\ ea' = [ea EXCEPT ![c] = Unsettled(m, FALSE)]
             /\ UNCHANGED answers
    <2>1. ea'[c] = Unsettled(m, FALSE) /\ \A d \in Charts \ {c} : ea'[d] = ea[d]
      BY <1>1, <1>3, <1>7, EaUpdate
    <2>2. /\ ea'[c].stage = "idle" /\ ea'[c].events = m.events
          /\ ~ ea'[c].journalReady
      BY <1>1, <2>1 DEF Unsettled, Memory
    <2>3. file' = Append(file, line) /\ UNCHANGED header
      BY <1>1, <1>7, EndedWrite
    <2> QED
      BY <1>1, <1>2, <1>7, <2>1, <2>2, <2>3 DEF EventsStep, Misses, Appends
  <1> QED
    BY <1>5, <1>6, <1>7 DEF Finish

LEMMA ReserveEvents ==
  ASSUME CustodyInv, NEW c \in Charts, NEW r \in Requests, NEW p \in Payloads, Reserve(c, r, p)
  PROVE  /\ EventsStep(c)
         /\ \A d \in Charts \ {c} : ea'[d] = ea[d]
  <1> DEFINE m == ea[c]
             line == NewLine(m.events, "submission_reserved", r, p, m.boot)
  <1>1. /\ m \in Memory /\ ea \in [Charts -> Memory] /\ file \in Seq(Line) /\ FileEnded
        /\ m.stage = "idle" /\ m.journalReady /\ m.recoveryReady /\ Appends(m)
    BY DEF CustodyInv, TypeOK, MemoryIsFile, Reserve, MayReserve, Appends
  <1>2. line \in Line /\ line.end = "whole"
    BY <1>1, LineType DEF Memory, Kinds, OrderKinds, NewLine
  <1>3. Append(m.events, line) \in Seq(Line)
    BY <1>1, <1>2 DEF Memory
  <1> HIDE DEF line
  <1>4. CASE /\ WriteLine(line)
             /\ ea' = [ea EXCEPT ![c] = [@ EXCEPT !.stage = "reserved", !.recoveryReady = FALSE,
                                             !.events = Append(ea[c].events, line),
                                             !.req = r, !.payload = p]]
    <2>1. ea'[c].events = Append(m.events, line) /\ \A d \in Charts \ {c} : ea'[d] = ea[d]
      BY <1>1, <1>4 DEF Memory
    <2> QED
      BY <1>1, <1>2, <1>4, <2>1 DEF EventsStep, Grows
  <1>5. CASE /\ WriteFails(line)
             /\ ea' = [ea EXCEPT ![c] = [@ EXCEPT !.recoveryReady = FALSE]]
    <2>1. /\ ea'[c].events = m.events /\ ~ ea'[c].recoveryReady /\ ea'[c].stage = "idle"
          /\ ea'[c].journalReady
          /\ \A d \in Charts \ {c} : ea'[d] = ea[d]
      BY <1>1, <1>5 DEF Memory
    <2>2. UNCHANGED header /\ (file' = file \/ \E l \in Line : file' = Append(file, l))
      BY <1>1, <1>2, <1>5, EndedStep
    <2> QED
      BY <1>1, <2>1, <2>2 DEF EventsStep, Misses, Appends, InFlight
  <1>6. CASE /\ WriteLine(line)
             /\ ea' = [ea EXCEPT ![c] = [@ EXCEPT !.recoveryReady = FALSE, !.journalReady = FALSE]]
    <2>1. /\ ea'[c].events = m.events /\ ~ ea'[c].journalReady
          /\ \A d \in Charts \ {c} : ea'[d] = ea[d]
      BY <1>1, <1>6 DEF Memory
    <2>2. file' = Append(file, line) /\ UNCHANGED header
      BY <1>1, <1>6, EndedWrite
    <2> QED
      BY <1>1, <1>2, <2>1, <2>2 DEF EventsStep, Misses, Appends
  <1> QED
    BY <1>4, <1>5, <1>6 DEF Reserve, line

LEMMA EventsNext ==
  ASSUME CustodyInv, [Next]_vars, NEW e \in Charts
  PROVE  EventsStep(e)
  <1>1. /\ ea \in [Charts -> Memory] /\ file \in Seq(Line)
        /\ \A d \in Charts : ea[d] \in Memory
    BY DEF CustodyInv, TypeOK
  \* The actor's step, and the others as OthersEmpty leaves them.
  <1>2. ASSUME NEW c \in Charts, EventsStep(c), \A d \in Charts \ {c} : ea'[d] = ea[d],
               ea[c].stage # "down" \/ owner = NoChart
        PROVE  EventsStep(e)
    <2>1. CASE e # c
      BY <1>2, <2>1, OthersEmpty DEF EventsStep
    <2> QED
      BY <1>2, <2>1
  <1>3. ASSUME NEW c \in Charts, Release(c)
        PROVE  EventsStep(c) /\ \A d \in Charts \ {c} : ea'[d] = ea[d]
    BY <1>1, <1>3 DEF Release, Down, EventsStep, Empty
  <1>4. ASSUME NEW c \in Charts, AcquireOwner(c) PROVE EventsStep(e)
    <2>1. /\ owner = NoChart
          /\ ea'[c].events = <<>> /\ ~ ea'[c].journalReady
          /\ \A d \in Charts \ {c} : ea'[d] = ea[d]
      BY <1>1, <1>4 DEF AcquireOwner, CanOwn, Down
    <2> QED
      BY <1>2, <2>1 DEF EventsStep, Empty
  <1>5. ASSUME NEW c \in Charts, CreateNew(c) PROVE EventsStep(e)
    <2>1. ea[c].stage = "locked" /\ file' = <<>> /\ ea[c].events = <<>>
      BY <1>5 DEF CreateNew, CustodyInv, OneWriter
    <2>2. CASE ea' = [ea EXCEPT ![c] = [@ EXCEPT !.stage = "loaded", !.journalReady = TRUE,
                                             !.recoveryReady = TRUE]]
      <3>1. /\ ea'[c].events = <<>> /\ ea'[c].journalReady
            /\ \A d \in Charts \ {c} : ea'[d] = ea[d]
        BY <1>1, <2>1, <2>2 DEF Memory
      <3> QED
        BY <1>2, <2>1, <3>1 DEF EventsStep
    <2> QED
      BY <1>2, <1>3, <1>5, <2>1, <2>2 DEF CreateNew
  <1>6. ASSUME NEW c \in Charts, LoadJournal(c) PROVE EventsStep(e)
    <2> DEFINE good == header # "none" /\ Readable(file) /\ ValidHistory(file)
               seen == good => Recovered(file)
               kept == IF good THEN Loaded(file) ELSE <<>>
    <2>1. ea[c].stage = "locked" /\ UNCHANGED <<header, file>>
      BY <1>6 DEF LoadJournal, disk
    <2>2. CASE ea' = [ea EXCEPT ![c] = [@ EXCEPT !.stage = "loaded", !.journalReady = good,
                                   !.recoveryReady = seen, !.events = kept]]
      <3> HIDE DEF good, seen, kept
      <3>1. /\ ea'[c].events = kept /\ ea'[c].journalReady = good
            /\ \A d \in Charts \ {c} : ea'[d] = ea[d]
        BY <1>1, <2>2 DEF Memory
      <3> USE DEF good, kept
      <3>2. EventsStep(c)
        BY <2>1, <3>1 DEF EventsStep, Empty
      <3> QED
        BY <1>2, <2>1, <3>1, <3>2
    <2> QED
      BY <1>2, <1>3, <1>6, <2>1, <2>2 DEF LoadJournal
  <1>7. ASSUME NEW c \in Charts, StartStream(c) PROVE EventsStep(e)
    <2> DEFINE line == NewLine(ea[c].events, "stream_started", NoRequest, NoRequest, ea[c].boot)
    <2>1. ea[c].stage = "loaded"
      BY <1>7 DEF StartStream
    <2>2. line \in Line /\ line.kind = "stream_started" /\ line.end = "whole"
      BY <1>1, LineType DEF Memory, Kinds, NewLine
    <2>3. Append(ea[c].events, line) \in Seq(Line)
      BY <1>1, <2>2 DEF Memory
    <2> HIDE DEF line
    <2>4. CASE /\ ~ ea[c].journalReady
               /\ ea' = [ea EXCEPT ![c] = [@ EXCEPT !.stage = "idle"]]
               /\ UNCHANGED <<header, file>>
      <3>1. /\ ea'[c].events = ea[c].events /\ ea'[c].journalReady = ea[c].journalReady
            /\ \A d \in Charts \ {c} : ea'[d] = ea[d]
        BY <1>1, <2>4 DEF Memory
      <3>2. EventsStep(c)
        BY <2>4, <3>1 DEF EventsStep, Keeps, Appends
      <3> QED
        BY <1>2, <2>1, <3>1, <3>2
    <2>5. CASE /\ ea[c].journalReady
               /\ WriteLine(line)
               /\ ea' = [ea EXCEPT ![c] = [@ EXCEPT !.stage = "idle",
                                             !.events = Append(ea[c].events, line)]]
      <3>1. /\ ea'[c].events = Append(ea[c].events, line) /\ ea'[c].journalReady
            /\ \A d \in Charts \ {c} : ea'[d] = ea[d]
        BY <1>1, <2>3, <2>5 DEF Memory
      <3>2. EventsStep(c)
        BY <2>1, <2>2, <2>5, <3>1 DEF EventsStep, Grows, Appends
      <3> QED
        BY <1>2, <2>1, <3>1, <3>2
    <2> QED
      BY <1>2, <1>3, <1>7, <2>1, <2>4, <2>5 DEF StartStream, line
  <1>8. ASSUME NEW c \in Charts, Leave(c) PROVE EventsStep(e)
    BY <1>2, <1>3, <1>8 DEF Leave
  <1>9. ASSUME NEW c \in Charts, NEW r \in Requests, NEW p \in Payloads,
               Reserve(c, r, p)
        PROVE  EventsStep(e)
    <2>1. ea[c].stage # "down"
      BY <1>9 DEF Reserve, MayReserve
    <2> QED
      BY <1>2, <1>9, <2>1, ReserveEvents
  <1>10. ASSUME NEW c \in Charts, Preflight(c) PROVE EventsStep(e)
    <2>1. ea[c].stage = "reserved" /\ UNCHANGED <<header, file>>
      BY <1>10 DEF Preflight, disk
    <2>2. PICK n : ea' = [ea EXCEPT ![c] = [@ EXCEPT !.stage = "checked", !.before = n]]
      BY <1>10 DEF Preflight
    <2>3. /\ ea'[c].events = ea[c].events /\ ea'[c].journalReady = ea[c].journalReady
          /\ \A d \in Charts \ {c} : ea'[d] = ea[d]
      BY <1>1, <2>2 DEF Memory
    <2>4. EventsStep(c)
      BY <2>1, <2>3 DEF EventsStep, Keeps, Appends, InFlight
    <2> QED
      BY <1>2, <2>1, <2>3, <2>4
  <1>11. ASSUME NEW c \in Charts, OrderSend(c) PROVE EventsStep(e)
    <2>1. ea[c].stage = "checked" /\ UNCHANGED <<header, file>>
      BY <1>11 DEF OrderSend, disk
    <2>2. PICK res : ea' = [ea EXCEPT ![c] = [@ EXCEPT !.stage = "sent", !.result = res]]
      BY <1>11 DEF OrderSend
    <2>3. /\ ea'[c].events = ea[c].events /\ ea'[c].journalReady = ea[c].journalReady
          /\ \A d \in Charts \ {c} : ea'[d] = ea[d]
      BY <1>1, <2>2 DEF Memory
    <2>4. EventsStep(c)
      BY <2>1, <2>3 DEF EventsStep, Keeps, Appends, InFlight
    <2> QED
      BY <1>2, <2>1, <2>3, <2>4
  <1>12. ASSUME NEW c \in Charts, Refuse(c) \/ Settle(c) PROVE EventsStep(e)
    <2>1. ea[c].stage # "down"
      BY <1>12 DEF Refuse, Settle
    <2> QED
      BY <1>2, <1>12, <2>1, RefuseTruth, SettleTruth, FinishEvents
  <1>13. ASSUME UNCHANGED <<header, file, ea>> PROVE EventsStep(e)
    BY <1>13 DEF EventsStep, Keeps, Appends, InFlight
  <1>14. ASSUME NEW c \in Charts, NEW r \in Requests, NEW p \in Payloads, Replay(c, r, p)
         PROVE  UNCHANGED <<header, file, ea>>
    BY <1>14 DEF Replay, disk
  <1>15. ASSUME ManualClose \/ UNCHANGED vars PROVE UNCHANGED <<header, file, ea>>
    BY <1>15 DEF ManualClose, vars, disk
  <1> QED
    BY <1>4, <1>5, <1>6, <1>7, <1>8, <1>9, <1>10, <1>11, <1>12, <1>13, <1>14, <1>15 DEF Next

-----------------------------------------------------------------------------
(* The outcomes heard are the outcomes written.                            *)

\* What the file says of a request it keeps saying.
LEMMA OutcomesStay ==
  ASSUME CustodyInv, [Next]_vars, NEW r \in Requests, NEW k \in TerminalKinds,
         OutcomeIs(file, r, k)
  PROVE  OutcomeIs(file', r, k)
  <1>1. file \in Seq(Line) /\ k \in Kinds
    BY DEF CustodyInv, TypeOK, Kinds, OrderKinds
  <1>2. CASE SameHistory(file', file)
    BY <1>2 DEF SameHistory
  <1>3. ASSUME NEW l \in Line, file' = Append(file, l) PROVE OutcomeIs(file', r, k)
    BY <1>1, <1>3, AppendLookup
  <1> QED
    BY <1>2, <1>3, LookupStep DEF Reserves, Settles

LEMMA AnswersNext ==
  ASSUME CustodyInv, OutcomesWritten, [Next]_vars, NEW r \in Requests, NEW k \in answers'[r],
         k \in TerminalKinds
  PROVE  OutcomeIs(file', r, k)
  <1>1. answers \in [Requests -> SUBSET TerminalKinds]
    BY DEF CustodyInv, TypeOK
  <1>2. CASE k \in answers[r]
    BY <1>2, OutcomesStay DEF OutcomesWritten
  <1>3. CASE answers' = answers
    BY <1>2, <1>3
  <1>4. ASSUME NEW c \in Charts, NEW q \in Requests, NEW p \in Payloads, Replay(c, q, p)
        PROVE  OutcomeIs(file', r, k)
    <2>1. PICK kind \in TerminalKinds :
            /\ OutcomeIs(ea[c].events, q, kind)
            /\ answers' = [answers EXCEPT ![q] = @ \union {kind}]
      BY <1>4 DEF Replay
    <2>2. k \in answers[r] \/ (r = q /\ k = kind)
      BY <1>1, <2>1
    <2> QED
      BY <1>2, <2>1, <2>2, OutcomesStay DEF OutcomesWritten
  <1>5. ASSUME NEW c \in Charts, Refuse(c) \/ Settle(c) PROVE OutcomeIs(file', r, k)
    <2>1. PICK kind \in TerminalKinds :
            /\ answers' = [answers EXCEPT ![ea[c].req] = @ \union {kind}]
               /\ OutcomeIs(file', ea[c].req, kind)
            \/ answers' = answers
      BY <1>5, RefuseTruth, SettleTruth, FinishEvents
    <2>2. CASE /\ answers' = [answers EXCEPT ![ea[c].req] = @ \union {kind}]
               /\ OutcomeIs(file', ea[c].req, kind)
      <3>1. k \in answers[r] \/ (r = ea[c].req /\ k = kind)
        BY <1>1, <2>2
      <3> QED
        BY <1>2, <2>2, <3>1
    <2> QED
      BY <1>3, <2>1, <2>2
  <1>6. ASSUME NEW c \in Charts,
               \/ AcquireOwner(c) \/ CreateNew(c) \/ LoadJournal(c) \/ StartStream(c)
               \/ Leave(c) \/ Preflight(c) \/ OrderSend(c)
        PROVE  answers' = answers
    BY <1>6 DEF AcquireOwner, CreateNew, LoadJournal, StartStream, Leave, Preflight, OrderSend
  <1>7. ASSUME NEW c \in Charts, NEW q \in Requests, NEW p \in Payloads, Reserve(c, q, p)
        PROVE  answers' = answers
    BY <1>7 DEF Reserve
  <1>8. ASSUME ManualClose \/ UNCHANGED vars PROVE answers' = answers
    BY <1>8 DEF ManualClose, vars
  <1> QED
    BY <1>3, <1>4, <1>5, <1>6, <1>7, <1>8 DEF Next

LEMMA OutcomesWrittenNext ==
  ASSUME CustodyInv, OutcomesWritten, [Next]_vars
  PROVE  OutcomesWritten'
  <1> SUFFICES ASSUME NEW r \in Requests, NEW k \in TerminalKinds
               PROVE  /\ \A c \in Charts : OutcomeIs(ea'[c].events, r, k) => OutcomeIs(file', r, k)
                      /\ k \in answers'[r] => OutcomeIs(file', r, k)
    BY DEF OutcomesWritten
  <1>1. k \in answers'[r] => OutcomeIs(file', r, k)
    BY AnswersNext
  <1>2. ASSUME NEW c \in Charts, OutcomeIs(ea'[c].events, r, k) PROVE OutcomeIs(file', r, k)
    <2>1. /\ file \in Seq(Line) /\ ea[c].events \in Seq(Line) /\ k \in Kinds
      BY DEF CustodyInv, TypeOK, Memory, Kinds, OrderKinds
    <2>2. CASE ea'[c].events = <<>>
      BY <1>2, <2>2 DEF OutcomeIs
    <2>3. CASE ea'[c].events = Loaded(file)
      <3>1. OutcomeIs(file, r, k)
        BY <1>2, <2>1, <2>3, LoadedShape DEF SameHistory
      <3> QED
        BY <3>1, OutcomesStay
    <2>4. ASSUME NEW l \in Line, Grows(c, l) PROVE OutcomeIs(file', r, k)
      <3>1. OutcomeIs(ea[c].events, r, k) \/ (l.kind = k /\ l.req = r)
        BY <1>2, <2>1, <2>4, AppendLookup DEF Grows
      <3>2. CASE OutcomeIs(ea[c].events, r, k)
        BY <3>2, OutcomesStay DEF OutcomesWritten
      <3>3. CASE l.kind = k /\ l.req = r
        <4>1. FileEnded /\ WriteLine(l)
          BY <2>4, <3>3 DEF Grows, TerminalKinds
        <4>2. file' = Append(file, l)
          BY <4>1, EndedWrite
        <4> QED
          BY <2>1, <3>3, <4>2, AppendLookup
      <3> QED
        BY <3>1, <3>2, <3>3
    <2>5. CASE ea'[c].events = ea[c].events
      BY <1>2, <2>5, OutcomesStay DEF OutcomesWritten
    <2> QED
      BY <2>2, <2>3, <2>4, <2>5, EventsNext DEF EventsStep, Empty, Keeps, Misses
  <1> QED
    BY <1>1, <1>2

-----------------------------------------------------------------------------
(* The events served are a prefix of the file.                             *)

\* What the loader gives for a line of the file.
LEMMA LoadedAt ==
  ASSUME NEW s \in Seq(Line)
  PROVE  /\ Len(Loaded(s)) = Len(s)
         /\ \A i \in 1 .. Len(s) : Loaded(s)[i] = [s[i] EXCEPT !.end = "whole"]
  BY DEF Loaded

LEMMA LoadedAppend ==
  ASSUME NEW s \in Seq(Line), NEW l \in Line
  PROVE  /\ \A i \in 1 .. Len(s) : Loaded(Append(s, l))[i] = Loaded(s)[i]
         /\ l.end = "whole" => Loaded(Append(s, l))[Len(s) + 1] = l
  <1> DEFINE t == Append(s, l)
  <1>1. /\ t \in Seq(Line) /\ Len(t) = Len(s) + 1 /\ Len(s) \in Nat
        /\ \A i \in 1 .. Len(s) : t[i] = s[i]
        /\ t[Len(s) + 1] = l
    OBVIOUS
  <1>2. l.end = "whole" => [l EXCEPT !.end = "whole"] = l
    BY DEF Line
  <1> HIDE DEF t
  <1>3. \A i \in 1 .. Len(t) : Loaded(t)[i] = [t[i] EXCEPT !.end = "whole"]
    BY <1>1, LoadedAt
  <1>4. ASSUME NEW i \in 1 .. Len(s) PROVE Loaded(t)[i] = Loaded(s)[i]
    <2>1. i \in 1 .. Len(t) /\ t[i] = s[i]
      BY <1>1
    <2>2. Loaded(s)[i] = [s[i] EXCEPT !.end = "whole"]
      BY LoadedAt
    <2> QED
      BY <1>3, <2>1, <2>2
  <1>5. l.end = "whole" => Loaded(t)[Len(s) + 1] = l
    BY <1>1, <1>2, <1>3
  <1> QED
    BY <1>4, <1>5 DEF t

Served(d) ==
  LET served == ea[d].events IN
  /\ Len(served) <= Len(file)
  /\ \A i \in 1 .. Len(served) : served[i] = Loaded(file)[i]
  /\ Appends(ea[d]) => Len(served) = Len(file)

\* An append to the file keeps the prefix.
LEMMA ServedAppend ==
  ASSUME file \in Seq(Line), NEW d \in Charts, ea[d].events \in Seq(Line), Served(d),
         NEW l \in Line, file' = Append(file, l), ea'[d].events = ea[d].events,
         ~ Appends(ea'[d])
  PROVE  Served(d)'
  <1>1. /\ Len(file') = Len(file) + 1 /\ Len(file) \in Nat /\ Len(ea[d].events) \in Nat
    OBVIOUS
  <1>2. \A i \in 1 .. Len(file) : Loaded(file')[i] = Loaded(file)[i]
    BY LoadedAppend
  <1> QED
    BY <1>1, <1>2 DEF Served

LEMMA ServedGrows ==
  ASSUME file \in Seq(Line), NEW d \in Charts, ea[d].events \in Seq(Line), Served(d),
         Appends(ea[d]), NEW l \in Line, l.end = "whole", file' = Append(file, l),
         ea'[d].events = Append(ea[d].events, l)
  PROVE  Served(d)'
  <1> DEFINE n == Len(file)
  <1>1. /\ n \in Nat /\ Len(ea[d].events) = n /\ Len(file') = n + 1
        /\ Len(ea'[d].events) = n + 1 /\ ea'[d].events[n + 1] = l
        /\ \A i \in 1 .. n : ea'[d].events[i] = ea[d].events[i]
    BY DEF Served
  <1>2. /\ \A i \in 1 .. n : Loaded(file')[i] = Loaded(file)[i]
        /\ Loaded(file')[n + 1] = l
    BY LoadedAppend
  <1>3. \A i \in 1 .. n : ea[d].events[i] = Loaded(file)[i]
    BY <1>1 DEF Served
  <1> HIDE DEF n
  <1>4. \A i \in 1 .. n + 1 : ea'[d].events[i] = Loaded(file')[i]
    BY <1>1, <1>2, <1>3
  <1> QED
    BY <1>1, <1>4 DEF Served

\* A glued file stays glued, and a lost header stays lost.
LEMMA DamageStays ==
  ASSUME CustodyInv, [Next]_vars
  PROVE  /\ header' # "none" => header # "none" \/ (file = <<>> /\ \A c \in Charts : Empty(ea[c]))
         /\ NoLineGlued' => NoLineGlued
  <1>1. file \in Seq(Line)
    BY DEF CustodyInv, TypeOK
  <1>2. CASE UNCHANGED <<header, file>>
    BY <1>2 DEF NoLineGlued
  <1>3. ASSUME NEW l \in Line, WriteLine(l) \/ WriteFails(l)
        PROVE  /\ header' # "none" => header # "none"
               /\ NoLineGlued' => NoLineGlued
    <2>1. header' # "none" => header # "none"
      BY <1>3 DEF WriteLine, WriteFails, GluesHeader
    <2>2. CASE file' = file
      BY <2>1, <2>2 DEF NoLineGlued
    <2>3. CASE LastIsOpen(file) /\ file' = Glued(file)
      <3>1. /\ Len(file) \in Nat /\ Len(file) # 0 /\ Len(file') = Len(file)
            /\ \A i \in 1 .. Len(file) - 1 : file'[i] = file[i]
            /\ file[Len(file)].end \in {"open", "short"}
        BY <1>1, <2>3 DEF LastIsOpen, Glued
      <3> QED
        BY <2>1, <3>1 DEF NoLineGlued
    <2>4. ASSUME NEW x \in Line, file' = Append(file, x) PROVE NoLineGlued' => NoLineGlued
      <3>1. /\ Len(file') = Len(file) + 1 /\ Len(file) \in Nat
            /\ \A i \in 1 .. Len(file) : file'[i] = file[i]
        BY <1>1, <2>4
      <3> QED
        BY <3>1 DEF NoLineGlued
    <2> QED
      BY <1>1, <1>3, <2>1, <2>2, <2>3, <2>4, WriteShape
  <1>4. ASSUME NEW c \in Charts, CreateNew(c)
        PROVE  /\ file = <<>> /\ (\A d \in Charts : Empty(ea[d]))
               /\ NoLineGlued' => NoLineGlued
    <2>1. file = <<>> /\ file' = file /\ ea[c].stage = "locked"
      BY <1>4 DEF CreateNew, CustodyInv, OneWriter
    <2>2. Empty(ea[c])
      BY <2>1 DEF CustodyInv, OneWriter, Empty
    <2> QED
      BY <2>1, <2>2, OthersEmpty DEF NoLineGlued
  <1>5. ASSUME NEW c \in Charts, StartStream(c)
        PROVE  \E l \in Line : WriteLine(l) \/ WriteFails(l) \/ UNCHANGED <<header, file>>
    <2> DEFINE line == NewLine(ea[c].events, "stream_started", NoRequest, NoRequest, ea[c].boot)
    <2>1. line \in Line
      BY LineType DEF CustodyInv, TypeOK, Memory, Kinds
    <2> QED
      BY <1>5, <2>1 DEF StartStream
  <1>6. ASSUME NEW c \in Charts, NEW r \in Requests, NEW p \in Payloads, Reserve(c, r, p)
        PROVE  \E l \in Line : WriteLine(l) \/ WriteFails(l)
    <2> DEFINE line == NewLine(ea[c].events, "submission_reserved", r, p, ea[c].boot)
    <2>1. line \in Line
      BY LineType DEF CustodyInv, TypeOK, Memory, Kinds, OrderKinds
    <2> QED
      BY <1>6, <2>1 DEF Reserve
  <1>7. ASSUME NEW c \in Charts, NEW kind \in TerminalKinds, Finish(c, kind), InFlight(ea[c])
        PROVE  \E l \in Line : WriteLine(l) \/ WriteFails(l)
    <2> DEFINE line == NewLine(ea[c].events, kind, ea[c].req, ea[c].payload, ea[c].boot)
    <2>1. line \in Line
      BY LineType DEF CustodyInv, TypeOK, Memory, Kinds, OrderKinds
    <2> QED
      BY <1>7, <2>1 DEF Finish
  <1>8. ASSUME NEW c \in Charts, Refuse(c) \/ Settle(c)
        PROVE  \E l \in Line : WriteLine(l) \/ WriteFails(l)
    BY <1>7, <1>8, RefuseTruth, SettleTruth
  <1>9. ASSUME NEW c \in Charts,
               \/ AcquireOwner(c) \/ LoadJournal(c) \/ Leave(c) \/ Preflight(c) \/ OrderSend(c)
        PROVE  UNCHANGED <<header, file>>
    BY <1>9 DEF AcquireOwner, LoadJournal, Leave, Preflight, OrderSend, disk
  <1>10. ASSUME NEW c \in Charts, NEW r \in Requests, NEW p \in Payloads, Replay(c, r, p)
         PROVE  UNCHANGED <<header, file>>
    BY <1>10 DEF Replay, disk
  <1>11. ASSUME ManualClose \/ UNCHANGED vars PROVE UNCHANGED <<header, file>>
    BY <1>11 DEF ManualClose, vars, disk
  <1> QED
    BY <1>2, <1>3, <1>4, <1>5, <1>6, <1>8, <1>9, <1>10, <1>11 DEF Next

LEMMA PrefixKeptNext ==
  ASSUME CustodyInv, PrefixKept, [Next]_vars
  PROVE  PrefixKept'
  <1> SUFFICES ASSUME NEW d \in Charts
               PROVE  /\ header' = "none" /\ file' = <<>> /\ ~ ea'[d].journalReady
                           => ea'[d].events = <<>>
                      /\ header' # "none" /\ NoLineGlued' => Served(d)'
    BY DEF PrefixKept, Served
  <1>1. file \in Seq(Line) /\ ea[d].events \in Seq(Line) /\ ea'[d].events \in Seq(Line)
        /\ file' \in Seq(Line)
    BY CustodyNext DEF CustodyInv, TypeOK, Memory
  <1>2. /\ header = "none" /\ file = <<>> /\ ~ ea[d].journalReady => ea[d].events = <<>>
        /\ header # "none" /\ NoLineGlued => Served(d)
    BY DEF PrefixKept, Served
  <1>3. CASE Empty(ea'[d])
    <2>1. Len(ea'[d].events) = 0 /\ ~ Appends(ea'[d]) /\ Len(file') \in Nat
      BY <1>1, <1>3 DEF Empty, Appends
    <2> QED
      BY <1>3, <2>1 DEF Served, Empty
  <1>4. CASE ea'[d].events = <<>> /\ file' = <<>>
    BY <1>4 DEF Served
  <1>5. CASE ea'[d].events = Loaded(file) /\ UNCHANGED <<header, file>> /\ header # "none"
    BY <1>1, <1>5, LoadedAt DEF Served
  <1>6. ASSUME NEW l \in Line, Grows(d, l)
        PROVE  /\ header' = "none" /\ file' = <<>> /\ ~ ea'[d].journalReady
                    => ea'[d].events = <<>>
               /\ header' # "none" /\ NoLineGlued' => Served(d)'
    <2>1. CASE FileEnded
      <3>1. file' = Append(file, l) /\ header' = header
        BY <1>6, <2>1, EndedWrite DEF Grows
      <3>2. file' # <<>>
        BY <1>1, <3>1
      <3>3. header' # "none" /\ NoLineGlued' => Served(d)'
        BY <1>1, <1>2, <1>6, <3>1, ServedGrows, DamageStays DEF Grows
      <3> QED
        BY <3>2, <3>3
    <2>2. CASE ea'[d].journalReady
      <3>1. CASE GluesHeader
        BY <1>6, <2>2, <3>1 DEF Grows, WriteLine
      <3>2. CASE ~ GluesHeader /\ LastIsOpen(file)
        <4>1. /\ Len(file) \in Nat /\ Len(file) # 0
              /\ file' = [file EXCEPT ![Len(file)] = [@ EXCEPT !.end = "glued"]]
              /\ \A i \in 1 .. Len(file) : file[i] \in Line
          BY <1>1, <1>6, <3>2 DEF Grows, WriteLine, Appended, Glued, LastIsOpen
        <4>2. Len(file') = Len(file) /\ file'[Len(file)] = [file[Len(file)] EXCEPT !.end = "glued"]
          BY <1>1, <4>1
        <4>3. file'[Len(file)].end = "glued"
          BY <4>1, <4>2 DEF Line
        <4>4. ~ NoLineGlued'
          BY <4>1, <4>2, <4>3 DEF NoLineGlued
        <4> QED
          BY <2>2, <4>4
      <3>3. CASE ~ GluesHeader /\ ~ LastIsOpen(file)
        BY <2>1, <3>3 DEF FileEnded
      <3> QED
        BY <3>1, <3>2, <3>3
    <2> QED
      BY <1>6, <2>1, <2>2 DEF Grows
  <1>7. CASE Keeps(d)
    BY <1>2, <1>7 DEF Keeps, Served, NoLineGlued
  <1>8. CASE Misses(d)
    <2>1. CASE file' = file /\ ea'[d].journalReady = ea[d].journalReady
      BY <1>2, <1>8, <2>1 DEF Misses, Served, NoLineGlued
    <2>2. ASSUME NEW l \in Line, file' = Append(file, l)
          PROVE  header' # "none" /\ NoLineGlued' => Served(d)'
      BY <1>1, <1>2, <1>8, <2>2, ServedAppend, DamageStays DEF Misses
    <2>3. ASSUME NEW l \in Line, file' = Append(file, l) PROVE file' # <<>>
      BY <1>1, <2>3
    <2> QED
      BY <1>8, <2>1, <2>2, <2>3 DEF Misses
  <1> QED
    BY <1>3, <1>4, <1>5, <1>6, <1>7, <1>8, EventsNext DEF EventsStep

-----------------------------------------------------------------------------
(* Execution is open only on a recovered file; the target is watched.      *)

LEMMA ReadyIsRecoveredNext ==
  ASSUME CustodyInv, ReadyIsRecovered, [Next]_vars
  PROVE  ReadyIsRecovered'
  <1> DEFINE Open(m) == m.stage \in {"loaded", "idle"} /\ m.journalReady /\ m.recoveryReady
             Goal(d) == Open(ea'[d]) => Recovered(file')
  <1> SUFFICES ASSUME NEW d \in Charts PROVE Goal(d)
    BY DEF ReadyIsRecovered
  <1>1. /\ ea \in [Charts -> Memory] /\ file \in Seq(Line)
        /\ \A e \in Charts : ea[e] \in Memory
        /\ CustodyInv'
    BY CustodyNext DEF CustodyInv, TypeOK
  <1>2. Open(ea[d]) => Recovered(file)
    BY DEF ReadyIsRecovered
  \* Charts that do not act are down.
  <1>3. ASSUME NEW c \in Charts, ea[c].stage # "down" \/ owner = NoChart, d # c, ea'[d] = ea[d]
        PROVE  Goal(d)
    BY <1>3, OthersEmpty
  <1>4. ASSUME NEW c \in Charts, Release(c), ea[c].stage # "down" PROVE Goal(d)
    BY <1>1, <1>3, <1>4 DEF Release, Down
  <1>5. ASSUME NEW c \in Charts, AcquireOwner(c) PROVE Goal(d)
    <2>1. /\ owner = NoChart /\ ea'[c].stage = "locked"
          /\ \A e \in Charts \ {c} : ea'[e] = ea[e]
      BY <1>1, <1>5 DEF AcquireOwner, CanOwn, Down
    <2> QED
      BY <1>3, <2>1
  <1>6. ASSUME NEW c \in Charts, CreateNew(c) PROVE Goal(d)
    <2>1. file' = <<>>
      BY <1>6 DEF CreateNew, CustodyInv, OneWriter
    <2> QED
      BY <2>1 DEF Recovered, Uncertain, Reserved
  <1>7. ASSUME NEW c \in Charts, LoadJournal(c) PROVE Goal(d)
    <2> DEFINE good == header # "none" /\ Readable(file) /\ ValidHistory(file)
               seen == good => Recovered(file)
               kept == IF good THEN Loaded(file) ELSE <<>>
    <2>1. ea[c].stage = "locked" /\ file' = file
      BY <1>7 DEF LoadJournal, disk
    <2>2. CASE ea' = [ea EXCEPT ![c] = [@ EXCEPT !.stage = "loaded", !.journalReady = good,
                                   !.recoveryReady = seen, !.events = kept]]
      <3> HIDE DEF good, seen, kept
      <3>1. /\ ea'[c].journalReady = good /\ ea'[c].recoveryReady = seen
            /\ \A e \in Charts \ {c} : ea'[e] = ea[e]
        BY <1>1, <2>2 DEF Memory
      <3>2. good /\ seen => Recovered(file)
        BY DEF seen
      <3> QED
        BY <1>3, <2>1, <3>1, <3>2
    <2> QED
      BY <1>4, <1>7, <2>1, <2>2 DEF LoadJournal
  <1>8. ASSUME NEW c \in Charts, StartStream(c) PROVE Goal(d)
    <2> DEFINE line == NewLine(ea[c].events, "stream_started", NoRequest, NoRequest, ea[c].boot)
    <2>1. line \in Line /\ line.kind = "stream_started" /\ ea[c].stage = "loaded"
      BY <1>1, <1>8, LineType DEF Memory, Kinds, NewLine, StartStream
    <2>2. CASE Release(c)
      BY <1>4, <2>1, <2>2
    <2>3. CASE /\ ~ ea[c].journalReady
               /\ ea' = [ea EXCEPT ![c] = [@ EXCEPT !.stage = "idle"]]
      <3>1. ~ ea'[c].journalReady /\ \A e \in Charts \ {c} : ea'[e] = ea[e]
        BY <1>1, <2>3 DEF Memory
      <3> QED
        BY <1>3, <2>1, <3>1
    <2>4. CASE /\ WriteLine(line) /\ ea[c].journalReady
               /\ ea' = [ea EXCEPT ![c] = [@ EXCEPT !.stage = "idle",
                                             !.events = Append(ea[c].events, line)]]
      <3> HIDE DEF line
      <3>1. /\ ea'[c].recoveryReady = ea[c].recoveryReady
            /\ \A e \in Charts \ {c} : ea'[e] = ea[e]
        BY <1>1, <2>4 DEF Memory
      <3>2. SameHistory(file', file)
        BY <1>1, <2>1, <2>4, QuietLookup
      <3>3. Recovered(file) => Recovered(file')
        BY <3>2 DEF SameHistory, Recovered, Uncertain, TerminalKinds
      <3>4. ea[c].recoveryReady => Recovered(file)
        BY <2>1, <2>4 DEF ReadyIsRecovered
      <3> QED
        BY <1>3, <2>1, <3>1, <3>3, <3>4
    <2> QED
      BY <1>8, <2>2, <2>3, <2>4 DEF StartStream
  <1>9. ASSUME NEW c \in Charts, NEW r \in Requests, NEW p \in Payloads, Reserve(c, r, p)
        PROVE  Goal(d)
    <2>1. ~ ea'[c].recoveryReady /\ \A e \in Charts \ {c} : ea'[e] = ea[e]
      BY <1>1, <1>9 DEF Reserve, Memory
    <2>2. ea[c].stage = "idle"
      BY <1>9 DEF Reserve, MayReserve
    <2> QED
      BY <1>3, <2>1, <2>2
  <1>10. ASSUME NEW c \in Charts, Preflight(c) \/ OrderSend(c) PROVE Goal(d)
    <2>1. /\ ea[c].stage # "down" /\ ea'[c].stage \notin {"loaded", "idle"}
          /\ \A e \in Charts \ {c} : ea'[e] = ea[e]
      <3>1. CASE Preflight(c)
        <4>1. PICK lots : /\ ea[c].stage = "reserved"
                          /\ ea' = [ea EXCEPT ![c] = [@ EXCEPT !.stage = "checked", !.before = lots]]
          BY <3>1 DEF Preflight
        <4> QED
          BY <1>1, <4>1 DEF Memory
      <3>2. CASE OrderSend(c)
        <4>1. PICK res : /\ ea[c].stage = "checked"
                         /\ ea' = [ea EXCEPT ![c] = [@ EXCEPT !.stage = "sent", !.result = res]]
          BY <3>2 DEF OrderSend
        <4> QED
          BY <1>1, <4>1 DEF Memory
      <3> QED
        BY <1>10, <3>1, <3>2
    <2> QED
      BY <1>3, <2>1
  <1>11. ASSUME NEW c \in Charts, Refuse(c) \/ Settle(c) PROVE Goal(d)
    <2>1. /\ ea[c].stage # "down" /\ InFlight(ea[c]) /\ ea'[c].stage = "idle"
          /\ \A e \in Charts \ {c} : ea'[e] = ea[e]
      BY <1>11, RefuseTruth, SettleTruth, FinishEvents DEF InFlight
    <2>2. PICK kind \in TerminalKinds : Finish(c, kind)
      BY <1>11, RefuseTruth, SettleTruth
    <2> DEFINE line == NewLine(ea[c].events, kind, ea[c].req, ea[c].payload, ea[c].boot)
    <2>3. line \in Line
      BY <1>1, LineType DEF Memory, Kinds, OrderKinds
    <2>4. /\ Settled(ea[c], line) \in Memory
          /\ Unsettled(ea[c], TRUE) \in Memory /\ Unsettled(ea[c], FALSE) \in Memory
      BY <1>1, <2>3, SettledType, UnsettledType
    <2>5. \/ ea' = [ea EXCEPT ![c] = Settled(ea[c], line)]
          \/ ea' = [ea EXCEPT ![c] = Unsettled(ea[c], TRUE)]
          \/ ea' = [ea EXCEPT ![c] = Unsettled(ea[c], FALSE)]
      BY <2>2 DEF Finish
    <2>6. ea'[c].recoveryReady => Recovered(ea'[c].events)
      <3>1. \/ ea'[c] = Settled(ea[c], line)
            \/ ea'[c] = Unsettled(ea[c], TRUE)
            \/ ea'[c] = Unsettled(ea[c], FALSE)
        BY <1>1, <2>5
      <3>2. ea[c] \in Memory
        BY <1>1
      <3> HIDE DEF line
      <3>3. Settled(ea[c], line).recoveryReady => Recovered(Settled(ea[c], line).events)
        BY <3>2 DEF Settled, Memory
      <3> QED
        BY <3>1, <3>2, <3>3, UnsettledType
    <2>7. ea'[c].journalReady /\ ea'[c].recoveryReady => SameHistory(ea'[c].events, file')
      BY <1>1, <2>1 DEF CustodyInv, MemoryIsFile
    <2>8. /\ Recovered(ea'[c].events) /\ SameHistory(ea'[c].events, file')
          => Recovered(file')
      BY DEF SameHistory, Recovered, Uncertain, TerminalKinds
    <2> QED
      BY <1>3, <2>1, <2>6, <2>7, <2>8
  <1>12. ASSUME UNCHANGED <<ea, file>> PROVE Goal(d)
    BY <1>2, <1>12
  <1>13. ASSUME NEW c \in Charts, NEW r \in Requests, NEW p \in Payloads, Replay(c, r, p)
         PROVE  UNCHANGED <<ea, file>>
    BY <1>13 DEF Replay, disk
  <1>14. ASSUME ManualClose \/ UNCHANGED vars PROVE UNCHANGED <<ea, file>>
    BY <1>14 DEF ManualClose, vars, disk
  <1>15. ASSUME NEW c \in Charts, Leave(c) PROVE Goal(d)
    BY <1>4, <1>15 DEF Leave
  <1> HIDE DEF Goal
  <1> QED
    BY <1>5, <1>6, <1>7, <1>8, <1>9, <1>10, <1>11, <1>12, <1>13, <1>14, <1>15 DEF Next

LEMMA TargetWatchedNext ==
  ASSUME CustodyInv, TargetWatched, [Next]_vars
  PROVE  TargetWatched'
  <1> DEFINE left(m) == IF m.stage = "sent" /\ m.result.ran THEN ticket + 1 ELSE ticket
             Watched(d) ==
               ea[d].payload \in Closing /\ ea[d].stage \in {"checked", "sent"} =>
                 /\ left(ea[d]) <= ea[d].before
                 /\ touched => left(ea[d]) < ea[d].before
  <1> SUFFICES ASSUME NEW d \in Charts PROVE Watched(d)'
    BY DEF TargetWatched
  <1>1. /\ ea \in [Charts -> Memory] /\ ticket \in Nat
        /\ \A e \in Charts : ea[e] \in Memory
    BY DEF CustodyInv, TypeOK
  <1>2. Watched(d)
    BY DEF TargetWatched
  \* Only "checked" and "sent" say anything.
  <1>3. ASSUME ea'[d].stage \notin {"checked", "sent"} PROVE Watched(d)'
    BY <1>3
  <1>4. ASSUME NEW c \in Charts, ea[c].stage # "down" \/ owner = NoChart, d # c, ea'[d] = ea[d]
        PROVE  Watched(d)'
    BY <1>3, <1>4, OthersEmpty
  <1>5. ASSUME NEW c \in Charts, ea[c].stage # "down" \/ owner = NoChart,
               ea'[c].stage \notin {"checked", "sent"},
               \A e \in Charts \ {c} : ea'[e] = ea[e]
        PROVE  Watched(d)'
    BY <1>3, <1>4, <1>5
  <1>6. ASSUME NEW c \in Charts,
               AcquireOwner(c) \/ CreateNew(c) \/ LoadJournal(c) \/ StartStream(c) \/ Leave(c)
        PROVE  Watched(d)'
    <2>1. ea[c].stage # "down" \/ owner = NoChart
      BY <1>6 DEF AcquireOwner, CreateNew, LoadJournal, StartStream, Leave, CanOwn
    <2>2. \E m : ea' = [ea EXCEPT ![c] = m]
      BY <1>6 DEF AcquireOwner, CreateNew, LoadJournal, StartStream, Leave, Release
    <2>3. \A e \in Charts \ {c} : ea'[e] = ea[e]
      BY <1>1, <2>2
    <2>4. ea'[c].stage \in {"down", "locked", "loaded", "idle"}
      <3>1. CASE AcquireOwner(c)
        BY <1>1, <3>1 DEF AcquireOwner, Down
      <3>2. CASE Release(c)
        BY <1>1, <3>2 DEF Release, Down
      <3>3. CASE CreateNew(c)
        <4>1. CASE ea' = [ea EXCEPT ![c] = [@ EXCEPT !.stage = "loaded", !.journalReady = TRUE,
                                                     !.recoveryReady = TRUE]]
          BY <1>1, <4>1 DEF Memory
        <4> QED
          BY <3>2, <3>3, <4>1 DEF CreateNew
      <3>4. CASE LoadJournal(c)
        <4> DEFINE good == header # "none" /\ Readable(file) /\ ValidHistory(file)
                   seen == good => Recovered(file)
                   kept == IF good THEN Loaded(file) ELSE <<>>
        <4>1. CASE ea' = [ea EXCEPT ![c] = [@ EXCEPT !.stage = "loaded", !.journalReady = good,
                                                     !.recoveryReady = seen, !.events = kept]]
          <5> HIDE DEF good, seen, kept
          <5> QED
            BY <1>1, <4>1 DEF Memory
        <4> QED
          BY <3>2, <3>4, <4>1 DEF LoadJournal
      <3>5. CASE StartStream(c)
        BY <1>1, <3>2, <3>5 DEF StartStream, Memory
      <3> QED
        BY <1>6, <3>1, <3>2, <3>3, <3>4, <3>5 DEF Leave
    <2> QED
      BY <1>5, <2>1, <2>3, <2>4
  <1>7. ASSUME NEW c \in Charts, NEW r \in Requests, NEW p \in Payloads, Reserve(c, r, p)
        PROVE  Watched(d)'
    <2>1. ea[c].stage = "idle"
      BY <1>7 DEF Reserve, MayReserve
    <2>2. \A e \in Charts \ {c} : ea'[e] = ea[e]
      BY <1>7, ReserveEvents
    <2>3. ea'[c].stage \in {"idle", "reserved"}
      <3>1. CASE \E x : ea' = [ea EXCEPT ![c] = [@ EXCEPT !.stage = "reserved",
                                  !.recoveryReady = FALSE, !.events = x, !.req = r,
                                  !.payload = p]]
        BY <1>1, <3>1 DEF Memory
      <3>2. CASE \/ ea' = [ea EXCEPT ![c] = [@ EXCEPT !.recoveryReady = FALSE]]
                 \/ ea' = [ea EXCEPT ![c] = [@ EXCEPT !.recoveryReady = FALSE,
                                                      !.journalReady = FALSE]]
        BY <1>1, <2>1, <3>2, HaltUpdate
      <3> QED
        BY <1>7, <3>1, <3>2 DEF Reserve
    <2> QED
      BY <1>5, <2>1, <2>2, <2>3
  <1>8. ASSUME NEW c \in Charts, Preflight(c) PROVE Watched(d)'
    <2> DEFINE lots == IF ea[c].payload \in Closing THEN ticket ELSE 0
    <2>1. /\ ea' = [ea EXCEPT ![c] = [@ EXCEPT !.stage = "checked", !.before = lots]]
          /\ ea[c].stage = "reserved" /\ ~ touched' /\ ticket' = ticket
      BY <1>8 DEF Preflight
    <2> HIDE DEF lots
    <2>2. /\ ea'[c].stage = "checked" /\ ea'[c].before = lots /\ ea'[c].payload = ea[c].payload
          /\ \A e \in Charts \ {c} : ea'[e] = ea[e]
      BY <1>1, <2>1 DEF Memory
    <2>3. CASE d = c
      BY <1>1, <2>1, <2>2, <2>3 DEF lots
    <2> QED
      BY <1>4, <2>1, <2>2, <2>3
  <1>9. ASSUME NEW c \in Charts, OrderSend(c) PROVE Watched(d)'
    <2>1. PICK res \in BrokerResults(ea[c].payload) :
            /\ ea' = [ea EXCEPT ![c] = [@ EXCEPT !.stage = "sent", !.result = res]]
            /\ ticket' = IF res.ran /\ ea[c].payload \in Closing THEN ticket - 1 ELSE ticket
      BY <1>9 DEF OrderSend
    <2>2. /\ ea[c].stage = "checked" /\ UNCHANGED touched
          /\ ea[c].payload \in Closing => ticket = ea[c].before
      BY <1>9 DEF OrderSend, TargetUnchanged
    <2>3. ea[c].payload \in Closing => ~ touched
      BY <1>1, <2>2 DEF TargetWatched, Memory
    <2>4. /\ ea'[c].payload = ea[c].payload /\ ea'[c].before = ea[c].before
          /\ ea'[c].stage = "sent" /\ ea'[c].result = res
          /\ \A e \in Charts \ {c} : ea'[e] = ea[e]
      BY <1>1, <2>1 DEF Memory
    <2>5. CASE d = c
      BY <1>1, <2>1, <2>2, <2>3, <2>4, <2>5 DEF Memory
    <2> QED
      BY <1>4, <2>2, <2>4, <2>5
  <1>10. ASSUME NEW c \in Charts, Refuse(c) \/ Settle(c) PROVE Watched(d)'
    <2>1. /\ ea[c].stage # "down" /\ ea'[c].stage = "idle"
          /\ \A e \in Charts \ {c} : ea'[e] = ea[e]
      BY <1>10, RefuseTruth, SettleTruth, FinishEvents DEF InFlight
    <2> QED
      BY <1>5, <2>1
  <1>11. CASE ManualClose
    <2>1. ticket' = ticket - 1 /\ ticket > 0 /\ ea' = ea
      BY <1>1, <1>11 DEF ManualClose
    <2> QED
      BY <1>1, <1>2, <2>1 DEF Memory
  <1>12. ASSUME UNCHANGED <<ea, ticket, touched>> PROVE Watched(d)'
    BY <1>2, <1>12
  <1>13. ASSUME NEW c \in Charts, NEW r \in Requests, NEW p \in Payloads, Replay(c, r, p)
         PROVE  UNCHANGED <<ea, ticket, touched>>
    BY <1>13 DEF Replay, broker
  <1>14. ASSUME UNCHANGED vars PROVE UNCHANGED <<ea, ticket, touched>>
    BY <1>14 DEF vars
  <1> HIDE DEF Watched
  <1> QED
    BY <1>6, <1>7, <1>8, <1>9, <1>10, <1>11, <1>12, <1>13, <1>14 DEF Next

-----------------------------------------------------------------------------
(* The whole invariant, and what follows from it.                          *)

LEMMA JournalInit == Init => JournalInv
  <1> SUFFICES ASSUME Init PROVE JournalInv
    OBVIOUS
  <1>1. CustodyInv
    BY CustodyInit
  <1>2. file = <<>> /\ Len(file) = 0
    BY DEF Init
  <1>3. SettledOnce
    BY <1>2 DEF SettledOnce, HasOutcome, OutcomeIs
  <1>4. OutcomesWritten
    BY DEF Init, OutcomesWritten, Down, OutcomeIs
  <1>5. ReadyIsRecovered /\ PrefixKept /\ TargetWatched
    BY DEF Init, ReadyIsRecovered, PrefixKept, TargetWatched, Down
  <1> QED
    BY <1>1, <1>3, <1>4, <1>5 DEF JournalInv

LEMMA JournalNext == JournalInv /\ [Next]_vars => JournalInv'
  <1> SUFFICES ASSUME JournalInv, [Next]_vars PROVE JournalInv'
    OBVIOUS
  <1>1. CustodyInv /\ CustodyInv'
    BY CustodyNext DEF JournalInv
  <1>2. SettledOnce' /\ OutcomesWritten' /\ ReadyIsRecovered' /\ PrefixKept' /\ TargetWatched'
    BY <1>1, SettledOnceNext, OutcomesWrittenNext, ReadyIsRecoveredNext, PrefixKeptNext,
       TargetWatchedNext DEF JournalInv
  <1> QED
    BY <1>1, <1>2 DEF JournalInv

\* The strengthened invariant, which also says what the clients were told,
\* what they are served and what is left of the target, always holds.
THEOREM JournalInvariant == Spec => []JournalInv
  BY JournalInit, JournalNext, PTL DEF Spec

\* A client hears one outcome per request, the one in the file, for any
\* number of charts, starts, failed writes and repetitions (Py000ExecutionSubmit).
THEOREM OneAnswer == Spec => []AnswersAgree
  <1>1. JournalInv => AnswersAgree
    <2> SUFFICES ASSUME JournalInv, NEW r \in Requests, NEW k \in answers[r]
                 PROVE  OutcomeIs(file, r, k) /\ answers[r] = {k}
      BY DEF AnswersAgree
    <2>1. answers[r] \subseteq TerminalKinds
      BY DEF JournalInv, CustodyInv, TypeOK
    <2>2. \A j \in answers[r] : OutcomeIs(file, r, j)
      BY <2>1 DEF JournalInv, OutcomesWritten
    <2>3. \A j \in answers[r] : j = k
      BY <2>1, <2>2 DEF JournalInv, SettledOnce
    <2> QED
      BY <2>2, <2>3
  <1> QED
    BY <1>1, JournalInvariant, PTL

\* The events a chart serves by cursor are the first events of an undamaged
\* file, whatever was lost or written between (Py000JournalWriteLine).
THEOREM ServedEventsStay == Spec => []ServedIsPrefix
  <1>1. JournalInv => ServedIsPrefix
    <2> SUFFICES ASSUME JournalInv, Unglued, NEW c \in Charts
                 PROVE  /\ Len(ea[c].events) <= Len(file)
                        /\ \A i \in 1 .. Len(ea[c].events) : ea[c].events[i] = Loaded(file)[i]
      BY DEF ServedIsPrefix
    <2>1. NoLineGlued
      BY DEF Unglued, NoLineGlued
    <2>2. CASE header = "none"
      <3>1. file = <<>> /\ ~ ea[c].journalReady
        BY <2>2 DEF Unglued
      <3>2. ea[c].events = <<>>
        BY <2>2, <3>1 DEF JournalInv, PrefixKept
      <3> QED
        BY <3>1, <3>2
    <2>3. CASE header # "none"
      BY <2>1, <2>3 DEF JournalInv, PrefixKept
    <2> QED
      BY <2>2, <2>3
  <1> QED
    BY <1>1, JournalInvariant, PTL

-----------------------------------------------------------------------------
(* A close is filled only when nobody else traded the target.              *)

\* Only a settled outcome lengthens the events of a chart that has sent.
LEMMA SentSettles ==
  ASSUME CustodyInv, [Next]_vars, NEW c \in Charts, ea[c].stage = "sent",
         Len(ea'[c].events) > Len(ea[c].events)
  PROVE  Settle(c)
  <1>1. /\ ea \in [Charts -> Memory] /\ ea[c] \in Memory
        /\ Len(ea[c].events) \in Nat
    BY DEF CustodyInv, TypeOK, Memory
  <1>2. ea'[c] # ea[c] /\ ea'[c].events # <<>>
    BY <1>1
  \* No other chart runs.
  <1>3. ASSUME NEW d \in Charts, d # c PROVE ea[d].stage = "down" /\ owner # NoChart
    BY <1>3, OthersEmpty, ChartAssumption DEF CustodyInv, OneWriter
  <1>4. ASSUME NEW d \in Charts,
               \/ AcquireOwner(d) \/ CreateNew(d) \/ LoadJournal(d) \/ StartStream(d)
        PROVE  FALSE
    <2>1. d = c /\ owner # NoChart
      BY <1>3, <1>4, ChartAssumption DEF AcquireOwner, CreateNew, LoadJournal, StartStream, CanOwn,
         CustodyInv, OneWriter
    <2> QED
      BY <1>4, <2>1 DEF AcquireOwner, CreateNew, LoadJournal, StartStream
  <1>5. ASSUME NEW d \in Charts, Leave(d) PROVE FALSE
    <2>1. d = c
      BY <1>3, <1>5 DEF Leave
    <2> QED
      BY <1>1, <1>2, <1>5, <2>1 DEF Leave, Release, Down
  <1>6. ASSUME NEW d \in Charts, NEW r \in Requests, NEW p \in Payloads, Reserve(d, r, p)
        PROVE  FALSE
    BY <1>3, <1>6 DEF Reserve, MayReserve
  <1>7. ASSUME NEW d \in Charts, Preflight(d) \/ OrderSend(d) \/ Refuse(d) PROVE FALSE
    BY <1>3, <1>7 DEF Preflight, OrderSend, Refuse
  <1>8. ASSUME NEW d \in Charts, Settle(d) PROVE Settle(c)
    BY <1>3, <1>8 DEF Settle
  <1>9. ASSUME UNCHANGED ea PROVE FALSE
    BY <1>2, <1>9
  <1>10. ASSUME NEW d \in Charts, NEW r \in Requests, NEW p \in Payloads, Replay(d, r, p)
         PROVE  UNCHANGED ea
    BY <1>10 DEF Replay
  <1>11. ASSUME ManualClose \/ UNCHANGED vars PROVE UNCHANGED ea
    BY <1>11 DEF ManualClose, vars
  <1> QED
    BY <1>4, <1>5, <1>6, <1>7, <1>8, <1>9, <1>10, <1>11 DEF Next

\* A close is recorded as filled only when nobody else changed the ticket
\* between the EA's last read of it and its check after the deal.
THEOREM FilledCloseIsOurs == Spec => FilledCloseUndisturbed
  <1> DEFINE Disturbed(c) ==
               /\ ea[c].stage = "sent" /\ ea[c].payload \in Closing
               /\ Len(ea'[c].events) > Len(ea[c].events)
               /\ ea'[c].events[Len(ea'[c].events)].kind = "order_filled"
  <1>1. JournalInv /\ [Next]_vars => [\A c \in Charts : Disturbed(c) => ~ touched]_vars
    <2> SUFFICES ASSUME JournalInv, [Next]_vars, NEW c \in Charts, Disturbed(c) PROVE ~ touched
      OBVIOUS
    <2>1. Settle(c) /\ CustodyInv
      BY SentSettles DEF JournalInv
    <2> DEFINE kind == Outcome(ea[c])
               line == NewLine(ea[c].events, kind, ea[c].req, ea[c].payload, ea[c].boot)
    <2>2. /\ ea[c] \in Memory /\ ea \in [Charts -> Memory] /\ ticket \in Nat
          /\ kind \in TerminalKinds /\ Finish(c, kind)
      BY <2>1, SettleTruth DEF CustodyInv, TypeOK
    <2>3. line \in Line /\ line.kind = kind
      BY <2>2, LineType DEF Memory, Kinds, OrderKinds, NewLine
    <2>4. kind = "order_filled"
      <3>1. \/ ea'[c] = Settled(ea[c], line)
            \/ ea'[c] = Unsettled(ea[c], TRUE)
            \/ ea'[c] = Unsettled(ea[c], FALSE)
        <4>1. \/ ea' = [ea EXCEPT ![c] = Settled(ea[c], line)]
              \/ ea' = [ea EXCEPT ![c] = Unsettled(ea[c], TRUE)]
              \/ ea' = [ea EXCEPT ![c] = Unsettled(ea[c], FALSE)]
          BY <2>2 DEF Finish
        <4> HIDE DEF kind, line
        <4> QED
          BY <2>2, <4>1
      <3> HIDE DEF kind, line
      <3>2. Settled(ea[c], line).events = Append(ea[c].events, line)
        BY <2>2 DEF Settled, Memory
      <3>3. /\ Unsettled(ea[c], TRUE).events = ea[c].events
            /\ Unsettled(ea[c], FALSE).events = ea[c].events
        BY <2>2 DEF Unsettled, Memory
      <3>4. ea[c].events \in Seq(Line) /\ ea'[c].events # ea[c].events
        BY <2>2 DEF Memory
      <3>5. ea'[c].events = Append(ea[c].events, line)
        BY <3>1, <3>2, <3>3, <3>4
      <3>6. ea'[c].events[Len(ea'[c].events)] = line
        BY <2>3, <3>4, <3>5
      <3> QED
        BY <2>3, <3>6
    <2>5. ticket = ea[c].before - 1 /\ ea[c].result.ran
      BY <2>1, <2>4 DEF Outcome, ClosePostStateValid, CustodyInv, FlightInv, InFlight
    <2>6. ea[c].before \in Nat
      BY <2>2 DEF Memory
    <2> QED
      BY <2>2, <2>5, <2>6 DEF JournalInv, TargetWatched
  <1> QED
    BY <1>1, JournalInvariant, PTL DEF Spec, FilledCloseUndisturbed

-----------------------------------------------------------------------------
(* The EA implements OrderCustody: each step maps to a step or a stutter.  *)

CustodyRan == [r \in Requests |-> executed[r] > 0]

LEMMA StageAt ==
  ASSUME NEW r \in Requests
  PROVE  CustodyStage[r] = IF OutcomeIs(file, r, "order_filled") THEN "filled"
                           ELSE IF OutcomeIs(file, r, "order_rejected") THEN "rejected"
                           ELSE IF OutcomeIs(file, r, "order_unknown") THEN "unknown"
                           ELSE IF Reserved(file, r) THEN "open" ELSE "new"
  BY DEF CustodyStage

\* The stage is a function of the lookups.
LEMMA StageSame ==
  ASSUME SameHistory(file', file)
  PROVE  CustodyStage' = CustodyStage
  <1>1. \A r \in Requests :
          /\ OutcomeIs(file', r, "order_filled") <=> OutcomeIs(file, r, "order_filled")
          /\ OutcomeIs(file', r, "order_rejected") <=> OutcomeIs(file, r, "order_rejected")
          /\ OutcomeIs(file', r, "order_unknown") <=> OutcomeIs(file, r, "order_unknown")
          /\ Reserved(file', r) <=> Reserved(file, r)
    BY DEF SameHistory, TerminalKinds
  <1> QED
    BY <1>1 DEF CustodyStage

\* Only OrderSend executes, and it does not touch the file.
LEMMA OnlySendRuns ==
  ASSUME [Next]_vars
  PROVE  \/ executed' = executed
         \/ \E c \in Charts : OrderSend(c)
  <1>1. ASSUME NEW c \in Charts,
               \/ AcquireOwner(c) \/ CreateNew(c) \/ LoadJournal(c) \/ StartStream(c)
               \/ Leave(c) \/ Preflight(c) \/ Refuse(c) \/ Settle(c)
        PROVE  executed' = executed
    BY <1>1 DEF AcquireOwner, CreateNew, LoadJournal, StartStream, Leave, Preflight, Refuse,
        Settle, broker
  <1>2. ASSUME NEW c \in Charts, NEW r \in Requests, NEW p \in Payloads,
               Replay(c, r, p) \/ Reserve(c, r, p)
        PROVE  executed' = executed
    BY <1>2 DEF Replay, Reserve, broker
  <1>3. ASSUME ManualClose \/ UNCHANGED vars PROVE executed' = executed
    BY <1>3 DEF ManualClose, vars
  <1> QED
    BY <1>1, <1>2, <1>3 DEF Next

\* An append of an order event, seen through the stages.
LEMMA StageAppend ==
  ASSUME file \in Seq(Line), NEW l \in Line, file' = Append(file, l), NEW r \in Requests
  PROVE  /\ l.req # r => CustodyStage'[r] = CustodyStage[r]
         /\ l.req = r /\ l.kind = "submission_reserved" /\ CustodyStage[r] = "new" =>
              CustodyStage'[r] = "open"
         /\ l.req = r /\ CustodyStage[r] = "open" =>
              /\ l.kind = "order_filled" => CustodyStage'[r] = "filled"
              /\ l.kind = "order_rejected" => CustodyStage'[r] = "rejected"
              /\ l.kind = "order_unknown" => CustodyStage'[r] = "unknown"
  <1>1. {"order_filled", "order_rejected", "order_unknown"} \subseteq Kinds
    BY DEF Kinds, OrderKinds, TerminalKinds
  <1>2. /\ Reserved(file', r)
             <=> Reserved(file, r) \/ (l.kind = "submission_reserved" /\ l.req = r)
        /\ OutcomeIs(file', r, "order_filled")
             <=> OutcomeIs(file, r, "order_filled") \/ (l.kind = "order_filled" /\ l.req = r)
        /\ OutcomeIs(file', r, "order_rejected")
             <=> OutcomeIs(file, r, "order_rejected") \/ (l.kind = "order_rejected" /\ l.req = r)
        /\ OutcomeIs(file', r, "order_unknown")
             <=> OutcomeIs(file, r, "order_unknown") \/ (l.kind = "order_unknown" /\ l.req = r)
    BY <1>1, AppendLookup
  <1> QED
    BY <1>2 DEF CustodyStage

LEMMA ReservesOpens ==
  ASSUME JournalInv, NEW r \in Requests, NEW l \in Line, Reserves(r, l), executed' = executed
  PROVE  Custody!Open(r)
  <1>1. /\ file \in Seq(Line) /\ file' = Append(file, l) /\ l.req = r
        /\ l.kind = "submission_reserved" /\ ~ Reserved(file, r)
        /\ Recovered(file)
    BY DEF JournalInv, CustodyInv, TypeOK, Reserves, ReadyIsRecovered
  <1>2. \A q \in Requests, k \in TerminalKinds : OutcomeIs(file, q, k) => Reserved(file, q)
    BY DEF JournalInv, SettledOnce, HasOutcome, OutcomeIs, IsTerminal
  <1>3. \A q \in Requests : CustodyStage[q] \notin {"open", "unknown"}
    <2> SUFFICES ASSUME NEW q \in Requests PROVE CustodyStage[q] \notin {"open", "unknown"}
      OBVIOUS
    <2>1. \/ ~ Reserved(file, q) \/ OutcomeIs(file, q, "order_rejected")
          \/ OutcomeIs(file, q, "order_filled")
      BY <1>1 DEF Recovered, Uncertain
    <2>2. OutcomeIs(file, q, "order_unknown") => Reserved(file, q)
      BY <1>2 DEF TerminalKinds
    <2> QED
      BY <2>1, <2>2, StageAt
  <1>4. CustodyStage[r] = "new"
    <2>1. \A k \in {"order_filled", "order_rejected", "order_unknown"} : ~ OutcomeIs(file, r, k)
      BY <1>1, <1>2 DEF TerminalKinds
    <2> QED
      BY <1>1, <2>1, StageAt
  <1>5. CustodyStage' = [CustodyStage EXCEPT ![r] = "open"]
    <2>1. \A q \in Requests : CustodyStage'[q] = IF q = r THEN "open" ELSE CustodyStage[q]
      BY <1>1, <1>4, StageAppend
    <2> QED
      BY <2>1 DEF CustodyStage
  <1> QED
    BY <1>3, <1>4, <1>5 DEF Custody!Open

LEMMA SettlesSettles ==
  ASSUME JournalInv, NEW c \in Charts, NEW l \in Line, Settles(c, l), executed' = executed
  PROVE  Custody!Settle(ea[c].req)
  <1> DEFINE q == ea[c].req
  <1>1. /\ file \in Seq(Line) /\ file' = Append(file, l) /\ l.req = q /\ q \in Requests
        /\ l.kind \in TerminalKinds
        /\ Reserved(file, q) /\ ~ HasOutcome(file, q)
        /\ l.kind = "order_filled" => executed[q] = 1
        /\ l.kind = "order_rejected" => executed[q] = 0
    BY DEF JournalInv, CustodyInv, TypeOK, Settles, FlightInv
  <1> HIDE DEF q
  <1>2. CustodyStage[q] = "open"
    <2>1. \A k \in {"order_filled", "order_rejected", "order_unknown"} : ~ OutcomeIs(file, q, k)
      BY <1>1 DEF HasOutcome, OutcomeIs, IsTerminal, TerminalKinds
    <2> QED
      BY <1>1, <2>1, StageAt
  <1>3. \E s \in {"filled", "rejected", "unknown"} :
          /\ CustodyStage'[q] = s
          /\ s = "filled" => executed[q] = 1
          /\ s = "rejected" => executed[q] = 0
    BY <1>1, <1>2, StageAppend DEF TerminalKinds
  <1>4. \A r \in Requests \ {q} : CustodyStage'[r] = CustodyStage[r]
    BY <1>1, StageAppend
  <1>5. CustodyStage' = [CustodyStage EXCEPT ![q] = CustodyStage'[q]]
    <2> DEFINE s == CustodyStage'[q]
    <2>1. \A r \in Requests : CustodyStage'[r] = IF r = q THEN s ELSE CustodyStage[r]
      BY <1>1, <1>4
    <2> HIDE DEF s
    <2>2. CustodyStage' = [CustodyStage EXCEPT ![q] = s]
      BY <2>1 DEF CustodyStage
    <2> QED
      BY <2>2 DEF s
  <1>6. CustodyRan[q] <=> executed[q] > 0
    BY <1>1 DEF CustodyRan
  <1>7. \/ CustodyStage'[q] = IF CustodyRan[q] THEN "filled" ELSE "rejected"
        \/ CustodyStage'[q] = "unknown"
    BY <1>3, <1>6
  <1> QED
    BY <1>2, <1>5, <1>7 DEF Custody!Settle, CustodyRan, q

LEMMA SendRuns ==
  ASSUME JournalInv, NEW c \in Charts, OrderSend(c)
  PROVE  Custody!Next \/ executed' = executed
  <1> DEFINE q == ea[c].req
  <1>1. /\ ea[c].stage = "checked" /\ InFlight(ea[c]) /\ file' = file
    BY DEF OrderSend, InFlight, disk
  <1>2. /\ q \in Requests /\ Reserved(file, q) /\ ~ HasOutcome(file, q) /\ sends[q] = 0
        /\ executed \in [Requests -> Nat] /\ executed[q] <= sends[q]
    BY <1>1 DEF JournalInv, CustodyInv, FlightInv, ExecutedWasSent, TypeOK
  <1>3. executed[q] = 0
    BY <1>2
  <1>4. CASE executed' = [executed EXCEPT ![q] = @ + 1]
    <2> HIDE DEF q
    <2>1. CustodyStage[q] = "open"
      <3>1. \A k \in {"order_filled", "order_rejected", "order_unknown"} : ~ OutcomeIs(file, q, k)
        BY <1>2 DEF HasOutcome, OutcomeIs, IsTerminal, TerminalKinds
      <3> QED
        BY <1>2, <3>1, StageAt
    <2>2. CustodyStage' = CustodyStage
      BY <1>1 DEF CustodyStage
    <2>3. \A r \in Requests : executed'[r] = IF r = q THEN 1 ELSE executed[r]
      BY <1>2, <1>3, <1>4
    <2>4. ~ CustodyRan[q]
      <3>1. ~ (executed[q] > 0)
        BY <1>3
      <3> QED
        BY <1>2, <3>1, Zenon DEF CustodyRan
    <2>5. CustodyRan' = [CustodyRan EXCEPT ![q] = TRUE]
      <3>1. ASSUME NEW r \in Requests
            PROVE  (executed'[r] > 0) = (IF r = q THEN TRUE ELSE executed[r] > 0)
        <4>1. CASE r = q
          <5>1. executed'[r] > 0
            BY <2>3, <4>1
          <5> QED
            BY <4>1, <5>1
        <4>2. CASE r # q
          BY <2>3, <4>2
        <4> QED
          BY <4>1, <4>2
      <3>2. CustodyRan' = [r \in Requests |-> IF r = q THEN TRUE ELSE executed[r] > 0]
        BY <3>1, Zenon DEF CustodyRan
      <3>3. [CustodyRan EXCEPT ![q] = TRUE]
              = [r \in Requests |-> IF r = q THEN TRUE ELSE executed[r] > 0]
        BY Zenon DEF CustodyRan
      <3> QED
        BY <3>2, <3>3
    <2> QED
      BY <1>2, <2>1, <2>2, <2>4, <2>5 DEF Custody!Next, Custody!Run, CustodyRan
  <1>5. CASE executed' = [executed EXCEPT ![q] = @]
    BY <1>2, <1>5
  <1> QED
    BY <1>4, <1>5 DEF OrderSend

LEMMA CustodyInitMaps == Init => Custody!Init
  <1> SUFFICES ASSUME Init PROVE Custody!Init
    OBVIOUS
  <1>1. CustodyStage = [r \in Requests |-> "new"]
    <2>1. file = <<>> /\ Len(file) = 0
      BY DEF Init
    <2>2. \A r \in Requests : ~ Reserved(file, r) /\ \A k : ~ OutcomeIs(file, r, k)
      BY <2>1 DEF OutcomeIs, Reserved
    <2> QED
      BY <2>2 DEF CustodyStage
  <1>2. CustodyRan = [r \in Requests |-> FALSE]
    <2>1. ASSUME NEW r \in Requests PROVE (executed[r] > 0) = FALSE
      BY DEF Init
    <2> QED
      BY <2>1, Zenon DEF CustodyRan
  <1> QED
    BY <1>1, <1>2 DEF Custody!Init, CustodyRan

LEMMA CustodyStepMaps == JournalInv /\ [Next]_vars => [Custody!Next]_(Custody!vars)
  <1> SUFFICES ASSUME JournalInv, [Next]_vars
               PROVE  Custody!Next \/ UNCHANGED Custody!vars
    OBVIOUS
  <1>1. ASSUME executed' = executed, SameHistory(file', file) PROVE UNCHANGED Custody!vars
    BY <1>1, StageSame DEF Custody!vars
  <1>2. ASSUME NEW c \in Charts, OrderSend(c) PROVE Custody!Next \/ UNCHANGED Custody!vars
    <2>1. SameHistory(file', file)
      BY <1>2 DEF OrderSend, disk, SameHistory
    <2> QED
      BY <1>1, <1>2, <2>1, SendRuns
  <1>3. ASSUME NEW r \in Requests, NEW l \in Line, Reserves(r, l), executed' = executed
        PROVE  Custody!Next
    BY <1>3, ReservesOpens DEF Custody!Next
  <1>4. ASSUME NEW c \in Charts, NEW l \in Line, Settles(c, l), executed' = executed
        PROVE  Custody!Next
    <2>1. ea[c].req \in Requests
      BY <1>4 DEF Settles, JournalInv, CustodyInv, FlightInv
    <2> QED
      BY <1>4, <2>1, SettlesSettles DEF Custody!Next
  <1>5. CustodyInv
    BY DEF JournalInv
  <1> QED
    BY <1>1, <1>2, <1>3, <1>4, <1>5, OnlySendRuns, LookupStep

\* Journal, restarts, failed writes and competing charts are invisible to a
\* client: every behaviour of the EA is one of the abstract custody.
THEOREM ImplementsOrderCustody == Spec => ImplementsCustody
  BY CustodyInitMaps, CustodyStepMaps, JournalInvariant, PTL
  DEF Spec, ImplementsCustody, Custody!Spec
=============================================================================
