------------------------------ MODULE Parts_proofs ------------------------------
(***************************************************************************)
(* Machine-checked proofs about four of the smaller parts.                 *)
(*                                                                         *)
(* CidStore, for every set of client order IDs and trades, every clock and *)
(* any number of crashes and power cuts: each copy of the file is faithful *)
(* to what the process did and showed.                                     *)
(*                                                                         *)
(* BitfinexAccount, the account's facts and the budget they grant, for     *)
(* every number of changes of the account and of streams.  The frames that *)
(* the client has not read yet carry the argument: a fact is the venue's   *)
(* present one, or a frame about it is still on its way; and a budget is   *)
(* granted only by a query that no frame has overtaken.                    *)
(*                                                                         *)
(* TerminalReconciler: the inductive invariant says who holds each         *)
(* question, the requests of a root that runs a whole round, or the        *)
(* requests that a failure left.  Every operator the root's turns are      *)
(* built from keeps it, and so does every action.                          *)
(*                                                                         *)
(* HedgeLane, for every obligation and account: where nobody else trades,  *)
(* each leg that was executed has moved its own ticket, and the rest are   *)
(* as they were, so the leg whose turn it is passes its last look.         *)
(***************************************************************************)
EXTENDS CidStore, BitfinexAccount, TerminalReconciler, HedgeLane, HedgePlan_proofs

-----------------------------------------------------------------------------
(* CidStore: the store after one operation.                                *)

\* A file of a store, and a store of a file, is what was in the other.
LEMMA SavedIs ==
  ASSUME NEW n \in Stores
  PROVE  /\ Saved(n) \in Files
         /\ Saved(n).bound = n.bound /\ Saved(n).last = n.last /\ Saved(n).fees = n.fees
  BY DEF Saved, Stores, Files

LEMMA LoadedIs ==
  ASSUME NEW f \in Files
  PROVE  /\ Loaded(f) \in Stores
         /\ Loaded(f).bound = f.bound /\ Loaded(f).last = f.last /\ Loaded(f).fees = f.fees
  BY DEF Loaded, Stores, Files

\* Whether the last write was durable says nothing of what the store knows.
LEMMA DurableOnly ==
  ASSUME NEW n \in Stores, NEW d \in BOOLEAN
  PROVE  /\ [n EXCEPT !.durable = d] \in Stores
         /\ [n EXCEPT !.durable = d].bound = n.bound
         /\ [n EXCEPT !.durable = d].last = n.last
         /\ [n EXCEPT !.durable = d].fees = n.fees
  BY DEF Stores

\* Two stores that say the same are equally faithful.
LEMMA FaithfulSame ==
  ASSUME NEW m, NEW n, NEW orders, NEW trades, Faithful(n, orders, trades),
         m.bound = n.bound, m.last = n.last, m.fees = n.fees
  PROVE  Faithful(m, orders, trades)
  BY DEF Faithful

\* allocate: the new CID is above every one the store has given out.
LEMMA BoundIs ==
  ASSUME CidInv, NEW c \in Clients, NEW now \in 0 .. MaxClock
  PROVE  /\ Bound(c, now) \in Stores
         /\ Cid(now) \in Nat /\ Cid(now) > names.last
         /\ Bound(c, now).bound = [names.bound EXCEPT ![c] = Cid(now)]
         /\ Bound(c, now).last = Cid(now)
         /\ Bound(c, now).fees = names.fees
  <1>1. names \in Stores /\ names.bound \in [Clients -> Nat] /\ names.last \in Nat
    BY DEF CidInv, Stores
  <1>2. Cid(now) \in Nat /\ Cid(now) > names.last
    BY <1>1 DEF Cid, Greater
  <1> DEFINE cid == Cid(now)
             n == [names EXCEPT !.bound[c] = cid, !.last = cid]
  <1> HIDE DEF cid
  <1>3. /\ n \in Stores /\ n.last = cid /\ n.fees = names.fees
        /\ n.bound = [names.bound EXCEPT ![c] = cid]
    BY <1>1, <1>2 DEF Stores, cid
  <1> QED
    BY <1>2, <1>3 DEF Bound, cid

\* A client that had no CID gets one: what went out stays bound, with the new order or not.
LEMMA BoundFaithful ==
  ASSUME CidInv, NEW c \in Clients, NEW now \in 0 .. MaxClock, names.bound[c] = Unbound,
         NEW orders \in SUBSET (sent \union {<<c, Cid(now)>>})
  PROVE  Faithful(Bound(c, now), orders, shown)
  <1> DEFINE cid == Cid(now)
             n == Bound(c, now)
  <1>1. /\ names.bound \in [Clients -> Nat] /\ names.last \in Nat
        /\ sent \subseteq Clients \X (Nat \ {Unbound})
        /\ Faithful(names, sent, shown)
    BY DEF CidInv, Stores
  <1>2. /\ cid \in Nat /\ cid > names.last
        /\ n.bound = [names.bound EXCEPT ![c] = cid] /\ n.last = cid /\ n.fees = names.fees
    BY BoundIs
  <1> HIDE DEF cid, n
  <1>3. /\ n.bound[c] = cid /\ \A d \in Clients \ {c} : n.bound[d] = names.bound[d]
        /\ \A d \in Clients : names.bound[d] < cid
    BY <1>1, <1>2 DEF Faithful
  <1>4. ASSUME NEW s \in orders PROVE n.bound[s[1]] = s[2]
    <2>1. CASE s = <<c, cid>>
      BY <1>3, <2>1
    <2>2. CASE s \in sent
      <3>1. s[1] \in Clients /\ s[2] # Unbound /\ names.bound[s[1]] = s[2]
        BY <1>1, <2>2 DEF Faithful
      <3> QED
        BY <1>3, <3>1
    <2> QED
      BY <2>1, <2>2 DEF cid
  <1>5. \A d \in Clients : n.bound[d] <= n.last
    BY <1>1, <1>2, <1>3
  <1>6. \A d, e \in Clients : n.bound[d] = n.bound[e] /\ n.bound[d] # Unbound => d = e
    BY <1>1, <1>3 DEF Faithful
  <1>7. \A t \in shown : n.fees[t] = "final"
    BY <1>1, <1>2 DEF Faithful
  <1> QED
    BY <1>4, <1>5, <1>6, <1>7 DEF Faithful, n

-----------------------------------------------------------------------------
(* Each step keeps the invariant.                                          *)

\* What the three copies are after the step decides it.
LEMMA CopiesKeep ==
  ASSUME names' \in Stores, file' \in Files, safe' \in Files,
         sent' \subseteq Clients \X (Nat \ {Unbound}), shown' \subseteq FeeTrades,
         Faithful(names', sent', shown'), Faithful(file', sent', shown'),
         Faithful(safe', sent', shown')
  PROVE  CidInv'
  BY DEF CidInv

\* What a durable write shows is final in the store that was written.
LEMMA ShowsFinal ==
  ASSUME NEW n \in Stores, NEW orders, NEW trades \in SUBSET FeeTrades,
         Faithful(n, orders, trades)
  PROVE  /\ Finals(n) \subseteq FeeTrades
         /\ Faithful(n, orders, trades \union Finals(n))
  BY DEF Finals, Faithful

LEMMA AllocateKeeps ==
  ASSUME CidInv, NEW c \in Clients, NEW now \in 0 .. MaxClock, Allocate(c, now)
  PROVE  CidInv'
  <1> DEFINE n == Bound(c, now)
             out == sent \union {<<c, Cid(now)>>}
  <1>1. names.bound[c] = Unbound
    BY DEF Allocate
  <1>2. /\ n \in Stores /\ Cid(now) \in Nat /\ Cid(now) # Unbound
        /\ names.last \in Nat
    <2>1. names.last \in Nat
      BY DEF CidInv, Stores
    <2>2. n \in Stores /\ Cid(now) \in Nat /\ Cid(now) > names.last
      BY BoundIs
    <2> HIDE DEF n
    <2> QED
      BY <2>1, <2>2 DEF Unbound
  <1>3. Faithful(n, out, shown) /\ Faithful(n, sent, shown)
    BY <1>1, BoundFaithful
  <1>4. /\ sent \subseteq Clients \X (Nat \ {Unbound}) /\ out \subseteq Clients \X (Nat \ {Unbound})
        /\ shown \subseteq FeeTrades /\ safe \in Files /\ Faithful(safe, sent, shown)
    BY <1>2 DEF CidInv
  <1> HIDE DEF n, out
  <1>5. CASE Written(n) /\ Shows(n) /\ names' = [n EXCEPT !.durable = TRUE] /\ sent' = out
    <2>1. Faithful(n, out, shown')
      BY <1>2, <1>3, <1>4, <1>5, ShowsFinal DEF Shows
    <2>2. names' \in Stores /\ Faithful(names', out, shown')
      BY <1>2, <1>5, <2>1, DurableOnly, FaithfulSame
    <2>3. Saved(n) \in Files /\ Faithful(Saved(n), out, shown')
      BY <1>2, <2>1, SavedIs, FaithfulSame
    <2>4. shown' \subseteq FeeTrades
      BY <1>2, <1>3, <1>4, <1>5, ShowsFinal DEF Shows
    <2> QED
      BY <1>4, <1>5, <2>2, <2>3, <2>4, CopiesKeep DEF Written
  <1>6. CASE Unsynced(n) /\ names' = n /\ UNCHANGED <<sent, shown>>
    <2>1. Saved(n) \in Files /\ Faithful(Saved(n), sent, shown)
      BY <1>2, <1>3, SavedIs, FaithfulSame
    <2> QED
      BY <1>2, <1>3, <1>4, <1>6, <2>1, CopiesKeep DEF Unsynced
  <1> QED
    BY <1>5, <1>6 DEF Allocate, n, out

\* _save_fee_metadata, for a store that knows at least the fees it knew.
LEMMA KeepsKeeps ==
  ASSUME CidInv, NEW n \in Stores, n.bound = names.bound, n.last = names.last,
         \A t \in FeeTrades : names.fees[t] = "final" => n.fees[t] = "final",
         Keeps(n), UNCHANGED sent
  PROVE  CidInv'
  <1>1. /\ sent \subseteq Clients \X (Nat \ {Unbound}) /\ shown \subseteq FeeTrades
        /\ file \in Files /\ safe \in Files /\ names \in Stores
        /\ Faithful(names, sent, shown) /\ Faithful(file, sent, shown)
        /\ Faithful(safe, sent, shown)
    BY DEF CidInv
  <1>2. Faithful(n, sent, shown)
    BY <1>1 DEF Faithful
  <1>3. /\ Saved(n) \in Files /\ Faithful(Saved(n), sent, shown)
        /\ Saved(n) \in Files /\ Faithful(Saved(n), sent, shown \union Finals(n))
        /\ shown \union Finals(n) \subseteq FeeTrades
    BY <1>1, <1>2, SavedIs, FaithfulSame, ShowsFinal
  <1>4. ASSUME NEW d \in BOOLEAN
        PROVE  /\ [n EXCEPT !.durable = d] \in Stores
               /\ Faithful([n EXCEPT !.durable = d], sent, shown)
               /\ Faithful([n EXCEPT !.durable = d], sent, shown \union Finals(n))
    BY <1>1, <1>2, DurableOnly, FaithfulSame, ShowsFinal
  <1>5. CASE UNCHANGED <<names, file, safe, shown>>
    BY <1>1, <1>5, CopiesKeep
  <1>6. CASE Written(n) /\ Shows(n) /\ names' = [n EXCEPT !.durable = TRUE]
    BY <1>1, <1>3, <1>4, <1>6, CopiesKeep DEF Written, Shows
  <1>7. CASE Unsynced(n) /\ names' = [n EXCEPT !.durable = FALSE] /\ UNCHANGED shown
    BY <1>1, <1>3, <1>4, <1>7, CopiesKeep DEF Unsynced
  <1>8. CASE Unwritten /\ names' = [n EXCEPT !.durable = FALSE] /\ UNCHANGED shown
    BY <1>1, <1>4, <1>8, CopiesKeep DEF Unwritten
  <1> QED
    BY <1>5, <1>6, <1>7, <1>8 DEF Keeps

LEMMA CidNextKeeps == CidInv /\ [CidNext]_cidVars => CidInv'
  <1> SUFFICES ASSUME CidInv, [CidNext]_cidVars PROVE CidInv'
    OBVIOUS
  <1>1. /\ sent \subseteq Clients \X (Nat \ {Unbound}) /\ shown \subseteq FeeTrades
        /\ names \in Stores /\ file \in Files /\ safe \in Files
        /\ Faithful(names, sent, shown) /\ Faithful(file, sent, shown)
        /\ Faithful(safe, sent, shown)
    BY DEF CidInv
  <1>2. ASSUME NEW c \in Clients, NEW now \in 0 .. MaxClock, Allocate(c, now) PROVE CidInv'
    BY <1>2, AllocateKeeps
  <1>3. ASSUME NEW t \in FeeTrades, NEW fee \in {"pending", "final"}, RecordTrade(t, fee)
        PROVE  CidInv'
    <2> DEFINE n == WithTrade(t, fee)
    <2>1. /\ n \in Stores /\ n.bound = names.bound /\ n.last = names.last
          /\ \A u \in FeeTrades : names.fees[u] = "final" => n.fees[u] = "final"
      BY <1>1 DEF WithTrade, Stores, Fees
    <2> QED
      BY <1>3, <2>1, KeepsKeeps DEF RecordTrade
  <1>4. ASSUME NEW t \in FeeTrades, MarkConflict(t) PROVE CidInv'
    <2> DEFINE n == [names EXCEPT !.conflict = TRUE]
    <2>1. n \in Stores /\ n.bound = names.bound /\ n.last = names.last /\ n.fees = names.fees
      BY <1>1 DEF Stores
    <2> QED
      BY <1>4, <2>1, KeepsKeeps DEF MarkConflict
  <1>5. CASE ProcessRestarts
    <2>1. Loaded(file) \in Stores /\ Faithful(Loaded(file), sent, shown)
      BY <1>1, LoadedIs, FaithfulSame
    <2> QED
      BY <1>1, <1>5, <2>1, CopiesKeep DEF ProcessRestarts
  <1>6. CASE PowerCut
    <2>1. Loaded(safe) \in Stores /\ Faithful(Loaded(safe), sent, shown)
      BY <1>1, LoadedIs, FaithfulSame
    <2> QED
      BY <1>1, <1>6, <2>1, CopiesKeep DEF PowerCut
  <1>7. CASE UNCHANGED cidVars
    BY <1>1, <1>7, CopiesKeep DEF cidVars
  <1> QED
    BY <1>2, <1>3, <1>4, <1>5, <1>6, <1>7 DEF CidNext

LEMMA CidStarts == CidInit => CidInv
  <1> SUFFICES ASSUME CidInit PROVE CidInv
    OBVIOUS
  <1>1. names \in Stores /\ names.bound = [c \in Clients |-> Unbound] /\ names.last = 0
    BY DEF CidInit, Stores, Fees, Unbound
  <1>2. Faithful(names, sent, shown)
    BY <1>1 DEF CidInit, Faithful, Unbound
  <1>3. /\ file = Saved(names) /\ safe = Saved(names) /\ Saved(names) \in Files
        /\ Faithful(Saved(names), sent, shown)
    BY <1>1, <1>2, SavedIs, FaithfulSame DEF CidInit
  <1> QED
    BY <1>1, <1>2, <1>3 DEF CidInv, CidInit

\* The inductive invariant of the store: its memory, the file and what a power
\* cut would leave of the file are faithful to everything that went out.
THEOREM CopiesFaithful == CidSpec => []CidInv
  BY CidStarts, CidNextKeeps, PTL DEF CidSpec

\* A CID that went out names one order for ever, and a final fee that was made
\* durable is final for ever, over any crashes, power cuts and clocks that go
\* back (allocate, _persist, _load, record_venue_trade).
THEOREM NothingForgotten == CidSpec => []StoreRemembers
  <1>1. CidInv => StoreRemembers
    <2> SUFFICES ASSUME CidInv PROVE StoreRemembers
      OBVIOUS
    <2>1. /\ sent \subseteq Clients \X (Nat \ {Unbound}) /\ shown \subseteq FeeTrades
          /\ Faithful(names, sent, shown)
      BY DEF CidInv
    <2>2. \A s \in sent : names.bound[s[1]] = s[2]
      BY <2>1 DEF Faithful
    <2>3. ASSUME NEW s \in sent, NEW t \in sent, s[2] = t[2] PROVE s = t
      <3>1. /\ s[1] \in Clients /\ t[1] \in Clients /\ s[2] # Unbound
            /\ s = <<s[1], s[2]>> /\ t = <<t[1], t[2]>>
        BY <2>1
      <3>2. s[1] = t[1]
        BY <2>1, <2>2, <2>3, <3>1 DEF Faithful
      <3> QED
        BY <2>3, <3>1, <3>2
    <2>4. FinalFeeStays
      BY <2>1 DEF FinalFeeStays, Finals, Faithful
    <2> QED
      BY <2>2, <2>3, <2>4 DEF StoreRemembers, CidNamesOneOrder
  <1> QED
    BY <1>1, CopiesFaithful, PTL


-----------------------------------------------------------------------------
(* BitfinexAccount: frames                                                 *)

LEMMA RowTypes ==
  /\ NoRow \in PositionRows /\ Held(NoRow) = NoRow
  /\ \A d \in Desks : Row(d) \in PositionRows
  /\ \A row \in PositionRows : Held(row) \in PositionRows /\ Held(Held(row)) = Held(row)
  BY DEF NoRow, PositionRows, Desks, Row, Held

LEMMA FrameKinds ==
  ASSUME NEW f \in Frames
  PROVE  /\ f.at \in Nat
         /\ IsPosition(f) <=> ~IsWallet(f) /\ f.kind # "order"
         /\ IsWallet(f) => ~IsPosition(f) /\ f.kind # "order"
         /\ IsPosition(f) => f.row \in PositionRows
  BY DEF Frames, IsPosition, IsWallet

Three(S, a, b, c) == a # b /\ b # c /\ a # c /\ S = {a, b, c}

\* Three messages in any order.
LEMMA Permuted ==
  ASSUME NEW a, NEW b, NEW c, NEW S, Three(S, a, b, c), NEW f \in SetToSeqs(S)
  PROVE  /\ f \in Seq(S)
         /\ \E i \in DOMAIN f : f[i] = b
         /\ \E i \in DOMAIN f : f[i] = c
  <1> USE DEF Three
  <1>1. IsFiniteSet({a, b, c}) /\ Cardinality({a, b, c}) = 3
    <2>1. IsFiniteSet({a}) /\ Cardinality({a}) = 1
      BY FS_Singleton
    <2>2. IsFiniteSet({a} \union {b}) /\ Cardinality({a} \union {b}) = 2
      BY <2>1, FS_AddElement
    <2>3. IsFiniteSet(({a} \union {b}) \union {c}) /\ Cardinality(({a} \union {b}) \union {c}) = 3
      <3>1. c \notin {a} \union {b}
        OBVIOUS
      <3>2. PICK T : T = {a} \union {b}
        OBVIOUS
      <3>3. IsFiniteSet(T \union {c}) /\ Cardinality(T \union {c}) = Cardinality(T) + 1
        BY <2>2, <3>1, <3>2, FS_AddElement
      <3> QED
        BY <2>2, <3>2, <3>3
    <2>4. ({a} \union {b}) \union {c} = {a, b, c}
      OBVIOUS
    <2> QED
      BY <2>3, <2>4
  <1>2. /\ f \in [1 .. 3 -> {a, b, c}]
        /\ f[1] # f[2] /\ f[2] # f[3] /\ f[1] # f[3]
    BY <1>1 DEF SetToSeqs
  <1>3. f[1] \in {a, b, c} /\ f[2] \in {a, b, c} /\ f[3] \in {a, b, c}
    BY <1>2
  <1>4. DOMAIN f = 1 .. 3 /\ 1 \in DOMAIN f /\ 2 \in DOMAIN f /\ 3 \in DOMAIN f
    BY <1>2
  <1>5. f \in Seq(S)
    <2>1. f \in [1 .. 3 -> S] /\ 3 \in Nat
      BY <1>2
    <2>2. f \in UNION {[1 .. n -> S] : n \in Nat}
      BY <2>1
    <2> QED
      BY <2>2, SeqDef
  <1>6. (f[1] = b \/ f[2] = b \/ f[3] = b) /\ (f[1] = c \/ f[2] = c \/ f[3] = c)
    BY <1>2, <1>3
  <1> QED
    BY <1>4, <1>5, <1>6

\* What the venue tells of one change: every frame is of that change, and one of them is
\* about the wallet, one about the position.
Tells(frames, d) ==
    /\ frames \in Seq(Frames)
    /\ \A i \in DOMAIN frames :
          /\ frames[i].at = d.ts
          /\ IsPosition(frames[i]) => Held(frames[i].row) = Held(Row(d))
    /\ \E i \in DOMAIN frames : IsWallet(frames[i])
    /\ \E i \in DOMAIN frames : IsPosition(frames[i])

LEMMA Concat ==
  ASSUME NEW S, NEW s \in Seq(S), NEW t \in Seq(S)
  PROVE  /\ s \o t \in Seq(S)
         /\ DOMAIN s = 1 .. Len(s) /\ DOMAIN t = 1 .. Len(t) /\ Len(s) \in Nat /\ Len(t) \in Nat
         /\ DOMAIN (s \o t) = 1 .. Len(s) + Len(t)
         /\ \A i \in DOMAIN s : (s \o t)[i] = s[i]
         /\ \A i \in DOMAIN t : (s \o t)[Len(s) + i] = t[i]
         /\ \A i \in DOMAIN (s \o t) : i \notin DOMAIN s =>
               i - Len(s) \in DOMAIN t /\ (s \o t)[i] = t[i - Len(s)]
  OBVIOUS

\* A change of the account makes every old fact uncertain and leaves the stream telling it.
LEMMA TellsFollows ==
  ASSUME NEW d \in Desks, NEW e \in Desks, NEW t, NEW low \in Nat, StreamFollows(t, d, low),
         e.ts >= d.ts, NEW frames, Tells(frames, e)
  PROVE  /\ StreamFollows(t \o frames, e, low)
         /\ \E i \in DOMAIN (t \o frames) : IsWallet((t \o frames)[i])
         /\ \E i \in DOMAIN (t \o frames) : IsPosition((t \o frames)[i])
  <1> DEFINE u == t \o frames
             n == Len(t)
  <1>1. /\ u \in Seq(Frames)
        /\ DOMAIN t = 1 .. n /\ DOMAIN frames = 1 .. Len(frames) /\ n \in Nat /\ Len(frames) \in Nat
        /\ DOMAIN u = 1 .. n + Len(frames)
        /\ \A i \in DOMAIN t : u[i] = t[i] /\ t[i] \in Frames
        /\ \A i \in DOMAIN frames : u[n + i] = frames[i] /\ frames[i] \in Frames
        /\ \A i \in DOMAIN u : i \notin DOMAIN t => i - n \in DOMAIN frames /\ u[i] = frames[i - n]
    BY Concat DEF StreamFollows, Tells
  <1> HIDE DEF u, n
  <1>2. PICK w \in DOMAIN frames : IsWallet(frames[w])
    BY DEF Tells
  <1>3. PICK p \in DOMAIN frames : IsPosition(frames[p])
    BY DEF Tells
  <1>4. /\ n + w \in DOMAIN u /\ IsWallet(u[n + w])
        /\ n + p \in DOMAIN u /\ IsPosition(u[n + p])
    BY <1>1, <1>2, <1>3
  <1>5. /\ d.ts \in Nat /\ e.ts \in Nat
        /\ \A i \in DOMAIN t : t[i].at \in Nat /\ low <= t[i].at /\ t[i].at <= d.ts
        /\ \A i \in DOMAIN frames : frames[i].at = e.ts
    <2>1. d.ts \in Nat /\ e.ts \in Nat
      BY DEF Tells, Desks
    <2>2. \A i \in DOMAIN t : t[i].at \in Nat
      BY <1>1, FrameKinds
    <2>3. \A i \in DOMAIN t : low <= t[i].at /\ t[i].at <= d.ts
      BY DEF StreamFollows, InOrder
    <2>4. \A i \in DOMAIN frames : frames[i].at = e.ts
      BY DEF Tells
    <2> QED
      BY <2>1, <2>2, <2>3, <2>4
  <1>6. InOrder(u, low, e.ts)
    <2> SUFFICES ASSUME NEW i \in DOMAIN u
                 PROVE  /\ low <= u[i].at /\ u[i].at <= e.ts
                        /\ \A j \in DOMAIN u : i <= j => u[i].at <= u[j].at
      BY DEF InOrder
    <2>1. ASSUME NEW j \in DOMAIN u PROVE u[j].at \in Nat /\ low <= u[j].at /\ u[j].at <= e.ts
      <3>1. CASE j \in DOMAIN t
        <4>1. u[j] = t[j]
          BY <3>1, <1>1
        <4>2. u[j].at \in Nat /\ low <= u[j].at /\ u[j].at <= d.ts
          BY <3>1, <4>1, <1>5
        <4> QED
          BY <4>2, <1>5
      <3>2. CASE j \notin DOMAIN t
        <4>1. u[j].at = e.ts
          <5>1. j - n \in DOMAIN frames /\ u[j] = frames[j - n]
            BY <3>2, <1>1
          <5> QED
            BY <5>1, <1>5
        <4>2. low <= d.ts
          BY DEF StreamFollows
        <4> QED
          BY <4>1, <4>2, <1>1, <1>5
      <3> QED
        BY <3>1, <3>2
    <2>2. ASSUME NEW j \in DOMAIN u, i <= j PROVE u[i].at <= u[j].at
      <3>1. CASE j \in DOMAIN t
        BY <1>1, <2>2, <3>1 DEF StreamFollows, InOrder
      <3>2. CASE j \notin DOMAIN t
        BY <1>1, <1>5, <2>1, <3>2
      <3> QED
        BY <3>1, <3>2
    <2> QED
      BY <2>1, <2>2
  <1>7. LastWallet(u, e.ts)
    <2> SUFFICES ASSUME NEW i \in DOMAIN u, IsWallet(u[i]),
                        \A j \in DOMAIN u : i < j => ~IsWallet(u[j])
                 PROVE  u[i].at = e.ts
      BY DEF LastWallet
    <2>1. i \notin DOMAIN t
      BY <1>1, <1>2, <1>4
    <2> QED
      BY <1>1, <1>5, <2>1
  <1>8. LastPosition(u, Held(Row(e)))
    <2> SUFFICES ASSUME NEW i \in DOMAIN u, IsPosition(u[i]),
                        \A j \in DOMAIN u : i < j => ~IsPosition(u[j])
                 PROVE  Held(u[i].row) = Held(Row(e))
      BY DEF LastPosition
    <2>1. i \notin DOMAIN t
      BY <1>1, <1>3, <1>4
    <2> QED
      BY <1>1, <2>1 DEF Tells
  <1>9. low <= e.ts
    BY <1>5 DEF StreamFollows
  <1> QED
    BY <1>1, <1>4, <1>6, <1>7, <1>8, <1>9 DEF StreamFollows, u

\* Frames about orders alone say nothing of wallet and position.
LEMMA OrderFollows ==
  ASSUME NEW d \in Desks, NEW t, NEW low \in Nat, StreamFollows(t, d, low),
         NEW f, f = [kind |-> "order", at |-> d.ts]
  PROVE  /\ StreamFollows(t \o <<f>>, d, low)
         /\ \A w : WalletKnown(w, t, d.ts) => WalletKnown(w, t \o <<f>>, d.ts)
         /\ \A r, h : PositionKnown(r, t, h) => PositionKnown(r, t \o <<f>>, h)
  <1> DEFINE u == t \o <<f>>
             n == Len(t)
  <1>1. f \in Frames /\ f.at = d.ts /\ ~IsWallet(f) /\ ~IsPosition(f) /\ d.ts \in Nat
    BY DEF Frames, IsWallet, IsPosition, Desks
  <1>2. t \in Seq(Frames) /\ <<f>> \in Seq(Frames) /\ Len(<<f>>) = 1 /\ <<f>>[1] = f
    BY <1>1 DEF StreamFollows
  <1>3. /\ u \in Seq(Frames) /\ DOMAIN t = 1 .. n /\ n \in Nat /\ DOMAIN u = 1 .. n + 1
        /\ u[n + 1] = f /\ \A i \in DOMAIN t : u[i] = t[i] /\ t[i] \in Frames
    BY <1>2
  <1> HIDE DEF u, n
  <1>4. \A i \in DOMAIN u : i \in DOMAIN t \/ i = n + 1
    BY <1>3
  <1>5. \A i \in DOMAIN t : i \in DOMAIN u /\ i < n + 1
    BY <1>3
  <1>6. \A i \in DOMAIN t : t[i].at \in Nat /\ low <= t[i].at /\ t[i].at <= d.ts
    <2>1. \A i \in DOMAIN t : t[i].at \in Nat
      BY <1>3, FrameKinds
    <2>2. \A i \in DOMAIN t : low <= t[i].at /\ t[i].at <= d.ts
      BY DEF StreamFollows, InOrder
    <2> QED
      BY <2>1, <2>2
  <1>7. InOrder(u, low, d.ts)
    BY <1>1, <1>3, <1>4, <1>5, <1>6 DEF StreamFollows, InOrder
  <1>8. LastWallet(u, d.ts) /\ LastPosition(u, Held(Row(d)))
    BY <1>1, <1>3, <1>4, <1>5 DEF StreamFollows, LastWallet, LastPosition
  <1>9. /\ \A w : WalletKnown(w, t, d.ts) => WalletKnown(w, u, d.ts)
        /\ \A r, h : PositionKnown(r, t, h) => PositionKnown(r, u, h)
    BY <1>3, <1>5 DEF WalletKnown, PositionKnown
  <1> QED
    BY <1>3, <1>7, <1>8, <1>9 DEF StreamFollows, u

\* Reading a frame: what is left follows the venue, with the frame's own fact known.
LEMMA ReadFollows ==
  ASSUME NEW d \in Desks, NEW t, NEW low \in Nat, StreamFollows(t, d, low), t # <<>>
  PROVE  LET f == Head(t) IN
         /\ f \in Frames /\ low <= f.at /\ f.at <= d.ts
         /\ StreamFollows(Tail(t), d, low) /\ StreamFollows(Tail(t), d, f.at)
         /\ IsWallet(f) => WalletKnown(f.at, Tail(t), d.ts)
         /\ ~IsWallet(f) => \A w : WalletKnown(w, t, d.ts) => WalletKnown(w, Tail(t), d.ts)
         /\ IsPosition(f) => PositionKnown(Held(f.row), Tail(t), Held(Row(d)))
         /\ ~IsPosition(f) =>
              \A r : PositionKnown(r, t, Held(Row(d))) => PositionKnown(r, Tail(t), Held(Row(d)))
  <1> DEFINE f == Head(t)
             u == Tail(t)
  <1>1. t \in Seq(Frames) /\ d.ts \in Nat
    BY DEF StreamFollows, Desks
  <1>2. /\ u \in Seq(Frames) /\ f = t[1] /\ f \in Frames /\ 1 \in DOMAIN t
        /\ \A i \in DOMAIN u : i + 1 \in DOMAIN t /\ u[i] = t[i + 1] /\ i \in Nat /\ 1 < i + 1
        /\ \A i \in DOMAIN t : t[i] \in Frames /\ i \in Nat
        /\ \A i \in DOMAIN t : i # 1 => i - 1 \in DOMAIN u /\ u[i - 1] = t[i]
    BY <1>1
  <1> HIDE DEF f, u
  <1>3. \A i \in DOMAIN t : t[i].at \in Nat
    BY <1>2, FrameKinds
  <1>4. low <= f.at /\ f.at <= d.ts /\ f.at \in Nat
    BY <1>2, <1>3 DEF StreamFollows, InOrder
  <1>5. InOrder(u, low, d.ts) /\ InOrder(u, f.at, d.ts)
    <2>1. \A i \in DOMAIN u : /\ low <= u[i].at /\ f.at <= u[i].at /\ u[i].at <= d.ts
      BY <1>2 DEF StreamFollows, InOrder
    <2>2. ASSUME NEW i \in DOMAIN u, NEW j \in DOMAIN u, i <= j PROVE u[i].at <= u[j].at
      <3>1. i + 1 \in DOMAIN t /\ j + 1 \in DOMAIN t /\ i + 1 <= j + 1
        BY <1>2, <2>2
      <3> QED
        BY <1>2, <3>1 DEF StreamFollows, InOrder
    <2> QED
      BY <2>1, <2>2 DEF InOrder
  <1>6. LastWallet(u, d.ts)
    <2> SUFFICES ASSUME NEW i \in DOMAIN u, IsWallet(u[i]),
                        \A j \in DOMAIN u : i < j => ~IsWallet(u[j])
                 PROVE  u[i].at = d.ts
      BY DEF LastWallet
    <2>1. ASSUME NEW j \in DOMAIN t, i + 1 < j PROVE ~IsWallet(t[j])
      <3>1. j - 1 \in DOMAIN u /\ u[j - 1] = t[j] /\ i < j - 1
        BY <1>2, <2>1
      <3> QED
        BY <3>1
    <2>2. i + 1 \in DOMAIN t /\ u[i] = t[i + 1]
      BY <1>2
    <2> QED
      BY <2>1, <2>2 DEF StreamFollows, LastWallet
  <1>7. LastPosition(u, Held(Row(d)))
    <2> SUFFICES ASSUME NEW i \in DOMAIN u, IsPosition(u[i]),
                        \A j \in DOMAIN u : i < j => ~IsPosition(u[j])
                 PROVE  Held(u[i].row) = Held(Row(d))
      BY DEF LastPosition
    <2>1. ASSUME NEW j \in DOMAIN t, i + 1 < j PROVE ~IsPosition(t[j])
      <3>1. j - 1 \in DOMAIN u /\ u[j - 1] = t[j] /\ i < j - 1
        BY <1>2, <2>1
      <3> QED
        BY <3>1
    <2>2. i + 1 \in DOMAIN t /\ u[i] = t[i + 1]
      BY <1>2
    <2> QED
      BY <2>1, <2>2 DEF StreamFollows, LastPosition
  <1>8. ASSUME IsWallet(f), \A i \in DOMAIN u : ~IsWallet(u[i]) PROVE f.at = d.ts
    <2>1. ASSUME NEW j \in DOMAIN t, 1 < j PROVE ~IsWallet(t[j])
      BY <1>2, <1>8, <2>1
    <2> QED
      BY <1>2, <1>8, <2>1 DEF StreamFollows, LastWallet
  <1>9. ASSUME IsPosition(f), \A i \in DOMAIN u : ~IsPosition(u[i]) PROVE Held(f.row) = Held(Row(d))
    <2>1. ASSUME NEW j \in DOMAIN t, 1 < j PROVE ~IsPosition(t[j])
      BY <1>2, <1>9, <2>1
    <2> QED
      BY <1>2, <1>9, <2>1 DEF StreamFollows, LastPosition
  <1>10. ASSUME ~IsWallet(f), \A i \in DOMAIN u : ~IsWallet(u[i]) PROVE \A i \in DOMAIN t : ~IsWallet(t[i])
    BY <1>2, <1>10
  <1>11. ASSUME ~IsPosition(f), \A i \in DOMAIN u : ~IsPosition(u[i])
         PROVE \A i \in DOMAIN t : ~IsPosition(t[i])
    BY <1>2, <1>11
  <1>12. StreamFollows(u, d, low) /\ StreamFollows(u, d, f.at)
    BY <1>2, <1>4, <1>5, <1>6, <1>7 DEF StreamFollows
  <1> QED
    BY <1>2, <1>4, <1>8, <1>9, <1>10, <1>11, <1>12 DEF WalletKnown, PositionKnown, f, u

-----------------------------------------------------------------------------
(* The venue                                                               *)

\* A change of the account leaves every fact uncertain until its frames are read.
LEMMA ChangeKeeps ==
  ASSUME AccountInv, desk' \in Desks, desk'.ts >= desk.ts,
         NEW frames, Tells(frames, desk'), Told(frames), UNCHANGED <<book, query>>
  PROVE  AccountInv'
  <1>1. /\ desk \in Desks /\ book \in Books /\ book.outcome \in Nat /\ desk.ts \in Nat
        /\ StreamFollows(tape, desk, book.outcome)
    BY DEF AccountInv, BookFollows, Books, Desks
  <1>2. CASE book.up
    <2>1. tape' = tape \o frames
      BY <1>2 DEF Told
    <2>2. /\ StreamFollows(tape', desk', book.outcome)
          /\ \E i \in DOMAIN tape' : IsWallet(tape'[i])
          /\ \E i \in DOMAIN tape' : IsPosition(tape'[i])
      BY <1>1, <2>1, TellsFollows
    <2>3. /\ \A w : WalletKnown(w, tape', desk'.ts)
          /\ \A r : PositionKnown(r, tape', Held(Row(desk')))
      BY <2>2 DEF WalletKnown, PositionKnown
    <2>4. BookFollows(book, tape', desk')
      BY <1>2, <2>3 DEF AccountInv, BookFollows
    <2>5. QueryFollows(query, book, tape', desk')
      BY <1>2, <2>3 DEF AccountInv, QueryFollows
    <2> QED
      BY <2>2, <2>4, <2>5 DEF AccountInv
  <1>3. CASE ~book.up
    <2>1. /\ tape = <<>> /\ tape' = <<>> /\ ~book.walletCurrent /\ ~book.current /\ query = NoQuery
      BY <1>3 DEF AccountInv, BookFollows, QueryFollows, Told
    <2>2. StreamFollows(tape', desk', book.outcome)
      <3>1. <<>> \in Seq(Frames) /\ DOMAIN <<>> = {} /\ book.outcome <= desk'.ts
        BY <1>1 DEF StreamFollows, Desks
      <3> QED
        BY <2>1, <3>1 DEF StreamFollows, InOrder, LastWallet, LastPosition
    <2>3. BookFollows(book, tape', desk')
      BY <2>1 DEF AccountInv, BookFollows
    <2>4. QueryFollows(query, book, tape', desk')
      BY <2>1 DEF AccountInv, QueryFollows, NoQuery
    <2> QED
      BY <2>2, <2>3, <2>4 DEF AccountInv
  <1> QED
    BY <1>2, <1>3

\* The three frames of one change.
LEMMA ChangeFrames ==
  ASSUME desk \in Desks, desk' \in Desks
  PROVE  /\ {OrderFrame, WalletFrame, PositionFrame} \subseteq Frames
         /\ OrderFrame.at = desk'.ts /\ WalletFrame.at = desk'.ts /\ PositionFrame.at = desk'.ts
         /\ ~IsPosition(OrderFrame) /\ IsWallet(WalletFrame) /\ ~IsPosition(WalletFrame)
         /\ IsPosition(PositionFrame) /\ PositionFrame.row = Row(desk')
         /\ OrderFrame # WalletFrame /\ WalletFrame # PositionFrame /\ OrderFrame # PositionFrame
  <1>1. desk'.ts \in Nat /\ Row(desk') \in PositionRows /\ Row(desk').ts = desk'.ts
    BY RowTypes DEF Desks, Row
  <1>2. /\ OrderFrame \in Frames /\ OrderFrame.at = desk'.ts /\ OrderFrame.kind = "order"
        /\ ~IsPosition(OrderFrame)
    BY <1>1 DEF OrderFrame, Frames, IsPosition
  <1>3. /\ WalletFrame \in Frames /\ WalletFrame.at = desk'.ts /\ WalletFrame.kind = "wu"
        /\ IsWallet(WalletFrame) /\ ~IsPosition(WalletFrame)
    BY <1>1 DEF WalletFrame, Frames, IsPosition, IsWallet
  <1>4. /\ PositionFrame.at = desk'.ts /\ PositionFrame.row = Row(desk')
        /\ PositionFrame.kind \in {"pc", "pn", "pu"}
    BY <1>1 DEF PositionFrame
  <1>5. PositionFrame \in Frames /\ IsPosition(PositionFrame)
    <2> DEFINE k == IF Row(desk').qty = 0 THEN "pc" ELSE IF desk.qty = 0 THEN "pn" ELSE "pu"
    <2>1. PositionFrame = [kind |-> k, row |-> Row(desk'), at |-> desk'.ts]
      BY <1>1 DEF PositionFrame
    <2>2. k \in {"ps", "pn", "pu", "pc"}
      OBVIOUS
    <2> HIDE DEF k
    <2> QED
      BY <1>1, <2>1, <2>2 DEF Frames, IsPosition
  <1> QED
    BY <1>2, <1>3, <1>4, <1>5

LEMMA MovesDesk ==
  ASSUME desk \in Desks, NEW change \in {1, -1}, Moves(change)
  PROVE  desk' \in Desks /\ desk'.ts >= desk.ts
  <1> DEFINE id == IF desk.qty = 0 THEN desk.id + 1 ELSE desk.id
  <1>1. desk' = [desk EXCEPT !.ts = desk.ts + 1, !.qty = desk.qty + change, !.order = FALSE, !.id = id]
    BY DEF Moves, Desks
  <1>2. id \in Nat /\ desk.ts + 1 \in Nat /\ desk.qty + change \in Int /\ desk.ts \in Nat
    BY DEF Desks
  <1> HIDE DEF id
  <1>3. desk' \in Desks
    BY <1>1, <1>2 DEF Desks
  <1>4. desk'.ts = desk.ts + 1
    BY <1>1 DEF Desks
  <1> QED
    BY <1>2, <1>3, <1>4

LEMMA FillStep ==
  ASSUME AccountInv, VenueFills
  PROVE  AccountInv'
  <1>1. desk \in Desks /\ desk' \in Desks /\ desk'.ts >= desk.ts
    BY MovesDesk DEF AccountInv, VenueFills
  <1>2. PICK frames \in SetToSeqs({OrderFrame, WalletFrame, PositionFrame}) : Told(frames)
    BY DEF VenueFills
  <1> DEFINE S == {OrderFrame, WalletFrame, PositionFrame}
  <1>3. /\ frames \in Seq(S)
        /\ \E i \in DOMAIN frames : frames[i] = WalletFrame
        /\ \E i \in DOMAIN frames : frames[i] = PositionFrame
    <2>1. /\ OrderFrame # WalletFrame /\ WalletFrame # PositionFrame
          /\ OrderFrame # PositionFrame
      BY <1>1, ChangeFrames
    <2> HIDE DEF S
    <2>2. /\ frames \in Seq(S)
          /\ \E i \in DOMAIN frames : frames[i] = WalletFrame
          /\ \E i \in DOMAIN frames : frames[i] = PositionFrame
      <3>1. PICK a, b, c : a = OrderFrame /\ b = WalletFrame /\ c = PositionFrame
        OBVIOUS
      <3>2. Three(S, a, b, c) /\ frames \in SetToSeqs(S)
        BY <1>2, <2>1, <3>1 DEF S, Three
      <3>3. /\ frames \in Seq(S)
            /\ \E i \in DOMAIN frames : frames[i] = b
            /\ \E i \in DOMAIN frames : frames[i] = c
        BY <3>2, Permuted
      <3> QED
        BY <3>1, <3>3
    <2> QED
      BY <2>2
  <1>4. S \subseteq Frames
    BY <1>1, ChangeFrames
  <1>5. \A i \in DOMAIN frames : frames[i] \in S
    BY <1>3
  <1>6. frames \in Seq(Frames)
    BY <1>3, <1>4, SeqMonotonic
  <1>7. Tells(frames, desk')
    BY <1>1, <1>3, <1>5, <1>6, ChangeFrames DEF Tells
  <1> QED
    BY <1>1, <1>2, <1>7, ChangeKeeps DEF VenueFills

LEMMA OthersStep ==
  ASSUME AccountInv, OthersMove
  PROVE  AccountInv'
  <1>1. desk \in Desks /\ desk' \in Desks /\ desk'.ts >= desk.ts
    BY MovesDesk DEF AccountInv, OthersMove
  <1>2. Tells(<<WalletFrame, PositionFrame>>, desk') /\ Tells(<<PositionFrame, WalletFrame>>, desk')
    BY <1>1, ChangeFrames DEF Tells
  <1> QED
    BY <1>1, <1>2, ChangeKeeps DEF OthersMove

\* An order that ends without a fill, or is sent, moves nothing of the account.
LEMMA EndStep ==
  ASSUME AccountInv, VenueEnds
  PROVE  AccountInv'
  <1>1. /\ desk \in Desks /\ desk' \in Desks /\ desk'.ts = desk.ts /\ Row(desk') = Row(desk)
        /\ UNCHANGED <<book, query>> /\ Told(<<OrderFrame>>)
        /\ OrderFrame = [kind |-> "order", at |-> desk'.ts]
    BY DEF AccountInv, VenueEnds, Desks, Row, OrderFrame
  <1>2. /\ StreamFollows(tape, desk', book.outcome) /\ book.outcome \in Nat
        /\ BookFollows(book, tape, desk') /\ QueryFollows(query, book, tape, desk')
    BY <1>1 DEF AccountInv, StreamFollows, BookFollows, QueryFollows, Books
  <1>3. CASE ~book.up
    BY <1>1, <1>2, <1>3 DEF Told, AccountInv
  <1>4. CASE book.up
    <2>1. tape' = tape \o <<OrderFrame>>
      BY <1>1, <1>4 DEF Told
    <2>2. /\ StreamFollows(tape', desk', book.outcome)
          /\ \A w : WalletKnown(w, tape, desk'.ts) => WalletKnown(w, tape', desk'.ts)
          /\ \A r, h : PositionKnown(r, tape, h) => PositionKnown(r, tape', h)
      BY <1>1, <1>2, <2>1, OrderFollows
    <2>3. BookFollows(book, tape', desk')
      BY <1>2, <1>4, <2>2 DEF BookFollows
    <2>4. QueryFollows(query, book, tape', desk')
      BY <1>2, <1>4, <2>2 DEF QueryFollows
    <2> QED
      BY <1>1, <2>2, <2>3, <2>4 DEF AccountInv
  <1> QED
    BY <1>3, <1>4

-----------------------------------------------------------------------------
(* The client                                                              *)

\* What outdates the query leaves it nothing to prove.
LEMMA OutdatedFollows ==
  ASSUME NEW b \in Books, NEW t, NEW d, NEW c, NEW u, NEW e,
         QueryFollows(query, c, u, e), b.up
  PROVE  QueryFollows(Outdated, b, t, d)
  <1>1. /\ query \in Queries /\ Outdated \in Queries /\ ~Outdated.fresh
        /\ Outdated.row = query.row /\ Held(query.row) = query.row
    BY DEF QueryFollows, Outdated, Queries
  <1> QED
    BY <1>1 DEF QueryFollows

LEMMA SendStep ==
  ASSUME AccountInv, SendsOrder
  PROVE  AccountInv'
  <1>1. /\ desk \in Desks /\ book \in Books /\ QueryFollows(query, book, tape, desk)
        /\ BookFollows(book, tape, desk) /\ StreamFollows(tape, desk, book.outcome) /\ book.up
    BY DEF AccountInv, BookFollows, SendsOrder, RefreshReady
  <1>2. desk' \in Desks /\ desk'.ts = desk.ts /\ Row(desk') = Row(desk) /\ tape' = tape
    BY <1>1 DEF SendsOrder, Desks, Row
  <1>3. book' = [book EXCEPT !.acted = TRUE, !.budget = FALSE, !.pending = TRUE]
    BY <1>1 DEF SendsOrder, Acting, Books
  <1>4. /\ book' \in Books /\ book'.up /\ book'.acted /\ ~book'.budget
        /\ book'.outcome = book.outcome /\ book'.wallet = book.wallet /\ book'.held = book.held
        /\ book'.walletCurrent = book.walletCurrent /\ book'.current = book.current
    BY <1>1, <1>3 DEF Books
  <1>5. StreamFollows(tape', desk', book'.outcome)
    BY <1>1, <1>2, <1>4 DEF StreamFollows
  <1>6. BookFollows(book', tape', desk')
    BY <1>1, <1>2, <1>4 DEF BookFollows
  <1>7. QueryFollows(query', book', tape', desk')
    BY <1>1, <1>4, OutdatedFollows DEF SendsOrder
  <1> QED
    BY <1>2, <1>5, <1>6, <1>7 DEF AccountInv

\* A frame is installed, or its fact is marked as unknown; an order's outcome withdraws
\* the budget and puts every older fact behind it.
LEMMA ReadStep ==
  ASSUME AccountInv, ReadsFrame
  PROVE  AccountInv'
  <1> DEFINE f == Head(tape)
             u == Tail(tape)
  <1>1. /\ desk \in Desks /\ book \in Books /\ QueryFollows(query, book, tape, desk)
        /\ BookFollows(book, tape, desk) /\ StreamFollows(tape, desk, book.outcome)
        /\ book.outcome \in Nat /\ book.wallet \in Nat /\ book.asof \in Nat
        /\ tape # <<>> /\ tape' = u /\ desk' = desk /\ query' = Outdated
    BY DEF AccountInv, BookFollows, ReadsFrame, Books
  <1>2. book.up
    BY <1>1 DEF BookFollows
  <1>3. /\ f \in Frames /\ book.outcome <= f.at /\ f.at <= desk.ts
        /\ StreamFollows(u, desk, book.outcome) /\ StreamFollows(u, desk, f.at)
        /\ IsWallet(f) => WalletKnown(f.at, u, desk.ts)
        /\ ~IsWallet(f) => \A w : WalletKnown(w, tape, desk.ts) => WalletKnown(w, u, desk.ts)
        /\ IsPosition(f) => PositionKnown(Held(f.row), u, Held(Row(desk)))
        /\ ~IsPosition(f) => \A r : PositionKnown(r, tape, Held(Row(desk)))
                                      => PositionKnown(r, u, Held(Row(desk)))
    BY <1>1, ReadFollows
  <1> HIDE DEF f, u
  <1>4. f.at \in Nat
    BY <1>3, FrameKinds
  <1>5. CASE f.kind = "order"
    <2>1. book' = [book EXCEPT !.acted = TRUE, !.budget = FALSE, !.pending = FALSE, !.outcome = f.at]
      BY <1>1, <1>5 DEF ReadsFrame, Acting, Books, f
    <2>2. /\ book' \in Books /\ book'.up /\ book'.acted /\ ~book'.budget
          /\ book'.outcome = f.at /\ book'.wallet = book.wallet /\ book'.held = book.held
          /\ book'.walletCurrent = book.walletCurrent /\ book'.current = book.current
      BY <1>1, <1>2, <1>4, <2>1 DEF Books
    <2>3. ~IsWallet(f) /\ ~IsPosition(f)
      BY <1>5 DEF IsWallet, IsPosition
    <2>4. BookFollows(book', u, desk)
      BY <1>1, <1>3, <2>2, <2>3 DEF BookFollows
    <2>5. QueryFollows(query', book', u, desk)
      BY <1>1, <2>2, OutdatedFollows
    <2> QED
      BY <1>1, <1>3, <2>2, <2>4, <2>5 DEF AccountInv
  <1>6. CASE IsWallet(f)
    <2> DEFINE wired == book.wired \/ f.kind = "ws"
    <2>1. book' = [book EXCEPT !.wallet = f.at, !.walletCurrent = TRUE, !.wired = wired]
      BY <1>1, <1>6 DEF ReadsFrame, WithWallet, Books, IsWallet, f
    <2>2. wired \in BOOLEAN
      BY <1>1 DEF Books
    <2> HIDE DEF wired
    <2>3. /\ book' \in Books /\ book'.up /\ book'.acted = book.acted /\ book'.budget = book.budget
          /\ book'.outcome = book.outcome /\ book'.wallet = f.at /\ book'.walletCurrent
          /\ book'.held = book.held /\ book'.current = book.current /\ book'.asof = book.asof
      BY <1>1, <1>2, <1>4, <2>1, <2>2 DEF Books
    <2>4. ~IsPosition(f)
      BY <1>6 DEF IsWallet, IsPosition
    <2>5. BookFollows(book', u, desk)
      BY <1>1, <1>3, <1>4, <1>6, <2>3, <2>4 DEF BookFollows
    <2>6. QueryFollows(query', book', u, desk)
      BY <1>1, <2>3, OutdatedFollows
    <2> QED
      BY <1>1, <1>3, <2>3, <2>5, <2>6 DEF AccountInv
  <1>7. CASE IsPosition(f)
    <2>1. /\ book' = IF Candidate(f.row, f.kind) THEN WithPosition(book, f.row, f.at) ELSE Unplaced(book)
          /\ ~IsWallet(f) /\ f.row \in PositionRows
      BY <1>1, <1>3, <1>7, FrameKinds DEF ReadsFrame, IsPosition, f
    <2>2. CASE Candidate(f.row, f.kind)
      <3> DEFINE last == IF f.row = NoRow THEN book.last ELSE f.row
      <3>1. /\ book' = [book EXCEPT !.held = Held(f.row), !.last = last, !.complete = TRUE,
                                    !.current = TRUE, !.asof = f.at]
            /\ last \in PositionRows /\ Held(f.row) \in PositionRows
        BY <1>1, <2>1, <2>2, RowTypes DEF WithPosition, Books
      <3> HIDE DEF last
      <3>2. /\ book' \in Books /\ book'.up /\ book'.acted = book.acted /\ book'.budget = book.budget
            /\ book'.outcome = book.outcome /\ book'.wallet = book.wallet
            /\ book'.walletCurrent = book.walletCurrent
            /\ book'.held = Held(f.row) /\ book'.asof = f.at
        BY <1>1, <1>2, <1>4, <3>1 DEF Books
      <3>3. BookFollows(book', u, desk)
        BY <1>1, <1>3, <1>4, <1>7, <2>1, <3>2 DEF BookFollows
      <3>4. QueryFollows(query', book', u, desk)
        BY <1>1, <3>2, OutdatedFollows
      <3> QED
        BY <1>1, <1>3, <3>2, <3>3, <3>4 DEF AccountInv
    <2>3. CASE ~Candidate(f.row, f.kind)
      <3>1. /\ book' \in Books /\ book'.up /\ book'.acted = book.acted /\ book'.budget = book.budget
            /\ book'.outcome = book.outcome /\ book'.wallet = book.wallet
            /\ book'.walletCurrent = book.walletCurrent /\ ~book'.current
        BY <1>1, <1>2, <2>1, <2>3 DEF Books, Unplaced
      <3>2. BookFollows(book', u, desk)
        BY <1>1, <1>3, <2>1, <3>1 DEF BookFollows
      <3>3. QueryFollows(query', book', u, desk)
        BY <1>1, <3>1, OutdatedFollows
      <3> QED
        BY <1>1, <1>3, <3>1, <3>2, <3>3 DEF AccountInv
    <2> QED
      BY <2>2, <2>3
  <1> QED
    BY <1>3, <1>5, <1>6, <1>7, FrameKinds

LEMMA InvalidatedIs ==
  ASSUME NEW b \in Books
  PROVE  /\ Invalidated(b) \in Books /\ ~Invalidated(b).walletCurrent /\ ~Invalidated(b).current
         /\ Invalidated(b).acted = b.acted /\ Invalidated(b).outcome = b.outcome
         /\ Invalidated(b).streams = b.streams
  BY DEF Invalidated, Books

LEMMA NoQueryFollows ==
  ASSUME NEW b, NEW t, NEW d
  PROVE  QueryFollows(NoQuery, b, t, d)
  BY RowTypes DEF QueryFollows, NoQuery, Queries

\* A stream that ends takes every fact with it.
LEMMA StreamEndStep ==
  ASSUME AccountInv, StreamEnds
  PROVE  AccountInv'
  <1>1. /\ desk \in Desks /\ book \in Books /\ BookFollows(book, tape, desk)
        /\ StreamFollows(tape, desk, book.outcome) /\ book.outcome \in Nat /\ desk.ts \in Nat
    BY DEF AccountInv, BookFollows, Books, Desks
  <1> DEFINE b == Invalidated(book)
  <1>2. /\ b \in Books /\ ~b.walletCurrent /\ ~b.current /\ b.acted = book.acted
        /\ b.outcome = book.outcome
    BY <1>1, InvalidatedIs
  <1>3. book' = [b EXCEPT !.up = FALSE, !.wired = FALSE] /\ tape' = <<>> /\ query' = NoQuery /\ desk' = desk
    BY DEF StreamEnds
  <1> HIDE DEF b
  <1>4. /\ book' \in Books /\ ~book'.walletCurrent /\ ~book'.current /\ book'.acted = book.acted
        /\ book'.outcome = book.outcome
    BY <1>2, <1>3 DEF Books
  <1>5. StreamFollows(<<>>, desk, book.outcome)
    <2>1. <<>> \in Seq(Frames) /\ DOMAIN <<>> = {} /\ book.outcome <= desk.ts
      BY <1>1 DEF StreamFollows
    <2> QED
      BY <2>1 DEF StreamFollows, InOrder, LastWallet, LastPosition
  <1>6. BookFollows(book', <<>>, desk)
    BY <1>1, <1>4 DEF BookFollows
  <1> QED
    BY <1>1, <1>3, <1>4, <1>5, <1>6, NoQueryFollows DEF AccountInv

\* A stream that begins tells both facts of now.
LEMMA ConnectStep ==
  ASSUME AccountInv, Connects
  PROVE  AccountInv'
  <1> DEFINE ws == [kind |-> "ws", at |-> desk.ts]
             ps == [kind |-> "ps", row |-> Held(Row(desk)), at |-> desk.ts]
             b == Invalidated(book)
             n == book.streams + 1
  <1>1. /\ desk \in Desks /\ book \in Books /\ BookFollows(book, tape, desk)
        /\ StreamFollows(tape, desk, book.outcome) /\ book.outcome \in Nat /\ desk.ts \in Nat
        /\ desk' = desk /\ query' = query /\ query = NoQuery
        /\ book.outcome <= desk.ts /\ n \in Nat
    BY DEF AccountInv, BookFollows, QueryFollows, StreamFollows, Connects, Books, Desks
  <1>2. /\ b \in Books /\ ~b.walletCurrent /\ ~b.current /\ b.acted = book.acted
        /\ b.outcome = book.outcome /\ b.streams = book.streams
    BY <1>1, InvalidatedIs
  <1>3. book' = [b EXCEPT !.up = TRUE, !.streams = n]
    BY <1>2 DEF Connects, Books
  <1>4. tape' \in {<<ws, ps>>, <<ps, ws>>}
    BY DEF Connects
  <1> HIDE DEF b, n
  <1>5. /\ book' \in Books /\ book'.up /\ ~book'.walletCurrent /\ ~book'.current
        /\ book'.acted = book.acted /\ book'.outcome = book.outcome
    BY <1>1, <1>2, <1>3 DEF Books
  <1>6. /\ ws \in Frames /\ ps \in Frames /\ ws.at = desk.ts /\ ps.at = desk.ts
        /\ IsWallet(ws) /\ ~IsWallet(ps) /\ IsPosition(ps) /\ ~IsPosition(ws)
        /\ Held(ps.row) = Held(Row(desk))
    BY <1>1, RowTypes DEF Frames, IsWallet, IsPosition
  <1> HIDE DEF ws, ps
  <1>7. /\ tape' \in Seq(Frames) /\ DOMAIN tape' = {1, 2}
        /\ \/ tape'[1] = ws /\ tape'[2] = ps
           \/ tape'[1] = ps /\ tape'[2] = ws
    <2>1. CASE tape' = <<ws, ps>>
      BY <1>6, <2>1
    <2>2. CASE tape' = <<ps, ws>>
      BY <1>6, <2>2
    <2> QED
      BY <1>4, <2>1, <2>2 DEF ws, ps
  <1>8. InOrder(tape', book.outcome, desk.ts)
    BY <1>1, <1>6, <1>7 DEF InOrder
  <1>9. LastWallet(tape', desk.ts) /\ LastPosition(tape', Held(Row(desk)))
    BY <1>6, <1>7 DEF LastWallet, LastPosition
  <1>10. BookFollows(book', tape', desk)
    BY <1>1, <1>5 DEF BookFollows
  <1> QED
    BY <1>1, <1>5, <1>7, <1>8, <1>9, <1>10, NoQueryFollows DEF AccountInv, StreamFollows

-----------------------------------------------------------------------------
(* query_account                                                           *)

\* A step of the query that leaves the book alone.
LEMMA QueryKeeps ==
  ASSUME AccountInv, UNCHANGED <<desk, tape, book>>, QueryFollows(query', book, tape, desk)
  PROVE  AccountInv'
  BY DEF AccountInv

LEMMA AskSteps ==
  ASSUME AccountInv, QueryAccount \/ AnswersWallets \/ AnswersPositions \/ QueryFails
  PROVE  AccountInv'
  <1>1. /\ desk \in Desks /\ book \in Books /\ QueryFollows(query, book, tape, desk)
        /\ query \in Queries /\ book.outcome <= desk.ts /\ desk.ts \in Nat
        /\ Held(Row(desk)) \in PositionRows /\ Held(Held(Row(desk))) = Held(Row(desk))
        /\ UNCHANGED <<desk, tape, book>>
    BY RowTypes DEF AccountInv, BookFollows, QueryFollows, StreamFollows, Desks,
       QueryAccount, AnswersWallets, AnswersPositions, QueryFails
  <1>2. query.step # "none" => book.up
    BY <1>1 DEF QueryFollows, NoQuery
  <1>3. CASE QueryAccount
    <2> DEFINE ready == RefreshReady
    <2>1. query' = [NoQuery EXCEPT !.step = "wallets", !.fresh = TRUE, !.eligible = ready] /\ book.up
      BY <1>3 DEF QueryAccount
    <2>2. ready \in BOOLEAN
      BY <1>1 DEF RefreshReady, Books
    <2> HIDE DEF ready
    <2>3. query' \in Queries /\ query'.step = "wallets" /\ query'.row = NoRow
      BY <2>1, <2>2, RowTypes DEF NoQuery, Queries
    <2>4. QueryFollows(query', book, tape, desk)
      BY <2>1, <2>3, RowTypes DEF QueryFollows
    <2> QED
      BY <1>1, <2>4, QueryKeeps
  <1>4. CASE AnswersWallets
    <2>1. query' = [query EXCEPT !.step = "gotWallets", !.wallet = desk.ts] /\ book.up
      BY <1>2, <1>4 DEF AnswersWallets
    <2>2. /\ query' \in Queries /\ query'.step = "gotWallets" /\ query'.wallet = desk.ts
          /\ query'.row = query.row
      BY <1>1, <2>1 DEF Queries
    <2>3. WalletKnown(query'.wallet, tape, desk.ts)
      BY <2>2 DEF WalletKnown
    <2>4. QueryFollows(query', book, tape, desk)
      BY <1>1, <2>1, <2>2, <2>3 DEF QueryFollows, Books
    <2> QED
      BY <1>1, <2>4, QueryKeeps
  <1>5. CASE AnswersPositions
    <2>1. /\ query' = [query EXCEPT !.step = "gotPositions", !.row = Held(Row(desk)), !.at = desk.ts]
          /\ book.up /\ query.step = "positions"
      BY <1>2, <1>5 DEF AnswersPositions
    <2>2. /\ query' \in Queries /\ query'.step = "gotPositions" /\ query'.wallet = query.wallet
          /\ query'.row = Held(Row(desk)) /\ query'.at = desk.ts /\ query'.fresh = query.fresh
      BY <1>1, <2>1 DEF Queries
    <2>3. PositionKnown(query'.row, tape, Held(Row(desk)))
      BY <2>2 DEF PositionKnown
    <2>4. QueryFollows(query', book, tape, desk)
      BY <1>1, <2>1, <2>2, <2>3 DEF QueryFollows, Books
    <2> QED
      BY <1>1, <2>4, QueryKeeps
  <1>6. CASE QueryFails
    BY <1>1, <1>6, QueryKeeps, NoQueryFollows DEF QueryFails
  <1> QED
    BY <1>3, <1>4, <1>5, <1>6

LEMMA TakesWalletsStep ==
  ASSUME AccountInv, TakesWallets
  PROVE  AccountInv'
  <1>1. /\ desk \in Desks /\ book \in Books /\ QueryFollows(query, book, tape, desk)
        /\ query \in Queries /\ BookFollows(book, tape, desk)
        /\ StreamFollows(tape, desk, book.outcome)
        /\ desk' = desk /\ tape' = tape /\ query.step = "gotWallets"
    BY DEF AccountInv, BookFollows, QueryFollows, TakesWallets
  <1>2. CASE query' = NoQuery /\ book' = book
    BY <1>1, <1>2, QueryKeeps, NoQueryFollows
  <1>3. CASE QueryCurrent /\ query' = [query EXCEPT !.step = "positions"] /\ book' = book
    <2>1. /\ query' \in Queries /\ query'.step = "positions" /\ query'.wallet = query.wallet
          /\ query'.row = query.row /\ query'.fresh = query.fresh
      BY <1>1, <1>3 DEF Queries
    <2>2. QueryFollows(query', book, tape, desk)
      BY <1>1, <1>3, <2>1 DEF QueryFollows, QueryCurrent
    <2> QED
      BY <1>1, <1>3, <2>2, QueryKeeps
  <1>4. CASE query' = NoQuery /\ book' = [book EXCEPT !.walletCurrent = FALSE]
    <2>1. /\ book' \in Books /\ ~book'.walletCurrent /\ book'.current = book.current
          /\ book'.up = book.up /\ book'.held = book.held /\ book'.acted = book.acted
          /\ book'.budget = book.budget /\ book'.asof = book.asof /\ book'.outcome = book.outcome
      BY <1>1, <1>4 DEF Books
    <2>2. BookFollows(book', tape, desk)
      BY <1>1, <2>1 DEF BookFollows
    <2> QED
      BY <1>1, <1>4, <2>1, <2>2, NoQueryFollows DEF AccountInv
  <1> QED
    BY <1>2, <1>3, <1>4 DEF TakesWallets

\* Both facts are installed together, and both are the venue's of after the last outcome.
LEMMA TakesPositionsStep ==
  ASSUME AccountInv, TakesPositions
  PROVE  AccountInv'
  <1>1. /\ desk \in Desks /\ book \in Books /\ QueryFollows(query, book, tape, desk)
        /\ query \in Queries /\ BookFollows(book, tape, desk)
        /\ StreamFollows(tape, desk, book.outcome) /\ query.row \in PositionRows
        /\ query.wallet \in Nat /\ query.at \in Nat /\ book.outcome \in Nat
        /\ desk' = desk /\ tape' = tape /\ query.step = "gotPositions" /\ query' = NoQuery
    BY DEF AccountInv, BookFollows, QueryFollows, TakesPositions, Books, Queries
  <1>2. CASE ~QueryCurrent
    BY <1>1, <1>2, QueryKeeps, NoQueryFollows DEF TakesPositions
  <1>3. CASE QueryCurrent /\ ~Candidate(query.row, "ps")
    <2>1. book' = Unplaced(book)
      BY <1>3 DEF TakesPositions
    <2>2. /\ book' \in Books /\ ~book'.current /\ book'.walletCurrent = book.walletCurrent
          /\ book'.up = book.up /\ book'.wallet = book.wallet /\ book'.acted = book.acted
          /\ book'.budget = book.budget /\ book'.outcome = book.outcome
      BY <1>1, <2>1 DEF Books, Unplaced
    <2>3. BookFollows(book', tape, desk)
      BY <1>1, <2>2 DEF BookFollows
    <2> QED
      BY <1>1, <2>2, <2>3, NoQueryFollows DEF AccountInv
  <1>4. CASE QueryCurrent /\ Candidate(query.row, "ps")
    <2> DEFINE last == IF query.row = NoRow THEN book.last ELSE query.row
               budget == book.budget \/ (query.eligible /\ RefreshReady)
    <2>1. last \in PositionRows /\ budget \in BOOLEAN /\ Held(query.row) = query.row
      BY <1>1 DEF Books, Queries, RefreshReady, QueryFollows
    <2>2. book' = [book EXCEPT !.wallet = query.wallet, !.walletCurrent = TRUE, !.held = query.row,
                               !.last = last, !.complete = TRUE, !.current = TRUE,
                               !.asof = query.at, !.budget = budget]
      <3>1. book' = [WithPosition(WithWallet(book, query.wallet), query.row, query.at)
                       EXCEPT !.budget = @ \/ (query.eligible /\ RefreshReady)]
        BY <1>4 DEF TakesPositions
      <3> QED
        BY <1>1, <2>1, <3>1 DEF WithPosition, WithWallet, Books
    <2> HIDE DEF last, budget
    <2>3. /\ book' \in Books /\ book'.up = book.up /\ book'.wallet = query.wallet
          /\ book'.held = query.row /\ book'.asof = query.at /\ book'.outcome = book.outcome
          /\ book'.acted = book.acted
      BY <1>1, <2>1, <2>2 DEF Books
    <2>4. /\ book.up /\ query.wallet >= book.outcome /\ WalletKnown(query.wallet, tape, desk.ts)
          /\ query.at >= book.outcome /\ PositionKnown(query.row, tape, Held(Row(desk)))
      BY <1>1, <1>4 DEF QueryCurrent, QueryFollows
    <2>5. BookFollows(book', tape, desk)
      BY <1>1, <2>3, <2>4 DEF BookFollows
    <2> QED
      BY <1>1, <2>3, <2>5, NoQueryFollows DEF AccountInv
  <1> QED
    BY <1>2, <1>3, <1>4

-----------------------------------------------------------------------------

LEMMA AccountStarts == AccountInit => AccountInv
  <1> SUFFICES ASSUME AccountInit PROVE AccountInv
    OBVIOUS
  <1>1. desk \in Desks /\ desk.ts = 0 /\ tape = <<>> /\ query = NoQuery
    BY DEF AccountInit, Desks
  <1>2. /\ book \in Books /\ ~book.up /\ ~book.walletCurrent /\ ~book.current /\ book.outcome = 0
    BY RowTypes DEF AccountInit, Books
  <1>3. StreamFollows(tape, desk, book.outcome)
    <2>1. <<>> \in Seq(Frames) /\ DOMAIN <<>> = {}
      OBVIOUS
    <2> QED
      BY <1>1, <1>2, <2>1 DEF StreamFollows, InOrder, LastWallet, LastPosition
  <1> QED
    BY <1>1, <1>2, <1>3, NoQueryFollows DEF AccountInv, BookFollows

LEMMA AccountSteps == AccountInv /\ [AccountNext]_accountVars => AccountInv'
  <1> SUFFICES ASSUME AccountInv, [AccountNext]_accountVars PROVE AccountInv'
    OBVIOUS
  <1>1. CASE UNCHANGED accountVars
    BY <1>1 DEF accountVars, AccountInv
  <1> QED
    BY <1>1, FillStep, OthersStep, EndStep, SendStep, ReadStep, StreamEndStep, ConnectStep,
       AskSteps, TakesWalletsStep, TakesPositionsStep DEF AccountNext

\* Every fact of the client's book is the venue's present one, or a frame about it is still
\* unread; and only a query that nothing has overtaken brings facts newer than an outcome
\* (_consume_private_frame, query_account).
THEOREM FactsFollow == AccountSpec => []AccountInv
  BY AccountStarts, AccountSteps, PTL DEF AccountSpec

\* Budget is never granted on facts older than a known outcome, nor, once every frame is
\* read, on facts the account has left behind (account_budget_refresh_ready).
THEOREM BudgetNeverStale == AccountSpec => []BudgetIsCurrent
  <1>1. AccountInv => BudgetIsCurrent
    <2> SUFFICES ASSUME AccountInv, AccountBudgetReady
                 PROVE  /\ book.wallet >= book.outcome /\ book.asof >= book.outcome
                        /\ tape = <<>> => book.wallet = desk.ts /\ book.held = Held(Row(desk))
      BY DEF BudgetIsCurrent
    <2>1. /\ BookFollows(book, tape, desk) /\ book.walletCurrent /\ book.current
          /\ book.acted => book.budget
      BY DEF AccountInv, AccountBudgetReady
    <2>2. book.wallet >= book.outcome /\ book.asof >= book.outcome
      BY <2>1 DEF BookFollows
    <2>3. ASSUME tape = <<>> PROVE book.wallet = desk.ts /\ book.held = Held(Row(desk))
      <3>1. DOMAIN tape = {}
        BY <2>3
      <3> QED
        BY <2>1, <3>1 DEF BookFollows, WalletKnown, PositionKnown
    <2> QED
      BY <2>2, <2>3
  <1> QED
    BY <1>1, FactsFollow, PTL

-----------------------------------------------------------------------------
(* TerminalReconciler *)

\* What the proofs say of an actor that holds the given questions.
Holds(a, questions) == a \in Actors /\ RequestsServed(a) /\ QuestionsHeld(a, questions)

-----------------------------------------------------------------------------
(* Sequences of orders                                                     *)

LEMMA ToSetEmpty == ToSet(<<>>) = {} /\ \A S : <<>> \in Seq(S)
  BY DEF ToSet

LEMMA ToSetAppend ==
  ASSUME NEW S, NEW s \in Seq(S), NEW x \in S
  PROVE  Append(s, x) \in Seq(S) /\ ToSet(Append(s, x)) = ToSet(s) \union {x} /\ Append(s, x) # <<>>
  <1> DEFINE t == Append(s, x)
  <1>1. /\ t \in Seq(S) /\ DOMAIN t = 1 .. Len(s) + 1 /\ DOMAIN s = 1 .. Len(s) /\ Len(s) \in Nat
        /\ t[Len(s) + 1] = x /\ \A i \in 1 .. Len(s) : t[i] = s[i]
    OBVIOUS
  <1> HIDE DEF t
  <1>2. t # <<>>
    BY <1>1
  <1>3. ToSet(t) = ToSet(s) \union {x}
    BY <1>1 DEF ToSet
  <1> QED
    BY <1>1, <1>2, <1>3 DEF t

LEMMA ToSetConcat ==
  ASSUME NEW S, NEW s \in Seq(S), NEW t \in Seq(S)
  PROVE  s \o t \in Seq(S) /\ ToSet(s \o t) = ToSet(s) \union ToSet(t)
  <1>1. ToSet(s \o t) \subseteq ToSet(s) \union ToSet(t)
    BY DEF ToSet
  <1>2. ToSet(s) \subseteq ToSet(s \o t)
    <2> SUFFICES ASSUME NEW i \in 1 .. Len(s) PROVE s[i] \in ToSet(s \o t)
      BY DEF ToSet
    <2> QED
      BY i \in 1 .. Len(s \o t), (s \o t)[i] = s[i] DEF ToSet
  <1>3. ToSet(t) \subseteq ToSet(s \o t)
    <2> SUFFICES ASSUME NEW i \in 1 .. Len(t) PROVE t[i] \in ToSet(s \o t)
      BY DEF ToSet
    <2> QED
      BY Len(s) + i \in 1 .. Len(s \o t), (s \o t)[Len(s) + i] = t[i] DEF ToSet
  <1> QED
    BY <1>1, <1>2, <1>3

LEMMA ToSetTail ==
  ASSUME NEW S, NEW s \in Seq(S), s # <<>>
  PROVE  /\ Head(s) \in S /\ Tail(s) \in Seq(S)
         /\ ToSet(s) = {Head(s)} \union ToSet(Tail(s))
  <1>1. ToSet(s) \subseteq {Head(s)} \union ToSet(Tail(s))
    <2> SUFFICES ASSUME NEW i \in 1 .. Len(s), i # 1 PROVE s[i] \in ToSet(Tail(s))
      BY DEF ToSet
    <2>1. i - 1 \in 1 .. Len(Tail(s)) /\ i - 1 \in DOMAIN Tail(s)
      OBVIOUS
    <2>2. Tail(s)[i - 1] = s[i]
      BY <2>1
    <2> QED
      BY <2>1, <2>2 DEF ToSet
  <1>2. ToSet(Tail(s)) \subseteq ToSet(s)
    <2> SUFFICES ASSUME NEW i \in 1 .. Len(Tail(s)) PROVE Tail(s)[i] \in ToSet(s)
      BY DEF ToSet
    <2> QED
      BY i + 1 \in 1 .. Len(s), Tail(s)[i] = s[i + 1] DEF ToSet
  <1>3. Head(s) \in ToSet(s) /\ Head(s) \in S /\ Tail(s) \in Seq(S)
    BY 1 \in 1 .. Len(s) DEF ToSet
  <1> QED
    BY <1>1, <1>2, <1>3

LEMMA ToSetOf ==
  ASSUME NEW S, NEW s \in Seq(S)
  PROVE  ToSet(s) \subseteq S /\ (ToSet(s) = {} <=> s = <<>>)
  <1>1. ToSet(s) \subseteq S
    BY DEF ToSet
  <1>2. CASE s = <<>>
    BY <1>2, ToSetEmpty, <1>1
  <1>3. CASE s # <<>>
    BY <1>1, <1>3, ToSetTail
  <1> QED
    BY <1>2, <1>3

-----------------------------------------------------------------------------
(* The operators of the root                                               *)

LEMMA RootedHolds ==
  ASSUME NEW a, NEW q \in SUBSET Asked, Holds(a, q), NEW working \in BOOLEAN,
         adapter \in Adapters, working => ~a.busy
  PROVE  Holds(Rooted(a, working), q) /\ Rooted(a, working).busy
         /\ (~working => Rooted(a, working).mass)
  <1>1. CASE Done(a)
    BY <1>1 DEF Holds, Rooted, Done, Actors, RequestsServed, QuestionsHeld, Places, InRound, Adapters
  <1>2. CASE ~Done(a)
    BY <1>2 DEF Holds, Rooted, Done, Actors, RequestsServed, QuestionsHeld, Places, InRound, Adapters
  <1> QED
    BY <1>1, <1>2

\* Retried: what failed before is asked again; a root must run for it.
LEMMA RetriedRooted ==
  ASSUME NEW a \in Actors, NEW q \in SUBSET Asked, Holds(a, q), adapter \in Adapters
  PROVE  Holds(Rooted(Retried(a), FALSE), q) /\ Rooted(Retried(a), FALSE).busy
  <1> DEFINE both == a.requests \o a.failed
             b == Retried(a)
             c == Rooted(b, FALSE)
  <1>1. a.requests \in Seq(Asked) /\ a.failed \in Seq(Asked)
    BY DEF Actors
  <1>2. /\ both \in Seq(Asked) /\ ToSet(both) = ToSet(a.requests) \union ToSet(a.failed)
        /\ a.pending => both = <<>>
    BY <1>1, ToSetConcat DEF Holds, RequestsServed
  <1>3. b = [a EXCEPT !.requests = both, !.failed = <<>>]
    BY DEF Retried
  <1> HIDE DEF both, b, c
  <1>4. b \in Actors /\ b.at = a.at /\ b.mass = a.mass /\ b.pending = a.pending
    BY <1>2, <1>3, ToSetEmpty DEF Actors
  <1>5. /\ c \in Actors /\ c.requests = both /\ c.failed = <<>> /\ c.busy /\ c.mass
        /\ c.pending = a.pending /\ c.failure = a.failure /\ c.waiting = a.waiting
        /\ c.active = a.active /\ c.at \notin {"none", "cancelled"}
        /\ c.at = "recovery" => a.at = "recovery"
        /\ c.at \in {"report", "called"} => c.at = a.at /\ c.canceling = a.canceling
    <2>1. CASE Done(b)
      <3>1. c = [b EXCEPT !.busy = TRUE, !.mass = TRUE, !.at = "created",
                          !.attempt = 1, !.canceling = FALSE, !.observed = adapter.required]
        BY <2>1 DEF Rooted, c
      <3> QED
        <4>1. b.requests = both /\ b.failed = <<>> /\ b.failure = a.failure
              /\ b.waiting = a.waiting /\ b.active = a.active /\ b.pending = a.pending
          BY <1>3, <1>4 DEF Actors
        <4>2. adapter.required \in {x.required : x \in Adapters}
          OBVIOUS
        <4>3. c \in Actors
          BY <1>4, <3>1, <4>2 DEF Actors, Adapters, Places
        <4>4. /\ c.requests = b.requests /\ c.failed = b.failed /\ c.busy /\ c.mass
              /\ c.pending = b.pending /\ c.failure = b.failure /\ c.waiting = b.waiting
              /\ c.active = b.active /\ c.at = "created"
          BY <1>4, <3>1 DEF Actors
        <4> QED
          BY <4>1, <4>3, <4>4
    <2>2. CASE ~Done(b)
      <3>1. c = [b EXCEPT !.mass = TRUE]
        BY <2>2 DEF Rooted, c
      <3> QED
        BY <1>2, <1>3, <1>4, <2>2, <3>1 DEF Done, Actors, Adapters, Places, Holds, RequestsServed
    <2> QED
      BY <2>1, <2>2
  <1>6. RequestsServed(c)
    <2>1. a.requests # <<>> => both # <<>>
      BY <1>1 DEF both
    <2> QED
      BY <1>2, <1>5, <2>1, ToSetEmpty DEF Holds, RequestsServed
  <1>7. QuestionsHeld(c, q)
    BY <1>2, <1>5, ToSetEmpty DEF Holds, QuestionsHeld
  <1> QED
    BY <1>5, <1>6, <1>7 DEF Holds, b, c

\* _retain_pending: a failure keeps the requests it interrupts.
LEMMA FailedHolds ==
  ASSUME NEW a \in Actors, NEW q \in SUBSET Asked, Holds(a, q), adapter \in Adapters
  PROVE  Holds(Failed(a), q)
  <1> DEFINE kept == IF a.active THEN a.failed \o a.requests ELSE a.failed
             seen == IF a.active THEN adapter.required ELSE a.observed
             c == Failed(a)
  <1>1. a.requests \in Seq(Asked) /\ a.failed \in Seq(Asked)
    BY DEF Actors
  <1>2. /\ kept \in Seq(Asked) /\ seen \in BOOLEAN
        /\ a.active => ToSet(kept) = ToSet(a.failed) \union ToSet(a.requests)
        /\ a.pending => kept = <<>>
    BY <1>1, ToSetConcat DEF Actors, Adapters, Holds, RequestsServed
  <1>3. c = [a EXCEPT !.failure = TRUE, !.requests = <<>>, !.observed = seen,
                      !.failed = kept, !.busy = FALSE, !.at = "none"]
    BY DEF Failed, Ended, Retained, Actors
  <1> HIDE DEF kept, seen, c
  <1>4. /\ c \in Actors /\ c.requests = <<>> /\ c.failed = kept /\ ~c.busy /\ c.failure
        /\ c.at = "none" /\ c.pending = a.pending /\ c.active = a.active /\ c.waiting = a.waiting
    BY <1>2, <1>3, ToSetEmpty DEF Actors, Places
  <1>5. RequestsServed(c)
    BY <1>2, <1>4, ToSetEmpty DEF Holds, RequestsServed
  <1>6. QuestionsHeld(c, q)
    BY <1>2, <1>4, ToSetEmpty DEF Holds, QuestionsHeld
  <1> QED
    BY <1>4, <1>5, <1>6 DEF Holds, c

\* A cancellation fails the round too.
LEMMA CanceledFails ==
  ASSUME NEW a \in Actors, NEW q \in SUBSET Asked, Holds(a, q), adapter \in Adapters
  PROVE  Holds(Failed([a EXCEPT !.canceling = FALSE]), q)
  <1> DEFINE b == [a EXCEPT !.canceling = FALSE]
             c == [a EXCEPT !.canceling = FALSE, !.at = "backoff", !.busy = TRUE]
  <1>1. c \in Actors /\ Holds(c, q)
    <2>1. /\ c \in Actors /\ c.busy /\ c.at = "backoff" /\ c.requests = a.requests
          /\ c.failed = a.failed /\ c.failure = a.failure /\ c.mass = a.mass
          /\ c.pending = a.pending /\ c.waiting = a.waiting /\ c.active = a.active
      BY DEF Actors, Places
    <2>2. RequestsServed(c) /\ QuestionsHeld(c, q)
      BY <2>1 DEF Holds, RequestsServed, QuestionsHeld
    <2> QED
      BY <2>1, <2>2 DEF Holds
  <1>2. Failed(c) = Failed(b)
    BY DEF Failed, Ended, Retained, Actors
  <1> HIDE DEF b, c
  <1> QED
    BY <1>1, <1>2, FailedHolds DEF b

\* An attempt that fails ends the round, or is tried again by the same root.
LEMMA AttemptFailsHolds ==
  ASSUME NEW a \in Actors, NEW q \in SUBSET Asked, Holds(a, q), adapter \in Adapters, a.busy
  PROVE  Holds(AttemptFails(a), q)
  <1> DEFINE c == [a EXCEPT !.failure = TRUE, !.at = "backoff"]
  <1>1. /\ c \in Actors /\ c.busy = a.busy /\ c.at = "backoff" /\ c.requests = a.requests
        /\ c.failed = a.failed /\ c.failure /\ c.mass = a.mass
        /\ c.pending = a.pending /\ c.waiting = a.waiting /\ c.active = a.active
    BY DEF Actors, Places
  <1>2. Holds(c, q)
    <2> HIDE DEF c
    <2>1. RequestsServed(c) /\ QuestionsHeld(c, q)
      BY <1>1 DEF Holds, RequestsServed, QuestionsHeld
    <2> QED
      BY <1>1, <2>1 DEF Holds
  <1> QED
    BY <1>2, FailedHolds DEF AttemptFails

\* A round succeeds only when no request is left.
LEMMA AttemptSucceedsHolds ==
  ASSUME NEW a \in Actors, NEW q \in SUBSET Asked, Holds(a, q), a.requests = <<>>
  PROVE  Holds(AttemptSucceeds(a), q)
  <1>1. CASE a.failed # <<>>
    BY <1>1 DEF AttemptSucceeds, Ended, Holds, Actors, RequestsServed, QuestionsHeld, Places
  <1>2. CASE a.failed = <<>>
    BY <1>2 DEF AttemptSucceeds, Ended, Holds, Actors, RequestsServed, QuestionsHeld, Places
  <1> QED
    BY <1>1, <1>2

LEMMA NextRequestHolds ==
  ASSUME NEW a \in Actors, NEW q \in SUBSET Asked, Holds(a, q), adapter \in Adapters, a.busy,
         NEW required \in BOOLEAN
  PROVE  Holds(NextRequest(a, required), q)
  <1>1. CASE a.requests # <<>>
    BY <1>1 DEF NextRequest, Holds, Actors, RequestsServed, QuestionsHeld, Places, InRound
  <1>2. CASE a.requests = <<>>
    <2>1. NextRequest(a, required) = RoundDrained(a, required)
      BY <1>2 DEF NextRequest
    <2>2. CASE required
      BY <2>1, <2>2, AttemptFailsHolds DEF RoundDrained
    <2>3. CASE ~required /\ ~a.pending
      BY <1>2, <2>1, <2>3, AttemptSucceedsHolds DEF RoundDrained
    <2>4. CASE ~required /\ a.pending
      <3>1. Holds([a EXCEPT !.at = "recovery"], q)
        BY <1>2, <2>4 DEF Holds, Actors, RequestsServed, QuestionsHeld, Places, InRound
      <3>2. RoundDrained(a, required) = [a EXCEPT !.at = "recovery"]
        BY <2>4 DEF RoundDrained, Holds, RequestsServed
      <3> QED
        BY <2>1, <3>1, <3>2
    <2> QED
      BY <2>2, <2>3, <2>4 DEF Actors
  <1> QED
    BY <1>1, <1>2

-----------------------------------------------------------------------------
(* The actions                                                             *)

LEMMA InvHolds == ReconcilerInv <=> /\ adapter \in Adapters /\ inflight \in SUBSET Asked
                                    /\ actor \in Actors /\ Holds(actor, inflight)
  BY DEF ReconcilerInv, Holds

\* A turn that changes only the actor.
LEMMA BecomesHolds ==
  ASSUME ReconcilerInv, NEW a, Holds(a, inflight), Becomes(a)
  PROVE  ReconcilerInv'
  BY DEF Becomes, ReconcilerInv, Holds

\* An actor that only moves from one await to another keeps what it holds.
LEMMA MovesHolds ==
  ASSUME NEW a \in Actors, NEW q \in SUBSET Asked, Holds(a, q), a.busy,
         NEW at \in {"working", "engine", "popped"}, NEW attempt \in Nat
  PROVE  Holds([a EXCEPT !.attempt = attempt, !.at = at], q)
  BY DEF Holds, Actors, RequestsServed, QuestionsHeld, Places, InRound

LEMMA RoundSteps ==
  ASSUME ReconcilerInv, BeginAttempt \/ RoundBreaks \/ \E b \in BOOLEAN : WorkingChecked(b)
  PROVE  ReconcilerInv'
  <1>1. /\ adapter \in Adapters /\ inflight \in SUBSET Asked
        /\ actor \in Actors /\ Holds(actor, inflight)
    BY InvHolds
  <1>2. CASE BeginAttempt
    <2>1. PICK at \in {"created", "backoff"} :
             /\ Running(at)
             /\ LET a == [actor EXCEPT !.attempt = IF at = "created" THEN 1 ELSE @ + 1] IN
                Becomes(IF ~adapter.connected THEN Failed(a)
                        ELSE [a EXCEPT !.at = IF a.mass THEN "engine" ELSE "working"])
      BY <1>2 DEF BeginAttempt
    <2> DEFINE n == IF at = "created" THEN 1 ELSE actor.attempt + 1
               a == [actor EXCEPT !.attempt = n]
    <2>2. n \in Nat /\ actor.busy
      BY <1>1, <2>1 DEF Actors, Running, Holds, RequestsServed
    <2>3. CASE ~adapter.connected
      <3>1. a \in Actors /\ Holds(a, inflight)
        BY <1>1, <2>2 DEF Holds, Actors, RequestsServed, QuestionsHeld
      <3>2. Holds(Failed(a), inflight)
        BY <1>1, <3>1, FailedHolds
      <3> QED
        BY <2>1, <2>3, <3>2, BecomesHolds
    <2>4. CASE adapter.connected
      <3> DEFINE place == IF actor.mass THEN "engine" ELSE "working"
      <3>1. Becomes([actor EXCEPT !.attempt = n, !.at = place])
        BY <1>1, <2>1, <2>4 DEF Actors
      <3>2. Holds([actor EXCEPT !.attempt = n, !.at = place], inflight)
        BY <1>1, <2>2, MovesHolds
      <3> QED
        BY <3>1, <3>2, BecomesHolds
    <2> QED
      BY <2>3, <2>4
  <1>3. CASE RoundBreaks
    <2>1. actor.busy /\ Becomes(AttemptFails(actor))
      BY <1>1, <1>3 DEF RoundBreaks, InRound, Holds, RequestsServed
    <2> QED
      BY <1>1, <2>1, AttemptFailsHolds, BecomesHolds
  <1>4. ASSUME NEW changed \in BOOLEAN, WorkingChecked(changed) PROVE ReconcilerInv'
    <2> DEFINE mass == actor.mass \/ changed \/ adapter.required
    <2>1. actor.busy /\ actor.at = "working"
      BY <1>1, <1>4 DEF WorkingChecked, Running, Holds, RequestsServed
    <2>2. CASE ~adapter.connected
      <3>1. Becomes(AttemptFails(actor))
        BY <1>4, <2>2 DEF WorkingChecked
      <3> QED
        BY <1>1, <2>1, <3>1, AttemptFailsHolds, BecomesHolds
    <2>3. CASE adapter.connected /\ mass
      <3>1. Becomes([actor EXCEPT !.mass = TRUE, !.at = "engine"])
        BY <1>4, <2>3 DEF WorkingChecked
      <3>2. Holds([actor EXCEPT !.mass = TRUE, !.at = "engine"], inflight)
        BY <1>1, <2>1 DEF Holds, Actors, RequestsServed, QuestionsHeld, Places, InRound
      <3> QED
        BY <3>1, <3>2, BecomesHolds
    <2>4. CASE adapter.connected /\ ~mass
      <3>1. Becomes(AttemptSucceeds(actor)) /\ actor.requests = <<>>
        BY <1>1, <1>4, <2>4 DEF WorkingChecked, Holds, RequestsServed
      <3> QED
        BY <1>1, <3>1, AttemptSucceedsHolds, BecomesHolds
    <2> QED
      BY <1>1, <2>2, <2>3, <2>4 DEF Adapters
  <1> QED
    BY <1>2, <1>3, <1>4

\* The adapter that confirms only withdraws its own demand.
LEMMA EngineStep ==
  ASSUME ReconcilerInv, EngineReconciled
  PROVE  ReconcilerInv'
  <1>1. /\ adapter \in Adapters /\ inflight \in SUBSET Asked
        /\ actor \in Actors /\ Holds(actor, inflight)
    BY InvHolds
  <1>2. PICK required \in BOOLEAN :
          /\ adapter' = [adapter EXCEPT !.required = required]
          /\ actor' = IF required THEN AttemptFails(actor) ELSE NextRequest(actor, required)
    BY DEF EngineReconciled
  <1>3. actor.busy /\ inflight' = inflight
    BY <1>1 DEF EngineReconciled, Running, Holds, RequestsServed
  <1>4. Holds(actor', inflight)
    BY <1>1, <1>2, <1>3, AttemptFailsHolds, NextRequestHolds
  <1>5. adapter' \in Adapters
    BY <1>1, <1>2 DEF Adapters
  <1> QED
    BY <1>1, <1>3, <1>4, <1>5 DEF ReconcilerInv, Holds

\* Only the question that was answered leaves; the others stay where they were.
LEMMA AnswerStep ==
  ASSUME ReconcilerInv, Answer
  PROVE  ReconcilerInv'
  <1> DEFINE o == Head(actor.requests)
             rest == Tail(actor.requests)
  <1>1. /\ adapter \in Adapters /\ inflight \in SUBSET Asked
        /\ actor \in Actors /\ Holds(actor, inflight)
    BY InvHolds
  <1>2. actor.busy /\ actor.requests # <<>> /\ actor.at \in {"report", "called"} /\ ~actor.canceling
    BY <1>1 DEF Answer, Running, Holds, RequestsServed
  <1>3. /\ o \in Asked /\ rest \in Seq(Asked) /\ actor.requests \in Seq(Asked)
        /\ ToSet(actor.requests) = {o} \union ToSet(rest)
    BY <1>1, <1>2, ToSetTail DEF Actors
  <1> HIDE DEF o, rest
  <1>4. CASE actor.waiting[o] /\ Becomes(AttemptFails(actor))
    BY <1>1, <1>2, <1>4, AttemptFailsHolds, BecomesHolds
  <1>5. CASE /\ actor' = [actor EXCEPT !.waiting[o] = FALSE, !.at = "called"]
             /\ inflight' = inflight \ {o} /\ UNCHANGED <<adapter, outages>>
    <2>1. /\ actor' \in Actors /\ actor'.at = "called" /\ actor'.busy /\ actor'.mass = actor.mass
          /\ actor'.requests = actor.requests /\ actor'.failed = actor.failed
          /\ actor'.failure = actor.failure /\ actor'.pending = actor.pending
          /\ actor'.active = actor.active /\ actor'.canceling = actor.canceling
          /\ \A p \in Asked \ {o} : actor'.waiting[p] = actor.waiting[p]
      BY <1>1, <1>2, <1>3, <1>5 DEF Actors, Places, InRound
    <2>2. RequestsServed(actor')
      BY <1>1, <1>2, <2>1 DEF Holds, RequestsServed
    <2>3. QuestionsHeld(actor', inflight')
      BY <1>1, <1>5, <2>1 DEF Holds, QuestionsHeld
    <2> QED
      BY <1>1, <1>5, <2>1, <2>2, <2>3 DEF ReconcilerInv
  <1>6. CASE ~actor.waiting[o] /\ Becomes([actor EXCEPT !.requests = rest, !.at = "popped"])
    <2> DEFINE a == [actor EXCEPT !.requests = rest, !.at = "popped"]
    <2>1. /\ a \in Actors /\ a.at = "popped" /\ a.busy /\ a.mass = actor.mass /\ a.requests = rest
          /\ a.failed = actor.failed /\ a.failure = actor.failure /\ a.pending = actor.pending
          /\ a.active = actor.active /\ a.waiting = actor.waiting
      BY <1>1, <1>2, <1>3 DEF Actors, Places, InRound
    <2> HIDE DEF a
    <2>2. RequestsServed(a)
      BY <1>1, <1>2, <1>3, <2>1 DEF Holds, RequestsServed
    <2>3. QuestionsHeld(a, inflight)
      BY <1>1, <1>3, <1>6, <2>1 DEF Holds, QuestionsHeld
    <2> QED
      BY <1>6, <2>1, <2>2, <2>3, BecomesHolds DEF Holds, a
  <1> QED
    BY <1>4, <1>5, <1>6 DEF Answer, o, rest

LEMMA RestOfRound ==
  ASSUME ReconcilerInv, Popped \/ Recovered \/ RootCanceled \/ RootFinished
  PROVE  ReconcilerInv'
  <1>1. /\ adapter \in Adapters /\ inflight \in SUBSET Asked
        /\ actor \in Actors /\ Holds(actor, inflight)
    BY InvHolds
  <1>2. CASE Popped
    <2>1. actor.busy /\ adapter.required \in BOOLEAN /\ Becomes(NextRequest(actor, adapter.required))
      BY <1>1, <1>2 DEF Popped, Running, Holds, RequestsServed, Adapters
    <2> QED
      BY <1>1, <2>1, NextRequestHolds, BecomesHolds
  <1>3. CASE Recovered
    <2>1. actor.busy /\ actor.pending /\ actor.requests = <<>> /\ actor.failed = <<>>
      BY <1>1, <1>3 DEF Recovered, Running, Holds, RequestsServed
    <2>2. CASE ~adapter.connected \/ adapter.required
      <3>1. Becomes(AttemptFails(actor))
        BY <1>3, <2>2 DEF Recovered
      <3> QED
        BY <1>1, <2>1, <3>1, AttemptFailsHolds, BecomesHolds
    <2>3. CASE ~(~adapter.connected \/ adapter.required)
      <3> DEFINE a == [actor EXCEPT !.pending = FALSE]
      <3>1. a \in Actors /\ a.requests = <<>>
        BY <1>1, <2>1 DEF Actors
      <3>2. actor.at = "recovery"
        BY <1>3 DEF Recovered, Running
      <3>3. Holds(AttemptSucceeds(a), inflight)
        BY <1>1, <2>1, <3>2
        DEF AttemptSucceeds, Ended, Holds, Actors, RequestsServed, QuestionsHeld, Places
      <3>4. Becomes(AttemptSucceeds(a))
        BY <1>3, <2>3 DEF Recovered
      <3> QED
        BY <3>3, <3>4, BecomesHolds
    <2> QED
      BY <2>2, <2>3
  <1>4. ASSUME actor.canceling, ~Done(actor), RootCanceled PROVE ReconcilerInv'
    <2>1. CASE actor.at = "created"
      <3>1. Becomes([actor EXCEPT !.at = "cancelled"])
        BY <1>4, <2>1 DEF RootCanceled
      <3>2. Holds([actor EXCEPT !.at = "cancelled"], inflight)
        BY <1>1, <2>1 DEF Holds, Actors, RequestsServed, QuestionsHeld, Places
      <3> QED
        BY <3>1, <3>2, BecomesHolds
    <2>2. CASE actor.at # "created"
      <3> DEFINE a == [actor EXCEPT !.canceling = FALSE]
      <3>1. Becomes(Failed(a))
        BY <1>4, <2>2 DEF RootCanceled
      <3>2. Holds(Failed(a), inflight)
        BY <1>1, CanceledFails
      <3> QED
        BY <3>1, <3>2, BecomesHolds
    <2> QED
      BY <2>1, <2>2
  <1>5. CASE RootFinished
    <2>1. Becomes(Failed([actor EXCEPT !.canceling = FALSE]))
      BY <1>5 DEF RootFinished
    <2>2. Holds(Failed([actor EXCEPT !.canceling = FALSE]), inflight)
      BY <1>1, CanceledFails
    <2> QED
      BY <2>1, <2>2, BecomesHolds
  <1> QED
    BY <1>2, <1>3, <1>4, <1>5 DEF RootCanceled

\* A new question joins the requests, or waits behind the failure that has it already.
LEMMA AskStep ==
  ASSUME ReconcilerInv, NEW o \in Asked, Ask(o)
  PROVE  ReconcilerInv'
  <1> DEFINE q == inflight \union {o}
  <1>1. /\ adapter \in Adapters /\ inflight \in SUBSET Asked
        /\ actor \in Actors /\ Holds(actor, inflight)
    BY InvHolds
  <1>2. /\ ~actor.pending /\ inflight' = q /\ UNCHANGED adapter /\ q \in SUBSET Asked
    BY <1>1 DEF Ask
  <1> SUFFICES Holds(actor', q)
    BY <1>1, <1>2 DEF ReconcilerInv, Holds
  <1>3. CASE ~actor.active
    BY <1>1, <1>2, <1>3 DEF Ask, Holds, QuestionsHeld
  <1>4. CASE actor.active
    <2> DEFINE a == [actor EXCEPT !.waiting[o] = TRUE]
               asked == IF o \in ToSet(a.requests) THEN a.requests ELSE Append(a.requests, o)
               b == [a EXCEPT !.requests = asked]
    <2>1. /\ a \in Actors /\ a.requests = actor.requests /\ a.failed = actor.failed
          /\ a.busy = actor.busy /\ a.mass = actor.mass /\ a.pending = actor.pending
          /\ a.failure = actor.failure /\ a.active = actor.active /\ a.at = actor.at
          /\ a.canceling = actor.canceling /\ a.waiting[o]
          /\ \A p \in Asked : actor.waiting[p] => a.waiting[p]
      BY <1>1 DEF Actors
    <2>2. /\ asked \in Seq(Asked) /\ ToSet(asked) = ToSet(a.requests) \union {o} /\ asked # <<>>
      <3>1. a.requests \in Seq(Asked)
        BY <2>1 DEF Actors
      <3> QED
        BY <3>1, ToSetAppend, ToSetOf
    <2>3. actor' = IF o \in ToSet(a.failed) THEN a ELSE Rooted(b, FALSE)
      BY <1>4 DEF Ask
    <2> HIDE DEF a, asked
    <2>4. CASE o \in ToSet(a.failed)
      BY <1>1, <1>2, <2>1, <2>3, <2>4 DEF Holds, RequestsServed, QuestionsHeld
    <2>5. CASE o \notin ToSet(a.failed)
      <3> DEFINE c == Rooted(b, FALSE)
      <3>1. b \in Actors /\ b.at = a.at /\ b.mass = a.mass /\ b.pending = a.pending
        BY <2>1, <2>2 DEF Actors
      <3>2. /\ c \in Actors /\ c.requests = asked /\ c.failed = a.failed /\ c.busy /\ c.mass
            /\ ~c.pending /\ c.failure = a.failure /\ c.waiting = a.waiting /\ c.at # "recovery"
            /\ c.active = a.active /\ c.at # "none"
        <4>1. CASE Done(b)
          <5>1. c = [b EXCEPT !.busy = TRUE, !.mass = TRUE, !.at = "created",
                              !.attempt = 1, !.canceling = FALSE, !.observed = adapter.required]
            BY <4>1 DEF Rooted
          <5> HIDE DEF c
          <5> QED
            BY <1>1, <1>2, <2>1, <2>2, <3>1, <5>1 DEF Actors, Adapters, Places
        <4>2. CASE ~Done(b)
          <5>1. c = [b EXCEPT !.mass = TRUE]
            BY <4>2 DEF Rooted
          <5> HIDE DEF c
          <5> QED
            BY <1>1, <1>2, <2>1, <2>2, <3>1, <4>2, <5>1 DEF Done, Actors, Holds, RequestsServed
        <4> QED
          BY <4>1, <4>2
      <3> HIDE DEF c
      <3>3. RequestsServed(c)
        BY <1>1, <2>1, <2>2, <2>5, <3>2 DEF Holds, RequestsServed
      <3>4. QuestionsHeld(c, q)
        BY <1>1, <1>4, <2>1, <2>2, <3>2 DEF Holds, QuestionsHeld
      <3> QED
        BY <2>3, <2>5, <3>2, <3>3, <3>4 DEF Holds, c
    <2> QED
      BY <2>4, <2>5
  <1> QED
    BY <1>3, <1>4

LEMMA ObserveStep ==
  ASSUME ReconcilerInv, NEW due \in BOOLEAN, Observe(due)
  PROVE  ReconcilerInv'
  <1> DEFINE episode == adapter.required /\ ~actor.observed
             noted == [actor EXCEPT !.observed = TRUE]
             seen == IF episode THEN Rooted(Retried(noted), FALSE)
                     ELSE [actor EXCEPT !.observed = @ /\ adapter.required]
  <1>1. /\ adapter \in Adapters /\ inflight \in SUBSET Asked
        /\ actor \in Actors /\ Holds(actor, inflight)
    BY InvHolds
  <1>2. Holds(seen, inflight) /\ seen \in Actors
    <2>1. CASE episode
      <3>1. noted \in Actors /\ Holds(noted, inflight)
        BY <1>1 DEF Holds, Actors, RequestsServed, QuestionsHeld
      <3>2. Holds(Rooted(Retried(noted), FALSE), inflight)
        BY <1>1, <3>1, RetriedRooted
      <3> QED
        BY <2>1, <3>2 DEF Holds
    <2>2. CASE ~episode
      <3> DEFINE o == actor.observed /\ adapter.required
      <3>1. o \in BOOLEAN
        BY <1>1 DEF Actors, Adapters
      <3>2. seen = [actor EXCEPT !.observed = o]
        BY <2>2
      <3> HIDE DEF o, seen
      <3> QED
        BY <1>1, <3>1, <3>2 DEF Holds, Actors, RequestsServed, QuestionsHeld
    <2> QED
      BY <2>1, <2>2
  <1>3. Becomes(IF due /\ ~seen.busy /\ ~seen.failure THEN Rooted(seen, TRUE) ELSE seen)
    BY DEF Observe
  <1> HIDE DEF seen
  <1>4. CASE due /\ ~seen.busy /\ ~seen.failure
    BY <1>1, <1>2, <1>3, <1>4, RootedHolds, BecomesHolds
  <1>5. CASE ~(due /\ ~seen.busy /\ ~seen.failure)
    BY <1>2, <1>3, <1>5, BecomesHolds
  <1> QED
    BY <1>4, <1>5

LEMMA CallerSteps ==
  ASSUME ReconcilerInv, RequestReconciliation \/ \E retry \in BOOLEAN : Reconcile(retry)
  PROVE  ReconcilerInv'
  <1>1. /\ adapter \in Adapters /\ inflight \in SUBSET Asked
        /\ actor \in Actors /\ Holds(actor, inflight)
    BY InvHolds
  <1>2. Holds(Rooted(actor, FALSE), inflight) /\ Holds(Rooted(Retried(actor), FALSE), inflight)
    BY <1>1, RootedHolds, RetriedRooted
  <1> QED
    BY <1>2, BecomesHolds DEF RequestReconciliation, Reconcile

\* An actor that stops promises nothing any more.
LEMMA StopStep ==
  ASSUME ReconcilerInv, Stop
  PROVE  ReconcilerInv'
  <1> DEFINE cancel == actor.canceling \/ ~Done(actor)
             a == [actor EXCEPT !.active = FALSE, !.requests = <<>>, !.failed = <<>>,
                                !.canceling = cancel]
  <1>1. /\ actor \in Actors /\ Holds(actor, inflight)
    BY InvHolds
  <1>2. cancel \in BOOLEAN /\ Becomes(a) /\ (actor.at \in {"report", "called"} => cancel)
    BY <1>1 DEF Stop, Actors, Done
  <1> HIDE DEF cancel
  <1>3. /\ a \in Actors /\ ~a.active /\ a.requests = <<>> /\ a.failed = <<>> /\ a.at = actor.at
        /\ a.pending = actor.pending /\ a.busy = actor.busy /\ a.canceling = cancel
    BY <1>1, <1>2, ToSetEmpty DEF Actors
  <1> HIDE DEF a
  <1>4. RequestsServed(a) /\ QuestionsHeld(a, inflight)
    BY <1>1, <1>2, <1>3, ToSetEmpty DEF Holds, RequestsServed, QuestionsHeld
  <1> QED
    BY <1>2, <1>3, <1>4, BecomesHolds DEF Holds

LEMMA WorldSteps ==
  ASSUME ReconcilerInv, CancelRoot \/ Requires \/ Disconnect \/ Connect
  PROVE  ReconcilerInv'
  <1>1. CASE CancelRoot
    <2>1. /\ actor' = [actor EXCEPT !.canceling = TRUE] /\ UNCHANGED <<adapter, inflight>>
      BY <1>1 DEF CancelRoot
    <2> QED
      BY <2>1 DEF ReconcilerInv, Actors, RequestsServed, QuestionsHeld
  <1>2. CASE Requires \/ Disconnect \/ Connect
    <2>1. /\ adapter' \in Adapters /\ UNCHANGED <<actor, inflight>>
      BY <1>2 DEF ReconcilerInv, Requires, Disconnect, Connect, Adapters
    <2> QED
      BY <2>1 DEF ReconcilerInv
  <1> QED
    BY <1>1, <1>2

-----------------------------------------------------------------------------

LEMMA ReconcilerStarts == TerminalInit => ReconcilerInv
  <1> SUFFICES ASSUME TerminalInit PROVE ReconcilerInv
    OBVIOUS
  <1>1. PICK history \in BOOLEAN :
          LET a == [active |-> TRUE, busy |-> FALSE, observed |-> FALSE, mass |-> FALSE,
                    pending |-> history, failure |-> FALSE, requests |-> <<>>, failed |-> <<>>,
                    waiting |-> [o \in Asked |-> FALSE],
                    at |-> "none", attempt |-> 1, canceling |-> FALSE]
          IN  actor = IF history THEN Rooted(a, FALSE) ELSE a
    BY DEF TerminalInit
  <1> DEFINE a == [active |-> TRUE, busy |-> FALSE, observed |-> FALSE, mass |-> FALSE,
                   pending |-> history, failure |-> FALSE, requests |-> <<>>, failed |-> <<>>,
                   waiting |-> [o \in Asked |-> FALSE],
                   at |-> "none", attempt |-> 1, canceling |-> FALSE]
  <1>2. adapter \in Adapters /\ inflight = {} /\ inflight \in SUBSET Asked
    BY DEF TerminalInit, Adapters
  <1>3. a \in Actors /\ Holds(a, inflight)
    BY <1>2, ToSetEmpty DEF Holds, Actors, Places, RequestsServed, QuestionsHeld
  <1>4. Holds(actor, inflight)
    BY <1>1, <1>2, <1>3, RootedHolds
  <1> QED
    BY <1>2, <1>4 DEF ReconcilerInv, Holds

LEMMA ReconcilerSteps == ReconcilerInv /\ [TerminalNext]_terminalVars => ReconcilerInv'
  <1> SUFFICES ASSUME ReconcilerInv, [TerminalNext]_terminalVars PROVE ReconcilerInv'
    OBVIOUS
  <1>1. CASE UNCHANGED terminalVars
    BY <1>1 DEF terminalVars, ReconcilerInv
  <1> QED
    BY <1>1, RoundSteps, EngineStep, AnswerStep, RestOfRound, AskStep, ObserveStep, CallerSteps,
       StopStep, WorldSteps DEF TerminalNext

\* Who holds which question, in every reachable state (SourceTerminalReconciler): requests
\* only in a root that will run a whole round, what failed only behind the failure flag,
\* nothing in both, nothing at all while the restart gate is closed.
THEOREM QuestionsKept == TerminalSpec => []ReconcilerInv
  BY ReconcilerStarts, ReconcilerSteps, PTL DEF TerminalSpec

\* No question of a strategy is dropped or left where no root comes, for any set of orders
\* and any number of outages, cancellations, retries and refusals (query_source_terminal,
\* _retain_pending, _drain_requests).
THEOREM NoneLost == TerminalSpec => []NoQuestionLost
  <1>1. ReconcilerInv => NoQuestionLost
    <2> SUFFICES ASSUME ReconcilerInv, actor.active, NEW o \in inflight
                 PROVE  /\ actor.waiting[o]
                        /\ \/ o \in ToSet(actor.requests) /\ actor.busy /\ o \notin ToSet(actor.failed)
                           \/ o \in ToSet(actor.failed) /\ actor.failure
      BY DEF NoQuestionLost
    <2> QED
      BY ToSetEmpty DEF ReconcilerInv, RequestsServed, QuestionsHeld
  <1> QED
    BY <1>1, QuestionsKept, PTL

-----------------------------------------------------------------------------
(* HedgeLane: an obligation that is worked off leg by leg.                 *)

\* What the first n legs come to.
WorkDone(legs, n) == SumFunction([k \in 1 .. n |-> legs[k].quantity])

\* Each of the first n legs was executed, and nothing else happened.
Touched(legs, n, side, before, after) ==
    /\ \A k \in 1 .. n : after[legs[k].ticket] = before[legs[k].ticket] + side * legs[k].quantity
    /\ \A t \in Tickets : (\A k \in 1 .. n : legs[k].ticket # t) => after[t] = before[t]

\* Where nobody else trades, the account moves by the legs that were executed,
\* each of its own ticket, and is otherwise what it was.
WorkedOff(legs, n, side, before, after, working) ==
    /\ Net(after) = Net(before) + side * WorkDone(legs, n)
    /\ working => Touched(legs, n, side, before, after)

LaneInv ==
    /\ owed \in Int /\ RoundHedgeOunces(owed) # 0 /\ drifts \in Nat /\ index \in Nat
    /\ opening \in [Tickets -> Int] /\ positions \in [Tickets -> Int]
    /\ plan = <<>> => index = 0 /\ status = "PENDING"
    /\ plan # <<>> => plan = PlanHedgeDelta(opening, Side, Size(Delta)) /\ index <= Len(plan)
    /\ status = "PENDING" /\ plan # <<>> => index < Len(plan)
    /\ status = "COMPLETED" => index = Len(plan)
    /\ drifts = 0 /\ plan # <<>> =>
          /\ status # "BLOCKED"
          /\ WorkedOff(plan, index, Side, opening, positions, status = "PENDING")

\* What is to be hedged, and on which side.
LEMMA ToHedge ==
  ASSUME owed \in Int, RoundHedgeOunces(owed) # 0
  PROVE  /\ Delta \in Int /\ Side \in Sides /\ Size(Delta) \in Nat /\ Size(Delta) # 0
         /\ Delta = Side * Size(Delta)
  <1>1. RoundHedgeOunces(owed) \in Int
    BY RoundLeavesHalf
  <1>2. Delta \in Int /\ Delta # 0
    BY <1>1 DEF Delta
  <1> QED
    BY <1>2 DEF Side, Sides, Size

\* The positions add up.
LEMMA PositionsAdd ==
  ASSUME NEW p \in [Tickets -> Int]
  PROVE  /\ IsSummed(p) /\ Net(p) \in Int
         /\ IsFiniteSet(DOMAIN p) /\ DOMAIN p \subseteq Nat \ {NoTicket} /\ DOMAIN p \subseteq Nat
         /\ \A t \in DOMAIN p : p[t] \in Int
  <1>1. DOMAIN p = Tickets /\ \A t \in Tickets : p[t] \in Int
    OBVIOUS
  <1>2. IsFiniteSet(Tickets) /\ Tickets \subseteq Nat \ {NoTicket}
    BY LaneAssumption
  <1>3. IsSummed(p)
    BY <1>1, <1>2 DEF IsSummed
  <1> QED
    BY <1>1, <1>2, <1>3, SumIsInt DEF Net

\* The plan is for all of it, and works.
LEMMA LanePlan ==
  ASSUME owed \in Int, RoundHedgeOunces(owed) # 0, NEW p \in [Tickets -> Int],
         NEW legs, legs = PlanHedgeDelta(p, Side, Size(Delta))
  PROVE  /\ FitsSide(legs, Side) /\ Amount(legs) = Size(Delta) /\ PlanWorks(legs, p, Side)
         /\ legs # <<>> /\ Len(legs) \in Nat /\ Len(legs) > 0 /\ DOMAIN legs = 1 .. Len(legs)
         /\ IsSeq(legs)
  <1>1. PICK side, quantity : side = Side /\ quantity = Size(Delta)
    OBVIOUS
  <1>2. side \in Sides /\ quantity \in Nat /\ quantity # 0
    BY <1>1, ToHedge
  <1>3. /\ IsFiniteSet(DOMAIN p) /\ DOMAIN p \subseteq Nat \ {NoTicket} /\ DOMAIN p \subseteq Nat
        /\ \A t \in DOMAIN p : p[t] \in Int
    BY PositionsAdd
  <1>4. legs = PlanHedgeDelta(p, side, quantity)
    BY <1>1
  <1>5. FitsSide(legs, side) /\ Amount(legs) = quantity
    BY <1>2, <1>3, <1>4, PlanCovers
  <1>6. PlanWorks(legs, p, side)
    BY <1>2, <1>3, <1>4, PlanIsGood
  <1>7. legs # <<>>
    BY <1>2, <1>5, NoLegs
  <1>8. IsSeq(legs) /\ Len(legs) \in Nat /\ DOMAIN legs = 1 .. Len(legs)
    BY <1>5, SeqFacts DEF FitsSide
  <1>9. Len(legs) # 0
    <2>1. CASE Len(legs) = 0
      <3>1. legs = [k \in 1 .. 0 |-> legs[k]]
        BY <1>8, <2>1, SeqFacts
      <3> QED
        BY <1>7, <3>1
    <2> QED
      BY <2>1
  <1> QED
    BY <1>1, <1>5, <1>6, <1>7, <1>8, <1>9

\* One leg more is done.
LEMMA DoneGrows ==
  ASSUME NEW legs, NEW side, FitsSide(legs, side), NEW n \in Nat, n + 1 \in DOMAIN legs
  PROVE  /\ WorkDone(legs, n) \in Int /\ WorkDone(legs, n + 1) = WorkDone(legs, n) + legs[n + 1].quantity
         /\ legs[n + 1].quantity \in Nat /\ legs[n + 1].side = side
  <1>1. PICK v : v = [k \in 1 .. n |-> legs[k].quantity]
    OBVIOUS
  <1>2. PICK u : u = [k \in 1 .. n + 1 |-> legs[k].quantity]
    OBVIOUS
  <1>3. PICK x : x = n + 1
    OBVIOUS
  <1>4. DOMAIN legs = 1 .. Len(legs) /\ Len(legs) \in Nat
    BY SeqFacts DEF FitsSide
  <1>5. \A k \in 1 .. n + 1 : legs[k].quantity \in Nat
    BY <1>4 DEF FitsSide
  <1>6. IsFiniteSet(DOMAIN v)
    BY <1>1, FS_Interval
  <1>7. /\ x \notin DOMAIN v /\ DOMAIN u = DOMAIN v \union {x}
        /\ \A y \in DOMAIN v : u[y] = v[y]
        /\ u[x] = legs[x].quantity
    BY <1>1, <1>2, <1>3
  <1>8. \A y \in DOMAIN u : u[y] \in Int
    BY <1>2, <1>5
  <1>9. SumFunction(v) \in Int /\ SumFunction(u) = SumFunction(v) + u[x]
    BY <1>6, <1>7, <1>8, SumAdds
  <1>10. legs[x].side = side /\ legs[x].quantity \in Nat
    BY <1>3 DEF FitsSide
  <1> QED
    BY <1>1, <1>2, <1>3, <1>7, <1>9, <1>10 DEF WorkDone

\* A leg behind which others wait closes a ticket of its own.
LEMMA EarlierCloses ==
  ASSUME NEW legs, NEW p, NEW side, PlanWorks(legs, p, side), DOMAIN legs = 1 .. Len(legs),
         Len(legs) \in Nat, NEW m \in DOMAIN legs, m < Len(legs)
  PROVE  /\ IsClose(legs[m]) /\ legs[m].ticket \in Opposing(p, side)
         /\ \A n \in DOMAIN legs : n # m => legs[n].ticket # legs[m].ticket
  <1>1. m # Len(legs)
    OBVIOUS
  <1> QED
    BY <1>1 DEF PlanWorks

\* The leg whose turn it is passes its last look.
LEMMA NextLegIsValid ==
  ASSUME NEW legs, NEW before \in [Tickets -> Int], NEW after \in [Tickets -> Int],
         NEW side \in Sides, PlanWorks(legs, before, side), FitsSide(legs, side),
         DOMAIN legs = 1 .. Len(legs), Len(legs) \in Nat,
         NEW n \in Nat, n < Len(legs), Touched(legs, n, side, before, after)
  PROVE  ValidateHedgeLeg(legs[n + 1], after)
  <1>1. PICK i : i = n + 1
    OBVIOUS
  <1>2. i \in DOMAIN legs /\ (\A k \in 1 .. n : k \in DOMAIN legs /\ k # i /\ k < Len(legs))
    BY <1>1
  <1>3. PICK leg : leg = legs[i]
    OBVIOUS
  <1>4. leg.side = side
    BY <1>2, <1>3 DEF FitsSide
  <1>5. DOMAIN before = Tickets /\ DOMAIN after = Tickets
    OBVIOUS
  <1>6. CASE IsClose(leg)
    <2>1. PICK t : t = leg.ticket
      OBVIOUS
    <2>2. t \in Opposing(before, side) /\ leg.expected = Size(before[t])
      BY <1>2, <1>3, <1>6, <2>1 DEF PlanWorks
    <2>3. \A k \in 1 .. n : legs[k].ticket # t
      BY <1>2, <1>3, <1>6, <2>1 DEF PlanWorks
    <2>4. t \in Tickets /\ before[t] * side < 0
      BY <1>5, <2>2 DEF Opposing
    <2>5. after[t] = before[t]
      BY <2>3, <2>4 DEF Touched
    <2>6. ValidateHedgeLeg(leg, after)
      BY <1>4, <1>6, <2>1, <2>2, <2>4, <2>5 DEF ValidateHedgeLeg
    <2> QED
      BY <1>1, <1>3, <2>6
  <1>7. CASE ~IsClose(leg)
    <2>1. /\ i = Len(legs)
          /\ \A t \in Opposing(before, side) : \E m \in DOMAIN legs :
                m # i /\ legs[m].ticket = t /\ legs[m].quantity = Size(before[t])
      BY <1>2, <1>3, <1>7 DEF PlanWorks
    <2>2. ASSUME NEW t \in Tickets
          PROVE  ~(after[t] * side < 0)
      <3>1. CASE t \in Opposing(before, side)
        <4>1. PICK m \in DOMAIN legs :
                 m # i /\ legs[m].ticket = t /\ legs[m].quantity = Size(before[t])
          BY <2>1, <3>1
        <4>2. m \in 1 .. n
          BY <1>1, <2>1, <4>1
        <4>3. after[t] = before[t] + side * Size(before[t])
          BY <4>1, <4>2 DEF Touched
        <4>4. before[t] * side < 0 /\ before[t] \in Int
          BY <3>1 DEF Opposing
        <4>5. after[t] = 0
          BY <4>3, <4>4 DEF Sides, Size
        <4> QED
          BY <4>5 DEF Sides
      <3>2. CASE t \notin Opposing(before, side)
        <4>1. \A k \in 1 .. n : legs[k].ticket # t
          BY <1>2, <3>2, EarlierCloses
        <4>2. after[t] = before[t]
          BY <4>1 DEF Touched
        <4> QED
          BY <1>5, <3>2, <4>2 DEF Opposing
      <3> QED
        BY <3>1, <3>2
    <2>3. Opposing(after, side) = {}
      BY <1>5, <2>2 DEF Opposing
    <2>4. ValidateHedgeLeg(leg, after)
      BY <1>4, <1>7, <2>3 DEF ValidateHedgeLeg
    <2> QED
      BY <1>1, <1>3, <2>4
  <1> QED
    BY <1>6, <1>7

\* A side spreads over what it is the side of.
LEMMA SidesSpread ==
  ASSUME NEW side \in Sides, NEW y \in Int, NEW q \in Int
  PROVE  side * (y + q) = side * y + side * q /\ side * y \in Int
  BY DEF Sides

\* The account works a plan off up to its leg i, and leg i trades d on ticket t.
LegTrades(legs, len, side, before, after, n, i, next, t, d) ==
    /\ before \in [Tickets -> Int] /\ after \in [Tickets -> Int] /\ next \in [Tickets -> Int]
    /\ side \in Sides /\ PlanWorks(legs, before, side) /\ FitsSide(legs, side)
    /\ len \in Nat /\ len = Len(legs) /\ DOMAIN legs = 1 .. len
    /\ n \in Nat /\ i = n + 1 /\ i <= len
    /\ Net(after) = Net(before) + side * WorkDone(legs, n)
    /\ Touched(legs, n, side, before, after)
    /\ t \in Tickets
    /\ IsClose(legs[i]) => t = legs[i].ticket
    /\ d = side * legs[i].quantity
    /\ next[t] = after[t] + d
    /\ \A u \in Tickets : u # t => next[u] = after[u]

\* Then it works it off up to the leg behind.
LEMMA LegWorksOff ==
  ASSUME NEW legs, NEW len, NEW side, NEW before, NEW after, NEW n, NEW i,
         NEW next, NEW t, NEW d,
         LegTrades(legs, len, side, before, after, n, i, next, t, d)
  PROVE  /\ Net(next) = Net(before) + side * WorkDone(legs, i)
         /\ i < len => Touched(legs, i, side, before, next)
  <1> SUFFICES ASSUME
         before \in [Tickets -> Int], after \in [Tickets -> Int], next \in [Tickets -> Int],
         side \in Sides, PlanWorks(legs, before, side), FitsSide(legs, side),
         len \in Nat, len = Len(legs), DOMAIN legs = 1 .. len,
         n \in Nat, i = n + 1, i <= len, t \in Tickets,
         Net(after) = Net(before) + side * WorkDone(legs, n), Touched(legs, n, side, before, after),
         IsClose(legs[i]) => t = legs[i].ticket, d = side * legs[i].quantity,
         next[t] = after[t] + d, \A u \in Tickets : u # t => next[u] = after[u]
      PROVE  /\ Net(next) = Net(before) + side * WorkDone(legs, i)
             /\ i < len => Touched(legs, i, side, before, next)
    BY DEF LegTrades
  <1>1. PICK q : q = legs[i].quantity
    OBVIOUS
  <1>2. d = side * q
    BY <1>1
  <1>3. i \in DOMAIN legs /\ n + 1 \in DOMAIN legs
    BY <1>1
  <1>4. /\ q \in Nat /\ WorkDone(legs, n) \in Int
        /\ WorkDone(legs, i) = WorkDone(legs, n) + q
    BY <1>1, <1>3, DoneGrows
  <1>5. d \in Int
    BY <1>2, <1>4 DEF Sides
  <1>6. Net(next) = Net(after) + d /\ Net(after) \in Int
    <2>1. IsSummed(after) /\ DOMAIN after = Tickets /\ DOMAIN next = Tickets
      BY PositionsAdd
    <2>2. next[t] = after[t] + d
      BY <1>1, <1>2
    <2>3. SumFunction(after) \in Int /\ SumFunction(next) = SumFunction(after) + d
      BY <1>5, <2>1, <2>2, SumChanges
    <2> QED
      BY <2>3 DEF Net
  <1>7. Net(next) = Net(before) + side * WorkDone(legs, i)
    <2>1. PICK x, y, w, z : /\ x = Net(before) /\ y = WorkDone(legs, n)
                            /\ w = WorkDone(legs, i) /\ z = Net(next)
      OBVIOUS
    <2>2. x \in Int /\ y \in Int /\ q \in Int /\ w = y + q
      BY <1>4, <2>1, PositionsAdd
    <2>3. side * (y + q) = side * y + side * q /\ side * y \in Int
      BY <2>2, SidesSpread
    <2>4. z = x + side * y + d
      BY <1>6, <2>1
    <2>5. z = x + side * w
      BY <1>2, <1>5, <2>2, <2>3, <2>4
    <2> QED
      BY <2>1, <2>5
  <1>8. ASSUME i < len PROVE Touched(legs, i, side, before, next)
    <2>1. /\ IsClose(legs[i])
          /\ \A k \in DOMAIN legs : k # i => legs[k].ticket # legs[i].ticket
      BY <1>3, <1>8, EarlierCloses
    <2>2. t = legs[i].ticket
      BY <1>1, <2>1
    <2>3. \A k \in 1 .. n : k \in DOMAIN legs /\ k < Len(legs) /\ legs[k].ticket # t
      <3>1. \A k \in 1 .. n : k \in DOMAIN legs /\ k < Len(legs) /\ k # i
        BY <1>1
      <3> QED
        BY <2>1, <2>2, <3>1
    <2>4. after[t] = before[t]
      BY <2>3 DEF Touched
    <2>5. ASSUME NEW k \in 1 .. i
          PROVE  next[legs[k].ticket] = before[legs[k].ticket] + side * legs[k].quantity
      <3>1. CASE k = i
        BY <1>1, <2>2, <2>4, <3>1
      <3>2. CASE k \in 1 .. n
        <4>1. PICK u : u = legs[k].ticket
          OBVIOUS
        <4>2. k \in DOMAIN legs /\ k < Len(legs) /\ u # t
          BY <2>3, <3>2, <4>1
        <4>3. u \in Opposing(before, side)
          BY <4>1, <4>2, EarlierCloses
        <4>4. u \in Tickets
          BY <4>3 DEF Opposing
        <4>5. after[u] = before[u] + side * legs[k].quantity
          BY <3>2, <4>1 DEF Touched
        <4> QED
          BY <4>1, <4>2, <4>4, <4>5
      <3>3. k = i \/ k \in 1 .. n
        BY <1>1
      <3> QED
        BY <3>1, <3>2, <3>3
    <2>6. ASSUME NEW u \in Tickets, \A k \in 1 .. i : legs[k].ticket # u
          PROVE  next[u] = before[u]
      <3>1. i \in 1 .. i /\ \A k \in 1 .. n : k \in 1 .. i
        BY <1>1
      <3>2. u # t
        BY <2>2, <2>6, <3>1
      <3>3. after[u] = before[u]
        BY <2>6, <3>1 DEF Touched
      <3> QED
        BY <3>2, <3>3
    <2> QED
      BY <2>5, <2>6 DEF Touched
  <1> QED
    BY <1>1, <1>7, <1>8

\* At the start nothing is planned.
LEMMA LaneStarts == LaneInit => LaneInv
  <1> SUFFICES ASSUME LaneInit PROVE LaneInv
    OBVIOUS
  <1>1. Volumes \subseteq Int
    BY LaneAssumption DEF Volumes
  <1>2. owed \in Int
    <2>1. PICK low, high : low = -(MaxOunces * Unit) /\ high = MaxOunces * Unit
      OBVIOUS
    <2>2. low .. high \subseteq Int
      OBVIOUS
    <2> QED
      BY <2>1, <2>2 DEF LaneInit
  <1>3. opening \in [Tickets -> Int] /\ positions \in [Tickets -> Int]
    BY <1>1 DEF LaneInit
  <1> QED
    BY <1>2, <1>3 DEF LaneInit, LaneInv

\* The plan is made from the tickets as they are.
LEMMA MakePlanKeeps ==
  ASSUME LaneInv, MakePlan
  PROVE  LaneInv'
  <1>1. PICK legs : legs = PlanHedgeDelta(positions, Side, Size(Delta))
    OBVIOUS
  <1>2. /\ status = "PENDING" /\ plan = <<>> /\ index = 0
        /\ opening' = positions /\ plan' = legs
        /\ owed' = owed /\ positions' = positions /\ index' = index
        /\ status' = status /\ drifts' = drifts
    BY <1>1 DEF MakePlan, LaneInv
  <1>3. /\ owed \in Int /\ RoundHedgeOunces(owed) # 0 /\ drifts \in Nat
        /\ positions \in [Tickets -> Int]
    BY DEF LaneInv
  <1>4. legs # <<>> /\ Len(legs) \in Nat /\ Len(legs) > 0
    BY <1>1, <1>3, LanePlan
  <1>5. Delta' = Delta /\ Side' = Side
    BY <1>2 DEF Delta, Side
  <1>6. plan' = PlanHedgeDelta(opening', Side', Size(Delta'))
    BY <1>1, <1>2, <1>5
  <1>7. WorkedOff(legs, 0, Side, positions, positions, status = "PENDING")
    <2>1. WorkDone(legs, 0) = 0
      <3>1. PICK v : v = [k \in 1 .. 0 |-> legs[k].quantity]
        OBVIOUS
      <3>2. DOMAIN v = {}
        BY <3>1
      <3> QED
        BY <3>1, <3>2, SumOfNothing DEF WorkDone
    <2>2. Net(positions) \in Int /\ Side \in Sides
      BY <1>3, PositionsAdd, ToHedge
    <2>3. Net(positions) = Net(positions) + Side * 0
      BY <2>2 DEF Sides
    <2>4. Touched(legs, 0, Side, positions, positions)
      BY DEF Touched
    <2> QED
      BY <2>1, <2>3, <2>4 DEF WorkedOff
  <1>8. WorkedOff(plan', index', Side', opening', positions', (status = "PENDING")')
    BY <1>2, <1>5, <1>7
  <1> QED
    BY <1>2, <1>3, <1>4, <1>6, <1>8 DEF LaneInv

\* A leg is executed, or trips over somebody else's trade.
LEMMA ExecuteLegKeeps ==
  ASSUME LaneInv, ExecuteLeg
  PROVE  LaneInv'
  <1>1. /\ owed \in Int /\ RoundHedgeOunces(owed) # 0 /\ drifts \in Nat /\ index \in Nat
        /\ opening \in [Tickets -> Int] /\ positions \in [Tickets -> Int]
        /\ status = "PENDING" /\ plan # <<>> /\ index < Len(plan)
        /\ plan = PlanHedgeDelta(opening, Side, Size(Delta))
        /\ drifts = 0 => WorkedOff(plan, index, Side, opening, positions, status = "PENDING")
    BY DEF LaneInv, ExecuteLeg
  <1>2. /\ FitsSide(plan, Side) /\ PlanWorks(plan, opening, Side)
        /\ Len(plan) \in Nat /\ DOMAIN plan = 1 .. Len(plan)
    BY <1>1, LanePlan
  <1>3. Side \in Sides
    BY <1>1, ToHedge
  <1>4. owed' = owed /\ opening' = opening /\ plan' = plan /\ drifts' = drifts
    BY DEF ExecuteLeg
  <1>5. Delta' = Delta /\ Side' = Side
    BY <1>4 DEF Delta, Side
  <1>6. drifts = 0 => /\ Net(positions) = Net(opening) + Side * WorkDone(plan, index)
                      /\ Touched(plan, index, Side, opening, positions)
    BY <1>1 DEF WorkedOff
  <1>7. CASE ValidateHedgeLeg(plan[index + 1], positions)
    <2>1. PICK leg : leg = plan[index + 1]
      OBVIOUS
    <2>2. PICK fresh \in Tickets : positions' = Executed(positions, leg, fresh)
      BY <1>7, <2>1 DEF ExecuteLeg
    <2>3. /\ index' = index + 1
          /\ status' = IF index + 1 = Len(plan) THEN "COMPLETED" ELSE "PENDING"
      BY <1>7 DEF ExecuteLeg
    <2>4. index + 1 \in DOMAIN plan
      BY <1>1, <1>2
    <2>5. leg.side = Side /\ leg.quantity \in Nat
      BY <1>2, <2>1, <2>4 DEF FitsSide
    <2>6. PICK t : t = IF IsClose(leg) THEN leg.ticket ELSE fresh
      OBVIOUS
    <2>7. t \in Tickets
      BY <1>1, <1>2, <2>1, <2>2, <2>4, <2>6 DEF PlanWorks, Opposing
    <2>8. PICK d : d = leg.side * leg.quantity
      OBVIOUS
    <2>9. d \in Int /\ d = Side * plan[index + 1].quantity
      BY <1>3, <2>1, <2>5, <2>8 DEF Sides
    <2>10. positions' = [positions EXCEPT ![t] = @ + d]
      BY <2>2, <2>6, <2>8 DEF Executed
    <2>11. /\ positions' \in [Tickets -> Int] /\ positions'[t] = positions[t] + d
           /\ \A u \in Tickets : u # t => positions'[u] = positions[u]
      BY <1>1, <2>7, <2>9, <2>10
    <2>12. ASSUME drifts = 0
           PROVE  WorkedOff(plan, index + 1, Side, opening, positions', status' = "PENDING")
      <3>1. PICK legs, before, after, next, n, i, side, len :
               /\ legs = plan /\ before = opening /\ after = positions /\ next = positions'
               /\ n = index /\ i = index + 1 /\ side = Side /\ len = Len(plan)
        OBVIOUS
      <3>2. /\ n \in Nat /\ len \in Nat /\ n < len /\ i = n + 1 /\ i \in Nat /\ side \in Sides
            /\ before \in [Tickets -> Int] /\ after \in [Tickets -> Int]
            /\ next \in [Tickets -> Int] /\ t \in Tickets /\ d \in Int
        BY <1>1, <1>2, <1>3, <2>7, <2>9, <2>11, <3>1
      <3>3. /\ len = Len(legs) /\ DOMAIN legs = 1 .. len
            /\ PlanWorks(legs, before, side) /\ FitsSide(legs, side)
        BY <1>2, <3>1
      <3>4. /\ Net(after) = Net(before) + side * WorkDone(legs, n)
            /\ Touched(legs, n, side, before, after)
        BY <1>6, <2>12, <3>1
      <3>5. /\ IsClose(legs[i]) => t = legs[i].ticket
            /\ d = side * legs[i].quantity
        BY <2>1, <2>6, <2>9, <3>1
      <3>6. next[t] = after[t] + d /\ \A u \in Tickets : u # t => next[u] = after[u]
        BY <2>11, <3>1
      <3>7. i <= len
        BY <3>2
      <3>8. LegTrades(legs, len, side, before, after, n, i, next, t, d)
        BY <3>2, <3>3, <3>4, <3>5, <3>6, <3>7 DEF LegTrades
      <3>9. /\ Net(next) = Net(before) + side * WorkDone(legs, i)
            /\ i < len => Touched(legs, i, side, before, next)
        BY <3>8, LegWorksOff
      <3>10. status' = "PENDING" => i < len
        <4>1. status' = IF i = len THEN "COMPLETED" ELSE "PENDING"
          BY <2>3, <3>1
        <4> QED
          BY <3>2, <4>1
      <3> QED
        BY <3>1, <3>9, <3>10 DEF WorkedOff
    <2>13. drifts' = 0 /\ plan' # <<>> =>
              WorkedOff(plan', index', Side', opening', positions', (status = "PENDING")')
      BY <1>4, <1>5, <2>3, <2>12
    <2>14. plan' = PlanHedgeDelta(opening', Side', Size(Delta'))
      BY <1>1, <1>4, <1>5
    <2>15. /\ index' \in Nat /\ index' <= Len(plan') /\ plan' # <<>>
           /\ status' # "BLOCKED"
           /\ status' = "PENDING" => index' < Len(plan')
           /\ status' = "COMPLETED" => index' = Len(plan')
      <3>1. PICK len : len = Len(plan)
        OBVIOUS
      <3>2. len \in Nat /\ index \in Nat /\ index < len
        BY <1>1, <1>2, <3>1
      <3>3. Len(plan') = len
        BY <1>4, <3>1
      <3>4. index' \in Nat /\ index' <= len /\ (index + 1 # len => index' < len)
        BY <2>3, <3>2
      <3>5. status' = IF index + 1 = len THEN "COMPLETED" ELSE "PENDING"
        BY <2>3, <3>1
      <3> QED
        BY <1>1, <1>4, <2>3, <3>3, <3>4, <3>5
    <2> QED
      BY <1>1, <1>4, <2>11, <2>13, <2>14, <2>15 DEF LaneInv
  <1>8. CASE ~ValidateHedgeLeg(plan[index + 1], positions)
    <2>1. status' = "BLOCKED" /\ positions' = positions /\ index' = index
      BY <1>8 DEF ExecuteLeg
    <2>2. drifts # 0
      <3>1. ASSUME drifts = 0 PROVE FALSE
        <4>1. PICK n, side : n = index /\ side = Side
          OBVIOUS
        <4>2. Touched(plan, n, side, opening, positions)
          BY <1>6, <3>1, <4>1
        <4>3. n \in Nat /\ n < Len(plan) /\ side \in Sides
              /\ PlanWorks(plan, opening, side) /\ FitsSide(plan, side)
          BY <1>1, <1>2, <1>3, <4>1
        <4>4. ValidateHedgeLeg(plan[n + 1], positions)
          BY <1>1, <1>2, <4>2, <4>3, NextLegIsValid
        <4> QED
          BY <1>8, <4>1, <4>4
      <3> QED
        BY <3>1
    <2>3. plan' = PlanHedgeDelta(opening', Side', Size(Delta'))
      BY <1>1, <1>4, <1>5
    <2>4. index' <= Len(plan') /\ plan' # <<>>
      BY <1>1, <1>2, <1>4, <2>1
    <2> QED
      BY <1>1, <1>4, <2>1, <2>2, <2>3, <2>4 DEF LaneInv
  <1> QED
    BY <1>7, <1>8

\* Somebody else trades.
LEMMA DriftKeeps ==
  ASSUME LaneInv, Drift
  PROVE  LaneInv'
  <1>1. Volumes \subseteq Int /\ OpenTickets \subseteq Tickets
    BY LaneAssumption DEF Volumes
  <1>2. PICK t \in OpenTickets, v \in Volumes : positions' = [positions EXCEPT ![t] = v]
    BY DEF Drift
  <1>3. positions' \in [Tickets -> Int]
    BY <1>1, <1>2 DEF LaneInv
  <1>4. /\ drifts' = drifts + 1 /\ status = "PENDING"
        /\ owed' = owed /\ opening' = opening /\ plan' = plan /\ index' = index /\ status' = status
    BY DEF Drift
  <1>5. drifts' \in Nat /\ drifts' # 0
    BY <1>4 DEF LaneInv
  <1>6. Delta' = Delta /\ Side' = Side
    BY <1>4 DEF Delta, Side
  <1>7. plan' # <<>> => plan' = PlanHedgeDelta(opening', Side', Size(Delta')) /\ index' <= Len(plan')
    BY <1>4, <1>6 DEF LaneInv
  <1> QED
    BY <1>3, <1>4, <1>5, <1>7 DEF LaneInv

\* Nothing happens.
LEMMA LaneStays ==
  ASSUME LaneInv, UNCHANGED laneVars
  PROVE  LaneInv'
  <1>1. /\ owed' = owed /\ opening' = opening /\ positions' = positions /\ plan' = plan
        /\ index' = index /\ status' = status /\ drifts' = drifts
    BY DEF laneVars
  <1>2. Delta' = Delta /\ Side' = Side
    BY <1>1 DEF Delta, Side
  <1> QED
    BY <1>1, <1>2 DEF LaneInv

\* Hedging leaves at most half an ounce uncovered, and never trips over itself.
LEMMA LaneInvMeans == LaneInv => HedgedToHalfAnOunce
  <1> SUFFICES ASSUME LaneInv, drifts = 0
      PROVE  /\ status # "BLOCKED"
             /\ status = "COMPLETED" =>
                  LET missing == owed + Unit * (Net(positions) - Net(opening)) IN
                  /\ 2 * Size(missing) <= Unit
                  /\ 2 * Size(missing) = Unit => Delta % 2 = 0
    BY DEF HedgedToHalfAnOunce
  <1>1. status # "BLOCKED"
    BY DEF LaneInv
  <1>2. ASSUME status = "COMPLETED"
        PROVE  LET missing == owed + Unit * (Net(positions) - Net(opening)) IN
                  /\ 2 * Size(missing) <= Unit
                  /\ 2 * Size(missing) = Unit => Delta % 2 = 0
    <2>1. /\ owed \in Int /\ RoundHedgeOunces(owed) # 0 /\ plan # <<>>
          /\ opening \in [Tickets -> Int] /\ positions \in [Tickets -> Int]
          /\ plan = PlanHedgeDelta(opening, Side, Size(Delta)) /\ index = Len(plan)
          /\ WorkedOff(plan, index, Side, opening, positions, status = "PENDING")
      BY <1>2 DEF LaneInv
    <2>2. Amount(plan) = Size(Delta) /\ DOMAIN plan = 1 .. Len(plan)
      BY <2>1, LanePlan
    <2>3. WorkDone(plan, index) = Size(Delta)
      BY <2>1, <2>2 DEF WorkDone, Amount
    <2>4. PICK d, round : d = Delta /\ round = RoundHedgeOunces(owed)
      OBVIOUS
    <2>5. round \in Int /\ d = -round /\ d = Side * Size(Delta)
      BY <2>1, <2>4, RoundLeavesHalf, ToHedge DEF Delta
    <2>6. Net(positions) = Net(opening) + d
      BY <2>1, <2>3, <2>5 DEF WorkedOff
    <2>7. Net(positions) - Net(opening) = d
      BY <2>1, <2>5, <2>6, PositionsAdd
    <2>8. Unit * d = -(Unit * round) /\ Unit * round \in Int
      <3>1. PICK zero \in Int : zero = 0
        OBVIOUS
      <3>2. Unit * round \in Int /\ Unit * (zero - round) = Unit * zero - Unit * round
        BY <2>5, UnitTimes
      <3>3. Unit * zero = 0
        BY <3>1, UnitIs
      <3>4. zero - round = d
        BY <2>5, <3>1
      <3> QED
        BY <3>2, <3>3, <3>4
    <2>9. PICK missing : missing = owed + Unit * (Net(positions) - Net(opening))
      OBVIOUS
    <2>10. missing = owed - Unit * round
      BY <2>1, <2>7, <2>8, <2>9
    <2>11. 2 * Size(missing) <= Unit
      BY <2>1, <2>4, <2>10, RoundLeavesHalf
    <2>12. ASSUME 2 * Size(missing) = Unit PROVE Delta % 2 = 0
      <3>1. round % 2 = 0
        BY <2>1, <2>4, <2>10, <2>12, RoundTiesEven
      <3>2. d % 2 = 0
        BY <2>5, <3>1
      <3> QED
        BY <2>4, <3>2
    <2> QED
      BY <2>9, <2>11, <2>12
  <1> QED
    BY <1>1, <1>2

\* A leg that opens was checked against the tickets as they are.
LEMMA OpensAgainstNothing ==
  ASSUME LaneInv, [LaneNext]_laneVars, NEW k \in 1 .. Len(plan),
         index < k, k <= index', ~IsClose(plan[k])
  PROVE  Opposing(positions, Side) = {}
  <1>1. index \in Nat
    BY DEF LaneInv
  <1>2. index' # index
    <2>1. k \in Int
      OBVIOUS
    <2> QED
      BY <1>1, <2>1
  <1>3. ExecuteLeg
    BY <1>2 DEF LaneNext, MakePlan, Drift, laneVars
  <1>4. ValidateHedgeLeg(plan[index + 1], positions) /\ index' = index + 1
    BY <1>2, <1>3 DEF ExecuteLeg
  <1>5. k = index + 1
    BY <1>1, <1>4
  <1>6. FitsSide(plan, Side) /\ DOMAIN plan = 1 .. Len(plan)
    BY <1>3, LanePlan DEF LaneInv, ExecuteLeg
  <1>7. plan[k].side = Side
    BY <1>6 DEF FitsSide
  <1> QED
    BY <1>4, <1>5, <1>7 DEF ValidateHedgeLeg

\* The invariant holds.
LEMMA LaneStep == LaneInv /\ [LaneNext]_laneVars => LaneInv'
  BY MakePlanKeeps, ExecuteLegKeeps, DriftKeeps, LaneStays DEF LaneNext

\* Hedging moves the account by the rounded obligation (round_hedge_ounces), and
\* without interference no leg stops another (validate_hedge_leg).
THEOREM LegsCover == LaneSpec => []HedgedToHalfAnOunce
  BY LaneStarts, LaneStep, LaneInvMeans, PTL DEF LaneSpec

\* No leg opens a ticket beside one it could have closed, whoever else trades
\* (validate_hedge_leg).
THEOREM ClosesComeFirst == LaneSpec => NoOpenAgainstOpposing
  <1> DEFINE Step == \A k \in 1 .. Len(plan) :
          index < k /\ k <= index' /\ ~IsClose(plan[k]) => Opposing(positions, Side) = {}
  <1>1. LaneInv /\ [LaneNext]_laneVars => [Step]_laneVars
    BY OpensAgainstNothing
  <1>2. LaneInv /\ [LaneNext]_laneVars => LaneInv'
    BY LaneStep
  <1>3. LaneSpec => []LaneInv
    BY LaneStarts, LaneStep, PTL DEF LaneSpec
  <1>4. LaneSpec => [][Step]_laneVars
    <2> HIDE DEF Step
    <2> QED
      BY <1>1, <1>3, PTL DEF LaneSpec
  <1> QED
    BY <1>4 DEF NoOpenAgainstOpposing
=============================================================================
