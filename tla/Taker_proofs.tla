---------------------------- MODULE Taker_proofs ----------------------------
(***************************************************************************)
(* Machine-checked proofs about Taker, for every number of source orders,  *)
(* every set of prices, fills and limits, one-shot or not, on paper or     *)
(* live.                                                                   *)
(*                                                                         *)
(* TakerInv says of each copy of the store by itself (the object, the file *)
(* and what a power cut leaves of it) that it fits the venues: CopyFits.   *)
(* The operations on the store are pure, so each gets one lemma about a    *)
(* store s and what it becomes: either it moves only what the venues do    *)
(* not see (StoreMoves), or it is one of the five that open an order, bind *)
(* a leg, note a fill or reserve ounces, and the copy it makes fits as     *)
(* well.  An action then writes a store that fits to none, one or all of   *)
(* the copies (PersistStep), or the venues move on (TradeFits, EndFits,    *)
(* SendFits, HedgesFit).  What the venue has sent so far is summed over    *)
(* the trades the store has seen; Weighs gives each set of trades its sum  *)
(* as a function, so that one more trade is one more case (WeightsExtend). *)
(*                                                                         *)
(* StopInv adds how the copies come one after the other: where the earlier *)
(* has nothing under way, neither has the later, but for an order that     *)
(* never went out (Behind); and what is not under way in a copy is over at *)
(* the venues (Settled).  Each operation gets one lemma for that (Keeps),  *)
(* and each action one more (Stay...).                                     *)
(*                                                                         *)
(* Level adds the sums: in each copy the fills that were seen are what the *)
(* intents owe and the residual (BooksFit), and each intent stands at a    *)
(* leg of a plan that covers it, with the legs before it executed by an    *)
(* order each (LegsFit).  The lemmas on sums are in HedgePlan_proofs.      *)
(***************************************************************************)
EXTENDS Taker, HedgePlan_proofs

-----------------------------------------------------------------------------
(* The records of the store, and the operations that move nothing the      *)
(* venues see.                                                             *)

OrderFields == {"side", "quantity", "filled", "status", "exit"}
IntentFields == {"fill", "side", "quantity", "filled", "exit", "plan", "leg", "legFilled",
                 "order", "orders", "status"}
StoreFields == {"orders", "active", "seenSource", "seenHedge", "intents", "residual",
                "halt", "frozen"}

IsOrder(order) ==
    DOMAIN order = OrderFields /\ order.quantity \in Nat \ {0} /\ order.filled \in Nat
IsIntent(intent) ==
    DOMAIN intent = IntentFields /\ intent.leg \in Nat /\ IsSeq(intent.orders)
IsStore(s) ==
    /\ DOMAIN s = StoreFields
    /\ IsSeq(s.orders) /\ \A o \in DOMAIN s.orders : IsOrder(s.orders[o])
    /\ IsSeq(s.intents) /\ \A i \in DOMAIN s.intents : IsIntent(s.intents[i])

IntentMoves(i, j) ==
    /\ j.fill = i.fill /\ j.orders = i.orders
    /\ \/ j.leg = i.leg /\ j.order = i.order
       \/ j.leg = i.leg + 1 /\ j.order = NoHedge

StoreMoves(s, t) ==
    /\ IsStore(t)
    /\ t.seenSource = s.seenSource /\ t.frozen = s.frozen
    /\ DOMAIN t.orders = DOMAIN s.orders
    /\ \A o \in DOMAIN s.orders : /\ t.orders[o].quantity = s.orders[o].quantity
                                  /\ t.orders[o].filled = s.orders[o].filled
    /\ DOMAIN t.intents = DOMAIN s.intents
    /\ \A i \in DOMAIN s.intents : IntentMoves(s.intents[i], t.intents[i])

\* A new status of an order leaves its other fields.
LEMMA OrderStatusChanges ==
  ASSUME NEW order, IsOrder(order), NEW v
  PROVE  /\ IsOrder([order EXCEPT !.status = v])
         /\ [order EXCEPT !.status = v].quantity = order.quantity
         /\ [order EXCEPT !.status = v].filled = order.filled
  BY DEF IsOrder, OrderFields

\* So does a new status of an intent.
LEMMA IntentStatusChanges ==
  ASSUME NEW intent, IsIntent(intent), NEW v
  PROVE  /\ IsIntent([intent EXCEPT !.status = v])
         /\ IntentMoves(intent, [intent EXCEPT !.status = v])
  BY DEF IsIntent, IntentFields, IntentMoves

\* The plan of an intent is set once its legs are chosen.
LEMMA IntentPlanChanges ==
  ASSUME NEW intent, IsIntent(intent), NEW v
  PROVE  /\ IsIntent([intent EXCEPT !.plan = v])
         /\ IntentMoves(intent, [intent EXCEPT !.plan = v])
  BY DEF IsIntent, IntentFields, IntentMoves

\* A store that stays moves nothing.
LEMMA SameStore ==
  ASSUME NEW s, IsStore(s)
  PROVE  StoreMoves(s, s)
  BY DEF StoreMoves, IntentMoves

\* One intent takes a new form.
LEMMA IntentChanges ==
  ASSUME NEW s, IsStore(s), NEW i \in DOMAIN s.intents, NEW intent, IsIntent(intent),
         IntentMoves(s.intents[i], intent),
         NEW t, DOMAIN t = StoreFields, t.intents = [s.intents EXCEPT ![i] = intent],
         t.orders = s.orders, t.seenSource = s.seenSource, t.frozen = s.frozen
  PROVE  StoreMoves(s, t)
  <1>1. /\ IsSeq(t.intents) /\ DOMAIN t.intents = DOMAIN s.intents
        /\ \A n \in DOMAIN s.intents : n # i => t.intents[n] = s.intents[n]
        /\ t.intents[i] = intent
    BY SeqExcept DEF IsStore
  <1>2. IsStore(t)
    BY <1>1 DEF IsStore
  <1> QED
    BY <1>1, <1>2 DEF IsStore, StoreMoves, IntentMoves

\* block_hedge moves the status and the halt reason.
LEMMA BlockMoves ==
  ASSUME NEW s, IsStore(s), NEW i \in DOMAIN s.intents
  PROVE  /\ StoreMoves(s, BlockHedgeIntent(s, i)) /\ BlockHedgeIntent(s, i).active = s.active
  <1> DEFINE intent == [s.intents[i] EXCEPT !.status = "BLOCKED"]
             t == BlockHedgeIntent(s, i)
  <1>1. IsIntent(intent) /\ IntentMoves(s.intents[i], intent)
    BY IntentStatusChanges DEF IsStore
  <1>2. /\ DOMAIN t = StoreFields /\ t.intents = [s.intents EXCEPT ![i] = intent]
        /\ t.orders = s.orders /\ t.seenSource = s.seenSource /\ t.frozen = s.frozen
        /\ t.active = s.active
    BY DEF IsStore, StoreFields, BlockHedgeIntent
  <1> HIDE DEF intent, t
  <1>3. StoreMoves(s, t)
    BY <1>1, <1>2, IntentChanges
  <1> QED
    BY <1>2, <1>3 DEF t

\* bind_hedge_plan moves the plan.
LEMMA PlanMoves ==
  ASSUME NEW s, IsStore(s), NEW i \in DOMAIN s.intents, NEW plan
  PROVE  /\ StoreMoves(s, BindHedgePlan(s, i, plan)) /\ BindHedgePlan(s, i, plan).active = s.active
         /\ BindHedgePlan(s, i, plan).intents[i].order = s.intents[i].order
  <1> DEFINE intent == [s.intents[i] EXCEPT !.plan = plan]
             t == BindHedgePlan(s, i, plan)
  <1>1. IsIntent(intent) /\ IntentMoves(s.intents[i], intent) /\ intent.order = s.intents[i].order
    <2>1. IsIntent(s.intents[i])
      BY DEF IsStore
    <2> QED
      BY <2>1, IntentPlanChanges DEF IsIntent, IntentFields
  <1>2. /\ DOMAIN t = StoreFields /\ t.intents = [s.intents EXCEPT ![i] = intent]
        /\ t.orders = s.orders /\ t.seenSource = s.seenSource /\ t.frozen = s.frozen
        /\ t.active = s.active
    BY DEF IsStore, StoreFields, BindHedgePlan
  <1>4. t.intents[i] = intent
    BY <1>2, SeqExcept DEF IsStore
  <1> HIDE DEF intent, t
  <1>3. StoreMoves(s, t)
    BY <1>1, <1>2, IntentChanges
  <1> QED
    BY <1>1, <1>2, <1>3, <1>4 DEF t

\* The intent an order name leads to is one of the store.
LEMMA IntentOfFits ==
  ASSUME NEW s, \A i \in DOMAIN s.intents : IntentFits(s, i), NEW h
  PROVE  IntentOf(s, h) # 0 => IntentOf(s, h) \in DOMAIN s.intents
  <1> SUFFICES ASSUME NEW i \in DOMAIN s.intents, s.intents[i].order = h
               PROVE  h[1] = 0 \/ h[1] \in DOMAIN s.intents
    BY DEF IntentOf
  <1>1. CASE h = NoHedge
    BY <1>1 DEF NoHedge
  <1>2. CASE h # NoHedge
    <2>1. PICK n : h = <<i, n>>
      BY <1>2 DEF IntentFits
    <2> QED
      BY <2>1
  <1> QED
    BY <1>1, <1>2

\* update_hedge_status moves the status and the halt reason.
LEMMA HedgeStatusMoves ==
  ASSUME NEW s, IsStore(s), \A i \in DOMAIN s.intents : IntentFits(s, i), NEW h, NEW v
  PROVE  /\ StoreMoves(s, UpdateHedgeStatus(s, h, v))
         /\ UpdateHedgeStatus(s, h, v).active = s.active
  <1> DEFINE i == IntentOf(s, h)
             intent == [s.intents[i] EXCEPT !.status = v]
             t == UpdateHedgeStatus(s, h, v)
  <1>1. CASE i = 0 \/ s.intents[i].status \in Failed
    BY <1>1, SameStore DEF UpdateHedgeStatus
  <1>2. CASE i # 0 /\ s.intents[i].status \notin Failed
    <2>1. i \in DOMAIN s.intents
      BY <1>2, IntentOfFits
    <2> HIDE DEF i
    <2>2. IsIntent(intent) /\ IntentMoves(s.intents[i], intent)
      BY <2>1, IntentStatusChanges DEF IsStore
    <2>3. /\ DOMAIN t = StoreFields /\ t.intents = [s.intents EXCEPT ![i] = intent]
          /\ t.orders = s.orders /\ t.seenSource = s.seenSource /\ t.frozen = s.frozen
          /\ t.active = s.active
      BY <1>2, <2>1 DEF IsStore, StoreFields, UpdateHedgeStatus, i
    <2> HIDE DEF intent, t
    <2>4. StoreMoves(s, t)
      BY <2>1, <2>2, <2>3, IntentChanges
    <2> QED
      BY <2>3, <2>4 DEF t
  <1> QED
    BY <1>1, <1>2

\* No status moves an intent off its leg, or its order off it.
LEMMA HedgeStatusStands ==
  ASSUME NEW s, IsStore(s), \A i \in DOMAIN s.intents : IntentFits(s, i), NEW h, NEW v,
         NEW n \in DOMAIN s.intents, NEW t, t = UpdateHedgeStatus(s, h, v)
  PROVE  t.intents[n].order = s.intents[n].order /\ t.intents[n].leg = s.intents[n].leg
  <1> DEFINE i == IntentOf(s, h)
             intent == [s.intents[i] EXCEPT !.status = v]
  <1>1. CASE i = 0 \/ s.intents[i].status \in Failed
    BY <1>1 DEF UpdateHedgeStatus
  <1>2. CASE i # 0 /\ s.intents[i].status \notin Failed
    <2>1. i \in DOMAIN s.intents
      BY <1>2, IntentOfFits
    <2>2. t.intents = [s.intents EXCEPT ![i] = intent]
      BY <1>2 DEF UpdateHedgeStatus, IsStore, StoreFields
    <2> HIDE DEF i
    <2>3. intent.order = s.intents[i].order /\ intent.leg = s.intents[i].leg
      BY <2>1 DEF IsStore, IsIntent, IntentFields
    <2> HIDE DEF intent
    <2>4. t.intents[i] = intent /\ \A m \in DOMAIN s.intents : m # i => t.intents[m] = s.intents[m]
      BY <2>1, <2>2, SeqExcept DEF IsStore
    <2> QED
      BY <2>3, <2>4
  <1> QED
    BY <1>1, <1>2

\* A fill of the leg: expected or not.
LEMMA UnexpectedMoves ==
  ASSUME NEW s, IsStore(s), NEW i \in DOMAIN s.intents, NEW q
  PROVE  /\ StoreMoves(s, UnexpectedHedgeFill(s, i, q))
         /\ UnexpectedHedgeFill(s, i, q).active = s.active
  <1> DEFINE a == [s.intents[i] EXCEPT !.filled = @ + q]
             b == [a EXCEPT !.legFilled = @ + q]
             intent == [b EXCEPT !.status = "BLOCKED"]
             t == UnexpectedHedgeFill(s, i, q)
  <1>1. IsIntent(a) /\ IntentMoves(s.intents[i], a)
    BY DEF IsStore, IsIntent, IntentFields, IntentMoves
  <1> HIDE DEF a
  <1>2. IsIntent(b) /\ IntentMoves(s.intents[i], b)
    BY <1>1 DEF IsIntent, IntentFields, IntentMoves
  <1> HIDE DEF b
  <1>3. IsIntent(intent) /\ IntentMoves(s.intents[i], intent)
    BY <1>2 DEF IsIntent, IntentFields, IntentMoves
  <1>4. /\ DOMAIN t = StoreFields /\ t.intents = [s.intents EXCEPT ![i] = intent]
        /\ t.orders = s.orders /\ t.seenSource = s.seenSource /\ t.frozen = s.frozen
        /\ t.active = s.active
    BY DEF IsStore, StoreFields, UnexpectedHedgeFill, IsIntent, IntentFields, a, b
  <1> HIDE DEF intent, t
  <1>5. StoreMoves(s, t)
    BY <1>3, <1>4, IntentChanges
  <1> QED
    BY <1>4, <1>5 DEF t

\* An expected fill of the leg moves what is filled, and the leg when it is full.
LEMMA LegFilledMoves ==
  ASSUME NEW s, IsStore(s), NEW i \in DOMAIN s.intents, NEW q
  PROVE  StoreMoves(s, LegFilled(s, i, q)) /\ LegFilled(s, i, q).active = s.active
  <1> DEFINE v == IF s.intents[i].leg + 1 = Len(s.intents[i].plan) THEN "COMPLETED" ELSE "PENDING"
             a == [s.intents[i] EXCEPT !.filled = @ + q]
             b == [a EXCEPT !.legFilled = 0]
             c == [b EXCEPT !.leg = @ + 1]
             d == [c EXCEPT !.order = NoHedge]
             intent == [d EXCEPT !.status = v]
             t == LegFilled(s, i, q)
  <1>4. /\ DOMAIN t = StoreFields /\ t.intents = [s.intents EXCEPT ![i] = intent]
        /\ t.orders = s.orders /\ t.seenSource = s.seenSource /\ t.frozen = s.frozen
        /\ t.active = s.active
    BY DEF IsStore, StoreFields, LegFilled, IsIntent, IntentFields
  <1> HIDE DEF v, t
  <1>1. IsIntent(a) /\ IntentMoves(s.intents[i], a) /\ a.leg = s.intents[i].leg
    BY DEF IsStore, IsIntent, IntentFields, IntentMoves
  <1> HIDE DEF a
  <1>2. IsIntent(b) /\ IntentMoves(s.intents[i], b) /\ b.leg = s.intents[i].leg
    BY <1>1 DEF IsIntent, IntentFields, IntentMoves
  <1> HIDE DEF b
  <1>3. /\ IsIntent(c) /\ c.leg = s.intents[i].leg + 1
        /\ c.fill = s.intents[i].fill /\ c.orders = s.intents[i].orders
    BY <1>2 DEF IsIntent, IntentFields, IntentMoves
  <1> HIDE DEF c
  <1>5. IsIntent(d) /\ IntentMoves(s.intents[i], d)
    BY <1>3 DEF IsIntent, IntentFields, IntentMoves
  <1> HIDE DEF d
  <1>6. IsIntent(intent) /\ IntentMoves(s.intents[i], intent)
    BY <1>5 DEF IsIntent, IntentFields, IntentMoves
  <1> HIDE DEF intent
  <1>7. StoreMoves(s, t)
    BY <1>4, <1>6, IntentChanges
  <1> QED
    BY <1>4, <1>7 DEF t

\* record_hedge_fill, expected or not, moves nothing the venues see.
LEMMA HedgeFillMoves ==
  ASSUME NEW s, IsStore(s), \A i \in DOMAIN s.intents : IntentFits(s, i), NEW fill, NEW q
  PROVE  StoreMoves(s, ApplyHedgeFill(s, fill, q)) /\ ApplyHedgeFill(s, fill, q).active = s.active
  <1> DEFINE i == IntentOf(s, fill[1])
             noted == [s EXCEPT !.seenHedge = @ \union {fill}]
  <1>1. CASE fill \in s.seenHedge \/ i = 0
    BY <1>1, SameStore DEF ApplyHedgeFill
  <1>2. CASE ~(fill \in s.seenHedge \/ i = 0)
    <2>1. i \in DOMAIN s.intents
      BY <1>2, IntentOfFits
    <2>2. /\ IsStore(noted) /\ noted.intents = s.intents /\ noted.orders = s.orders
          /\ noted.seenSource = s.seenSource /\ noted.frozen = s.frozen
          /\ noted.active = s.active
      BY DEF IsStore, StoreFields
    <2>3. \/ ApplyHedgeFill(s, fill, q) = UnexpectedHedgeFill(noted, i, q)
          \/ ApplyHedgeFill(s, fill, q) = LegFilled(noted, i, q)
      BY <1>2 DEF ApplyHedgeFill
    <2> HIDE DEF i, noted
    <2>4. PICK t : t = ApplyHedgeFill(s, fill, q)
      OBVIOUS
    <2>5. StoreMoves(noted, t) /\ t.active = noted.active
      BY <2>1, <2>2, <2>3, <2>4, UnexpectedMoves, LegFilledMoves
    <2>6. StoreMoves(s, t)
      BY <2>2, <2>5 DEF StoreMoves
    <2> QED
      BY <2>2, <2>4, <2>5, <2>6
  <1> QED
    BY <1>1, <1>2

\* The status of a source order changes, and the halt reason with it.
LEMMA OrdersChange ==
  ASSUME NEW s, IsStore(s), NEW o \in DOMAIN s.orders, NEW v,
         NEW t, DOMAIN t = StoreFields, t.orders = [s.orders EXCEPT ![o].status = v],
         t.intents = s.intents, t.seenSource = s.seenSource, t.frozen = s.frozen
  PROVE  StoreMoves(s, t)
  <1> DEFINE order == [s.orders[o] EXCEPT !.status = v]
  <1>1. /\ IsOrder(order) /\ order.quantity = s.orders[o].quantity
        /\ order.filled = s.orders[o].filled
    BY OrderStatusChanges DEF IsStore
  <1>2. t.orders = [s.orders EXCEPT ![o] = order]
    OBVIOUS
  <1> HIDE DEF order
  <1>3. /\ IsSeq(t.orders) /\ DOMAIN t.orders = DOMAIN s.orders
        /\ \A n \in DOMAIN s.orders : n # o => t.orders[n] = s.orders[n]
        /\ t.orders[o] = order
    BY <1>2, SeqExcept DEF IsStore
  <1>4. IsStore(t)
    BY <1>1, <1>3 DEF IsStore
  <1>5. \A n \in DOMAIN s.orders : /\ t.orders[n].quantity = s.orders[n].quantity
                                   /\ t.orders[n].filled = s.orders[n].filled
    BY <1>1, <1>3
  <1>6. \A i \in DOMAIN s.intents : IntentMoves(s.intents[i], t.intents[i])
    BY DEF IntentMoves
  <1> QED
    BY <1>3, <1>4, <1>5, <1>6 DEF StoreMoves

\* update_source_status moves nothing the venues see but the active order.
LEMMA SourceStatusMoves ==
  ASSUME NEW s, IsStore(s), NEW o \in DOMAIN s.orders, NEW v
  PROVE  /\ StoreMoves(s, UpdateSourceStatus(s, o, v))
         /\ UpdateSourceStatus(s, o, v).active =
               IF v \in {"DENIED", "FILLED", "REJECTED"} /\ s.active = o
               THEN NoOrder ELSE s.active
  <1> DEFINE t == UpdateSourceStatus(s, o, v)
  <1>1. /\ DOMAIN t = StoreFields /\ t.orders = [s.orders EXCEPT ![o].status = v]
        /\ t.intents = s.intents /\ t.seenSource = s.seenSource /\ t.frozen = s.frozen
        /\ t.active = IF v \in {"DENIED", "FILLED", "REJECTED"} /\ s.active = o
                      THEN NoOrder ELSE s.active
    BY DEF IsStore, StoreFields, UpdateSourceStatus
  <1> HIDE DEF t
  <1>2. StoreMoves(s, t)
    BY <1>1, OrdersChange
  <1> QED
    BY <1>1, <1>2 DEF t

\* confirm_source_reconciled moves the active order and the halt reason.
LEMMA ReconciledMoves ==
  ASSUME NEW s, IsStore(s), NEW o
  PROVE  /\ StoreMoves(s, ConfirmSourceReconciled(s, o))
         /\ ConfirmSourceReconciled(s, o).active = IF s.active = o THEN NoOrder ELSE s.active
  <1> DEFINE t == ConfirmSourceReconciled(s, o)
  <1>1. /\ DOMAIN t = StoreFields /\ t.orders = s.orders
        /\ t.intents = s.intents /\ t.seenSource = s.seenSource /\ t.frozen = s.frozen
        /\ t.active = IF s.active = o THEN NoOrder ELSE s.active
    BY DEF IsStore, StoreFields, ConfirmSourceReconciled
  <1> HIDE DEF t
  <1>2. IsStore(t)
    BY <1>1 DEF IsStore
  <1>3. StoreMoves(s, t)
    BY <1>1, <1>2 DEF StoreMoves, IntentMoves
  <1> QED
    BY <1>1, <1>3 DEF t

\* What a lost answer marks unknown moves nothing the venues see.
LEMMA UnknownMoves ==
  ASSUME NEW s, IsStore(s), NEW o
  PROVE  StoreMoves(s, MarkSourceUnknown(s, o)) /\ MarkSourceUnknown(s, o).active = s.active
  <1> DEFINE t == MarkSourceUnknown(s, o)
  <1>1. /\ DOMAIN t = StoreFields
        /\ t.orders = IF o \in DOMAIN s.orders
                      THEN [s.orders EXCEPT ![o].status = "UNKNOWN"] ELSE s.orders
        /\ t.intents = s.intents /\ t.seenSource = s.seenSource /\ t.frozen = s.frozen
        /\ t.active = s.active
    BY DEF IsStore, StoreFields, MarkSourceUnknown, KnowsSourceOrder
  <1> HIDE DEF t
  <1>2. CASE o \in DOMAIN s.orders
    <2>1. StoreMoves(s, t)
      BY <1>1, <1>2, OrdersChange
    <2> QED
      BY <1>1, <2>1 DEF t
  <1>3. CASE o \notin DOMAIN s.orders
    <2>1. IsStore(t)
      BY <1>1, <1>3 DEF IsStore
    <2>2. StoreMoves(s, t)
      BY <1>1, <1>3, <2>1 DEF StoreMoves, IntentMoves
    <2> QED
      BY <1>1, <2>2 DEF t
  <1> QED
    BY <1>2, <1>3

\* A restart: every status that was under way becomes unknown.
LEMMA RecoverMoves ==
  ASSUME NEW s, IsStore(s), s.active \in {NoOrder} \union DOMAIN s.orders
  PROVE  StoreMoves(s, RecoverForStart(s)) /\ RecoverForStart(s).active = s.active
  <1>1. CASE s.active = NoOrder /\ AllCompleted(s)
    BY <1>1, SameStore DEF RecoverForStart
  <1>2. CASE ~(s.active = NoOrder /\ AllCompleted(s))
    <2> DEFINE t == RecoverForStart(s)
               l == [i \in DOMAIN s.intents |->
                        IF s.intents[i].status \in InFlight
                        THEN [s.intents[i] EXCEPT !.status = "UNKNOWN"] ELSE s.intents[i]]
    <2>1. /\ DOMAIN t = StoreFields
          /\ t.orders = IF s.active = NoOrder THEN s.orders
                        ELSE [s.orders EXCEPT ![s.active].status = "UNKNOWN"]
          /\ t.intents = l
          /\ t.seenSource = s.seenSource /\ t.frozen = s.frozen /\ t.active = s.active
      BY <1>2 DEF IsStore, StoreFields, RecoverForStart
    <2> HIDE DEF t
    <2>2. DOMAIN l = DOMAIN s.intents
      OBVIOUS
    <2>3. IsSeq(l)
      <3>1. Len(s.intents) \in Nat /\ DOMAIN s.intents = 1 .. Len(s.intents)
        BY SeqFacts DEF IsStore
      <3>2. l = [k \in 1 .. Len(s.intents) |-> l[k]]
        BY <3>1
      <3> HIDE DEF l
      <3> QED
        BY <3>1, <3>2, SeqIntro
    <2>4. ASSUME NEW i \in DOMAIN s.intents
          PROVE  IsIntent(l[i]) /\ IntentMoves(s.intents[i], l[i])
      <3>1. IsIntent(s.intents[i])
        BY DEF IsStore
      <3>2. CASE s.intents[i].status \in InFlight
        BY <3>1, <3>2, IntentStatusChanges
      <3>3. CASE s.intents[i].status \notin InFlight
        BY <3>1, <3>3 DEF IntentMoves
      <3> QED
        BY <3>2, <3>3
    <2> HIDE DEF l
    <2> DEFINE u == [s EXCEPT !.intents = l]
    <2>5. StoreMoves(s, u) /\ u.orders = s.orders /\ IsStore(u) /\ u.intents = l
          /\ u.seenSource = s.seenSource /\ u.frozen = s.frozen
      <3>1. /\ DOMAIN u = StoreFields /\ u.orders = s.orders /\ u.intents = l
            /\ u.seenSource = s.seenSource /\ u.frozen = s.frozen
        BY DEF IsStore, StoreFields
      <3> HIDE DEF u
      <3>2. IsStore(u)
        BY <2>2, <2>3, <2>4, <3>1 DEF IsStore
      <3> QED
        BY <2>2, <2>4, <3>1, <3>2 DEF StoreMoves
    <2> HIDE DEF u
    <2>6. StoreMoves(u, t)
      <3>1. CASE s.active = NoOrder
        <4>1. IsStore(t)
          BY <2>1, <2>5, <3>1 DEF IsStore
        <4> QED
          BY <2>1, <2>5, <3>1, <4>1 DEF StoreMoves, IntentMoves
      <3>2. CASE s.active # NoOrder
        BY <2>1, <2>5, <3>2, OrdersChange
      <3> QED
        BY <3>1, <3>2
    <2>7. StoreMoves(s, t)
      <3>1. \A i \in DOMAIN s.intents : t.intents[i] = u.intents[i]
        BY <2>1, <2>5
      <3> QED
        BY <2>5, <2>6, <3>1 DEF StoreMoves
    <2> QED
      BY <2>1, <2>7 DEF t
  <1> QED
    BY <1>1, <1>2

-----------------------------------------------------------------------------
(* What the venues see, and that such operations keep a copy fitting. *)

IsHedge(h) == DOMAIN h = {"state", "fill", "index", "leg", "fills"} /\ h.index \in Nat
IsTruth(truth) ==
    /\ DOMAIN truth = {"state", "side", "quantity", "fills", "filled"}
    /\ truth.quantity \in Nat /\ truth.filled \in Nat
    /\ IsSeq(truth.fills) /\ \A k \in DOMAIN truth.fills : truth.fills[k] \in Nat

\* What moves nothing the venues see keeps a copy fitting.
LEMMA MovesFit ==
  ASSUME NEW s, NEW src, NEW sent, NEW once, CopyFits(s, src, sent, once), IsStore(s),
         \A h \in DOMAIN sent : IsHedge(sent[h]), NEW t, StoreMoves(s, t),
         \/ t.active = s.active
         \/ t.active = NoOrder /\ \A o \in SourceIds : src[o].state = "open" => s.active # o
  PROVE  CopyFits(t, src, sent, once)
  <1>1. /\ t.active \in {NoOrder} \union DOMAIN t.orders /\ DOMAIN t.orders \subseteq SourceIds
        /\ \A o \in SourceIds : src[o].state = "open" => t.active = o
        /\ \A o \in SourceIds : src[o].state # "absent" => o \in DOMAIN t.orders
    BY DEF CopyFits, StoreMoves
  <1>2. ASSUME NEW o \in DOMAIN t.orders PROVE OrderFits(t, o, src[o])
    <2>1. /\ OrderFits(s, o, src[o]) /\ t.orders[o].quantity = s.orders[o].quantity
          /\ t.orders[o].filled = s.orders[o].filled /\ t.seenSource = s.seenSource
      BY DEF CopyFits, StoreMoves
    <2> QED
      BY <2>1 DEF OrderFits
  <1>3. \A f \in t.seenSource :
          f = <<f[1], f[2]>> /\ f[1] \in DOMAIN t.orders /\ f[2] \in DOMAIN src[f[1]].fills
    BY DEF CopyFits, StoreMoves
  <1>4. ASSUME NEW i \in DOMAIN t.intents PROVE IntentFits(t, i)
    <2>1. /\ IntentFits(s, i) /\ IntentMoves(s.intents[i], t.intents[i])
          /\ DOMAIN t.intents = DOMAIN s.intents /\ t.seenSource = s.seenSource
      BY DEF CopyFits, StoreMoves
    <2>2. \A j \in DOMAIN t.intents : t.intents[j].fill = s.intents[j].fill
      BY DEF StoreMoves, IntentMoves
    <2>3. t.intents[i].orders = s.intents[i].orders
      BY <2>1 DEF IntentMoves
    <2>4. t.intents[i].order \in {NoHedge, s.intents[i].order}
      BY <2>1 DEF IntentMoves
    <2> QED
      BY <2>1, <2>2, <2>3, <2>4 DEF IntentFits
  <1>5. ASSUME NEW h \in DOMAIN sent PROVE HedgeFits(t, h, sent[h])
    <2> DEFINE i == h[1]
    <2>1. HedgeFits(s, h, sent[h]) /\ i \in DOMAIN s.intents /\ DOMAIN t.intents = DOMAIN s.intents
      BY DEF CopyFits, StoreMoves, HedgeFits
    <2>2. IntentMoves(s.intents[i], t.intents[i]) /\ s.intents[i].leg \in Nat
      BY <2>1 DEF StoreMoves, IsStore, IsIntent
    <2>3. sent[h].index \in Nat
      BY DEF IsHedge
    <2>4. /\ t.intents[i].orders = s.intents[i].orders /\ t.intents[i].fill = s.intents[i].fill
      BY <2>2 DEF IntentMoves
    <2>5. CASE t.intents[i].leg = s.intents[i].leg /\ t.intents[i].order = s.intents[i].order
      BY <2>1, <2>4, <2>5 DEF HedgeFits
    <2>6. CASE t.intents[i].leg = s.intents[i].leg + 1
      <3>1. sent[h].index <= s.intents[i].leg
        BY <2>1 DEF HedgeFits
      <3>2. sent[h].index <= t.intents[i].leg /\ sent[h].index # t.intents[i].leg
        BY <2>2, <2>3, <2>6, <3>1
      <3> QED
        BY <2>1, <2>4, <3>2 DEF HedgeFits
    <2> QED
      BY <2>2, <2>5, <2>6 DEF IntentMoves
  <1>6. once => DOMAIN t.orders \subseteq {1} /\ (DOMAIN t.orders # {} => t.frozen)
    BY DEF CopyFits, StoreMoves
  <1> QED
    BY <1>1, <1>2, <1>3, <1>4, <1>5, <1>6 DEF CopyFits

-----------------------------------------------------------------------------
(* The operations the venues do see. *)

\* m gives every set of the trades q what they add up to, total in all.
Measures(m, q, total) ==
    m \in [SUBSET DOMAIN q -> 0 .. total] /\ Weighs(m, q) /\ m[DOMAIN q] = total
Agree(w, m, q) == \A S \in SUBSET DOMAIN q : w[S] = m[S]
NatSeq(q) == IsSeq(q) /\ \A k \in DOMAIN q : q[k] \in Nat

\* One more trade: what the sets without it add up to stays.
LEMMA WeightsExtend ==
  ASSUME NEW q, NatSeq(q), NEW total \in Nat, NEW e \in Nat, NEW m, Measures(m, q, total)
  PROVE  \E w : Measures(w, Append(q, e), total + e) /\ Agree(w, m, q)
  <1> USE DEF Measures, NatSeq, Agree
  <1> DEFINE n == Len(q) + 1
             D == DOMAIN q
             r == Append(q, e)
             W(S) == m[S \ {n}] + IF n \in S THEN e ELSE 0
             w == [S \in SUBSET DOMAIN r |-> W(S)]
  <1>1. /\ DOMAIN r = D \union {n} /\ n \notin D /\ r[n] = e
        /\ \A k \in D : r[k] = q[k]
    BY SeqFacts, Appended
  <1> HIDE DEF n, D, r
  <1>2. ASSUME NEW S \in SUBSET DOMAIN r
        PROVE  /\ S \ {n} \in SUBSET D /\ m[S \ {n}] \in 0 .. total
               /\ W(S) \in 0 .. total + e
    <2>1. S \ {n} \in SUBSET D
      BY <1>1
    <2>2. m[S \ {n}] \in 0 .. total
      BY <2>1 DEF D
    <2> QED
      BY <2>1, <2>2
  <1> HIDE DEF W
  <1>3. w \in [SUBSET DOMAIN r -> 0 .. total + e] /\ \A S \in SUBSET DOMAIN r : w[S] = W(S)
    BY <1>2
  <1> HIDE DEF w
  <1>4. ASSUME NEW S \in SUBSET D PROVE w[S] = m[S]
    <2>1. S \ {n} = S
      BY <1>1
    <2>2. n \notin S /\ S \in SUBSET DOMAIN r
      BY <1>1
    <2>3. m[S] \in 0 .. total
      BY DEF D
    <2>4. w[S] = m[S \ {n}] + 0
      BY <1>3, <2>2 DEF W
    <2>5. m[S \ {n}] = m[S]
      BY <2>1
    <2> QED
      BY <2>3, <2>4, <2>5
  <1>5. w[DOMAIN r] = total + e
    <2>1. DOMAIN r \ {n} = D
      BY <1>1
    <2>2. n \in DOMAIN r
      BY <1>1
    <2> QED
      BY <1>3, <2>1, <2>2 DEF D, W
  <1>6. w[{}] = 0
    BY <1>4 DEF Weighs, D
  <1>7. ASSUME NEW S \in SUBSET DOMAIN r
        PROVE  /\ w[S] <= w[DOMAIN r]
               /\ \A k \in DOMAIN r \ S : w[S \union {k}] = w[S] + r[k]
    <2>1. w[S] <= w[DOMAIN r]
      BY <1>3, <1>5
    <2>2. ASSUME NEW k \in DOMAIN r \ S PROVE w[S \union {k}] = w[S] + r[k]
      <3>1. CASE k = n
        <4>1. n \notin S /\ S \in SUBSET D /\ S \union {k} \in SUBSET DOMAIN r /\ n \in S \union {k}
          BY <1>1, <3>1
        <4>2. (S \union {k}) \ {n} = S
          BY <3>1, <4>1
        <4>3. w[S \union {k}] = m[S] + e
          BY <1>3, <4>1, <4>2 DEF W
        <4> QED
          BY <1>1, <1>4, <3>1, <4>1, <4>3
      <3>2. CASE k # n
        <4> DEFINE T == S \ {n}
        <4>1. /\ k \in D \ T /\ T \in SUBSET D
              /\ S \union {k} \in SUBSET DOMAIN r /\ (n \in S \union {k} <=> n \in S)
          BY <1>1, <3>2
        <4>7. (S \union {k}) \ {n} = T \union {k}
          BY <3>2
        <4>2. m[T \union {k}] = m[T] + q[k] /\ m[T] \in 0 .. total
          BY <1>2, <4>1 DEF Weighs, D
        <4>3. m[T \union {k}] \in 0 .. total /\ T \union {k} \in SUBSET D
          BY <4>1 DEF D
        <4>4. w[S \union {k}] = m[T \union {k}] + IF n \in S THEN e ELSE 0
          BY <1>3, <4>1, <4>7 DEF W
        <4>5. w[S] = m[T] + IF n \in S THEN e ELSE 0
          BY <1>3 DEF W
        <4>6. r[k] = q[k]
          BY <1>1, <4>1
        <4>8. q[k] \in Nat
          BY <4>1 DEF D
        <4> HIDE DEF T
        <4> QED
          BY <4>8, <4>2, <4>3, <4>4, <4>5, <4>6
      <3> QED
        BY <3>1, <3>2
    <2> QED
      BY <2>1, <2>2
  <1>8. Weighs(w, r)
    BY <1>6, <1>7 DEF Weighs
  <1> QED
    BY <1>3, <1>4, <1>5, <1>8 DEF D, r

\* begin_source, when no order is working.
LEMMA BeginFits ==
  ASSUME NEW s, NEW src, NEW sent, NEW once, CopyFits(s, src, sent, once), IsStore(s),
         \A o \in SourceIds : IsTruth(src[o]) /\ VenueFits(src[o]),
         s.active = NoOrder, Len(s.orders) < MaxOrders, once => ~s.frozen,
         NEW side, NEW quantity \in Nat \ {0}, NEW exit,
         NEW t, t = BeginSource(s, side, quantity, exit, once)
  PROVE  /\ IsStore(t) /\ CopyFits(t, src, sent, once)
         /\ t.active \in DOMAIN t.orders /\ src[t.active].state = "absent"
         /\ t.active \in SourceIds
  <1> DEFINE n == Len(s.orders) + 1
             order == [side |-> side, quantity |-> quantity, filled |-> 0,
                       status |-> "SUBMITTING", exit |-> exit]
  <1>1. /\ DOMAIN t = StoreFields /\ t.orders = Append(s.orders, order) /\ t.active = n
        /\ t.intents = s.intents /\ t.seenSource = s.seenSource /\ t.frozen = once
    BY DEF BeginSource, IsStore, StoreFields
  <1>2. IsOrder(order) /\ order.filled = 0 /\ order.quantity = quantity
    BY DEF IsOrder, OrderFields
  <1> HIDE DEF order
  <1>3. /\ IsSeq(t.orders) /\ DOMAIN t.orders = DOMAIN s.orders \union {n}
        /\ n \notin DOMAIN s.orders
        /\ t.orders[n] = order /\ \A o \in DOMAIN s.orders : t.orders[o] = s.orders[o]
        /\ n \in Nat \ {0} /\ DOMAIN s.orders = 1 .. n - 1
    <2>1. Len(s.orders) \in Nat /\ DOMAIN s.orders = 1 .. Len(s.orders)
      BY SeqFacts DEF IsStore
    <2>2. /\ IsSeq(t.orders) /\ DOMAIN t.orders = 1 .. n /\ t.orders[n] = order
          /\ \A o \in DOMAIN s.orders : t.orders[o] = s.orders[o]
      <3>1. IsSeq(s.orders)
        BY DEF IsStore
      <3> QED
        BY <1>1, <3>1, Appended
    <2>3. n \in Nat \ {0} /\ DOMAIN s.orders = 1 .. n - 1
      BY <2>1
    <2> HIDE DEF n
    <2>4. 1 .. n = (1 .. n - 1) \union {n} /\ n \notin 1 .. n - 1
      BY <2>3
    <2> QED
      BY <2>2, <2>3, <2>4
  <1>4. IsStore(t)
    BY <1>1, <1>2, <1>3 DEF IsStore
  <1>5. n \in SourceIds
    BY <1>3, TakerAssumption DEF SourceIds
  <1> HIDE DEF n
  <1>6. src[n].state = "absent" /\ \A o \in SourceIds : src[o].state # "open"
    <2>1. \A o \in SourceIds : o # NoOrder
      BY DEF SourceIds, NoOrder
    <2> QED
      BY <1>3, <1>5, <2>1 DEF CopyFits
  <1>7. \A f \in t.seenSource :
          f = <<f[1], f[2]>> /\ f[1] \in DOMAIN t.orders /\ f[2] \in DOMAIN src[f[1]].fills
    BY <1>1, <1>3 DEF CopyFits
  <1>8. ASSUME NEW o \in DOMAIN t.orders PROVE OrderFits(t, o, src[o])
    <2>1. CASE o = n
      <3>1. src[n].fills = <<>> /\ src[n].filled = 0
        BY <1>5, <1>6 DEF VenueFits
      <3>2. DOMAIN src[n].fills = {}
        BY <3>1
      <3> DEFINE m == [S \in {{}} |-> 0]
      <3>3. SUBSET {} = {{}} /\ m \in [SUBSET {} -> 0 .. 0] /\ m[{}] = 0
        OBVIOUS
      <3>4. Weighs(m, src[n].fills)
        BY <3>2, <3>3 DEF Weighs
      <3>5. t.orders[n].filled = 0
        BY <1>2, <1>3
      <3>6. {k \in DOMAIN src[n].fills : <<n, k>> \in t.seenSource} = {}
        BY <3>2
      <3> HIDE DEF m
      <3> QED
        BY <1>6, <2>1, <3>1, <3>2, <3>3, <3>4, <3>5, <3>6 DEF OrderFits
    <2>2. CASE o \in DOMAIN s.orders
      <3>1. OrderFits(s, o, src[o]) /\ t.orders[o] = s.orders[o] /\ t.seenSource = s.seenSource
        BY <1>1, <1>3, <2>2 DEF CopyFits
      <3> QED
        BY <3>1 DEF OrderFits
    <2> QED
      BY <1>3, <2>1, <2>2
  <1>9. \A i \in DOMAIN t.intents : IntentFits(t, i)
    BY <1>1 DEF CopyFits, IntentFits
  <1>10. \A h \in DOMAIN sent : HedgeFits(t, h, sent[h])
    BY <1>1 DEF CopyFits, HedgeFits
  <1>11. once => DOMAIN t.orders \subseteq {1} /\ t.frozen
    <2>1. once => DOMAIN s.orders = {}
      BY DEF CopyFits
    <2>2. once => n = 1
      <3>1. DOMAIN s.orders = 1 .. n - 1 /\ n \in Nat \ {0}
        BY <1>3
      <3>2. n # 1 => 1 \in DOMAIN s.orders
        <4> HIDE DEF n
        <4> QED
          BY <3>1
      <3> QED
        BY <2>1, <3>2
    <2>3. t.frozen = once
      BY <1>1
    <2>4. DOMAIN t.orders = DOMAIN s.orders \union {n}
      BY <1>3
    <2> HIDE DEF n
    <2> QED
      BY <2>1, <2>2, <2>3, <2>4
  <1>12. \A o \in SourceIds : src[o].state # "absent" => o \in DOMAIN t.orders
    BY <1>3 DEF CopyFits
  <1>13. DOMAIN t.orders \subseteq SourceIds
    BY <1>3, <1>5 DEF CopyFits
  <1> QED
    BY <1>1, <1>3, <1>4, <1>5, <1>6, <1>7, <1>8, <1>9, <1>10, <1>11, <1>12, <1>13 DEF CopyFits

\* bind_hedge_order, for an intent whose last order is done.
LEMMA BindFits ==
  ASSUME NEW s, NEW src, NEW sent, NEW once, CopyFits(s, src, sent, once), IsStore(s),
         NEW i \in DOMAIN s.intents, s.intents[i].order = NoHedge,
         NEW t, t = BindHedgeOrder(s, i)
  PROVE  /\ IsStore(t) /\ CopyFits(t, src, sent, once)
         /\ i \in DOMAIN t.intents /\ t.intents[i].order \notin DOMAIN sent \union {NoHedge}
  <1> DEFINE n == Len(s.intents[i].orders) + 1
             h == <<i, n>>
             a == [s.intents[i] EXCEPT !.order = h]
             b == [a EXCEPT !.orders = Append(@, h)]
             intent == [b EXCEPT !.status = "SUBMITTING"]
  <1>1. /\ DOMAIN t = StoreFields /\ t.intents = [s.intents EXCEPT ![i] = intent]
        /\ t.orders = s.orders /\ t.seenSource = s.seenSource /\ t.frozen = s.frozen
        /\ t.active = s.active
    BY DEF IsStore, StoreFields, BindHedgeOrder, NextHedgeOrder, IsIntent, IntentFields
  <1>2. /\ DOMAIN a = IntentFields /\ a.orders = s.intents[i].orders /\ a.order = h
        /\ a.fill = s.intents[i].fill /\ a.leg = s.intents[i].leg
    BY DEF IsStore, IsIntent, IntentFields
  <1> HIDE DEF a
  <1>3. /\ DOMAIN b = IntentFields /\ b.orders = Append(s.intents[i].orders, h) /\ b.order = h
        /\ b.fill = s.intents[i].fill /\ b.leg = s.intents[i].leg
    BY <1>2 DEF IntentFields
  <1> HIDE DEF b
  <1>4. /\ DOMAIN intent = IntentFields /\ intent.orders = Append(s.intents[i].orders, h)
        /\ intent.order = h /\ intent.fill = s.intents[i].fill /\ intent.leg = s.intents[i].leg
    BY <1>3 DEF IntentFields
  <1> HIDE DEF intent
  <1>5. IsSeq(s.intents[i].orders) /\ s.intents[i].leg \in Nat
    BY DEF IsStore, IsIntent
  <1>6. /\ IsSeq(intent.orders) /\ DOMAIN intent.orders = DOMAIN s.intents[i].orders \union {n}
        /\ n \notin DOMAIN s.intents[i].orders /\ intent.orders[n] = h
        /\ \A k \in DOMAIN s.intents[i].orders : intent.orders[k] = s.intents[i].orders[k]
    <2>1. /\ Len(s.intents[i].orders) \in Nat
          /\ DOMAIN s.intents[i].orders = 1 .. Len(s.intents[i].orders)
      BY <1>5, SeqFacts
    <2>2. /\ IsSeq(intent.orders) /\ DOMAIN intent.orders = 1 .. n /\ intent.orders[n] = h
          /\ \A k \in DOMAIN s.intents[i].orders : intent.orders[k] = s.intents[i].orders[k]
      <3>1. PICK q : q = s.intents[i].orders
        OBVIOUS
      <3>2. /\ IsSeq(Append(q, h)) /\ DOMAIN Append(q, h) = 1 .. Len(q) + 1
            /\ \A k \in DOMAIN q : Append(q, h)[k] = q[k]
            /\ Append(q, h)[Len(q) + 1] = h
        BY <1>5, <3>1, Appended
      <3> QED
        BY <1>4, <3>1, <3>2
    <2>3. n \in Nat \ {0} /\ DOMAIN s.intents[i].orders = 1 .. n - 1
      BY <2>1
    <2> HIDE DEF n
    <2>4. 1 .. n = (1 .. n - 1) \union {n} /\ n \notin 1 .. n - 1
      BY <2>3
    <2> QED
      BY <2>2, <2>3, <2>4
  <1> HIDE DEF n
  <1>7. IsIntent(intent)
    BY <1>4, <1>5, <1>6 DEF IsIntent
  <1>8. /\ IsSeq(t.intents) /\ DOMAIN t.intents = DOMAIN s.intents /\ t.intents[i] = intent
        /\ \A j \in DOMAIN s.intents : j # i => t.intents[j] = s.intents[j]
    BY <1>1, SeqExcept DEF IsStore
  <1>9. IsStore(t)
    BY <1>1, <1>7, <1>8 DEF IsStore
  <1>10. ASSUME NEW j \in DOMAIN t.intents PROVE IntentFits(t, j)
    <2>1. IntentFits(s, j) /\ t.seenSource = s.seenSource
      BY <1>1, <1>8 DEF CopyFits
    <2>2. \A k \in DOMAIN t.intents : t.intents[k].fill = s.intents[k].fill
      BY <1>4, <1>8
    <2>3. CASE j # i
      <3>1. t.intents[j] = s.intents[j]
        BY <1>8, <2>3
      <3> QED
        BY <1>8, <2>1, <2>2, <3>1 DEF IntentFits
    <2>4. CASE j = i
      <3>1. \A k \in DOMAIN intent.orders : intent.orders[k] = <<i, k>>
        BY <1>6, <2>1, <2>4 DEF IntentFits
      <3>2. intent.order = <<i, n>> /\ n \in DOMAIN intent.orders
        BY <1>4, <1>6
      <3> QED
        BY <1>8, <2>1, <2>2, <2>4, <3>1, <3>2 DEF IntentFits
    <2> QED
      BY <2>3, <2>4
  <1>11. ASSUME NEW g \in DOMAIN sent
         PROVE  HedgeFits(t, g, sent[g]) /\ g # h
    <2>1. HedgeFits(s, g, sent[g])
      BY DEF CopyFits
    <2>2. CASE g[1] # i
      <3>1. t.intents[g[1]] = s.intents[g[1]]
        BY <1>8, <2>1, <2>2 DEF HedgeFits
      <3> QED
        BY <1>8, <2>1, <2>2, <3>1 DEF HedgeFits
    <2>3. CASE g[1] = i
      <3>1. /\ g[2] \in DOMAIN s.intents[i].orders /\ g = <<g[1], g[2]>>
            /\ s.intents[i].fill = sent[g].fill /\ sent[g].index <= s.intents[i].leg
            /\ sent[g].index = s.intents[i].leg => s.intents[i].order = g
        BY <2>1, <2>3 DEF HedgeFits
      <3>2. g # NoHedge
        <4>1. i # 0
          BY SeqFacts DEF IsStore
        <4> QED
          BY <2>3, <3>1, <4>1 DEF NoHedge
      <3>3. sent[g].index # s.intents[i].leg
        BY <3>1, <3>2
      <3>4. g # h
        BY <1>6, <3>1
      <3> QED
        BY <1>4, <1>6, <1>8, <2>3, <3>1, <3>3, <3>4 DEF HedgeFits
    <2> QED
      BY <2>2, <2>3
  <1>12. h # NoHedge
    <2>1. i # 0
      BY SeqFacts DEF IsStore
    <2> QED
      BY <2>1 DEF NoHedge
  <1>13. ASSUME NEW o \in DOMAIN t.orders PROVE OrderFits(t, o, src[o])
    <2>1. OrderFits(s, o, src[o]) /\ t.orders = s.orders /\ t.seenSource = s.seenSource
      BY <1>1 DEF CopyFits
    <2> QED
      BY <2>1 DEF OrderFits
  <1>14. CopyFits(t, src, sent, once)
    BY <1>1, <1>10, <1>11, <1>13 DEF CopyFits
  <1> QED
    BY <1>4, <1>8, <1>9, <1>11, <1>12, <1>14

\* From s to t the k-th trade of order o, of quantity q, was entered.
Noted(s, t, o, k, q) ==
    /\ IsStore(t) /\ t.intents = s.intents /\ t.frozen = s.frozen /\ t.residual = s.residual
    /\ t.seenSource = s.seenSource \union {<<o, k>>}
    /\ DOMAIN t.orders = DOMAIN s.orders
    /\ \A n \in DOMAIN s.orders : /\ t.orders[n].quantity = s.orders[n].quantity
                                  /\ t.orders[n].side = s.orders[n].side
                                  /\ n # o => t.orders[n].filled = s.orders[n].filled
    /\ t.orders[o].filled = s.orders[o].filled + q
    /\ \/ t.active = s.active
       \/ /\ t.active = NoOrder /\ s.active = o
          /\ s.orders[o].filled + q >= s.orders[o].quantity
    /\ s.halt = Held => t.halt = Held

\* A fill is entered in the record of its order.
LEMMA NoteFill ==
  ASSUME NEW s, IsStore(s), NEW o \in DOMAIN s.orders, NEW k, NEW q \in Nat,
         NEW t, t = NoteSourceFill(s, <<o, k>>, q)
  PROVE  Noted(s, t, o, k, q)
  <1> DEFINE filled == s.orders[o].filled + q
             whole == filled >= s.orders[o].quantity
             status == IF whole THEN "FILLED" ELSE "PARTIALLY_FILLED"
             seen == s.seenSource \union {<<o, k>>}
             a == [s EXCEPT !.seenSource = seen]
             b == [a EXCEPT !.orders[o].filled = filled]
             c == [b EXCEPT !.orders[o].status = status]
  <1>1. t = IF whole THEN FilledSource(c, o) ELSE c
    BY DEF NoteSourceFill
  <1>2. filled \in Nat
    BY DEF IsStore, IsOrder
  <1> HIDE DEF filled, whole, status, seen
  <1>3. /\ DOMAIN a = StoreFields /\ a.orders = s.orders /\ a.intents = s.intents
        /\ a.active = s.active /\ a.frozen = s.frozen /\ a.seenSource = seen
        /\ a.halt = s.halt /\ a.residual = s.residual
    BY DEF IsStore, StoreFields
  <1> HIDE DEF a
  <1> DEFINE x == [s.orders[o] EXCEPT !.filled = filled]
             y == [x EXCEPT !.status = status]
  <1>4. /\ DOMAIN b = StoreFields /\ b.orders = [s.orders EXCEPT ![o] = x] /\ b.intents = s.intents
        /\ b.active = s.active /\ b.frozen = s.frozen /\ b.seenSource = seen
        /\ b.halt = s.halt /\ b.residual = s.residual
    BY <1>3 DEF StoreFields
  <1> HIDE DEF b
  <1>5. IsOrder(x) /\ x.filled = filled /\ x.quantity = s.orders[o].quantity
        /\ x.side = s.orders[o].side
    BY <1>2 DEF IsStore, IsOrder, OrderFields
  <1>6. b.orders[o] = x
    BY <1>4, SeqExcept DEF IsStore
  <1> HIDE DEF x
  <1>7. IsOrder(y) /\ y.filled = filled /\ y.quantity = s.orders[o].quantity
        /\ y.side = s.orders[o].side
    BY <1>5 DEF IsOrder, OrderFields
  <1>8. /\ DOMAIN c = StoreFields /\ c.orders = [b.orders EXCEPT ![o] = y] /\ c.intents = s.intents
        /\ c.active = s.active /\ c.frozen = s.frozen /\ c.seenSource = seen
        /\ c.halt = s.halt /\ c.residual = s.residual
    BY <1>4, <1>6 DEF StoreFields
  <1> HIDE DEF c, y
  <1>9. /\ IsSeq(b.orders) /\ DOMAIN b.orders = DOMAIN s.orders
        /\ \A n \in DOMAIN s.orders : n # o => b.orders[n] = s.orders[n]
    BY <1>4, SeqExcept DEF IsStore
  <1>10. /\ IsSeq(c.orders) /\ DOMAIN c.orders = DOMAIN s.orders /\ c.orders[o] = y
         /\ \A n \in DOMAIN s.orders : n # o => c.orders[n] = b.orders[n]
    BY <1>8, <1>9, SeqExcept
  <1>11. \A n \in DOMAIN s.orders : n # o => c.orders[n] = s.orders[n]
    BY <1>9, <1>10
  <1>12. IsStore(c)
    BY <1>7, <1>8, <1>10, <1>11 DEF IsStore
  <1>13. /\ DOMAIN t = StoreFields /\ t.orders = c.orders /\ t.intents = c.intents
         /\ t.frozen = c.frozen /\ t.seenSource = c.seenSource /\ t.residual = c.residual
         /\ t.active = c.active \/ (t.active = NoOrder /\ c.active = o /\ whole)
         /\ c.halt = Held => t.halt = Held
    <2>1. CASE ~whole \/ c.active # o
      BY <1>1, <1>8, <2>1 DEF FilledSource
    <2>2. CASE whole /\ c.active = o
      <3>1. Held # AwaitsReport(o)
        BY DEF Held, AwaitsReport
      <3> DEFINE halt == IF c.halt = AwaitsReport(o) THEN NoHalt ELSE c.halt
                 d == [c EXCEPT !.active = NoOrder]
      <3>2. t = [d EXCEPT !.halt = halt]
        BY <1>1, <1>8, <2>2 DEF FilledSource, StoreFields
      <3>3. c.halt = Held => halt = Held
        BY <3>1
      <3> HIDE DEF halt
      <3>4. /\ DOMAIN d = StoreFields /\ d.orders = c.orders /\ d.intents = c.intents
            /\ d.frozen = c.frozen /\ d.seenSource = c.seenSource /\ d.active = NoOrder
            /\ d.residual = c.residual
        BY <1>8 DEF StoreFields
      <3> HIDE DEF d
      <3>5. /\ DOMAIN t = StoreFields /\ t.orders = d.orders /\ t.intents = d.intents
            /\ t.frozen = d.frozen /\ t.seenSource = d.seenSource /\ t.active = d.active
            /\ t.halt = halt /\ t.residual = d.residual
        BY <3>2, <3>4 DEF StoreFields
      <3> QED
        BY <2>2, <3>3, <3>4, <3>5
    <2> QED
      BY <2>1, <2>2
  <1>14. IsStore(t)
    BY <1>12, <1>13 DEF IsStore
  <1>15. \A n \in DOMAIN s.orders : /\ t.orders[n].quantity = s.orders[n].quantity
                                    /\ t.orders[n].side = s.orders[n].side
    BY <1>7, <1>10, <1>11, <1>13
  <1>16. \A n \in DOMAIN s.orders : n # o => t.orders[n].filled = s.orders[n].filled
    BY <1>11, <1>13
  <1>17. t.orders[o].filled = filled
    BY <1>7, <1>10, <1>13
  <1> QED
    BY <1>8, <1>10, <1>13, <1>14, <1>15, <1>16, <1>17 DEF Noted, filled, whole, seen

\* A copy that notes a trade the venue made fits.
LEMMA NoteFits ==
  ASSUME NEW s, NEW src, NEW sent, NEW once, CopyFits(s, src, sent, once), IsStore(s),
         \A o \in SourceIds : IsTruth(src[o]) /\ VenueFits(src[o]),
         NEW o \in DOMAIN s.orders, NEW k \in DOMAIN src[o].fills, <<o, k>> \notin s.seenSource,
         NEW t, t = NoteSourceFill(s, <<o, k>>, src[o].fills[k])
  PROVE  IsStore(t) /\ CopyFits(t, src, sent, once)
  <1> DEFINE q == src[o].fills[k]
             D == DOMAIN src[o].fills
             Seen(b) == {n \in D : <<o, n>> \in b.seenSource}
  <1>1. o \in SourceIds /\ IsTruth(src[o]) /\ VenueFits(src[o])
    BY DEF CopyFits
  <1>2. q \in Nat
    BY <1>1 DEF IsTruth
  <1>3. /\ IsStore(t) /\ t.intents = s.intents /\ t.frozen = s.frozen
        /\ t.seenSource = s.seenSource \union {<<o, k>>}
        /\ DOMAIN t.orders = DOMAIN s.orders
        /\ \A n \in DOMAIN s.orders : /\ t.orders[n].quantity = s.orders[n].quantity
                                      /\ n # o => t.orders[n].filled = s.orders[n].filled
        /\ t.orders[o].filled = s.orders[o].filled + q
        /\ \/ t.active = s.active
           \/ /\ t.active = NoOrder /\ s.active = o
              /\ s.orders[o].filled + q >= s.orders[o].quantity
    <2>1. t = NoteSourceFill(s, <<o, k>>, q)
      OBVIOUS
    <2> HIDE DEF q
    <2>2. Noted(s, t, o, k, q)
      BY <1>2, <2>1, NoteFill
    <2> QED
      BY <2>2 DEF Noted
  <1>4. PICK m \in [SUBSET D -> 0 .. src[o].filled] :
           /\ Weighs(m, src[o].fills) /\ m[D] = src[o].filled
           /\ s.orders[o].filled = m[Seen(s)]
    BY DEF CopyFits, OrderFits
  <1>5. Seen(t) = Seen(s) \union {k}
    BY <1>3
  <1>6. Seen(s) \in SUBSET D /\ k \in D \ Seen(s) /\ Seen(t) \in SUBSET D
    OBVIOUS
  <1>7. m[Seen(s) \union {k}] = m[Seen(s)] + q
    BY <1>4, <1>6 DEF Weighs
  <1>8. t.orders[o].filled = m[Seen(t)] /\ m[Seen(t)] <= m[D] /\ m[Seen(t)] \in Nat
    <2>1. m[Seen(t)] <= m[D]
      BY <1>4, <1>6 DEF Weighs
    <2>2. m[Seen(t)] \in 0 .. src[o].filled
      BY <1>6
    <2>3. t.orders[o].filled = m[Seen(t)]
      BY <1>3, <1>4, <1>5, <1>7
    <2>4. src[o].filled \in Nat
      BY <1>1 DEF IsTruth
    <2>5. PICK w, n : w = m[Seen(t)] /\ n = src[o].filled
      OBVIOUS
    <2>6. w \in Nat
      <3>1. w \in 0 .. n /\ n \in Nat
        BY <2>2, <2>4, <2>5
      <3> QED
        BY <3>1
    <2> QED
      BY <2>1, <2>3, <2>5, <2>6
  <1>9. ASSUME NEW n \in DOMAIN t.orders PROVE OrderFits(t, n, src[n])
    <2>1. OrderFits(s, n, src[n])
      BY <1>3 DEF CopyFits
    <2>2. CASE n = o
      <3>1. src[o].state # "absent" => t.orders[o].quantity = src[o].quantity
        BY <1>3, <2>1, <2>2 DEF OrderFits
      <3> QED
        BY <1>4, <1>8, <2>2, <3>1 DEF OrderFits
    <2>3. CASE n # o
      <3>1. {j \in DOMAIN src[n].fills : <<n, j>> \in t.seenSource}
               = {j \in DOMAIN src[n].fills : <<n, j>> \in s.seenSource}
        BY <1>3, <2>3
      <3>2. t.orders[n].quantity = s.orders[n].quantity /\ t.orders[n].filled = s.orders[n].filled
        BY <1>3, <2>3
      <3> QED
        BY <2>1, <3>1, <3>2 DEF OrderFits
    <2> QED
      BY <2>2, <2>3
  <1>10. \/ t.active = s.active
         \/ t.active = NoOrder /\ \A n \in SourceIds : src[n].state # "open"
    <2> SUFFICES ASSUME t.active = NoOrder, s.active = o,
                        s.orders[o].filled + q >= s.orders[o].quantity,
                        NEW n \in SourceIds, src[n].state = "open"
                 PROVE  FALSE
      BY <1>3
    <2>1. n = o
      BY DEF CopyFits
    <2>2. src[o].filled < src[o].quantity
      BY <2>1, <1>1 DEF VenueFits
    <2>3. s.orders[o].quantity = src[o].quantity
      BY <2>1 DEF CopyFits, OrderFits
    <2>4. PICK v, w : v = m[Seen(t)] /\ w = m[D]
      OBVIOUS
    <2>5. v >= src[o].quantity
      <3>1. t.orders[o].filled >= s.orders[o].quantity
        BY <1>3
      <3>2. v = t.orders[o].filled
        BY <1>8, <2>4
      <3> QED
        BY <2>3, <3>1, <3>2
    <2>6. v \in Nat /\ v <= w
      BY <1>8, <2>4
    <2>7. w = src[o].filled
      BY <1>4, <2>4
    <2>8. src[o].filled \in Nat /\ src[o].quantity \in Nat
      BY <1>1 DEF IsTruth
    <2> QED
      BY <2>2, <2>5, <2>6, <2>7, <2>8
  <1>11. \A f \in t.seenSource :
          f = <<f[1], f[2]>> /\ f[1] \in DOMAIN t.orders /\ f[2] \in DOMAIN src[f[1]].fills
    <2>1. \A f \in s.seenSource :
             f = <<f[1], f[2]>> /\ f[1] \in DOMAIN s.orders /\ f[2] \in DOMAIN src[f[1]].fills
      BY DEF CopyFits
    <2>2. DOMAIN t.orders = DOMAIN s.orders /\ t.seenSource = s.seenSource \union {<<o, k>>}
      BY <1>3
    <2> QED
      BY <2>1, <2>2
  <1>12. ASSUME NEW i \in DOMAIN t.intents PROVE IntentFits(t, i)
    <2>1. t.intents = s.intents /\ s.seenSource \subseteq t.seenSource
      BY <1>3
    <2>2. IntentFits(s, i)
      BY <2>1 DEF CopyFits
    <2> QED
      BY <2>1, <2>2 DEF IntentFits
  <1>13. \A h \in DOMAIN sent : HedgeFits(t, h, sent[h])
    <2>1. t.intents = s.intents
      BY <1>3
    <2>2. \A h \in DOMAIN sent : HedgeFits(s, h, sent[h])
      BY DEF CopyFits
    <2> QED
      BY <2>1, <2>2 DEF HedgeFits
  <1>14. /\ t.active \in {NoOrder} \union DOMAIN t.orders /\ DOMAIN t.orders \subseteq SourceIds
         /\ \A n \in SourceIds : src[n].state = "open" => t.active = n
         /\ \A n \in SourceIds : src[n].state # "absent" => n \in DOMAIN t.orders
         /\ once => DOMAIN t.orders \subseteq {1} /\ (DOMAIN t.orders # {} => t.frozen)
    BY <1>3, <1>10 DEF CopyFits
  <1> QED
    BY <1>3, <1>9, <1>11, <1>12, <1>13, <1>14 DEF CopyFits

\* The whole ounces of what is to be hedged become an intent.
LEMMA AllocateFits ==
  ASSUME NEW s, NEW src, NEW sent, NEW once, CopyFits(s, src, sent, once), IsStore(s),
         NEW fill \in s.seenSource, \A i \in DOMAIN s.intents : s.intents[i].fill # fill,
         NEW signed, NEW exit, NEW t, t = AllocateSourceFill(s, fill, signed, exit)
  PROVE  IsStore(t) /\ CopyFits(t, src, sent, once)
  <1> DEFINE total == s.residual + signed
             rounded == RoundHedgeOunces(total)
             rest == total - Unit * rounded
             u == [s EXCEPT !.residual = rest]
             n == Len(s.intents) + 1
             new == NewIntent(fill, IF rounded > 0 THEN -1 ELSE 1, Size(rounded), exit)
  <1>1. t = AddIntent(u, fill, rounded, exit)
    BY DEF AllocateSourceFill
  <1> HIDE DEF rest
  <1>2. /\ DOMAIN u = StoreFields /\ u.orders = s.orders /\ u.intents = s.intents
        /\ u.active = s.active /\ u.frozen = s.frozen /\ u.seenSource = s.seenSource
    BY DEF IsStore, StoreFields
  <1> HIDE DEF u
  <1>3. /\ DOMAIN t = StoreFields /\ t.orders = s.orders
        /\ t.active = s.active /\ t.frozen = s.frozen /\ t.seenSource = s.seenSource
        /\ t.intents = s.intents \/ t.intents = Append(s.intents, new)
    BY <1>1, <1>2 DEF AddIntent, StoreFields
  <1>4. /\ DOMAIN new = IntentFields /\ new.fill = fill /\ new.leg = 0 /\ new.order = NoHedge
        /\ new.orders = <<>>
    BY DEF NewIntent, IntentFields
  <1> HIDE DEF new
  <1>5. IsIntent(new)
    <2>1. IsSeq(<<>>)
      <3>1. <<>> = [j \in 1 .. 0 |-> <<>>[j]]
        OBVIOUS
      <3> QED
        BY <3>1, SeqIntro
    <2> QED
      BY <1>4, <2>1 DEF IsIntent
  <1>6. /\ IsSeq(t.intents) /\ DOMAIN s.intents \subseteq DOMAIN t.intents
        /\ DOMAIN t.intents \subseteq DOMAIN s.intents \union {n} /\ n \notin DOMAIN s.intents
        /\ \A i \in DOMAIN s.intents : t.intents[i] = s.intents[i]
        /\ n \in DOMAIN t.intents => t.intents[n] = new
    <2>1. IsSeq(s.intents)
      BY DEF IsStore
    <2>2. n \in Nat \ {0} /\ DOMAIN s.intents = 1 .. n - 1
      BY <2>1, SeqFacts
    <2>3. /\ IsSeq(Append(s.intents, new)) /\ DOMAIN Append(s.intents, new) = 1 .. n
          /\ \A i \in DOMAIN s.intents : Append(s.intents, new)[i] = s.intents[i]
          /\ Append(s.intents, new)[n] = new
      BY <2>1, Appended
    <2> HIDE DEF n
    <2>4. 1 .. n = (1 .. n - 1) \union {n} /\ n \notin 1 .. n - 1
      BY <2>2
    <2>5. CASE t.intents = s.intents
      BY <2>1, <2>2, <2>4, <2>5
    <2>6. CASE t.intents = Append(s.intents, new)
      BY <2>2, <2>3, <2>4, <2>6
    <2> QED
      BY <1>3, <2>5, <2>6
  <1> HIDE DEF n
  <1>7. IsStore(t)
    <2>1. \A i \in DOMAIN t.intents : IsIntent(t.intents[i])
      BY <1>5, <1>6 DEF IsStore
    <2> QED
      BY <1>3, <1>6, <2>1 DEF IsStore
  <1>8. ASSUME NEW i \in DOMAIN t.intents PROVE IntentFits(t, i)
    <2>1. CASE i \in DOMAIN s.intents
      <3>1. IntentFits(s, i) /\ t.intents[i] = s.intents[i] /\ s.intents[i].fill # fill
        BY <1>6, <2>1 DEF CopyFits
      <3>2. \A j \in DOMAIN t.intents : t.intents[j].fill = t.intents[i].fill => j = i
        BY <1>4, <1>6, <2>1, <3>1 DEF IntentFits
      <3> QED
        BY <1>3, <3>1, <3>2 DEF IntentFits
    <2>2. CASE i = n
      <3>1. t.intents[n] = new
        BY <1>6, <2>2
      <3>2. \A j \in DOMAIN t.intents : t.intents[j].fill = fill => j = n
        BY <1>6
      <3>3. DOMAIN new.orders = {}
        BY <1>4
      <3> QED
        BY <1>3, <1>4, <2>2, <3>1, <3>2, <3>3 DEF IntentFits
    <2> QED
      BY <1>6, <2>1, <2>2
  <1>9. ASSUME NEW h \in DOMAIN sent PROVE HedgeFits(t, h, sent[h])
    <2>1. HedgeFits(s, h, sent[h])
      BY DEF CopyFits
    <2>2. h[1] \in DOMAIN t.intents /\ t.intents[h[1]] = s.intents[h[1]]
      BY <1>6, <2>1 DEF HedgeFits
    <2> QED
      BY <2>1, <2>2 DEF HedgeFits
  <1>10. ASSUME NEW o \in DOMAIN t.orders PROVE OrderFits(t, o, src[o])
    <2>1. OrderFits(s, o, src[o])
      BY <1>3 DEF CopyFits
    <2> QED
      BY <1>3, <2>1 DEF OrderFits
  <1> QED
    BY <1>3, <1>7, <1>8, <1>9, <1>10 DEF CopyFits

\* reserve_source_fill: a copy that notes a trade and reserves what is due fits.
LEMMA ReserveFits ==
  ASSUME NEW s, NEW src, NEW sent, NEW once, CopyFits(s, src, sent, once), IsStore(s),
         \A o \in SourceIds : IsTruth(src[o]) /\ VenueFits(src[o]),
         NEW o \in DOMAIN s.orders, NEW k \in DOMAIN src[o].fills, <<o, k>> \notin s.seenSource
  PROVE  /\ IsStore(ReserveSourceFill(s, <<o, k>>, src[o].fills[k]))
         /\ CopyFits(ReserveSourceFill(s, <<o, k>>, src[o].fills[k]), src, sent, once)
  <1> DEFINE q == src[o].fills[k]
  <1>1. PICK u : u = NoteSourceFill(s, <<o, k>>, q)
    OBVIOUS
  <1>2. IsStore(u) /\ CopyFits(u, src, sent, once)
    BY <1>1, NoteFits
  <1>3. q \in Nat
    BY DEF CopyFits, IsTruth
  <1>4. u.intents = s.intents /\ <<o, k>> \in u.seenSource
    <2>1. Noted(s, u, o, k, q)
      BY <1>1, <1>3, NoteFill
    <2> QED
      BY <2>1 DEF Noted
  <1>5. \A i \in DOMAIN u.intents : u.intents[i].fill # <<o, k>>
    BY <1>4 DEF CopyFits, IntentFits
  <1>6. PICK t : t = AllocateSourceFill(u, <<o, k>>, s.orders[o].side * q, s.orders[o].exit)
    OBVIOUS
  <1>7. ReserveSourceFill(s, <<o, k>>, q) = t
    BY <1>1, <1>6 DEF ReserveSourceFill
  <1>8. IsStore(t) /\ CopyFits(t, src, sent, once)
    BY <1>2, <1>4, <1>5, <1>6, AllocateFits
  <1> QED
    BY <1>7, <1>8

-----------------------------------------------------------------------------
(* What the venues may do                                                  *)

\* One more trade at the source venue: every copy still fits.
LEMMA TradeFits ==
  ASSUME NEW s, NEW src, NEW sent, NEW once, CopyFits(s, src, sent, once),
         NEW o \in SourceIds, IsTruth(src[o]), src[o].state = "open",
         NEW e \in Nat, NEW truth, truth.fills = Append(src[o].fills, e),
         truth.filled = src[o].filled + e, truth.quantity = src[o].quantity,
         NEW v, \A n \in SourceIds : v[n] = IF n = o THEN truth ELSE src[n]
  PROVE  CopyFits(s, v, sent, once)
  <1> DEFINE q == src[o].fills
             r == truth.fills
             k == Len(q) + 1
             Seen(l) == {n \in DOMAIN l : <<o, n>> \in s.seenSource}
  <1>1. /\ IsSeq(q) /\ (\A n \in DOMAIN q : q[n] \in Nat) /\ src[o].filled \in Nat
        /\ o \in DOMAIN s.orders /\ OrderFits(s, o, src[o]) /\ s.active = o
    BY DEF CopyFits, IsTruth
  <1>2. DOMAIN q \subseteq DOMAIN r /\ DOMAIN r = DOMAIN q \union {k} /\ k \notin DOMAIN q
    <2>1. DOMAIN r = 1 .. k
      BY <1>1, Appended
    <2>2. k \in Nat \ {0} /\ DOMAIN q = 1 .. k - 1
      BY <1>1, SeqFacts
    <2> HIDE DEF k, q, r
    <2>3. 1 .. k = (1 .. k - 1) \union {k} /\ k \notin 1 .. k - 1
      BY <2>2
    <2> QED
      BY <2>1, <2>2, <2>3
  <1>3. PICK m \in [SUBSET DOMAIN q -> 0 .. src[o].filled] :
           /\ Weighs(m, q) /\ m[DOMAIN q] = src[o].filled
           /\ s.orders[o].filled = m[Seen(q)]
    BY <1>1 DEF OrderFits
  <1>4. PICK w \in [SUBSET DOMAIN r -> 0 .. truth.filled] :
           /\ Weighs(w, r) /\ w[DOMAIN r] = truth.filled
           /\ \A S \in SUBSET DOMAIN q : w[S] = m[S]
    <2> DEFINE total == src[o].filled
    <2>1. IsSeq(q) /\ (\A n \in DOMAIN q : q[n] \in Nat) /\ total \in Nat
      BY <1>1
    <2>2. Measures(m, q, total)
      BY <1>3 DEF Measures
    <2>3. r = Append(q, e) /\ truth.filled = total + e
      OBVIOUS
    <2> HIDE DEF q, r, total
    <2>4. NatSeq(q)
      BY <2>1 DEF NatSeq
    <2>5. PICK w : Measures(w, Append(q, e), total + e) /\ Agree(w, m, q)
      <3>1. total \in Nat
        BY <2>1
      <3> QED
        BY <3>1, <2>2, <2>4, WeightsExtend
    <2> QED
      BY <2>3, <2>5 DEF Measures, Agree
  <1>5. Seen(r) = Seen(q)
    <2>1. <<o, k>> \notin s.seenSource
      <3>1. \A f \in s.seenSource : f[2] \in DOMAIN src[f[1]].fills
        BY DEF CopyFits
      <3> QED
        BY <1>2, <3>1
    <2> HIDE DEF k, q, r
    <2> QED
      BY <1>2, <2>1
  <1>6. OrderFits(s, o, truth)
    <2>1. s.orders[o].filled = w[Seen(r)]
      BY <1>3, <1>4, <1>5
    <2>2. s.orders[o].quantity = truth.quantity
      BY <1>1 DEF OrderFits
    <2> QED
      BY <1>4, <2>1, <2>2 DEF OrderFits
  <1>7. \A n \in DOMAIN s.orders : OrderFits(s, n, v[n])
    BY <1>6 DEF CopyFits
  <1>8. \A f \in s.seenSource :
          f = <<f[1], f[2]>> /\ f[1] \in DOMAIN s.orders /\ f[2] \in DOMAIN v[f[1]].fills
    <2> SUFFICES ASSUME NEW f \in s.seenSource
                 PROVE  /\ f = <<f[1], f[2]>> /\ f[1] \in DOMAIN s.orders
                        /\ f[2] \in DOMAIN v[f[1]].fills
      OBVIOUS
    <2>1. /\ f = <<f[1], f[2]>> /\ f[1] \in DOMAIN s.orders /\ f[1] \in SourceIds
          /\ f[2] \in DOMAIN src[f[1]].fills
      BY DEF CopyFits
    <2>2. CASE f[1] = o
      BY <1>2, <2>1, <2>2
    <2>3. CASE f[1] # o
      BY <2>1, <2>3
    <2> QED
      BY <2>2, <2>3
  <1>9. \A n \in SourceIds : /\ v[n].state # "absent" => n \in DOMAIN s.orders
                             /\ v[n].state = "open" => s.active = n
    BY <1>1 DEF CopyFits
  <1> QED
    BY <1>7, <1>8, <1>9 DEF CopyFits

\* The order at the source venue ends: every copy still fits.
LEMMA EndFits ==
  ASSUME NEW s, NEW src, NEW sent, NEW once, CopyFits(s, src, sent, once),
         NEW o \in SourceIds, src[o].state = "open",
         NEW truth, IsTruth(truth), truth.state # "absent", truth.state # "open",
         truth.fills = src[o].fills, truth.filled = src[o].filled,
         truth.quantity = src[o].quantity,
         NEW v, \A n \in SourceIds : v[n] = IF n = o THEN truth ELSE src[n]
  PROVE  CopyFits(s, v, sent, once)
  <1>1. o \in DOMAIN s.orders /\ OrderFits(s, o, src[o])
    BY DEF CopyFits
  <1>2. OrderFits(s, o, truth)
    BY <1>1 DEF OrderFits
  <1>3. \A n \in DOMAIN s.orders : OrderFits(s, n, v[n])
    BY <1>2 DEF CopyFits
  <1>4. \A n \in SourceIds : v[n].fills = src[n].fills
    OBVIOUS
  <1>5. \A f \in s.seenSource :
          f = <<f[1], f[2]>> /\ f[1] \in DOMAIN s.orders /\ f[2] \in DOMAIN v[f[1]].fills
    BY <1>4 DEF CopyFits
  <1>6. \A n \in SourceIds : /\ v[n].state # "absent" => n \in DOMAIN s.orders
                             /\ v[n].state = "open" => s.active = n
    BY <1>1 DEF CopyFits
  <1> QED
    BY <1>3, <1>5, <1>6 DEF CopyFits

\* submit_order: the order reaches the venue, and every copy knows it.
LEMMA SendFits ==
  ASSUME NEW s, NEW src, NEW sent, NEW once, CopyFits(s, src, sent, once),
         NEW o \in SourceIds, VenueFits(src[o]), src[o].state = "absent",
         o \in DOMAIN s.orders, s.active = o,
         NEW truth, truth.state = "open", truth.fills = <<>>, truth.filled = 0,
         truth.quantity = s.orders[o].quantity,
         NEW v, \A n \in SourceIds : v[n] = IF n = o THEN truth ELSE src[n]
  PROVE  CopyFits(s, v, sent, once)
  <1>1. /\ truth.fills = src[o].fills /\ truth.filled = src[o].filled
        /\ OrderFits(s, o, src[o])
    BY DEF CopyFits, VenueFits
  <1>2. OrderFits(s, o, truth)
    <2>1. PICK m \in [SUBSET DOMAIN src[o].fills -> 0 .. src[o].filled] :
             /\ Weighs(m, src[o].fills) /\ m[DOMAIN src[o].fills] = src[o].filled
             /\ s.orders[o].filled
                   = m[{k \in DOMAIN src[o].fills : <<o, k>> \in s.seenSource}]
      BY <1>1 DEF OrderFits
    <2>2. \E n \in [SUBSET DOMAIN truth.fills -> 0 .. truth.filled] :
             /\ Weighs(n, truth.fills) /\ n[DOMAIN truth.fills] = truth.filled
             /\ s.orders[o].filled = n[{k \in DOMAIN truth.fills : <<o, k>> \in s.seenSource}]
      BY <1>1, <2>1
    <2> QED
      BY <2>2 DEF OrderFits
  <1>3. \A n \in DOMAIN s.orders : OrderFits(s, n, v[n])
    BY <1>2 DEF CopyFits
  <1>4. \A n \in SourceIds : v[n].fills = src[n].fills
    BY <1>1
  <1>5. \A f \in s.seenSource :
          f = <<f[1], f[2]>> /\ f[1] \in DOMAIN s.orders /\ f[2] \in DOMAIN v[f[1]].fills
    BY <1>4 DEF CopyFits
  <1>6. \A n \in SourceIds : /\ v[n].state # "absent" => n \in DOMAIN s.orders
                             /\ v[n].state = "open" => s.active = n
    BY DEF CopyFits
  <1> QED
    BY <1>3, <1>5, <1>6 DEF CopyFits

\* The broker decides on an order: which leg it was of stays.
LEMMA HedgesFit ==
  ASSUME NEW s, NEW src, NEW sent, NEW once, CopyFits(s, src, sent, once),
         NEW v, DOMAIN v = DOMAIN sent,
         \A h \in DOMAIN sent : v[h].fill = sent[h].fill /\ v[h].index = sent[h].index
  PROVE  CopyFits(s, src, v, once)
  BY DEF CopyFits, HedgeFits

\* submit_order: the leg's order reaches the broker.
LEMMA HedgeSendFits ==
  ASSUME NEW s, NEW src, NEW sent, NEW once, CopyFits(s, src, sent, once), IsStore(s),
         NEW i \in DOMAIN s.intents, s.intents[i].order \notin DOMAIN sent \union {NoHedge},
         NEW new, new.fill = s.intents[i].fill, new.index = s.intents[i].leg,
         NEW v, DOMAIN v = DOMAIN sent \union {s.intents[i].order},
         \A h \in DOMAIN sent : v[h] = sent[h],
         v[s.intents[i].order] = new
  PROVE  CopyFits(s, src, v, once)
  <1> DEFINE h == s.intents[i].order
  <1>1. PICK n \in DOMAIN s.intents[i].orders : h = <<i, n>>
    BY DEF CopyFits, IntentFits
  <1>2. s.intents[i].leg \in Nat
    BY DEF IsStore, IsIntent
  <1>3. HedgeFits(s, h, v[h])
    BY <1>1, <1>2 DEF HedgeFits
  <1>4. \A g \in DOMAIN v : HedgeFits(s, g, v[g])
    BY <1>3 DEF CopyFits
  <1> QED
    BY <1>4 DEF CopyFits

\* The leg an intent is at, with no order of its own out yet, was never sent.
LEMMA LegsStayApart ==
  ASSUME NEW s, NEW src, NEW once, CopyFits(s, src, hedges, once),
         NEW i \in DOMAIN s.intents, s.intents[i].order \notin DOMAIN hedges \union {NoHedge},
         NEW h \in DOMAIN hedges, hedges[h].fill = s.intents[i].fill
  PROVE  hedges[h].index # s.intents[i].leg
  <1>1. HedgeFits(s, h, hedges[h])
    BY DEF CopyFits
  <1>2. h[1] = i
    BY <1>1 DEF CopyFits, IntentFits, HedgeFits
  <1> QED
    BY <1>1, <1>2 DEF HedgeFits

-----------------------------------------------------------------------------
(* The invariant, and the ways a step keeps it. *)

\* The records have their fields: what the invariant of the module presumes.
Shapes ==
    /\ IsStore(mem) /\ IsStore(disk) /\ IsStore(durable)
    /\ DOMAIN source = SourceIds /\ \A o \in SourceIds : IsTruth(source[o])
    /\ \A h \in DOMAIN hedges : IsHedge(hedges[h])

Inv == Shapes /\ TakerInv

Good(s) == IsStore(s) /\ CopyFits(s, source, hedges, OneShot)

\* In the invariant, all three copies are good.
LEMMA CopiesAreGood ==
  ASSUME Inv
  PROVE  Good(mem) /\ Good(disk) /\ Good(durable)
  BY DEF Inv, Shapes, TakerInv, Good

\* A step that changes the store and nothing the venues know.
LEMMA StoreStep ==
  ASSUME Inv, Good(mem'), Good(disk'), Good(durable'), DoingFits',
         UNCHANGED <<source, hedges, mode>>
  PROVE  Inv'
  <1>1. Shapes'
    BY DEF Inv, Shapes, Good
  <1>2. \A s \in {mem', disk', durable'} : CopyFits(s, source', hedges', OneShot')
    BY DEF Good, OneShot
  <1>3. LegSentOnce'
    BY DEF Inv, TakerInv, LegSentOnce
  <1>4. \A o \in SourceIds : VenueFits(source'[o])
    BY DEF Inv, TakerInv
  <1> QED
    BY <1>1, <1>2, <1>3, <1>4 DEF Inv, TakerInv

\* A callback that is over needs nothing.
LEMMA IdleFits ==
  ASSUME doing' = Idle
  PROVE  DoingFits'
  BY DEF DoingFits, Idle

\* What needs nothing to go on with.
LEMMA GoesOnFits ==
  ASSUME NEW step, step \notin {"submit source", "submit hedge", "bind"}, NEW i,
         doing' = Doing(step, i)
  PROVE  DoingFits'
  <1>1. doing'.step = step
    BY DEF Doing
  <1> QED
    BY <1>1 DEF DoingFits

\* After a write each copy is what it was or what was written.
LEMMA PersistCases ==
  ASSUME NEW s, NEW kept, kept \in {mem, s}, NEW then, NEW n, Persist(s, kept, then, n)
  PROVE  /\ mem' \in {mem, s} /\ disk' \in {disk, s} /\ durable' \in {durable, s}
         /\ \/ doing' = Idle
            \/ doing' = then /\ mem' = s /\ disk' = s /\ durable' = s
  BY DEF Persist

\* The callback writes a good value, and what it goes on with fits.
LEMMA PersistStep ==
  ASSUME Inv, NEW s, Good(s), NEW kept, kept \in {mem, s}, NEW then, NEW n,
         Persist(s, kept, then, n), UNCHANGED <<source, hedges, mode>>,
         doing' = then /\ mem' = s /\ disk' = s /\ durable' = s => DoingFits'
  PROVE  Inv'
  <1>1. /\ mem' \in {mem, s} /\ disk' \in {disk, s} /\ durable' \in {durable, s}
        /\ \/ doing' = Idle
           \/ doing' = then /\ mem' = s /\ disk' = s /\ durable' = s
    BY PersistCases
  <1>2. Good(mem') /\ Good(disk') /\ Good(durable')
    BY <1>1, CopiesAreGood
  <1>3. DoingFits'
    BY <1>1, IdleFits
  <1> QED
    BY <1>2, <1>3, StoreStep

\* Nothing is written; the callback ends, or goes on with what fits.
LEMMA QuietStep ==
  ASSUME Inv, UNCHANGED <<mem, disk, durable, source, hedges, mode>>, DoingFits'
  PROVE  Inv'
  <1>1. Good(mem') /\ Good(disk') /\ Good(durable')
    BY CopiesAreGood
  <1> QED
    BY <1>1, StoreStep

\* A good copy that moves nothing the venues see is good.
LEMMA GoodMoves ==
  ASSUME Inv, NEW s, Good(s), NEW t, StoreMoves(s, t),
         \/ t.active = s.active
         \/ t.active = NoOrder /\ \A o \in SourceIds : source[o].state = "open" => s.active # o
  PROVE  Good(t)
  <1>1. IsStore(t)
    BY DEF StoreMoves
  <1>2. \A h \in DOMAIN hedges : IsHedge(hedges[h])
    BY DEF Inv, Shapes
  <1>3. CopyFits(t, source, hedges, OneShot)
    BY <1>2, MovesFit DEF Good
  <1> QED
    BY <1>1, <1>3 DEF Good

-----------------------------------------------------------------------------
(* One lemma per action. *)

\* Nothing happens.
LEMMA StepUnchanged ==
  ASSUME Inv, UNCHANGED vars
  PROVE  Inv'
  <1>1. DoingFits'
    BY DEF Inv, TakerInv, DoingFits, vars, store, process, world
  <1> QED
    BY <1>1, QuietStep DEF vars, store, process, world

\* What is decided in the process alone.
LEMMA StepControl ==
  ASSUME Inv, ReconcileStartup \/ ArmOneShot \/ DisarmOneShot \/ BeginDrain \/ TicketDrifts
  PROVE  Inv'
  <1>1. UNCHANGED <<mem, disk, durable, source, hedges, mode, doing>>
    BY DEF ReconcileStartup, ArmOneShot, DisarmOneShot, BeginDrain, TicketDrifts,
           store, process, world
  <1>2. DoingFits'
    BY <1>1 DEF Inv, TakerInv, DoingFits
  <1> QED
    BY <1>1, <1>2, QuietStep

\* The process starts and recovers its store.
LEMMA StepStart ==
  ASSUME Inv, OnStart
  PROVE  Inv'
  <1> DEFINE s == RecoverForStart(disk)
  <1>1. Good(disk) /\ IsStore(disk) /\ disk.active \in {NoOrder} \union DOMAIN disk.orders
    BY CopiesAreGood DEF Good, CopyFits
  <1>2. Good(s)
    BY <1>1, RecoverMoves, GoodMoves
  <1>3. /\ mem' = s /\ disk' = s /\ durable' \in {durable, s} /\ doing' = Idle
        /\ UNCHANGED <<source, hedges, mode>>
    BY DEF OnStart, world
  <1> HIDE DEF s
  <1>4. Good(mem') /\ Good(disk') /\ Good(durable')
    BY <1>2, <1>3, CopiesAreGood
  <1> QED
    BY <1>3, <1>4, IdleFits, StoreStep

\* A good copy that marks its order unknown is good.
LEMMA GoodUnknown ==
  ASSUME Inv, NEW o
  PROVE  Good(MarkSourceUnknown(mem, o))
  BY CopiesAreGood, UnknownMoves, GoodMoves DEF Good

\* The process stops.
LEMMA StepStop ==
  ASSUME Inv, OnStop
  PROVE  Inv'
  <1> DEFINE s == MarkSourceUnknown(mem, mem.active)
  <1>1. UNCHANGED <<source, hedges, mode>>
    BY DEF OnStop, world
  <1>2. Ends(1) \/ Persist(s, s, Idle, 1) \/ Persist(s, s, Idle, 2)
    BY DEF OnStop
  <1>3. Good(s)
    BY GoodUnknown
  <1> HIDE DEF s
  <1>4. CASE Ends(1)
    BY <1>1, <1>4, IdleFits, QuietStep DEF Ends, store
  <1>5. ASSUME NEW n, Persist(s, s, Idle, n) PROVE Inv'
    BY <1>1, <1>3, <1>5, IdleFits, PersistStep
  <1> QED
    BY <1>2, <1>4, <1>5

\* The process, or the machine, is cut off.
LEMMA StepCrash ==
  ASSUME Inv, Crash
  PROVE  Inv'
  <1>1. /\ UNCHANGED <<mem, durable, source, hedges, mode>> /\ disk' \in {disk, durable}
        /\ doing' = Idle
    BY DEF Crash, world
  <1>2. Good(mem') /\ Good(disk') /\ Good(durable')
    BY <1>1, CopiesAreGood
  <1> QED
    BY <1>1, <1>2, IdleFits, StoreStep

\* A tick: the next source order is begun.
LEMMA StepEvaluate ==
  ASSUME Inv, NEW side \in Sides, NEW quantity \in Quantities, EvaluateAndSubmit(side, quantity)
  PROVE  Inv'
  <1>1. PICK exit : Persist(BeginSource(mem, side, quantity, exit, OneShot),
                            BeginSource(mem, side, quantity, exit, OneShot),
                            Doing("submit source", 0), 0)
    BY DEF EvaluateAndSubmit
  <1>2. /\ CanSubmitSource(mem) /\ Len(mem.orders) < MaxOrders
        /\ UNCHANGED <<source, hedges, mode>>
    BY DEF EvaluateAndSubmit, world
  <1>3. PICK s : s = BeginSource(mem, side, quantity, exit, OneShot)
    OBVIOUS
  <1>4. Persist(s, s, Doing("submit source", 0), 0)
    BY <1>1, <1>3
  <1>5. /\ mem.active = NoOrder /\ ~mem.frozen
    BY <1>2 DEF CanSubmitSource
  <1>6. quantity \in Nat \ {0}
    BY TakerAssumption
  <1>7. \A o \in SourceIds : IsTruth(source[o]) /\ VenueFits(source[o])
    BY DEF Inv, Shapes, TakerInv
  <1>8. /\ IsStore(s) /\ CopyFits(s, source, hedges, OneShot)
        /\ s.active \in DOMAIN s.orders /\ source[s.active].state = "absent"
    BY <1>2, <1>3, <1>5, <1>6, <1>7, CopiesAreGood, BeginFits DEF Good
  <1>9. ASSUME doing' = Doing("submit source", 0), mem' = s, disk' = s, durable' = s
        PROVE  DoingFits'
    BY <1>2, <1>8, <1>9 DEF DoingFits, Doing
  <1> QED
    BY <1>2, <1>4, <1>8, <1>9, PersistStep DEF Good

\* submit_order returns, or raises before or after the order is on its way.
LEMMA StepSubmit ==
  ASSUME Inv, SubmitSource
  PROVE  Inv'
  <1> DEFINE o == mem.active
             s == MarkSourceUnknown(mem, o)
             truth == [state |-> "open", side |-> mem.orders[o].side,
                       quantity |-> mem.orders[o].quantity, fills |-> <<>>, filled |-> 0]
  <1>1. /\ doing.step = "submit source" /\ UNCHANGED <<hedges, mode>>
        /\ \/ Sent(o) /\ Proceed(Idle)
           \/ Persist(s, s, Idle, 1) /\ (Sent(o) \/ UNCHANGED <<source, engine>>)
    BY DEF SubmitSource
  <1>2. /\ disk = mem /\ durable = mem /\ o \in DOMAIN mem.orders
        /\ source[o].state = "absent"
    BY <1>1 DEF Inv, TakerInv, DoingFits
  <1>3. Good(mem) /\ Good(s) /\ StoreMoves(mem, s) /\ s.active = o
    BY CopiesAreGood, GoodUnknown, UnknownMoves DEF Good
  <1>4. o \in SourceIds /\ mem.orders[o].quantity \in Nat \ {0}
    BY <1>2, <1>3 DEF Good, CopyFits, IsStore, IsOrder
  <1>5. /\ mem' \in {mem, s} /\ disk' \in {mem, s} /\ durable' \in {mem, s} /\ doing' = Idle
    BY <1>1, <1>2 DEF Persist, Proceed, store
  <1>6. s.orders[o].quantity = mem.orders[o].quantity /\ o \in DOMAIN s.orders
    BY <1>2, <1>3 DEF StoreMoves
  <1> HIDE DEF o, s
  <1>7. CASE UNCHANGED source
    <2>1. Good(mem') /\ Good(disk') /\ Good(durable')
      BY <1>3, <1>5
    <2> QED
      BY <1>1, <1>5, <1>7, <2>1, IdleFits, StoreStep
  <1>8. CASE Sent(o)
    <2>1. source' = [source EXCEPT ![o] = truth]
      BY <1>8 DEF Sent
    <2>2. /\ DOMAIN source' = SourceIds
          /\ \A n \in SourceIds : source'[n] = IF n = o THEN truth ELSE source[n]
      BY <1>4, <2>1 DEF Inv, Shapes
    <2>3. /\ truth.state = "open" /\ truth.fills = <<>> /\ truth.filled = 0
          /\ truth.quantity = mem.orders[o].quantity
          /\ DOMAIN truth = {"state", "side", "quantity", "fills", "filled"}
      OBVIOUS
    <2> HIDE DEF truth
    <2>4. IsTruth(truth) /\ VenueFits(truth)
      <3>1. IsSeq(<<>>)
        <4>1. <<>> = [j \in 1 .. 0 |-> <<>>[j]]
          OBVIOUS
        <4> QED
          BY <4>1, SeqIntro
      <3> QED
        BY <1>4, <2>3, <3>1 DEF IsTruth, VenueFits
    <2>5. VenueFits(source[o])
      BY <1>4 DEF Inv, TakerInv
    <2>6. mem.active = o /\ s.active = o
      BY <1>3 DEF o
    <2>7. /\ CopyFits(mem, source, hedges, OneShot) /\ CopyFits(s, source, hedges, OneShot)
      BY <1>3 DEF Good
    <2>8. CopyFits(mem, source', hedges, OneShot)
      BY <1>2, <1>4, <2>2, <2>3, <2>5, <2>6, <2>7, SendFits
    <2>9. CopyFits(s, source', hedges, OneShot)
      BY <1>2, <1>4, <1>6, <2>2, <2>3, <2>5, <2>6, <2>7, SendFits
    <2>10. \A c \in {mem', disk', durable'} : CopyFits(c, source', hedges', OneShot')
      BY <1>1, <1>5, <2>8, <2>9 DEF OneShot
    <2>11. Shapes'
      BY <1>1, <1>3, <1>5, <2>2, <2>4 DEF Inv, Shapes, Good
    <2>12. \A n \in SourceIds : VenueFits(source'[n])
      BY <2>2, <2>4 DEF Inv, TakerInv
    <2>13. LegSentOnce' /\ DoingFits'
      BY <1>1, <1>5, IdleFits DEF Inv, TakerInv, LegSentOnce
    <2> QED
      BY <2>10, <2>11, <2>12, <2>13 DEF Inv, TakerInv
  <1> QED
    BY <1>1, <1>7, <1>8

\* An event that changes the status of a source order, and ends there.
LEMMA StepSourceStatus ==
  ASSUME Inv, NEW o \in DOMAIN mem.orders, NEW v,
         v \in {"DENIED", "FILLED", "REJECTED"} /\ o \in SourceIds => source[o].state # "open",
         NEW s, s = UpdateSourceStatus(mem, o, v),
         Persist(s, s, Idle, 0) \/ Persist(s, s, Doing("query source", o), 0),
         UNCHANGED <<source, hedges, mode>>
  PROVE  Inv'
  <1>2. Good(mem) /\ IsStore(mem)
    BY CopiesAreGood DEF Good
  <1>3. /\ StoreMoves(mem, s)
        /\ s.active = IF v \in {"DENIED", "FILLED", "REJECTED"} /\ mem.active = o
                      THEN NoOrder ELSE mem.active
    BY <1>2, SourceStatusMoves
  <1>4. Good(s)
    <2>1. \/ s.active = mem.active
          \/ s.active = NoOrder /\ \A n \in SourceIds : source[n].state = "open" => mem.active # n
      BY <1>3
    <2> QED
      BY <1>2, <1>3, <2>1, GoodMoves
  <1>5. doing' = Doing("query source", o) => DoingFits'
    BY GoesOnFits
  <1> QED
    BY <1>4, <1>5, IdleFits, PersistStep

\* The events of a source order.
LEMMA StepSourceEvents ==
  ASSUME Inv, NEW o \in SourceIds,
         OnSourceAccepted(o) \/ OnSourceRejected(o) \/ OnSourceUnknown(o) \/ OnSourceTerminal(o)
  PROVE  Inv'
  <1>1. CASE OnSourceAccepted(o)
    <2>1. /\ o \in DOMAIN mem.orders /\ UNCHANGED <<source, hedges, mode>>
          /\ \E s : s = UpdateSourceStatus(mem, o, "ACCEPTED") /\ Persist(s, s, Idle, 0)
      BY <1>1 DEF OnSourceAccepted, KnowsSourceOrder, world
    <2> QED
      BY <2>1, StepSourceStatus
  <1>2. CASE OnSourceRejected(o)
    <2>1. /\ o \in DOMAIN mem.orders /\ UNCHANGED <<source, hedges, mode>>
          /\ \E s : /\ s = UpdateSourceStatus(mem, o, source[o].state)
                    /\ Persist(s, s, Idle, 0)
          /\ source[o].state # "open"
      BY <1>2 DEF OnSourceRejected, KnowsSourceOrder, world
    <2> QED
      BY <2>1, StepSourceStatus
  <1>3. CASE OnSourceUnknown(o)
    <2>1. /\ UNCHANGED <<source, hedges, mode>>
          /\ Persist(MarkSourceUnknown(mem, o), MarkSourceUnknown(mem, o), Idle, 1)
      BY <1>3 DEF OnSourceUnknown, world
    <2> QED
      BY <2>1, GoodUnknown, IdleFits, PersistStep
  <1>4. CASE OnSourceTerminal(o)
    <2>1. /\ o \in DOMAIN mem.orders /\ UNCHANGED <<source, hedges, mode>>
          /\ \E s : /\ s = UpdateSourceStatus(mem, o, source[o].state)
                    /\ Persist(s, s, Doing("query source", o), 0)
          /\ source[o].state # "open"
      BY <1>4 DEF OnSourceTerminal, KnowsSourceOrder, world
    <2> QED
      BY <2>1, StepSourceStatus
  <1> QED
    BY <1>1, <1>2, <1>3, <1>4

\* The terminal query.
LEMMA StepQuery ==
  ASSUME Inv, RequestSourceTerminalQuery
  PROVE  Inv'
  BY IdleFits, QuietStep DEF RequestSourceTerminalQuery, Proceed, store, world

\* Its report.
LEMMA StepReport ==
  ASSUME Inv, NEW o \in SourceIds, CompleteSourceTerminalQuery(o)
  PROVE  Inv'
  <1>1. PICK s : s = ConfirmSourceReconciled(mem, o)
    OBVIOUS
  <1>2. /\ UNCHANGED <<source, hedges, mode>> /\ Persist(s, mem, Idle, 0)
        /\ source[o].state # "open"
    BY <1>1 DEF CompleteSourceTerminalQuery, ReportIsExact, world
  <1>3. Good(mem) /\ IsStore(mem)
    BY CopiesAreGood DEF Good
  <1>4. StoreMoves(mem, s) /\ s.active = IF mem.active = o THEN NoOrder ELSE mem.active
    BY <1>1, <1>3, ReconciledMoves
  <1>5. Good(s)
    <2>1. \/ s.active = mem.active
          \/ s.active = NoOrder /\ \A n \in SourceIds : source[n].state = "open" => mem.active # n
      BY <1>2, <1>4
    <2> QED
      BY <1>3, <1>4, <2>1, GoodMoves
  <1> QED
    BY <1>2, <1>5, IdleFits, PersistStep

\* A fill of a source order.
LEMMA StepSourceFilled ==
  ASSUME Inv, NEW o \in SourceIds, NEW k, OnSourceFilled(o, k)
  PROVE  Inv'
  <1>1. /\ o \in DOMAIN mem.orders /\ k \in DOMAIN source[o].fills
        /\ UNCHANGED <<source, hedges, mode>>
    BY DEF OnSourceFilled, KnowsSourceOrder, world
  <1>2. CASE <<o, k>> \in mem.seenSource
    <2>1. Proceed(Idle)
      BY <1>2 DEF OnSourceFilled
    <2> QED
      BY <1>1, <2>1, IdleFits, QuietStep DEF Proceed, store
  <1>3. CASE <<o, k>> \notin mem.seenSource
    <2>1. PICK s : s = ReserveSourceFill(mem, <<o, k>>, source[o].fills[k])
      OBVIOUS
    <2>2. \/ Persist(s, mem, Idle, 0)
          \/ Persist(s, mem, Doing("dispatch", 0), 0)
      BY <1>3, <2>1 DEF OnSourceFilled
    <2>3. \A n \in SourceIds : IsTruth(source[n]) /\ VenueFits(source[n])
      BY DEF Inv, Shapes, TakerInv
    <2>4. CopyFits(mem, source, hedges, OneShot) /\ IsStore(mem)
      BY CopiesAreGood DEF Good
    <2>5. Good(s)
      BY <1>1, <1>3, <2>1, <2>3, <2>4, ReserveFits DEF Good
    <2>6. CASE Persist(s, mem, Idle, 0)
      BY <1>1, <2>5, <2>6, IdleFits, PersistStep
    <2>7. CASE Persist(s, mem, Doing("dispatch", 0), 0)
      <3>1. doing' = Doing("dispatch", 0) => DoingFits'
        BY GoesOnFits
      <3> QED
        BY <1>1, <2>5, <2>7, <3>1, PersistStep
    <2> QED
      BY <2>2, <2>6, <2>7
  <1> QED
    BY <1>2, <1>3

-----------------------------------------------------------------------------
(* The hedge leg                                                           *)

\* A tick takes up the pending hedge, or ends on a stale quote.
LEMMA StepTick ==
  ASSUME Inv, OnQuoteTick \/ QuoteIsStale
  PROVE  Inv'
  <1>1. UNCHANGED <<mem, disk, durable, source, hedges, mode>>
    BY DEF OnQuoteTick, QuoteIsStale, Proceed, store, world
  <1>2. doing' = Doing("dispatch", 0) \/ doing' = Idle
    BY DEF OnQuoteTick, QuoteIsStale, Proceed
  <1>3. DoingFits'
    BY <1>2, IdleFits, GoesOnFits
  <1> QED
    BY <1>1, <1>3, QuietStep

\* The intent the tick takes is one of the store, and pending.
LEMMA NextIsPending ==
  ASSUME NEW s, IsStore(s), NextPending(s) # 0
  PROVE  /\ NextPending(s) \in DOMAIN s.intents
         /\ s.intents[NextPending(s)].order = NoHedge
         /\ s.intents[NextPending(s)].status = "PENDING"
  <1> DEFINE pending == {i \in DOMAIN s.intents :
                            s.intents[i].status = "PENDING" /\ s.intents[i].order = NoHedge}
             n == CHOOSE i \in pending : \A j \in pending : i <= j
  <1>1. pending # {} /\ NextPending(s) = n
    BY DEF NextPending
  <1>2. pending \in SUBSET Nat
    BY SeqFacts DEF IsStore
  <1>3. n \in pending
    <2>1. \E i \in pending : \A j \in pending : i <= j
      BY <1>1, <1>2, LeastMember
    <2> HIDE DEF pending
    <2> QED
      BY <2>1
  <1> HIDE DEF n
  <1> QED
    BY <1>1, <1>3

\* A good copy that blocks an intent is good.
LEMMA GoodBlocked ==
  ASSUME Inv, NEW i \in DOMAIN mem.intents
  PROVE  Good(BlockHedgeIntent(mem, i))
  BY CopiesAreGood, BlockMoves, GoodMoves DEF Good

\* A good copy that binds the next leg is good.
LEMMA BindingFits ==
  ASSUME NEW i \in DOMAIN mem'.intents, mem'.intents[i].order = NoHedge,
         doing' = Doing("bind", i)
  PROVE  DoingFits'
  BY DEF DoingFits, Doing

\* The next intent gets its plan.
LEMMA StepPlan ==
  ASSUME Inv, SubmitNextPendingHedge
  PROVE  Inv'
  <1> DEFINE i == NextPending(mem)
  <1>1. PICK plan, blocked, planned :
           /\ blocked = BlockHedgeIntent(mem, i)
           /\ planned = BindHedgePlan(mem, i, plan)
           /\ \/ i = 0 /\ Proceed(Idle)
              \/ i # 0 /\ Proceed(Doing("bind", i))
              \/ i # 0 /\ Persist(planned, planned, Doing("bind", i), 0)
              \/ i # 0 /\ Persist(blocked, blocked, Idle, 0)
    BY DEF SubmitNextPendingHedge
  <1>2. UNCHANGED <<source, hedges, mode>>
    BY DEF SubmitNextPendingHedge, world
  <1>3. Good(mem) /\ IsStore(mem)
    BY CopiesAreGood DEF Good
  <1>4. i # 0 => i \in DOMAIN mem.intents /\ mem.intents[i].order = NoHedge
    BY <1>3, NextIsPending
  <1> HIDE DEF i
  <1>5. CASE Proceed(Idle)
    BY <1>2, <1>5, IdleFits, QuietStep DEF Proceed, store
  <1>6. CASE i # 0 /\ Proceed(Doing("bind", i))
    <2>1. UNCHANGED <<mem, disk, durable>> /\ doing' = Doing("bind", i)
      BY <1>6 DEF Proceed, store
    <2>2. DoingFits'
      BY <1>4, <1>6, <2>1, BindingFits
    <2> QED
      BY <1>2, <2>1, <2>2, QuietStep
  <1>7. CASE i # 0 /\ Persist(planned, planned, Doing("bind", i), 0)
    <2>1. /\ StoreMoves(mem, planned) /\ planned.active = mem.active
          /\ planned.intents[i].order = mem.intents[i].order
      BY <1>1, <1>3, <1>4, <1>7, PlanMoves
    <2>2. Good(planned) /\ i \in DOMAIN planned.intents /\ planned.intents[i].order = NoHedge
      BY <1>3, <1>4, <1>7, <2>1, GoodMoves DEF StoreMoves
    <2>3. doing' = Doing("bind", i) /\ mem' = planned => DoingFits'
      BY <2>2, BindingFits
    <2> QED
      BY <1>2, <1>7, <2>2, <2>3, PersistStep
  <1>8. CASE i # 0 /\ Persist(blocked, blocked, Idle, 0)
    <2>1. Good(blocked)
      BY <1>1, <1>4, <1>8, GoodBlocked
    <2> QED
      BY <1>2, <1>8, <2>1, IdleFits, PersistStep
  <1> QED
    BY <1>1, <1>5, <1>6, <1>7, <1>8

\* The leg the plan is at gets its order.
LEMMA StepBind ==
  ASSUME Inv, BindNextLeg
  PROVE  Inv'
  <1> DEFINE i == doing.intent
  <1>1. PICK blocked, bound :
           /\ blocked = BlockHedgeIntent(mem, i) /\ bound = BindHedgeOrder(mem, i)
           /\ \/ Persist(bound, bound, Doing("submit hedge", i), 0)
              \/ Persist(blocked, blocked, Idle, 0)
    BY DEF BindNextLeg
  <1>2. UNCHANGED <<source, hedges, mode>> /\ doing.step = "bind"
    BY DEF BindNextLeg, world
  <1>3. i \in DOMAIN mem.intents /\ mem.intents[i].order = NoHedge
    BY <1>2 DEF Inv, TakerInv, DoingFits
  <1>4. CopyFits(mem, source, hedges, OneShot) /\ IsStore(mem)
    BY CopiesAreGood DEF Good
  <1> HIDE DEF i
  <1>5. CASE Persist(bound, bound, Doing("submit hedge", i), 0)
    <2>1. /\ IsStore(bound) /\ CopyFits(bound, source, hedges, OneShot)
          /\ i \in DOMAIN bound.intents
          /\ bound.intents[i].order \notin DOMAIN hedges \union {NoHedge}
      BY <1>1, <1>3, <1>4, BindFits
    <2>2. ASSUME doing' = Doing("submit hedge", i), mem' = bound, disk' = bound, durable' = bound
          PROVE  DoingFits'
      <3>1. doing'.step = "submit hedge" /\ doing'.intent = i
        BY <2>2 DEF Doing
      <3> QED
        BY <1>2, <2>1, <2>2, <3>1 DEF DoingFits
    <2> QED
      BY <1>2, <1>5, <2>1, <2>2, PersistStep DEF Good
  <1>6. CASE Persist(blocked, blocked, Idle, 0)
    <2>1. Good(blocked)
      BY <1>1, <1>3, GoodBlocked
    <2> QED
      BY <1>2, <1>6, <2>1, IdleFits, PersistStep
  <1> QED
    BY <1>1, <1>5, <1>6

\* The events of a hedge order.
LEMMA StepHedgeEvents ==
  ASSUME Inv, NEW h \in DOMAIN hedges, NEW v, NEW k,
         OnHedgeAccepted(h) \/ OnHedgeRejected(h, v) \/ OnHedgeFilled(h, k)
  PROVE  Inv'
  <1>1. /\ Good(mem) /\ IsStore(mem) /\ \A i \in DOMAIN mem.intents : IntentFits(mem, i)
    BY CopiesAreGood DEF Good, CopyFits
  <1>2. UNCHANGED <<source, hedges, mode>>
    BY DEF OnHedgeAccepted, OnHedgeRejected, OnHedgeFilled, world
  <1>3. ASSUME NEW w, NEW n, NEW s, s = UpdateHedgeStatus(mem, h, w), Persist(s, s, Idle, n)
        PROVE  Inv'
    <2>1. StoreMoves(mem, s) /\ s.active = mem.active
      BY <1>1, <1>3, HedgeStatusMoves
    <2>2. Good(s)
      BY <1>1, <2>1, GoodMoves
    <2> QED
      BY <1>2, <1>3, <2>2, IdleFits, PersistStep
  <1>4. CASE OnHedgeAccepted(h)
    <2>1. PICK s : s = UpdateHedgeStatus(mem, h, "ACCEPTED") /\ Persist(s, s, Idle, 0)
      BY <1>4 DEF OnHedgeAccepted
    <2> QED
      BY <1>3, <2>1
  <1>5. CASE OnHedgeRejected(h, v)
    <2>1. PICK s, n : s = UpdateHedgeStatus(mem, h, v) /\ Persist(s, s, Idle, n)
      BY <1>5 DEF OnHedgeRejected
    <2> QED
      BY <1>3, <2>1
  <1>6. CASE OnHedgeFilled(h, k)
    <2>1. PICK s : /\ s = ApplyHedgeFill(mem, <<h, k>>, hedges[h].fills[k])
                   /\ Proceed(Idle) \/ Persist(s, mem, Doing("dispatch", 0), 0)
      BY <1>6 DEF OnHedgeFilled
    <2>2. StoreMoves(mem, s) /\ s.active = mem.active
      BY <1>1, <2>1, HedgeFillMoves
    <2>3. Good(s)
      BY <1>1, <2>2, GoodMoves
    <2>4. CASE Proceed(Idle)
      BY <1>2, <2>4, IdleFits, QuietStep DEF Proceed, store
    <2>5. CASE Persist(s, mem, Doing("dispatch", 0), 0)
      <3>1. doing' = Doing("dispatch", 0) => DoingFits'
        BY GoesOnFits
      <3> QED
        BY <1>2, <2>3, <2>5, <3>1, PersistStep
    <2> QED
      BY <2>1, <2>4, <2>5
  <1> QED
    BY <1>4, <1>5, <1>6

\* submit_order of a leg, whether it raises or not.
LEMMA StepSubmitHedge ==
  ASSUME Inv, SubmitHedge
  PROVE  Inv'
  <1> DEFINE i == doing.intent
             h == mem.intents[i].order
             new == [state |-> "open", fill |-> mem.intents[i].fill, index |-> mem.intents[i].leg,
                     leg |-> mem.intents[i].plan[mem.intents[i].leg + 1], fills |-> <<>>]
  <1>1. PICK s :
           /\ s = UpdateHedgeStatus(mem, h, "UNKNOWN")
           /\ \/ SentHedge(i) /\ Proceed(Idle)
              \/ Persist(s, s, Idle, 1) /\ (SentHedge(i) \/ UNCHANGED hedges)
    BY DEF SubmitHedge
  <1>2. doing.step = "submit hedge" /\ UNCHANGED <<source, mode>>
    BY DEF SubmitHedge
  <1>3. /\ disk = mem /\ durable = mem /\ i \in DOMAIN mem.intents
        /\ h \notin DOMAIN hedges \union {NoHedge}
    BY <1>2 DEF Inv, TakerInv, DoingFits
  <1>4. /\ Good(mem) /\ IsStore(mem) /\ CopyFits(mem, source, hedges, OneShot)
        /\ \A j \in DOMAIN mem.intents : IntentFits(mem, j)
    BY CopiesAreGood DEF Good, CopyFits
  <1>5. StoreMoves(mem, s) /\ s.active = mem.active /\ s.intents[i].order = h
        /\ s.intents[i].fill = mem.intents[i].fill /\ s.intents[i].leg = mem.intents[i].leg
        /\ i \in DOMAIN s.intents
    <2>1. StoreMoves(mem, s) /\ s.active = mem.active
      BY <1>1, <1>4, HedgeStatusMoves
    <2>2. s.intents[i].order = h /\ s.intents[i].leg = mem.intents[i].leg
      BY <1>1, <1>3, <1>4, HedgeStatusStands
    <2> QED
      BY <1>3, <2>1, <2>2 DEF StoreMoves, IntentMoves
  <1>6. Good(s)
    BY <1>4, <1>5, GoodMoves
  <1>7. /\ mem' \in {mem, s} /\ disk' \in {mem, s} /\ durable' \in {mem, s} /\ doing' = Idle
    BY <1>1, <1>3 DEF Persist, Proceed, store
  <1>8. CASE UNCHANGED hedges
    <2>1. Good(mem') /\ Good(disk') /\ Good(durable')
      BY <1>4, <1>6, <1>7
    <2> QED
      BY <1>2, <1>7, <1>8, <2>1, IdleFits, StoreStep
  <1>9. CASE SentHedge(i)
    <2>1. hedges' = [g \in DOMAIN hedges \union {h} |-> IF g = h THEN new ELSE hedges[g]]
      BY <1>9 DEF SentHedge
    <2>2. /\ DOMAIN hedges' = DOMAIN hedges \union {h} /\ hedges'[h] = new
          /\ \A g \in DOMAIN hedges : hedges'[g] = hedges[g]
      <3> HIDE DEF new, h
      <3> QED
        BY <1>3, <2>1
    <2>3. /\ IsHedge(new) /\ new.fill = mem.intents[i].fill /\ new.index = mem.intents[i].leg
      BY <1>3, <1>4 DEF IsHedge, IsStore, IsIntent
    <2> HIDE DEF new
    <2>4. CopyFits(mem, source, hedges', OneShot)
      BY <1>3, <1>4, <2>2, <2>3, HedgeSendFits
    <2>5. CopyFits(s, source, hedges', OneShot)
      <3>1. CopyFits(s, source, hedges, OneShot) /\ IsStore(s)
        BY <1>6 DEF Good
      <3>2. s.intents[i].order \notin DOMAIN hedges \union {NoHedge}
        BY <1>3, <1>5
      <3>3. new.fill = s.intents[i].fill /\ new.index = s.intents[i].leg
        BY <1>5, <2>3
      <3>4. /\ DOMAIN hedges' = DOMAIN hedges \union {s.intents[i].order}
            /\ hedges'[s.intents[i].order] = new
        BY <1>5, <2>2
      <3> QED
        BY <1>5, <2>2, <3>1, <3>2, <3>3, <3>4, HedgeSendFits
    <2>6. \A c \in {mem', disk', durable'} : CopyFits(c, source', hedges', OneShot')
      BY <1>2, <1>7, <2>4, <2>5 DEF OneShot
    <2>7. Shapes'
      BY <1>2, <1>4, <1>6, <1>7, <2>2, <2>3 DEF Inv, Shapes, Good
    <2>8. \A g \in DOMAIN hedges : hedges[g].fill = new.fill => hedges[g].index # new.index
      BY <1>3, <1>4, <2>3, LegsStayApart
    <2>9. LegSentOnce'
      <3> SUFFICES ASSUME NEW f \in DOMAIN hedges', NEW g \in DOMAIN hedges', f # g,
                          hedges'[f].fill = hedges'[g].fill
                   PROVE  hedges'[f].index # hedges'[g].index
        BY DEF LegSentOnce
      <3>1. CASE f \in DOMAIN hedges /\ g \in DOMAIN hedges
        BY <2>2, <3>1 DEF Inv, TakerInv, LegSentOnce
      <3>2. CASE f = h \/ g = h
        BY <1>3, <2>2, <2>8, <3>2
      <3> QED
        BY <2>2, <3>1, <3>2
    <2>10. (\A n \in SourceIds : VenueFits(source'[n])) /\ DoingFits'
      BY <1>2, <1>7, IdleFits DEF Inv, TakerInv
    <2> QED
      BY <2>6, <2>7, <2>9, <2>10 DEF Inv, TakerInv
  <1> QED
    BY <1>1, <1>8, <1>9

\* A trade of the source order at the venue.
LEMMA StepTrade ==
  ASSUME Inv, NEW o \in SourceIds, NEW quantity \in Fills, SourceTrades(o, quantity)
  PROVE  Inv'
  <1> DEFINE total == source[o].filled + quantity
             state == IF total = source[o].quantity THEN "FILLED" ELSE source[o].state
             a == [source[o] EXCEPT !.fills = Append(@, quantity)]
             b == [a EXCEPT !.filled = total]
             truth == [b EXCEPT !.state = state]
  <1>1. /\ source[o].state = "open" /\ total <= source[o].quantity
        /\ UNCHANGED <<mem, disk, durable, doing, hedges, mode>>
    BY DEF SourceTrades, store, process
  <1>2. IsTruth(source[o]) /\ DOMAIN source = SourceIds /\ quantity \in Nat
    BY TakerAssumption DEF Inv, Shapes
  <1>3. source' = [source EXCEPT ![o] = truth]
    BY <1>2 DEF SourceTrades, IsTruth
  <1>4. /\ total \in Nat /\ state \in {"open", "FILLED"}
        /\ (state = "open" => total < source[o].quantity)
    BY <1>1, <1>2 DEF IsTruth
  <1>9. total = source[o].filled + quantity
    OBVIOUS
  <1> HIDE DEF total, state
  <1>5. /\ DOMAIN a = DOMAIN source[o] /\ a.fills = Append(source[o].fills, quantity)
        /\ a.quantity = source[o].quantity
    BY <1>2 DEF IsTruth
  <1> HIDE DEF a
  <1>6. /\ DOMAIN b = DOMAIN source[o] /\ b.fills = Append(source[o].fills, quantity)
        /\ b.quantity = source[o].quantity /\ b.filled = total
    BY <1>2, <1>5 DEF IsTruth
  <1> HIDE DEF b
  <1>7. /\ DOMAIN truth = DOMAIN source[o] /\ truth.fills = Append(source[o].fills, quantity)
        /\ truth.quantity = source[o].quantity /\ truth.filled = total /\ truth.state = state
    BY <1>2, <1>6 DEF IsTruth
  <1> HIDE DEF truth
  <1>8. \A n \in SourceIds : source'[n] = IF n = o THEN truth ELSE source[n]
    BY <1>2, <1>3
  <1>10. IsTruth(truth) /\ VenueFits(truth)
    <2>1. \A k \in DOMAIN truth.fills : truth.fills[k] \in Nat
      <3>1. /\ IsSeq(source[o].fills)
            /\ \A k \in DOMAIN source[o].fills : source[o].fills[k] \in Nat
        BY <1>2 DEF IsTruth
      <3>2. /\ DOMAIN truth.fills = 1 .. Len(source[o].fills) + 1
            /\ \A k \in DOMAIN source[o].fills : truth.fills[k] = source[o].fills[k]
            /\ truth.fills[Len(source[o].fills) + 1] = quantity
        BY <1>7, <3>1, Appended
      <3>3. DOMAIN source[o].fills = 1 .. Len(source[o].fills) /\ Len(source[o].fills) \in Nat
        BY <3>1, SeqFacts
      <3> QED
        BY <1>2, <3>1, <3>2, <3>3
    <2>2. IsSeq(truth.fills)
      BY <1>2, <1>7, Appended DEF IsTruth
    <2> QED
      BY <1>2, <1>4, <1>7, <2>1, <2>2 DEF IsTruth, VenueFits
  <1>11. ASSUME NEW s, CopyFits(s, source, hedges, OneShot)
         PROVE  CopyFits(s, source', hedges', OneShot')
    <2>1. CopyFits(s, source', hedges, OneShot)
      BY <1>1, <1>2, <1>7, <1>8, <1>9, <1>11, TradeFits
    <2> QED
      BY <1>1, <2>1 DEF OneShot
  <1>12. \A s \in {mem', disk', durable'} : CopyFits(s, source', hedges', OneShot')
    BY <1>1, <1>11 DEF Inv, TakerInv
  <1>13. Shapes'
    BY <1>1, <1>3, <1>8, <1>10 DEF Inv, Shapes
  <1>14. \A n \in SourceIds : VenueFits(source'[n])
    BY <1>8, <1>10 DEF Inv, TakerInv
  <1>15. LegSentOnce' /\ DoingFits'
    <2>1. DOMAIN mem.orders \subseteq SourceIds
      BY CopiesAreGood DEF Good, CopyFits
    <2>2. \A n \in SourceIds : source[n].state = "absent" => source'[n].state = "absent"
      BY <1>1, <1>8
    <2>3. DoingFits /\ LegSentOnce
      BY DEF Inv, TakerInv
    <2>4. LegSentOnce'
      BY <1>1, <2>3 DEF LegSentOnce
    <2>5. DoingFits'
      <3>1. UNCHANGED <<mem, disk, durable, doing, hedges>>
        BY <1>1
      <3> QED
        BY <2>1, <2>2, <2>3, <3>1 DEF DoingFits
    <2> QED
      BY <2>4, <2>5
  <1> QED
    BY <1>12, <1>13, <1>14, <1>15 DEF Inv, TakerInv

\* The source order ends at the venue.
LEMMA StepEnd ==
  ASSUME Inv, NEW o \in SourceIds, NEW state \in {"CANCELED", "EXPIRED", "REJECTED", "DENIED"},
         SourceEnds(o, state)
  PROVE  Inv'
  <1> DEFINE truth == [source[o] EXCEPT !.state = state]
  <1>1. /\ source[o].state = "open" /\ source' = [source EXCEPT ![o] = truth]
        /\ UNCHANGED <<mem, disk, durable, doing, hedges, mode>>
    BY DEF SourceEnds, store, process
  <1>2. IsTruth(source[o]) /\ DOMAIN source = SourceIds
    BY DEF Inv, Shapes
  <1>3. /\ DOMAIN truth = DOMAIN source[o] /\ truth.fills = source[o].fills
        /\ truth.quantity = source[o].quantity /\ truth.filled = source[o].filled
        /\ truth.state = state
    BY <1>2 DEF IsTruth
  <1> HIDE DEF truth
  <1>4. \A n \in SourceIds : source'[n] = IF n = o THEN truth ELSE source[n]
    BY <1>1, <1>2
  <1>5. IsTruth(truth) /\ VenueFits(truth) /\ truth.state \notin {"absent", "open"}
    BY <1>2, <1>3 DEF IsTruth, VenueFits
  <1>6. ASSUME NEW s, CopyFits(s, source, hedges, OneShot)
        PROVE  CopyFits(s, source', hedges', OneShot')
    <2>1. CopyFits(s, source', hedges, OneShot)
      <3>1. PICK v : v = source'
        OBVIOUS
      <3>2. \A n \in SourceIds : v[n] = IF n = o THEN truth ELSE source[n]
        BY <1>4, <3>1
      <3>3. IsTruth(truth) /\ truth.state # "absent" /\ truth.state # "open"
        BY <1>5
      <3>4. source[o].state = "open"
        BY <1>1
      <3>5. /\ truth.fills = source[o].fills /\ truth.filled = source[o].filled
            /\ truth.quantity = source[o].quantity
        BY <1>3
      <3>6. CopyFits(s, source, hedges, OneShot)
        BY <1>6
      <3>7. CopyFits(s, v, hedges, OneShot)
        BY <3>2, <3>3, <3>4, <3>5, <3>6, EndFits
      <3> QED
        BY <3>1, <3>7
    <2> QED
      BY <1>1, <2>1 DEF OneShot
  <1>7. \A s \in {mem', disk', durable'} : CopyFits(s, source', hedges', OneShot')
    BY <1>1, <1>6 DEF Inv, TakerInv
  <1>8. Shapes'
    BY <1>1, <1>4, <1>5 DEF Inv, Shapes
  <1>9. \A n \in SourceIds : VenueFits(source'[n])
    BY <1>4, <1>5 DEF Inv, TakerInv
  <1>10. LegSentOnce' /\ DoingFits'
    <2>1. DOMAIN mem.orders \subseteq SourceIds
      BY CopiesAreGood DEF Good, CopyFits
    <2>2. \A n \in SourceIds : source[n].state = "absent" => source'[n].state = "absent"
      BY <1>1, <1>4
    <2>3. DoingFits /\ LegSentOnce
      BY DEF Inv, TakerInv
    <2>4. LegSentOnce'
      BY <1>1, <2>3 DEF LegSentOnce
    <2>5. DoingFits'
      <3>1. UNCHANGED <<mem, disk, durable, doing, hedges>>
        BY <1>1
      <3> QED
        BY <2>1, <2>2, <2>3, <3>1 DEF DoingFits
    <2> QED
      BY <2>4, <2>5
  <1> QED
    BY <1>7, <1>8, <1>9, <1>10 DEF Inv, TakerInv

\* The broker decides: which fill and which leg an order was for stays.
LEMMA StepDecided ==
  ASSUME Inv, NEW h \in DOMAIN hedges, HedgeExecutes(h) \/ HedgeIsRejected(h)
  PROVE  Inv'
  <1>1. UNCHANGED <<mem, disk, durable, doing, source, mode>>
    BY DEF HedgeExecutes, HedgeIsRejected, store, process, Mishap
  <1>2. PICK new : /\ IsHedge(new) /\ new.fill = hedges[h].fill /\ new.index = hedges[h].index
                   /\ hedges' = [hedges EXCEPT ![h] = new]
    <2>1. IsHedge(hedges[h])
      BY DEF Inv, Shapes
    <2>2. CASE HedgeExecutes(h)
      <3>1. PICK v : hedges' = [hedges EXCEPT ![h].state = "executed", ![h].fills = v]
        BY <2>2 DEF HedgeExecutes
      <3> DEFINE a == [hedges[h] EXCEPT !.state = "executed"]
                 new == [a EXCEPT !.fills = v]
      <3>2. hedges' = [hedges EXCEPT ![h] = new]
        BY <3>1
      <3>3. IsHedge(a) /\ a.fill = hedges[h].fill /\ a.index = hedges[h].index
        BY <2>1 DEF IsHedge
      <3> HIDE DEF a
      <3>4. IsHedge(new) /\ new.fill = hedges[h].fill /\ new.index = hedges[h].index
        BY <3>3 DEF IsHedge
      <3> QED
        BY <3>2, <3>4
    <2>3. CASE HedgeIsRejected(h)
      <3> DEFINE new == [hedges[h] EXCEPT !.state = "rejected"]
      <3>1. hedges' = [hedges EXCEPT ![h] = new]
        BY <2>3 DEF HedgeIsRejected
      <3>2. IsHedge(new) /\ new.fill = hedges[h].fill /\ new.index = hedges[h].index
        BY <2>1 DEF IsHedge
      <3> QED
        BY <3>1, <3>2
    <2> QED
      BY <2>2, <2>3
  <1>3. /\ DOMAIN hedges' = DOMAIN hedges
        /\ \A g \in DOMAIN hedges : /\ IsHedge(hedges'[g]) /\ hedges'[g].fill = hedges[g].fill
                                    /\ hedges'[g].index = hedges[g].index
    BY <1>2 DEF Inv, Shapes
  <1>4. ASSUME NEW s, CopyFits(s, source, hedges, OneShot)
        PROVE  CopyFits(s, source', hedges', OneShot')
    <2>1. CopyFits(s, source, hedges', OneShot)
      BY <1>3, <1>4, HedgesFit
    <2> QED
      BY <1>1, <2>1 DEF OneShot
  <1>5. \A s \in {mem', disk', durable'} : CopyFits(s, source', hedges', OneShot')
    BY <1>1, <1>4 DEF Inv, TakerInv
  <1>6. Shapes'
    BY <1>1, <1>3 DEF Inv, Shapes
  <1>7. (\A n \in SourceIds : VenueFits(source'[n])) /\ LegSentOnce'
    BY <1>1, <1>3 DEF Inv, TakerInv, LegSentOnce
  <1>8. DoingFits'
    BY <1>1, <1>3 DEF Inv, TakerInv, DoingFits
  <1> QED
    BY <1>5, <1>6, <1>7, <1>8 DEF Inv, TakerInv

-----------------------------------------------------------------------------
(* A stop is kept: what an operation on the store does to what is under    *)
(* way.                                                                    *)

\* From s to t nothing that is under way, or that stopped, goes missing.
Keeps(s, t, src, sent) ==
    Settled(t, src, sent) /\ Behind(s, t, src) /\ (Stopped(s) => Stopped(t))

\* No copy is behind itself.
LEMMA BehindItself ==
  ASSUME NEW s, NEW src
  PROVE  Behind(s, s, src)
  BY DEF Behind

\* Copies come one after the other.
LEMMA BehindBoth ==
  ASSUME NEW s, NEW t, NEW u, NEW src, Behind(s, t, src), Behind(t, u, src)
  PROVE  Behind(s, u, src)
  <1>1. DOMAIN s.orders \subseteq DOMAIN t.orders /\ DOMAIN t.orders \subseteq DOMAIN u.orders
    BY DEF Behind
  <1> SUFFICES ASSUME Quiet(s), ~Quiet(u)
               PROVE  \E o \in DOMAIN u.orders \ DOMAIN s.orders : src[o].state = "absent"
    BY <1>1 DEF Behind
  <1>2. CASE Quiet(t)
    <2>1. PICK o \in DOMAIN u.orders \ DOMAIN t.orders : src[o].state = "absent"
      BY <1>2 DEF Behind
    <2> QED
      BY <1>1, <2>1
  <1>3. CASE ~Quiet(t)
    <2>1. PICK o \in DOMAIN t.orders \ DOMAIN s.orders : src[o].state = "absent"
      BY <1>3 DEF Behind
    <2> QED
      BY <1>1, <2>1
  <1> QED
    BY <1>2, <1>3

\* A copy with something under way is behind none.
LEMMA BusyBehind ==
  ASSUME NEW s, NEW t, NEW src, DOMAIN s.orders = DOMAIN t.orders, ~Quiet(s)
  PROVE  Behind(s, t, src)
  BY DEF Behind

\* A copy that stays keeps everything.
LEMMA SameKeeps ==
  ASSUME NEW s, NEW src, NEW sent, Settled(s, src, sent)
  PROVE  Keeps(s, s, src, sent)
  BY BehindItself DEF Keeps

\* One intent that is not completed moves on, and fails or stops for nothing less.
LEMMA IntentKeeps ==
  ASSUME NEW s, NEW src, NEW sent, NEW once, Settled(s, src, sent), IsStore(s),
         CopyFits(s, src, sent, once),
         NEW t, t.active = s.active, DOMAIN t.orders = DOMAIN s.orders,
         \A o \in DOMAIN s.orders : t.orders[o].filled = s.orders[o].filled,
         NEW i \in DOMAIN s.intents, DOMAIN t.intents = DOMAIN s.intents,
         \A n \in DOMAIN s.intents : n # i => t.intents[n] = s.intents[n],
         s.intents[i].status # "COMPLETED", IntentSettled(t.intents[i]),
         \A h \in DOMAIN sent :
            sent[h].state = "open" /\ h[1] = i => t.intents[i].leg = s.intents[i].leg,
         t.halt = Held \/ (t.halt = s.halt /\ s.intents[i].status \notin Failed)
  PROVE  Keeps(s, t, src, sent)
  <1>1. Behind(s, t, src)
    <2>1. ~Quiet(s)
      BY DEF Quiet, AllCompleted
    <2> QED
      BY <2>1, BusyBehind
  <1>2. ASSUME Stopped(s) PROVE Stopped(t)
    <2>1. CASE t.halt = Held
      BY <2>1 DEF Stopped
    <2>2. CASE t.halt # Held
      <3>1. PICK n \in DOMAIN s.intents : s.intents[n].status \in Failed
        BY <1>2, <2>2 DEF Stopped
      <3>2. n # i
        BY <2>2, <3>1
      <3>3. t.intents[n].status \in Failed
        BY <3>1, <3>2
      <3> QED
        BY <3>1, <3>3 DEF Stopped
    <2> QED
      BY <2>1, <2>2
  <1>3. \A o \in DOMAIN t.orders : o # t.active => t.orders[o].filled = src[o].filled
    BY DEF Settled
  <1>4. \A n \in DOMAIN t.intents : IntentSettled(t.intents[n])
    BY DEF Settled
  <1>5. ASSUME NEW h \in DOMAIN sent, sent[h].state = "open"
        PROVE  sent[h].index = t.intents[h[1]].leg
    <2>1. h[1] \in DOMAIN s.intents /\ sent[h].index = s.intents[h[1]].leg
      BY <1>5 DEF Settled, CopyFits, HedgeFits
    <2> QED
      BY <1>5, <2>1
  <1> QED
    BY <1>1, <1>2, <1>3, <1>4, <1>5 DEF Keeps, Settled

\* The orders move on, and no stop is withdrawn nor put upon what is quiet.
LEMMA OrdersKeep ==
  ASSUME NEW s, NEW src, NEW sent, Settled(s, src, sent), NEW t,
         DOMAIN t.orders = DOMAIN s.orders,
         \A o \in DOMAIN s.orders : o # t.active => t.orders[o].filled = src[o].filled,
         t.intents = s.intents, s.halt = Held => t.halt = Held,
         Quiet(s) => t.active = NoOrder /\ t.halt # Held
  PROVE  Keeps(s, t, src, sent)
  <1>1. Settled(t, src, sent)
    BY DEF Settled
  <1>2. Behind(s, t, src)
    BY DEF Behind, Quiet, AllCompleted
  <1>3. Stopped(s) => Stopped(t)
    BY DEF Stopped
  <1> QED
    BY <1>1, <1>2, <1>3 DEF Keeps

\* block_hedge keeps everything of an intent that is not completed.
LEMMA BlockKeeps ==
  ASSUME NEW s, NEW src, NEW sent, NEW once, Settled(s, src, sent), IsStore(s),
         CopyFits(s, src, sent, once),
         NEW i \in DOMAIN s.intents, s.intents[i].status # "COMPLETED",
         NEW t, t = BlockHedgeIntent(s, i)
  PROVE  Keeps(s, t, src, sent)
  <1> DEFINE intent == [s.intents[i] EXCEPT !.status = "BLOCKED"]
  <1>1. StoreMoves(s, t) /\ t.active = s.active
    BY BlockMoves
  <1>2. t.intents = [s.intents EXCEPT ![i] = intent] /\ t.halt = Held
    BY DEF IsStore, StoreFields, BlockHedgeIntent
  <1>3. IntentSettled(intent) /\ intent.leg = s.intents[i].leg
    BY DEF IsStore, IsIntent, IntentFields, IntentSettled, HedgeStatus, Failed
  <1> HIDE DEF intent
  <1>4. t.intents[i] = intent /\ \A n \in DOMAIN s.intents : n # i => t.intents[n] = s.intents[n]
    BY <1>2, SeqExcept DEF IsStore
  <1> QED
    BY <1>1, <1>2, <1>3, <1>4, IntentKeeps DEF StoreMoves

\* So does bind_hedge_plan.
LEMMA PlanKeeps ==
  ASSUME NEW s, NEW src, NEW sent, NEW once, Settled(s, src, sent), IsStore(s),
         CopyFits(s, src, sent, once),
         NEW i \in DOMAIN s.intents, s.intents[i].status = "PENDING", NEW plan,
         NEW t, t = BindHedgePlan(s, i, plan)
  PROVE  Keeps(s, t, src, sent) /\ t.intents[i].status = "PENDING"
  <1> DEFINE intent == [s.intents[i] EXCEPT !.plan = plan]
  <1>1. StoreMoves(s, t) /\ t.active = s.active
    BY PlanMoves
  <1>2. t.intents = [s.intents EXCEPT ![i] = intent] /\ t.halt = s.halt
    BY DEF IsStore, StoreFields, BindHedgePlan
  <1>3. IntentSettled(intent) /\ intent.leg = s.intents[i].leg /\ intent.status = "PENDING"
    BY DEF IsStore, IsIntent, IntentFields, IntentSettled, HedgeStatus, InFlight
  <1> HIDE DEF intent
  <1>4. t.intents[i] = intent /\ \A n \in DOMAIN s.intents : n # i => t.intents[n] = s.intents[n]
    BY <1>2, SeqExcept DEF IsStore
  <1>5. Keeps(s, t, src, sent)
    <2>1. s.intents[i].status # "COMPLETED" /\ s.intents[i].status \notin Failed
      BY DEF Failed
    <2> QED
      BY <1>1, <1>2, <1>3, <1>4, <2>1, IntentKeeps DEF StoreMoves
  <1> QED
    BY <1>3, <1>4, <1>5

\* So does bind_hedge_order.
LEMMA BindKeeps ==
  ASSUME NEW s, NEW src, NEW sent, NEW once, Settled(s, src, sent), IsStore(s),
         CopyFits(s, src, sent, once),
         NEW i \in DOMAIN s.intents, s.intents[i].status = "PENDING",
         NEW t, t = BindHedgeOrder(s, i)
  PROVE  Keeps(s, t, src, sent)
  <1> DEFINE h == NextHedgeOrder(s, i)
             a == [s.intents[i] EXCEPT !.order = h]
             b == [a EXCEPT !.orders = Append(@, h)]
             intent == [b EXCEPT !.status = "SUBMITTING"]
  <1>1. /\ t.intents = [s.intents EXCEPT ![i] = intent] /\ t.halt = s.halt
        /\ t.active = s.active /\ t.orders = s.orders
    BY DEF IsStore, StoreFields, BindHedgeOrder, IsIntent, IntentFields
  <1>2. DOMAIN a = IntentFields /\ a.leg = s.intents[i].leg
    BY DEF IsStore, IsIntent, IntentFields
  <1> HIDE DEF a
  <1>3. DOMAIN b = IntentFields /\ b.leg = s.intents[i].leg
    BY <1>2 DEF IntentFields
  <1> HIDE DEF b
  <1>4. intent.status = "SUBMITTING" /\ intent.leg = s.intents[i].leg
    BY <1>3 DEF IntentFields
  <1> HIDE DEF intent
  <1>5. /\ t.intents[i] = intent /\ DOMAIN t.intents = DOMAIN s.intents
        /\ \A n \in DOMAIN s.intents : n # i => t.intents[n] = s.intents[n]
    BY <1>1, SeqExcept DEF IsStore
  <1>6. IntentSettled(intent)
    BY <1>4 DEF IntentSettled, HedgeStatus, InFlight
  <1>7. s.intents[i].status # "COMPLETED" /\ s.intents[i].status \notin Failed
    BY DEF Failed
  <1> QED
    BY <1>1, <1>4, <1>5, <1>6, <1>7, IntentKeeps

\* An order name leads to the intent that waits for it.
LEMMA IntentOfWaits ==
  ASSUME NEW s, \A i \in DOMAIN s.intents : IntentFits(s, i), NEW h, IntentOf(s, h) # 0
  PROVE  IntentOf(s, h) \in DOMAIN s.intents /\ s.intents[IntentOf(s, h)].order = h /\ h # NoHedge
  <1>1. PICK i \in DOMAIN s.intents : s.intents[i].order = h
    BY DEF IntentOf
  <1>2. IntentOf(s, h) = h[1]
    BY <1>1 DEF IntentOf
  <1>3. h # NoHedge
    BY <1>2 DEF NoHedge
  <1>4. PICK n : h = <<i, n>>
    BY <1>1, <1>3 DEF IntentFits
  <1> QED
    BY <1>1, <1>2, <1>3, <1>4

\* update_hedge_status keeps everything: an intent that waits is not completed.
LEMMA HedgeStatusKeeps ==
  ASSUME NEW s, NEW src, NEW sent, NEW once, Settled(s, src, sent), IsStore(s),
         CopyFits(s, src, sent, once), NEW h, NEW v \in {"ACCEPTED", "REJECTED", "UNKNOWN"},
         NEW t, t = UpdateHedgeStatus(s, h, v)
  PROVE  Keeps(s, t, src, sent)
  <1> DEFINE i == IntentOf(s, h)
             intent == [s.intents[i] EXCEPT !.status = v]
  <1>1. CASE i = 0 \/ s.intents[i].status \in Failed
    BY <1>1, SameKeeps DEF UpdateHedgeStatus
  <1>2. CASE i # 0 /\ s.intents[i].status \notin Failed
    <2>1. \A n \in DOMAIN s.intents : IntentFits(s, n)
      BY DEF CopyFits
    <2>2. i \in DOMAIN s.intents /\ s.intents[i].order = h /\ h # NoHedge
      BY <1>2, <2>1, IntentOfWaits
    <2>3. StoreMoves(s, t) /\ t.active = s.active
      BY <2>1, HedgeStatusMoves
    <2> HIDE DEF i
    <2>4. t.intents = [s.intents EXCEPT ![i] = intent] /\ t.halt \in {Held, s.halt}
      BY <1>2, <2>2 DEF IsStore, StoreFields, UpdateHedgeStatus, i
    <2>5. IntentSettled(intent) /\ intent.leg = s.intents[i].leg
      BY <2>2 DEF IsStore, IsIntent, IntentFields, IntentSettled, HedgeStatus, InFlight, Failed
    <2> HIDE DEF intent
    <2>6. t.intents[i] = intent /\ \A n \in DOMAIN s.intents : n # i => t.intents[n] = s.intents[n]
      BY <2>2, <2>4, SeqExcept DEF IsStore
    <2>7. s.intents[i].status # "COMPLETED"
      BY <2>2 DEF Settled, IntentSettled
    <2> QED
      BY <1>2, <2>2, <2>3, <2>4, <2>5, <2>6, <2>7, IntentKeeps DEF StoreMoves
  <1> QED
    BY <1>1, <1>2

\* No order that may still execute is behind the one that did.
LEMMA NoneWaitsBeside ==
  ASSUME NEW s, NEW src, NEW sent, NEW once, Settled(s, src, sent), CopyFits(s, src, sent, once),
         NEW i \in DOMAIN s.intents, NEW h, s.intents[i].order = h,
         NEW g \in DOMAIN sent, sent[g].state = "open", g[1] = i
  PROVE  g = h
  <1>1. sent[g].index = s.intents[i].leg
    BY DEF Settled
  <1>2. HedgeFits(s, g, sent[g])
    BY DEF CopyFits
  <1> QED
    BY <1>1, <1>2 DEF HedgeFits

\* A fill that was not expected blocks its intent.
LEMMA UnexpectedKeeps ==
  ASSUME NEW s, NEW src, NEW sent, NEW once, Settled(s, src, sent), IsStore(s),
         CopyFits(s, src, sent, once),
         NEW i \in DOMAIN s.intents, s.intents[i].status # "COMPLETED", NEW q,
         NEW t, t = UnexpectedHedgeFill(s, i, q)
  PROVE  Keeps(s, t, src, sent)
  <1> DEFINE a == [s.intents[i] EXCEPT !.filled = @ + q]
             b == [a EXCEPT !.legFilled = @ + q]
             intent == [b EXCEPT !.status = "BLOCKED"]
  <1>1. StoreMoves(s, t) /\ t.active = s.active
    BY UnexpectedMoves
  <1>2. t.intents = [s.intents EXCEPT ![i] = intent] /\ t.halt = Held
    BY DEF IsStore, StoreFields, UnexpectedHedgeFill, IsIntent, IntentFields
  <1>3. DOMAIN a = IntentFields /\ a.leg = s.intents[i].leg
    BY DEF IsStore, IsIntent, IntentFields
  <1> HIDE DEF a
  <1>4. DOMAIN b = IntentFields /\ b.leg = s.intents[i].leg
    BY <1>3 DEF IntentFields
  <1> HIDE DEF b
  <1>5. intent.status = "BLOCKED" /\ intent.leg = s.intents[i].leg
    BY <1>4 DEF IntentFields
  <1> HIDE DEF intent
  <1>6. t.intents[i] = intent /\ \A n \in DOMAIN s.intents : n # i => t.intents[n] = s.intents[n]
    BY <1>2, SeqExcept DEF IsStore
  <1>7. IntentSettled(intent)
    BY <1>5 DEF IntentSettled, HedgeStatus, Failed
  <1> QED
    BY <1>1, <1>2, <1>5, <1>6, <1>7, IntentKeeps DEF StoreMoves

\* A leg that is filled lets go of its order.
LEMMA LegFilledKeeps ==
  ASSUME NEW s, NEW src, NEW sent, NEW once, Settled(s, src, sent), IsStore(s),
         CopyFits(s, src, sent, once), NEW i \in DOMAIN s.intents,
         s.intents[i].status # "COMPLETED", s.intents[i].status \notin Failed,
         \A g \in DOMAIN sent : ~(sent[g].state = "open" /\ g[1] = i), NEW q,
         NEW t, t = LegFilled(s, i, q)
  PROVE  Keeps(s, t, src, sent)
  <1> DEFINE v == IF s.intents[i].leg + 1 = Len(s.intents[i].plan) THEN "COMPLETED" ELSE "PENDING"
             a == [s.intents[i] EXCEPT !.filled = @ + q]
             b == [a EXCEPT !.legFilled = 0]
             c == [b EXCEPT !.leg = @ + 1]
             d == [c EXCEPT !.order = NoHedge]
             intent == [d EXCEPT !.status = v]
  <1>1. StoreMoves(s, t) /\ t.active = s.active
    BY LegFilledMoves
  <1>2. t.intents = [s.intents EXCEPT ![i] = intent] /\ t.halt = s.halt
    <2>1. DOMAIN s = StoreFields
      BY DEF IsStore
    <2>2. t.intents = [s.intents EXCEPT ![i] = intent]
      BY <2>1 DEF StoreFields, LegFilled
    <2>3. t.halt = s.halt
      BY <2>1 DEF StoreFields, LegFilled
    <2> QED
      BY <2>2, <2>3
  <1>3. v \in {"COMPLETED", "PENDING"}
    OBVIOUS
  <1> HIDE DEF v
  <1>4. DOMAIN c = IntentFields
    <2>1. DOMAIN a = IntentFields
      BY DEF IsStore, IsIntent
    <2> HIDE DEF a
    <2> QED
      BY <2>1
  <1> HIDE DEF c
  <1>5. DOMAIN d = IntentFields /\ d.order = NoHedge
    BY <1>4 DEF IntentFields
  <1> HIDE DEF d
  <1>6. intent.status = v /\ intent.order = NoHedge
    BY <1>5 DEF IntentFields
  <1> HIDE DEF intent
  <1>7. t.intents[i] = intent /\ \A n \in DOMAIN s.intents : n # i => t.intents[n] = s.intents[n]
    BY <1>2, SeqExcept DEF IsStore
  <1>8. IntentSettled(intent)
    BY <1>3, <1>6 DEF IntentSettled, HedgeStatus, InFlight
  <1> QED
    BY <1>1, <1>2, <1>7, <1>8, IntentKeeps DEF StoreMoves

\* record_hedge_fill keeps everything, of an order that was executed.
LEMMA HedgeFillKeeps ==
  ASSUME NEW s, NEW src, NEW sent, NEW once, Settled(s, src, sent), IsStore(s),
         CopyFits(s, src, sent, once), \A g \in DOMAIN sent : IsHedge(sent[g]),
         NEW h \in DOMAIN sent, sent[h].state # "open", NEW k, NEW q,
         NEW t, t = ApplyHedgeFill(s, <<h, k>>, q)
  PROVE  Keeps(s, t, src, sent)
  <1> DEFINE i == IntentOf(s, h)
             noted == [s EXCEPT !.seenHedge = @ \union {<<h, k>>}]
  <1>1. CASE <<h, k>> \in s.seenHedge \/ i = 0
    BY <1>1, SameKeeps DEF ApplyHedgeFill
  <1>2. CASE ~(<<h, k>> \in s.seenHedge \/ i = 0)
    <2>1. \A n \in DOMAIN s.intents : IntentFits(s, n)
      BY DEF CopyFits
    <2>2. i \in DOMAIN s.intents /\ s.intents[i].order = h /\ h # NoHedge
      BY <1>2, <2>1, IntentOfWaits
    <2>3. s.intents[i].status # "COMPLETED"
      BY <2>2 DEF Settled, IntentSettled
    <2>4. \A g \in DOMAIN sent : ~(sent[g].state = "open" /\ g[1] = i)
      BY <2>2, NoneWaitsBeside
    <2>5. \/ t = UnexpectedHedgeFill(noted, i, q)
          \/ s.intents[i].status \notin Failed /\ t = LegFilled(noted, i, q)
      BY <1>2 DEF ApplyHedgeFill
    <2> HIDE DEF i
    <2>6. /\ DOMAIN noted = StoreFields /\ noted.intents = s.intents /\ noted.orders = s.orders
          /\ noted.seenSource = s.seenSource /\ noted.frozen = s.frozen
          /\ noted.active = s.active /\ noted.halt = s.halt
      BY DEF IsStore, StoreFields
    <2> HIDE DEF noted
    <2>7. IsStore(noted) /\ Settled(noted, src, sent)
      BY <2>6 DEF IsStore, Settled
    <2>8. CopyFits(noted, src, sent, once)
      <3>1. StoreMoves(s, noted)
        BY <2>6, <2>7 DEF StoreMoves, IntentMoves
      <3> QED
        BY <2>6, <3>1, MovesFit
    <2>9. Keeps(noted, t, src, sent)
      BY <2>2, <2>3, <2>4, <2>5, <2>6, <2>7, <2>8, UnexpectedKeeps, LegFilledKeeps
    <2> QED
      BY <2>6, <2>9 DEF Keeps, Behind, Quiet, Stopped, AllCompleted
  <1> QED
    BY <1>1, <1>2

\* What never traded counts nothing.
LEMMA NothingTraded ==
  ASSUME NEW s, NEW o, NEW truth, OrderFits(s, o, truth), truth.fills = <<>>
  PROVE  s.orders[o].filled = truth.filled
  <1>1. PICK m : /\ m[DOMAIN truth.fills] = truth.filled
                 /\ s.orders[o].filled =
                       m[{k \in DOMAIN truth.fills : <<o, k>> \in s.seenSource}]
    BY DEF OrderFits
  <1>2. DOMAIN truth.fills = {}
    OBVIOUS
  <1>3. {k \in DOMAIN truth.fills : <<o, k>> \in s.seenSource} = {}
    BY <1>2
  <1> QED
    BY <1>1, <1>2, <1>3

\* update_source_status keeps everything: what it ends never traded.
LEMMA SourceStatusKeeps ==
  ASSUME NEW s, NEW src, NEW sent, NEW once, Settled(s, src, sent), IsStore(s),
         CopyFits(s, src, sent, once), NEW o \in DOMAIN s.orders, NEW v,
         v \in {"DENIED", "FILLED", "REJECTED"} => src[o].fills = <<>>,
         NEW t, t = UpdateSourceStatus(s, o, v)
  PROVE  Keeps(s, t, src, sent)
  <1>1. StoreMoves(s, t)
    BY SourceStatusMoves
  <1>2. /\ t.intents = s.intents
        /\ t.active = IF v \in {"DENIED", "FILLED", "REJECTED"} /\ s.active = o
                      THEN NoOrder ELSE s.active
        /\ t.halt \in {s.halt, AwaitsReport(o)} /\ (s.halt # NoHalt => t.halt = s.halt)
    BY DEF IsStore, StoreFields, UpdateSourceStatus
  <1>3. ASSUME NEW n \in DOMAIN s.orders, n # t.active
        PROVE  t.orders[n].filled = src[n].filled
    <2>1. t.orders[n].filled = s.orders[n].filled
      BY <1>1 DEF StoreMoves
    <2>2. CASE n # s.active
      BY <2>1, <2>2 DEF Settled
    <2>3. CASE n = s.active
      <3>1. n = o /\ src[o].fills = <<>>
        BY <1>2, <1>3, <2>3
      <3>2. OrderFits(s, o, src[o])
        BY DEF CopyFits
      <3> QED
        BY <2>1, <3>1, <3>2, NothingTraded
    <2> QED
      BY <2>2, <2>3
  <1>4. s.halt = Held => t.halt = Held
    BY <1>2 DEF Held, NoHalt
  <1>5. Quiet(s) => t.active = NoOrder /\ t.halt # Held
    BY <1>2 DEF Quiet, Held, AwaitsReport
  <1>6. DOMAIN t.orders = DOMAIN s.orders
    BY <1>1 DEF StoreMoves
  <1> QED
    BY <1>2, <1>3, <1>4, <1>5, <1>6, OrdersKeep

\* So does confirm_source_reconciled, on a report that is exact.
LEMMA ReconciledKeeps ==
  ASSUME NEW s, NEW src, NEW sent, Settled(s, src, sent), IsStore(s),
         NEW o, s.orders[o].filled = src[o].filled,
         NEW t, t = ConfirmSourceReconciled(s, o)
  PROVE  Keeps(s, t, src, sent)
  <1>1. /\ t.intents = s.intents /\ t.orders = s.orders
        /\ t.active = IF s.active = o THEN NoOrder ELSE s.active
        /\ t.halt \in {s.halt, NoHalt} /\ (s.halt # AwaitsReport(o) => t.halt = s.halt)
    BY DEF IsStore, StoreFields, ConfirmSourceReconciled
  <1>2. ASSUME NEW n \in DOMAIN s.orders, n # t.active
        PROVE  t.orders[n].filled = src[n].filled
    BY <1>1, <1>2 DEF Settled
  <1>3. s.halt = Held => t.halt = Held
    BY <1>1 DEF Held, AwaitsReport
  <1>4. Quiet(s) => t.active = NoOrder /\ t.halt # Held
    BY <1>1 DEF Quiet, Held, NoHalt
  <1> QED
    BY <1>1, <1>2, <1>3, <1>4, OrdersKeep

\* So does marking unknown what is under way.
LEMMA UnknownKeeps ==
  ASSUME NEW s, NEW src, NEW sent, Settled(s, src, sent), IsStore(s), s.active # NoOrder,
         NEW o, NEW t, t = MarkSourceUnknown(s, o)
  PROVE  Keeps(s, t, src, sent)
  <1>1. StoreMoves(s, t) /\ t.active = s.active
    BY UnknownMoves
  <1>2. t.intents = s.intents /\ t.halt = Held
    BY DEF IsStore, StoreFields, MarkSourceUnknown
  <1>3. \A n \in DOMAIN s.orders : n # t.active => t.orders[n].filled = src[n].filled
    BY <1>1 DEF Settled, StoreMoves
  <1>4. ~Quiet(s)
    BY DEF Quiet
  <1>5. DOMAIN t.orders = DOMAIN s.orders
    BY <1>1 DEF StoreMoves
  <1> QED
    BY <1>2, <1>3, <1>4, <1>5, OrdersKeep

\* begin_source puts under way what no copy knows yet.
LEMMA BeginKeeps ==
  ASSUME NEW s, NEW src, NEW sent, Settled(s, src, sent), IsStore(s), s.active = NoOrder,
         NEW side, NEW quantity, NEW exit, NEW freeze,
         NEW t, t = BeginSource(s, side, quantity, exit, freeze), src[t.active].state = "absent"
  PROVE  Keeps(s, t, src, sent)
  <1> DEFINE n == Len(s.orders) + 1
             order == [side |-> side, quantity |-> quantity, filled |-> 0,
                       status |-> "SUBMITTING", exit |-> exit]
  <1>1. /\ t.orders = Append(s.orders, order) /\ t.active = n
        /\ t.intents = s.intents /\ t.halt = s.halt
    BY DEF BeginSource, IsStore, StoreFields
  <1> HIDE DEF order
  <1>2. /\ DOMAIN t.orders = 1 .. n /\ DOMAIN s.orders = 1 .. Len(s.orders)
        /\ \A o \in DOMAIN s.orders : t.orders[o] = s.orders[o]
        /\ Len(s.orders) \in Nat
    BY <1>1, Appended, SeqFacts DEF IsStore
  <1>3. /\ n \in DOMAIN t.orders \ DOMAIN s.orders /\ DOMAIN s.orders \subseteq DOMAIN t.orders
        /\ \A o \in DOMAIN t.orders : o # n => o \in DOMAIN s.orders
        /\ \A o \in DOMAIN s.orders : o # NoOrder
    BY <1>2 DEF NoOrder
  <1> HIDE DEF n
  <1>4. Settled(t, src, sent)
    BY <1>1, <1>2, <1>3 DEF Settled
  <1>5. Behind(s, t, src)
    BY <1>1, <1>3 DEF Behind
  <1>6. Stopped(s) => Stopped(t)
    BY <1>1 DEF Stopped
  <1> QED
    BY <1>4, <1>5, <1>6 DEF Keeps

\* A trade that is not in the books is of the order that works.
LEMMA UnseenWorks ==
  ASSUME NEW s, NEW src, NEW sent, NEW once, Settled(s, src, sent),
         CopyFits(s, src, sent, once), NEW o \in DOMAIN s.orders,
         IsTruth(src[o]), TradesFit(src[o]),
         NEW k \in DOMAIN src[o].fills, <<o, k>> \notin s.seenSource
  PROVE  s.active = o
  <1> SUFFICES ASSUME s.active # o PROVE FALSE
    OBVIOUS
  <1> DEFINE D == DOMAIN src[o].fills
             seen == {n \in D : <<o, n>> \in s.seenSource}
  <1>1. PICK m \in [SUBSET D -> 0 .. src[o].filled] :
           /\ Weighs(m, src[o].fills) /\ m[D] = src[o].filled
           /\ s.orders[o].filled = m[seen]
    BY DEF CopyFits, OrderFits
  <1>2. m[seen] = m[D]
    BY <1>1 DEF Settled
  <1>3. seen \in SUBSET D /\ k \in D \ seen /\ seen \union {k} \in SUBSET D
    OBVIOUS
  <1>4. m[seen \union {k}] = m[seen] + src[o].fills[k] /\ m[seen \union {k}] <= m[D]
    BY <1>1, <1>3 DEF Weighs
  <1>5. src[o].fills[k] \in Nat \ {0} /\ src[o].filled \in Nat
    BY DEF IsTruth, TradesFit
  <1>6. PICK v, w, q : v = m[seen \union {k}] /\ w = src[o].filled /\ q = src[o].fills[k]
    OBVIOUS
  <1>7. v = w + q /\ v <= w /\ w \in Nat /\ q \in Nat \ {0}
    BY <1>1, <1>2, <1>4, <1>5, <1>6
  <1> QED
    BY <1>7

\* The record of an order is never ahead of the venue.
LEMMA RecordInRange ==
  ASSUME NEW s, NEW o, NEW truth, OrderFits(s, o, truth)
  PROVE  s.orders[o].filled \in 0 .. truth.filled
  <1>1. PICK m \in [SUBSET DOMAIN truth.fills -> 0 .. truth.filled] :
           s.orders[o].filled = m[{k \in DOMAIN truth.fills : <<o, k>> \in s.seenSource}]
    BY DEF OrderFits
  <1>2. PICK S \in SUBSET DOMAIN truth.fills :
           S = {k \in DOMAIN truth.fills : <<o, k>> \in s.seenSource}
    OBVIOUS
  <1>3. m[S] \in 0 .. truth.filled
    OBVIOUS
  <1> QED
    BY <1>1, <1>2, <1>3

\* The fill that ends an order is the last of it.
LEMMA NoteSettles ==
  ASSUME NEW s, NEW src, NEW sent, NEW once, Settled(s, src, sent), IsStore(s),
         CopyFits(s, src, sent, once), NEW o \in DOMAIN s.orders, s.active = o,
         IsTruth(src[o]), VenueFits(src[o]), TradesFit(src[o]),
         NEW k \in DOMAIN src[o].fills, <<o, k>> \notin s.seenSource,
         NEW t, t = NoteSourceFill(s, <<o, k>>, src[o].fills[k]),
         CopyFits(t, src, sent, once)
  PROVE  Settled(t, src, sent)
  <1>1. src[o].fills[k] \in Nat
    BY DEF IsTruth
  <1>2. /\ t.intents = s.intents /\ DOMAIN t.orders = DOMAIN s.orders
        /\ \A n \in DOMAIN s.orders : /\ t.orders[n].quantity = s.orders[n].quantity
                                      /\ n # o => t.orders[n].filled = s.orders[n].filled
        /\ t.orders[o].filled = s.orders[o].filled + src[o].fills[k]
        /\ \/ t.active = s.active
           \/ /\ t.active = NoOrder /\ s.active = o
              /\ s.orders[o].filled + src[o].fills[k] >= s.orders[o].quantity
    <2>1. Noted(s, t, o, k, src[o].fills[k])
      BY <1>1, NoteFill
    <2> QED
      BY <2>1 DEF Noted
  <1>3. ASSUME NEW n \in DOMAIN t.orders, n # t.active
        PROVE  t.orders[n].filled = src[n].filled
    <2>1. CASE n # o
      BY <1>2, <2>1 DEF Settled
    <2>2. CASE n = o
      <3>1. t.orders[o].filled >= t.orders[o].quantity
        BY <1>2, <1>3, <2>2
      <3>2. src[o].state # "absent"
        BY DEF VenueFits
      <3>3. OrderFits(t, o, src[o])
        BY <1>2 DEF CopyFits
      <3>4. t.orders[o].quantity = src[o].quantity
        BY <3>2, <3>3 DEF OrderFits
      <3>5. t.orders[o].filled \in 0 .. src[o].filled
        BY <3>3, RecordInRange
      <3>6. /\ src[o].filled \in Nat /\ src[o].quantity \in Nat
            /\ src[o].filled <= src[o].quantity
        BY DEF IsTruth, TradesFit
      <3>7. PICK v, w, q : v = t.orders[o].filled /\ w = src[o].filled /\ q = src[o].quantity
        OBVIOUS
      <3>8. v >= q /\ v \in 0 .. w /\ w \in Nat /\ q \in Nat /\ w <= q
        BY <3>1, <3>4, <3>5, <3>6, <3>7
      <3>9. v = w
        BY <3>8
      <3> QED
        BY <2>2, <3>7, <3>9
    <2> QED
      BY <2>1, <2>2
  <1> QED
    BY <1>2, <1>3 DEF Settled

\* What is due is put behind the intents there are.
LEMMA AllocateSettles ==
  ASSUME NEW s, NEW src, NEW sent, NEW once, Settled(s, src, sent), IsStore(s),
         CopyFits(s, src, sent, once), NEW fill, NEW signed, NEW exit,
         NEW t, t = AllocateSourceFill(s, fill, signed, exit)
  PROVE  /\ Settled(t, src, sent) /\ (Stopped(s) => Stopped(t))
         /\ t.orders = s.orders /\ t.active = s.active
  <1> DEFINE total == s.residual + signed
             rounded == RoundHedgeOunces(total)
             rest == total - Unit * rounded
             u == [s EXCEPT !.residual = rest]
             new == NewIntent(fill, IF rounded > 0 THEN -1 ELSE 1, Size(rounded), exit)
  <1>1. t = AddIntent(u, fill, rounded, exit)
    BY DEF AllocateSourceFill
  <1> HIDE DEF rest
  <1>2. /\ DOMAIN u = StoreFields /\ u.orders = s.orders /\ u.intents = s.intents
        /\ u.active = s.active /\ u.halt = s.halt
    BY DEF IsStore, StoreFields
  <1> HIDE DEF u
  <1>3. /\ t.orders = s.orders /\ t.active = s.active /\ t.halt = s.halt
        /\ t.intents = s.intents \/ t.intents = Append(s.intents, new)
    BY <1>1, <1>2 DEF AddIntent, StoreFields
  <1>4. IntentSettled(new)
    BY DEF NewIntent, IntentSettled, HedgeStatus, InFlight
  <1> HIDE DEF new
  <1>5. /\ DOMAIN s.intents \subseteq DOMAIN t.intents
        /\ \A i \in DOMAIN s.intents : t.intents[i] = s.intents[i]
        /\ \A i \in DOMAIN t.intents : i \in DOMAIN s.intents \/ t.intents[i] = new
    <2>1. IsSeq(s.intents)
      BY DEF IsStore
    <2>2. /\ Len(s.intents) \in Nat /\ DOMAIN s.intents = 1 .. Len(s.intents)
          /\ DOMAIN Append(s.intents, new) = 1 .. Len(s.intents) + 1
          /\ \A i \in DOMAIN s.intents : Append(s.intents, new)[i] = s.intents[i]
          /\ Append(s.intents, new)[Len(s.intents) + 1] = new
      BY <2>1, Appended, SeqFacts
    <2>3. CASE t.intents = s.intents
      BY <2>3
    <2>4. CASE t.intents = Append(s.intents, new)
      BY <2>2, <2>4
    <2> QED
      BY <1>3, <2>3, <2>4
  <1>6. Settled(t, src, sent)
    <2>1. \A o \in DOMAIN t.orders : o # t.active => t.orders[o].filled = src[o].filled
      BY <1>3 DEF Settled
    <2>2. \A i \in DOMAIN t.intents : IntentSettled(t.intents[i])
      BY <1>4, <1>5 DEF Settled
    <2>3. ASSUME NEW h \in DOMAIN sent, sent[h].state = "open"
          PROVE  sent[h].index = t.intents[h[1]].leg
      <3>1. h[1] \in DOMAIN s.intents
        BY DEF CopyFits, HedgeFits
      <3> QED
        BY <1>5, <2>3, <3>1 DEF Settled
    <2> QED
      BY <2>1, <2>2, <2>3 DEF Settled
  <1>7. Stopped(s) => Stopped(t)
    BY <1>3, <1>5 DEF Stopped
  <1> QED
    BY <1>3, <1>6, <1>7

\* reserve_source_fill keeps everything: its order was working.
LEMMA ReserveKeeps ==
  ASSUME NEW s, NEW src, NEW sent, NEW once, Settled(s, src, sent), IsStore(s),
         CopyFits(s, src, sent, once),
         \A n \in SourceIds : IsTruth(src[n]) /\ VenueFits(src[n]) /\ TradesFit(src[n]),
         NEW o \in DOMAIN s.orders, NEW k \in DOMAIN src[o].fills, <<o, k>> \notin s.seenSource,
         NEW t, t = ReserveSourceFill(s, <<o, k>>, src[o].fills[k])
  PROVE  /\ Keeps(s, t, src, sent)
         /\ t.active = s.active \/ (t.active = NoOrder /\ s.active = o)
  <1> DEFINE q == src[o].fills[k]
  <1>1. PICK u : u = NoteSourceFill(s, <<o, k>>, q)
    OBVIOUS
  <1>2. o \in SourceIds /\ o # NoOrder
    BY DEF CopyFits, SourceIds, NoOrder
  <1>3. IsTruth(src[o]) /\ VenueFits(src[o]) /\ TradesFit(src[o]) /\ q \in Nat
    BY <1>2 DEF IsTruth
  <1>4. s.active = o
    BY <1>3, UnseenWorks
  <1>5. IsStore(u) /\ CopyFits(u, src, sent, once)
    <2>1. \A n \in SourceIds : IsTruth(src[n]) /\ VenueFits(src[n])
      OBVIOUS
    <2> QED
      BY <1>1, <2>1, NoteFits
  <1>6. Settled(u, src, sent)
    BY <1>1, <1>3, <1>4, <1>5, NoteSettles
  <1>7. /\ u.intents = s.intents /\ DOMAIN u.orders = DOMAIN s.orders
        /\ s.halt = Held => u.halt = Held
        /\ u.active = s.active \/ (u.active = NoOrder /\ s.active = o)
    <2>1. Noted(s, u, o, k, q)
      BY <1>1, <1>3, NoteFill
    <2> QED
      BY <2>1 DEF Noted
  <1>8. PICK signed, exit : t = AllocateSourceFill(u, <<o, k>>, signed, exit)
    BY <1>1 DEF ReserveSourceFill
  <1>9. /\ Settled(t, src, sent) /\ (Stopped(u) => Stopped(t))
        /\ t.orders = u.orders /\ t.active = u.active
    BY <1>5, <1>6, <1>8, AllocateSettles
  <1>10. Stopped(s) => Stopped(u)
    BY <1>7 DEF Stopped
  <1>11. Behind(s, t, src)
    <2>1. ~Quiet(s)
      BY <1>2, <1>4 DEF Quiet
    <2> QED
      BY <1>7, <1>9, <2>1, BusyBehind
  <1> QED
    BY <1>7, <1>9, <1>10, <1>11 DEF Keeps

\* A restart keeps everything: what was under way stops.
LEMMA RecoverKeeps ==
  ASSUME NEW s, NEW src, NEW sent, NEW once, Settled(s, src, sent), IsStore(s),
         CopyFits(s, src, sent, once), NEW t, t = RecoverForStart(s)
  PROVE  /\ Settled(t, src, sent) /\ Behind(s, t, src)
         /\ ~Quiet(s) => Stopped(t) \/ t.active # NoOrder
         /\ s.active = NoOrder /\ AllCompleted(s) => t = s
  <1>1. CASE s.active = NoOrder /\ AllCompleted(s)
    <2>1. t = s
      BY <1>1 DEF RecoverForStart
    <2>2. ~Quiet(s) => Stopped(s)
      BY <1>1 DEF Quiet, Stopped
    <2> QED
      BY <2>1, <2>2, BehindItself
  <1>2. CASE ~(s.active = NoOrder /\ AllCompleted(s))
    <2>1. StoreMoves(s, t) /\ t.active = s.active
      BY RecoverMoves DEF CopyFits
    <2> DEFINE l == [i \in DOMAIN s.intents |->
                        IF s.intents[i].status \in InFlight
                        THEN [s.intents[i] EXCEPT !.status = "UNKNOWN"] ELSE s.intents[i]]
    <2>2. t.intents = l
      BY <1>2 DEF IsStore, StoreFields, RecoverForStart
    <2>3. ASSUME NEW i \in DOMAIN s.intents
          PROVE  /\ IntentSettled(l[i]) /\ l[i].leg = s.intents[i].leg
                 /\ s.intents[i].status # "COMPLETED" => l[i].status \in Failed
      <3>1. IsIntent(s.intents[i]) /\ IntentSettled(s.intents[i])
        BY DEF IsStore, Settled
      <3>2. CASE s.intents[i].status \in InFlight
        <4>1. PICK intent : intent = s.intents[i]
          OBVIOUS
        <4>2. l[i] = [intent EXCEPT !.status = "UNKNOWN"]
          BY <3>2, <4>1
        <4>3. l[i].status = "UNKNOWN" /\ l[i].leg = intent.leg
          BY <3>1, <4>1, <4>2 DEF IsIntent, IntentFields
        <4> QED
          BY <4>1, <4>3 DEF IntentSettled, HedgeStatus, Failed
      <3>3. CASE s.intents[i].status \notin InFlight
        BY <3>1, <3>3 DEF IntentSettled, HedgeStatus
      <3> QED
        BY <3>2, <3>3
    <2>4. DOMAIN t.intents = DOMAIN s.intents /\ DOMAIN t.orders = DOMAIN s.orders
      BY <2>1 DEF StoreMoves
    <2> HIDE DEF l
    <2>5. Settled(t, src, sent)
      <3>1. \A o \in DOMAIN t.orders : o # t.active => t.orders[o].filled = src[o].filled
        BY <2>1 DEF Settled, StoreMoves
      <3>2. \A i \in DOMAIN t.intents : IntentSettled(t.intents[i])
        BY <2>2, <2>3, <2>4
      <3>3. ASSUME NEW h \in DOMAIN sent, sent[h].state = "open"
            PROVE  sent[h].index = t.intents[h[1]].leg
        <4>1. h[1] \in DOMAIN s.intents /\ sent[h].index = s.intents[h[1]].leg
          BY <3>3 DEF Settled, CopyFits, HedgeFits
        <4> QED
          BY <2>2, <2>3, <4>1
      <3> QED
        BY <3>1, <3>2, <3>3 DEF Settled
    <2>6. Behind(s, t, src)
      BY <1>2, <2>4, BusyBehind DEF Quiet
    <2>7. Stopped(t) \/ t.active # NoOrder
      <3> SUFFICES ASSUME s.active = NoOrder PROVE Stopped(t)
        BY <2>1
      <3>1. PICK i \in DOMAIN s.intents : s.intents[i].status # "COMPLETED"
        BY <1>2 DEF AllCompleted
      <3>2. t.intents[i].status \in Failed
        BY <2>2, <2>3, <3>1
      <3> QED
        BY <2>4, <3>2 DEF Stopped
    <2> QED
      BY <1>2, <2>5, <2>6, <2>7
  <1> QED
    BY <1>1, <1>2

-----------------------------------------------------------------------------
(* The steps, once more                                                    *)

\* An order the engine holds for open without a fill is the one that works.
EngineFits(e, s) ==
    \A o \in SourceIds : e[o].status = "open" /\ e[o].fills = {} => s.active = o
BindsPending == doing.step = "bind" => mem.intents[doing.intent].status = "PENDING"

\* In both invariants, what is known of each copy.
LEMMA CopiesSettle ==
  ASSUME Inv, StopInv, NEW s \in {mem, disk, durable}
  PROVE  Settled(s, source, hedges) /\ IsStore(s) /\ CopyFits(s, source, hedges, OneShot)
  BY CopiesAreGood DEF StopInv, Good

\* What is known of the venues.
LEMMA VenuesFit ==
  ASSUME Inv, StopInv
  PROVE  /\ \A o \in SourceIds : IsTruth(source[o]) /\ VenueFits(source[o]) /\ TradesFit(source[o])
         /\ \A h \in DOMAIN hedges : IsHedge(hedges[h])
  BY DEF Inv, Shapes, TakerInv, StopInv

\* The callback writes a value that keeps everything.
LEMMA KeepsStep ==
  ASSUME StopInv, NEW s, Keeps(mem, s, source, hedges),
         NEW kept, kept \in {mem, s}, NEW then, NEW n, Persist(s, kept, then, n),
         UNCHANGED <<source, hedges>>, EngineFits(engine', mem), EngineFits(engine', s),
         doing' = then /\ mem' = s => BindsPending'
  PROVE  StopInv' /\ (Stopped(mem) => Stopped(mem'))
  <1>1. \/ mem' = s /\ disk' = s /\ durable' = s /\ doing' = then
        \/ mem' = s /\ disk' = s /\ durable' = durable /\ doing' = Idle
        \/ mem' \in {mem, s} /\ disk' = disk /\ durable' = durable /\ doing' = Idle
    BY DEF Persist
  <1>2. /\ Settled(s, source, hedges) /\ Behind(mem, s, source)
        /\ (Stopped(mem) => Stopped(s))
    BY DEF Keeps
  <1>3. /\ Settled(mem, source, hedges) /\ Settled(disk, source, hedges)
        /\ Settled(durable, source, hedges)
        /\ Behind(disk, mem, source) /\ Behind(durable, mem, source)
        /\ Behind(durable, disk, source)
    BY DEF StopInv
  <1>4. Behind(disk, s, source) /\ Behind(durable, s, source) /\ Behind(s, s, source)
    BY <1>2, <1>3, BehindBoth, BehindItself
  <1>5. \A c \in {mem', disk', durable'} : Settled(c, source', hedges')
    BY <1>1, <1>2, <1>3
  <1>6. /\ Behind(disk', mem', source') /\ Behind(durable', mem', source')
        /\ Behind(durable', disk', source')
    BY <1>1, <1>3, <1>4
  <1>7. /\ \A o \in SourceIds : TradesFit(source'[o])
        /\ \A h \in DOMAIN hedges' : hedges'[h].state = "open" => hedges'[h].fills = <<>>
    BY DEF StopInv
  <1>8. \A o \in SourceIds :
           engine'[o].status = "open" /\ engine'[o].fills = {} => mem'.active = o
    BY <1>1 DEF EngineFits
  <1>9. BindsPending'
    BY <1>1 DEF BindsPending, Idle
  <1>10. Stopped(mem) => Stopped(mem')
    BY <1>1, <1>2
  <1> QED
    BY <1>5, <1>6, <1>7, <1>8, <1>9, <1>10 DEF StopInv, BindsPending

\* Nothing is written.
LEMMA NothingWritten ==
  ASSUME StopInv, UNCHANGED <<mem, disk, durable, source, hedges>>, EngineFits(engine', mem),
         BindsPending'
  PROVE  StopInv' /\ (Stopped(mem) => Stopped(mem'))
  BY DEF StopInv, EngineFits, BindsPending

StopStays == StopInv' /\ (Stopped(mem) => Stopped(mem'))
EngineShape == DOMAIN engine = SourceIds /\ \A o \in SourceIds : DOMAIN engine[o] = {"status", "fills"}

\* What the engine says of one order, and what becomes of it.
LEMMA EngineMoves ==
  ASSUME NEW d, NEW e, NEW s, NEW t, EngineFits(d, s), NEW o,
         \A n \in SourceIds : n # o => e[n] = d[n],
         o \in SourceIds => e[o].status # "open" \/ e[o].fills # {},
         t.active = s.active \/ (t.active = NoOrder /\ s.active = o)
  PROVE  EngineFits(e, t)
  BY DEF EngineFits

\* In the invariant the engine fits what the process remembers.
LEMMA EngineKnows ==
  ASSUME StopInv
  PROVE  EngineFits(engine, mem)
  BY DEF StopInv, EngineFits

\* A callback that waits for nothing binds nothing.
LEMMA NothingBinds ==
  ASSUME NEW step, step # "bind", NEW i, doing' = Doing(step, i) \/ doing' = Idle
  PROVE  BindsPending'
  BY DEF BindsPending, Doing, Idle

\* Nothing happens, or nothing that the store or the venues see.
LEMMA StayControl ==
  ASSUME StopInv, \/ UNCHANGED vars
                  \/ ReconcileStartup \/ ArmOneShot \/ DisarmOneShot \/ BeginDrain \/ TicketDrifts
  PROVE  StopStays
  <1>1. UNCHANGED <<mem, disk, durable, source, hedges, engine, doing>>
    BY DEF ReconcileStartup, ArmOneShot, DisarmOneShot, BeginDrain, TicketDrifts, vars,
           store, process, world
  <1>2. EngineFits(engine', mem) /\ BindsPending'
    BY <1>1, EngineKnows DEF StopInv, BindsPending
  <1> QED
    BY <1>1, <1>2, NothingWritten DEF StopStays

\* Nor do a tick and a query.
LEMMA StayTick ==
  ASSUME StopInv, OnQuoteTick \/ QuoteIsStale \/ RequestSourceTerminalQuery
  PROVE  StopStays
  <1>1. UNCHANGED <<mem, disk, durable, source, hedges, engine>>
    BY DEF OnQuoteTick, QuoteIsStale, RequestSourceTerminalQuery, Proceed, store, world
  <1>2. doing' = Doing("dispatch", 0) \/ doing' = Idle
    BY DEF OnQuoteTick, QuoteIsStale, RequestSourceTerminalQuery, Proceed
  <1>3. EngineFits(engine', mem) /\ BindsPending'
    BY <1>1, <1>2, EngineKnows, NothingBinds
  <1> QED
    BY <1>1, <1>3, NothingWritten DEF StopStays

\* A restart finds the stop, or the order it was about under way, or never begun.
LEMMA StayStart ==
  ASSUME Inv, StopInv, OnStart
  PROVE  StopInv' /\ (Stopped(mem) => Stopped(mem') \/ mem'.active # NoOrder \/ NeverBegun)
  <1>1. PICK s : s = RecoverForStart(disk)
    OBVIOUS
  <1>2. /\ mem' = s /\ disk' = s /\ doing' = Idle /\ UNCHANGED <<source, hedges>>
        /\ durable' = IF disk.active = NoOrder /\ AllCompleted(disk) THEN durable ELSE s
        /\ engine' = [o \in SourceIds |-> [status |-> "absent", fills |-> {}]]
    BY <1>1 DEF OnStart, world
  <1>3. /\ Settled(disk, source, hedges) /\ IsStore(disk)
        /\ CopyFits(disk, source, hedges, OneShot)
    BY CopiesSettle
  <1>4. /\ Settled(s, source, hedges) /\ Behind(disk, s, source)
        /\ ~Quiet(disk) => Stopped(s) \/ s.active # NoOrder
        /\ disk.active = NoOrder /\ AllCompleted(disk) => s = disk
    BY <1>1, <1>3, RecoverKeeps
  <1>5. /\ Settled(durable, source, hedges) /\ Behind(durable, disk, source)
        /\ Behind(disk, mem, source)
    BY DEF StopInv
  <1>6. Behind(s, s, source) /\ Behind(durable, s, source)
    BY <1>4, <1>5, BehindItself, BehindBoth
  <1>7. StopInv'
    <2>1. \A c \in {mem', disk', durable'} : Settled(c, source', hedges')
      BY <1>2, <1>4, <1>5
    <2>2. /\ Behind(disk', mem', source') /\ Behind(durable', mem', source')
          /\ Behind(durable', disk', source')
      BY <1>2, <1>6
    <2>3. /\ \A o \in SourceIds : TradesFit(source'[o])
          /\ \A h \in DOMAIN hedges' : hedges'[h].state = "open" => hedges'[h].fills = <<>>
      BY <1>2 DEF StopInv
    <2>4. \A o \in SourceIds : engine'[o].status # "open"
      BY <1>2
    <2>5. doing'.step # "bind"
      BY <1>2 DEF Idle
    <2> QED
      BY <2>1, <2>2, <2>3, <2>4, <2>5 DEF StopInv
  <1>8. ASSUME Stopped(mem), Quiet(disk) PROVE NeverBegun
    <2>1. ~Quiet(mem)
      BY <1>8 DEF Quiet, Stopped, AllCompleted, Failed
    <2>2. PICK o \in DOMAIN mem.orders \ DOMAIN disk.orders : source[o].state = "absent"
      BY <1>5, <1>8, <2>1 DEF Behind
    <2>3. mem' = disk
      BY <1>2, <1>4, <1>8 DEF Quiet
    <2> QED
      BY <2>2, <2>3 DEF NeverBegun, KnowsSourceOrder
  <1> QED
    BY <1>2, <1>4, <1>7, <1>8

\* The process stops.
LEMMA StayStop ==
  ASSUME Inv, StopInv, OnStop
  PROVE  StopStays
  <1>1. PICK s : s = MarkSourceUnknown(mem, mem.active)
    OBVIOUS
  <1>2. UNCHANGED <<source, hedges, engine>>
    BY DEF OnStop, world
  <1>3. \/ Ends(1)
        \/ mem.active # NoOrder /\ (Persist(s, s, Idle, 1) \/ Persist(s, s, Idle, 2))
    BY <1>1 DEF OnStop
  <1>4. EngineFits(engine', mem)
    BY <1>2, EngineKnows
  <1>5. CASE Ends(1)
    <2>1. UNCHANGED <<mem, disk, durable>> /\ doing' = Idle
      BY <1>5 DEF Ends, store
    <2>2. BindsPending'
      BY <2>1, NothingBinds
    <2> QED
      BY <1>2, <1>4, <2>1, <2>2, NothingWritten DEF StopStays
  <1>6. ASSUME mem.active # NoOrder, NEW n, Persist(s, s, Idle, n) PROVE StopStays
    <2>1. Settled(mem, source, hedges) /\ IsStore(mem)
      BY CopiesSettle
    <2>2. Keeps(mem, s, source, hedges) /\ s.active = mem.active
      BY <1>1, <1>6, <2>1, UnknownKeeps, UnknownMoves
    <2>3. EngineFits(engine', s)
      BY <1>4, <2>2 DEF EngineFits
    <2>4. doing' = Idle => BindsPending'
      BY NothingBinds
    <2> QED
      BY <1>2, <1>4, <1>6, <2>2, <2>3, <2>4, KeepsStep DEF StopStays
  <1> QED
    BY <1>3, <1>5, <1>6

\* The process, or the machine, is cut off.
LEMMA StayCrash ==
  ASSUME StopInv, Crash
  PROVE  StopStays
  <1>1. /\ UNCHANGED <<mem, durable, source, hedges, engine>> /\ disk' \in {disk, durable}
        /\ doing' = Idle
    BY DEF Crash, world
  <1>2. Behind(durable, durable, source)
    BY BehindItself
  <1>3. \A c \in {mem', disk', durable'} : Settled(c, source', hedges')
    BY <1>1 DEF StopInv
  <1>4. /\ Behind(disk', mem', source') /\ Behind(durable', mem', source')
        /\ Behind(durable', disk', source')
    BY <1>1, <1>2 DEF StopInv
  <1>5. doing'.step # "bind"
    BY <1>1 DEF Idle
  <1> QED
    BY <1>1, <1>3, <1>4, <1>5 DEF StopInv, StopStays

\* A tick: the next source order is begun.
LEMMA StayEvaluate ==
  ASSUME Inv, StopInv, NEW side \in Sides, NEW quantity \in Quantities,
         EvaluateAndSubmit(side, quantity)
  PROVE  StopStays
  <1>1. PICK exit : Persist(BeginSource(mem, side, quantity, exit, OneShot),
                            BeginSource(mem, side, quantity, exit, OneShot),
                            Doing("submit source", 0), 0)
    BY DEF EvaluateAndSubmit
  <1>2. /\ CanSubmitSource(mem) /\ Len(mem.orders) < MaxOrders
        /\ UNCHANGED <<source, hedges, engine>>
    BY DEF EvaluateAndSubmit, world
  <1>3. PICK s : s = BeginSource(mem, side, quantity, exit, OneShot)
    OBVIOUS
  <1>4. Persist(s, s, Doing("submit source", 0), 0)
    BY <1>1, <1>3
  <1>5. mem.active = NoOrder /\ ~mem.frozen
    BY <1>2 DEF CanSubmitSource
  <1>6. /\ Settled(mem, source, hedges) /\ IsStore(mem)
        /\ CopyFits(mem, source, hedges, OneShot)
    BY CopiesSettle
  <1>7. source[s.active].state = "absent"
    <2>1. quantity \in Nat \ {0}
      BY TakerAssumption
    <2>2. \A o \in SourceIds : IsTruth(source[o]) /\ VenueFits(source[o])
      BY VenuesFit
    <2> QED
      BY <1>2, <1>3, <1>5, <1>6, <2>1, <2>2, BeginFits
  <1>8. Keeps(mem, s, source, hedges)
    BY <1>3, <1>5, <1>6, <1>7, BeginKeeps
  <1>9. EngineFits(engine', mem) /\ EngineFits(engine', s)
    <2>1. EngineFits(engine, mem)
      BY EngineKnows
    <2>2. \A o \in SourceIds : ~(engine[o].status = "open" /\ engine[o].fills = {})
      BY <1>5, <2>1 DEF EngineFits, SourceIds, NoOrder
    <2> QED
      BY <1>2, <2>2 DEF EngineFits
  <1>10. doing' = Doing("submit source", 0) => BindsPending'
    BY NothingBinds
  <1> QED
    BY <1>2, <1>4, <1>8, <1>9, <1>10, KeepsStep DEF StopStays

\* submit_order returns, or raises before or after the order is on its way.
LEMMA StaySubmit ==
  ASSUME Inv, StopInv, EngineShape, SubmitSource
  PROVE  StopStays
  <1> DEFINE o == mem.active
             truth == [state |-> "open", side |-> mem.orders[o].side,
                       quantity |-> mem.orders[o].quantity, fills |-> <<>>, filled |-> 0]
  <1>1. PICK s : s = MarkSourceUnknown(mem, o)
    OBVIOUS
  <1>2. /\ doing.step = "submit source" /\ UNCHANGED hedges
        /\ \/ Sent(o) /\ Proceed(Idle)
           \/ Persist(s, s, Idle, 1) /\ (Sent(o) \/ UNCHANGED <<source, engine>>)
    BY <1>1 DEF SubmitSource
  <1>3. /\ disk = mem /\ durable = mem /\ o \in DOMAIN mem.orders
        /\ source[o].state = "absent"
    BY <1>2 DEF Inv, TakerInv, DoingFits
  <1>4. /\ Settled(mem, source, hedges) /\ IsStore(mem)
        /\ CopyFits(mem, source, hedges, OneShot)
    BY CopiesSettle
  <1>5. o \in SourceIds /\ o # NoOrder
    BY <1>3, <1>4 DEF CopyFits, SourceIds, NoOrder
  <1>6. Keeps(mem, s, source, hedges) /\ s.active = o /\ DOMAIN s.orders = DOMAIN mem.orders
    BY <1>1, <1>4, <1>5, UnknownKeeps, UnknownMoves DEF StoreMoves
  <1>7. /\ mem' \in {mem, s} /\ disk' \in {mem, s} /\ durable' \in {mem, s} /\ doing' = Idle
        /\ Stopped(mem) => Stopped(mem')
    <2>1. Stopped(mem) => Stopped(s)
      BY <1>6 DEF Keeps
    <2>2. /\ mem' \in {mem, s} /\ disk' \in {mem, s} /\ durable' \in {mem, s} /\ doing' = Idle
      BY <1>2, <1>3 DEF Persist, Proceed, store
    <2> QED
      BY <2>1, <2>2
  <1>8. \A n \in SourceIds : n # o => source'[n] = source[n] /\ engine'[n] = engine[n]
    <2>1. CASE UNCHANGED <<source, engine>>
      BY <2>1
    <2>2. CASE Sent(o)
      <3>1. source' = [source EXCEPT ![o] = truth] /\ engine' = [engine EXCEPT ![o].status = "open"]
        BY <2>2 DEF Sent
      <3>2. DOMAIN source = SourceIds /\ DOMAIN engine = SourceIds
        BY DEF Inv, Shapes, EngineShape
      <3> HIDE DEF o, truth
      <3> QED
        BY <3>1, <3>2
    <2> QED
      BY <1>2, <2>1, <2>2
  <1>9. source[o].filled = 0 /\ source'[o].filled = source[o].filled /\ TradesFit(source'[o])
    <2>1. source[o].filled = 0 /\ TradesFit(source[o])
      BY <1>3, <1>5, VenuesFit DEF VenueFits
    <2>2. CASE UNCHANGED source
      BY <2>1, <2>2
    <2>3. CASE Sent(o)
      <3>1. source'[o] = truth
        BY <1>5, <2>3 DEF Sent, Inv, Shapes
      <3>2. mem.orders[o].quantity \in Nat
        BY <1>3, <1>4 DEF IsStore, IsOrder
      <3> HIDE DEF o
      <3>3. truth.filled = 0 /\ TradesFit(truth)
        BY <3>2 DEF TradesFit
      <3> QED
        BY <2>1, <3>1, <3>3
    <2> QED
      BY <1>2, <2>2, <2>3
  <1>10. Settled(mem, source', hedges') /\ Settled(s, source', hedges')
    <2>1. ASSUME NEW c, Settled(c, source, hedges), c.active = o, DOMAIN c.orders \subseteq SourceIds
          PROVE  Settled(c, source', hedges')
      BY <1>2, <1>8, <2>1 DEF Settled
    <2>2. DOMAIN mem.orders \subseteq SourceIds
      BY <1>4 DEF CopyFits
    <2> QED
      BY <1>4, <1>6, <2>1, <2>2 DEF Keeps
  <1>11. ASSUME NEW c \in {mem, s}, NEW d \in {mem, s} PROVE Behind(c, d, source')
    <2>1. ~Quiet(c) /\ DOMAIN c.orders = DOMAIN d.orders
      BY <1>5, <1>6, <1>11 DEF Quiet
    <2> QED
      BY <2>1, BusyBehind
  <1>12. \A n \in SourceIds : /\ TradesFit(source'[n])
                              /\ engine'[n].status = "open" /\ engine'[n].fills = {} => mem'.active = n
    <2>1. mem'.active = o /\ mem.active = o
      BY <1>6, <1>7
    <2> HIDE DEF o
    <2> QED
      BY <1>8, <1>9, <2>1 DEF StopInv
  <1>13. doing'.step # "bind" /\ \A h \in DOMAIN hedges' : hedges'[h].state = "open" => hedges'[h].fills = <<>>
    BY <1>2, <1>7 DEF Idle, StopInv
  <1>14. \A c \in {mem', disk', durable'} : Settled(c, source', hedges')
    BY <1>7, <1>10
  <1>15. /\ Behind(disk', mem', source') /\ Behind(durable', mem', source')
         /\ Behind(durable', disk', source')
    BY <1>7, <1>11
  <1> QED
    BY <1>7, <1>12, <1>13, <1>14, <1>15 DEF StopInv, StopStays

\* An event that says how a source order is, and ends there or in a query.
LEMMA StaySourceStatus ==
  ASSUME Inv, StopInv, NEW o \in DOMAIN mem.orders, NEW v,
         v \in {"DENIED", "FILLED", "REJECTED"} =>
            source[o].fills = <<>> /\ (engine'[o].status # "open" \/ engine'[o].fills # {}),
         NEW s, s = UpdateSourceStatus(mem, o, v),
         Persist(s, s, Idle, 0) \/ Persist(s, s, Doing("query source", o), 0),
         UNCHANGED <<source, hedges>>, EngineFits(engine', mem)
  PROVE  StopStays
  <1>1. /\ Settled(mem, source, hedges) /\ IsStore(mem)
        /\ CopyFits(mem, source, hedges, OneShot)
    BY CopiesSettle
  <1>2. Keeps(mem, s, source, hedges)
    BY <1>1, SourceStatusKeeps
  <1>3. s.active = IF v \in {"DENIED", "FILLED", "REJECTED"} /\ mem.active = o
                   THEN NoOrder ELSE mem.active
    <2>1. PICK c : c = mem
      OBVIOUS
    <2>2. DOMAIN c = StoreFields
      BY <1>1, <2>1 DEF IsStore
    <2>3. UpdateSourceStatus(c, o, v).active =
             IF v \in {"DENIED", "FILLED", "REJECTED"} /\ c.active = o
             THEN NoOrder ELSE c.active
      BY <2>2 DEF StoreFields, UpdateSourceStatus
    <2> QED
      BY <2>1, <2>3
  <1>4. EngineFits(engine', s)
    <2>1. CASE s.active = mem.active
      BY <2>1 DEF EngineFits
    <2>2. CASE s.active # mem.active
      <3>1. mem.active = o /\ (engine'[o].status # "open" \/ engine'[o].fills # {})
        BY <1>3, <2>2
      <3>2. \A n \in SourceIds : ~(engine'[n].status = "open" /\ engine'[n].fills = {})
        BY <3>1 DEF EngineFits
      <3> QED
        BY <3>2 DEF EngineFits
    <2> QED
      BY <2>1, <2>2
  <1>5. PICK then : Persist(s, s, then, 0) /\ (then = Idle \/ then = Doing("query source", o))
    OBVIOUS
  <1>6. doing' = then => BindsPending'
    <2>1. then.step # "bind"
      <3>1. then = Idle \/ then = Doing("query source", o)
        BY <1>5
      <3>2. CASE then = Idle
        BY <3>2 DEF Idle
      <3>3. CASE then = Doing("query source", o)
        BY <3>3 DEF Doing
      <3> QED
        BY <3>1, <3>2, <3>3
    <2> QED
      BY <2>1 DEF BindsPending
  <1> QED
    BY <1>2, <1>4, <1>5, <1>6, KeepsStep DEF StopStays

\* What the engine says of one order, of the rest it says what it said.
LEMMA EngineSaid ==
  ASSUME EngineShape, NEW o \in SourceIds, NEW v, EngineSays(o, v)
  PROVE  engine'[o].status = v /\ \A n \in SourceIds : n # o => engine'[n] = engine[n]
  BY DEF EngineShape, EngineSays

\* The events of a source order.
LEMMA StaySourceEvents ==
  ASSUME Inv, StopInv, EngineShape, NEW o \in SourceIds,
         OnSourceAccepted(o) \/ OnSourceRejected(o) \/ OnSourceUnknown(o) \/ OnSourceTerminal(o)
  PROVE  StopStays
  <1>1. o \in DOMAIN mem.orders /\ UNCHANGED <<source, hedges>> /\ engine[o].status = "open"
    BY DEF OnSourceAccepted, OnSourceRejected, OnSourceUnknown, OnSourceTerminal,
           KnowsSourceOrder, world
  <1>2. EngineFits(engine, mem)
    BY EngineKnows
  <1>3. CASE OnSourceAccepted(o)
    <2>1. /\ \E s : s = UpdateSourceStatus(mem, o, "ACCEPTED") /\ Persist(s, s, Idle, 0)
          /\ engine' = engine
      BY <1>3 DEF OnSourceAccepted
    <2> QED
      BY <1>1, <1>2, <2>1, StaySourceStatus
  <1>4. ASSUME NEW v, v # "open", EngineSays(o, v)
        PROVE  EngineFits(engine', mem) /\ engine'[o].status # "open"
    <2>1. engine'[o].status = v /\ \A n \in SourceIds : n # o => engine'[n] = engine[n]
      BY <1>4, EngineSaid
    <2> QED
      BY <1>2, <1>4, <2>1, EngineMoves
  <1>5. CASE OnSourceRejected(o)
    <2>1. /\ \E s : s = UpdateSourceStatus(mem, o, source[o].state) /\ Persist(s, s, Idle, 0)
          /\ source[o].state \in {"REJECTED", "DENIED"} /\ EngineSays(o, source[o].state)
      BY <1>5 DEF OnSourceRejected
    <2>2. source[o].fills = <<>>
      BY <2>1, VenuesFit DEF TradesFit
    <2>3. EngineFits(engine', mem) /\ engine'[o].status # "open"
      BY <1>4, <2>1
    <2> QED
      BY <1>1, <2>1, <2>2, <2>3, StaySourceStatus
  <1>6. CASE OnSourceTerminal(o)
    <2>1. /\ \E s : /\ s = UpdateSourceStatus(mem, o, source[o].state)
                    /\ Persist(s, s, Doing("query source", o), 0)
          /\ source[o].state \in {"CANCELED", "EXPIRED"} /\ EngineSays(o, source[o].state)
      BY <1>6 DEF OnSourceTerminal
    <2>2. EngineFits(engine', mem) /\ source[o].state \notin {"DENIED", "FILLED", "REJECTED"}
      BY <1>4, <2>1
    <2> QED
      BY <1>1, <2>1, <2>2, StaySourceStatus
  <1>7. CASE OnSourceUnknown(o)
    <2>1. PICK s : s = MarkSourceUnknown(mem, o) /\ Persist(s, s, Idle, 1)
      BY <1>7 DEF OnSourceUnknown
    <2>2. engine[o].fills = {} /\ EngineSays(o, "REJECTED")
      BY <1>7 DEF OnSourceUnknown
    <2>3. mem.active # NoOrder
      BY <1>1, <1>2, <2>2 DEF EngineFits, SourceIds, NoOrder
    <2>4. Settled(mem, source, hedges) /\ IsStore(mem)
      BY CopiesSettle
    <2>5. Keeps(mem, s, source, hedges) /\ s.active = mem.active
      BY <2>1, <2>3, <2>4, UnknownKeeps, UnknownMoves
    <2>6. EngineFits(engine', mem)
      BY <1>4, <2>2
    <2>7. EngineFits(engine', s)
      BY <2>5, <2>6 DEF EngineFits
    <2>8. doing' = Idle => BindsPending'
      BY NothingBinds
    <2> QED
      BY <1>1, <2>1, <2>5, <2>6, <2>7, <2>8, KeepsStep DEF StopStays
  <1> QED
    BY <1>3, <1>5, <1>6, <1>7

\* The report of a terminal query.
LEMMA StayReport ==
  ASSUME Inv, StopInv, NEW o \in SourceIds, CompleteSourceTerminalQuery(o)
  PROVE  StopStays
  <1>1. PICK s : s = ConfirmSourceReconciled(mem, o)
    OBVIOUS
  <1>2. /\ UNCHANGED <<source, hedges, engine>> /\ Persist(s, mem, Idle, 0)
        /\ ReportIsExact(o)
    BY <1>1 DEF CompleteSourceTerminalQuery, world
  <1>3. mem.orders[o].filled = source[o].filled /\ engine[o].status # "open"
    BY <1>2 DEF ReportIsExact
  <1>4. Settled(mem, source, hedges) /\ IsStore(mem)
    BY CopiesSettle
  <1>5. Keeps(mem, s, source, hedges)
    BY <1>1, <1>3, <1>4, ReconciledKeeps
  <1>6. s.active = mem.active \/ (s.active = NoOrder /\ mem.active = o)
    BY <1>1, <1>4, ReconciledMoves
  <1>7. EngineFits(engine', mem) /\ EngineFits(engine', s)
    BY <1>2, <1>3, <1>6, EngineKnows, EngineMoves
  <1>8. doing' = Idle => BindsPending'
    BY NothingBinds
  <1> QED
    BY <1>2, <1>5, <1>7, <1>8, KeepsStep DEF StopStays

\* A fill of a source order.
LEMMA StaySourceFilled ==
  ASSUME Inv, StopInv, EngineShape, NEW o \in SourceIds, NEW k, OnSourceFilled(o, k)
  PROVE  StopStays
  <1>1. /\ o \in DOMAIN mem.orders /\ k \in DOMAIN source[o].fills
        /\ UNCHANGED <<source, hedges>> /\ EngineFilled(o, k)
    BY DEF OnSourceFilled, KnowsSourceOrder, world
  <1>2. engine'[o].fills # {} /\ \A n \in SourceIds : n # o => engine'[n] = engine[n]
    <2>1. PICK e : engine' = [engine EXCEPT ![o] = e] /\ e.fills = engine[o].fills \union {k}
      <3> DEFINE fills == engine[o].fills \union {k}
      <3>1. PICK v : engine' = [engine EXCEPT ![o] = [fills |-> fills, status |-> v]]
        BY <1>1 DEF EngineFilled
      <3>2. [fills |-> fills, status |-> v].fills = fills
        OBVIOUS
      <3> QED
        BY <3>1, <3>2
    <2> QED
      BY <2>1 DEF EngineShape
  <1>3. EngineFits(engine, mem)
    BY EngineKnows
  <1>4. EngineFits(engine', mem)
    BY <1>2, <1>3, EngineMoves
  <1>5. CASE <<o, k>> \in mem.seenSource
    <2>1. Proceed(Idle)
      BY <1>5 DEF OnSourceFilled
    <2>2. UNCHANGED <<mem, disk, durable>> /\ BindsPending'
      BY <2>1, NothingBinds DEF Proceed, store
    <2> QED
      BY <1>1, <1>4, <2>2, NothingWritten DEF StopStays
  <1>6. CASE <<o, k>> \notin mem.seenSource
    <2>1. PICK s : s = ReserveSourceFill(mem, <<o, k>>, source[o].fills[k])
      OBVIOUS
    <2>2. PICK then : Persist(s, mem, then, 0) /\ then \in {Idle, Doing("dispatch", 0)}
      BY <1>6, <2>1 DEF OnSourceFilled
    <2>3. /\ Settled(mem, source, hedges) /\ IsStore(mem)
          /\ CopyFits(mem, source, hedges, OneShot)
      BY CopiesSettle
    <2>4. \A n \in SourceIds : IsTruth(source[n]) /\ VenueFits(source[n]) /\ TradesFit(source[n])
      BY VenuesFit
    <2>5. /\ Keeps(mem, s, source, hedges)
          /\ s.active = mem.active \/ (s.active = NoOrder /\ mem.active = o)
      BY <1>1, <1>6, <2>1, <2>3, <2>4, ReserveKeeps
    <2>6. EngineFits(engine', s)
      BY <1>2, <1>3, <2>5, EngineMoves
    <2>7. doing' = then => BindsPending'
      <3>1. doing' = Idle \/ doing' = Doing("dispatch", 0) => BindsPending'
        BY NothingBinds
      <3> QED
        BY <2>2, <3>1
    <2> QED
      BY <1>1, <1>4, <2>2, <2>5, <2>6, <2>7, KeepsStep DEF StopStays
  <1> QED
    BY <1>5, <1>6

\* The callback that takes an intent up finds it pending when it binds it.
LEMMA BindsWhatIsPending ==
  ASSUME NEW i, doing' = Doing("bind", i), mem'.intents[i].status = "PENDING"
  PROVE  BindsPending'
  BY DEF BindsPending, Doing

\* The next intent gets its plan.
LEMMA StayPlan ==
  ASSUME Inv, StopInv, SubmitNextPendingHedge
  PROVE  StopStays
  <1> DEFINE i == NextPending(mem)
  <1>1. PICK plan, blocked, planned :
           /\ blocked = BlockHedgeIntent(mem, i)
           /\ planned = BindHedgePlan(mem, i, plan)
           /\ \/ i = 0 /\ Proceed(Idle)
              \/ i # 0 /\ Proceed(Doing("bind", i))
              \/ i # 0 /\ Persist(planned, planned, Doing("bind", i), 0)
              \/ i # 0 /\ Persist(blocked, blocked, Idle, 0)
    BY DEF SubmitNextPendingHedge
  <1>2. UNCHANGED <<source, hedges, engine>>
    BY DEF SubmitNextPendingHedge, world
  <1>3. /\ Settled(mem, source, hedges) /\ IsStore(mem)
        /\ CopyFits(mem, source, hedges, OneShot)
    BY CopiesSettle
  <1>4. i # 0 => i \in DOMAIN mem.intents /\ mem.intents[i].status = "PENDING"
    BY <1>3, NextIsPending
  <1> HIDE DEF i
  <1>5. EngineFits(engine', mem)
    BY <1>2, EngineKnows
  <1>6. CASE Proceed(Idle)
    <2>1. UNCHANGED <<mem, disk, durable>> /\ BindsPending'
      BY <1>6, NothingBinds DEF Proceed, store
    <2> QED
      BY <1>2, <1>5, <2>1, NothingWritten DEF StopStays
  <1>7. CASE i # 0 /\ Proceed(Doing("bind", i))
    <2>1. UNCHANGED <<mem, disk, durable>> /\ doing' = Doing("bind", i)
      BY <1>7 DEF Proceed, store
    <2>2. BindsPending'
      BY <1>4, <1>7, <2>1, BindsWhatIsPending
    <2> QED
      BY <1>2, <1>5, <2>1, <2>2, NothingWritten DEF StopStays
  <1>8. CASE i # 0 /\ Persist(planned, planned, Doing("bind", i), 0)
    <2>1. Keeps(mem, planned, source, hedges) /\ planned.intents[i].status = "PENDING"
      BY <1>1, <1>3, <1>4, <1>8, PlanKeeps
    <2>2. planned.active = mem.active
      BY <1>1, <1>3, <1>4, <1>8, PlanMoves
    <2>3. EngineFits(engine', planned)
      BY <1>5, <2>2 DEF EngineFits
    <2>4. doing' = Doing("bind", i) /\ mem' = planned => BindsPending'
      BY <2>1, BindsWhatIsPending
    <2> QED
      BY <1>2, <1>5, <1>8, <2>1, <2>3, <2>4, KeepsStep DEF StopStays
  <1>9. CASE i # 0 /\ Persist(blocked, blocked, Idle, 0)
    <2>1. Keeps(mem, blocked, source, hedges)
      BY <1>1, <1>3, <1>4, <1>9, BlockKeeps
    <2>2. blocked.active = mem.active
      BY <1>1, <1>3, <1>4, <1>9, BlockMoves
    <2>3. EngineFits(engine', blocked)
      BY <1>5, <2>2 DEF EngineFits
    <2>4. doing' = Idle => BindsPending'
      BY NothingBinds
    <2> QED
      BY <1>2, <1>5, <1>9, <2>1, <2>3, <2>4, KeepsStep DEF StopStays
  <1> QED
    BY <1>1, <1>6, <1>7, <1>8, <1>9

\* The leg the plan is at gets its order.
LEMMA StayBind ==
  ASSUME Inv, StopInv, BindNextLeg
  PROVE  StopStays
  <1> DEFINE i == doing.intent
  <1>1. PICK blocked, bound :
           /\ blocked = BlockHedgeIntent(mem, i) /\ bound = BindHedgeOrder(mem, i)
           /\ \/ Persist(bound, bound, Doing("submit hedge", i), 0)
              \/ Persist(blocked, blocked, Idle, 0)
    BY DEF BindNextLeg
  <1>2. UNCHANGED <<source, hedges, engine>> /\ doing.step = "bind"
    BY DEF BindNextLeg, world
  <1>3. i \in DOMAIN mem.intents /\ mem.intents[i].status = "PENDING"
    BY <1>2 DEF Inv, TakerInv, DoingFits, StopInv
  <1>4. /\ Settled(mem, source, hedges) /\ IsStore(mem)
        /\ CopyFits(mem, source, hedges, OneShot)
    BY CopiesSettle
  <1>5. EngineFits(engine', mem)
    BY <1>2, EngineKnows
  <1> HIDE DEF i
  <1>6. CASE Persist(bound, bound, Doing("submit hedge", i), 0)
    <2>1. Keeps(mem, bound, source, hedges)
      BY <1>1, <1>3, <1>4, BindKeeps
    <2>2. bound.active = mem.active
      BY <1>1, <1>4 DEF BindHedgeOrder, IsStore, StoreFields
    <2>3. EngineFits(engine', bound)
      BY <1>5, <2>2 DEF EngineFits
    <2>4. doing' = Doing("submit hedge", i) => BindsPending'
      BY NothingBinds
    <2> QED
      BY <1>2, <1>5, <1>6, <2>1, <2>3, <2>4, KeepsStep DEF StopStays
  <1>7. CASE Persist(blocked, blocked, Idle, 0)
    <2>1. Keeps(mem, blocked, source, hedges)
      BY <1>1, <1>3, <1>4, BlockKeeps
    <2>2. blocked.active = mem.active
      BY <1>1, <1>3, <1>4, BlockMoves
    <2>3. EngineFits(engine', blocked)
      BY <1>5, <2>2 DEF EngineFits
    <2>4. doing' = Idle => BindsPending'
      BY NothingBinds
    <2> QED
      BY <1>2, <1>5, <1>7, <2>1, <2>3, <2>4, KeepsStep DEF StopStays
  <1> QED
    BY <1>1, <1>6, <1>7

\* The events of a hedge order.
LEMMA StayHedgeEvents ==
  ASSUME Inv, StopInv, NEW h \in DOMAIN hedges, NEW v \in {"REJECTED", "UNKNOWN"}, NEW k,
         OnHedgeAccepted(h) \/ OnHedgeRejected(h, v) \/ OnHedgeFilled(h, k)
  PROVE  StopStays
  <1>1. /\ Settled(mem, source, hedges) /\ IsStore(mem)
        /\ CopyFits(mem, source, hedges, OneShot)
        /\ \A i \in DOMAIN mem.intents : IntentFits(mem, i)
    BY CopiesSettle DEF CopyFits
  <1>2. UNCHANGED <<source, hedges, engine>>
    BY DEF OnHedgeAccepted, OnHedgeRejected, OnHedgeFilled, world
  <1>3. EngineFits(engine', mem)
    BY <1>2, EngineKnows
  <1>4. ASSUME NEW w \in {"ACCEPTED", "REJECTED", "UNKNOWN"}, NEW n,
               NEW s, s = UpdateHedgeStatus(mem, h, w), Persist(s, s, Idle, n)
        PROVE  StopStays
    <2>1. Keeps(mem, s, source, hedges)
      BY <1>1, <1>4, HedgeStatusKeeps
    <2>2. s.active = mem.active
      BY <1>1, <1>4, HedgeStatusMoves
    <2>3. EngineFits(engine', s)
      BY <1>3, <2>2 DEF EngineFits
    <2>4. doing' = Idle => BindsPending'
      BY NothingBinds
    <2> QED
      BY <1>2, <1>3, <1>4, <2>1, <2>3, <2>4, KeepsStep DEF StopStays
  <1>5. CASE OnHedgeAccepted(h)
    <2>1. PICK s : s = UpdateHedgeStatus(mem, h, "ACCEPTED") /\ Persist(s, s, Idle, 0)
      BY <1>5 DEF OnHedgeAccepted
    <2> QED
      BY <1>4, <2>1
  <1>6. CASE OnHedgeRejected(h, v)
    <2>1. PICK s, n : s = UpdateHedgeStatus(mem, h, v) /\ Persist(s, s, Idle, n)
      BY <1>6 DEF OnHedgeRejected
    <2> QED
      BY <1>4, <2>1
  <1>7. CASE OnHedgeFilled(h, k)
    <2>1. PICK s : /\ s = ApplyHedgeFill(mem, <<h, k>>, hedges[h].fills[k])
                   /\ Proceed(Idle) \/ Persist(s, mem, Doing("dispatch", 0), 0)
      BY <1>7 DEF OnHedgeFilled
    <2>2. hedges[h].state # "open"
      <3>1. k \in DOMAIN hedges[h].fills
        BY <1>7 DEF OnHedgeFilled
      <3> QED
        BY <3>1 DEF StopInv
    <2>3. Keeps(mem, s, source, hedges)
      <3>1. \A g \in DOMAIN hedges : IsHedge(hedges[g])
        BY VenuesFit
      <3> QED
        BY <1>1, <2>1, <2>2, <3>1, HedgeFillKeeps
    <2>4. s.active = mem.active
      BY <1>1, <2>1, HedgeFillMoves
    <2>5. EngineFits(engine', s)
      BY <1>3, <2>4 DEF EngineFits
    <2>6. CASE Proceed(Idle)
      <3>1. UNCHANGED <<mem, disk, durable>> /\ BindsPending'
        BY <2>6, NothingBinds DEF Proceed, store
      <3> QED
        BY <1>2, <1>3, <3>1, NothingWritten DEF StopStays
    <2>7. CASE Persist(s, mem, Doing("dispatch", 0), 0)
      <3>1. doing' = Doing("dispatch", 0) => BindsPending'
        BY NothingBinds
      <3> QED
        BY <1>2, <1>3, <2>3, <2>5, <2>7, <3>1, KeepsStep DEF StopStays
    <2> QED
      BY <2>1, <2>6, <2>7
  <1> QED
    BY <1>5, <1>6, <1>7

\* submit_order of a leg, whether it raises or not.
LEMMA StaySubmitHedge ==
  ASSUME Inv, StopInv, SubmitHedge
  PROVE  StopStays
  <1> DEFINE i == doing.intent
             h == mem.intents[i].order
             new == [state |-> "open", fill |-> mem.intents[i].fill, index |-> mem.intents[i].leg,
                     leg |-> mem.intents[i].plan[mem.intents[i].leg + 1], fills |-> <<>>]
  <1>1. PICK s :
           /\ s = UpdateHedgeStatus(mem, h, "UNKNOWN")
           /\ \/ SentHedge(i) /\ Proceed(Idle)
              \/ Persist(s, s, Idle, 1) /\ (SentHedge(i) \/ UNCHANGED hedges)
    BY DEF SubmitHedge
  <1>2. doing.step = "submit hedge" /\ UNCHANGED <<source, engine>>
    BY DEF SubmitHedge
  <1>3. /\ disk = mem /\ durable = mem /\ i \in DOMAIN mem.intents
        /\ h \notin DOMAIN hedges \union {NoHedge}
    BY <1>2 DEF Inv, TakerInv, DoingFits
  <1>4. /\ Settled(mem, source, hedges) /\ IsStore(mem)
        /\ CopyFits(mem, source, hedges, OneShot)
        /\ \A j \in DOMAIN mem.intents : IntentFits(mem, j)
    BY CopiesSettle DEF CopyFits
  <1>5. Keeps(mem, s, source, hedges)
    BY <1>1, <1>4, HedgeStatusKeeps
  <1>6. /\ s.active = mem.active /\ i \in DOMAIN s.intents /\ DOMAIN s.orders = DOMAIN mem.orders
        /\ s.intents[i].order = h /\ s.intents[i].leg = mem.intents[i].leg
    <2>1. StoreMoves(mem, s) /\ s.active = mem.active
      BY <1>1, <1>4, HedgeStatusMoves
    <2>2. s.intents[i].order = h /\ s.intents[i].leg = mem.intents[i].leg
      BY <1>1, <1>3, <1>4, HedgeStatusStands
    <2> QED
      BY <1>3, <2>1, <2>2 DEF StoreMoves
  <1>7. h[1] = i
    BY <1>3, <1>4 DEF IntentFits
  <1> HIDE DEF h
  <1>8. /\ mem' \in {mem, s} /\ disk' \in {mem, s} /\ durable' \in {mem, s} /\ doing' = Idle
        /\ Stopped(mem) => Stopped(mem')
    <2>1. Stopped(mem) => Stopped(s)
      BY <1>5 DEF Keeps
    <2>2. /\ mem' \in {mem, s} /\ disk' \in {mem, s} /\ durable' \in {mem, s} /\ doing' = Idle
      BY <1>1, <1>3 DEF Persist, Proceed, store
    <2> QED
      BY <2>1, <2>2
  <1>9. ASSUME NEW c \in {mem, s} PROVE ~Quiet(c)
    <2>1. IntentSettled(c.intents[i]) /\ c.intents[i].order # NoHedge /\ i \in DOMAIN c.intents
      BY <1>3, <1>4, <1>5, <1>6 DEF Settled, Keeps, h
    <2> QED
      BY <2>1 DEF Quiet, AllCompleted, IntentSettled
  <1>10. \/ UNCHANGED hedges
         \/ /\ DOMAIN hedges' = DOMAIN hedges \union {h} /\ hedges'[h] = new
            /\ \A g \in DOMAIN hedges : hedges'[g] = hedges[g]
    <2>1. CASE SentHedge(i)
      <3>1. hedges' = [g \in DOMAIN hedges \union {h} |-> IF g = h THEN new ELSE hedges[g]]
        BY <2>1 DEF SentHedge, h
      <3> HIDE DEF new
      <3> QED
        BY <1>3, <3>1
    <2> QED
      BY <1>1, <2>1
  <1>11. new.fills = <<>> /\ new.index = mem.intents[i].leg
    OBVIOUS
  <1> HIDE DEF new, i
  <1>12. ASSUME NEW c \in {mem, s} PROVE Settled(c, source', hedges')
    <2>1. Settled(c, source, hedges) /\ c.intents[i].leg = mem.intents[i].leg
      BY <1>4, <1>5, <1>6 DEF Keeps
    <2>2. \A g \in DOMAIN hedges' : hedges'[g].state = "open" => hedges'[g].index = c.intents[g[1]].leg
      BY <1>7, <1>10, <1>11, <2>1 DEF Settled
    <2> QED
      BY <1>2, <2>1, <2>2 DEF Settled
  <1>13. \A c, d \in {mem, s} : Behind(c, d, source')
    BY <1>6, <1>9, BusyBehind
  <1>14. \A c \in {mem', disk', durable'} : Settled(c, source', hedges')
    BY <1>8, <1>12
  <1>15. /\ Behind(disk', mem', source') /\ Behind(durable', mem', source')
         /\ Behind(durable', disk', source')
    BY <1>8, <1>13
  <1>16. \A o \in SourceIds :
            /\ TradesFit(source'[o])
            /\ engine'[o].status = "open" /\ engine'[o].fills = {} => mem'.active = o
    BY <1>2, <1>6, <1>8 DEF StopInv
  <1>17. \A g \in DOMAIN hedges' : hedges'[g].state = "open" => hedges'[g].fills = <<>>
    BY <1>10, <1>11 DEF StopInv
  <1>18. doing'.step # "bind"
    BY <1>8 DEF Idle
  <1> QED
    BY <1>8, <1>14, <1>15, <1>16, <1>17, <1>18 DEF StopInv, StopStays

\* The venue moves an order that works, which works in every copy.
LEMMA StayVenue ==
  ASSUME Inv, StopInv, NEW o \in SourceIds, source[o].state = "open", TradesFit(source'[o]),
         \A n \in SourceIds : n # o => source'[n] = source[n],
         UNCHANGED <<mem, disk, durable, engine, doing, hedges>>
  PROVE  StopStays
  <1>1. ASSUME NEW c \in {mem, disk, durable}
        PROVE  Settled(c, source', hedges') /\ DOMAIN c.orders \subseteq SourceIds
    <2>1. /\ Settled(c, source, hedges) /\ c.active = o /\ DOMAIN c.orders \subseteq SourceIds
      BY CopiesSettle DEF CopyFits
    <2>2. \A n \in DOMAIN c.orders : n # c.active => c.orders[n].filled = source'[n].filled
      BY <2>1 DEF Settled
    <2> QED
      BY <2>1, <2>2 DEF Settled
  <1>2. ASSUME NEW c \in {mem, disk, durable}, NEW d \in {mem, disk, durable},
               Behind(c, d, source)
        PROVE  Behind(c, d, source')
    <2>1. \A n \in DOMAIN d.orders : source[n].state = "absent" => source'[n].state = "absent"
      BY <1>1
    <2> QED
      BY <1>2, <2>1 DEF Behind
  <1>3. \A c \in {mem', disk', durable'} : Settled(c, source', hedges')
    BY <1>1
  <1>4. /\ Behind(disk', mem', source') /\ Behind(durable', mem', source')
        /\ Behind(durable', disk', source')
    BY <1>2 DEF StopInv
  <1>5. \A n \in SourceIds : TradesFit(source'[n])
    BY DEF StopInv
  <1> QED
    BY <1>3, <1>4, <1>5 DEF StopInv, StopStays

\* A trade of the source order.
LEMMA StayTrade ==
  ASSUME Inv, StopInv, NEW o \in SourceIds, NEW quantity \in Fills, SourceTrades(o, quantity)
  PROVE  StopStays
  <1> DEFINE total == source[o].filled + quantity
             state == IF total = source[o].quantity THEN "FILLED" ELSE source[o].state
             a == [source[o] EXCEPT !.fills = Append(@, quantity)]
             b == [a EXCEPT !.filled = total]
             truth == [b EXCEPT !.state = state]
  <1>1. /\ source[o].state = "open" /\ total <= source[o].quantity
        /\ UNCHANGED <<mem, disk, durable, engine, doing, hedges>>
    BY DEF SourceTrades, store, process
  <1>2. IsTruth(source[o]) /\ TradesFit(source[o]) /\ DOMAIN source = SourceIds
    BY VenuesFit DEF Inv, Shapes
  <1>3. quantity \in Nat \ {0}
    BY TakerAssumption
  <1>4. source' = [source EXCEPT ![o] = truth]
    BY <1>2 DEF SourceTrades, IsTruth
  <1>5. state \in {"open", "FILLED"}
    BY <1>1
  <1> HIDE DEF total, state
  <1>6. /\ DOMAIN a = DOMAIN source[o] /\ a.fills = Append(source[o].fills, quantity)
        /\ a.quantity = source[o].quantity
    BY <1>2 DEF IsTruth
  <1> HIDE DEF a
  <1>7. /\ DOMAIN b = DOMAIN source[o] /\ b.fills = Append(source[o].fills, quantity)
        /\ b.quantity = source[o].quantity /\ b.filled = total
    BY <1>2, <1>6 DEF IsTruth
  <1> HIDE DEF b
  <1>8. /\ truth.fills = Append(source[o].fills, quantity)
        /\ truth.quantity = source[o].quantity /\ truth.filled = total /\ truth.state = state
    BY <1>2, <1>7 DEF IsTruth
  <1> HIDE DEF truth
  <1>9. \A n \in SourceIds : source'[n] = IF n = o THEN truth ELSE source[n]
    BY <1>2, <1>4
  <1>10. \A k \in DOMAIN truth.fills : truth.fills[k] # 0
    <2>1. IsSeq(source[o].fills) /\ \A k \in DOMAIN source[o].fills : source[o].fills[k] # 0
      BY <1>2 DEF IsTruth, TradesFit
    <2>2. /\ DOMAIN truth.fills = 1 .. Len(source[o].fills) + 1
          /\ \A k \in DOMAIN source[o].fills : truth.fills[k] = source[o].fills[k]
          /\ truth.fills[Len(source[o].fills) + 1] = quantity
      BY <1>8, <2>1, Appended
    <2>3. DOMAIN source[o].fills = 1 .. Len(source[o].fills) /\ Len(source[o].fills) \in Nat
      BY <2>1, SeqFacts
    <2> QED
      BY <1>3, <2>1, <2>2, <2>3
  <1>11. TradesFit(truth)
    BY <1>1, <1>5, <1>8, <1>10 DEF TradesFit
  <1> QED
    BY <1>1, <1>9, <1>11, StayVenue

\* The end of the source order at the venue.
LEMMA StayEnd ==
  ASSUME Inv, StopInv, NEW o \in SourceIds,
         NEW state \in {"CANCELED", "EXPIRED", "REJECTED", "DENIED"}, SourceEnds(o, state)
  PROVE  StopStays
  <1> DEFINE truth == [source[o] EXCEPT !.state = state]
  <1>1. /\ source[o].state = "open" /\ source' = [source EXCEPT ![o] = truth]
        /\ state \in {"REJECTED", "DENIED"} => source[o].fills = <<>>
        /\ UNCHANGED <<mem, disk, durable, engine, doing, hedges>>
    BY DEF SourceEnds, store, process
  <1>2. IsTruth(source[o]) /\ TradesFit(source[o]) /\ DOMAIN source = SourceIds
    BY VenuesFit DEF Inv, Shapes
  <1>3. /\ truth.fills = source[o].fills /\ truth.quantity = source[o].quantity
        /\ truth.filled = source[o].filled /\ truth.state = state
    BY <1>2 DEF IsTruth
  <1> HIDE DEF truth
  <1>4. \A n \in SourceIds : source'[n] = IF n = o THEN truth ELSE source[n]
    BY <1>1, <1>2
  <1>5. TradesFit(truth)
    BY <1>1, <1>2, <1>3 DEF TradesFit
  <1> QED
    BY <1>1, <1>4, <1>5, StayVenue

\* The broker decides: one hedge order less that may still execute.
LEMMA StayDecided ==
  ASSUME StopInv, NEW h \in DOMAIN hedges, IsHedge(hedges[h]), HedgeExecutes(h) \/ HedgeIsRejected(h)
  PROVE  StopStays
  <1>1. UNCHANGED <<mem, disk, durable, doing, source, engine>>
    BY DEF HedgeExecutes, HedgeIsRejected, store, process, Mishap
  <1>2. PICK new : new.state # "open" /\ hedges' = [hedges EXCEPT ![h] = new]
    <2>1. CASE HedgeExecutes(h)
      <3>1. PICK v : hedges' = [hedges EXCEPT ![h].state = "executed", ![h].fills = v]
        BY <2>1 DEF HedgeExecutes
      <3> DEFINE a == [hedges[h] EXCEPT !.state = "executed"]
                 new == [a EXCEPT !.fills = v]
      <3>2. hedges' = [hedges EXCEPT ![h] = new]
        BY <3>1
      <3>3. DOMAIN a = DOMAIN hedges[h] /\ a.state = "executed"
        BY DEF IsHedge
      <3> HIDE DEF a
      <3>4. new.state = "executed"
        BY <3>3 DEF IsHedge
      <3> QED
        BY <3>2, <3>4
    <2>2. CASE HedgeIsRejected(h)
      <3> DEFINE new == [hedges[h] EXCEPT !.state = "rejected"]
      <3>1. hedges' = [hedges EXCEPT ![h] = new]
        BY <2>2 DEF HedgeIsRejected
      <3>2. new.state = "rejected"
        BY DEF IsHedge
      <3> QED
        BY <3>1, <3>2
    <2> QED
      BY <2>1, <2>2
  <1>3. /\ DOMAIN hedges' = DOMAIN hedges
        /\ \A g \in DOMAIN hedges : hedges'[g].state = "open" => hedges'[g] = hedges[g]
    BY <1>2
  <1>4. ASSUME NEW c, Settled(c, source, hedges) PROVE Settled(c, source', hedges')
    BY <1>1, <1>3, <1>4 DEF Settled
  <1>5. \A c \in {mem', disk', durable'} : Settled(c, source', hedges')
    BY <1>1, <1>4 DEF StopInv
  <1>6. \A g \in DOMAIN hedges' : hedges'[g].state = "open" => hedges'[g].fills = <<>>
    BY <1>3 DEF StopInv
  <1> QED
    BY <1>1, <1>5, <1>6 DEF StopInv, StopStays

\* What the engine keeps of an order has its shape.
LEMMA EngineKeepsShape ==
  ASSUME EngineShape, NEW o \in SourceIds,
         EngineSays(o, "open") \/ (\E v : EngineSays(o, v)) \/ (\E k : EngineFilled(o, k))
  PROVE  EngineShape'
  <1>1. PICK e : DOMAIN e = {"status", "fills"} /\ engine' = [engine EXCEPT ![o] = e]
    <2>1. ASSUME NEW v, EngineSays(o, v)
          PROVE  \E e : DOMAIN e = {"status", "fills"} /\ engine' = [engine EXCEPT ![o] = e]
      <3>1. PICK e : e = [engine[o] EXCEPT !.status = v]
        OBVIOUS
      <3>2. engine' = [engine EXCEPT ![o] = e]
        BY <2>1, <3>1 DEF EngineSays
      <3>3. DOMAIN e = {"status", "fills"}
        BY <3>1 DEF EngineShape
      <3> QED
        BY <3>2, <3>3
    <2>2. ASSUME NEW k, EngineFilled(o, k)
          PROVE  \E e : DOMAIN e = {"status", "fills"} /\ engine' = [engine EXCEPT ![o] = e]
      <3>1. PICK f, v : engine' = [engine EXCEPT ![o] = [fills |-> f, status |-> v]]
        BY <2>2 DEF EngineFilled
      <3>2. DOMAIN [fills |-> f, status |-> v] = {"status", "fills"}
        OBVIOUS
      <3> QED
        BY <3>1, <3>2
    <2> QED
      BY <2>1, <2>2
  <1>2. DOMAIN engine' = SourceIds
    BY <1>1 DEF EngineShape
  <1>3. \A n \in SourceIds : engine'[n] = IF n = o THEN e ELSE engine[n]
    BY <1>1 DEF EngineShape
  <1> QED
    BY <1>1, <1>2, <1>3 DEF EngineShape

\* Nothing forgets how the engine keeps its orders.
LEMMA EngineStays ==
  ASSUME Inv, EngineShape, [Next]_vars
  PROVE  EngineShape'
  <1>1. CASE OnStart
    <2>1. engine' = [o \in SourceIds |-> [status |-> "absent", fills |-> {}]]
      BY <1>1 DEF OnStart
    <2> QED
      BY <2>1 DEF EngineShape
  <1>2. CASE UNCHANGED engine
    BY <1>2 DEF EngineShape
  <1>3. CASE SubmitSource
    <2>1. CASE UNCHANGED engine
      BY <1>2, <2>1
    <2>2. CASE Sent(mem.active)
      <3>1. PICK o : o = mem.active
        OBVIOUS
      <3>2. o \in SourceIds
        BY <1>3, <3>1 DEF SubmitSource, Inv, TakerInv, DoingFits, CopyFits
      <3>3. EngineSays(o, "open")
        BY <2>2, <3>1 DEF Sent, EngineSays
      <3> QED
        BY <3>2, <3>3, EngineKeepsShape
    <2> QED
      BY <1>3, <2>1, <2>2 DEF SubmitSource
  <1>4. ASSUME NEW o \in SourceIds,
               \/ OnSourceRejected(o) \/ OnSourceUnknown(o) \/ OnSourceTerminal(o)
               \/ \E k \in 1 .. MaxTrades : OnSourceFilled(o, k)
        PROVE  EngineShape'
    <2>1. (\E v : EngineSays(o, v)) \/ (\E k : EngineFilled(o, k))
      BY <1>4 DEF OnSourceRejected, OnSourceUnknown, OnSourceTerminal, OnSourceFilled
    <2> QED
      BY <2>1, EngineKeepsShape
  <1>5. CASE \/ ReconcileStartup \/ ArmOneShot \/ DisarmOneShot \/ BeginDrain \/ TicketDrifts
             \/ OnStop \/ Crash \/ UNCHANGED vars
    BY <1>2, <1>5 DEF ReconcileStartup, ArmOneShot, DisarmOneShot, BeginDrain, TicketDrifts,
       OnStop, Crash, vars, process
  <1>6. CASE \/ \E side \in Sides, quantity \in Quantities : EvaluateAndSubmit(side, quantity)
             \/ RequestSourceTerminalQuery
    BY <1>2, <1>6 DEF EvaluateAndSubmit, RequestSourceTerminalQuery
  <1>7. ASSUME NEW o \in SourceIds,
               \/ OnSourceAccepted(o) \/ CompleteSourceTerminalQuery(o)
               \/ \E quantity \in Fills : SourceTrades(o, quantity)
               \/ \E state \in {"CANCELED", "EXPIRED", "REJECTED", "DENIED"} : SourceEnds(o, state)
        PROVE  EngineShape'
    BY <1>2, <1>7 DEF OnSourceAccepted, CompleteSourceTerminalQuery, SourceTrades, SourceEnds,
       process
  <1>8. CASE OnQuoteTick \/ QuoteIsStale \/ SubmitNextPendingHedge \/ BindNextLeg \/ SubmitHedge
    BY <1>2, <1>8 DEF OnQuoteTick, QuoteIsStale, SubmitNextPendingHedge, BindNextLeg, SubmitHedge
  <1>9. ASSUME NEW h \in DOMAIN hedges,
               \/ OnHedgeAccepted(h)
               \/ \E status \in {"REJECTED", "UNKNOWN"} : OnHedgeRejected(h, status)
               \/ \E k \in 1 .. 2 : OnHedgeFilled(h, k)
               \/ HedgeExecutes(h) \/ HedgeIsRejected(h)
        PROVE  EngineShape'
    BY <1>2, <1>9 DEF OnHedgeAccepted, OnHedgeRejected, OnHedgeFilled, HedgeExecutes,
       HedgeIsRejected, process
  <1> QED
    BY <1>1, <1>3, <1>4, <1>5, <1>6, <1>7, <1>8, <1>9 DEF Next

\* A new store has nothing to forget.
LEMMA StopStarts ==
  ASSUME Init
  PROVE  StopInv /\ EngineShape
  <1>1. /\ DOMAIN EmptyStore.orders = {} /\ DOMAIN EmptyStore.intents = {}
    BY DEF EmptyStore
  <1>2. mem = EmptyStore /\ disk = EmptyStore /\ durable = EmptyStore /\ DOMAIN hedges = {}
    BY DEF Init
  <1>3. Settled(EmptyStore, source, hedges)
    BY <1>1, <1>2 DEF Settled
  <1>4. Behind(EmptyStore, EmptyStore, source)
    BY BehindItself
  <1>5. TradesFit(Absent)
    BY DEF TradesFit, Absent
  <1>6. \A o \in SourceIds : source[o] = Absent /\ engine[o].status = "absent"
    BY DEF Init
  <1>7. doing.step # "bind"
    BY DEF Init, Idle
  <1>8. EngineShape
    <2>1. engine = [o \in SourceIds |-> [status |-> "absent", fills |-> {}]]
      BY DEF Init
    <2> QED
      BY <2>1 DEF EngineShape
  <1> QED
    BY <1>2, <1>3, <1>4, <1>5, <1>6, <1>7, <1>8 DEF StopInv

\* Every step keeps a stop, or what it was about, and what that rests on.
LEMMA StopSteps ==
  ASSUME Inv, StopInv, EngineShape, [Next]_vars
  PROVE  StopInv' /\ (Stopped(mem) => Stopped(mem') \/ mem'.active # NoOrder \/ NeverBegun)
  <1>1. CASE OnStart
    BY <1>1, StayStart
  <1>2. CASE OnStop \/ Crash
    BY <1>2, StayStop, StayCrash DEF StopStays
  <1>3. CASE \/ UNCHANGED vars
             \/ ReconcileStartup \/ ArmOneShot \/ DisarmOneShot \/ BeginDrain \/ TicketDrifts
    BY <1>3, StayControl DEF StopStays
  <1>4. CASE \E side \in Sides, quantity \in Quantities : EvaluateAndSubmit(side, quantity)
    BY <1>4, StayEvaluate DEF StopStays
  <1>5. CASE SubmitSource
    BY <1>5, StaySubmit DEF StopStays
  <1>6. ASSUME NEW o \in SourceIds,
               \/ OnSourceAccepted(o) \/ OnSourceRejected(o) \/ OnSourceUnknown(o)
               \/ OnSourceTerminal(o) \/ CompleteSourceTerminalQuery(o)
               \/ \E k \in 1 .. MaxTrades : OnSourceFilled(o, k)
               \/ \E quantity \in Fills : SourceTrades(o, quantity)
               \/ \E state \in {"CANCELED", "EXPIRED", "REJECTED", "DENIED"} : SourceEnds(o, state)
        PROVE  StopStays
    BY <1>6, StaySourceEvents, StayReport, StaySourceFilled, StayTrade, StayEnd
  <1>7. CASE \/ OnQuoteTick \/ QuoteIsStale \/ RequestSourceTerminalQuery
    BY <1>7, StayTick DEF StopStays
  <1>8. CASE SubmitNextPendingHedge \/ BindNextLeg \/ SubmitHedge
    BY <1>8, StayPlan, StayBind, StaySubmitHedge DEF StopStays
  <1>9. ASSUME NEW h \in DOMAIN hedges,
               \/ OnHedgeAccepted(h)
               \/ \E status \in {"REJECTED", "UNKNOWN"} : OnHedgeRejected(h, status)
               \/ \E k \in 1 .. 2 : OnHedgeFilled(h, k)
               \/ HedgeExecutes(h) \/ HedgeIsRejected(h)
        PROVE  StopStays
    <2>1. IsHedge(hedges[h])
      BY VenuesFit
    <2>2. CASE HedgeExecutes(h) \/ HedgeIsRejected(h)
      BY <2>1, <2>2, StayDecided
    <2>3. CASE OnHedgeAccepted(h)
      BY <2>3, StayHedgeEvents
    <2>4. CASE \E status \in {"REJECTED", "UNKNOWN"} : OnHedgeRejected(h, status)
      BY <2>4, StayHedgeEvents
    <2>5. CASE \E k \in 1 .. 2 : OnHedgeFilled(h, k)
      BY <2>5, StayHedgeEvents
    <2> QED
      BY <1>9, <2>2, <2>3, <2>4, <2>5
  <1> QED
    BY <1>1, <1>2, <1>3, <1>4, <1>5, <1>6, <1>7, <1>8, <1>9 DEF Next, StopStays

-----------------------------------------------------------------------------
(* The theorems                                                            *)

\* The invariant holds at first.
LEMMA Starts ==
  ASSUME Init
  PROVE  Inv
  <1>1. IsSeq(<<>>)
    <2>1. <<>> = [j \in 1 .. 0 |-> <<>>[j]]
      OBVIOUS
    <2> QED
      BY <2>1, SeqIntro
  <1>2. IsStore(EmptyStore) /\ EmptyStore.orders = <<>> /\ EmptyStore.intents = <<>>
        /\ EmptyStore.seenSource = {} /\ EmptyStore.active = NoOrder
    BY <1>1 DEF EmptyStore, IsStore, StoreFields
  <1>3. IsTruth(Absent) /\ VenueFits(Absent) /\ Absent.state = "absent"
    BY <1>1 DEF IsTruth, VenueFits, Absent
  <1>4. DOMAIN source = SourceIds /\ \A o \in SourceIds : source[o] = Absent
    BY DEF Init
  <1>5. DOMAIN hedges = {}
    BY DEF Init
  <1>6. CopyFits(EmptyStore, source, hedges, OneShot)
    BY <1>2, <1>3, <1>4, <1>5 DEF CopyFits
  <1>7. mem = EmptyStore /\ disk = EmptyStore /\ durable = EmptyStore /\ doing.step = "idle"
    BY DEF Init, Idle
  <1>8. Shapes
    BY <1>2, <1>3, <1>4, <1>5, <1>7 DEF Shapes
  <1>9. DoingFits /\ LegSentOnce
    BY <1>5, <1>7 DEF DoingFits, LegSentOnce
  <1> QED
    BY <1>3, <1>4, <1>6, <1>7, <1>8, <1>9 DEF Inv, TakerInv

\* Every step keeps it.
LEMMA Steps ==
  ASSUME Inv, [Next]_vars
  PROVE  Inv'
  <1>1. CASE OnStart \/ OnStop \/ Crash
    BY <1>1, StepStart, StepStop, StepCrash
  <1>2. CASE ReconcileStartup \/ ArmOneShot \/ DisarmOneShot \/ BeginDrain \/ TicketDrifts
    BY <1>2, StepControl
  <1>3. CASE \E side \in Sides, quantity \in Quantities : EvaluateAndSubmit(side, quantity)
    BY <1>3, StepEvaluate
  <1>4. CASE SubmitSource \/ RequestSourceTerminalQuery
    BY <1>4, StepSubmit, StepQuery
  <1>5. ASSUME NEW o \in SourceIds,
               \/ OnSourceAccepted(o) \/ OnSourceRejected(o) \/ OnSourceUnknown(o)
               \/ OnSourceTerminal(o) \/ CompleteSourceTerminalQuery(o)
               \/ \E k \in 1 .. MaxTrades : OnSourceFilled(o, k)
               \/ \E quantity \in Fills : SourceTrades(o, quantity)
               \/ \E state \in {"CANCELED", "EXPIRED", "REJECTED", "DENIED"} : SourceEnds(o, state)
        PROVE  Inv'
    BY <1>5, StepSourceEvents, StepReport, StepSourceFilled, StepTrade, StepEnd
  <1>6. CASE \/ OnQuoteTick \/ QuoteIsStale \/ SubmitNextPendingHedge \/ BindNextLeg
             \/ SubmitHedge
    BY <1>6, StepTick, StepPlan, StepBind, StepSubmitHedge
  <1>7. ASSUME NEW h \in DOMAIN hedges,
               \/ OnHedgeAccepted(h)
               \/ \E status \in {"REJECTED", "UNKNOWN"} : OnHedgeRejected(h, status)
               \/ \E k \in 1 .. 2 : OnHedgeFilled(h, k)
               \/ HedgeExecutes(h) \/ HedgeIsRejected(h)
        PROVE  Inv'
    BY <1>7, StepHedgeEvents, StepDecided
  <1>8. CASE UNCHANGED vars
    BY <1>8, StepUnchanged
  <1> QED
    BY <1>1, <1>2, <1>3, <1>4, <1>5, <1>6, <1>7, <1>8 DEF Next

(* Every copy of the store that a restart may find fits the venues by      *)
(* itself: TakerInv, with the shape of the records, is inductive.          *)
THEOREM CopiesFit == Spec => []TakerInv
  <1>1. Spec => []Inv
    BY Starts, Steps, PTL DEF Spec
  <1>2. Inv => TakerInv
    BY DEF Inv
  <1> QED
    BY <1>1, <1>2, PTL

(* Each leg of a plan goes to the broker at most once, across restarts and *)
(* power cuts (bind_hedge_order, recover_for_start).                       *)
THEOREM LegsGoOutOnce == Spec => []LegSentOnce
  <1>1. TakerInv => LegSentOnce
    BY DEF TakerInv
  <1> QED
    BY <1>1, CopiesFit, PTL

(* Nothing works at a venue that a power cut could make the store forget   *)
(* (the write before every submit_order).                                  *)
THEOREM NothingSentIsForgotten == Spec => []SentIsDurable
  <1>1. TakerInv => SentIsDurable
    <2> SUFFICES ASSUME TakerInv PROVE SentIsDurable
      OBVIOUS
    <2>1. CopyFits(durable, source, hedges, OneShot)
      BY DEF TakerInv
    <2>2. ASSUME NEW o \in SourceIds, source[o].state = "open"
          PROVE  KnowsSourceOrder(durable, o) /\ durable.active = o
      BY <2>1, <2>2 DEF CopyFits, KnowsSourceOrder
    <2>3. ASSUME NEW h \in DOMAIN hedges
          PROVE  h[1] \in DOMAIN durable.intents /\ h \in Range(durable.intents[h[1]].orders)
      <3>1. HedgeFits(durable, h, hedges[h]) /\ h[1] \in DOMAIN durable.intents
        BY <2>1 DEF CopyFits, HedgeFits
      <3>2. IntentFits(durable, h[1])
        BY <2>1, <3>1 DEF CopyFits
      <3>3. durable.intents[h[1]].orders[h[2]] = h /\ h[2] \in DOMAIN durable.intents[h[1]].orders
        BY <3>1, <3>2 DEF HedgeFits, IntentFits
      <3> QED
        BY <3>1, <3>3 DEF Range
    <2> QED
      BY <2>2, <2>3 DEF SentIsDurable
  <1> QED
    BY <1>1, CopiesFit, PTL

(* A one-shot store lets one source order out in its life, whatever is     *)
(* armed, restarted and cut off (arm_one_shot, source_freeze_reason).      *)
THEOREM OneShotForLife == Spec => []OneShotOnce
  <1>1. TakerInv => OneShotOnce
    <2> SUFFICES ASSUME TakerInv, OneShot, NEW p \in SourceIds, source[p].state # "absent"
                 PROVE  /\ Cardinality({o \in SourceIds : source[o].state # "absent"}) = 1
                        /\ \A s \in {disk, durable} : s.frozen /\ s.orders # <<>>
      BY DEF OneShotOnce
    <2>1. ASSUME NEW s \in {disk, durable}
          PROVE  /\ s.frozen /\ s.orders # <<>>
                 /\ \A o \in SourceIds : source[o].state # "absent" => o = 1
      <3>1. CopyFits(s, source, hedges, OneShot)
        BY DEF TakerInv
      <3>2. p \in DOMAIN s.orders
        BY <3>1 DEF CopyFits
      <3>3. s.orders # <<>>
        BY <3>2
      <3> QED
        BY <3>1, <3>2, <3>3 DEF CopyFits
    <2>2. {o \in SourceIds : source[o].state # "absent"} = {1}
      BY <2>1
    <2>3. Cardinality({1}) = 1
      BY FS_Singleton
    <2> QED
      BY <2>1, <2>2, <2>3
  <1> QED
    BY <1>1, CopiesFit, PTL

\* The two invariants together.
LEMMA StopsAreKept == Spec => [](Inv /\ StopInv /\ EngineShape)
  <1>1. Init => Inv /\ StopInv /\ EngineShape
    BY Starts, StopStarts
  <1>2. Inv /\ StopInv /\ EngineShape /\ [Next]_vars => (Inv /\ StopInv /\ EngineShape)'
    BY Steps, StopSteps, EngineStays
  <1> QED
    BY <1>1, <1>2, PTL DEF Spec

(* A stop that wants a human is never forgotten, by no event, restart or   *)
(* power cut (halt_reason, the failed statuses, recover_for_start).        *)
THEOREM StopsStay == Spec => StopNeverForgotten
  <1>1. Inv /\ StopInv /\ EngineShape /\ [Next]_vars =>
          [Stopped(mem) => Stopped(mem') \/ mem'.active # NoOrder \/ NeverBegun]_vars
    BY StopSteps
  <1> QED
    BY <1>1, StopsAreKept, PTL DEF Spec, StopNeverForgotten

\* No order of either leg works, and every source trade is in the books of s.
NothingMissed(s) ==
    /\ NothingWorking
    /\ \A o \in SourceIds : \A k \in DOMAIN source[o].fills : <<o, k>> \in s.seenSource

\* Nothing is missed where a new source order may be opened.
LEMMA GateMissesNothing ==
  ASSUME Inv, StopInv, NEW s \in {mem, disk, durable}, CanSubmitSource(s)
  PROVE  NothingMissed(s)
  <1>1. /\ Settled(s, source, hedges) /\ IsStore(s)
        /\ CopyFits(s, source, hedges, OneShot)
    BY CopiesSettle
  <1>2. s.active = NoOrder /\ AllCompleted(s)
    BY DEF CanSubmitSource
  <1>3. ASSUME NEW o \in SourceIds PROVE source[o].state # "open" /\ s.active # o
    BY <1>1, <1>2 DEF CopyFits, SourceIds, NoOrder
  <1>4. ASSUME NEW h \in DOMAIN hedges, hedges[h].state = "open" PROVE FALSE
    <2>1. /\ h[1] \in DOMAIN s.intents /\ h = <<h[1], h[2]>>
          /\ hedges[h].index = s.intents[h[1]].leg => s.intents[h[1]].order = h
      BY <1>1 DEF CopyFits, HedgeFits
    <2>2. hedges[h].index = s.intents[h[1]].leg
      BY <1>1, <1>4 DEF Settled
    <2>3. s.intents[h[1]].order = NoHedge
      BY <1>1, <1>2, <2>1 DEF AllCompleted, Settled, IntentSettled
    <2>4. h[1] # 0
      BY <1>1, <2>1, SeqFacts DEF IsStore
    <2> QED
      BY <2>1, <2>2, <2>3, <2>4 DEF NoHedge
  <1>5. ASSUME NEW o \in SourceIds, NEW k \in DOMAIN source[o].fills
        PROVE  <<o, k>> \in s.seenSource
    <2>1. IsTruth(source[o]) /\ VenueFits(source[o]) /\ TradesFit(source[o])
      BY VenuesFit
    <2>2. source[o].state # "absent"
      BY <1>5, <2>1 DEF VenueFits
    <2>3. o \in DOMAIN s.orders
      BY <1>1, <2>2 DEF CopyFits
    <2> QED
      BY <1>1, <1>3, <2>1, <2>3, UnseenWorks
  <1> QED
    BY <1>3, <1>4, <1>5 DEF NothingMissed, NothingWorking

(* Where the store, in memory or in a file a restart may find, would let a *)
(* new source order be opened, no order of either leg works and every      *)
(* trade of the source venue is in its books (can_submit_source): what     *)
(* GateImpliesFlat says of the venues, but for the sums.                   *)
THEOREM NothingWorksAtTheGate ==
  Spec => [](\A s \in {mem, disk, durable} : CanSubmitSource(s) => NothingMissed(s))
  <1>1. Inv /\ StopInv =>
          \A s \in {mem, disk, durable} : CanSubmitSource(s) => NothingMissed(s)
    BY GateMissesNothing
  <1> QED
    BY <1>1, StopsAreKept, PTL

-----------------------------------------------------------------------------
(* The books are kept, and the legs of each intent with them.              *)

SeenOf(s, src) ==
    SumFunction([fill \in s.seenSource |-> src[fill[1]].side * src[fill[1]].fills[fill[2]]])

\* What was seen of the source venue is in the intents, or in the residual.
BooksFit(s, src) ==
    /\ IsFiniteSet(s.seenSource) /\ s.residual \in Int
    /\ SeenOf(s, src) = s.residual - Unit * Obliged(s)
    /\ 2 * Size(s.residual) <= Unit

IntentSound(intent, i, sent) ==
    /\ LegsFit(intent, i, sent) /\ IsSeq(intent.plan)
    /\ \A h \in DOMAIN sent : h[1] = i => SentFits(intent, h, sent)

Sound(s, src, sent) ==
    /\ BooksFit(s, src) /\ SidesFit(s, src)
    /\ \A i \in DOMAIN s.intents : IntentSound(s.intents[i], i, sent)

SameDuty(a, b) == b.side = a.side /\ b.quantity = a.quantity

\* Intents move on, and owe what they owed.
LEMMA DutiesLevel ==
  ASSUME NEW s, NEW src, NEW sent, Sound(s, src, sent), NEW t, SidesFit(t, src),
         t.seenSource = s.seenSource, t.residual = s.residual,
         DOMAIN t.intents = DOMAIN s.intents,
         \A i \in DOMAIN s.intents : SameDuty(s.intents[i], t.intents[i]),
         \A i \in DOMAIN s.intents : IntentSound(t.intents[i], i, sent)
  PROVE  Sound(t, src, sent)
  <1>1. [i \in DOMAIN s.intents |-> s.intents[i].side * s.intents[i].quantity]
          = [i \in DOMAIN t.intents |-> t.intents[i].side * t.intents[i].quantity]
    BY DEF SameDuty
  <1>2. Obliged(t) = Obliged(s)
    BY <1>1 DEF Obliged
  <1>3. BooksFit(s, src)
    BY DEF Sound
  <1>4. BooksFit(t, src)
    BY <1>2, <1>3 DEF BooksFit, SeenOf
  <1> QED
    BY <1>4 DEF Sound

\* One intent moves on.
LEMMA OneLevel ==
  ASSUME NEW s, NEW src, NEW sent, Sound(s, src, sent), IsStore(s),
         NEW i \in DOMAIN s.intents, NEW intent, IntentSound(intent, i, sent),
         SameDuty(s.intents[i], intent),
         NEW t, t.intents = [s.intents EXCEPT ![i] = intent], t.orders = s.orders,
         t.seenSource = s.seenSource, t.residual = s.residual
  PROVE  Sound(t, src, sent)
  <1>1. /\ DOMAIN t.intents = DOMAIN s.intents /\ t.intents[i] = intent
        /\ \A n \in DOMAIN s.intents : n # i => t.intents[n] = s.intents[n]
    BY SeqExcept DEF IsStore
  <1>2. SidesFit(t, src)
    BY DEF Sound, SidesFit
  <1>3. \A n \in DOMAIN s.intents : SameDuty(s.intents[n], t.intents[n])
    BY <1>1 DEF SameDuty
  <1>4. \A n \in DOMAIN s.intents : IntentSound(t.intents[n], n, sent)
    BY <1>1 DEF Sound
  <1> QED
    BY <1>1, <1>2, <1>3, <1>4, DutiesLevel

\* The orders move on, and keep their sides.
LEMMA OrdersLevel ==
  ASSUME NEW s, NEW src, NEW sent, Sound(s, src, sent), NEW t, SidesFit(t, src),
         t.seenSource = s.seenSource, t.residual = s.residual, t.intents = s.intents
  PROVE  Sound(t, src, sent)
  <1>1. \A n \in DOMAIN s.intents : SameDuty(s.intents[n], t.intents[n])
    BY DEF SameDuty
  <1>2. \A n \in DOMAIN s.intents : IntentSound(t.intents[n], n, sent)
    BY DEF Sound
  <1> QED
    BY <1>1, <1>2, DutiesLevel

\* Intent b stands where a does.
StandsAs(a, b) ==
    /\ b.side = a.side /\ b.quantity = a.quantity /\ b.plan = a.plan /\ b.leg = a.leg
    /\ b.order = a.order /\ b.filled = a.filled /\ b.legFilled = a.legFilled

\* An intent that only gets another status, and neither waits nor is done by it.
LEMMA StatusSound ==
  ASSUME NEW sent, NEW i, NEW a, IntentSound(a, i, sent), NEW b, StandsAs(a, b),
         b.status \notin {"PENDING", "COMPLETED"}, b.status \in Failed \/ a.status \notin Failed
  PROVE  IntentSound(b, i, sent) /\ SameDuty(a, b)
  <1>1. LegsFit(a, i, sent) /\ IsSeq(a.plan)
    BY DEF IntentSound
  <1>2. a.plan # <<>> => PlanFits(b)
    <2> SUFFICES ASSUME a.plan # <<>> PROVE PlanFits(b)
      OBVIOUS
    <2>1. PlanFits(a)
      BY <1>1 DEF LegsFit
    <2> QED
      BY <2>1 DEF PlanFits, StandsAs
  <1>3. LegsFit(b, i, sent)
    BY <1>1, <1>2 DEF LegsFit, StandsAs
  <1>4. \A h \in DOMAIN sent : h[1] = i => SentFits(b, h, sent)
    BY DEF IntentSound, SentFits, StandsAs
  <1> QED
    BY <1>1, <1>3, <1>4 DEF IntentSound, StandsAs, SameDuty

\* A status is one field of an intent.
LEMMA StatusStands ==
  ASSUME NEW a, IsIntent(a), NEW v, NEW b, b = [a EXCEPT !.status = v]
  PROVE  StandsAs(a, b) /\ b.status = v
  BY DEF IsIntent, IntentFields, StandsAs

\* block_hedge keeps the legs.
LEMMA BlockLevel ==
  ASSUME NEW s, NEW src, NEW sent, Sound(s, src, sent), IsStore(s), NEW i \in DOMAIN s.intents
  PROVE  Sound(BlockHedgeIntent(s, i), src, sent)
  <1>1. PICK t : t = BlockHedgeIntent(s, i)
    OBVIOUS
  <1>2. PICK a : a = s.intents[i]
    OBVIOUS
  <1>3. PICK b : b = [a EXCEPT !.status = "BLOCKED"]
    OBVIOUS
  <1>4. IsIntent(a) /\ IntentSound(a, i, sent)
    BY <1>2 DEF IsStore, Sound
  <1>5. StandsAs(a, b) /\ b.status = "BLOCKED"
    BY <1>3, <1>4, StatusStands
  <1>6. IntentSound(b, i, sent) /\ SameDuty(a, b)
    BY <1>4, <1>5, StatusSound DEF Failed
  <1>7. /\ t.intents = [s.intents EXCEPT ![i] = b] /\ t.orders = s.orders
        /\ t.seenSource = s.seenSource /\ t.residual = s.residual
    BY <1>1, <1>2, <1>3 DEF IsStore, StoreFields, BlockHedgeIntent
  <1> QED
    BY <1>1, <1>2, <1>6, <1>7, OneLevel

\* bind_hedge_plan gives an intent that has none the legs for all of it.
LEMMA PlanLevel ==
  ASSUME NEW s, NEW src, NEW sent, Sound(s, src, sent), IsStore(s), NEW i \in DOMAIN s.intents,
         s.intents[i].plan = <<>>, s.intents[i].status = "PENDING",
         \A h \in DOMAIN sent : IsHedge(sent[h]),
         NEW plan, FitsSide(plan, s.intents[i].side), Amount(plan) = s.intents[i].quantity
  PROVE  Sound(BindHedgePlan(s, i, plan), src, sent) /\ plan # <<>>
  <1>1. PICK t : t = BindHedgePlan(s, i, plan)
    OBVIOUS
  <1>2. PICK a : a = s.intents[i]
    OBVIOUS
  <1>3. PICK b : b = [a EXCEPT !.plan = plan]
    OBVIOUS
  <1>4. IsIntent(a) /\ LegsFit(a, i, sent)
    BY <1>2 DEF IsStore, Sound, IntentSound
  <1>5. /\ b.plan = plan /\ b.side = a.side /\ b.quantity = a.quantity /\ b.leg = a.leg
        /\ b.order = a.order /\ b.filled = a.filled /\ b.legFilled = a.legFilled
        /\ b.status = a.status
    BY <1>3, <1>4 DEF IsIntent, IntentFields
  <1>6. /\ a.side \in Sides /\ a.quantity \in Nat \ {0} /\ a.leg = 0 /\ a.order = NoHedge
        /\ a.legFilled = 0
    BY <1>2, <1>4 DEF LegsFit, Failed
  <1>7. IsSeq(plan) /\ PlanFits(b)
    BY <1>2, <1>5 DEF FitsSide, Amount, PlanFits
  <1>8. plan # <<>>
    <2> SUFFICES ASSUME plan = <<>> PROVE FALSE
      OBVIOUS
    <2>1. Amount(plan) = 0
      BY NoLegs
    <2> QED
      BY <1>2, <1>6, <2>1
  <1>9. Len(plan) \in Nat \ {0}
    BY <1>7, <1>8, SeqFacts DEF IsSeq
  <1>10. LegsFit(b, i, sent)
    <2>1. b.status # "COMPLETED" /\ 1 .. b.leg = {}
      BY <1>2, <1>5, <1>6
    <2>2. b.leg <= Len(b.plan) /\ b.leg < Len(b.plan)
      BY <1>5, <1>6, <1>9
    <2> QED
      BY <1>5, <1>6, <1>7, <1>8, <2>1, <2>2 DEF LegsFit
  <1>11. \A h \in DOMAIN sent : h[1] = i => SentFits(b, h, sent)
    <2> SUFFICES ASSUME NEW h \in DOMAIN sent, h[1] = i PROVE FALSE
      OBVIOUS
    <2>1. sent[h].index < Len(a.plan) /\ sent[h].index \in Nat
      BY <1>2 DEF Sound, IntentSound, SentFits, IsHedge
    <2>2. Len(a.plan) = 0
      BY <1>2
    <2> QED
      BY <2>1, <2>2
  <1>12. IntentSound(b, i, sent) /\ SameDuty(a, b)
    BY <1>5, <1>7, <1>10, <1>11 DEF IntentSound, SameDuty
  <1>13. /\ t.intents = [s.intents EXCEPT ![i] = b] /\ t.orders = s.orders
         /\ t.seenSource = s.seenSource /\ t.residual = s.residual
    BY <1>1, <1>2, <1>3 DEF IsStore, StoreFields, BindHedgePlan
  <1> QED
    BY <1>1, <1>2, <1>8, <1>12, <1>13, OneLevel

\* bind_hedge_order: the leg that the intent stands at is not yet out.
LEMMA BindLevel ==
  ASSUME NEW s, NEW src, NEW sent, NEW once, Sound(s, src, sent), IsStore(s),
         CopyFits(s, src, sent, once), NEW i \in DOMAIN s.intents,
         s.intents[i].plan # <<>>, s.intents[i].status = "PENDING"
  PROVE  Sound(BindHedgeOrder(s, i), src, sent)
  <1>1. PICK t : t = BindHedgeOrder(s, i)
    OBVIOUS
  <1>2. PICK a : a = s.intents[i]
    OBVIOUS
  <1>3. PICK g : g = NextHedgeOrder(s, i)
    OBVIOUS
  <1>4. PICK c : c = [a EXCEPT !.order = g]
    OBVIOUS
  <1>5. PICK d : d = [c EXCEPT !.orders = Append(@, g)]
    OBVIOUS
  <1>6. PICK b : b = [d EXCEPT !.status = "SUBMITTING"]
    OBVIOUS
  <1>7. IsIntent(a) /\ LegsFit(a, i, sent) /\ IsSeq(a.plan)
    BY <1>2 DEF IsStore, Sound, IntentSound
  <1>8. /\ DOMAIN c = IntentFields
        /\ c.plan = a.plan /\ c.side = a.side /\ c.quantity = a.quantity /\ c.leg = a.leg
        /\ c.filled = a.filled /\ c.legFilled = a.legFilled /\ c.order = g
    BY <1>4, <1>7 DEF IsIntent, IntentFields
  <1>9. /\ DOMAIN d = IntentFields
        /\ d.plan = a.plan /\ d.side = a.side /\ d.quantity = a.quantity /\ d.leg = a.leg
        /\ d.filled = a.filled /\ d.legFilled = a.legFilled /\ d.order = g
    BY <1>5, <1>8 DEF IntentFields
  <1>10. /\ b.plan = a.plan /\ b.side = a.side /\ b.quantity = a.quantity /\ b.leg = a.leg
         /\ b.filled = a.filled /\ b.legFilled = a.legFilled /\ b.order = g
         /\ b.status = "SUBMITTING"
    BY <1>6, <1>9 DEF IntentFields
  <1>11. a.leg < Len(a.plan) /\ a.legFilled = 0 /\ PlanFits(a) /\ a.leg <= Len(a.plan)
    BY <1>2, <1>7 DEF LegsFit, Failed
  <1>12. LegsFit(b, i, sent)
    <2>1. PlanFits(b)
      BY <1>10, <1>11 DEF PlanFits
    <2>2. b.plan # <<>> /\ b.status # "COMPLETED" /\ b.status # "PENDING"
      BY <1>2, <1>10
    <2> QED
      BY <1>7, <1>10, <1>11, <2>1, <2>2 DEF LegsFit
  <1>13. \A h \in DOMAIN sent : h[1] = i => h # g /\ SentFits(b, h, sent)
    <2> SUFFICES ASSUME NEW h \in DOMAIN sent, h[1] = i PROVE h # g /\ SentFits(b, h, sent)
      OBVIOUS
    <2>1. h[2] \in DOMAIN a.orders
      BY <1>2 DEF CopyFits, HedgeFits
    <2>2. DOMAIN a.orders = 1 .. Len(a.orders) /\ Len(a.orders) \in Nat
      BY <1>7, SeqFacts DEF IsIntent
    <2>3. g[2] = Len(a.orders) + 1
      BY <1>2, <1>3 DEF NextHedgeOrder
    <2>4. h # g
      BY <2>1, <2>2, <2>3
    <2>5. SentFits(a, h, sent)
      BY <1>2 DEF Sound, IntentSound
    <2> QED
      BY <1>10, <2>4, <2>5 DEF SentFits
  <1>14. IntentSound(b, i, sent) /\ SameDuty(a, b)
    BY <1>7, <1>10, <1>12, <1>13 DEF IntentSound, SameDuty
  <1>15. /\ t.orders = s.orders /\ t.seenSource = s.seenSource /\ t.residual = s.residual
    BY <1>1 DEF IsStore, StoreFields, BindHedgeOrder
  <1>16. t.intents = [s.intents EXCEPT ![i] = b]
    BY <1>1, <1>2, <1>3, <1>4, <1>5, <1>6 DEF IsStore, StoreFields, BindHedgeOrder, IsIntent,
       IntentFields
  <1> QED
    BY <1>1, <1>2, <1>14, <1>15, <1>16, OneLevel

\* update_hedge_status keeps the legs.
LEMMA HedgeStatusLevel ==
  ASSUME NEW s, NEW src, NEW sent, NEW once, Sound(s, src, sent), IsStore(s),
         CopyFits(s, src, sent, once), NEW h, NEW v \in {"ACCEPTED", "REJECTED", "UNKNOWN"}
  PROVE  Sound(UpdateHedgeStatus(s, h, v), src, sent)
  <1>1. PICK t : t = UpdateHedgeStatus(s, h, v)
    OBVIOUS
  <1>2. PICK i : i = IntentOf(s, h)
    OBVIOUS
  <1>3. CASE i = 0 \/ s.intents[i].status \in Failed
    BY <1>2, <1>3 DEF UpdateHedgeStatus
  <1>4. CASE i # 0 /\ s.intents[i].status \notin Failed
    <2>1. i \in DOMAIN s.intents
      BY <1>2, <1>4, IntentOfFits DEF CopyFits
    <2>2. PICK a : a = s.intents[i]
      OBVIOUS
    <2>3. PICK b : b = [a EXCEPT !.status = v]
      OBVIOUS
    <2>4. IsIntent(a) /\ IntentSound(a, i, sent)
      BY <2>1, <2>2 DEF IsStore, Sound
    <2>5. StandsAs(a, b) /\ b.status = v
      BY <2>3, <2>4, StatusStands
    <2>6. IntentSound(b, i, sent) /\ SameDuty(a, b)
      <3>1. b.status \notin {"PENDING", "COMPLETED"} /\ a.status \notin Failed
        BY <1>4, <2>2, <2>5
      <3> QED
        BY <2>4, <2>5, <3>1, StatusSound
    <2>7. /\ t.intents = [s.intents EXCEPT ![i] = b] /\ t.orders = s.orders
          /\ t.seenSource = s.seenSource /\ t.residual = s.residual
      BY <1>1, <1>2, <1>4, <2>2, <2>3 DEF IsStore, StoreFields, UpdateHedgeStatus
    <2> QED
      BY <1>1, <2>1, <2>2, <2>6, <2>7, OneLevel
  <1> QED
    BY <1>3, <1>4

\* A fill that was not expected moves no leg.
LEMMA UnexpectedLevel ==
  ASSUME NEW s, NEW src, NEW sent, Sound(s, src, sent), IsStore(s), NEW i \in DOMAIN s.intents,
         s.intents[i].order # NoHedge, NEW q
  PROVE  Sound(UnexpectedHedgeFill(s, i, q), src, sent)
  <1>1. PICK t : t = UnexpectedHedgeFill(s, i, q)
    OBVIOUS
  <1>2. PICK a : a = s.intents[i]
    OBVIOUS
  <1>3. PICK c : c = [a EXCEPT !.filled = @ + q]
    OBVIOUS
  <1>4. PICK d : d = [c EXCEPT !.legFilled = @ + q]
    OBVIOUS
  <1>5. PICK b : b = [d EXCEPT !.status = "BLOCKED"]
    OBVIOUS
  <1>6. IsIntent(a) /\ IntentSound(a, i, sent) /\ LegsFit(a, i, sent) /\ IsSeq(a.plan)
    BY <1>2 DEF IsStore, Sound, IntentSound
  <1>7. /\ DOMAIN c = IntentFields
        /\ c.plan = a.plan /\ c.side = a.side /\ c.quantity = a.quantity /\ c.leg = a.leg
        /\ c.order = a.order
    BY <1>3, <1>6 DEF IsIntent, IntentFields
  <1>8. /\ DOMAIN d = IntentFields
        /\ d.plan = a.plan /\ d.side = a.side /\ d.quantity = a.quantity /\ d.leg = a.leg
        /\ d.order = a.order
    BY <1>4, <1>7 DEF IntentFields
  <1>9. /\ b.plan = a.plan /\ b.side = a.side /\ b.quantity = a.quantity /\ b.leg = a.leg
        /\ b.order = a.order /\ b.status = "BLOCKED"
    BY <1>5, <1>8 DEF IntentFields
  <1>10. a.plan # <<>> /\ PlanFits(a)
    BY <1>2, <1>6 DEF LegsFit
  <1>11. LegsFit(b, i, sent)
    <2>1. PlanFits(b)
      BY <1>9, <1>10 DEF PlanFits
    <2>2. b.status \in Failed /\ b.status # "COMPLETED" /\ b.order # NoHedge
      BY <1>2, <1>9 DEF Failed
    <2> QED
      BY <1>2, <1>6, <1>9, <1>10, <2>1, <2>2 DEF LegsFit
  <1>12. \A h \in DOMAIN sent : h[1] = i => SentFits(b, h, sent)
    BY <1>6, <1>9 DEF IntentSound, SentFits
  <1>13. IntentSound(b, i, sent) /\ SameDuty(a, b)
    BY <1>6, <1>9, <1>11, <1>12 DEF IntentSound, SameDuty
  <1>14. /\ t.orders = s.orders /\ t.seenSource = s.seenSource /\ t.residual = s.residual
    BY <1>1 DEF IsStore, StoreFields, UnexpectedHedgeFill
  <1>15. t.intents = [s.intents EXCEPT ![i] = b]
    BY <1>1, <1>2, <1>3, <1>4, <1>5 DEF IsStore, StoreFields, UnexpectedHedgeFill, IsIntent,
       IntentFields
  <1> QED
    BY <1>1, <1>2, <1>13, <1>14, <1>15, OneLevel

\* Intent b is a, one leg further.
LegOn(a, b) ==
    /\ b.legFilled = 0 /\ b.order = NoHedge
    /\ b.status = (IF a.leg + 1 = Len(a.plan) THEN "COMPLETED" ELSE "PENDING")
    /\ b.plan = a.plan /\ b.side = a.side /\ b.quantity = a.quantity /\ b.leg = a.leg + 1

\* What a copy is after a leg of intent i was filled.
LegIsBehind(s, i, t) ==
    /\ t.orders = s.orders /\ t.seenSource = s.seenSource /\ t.residual = s.residual
    /\ \E b : LegOn(s.intents[i], b) /\ t.intents = [s.intents EXCEPT ![i] = b]

\* A leg that is filled is the one change.
LEMMA LegFilledForm ==
  ASSUME NEW s, IsStore(s), NEW i \in DOMAIN s.intents, NEW q, NEW t, t = LegFilled(s, i, q)
  PROVE  LegIsBehind(s, i, t)
  <1> DEFINE v == IF s.intents[i].leg + 1 = Len(s.intents[i].plan) THEN "COMPLETED" ELSE "PENDING"
             c == [s.intents[i] EXCEPT !.filled = @ + q]
             d == [c EXCEPT !.legFilled = 0]
             e == [d EXCEPT !.leg = @ + 1]
             f == [e EXCEPT !.order = NoHedge]
             b == [f EXCEPT !.status = v]
  <1>1. DOMAIN s = StoreFields
    BY DEF IsStore
  <1>2. t.intents = [s.intents EXCEPT ![i] = b]
    BY <1>1 DEF StoreFields, LegFilled
  <1>3. t.orders = s.orders /\ t.seenSource = s.seenSource /\ t.residual = s.residual
    BY <1>1 DEF StoreFields, LegFilled
  <1>4. PICK a : a = s.intents[i]
    OBVIOUS
  <1>5. DOMAIN a = IntentFields
    BY <1>4 DEF IsStore, IsIntent
  <1>6. v = IF a.leg + 1 = Len(a.plan) THEN "COMPLETED" ELSE "PENDING"
    BY <1>4
  <1> HIDE DEF v
  <1>9. /\ DOMAIN c = IntentFields
        /\ c.plan = a.plan /\ c.side = a.side /\ c.quantity = a.quantity /\ c.leg = a.leg
    BY <1>4, <1>5 DEF IntentFields
  <1> HIDE DEF c
  <1>10. /\ DOMAIN d = IntentFields /\ d.legFilled = 0
         /\ d.plan = a.plan /\ d.side = a.side /\ d.quantity = a.quantity /\ d.leg = a.leg
    BY <1>9 DEF IntentFields
  <1> HIDE DEF d
  <1>11. /\ DOMAIN e = IntentFields /\ e.legFilled = 0
         /\ e.plan = a.plan /\ e.side = a.side /\ e.quantity = a.quantity /\ e.leg = a.leg + 1
    BY <1>10 DEF IntentFields
  <1> HIDE DEF e
  <1>12. /\ DOMAIN f = IntentFields /\ f.legFilled = 0 /\ f.order = NoHedge
         /\ f.plan = a.plan /\ f.side = a.side /\ f.quantity = a.quantity /\ f.leg = a.leg + 1
    BY <1>11 DEF IntentFields
  <1> HIDE DEF f
  <1>13. /\ b.legFilled = 0 /\ b.order = NoHedge /\ b.status = v
         /\ b.plan = a.plan /\ b.side = a.side /\ b.quantity = a.quantity /\ b.leg = a.leg + 1
    BY <1>12 DEF IntentFields
  <1> HIDE DEF b
  <1>14. LegOn(a, b)
    BY <1>6, <1>13 DEF LegOn
  <1> QED
    BY <1>2, <1>3, <1>4, <1>14 DEF LegIsBehind

\* The leg that was executed at once is behind its intent.
LEMMA LegFilledLevel ==
  ASSUME NEW s, NEW src, NEW sent, Sound(s, src, sent), IsStore(s), NEW i \in DOMAIN s.intents,
         s.intents[i].order # NoHedge, s.intents[i].status \notin Failed,
         NEW h \in DOMAIN sent, h[1] = i, sent[h].index = s.intents[i].leg,
         NEW q, q = s.intents[i].plan[s.intents[i].leg + 1].quantity, sent[h].fills = <<q>>,
         \A g \in DOMAIN sent : g[1] = i => g # NoHedge
  PROVE  Sound(LegFilled(s, i, q), src, sent)
  <1>1. PICK t : t = LegFilled(s, i, q)
    OBVIOUS
  <1>2. PICK a : a = s.intents[i]
    OBVIOUS
  <1>3. IsIntent(a) /\ IntentSound(a, i, sent) /\ LegsFit(a, i, sent) /\ IsSeq(a.plan)
    BY <1>2 DEF IsStore, Sound, IntentSound
  <1>4. LegIsBehind(s, i, t)
    BY <1>1, LegFilledForm
  <1>5. /\ t.orders = s.orders /\ t.seenSource = s.seenSource /\ t.residual = s.residual
    BY <1>4 DEF LegIsBehind
  <1>6. PICK b : LegOn(a, b) /\ t.intents = [s.intents EXCEPT ![i] = b]
    BY <1>2, <1>4 DEF LegIsBehind
  <1>7. /\ b.legFilled = 0 /\ b.order = NoHedge
         /\ b.plan = a.plan /\ b.side = a.side /\ b.quantity = a.quantity /\ b.leg = a.leg + 1
    BY <1>6 DEF LegOn
  <1>8. b.status = IF a.leg + 1 = Len(a.plan) THEN "COMPLETED" ELSE "PENDING"
    BY <1>6 DEF LegOn
  <1>9. /\ a.plan # <<>> /\ PlanFits(a) /\ a.leg < Len(a.plan)
         /\ a.leg \in Nat /\ Len(a.plan) \in Nat
    <2>1. a.leg \in Nat /\ Len(a.plan) \in Nat
      BY <1>3, SeqFacts DEF IsIntent
    <2> QED
      BY <1>2, <1>3, <2>1 DEF LegsFit
  <1>10. LegsFit(b, i, sent)
    <2>1. PlanFits(b)
      BY <1>7, <1>9 DEF PlanFits
    <2>2. b.leg <= Len(b.plan) /\ b.plan # <<>>
      BY <1>7, <1>9
    <2>3. b.status = "COMPLETED" => b.leg = Len(b.plan)
      BY <1>8, <1>7
    <2>4. b.order # NoHedge \/ b.status = "PENDING" => b.leg < Len(b.plan)
      BY <1>8, <1>7, <1>9
    <2>5. ASSUME NEW n \in 1 .. b.leg
          PROVE  \E g \in DOMAIN sent :
                    g[1] = i /\ sent[g].index = n - 1 /\ sent[g].fills = <<b.plan[n].quantity>>
      <3>1. CASE n \in 1 .. a.leg
        <4>1. \A m \in 1 .. a.leg : \E g \in DOMAIN sent :
                 g[1] = i /\ sent[g].index = m - 1 /\ sent[g].fills = <<a.plan[m].quantity>>
          BY <1>3 DEF LegsFit
        <4>2. PICK g \in DOMAIN sent :
                 g[1] = i /\ sent[g].index = n - 1 /\ sent[g].fills = <<a.plan[n].quantity>>
          BY <3>1, <4>1
        <4>3. b.plan[n].quantity = a.plan[n].quantity
          BY <1>7
        <4> QED
          BY <4>2, <4>3
      <3>2. CASE n \notin 1 .. a.leg
        <4>1. n = a.leg + 1 /\ n - 1 = a.leg
          BY <1>7, <1>9, <3>2
        <4>2. sent[h].fills = <<b.plan[n].quantity>>
          BY <1>2, <1>7, <4>1
        <4> QED
          BY <1>2, <4>1, <4>2
      <3> QED
        BY <3>1, <3>2
    <2> QED
      BY <1>3, <1>7, <2>1, <2>2, <2>3, <2>4, <2>5 DEF LegsFit
  <1>11. ASSUME NEW g \in DOMAIN sent, g[1] = i PROVE SentFits(b, g, sent)
    <2>1. SentFits(a, g, sent)
      BY <1>3, <1>11 DEF IntentSound
    <2>2. b.order # g
      BY <1>7, <1>11
    <2> QED
      BY <1>7, <2>1, <2>2 DEF SentFits
  <1>12. IntentSound(b, i, sent) /\ SameDuty(a, b)
    BY <1>3, <1>7, <1>10, <1>11 DEF IntentSound, SameDuty
  <1>13. SameDuty(s.intents[i], b)
    BY <1>2, <1>12
  <1>14. Sound(t, src, sent)
    BY <1>12, <1>13, <1>5, <1>6, OneLevel
  <1> QED
    BY <1>1, <1>14

\* record_hedge_fill keeps the legs: what is taken for the whole leg was sent for it.
LEMMA HedgeFillLevel ==
  ASSUME NEW s, NEW src, NEW sent, NEW once, Sound(s, src, sent), IsStore(s),
         CopyFits(s, src, sent, once), NEW h \in DOMAIN sent, ExecutedFits(sent[h]),
         NEW k \in DOMAIN sent[h].fills
  PROVE  Sound(ApplyHedgeFill(s, <<h, k>>, sent[h].fills[k]), src, sent)
  <1>1. PICK q : q = sent[h].fills[k]
    OBVIOUS
  <1>2. PICK i : i = IntentOf(s, h)
    OBVIOUS
  <1>3. PICK fill : fill = <<h, k>>
    OBVIOUS
  <1>4. fill[1] = h
    BY <1>3
  <1>5. PICK t : t = ApplyHedgeFill(s, fill, q)
    OBVIOUS
  <1>6. CASE fill \in s.seenHedge \/ i = 0
    BY <1>1, <1>2, <1>3, <1>4, <1>6 DEF ApplyHedgeFill
  <1>7. CASE ~(fill \in s.seenHedge \/ i = 0)
    <2> DEFINE noted == [s EXCEPT !.seenHedge = @ \union {fill}]
    <2>1. \A n \in DOMAIN s.intents : IntentFits(s, n)
      BY DEF CopyFits
    <2>2. i \in DOMAIN s.intents /\ s.intents[i].order = h /\ h # NoHedge
      BY <1>2, <1>7, <2>1, IntentOfWaits
    <2>3. h[1] = i
      <3>1. PICK n : h = <<i, n>>
        BY <2>1, <2>2 DEF IntentFits
      <3> QED
        BY <3>1
    <2>4. PICK a : a = s.intents[i]
      OBVIOUS
    <2>5. \/ t = UnexpectedHedgeFill(noted, i, q)
          \/ /\ a.status \notin Failed /\ q = a.plan[a.leg + 1].quantity - a.legFilled
             /\ t = LegFilled(noted, i, q)
      BY <1>2, <1>4, <1>5, <1>7, <2>4 DEF ApplyHedgeFill
    <2>6. PICK u : u = noted
      OBVIOUS
    <2>7. /\ DOMAIN u = StoreFields /\ u.intents = s.intents /\ u.orders = s.orders
          /\ u.seenSource = s.seenSource /\ u.residual = s.residual
      BY <2>6 DEF IsStore, StoreFields
    <2>8. IsStore(u)
      BY <2>7 DEF IsStore
    <2>9. Sound(u, src, sent)
      <3>1. SidesFit(u, src)
        BY <2>7 DEF Sound, SidesFit
      <3> QED
        BY <2>7, <3>1, OrdersLevel
    <2> HIDE DEF noted
    <2>10. CASE t = UnexpectedHedgeFill(noted, i, q)
      <3>1. Sound(UnexpectedHedgeFill(u, i, q), src, sent)
        BY <2>2, <2>7, <2>8, <2>9, UnexpectedLevel
      <3> QED
        BY <1>1, <1>3, <1>5, <2>6, <2>10, <3>1
    <2>11. CASE /\ a.status \notin Failed /\ q = a.plan[a.leg + 1].quantity - a.legFilled
                /\ t = LegFilled(noted, i, q)
      <3>1. LegsFit(a, i, sent) /\ SentFits(a, h, sent) /\ IsSeq(a.plan) /\ IsIntent(a)
        BY <2>2, <2>3, <2>4 DEF Sound, IntentSound, IsStore
      <3>2. sent[h].index = a.leg /\ sent[h].leg = a.plan[a.leg + 1]
        BY <2>2, <2>4, <3>1 DEF SentFits
      <3>3. a.legFilled = 0 /\ a.plan # <<>> /\ PlanFits(a) /\ a.leg < Len(a.plan)
        BY <2>2, <2>4, <2>11, <3>1 DEF LegsFit
      <3>4. PICK z : z = sent[h].leg.quantity
        OBVIOUS
      <3>5. z \in Nat /\ q = z
        <4>1. a.leg \in Nat /\ Len(a.plan) \in Nat /\ DOMAIN a.plan = 1 .. Len(a.plan)
          BY <3>1, SeqFacts DEF IsIntent
        <4>2. a.leg + 1 \in DOMAIN a.plan
          BY <3>3, <4>1
        <4>3. z \in Nat
          BY <3>2, <3>3, <3>4, <4>2 DEF PlanFits
        <4>4. q = z - 0
          BY <2>11, <3>2, <3>3, <3>4
        <4> QED
          BY <4>3, <4>4
      <3>6. sent[h].fills = <<q>>
        <4>1. sent[h].fills # <<>>
          OBVIOUS
        <4>2. ASSUME NEW part \in 1 .. z - 1, sent[h].fills = <<part, z - part>>
              PROVE  FALSE
          <5>1. q \in {part, z - part}
            BY <1>1, <4>2
          <5> QED
            BY <3>5, <5>1
        <4> QED
          BY <3>4, <3>5, <4>1, <4>2 DEF ExecutedFits
      <3>7. q = u.intents[i].plan[u.intents[i].leg + 1].quantity
        BY <2>4, <2>7, <3>2, <3>4, <3>5
      <3>8. sent[h].index = u.intents[i].leg /\ u.intents[i].status \notin Failed
            /\ u.intents[i].order # NoHedge /\ i \in DOMAIN u.intents
        BY <2>2, <2>4, <2>7, <2>11, <3>2
      <3>9. \A g \in DOMAIN sent : g[1] = i => g # NoHedge
        <4>1. i # 0
          BY <1>7
        <4> QED
          BY <4>1 DEF NoHedge
      <3>10. Sound(LegFilled(u, i, q), src, sent)
        BY <2>3, <2>8, <2>9, <3>6, <3>7, <3>8, <3>9, LegFilledLevel
      <3> QED
        BY <1>1, <1>3, <1>5, <2>6, <2>11, <3>10
    <2> QED
      BY <2>5, <2>10, <2>11
  <1> QED
    BY <1>6, <1>7

\* A new status of an order leaves its side.
LEMMA StatusSides ==
  ASSUME NEW s, NEW src, SidesFit(s, src), IsStore(s), NEW o \in DOMAIN s.orders, NEW v,
         NEW t, t.orders = [s.orders EXCEPT ![o].status = v]
  PROVE  SidesFit(t, src)
  <1>1. PICK order : order = [s.orders[o] EXCEPT !.status = v]
    OBVIOUS
  <1>2. order.side = s.orders[o].side
    BY <1>1 DEF IsStore, IsOrder, OrderFields
  <1>3. t.orders = [s.orders EXCEPT ![o] = order]
    BY <1>1
  <1>4. /\ DOMAIN t.orders = DOMAIN s.orders /\ t.orders[o] = order
        /\ \A n \in DOMAIN s.orders : n # o => t.orders[n] = s.orders[n]
    BY <1>3, SeqExcept DEF IsStore
  <1> QED
    BY <1>2, <1>4 DEF SidesFit

\* update_source_status keeps the books.
LEMMA SourceStatusLevel ==
  ASSUME NEW s, NEW src, NEW sent, Sound(s, src, sent), IsStore(s), NEW o \in DOMAIN s.orders,
         NEW v
  PROVE  Sound(UpdateSourceStatus(s, o, v), src, sent)
  <1>1. PICK t : t = UpdateSourceStatus(s, o, v)
    OBVIOUS
  <1>2. /\ t.orders = [s.orders EXCEPT ![o].status = v] /\ t.intents = s.intents
        /\ t.seenSource = s.seenSource /\ t.residual = s.residual
    BY <1>1 DEF IsStore, StoreFields, UpdateSourceStatus
  <1>3. SidesFit(t, src)
    BY <1>2, StatusSides DEF Sound
  <1> QED
    BY <1>1, <1>2, <1>3, OrdersLevel

\* So does confirm_source_reconciled.
LEMMA ReconciledLevel ==
  ASSUME NEW s, NEW src, NEW sent, Sound(s, src, sent), IsStore(s), NEW o
  PROVE  Sound(ConfirmSourceReconciled(s, o), src, sent)
  <1>1. PICK t : t = ConfirmSourceReconciled(s, o)
    OBVIOUS
  <1>2. /\ t.orders = s.orders /\ t.intents = s.intents
        /\ t.seenSource = s.seenSource /\ t.residual = s.residual
    BY <1>1 DEF IsStore, StoreFields, ConfirmSourceReconciled
  <1>3. SidesFit(t, src)
    BY <1>2 DEF Sound, SidesFit
  <1> QED
    BY <1>1, <1>2, <1>3, OrdersLevel

\* So does marking an order unknown.
LEMMA UnknownLevel ==
  ASSUME NEW s, NEW src, NEW sent, Sound(s, src, sent), IsStore(s), NEW o
  PROVE  Sound(MarkSourceUnknown(s, o), src, sent)
  <1>1. PICK t : t = MarkSourceUnknown(s, o)
    OBVIOUS
  <1>2. /\ t.orders = IF o \in DOMAIN s.orders
                      THEN [s.orders EXCEPT ![o].status = "UNKNOWN"] ELSE s.orders
        /\ t.intents = s.intents
        /\ t.seenSource = s.seenSource /\ t.residual = s.residual
    BY <1>1 DEF IsStore, StoreFields, MarkSourceUnknown, KnowsSourceOrder
  <1>3. SidesFit(t, src)
    <2>1. CASE o \in DOMAIN s.orders
      BY <1>2, <2>1, StatusSides DEF Sound
    <2>2. CASE o \notin DOMAIN s.orders
      BY <1>2, <2>2 DEF Sound, SidesFit
    <2> QED
      BY <2>1, <2>2
  <1> QED
    BY <1>1, <1>2, <1>3, OrdersLevel

\* begin_source enters an order that has not traded.
LEMMA BeginLevel ==
  ASSUME NEW s, NEW src, NEW sent, Sound(s, src, sent), IsStore(s),
         NEW side \in Sides, NEW quantity, NEW exit, NEW freeze,
         NEW t, t = BeginSource(s, side, quantity, exit, freeze), src[t.active].state = "absent"
  PROVE  Sound(t, src, sent)
  <1>1. PICK order : order = [side |-> side, quantity |-> quantity, filled |-> 0,
                              status |-> "SUBMITTING", exit |-> exit]
    OBVIOUS
  <1>2. /\ t.orders = Append(s.orders, order) /\ t.active = Len(s.orders) + 1
        /\ t.intents = s.intents /\ t.seenSource = s.seenSource /\ t.residual = s.residual
    BY <1>1 DEF BeginSource, IsStore, StoreFields
  <1>3. order.side = side
    BY <1>1
  <1>4. /\ DOMAIN t.orders = 1 .. Len(s.orders) + 1 /\ DOMAIN s.orders = 1 .. Len(s.orders)
        /\ \A o \in DOMAIN s.orders : t.orders[o] = s.orders[o]
        /\ t.orders[Len(s.orders) + 1] = order /\ Len(s.orders) \in Nat
    BY <1>2, Appended, SeqFacts DEF IsStore
  <1>5. \A o \in DOMAIN t.orders : o \in DOMAIN s.orders \/ o = t.active
    BY <1>2, <1>4
  <1>6. SidesFit(t, src)
    <2>1. SidesFit(s, src)
      BY DEF Sound
    <2> QED
      BY <1>2, <1>3, <1>4, <1>5, <2>1 DEF SidesFit
  <1> QED
    BY <1>2, <1>6, OrdersLevel

\* A restart keeps the books and the legs.
LEMMA RecoverLevel ==
  ASSUME NEW s, NEW src, NEW sent, Sound(s, src, sent), IsStore(s),
         s.active \in {NoOrder} \union DOMAIN s.orders
  PROVE  Sound(RecoverForStart(s), src, sent)
  <1>1. CASE s.active = NoOrder /\ AllCompleted(s)
    BY <1>1 DEF RecoverForStart
  <1>2. CASE ~(s.active = NoOrder /\ AllCompleted(s))
    <2>1. PICK t : t = RecoverForStart(s)
      OBVIOUS
    <2> DEFINE l == [i \in DOMAIN s.intents |->
                        IF s.intents[i].status \in InFlight
                        THEN [s.intents[i] EXCEPT !.status = "UNKNOWN"] ELSE s.intents[i]]
    <2>2. /\ t.orders = IF s.active = NoOrder THEN s.orders
                        ELSE [s.orders EXCEPT ![s.active].status = "UNKNOWN"]
          /\ t.intents = l /\ t.seenSource = s.seenSource /\ t.residual = s.residual
      BY <1>2, <2>1 DEF IsStore, StoreFields, RecoverForStart
    <2>3. DOMAIN t.intents = DOMAIN s.intents
      BY <2>2
    <2>4. ASSUME NEW i \in DOMAIN s.intents
          PROVE  SameDuty(s.intents[i], l[i]) /\ IntentSound(l[i], i, sent)
      <3>1. PICK a : a = s.intents[i]
        OBVIOUS
      <3>2. PICK b : b = l[i]
        OBVIOUS
      <3>3. IsIntent(a) /\ IntentSound(a, i, sent)
        BY <3>1 DEF IsStore, Sound
      <3>4. CASE a.status \in InFlight
        <4>1. b = [a EXCEPT !.status = "UNKNOWN"]
          BY <3>1, <3>2, <3>4
        <4>2. StandsAs(a, b) /\ b.status = "UNKNOWN"
          BY <3>3, <4>1, StatusStands
        <4>3. IntentSound(b, i, sent) /\ SameDuty(a, b)
          BY <3>3, <4>2, StatusSound DEF Failed
        <4> HIDE DEF l
        <4> QED
          BY <3>1, <3>2, <4>3
      <3>5. CASE a.status \notin InFlight
        <4>1. b = a
          BY <3>1, <3>2, <3>5
        <4> HIDE DEF l
        <4> QED
          BY <3>1, <3>2, <3>3, <4>1 DEF SameDuty
      <3> QED
        BY <3>4, <3>5
    <2> HIDE DEF l
    <2>5. SidesFit(t, src)
      <3>1. CASE s.active = NoOrder
        BY <2>2, <3>1 DEF Sound, SidesFit
      <3>2. CASE s.active # NoOrder
        <4>1. PICK o : o = s.active
          OBVIOUS
        <4>2. o \in DOMAIN s.orders /\ t.orders = [s.orders EXCEPT ![o].status = "UNKNOWN"]
          BY <2>2, <3>2, <4>1
        <4> QED
          BY <4>2, StatusSides DEF Sound
      <3> QED
        BY <3>1, <3>2
    <2>6. /\ \A i \in DOMAIN s.intents : SameDuty(s.intents[i], t.intents[i])
          /\ \A i \in DOMAIN s.intents : IntentSound(t.intents[i], i, sent)
      BY <2>2, <2>4
    <2>7. Sound(t, src, sent)
      BY <2>2, <2>3, <2>5, <2>6, DutiesLevel
    <2> QED
      BY <2>1, <2>7
  <1> QED
    BY <1>1, <1>2

-----------------------------------------------------------------------------
(* A fill of the source order goes into the books.                         *)

\* What an intent owes.
Owed(intents) == [i \in DOMAIN intents |-> intents[i].side * intents[i].quantity]

\* What is owed is an integer.
LEMMA OwedIsInt ==
  ASSUME NEW intents, IsSeq(intents),
         \A i \in DOMAIN intents : intents[i].side \in Sides /\ intents[i].quantity \in Nat
  PROVE  IsSummed(Owed(intents)) /\ SumFunction(Owed(intents)) \in Int
  <1>1. Len(intents) \in Nat /\ DOMAIN intents = 1 .. Len(intents)
    BY SeqFacts
  <1>2. IsFiniteSet(DOMAIN intents)
    BY <1>1, FS_Interval
  <1>3. \A i \in DOMAIN intents : Owed(intents)[i] \in Int
    BY DEF Owed, Sides
  <1>4. IsSummed(Owed(intents))
    BY <1>2, <1>3 DEF IsSummed, Owed
  <1> QED
    BY <1>4, SumIsInt

\* One more intent adds what it owes.
LEMMA OwedAdds ==
  ASSUME NEW intents, IsSeq(intents),
         \A i \in DOMAIN intents : intents[i].side \in Sides /\ intents[i].quantity \in Nat,
         NEW new, new.side \in Sides, new.quantity \in Nat
  PROVE  SumFunction(Owed(Append(intents, new)))
           = SumFunction(Owed(intents)) + new.side * new.quantity
  <1>1. PICK more : more = Append(intents, new)
    OBVIOUS
  <1>2. PICK n : n = Len(intents) + 1
    OBVIOUS
  <1>3. /\ IsSeq(more) /\ DOMAIN more = DOMAIN intents \union {n} /\ n \notin DOMAIN intents
        /\ \A i \in DOMAIN intents : more[i] = intents[i]
        /\ more[n] = new
    BY <1>1, <1>2, Appended, SeqFacts
  <1>4. \A i \in DOMAIN more : more[i].side \in Sides /\ more[i].quantity \in Nat
    BY <1>3
  <1>5. IsFiniteSet(DOMAIN intents)
    BY OwedIsInt DEF IsSummed, Owed
  <1>6. PICK v : v = Owed(intents)
    OBVIOUS
  <1>7. PICK u : u = Owed(more)
    OBVIOUS
  <1>8. /\ DOMAIN v = DOMAIN intents /\ DOMAIN u = DOMAIN more
        /\ \A i \in DOMAIN v : u[i] = v[i]
        /\ \A i \in DOMAIN u : u[i] \in Int
    <2>1. \A i \in DOMAIN more : more[i].side * more[i].quantity \in Int
      BY <1>4 DEF Sides
    <2> QED
      BY <1>3, <1>6, <1>7, <2>1 DEF Owed
  <1>9. u[n] = new.side * new.quantity
    BY <1>3, <1>7 DEF Owed
  <1>10. SumFunction(u) = SumFunction(v) + u[n]
    <2>1. IsFiniteSet(DOMAIN v) /\ n \notin DOMAIN v /\ DOMAIN u = DOMAIN v \union {n}
      BY <1>3, <1>5, <1>8
    <2> QED
      BY <1>8, <2>1, SumAdds
  <1> QED
    BY <1>1, <1>6, <1>7, <1>9, <1>10

\* A new intent stands at the beginning.
LEMMA NewSound ==
  ASSUME NEW sent, NEW i, \A h \in DOMAIN sent : h[1] # i,
         NEW fill, NEW side \in Sides, NEW quantity \in Nat \ {0}, NEW exit,
         NEW new, new = NewIntent(fill, side, quantity, exit)
  PROVE  IntentSound(new, i, sent) /\ new.side = side /\ new.quantity = quantity
  <1>1. /\ new.side = side /\ new.quantity = quantity /\ new.filled = 0 /\ new.plan = <<>>
        /\ new.leg = 0 /\ new.legFilled = 0 /\ new.order = NoHedge /\ new.status = "PENDING"
    BY DEF NewIntent
  <1>2. IsSeq(<<>>)
    <2>1. <<>> = [j \in 1 .. 0 |-> <<>>[j]]
      OBVIOUS
    <2> QED
      BY <2>1, SeqIntro
  <1>3. 1 .. 0 = {}
    OBVIOUS
  <1>4. LegsFit(new, i, sent)
    BY <1>1, <1>3 DEF LegsFit
  <1> QED
    BY <1>1, <1>2, <1>4 DEF IntentSound

\* What the store owes all in all is what its intents do.
LEMMA ObligedIsOwed ==
  ASSUME NEW s
  PROVE  Obliged(s) = SumFunction(Owed(s.intents))
  BY DEF Obliged, Owed

\* The whole ounces that are due become an intent, the rest stays.
LEMMA AllocateLevel ==
  ASSUME NEW s, NEW src, NEW sent, IsStore(s), SidesFit(s, src),
         \A i \in DOMAIN s.intents : IntentSound(s.intents[i], i, sent),
         \A h \in DOMAIN sent : h[1] \in DOMAIN s.intents,
         IsFiniteSet(s.seenSource), s.residual \in Int, NEW signed \in Int,
         SeenOf(s, src) = s.residual + signed - Unit * Obliged(s),
         NEW fill, NEW exit, NEW t, t = AllocateSourceFill(s, fill, signed, exit)
  PROVE  Sound(t, src, sent)
  <1>1. PICK total : total = s.residual + signed
    OBVIOUS
  <1>2. PICK rounded : rounded = RoundHedgeOunces(total)
    OBVIOUS
  <1>3. PICK rest : rest = total - Unit * rounded
    OBVIOUS
  <1>4. PICK new : new = NewIntent(fill, IF rounded > 0 THEN -1 ELSE 1, Size(rounded), exit)
    OBVIOUS
  <1>5. total \in Int /\ rounded \in Int /\ rest \in Int /\ 2 * Size(rest) <= Unit
    <2>1. total \in Int
      BY <1>1
    <2>2. rounded \in Int /\ Unit * rounded \in Int /\ 2 * Size(total - Unit * rounded) <= Unit
      BY <1>2, <2>1, RoundLeavesHalf
    <2> QED
      BY <1>3, <2>1, <2>2
  <1>6. /\ t.orders = s.orders /\ t.seenSource = s.seenSource /\ t.residual = rest
        /\ t.intents = IF rounded = 0 THEN s.intents ELSE Append(s.intents, new)
    <2> DEFINE u == [s EXCEPT !.residual = rest]
    <2>1. t = AddIntent(u, fill, rounded, exit)
      BY <1>1, <1>2, <1>3 DEF AllocateSourceFill
    <2>2. /\ DOMAIN u = StoreFields /\ u.orders = s.orders /\ u.intents = s.intents
          /\ u.seenSource = s.seenSource /\ u.residual = rest
      BY DEF IsStore, StoreFields
    <2> HIDE DEF u
    <2> QED
      BY <1>4, <2>1, <2>2 DEF AddIntent, StoreFields
  <1>7. PICK n : n = Len(s.intents) + 1
    OBVIOUS
  <1>8. IsSeq(s.intents) /\ n \notin DOMAIN s.intents
    BY <1>7, SeqFacts DEF IsStore
  <1>9. rounded # 0 =>
          /\ IntentSound(new, n, sent) /\ new.side * new.quantity = -rounded
          /\ new.side \in Sides /\ new.quantity \in Nat
    <2> SUFFICES ASSUME rounded # 0
                 PROVE  /\ IntentSound(new, n, sent) /\ new.side * new.quantity = -rounded
                        /\ new.side \in Sides /\ new.quantity \in Nat
      OBVIOUS
    <2>1. PICK side, quantity : /\ side = (IF rounded > 0 THEN -1 ELSE 1)
                                /\ quantity = Size(rounded)
      OBVIOUS
    <2>2. side \in Sides /\ quantity \in Nat \ {0} /\ side * quantity = -rounded
      BY <1>5, <2>1 DEF Size, Sides
    <2>3. new = NewIntent(fill, side, quantity, exit)
      BY <1>4, <2>1
    <2>4. \A h \in DOMAIN sent : h[1] # n
      BY <1>8
    <2>5. IntentSound(new, n, sent) /\ new.side = side /\ new.quantity = quantity
      BY <2>2, <2>3, <2>4, NewSound
    <2> QED
      BY <2>2, <2>5
  <1>10. \A i \in DOMAIN s.intents : s.intents[i].side \in Sides /\ s.intents[i].quantity \in Nat
    BY DEF IntentSound, LegsFit
  <1>11. Obliged(s) \in Int
    BY <1>8, <1>10, OwedIsInt, ObligedIsOwed
  <1>12. Obliged(t) = Obliged(s) - rounded
    <2>1. CASE rounded = 0
      <3>1. Obliged(t) = Obliged(s)
        BY <1>6, <2>1, ObligedIsOwed
      <3> QED
        BY <1>11, <2>1, <3>1
    <2>2. CASE rounded # 0
      <3>1. t.intents = Append(s.intents, new)
        BY <1>6, <2>2
      <3>2. SumFunction(Owed(Append(s.intents, new)))
              = SumFunction(Owed(s.intents)) + new.side * new.quantity
        BY <1>8, <1>9, <1>10, <2>2, OwedAdds
      <3>3. Obliged(t) = Obliged(s) + new.side * new.quantity
        BY <3>1, <3>2, ObligedIsOwed
      <3> QED
        BY <1>5, <1>9, <1>11, <2>2, <3>3
    <2> QED
      BY <2>1, <2>2
  <1>13. BooksFit(t, src)
    <2>1. SeenOf(t, src) = SeenOf(s, src)
      BY <1>6 DEF SeenOf
    <2>3. PICK owed : owed = Obliged(s)
      OBVIOUS
    <2>4. PICK a, b : a = Unit * owed /\ b = Unit * rounded
      OBVIOUS
    <2>2. SeenOf(s, src) = total - a
      <3>1. SeenOf(s, src) = s.residual + signed - a
        BY <2>3, <2>4
      <3>2. a \in Int
        BY <1>11, <2>3, <2>4, UnitTimes
      <3>3. PICK residual : residual = s.residual
        OBVIOUS
      <3> QED
        BY <1>1, <1>5, <3>1, <3>2, <3>3
    <2>5. a \in Int /\ b \in Int /\ Unit * (owed - rounded) = a - b
      BY <1>5, <1>11, <2>3, <2>4, UnitTimes
    <2>6. rest = total - b
      BY <1>3, <2>4
    <2>7. SeenOf(t, src) = rest - Unit * Obliged(t)
      BY <1>5, <1>12, <2>1, <2>2, <2>3, <2>4, <2>5, <2>6
    <2> QED
      BY <1>5, <1>6, <2>7 DEF BooksFit
  <1>14. SidesFit(t, src)
    BY <1>6 DEF SidesFit
  <1>15. \A i \in DOMAIN t.intents : IntentSound(t.intents[i], i, sent)
    <2>1. CASE rounded = 0
      BY <1>6, <2>1
    <2>2. CASE rounded # 0
      <3>1. PICK more : more = Append(s.intents, new)
        OBVIOUS
      <3>2. /\ DOMAIN more = DOMAIN s.intents \union {n} /\ more[n] = new
            /\ \A i \in DOMAIN s.intents : more[i] = s.intents[i]
        BY <1>7, <1>8, <3>1, Appended, SeqFacts
      <3>3. \A i \in DOMAIN more : IntentSound(more[i], i, sent)
        BY <1>9, <2>2, <3>2
      <3> QED
        BY <1>6, <2>2, <3>1, <3>3
    <2> QED
      BY <2>1, <2>2
  <1> QED
    BY <1>13, <1>14, <1>15 DEF Sound

\* What one fill adds to what was seen.
FillWorth(src, f) == src[f[1]].side * src[f[1]].fills[f[2]]

\* The trades a fitting copy has seen are of one side, and in whole units.
LEMMA SeenIsSummed ==
  ASSUME NEW s, NEW src, NEW sent, NEW once, CopyFits(s, src, sent, once),
         \A o \in SourceIds : IsTruth(src[o]) /\ VenueFits(src[o]), SidesFit(s, src)
  PROVE  \A f \in s.seenSource : FillWorth(src, f) \in Int
  <1> SUFFICES ASSUME NEW f \in s.seenSource PROVE FillWorth(src, f) \in Int
    OBVIOUS
  <1>1. PICK o, k : o = f[1] /\ k = f[2]
    OBVIOUS
  <1>2. o \in DOMAIN s.orders /\ k \in DOMAIN src[o].fills /\ o \in SourceIds
    BY <1>1 DEF CopyFits
  <1>3. IsTruth(src[o]) /\ VenueFits(src[o])
    BY <1>2
  <1>4. src[o].fills[k] \in Nat
    BY <1>2, <1>3 DEF IsTruth
  <1>5. src[o].state # "absent"
    <2>1. src[o].fills # <<>>
      BY <1>2
    <2> QED
      BY <1>3, <2>1 DEF VenueFits
  <1>6. src[o].side \in Sides
    BY <1>2, <1>5 DEF SidesFit
  <1>7. src[o].side * src[o].fills[k] \in Int
    BY <1>4, <1>6 DEF Sides
  <1> QED
    BY <1>1, <1>7 DEF FillWorth

\* reserve_source_fill puts a trade into the books that is not in them.
LEMMA ReserveLevel ==
  ASSUME NEW s, NEW src, NEW sent, NEW once, Sound(s, src, sent), IsStore(s),
         CopyFits(s, src, sent, once),
         \A o \in SourceIds : IsTruth(src[o]) /\ VenueFits(src[o]),
         NEW o \in DOMAIN s.orders, NEW k \in DOMAIN src[o].fills, <<o, k>> \notin s.seenSource
  PROVE  Sound(ReserveSourceFill(s, <<o, k>>, src[o].fills[k]), src, sent)
  <1>1. PICK q : q = src[o].fills[k]
    OBVIOUS
  <1>2. PICK fill : fill = <<o, k>>
    OBVIOUS
  <1>3. PICK u : u = NoteSourceFill(s, fill, q)
    OBVIOUS
  <1>4. PICK signed : signed = s.orders[o].side * q
    OBVIOUS
  <1>5. PICK exit : exit = s.orders[o].exit
    OBVIOUS
  <1>6. PICK t : t = AllocateSourceFill(u, fill, signed, exit)
    OBVIOUS
  <1>7. ReserveSourceFill(s, fill, q) = t
    <2>1. fill[1] = o
      BY <1>2
    <2> QED
      BY <1>3, <1>4, <1>5, <1>6, <2>1 DEF ReserveSourceFill
  <1>8. o \in SourceIds /\ q \in Nat
    BY <1>1 DEF CopyFits, IsTruth
  <1>9. Noted(s, u, o, k, q)
    BY <1>2, <1>3, <1>8, NoteFill
  <1>10. IsStore(u) /\ CopyFits(u, src, sent, once)
    <2>1. u = NoteSourceFill(s, <<o, k>>, src[o].fills[k])
      BY <1>1, <1>2, <1>3
    <2> QED
      BY <2>1, NoteFits
  <1>11. /\ u.intents = s.intents /\ u.residual = s.residual
         /\ u.seenSource = s.seenSource \union {fill} /\ DOMAIN u.orders = DOMAIN s.orders
         /\ \A n \in DOMAIN s.orders : u.orders[n].side = s.orders[n].side
    BY <1>2, <1>9 DEF Noted
  <1>12. BooksFit(s, src) /\ SidesFit(s, src)
         /\ \A i \in DOMAIN s.intents : IntentSound(s.intents[i], i, sent)
    BY DEF Sound
  <1>13. SidesFit(u, src)
    BY <1>11, <1>12 DEF SidesFit
  <1>14. FillWorth(src, fill) = signed
    <2>1. IsTruth(src[o]) /\ VenueFits(src[o]) /\ src[o].fills # <<>>
      BY <1>8
    <2>2. src[o].state # "absent"
      BY <2>1 DEF VenueFits
    <2>3. src[o].side = s.orders[o].side
      BY <1>12, <2>2 DEF SidesFit
    <2>4. fill[1] = o /\ fill[2] = k
      BY <1>2
    <2> QED
      BY <1>1, <1>4, <2>3, <2>4 DEF FillWorth
  <1>15. \A f \in u.seenSource : FillWorth(src, f) \in Int
    BY <1>10, <1>13, SeenIsSummed
  <1>16. signed \in Int
    BY <1>11, <1>14, <1>15
  <1>17. SeenOf(s, src) \in Int /\ SeenOf(u, src) = SeenOf(s, src) + signed
    <2>1. PICK v : v = [f \in s.seenSource |-> FillWorth(src, f)]
      OBVIOUS
    <2>2. PICK w : w = [f \in u.seenSource |-> FillWorth(src, f)]
      OBVIOUS
    <2>3. SeenOf(s, src) = SumFunction(v) /\ SeenOf(u, src) = SumFunction(w)
      BY <2>1, <2>2 DEF SeenOf, FillWorth
    <2>4. /\ IsFiniteSet(DOMAIN v) /\ fill \notin DOMAIN v
          /\ DOMAIN w = DOMAIN v \union {fill}
          /\ \A f \in DOMAIN v : w[f] = v[f]
          /\ \A f \in DOMAIN w : w[f] \in Int
          /\ w[fill] = signed
      BY <1>2, <1>11, <1>12, <1>14, <1>15, <2>1, <2>2 DEF BooksFit
    <2>5. SumFunction(v) \in Int /\ SumFunction(w) = SumFunction(v) + w[fill]
      BY <2>4, SumAdds
    <2> QED
      BY <2>3, <2>4, <2>5
  <1>18. IsFiniteSet(u.seenSource) /\ u.residual \in Int
    BY <1>11, <1>12, FS_AddElement DEF BooksFit
  <1>19. \A i \in DOMAIN u.intents : IntentSound(u.intents[i], i, sent)
    BY <1>11, <1>12
  <1>20. \A h \in DOMAIN sent : h[1] \in DOMAIN u.intents
    BY <1>10 DEF CopyFits, HedgeFits
  <1>21. SeenOf(u, src) = u.residual + signed - Unit * Obliged(u)
    <2>1. Obliged(u) = Obliged(s)
      BY <1>11 DEF Obliged
    <2>2. PICK a : a = Unit * Obliged(s)
      OBVIOUS
    <2>3. a \in Int
      <3>1. \A i \in DOMAIN s.intents : s.intents[i].side \in Sides /\ s.intents[i].quantity \in Nat
        BY <1>12 DEF IntentSound, LegsFit
      <3>2. Obliged(s) \in Int
        BY <3>1, OwedIsInt, ObligedIsOwed DEF IsStore
      <3> QED
        BY <2>2, <3>2, UnitTimes
    <2>4. SeenOf(s, src) = s.residual - a
      BY <1>12, <2>2 DEF BooksFit
    <2>5. SeenOf(u, src) = s.residual - a + signed
      BY <1>17, <2>4
    <2>6. s.residual \in Int
      BY <1>12 DEF BooksFit
    <2>7. SeenOf(u, src) = s.residual + signed - a
      BY <1>16, <2>3, <2>5, <2>6
    <2> QED
      BY <1>11, <2>1, <2>2, <2>7
  <1>22. Sound(t, src, sent)
    BY <1>6, <1>10, <1>13, <1>16, <1>18, <1>19, <1>20, <1>21, AllocateLevel
  <1> QED
    BY <1>1, <1>2, <1>7, <1>22

-----------------------------------------------------------------------------
(* The venues move on: the books and the legs stay.                        *)

\* What was seen of the source venue stays as it was.
LEMMA SourceMovesLevel ==
  ASSUME NEW s, NEW src, NEW sent, Sound(s, src, sent), NEW v, SidesFit(s, v),
         \A f \in s.seenSource : /\ v[f[1]].side = src[f[1]].side
                                 /\ v[f[1]].fills[f[2]] = src[f[1]].fills[f[2]]
  PROVE  Sound(s, v, sent)
  <1>1. [f \in s.seenSource |-> src[f[1]].side * src[f[1]].fills[f[2]]]
           = [f \in s.seenSource |-> v[f[1]].side * v[f[1]].fills[f[2]]]
    OBVIOUS
  <1>2. SeenOf(s, v) = SeenOf(s, src)
    BY <1>1 DEF SeenOf
  <1>3. BooksFit(s, src) /\ \A i \in DOMAIN s.intents : IntentSound(s.intents[i], i, sent)
    BY DEF Sound
  <1>4. BooksFit(s, v)
    BY <1>2, <1>3 DEF BooksFit
  <1> QED
    BY <1>3, <1>4 DEF Sound

\* The trades a copy has seen are trades of orders that went out.
LEMMA SeenTraded ==
  ASSUME NEW s, NEW src, NEW sent, NEW once, CopyFits(s, src, sent, once),
         NEW o \in SourceIds, VenueFits(src[o]), src[o].state = "absent",
         NEW f \in s.seenSource
  PROVE  f[1] # o
  <1> SUFFICES ASSUME f[1] = o PROVE FALSE
    OBVIOUS
  <1>1. f[2] \in DOMAIN src[o].fills
    BY DEF CopyFits
  <1>2. src[o].fills = <<>>
    BY DEF VenueFits
  <1> QED
    BY <1>1, <1>2

\* One more trade, or the end of the order: the others, and its own trades, stay.
LEMMA TruthLevel ==
  ASSUME NEW s, NEW src, NEW sent, NEW once, Sound(s, src, sent), CopyFits(s, src, sent, once),
         NEW o \in SourceIds, src[o].state # "absent",
         NEW truth, truth.side = src[o].side,
         \A k \in DOMAIN src[o].fills : truth.fills[k] = src[o].fills[k],
         NEW v, \A n \in SourceIds : v[n] = IF n = o THEN truth ELSE src[n]
  PROVE  Sound(s, v, sent)
  <1>1. SidesFit(s, src) /\ DOMAIN s.orders \subseteq SourceIds
    BY DEF Sound, CopyFits
  <1>2. SidesFit(s, v)
    BY <1>1 DEF SidesFit
  <1>3. ASSUME NEW f \in s.seenSource
        PROVE  v[f[1]].side = src[f[1]].side /\ v[f[1]].fills[f[2]] = src[f[1]].fills[f[2]]
    <2>1. f[1] \in SourceIds /\ f[2] \in DOMAIN src[f[1]].fills
      BY DEF CopyFits
    <2> QED
      BY <2>1
  <1> QED
    BY <1>2, <1>3, SourceMovesLevel

\* submit_order: the order reaches the venue, on the side of its record.
LEMMA SendLevel ==
  ASSUME NEW s, NEW src, NEW sent, NEW once, Sound(s, src, sent), CopyFits(s, src, sent, once),
         NEW o \in SourceIds, VenueFits(src[o]), src[o].state = "absent",
         NEW truth, truth.side = s.orders[o].side,
         NEW v, \A n \in SourceIds : v[n] = IF n = o THEN truth ELSE src[n]
  PROVE  Sound(s, v, sent)
  <1>1. SidesFit(s, src) /\ DOMAIN s.orders \subseteq SourceIds
    BY DEF Sound, CopyFits
  <1>2. SidesFit(s, v)
    BY <1>1 DEF SidesFit
  <1>3. ASSUME NEW f \in s.seenSource
        PROVE  v[f[1]].side = src[f[1]].side /\ v[f[1]].fills[f[2]] = src[f[1]].fills[f[2]]
    <2>1. f[1] \in SourceIds
      BY DEF CopyFits
    <2>2. f[1] # o
      BY SeenTraded
    <2> QED
      BY <2>1, <2>2
  <1> QED
    BY <1>2, <1>3, SourceMovesLevel

\* The broker decides on orders: an order that was executed stays as it was.
SentMoves(sent, v) ==
    /\ DOMAIN v = DOMAIN sent
    /\ \A h \in DOMAIN sent : /\ v[h].index = sent[h].index /\ v[h].leg = sent[h].leg
                              /\ sent[h].fills # <<>> => v[h].fills = sent[h].fills

\* What the broker decides leaves a sound copy sound.
LEMMA SentMovesLevel ==
  ASSUME NEW s, NEW src, NEW sent, Sound(s, src, sent), NEW v, SentMoves(sent, v)
  PROVE  Sound(s, src, v)
  <1>1. ASSUME NEW i \in DOMAIN s.intents
        PROVE  IntentSound(s.intents[i], i, v)
    <2>1. PICK a : a = s.intents[i]
      OBVIOUS
    <2>2. LegsFit(a, i, sent) /\ IsSeq(a.plan) /\ \A h \in DOMAIN sent : h[1] = i => SentFits(a, h, sent)
      BY <2>1 DEF Sound, IntentSound
    <2>3. \A h \in DOMAIN v : h[1] = i => SentFits(a, h, v)
      BY <2>2 DEF SentFits, SentMoves
    <2>4. ASSUME NEW n \in 1 .. a.leg
          PROVE  \E h \in DOMAIN v : h[1] = i /\ v[h].index = n - 1 /\ v[h].fills = <<a.plan[n].quantity>>
      <3>1. \E h \in DOMAIN sent :
               h[1] = i /\ sent[h].index = n - 1 /\ sent[h].fills = <<a.plan[n].quantity>>
        BY <2>2 DEF LegsFit
      <3>2. PICK h \in DOMAIN sent :
               h[1] = i /\ sent[h].index = n - 1 /\ sent[h].fills = <<a.plan[n].quantity>>
        BY <3>1
      <3>3. sent[h].fills # <<>>
        BY <3>2
      <3>4. h \in DOMAIN v /\ v[h].index = n - 1 /\ v[h].fills = <<a.plan[n].quantity>>
        BY <3>2, <3>3 DEF SentMoves
      <3> QED
        BY <3>2, <3>4
    <2>5. LegsFit(a, i, v)
      BY <2>2, <2>4 DEF LegsFit
    <2> QED
      BY <2>1, <2>2, <2>3, <2>5 DEF IntentSound
  <1> QED
    BY <1>1 DEF Sound

\* submit_order: the order of the leg an intent stands at goes out.
LEMMA HedgeSendLevel ==
  ASSUME NEW s, NEW src, NEW sent, NEW once, Sound(s, src, sent), CopyFits(s, src, sent, once),
         NEW i \in DOMAIN s.intents, s.intents[i].order \notin DOMAIN sent \union {NoHedge},
         NEW new, new.index = s.intents[i].leg, new.leg = s.intents[i].plan[s.intents[i].leg + 1],
         NEW v, DOMAIN v = DOMAIN sent \union {s.intents[i].order},
         \A h \in DOMAIN sent : v[h] = sent[h],
         v[s.intents[i].order] = new
  PROVE  Sound(s, src, v)
  <1>1. PICK order : order = s.intents[i].order
    OBVIOUS
  <1>2. PICK m : order = <<i, m>>
    BY <1>1 DEF CopyFits, IntentFits
  <1>3. order[1] = i
    BY <1>2
  <1>4. ASSUME NEW j \in DOMAIN s.intents
        PROVE  IntentSound(s.intents[j], j, v)
    <2>1. PICK a : a = s.intents[j]
      OBVIOUS
    <2>2. LegsFit(a, j, sent) /\ IsSeq(a.plan) /\ \A h \in DOMAIN sent : h[1] = j => SentFits(a, h, sent)
      BY <2>1 DEF Sound, IntentSound
    <2>3. ASSUME NEW h \in DOMAIN v, h[1] = j PROVE SentFits(a, h, v)
      <3>1. CASE h \in DOMAIN sent
        <4>1. SentFits(a, h, sent) /\ v[h] = sent[h]
          BY <2>2, <2>3, <3>1
        <4> QED
          BY <4>1 DEF SentFits
      <3>2. CASE h \notin DOMAIN sent
        <4>1. h = order /\ j = i
          BY <1>1, <1>3, <2>3, <3>2
        <4>2. v[h].index = a.leg /\ v[h].leg = a.plan[a.leg + 1] /\ a.order # NoHedge
          BY <1>1, <2>1, <4>1
        <4>3. a.leg < Len(a.plan)
          BY <2>2, <4>2 DEF LegsFit
        <4> QED
          BY <4>2, <4>3 DEF SentFits
      <3> QED
        BY <3>1, <3>2
    <2>4. ASSUME NEW n \in 1 .. a.leg
          PROVE  \E h \in DOMAIN v : h[1] = j /\ v[h].index = n - 1 /\ v[h].fills = <<a.plan[n].quantity>>
      <3>1. \E h \in DOMAIN sent :
               h[1] = j /\ sent[h].index = n - 1 /\ sent[h].fills = <<a.plan[n].quantity>>
        BY <2>2 DEF LegsFit
      <3> QED
        BY <3>1
    <2>5. LegsFit(a, j, v)
      BY <2>2, <2>4 DEF LegsFit
    <2> QED
      BY <2>1, <2>2, <2>3, <2>5 DEF IntentSound
  <1> QED
    BY <1>4 DEF Sound

-----------------------------------------------------------------------------
(* The inductive invariant of the books, and the ways a step keeps it.     *)

SoundCopies ==
    Sound(mem, source, hedges) /\ Sound(disk, source, hedges) /\ Sound(durable, source, hedges)

Venues ==
    /\ IsFiniteSet(DOMAIN hedges) /\ \A h \in DOMAIN hedges : ExecutedFits(hedges[h])
    /\ tickets \in [Tickets -> Int]
    /\ \A o \in SourceIds : source[o].side \in Sides

BindsPlan == doing.step = "bind" => mem.intents[doing.intent].plan # <<>>

Level == SoundCopies /\ Venues /\ BindsPlan

\* A step of the callbacks leaves the venues alone.
LEMMA VenuesStay ==
  ASSUME Venues, UNCHANGED <<source, hedges, tickets>>
  PROVE  Venues'
  BY DEF Venues

\* Only one step goes on with a plan.
LEMMA NoBinding ==
  ASSUME doing'.step # "bind"
  PROVE  BindsPlan'
  BY DEF BindsPlan

\* A callback that goes on with anything but a leg has no plan to have.
LEMMA OtherStep ==
  ASSUME NEW step, step # "bind", NEW i, doing' = Doing(step, i)
  PROVE  BindsPlan'
  <1>1. doing'.step = step
    BY DEF Doing
  <1> QED
    BY <1>1, NoBinding

\* One ticket changes.
LEMMA TicketMoves ==
  ASSUME NEW S, NEW f \in [S -> Int], NEW t, NEW v \in Int, NEW g, g = [f EXCEPT ![t] = v]
  PROVE  g \in [S -> Int]
  OBVIOUS

\* A step that writes the store and nothing else.
LEMMA LevelStep ==
  ASSUME Level, Sound(mem', source, hedges), Sound(disk', source, hedges),
         Sound(durable', source, hedges), BindsPlan', UNCHANGED <<source, hedges, tickets>>
  PROVE  Level'
  <1>1. Venues'
    BY VenuesStay DEF Level
  <1>2. SoundCopies'
    BY DEF SoundCopies
  <1> QED
    BY <1>1, <1>2 DEF Level

\* A step that leaves the store, and what the venues know, as it was.
LEMMA LevelStays ==
  ASSUME Level, UNCHANGED <<mem, disk, durable, source, hedges, tickets>>, BindsPlan'
  PROVE  Level'
  <1>1. Sound(mem', source, hedges) /\ Sound(disk', source, hedges) /\ Sound(durable', source, hedges)
    BY DEF Level, SoundCopies
  <1> QED
    BY <1>1, LevelStep

\* The callback writes a sound value.
LEMMA LevelPersist ==
  ASSUME Level, NEW s, Sound(s, source, hedges), NEW kept, kept \in {mem, s}, NEW then, NEW n,
         Persist(s, kept, then, n), UNCHANGED <<source, hedges, tickets>>,
         doing' = then /\ mem' = s => BindsPlan'
  PROVE  Level'
  <1>1. /\ mem' \in {mem, s} /\ disk' \in {disk, s} /\ durable' \in {durable, s}
        /\ \/ doing' = Idle
           \/ doing' = then /\ mem' = s /\ disk' = s /\ durable' = s
    BY PersistCases
  <1>2. Sound(mem', source, hedges) /\ Sound(disk', source, hedges) /\ Sound(durable', source, hedges)
    BY <1>1 DEF Level, SoundCopies
  <1>3. BindsPlan'
    <2>1. CASE doing' = Idle
      <3>1. doing'.step # "bind"
        BY <2>1 DEF Idle
      <3> QED
        BY <3>1, NoBinding
    <2> QED
      BY <1>1, <2>1
  <1> QED
    BY <1>2, <1>3, LevelStep

-----------------------------------------------------------------------------
(* One lemma per action.                                                   *)

\* Nothing happens.
LEMMA LevelUnchanged ==
  ASSUME Level, UNCHANGED vars
  PROVE  Level'
  <1>1. UNCHANGED <<mem, disk, durable, source, hedges, tickets, doing>>
    BY DEF vars, store, process, world
  <1>2. BindsPlan'
    BY <1>1 DEF Level, BindsPlan
  <1> QED
    BY <1>1, <1>2, LevelStays

\* What is decided in the process alone.
LEMMA LevelControl ==
  ASSUME Level, ReconcileStartup \/ ArmOneShot \/ DisarmOneShot \/ BeginDrain
  PROVE  Level'
  <1>1. UNCHANGED <<mem, disk, durable, source, hedges, tickets, doing>>
    BY DEF ReconcileStartup, ArmOneShot, DisarmOneShot, BeginDrain, store, world
  <1>2. BindsPlan'
    BY <1>1 DEF Level, BindsPlan
  <1> QED
    BY <1>1, <1>2, LevelStays

\* Somebody else trades.
LEMMA LevelDrift ==
  ASSUME Level, TicketDrifts
  PROVE  Level'
  <1>1. UNCHANGED <<mem, disk, durable, source, hedges, doing>>
    BY DEF TicketDrifts, store, process
  <1>2. BindsPlan'
    BY <1>1 DEF Level, BindsPlan
  <1>3. SoundCopies'
    BY <1>1 DEF Level, SoundCopies
  <1>4. PICK t, v : v \in {-1, 0, 1} /\ tickets' = [tickets EXCEPT ![t] = v]
    BY DEF TicketDrifts
  <1>5. tickets' \in [Tickets -> Int]
    <2>1. PICK f, g : f = tickets /\ g = tickets'
      OBVIOUS
    <2>2. f \in [Tickets -> Int] /\ g = [f EXCEPT ![t] = v] /\ v \in Int
      BY <1>4, <2>1 DEF Level, Venues
    <2>3. g \in [Tickets -> Int]
      BY <2>2, TicketMoves
    <2> QED
      BY <2>1, <2>3
  <1>6. Venues'
    BY <1>1, <1>5 DEF Level, Venues
  <1> QED
    BY <1>2, <1>3, <1>6 DEF Level

\* The process starts and recovers its store.
LEMMA LevelStart ==
  ASSUME Inv, Level, OnStart
  PROVE  Level'
  <1>1. PICK s : s = RecoverForStart(disk)
    OBVIOUS
  <1>2. IsStore(disk) /\ disk.active \in {NoOrder} \union DOMAIN disk.orders
    BY CopiesAreGood DEF Good, CopyFits
  <1>3. Sound(s, source, hedges)
    BY <1>1, <1>2, RecoverLevel DEF Level, SoundCopies
  <1>4. /\ mem' = s /\ disk' = s /\ durable' \in {durable, s} /\ doing' = Idle
        /\ UNCHANGED <<source, hedges, tickets>>
    BY <1>1 DEF OnStart, world
  <1>5. Sound(mem', source, hedges) /\ Sound(disk', source, hedges) /\ Sound(durable', source, hedges)
    BY <1>3, <1>4 DEF Level, SoundCopies
  <1>6. BindsPlan'
    BY <1>4, NoBinding DEF Idle
  <1> QED
    BY <1>4, <1>5, <1>6, LevelStep

\* The process stops.
LEMMA LevelStop ==
  ASSUME Inv, Level, OnStop
  PROVE  Level'
  <1>1. PICK s : s = MarkSourceUnknown(mem, mem.active)
    OBVIOUS
  <1>2. UNCHANGED <<source, hedges, tickets>>
    BY DEF OnStop, world
  <1>3. Ends(1) \/ Persist(s, s, Idle, 1) \/ Persist(s, s, Idle, 2)
    BY <1>1 DEF OnStop
  <1>4. Sound(s, source, hedges)
    BY <1>1, CopiesAreGood, UnknownLevel DEF Level, SoundCopies, Good
  <1>5. doing' = Idle => BindsPlan'
    BY NoBinding DEF Idle
  <1>6. CASE Ends(1)
    <2>1. UNCHANGED <<mem, disk, durable>> /\ doing' = Idle
      BY <1>6 DEF Ends, store
    <2> QED
      BY <1>2, <1>5, <2>1, LevelStays
  <1>7. ASSUME NEW n, Persist(s, s, Idle, n) PROVE Level'
    BY <1>2, <1>4, <1>5, <1>7, LevelPersist
  <1> QED
    BY <1>3, <1>6, <1>7

\* The process, or the machine, is cut off.
LEMMA LevelCrash ==
  ASSUME Level, Crash
  PROVE  Level'
  <1>1. /\ UNCHANGED <<mem, durable, source, hedges, tickets>> /\ disk' \in {disk, durable}
        /\ doing' = Idle
    BY DEF Crash, world
  <1>2. Sound(mem', source, hedges) /\ Sound(disk', source, hedges) /\ Sound(durable', source, hedges)
    BY <1>1 DEF Level, SoundCopies
  <1>3. BindsPlan'
    BY <1>1, NoBinding DEF Idle
  <1> QED
    BY <1>1, <1>2, <1>3, LevelStep

\* The next source order is begun.
LEMMA LevelEvaluate ==
  ASSUME Inv, Level, NEW side \in Sides, NEW quantity \in Quantities,
         EvaluateAndSubmit(side, quantity)
  PROVE  Level'
  <1>1. PICK exit : Persist(BeginSource(mem, side, quantity, exit, OneShot),
                            BeginSource(mem, side, quantity, exit, OneShot),
                            Doing("submit source", 0), 0)
    BY DEF EvaluateAndSubmit
  <1>2. /\ CanSubmitSource(mem) /\ Len(mem.orders) < MaxOrders
        /\ UNCHANGED <<source, hedges, tickets>>
    BY DEF EvaluateAndSubmit, world
  <1>3. PICK s : s = BeginSource(mem, side, quantity, exit, OneShot)
    OBVIOUS
  <1>4. Persist(s, s, Doing("submit source", 0), 0)
    BY <1>1, <1>3
  <1>5. /\ mem.active = NoOrder /\ ~mem.frozen
    BY <1>2 DEF CanSubmitSource
  <1>6. quantity \in Nat \ {0}
    BY TakerAssumption
  <1>7. \A o \in SourceIds : IsTruth(source[o]) /\ VenueFits(source[o])
    BY DEF Inv, Shapes, TakerInv
  <1>8. /\ IsStore(s) /\ CopyFits(s, source, hedges, OneShot)
        /\ s.active \in DOMAIN s.orders /\ source[s.active].state = "absent"
    BY <1>2, <1>3, <1>5, <1>6, <1>7, CopiesAreGood, BeginFits DEF Good
  <1>9. IsStore(mem) /\ Sound(mem, source, hedges)
    BY CopiesAreGood DEF Good, Level, SoundCopies
  <1>10. Sound(s, source, hedges)
    BY <1>3, <1>8, <1>9, BeginLevel
  <1>11. doing' = Doing("submit source", 0) => BindsPlan'
    BY OtherStep
  <1> QED
    BY <1>2, <1>4, <1>10, <1>11, LevelPersist

\* submit_order returns, or raises before or after the order is on its way.
LEMMA LevelSubmit ==
  ASSUME Inv, Level, SubmitSource
  PROVE  Level'
  <1>1. PICK o, s, truth :
           /\ o = mem.active /\ s = MarkSourceUnknown(mem, o)
           /\ truth = [state |-> "open", side |-> mem.orders[o].side,
                       quantity |-> mem.orders[o].quantity, fills |-> <<>>, filled |-> 0]
    OBVIOUS
  <1>2. /\ doing.step = "submit source" /\ UNCHANGED <<hedges, tickets>>
        /\ \/ Sent(o) /\ Proceed(Idle)
           \/ Persist(s, s, Idle, 1) /\ (Sent(o) \/ UNCHANGED <<source, engine>>)
    BY <1>1 DEF SubmitSource
  <1>3. /\ disk = mem /\ durable = mem /\ o \in DOMAIN mem.orders
        /\ source[o].state = "absent"
    BY <1>1, <1>2 DEF Inv, TakerInv, DoingFits
  <1>4. Good(mem) /\ Good(s) /\ Sound(mem, source, hedges) /\ Sound(s, source, hedges)
    BY <1>1, CopiesAreGood, GoodUnknown, UnknownLevel DEF Good, Level, SoundCopies
  <1>5. o \in SourceIds
    BY <1>3, <1>4 DEF Good, CopyFits
  <1>6. mem' \in {mem, s} /\ disk' \in {mem, s} /\ durable' \in {mem, s} /\ doing' = Idle
    BY <1>2, <1>3 DEF Persist, Proceed, store
  <1>7. BindsPlan'
    BY <1>6, NoBinding DEF Idle
  <1>8. CASE UNCHANGED source
    <2>1. Sound(mem', source, hedges) /\ Sound(disk', source, hedges) /\ Sound(durable', source, hedges)
      BY <1>4, <1>6
    <2> QED
      BY <1>2, <1>7, <1>8, <2>1, LevelStep
  <1>9. CASE Sent(o)
    <2>1. source' = [source EXCEPT ![o] = truth]
      BY <1>1, <1>9 DEF Sent
    <2>2. \A n \in SourceIds : source'[n] = IF n = o THEN truth ELSE source[n]
      BY <1>5, <2>1 DEF Inv, Shapes
    <2>3. s.orders[o].side = mem.orders[o].side /\ mem.orders[o].side \in Sides
      <3>1. s.orders = [mem.orders EXCEPT ![o].status = "UNKNOWN"]
        BY <1>1, <1>3, <1>4 DEF MarkSourceUnknown, KnowsSourceOrder, Good, IsStore, StoreFields
      <3>2. IsSeq(mem.orders) /\ IsOrder(mem.orders[o])
        BY <1>3, <1>4 DEF Good, IsStore
      <3>3. PICK order : order = [mem.orders[o] EXCEPT !.status = "UNKNOWN"]
        OBVIOUS
      <3>4. order.side = mem.orders[o].side
        BY <3>2, <3>3 DEF IsOrder, OrderFields
      <3>5. s.orders = [mem.orders EXCEPT ![o] = order]
        BY <3>1, <3>3
      <3>6. s.orders[o] = order
        BY <1>3, <3>2, <3>5, SeqExcept
      <3>7. mem.orders[o].side \in Sides
        BY <1>3, <1>4 DEF Sound, SidesFit
      <3> QED
        BY <3>4, <3>6, <3>7
    <2>4. truth.side = mem.orders[o].side
      BY <1>1
    <2>5. PICK v : v = source'
      OBVIOUS
    <2>6. VenueFits(source[o])
      BY <1>5 DEF Inv, TakerInv
    <2>7. \A n \in SourceIds : v[n] = IF n = o THEN truth ELSE source[n]
      BY <2>2, <2>5
    <2>8. CopyFits(mem, source, hedges, OneShot) /\ CopyFits(s, source, hedges, OneShot)
      BY <1>4 DEF Good
    <2>9. Sound(mem, v, hedges)
      BY <1>3, <1>4, <1>5, <2>4, <2>6, <2>7, <2>8, SendLevel
    <2>10. truth.side = s.orders[o].side
      BY <2>3, <2>4
    <2>11. Sound(s, v, hedges)
      BY <1>3, <1>4, <1>5, <2>6, <2>7, <2>8, <2>10, SendLevel
    <2>12. SoundCopies'
      BY <1>2, <1>6, <2>5, <2>9, <2>11 DEF SoundCopies
    <2>13. Venues'
      <3>1. \A n \in SourceIds : source'[n].side \in Sides
        BY <2>2, <2>3, <2>4 DEF Level, Venues
      <3> QED
        BY <1>2, <3>1 DEF Level, Venues
    <2> QED
      BY <1>7, <2>12, <2>13 DEF Level
  <1> QED
    BY <1>2, <1>8, <1>9

\* The events of a source order.
LEMMA LevelSourceEvents ==
  ASSUME Inv, Level, NEW o \in SourceIds,
         OnSourceAccepted(o) \/ OnSourceRejected(o) \/ OnSourceUnknown(o) \/ OnSourceTerminal(o)
  PROVE  Level'
  <1>1. IsStore(mem) /\ Sound(mem, source, hedges)
    BY CopiesAreGood DEF Good, Level, SoundCopies
  <1>2. UNCHANGED <<source, hedges, tickets>>
    BY DEF OnSourceAccepted, OnSourceRejected, OnSourceUnknown, OnSourceTerminal, world
  <1>3. doing' = Idle => BindsPlan'
    BY NoBinding DEF Idle
  <1>4. doing' = Doing("query source", o) => BindsPlan'
    BY OtherStep
  <1>5. ASSUME NEW v, NEW s, s = UpdateSourceStatus(mem, o, v), o \in DOMAIN mem.orders,
               Persist(s, s, Idle, 0) \/ Persist(s, s, Doing("query source", o), 0)
        PROVE  Level'
    <2>1. Sound(s, source, hedges)
      BY <1>1, <1>5, SourceStatusLevel
    <2> QED
      BY <1>2, <1>3, <1>4, <1>5, <2>1, LevelPersist
  <1>6. CASE OnSourceAccepted(o)
    <2>1. /\ o \in DOMAIN mem.orders
          /\ \E s : s = UpdateSourceStatus(mem, o, "ACCEPTED") /\ Persist(s, s, Idle, 0)
      BY <1>6 DEF OnSourceAccepted, KnowsSourceOrder
    <2> QED
      BY <1>5, <2>1
  <1>7. CASE OnSourceRejected(o)
    <2>1. /\ o \in DOMAIN mem.orders
          /\ \E s : s = UpdateSourceStatus(mem, o, source[o].state) /\ Persist(s, s, Idle, 0)
      BY <1>7 DEF OnSourceRejected, KnowsSourceOrder
    <2> QED
      BY <1>5, <2>1
  <1>8. CASE OnSourceUnknown(o)
    <2>1. \E s : s = MarkSourceUnknown(mem, o) /\ Persist(s, s, Idle, 1)
      BY <1>8 DEF OnSourceUnknown
    <2>2. PICK s : s = MarkSourceUnknown(mem, o) /\ Persist(s, s, Idle, 1)
      BY <2>1
    <2>3. Sound(s, source, hedges)
      BY <1>1, <2>2, UnknownLevel
    <2> QED
      BY <1>2, <1>3, <2>2, <2>3, LevelPersist
  <1>9. CASE OnSourceTerminal(o)
    <2>1. /\ o \in DOMAIN mem.orders
          /\ \E s : /\ s = UpdateSourceStatus(mem, o, source[o].state)
                    /\ Persist(s, s, Doing("query source", o), 0)
      BY <1>9 DEF OnSourceTerminal, KnowsSourceOrder
    <2> QED
      BY <1>5, <2>1
  <1> QED
    BY <1>6, <1>7, <1>8, <1>9

\* What leaves the store alone and takes up no plan.
LEMMA LevelQuiet ==
  ASSUME Level, RequestSourceTerminalQuery \/ OnQuoteTick \/ QuoteIsStale
  PROVE  Level'
  <1>1. UNCHANGED <<mem, disk, durable, source, hedges, tickets>>
    BY DEF RequestSourceTerminalQuery, OnQuoteTick, QuoteIsStale, Proceed, store, world
  <1>2. doing' = Idle \/ doing' = Doing("dispatch", 0)
    BY DEF RequestSourceTerminalQuery, OnQuoteTick, QuoteIsStale, Proceed
  <1>3. BindsPlan'
    <2>1. CASE doing' = Idle
      BY <2>1, NoBinding DEF Idle
    <2>2. CASE doing' = Doing("dispatch", 0)
      BY <2>2, OtherStep
    <2> QED
      BY <1>2, <2>1, <2>2
  <1> QED
    BY <1>1, <1>3, LevelStays

\* The final report of a source order.
LEMMA LevelReport ==
  ASSUME Inv, Level, NEW o \in SourceIds, CompleteSourceTerminalQuery(o)
  PROVE  Level'
  <1>1. PICK s : s = ConfirmSourceReconciled(mem, o)
    OBVIOUS
  <1>2. UNCHANGED <<source, hedges, tickets>> /\ Persist(s, mem, Idle, 0)
    BY <1>1 DEF CompleteSourceTerminalQuery, world
  <1>3. IsStore(mem) /\ Sound(mem, source, hedges)
    BY CopiesAreGood DEF Good, Level, SoundCopies
  <1>4. Sound(s, source, hedges)
    BY <1>1, <1>3, ReconciledLevel
  <1>5. doing' = Idle => BindsPlan'
    BY NoBinding DEF Idle
  <1> QED
    BY <1>2, <1>4, <1>5, LevelPersist

\* A fill of a source order.
LEMMA LevelSourceFilled ==
  ASSUME Inv, Level, NEW o \in SourceIds, NEW k, OnSourceFilled(o, k)
  PROVE  Level'
  <1>1. /\ o \in DOMAIN mem.orders /\ k \in DOMAIN source[o].fills
        /\ UNCHANGED <<source, hedges, tickets>>
    BY DEF OnSourceFilled, KnowsSourceOrder, world
  <1>2. doing' = Idle => BindsPlan'
    BY NoBinding DEF Idle
  <1>3. CASE <<o, k>> \in mem.seenSource
    <2>1. UNCHANGED <<mem, disk, durable>> /\ doing' = Idle
      BY <1>3 DEF OnSourceFilled, Proceed, store
    <2> QED
      BY <1>1, <1>2, <2>1, LevelStays
  <1>4. CASE <<o, k>> \notin mem.seenSource
    <2>1. PICK s : s = ReserveSourceFill(mem, <<o, k>>, source[o].fills[k])
      OBVIOUS
    <2>2. Persist(s, mem, Idle, 0) \/ Persist(s, mem, Doing("dispatch", 0), 0)
      BY <1>4, <2>1 DEF OnSourceFilled
    <2>3. \A n \in SourceIds : IsTruth(source[n]) /\ VenueFits(source[n])
      BY DEF Inv, Shapes, TakerInv
    <2>4. /\ CopyFits(mem, source, hedges, OneShot) /\ IsStore(mem)
          /\ Sound(mem, source, hedges)
      BY CopiesAreGood DEF Good, Level, SoundCopies
    <2>5. Sound(s, source, hedges)
      BY <1>1, <1>4, <2>1, <2>3, <2>4, ReserveLevel
    <2>6. doing' = Doing("dispatch", 0) => BindsPlan'
      BY OtherStep
    <2> QED
      BY <1>1, <1>2, <2>2, <2>5, <2>6, LevelPersist
  <1> QED
    BY <1>3, <1>4

-----------------------------------------------------------------------------
(* The hedge leg                                                           *)

\* Going on with a plan there is.
LEMMA PlanStep ==
  ASSUME NEW i, mem'.intents[i].plan # <<>>, doing' = Doing("bind", i)
  PROVE  BindsPlan'
  BY DEF BindsPlan, Doing

\* A blocked intent keeps the books.
LEMMA SoundBlocked ==
  ASSUME Inv, Level, NEW i \in DOMAIN mem.intents
  PROVE  Sound(BlockHedgeIntent(mem, i), source, hedges)
  BY CopiesAreGood, BlockLevel DEF Good, Level, SoundCopies

\* The next intent gets its plan.
LEMMA LevelPlan ==
  ASSUME Inv, Level, SubmitNextPendingHedge
  PROVE  Level'
  <1>1. PICK i : i = NextPending(mem)
    OBVIOUS
  <1>2. PICK a : a = mem.intents[i]
    OBVIOUS
  <1>3. PICK plan, blocked, planned :
           /\ plan = PlanHedgeDelta(tickets, a.side, Remaining(a))
           /\ blocked = BlockHedgeIntent(mem, i)
           /\ planned = BindHedgePlan(mem, i, plan)
           /\ \/ i = 0 /\ Proceed(Idle)
              \/ i # 0 /\ a.plan # <<>> /\ Proceed(Doing("bind", i))
              \/ i # 0 /\ a.plan = <<>> /\ Persist(planned, planned, Doing("bind", i), 0)
              \/ i # 0 /\ Persist(blocked, blocked, Idle, 0)
    BY <1>1, <1>2 DEF SubmitNextPendingHedge
  <1>4. UNCHANGED <<source, hedges, tickets>>
    BY DEF SubmitNextPendingHedge, world
  <1>5. IsStore(mem) /\ Sound(mem, source, hedges)
    BY CopiesAreGood DEF Good, Level, SoundCopies
  <1>6. i # 0 => i \in DOMAIN mem.intents /\ a.status = "PENDING"
    BY <1>1, <1>2, <1>5, NextIsPending
  <1>7. doing' = Idle => BindsPlan'
    BY NoBinding DEF Idle
  <1>8. CASE Proceed(Idle)
    <2>1. UNCHANGED <<mem, disk, durable>> /\ doing' = Idle
      BY <1>8 DEF Proceed, store
    <2> QED
      BY <1>4, <1>7, <2>1, LevelStays
  <1>9. CASE i # 0 /\ a.plan # <<>> /\ Proceed(Doing("bind", i))
    <2>1. UNCHANGED <<mem, disk, durable>> /\ doing' = Doing("bind", i)
      BY <1>9 DEF Proceed, store
    <2>2. BindsPlan'
      BY <1>2, <1>9, <2>1, PlanStep
    <2> QED
      BY <1>4, <2>1, <2>2, LevelStays
  <1>10. CASE i # 0 /\ a.plan = <<>> /\ Persist(planned, planned, Doing("bind", i), 0)
    <2>1. i \in DOMAIN mem.intents /\ a.status = "PENDING"
      BY <1>6, <1>10
    <2>2. a.quantity \in Nat /\ Remaining(a) = a.quantity
      <3>1. LegsFit(a, i, hedges)
        BY <1>2, <1>5, <2>1 DEF Sound, IntentSound
      <3>2. a.quantity \in Nat /\ a.filled = 0
        BY <1>10, <3>1 DEF LegsFit
      <3> QED
        BY <3>2 DEF Remaining
    <2>3. FitsSide(plan, a.side) /\ Amount(plan) = a.quantity
      <3>1. PICK positions : positions = tickets
        OBVIOUS
      <3>2. positions \in [Tickets -> Int] /\ IsFiniteSet(Tickets) /\ Tickets \subseteq Nat
        BY <3>1, TakerAssumption DEF Level, Venues
      <3>3. /\ IsFiniteSet(DOMAIN positions) /\ DOMAIN positions \subseteq Nat
            /\ \A t \in DOMAIN positions : positions[t] \in Int
        BY <3>2
      <3>4. PICK side, quantity : side = a.side /\ quantity = a.quantity
        OBVIOUS
      <3>5. quantity \in Nat /\ plan = PlanHedgeDelta(positions, side, quantity)
        BY <1>3, <2>2, <3>1, <3>4
      <3>6. /\ FitsSide(PlanHedgeDelta(positions, side, quantity), side)
            /\ Amount(PlanHedgeDelta(positions, side, quantity)) = quantity
        BY <3>3, <3>5, PlanCovers
      <3> QED
        BY <3>4, <3>5, <3>6
    <2>4. \A h \in DOMAIN hedges : IsHedge(hedges[h])
      BY DEF Inv, Shapes
    <2>5. Sound(planned, source, hedges) /\ plan # <<>>
      BY <1>2, <1>3, <1>5, <1>10, <2>1, <2>3, <2>4, PlanLevel
    <2>6. planned.intents[i].plan = plan
      <3>1. planned.intents = [mem.intents EXCEPT ![i].plan = plan]
        BY <1>3, <1>5 DEF BindHedgePlan, IsStore, StoreFields
      <3>2. PICK b : b = [a EXCEPT !.plan = plan]
        OBVIOUS
      <3>3. planned.intents = [mem.intents EXCEPT ![i] = b]
        BY <1>2, <3>1, <3>2
      <3>4. planned.intents[i] = b
        BY <1>5, <2>1, <3>3, SeqExcept DEF IsStore
      <3>5. b.plan = plan
        BY <1>2, <1>5, <2>1, <3>2 DEF IsStore, IsIntent, IntentFields
      <3> QED
        BY <3>4, <3>5
    <2>7. doing' = Doing("bind", i) /\ mem' = planned => BindsPlan'
      BY <2>5, <2>6, PlanStep
    <2> QED
      BY <1>4, <1>10, <2>5, <2>7, LevelPersist
  <1>11. CASE i # 0 /\ Persist(blocked, blocked, Idle, 0)
    <2>1. Sound(blocked, source, hedges)
      BY <1>3, <1>6, <1>11, SoundBlocked
    <2> QED
      BY <1>4, <1>7, <1>11, <2>1, LevelPersist
  <1> QED
    BY <1>3, <1>8, <1>9, <1>10, <1>11

\* The leg the plan is at gets its order.
LEMMA LevelBind ==
  ASSUME Inv, StopInv, Level, BindNextLeg
  PROVE  Level'
  <1>1. PICK i : i = doing.intent
    OBVIOUS
  <1>2. PICK blocked, bound :
           /\ blocked = BlockHedgeIntent(mem, i) /\ bound = BindHedgeOrder(mem, i)
           /\ \/ Persist(bound, bound, Doing("submit hedge", i), 0)
              \/ Persist(blocked, blocked, Idle, 0)
    BY <1>1 DEF BindNextLeg
  <1>3. UNCHANGED <<source, hedges, tickets>> /\ doing.step = "bind"
    BY DEF BindNextLeg, world
  <1>4. i \in DOMAIN mem.intents /\ mem.intents[i].plan # <<>> /\ mem.intents[i].status = "PENDING"
    BY <1>1, <1>3 DEF Inv, TakerInv, DoingFits, Level, BindsPlan, StopInv
  <1>5. /\ IsStore(mem) /\ CopyFits(mem, source, hedges, OneShot)
        /\ Sound(mem, source, hedges)
    BY CopiesAreGood DEF Good, Level, SoundCopies
  <1>6. Sound(bound, source, hedges)
    BY <1>2, <1>4, <1>5, BindLevel
  <1>7. Sound(blocked, source, hedges)
    BY <1>2, <1>4, SoundBlocked
  <1>8. doing' = Doing("submit hedge", i) => BindsPlan'
    BY OtherStep
  <1>9. doing' = Idle => BindsPlan'
    BY NoBinding DEF Idle
  <1>10. CASE Persist(bound, bound, Doing("submit hedge", i), 0)
    BY <1>3, <1>6, <1>8, <1>10, LevelPersist
  <1>11. CASE Persist(blocked, blocked, Idle, 0)
    BY <1>3, <1>7, <1>9, <1>11, LevelPersist
  <1> QED
    BY <1>2, <1>10, <1>11

\* The events of a hedge order.
LEMMA LevelHedgeEvents ==
  ASSUME Inv, Level, NEW h \in DOMAIN hedges, NEW v \in {"REJECTED", "UNKNOWN"}, NEW k,
         OnHedgeAccepted(h) \/ OnHedgeRejected(h, v) \/ OnHedgeFilled(h, k)
  PROVE  Level'
  <1>1. /\ IsStore(mem) /\ CopyFits(mem, source, hedges, OneShot)
        /\ Sound(mem, source, hedges)
    BY CopiesAreGood DEF Good, Level, SoundCopies
  <1>2. UNCHANGED <<source, hedges, tickets>>
    BY DEF OnHedgeAccepted, OnHedgeRejected, OnHedgeFilled, world
  <1>3. doing' = Idle => BindsPlan'
    BY NoBinding DEF Idle
  <1>4. ASSUME NEW w \in {"ACCEPTED", "REJECTED", "UNKNOWN"}, NEW n, NEW s,
               s = UpdateHedgeStatus(mem, h, w), Persist(s, s, Idle, n)
        PROVE  Level'
    <2>1. Sound(s, source, hedges)
      BY <1>1, <1>4, HedgeStatusLevel
    <2> QED
      BY <1>2, <1>3, <1>4, <2>1, LevelPersist
  <1>5. CASE OnHedgeAccepted(h)
    <2>1. PICK s : s = UpdateHedgeStatus(mem, h, "ACCEPTED") /\ Persist(s, s, Idle, 0)
      BY <1>5 DEF OnHedgeAccepted
    <2> QED
      BY <1>4, <2>1
  <1>6. CASE OnHedgeRejected(h, v)
    <2>1. PICK s, n : s = UpdateHedgeStatus(mem, h, v) /\ Persist(s, s, Idle, n)
      BY <1>6 DEF OnHedgeRejected
    <2> QED
      BY <1>4, <2>1
  <1>7. CASE OnHedgeFilled(h, k)
    <2>1. PICK s : /\ s = ApplyHedgeFill(mem, <<h, k>>, hedges[h].fills[k])
                   /\ Proceed(Idle) \/ Persist(s, mem, Doing("dispatch", 0), 0)
      BY <1>7 DEF OnHedgeFilled
    <2>2. k \in DOMAIN hedges[h].fills /\ ExecutedFits(hedges[h])
      BY <1>7 DEF OnHedgeFilled, Level, Venues
    <2>3. Sound(s, source, hedges)
      BY <1>1, <2>1, <2>2, HedgeFillLevel
    <2>4. CASE Proceed(Idle)
      <3>1. UNCHANGED <<mem, disk, durable>> /\ doing' = Idle
        BY <2>4 DEF Proceed, store
      <3> QED
        BY <1>2, <1>3, <3>1, LevelStays
    <2>5. CASE Persist(s, mem, Doing("dispatch", 0), 0)
      <3>1. doing' = Doing("dispatch", 0) => BindsPlan'
        BY OtherStep
      <3> QED
        BY <1>2, <2>3, <2>5, <3>1, LevelPersist
    <2> QED
      BY <2>1, <2>4, <2>5
  <1> QED
    BY <1>5, <1>6, <1>7

\* submit_order of a leg, whether it raises or not.
LEMMA LevelSubmitHedge ==
  ASSUME Inv, Level, SubmitHedge
  PROVE  Level'
  <1>1. PICK i : i = doing.intent
    OBVIOUS
  <1>2. PICK a : a = mem.intents[i]
    OBVIOUS
  <1>3. PICK h : h = a.order
    OBVIOUS
  <1>4. PICK new : new = [state |-> "open", fill |-> a.fill, index |-> a.leg,
                          leg |-> a.plan[a.leg + 1], fills |-> <<>>]
    OBVIOUS
  <1>5. PICK s :
           /\ s = UpdateHedgeStatus(mem, h, "UNKNOWN")
           /\ \/ SentHedge(i) /\ Proceed(Idle)
              \/ Persist(s, s, Idle, 1) /\ (SentHedge(i) \/ UNCHANGED hedges)
    BY <1>1, <1>2, <1>3 DEF SubmitHedge
  <1>6. doing.step = "submit hedge" /\ UNCHANGED <<source, tickets>>
    BY DEF SubmitHedge
  <1>7. /\ disk = mem /\ durable = mem /\ i \in DOMAIN mem.intents
        /\ h \notin DOMAIN hedges \union {NoHedge}
    BY <1>1, <1>2, <1>3, <1>6 DEF Inv, TakerInv, DoingFits
  <1>8. /\ IsStore(mem) /\ CopyFits(mem, source, hedges, OneShot)
        /\ Sound(mem, source, hedges)
    BY CopiesAreGood DEF Good, Level, SoundCopies
  <1>9. Sound(s, source, hedges)
    BY <1>5, <1>8, HedgeStatusLevel
  <1>10. mem' \in {mem, s} /\ disk' \in {mem, s} /\ durable' \in {mem, s} /\ doing' = Idle
    BY <1>5, <1>7 DEF Persist, Proceed, store
  <1>11. BindsPlan'
    BY <1>10, NoBinding DEF Idle
  <1>12. CASE UNCHANGED hedges
    <2>1. Sound(mem', source, hedges) /\ Sound(disk', source, hedges) /\ Sound(durable', source, hedges)
      BY <1>8, <1>9, <1>10
    <2> QED
      BY <1>6, <1>11, <1>12, <2>1, LevelStep
  <1>13. CASE SentHedge(i)
    <2>1. hedges' = [g \in DOMAIN hedges \union {h} |-> IF g = h THEN new ELSE hedges[g]]
      BY <1>2, <1>3, <1>4, <1>13 DEF SentHedge
    <2>2. PICK v : v = hedges'
      OBVIOUS
    <2>3. /\ DOMAIN v = DOMAIN hedges \union {h} /\ v[h] = new
          /\ \A g \in DOMAIN hedges : v[g] = hedges[g]
      BY <1>7, <2>1, <2>2
    <2>4. new.index = a.leg /\ new.leg = a.plan[a.leg + 1] /\ new.fills = <<>>
      BY <1>4
    <2>5. Sound(mem, source, v)
      BY <1>2, <1>3, <1>7, <1>8, <2>3, <2>4, HedgeSendLevel
    <2>6. Sound(s, source, v)
      <3>1. CopyFits(s, source, hedges, OneShot)
        <4>1. \A j \in DOMAIN mem.intents : IntentFits(mem, j)
          BY <1>8 DEF CopyFits
        <4>2. StoreMoves(mem, s) /\ s.active = mem.active
          BY <1>5, <1>8, <4>1, HedgeStatusMoves
        <4>3. Good(mem)
          BY <1>8 DEF Good
        <4>4. Good(s)
          BY <4>2, <4>3, GoodMoves
        <4> QED
          BY <4>4 DEF Good
      <3>2. PICK b : b = s.intents[i]
        OBVIOUS
      <3>3. i \in DOMAIN s.intents /\ b.order = h /\ b.leg = a.leg /\ b.plan = a.plan
        <4>1. CASE IntentOf(mem, h) = 0 \/ mem.intents[IntentOf(mem, h)].status \in Failed
          <5>1. s = mem
            BY <1>5, <4>1 DEF UpdateHedgeStatus
          <5> QED
            BY <1>2, <1>3, <1>7, <3>2, <5>1
        <4>2. CASE ~(IntentOf(mem, h) = 0 \/ mem.intents[IntentOf(mem, h)].status \in Failed)
          <5>1. PICK n : n = IntentOf(mem, h)
            OBVIOUS
          <5>2. n \in DOMAIN mem.intents
            <6>1. \A j \in DOMAIN mem.intents : IntentFits(mem, j)
              BY <1>8 DEF CopyFits
            <6> QED
              BY <4>2, <5>1, <6>1, IntentOfFits
          <5>3. PICK c : c = [mem.intents[n] EXCEPT !.status = "UNKNOWN"]
            OBVIOUS
          <5>4. s.intents = [mem.intents EXCEPT ![n] = c]
            BY <1>5, <1>8, <4>2, <5>1, <5>3 DEF UpdateHedgeStatus, IsStore, StoreFields
          <5>5. IsIntent(mem.intents[n]) /\ IsSeq(mem.intents)
            BY <1>8, <5>2 DEF IsStore
          <5>6. StandsAs(mem.intents[n], c)
            BY <5>3, <5>5, StatusStands
          <5>7. /\ DOMAIN s.intents = DOMAIN mem.intents /\ s.intents[n] = c
                /\ \A j \in DOMAIN mem.intents : j # n => s.intents[j] = mem.intents[j]
            BY <5>2, <5>4, <5>5, SeqExcept
          <5> QED
            BY <1>2, <1>3, <1>7, <3>2, <5>6, <5>7 DEF StandsAs
        <4> QED
          BY <4>1, <4>2
      <3> QED
        BY <1>7, <1>9, <2>3, <2>4, <3>1, <3>2, <3>3, HedgeSendLevel
    <2>7. SoundCopies'
      BY <1>6, <1>10, <2>2, <2>5, <2>6 DEF SoundCopies
    <2>8. Venues'
      <3>1. IsFiniteSet(DOMAIN v)
        BY <2>3, FS_AddElement DEF Level, Venues
      <3>2. \A g \in DOMAIN v : ExecutedFits(v[g])
        BY <2>3, <2>4 DEF Level, Venues, ExecutedFits
      <3> QED
        BY <1>6, <2>2, <3>1, <3>2 DEF Level, Venues
    <2> QED
      BY <1>11, <2>7, <2>8 DEF Level
  <1> QED
    BY <1>5, <1>12, <1>13

-----------------------------------------------------------------------------
(* The venues                                                              *)

\* A step of the source venue that keeps the trades it made.
LEMMA LevelTruth ==
  ASSUME Inv, Level, NEW o \in SourceIds, source[o].state = "open",
         NEW truth, truth.side = source[o].side,
         \A k \in DOMAIN source[o].fills : truth.fills[k] = source[o].fills[k],
         source' = [source EXCEPT ![o] = truth],
         UNCHANGED <<mem, disk, durable, doing, hedges, tickets>>
  PROVE  Level'
  <1>1. PICK v : v = source'
    OBVIOUS
  <1>2. \A n \in SourceIds : v[n] = IF n = o THEN truth ELSE source[n]
    BY <1>1 DEF Inv, Shapes
  <1>3. ASSUME NEW s, CopyFits(s, source, hedges, OneShot), Sound(s, source, hedges)
        PROVE  Sound(s, v, hedges)
    <2>1. source[o].state # "absent"
      OBVIOUS
    <2> QED
      BY <1>2, <1>3, <2>1, TruthLevel
  <1>4. Sound(mem, v, hedges) /\ Sound(disk, v, hedges) /\ Sound(durable, v, hedges)
    BY <1>3, CopiesAreGood DEF Good, Level, SoundCopies
  <1>5. SoundCopies'
    BY <1>1, <1>4 DEF SoundCopies
  <1>6. Venues'
    BY <1>1, <1>2 DEF Level, Venues
  <1>7. BindsPlan'
    BY DEF Level, BindsPlan
  <1> QED
    BY <1>5, <1>6, <1>7 DEF Level

\* A trade of the source order at the venue.
LEMMA LevelTrade ==
  ASSUME Inv, Level, NEW o \in SourceIds, NEW quantity \in Fills, SourceTrades(o, quantity)
  PROVE  Level'
  <1>1. PICK total, state : source' = [source EXCEPT ![o].fills = Append(@, quantity),
                                       ![o].filled = total, ![o].state = state]
    BY DEF SourceTrades
  <1>2. /\ source[o].state = "open"
        /\ UNCHANGED <<mem, disk, durable, doing, hedges, tickets>>
    BY DEF SourceTrades, store, process
  <1>3. IsTruth(source[o]) /\ DOMAIN source = SourceIds
    BY DEF Inv, Shapes
  <1>4. PICK was : was = source[o]
    OBVIOUS
  <1> DEFINE truth == [[[was EXCEPT !.fills = Append(@, quantity)] EXCEPT !.filled = total]
                          EXCEPT !.state = state]
  <1>5. source' = [source EXCEPT ![o] = truth]
    BY <1>1, <1>3, <1>4 DEF IsTruth
  <1>6. truth.side = was.side /\ truth.fills = Append(was.fills, quantity)
    BY <1>3, <1>4 DEF IsTruth
  <1>7. \A k \in DOMAIN was.fills : Append(was.fills, quantity)[k] = was.fills[k]
    BY <1>3, <1>4, Appended DEF IsTruth
  <1>8. PICK now : now = truth
    OBVIOUS
  <1> HIDE DEF truth
  <1>9. /\ now.side = source[o].side /\ source' = [source EXCEPT ![o] = now]
        /\ \A k \in DOMAIN source[o].fills : now.fills[k] = source[o].fills[k]
    BY <1>4, <1>5, <1>6, <1>7, <1>8
  <1> QED
    BY <1>2, <1>9, LevelTruth

\* The source order ends at the venue.
LEMMA LevelEnd ==
  ASSUME Inv, Level, NEW o \in SourceIds, NEW state, SourceEnds(o, state)
  PROVE  Level'
  <1>1. PICK truth : truth = [source[o] EXCEPT !.state = state]
    OBVIOUS
  <1>2. /\ source[o].state = "open" /\ source' = [source EXCEPT ![o] = truth]
        /\ UNCHANGED <<mem, disk, durable, doing, hedges, tickets>>
    BY <1>1 DEF SourceEnds, store, process
  <1>3. IsTruth(source[o])
    BY DEF Inv, Shapes
  <1>4. truth.side = source[o].side /\ truth.fills = source[o].fills
    BY <1>1, <1>3 DEF IsTruth
  <1> QED
    BY <1>2, <1>4, LevelTruth

\* What went out is a leg: some ounces, on one side.
LEMMA LegOut ==
  ASSUME NEW s, NEW src, NEW sent, NEW once, Sound(s, src, sent), CopyFits(s, src, sent, once),
         NEW h \in DOMAIN sent, IsHedge(sent[h])
  PROVE  /\ h[1] \in DOMAIN s.intents /\ sent[h].leg.side = s.intents[h[1]].side
         /\ sent[h].leg.side \in Sides /\ sent[h].leg.quantity \in Nat
         /\ sent[h].index + 1 \in DOMAIN s.intents[h[1]].plan
         /\ sent[h].leg = s.intents[h[1]].plan[sent[h].index + 1]
  <1>1. PICK i : i = h[1]
    OBVIOUS
  <1>2. i \in DOMAIN s.intents
    BY <1>1 DEF CopyFits, HedgeFits
  <1>3. PICK a : a = s.intents[i]
    OBVIOUS
  <1>4. LegsFit(a, i, sent) /\ IsSeq(a.plan) /\ SentFits(a, h, sent)
    BY <1>1, <1>2, <1>3 DEF Sound, IntentSound
  <1>5. PICK n : n = sent[h].index
    OBVIOUS
  <1>6. n \in Nat /\ n < Len(a.plan) /\ sent[h].leg = a.plan[n + 1]
    BY <1>4, <1>5 DEF IsHedge, SentFits
  <1>7. Len(a.plan) \in Nat /\ DOMAIN a.plan = 1 .. Len(a.plan)
    BY <1>4, SeqFacts
  <1>8. n + 1 \in DOMAIN a.plan /\ a.plan # <<>>
    <2>1. n + 1 \in DOMAIN a.plan
      BY <1>6, <1>7
    <2> QED
      BY <2>1
  <1>9. PlanFits(a) /\ a.side \in Sides
    BY <1>4, <1>8 DEF LegsFit
  <1>10. a.plan[n + 1].side = a.side /\ a.plan[n + 1].quantity \in Nat
    BY <1>8, <1>9 DEF PlanFits
  <1> QED
    BY <1>1, <1>2, <1>3, <1>5, <1>6, <1>8, <1>9, <1>10

\* The broker decides on an order that was open: it is executed or not.
LEMMA LevelDecided ==
  ASSUME Inv, StopInv, Level, NEW h \in DOMAIN hedges, HedgeExecutes(h) \/ HedgeIsRejected(h)
  PROVE  Level'
  <1>1. /\ UNCHANGED <<mem, disk, durable, doing, source>> /\ hedges[h].state = "open"
    BY DEF HedgeExecutes, HedgeIsRejected, store, process
  <1>2. IsHedge(hedges[h]) /\ hedges[h].fills = <<>>
    BY <1>1 DEF Inv, Shapes, StopInv
  <1>3. /\ hedges[h].leg.side \in Sides /\ hedges[h].leg.quantity \in Nat
    <2>1. CopyFits(mem, source, hedges, OneShot) /\ Sound(mem, source, hedges)
      BY CopiesAreGood DEF Good, Level, SoundCopies
    <2> QED
      BY <1>2, <2>1, LegOut
  <1>4. PICK q, was : q = hedges[h].leg.quantity /\ was = hedges[h]
    OBVIOUS
  <1>5. PICK new : /\ hedges' = [hedges EXCEPT ![h] = new] /\ new.index = was.index
                   /\ new.leg = was.leg /\ ExecutedFits(new)
    <2>1. CASE HedgeExecutes(h)
      <3>1. PICK part \in 1 .. q :
               hedges' = [hedges EXCEPT
                   ![h].state = "executed",
                   ![h].fills = IF part = q THEN <<part>> ELSE <<part, q - part>>]
        BY <1>4, <2>1 DEF HedgeExecutes
      <3>2. PICK fills : fills = IF part = q THEN <<part>> ELSE <<part, q - part>>
        OBVIOUS
      <3> DEFINE new == [[was EXCEPT !.state = "executed"] EXCEPT !.fills = fills]
      <3>3. hedges' = [hedges EXCEPT ![h] = new]
        BY <1>4, <3>1, <3>2
      <3>4. new.index = was.index /\ new.leg = was.leg /\ new.fills = fills
        BY <1>2, <1>4 DEF IsHedge
      <3> HIDE DEF new
      <3>5. new.leg.quantity = q /\ q \in Nat
        BY <1>3, <1>4, <3>4
      <3>6. ExecutedFits(new)
        <4>1. CASE part = q
          BY <3>2, <3>4, <3>5, <4>1 DEF ExecutedFits
        <4>2. CASE part # q
          <5>1. part \in 1 .. q - 1
            BY <3>5, <4>2
          <5> QED
            BY <3>2, <3>4, <3>5, <4>2, <5>1 DEF ExecutedFits
        <4> QED
          BY <4>1, <4>2
      <3> QED
        BY <3>3, <3>4, <3>6
    <2>2. CASE HedgeIsRejected(h)
      <3>1. PICK new : new = [was EXCEPT !.state = "rejected"]
        OBVIOUS
      <3>2. hedges' = [hedges EXCEPT ![h] = new]
        BY <1>4, <2>2, <3>1 DEF HedgeIsRejected
      <3>3. new.index = was.index /\ new.leg = was.leg /\ new.fills = <<>>
        BY <1>2, <1>4, <3>1 DEF IsHedge
      <3> QED
        BY <3>2, <3>3 DEF ExecutedFits
    <2> QED
      BY <2>1, <2>2
  <1>6. PICK v : v = hedges'
    OBVIOUS
  <1>7. /\ DOMAIN v = DOMAIN hedges /\ v[h] = new
        /\ \A g \in DOMAIN hedges : g # h => v[g] = hedges[g]
    BY <1>5, <1>6
  <1>8. SentMoves(hedges, v)
    BY <1>2, <1>4, <1>5, <1>7 DEF SentMoves
  <1>9. Sound(mem, source, v) /\ Sound(disk, source, v) /\ Sound(durable, source, v)
    BY <1>8, SentMovesLevel DEF Level, SoundCopies
  <1>10. SoundCopies'
    BY <1>1, <1>6, <1>9 DEF SoundCopies
  <1>11. tickets' \in [Tickets -> Int]
    <2>1. CASE HedgeIsRejected(h)
      BY <2>1 DEF HedgeIsRejected, Level, Venues
    <2>2. CASE HedgeExecutes(h)
      <3>1. PICK t : tickets' = [tickets EXCEPT ![t] = @ + hedges[h].leg.side * hedges[h].leg.quantity]
        BY <2>2 DEF HedgeExecutes
      <3>2. PICK d : d = hedges[h].leg.side * hedges[h].leg.quantity
        OBVIOUS
      <3>3. d \in Int
        BY <1>3, <3>2 DEF Sides
      <3>4. PICK f, g : f = tickets /\ g = tickets'
        OBVIOUS
      <3>5. f \in [Tickets -> Int] /\ g = [f EXCEPT ![t] = @ + d]
        BY <3>1, <3>2, <3>4 DEF Level, Venues
      <3>6. g \in [Tickets -> Int]
        <4>1. CASE t \in Tickets
          <5>1. PICK e : e = f[t] + d
            OBVIOUS
          <5>2. e \in Int /\ g = [f EXCEPT ![t] = e]
            BY <3>3, <3>5, <4>1, <5>1
          <5>3. f \in [Tickets -> Int]
            BY <3>5
          <5> QED
            BY <5>2, <5>3, TicketMoves
        <4>2. CASE t \notin Tickets
          <5>1. g = f
            BY <3>5, <4>2
          <5> QED
            BY <3>5, <5>1
        <4> QED
          BY <4>1, <4>2
      <3> QED
        BY <3>4, <3>6
    <2> QED
      BY <2>1, <2>2
  <1>12. Venues'
    <2>1. \A g \in DOMAIN v : ExecutedFits(v[g])
      BY <1>5, <1>7 DEF Level, Venues
    <2> QED
      BY <1>1, <1>6, <1>7, <1>11, <2>1 DEF Level, Venues
  <1>13. BindsPlan'
    BY <1>1 DEF Level, BindsPlan
  <1> QED
    BY <1>10, <1>12, <1>13 DEF Level

\* The store starts empty, and so do the books.
LEMMA LevelInit ==
  ASSUME Init
  PROVE  Level
  <1>1. /\ mem = EmptyStore /\ disk = EmptyStore /\ durable = EmptyStore /\ hedges = <<>>
        /\ doing = Idle /\ source = [o \in SourceIds |-> Absent] /\ tickets \in Positions
    BY DEF Init
  <1>2. PICK s : s = EmptyStore
    OBVIOUS
  <1>3. /\ s.orders = <<>> /\ s.seenSource = {} /\ s.intents = <<>> /\ s.residual = 0
    BY <1>2 DEF EmptyStore
  <1>4. BooksFit(s, source)
    <2>1. SeenOf(s, source) = 0
      BY <1>3, SumOfNothing DEF SeenOf
    <2>2. Obliged(s) = 0
      BY <1>3, SumOfNothing DEF Obliged
    <2>3. Unit * 0 = 0
      BY UnitIs
    <2>4. IsFiniteSet({})
      BY FS_EmptySet
    <2>5. 2 * Size(0) <= Unit
      BY UnitIs DEF Size
    <2> QED
      BY <1>3, <2>1, <2>2, <2>3, <2>4, <2>5 DEF BooksFit
  <1>5. Sound(s, source, hedges)
    BY <1>3, <1>4 DEF Sound, SidesFit
  <1>6. SoundCopies
    BY <1>1, <1>2, <1>5 DEF SoundCopies
  <1>7. Venues
    <2>1. DOMAIN hedges = {}
      BY <1>1
    <2>2. \A o \in SourceIds : source[o].side \in Sides
      BY <1>1 DEF Absent, Sides
    <2>3. tickets \in [Tickets -> Int]
      BY <1>1, TakerAssumption
    <2> QED
      BY <2>1, <2>2, <2>3, FS_EmptySet DEF Venues
  <1>8. BindsPlan
    BY <1>1 DEF BindsPlan, Idle
  <1> QED
    BY <1>6, <1>7, <1>8 DEF Level

\* Every step keeps the books.
LEMMA LevelSteps ==
  ASSUME Inv, StopInv, Level, [Next]_vars
  PROVE  Level'
  <1>1. CASE OnStart \/ OnStop \/ Crash
    BY <1>1, LevelStart, LevelStop, LevelCrash
  <1>2. CASE ReconcileStartup \/ ArmOneShot \/ DisarmOneShot \/ BeginDrain \/ TicketDrifts
    BY <1>2, LevelControl, LevelDrift
  <1>3. CASE \E side \in Sides, quantity \in Quantities : EvaluateAndSubmit(side, quantity)
    BY <1>3, LevelEvaluate
  <1>4. CASE SubmitSource \/ RequestSourceTerminalQuery
    BY <1>4, LevelSubmit, LevelQuiet
  <1>5. ASSUME NEW o \in SourceIds,
               \/ OnSourceAccepted(o) \/ OnSourceRejected(o) \/ OnSourceUnknown(o)
               \/ OnSourceTerminal(o) \/ CompleteSourceTerminalQuery(o)
               \/ \E k \in 1 .. MaxTrades : OnSourceFilled(o, k)
               \/ \E quantity \in Fills : SourceTrades(o, quantity)
               \/ \E state \in {"CANCELED", "EXPIRED", "REJECTED", "DENIED"} : SourceEnds(o, state)
        PROVE  Level'
    BY <1>5, LevelSourceEvents, LevelReport, LevelSourceFilled, LevelTrade, LevelEnd
  <1>6. CASE \/ OnQuoteTick \/ QuoteIsStale \/ SubmitNextPendingHedge \/ BindNextLeg
             \/ SubmitHedge
    BY <1>6, LevelQuiet, LevelPlan, LevelBind, LevelSubmitHedge
  <1>7. ASSUME NEW h \in DOMAIN hedges,
               \/ OnHedgeAccepted(h)
               \/ \E status \in {"REJECTED", "UNKNOWN"} : OnHedgeRejected(h, status)
               \/ \E k \in 1 .. 2 : OnHedgeFilled(h, k)
               \/ HedgeExecutes(h) \/ HedgeIsRejected(h)
        PROVE  Level'
    <2>1. CASE HedgeExecutes(h) \/ HedgeIsRejected(h)
      BY <2>1, LevelDecided
    <2>2. ASSUME NEW status \in {"REJECTED", "UNKNOWN"}, NEW k,
                 OnHedgeAccepted(h) \/ OnHedgeRejected(h, status) \/ OnHedgeFilled(h, k)
          PROVE  Level'
      BY <2>2, LevelHedgeEvents
    <2> QED
      BY <1>7, <2>1, <2>2
  <1>8. CASE UNCHANGED vars
    BY <1>8, LevelUnchanged
  <1> QED
    BY <1>1, <1>2, <1>3, <1>4, <1>5, <1>6, <1>7, <1>8 DEF Next

\* The three invariants together.
LEMMA BooksAreKept == Spec => [](Inv /\ StopInv /\ Level)
  <1>1. Init => Inv /\ StopInv /\ EngineShape /\ Level
    BY Starts, StopStarts, LevelInit
  <1>2. Inv /\ StopInv /\ EngineShape /\ Level /\ [Next]_vars
           => (Inv /\ StopInv /\ EngineShape /\ Level)'
    BY Steps, StopSteps, EngineStays, LevelSteps
  <1> QED
    BY <1>1, <1>2, PTL DEF Spec

\* Sound copies keep the books.
LEMMA SoundBooks ==
  ASSUME Level
  PROVE  FillsAccounted
  <1> SUFFICES ASSUME NEW s \in {mem, disk, durable}
               PROVE  /\ SeenExposure(s) = s.residual - Unit * Obliged(s)
                      /\ 2 * Size(s.residual) <= Unit
    BY DEF FillsAccounted
  <1>1. BooksFit(s, source)
    BY DEF Level, SoundCopies, Sound
  <1>2. SeenExposure(s) = SeenOf(s, source)
    BY DEF SeenExposure, SeenOf
  <1> QED
    BY <1>1, <1>2 DEF BooksFit

(* Each copy of the store keeps the books, and each intent stands at a leg *)
(* of a plan that covers it, the legs before it executed                   *)
(* (reserve_source_fill, bind_hedge_plan, record_hedge_fill).              *)
THEOREM BooksFitVenues == Spec => []LevelInv
  <1>1. Inv /\ StopInv /\ Level => LevelInv
    <2> SUFFICES ASSUME Inv, StopInv, Level PROVE LevelInv
      OBVIOUS
    <2>1. ASSUME NEW s \in {mem, disk, durable}
          PROVE  /\ SidesFit(s, source)
                 /\ \A i \in DOMAIN s.intents : LegsFit(s.intents[i], i, hedges)
                 /\ \A h \in DOMAIN hedges : SentFits(s.intents[h[1]], h, hedges)
      <3>1. Sound(s, source, hedges) /\ CopyFits(s, source, hedges, OneShot)
        BY CopiesSettle DEF Level, SoundCopies
      <3>2. \A h \in DOMAIN hedges : h[1] \in DOMAIN s.intents
        BY <3>1 DEF CopyFits, HedgeFits
      <3> QED
        BY <3>1, <3>2 DEF Sound, IntentSound
    <2>2. \A h \in DOMAIN hedges : ExecutedFits(hedges[h])
      BY DEF Level, Venues
    <2>3. tickets \in [Tickets -> Int]
      BY DEF Level, Venues
    <2>4. doing.step = "bind" => mem.intents[doing.intent].plan # <<>>
      BY DEF Level, BindsPlan
    <2> QED
      BY <2>1, <2>2, <2>3, <2>4, SoundBooks DEF LevelInv
  <1> QED
    BY <1>1, BooksAreKept, PTL

(* Every fill is in the books exactly once, in memory and in both files:   *)
(* as part of an intent, or of a residual of at most half an ounce         *)
(* (reserve_source_fill and its rollback).                                 *)
THEOREM BooksAreExact == Spec => []FillsAccounted
  BY BooksAreKept, SoundBooks, PTL

\* A copy that has seen every trade has seen the exposure of the source venue.
LEMMA AllSeen ==
  ASSUME NEW s, NEW src, NEW sent, NEW once, Sound(s, src, sent), CopyFits(s, src, sent, once),
         \A o \in SourceIds : IsTruth(src[o]) /\ VenueFits(src[o]) /\ src[o].side \in Sides,
         \A o \in SourceIds : \A k \in DOMAIN src[o].fills : <<o, k>> \in s.seenSource
  PROVE  SumFunction([o \in SourceIds |-> src[o].side * SumFunction(src[o].fills)])
           = SeenOf(s, src)
  <1>1. PICK v : v = [f \in s.seenSource |-> src[f[1]].side * src[f[1]].fills[f[2]]]
    OBVIOUS
  <1>2. PICK a : a = [o \in SourceIds |-> src[o].side]
    OBVIOUS
  <1>3. PICK q : q = [o \in SourceIds |-> src[o].fills]
    OBVIOUS
  <1>4. PICK c : c = [f \in s.seenSource |-> f[2]]
    OBVIOUS
  <1>5. ASSUME NEW f \in s.seenSource
        PROVE  /\ f = <<f[1], f[2]>> /\ f[1] \in SourceIds /\ f[2] \in DOMAIN src[f[1]].fills
    BY DEF CopyFits
  <1>6. DOMAIN v = s.seenSource /\ DOMAIN a = SourceIds /\ DOMAIN q = SourceIds
    BY <1>1, <1>2, <1>3
  <1>7. IsTable(v, a, q, c)
    <2>1. \A o \in DOMAIN q : a[o] \in Sides
      BY <1>2, <1>6
    <2>2. \A f \in DOMAIN v : /\ f[1] \in DOMAIN q /\ c[f] \in DOMAIN q[f[1]]
                              /\ v[f] = a[f[1]] * q[f[1]][c[f]]
      BY <1>1, <1>2, <1>3, <1>4, <1>5, <1>6
    <2>3. \A f, g \in DOMAIN v : f[1] = g[1] /\ c[f] = c[g] => f = g
      BY <1>4, <1>5, <1>6
    <2>4. ASSUME NEW o \in DOMAIN q, NEW k \in DOMAIN q[o]
          PROVE  \E f \in DOMAIN v : f[1] = o /\ c[f] = k
      <3>1. PICK f : f = <<o, k>>
        OBVIOUS
      <3>2. f \in s.seenSource /\ f[1] = o /\ f[2] = k
        BY <1>3, <1>6, <3>1
      <3> QED
        BY <1>4, <1>6, <3>2
    <2> QED
      BY <1>6, <2>1, <2>2, <2>3, <2>4 DEF IsTable
  <1>8. \A o \in DOMAIN q : IsSummed(q[o])
    <2> SUFFICES ASSUME NEW o \in SourceIds PROVE IsSummed(src[o].fills)
      BY <1>3, <1>6
    <2>1. PICK w : w = src[o].fills
      OBVIOUS
    <2>2. IsSeq(w) /\ \A k \in DOMAIN w : w[k] \in Nat
      BY <2>1 DEF IsTruth
    <2>3. Len(w) \in Nat /\ DOMAIN w = 1 .. Len(w)
      BY <2>2, SeqFacts
    <2>4. IsFiniteSet(DOMAIN w)
      BY <2>3, FS_Interval
    <2> QED
      BY <2>1, <2>2, <2>4 DEF IsSummed
  <1>9. IsFiniteSet(DOMAIN v) /\ IsFiniteSet(DOMAIN q)
    <2>1. IsFiniteSet(s.seenSource)
      BY DEF Sound, BooksFit
    <2>2. IsFiniteSet(SourceIds)
      BY TakerAssumption, FS_Interval DEF SourceIds
    <2> QED
      BY <1>6, <2>1, <2>2
  <1>10. SumFunction(v) = SumFunction([o \in DOMAIN q |-> a[o] * SumFunction(q[o])])
    BY <1>7, <1>8, <1>9, TableSums
  <1>11. [o \in DOMAIN q |-> a[o] * SumFunction(q[o])]
           = [o \in SourceIds |-> src[o].side * SumFunction(src[o].fills)]
    BY <1>2, <1>3, <1>6
  <1>12. SeenOf(s, src) = SumFunction(v)
    BY <1>1 DEF SeenOf
  <1> QED
    BY <1>10, <1>11, <1>12

\* Two orders for one leg of one intent are one order.
LEMMA OneOrderPerLeg ==
  ASSUME LegSentOnce, NEW s, NEW src, NEW once, CopyFits(s, src, hedges, once),
         NEW g \in DOMAIN hedges, NEW h \in DOMAIN hedges,
         g[1] = h[1], hedges[g].index = hedges[h].index
  PROVE  g = h
  <1>1. hedges[g].fill = s.intents[g[1]].fill /\ hedges[h].fill = s.intents[h[1]].fill
    BY DEF CopyFits, HedgeFits
  <1> QED
    BY <1>1 DEF LegSentOnce

\* Leg n of the plan of intent i was executed at once, by order h.
Executed(s, i, n, h) ==
    /\ h \in DOMAIN hedges /\ h[1] = i /\ hedges[h].index = n - 1
    /\ hedges[h].fills = <<s.intents[i].plan[n].quantity>>

\* Each leg of a completed intent was executed as planned, and nothing else.
LEMMA LegExecuted ==
  ASSUME LegSentOnce, NEW s, NEW src, NEW once, Sound(s, src, hedges),
         CopyFits(s, src, hedges, once), AllCompleted(s), NEW i \in DOMAIN s.intents,
         NEW n \in DOMAIN s.intents[i].plan
  PROVE  \E h : Executed(s, i, n, h)
  <1>1. PICK a : a = s.intents[i]
    OBVIOUS
  <1>2. a.status = "COMPLETED"
    BY <1>1 DEF AllCompleted
  <1>3. LegsFit(a, i, hedges) /\ IsSeq(a.plan)
    BY <1>1 DEF Sound, IntentSound
  <1>4. a.leg = Len(a.plan)
    BY <1>2, <1>3 DEF LegsFit
  <1>5. n \in 1 .. a.leg
    BY <1>1, <1>3, <1>4, SeqFacts
  <1>6. \A j \in 1 .. a.leg : \E h \in DOMAIN hedges :
           h[1] = i /\ hedges[h].index = j - 1 /\ hedges[h].fills = <<a.plan[j].quantity>>
    BY <1>3 DEF LegsFit
  <1> QED
    BY <1>1, <1>5, <1>6 DEF Executed

\* An order that went out for a completed intent was executed for what its leg was.
LEMMA SentExecuted ==
  ASSUME LegSentOnce, NEW s, NEW src, NEW once, Sound(s, src, hedges),
         CopyFits(s, src, hedges, once), AllCompleted(s), NEW h \in DOMAIN hedges,
         IsHedge(hedges[h])
  PROVE  /\ hedges[h].leg.side = s.intents[h[1]].side
         /\ SumFunction(hedges[h].fills)
              = s.intents[h[1]].plan[hedges[h].index + 1].quantity
  <1>1. PICK i, n : i = h[1] /\ n = hedges[h].index + 1
    OBVIOUS
  <1>2. /\ i \in DOMAIN s.intents /\ hedges[h].leg.side = s.intents[i].side
        /\ n \in DOMAIN s.intents[i].plan /\ hedges[h].leg = s.intents[i].plan[n]
        /\ hedges[h].leg.quantity \in Nat
    BY <1>1, LegOut
  <1>3. PICK g \in DOMAIN hedges :
           /\ g[1] = i /\ hedges[g].index = n - 1
           /\ hedges[g].fills = <<s.intents[i].plan[n].quantity>>
    <2>1. \E g : Executed(s, i, n, g)
      BY <1>2, LegExecuted
    <2> QED
      BY <2>1 DEF Executed
  <1>4. hedges[g].index = hedges[h].index
    BY <1>1, <1>3 DEF IsHedge
  <1>5. g = h
    BY <1>1, <1>3, <1>4, OneOrderPerLeg
  <1>6. PICK x : x = s.intents[i].plan[n].quantity
    OBVIOUS
  <1>7. x \in Int
    BY <1>2, <1>6
  <1>8. PICK q : q = hedges[h].fills
    OBVIOUS
  <1>9. q = <<x>>
    BY <1>3, <1>5, <1>6, <1>8
  <1>10. SumFunction(q) = x
    BY <1>7, <1>9, SumOfOne
  <1> QED
    BY <1>1, <1>2, <1>6, <1>8, <1>10

\* Where every intent is completed, what was executed is what was owed.
LEMMA AllSent ==
  ASSUME LegSentOnce, NEW s, NEW src, NEW once, Sound(s, src, hedges), IsStore(s),
         CopyFits(s, src, hedges, once), AllCompleted(s),
         \A h \in DOMAIN hedges : IsHedge(hedges[h]), IsFiniteSet(DOMAIN hedges)
  PROVE  HedgeExposure = Obliged(s) /\ Obliged(s) \in Int
  <1>1. PICK v : v = [h \in DOMAIN hedges |-> hedges[h].leg.side * SumFunction(hedges[h].fills)]
    OBVIOUS
  <1>2. PICK a : a = [i \in DOMAIN s.intents |-> s.intents[i].side]
    OBVIOUS
  <1>3. PICK q : q = [i \in DOMAIN s.intents |->
                         [n \in DOMAIN s.intents[i].plan |-> s.intents[i].plan[n].quantity]]
    OBVIOUS
  <1>4. PICK c : c = [h \in DOMAIN hedges |-> hedges[h].index + 1]
    OBVIOUS
  <1>5. DOMAIN v = DOMAIN hedges /\ DOMAIN a = DOMAIN s.intents /\ DOMAIN q = DOMAIN s.intents
    BY <1>1, <1>2, <1>3
  <1>6. ASSUME NEW i \in DOMAIN s.intents
        PROVE  /\ s.intents[i].side \in Sides /\ s.intents[i].quantity \in Nat
               /\ SumFunction(q[i]) = s.intents[i].quantity /\ IsSummed(q[i])
    <2>1. PICK b : b = s.intents[i]
      OBVIOUS
    <2>2. LegsFit(b, i, hedges) /\ IsSeq(b.plan) /\ b.status = "COMPLETED"
      BY <2>1 DEF Sound, IntentSound, AllCompleted
    <2>3. b.plan # <<>> /\ b.side \in Sides /\ b.quantity \in Nat
      BY <2>2 DEF LegsFit
    <2>4. PlanFits(b)
      BY <2>2, <2>3 DEF LegsFit
    <2>5. PICK y : y = [n \in DOMAIN b.plan |-> b.plan[n].quantity]
      OBVIOUS
    <2>6. q[i] = y
      BY <1>3, <2>1, <2>5
    <2>7. SumFunction(y) = b.quantity
      BY <2>4, <2>5 DEF PlanFits
    <2>8. IsSummed(y)
      <3>1. Len(b.plan) \in Nat /\ DOMAIN b.plan = 1 .. Len(b.plan)
        BY <2>2, SeqFacts
      <3>2. IsFiniteSet(DOMAIN y)
        BY <2>5, <3>1, FS_Interval
      <3>3. \A n \in DOMAIN y : y[n] \in Int
        BY <2>4, <2>5 DEF PlanFits
      <3> QED
        BY <3>2, <3>3 DEF IsSummed
    <2> QED
      BY <2>1, <2>3, <2>6, <2>7, <2>8
  <1>7. IsTable(v, a, q, c)
    <2>1. \A i \in DOMAIN q : a[i] \in Sides
      BY <1>2, <1>5, <1>6
    <2>2. ASSUME NEW h \in DOMAIN v
          PROVE  h[1] \in DOMAIN q /\ c[h] \in DOMAIN q[h[1]] /\ v[h] = a[h[1]] * q[h[1]][c[h]]
      <3>1. PICK i, n : i = h[1] /\ n = hedges[h].index + 1
        OBVIOUS
      <3>2. i \in DOMAIN s.intents /\ n \in DOMAIN s.intents[i].plan
        BY <1>5, <3>1, LegOut
      <3>3. /\ hedges[h].leg.side = s.intents[i].side
            /\ SumFunction(hedges[h].fills) = s.intents[i].plan[n].quantity
        BY <1>5, <3>1, SentExecuted
      <3>4. c[h] = n
        BY <1>4, <1>5, <3>1
      <3>5. n \in DOMAIN q[i] /\ q[i][n] = s.intents[i].plan[n].quantity
        BY <1>3, <3>2
      <3>6. a[i] = s.intents[i].side
        BY <1>2, <3>2
      <3>7. v[h] = hedges[h].leg.side * SumFunction(hedges[h].fills)
        BY <1>1, <1>5
      <3> QED
        BY <1>5, <3>1, <3>2, <3>3, <3>4, <3>5, <3>6, <3>7
    <2>3. ASSUME NEW g \in DOMAIN v, NEW h \in DOMAIN v, g[1] = h[1], c[g] = c[h]
          PROVE  g = h
      <3>1. hedges[g].index + 1 = hedges[h].index + 1
        BY <1>4, <1>5, <2>3
      <3>2. hedges[g].index \in Nat /\ hedges[h].index \in Nat
        BY <1>5 DEF IsHedge
      <3>3. hedges[g].index = hedges[h].index
        BY <3>1, <3>2
      <3> QED
        BY <1>5, <2>3, <3>3, OneOrderPerLeg
    <2>4. ASSUME NEW i \in DOMAIN q, NEW n \in DOMAIN q[i]
          PROVE  \E h \in DOMAIN v : h[1] = i /\ c[h] = n
      <3>1. i \in DOMAIN s.intents /\ n \in DOMAIN s.intents[i].plan
        BY <1>3, <1>5
      <3>2. \E h : Executed(s, i, n, h)
        BY <3>1, LegExecuted
      <3>3. PICK h \in DOMAIN hedges : h[1] = i /\ hedges[h].index = n - 1
        BY <3>2 DEF Executed
      <3>4. n \in Int
        <4>1. IsSeq(s.intents[i].plan)
          BY <3>1 DEF Sound, IntentSound
        <4>2. PICK plan : plan = s.intents[i].plan
          OBVIOUS
        <4> QED
          BY <3>1, <4>1, <4>2, SeqFacts
      <3> QED
        BY <1>4, <1>5, <3>3, <3>4
    <2> QED
      BY <1>5, <2>1, <2>2, <2>3, <2>4 DEF IsTable
  <1>8. IsFiniteSet(DOMAIN v) /\ IsFiniteSet(DOMAIN q)
    <2>1. Len(s.intents) \in Nat /\ DOMAIN s.intents = 1 .. Len(s.intents)
      BY SeqFacts DEF IsStore
    <2>2. PICK n \in Nat : DOMAIN q = 1 .. n
      BY <1>5, <2>1
    <2>3. IsFiniteSet(1 .. n)
      BY <2>2, FS_Interval
    <2> QED
      BY <1>5, <2>2, <2>3
  <1>9. SumFunction(v) = SumFunction([i \in DOMAIN q |-> a[i] * SumFunction(q[i])])
    BY <1>5, <1>6, <1>7, <1>8, TableSums
  <1>10. [i \in DOMAIN q |-> a[i] * SumFunction(q[i])] = Owed(s.intents)
    BY <1>2, <1>5, <1>6 DEF Owed
  <1>11. SumFunction(Owed(s.intents)) \in Int
    BY <1>6, OwedIsInt DEF IsStore
  <1>12. HedgeExposure = SumFunction(v)
    BY <1>1 DEF HedgeExposure
  <1> QED
    BY <1>9, <1>10, <1>11, <1>12, ObligedIsOwed

\* Whatever copy would let a new source order be opened, the venues are level.
LEMMA GateIsLevel ==
  ASSUME Inv, StopInv, Level, NEW s \in {mem, disk, durable}, CanSubmitSource(s)
  PROVE  SourceExposure + Unit * HedgeExposure = 0
  <1>1. /\ Sound(s, source, hedges) /\ IsStore(s) /\ CopyFits(s, source, hedges, OneShot)
    BY CopiesSettle DEF Level, SoundCopies
  <1>2. \A o \in SourceIds : \A k \in DOMAIN source[o].fills : <<o, k>> \in s.seenSource
    BY GateMissesNothing DEF NothingMissed
  <1>3. /\ \A o \in SourceIds : IsTruth(source[o]) /\ VenueFits(source[o])
                                /\ source[o].side \in Sides
        /\ \A h \in DOMAIN hedges : IsHedge(hedges[h])
        /\ IsFiniteSet(DOMAIN hedges) /\ LegSentOnce
    BY VenuesFit DEF Level, Venues, Inv, TakerInv
  <1>4. SourceExposure = SeenOf(s, source)
    BY <1>1, <1>2, <1>3, AllSeen DEF SourceExposure
  <1>5. AllCompleted(s) /\ s.residual = 0
    BY DEF CanSubmitSource, BalanceAdmissible
  <1>6. HedgeExposure = Obliged(s) /\ Obliged(s) \in Int
    BY <1>1, <1>3, <1>5, AllSent
  <1>7. SeenOf(s, source) = 0 - Unit * Obliged(s)
    BY <1>1, <1>5 DEF Sound, BooksFit
  <1>8. Unit * Obliged(s) \in Int
    BY <1>6, UnitTimes
  <1> QED
    BY <1>4, <1>6, <1>7, <1>8

(* The strategy opens a new source order only when the two venues really   *)
(* are level, and no order of either leg works (can_submit_source).        *)
THEOREM GateIsFlat == Spec => []GateImpliesFlat
  <1>1. Inv /\ StopInv /\ Level => GateImpliesFlat
    BY GateMissesNothing, GateIsLevel DEF GateImpliesFlat, NothingMissed
  <1> QED
    BY <1>1, BooksAreKept, PTL

=============================================================================
