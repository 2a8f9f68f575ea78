------------------------------ MODULE StateStore ------------------------------
(***************************************************************************)
(* JsonStateStore (store.py, models.py): what one strategy remembers of    *)
(* its two legs.  The store is a value; every method of the class that     *)
(* changes it is an operator from the old value to the new one.  Writing   *)
(* it to the file, and what a failed write leaves in memory, belongs to    *)
(* the strategy's module, which knows when the process stops.              *)
(*                                                                         *)
(* Source orders are numbered in the order they begin, an intent by its    *)
(* place in the store.  A hedge order is <<intent, n>>, the n-th order     *)
(* bound to that intent: the order factory's unique name.  A fill is       *)
(* <<order, n>>, the n-th trade of that order at its venue.                *)
(***************************************************************************)
EXTENDS HedgePlan

NoOrder == 0
NoHedge == <<0, 0>>
NoExit  == [ticket |-> NoTicket, quantity |-> 0]

InFlight == {"PENDING", "SUBMITTING", "SUBMITTED", "ACCEPTED"}
Failed   == {"BLOCKED", "REJECTED", "UNKNOWN"}
HedgeStatus  == InFlight \union Failed \union {"COMPLETED"}
SourceStatus == {"SUBMITTING", "SUBMITTED", "ACCEPTED", "PARTIALLY_FILLED", "FILLED",
                 "CANCELED", "EXPIRED", "REJECTED", "DENIED", "UNKNOWN"}
SourceTerminal == {"FILLED", "CANCELED", "EXPIRED", "REJECTED", "DENIED"}

\* halt_reason, as far as anything looks at it: a reason that waits for the
\* final report of one order can be withdrawn, any other cannot.
NoHalt == [kind |-> "none", order |-> NoOrder]
Held   == [kind |-> "held", order |-> NoOrder]
AwaitsReport(o) == [kind |-> "report", order |-> o]

EmptyStore ==
    [orders |-> <<>>, active |-> NoOrder, seenSource |-> {}, seenHedge |-> {},
     intents |-> <<>>, residual |-> 0, halt |-> NoHalt, frozen |-> FALSE]

KnowsSourceOrder(s, o) == o \in DOMAIN s.orders

-----------------------------------------------------------------------------
(* What the store says of itself                                           *)

Remaining(intent) == intent.quantity - intent.filled
AllCompleted(s) == \A i \in DOMAIN s.intents : s.intents[i].status = "COMPLETED"

\* The exposure still to be hedged, in source units.
NetUnhedged(s) ==
    s.residual - Unit * FoldSeq(LAMBDA intent, sum : sum + intent.side * Remaining(intent),
                                0, s.intents)

BalanceAdmissible(s) == s.residual = 0 /\ NetUnhedged(s) = 0

CanSubmitSource(s) ==
    /\ s.halt = NoHalt /\ ~s.frozen
    /\ s.active = NoOrder
    /\ BalanceAdmissible(s) /\ AllCompleted(s)

CycleEvidenceComplete(s) ==
    /\ s.halt = NoHalt /\ s.active = NoOrder
    /\ \A o \in DOMAIN s.orders : s.orders[o].status \in SourceTerminal
    /\ AllCompleted(s) /\ BalanceAdmissible(s)

\* The intent the strategy works on next, 0 for none: nothing goes out beside
\* an intent that is working, and nothing at all once one has failed.
NextPending(s) ==
    LET pending == {i \in DOMAIN s.intents :
                        s.intents[i].status = "PENDING" /\ s.intents[i].order = NoHedge}
    IN  IF \/ \E i \in DOMAIN s.intents :
                  s.intents[i].status \in Failed \union (InFlight \ {"PENDING"})
           \/ pending = {}
        THEN 0 ELSE CHOOSE i \in pending : \A j \in pending : i <= j

-----------------------------------------------------------------------------
(* The source order                                                        *)

RecoverForStart(s) ==
    IF s.active = NoOrder /\ AllCompleted(s) THEN s
    ELSE [s EXCEPT
            !.orders = IF s.active = NoOrder THEN @
                       ELSE [@ EXCEPT ![s.active].status = "UNKNOWN"],
            !.intents = [i \in DOMAIN @ |->
                IF @[i].status \in InFlight THEN [@[i] EXCEPT !.status = "UNKNOWN"]
                ELSE @[i]],
            !.halt = IF @ = NoHalt THEN Held ELSE @]

BeginSource(s, side, quantity, exit, freeze) ==
    [s EXCEPT !.orders = Append(@, [side |-> side, quantity |-> quantity, filled |-> 0,
                                    status |-> "SUBMITTING", exit |-> exit]),
              !.active = Len(s.orders) + 1,
              !.frozen = freeze]

\* A cancel or an expiry does not end the cycle: a final report has to.
UpdateSourceStatus(s, o, status) ==
    [s EXCEPT !.orders[o].status = status,
              !.active = IF status \in {"DENIED", "FILLED", "REJECTED"} /\ @ = o
                         THEN NoOrder ELSE @,
              !.halt = IF status \in {"CANCELED", "EXPIRED"} /\ @ = NoHalt
                       THEN AwaitsReport(o) ELSE @]

ConfirmSourceReconciled(s, o) ==
    [s EXCEPT !.active = IF @ = o THEN NoOrder ELSE @,
              !.halt = IF @ = AwaitsReport(o) THEN NoHalt ELSE @]

MarkSourceUnknown(s, o) ==
    [s EXCEPT !.orders = IF KnowsSourceOrder(s, o)
                         THEN [@ EXCEPT ![o].status = "UNKNOWN"] ELSE @,
              !.halt = Held]

-----------------------------------------------------------------------------
(* A source fill becomes a hedge obligation                                *)

NewIntent(fill, side, quantity, exit) ==
    [fill |-> fill, side |-> side, quantity |-> quantity, filled |-> 0,
     exit |-> exit, plan |-> <<>>, leg |-> 0, legFilled |-> 0,
     order |-> NoHedge, orders |-> <<>>, status |-> "PENDING"]

\* Mutant: completing the order withdraws whatever had stopped the strategy.
FilledWithdrawsHalt(s, o) == [s EXCEPT !.active = NoOrder, !.halt = NoHalt]

\* The order is filled: it no longer works, nor is its report awaited.
FilledSource(s, o) ==
    IF s.active # o THEN s
    ELSE [s EXCEPT !.active = NoOrder,
                   !.halt = IF @ = AwaitsReport(o) THEN NoHalt ELSE @]

\* Whole ounces become an intent on the other side.
AddIntent(s, fill, rounded, exit) ==
    IF rounded = 0 THEN s
    ELSE [s EXCEPT !.intents = Append(@, NewIntent(fill, IF rounded > 0 THEN -1 ELSE 1,
                                                   Size(rounded), exit))]

\* Mutant: the ounces put into an intent stay in the residual.
AllocateTwice(s, fill, signed, exit) ==
    LET total == s.residual + signed IN
    AddIntent([s EXCEPT !.residual = total], fill, RoundHedgeOunces(total), exit)

AllocateSourceFill(s, fill, signed, exit) ==
    LET total   == s.residual + signed
        rounded == RoundHedgeOunces(total)
    IN  AddIntent([s EXCEPT !.residual = total - Unit * rounded], fill, rounded, exit)

\* The fill is in the record of its order.
NoteSourceFill(s, fill, quantity) ==
    LET o == fill[1]
        filled == s.orders[o].filled + quantity
        whole == filled >= s.orders[o].quantity
        noted == [s EXCEPT !.seenSource = @ \union {fill},
                           !.orders[o].filled = filled,
                           !.orders[o].status = IF whole THEN "FILLED"
                                                ELSE "PARTIALLY_FILLED"]
    IN  IF whole THEN FilledSource(noted, o) ELSE noted

ReserveSourceFill(s, fill, quantity) ==
    AllocateSourceFill(NoteSourceFill(s, fill, quantity), fill,
                       s.orders[fill[1]].side * quantity, s.orders[fill[1]].exit)

-----------------------------------------------------------------------------
(* The hedge intent                                                        *)

\* A one-shot exit promised one ticket: the plan is to close it and no more.
BoundExitHolds(intent, plan) ==
    intent.exit # NoExit =>
        Len(plan) = 1 /\ plan[1].ticket = intent.exit.ticket
                      /\ plan[1].expected = intent.exit.quantity

BindHedgePlan(s, i, plan) == [s EXCEPT !.intents[i].plan = plan]

NextHedgeOrder(s, i) == <<i, Len(s.intents[i].orders) + 1>>

BindHedgeOrder(s, i) ==
    LET h == NextHedgeOrder(s, i) IN
    [s EXCEPT !.intents[i].order = h,
              !.intents[i].orders = Append(@, h),
              !.intents[i].status = "SUBMITTING"]

BlockHedgeIntent(s, i) ==
    [s EXCEPT !.intents[i].status = "BLOCKED", !.halt = Held]

\* The intent a hedge order works for now, 0 once its leg is done.
IntentOf(s, h) ==
    IF \E i \in DOMAIN s.intents : s.intents[i].order = h THEN h[1] ELSE 0

\* A failed intent takes no status any more.
UpdateHedgeStatus(s, h, status) ==
    LET i == IntentOf(s, h) IN
    IF i = 0 THEN s
    ELSE IF s.intents[i].status \in Failed THEN s
    ELSE [s EXCEPT !.intents[i].status = status,
                   !.halt = IF status \in {"REJECTED", "UNKNOWN"} THEN Held ELSE @]

\* A fill that was not expected is counted, and stops everything.
UnexpectedHedgeFill(s, i, quantity) ==
    [s EXCEPT !.intents[i].filled = @ + quantity,
              !.intents[i].legFilled = @ + quantity,
              !.intents[i].status = "BLOCKED",
              !.halt = Held]

\* Mutant: the finished leg keeps its place in the plan.
LegStays(s, i, quantity) ==
    LET intent == s.intents[i]
        done == intent.filled + quantity = intent.quantity
    IN  [s EXCEPT !.intents[i] =
            [intent EXCEPT !.filled = @ + quantity, !.legFilled = 0, !.order = NoHedge,
                           !.leg = IF done THEN Len(intent.plan) ELSE @,
                           !.status = IF done THEN "COMPLETED" ELSE "PENDING"]]

\* Mutant: the finished leg's order stays bound to the intent.
LegKeepsOrder(s, i, quantity) ==
    [s EXCEPT !.intents[i].filled = @ + quantity, !.intents[i].legFilled = 0,
              !.intents[i].leg = @ + 1,
              !.intents[i].status = IF s.intents[i].leg + 1 = Len(s.intents[i].plan)
                                    THEN "COMPLETED" ELSE "PENDING"]

\* The whole leg is filled: on to the next one, or done.
LegFilled(s, i, quantity) ==
    [s EXCEPT !.intents[i].filled = @ + quantity,
              !.intents[i].legFilled = 0,
              !.intents[i].leg = @ + 1,
              !.intents[i].order = NoHedge,
              !.intents[i].status = IF s.intents[i].leg + 1 = Len(s.intents[i].plan)
                                    THEN "COMPLETED" ELSE "PENDING"]

ApplyHedgeFill(s, fill, quantity) ==
    LET i == IntentOf(s, fill[1])
        intent == s.intents[i]
        noted == [s EXCEPT !.seenHedge = @ \union {fill}]
        expected == intent.plan[intent.leg + 1].quantity - intent.legFilled
    IN  IF fill \in s.seenHedge \/ i = 0 THEN s
        ELSE IF intent.status \in Failed \/ quantity # expected
             THEN UnexpectedHedgeFill(noted, i, quantity)
             ELSE LegFilled(noted, i, quantity)

=============================================================================
