------------------------------- MODULE HedgePlan -------------------------------
(***************************************************************************)
(* The arithmetic of the hedge leg: how much of a source position is       *)
(* hedged, and through which MetaTrader tickets (hedge.py, and             *)
(* economics.round_hedge_ounces).  Nothing here keeps state.               *)
(*                                                                         *)
(* Source quantities are integers, Unit of them to the ounce.  A side is   *)
(* +1 (BUY) or -1 (SELL).  "positions" maps every ticket number to its     *)
(* signed ounces, 0 for a ticket that is not open.                         *)
(***************************************************************************)
EXTENDS Integers, Sequences, FiniteSets, SequencesExt

CONSTANT Unit

ASSUME UnitAssumption == Unit \in Nat \ {0}

Sides == {1, -1}
NoTicket == 0

Size(n) == IF n < 0 THEN -n ELSE n
Least(a, b) == IF a < b THEN a ELSE b

-----------------------------------------------------------------------------
(* round(float(ounces)): the nearest whole ounce, a tie to the even one.   *)

RoundTiesUp(n) == (2 * n + Unit) \div (2 * Unit)

RoundHedgeOunces(n) ==
    LET whole == n \div Unit
        rest  == n % Unit
    IN  IF 2 * rest > Unit \/ (2 * rest = Unit /\ whole % 2 = 1)
        THEN whole + 1
        ELSE whole

-----------------------------------------------------------------------------
(* One leg closes part of one ticket, or opens a new one.                  *)

CloseLeg(side, quantity, ticket, expected) ==
    [side |-> side, quantity |-> quantity, ticket |-> ticket, expected |-> expected]

OpenLeg(side, quantity) == CloseLeg(side, quantity, NoTicket, 0)

IsClose(leg) == leg.ticket # NoTicket

Opposing(positions, side) == {t \in DOMAIN positions : positions[t] * side < 0}

\* Closing the opposing tickets in ticket order, the highest last: the legs,
\* and what is left over.
Closing(positions, side, quantity) ==
    LET Close(t, plan) ==
            LET part == Least(plan.rest, Size(positions[t])) IN
            IF part = 0 THEN plan
            ELSE [rest |-> plan.rest - part,
                  legs |-> Append(plan.legs, CloseLeg(side, part, t, Size(positions[t])))]
    IN  MapThenFoldSet(Close, [rest |-> quantity, legs |-> <<>>], LAMBDA t : t,
                       LAMBDA S : Max(S), Opposing(positions, side))

\* What remains when they are closed is opened.
PlanHedgeDelta(positions, side, quantity) ==
    LET closed == Closing(positions, side, quantity) IN
    IF closed.rest = 0 THEN closed.legs
    ELSE Append(closed.legs, OpenLeg(side, closed.rest))

\* Mutant: an open is sent without looking for an opposing ticket.
ValidateOpensBlindly(leg, positions) ==
    ~IsClose(leg) \/ Size(positions[leg.ticket]) = leg.expected

\* The last look before the wire: the ticket is still the planned one, and an
\* open finds no ticket it should have closed.
ValidateHedgeLeg(leg, positions) ==
    IF IsClose(leg)
    THEN positions[leg.ticket] * leg.side < 0 /\ Size(positions[leg.ticket]) = leg.expected
    ELSE Opposing(positions, leg.side) = {}

=============================================================================
