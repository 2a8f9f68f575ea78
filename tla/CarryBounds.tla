------------------------------ MODULE CarryBounds ------------------------------
(***************************************************************************)
(* What the Maker's two quotes may still lead to when a residual of up to  *)
(* half an ounce is carried (maker_economics.py): the largest unhedged     *)
(* exposure, the furthest the hedge account may move each way, and the     *)
(* largest single hedge.  "buy" and "sell" are what the bid and the ask    *)
(* may still trade, in source units.                                       *)
(***************************************************************************)
EXTENDS HedgePlan

\* Half an ounce is a whole number of source units.
ASSUME HalfAssumption == Unit % 2 = 0

Half == Unit \div 2

Largest(a, b) == IF a > b THEN a ELSE b

\* Mutant: two quotes are taken to offset each other.
NetExposure(residual, buy, sell) ==
    Largest(Size(residual), Size(residual + buy - sell))

CarryExposure(residual, buy, sell) ==
    IF buy > 0 /\ sell > 0 THEN Half + Largest(buy, sell)
    ELSE Largest(Size(residual), Size(residual + buy - sell))

\* Whole ounces one side may come to hedge, a half rounded up.
HedgeOunces(residual, traded) ==
    IF traded = 0 THEN 0 ELSE Largest(0, (residual + traded + Half) \div Unit)

HedgeBuys(residual, sell) == HedgeOunces(-residual, sell)
HedgeSells(residual, buy) == HedgeOunces(residual, buy)

\* maker_hedge_quantity_bound
IntentBound(residual, quantity, side, opposite) ==
    LET initial == IF opposite THEN Half ELSE side * residual IN
    Largest(0, RoundHedgeOunces(initial + quantity))

=============================================================================
