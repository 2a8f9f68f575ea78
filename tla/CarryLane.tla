------------------------------- MODULE CarryLane -------------------------------
(***************************************************************************)
(* Every way two admitted quotes can trade: in parts of any size, in any   *)
(* order, canceled half way, while the hedges they oblige the Maker to are *)
(* executed one after the other at any later time, an ounce at a time.     *)
(* The bounds of CarryBounds, taken once at the start, must hold through   *)
(* all of it.  Fills are allocated as MakerStateStore._allocate does.      *)
(***************************************************************************)
EXTENDS CarryBounds

CONSTANTS
    MaxLeaves,    \* the largest quote, in source units
    MaxWaiting    \* bound on hedges that are waiting, in intents

ASSUME CarryAssumption == MaxLeaves \in Nat /\ MaxWaiting \in Nat

VARIABLES
    start,     \* the residual and the two quotes that were admitted
    residual,  \* what the fills left unallocated
    leaves,    \* what each quote may still trade
    queue,     \* signed ounces the Maker is obliged to, oldest first
    moved,     \* what the hedge account has been moved by
    bought     \* what the fills bought less what they sold, for the bounds alone

carryVars == <<start, residual, leaves, queue, moved, bought>>

CarryInit ==
    /\ residual \in -Half .. Half
    /\ leaves \in [Sides -> 0 .. MaxLeaves]
    /\ start = [residual |-> residual, buy |-> leaves[1], sell |-> leaves[-1]]
    /\ queue = <<>> /\ moved = 0 /\ bought = 0

\* _allocate: whole ounces become an obligation on the other side.
Fill(side, part) ==
    /\ part <= leaves[side] /\ Len(queue) < MaxWaiting
    /\ LET combined == residual + side * part
           rounded == RoundHedgeOunces(combined)
       IN  /\ residual' = combined - Unit * rounded
           /\ queue' = IF rounded = 0 THEN queue ELSE Append(queue, -rounded)
    /\ leaves' = [leaves EXCEPT ![side] = @ - part]
    /\ bought' = bought + side * part
    /\ UNCHANGED <<start, moved>>

Cancel(side) ==
    /\ leaves[side] > 0
    /\ leaves' = [leaves EXCEPT ![side] = 0]
    /\ UNCHANGED <<start, residual, queue, moved, bought>>

\* The oldest obligation owns the hedge lane until it is executed
\* (first_unfinished_hedge).
WorkOff ==
    /\ queue # <<>>
    /\ LET step == IF queue[1] > 0 THEN 1 ELSE -1 IN
        /\ moved' = moved + step
        /\ queue' = IF queue[1] = step THEN Tail(queue) ELSE [queue EXCEPT ![1] = @ - step]
    /\ UNCHANGED <<start, residual, leaves, bought>>

CarryNext == WorkOff \/ \E side \in Sides : Cancel(side) \/ \E part \in 1 .. MaxLeaves : Fill(side, part)

CarrySpec == CarryInit /\ [][CarryNext]_carryVars

-----------------------------------------------------------------------------

\* The position of both venues together, in source units.
Uncovered == start.residual + bought + Unit * moved

(* Every variable has its type; a residual is at most half an ounce.       *)
CarryTypeOK ==
    /\ residual \in -Half .. Half
    /\ leaves \in [Sides -> 0 .. MaxLeaves]
    /\ queue \in Seq(Int \ {0}) /\ moved \in Int /\ bought \in Int

(* Whatever trades in whatever order, and however late the hedges are, the *)
(* exposure that is not hedged stays within the budget that was checked    *)
(* when the quotes were admitted (maker_carry_bounds).                     *)
ExposureWithinBound ==
    Size(Uncovered) <= CarryExposure(start.residual, start.buy, start.sell)

(* The hedge account never moves further than was checked against its      *)
(* limits, in either direction and at any time on the way                  *)
(* (maker_carry_bounds, maker_hedge_bounds_allow).                         *)
HedgesWithinBound ==
    /\ moved <= HedgeBuys(start.residual, start.sell)
    /\ -moved <= HedgeSells(start.residual, start.buy)

(* No single obligation is larger than the quantity whose execution was    *)
(* checked in advance (maker_hedge_quantity_bound).                        *)
IntentWithinBound ==
    \A k \in DOMAIN queue :
        IF queue[k] < 0
        THEN -queue[k] <= IntentBound(start.residual, start.buy, 1, start.sell > 0)
        ELSE queue[k] <= IntentBound(start.residual, start.sell, -1, start.buy > 0)

(* The three bounds a quote was admitted by hold together, through every   *)
(* way to trade it (_source_hedge_is_executable, maker_carry_bounds).      *)
AdmissionHolds == ExposureWithinBound /\ HedgesWithinBound /\ IntentWithinBound

=============================================================================
