------------------------------- MODULE HedgeLane -------------------------------
(***************************************************************************)
(* One hedge obligation worked off leg by leg against the account's        *)
(* tickets: the plan is made once from the tickets seen at the start, and  *)
(* each leg is checked again against the tickets as they are when its turn *)
(* comes (HedgeCoordinator.next_hedge_leg).  Between two legs somebody     *)
(* else may change a ticket, at most MaxDrift times.                       *)
(***************************************************************************)
EXTENDS HedgePlan

CONSTANTS
    Tickets,      \* ticket numbers; those above every open one are free
    OpenTickets,  \* the ones that may be open at the start
    MaxOunces,    \* the largest ticket and the largest obligation
    MaxDrift      \* how many tickets change by another hand

ASSUME LaneAssumption ==
    /\ Tickets \subseteq Nat \ {NoTicket} /\ IsFiniteSet(Tickets)
    /\ OpenTickets \subseteq Tickets
    /\ MaxOunces \in Nat \ {0} /\ MaxDrift \in Nat

VARIABLES
    owed,       \* the obligation: the source units that were filled, signed
    opening,    \* the tickets when the plan was made
    positions,  \* the tickets now
    plan,       \* the bound plan, <<>> before it is made
    index,      \* how many legs are executed
    status,     \* "PENDING", "COMPLETED" or "BLOCKED"
    drifts

laneVars == <<owed, opening, positions, plan, index, status, drifts>>

Volumes == -MaxOunces .. MaxOunces
Delta == -RoundHedgeOunces(owed)
Side == IF Delta < 0 THEN -1 ELSE 1

Net(p) == SumFunction(p)

LaneInit ==
    /\ owed \in -(MaxOunces * Unit) .. (MaxOunces * Unit)
    /\ RoundHedgeOunces(owed) # 0
    /\ opening \in {p \in [Tickets -> Volumes] : \A t \in Tickets \ OpenTickets : p[t] = 0}
    /\ positions = opening
    /\ plan = <<>> /\ index = 0 /\ status = "PENDING" /\ drifts = 0

-----------------------------------------------------------------------------

MakePlan ==
    /\ status = "PENDING" /\ plan = <<>>
    /\ opening' = positions
    /\ plan' = PlanHedgeDelta(positions, Side, Size(Delta))
    /\ UNCHANGED <<owed, positions, index, status, drifts>>

\* The broker executes a leg: it takes from the ticket, or opens a free one.
Executed(p, leg, fresh) ==
    [p EXCEPT ![IF IsClose(leg) THEN leg.ticket ELSE fresh] = @ + leg.side * leg.quantity]

ExecuteLeg ==
    /\ status = "PENDING" /\ plan # <<>> /\ index < Len(plan)
    /\ LET leg == plan[index + 1] IN
        IF ValidateHedgeLeg(leg, positions)
        THEN \E fresh \in {t \in Tickets \ OpenTickets : positions[t] = 0} :
                /\ positions' = Executed(positions, leg, fresh)
                /\ index' = index + 1
                /\ status' = IF index' = Len(plan) THEN "COMPLETED" ELSE "PENDING"
        ELSE /\ status' = "BLOCKED"
             /\ UNCHANGED <<positions, index>>
    /\ UNCHANGED <<owed, opening, plan, drifts>>

Drift ==
    /\ status = "PENDING" /\ drifts < MaxDrift
    /\ \E t \in OpenTickets : \E v \in Volumes \ {positions[t]} :
            positions' = [positions EXCEPT ![t] = v]
    /\ drifts' = drifts + 1
    /\ UNCHANGED <<owed, opening, plan, index, status>>

LaneNext == MakePlan \/ ExecuteLeg \/ Drift

LaneSpec == LaneInit /\ [][LaneNext]_laneVars

-----------------------------------------------------------------------------
(* Every variable has its type.                                            *)
LaneTypeOK ==
    /\ owed \in -(MaxOunces * Unit) .. (MaxOunces * Unit)
    /\ opening \in [Tickets -> Int] /\ positions \in [Tickets -> Int]
    /\ index \in 0 .. Len(plan)
    /\ status \in {"PENDING", "COMPLETED", "BLOCKED"}
    /\ drifts \in 0 .. MaxDrift

(* Hedging leaves at most half an ounce of the source fill uncovered, and  *)
(* exactly half only towards the even ounce (round_hedge_ounces): the      *)
(* account's net position moves by the rounded quantity, no more, no less. *)
(* And without interference the plan never trips over itself: closing a    *)
(* ticket does not invalidate the legs behind it (validate_hedge_leg).     *)
HedgedToHalfAnOunce ==
    drifts = 0 =>
        /\ status # "BLOCKED"
        /\ status = "COMPLETED" =>
             LET missing == owed + Unit * (Net(positions) - Net(opening)) IN
             /\ 2 * Size(missing) <= Unit
             /\ 2 * Size(missing) = Unit => Delta % 2 = 0

(* A hedge never leaves the account long and short at once through its own *)
(* doing: when it opened a ticket, nothing it could have closed is left,   *)
(* whoever changed the tickets between plan and order (validate_hedge_leg).*)
NoOpenAgainstOpposing ==
    [][\A k \in 1 .. Len(plan) :
          index < k /\ k <= index' /\ ~IsClose(plan[k]) => Opposing(positions, Side) = {}]_laneVars

=============================================================================
