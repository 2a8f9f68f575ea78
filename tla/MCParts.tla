-------------------------------- MODULE MCParts --------------------------------
(***************************************************************************)
(* The smaller parts of the system, each checked by itself.  A behaviour   *)
(* picks one of them as its subject and runs it; the others stay in one of *)
(* their initial states, where their properties hold.                      *)
(***************************************************************************)
EXTENDS SharedProcess, HedgeLane, CarryLane, BitfinexAccount, CidStore, StartupRecovery, TerminalReconciler

CONSTANTS
    Rows, End, Limit

VARIABLES
    subject,
    reading, axis, rows, windows, axes, cursor, got, outcome

Pages == INSTANCE ReportPages


pageVars == <<reading, axis, rows, windows, axes, cursor, got, outcome>>

partsVars ==
    <<subject, laneVars, carryVars, processVars, accountVars, cidVars,
      pageVars, recoveryVars, terminalVars>>

MCTickets == {1, 2, 3}
MCOpenTickets == {1, 2}

-----------------------------------------------------------------------------

LaneRests ==
    /\ owed = Unit /\ opening = [t \in Tickets |-> 0] /\ positions = opening
    /\ plan = <<>> /\ index = 0 /\ status = "PENDING" /\ drifts = 0

CarryRests ==
    /\ residual = 0 /\ leaves = [side \in Sides |-> 0]
    /\ start = [residual |-> 0, buy |-> 0, sell |-> 0]
    /\ queue = <<>> /\ moved = 0 /\ bought = 0

PagesRest ==
    /\ reading = "trades" /\ axis = "created"
    /\ rows = [i \in Rows |-> [created |-> 0, updated |-> 0, open |-> FALSE]]
    /\ windows = <<>> /\ axes = {"created"} /\ cursor = 0 /\ got = {} /\ outcome = "start"

Init ==
    /\ subject \in {"lane", "carry", "process", "account", "cids", "pages", "recovery", "terminal"}
    /\ IF subject = "lane" THEN LaneInit ELSE LaneRests
    /\ IF subject = "carry" THEN CarryInit ELSE CarryRests
    /\ ProcessInit /\ (rule.onlyLong => subject = "process")
    /\ AccountInit /\ CidInit /\ RecoveryInit
    /\ IF subject = "pages" THEN Pages!PagesInit ELSE PagesRest
    /\ TerminalInit
    /\ adapter.required \/ actor.pending => subject = "terminal"

Next ==
    \/ subject = "lane" /\ LaneNext
       /\ UNCHANGED <<subject, carryVars, processVars, accountVars, cidVars,
                      pageVars, recoveryVars, terminalVars>>
    \/ subject = "carry" /\ CarryNext
       /\ UNCHANGED <<subject, laneVars, processVars, accountVars, cidVars,
                      pageVars, recoveryVars, terminalVars>>
    \/ subject = "process" /\ ProcessNext
       /\ UNCHANGED <<subject, laneVars, carryVars, accountVars, cidVars,
                      pageVars, recoveryVars, terminalVars>>
    \/ subject = "account" /\ AccountNext
       /\ UNCHANGED <<subject, laneVars, carryVars, processVars, cidVars,
                      pageVars, recoveryVars, terminalVars>>
    \/ subject = "cids" /\ CidNext
       /\ UNCHANGED <<subject, laneVars, carryVars, processVars, accountVars,
                      pageVars, recoveryVars, terminalVars>>
    \/ subject = "pages" /\ Pages!PagesNext
       /\ UNCHANGED <<subject, laneVars, carryVars, processVars, accountVars,
                      cidVars, recoveryVars, terminalVars>>
    \/ subject = "recovery" /\ RecoveryNext
       /\ UNCHANGED <<subject, laneVars, carryVars, processVars, accountVars,
                      cidVars, pageVars, terminalVars>>
    \/ subject = "terminal" /\ TerminalNext
       /\ UNCHANGED <<subject, laneVars, carryVars, processVars, accountVars,
                      cidVars, pageVars, recoveryVars>>

\* A process that rests has none of the steps it is fair to.
Spec == Init /\ [][Next]_partsVars /\ ProcessFairness

-----------------------------------------------------------------------------

\* A reading of the venue's history that ends well has missed nothing.
AllReported == Pages!AllReported

=============================================================================
