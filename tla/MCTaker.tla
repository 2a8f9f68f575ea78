-------------------------------- MODULE MCTaker --------------------------------
(* One ticket that may be open at the start, and free ones behind it.      *)
EXTENDS Taker

MCTickets == 1 .. 4
MCOpenTickets == {1}
MCPositions == {[t \in MCTickets |-> 0], [t \in MCTickets |-> IF t = 1 THEN 1 ELSE 0]}

=============================================================================
