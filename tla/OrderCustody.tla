---------------------------- MODULE OrderCustody ----------------------------
(***************************************************************************)
(* What a client of the EA relies on, without journal, restarts, locks or  *)
(* failed writes: a request is opened once, runs at most once and only     *)
(* while it is open, is settled once and truthfully, and no request opens  *)
(* while another one is open or was settled as unknown.                    *)
(***************************************************************************)
CONSTANT Requests

VARIABLES stage, ran

vars == <<stage, ran>>

Init ==
  /\ stage = [r \in Requests |-> "new"]
  /\ ran = [r \in Requests |-> FALSE]

Open(r) ==
  /\ stage[r] = "new"
  /\ \A q \in Requests : stage[q] \notin {"open", "unknown"}
  /\ stage' = [stage EXCEPT ![r] = "open"]
  /\ UNCHANGED ran

Run(r) ==
  /\ stage[r] = "open"
  /\ ~ ran[r]
  /\ ran' = [ran EXCEPT ![r] = TRUE]
  /\ UNCHANGED stage

Settle(r) ==
  /\ stage[r] = "open"
  /\ \/ stage' = [stage EXCEPT ![r] = IF ran[r] THEN "filled" ELSE "rejected"]
     \/ stage' = [stage EXCEPT ![r] = "unknown"]
  /\ UNCHANGED ran

Next == \E r \in Requests : Open(r) \/ Run(r) \/ Settle(r)

Spec == Init /\ [][Next]_vars
=============================================================================
