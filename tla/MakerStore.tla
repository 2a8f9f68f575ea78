------------------------------ MODULE MakerStore ------------------------------
(***************************************************************************)
(* MakerStateStore (maker_store.py): the stores of the Maker's bid and ask *)
(* behind one file.  Each is a JsonStateStore, but the ounces that are not *)
(* allocated belong to the owner: a fill of either direction is allocated  *)
(* against the one residual of the route, in the order of the ledger.      *)
(*                                                                         *)
(* A direction is the side of its source orders, 1 for the bid and -1 for  *)
(* the ask.  One source account trades against one hedge account.  All     *)
(* freezes are set and cleared in both directions at once.                 *)
(***************************************************************************)
EXTENDS StateStore

CONSTANT ResidualLimit   \* 0, or the residual that may be carried over

ASSUME LimitAssumption == ResidualLimit \in Nat /\ 2 * ResidualLimit <= Unit

Directions == Sides

\* cycle: the freeze stands for fills only, and a completed cycle may lift it.
EmptyOwner == [view |-> [d \in Directions |-> EmptyStore], ledger |-> <<>>, cycle |-> FALSE]

Frozen(w) == \E d \in Directions : w.view[d].frozen

Residual(w) == FoldSeq(LAMBDA item, sum : sum + item.signed - Unit * item.rounded, 0, w.ledger)

\* source_balance_is_admissible
ResidualAdmissible(w) == Size(Residual(w)) <= ResidualLimit

MakerBalanceAdmissible(w, d) ==
    ResidualAdmissible(w) /\ \A i \in DOMAIN w.view[d].intents : Remaining(w.view[d].intents[i]) = 0

MakerCanSubmit(w, d) ==
    LET s == w.view[d] IN
    /\ s.halt = NoHalt /\ ~s.frozen /\ s.active = NoOrder
    /\ MakerBalanceAdmissible(w, d) /\ AllCompleted(s)

MakerEvidenceComplete(w, d) ==
    LET s == w.view[d] IN
    /\ s.halt = NoHalt /\ s.active = NoOrder
    /\ \A o \in DOMAIN s.orders : s.orders[o].status \in SourceTerminal
    /\ AllCompleted(s) /\ MakerBalanceAdmissible(w, d)

-----------------------------------------------------------------------------

Froze(w) == [w EXCEPT !.view = [d \in Directions |-> [@[d] EXCEPT !.frozen = TRUE]]]

\* freeze_sources: a freeze no completed cycle lifts.
FreezeSources(w) == [Froze(w) EXCEPT !.cycle = FALSE]

\* clear_source_freezes, once it may.
ClearSourceFreezes(w) ==
    [w EXCEPT !.view = [d \in Directions |-> [@[d] EXCEPT !.frozen = FALSE]], !.cycle = FALSE]

\* Mutant: each fill is rounded by itself.
AllocateAlone(w, d, fill, signed) ==
    LET rounded == RoundHedgeOunces(signed) IN
    [w EXCEPT !.ledger = Append(@, [d |-> d, fill |-> fill, signed |-> signed, rounded |-> rounded]),
              !.view[d] = AddIntent(@, fill, rounded, NoExit)]

\* _allocate: a ledger entry, and an intent if whole ounces came together.
Allocate(w, d, fill, signed) ==
    LET rounded == RoundHedgeOunces(Residual(w) + signed) IN
    [w EXCEPT !.ledger = Append(@, [d |-> d, fill |-> fill, signed |-> signed, rounded |-> rounded]),
              !.view[d] = AddIntent(@, fill, rounded, NoExit)]

\* reserve_source_fill: every fill freezes both directions.
MakerReserve(w, d, fill, quantity, failed) ==
    LET fresh == /\ ~failed
                 /\ \A e \in Directions : w.view[e].halt = NoHalt
                 /\ w.cycle \/ ~Frozen(w)
        frozen == [Froze(w) EXCEPT !.cycle = @ \/ fresh]
    IN  Allocate([frozen EXCEPT !.view[d] = NoteSourceFill(@, fill, quantity)],
                 d, fill, d * quantity)

-----------------------------------------------------------------------------

IntentsOf(w) == {<<d, i>> : d \in Directions, i \in 1 .. Len(w.ledger)} \intersect
                UNION {{d} \X DOMAIN w.view[d].intents : d \in Directions}
IntentAt(w, p) == w.view[p[1]].intents[p[2]]

\* The place of an intent in the ledger.
Place(w, p) == CHOOSE k \in DOMAIN w.ledger :
                   w.ledger[k].d = p[1] /\ w.ledger[k].fill = IntentAt(w, p).fill

NothingPending == <<0, 0>>

\* Mutant: each direction works off its own obligations.
NextOfDirection(w) ==
    LET next(d) == NextPending(w.view[d]) IN
    IF next(1) # 0 THEN <<1, next(1)>> ELSE IF next(-1) # 0 THEN <<-1, next(-1)>>
    ELSE NothingPending

\* The earliest unfinished intent of the ledger, if it waits to be sent and
\* nothing is working or has failed in either direction.
NextPendingHedge(w) ==
    LET unfinished == {p \in IntentsOf(w) : IntentAt(w, p).status # "COMPLETED"}
        first == CHOOSE p \in unfinished : \A q \in unfinished : Place(w, p) <= Place(w, q)
    IN  IF unfinished = {} THEN NothingPending
        ELSE IF \/ \E p \in unfinished :
                      IntentAt(w, p).status \in Failed \union (InFlight \ {"PENDING"})
                \/ IntentAt(w, first).order # NoHedge
             THEN NothingPending
        ELSE first

=============================================================================
