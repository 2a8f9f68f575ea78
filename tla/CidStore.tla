------------------------------- MODULE CidStore -------------------------------
(***************************************************************************)
(* BitfinexV1CidStore (bitfinex_v1_cids.py): one JSON file that binds every*)
(* client order ID to the number the venue knows the order by, and keeps   *)
(* the fees of its trades.  The file is replaced as a whole; until its     *)
(* directory is synced a power cut may bring the former file back.  The    *)
(* clock that CIDs are taken from may go back.                             *)
(***************************************************************************)
EXTENDS Integers, FiniteSets

CONSTANTS
    Clients,     \* client order IDs
    FeeTrades,   \* the venue's trades
    MaxClock,    \* bound: the clock's readings, in ms
    MaxCrashes   \* bound: crashes and power cuts

VARIABLES
    names,    \* the store in memory
    file,     \* the file as a new process would read it
    safe,     \* the file as it is after a power cut
    sent,     \* observed: the orders sent to the venue, with the CID each was sent by
    shown,    \* observed: the trades whose final fee a write has made durable
    crashes

cidVars == <<names, file, safe, sent, shown, crashes>>

Unbound == 0

Greater(m, n) == IF m > n THEN m ELSE n

\* What _persist writes of a store
Saved(n) == [bound |-> n.bound, last |-> n.last, fees |-> n.fees, conflict |-> n.conflict]

-----------------------------------------------------------------------------
(* _persist: written, renamed and synced; renamed but not synced; or not   *)
(* written at all.                                                         *)

Written(n) == file' = Saved(n) /\ safe' = Saved(n)
Unsynced(n) == file' = Saved(n) /\ UNCHANGED safe
Unwritten == UNCHANGED <<file, safe>>

Finals(n) == {t \in FeeTrades : n.fees[t] = "final"}
Shows(n) == shown' = shown \union Finals(n)

\* Mutant: the clock alone makes the CID.
CidOfClock(now) == now

\* allocate, and the order that goes out with its CID when it returned; an
\* order whose CID may not be durable is denied.
Cid(now) == Greater(now, names.last + 1)

Bound(c, now) == [names EXCEPT !.bound[c] = Cid(now), !.last = Cid(now)]

Allocate(c, now) ==
    /\ names.bound[c] = Unbound
    /\ LET n == Bound(c, now) IN
        \/ /\ Written(n) /\ Shows(n)
           /\ names' = [n EXCEPT !.durable = TRUE]
           /\ sent' = sent \union {<<c, Cid(now)>>}
        \/ Unsynced(n) /\ names' = n /\ UNCHANGED <<sent, shown>>
    /\ UNCHANGED crashes

\* _save_fee_metadata: what was observed stays in memory whatever the write does.
Keeps(n) ==
    IF n = names /\ names.durable THEN UNCHANGED <<names, file, safe, shown>>
    ELSE \/ Written(n) /\ Shows(n) /\ names' = [n EXCEPT !.durable = TRUE]
         \/ Unsynced(n) /\ names' = [n EXCEPT !.durable = FALSE] /\ UNCHANGED shown
         \/ Unwritten /\ names' = [n EXCEPT !.durable = FALSE] /\ UNCHANGED shown

\* record_venue_trade: an interim frame, without the fee, never takes a fee back.
WithTrade(t, fee) ==
    [names EXCEPT !.fees[t] = IF @ = "final" THEN @ ELSE fee]

RecordTrade(t, fee) ==
    /\ \E s \in sent : names.bound[s[1]] = s[2]
    /\ Keeps(WithTrade(t, fee))
    /\ UNCHANGED <<sent, crashes>>

\* mark_accounting_conflict: a trade told with another final fee latches.
MarkConflict(t) ==
    /\ names.fees[t] = "final" /\ ~(names.conflict /\ names.durable)
    /\ Keeps([names EXCEPT !.conflict = TRUE])
    /\ UNCHANGED <<sent, crashes>>

\* _load
Loaded(f) == [bound |-> f.bound, last |-> f.last, fees |-> f.fees, conflict |-> f.conflict,
              durable |-> TRUE]

ProcessRestarts ==
    /\ crashes < MaxCrashes /\ crashes' = crashes + 1
    /\ names' = Loaded(file)
    /\ UNCHANGED <<file, safe, sent, shown>>

PowerCut ==
    /\ crashes < MaxCrashes /\ crashes' = crashes + 1
    /\ names' = Loaded(safe) /\ file' = safe
    /\ UNCHANGED <<safe, sent, shown>>

-----------------------------------------------------------------------------

CidInit ==
    /\ names = [bound |-> [c \in Clients |-> Unbound], last |-> 0,
                fees |-> [t \in FeeTrades |-> "unseen"], conflict |-> FALSE, durable |-> TRUE]
    /\ file = Saved(names) /\ safe = Saved(names)
    /\ sent = {} /\ shown = {} /\ crashes = 0

CidNext ==
    \/ \E c \in Clients, now \in 0 .. MaxClock : Allocate(c, now)
    \/ \E t \in FeeTrades, fee \in {"pending", "final"} : RecordTrade(t, fee)
    \/ \E t \in FeeTrades : MarkConflict(t)
    \/ ProcessRestarts \/ PowerCut

CidSpec == CidInit /\ [][CidNext]_cidVars

\* Over crashes, power cuts and a clock that goes back, a CID that went out names
\* one order for ever, and the store still finds the order by it.
CidNamesOneOrder ==
    /\ \A s \in sent : names.bound[s[1]] = s[2]
    /\ \A s, t \in sent : s[2] = t[2] => s = t

\* A final fee that a write has made durable is final for ever (record_venue_trade).
FinalFeeStays == shown \subseteq Finals(names)

\* What the store has promised, it still knows after any crash (_load, _persist):
\* which order a CID named, and what a trade was charged.
StoreRemembers == CidNamesOneOrder /\ FinalFeeStays

-----------------------------------------------------------------------------
(* The inductive invariant behind StoreRemembers (CidStore_proofs).        *)

Fees == [FeeTrades -> {"unseen", "pending", "final"}]
Files == [bound : [Clients -> Nat], last : Nat, fees : Fees, conflict : BOOLEAN]
Stores == [bound : [Clients -> Nat], last : Nat, fees : Fees, conflict : BOOLEAN,
           durable : BOOLEAN]

\* A copy of the store binds every order that went out by its CID, names no two
\* orders by one, has counted past all of them, and knows every fee it has shown.
Faithful(store, orders, trades) ==
    /\ \A s \in orders : store.bound[s[1]] = s[2]
    /\ \A c \in Clients : store.bound[c] <= store.last
    /\ \A c, d \in Clients : store.bound[c] = store.bound[d] /\ store.bound[c] # Unbound => c = d
    /\ \A t \in trades : store.fees[t] = "final"

CidInv ==
    /\ names \in Stores /\ file \in Files /\ safe \in Files
    /\ sent \subseteq Clients \X (Nat \ {Unbound}) /\ shown \subseteq FeeTrades
    /\ \A store \in {names, file, safe} : Faithful(store, sent, shown)
=============================================================================
