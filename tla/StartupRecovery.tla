---------------------------- MODULE StartupRecovery ----------------------------
(***************************************************************************)
(* How a process that died is started again (restart_recovery.py,          *)
(* source_projection.py, hedge_projection.py).  Three books must agree     *)
(* before the gate opens: the venues, the engine's cache, and the Maker's  *)
(* business file, which may lack the last fills.  What the file lacks is   *)
(* projected under a pause; what is proved complete is settled, and what   *)
(* was never sent is released to be sent.                                  *)
(*                                                                         *)
(* Every fill is of one ounce and owes one hedge of one leg: rounding is   *)
(* HedgeLane's and CarryLane's, plans of several legs are Maker's.  Only   *)
(* the recovery's own writes fail here.                                    *)
(***************************************************************************)
EXTENDS Integers, Sequences, FiniteSets, SequencesExt, Functions

CONSTANTS
    Orders,      \* source orders, each of a view of its own
    Ounces,      \* their quantity
    MaxMishaps   \* bound: crashes, failed writes, pauses and foreign trades

ASSUME RecoveryAssumption == Ounces \in Nat /\ IsFiniteSet(Orders)

VARIABLES
    world,     \* the venues
    native,    \* the engine's cache, as far as it has heard
    business,  \* the business file, and the store in memory
    synced,    \* the file as it is after a power cut
    phase,     \* "trading", "down" or "gated"
    receipt,   \* _StartupReceipt of this start
    round,     \* one call of reconcile_startup
    mishaps

recoveryVars == <<world, native, business, synced, phase, receipt, round, mishaps>>

Fills == Orders \X (1 .. Ounces)
Attempts == {1, 2}                    \* the orders one obligation may send
None == 0
NoFill == <<>>
Unread == <<>>
Open == {"sent", "open"}              \* orders without outcome

NoIntent == [status |-> "none", cid |-> None, tried |-> 0, rejected |-> None, filled |-> FALSE]
Unfinished(b) == {f \in Fills : b.intents[f].status \notin {"none", "COMPLETED"}}
Active(b) == {o \in Orders : b.src[o].status \in {"OPEN", "UNKNOWN"}}

CycleComplete(b) == Active(b) = {} /\ Unfinished(b) = {} /\ b.halt = "none"

NoReceipt == [eligible |-> FALSE, reviewed |-> FALSE, target |-> None, targetFill |-> NoFill,
              halt |-> "none", freeze |-> "none", failed |-> FALSE, revoked |-> FALSE]
NoRound == [step |-> "idle", changed |-> FALSE, src |-> Unread, hedge |-> Unread]

-----------------------------------------------------------------------------
(* Writes: the file is replaced and its directory synced, or only replaced.*)

Writes(b) == business' = b /\ synced' = b
WritesUnsynced(b) == business' = b /\ UNCHANGED synced
Mishap == mishaps < MaxMishaps /\ mishaps' = mishaps + 1

-----------------------------------------------------------------------------
(* The venues                                                              *)

SourceFills(o) ==
    /\ world.src[o].status = "open" /\ world.src[o].fills < Ounces
    /\ world' = [world EXCEPT !.src[o].fills = @ + 1,
                              !.src[o].status = IF world.src[o].fills + 1 = Ounces THEN "closed" ELSE @]
    /\ UNCHANGED <<native, business, synced, phase, receipt, round, mishaps>>

SourceEnds(o) ==
    /\ world.src[o].status = "open" /\ world' = [world EXCEPT !.src[o].status = "closed"]
    /\ UNCHANGED <<native, business, synced, phase, receipt, round, mishaps>>

BrokerDecides(f, a) ==
    /\ world.hedge[f][a] = "sent"
    /\ \E outcome \in {"FILLED", "REJECTED"} : world' = [world EXCEPT !.hedge[f][a] = outcome]
    /\ UNCHANGED <<native, business, synced, phase, receipt, round, mishaps>>

\* Somebody trades on the hedge account.
ForeignTrade ==
    /\ Mishap /\ world' = [world EXCEPT !.foreign = ~@]
    /\ UNCHANGED <<native, business, synced, phase, receipt, round>>

-----------------------------------------------------------------------------
(* The process while it trades.  A crash may come between the write and    *)
(* the order behind it.                                                    *)

Trades(b) == Writes(b) /\ UNCHANGED <<native, receipt, round>>

Released(b) == IF b.freeze = "cycle" /\ CycleComplete(b) THEN [b EXCEPT !.freeze = "none"] ELSE b

SendOrDie(sent) ==
    \/ world' = sent /\ UNCHANGED <<phase, mishaps>>
    \/ Mishap /\ phase' = "down" /\ UNCHANGED world

BeginSource(o) ==
    /\ phase = "trading" /\ business.halt = "none" /\ business.freeze = "none"
    /\ business.src[o].status = "none"
    /\ Trades([business EXCEPT !.src[o].status = "OPEN"])
    /\ SendOrDie([world EXCEPT !.src[o].status = "open"])

Reserved(b, o, status) ==
    LET f == <<o, b.src[o].seen + 1>> IN
    [b EXCEPT !.src[o].seen = @ + 1, !.ledger = Append(@, f),
              !.intents[f] = [NoIntent EXCEPT !.status = status]]

HearsFill(o) ==
    /\ phase = "trading" /\ business.src[o].status = "OPEN" /\ business.src[o].seen < world.src[o].fills
    /\ LET b == Reserved(business, o, "PENDING") IN
       Trades([b EXCEPT !.freeze = IF @ = "none" THEN "cycle" ELSE @,
                        !.src[o].status = IF b.src[o].seen = Ounces THEN "CLOSED" ELSE @])
    /\ UNCHANGED <<world, phase, mishaps>>

HearsEnd(o) ==
    /\ phase = "trading" /\ business.src[o].status = "OPEN"
    /\ world.src[o].status = "closed" /\ business.src[o].seen = world.src[o].fills
    /\ Trades(Released([business EXCEPT !.src[o].status = "CLOSED"]))
    /\ UNCHANGED <<world, phase, mishaps>>

\* The earliest unfinished obligation, when nothing is bound to it.
SubmitHedge(f) ==
    LET b == business
        earlier == SelectSeq(b.ledger, LAMBDA g : g \in Unfinished(b))
        a == b.intents[f].tried + 1
    IN  /\ phase = "trading" /\ b.halt = "none"
        /\ earlier # <<>> /\ Head(earlier) = f /\ b.intents[f].status = "PENDING"
        /\ Trades([b EXCEPT !.intents[f] = [@ EXCEPT !.status = "SUBMITTED", !.cid = a, !.tried = a]])
        /\ SendOrDie([world EXCEPT !.hedge[f][a] = "sent"])

HearsHedge(f) ==
    LET a == business.intents[f].cid IN
    /\ phase = "trading" /\ business.intents[f].status = "SUBMITTED"
    /\ \/ /\ world.hedge[f][a] = "FILLED"
          /\ Trades(Released([business EXCEPT !.intents[f] =
                                [@ EXCEPT !.status = "COMPLETED", !.cid = None, !.filled = TRUE]]))
       \/ /\ world.hedge[f][a] = "REJECTED"
          /\ Trades([business EXCEPT !.intents[f].status = "REJECTED", !.halt = "hedge"])
    /\ UNCHANGED <<world, phase, mishaps>>

Dies == phase' = "down" /\ receipt' = NoReceipt /\ round' = NoRound

Crash ==
    /\ phase # "down" /\ Mishap /\ Dies
    /\ UNCHANGED <<world, native, business, synced>>

PowerFails ==
    /\ business # synced /\ Mishap /\ Dies /\ business' = synced
    /\ UNCHANGED <<world, native, synced>>

-----------------------------------------------------------------------------
(* capture_startup_receipt, and then recover_for_start                     *)

Eligible(reviewed) ==
    /\ reviewed \/ (business.halt = "none" /\ business.freeze \in {"none", "cycle"})
    /\ \A o \in Orders : reviewed \/ business.src[o].status # "UNKNOWN"
    /\ \A f \in Fills :
         LET i == business.intents[f] IN
         /\ reviewed \/ i.status \notin {"UNKNOWN", "BLOCKED", "REJECTED"}
         /\ i.status = "PENDING" => i.cid = None
         /\ i.status = "SUBMITTED" => i.cid # None

RecoveredForStart(b) ==
    IF Active(b) = {} /\ Unfinished(b) = {} THEN b
    ELSE [b EXCEPT
           !.src = [o \in Orders |-> IF o \in Active(b) THEN [b.src[o] EXCEPT !.status = "UNKNOWN"]
                                     ELSE b.src[o]],
           !.intents = [f \in Fills |->
                          IF b.intents[f].status \in {"PENDING", "SUBMITTED"}
                          THEN [b.intents[f] EXCEPT !.status = "UNKNOWN"] ELSE b.intents[f]],
           !.halt = IF @ = "none" THEN "restart" ELSE @]

\* An operator may review old pauses, and name one rejected hedge order to retry.
Start(reviewed, f, a) ==
    LET b == RecoveredForStart(business)
        ticket(failed) ==
            [eligible |-> Eligible(reviewed), reviewed |-> reviewed, target |-> a, targetFill |-> f,
             halt |-> IF ~failed \/ business.halt # "none" THEN b.halt ELSE "none",
             freeze |-> business.freeze, failed |-> failed, revoked |-> FALSE]
    IN  /\ phase = "down" /\ phase' = "gated" /\ round' = NoRound
        /\ a # None => reviewed /\ business.intents[f].tried >= a
        /\ \/ Writes(b) /\ receipt' = ticket(FALSE) /\ UNCHANGED mishaps
           \/ b # business /\ Mishap /\ WritesUnsynced(b) /\ receipt' = ticket(TRUE)
    /\ UNCHANGED <<world, native>>

\* A strategy or its operator pauses the sources (_freeze_external) while the gate is closed.
NewPause ==
    /\ phase = "gated" /\ Mishap
    /\ Writes([business EXCEPT !.freeze = IF @ \in {"none", "cycle"} THEN "external" ELSE @])
    /\ receipt' = [receipt EXCEPT !.revoked = @ \/ receipt.reviewed]
    /\ round' = [round EXCEPT !.changed = @ \/ business.freeze \in {"none", "cycle"}]
    /\ UNCHANGED <<world, native, phase>>

\* _StartupReceipt.check
ReceiptHolds(b) ==
    /\ ~receipt.failed /\ ~receipt.revoked
    /\ receipt.eligible => b.halt = receipt.halt /\ b.freeze = receipt.freeze

-----------------------------------------------------------------------------
(* reconcile_startup, from the engine's own reconciliation to the last await *)

BeginRound ==
    /\ phase = "gated" /\ round.step = "idle" /\ ReceiptHolds(business)
    /\ native' = world
    /\ round' = [NoRound EXCEPT !.step = "reading"]
    /\ UNCHANGED <<world, business, synced, phase, receipt, mishaps>>

\* An event of the venues reaches the cache: _observed differs afterwards.
NativeHears ==
    /\ phase = "gated" /\ native # world /\ native' = world
    /\ round' = [round EXCEPT !.changed = TRUE]
    /\ UNCHANGED <<world, business, synced, phase, receipt, mishaps>>

CollectSource ==
    /\ round.step = "reading" /\ round.src = Unread
    /\ round' = [round EXCEPT !.src = <<world.src>>]
    /\ UNCHANGED <<world, native, business, synced, phase, receipt, mishaps>>

CollectHedge ==
    /\ round.step = "reading" /\ round.hedge = Unread
    /\ round' = [round EXCEPT !.hedge = <<world.hedge, world.foreign>>]
    /\ UNCHANGED <<world, native, business, synced, phase, receipt, mishaps>>

\* Disconnected, timed out, or a report could not be made.
RoundFails ==
    /\ round.step = "reading" /\ round' = NoRound
    /\ UNCHANGED <<world, native, business, synced, phase, receipt, mishaps>>

\* Mutant: an order that still works counts as reported.
ReportsOfClosedHedges ==
    /\ ~round.changed
    /\ round.src = <<native.src>> /\ round.hedge = <<native.hedge, native.foreign>>
    /\ \A f \in Fills, a \in Attempts : native.hedge[f][a] \notin Open

\* _complete_orders of both venues, against what was known before and is known now
ReportsComplete ==
    /\ ~round.changed
    /\ round.src = <<native.src>> /\ round.hedge = <<native.hedge, native.foreign>>
    /\ \A o \in Orders : native.src[o].status \notin Open
    /\ \A f \in Fills, a \in Attempts : native.hedge[f][a] \notin Open

-----------------------------------------------------------------------------
(* The projections                                                         *)

Withheld(b) == [b EXCEPT !.halt = IF @ = "none" THEN "held" ELSE @,
                         !.freeze = IF @ = "none" THEN "held" ELSE @]

Unseen == {o \in Orders : native.src[o].fills > business.src[o].seen}

\* The one order whose fills are missing is the last the ledger knows of, or its first.
TailAllowed(o) ==
    IF business.src[o].seen = 0 THEN business.ledger = <<>>
    ELSE Last(business.ledger)[1] = o

SourceProjectable ==
    /\ \A o \in Orders : (business.src[o].status = "none") = (native.src[o].status = "none")
    /\ \A o \in Orders : business.src[o].seen <= native.src[o].fills
    /\ Cardinality(Unseen) <= 1
    /\ \A o \in Unseen : TailAllowed(o)

\* Every missing fill is reserved in its order, and blocked.
SourceProjected ==
    IF Unseen = {} THEN business
    ELSE LET o == CHOOSE s \in Unseen : TRUE
             seen == business.src[o].seen
             fills == native.src[o].fills
         IN  [Withheld(business) EXCEPT
                !.src[o].seen = fills,
                !.ledger = @ \o [k \in 1 .. fills - seen |-> <<o, seen + k>>],
                !.intents = [f \in Fills |->
                    IF f[1] = o /\ f[2] \in seen + 1 .. fills
                    THEN [NoIntent EXCEPT !.status = "BLOCKED"] ELSE @[f]]]

HedgeProjectable(b) ==
    /\ \A f \in Fills, a \in Attempts : (a <= b.intents[f].tried) = (native.hedge[f][a] # "none")
    /\ \A f \in Fills : b.intents[f].rejected # None => native.hedge[f][b.intents[f].rejected] = "REJECTED"

\* Mutant: only orders of which nothing is doubtful are looked for.
MissingOfSubmitted(b) == {f \in Fills : LET i == b.intents[f] IN
    i.status = "SUBMITTED" /\ ~i.filled /\ native.hedge[f][i.cid] = "FILLED"}

Missing(b) == {f \in Fills : LET i == b.intents[f] IN
                  i.cid # None /\ ~i.filled /\ native.hedge[f][i.cid] = "FILLED"}

HedgeProjected(b) ==
    IF Missing(b) = {} THEN b
    ELSE LET h == Withheld(b) IN
         [h EXCEPT !.intents = [f \in Fills |->
            IF f \in Missing(b) THEN [h.intents[f] EXCEPT !.filled = TRUE, !.status = "BLOCKED"]
            ELSE h.intents[f]]]

\* claim_projected: a pause the projection itself set belongs to the receipt.
Claims(b) ==
    IF ~receipt.eligible THEN receipt
    ELSE [receipt EXCEPT !.halt = IF business.halt = "none" /\ b.halt = "held" THEN "held" ELSE @,
                         !.freeze = IF business.freeze = "none" /\ b.freeze = "held" THEN "held" ELSE @]

-----------------------------------------------------------------------------
(* _settle_completed                                                       *)

\* The rejected order the operator named is archived, and its leg is free again.
Retries(f, i) == receipt.target # None /\ receipt.targetFill = f /\ i.rejected = None

Archived(f, i) ==
    IF Retries(f, i) THEN [i EXCEPT !.rejected = receipt.target, !.cid = None, !.status = "PENDING"]
    ELSE i

LegOrders(i) == {a \in Attempts : a <= i.tried /\ a # i.rejected}

IntentSettles(f, i) ==
    LET j == Archived(f, i) IN
    /\ Retries(f, i) => /\ i.cid = receipt.target /\ ~i.filled
                        /\ native.hedge[f][i.cid] = "REJECTED"
    /\ receipt.target # None /\ receipt.targetFill = f => j.rejected = receipt.target
    /\ \A a \in LegOrders(j) : native.hedge[f][a] = "FILLED"

Settled(b) ==
    LET intents == [f \in Fills |->
            LET j == Archived(f, b.intents[f]) IN
            IF j.status = "none" THEN j
            ELSE [j EXCEPT !.status = IF j.filled THEN "COMPLETED" ELSE "PENDING", !.cid = None]]
        owed == \E f \in Fills : intents[f].status = "PENDING"
    IN  [b EXCEPT !.src = [o \in Orders |-> IF b.src[o].status = "none" THEN b.src[o]
                                            ELSE [b.src[o] EXCEPT !.status = "CLOSED"]],
                  !.intents = intents, !.halt = "none",
                  !.freeze = IF owed THEN "cycle" ELSE "none"]

\* Nothing was missing and nothing is left to do: no receipt is needed.
Clean(b) == b = business /\ CycleComplete(b) /\ b.freeze = "none"

\* check_rejected_retry_execution: a retry that could not be executed now, for want of
\* a session, permission, quote or capacity, is refused, and may be tried again.
MayRefuseRetry(b) ==
    /\ receipt.eligible
    /\ \E f \in Fills : Retries(f, b.intents[f]) /\ b.intents[f].cid = receipt.target

MayRelease(b) ==
    /\ ~native.foreign     \* the positions are those of the business fills
    /\ \/ /\ receipt.eligible
          /\ \A f \in Fills : b.intents[f].status # "none" => IntentSettles(f, b.intents[f])
       \/ ~receipt.eligible /\ Clean(b)

\* The rest of reconcile_startup, and the release of the gate behind it, is one
\* turn: it proves, projects, projects and settles, until something fails.
FinishRound ==
    LET s == SourceProjected  h == HedgeProjected(s)
        settled == IF receipt.eligible THEN Settled(h) ELSE h
        claimed == Claims(h)
        Stops == round' = NoRound /\ phase' = "gated"
        FailsSync == receipt' = [receipt EXCEPT !.failed = TRUE]
    IN
    /\ round.step = "reading" /\ round.src # Unread /\ round.hedge # Unread
    /\ \/ /\ ~(ReportsComplete /\ SourceProjectable) /\ Stops
          /\ UNCHANGED <<business, synced, receipt, mishaps>>
       \/ /\ ReportsComplete /\ SourceProjectable
          /\ \/ Stops /\ Mishap /\ s # business /\ WritesUnsynced(s) /\ FailsSync
             \/ /\ ~HedgeProjectable(s) /\ Writes(s) /\ Stops
                /\ receipt' = Claims(s) /\ UNCHANGED mishaps
             \/ /\ HedgeProjectable(s) /\ Stops /\ Mishap /\ h # s
                /\ \/ WritesUnsynced(h) /\ FailsSync
                   \/ Writes(s) /\ receipt' = Claims(s)
             \/ /\ HedgeProjectable(s) /\ (~MayRelease(h) \/ MayRefuseRetry(h)) /\ Writes(h) /\ Stops
                /\ receipt' = claimed /\ UNCHANGED mishaps
             \/ /\ HedgeProjectable(s) /\ MayRelease(h) /\ settled # h /\ Mishap /\ Stops
                /\ \/ WritesUnsynced(settled) /\ FailsSync
                   \/ Writes(h) /\ receipt' = claimed
             \/ /\ HedgeProjectable(s) /\ MayRelease(h) /\ ReceiptHolds(business)
                /\ Writes(settled) /\ round' = NoRound /\ phase' = "trading"
                /\ UNCHANGED <<receipt, mishaps>>
    /\ UNCHANGED <<world, native>>

-----------------------------------------------------------------------------

RecoveryInit ==
    /\ world = [src |-> [o \in Orders |-> [status |-> "none", fills |-> 0]],
                hedge |-> [f \in Fills |-> [a \in Attempts |-> "none"]], foreign |-> FALSE]
    /\ native = world
    /\ business = [src |-> [o \in Orders |-> [status |-> "none", seen |-> 0]], ledger |-> <<>>,
               intents |-> [f \in Fills |-> NoIntent], halt |-> "none", freeze |-> "none"]
    /\ synced = business /\ phase = "trading" /\ receipt = NoReceipt /\ round = NoRound
    /\ mishaps = 0

RecoveryNext ==
    \/ \E o \in Orders :
         SourceFills(o) \/ SourceEnds(o) \/ BeginSource(o) \/ HearsFill(o) \/ HearsEnd(o)
    \/ \E f \in Fills :
         \/ SubmitHedge(f) \/ HearsHedge(f)
         \/ \E a \in Attempts : BrokerDecides(f, a) \/ Start(TRUE, f, a)
    \/ \E reviewed \in BOOLEAN : Start(reviewed, NoFill, None)
    \/ ForeignTrade \/ Crash \/ PowerFails \/ NewPause
    \/ BeginRound \/ NativeHears \/ CollectSource \/ CollectHedge \/ RoundFails \/ FinishRound

-----------------------------------------------------------------------------

\* Whatever crashes, reviews and retries there were, no ounce is hedged twice, and
\* a process that trades has every hedge order of its fills in its books.
HedgedOnce ==
    \A f \in Fills :
        /\ Cardinality({a \in Attempts : world.hedge[f][a] \in {"sent", "FILLED"}}) <= 1
        /\ phase = "trading" =>
             \A a \in Attempts : world.hedge[f][a] # "none" => a <= business.intents[f].tried

\* The gate opens on nothing but the venues' own truth: every source order is over
\* and fully in the file, every hedge order has its outcome there, what is left is
\* owed and unbound; and neither a failed publication nor a pause set during this
\* start is forgotten.
GateOpensOnTruth ==
    [][phase = "gated" /\ phase' = "trading" =>
         /\ \A o \in Orders : world.src[o].status # "open" /\ business'.src[o].seen = world.src[o].fills
         /\ \A f \in Fills, a \in Attempts :
              /\ world.hedge[f][a] # "sent"
              /\ world.hedge[f][a] = "FILLED" => business'.intents[f].status = "COMPLETED"
         /\ business'.ledger # <<>> => Unfinished(business') = {} \/ business'.freeze = "cycle"
         /\ ~receipt.failed /\ ~receipt.revoked]_recoveryVars

-----------------------------------------------------------------------------
(* The inductive invariant behind both (StartupRecovery_proofs).           *)

RecoverySpec == RecoveryInit /\ [][RecoveryNext]_recoveryVars

Intents ==
    [status : {"none", "PENDING", "SUBMITTED", "COMPLETED", "REJECTED", "UNKNOWN", "BLOCKED"},
     cid : {None} \union Attempts, tried : {0} \union Attempts,
     rejected : {None} \union Attempts, filled : BOOLEAN]
BusinessFiles ==
    [src : [Orders -> [status : {"none", "OPEN", "CLOSED", "UNKNOWN"}, seen : 0 .. Ounces]],
     ledger : Seq(Fills), intents : [Fills -> Intents],
     halt : {"none", "hedge", "restart", "held"},
     freeze : {"none", "cycle", "external", "held"}]
Worlds ==
    [src : [Orders -> [status : {"none", "open", "closed"}, fills : 0 .. Ounces]],
     hedge : [Fills -> [Attempts -> {"none", "sent", "FILLED", "REJECTED"}]],
     foreign : BOOLEAN]

\* An intent knows every order of its fill that was ever sent, and the rejected one it has
\* archived is rejected.  Only its last order may still have an outcome that is not in the
\* book; what is pending has none like that.
IntentFits(i, orders) ==
    /\ i.status = "none" => i = NoIntent
    /\ \A a \in Attempts : orders[a] # "none" => a <= i.tried
    /\ i.rejected # None => orders[i.rejected] = "REJECTED"
    /\ \A a \in Attempts : a <= i.tried /\ a # i.rejected =>
         a = i.tried /\ (i.filled \/ i.cid = a) /\ i.status # "PENDING"

\* A copy of the business file: it names every source order that went out, and owes
\* nothing for a fill it has not seen.
BookFits(b, w) ==
    /\ b \in BusinessFiles
    /\ \A o \in Orders : w.src[o].status # "none" => b.src[o].status # "none"
    /\ \A f \in Fills : IntentFits(b.intents[f], w.hedge[f])
    /\ \A f \in Fills : f[2] > b.src[f[1]].seen => b.intents[f] = NoIntent

\* The engine's cache is behind the venues, and an outcome it has heard is final.
Behind(n, w) ==
    /\ \A o \in Orders : n.src[o].status = "closed" => w.src[o] = n.src[o]
    /\ \A f \in Fills, a \in Attempts :
         n.hedge[f][a] \in {"FILLED", "REJECTED"} => w.hedge[f][a] = n.hedge[f][a]

Possible(w) ==
    /\ w \in Worlds
    /\ \A o \in Orders : w.src[o].status = "none" => w.src[o].fills = 0
    /\ \A f \in Fills, a, b \in Attempts :
         {w.hedge[f][a], w.hedge[f][b]} \subseteq {"sent", "FILLED"} => a = b

Receipts ==
    [eligible : BOOLEAN, reviewed : BOOLEAN, target : {None} \union Attempts,
     targetFill : {NoFill} \union Fills, halt : {"none", "hedge", "restart", "held"},
     freeze : {"none", "cycle", "external", "held"}, failed : BOOLEAN, revoked : BOOLEAN]

\* The order an operator named is one its intent has sent.
ReceiptFits ==
    /\ receipt \in Receipts
    /\ phase = "gated" /\ receipt.target # None =>
         receipt.targetFill \in Fills /\ business.intents[receipt.targetFill].tried >= 1

\* A round goes on only while the gate is closed: whoever dies forgets it.
GatedRound == round.step = "reading" => phase = "gated"

RecoveryInv ==
    /\ Possible(world) /\ Possible(native) /\ Behind(native, world)
    /\ BookFits(business, world) /\ BookFits(synced, world)
    /\ ReceiptFits
=============================================================================
