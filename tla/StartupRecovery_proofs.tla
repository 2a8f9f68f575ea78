------------------------ MODULE StartupRecovery_proofs ------------------------
(***************************************************************************)
(* Proofs about restarts, for every finite set of source orders, every     *)
(* quantity, any number of crashes, failed writes, pauses, foreign trades. *)
(* The argument is about each copy of the business file by itself: both    *)
(* know every order that was ever sent, so whichever a crash leaves behind *)
(* nothing is owed that may already have been hedged.                      *)
(***************************************************************************)
EXTENDS StartupRecovery, FiniteSetTheorems, SequenceTheorems, TLAPS

SourceStates == [status : {"none", "OPEN", "CLOSED", "UNKNOWN"}, seen : 0 .. Ounces]

-----------------------------------------------------------------------------
(* Copies of the business file                                             *)

\* A copy whose intents and seen fills stay fits as before.
LEMMA SameFits ==
  ASSUME NEW b, NEW w, BookFits(b, w), NEW c \in BusinessFiles, c.intents = b.intents,
         \A o \in Orders : /\ c.src[o].seen = b.src[o].seen
                           /\ b.src[o].status # "none" => c.src[o].status # "none"
  PROVE  BookFits(c, w)
  <1>1. \A f \in Fills : f[1] \in Orders
    BY DEF Fills
  <1> QED
    BY <1>1 DEF BookFits

\* One intent changes: of a fill the copy has seen.
LEMMA IntentChanges ==
  ASSUME NEW b, NEW w, BookFits(b, w), NEW c \in BusinessFiles, NEW f \in Fills,
         \A g \in Fills : g # f => c.intents[g] = b.intents[g],
         IntentFits(c.intents[f], w.hedge[f]), b.intents[f].status # "none",
         \A o \in Orders : /\ c.src[o].seen = b.src[o].seen
                           /\ b.src[o].status # "none" => c.src[o].status # "none"
  PROVE  BookFits(c, w)
  <1>1. \A g \in Fills : g[1] \in Orders
    BY DEF Fills
  <1>2. \A g \in Fills : IntentFits(c.intents[g], w.hedge[g])
    BY DEF BookFits
  <1>3. ASSUME NEW g \in Fills, g[2] > c.src[g[1]].seen PROVE c.intents[g] = NoIntent
    <2>1. b.intents[g] = NoIntent
      BY <1>1, <1>3 DEF BookFits
    <2>2. g # f
      BY <2>1 DEF NoIntent
    <2> QED
      BY <2>1, <2>2
  <1> QED
    BY <1>1, <1>2, <1>3 DEF BookFits

\* The venues' own steps: what was sent gets its outcome.
LEMMA WorldChanges ==
  ASSUME NEW b, NEW w, NEW v, BookFits(b, w),
         \A o \in Orders : v.src[o].status # "none" => w.src[o].status # "none",
         \A f \in Fills, a \in Attempts :
            /\ v.hedge[f][a] # "none" => w.hedge[f][a] # "none"
            /\ w.hedge[f][a] = "REJECTED" => v.hedge[f][a] = "REJECTED"
  PROVE  BookFits(b, v)
  <1>1. \A f \in Fills : b.intents[f].rejected \in {None} \union Attempts
    BY DEF BookFits, BusinessFiles, Intents
  <1>2. ASSUME NEW f \in Fills PROVE IntentFits(b.intents[f], v.hedge[f])
    BY <1>1 DEF BookFits, IntentFits
  <1> QED
    BY <1>2 DEF BookFits

\* Nothing that is pending can have been executed.
LEMMA PendingIsFree ==
  ASSUME NEW i \in Intents, NEW h, IntentFits(i, h), i.status = "PENDING"
  PROVE  /\ i.tried + 1 \in Attempts /\ h[i.tried + 1] = "none"
         /\ \A a \in Attempts : h[a] \in {"none", "REJECTED"}
         /\ \A a \in Attempts : a <= i.tried => a = i.rejected
  BY DEF IntentFits, Intents, Attempts, None

-----------------------------------------------------------------------------
(* The venues                                                              *)

SourceWorlds == [status : {"none", "open", "closed"}, fills : 0 .. Ounces]

LEMMA SourceMoves ==
  ASSUME NEW w \in Worlds, NEW o \in Orders, NEW r \in SourceWorlds,
         NEW v, v = [w EXCEPT !.src = [w.src EXCEPT ![o] = r]]
  PROVE  /\ v \in Worlds /\ v.hedge = w.hedge /\ v.foreign = w.foreign
         /\ v.src[o] = r /\ \A p \in Orders : p # o => v.src[p] = w.src[p]
  BY DEF Worlds, SourceWorlds

LEMMA VenueSteps ==
  ASSUME Ounces \in Nat, RecoveryInv,
         ForeignTrade \/ \E o \in Orders : SourceFills(o) \/ SourceEnds(o)
  PROVE  RecoveryInv'
  <1>1. UNCHANGED <<native, business, synced, phase, receipt>>
    BY DEF ForeignTrade, SourceFills, SourceEnds
  <1> DEFINE Moves == /\ world' \in Worlds /\ world'.hedge = world.hedge
                      /\ \A o \in Orders :
                           /\ world'.src[o].status = "none" <=> world.src[o].status = "none"
                           /\ world.src[o].status # "open" => world'.src[o] = world.src[o]
  <1>2. Moves
    <2>1. CASE ForeignTrade
      BY <2>1 DEF RecoveryInv, Possible, Worlds, ForeignTrade
    <2>2. ASSUME NEW o \in Orders, SourceFills(o) PROVE Moves
      <3> DEFINE n == world.src[o].fills + 1
                 s == IF n = Ounces THEN "closed" ELSE world.src[o].status
                 r == [world.src[o] EXCEPT !.fills = n, !.status = s]
      <3>1. /\ world \in Worlds /\ world.src[o] \in SourceWorlds /\ world.src[o].status = "open"
            /\ world.src[o].fills < Ounces
        BY <2>2 DEF RecoveryInv, Possible, Worlds, SourceFills, SourceWorlds
      <3>2. n \in 0 .. Ounces /\ s \in {"open", "closed"}
        BY <3>1 DEF SourceWorlds
      <3>3. world' = [world EXCEPT !.src = [world.src EXCEPT ![o] = r]]
        BY <2>2, <3>1 DEF SourceFills, Worlds
      <3> HIDE DEF n, s
      <3>4. r \in SourceWorlds /\ r.status \in {"open", "closed"}
        BY <3>1, <3>2 DEF SourceWorlds
      <3> HIDE DEF r
      <3> QED
        BY <3>1, <3>3, <3>4, SourceMoves
    <2>3. ASSUME NEW o \in Orders, SourceEnds(o) PROVE Moves
      <3> DEFINE r == [world.src[o] EXCEPT !.status = "closed"]
      <3>1. /\ world \in Worlds /\ world.src[o] \in SourceWorlds /\ world.src[o].status = "open"
            /\ world' = [world EXCEPT !.src = [world.src EXCEPT ![o] = r]]
        BY <2>3 DEF RecoveryInv, Possible, Worlds, SourceEnds, SourceWorlds
      <3>2. r \in SourceWorlds /\ r.status = "closed"
        BY <3>1 DEF SourceWorlds
      <3> HIDE DEF r
      <3> QED
        BY <3>1, <3>2, SourceMoves
    <2> QED
      BY <2>1, <2>2, <2>3
  <1>3. Possible(world') /\ Behind(native, world')
    BY <1>2 DEF RecoveryInv, Possible, Behind
  <1>4. BookFits(business, world') /\ BookFits(synced, world')
    BY <1>2, WorldChanges DEF RecoveryInv
  <1> QED
    BY <1>1, <1>3, <1>4 DEF RecoveryInv, ReceiptFits

LEMMA HedgeMoves ==
  ASSUME NEW w \in Worlds, NEW f \in Fills, NEW a \in Attempts,
         NEW x \in {"none", "sent", "FILLED", "REJECTED"},
         NEW v, v = [w EXCEPT !.hedge[f][a] = x]
  PROVE  /\ v \in Worlds /\ v.src = w.src /\ v.foreign = w.foreign /\ v.hedge[f][a] = x
         /\ \A g \in Fills, c \in Attempts : g # f \/ c # a => v.hedge[g][c] = w.hedge[g][c]
  BY DEF Worlds

LEMMA BrokerStep ==
  ASSUME RecoveryInv, NEW f \in Fills, NEW a \in Attempts, BrokerDecides(f, a)
  PROVE  RecoveryInv'
  <1>1. UNCHANGED <<native, business, synced, phase, receipt>> /\ world.hedge[f][a] = "sent"
    BY DEF BrokerDecides
  <1>2. PICK x \in {"FILLED", "REJECTED"} : world' = [world EXCEPT !.hedge[f][a] = x]
    BY DEF BrokerDecides
  <1>3. /\ world' \in Worlds /\ world'.src = world.src /\ world'.hedge[f][a] = x
        /\ \A g \in Fills, c \in Attempts :
             g # f \/ c # a => world'.hedge[g][c] = world.hedge[g][c]
    BY <1>2, HedgeMoves DEF RecoveryInv, Possible
  <1>4. Possible(world')
    BY <1>1, <1>3 DEF RecoveryInv, Possible
  <1>5. Behind(native, world')
    BY <1>1, <1>3 DEF RecoveryInv, Behind
  <1>6. BookFits(business, world') /\ BookFits(synced, world')
    BY <1>1, <1>3, WorldChanges DEF RecoveryInv
  <1> QED
    BY <1>1, <1>4, <1>5, <1>6 DEF RecoveryInv, ReceiptFits

-----------------------------------------------------------------------------
(* Crashes, and what a round reads                                         *)

LEMMA DeathSteps ==
  ASSUME RecoveryInv, Crash \/ PowerFails
  PROVE  RecoveryInv'
  <1>1. /\ phase' = "down" /\ UNCHANGED <<world, native, synced>> /\ business' \in {business, synced}
        /\ receipt' = NoReceipt
    BY DEF Crash, PowerFails, Dies
  <1>2. NoReceipt \in Receipts
    BY DEF NoReceipt, Receipts
  <1> QED
    BY <1>1, <1>2 DEF RecoveryInv, ReceiptFits

LEMMA ReadingSteps ==
  ASSUME RecoveryInv,
         BeginRound \/ NativeHears \/ CollectSource \/ CollectHedge \/ RoundFails
  PROVE  RecoveryInv'
  <1>1. UNCHANGED <<world, business, synced, phase, receipt>> /\ native' \in {native, world}
    BY DEF BeginRound, NativeHears, CollectSource, CollectHedge, RoundFails
  <1>2. Possible(native') /\ Behind(native', world)
    BY <1>1 DEF RecoveryInv, Behind
  <1> QED
    BY <1>1, <1>2 DEF RecoveryInv, ReceiptFits

-----------------------------------------------------------------------------
(* The process while it trades                                             *)

LEMMA BeginSteps ==
  ASSUME RecoveryInv, NEW o \in Orders, BeginSource(o)
  PROVE  RecoveryInv'
  <1> DEFINE r == [business.src[o] EXCEPT !.status = "OPEN"]
             s == [business.src EXCEPT ![o] = r]
             v == [world.src[o] EXCEPT !.status = "open"]
  <1>1. /\ business \in BusinessFiles /\ world \in Worlds /\ business.src[o] \in SourceStates
        /\ world.src[o] \in SourceWorlds /\ business.src[o].status = "none" /\ phase = "trading"
        /\ UNCHANGED <<native, receipt>>
    BY DEF RecoveryInv, BookFits, Possible, BusinessFiles, Worlds, SourceStates, SourceWorlds,
           BeginSource, Trades
  <1>2. world.src[o].status = "none" /\ native.src[o].status # "closed"
    BY <1>1 DEF RecoveryInv, BookFits, Behind
  <1>3. /\ r \in SourceStates /\ r.status = "OPEN" /\ r.seen = business.src[o].seen
        /\ v \in SourceWorlds /\ v.status = "open"
    BY <1>1 DEF SourceStates, SourceWorlds
  <1>4. business' = [business EXCEPT !.src = s] /\ synced' = business'
    BY DEF BeginSource, Trades, Writes
  <1>5. \/ world' = world /\ phase' = "down"
        \/ world' = [world EXCEPT !.src = [world.src EXCEPT ![o] = v]] /\ phase' = "trading"
    BY <1>1 DEF BeginSource, SendOrDie
  <1> HIDE DEF r, v
  <1> s = [business.src EXCEPT ![o] = r]
    OBVIOUS
  <1> HIDE DEF s
  <1>6. /\ s \in [Orders -> SourceStates] /\ s[o] = r
        /\ \A p \in Orders : p # o => s[p] = business.src[p]
    BY <1>1, <1>3 DEF BusinessFiles, SourceStates
  <1>7. business' \in BusinessFiles /\ business'.src = s /\ business'.intents = business.intents
    BY <1>1, <1>4, <1>6 DEF BusinessFiles, SourceStates
  <1>8. BookFits(business', world)
    BY <1>1, <1>3, <1>6, <1>7, SameFits DEF RecoveryInv
  <1>9. CASE world' = world /\ phase' = "down"
    BY <1>1, <1>4, <1>8, <1>9 DEF RecoveryInv, ReceiptFits
  <1>10. CASE /\ world' = [world EXCEPT !.src = [world.src EXCEPT ![o] = v]]
              /\ phase' = "trading"
    <2>1. /\ world' \in Worlds /\ world'.hedge = world.hedge /\ world'.src[o] = v
          /\ \A p \in Orders : p # o => world'.src[p] = world.src[p]
      BY <1>1, <1>3, <1>10, SourceMoves
    <2>2. Possible(world') /\ Behind(native, world')
      BY <1>2, <1>3, <2>1 DEF RecoveryInv, Possible, Behind
    <2>3. BookFits(business', world')
      BY <1>3, <1>6, <1>7, <1>8, <2>1 DEF BookFits
    <2> QED
      BY <1>1, <1>4, <1>10, <2>2, <2>3 DEF RecoveryInv, ReceiptFits
  <1> QED
    BY <1>5, <1>9, <1>10

LEMMA ReleasedFits ==
  ASSUME NEW b, NEW w, BookFits(b, w)
  PROVE  BookFits(Released(b), w)
  <1>1. Released(b) \in BusinessFiles /\ Released(b).intents = b.intents /\ Released(b).src = b.src
    BY DEF Released, BookFits, BusinessFiles
  <1> QED
    BY <1>1, SameFits

LEMMA HearsEndSteps ==
  ASSUME RecoveryInv, NEW o \in Orders, HearsEnd(o)
  PROVE  RecoveryInv'
  <1> DEFINE r == [business.src[o] EXCEPT !.status = "CLOSED"]
             s == [business.src EXCEPT ![o] = r]
             b == [business EXCEPT !.src = s]
  <1>1. /\ business \in BusinessFiles /\ business.src[o] \in SourceStates
        /\ UNCHANGED <<world, native, phase, receipt>> /\ phase = "trading"
    BY DEF RecoveryInv, BookFits, BusinessFiles, SourceStates, HearsEnd, Trades
  <1>2. r \in SourceStates /\ r.status = "CLOSED" /\ r.seen = business.src[o].seen
    BY <1>1 DEF SourceStates
  <1>3. business' = Released(b) /\ synced' = business'
    BY DEF HearsEnd, Trades, Writes
  <1> HIDE DEF r
  <1>4. /\ s \in [Orders -> SourceStates] /\ s[o] = r
        /\ \A p \in Orders : p # o => s[p] = business.src[p]
    BY <1>1, <1>2 DEF BusinessFiles, SourceStates
  <1> HIDE DEF s
  <1>5. b \in BusinessFiles /\ b.src = s /\ b.intents = business.intents
    BY <1>1, <1>4 DEF BusinessFiles, SourceStates
  <1> HIDE DEF b
  <1>6. BookFits(b, world)
    BY <1>2, <1>4, <1>5, SameFits DEF RecoveryInv
  <1> QED
    BY <1>1, <1>3, <1>6, ReleasedFits DEF RecoveryInv, ReceiptFits

LEMMA HearsHedgeSteps ==
  ASSUME RecoveryInv, NEW f \in Fills, HearsHedge(f)
  PROVE  RecoveryInv'
  <1> DEFINE i == business.intents[f]
             h == world.hedge[f]
  <1>1. /\ business \in BusinessFiles /\ i \in Intents /\ i.status = "SUBMITTED" /\ IntentFits(i, h)
        /\ UNCHANGED <<world, native, phase, receipt>> /\ phase = "trading"
    BY DEF RecoveryInv, BookFits, BusinessFiles, HearsHedge, Trades
  <1>2. CASE h[i.cid] = "FILLED" /\ business' = Released([business EXCEPT !.intents = [business.intents EXCEPT ![f] =
                              [i EXCEPT !.status = "COMPLETED", !.cid = None, !.filled = TRUE]]])
             /\ synced' = business'
    <2> DEFINE j == [i EXCEPT !.status = "COMPLETED", !.cid = None, !.filled = TRUE]
               t == [business.intents EXCEPT ![f] = j]
               b == [business EXCEPT !.intents = t]
    <2>1. j \in Intents /\ IntentFits(j, h)
      BY <1>1 DEF Intents, IntentFits
    <2> HIDE DEF j
    <2>2. /\ t \in [Fills -> Intents] /\ t[f] = j
          /\ \A g \in Fills : g # f => t[g] = business.intents[g]
      BY <1>1, <2>1 DEF BusinessFiles
    <2>3. business' = Released(b)
      BY <1>2 DEF j
    <2> HIDE DEF t
    <2>4. b \in BusinessFiles /\ b.intents = t /\ b.src = business.src
      BY <1>1, <2>2 DEF BusinessFiles
    <2> HIDE DEF b
    <2>5. BookFits(b, world)
      BY <1>1, <2>1, <2>2, <2>4, IntentChanges DEF RecoveryInv
    <2> QED
      BY <1>1, <1>2, <2>3, <2>5, ReleasedFits DEF RecoveryInv, ReceiptFits
  <1>3. CASE business' = [business EXCEPT !.intents = [business.intents EXCEPT ![f] =
                              [i EXCEPT !.status = "REJECTED"]], !.halt = "hedge"]
             /\ synced' = business'
    <2> DEFINE j == [i EXCEPT !.status = "REJECTED"]
               t == [business.intents EXCEPT ![f] = j]
    <2>1. j \in Intents /\ IntentFits(j, h)
      BY <1>1 DEF Intents, IntentFits, NoIntent
    <2>2. business' = [business EXCEPT !.intents = t, !.halt = "hedge"]
      BY <1>3
    <2> HIDE DEF j
    <2>3. /\ t \in [Fills -> Intents] /\ t[f] = j
          /\ \A g \in Fills : g # f => t[g] = business.intents[g]
      BY <1>1, <2>1 DEF BusinessFiles
    <2> HIDE DEF t
    <2>4. business' \in BusinessFiles /\ business'.intents = t /\ business'.src = business.src
      BY <1>1, <2>2, <2>3 DEF BusinessFiles
    <2>5. BookFits(business', world)
      <3>1. PICK c : c = business'
        OBVIOUS
      <3>2. BookFits(c, world)
        BY <3>1, <1>1, <2>1, <2>3, <2>4, IntentChanges DEF RecoveryInv
      <3> QED
        BY <3>1, <3>2
    <2> QED
      BY <1>1, <1>3, <2>5 DEF RecoveryInv, ReceiptFits
  <1> QED
    BY <1>2, <1>3 DEF HearsHedge, Trades, Writes

\* A fill is reserved as the next one of its order, and owes what nobody has sent.
LEMMA HearsFillSteps ==
  ASSUME Ounces \in Nat, RecoveryInv, NEW o \in Orders, HearsFill(o)
  PROVE  RecoveryInv'
  <1> DEFINE n == business.src[o].seen + 1
             f == <<o, n>>
             j == [NoIntent EXCEPT !.status = "PENDING"]
             r == [business.src[o] EXCEPT !.seen = n]
             s == [business.src EXCEPT ![o] = r]
             t == [business.intents EXCEPT ![f] = j]
             l == Append(business.ledger, f)
             b == [business EXCEPT !.src = s, !.ledger = l, !.intents = t]
             q == IF n = Ounces THEN "CLOSED" ELSE r.status
             z == IF b.freeze = "none" THEN "cycle" ELSE b.freeze
             v == [r EXCEPT !.status = q]
             u == [s EXCEPT ![o] = v]
  <1>1. /\ business \in BusinessFiles /\ world \in Worlds /\ business.src[o] \in SourceStates
        /\ world.src[o] \in SourceWorlds /\ business.src[o].seen < world.src[o].fills
        /\ business.src[o].status = "OPEN" /\ UNCHANGED <<world, native, phase, receipt>>
        /\ phase = "trading"
    BY DEF RecoveryInv, BookFits, Possible, BusinessFiles, Worlds, SourceStates, SourceWorlds,
           HearsFill, Trades
  <1>2. /\ n \in 1 .. Ounces /\ n \in 0 .. Ounces /\ n > business.src[o].seen
        /\ f \in Fills /\ f[1] = o /\ f[2] = n
    BY <1>1 DEF SourceStates, SourceWorlds, Fills
  <1>3. Reserved(business, o, "PENDING") = b
    BY DEF Reserved
  <1> DEFINE M(c) == [c EXCEPT !.freeze = IF @ = "none" THEN "cycle" ELSE @,
                        !.src[o].status = IF c.src[o].seen = Ounces THEN "CLOSED" ELSE @]
             m == M(b)
  <1>4. synced' = business' /\ business' = m
    <2> DEFINE c == Reserved(business, o, "PENDING")
    <2>1. synced' = business' /\ business' = M(c)
      BY DEF HearsFill, Trades, Writes
    <2> HIDE DEF M, b, c
    <2>2. c = b
      BY <1>3 DEF c
    <2> QED
      BY <2>1, <2>2
  <1> HIDE DEF n
  <1>5. j \in Intents /\ j.tried = 0 /\ j.rejected = None /\ j.status = "PENDING"
    BY DEF Intents, NoIntent, None
  <1>6. r \in SourceStates /\ r.seen = n /\ r.status = "OPEN"
    BY <1>1, <1>2 DEF SourceStates
  <1>7. /\ q \in {"OPEN", "CLOSED"} /\ v \in SourceStates /\ v.seen = n
        /\ v.status \in {"OPEN", "CLOSED"}
    BY <1>6 DEF SourceStates
  <1> HIDE DEF j, r, f
  <1>8. /\ s \in [Orders -> SourceStates] /\ s[o] = r
        /\ \A p \in Orders : p # o => s[p] = business.src[p]
    BY <1>1, <1>6 DEF BusinessFiles, SourceStates
  <1>9. /\ t \in [Fills -> Intents] /\ t[f] = j
        /\ \A g \in Fills : g # f => t[g] = business.intents[g]
    BY <1>1, <1>2, <1>5 DEF BusinessFiles
  <1>10. l \in Seq(Fills)
    BY <1>1, <1>2 DEF BusinessFiles
  <1> HIDE DEF s, t, l
  <1>11. b \in BusinessFiles /\ b.src = s /\ b.intents = t
    BY <1>1, <1>8, <1>9, <1>10 DEF BusinessFiles, SourceStates
  <1>12. m = [b EXCEPT !.freeze = z, !.src = u]
    BY <1>6, <1>8, <1>11
  <1>13. z \in {"none", "cycle", "external", "held"}
    BY <1>11 DEF BusinessFiles
  <1> HIDE DEF v, b, z, m
  <1>14. /\ u \in [Orders -> SourceStates] /\ u[o] = v
         /\ \A p \in Orders : p # o => u[p] = business.src[p]
    BY <1>7, <1>8
  <1> HIDE DEF u
  <1>15. business' \in BusinessFiles /\ business'.src = u /\ business'.intents = t
    BY <1>4, <1>11, <1>12, <1>13, <1>14 DEF BusinessFiles, SourceStates
  <1>16. business.intents[f] = NoIntent
    BY <1>1, <1>2 DEF RecoveryInv, BookFits
  <1>17. IntentFits(j, world.hedge[f])
    <2>1. \A a \in Attempts : world.hedge[f][a] = "none"
      BY <1>2, <1>16 DEF RecoveryInv, BookFits, IntentFits, NoIntent, Attempts
    <2> QED
      BY <1>5, <2>1 DEF IntentFits, Attempts, None
  <1>18. \A g \in Fills : IntentFits(t[g], world.hedge[g])
    BY <1>9, <1>17 DEF RecoveryInv, BookFits
  <1>19. ASSUME NEW g \in Fills, g[2] > u[g[1]].seen PROVE t[g] = NoIntent
    <2>1. g[1] \in Orders /\ g[2] \in 1 .. Ounces /\ g = <<g[1], g[2]>>
      BY DEF Fills
    <2>2. business.src[g[1]].seen \in 0 .. Ounces
      BY <1>1, <2>1 DEF BusinessFiles
    <2>3. CASE g[1] = o
      <3>1. g # f /\ g[2] > business.src[g[1]].seen
        BY <1>1, <1>2, <1>7, <1>14, <1>19, <2>1, <2>2, <2>3
      <3> QED
        BY <1>9, <3>1 DEF RecoveryInv, BookFits
    <2>4. CASE g[1] # o
      <3>1. g # f /\ g[2] > business.src[g[1]].seen
        BY <1>2, <1>14, <1>19, <2>1, <2>4
      <3> QED
        BY <1>9, <3>1 DEF RecoveryInv, BookFits
    <2> QED
      BY <2>3, <2>4
  <1>20. BookFits(business', world)
    BY <1>7, <1>18, <1>19, <1>14, <1>15 DEF RecoveryInv, BookFits
  <1> QED
    BY <1>1, <1>4, <1>20 DEF RecoveryInv, ReceiptFits

LEMMA SubmitSteps ==
  ASSUME RecoveryInv, NEW f \in Fills, SubmitHedge(f)
  PROVE  RecoveryInv'
  <1> DEFINE i == business.intents[f]
             a == i.tried + 1
             j == [i EXCEPT !.status = "SUBMITTED", !.cid = a, !.tried = a]
             t == [business.intents EXCEPT ![f] = j]
  <1>1. /\ business \in BusinessFiles /\ world \in Worlds /\ i \in Intents /\ i.status = "PENDING"
        /\ IntentFits(i, world.hedge[f]) /\ UNCHANGED <<native, receipt>> /\ phase = "trading"
    BY DEF RecoveryInv, BookFits, Possible, BusinessFiles, SubmitHedge, Trades
  <1>2. /\ a \in Attempts /\ world.hedge[f][a] = "none"
        /\ \A c \in Attempts : world.hedge[f][c] \in {"none", "REJECTED"}
        /\ \A c \in Attempts : c <= i.tried => c = i.rejected
    BY <1>1, PendingIsFree
  <1>3. business' = [business EXCEPT !.intents = t] /\ synced' = business'
    BY DEF SubmitHedge, Trades, Writes
  <1>4. \/ world' = world /\ phase' = "down"
        \/ world' = [world EXCEPT !.hedge[f][a] = "sent"] /\ phase' = "trading"
    BY <1>1 DEF SubmitHedge, SendOrDie
  <1>5. i.tried \in {0, 1, 2} /\ a = i.tried + 1 /\ i.rejected \in {None} \union Attempts
    BY <1>1 DEF Intents, Attempts
  <1> HIDE DEF a
  <1>6. /\ j \in Intents /\ j.tried = a /\ j.cid = a /\ j.status = "SUBMITTED"
        /\ j.rejected = i.rejected
    BY <1>1, <1>2 DEF Intents
  <1> HIDE DEF j
  <1>7. \A c \in Attempts : c <= a /\ c # i.rejected => c = a
    BY <1>2, <1>5 DEF Attempts
  <1>8. IntentFits(j, world.hedge[f])
    BY <1>1, <1>2, <1>5, <1>6, <1>7 DEF IntentFits, Attempts
  <1>9. /\ t \in [Fills -> Intents] /\ t[f] = j
        /\ \A g \in Fills : g # f => t[g] = business.intents[g]
    BY <1>1, <1>6 DEF BusinessFiles
  <1> HIDE DEF t
  <1>10. business' \in BusinessFiles /\ business'.intents = t /\ business'.src = business.src
    BY <1>1, <1>3, <1>9 DEF BusinessFiles
  <1>11. BookFits(business', world)
    <2>1. PICK c : c = business'
      OBVIOUS
    <2>2. BookFits(c, world)
      BY <1>1, <1>8, <1>9, <1>10, <2>1, IntentChanges DEF RecoveryInv
    <2> QED
      BY <2>1, <2>2
  <1>12. CASE world' = world /\ phase' = "down"
    BY <1>1, <1>3, <1>11, <1>12 DEF RecoveryInv, ReceiptFits
  <1>13. CASE world' = [world EXCEPT !.hedge[f][a] = "sent"] /\ phase' = "trading"
    <2>1. /\ world' \in Worlds /\ world'.src = world.src /\ world'.hedge[f][a] = "sent"
          /\ \A g \in Fills, c \in Attempts :
               g # f \/ c # a => world'.hedge[g][c] = world.hedge[g][c]
      BY <1>1, <1>2, <1>13, HedgeMoves
    <2>2. Possible(world')
      BY <1>1, <1>2, <2>1 DEF RecoveryInv, Possible
    <2>3. Behind(native, world')
      BY <1>1, <1>2, <2>1 DEF RecoveryInv, Behind
    <2>4. IntentFits(j, world'.hedge[f])
      BY <1>2, <1>5, <1>6, <1>7, <1>8, <2>1 DEF IntentFits, Attempts
    <2>5. ASSUME NEW g \in Fills PROVE IntentFits(t[g], world'.hedge[g])
      <3>1. CASE g = f
        BY <1>9, <2>4, <3>1
      <3>2. CASE g # f
        <4>1. t[g].rejected \in {None} \union Attempts
          BY <1>9 DEF Intents
        <4> QED
          BY <1>10, <1>11, <2>1, <3>2, <4>1 DEF BookFits, IntentFits
      <3> QED
        BY <3>1, <3>2
    <2>6. BookFits(business', world')
      BY <1>10, <1>11, <2>1, <2>5 DEF BookFits
    <2> QED
      BY <1>1, <1>3, <1>13, <2>2, <2>3, <2>6 DEF RecoveryInv, ReceiptFits
  <1> QED
    BY <1>4, <1>12, <1>13

-----------------------------------------------------------------------------
(* Starts and pauses                                                       *)

\* An intent that is not put back to pending still fits.
LEMMA StatusChanges ==
  ASSUME NEW i \in Intents, NEW h, IntentFits(i, h), i.status # "none",
         NEW x \in {"COMPLETED", "REJECTED", "UNKNOWN", "BLOCKED"}, NEW y \in BOOLEAN, i.filled => y
  PROVE  LET j == [i EXCEPT !.status = x, !.filled = y]
         IN  /\ j \in Intents /\ IntentFits(j, h) /\ j.status = x /\ j.tried = i.tried
  BY DEF IntentFits, Intents

\* recover_for_start doubts what was under way, and forgets nothing.
LEMMA RecoveredFits ==
  ASSUME NEW b, NEW w, BookFits(b, w)
  PROVE  /\ BookFits(RecoveredForStart(b), w)
         /\ \A f \in Fills : RecoveredForStart(b).intents[f].tried = b.intents[f].tried
  <1> DEFINE R(o) == [b.src[o] EXCEPT !.status = "UNKNOWN"]
             J(f) == [b.intents[f] EXCEPT !.status = "UNKNOWN"]
             s == [o \in Orders |-> IF o \in Active(b) THEN R(o) ELSE b.src[o]]
             t == [f \in Fills |-> IF b.intents[f].status \in {"PENDING", "SUBMITTED"}
                                   THEN J(f) ELSE b.intents[f]]
             z == IF b.halt = "none" THEN "restart" ELSE b.halt
             c == [b EXCEPT !.src = s, !.intents = t, !.halt = z]
  <1>1. b \in BusinessFiles /\ \A o \in Orders : b.src[o] \in SourceStates
    BY DEF BookFits, BusinessFiles, SourceStates
  <1>2. RecoveredForStart(b) \in {b, c}
    BY DEF RecoveredForStart
  <1>3. ASSUME NEW o \in Orders
        PROVE  /\ s[o] \in SourceStates /\ s[o].seen = b.src[o].seen
               /\ b.src[o].status # "none" => s[o].status # "none"
    BY <1>1 DEF SourceStates
  <1>4. ASSUME NEW f \in Fills
        PROVE  /\ t[f] \in Intents /\ IntentFits(t[f], w.hedge[f])
               /\ t[f].tried = b.intents[f].tried
               /\ b.intents[f] = NoIntent => t[f] = NoIntent
    <2>1. b.intents[f] \in Intents /\ IntentFits(b.intents[f], w.hedge[f])
      BY DEF BookFits, BusinessFiles
    <2>2. CASE b.intents[f].status \in {"PENDING", "SUBMITTED"}
      <3>1. t[f] = J(f)
        BY <2>2
      <3>2. J(f) \in Intents /\ J(f).tried = b.intents[f].tried /\ IntentFits(J(f), w.hedge[f])
        BY <2>1, <2>2 DEF Intents, IntentFits
      <3> QED
        BY <2>2, <3>1, <3>2 DEF NoIntent
    <2>3. CASE b.intents[f].status \notin {"PENDING", "SUBMITTED"}
      BY <2>1, <2>3
    <2> QED
      BY <2>2, <2>3
  <1>5. z \in {"none", "hedge", "restart", "held"}
    BY <1>1 DEF BusinessFiles
  <1> DEFINE S == s  T == t
  <1>6. /\ S \in [Orders -> SourceStates] /\ T \in [Fills -> Intents]
        /\ c = [b EXCEPT !.src = S, !.intents = T, !.halt = z]
    BY <1>3, <1>4
  <1>7. /\ \A o \in Orders : /\ S[o].seen = b.src[o].seen
                             /\ b.src[o].status # "none" => S[o].status # "none"
        /\ \A f \in Fills : /\ IntentFits(T[f], w.hedge[f]) /\ T[f].tried = b.intents[f].tried
                            /\ b.intents[f] = NoIntent => T[f] = NoIntent
    BY <1>3, <1>4
  <1> HIDE DEF S, T, z, c
  <1>8. c \in BusinessFiles /\ c.src = S /\ c.intents = T
    BY <1>1, <1>5, <1>6 DEF BusinessFiles, SourceStates
  <1>9. \A f \in Fills : f[1] \in Orders
    BY DEF Fills
  <1>10. BookFits(c, w)
    BY <1>7, <1>8, <1>9 DEF BookFits
  <1> QED
    BY <1>2, <1>7, <1>8, <1>10

LEMMA StartSteps ==
  ASSUME RecoveryInv, NEW reviewed \in BOOLEAN, NEW f, NEW a, Start(reviewed, f, a),
         (a = None /\ f = NoFill) \/ (a \in Attempts /\ f \in Fills)
  PROVE  RecoveryInv'
  <1> DEFINE b == RecoveredForStart(business)
  <1>1. /\ BookFits(b, world) /\ \A g \in Fills : b.intents[g].tried = business.intents[g].tried
        /\ business \in BusinessFiles /\ b \in BusinessFiles
    BY RecoveredFits DEF RecoveryInv, BookFits
  <1>2. /\ UNCHANGED <<world, native>>
        /\ a # None => business.intents[f].tried >= a
        /\ business' = b /\ synced' \in {synced, b}
    BY DEF Start, Writes, WritesUnsynced
  <1>3. /\ \E failed \in BOOLEAN :
             receipt' = [eligible |-> Eligible(reviewed), reviewed |-> reviewed, target |-> a,
                         targetFill |-> f,
                         halt |-> IF ~failed \/ business.halt # "none" THEN b.halt ELSE "none",
                         freeze |-> business.freeze, failed |-> failed, revoked |-> FALSE]
    BY DEF Start
  <1> HIDE DEF b
  <1>4. Eligible(reviewed) \in BOOLEAN /\ b.halt \in {"none", "hedge", "restart", "held"}
        /\ business.freeze \in {"none", "cycle", "external", "held"}
    BY <1>1 DEF Eligible, BusinessFiles
  <1>5. receipt' \in Receipts /\ receipt'.target = a /\ receipt'.targetFill = f
    BY <1>3, <1>4 DEF Receipts, None, NoFill
  <1>6. ASSUME a # None PROVE f \in Fills /\ b.intents[f].tried >= 1
    <2>1. a \in {1, 2} /\ f \in Fills
      BY <1>6 DEF Attempts
    <2>2. business.intents[f].tried \in {0, 1, 2}
      BY <1>1, <2>1 DEF BusinessFiles, Intents, Attempts
    <2> QED
      BY <1>1, <1>2, <1>6, <2>1, <2>2
  <1>7. ReceiptFits'
    BY <1>2, <1>5, <1>6 DEF ReceiptFits
  <1>8. BookFits(business', world') /\ BookFits(synced', world')
    BY <1>1, <1>2 DEF RecoveryInv
  <1> QED
    BY <1>2, <1>7, <1>8 DEF RecoveryInv

LEMMA PauseSteps ==
  ASSUME RecoveryInv, NewPause
  PROVE  RecoveryInv'
  <1> DEFINE z == IF business.freeze \in {"none", "cycle"} THEN "external" ELSE business.freeze
             x == receipt.revoked \/ receipt.reviewed
  <1>1. business \in BusinessFiles /\ receipt \in Receipts /\ phase = "gated"
    BY DEF RecoveryInv, BookFits, ReceiptFits, NewPause
  <1>2. /\ UNCHANGED <<world, native, phase>> /\ business' = [business EXCEPT !.freeze = z]
        /\ synced' = business' /\ receipt' = [receipt EXCEPT !.revoked = x]
    BY DEF NewPause, Writes
  <1>3. z \in {"none", "cycle", "external", "held"} /\ x \in BOOLEAN
    BY <1>1 DEF BusinessFiles
  <1> HIDE DEF z, x
  <1>4. /\ business' \in BusinessFiles /\ business'.intents = business.intents
        /\ business'.src = business.src
    BY <1>1, <1>2, <1>3 DEF BusinessFiles
  <1>5. /\ receipt' \in Receipts /\ receipt'.target = receipt.target
        /\ receipt'.targetFill = receipt.targetFill
    BY <1>1, <1>2, <1>3 DEF Receipts
  <1>6. BookFits(business', world)
    <2>1. PICK c : c = business'
      OBVIOUS
    <2>2. BookFits(c, world)
      BY <1>4, <2>1, SameFits DEF RecoveryInv
    <2> QED
      BY <2>1, <2>2
  <1> QED
    BY <1>1, <1>2, <1>4, <1>5, <1>6 DEF RecoveryInv, ReceiptFits

-----------------------------------------------------------------------------
(* The projections, and what a round settles                               *)

LEMMA FiniteSequence ==
  ASSUME NEW S, NEW n \in Nat, NEW q \in [1 .. n -> S]
  PROVE  q \in Seq(S)
  <1>1. q \in UNION {[1 .. m -> S] : m \in Nat}
    OBVIOUS
  <1> QED
    BY <1>1, SeqDef

LEMMA NothingSent ==
  ASSUME NEW i \in Intents, i.tried = 0, i.rejected = None, i.status # "none",
         NEW h, \A a \in Attempts : h[a] = "none"
  PROVE  IntentFits(i, h)
  BY DEF IntentFits, Attempts, None

\* What two copies agree about when the second is made of the first by a projection.
SameAttempts(b, c) ==
  /\ \A f \in Fills : c.intents[f].tried = b.intents[f].tried
  /\ \A o \in Orders : c.src[o].status = b.src[o].status

\* Fills that are reserved late owe what nobody has sent, and are not owed twice.
LEMMA SourceProjectedFits ==
  ASSUME Ounces \in Nat, BookFits(business, world), Possible(native)
  PROVE  /\ BookFits(SourceProjected, world) /\ SameAttempts(business, SourceProjected)
         /\ \A o \in Orders : Unseen = {o} =>
              SourceProjected.src[o].seen = native.src[o].fills
         /\ \A o \in Orders : o \notin Unseen => SourceProjected.src[o].seen = business.src[o].seen
  <1>1. CASE Unseen = {}
    BY <1>1 DEF SourceProjected, SameAttempts
  <1>2. CASE Unseen # {}
    <2> DEFINE o == CHOOSE x \in Unseen : TRUE
               n == native.src[o].fills
               m == business.src[o].seen
               j == [NoIntent EXCEPT !.status = "BLOCKED"]
               r == [business.src[o] EXCEPT !.seen = n]
               s == [business.src EXCEPT ![o] = r]
               q == [k \in 1 .. n - m |-> <<o, m + k>>]
               l == business.ledger \o q
               t == [f \in Fills |-> IF f[1] = o /\ f[2] \in m + 1 .. n THEN j ELSE business.intents[f]]
               b == Withheld(business)
               c == [b EXCEPT !.src = s, !.ledger = l, !.intents = t]
    <2>1. o \in Orders /\ n > m /\ o \in Unseen
      BY <1>2 DEF Unseen
    <2>2. /\ business \in BusinessFiles /\ business.src[o] \in SourceStates
          /\ native.src[o] \in SourceWorlds
          /\ n \in 0 .. Ounces /\ m \in 0 .. Ounces
      BY <2>1 DEF BookFits, Possible, BusinessFiles, Worlds, SourceStates, SourceWorlds
    <2>3. /\ b \in BusinessFiles /\ b.src = business.src /\ b.ledger = business.ledger
          /\ b.intents = business.intents
      BY <2>2 DEF Withheld, BusinessFiles
    <2>4. SourceProjected = c
      BY <1>2, <2>3 DEF SourceProjected
    <2>5. q \in Seq(Fills)
      <3> DEFINE D == 1 .. n - m
                 e(k) == <<o, m + k>>
      <3>1. n - m \in Nat
        BY <2>1, <2>2
      <3>2. ASSUME NEW k \in D PROVE e(k) \in Fills
        <4>1. m + k \in 1 .. Ounces
          BY <2>1, <2>2
        <4> HIDE DEF o, m
        <4> QED
          BY <2>1, <4>1 DEF Fills
      <3>3. q = [k \in D |-> e(k)]
        OBVIOUS
      <3> HIDE DEF e, q
      <3>4. q \in [D -> Fills]
        BY <3>2, <3>3
      <3> QED
        BY <3>1, <3>4, FiniteSequence
    <2>6. j \in Intents /\ j.tried = 0 /\ j.rejected = None /\ j.status = "BLOCKED"
      BY DEF Intents, NoIntent, None
    <2> HIDE DEF j, q, o, n
    <2>7. r \in SourceStates /\ r.seen = n /\ r.status = business.src[o].status
      BY <2>2 DEF SourceStates
    <2> HIDE DEF r
    <2>8. /\ s \in [Orders -> SourceStates] /\ s[o] = r
          /\ \A p \in Orders : p # o => s[p] = business.src[p]
      BY <2>1, <2>2, <2>7 DEF BusinessFiles, SourceStates
    <2>9. l \in Seq(Fills)
      BY <2>2, <2>5 DEF BusinessFiles
    <2>10. ASSUME NEW f \in Fills
           PROVE  /\ t[f] \in Intents /\ IntentFits(t[f], world.hedge[f])
                  /\ t[f].tried = business.intents[f].tried
                  /\ f[2] > s[f[1]].seen => t[f] = NoIntent
      <3>1. /\ f[1] \in Orders /\ f[2] \in 1 .. Ounces /\ business.intents[f] \in Intents
            /\ IntentFits(business.intents[f], world.hedge[f])
        BY <2>2 DEF Fills, BookFits, BusinessFiles
      <3>2. CASE f[1] = o /\ f[2] \in m + 1 .. n
        <4>1. t[f] = j /\ f[2] > m
          BY <2>2, <3>1, <3>2
        <4>2. business.intents[f] = NoIntent
          BY <3>2, <4>1 DEF BookFits
        <4>3. \A a \in Attempts : world.hedge[f][a] = "none"
          BY <3>1, <4>2 DEF IntentFits, NoIntent, Attempts
        <4>4. ~(f[2] > s[f[1]].seen)
          BY <2>2, <2>7, <2>8, <3>1, <3>2
        <4> QED
          BY <2>6, <4>1, <4>2, <4>3, <4>4, NothingSent DEF NoIntent
      <3>3. CASE ~(f[1] = o /\ f[2] \in m + 1 .. n)
        <4>1. t[f] = business.intents[f]
          BY <3>3
        <4>2. ASSUME f[2] > s[f[1]].seen PROVE f[2] > business.src[f[1]].seen
          BY <2>1, <2>2, <2>7, <2>8, <3>1, <4>2
        <4> QED
          BY <3>1, <4>1, <4>2 DEF BookFits
      <3> QED
        BY <3>2, <3>3
    <2> DEFINE T == t
    <2>11. c = [b EXCEPT !.src = s, !.ledger = l, !.intents = T] /\ T \in [Fills -> Intents]
      BY <2>10
    <2>12. \A f \in Fills : /\ IntentFits(T[f], world.hedge[f])
                            /\ T[f].tried = business.intents[f].tried
                            /\ f[2] > s[f[1]].seen => T[f] = NoIntent
      BY <2>10
    <2> HIDE DEF T, s, l, b, c
    <2>13. c \in BusinessFiles /\ c.src = s /\ c.intents = T
      BY <2>3, <2>8, <2>9, <2>11 DEF BusinessFiles, SourceStates
    <2>14. \A p \in Orders : s[p].status = business.src[p].status
      BY <2>7, <2>8
    <2>15. BookFits(c, world) /\ SameAttempts(business, c)
      BY <2>12, <2>13, <2>14 DEF BookFits, SameAttempts
    <2> QED
      BY <2>1, <2>4, <2>7, <2>8, <2>13, <2>15 DEF n
  <1> QED
    BY <1>1, <1>2

\* Fills of hedges that are heard late are booked, and only there.
LEMMA HedgeProjectedFits ==
  ASSUME NEW b, NEW w, BookFits(b, w)
  PROVE  /\ BookFits(HedgeProjected(b), w) /\ SameAttempts(b, HedgeProjected(b))
         /\ Missing(HedgeProjected(b)) = {} /\ HedgeProjected(b).src = b.src
  <1>1. CASE Missing(b) = {}
    BY <1>1 DEF HedgeProjected, SameAttempts
  <1>2. CASE Missing(b) # {}
    <2> DEFINE h == Withheld(b)
               J(f) == [b.intents[f] EXCEPT !.filled = TRUE, !.status = "BLOCKED"]
               t == [f \in Fills |-> IF f \in Missing(b) THEN J(f) ELSE b.intents[f]]
               c == [h EXCEPT !.intents = t]
    <2>1. h \in BusinessFiles /\ h.src = b.src /\ h.intents = b.intents /\ b \in BusinessFiles
      BY DEF Withheld, BusinessFiles, BookFits
    <2>2. HedgeProjected(b) = c
      BY <1>2, <2>1 DEF HedgeProjected
    <2>3. ASSUME NEW f \in Fills
          PROVE  /\ t[f] \in Intents /\ IntentFits(t[f], w.hedge[f])
                 /\ t[f].tried = b.intents[f].tried
                 /\ b.intents[f] = NoIntent => t[f] = NoIntent
                 /\ ~t[f].filled => t[f] = b.intents[f] /\ f \notin Missing(b)
      <3>1. b.intents[f] \in Intents /\ IntentFits(b.intents[f], w.hedge[f])
        BY <2>1 DEF BookFits, BusinessFiles
      <3>2. CASE f \in Missing(b)
        <4>1. t[f] = J(f) /\ b.intents[f].cid # None /\ b.intents[f] # NoIntent
          BY <3>2 DEF Missing, NoIntent, None
        <4>2. J(f) \in Intents /\ J(f).filled = TRUE /\ J(f).tried = b.intents[f].tried
          BY <3>1 DEF Intents
        <4>3. IntentFits(J(f), w.hedge[f])
          BY <3>1 DEF IntentFits, Intents, NoIntent
        <4> QED
          BY <4>1, <4>2, <4>3
      <3>3. CASE f \notin Missing(b)
        BY <3>1, <3>3
      <3> QED
        BY <3>2, <3>3
    <2> DEFINE T == t
    <2>4. c = [h EXCEPT !.intents = T] /\ T \in [Fills -> Intents]
      BY <2>3
    <2>5. \A f \in Fills : /\ IntentFits(T[f], w.hedge[f]) /\ T[f].tried = b.intents[f].tried
                           /\ b.intents[f] = NoIntent => T[f] = NoIntent
                           /\ ~T[f].filled => T[f] = b.intents[f] /\ f \notin Missing(b)
      BY <2>3
    <2> HIDE DEF T, h, c
    <2>6. c \in BusinessFiles /\ c.src = b.src /\ c.intents = T
      BY <2>1, <2>4 DEF BusinessFiles
    <2>7. BookFits(c, w) /\ SameAttempts(b, c)
      BY <2>5, <2>6 DEF BookFits, SameAttempts
    <2>8. Missing(c) = {}
      BY <2>5, <2>6 DEF Missing
    <2> QED
      BY <2>2, <2>6, <2>7, <2>8
  <1> QED
    BY <1>1, <1>2

\* The last word about one intent.
Final(f, i) ==
  LET j == Archived(f, i) IN
  IF j.status = "none" THEN j
  ELSE [j EXCEPT !.status = IF j.filled THEN "COMPLETED" ELSE "PENDING", !.cid = None]

\* What is left pending was never executed: its orders are rejected, and the one the
\* operator released is archived as such; an execution the book lacked would still be missing.
LEMMA FinalFits ==
  ASSUME NEW w, Behind(native, w), NEW f \in Fills, NEW i \in Intents, IntentFits(i, w.hedge[f]),
         receipt \in Receipts, Retries(f, i) => i.status # "none",
         i.status # "none" => IntentSettles(f, i),
         i.cid # None /\ ~i.filled => native.hedge[f][i.cid] # "FILLED"
  PROVE  LET j == Final(f, i)
         IN  /\ j \in Intents /\ IntentFits(j, w.hedge[f]) /\ j.tried = i.tried
             /\ i = NoIntent => j = NoIntent
             /\ j.status \in {"none", "PENDING", "COMPLETED"}
             /\ (\E a \in Attempts : native.hedge[f][a] = "FILLED" /\ w.hedge[f][a] = "FILLED")
                  => j.status = "COMPLETED"
  <1> DEFINE h == w.hedge[f]
             j == Final(f, i)
  <1>1. \A a \in Attempts : a <= i.tried /\ a # i.rejected =>
          a = i.tried /\ (i.filled \/ i.cid = a) /\ i.status # "PENDING"
    BY DEF IntentFits
  <1>2. \A a \in Attempts : h[a] # "none" => a <= i.tried
    BY DEF IntentFits
  <1>3. i.rejected # None => h[i.rejected] = "REJECTED"
    BY DEF IntentFits
  <1>4. \A a \in Attempts : native.hedge[f][a] \in {"FILLED", "REJECTED"} =>
          h[a] = native.hedge[f][a]
    BY DEF Behind
  <1>5. CASE Retries(f, i)
    <2> DEFINE c == receipt.target
               k == [i EXCEPT !.rejected = c, !.cid = None, !.status = "PENDING"]
    <2>1. /\ c \in Attempts /\ i.rejected = None /\ i.cid = c /\ ~i.filled
          /\ native.hedge[f][c] = "REJECTED"
      BY <1>5 DEF Retries, IntentSettles, Receipts, Attempts, None
    <2>2. h[c] = "REJECTED" /\ c <= i.tried /\ \A a \in Attempts : a <= i.tried => a = i.tried
      BY <1>1, <1>2, <1>4, <2>1 DEF Attempts, None
    <2>3. Archived(f, i) = k
      BY <1>5 DEF Archived
    <2>4. i.tried \in Nat /\ i.filled = FALSE
      BY <2>1 DEF Intents, Attempts
    <2> HIDE DEF c
    <2>5. /\ k \in Intents /\ k.rejected = c /\ k.cid = None /\ k.status = "PENDING"
          /\ k.tried = i.tried /\ k.filled = FALSE
      BY <2>1, <2>4 DEF Intents
    <2>6. j = [k EXCEPT !.status = "PENDING", !.cid = None]
      BY <2>3, <2>5 DEF Final
    <2> HIDE DEF k
    <2>7. /\ j \in Intents /\ j.rejected = c /\ j.cid = None /\ j.status = "PENDING"
          /\ j.tried = i.tried /\ j.filled = FALSE
      BY <2>5, <2>6 DEF Intents
    <2>8. \A a \in Attempts : a <= i.tried => a = c
      BY <2>1, <2>2
    <2>9. IntentFits(j, h)
      <3>1. \A a \in Attempts : h[a] # "none" => a <= j.tried
        BY <1>2, <2>7
      <3> HIDE DEF j, h
      <3> QED
        BY <2>2, <2>7, <2>8, <3>1 DEF IntentFits
    <2>10. i # NoIntent
      BY <2>1 DEF NoIntent, Attempts, None
    <2>11. \A a \in Attempts : h[a] # "FILLED"
      BY <1>2, <2>2, <2>8
    <2> QED
      BY <2>7, <2>9, <2>10, <2>11
  <1>6. CASE ~Retries(f, i) /\ i.status = "none"
    <2>1. i = NoIntent /\ j = i
      BY <1>6 DEF Final, Archived, IntentFits
    <2>2. \A a \in Attempts : h[a] = "none"
      BY <1>2, <2>1 DEF NoIntent, Attempts
    <2> QED
      BY <1>6, <2>1, <2>2
  <1>7. CASE ~Retries(f, i) /\ i.status # "none"
    <2> DEFINE x == IF i.filled THEN "COMPLETED" ELSE "PENDING"
    <2>1. j = [i EXCEPT !.status = x, !.cid = None]
      BY <1>7 DEF Final, Archived
    <2>2. \A a \in Attempts : a <= i.tried /\ a # i.rejected => native.hedge[f][a] = "FILLED"
      BY <1>7 DEF IntentSettles, Archived, LegOrders
    <2>3. ~i.filled => \A a \in Attempts : a <= i.tried => a = i.rejected
      BY <1>1, <2>2 DEF Attempts, None
    <2>4. x \in {"COMPLETED", "PENDING"} /\ (x = "PENDING" <=> ~i.filled)
      OBVIOUS
    <2> HIDE DEF x
    <2>5. /\ j \in Intents /\ j.status = x /\ j.tried = i.tried /\ j.filled = i.filled
          /\ j.rejected = i.rejected
      BY <2>1, <2>4 DEF Intents, None
    <2>6. IntentFits(j, h)
      <3>1. \A a \in Attempts : h[a] # "none" => a <= j.tried
        BY <1>2, <2>5
      <3>2. j.rejected # None => h[j.rejected] = "REJECTED"
        BY <1>3, <2>5
      <3>3. \A a \in Attempts : a <= j.tried /\ a # j.rejected =>
              a = j.tried /\ j.filled /\ j.status # "PENDING"
        BY <1>1, <2>3, <2>4, <2>5
      <3> HIDE DEF j, h
      <3> QED
        BY <2>4, <2>5, <3>1, <3>2, <3>3 DEF IntentFits
    <2>7. ASSUME NEW a \in Attempts, h[a] = "FILLED" PROVE x = "COMPLETED"
      <3>1. a <= i.tried /\ a # i.rejected
        BY <1>2, <1>3, <2>7 DEF Attempts, None
      <3> QED
        BY <2>3, <2>4, <3>1
    <2>8. i # NoIntent
      BY <1>7 DEF NoIntent
    <2> QED
      BY <2>4, <2>5, <2>6, <2>7, <2>8
  <1> QED
    BY <1>5, <1>6, <1>7

\* What a settlement works on: a copy from which nothing is missing any more.
Settleable(b) ==
  /\ BookFits(b, world) /\ Missing(b) = {}
  /\ \A f \in Fills : /\ Retries(f, b.intents[f]) => b.intents[f].status # "none"
                      /\ b.intents[f].status # "none" => IntentSettles(f, b.intents[f])

LEMMA SettledFits ==
  ASSUME NEW b, Behind(native, world), Settleable(b), receipt \in Receipts
  PROVE  /\ BookFits(Settled(b), world)
         /\ \A f \in Fills :
              /\ Settled(b).intents[f] = Final(f, b.intents[f])
              /\ Settled(b).intents[f].tried = b.intents[f].tried
              /\ Settled(b).intents[f].status \in {"none", "PENDING", "COMPLETED"}
              /\ (\E a \in Attempts : native.hedge[f][a] = "FILLED" /\ world.hedge[f][a] = "FILLED")
                   => Settled(b).intents[f].status = "COMPLETED"
         /\ \A o \in Orders : Settled(b).src[o].seen = b.src[o].seen
         /\ Unfinished(Settled(b)) = {} \/ Settled(b).freeze = "cycle"
  <1> DEFINE R(o) == [b.src[o] EXCEPT !.status = "CLOSED"]
             s == [o \in Orders |-> IF b.src[o].status = "none" THEN b.src[o] ELSE R(o)]
             t == [f \in Fills |-> Final(f, b.intents[f])]
             owed == \E f \in Fills : t[f].status = "PENDING"
             z == IF owed THEN "cycle" ELSE "none"
             c == [b EXCEPT !.src = s, !.intents = t, !.halt = "none", !.freeze = z]
  <1>1. Settled(b) = c
    BY DEF Settled, Final
  <1>2. /\ b \in BusinessFiles /\ \A o \in Orders : b.src[o] \in SourceStates
        /\ \A f \in Fills : b.intents[f] \in Intents /\ IntentFits(b.intents[f], world.hedge[f])
    BY DEF Settleable, BookFits, BusinessFiles, SourceStates
  <1>3. ASSUME NEW f \in Fills
        PROVE  /\ t[f] \in Intents /\ IntentFits(t[f], world.hedge[f])
               /\ t[f].tried = b.intents[f].tried
               /\ b.intents[f] = NoIntent => t[f] = NoIntent
               /\ t[f].status \in {"none", "PENDING", "COMPLETED"}
               /\ (\E a \in Attempts : native.hedge[f][a] = "FILLED" /\ world.hedge[f][a] = "FILLED")
                    => t[f].status = "COMPLETED"
    <2> DEFINE i == b.intents[f]
    <2>1. /\ i \in Intents /\ IntentFits(i, world.hedge[f]) /\ t[f] = Final(f, i)
          /\ Retries(f, i) => i.status # "none"
          /\ i.status # "none" => IntentSettles(f, i)
      BY <1>2 DEF Settleable
    <2>2. i.cid # None /\ ~i.filled => native.hedge[f][i.cid] # "FILLED"
      BY DEF Settleable, Missing
    <2> HIDE DEF i, t
    <2>3. PICK k : k = i
      OBVIOUS
    <2>4. PICK w : w = world
      OBVIOUS
    <2>5. LET j == Final(f, k)
          IN  /\ j \in Intents /\ IntentFits(j, w.hedge[f]) /\ j.tried = k.tried
              /\ k = NoIntent => j = NoIntent
              /\ j.status \in {"none", "PENDING", "COMPLETED"}
              /\ (\E a \in Attempts : native.hedge[f][a] = "FILLED" /\ w.hedge[f][a] = "FILLED")
                   => j.status = "COMPLETED"
      BY <2>1, <2>2, <2>3, <2>4, FinalFits
    <2> QED
      BY <2>1, <2>3, <2>4, <2>5 DEF i
  <1>4. ASSUME NEW o \in Orders
        PROVE  /\ s[o] \in SourceStates /\ s[o].seen = b.src[o].seen
               /\ b.src[o].status # "none" => s[o].status # "none"
    BY <1>2 DEF SourceStates
  <1> DEFINE S == s  T == t
  <1>5. /\ S \in [Orders -> SourceStates] /\ T \in [Fills -> Intents]
        /\ c = [b EXCEPT !.src = S, !.intents = T, !.halt = "none", !.freeze = z]
        /\ \A f \in Fills : T[f] = Final(f, b.intents[f])
    BY <1>3, <1>4
  <1>6. /\ \A o \in Orders : /\ S[o].seen = b.src[o].seen
                             /\ b.src[o].status # "none" => S[o].status # "none"
        /\ \A f \in Fills :
             /\ IntentFits(T[f], world.hedge[f]) /\ T[f].tried = b.intents[f].tried
             /\ b.intents[f] = NoIntent => T[f] = NoIntent
             /\ T[f].status \in {"none", "PENDING", "COMPLETED"}
             /\ (\E a \in Attempts : native.hedge[f][a] = "FILLED" /\ world.hedge[f][a] = "FILLED")
                  => T[f].status = "COMPLETED"
    BY <1>3, <1>4
  <1>7. z \in {"none", "cycle"} /\ (z = "none" => \A f \in Fills : T[f].status # "PENDING")
    OBVIOUS
  <1> HIDE DEF S, T, z, c
  <1>8. c \in BusinessFiles /\ c.src = S /\ c.intents = T /\ c.freeze = z
    BY <1>2, <1>5, <1>7 DEF BusinessFiles, SourceStates
  <1>9. \A f \in Fills : f[1] \in Orders
    BY DEF Fills
  <1>10. BookFits(c, world)
    BY <1>6, <1>8, <1>9 DEF BookFits, Settleable
  <1>11. Unfinished(c) = {} \/ c.freeze = "cycle"
    BY <1>6, <1>7, <1>8 DEF Unfinished
  <1> QED
    BY <1>1, <1>5, <1>6, <1>8, <1>10, <1>11

LEMMA ClaimsFit ==
  ASSUME NEW b, receipt \in Receipts
  PROVE  /\ Claims(b) \in Receipts /\ Claims(b).target = receipt.target
         /\ Claims(b).targetFill = receipt.targetFill
  <1> DEFINE x == IF business.halt = "none" /\ b.halt = "held" THEN "held" ELSE receipt.halt
             y == IF business.freeze = "none" /\ b.freeze = "held" THEN "held" ELSE receipt.freeze
  <1>1. Claims(b) \in {receipt, [receipt EXCEPT !.halt = x, !.freeze = y]}
    BY DEF Claims
  <1>2. x \in {"none", "hedge", "restart", "held"} /\ y \in {"none", "cycle", "external", "held"}
    BY DEF Receipts
  <1> HIDE DEF x, y
  <1> QED
    BY <1>1, <1>2 DEF Receipts

\* What a round knows before it releases anything.
LEMMA RoundKnows ==
  ASSUME Ounces \in Nat, RecoveryInv, phase = "gated",
         NEW s, s = SourceProjected, NEW h, h = HedgeProjected(s)
  PROVE  /\ BookFits(s, world) /\ BookFits(h, world) /\ Missing(h) = {} /\ h.src = s.src
         /\ \A f \in Fills : /\ s.intents[f].tried = business.intents[f].tried
                             /\ h.intents[f].tried = business.intents[f].tried
         /\ receipt.eligible /\ MayRelease(h) => Settleable(h)
  <1>1. BookFits(s, world) /\ SameAttempts(business, s)
    BY SourceProjectedFits DEF RecoveryInv
  <1>2. BookFits(h, world) /\ SameAttempts(s, h) /\ Missing(h) = {} /\ h.src = s.src
    BY <1>1, HedgeProjectedFits
  <1>3. \A f \in Fills : /\ s.intents[f].tried = business.intents[f].tried
                         /\ h.intents[f].tried = business.intents[f].tried
    BY <1>1, <1>2 DEF SameAttempts
  <1>4. ASSUME NEW f \in Fills, Retries(f, h.intents[f]) PROVE h.intents[f].status # "none"
    <2>1. business.intents[f].tried >= 1
      BY <1>4 DEF Retries, RecoveryInv, ReceiptFits
    <2>2. h.intents[f] # NoIntent
      BY <1>3, <2>1 DEF NoIntent
    <2> QED
      BY <1>2, <2>2 DEF BookFits, IntentFits
  <1>5. receipt.eligible /\ MayRelease(h) => Settleable(h)
    BY <1>2, <1>4 DEF MayRelease, Settleable
  <1> QED
    BY <1>1, <1>2, <1>3, <1>5

LEMMA FinishSteps ==
  ASSUME Ounces \in Nat, RecoveryInv, FinishRound, phase = "gated"
  PROVE  RecoveryInv'
  <1>1. PICK s : s = SourceProjected
    OBVIOUS
  <1>2. PICK h : h = HedgeProjected(s)
    OBVIOUS
  <1>3. PICK c : c = IF receipt.eligible THEN Settled(h) ELSE h
    OBVIOUS
  <1>4. /\ BookFits(s, world) /\ BookFits(h, world)
        /\ \A f \in Fills : /\ s.intents[f].tried = business.intents[f].tried
                            /\ h.intents[f].tried = business.intents[f].tried
        /\ receipt.eligible /\ MayRelease(h) => Settleable(h)
    BY <1>1, <1>2, RoundKnows
  <1>5. MayRelease(h) => /\ BookFits(c, world)
                         /\ \A f \in Fills : c.intents[f].tried = business.intents[f].tried
    BY <1>3, <1>4, SettledFits DEF RecoveryInv, ReceiptFits
  <1>6. /\ UNCHANGED <<world, native>>
        /\ \/ UNCHANGED <<business, synced>>
           \/ business' \in {s, h} /\ synced' \in {synced, business'}
           \/ business' = c /\ synced' \in {synced, business'} /\ MayRelease(h)
    BY <1>1, <1>2, <1>3 DEF FinishRound, Writes, WritesUnsynced
  <1>7. receipt' \in {receipt, [receipt EXCEPT !.failed = TRUE], Claims(s), Claims(h)}
    BY <1>1, <1>2 DEF FinishRound
  <1>8. /\ receipt' \in Receipts /\ receipt'.target = receipt.target
        /\ receipt'.targetFill = receipt.targetFill
    <2>1. /\ receipt \in Receipts /\ [receipt EXCEPT !.failed = TRUE] \in Receipts
          /\ [receipt EXCEPT !.failed = TRUE].target = receipt.target
          /\ [receipt EXCEPT !.failed = TRUE].targetFill = receipt.targetFill
      BY DEF RecoveryInv, ReceiptFits, Receipts
    <2> QED
      BY <1>7, <2>1, ClaimsFit
  <1>9. /\ BookFits(business', world) /\ BookFits(synced', world)
        /\ \A f \in Fills : business'.intents[f].tried = business.intents[f].tried
    BY <1>4, <1>5, <1>6 DEF RecoveryInv
  <1>10. ReceiptFits'
    BY <1>8, <1>9 DEF RecoveryInv, ReceiptFits
  <1> QED
    BY <1>6, <1>9, <1>10 DEF RecoveryInv

-----------------------------------------------------------------------------

\* At the beginning nothing was sent, and every copy of the file says so.
LEMMA RecoveryStarts ==
  ASSUME Ounces \in Nat, RecoveryInit
  PROVE  RecoveryInv
  <1> DEFINE r == [status |-> "none", seen |-> 0]
             v == [status |-> "none", fills |-> 0]
             s == [o \in Orders |-> r]
             u == [o \in Orders |-> v]
             t == [f \in Fills |-> NoIntent]
             g == [f \in Fills |-> [a \in Attempts |-> "none"]]
  <1>1. /\ world = [src |-> u, hedge |-> g, foreign |-> FALSE] /\ native = world
        /\ business = [src |-> s, ledger |-> <<>>, intents |-> t, halt |-> "none", freeze |-> "none"]
        /\ synced = business /\ phase = "trading" /\ receipt = NoReceipt
    BY DEF RecoveryInit
  <1>2. s \in [Orders -> SourceStates] /\ \A o \in Orders : s[o] = r
    BY DEF SourceStates
  <1>3. u \in [Orders -> SourceWorlds] /\ \A o \in Orders : u[o] = v
    BY DEF SourceWorlds
  <1>4. NoIntent \in Intents
    BY DEF NoIntent, Intents
  <1>5. t \in [Fills -> Intents] /\ \A f \in Fills : t[f] = NoIntent
    BY <1>4
  <1>6. /\ g \in [Fills -> [Attempts -> {"none", "sent", "FILLED", "REJECTED"}]]
        /\ \A f \in Fills, a \in Attempts : g[f][a] = "none"
    OBVIOUS
  <1>7. <<>> \in Seq(Fills)
    OBVIOUS
  <1>8. r.status = "none" /\ v.status = "none" /\ v.fills = 0
    OBVIOUS
  <1> HIDE DEF r, v, s, u, t, g
  <1>9. /\ world \in Worlds /\ world.src = u /\ world.hedge = g
    BY <1>1, <1>3, <1>6 DEF Worlds, SourceWorlds
  <1>10. /\ business \in BusinessFiles /\ business.src = s /\ business.intents = t
    BY <1>1, <1>2, <1>5, <1>7 DEF BusinessFiles, SourceStates
  <1>11. Possible(world)
    BY <1>3, <1>6, <1>8, <1>9 DEF Possible
  <1>12. Behind(world, world)
    BY DEF Behind
  <1>13. \A f \in Fills : IntentFits(NoIntent, g[f])
    BY <1>6 DEF IntentFits, NoIntent, None, Attempts
  <1>14. BookFits(business, world)
    <2>1. \A o \in Orders : world.src[o].status = "none"
      BY <1>3, <1>8, <1>9
    <2>2. \A f \in Fills : business.intents[f] = NoIntent /\ IntentFits(NoIntent, world.hedge[f])
      BY <1>5, <1>9, <1>10, <1>13
    <2> QED
      BY <1>10, <2>1, <2>2 DEF BookFits
  <1>15. ReceiptFits
    BY <1>1 DEF ReceiptFits, Receipts, NoReceipt
  <1> QED
    BY <1>1, <1>11, <1>12, <1>14, <1>15 DEF RecoveryInv

LEMMA RoundsGated ==
  ASSUME GatedRound, RecoveryNext
  PROVE  GatedRound'
  <1>1. ASSUME NEW o \in Orders, SourceFills(o) \/ SourceEnds(o) \/ BeginSource(o)
        PROVE  GatedRound'
    BY <1>1 DEF GatedRound, SourceFills, SourceEnds, BeginSource, Trades
  <1>2. ASSUME NEW o \in Orders, HearsFill(o) \/ HearsEnd(o) PROVE GatedRound'
    BY <1>2 DEF GatedRound, HearsFill, HearsEnd, Trades
  <1>3. ASSUME NEW f \in Fills, SubmitHedge(f) \/ HearsHedge(f) PROVE GatedRound'
    BY <1>3 DEF GatedRound, SubmitHedge, HearsHedge, Trades
  <1>4. ASSUME NEW f \in Fills, NEW a \in Attempts, BrokerDecides(f, a) PROVE GatedRound'
    BY <1>4 DEF GatedRound, BrokerDecides
  <1>5. ASSUME NEW reviewed, NEW f, NEW a, Start(reviewed, f, a) PROVE GatedRound'
    BY <1>5 DEF GatedRound, Start
  <1>6. CASE ForeignTrade \/ Crash \/ PowerFails
    BY <1>6 DEF GatedRound, ForeignTrade, Crash, PowerFails, Dies, NoRound
  <1>7. CASE NewPause \/ BeginRound \/ NativeHears
    BY <1>7 DEF GatedRound, NewPause, BeginRound, NativeHears
  <1>8. CASE CollectSource \/ CollectHedge
    BY <1>8 DEF GatedRound, CollectSource, CollectHedge
  <1>9. CASE RoundFails
    BY <1>9 DEF RoundFails, GatedRound, NoRound
  <1>10. CASE FinishRound
    <2>1. round' = NoRound
      BY <1>10 DEF FinishRound
    <2> QED
      BY <2>1 DEF GatedRound, NoRound
  <1> QED
    BY <1>1, <1>2, <1>3, <1>4, <1>5, <1>6, <1>7, <1>8, <1>9, <1>10 DEF RecoveryNext

LEMMA RecoverySteps ==
  ASSUME Ounces \in Nat, RecoveryInv, GatedRound, RecoveryNext
  PROVE  RecoveryInv'
  <1>1. ASSUME NEW o \in Orders, SourceFills(o) \/ SourceEnds(o) PROVE RecoveryInv'
    BY <1>1, VenueSteps
  <1>2. ASSUME NEW o \in Orders, BeginSource(o) \/ HearsFill(o) \/ HearsEnd(o) PROVE RecoveryInv'
    BY <1>2, BeginSteps, HearsFillSteps, HearsEndSteps
  <1>3. ASSUME NEW f \in Fills, SubmitHedge(f) \/ HearsHedge(f) PROVE RecoveryInv'
    BY <1>3, SubmitSteps, HearsHedgeSteps
  <1>4. ASSUME NEW f \in Fills, NEW a \in Attempts, BrokerDecides(f, a) \/ Start(TRUE, f, a)
        PROVE  RecoveryInv'
    BY <1>4, BrokerStep, StartSteps
  <1>5. ASSUME NEW reviewed \in BOOLEAN, Start(reviewed, NoFill, None) PROVE RecoveryInv'
    BY <1>5, StartSteps
  <1>6. CASE ForeignTrade
    BY <1>6, VenueSteps
  <1>7. CASE Crash \/ PowerFails
    BY <1>7, DeathSteps
  <1>8. CASE NewPause
    BY <1>8, PauseSteps
  <1>9. CASE BeginRound \/ NativeHears \/ CollectSource \/ CollectHedge \/ RoundFails
    BY <1>9, ReadingSteps
  <1>10. CASE FinishRound
    BY <1>10, FinishSteps DEF FinishRound, GatedRound
  <1> QED
    BY <1>1, <1>2, <1>3, <1>4, <1>5, <1>6, <1>7, <1>8, <1>9, <1>10 DEF RecoveryNext

LEMMA RecoveryIsInductive == RecoverySpec => [](RecoveryInv /\ GatedRound)
  <1>1. RecoveryInit => RecoveryInv /\ GatedRound
    BY RecoveryAssumption, RecoveryStarts DEF RecoveryInit, GatedRound, NoRound
  <1>2. RecoveryInv /\ GatedRound /\ [RecoveryNext]_recoveryVars => (RecoveryInv /\ GatedRound)'
    <2>1. CASE RecoveryNext
      BY <2>1, RecoveryAssumption, RecoverySteps, RoundsGated
    <2>2. CASE UNCHANGED recoveryVars
      BY <2>2 DEF recoveryVars, RecoveryInv, ReceiptFits, GatedRound
    <2> QED
      BY <2>1, <2>2
  <1> QED
    BY <1>1, <1>2, PTL DEF RecoverySpec

\* The business file, and the copy a power cut would leave, name every source order and every
\* hedge order that was ever sent; an intent has at most one order that may have been
\* executed, and what is pending has none (the stores' write before each order; recovery).
THEOREM FilesFit == RecoverySpec => []RecoveryInv
  BY RecoveryIsInductive, PTL

\* Whatever crashes, failed writes, reviews and retries there were, no ounce is hedged twice,
\* and a process that trades has every hedge order of its fills in its books.
THEOREM NeverHedgedTwice == RecoverySpec => []HedgedOnce
  <1>1. ASSUME RecoveryInv PROVE HedgedOnce
    <2> DEFINE P(f) == {a \in Attempts : world.hedge[f][a] \in {"sent", "FILLED"}}
    <2>1. ASSUME NEW f \in Fills PROVE Cardinality(P(f)) <= 1
      <3>1. \A a \in P(f) : P(f) = {a}
        BY <1>1 DEF RecoveryInv, Possible
      <3>2. P(f) = {} \/ \E a \in Attempts : P(f) = {a}
        BY <3>1
      <3> HIDE DEF P
      <3>3. P(f) = {} => Cardinality(P(f)) = 0
        BY FS_EmptySet
      <3>4. ASSUME NEW a \in Attempts, P(f) = {a} PROVE Cardinality(P(f)) = 1
        BY <3>4, FS_Singleton
      <3> QED
        BY <3>2, <3>3, <3>4
    <2>2. ASSUME NEW f \in Fills, NEW a \in Attempts, world.hedge[f][a] # "none"
          PROVE  a <= business.intents[f].tried
      BY <1>1, <2>2 DEF RecoveryInv, BookFits, IntentFits
    <2> QED
      BY <2>1, <2>2, Zenon DEF HedgedOnce
  <1> QED
    BY <1>1, FilesFit, PTL

-----------------------------------------------------------------------------
(* What the gate opens on                                                  *)

\* Only the end of a round opens the gate, and only with everything proved.
Releases(s, h) ==
  /\ s = SourceProjected /\ h = HedgeProjected(s)
  /\ ReportsComplete /\ SourceProjectable /\ HedgeProjectable(s) /\ MayRelease(h)
  /\ ReceiptHolds(business) /\ business' = IF receipt.eligible THEN Settled(h) ELSE h

LEMMA OnlyRoundsRelease ==
  ASSUME RecoveryNext, phase = "gated", phase' = "trading"
  PROVE  \E s, h : Releases(s, h)
  <1>1. CASE FinishRound
    <2>1. PICK s, h : s = SourceProjected /\ h = HedgeProjected(s)
      OBVIOUS
    <2>2. /\ ReportsComplete /\ SourceProjectable /\ HedgeProjectable(s) /\ MayRelease(h)
          /\ ReceiptHolds(business) /\ business' = IF receipt.eligible THEN Settled(h) ELSE h
      BY <1>1, <2>1 DEF FinishRound, Writes
    <2> QED
      BY <2>1, <2>2 DEF Releases
  <1>2. ASSUME NEW o \in Orders, SourceFills(o) \/ SourceEnds(o) PROVE FALSE
    BY <1>2 DEF SourceFills, SourceEnds
  <1>3. ASSUME NEW o \in Orders, BeginSource(o) \/ HearsFill(o) \/ HearsEnd(o) PROVE FALSE
    BY <1>3 DEF BeginSource, HearsFill, HearsEnd
  <1>4. ASSUME NEW f \in Fills, SubmitHedge(f) \/ HearsHedge(f) PROVE FALSE
    BY <1>4 DEF SubmitHedge, HearsHedge
  <1>5. ASSUME NEW f, NEW a, BrokerDecides(f, a) PROVE FALSE
    BY <1>5 DEF BrokerDecides
  <1>6. ASSUME NEW reviewed, NEW f, NEW a, Start(reviewed, f, a) PROVE FALSE
    BY <1>6 DEF Start
  <1>7. CASE ForeignTrade \/ Crash \/ PowerFails
    BY <1>7 DEF ForeignTrade, Crash, PowerFails, Dies
  <1>8. CASE NewPause \/ BeginRound \/ NativeHears \/ CollectSource \/ CollectHedge \/ RoundFails
    BY <1>8 DEF NewPause, BeginRound, NativeHears, CollectSource, CollectHedge, RoundFails
  <1> QED
    BY <1>1, <1>2, <1>3, <1>4, <1>5, <1>6, <1>7, <1>8 DEF RecoveryNext

\* What the engine has proved about the source venue is still so there.
LEMMA SourcesOver ==
  ASSUME Ounces \in Nat, RecoveryInv, NEW o \in Orders,
         native.src[o].status \notin Open,
         (business.src[o].status = "none") = (native.src[o].status = "none")
  PROVE  world.src[o].status # "open" /\ world.src[o].fills = native.src[o].fills
  <1>1. native.src[o].status \in {"none", "closed"}
    BY DEF RecoveryInv, Possible, Worlds, Open
  <1>2. CASE native.src[o].status = "closed"
    BY <1>2 DEF RecoveryInv, Behind
  <1>3. CASE native.src[o].status = "none"
    <2>1. world.src[o].status = "none"
      BY <1>3 DEF RecoveryInv, BookFits
    <2> QED
      BY <1>3, <2>1 DEF RecoveryInv, Possible
  <1> QED
    BY <1>1, <1>2, <1>3

LEMMA AllFillsSeen ==
  ASSUME Ounces \in Nat, IsFiniteSet(Orders), RecoveryInv, SourceProjectable, NEW o \in Orders
  PROVE  SourceProjected.src[o].seen = native.src[o].fills
  <1>1. business.src[o].seen \in 0 .. Ounces /\ native.src[o].fills \in 0 .. Ounces
    BY DEF RecoveryInv, BookFits, BusinessFiles, Possible, Worlds
  <1>2. Unseen = {} \/ \E p \in Orders : Unseen = {p}
    <2>1. IsFiniteSet(Unseen) /\ Unseen \subseteq Orders
      BY FS_Subset DEF Unseen
    <2>2. ASSUME NEW p \in Unseen, NEW q \in Unseen PROVE p = q
      <3>1. Cardinality({p, q}) <= Cardinality(Unseen) /\ Cardinality(Unseen) \in Nat
        BY <2>1, FS_Subset, FS_CardinalityType
      <3>2. Cardinality(Unseen) <= 1
        BY DEF SourceProjectable
      <3>3. ASSUME p # q PROVE FALSE
        <4>1. Cardinality({p, q}) = 2
          <5>1. IsFiniteSet({p}) /\ Cardinality({p}) = 1 /\ q \notin {p} /\ {p, q} = {p} \union {q}
            BY <3>3, FS_Singleton
          <5>2. Cardinality({p} \union {q}) = Cardinality({p}) + 1
            BY <5>1, FS_AddElement
          <5> QED
            BY <5>1, <5>2
        <4> QED
          BY <3>1, <3>2, <4>1
      <3> QED
        BY <3>3
    <2> QED
      BY <2>1, <2>2
  <1>3. /\ \A p \in Orders : Unseen = {p} => SourceProjected.src[p].seen = native.src[p].fills
        /\ o \notin Unseen => SourceProjected.src[o].seen = business.src[o].seen
    BY SourceProjectedFits DEF RecoveryInv
  <1>4. CASE o \in Unseen
    BY <1>2, <1>3, <1>4
  <1>5. CASE o \notin Unseen
    <2>1. business.src[o].seen <= native.src[o].fills /\ ~(native.src[o].fills > business.src[o].seen)
      BY <1>5 DEF Unseen, SourceProjectable
    <2> QED
      BY <1>1, <1>3, <1>5, <2>1
  <1> QED
    BY <1>4, <1>5

LEMMA ReleaseIsTrue ==
  ASSUME Ounces \in Nat, IsFiniteSet(Orders), RecoveryInv, phase = "gated",
         NEW s, NEW h, Releases(s, h)
  PROVE  /\ \A o \in Orders : world.src[o].status # "open" /\ business'.src[o].seen = world.src[o].fills
         /\ \A f \in Fills, a \in Attempts :
              /\ world.hedge[f][a] # "sent"
              /\ world.hedge[f][a] = "FILLED" => business'.intents[f].status = "COMPLETED"
         /\ Unfinished(business') = {} \/ business'.freeze = "cycle"
         /\ ~receipt.failed /\ ~receipt.revoked
  <1>1. /\ BookFits(s, world) /\ BookFits(h, world) /\ Missing(h) = {} /\ h.src = s.src
        /\ receipt.eligible /\ MayRelease(h) => Settleable(h)
    BY RoundKnows DEF Releases
  <1>2. PICK c : c = business'
    OBVIOUS
  <1>3. \/ receipt.eligible /\ c = Settled(h) /\ Settleable(h)
        \/ c = h /\ CycleComplete(h)
    BY <1>1, <1>2 DEF Releases, MayRelease, Clean
  <1>4. ASSUME NEW o \in Orders PROVE world.src[o].status # "open" /\ c.src[o].seen = world.src[o].fills
    <2>1. world.src[o].status # "open" /\ world.src[o].fills = native.src[o].fills
      BY SourcesOver DEF Releases, ReportsComplete, SourceProjectable
    <2>2. h.src[o].seen = native.src[o].fills
      BY <1>1, AllFillsSeen DEF Releases
    <2>3. c.src[o].seen = h.src[o].seen
      BY <1>3, SettledFits DEF RecoveryInv, ReceiptFits
    <2> QED
      BY <2>1, <2>2, <2>3
  <1>5. ASSUME NEW f \in Fills, NEW a \in Attempts
        PROVE  /\ world.hedge[f][a] = native.hedge[f][a] /\ world.hedge[f][a] # "sent"
               /\ world.hedge[f][a] = "FILLED" => c.intents[f].status = "COMPLETED"
    <2>1. native.hedge[f][a] \in {"none", "FILLED", "REJECTED"}
      BY DEF Releases, ReportsComplete, RecoveryInv, Possible, Worlds, Open
    <2>2. native.hedge[f][a] = "none" => world.hedge[f][a] = "none"
      BY <1>1 DEF Releases, HedgeProjectable, BookFits, IntentFits
    <2>3. world.hedge[f][a] = native.hedge[f][a]
      BY <2>1, <2>2 DEF RecoveryInv, Behind
    <2>4. ASSUME world.hedge[f][a] = "FILLED" PROVE c.intents[f].status = "COMPLETED"
      <3>1. CASE receipt.eligible /\ c = Settled(h) /\ Settleable(h)
        BY <2>3, <2>4, <3>1, SettledFits DEF RecoveryInv, ReceiptFits
      <3>2. CASE c = h /\ CycleComplete(h)
        <4>1. a <= h.intents[f].tried
          BY <1>1, <2>4 DEF BookFits, IntentFits
        <4>2. h.intents[f].status # "none"
          BY <1>1, <4>1 DEF BookFits, IntentFits, NoIntent, Attempts
        <4> QED
          BY <3>2, <4>2 DEF CycleComplete, Unfinished
      <3> QED
        BY <1>3, <3>1, <3>2
    <2> QED
      BY <2>1, <2>3, <2>4
  <1>6. Unfinished(c) = {} \/ c.freeze = "cycle"
    BY <1>3, SettledFits DEF RecoveryInv, ReceiptFits, CycleComplete
  <1>7. ~receipt.failed /\ ~receipt.revoked
    BY DEF Releases, ReceiptHolds
  <1> QED
    BY <1>2, <1>4, <1>5, <1>6, <1>7

\* The gate opens on nothing but the venues' own truth, for any number of orders, ounces and
\* mishaps: every source order is over and fully in the file, every hedge order has its
\* outcome there, what is left is owed, and neither a failed publication nor a pause set
\* during this start is forgotten (reconcile_startup and the release behind it).
THEOREM GateOpensTruly == RecoverySpec => GateOpensOnTruth
  <1>1. ASSUME RecoveryInv, [RecoveryNext]_recoveryVars, phase = "gated", phase' = "trading"
        PROVE  /\ \A o \in Orders :
                    world.src[o].status # "open" /\ business'.src[o].seen = world.src[o].fills
               /\ \A f \in Fills, a \in Attempts :
                    /\ world.hedge[f][a] # "sent"
                    /\ world.hedge[f][a] = "FILLED" => business'.intents[f].status = "COMPLETED"
               /\ business'.ledger # <<>> => Unfinished(business') = {} \/ business'.freeze = "cycle"
               /\ ~receipt.failed /\ ~receipt.revoked
    <2>1. RecoveryNext
      BY <1>1 DEF recoveryVars
    <2> QED
      BY <1>1, <2>1, RecoveryAssumption, OnlyRoundsRelease, ReleaseIsTrue
  <1> QED
    BY <1>1, FilesFit, PTL DEF RecoverySpec, GateOpensOnTruth

=============================================================================
