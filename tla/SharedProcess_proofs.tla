-------------------------- MODULE SharedProcess_proofs --------------------------
(***************************************************************************)
(* Machine-checked proofs about the Maker and the Taker in one process,    *)
(* for every unit, every size of orders and trades, every limit, any       *)
(* number of orders one after the other and any delay of the news.         *)
(*                                                                         *)
(* Neither limit is inductive: what an account may still do depends on     *)
(* what has been admitted, and that lives in four places.  ProcessInv ties *)
(* them together.  Told: the venue's position is the engine's, and what    *)
(* has traded that the mail of the three orders still tells of; of every   *)
(* order, the mail ends it if and only if the venue's order is gone        *)
(* (MailFits).  Ledger: since the last admission the residual, the lane    *)
(* and the hedge account have gone the way that CarryLane_proofs proves of *)
(* two quotes (Carries), with the orders that are open as quotes, and the  *)
(* admission had checked just those (AdmissionFits).  A new admission      *)
(* begins that way again, because nothing is owed then (LevelWhenDone).    *)
(***************************************************************************)
EXTENDS SharedProcess, CarryLane_proofs, WellFoundedInduction

-----------------------------------------------------------------------------
(* The messages of an order: f is what the engine's leaves will be after   *)
(* each of them, and n is what has traded that they still tell of.         *)

Message == {x \in [kind : {"ack", "kept", "end", "trade"}, part : Nat] : x.kind = "trade" <=> x.part > 0}

Tale(q, leaves0, n, f) ==
    /\ f \in [0 .. Len(q) -> Nat] /\ f[0] = leaves0 /\ f[Len(q)] = leaves0 - n
    /\ \A k \in 1 .. Len(q) : f[k] = f[k - 1] - q[k].part
    /\ \A k \in 1 .. Len(q) - 1 : q[k].kind # "end" /\ f[k] > 0

\* Only the last message ends an order, and it does if the venue's order is gone.
MailFits(q, leaves0, left, gone, n) ==
    \E f : /\ Tale(q, leaves0, n, f)
           /\ IF gone THEN Len(q) > 0 /\ (q[Len(q)].kind = "end" \/ leaves0 = n)
              ELSE leaves0 - n = left /\ left > 0 /\ (Len(q) > 0 => q[Len(q)].kind # "end")

Order ==
    [side : Sides, place : {"wire", "book", "asked", "gone"}, left : Nat,
     phase : {"sent", "open", "canceling", "closed"}, leaves : Nat, mail : Seq(Message)]

OrderFits(o, n) ==
    /\ o \in Order /\ n \in Nat
    /\ o.phase = "closed" => o = NoOrder /\ n = 0
    /\ o.phase # "closed" =>
         /\ o.leaves > 0
         /\ o.place = "gone" => o.left = 0 /\ MailFits(o.mail, o.leaves, 0, TRUE, n)
         /\ o.place # "gone" => MailFits(o.mail, o.leaves, o.left, FALSE, n)

\* A set of numbers that is not empty has a least one.
LEMMA LeastMember ==
  ASSUME NEW S \in SUBSET Nat, S # {}
  PROVE  \E i \in S : \A j \in S : i <= j
  <1> DEFINE R == OpToRel(<, Nat)
  <1>1. PICK i \in S : \A j \in S : ~(<<j, i>> \in R)
    BY NatLessThanWellFounded, WFMin
  <1>2. \A j \in S : j < i => <<j, i>> \in R
    BY DEF OpToRel
  <1> HIDE DEF R
  <1>3. ASSUME NEW j \in S PROVE i <= j
    <2>1. ~(j < i)
      BY <1>1, <1>2
    <2>2. i \in Nat /\ j \in Nat
      OBVIOUS
    <2> QED
      BY <2>1, <2>2
  <1> QED
    BY <1>3

\* A message that is no end, of less than what is left; one that is the last.
LEMMA MailGrows ==
  ASSUME NEW q \in Seq(Message), NEW l \in Nat, NEW left \in Nat, NEW n \in Nat, NEW x \in Message,
         MailFits(q, l, left, FALSE, n), x.part <= left
  PROVE  /\ x.kind # "end" /\ x.part < left => MailFits(Append(q, x), l, left - x.part, FALSE, n + x.part)
         /\ x.kind = "end" \/ x.part = left => MailFits(Append(q, x), l, 0, TRUE, n + x.part)
  <1> DEFINE m == Len(q)
             a == Append(q, x)
  <1>1. PICK f : Tale(q, l, n, f) /\ l - n = left /\ left > 0 /\ (Len(q) > 0 => q[Len(q)].kind # "end")
    BY DEF MailFits
  <1> DEFINE g == [k \in 0 .. m + 1 |-> IF k <= m THEN f[k] ELSE left - x.part]
  <1>2. /\ m \in Nat /\ Len(a) = m + 1 /\ a[m + 1] = x /\ \A k \in 1 .. m : a[k] = q[k]
        /\ x.part \in Nat
    BY DEF Message
  <1>3. /\ f \in [0 .. m -> Nat] /\ f[0] = l /\ f[m] = left
        /\ \A k \in 1 .. m : f[k] = f[k - 1] - q[k].part
        /\ \A k \in 1 .. m - 1 : q[k].kind # "end" /\ f[k] > 0
        /\ m > 0 => q[m].kind # "end"
    BY <1>1 DEF Tale
  <1>4. /\ g \in [0 .. m + 1 -> Nat] /\ g[m + 1] = left - x.part
        /\ \A k \in 0 .. m : g[k] = f[k]
    <2>1. left - x.part \in Nat
      BY <1>2
    <2>2. \A k \in 0 .. m : f[k] \in Nat
      BY <1>3
    <2>3. \A k \in 0 .. m + 1 : k <= m => k \in 0 .. m
      BY <1>2
    <2> HIDE DEF m
    <2> QED
      BY <1>2, <2>1, <2>2, <2>3
  <1> HIDE DEF m, a, g
  <1>5. ASSUME NEW k \in 1 .. m + 1 PROVE g[k] = g[k - 1] - a[k].part
    <2>1. CASE k <= m
      <3>1. k \in 0 .. m /\ k - 1 \in 0 .. m /\ k \in 1 .. m
        BY <2>1, <1>2
      <3> QED
        BY <3>1, <1>2, <1>3, <1>4
    <2>2. CASE k > m
      <3>1. k = m + 1 /\ k - 1 = m /\ m \in 0 .. m
        BY <2>2, <1>2
      <3> QED
        BY <3>1, <1>2, <1>3, <1>4
    <2> QED
      BY <2>1, <2>2, <1>2
  <1>6. ASSUME NEW k \in 1 .. m PROVE a[k].kind # "end" /\ g[k] > 0
    <2>1. k \in 0 .. m /\ a[k] = q[k] /\ g[k] = f[k]
      <3>1. k \in 0 .. m
        BY <1>2
      <3> QED
        BY <3>1, <1>2, <1>4
    <2>2. CASE k = m
      BY <2>1, <2>2, <1>1, <1>3
    <2>3. CASE k # m
      <3>1. k \in 1 .. m - 1
        BY <2>3, <1>2
      <3> QED
        BY <2>1, <3>1, <1>3
    <2> QED
      BY <2>2, <2>3
  <1>7. g[0] = l /\ l - (n + x.part) = left - x.part /\ m + 1 - 1 = m
    BY <1>1, <1>2, <1>3, <1>4
  <1>8. Tale(a, l, n + x.part, g)
    <2>1. Len(a) = m + 1
      BY <1>2, <1>4
    <2>2. \A k \in 1 .. m + 1 : g[k] = g[k - 1] - a[k].part
      BY <1>5
    <2>3. \A k \in 1 .. m : a[k].kind # "end" /\ g[k] > 0
      BY <1>6
    <2>4. g \in [0 .. m + 1 -> Nat] /\ g[0] = l /\ g[m + 1] = l - (n + x.part)
      BY <1>2, <1>4, <1>7
    <2>5. /\ g \in [0 .. Len(a) -> Nat] /\ g[Len(a)] = l - (n + x.part)
          /\ \A k \in 1 .. Len(a) : g[k] = g[k - 1] - a[k].part
      BY <2>1, <2>2, <2>4
    <2>6. \A k \in 1 .. Len(a) - 1 : a[k].kind # "end" /\ g[k] > 0
      <3>1. Len(a) - 1 = m
        BY <2>1, <1>2
      <3> QED
        BY <2>3, <3>1
    <2>7. g[0] = l
      BY <2>4
    <2>8. PICK v : v = n + x.part
      OBVIOUS
    <2>9. g[Len(a)] = l - v
      BY <2>5, <2>8
    <2>10. Tale(a, l, v, g)
      BY <2>5, <2>6, <2>7, <2>9 DEF Tale
    <2> QED
      BY <2>8, <2>10
  <1>9. x.part = left => l = n + x.part
    BY <1>1, <1>2
  <1> QED
    BY <1>2, <1>7, <1>8, <1>9 DEF MailFits, a

\* Reading the first message.
LEMMA MailShrinks ==
  ASSUME NEW q \in Seq(Message), q # <<>>, NEW l \in Nat, NEW left \in Nat, NEW gone \in BOOLEAN,
         NEW n \in Nat, l > 0, MailFits(q, l, left, gone, n)
  PROVE  LET x == Head(q) IN
         /\ x \in Message /\ Tail(q) \in Seq(Message) /\ x.part <= n /\ n <= l
         /\ x.kind = "end" \/ x.part = l => n = x.part
         /\ x.kind # "end" /\ x.part # l => MailFits(Tail(q), l - x.part, left, gone, n - x.part)
  <1> DEFINE x == Head(q)
             t == Tail(q)
             m == Len(q)
  <1>1. PICK f : /\ Tale(q, l, n, f)
                 /\ IF gone THEN Len(q) > 0 /\ (q[Len(q)].kind = "end" \/ l = n)
                    ELSE l - n = left /\ left > 0 /\ (Len(q) > 0 => q[Len(q)].kind # "end")
    BY DEF MailFits
  <1> DEFINE g == [k \in 0 .. m - 1 |-> f[k + 1]]
  <1>2. /\ m \in Nat /\ m >= 1 /\ x = q[1] /\ x \in Message
        /\ t \in Seq(Message) /\ Len(t) = m - 1 /\ \A k \in 1 .. m - 1 : t[k] = q[k + 1]
    BY EmptySeq
  <1>3. x.part \in Nat
    BY <1>2 DEF Message
  <1>4. /\ f \in [0 .. m -> Nat] /\ f[0] = l /\ f[m] = l - n
        /\ \A k \in 1 .. m : f[k] = f[k - 1] - q[k].part
        /\ \A k \in 1 .. m - 1 : q[k].kind # "end" /\ f[k] > 0
    BY <1>1 DEF Tale
  <1>5. /\ g \in [0 .. m - 1 -> Nat] /\ \A k \in 0 .. m - 1 : g[k] = f[k + 1]
    BY <1>2, <1>4
  <1>6. IF gone THEN m > 0 /\ (q[m].kind = "end" \/ l = n)
        ELSE l - n = left /\ left > 0 /\ (m > 0 => q[m].kind # "end")
    BY <1>1
  <1> HIDE DEF m, x, t, g
  <1>7. f[1] = l - x.part /\ f[1] \in Nat /\ f[m] \in Nat
    BY <1>2, <1>4
  <1>8. x.kind = "end" \/ x.part = l => m = 1
    <2>1. m # 1 => q[1].kind # "end" /\ f[1] > 0
      BY <1>2, <1>4
    <2> QED
      BY <2>1, <1>2, <1>3, <1>7
  <1>9. n <= l /\ x.part <= n
    <2>1. n <= l
      BY <1>4, <1>7
    <2>2. f[m] <= f[1]
      <3> DEFINE Above == {k \in Nat : k \in 1 .. m /\ f[k] > f[1]}
      <3> SUFFICES ASSUME f[m] > f[1] PROVE FALSE
        BY <1>7
      <3>1. Above \in SUBSET Nat /\ m \in Above
        BY <1>2
      <3>2. PICK k \in Above : \A j \in Above : k <= j
        <4> HIDE DEF Above
        <4>1. Above # {}
          BY <3>1
        <4> QED
          BY <3>1, <4>1, LeastMember
      <3>3. k \in 1 .. m /\ f[k] > f[1] /\ k # 1
        BY <3>2, <1>7
      <3>4. k - 1 \in 1 .. m /\ k - 1 \in 0 .. m /\ k - 1 < k
        BY <3>3, <1>2
      <3>5. ~(f[k - 1] > f[1])
        BY <3>2, <3>4
      <3>6. q[k].part \in Nat
        BY <3>3 DEF m, Message
      <3>7. f[k] = f[k - 1] - q[k].part /\ f[k - 1] \in Nat /\ f[k] \in Nat
        <4>1. k \in 0 .. m
          BY <3>3, <1>2
        <4>2. f \in [0 .. m -> Nat] /\ \A j \in 1 .. m : f[j] = f[j - 1] - q[j].part
          BY <1>4
        <4> QED
          BY <3>3, <3>4, <4>1, <4>2
      <3>8. f[k] > f[1] /\ f[1] \in Nat
        BY <3>3, <1>7
      <3> HIDE DEF Above
      <3> QED
        BY <3>5, <3>6, <3>7, <3>8
    <2>3. f[1] = l - x.part /\ f[m] \in Nat /\ f[1] \in Nat
      BY <1>7
    <2> QED
      BY <2>1, <2>2, <2>3, <1>3, <1>4
  <1>10. x.kind = "end" \/ x.part = l => n = x.part
    BY <1>3, <1>4, <1>7, <1>8
  <1>11. ASSUME x.kind # "end", x.part # l
         PROVE  MailFits(t, l - x.part, left, gone, n - x.part)
    <2>1. g[0] = l - x.part /\ g[m - 1] = (l - x.part) - (n - x.part)
      <3>1. 0 \in 0 .. m - 1 /\ m - 1 \in 0 .. m - 1 /\ 0 + 1 = 1 /\ m - 1 + 1 = m
        BY <1>2
      <3>2. g[0] = f[1] /\ g[m - 1] = f[m]
        BY <3>1, <1>5
      <3>3. f[1] = l - x.part /\ f[m] = l - n /\ x.part \in Nat
        BY <1>3, <1>4, <1>7
      <3> QED
        BY <3>2, <3>3
    <2>2. ASSUME NEW k \in 1 .. m - 1 PROVE g[k] = g[k - 1] - t[k].part
      <3>1. k \in 0 .. m - 1 /\ k - 1 \in 0 .. m - 1 /\ k + 1 \in 1 .. m /\ k + 1 - 1 = k /\ k - 1 + 1 = k
        BY <1>2
      <3>2. f[k + 1] = f[k] - q[k + 1].part
        BY <3>1, <1>4
      <3> QED
        BY <3>1, <3>2, <1>2, <1>5
    <2>3. ASSUME NEW k \in 1 .. m - 1 - 1 PROVE t[k].kind # "end" /\ g[k] > 0
      <3>1. k \in 0 .. m - 1 /\ k \in 1 .. m - 1 /\ k + 1 \in 1 .. m - 1
        BY <1>2
      <3> QED
        BY <3>1, <1>2, <1>4, <1>5
    <2>4. Tale(t, l - x.part, n - x.part, g)
      BY <2>1, <2>2, <2>3, <1>2, <1>5 DEF Tale
    <2>5. m > 1 => t[m - 1] = q[m]
      BY <1>2
    <2>6. gone => m > 1
      <3> SUFFICES ASSUME gone, m = 1 PROVE FALSE
        BY <1>2
      <3>1. l = n
        BY <1>2, <1>6, <1>11
      <3> QED
        BY <3>1, <1>3, <1>4, <1>7, <1>11
    <2>7. (l - x.part) - (n - x.part) = l - n /\ (l = n => l - x.part = n - x.part)
      BY <1>3
    <2>8. IF gone THEN Len(t) > 0 /\ (t[Len(t)].kind = "end" \/ l - x.part = n - x.part)
          ELSE (l - x.part) - (n - x.part) = left /\ left > 0 /\ (Len(t) > 0 => t[Len(t)].kind # "end")
      <3>1. CASE gone
        BY <3>1, <2>5, <2>6, <2>7, <1>2, <1>6
      <3>2. CASE ~gone
        BY <3>2, <2>5, <2>7, <1>2, <1>6
      <3> QED
        BY <3>1, <3>2
    <2> QED
      BY <2>4, <2>8 DEF MailFits
  <1> QED
    BY <1>2, <1>9, <1>10, <1>11 DEF x, t

-----------------------------------------------------------------------------
(* What the actions do to one order.                                       *)

\* An order of the venue's with a message more.
Posted(o, place, left, x) ==
    [side |-> o.side, place |-> place, left |-> left, phase |-> o.phase, leaves |-> o.leaves,
     mail |-> Append(o.mail, x)]

\* What an order's record says.
LEMMA OrderShape ==
  ASSUME NEW o, NEW n, OrderFits(o, n)
  PROVE  /\ o \in Order /\ n \in Nat /\ o.side \in Sides /\ o.left \in Nat /\ o.leaves \in Nat
         /\ o.mail \in Seq(Message) /\ n <= o.leaves
         /\ o.place \in {"wire", "book", "asked", "gone"}
         /\ o.phase \in {"sent", "open", "canceling", "closed"}
         /\ o.place # "gone" => o.phase # "closed"
         /\ o.mail # <<>> => o.phase # "closed"
         /\ o = [side |-> o.side, place |-> o.place, left |-> o.left, phase |-> o.phase,
                 leaves |-> o.leaves, mail |-> o.mail]
  <1>1. /\ o \in Order /\ n \in Nat
        /\ o.phase = "closed" => o = NoOrder /\ n = 0
        /\ o.phase # "closed" => MailFits(o.mail, o.leaves, 0, TRUE, n) \/ MailFits(o.mail, o.leaves, o.left, FALSE, n)
    BY DEF OrderFits
  <1>2. /\ o.side \in Sides /\ o.left \in Nat /\ o.leaves \in Nat /\ o.mail \in Seq(Message)
        /\ o.place \in {"wire", "book", "asked", "gone"}
        /\ o.phase \in {"sent", "open", "canceling", "closed"}
        /\ o = [side |-> o.side, place |-> o.place, left |-> o.left, phase |-> o.phase,
                leaves |-> o.leaves, mail |-> o.mail]
    BY <1>1 DEF Order
  <1>3. NoOrder.place = "gone" /\ NoOrder.mail = <<>> /\ NoOrder.leaves = 0
    BY DEF NoOrder
  <1>4. n <= o.leaves
    <2>1. CASE o.phase = "closed"
      BY <2>1, <1>1, <1>2
    <2>2. CASE o.phase # "closed"
      <3>1. PICK f : Tale(o.mail, o.leaves, n, f)
        BY <2>2, <1>1 DEF MailFits
      <3>2. Len(o.mail) \in 0 .. Len(o.mail)
        BY <1>2
      <3>3. o.leaves - n \in Nat
        BY <3>1, <3>2 DEF Tale
      <3> QED
        BY <3>3, <1>1, <1>2
    <2> QED
      BY <2>1, <2>2
  <1> QED
    BY <1>1, <1>2, <1>3, <1>4

\* A message that does not end the order, and one that does.
LEMMA PostedFits ==
  ASSUME NEW o, NEW n, OrderFits(o, n), o.place # "gone", NEW x \in Message, x.part <= o.left,
         NEW place \in {"wire", "book", "asked"}
  PROVE  /\ x.kind # "end" /\ x.part < o.left => OrderFits(Posted(o, place, o.left - x.part, x), n + x.part)
         /\ x.kind = "end" \/ x.part = o.left => OrderFits(Posted(o, "gone", 0, x), n + x.part)
  <1>1. /\ n \in Nat /\ o.side \in Sides /\ o.left \in Nat /\ o.leaves \in Nat /\ o.mail \in Seq(Message)
        /\ o.phase \in {"sent", "open", "canceling", "closed"} /\ o.phase # "closed"
    BY OrderShape
  <1>2. o.leaves > 0 /\ MailFits(o.mail, o.leaves, o.left, FALSE, n)
    BY <1>1 DEF OrderFits
  <1>3. x.part \in Nat /\ n + x.part \in Nat /\ Append(o.mail, x) \in Seq(Message)
    BY <1>1 DEF Message
  <1>4. ASSUME x.kind # "end", x.part < o.left PROVE OrderFits(Posted(o, place, o.left - x.part, x), n + x.part)
    <2> DEFINE p == Posted(o, place, o.left - x.part, x)
    <2>1. o.left - x.part \in Nat
      BY <1>1, <1>3, <1>4
    <2>2. /\ p \in Order /\ p.phase = o.phase /\ p.place = place /\ p.leaves = o.leaves
          /\ p.mail = Append(o.mail, x) /\ p.left = o.left - x.part
      BY <2>1, <1>1, <1>3 DEF Posted, Order
    <2>3. MailFits(Append(o.mail, x), o.leaves, o.left - x.part, FALSE, n + x.part)
      BY <1>1, <1>2, <1>4, MailGrows
    <2> HIDE DEF p
    <2>4. OrderFits(p, n + x.part)
      BY <2>2, <2>3, <1>1, <1>2, <1>3 DEF OrderFits
    <2> QED
      BY <2>4 DEF p
  <1>5. ASSUME x.kind = "end" \/ x.part = o.left PROVE OrderFits(Posted(o, "gone", 0, x), n + x.part)
    <2> DEFINE p == Posted(o, "gone", 0, x)
    <2>2. /\ p \in Order /\ p.phase = o.phase /\ p.place = "gone" /\ p.leaves = o.leaves
          /\ p.mail = Append(o.mail, x) /\ p.left = 0
      BY <1>1, <1>3 DEF Posted, Order
    <2>3. MailFits(Append(o.mail, x), o.leaves, 0, TRUE, n + x.part)
      BY <1>1, <1>2, <1>5, MailGrows
    <2> HIDE DEF p
    <2>4. OrderFits(p, n + x.part)
      BY <2>2, <2>3, <1>1, <1>2, <1>3 DEF OrderFits
    <2> QED
      BY <2>4 DEF p
  <1> QED
    BY <1>4, <1>5

\* How the venue writes an order's record.
Written(o, place, left, x) ==
    [[o EXCEPT !.left = left, !.place = place] EXCEPT !.mail = Append(@, x)]

\* It writes what Posted says.
LEMMA Posting ==
  ASSUME NEW o \in Order, NEW place \in {"wire", "book", "asked", "gone"}, NEW left \in Nat, NEW x \in Message
  PROVE  Written(o, place, left, x) = Posted(o, place, left, x)
  <1>1. PICK a : a = [o EXCEPT !.left = left, !.place = place]
    OBVIOUS
  <1>0. /\ o.side \in Sides /\ o.leaves \in Nat /\ o.mail \in Seq(Message)
        /\ o.phase \in {"sent", "open", "canceling", "closed"}
    BY DEF Order
  <1>2. /\ a \in Order /\ a.side = o.side /\ a.place = place /\ a.left = left /\ a.phase = o.phase
        /\ a.leaves = o.leaves /\ a.mail = o.mail
    BY <1>0, <1>1 DEF Order
  <1>3. PICK m \in Seq(Message) : m = Append(o.mail, x)
    <2>1. Append(o.mail, x) \in Seq(Message)
      BY <1>0
    <2> QED
      BY <2>1
  <1>4. PICK b : b = [a EXCEPT !.mail = m]
    OBVIOUS
  <1>5. /\ b \in Order /\ b.side = o.side /\ b.place = place /\ b.left = left /\ b.phase = o.phase
        /\ b.leaves = o.leaves /\ b.mail = m
    BY <1>2, <1>4 DEF Order
  <1>6. b = [side |-> b.side, place |-> b.place, left |-> b.left, phase |-> b.phase,
             leaves |-> b.leaves, mail |-> b.mail]
    BY <1>5 DEF Order
  <1>7. b = Posted(o, place, left, x)
    BY <1>3, <1>5, <1>6 DEF Posted
  <1>8. [a EXCEPT !.mail = Append(@, x)] = b
    <2>1. [a EXCEPT !.mail = Append(a.mail, x)] = b
      BY <1>2, <1>3, <1>4
    <2> QED
      BY <2>1
  <1> QED
    BY <1>1, <1>7, <1>8 DEF Written

\* An order that is submitted.
LEMMA NewFits ==
  ASSUME NEW side \in Sides, NEW q \in Nat \ {0}
  PROVE  OrderFits([side |-> side, place |-> "wire", left |-> q, phase |-> "sent", leaves |-> q, mail |-> <<>>], 0)
  <1> DEFINE f == [k \in 0 .. 0 |-> q]
             o == [side |-> side, place |-> "wire", left |-> q, phase |-> "sent", leaves |-> q, mail |-> <<>>]
  <1>1. <<>> \in Seq(Message) /\ Len(<<>>) = 0 /\ q \in Nat /\ q > 0 /\ q - 0 = q
    OBVIOUS
  <1>2. f \in [0 .. 0 -> Nat] /\ f[0] = q
    BY <1>1
  <1> HIDE DEF f
  <1>3. Tale(<<>>, q, 0, f)
    BY <1>1, <1>2 DEF Tale
  <1>4. MailFits(<<>>, q, q, FALSE, 0)
    BY <1>1, <1>3 DEF MailFits
  <1>5. /\ o \in Order /\ o.phase = "sent" /\ o.place = "wire" /\ o.leaves = q
        /\ o.mail = <<>> /\ o.left = q
    BY <1>1 DEF Order
  <1> HIDE DEF o
  <1>6. OrderFits(o, 0)
    BY <1>1, <1>4, <1>5 DEF OrderFits
  <1> QED
    BY <1>6 DEF o

\* An order that the engine asks to cancel.
LEMMA AskedFits ==
  ASSUME NEW o, NEW n, OrderFits(o, n), o.phase # "closed"
  PROVE  OrderFits(Asking(o), n) /\ Asking(o).side = o.side /\ Asking(o).leaves = o.leaves
  <1> DEFINE p == Asking(o)
  <1>1. /\ n \in Nat /\ o.side \in Sides /\ o.left \in Nat /\ o.leaves \in Nat /\ o.mail \in Seq(Message)
        /\ o.place \in {"wire", "book", "asked", "gone"} /\ o \in Order
    BY OrderShape
  <1>2. p = [o EXCEPT !.phase = "canceling", !.place = IF o.place = "book" THEN "asked" ELSE o.place]
    BY DEF Asking
  <1>3. /\ p \in Order /\ p.side = o.side /\ p.left = o.left /\ p.leaves = o.leaves /\ p.mail = o.mail
        /\ p.phase = "canceling" /\ (p.place = "gone" <=> o.place = "gone")
    <2>1. PICK c \in {"wire", "book", "asked", "gone"} : c = IF o.place = "book" THEN "asked" ELSE o.place
      BY <1>1
    <2>2. p = [o EXCEPT !.phase = "canceling", !.place = c]
      BY <2>1, <1>2
    <2>3. c = "gone" <=> o.place = "gone"
      BY <2>1
    <2> HIDE DEF p
    <2> QED
      BY <2>2, <2>3, <1>1 DEF Order
  <1> HIDE DEF p
  <1>4. /\ o.leaves > 0
        /\ o.place = "gone" => o.left = 0 /\ MailFits(o.mail, o.leaves, 0, TRUE, n)
        /\ o.place # "gone" => MailFits(o.mail, o.leaves, o.left, FALSE, n)
    BY DEF OrderFits
  <1>5. OrderFits(p, n)
    BY <1>1, <1>3, <1>4 DEF OrderFits
  <1> QED
    BY <1>3, <1>5 DEF p

\* The order after its first message: closed, or with that much less to trade.
HeardAs(o, n, p) ==
    LET x == Head(o.mail) IN
    /\ x \in Message /\ x.part <= n /\ OrderFits(p, n - x.part)
    /\ \/ p = NoOrder /\ n = x.part
       \/ p.side = o.side /\ p.leaves = o.leaves - x.part

\* Reading the first message of an order keeps it fitting.
LEMMA HeardFits ==
  ASSUME NEW o, NEW n, OrderFits(o, n), o.mail # <<>>
  PROVE  HeardAs(o, n, Heard(o))
  <1> DEFINE x == Head(o.mail)
             t == Tail(o.mail)
  <1>1. /\ n \in Nat /\ o.side \in Sides /\ o.left \in Nat /\ o.leaves \in Nat /\ o.mail \in Seq(Message)
        /\ o.place \in {"wire", "book", "asked", "gone"} /\ o \in Order
        /\ o.phase \in {"sent", "open", "canceling", "closed"} /\ o.phase # "closed"
    BY OrderShape
  <1>2. /\ o.leaves > 0
        /\ o.place = "gone" => o.left = 0 /\ MailFits(o.mail, o.leaves, 0, TRUE, n)
        /\ o.place # "gone" => MailFits(o.mail, o.leaves, o.left, FALSE, n)
    BY <1>1 DEF OrderFits
  <1>3. /\ x \in Message /\ t \in Seq(Message) /\ x.part <= n /\ n <= o.leaves
        /\ x.kind = "end" \/ x.part = o.leaves => n = x.part
        /\ x.kind # "end" /\ x.part # o.leaves =>
             /\ o.place = "gone" => MailFits(t, o.leaves - x.part, 0, TRUE, n - x.part)
             /\ o.place # "gone" => MailFits(t, o.leaves - x.part, o.left, FALSE, n - x.part)
    <2>1. CASE o.place = "gone"
      BY <2>1, <1>1, <1>2, MailShrinks
    <2>2. CASE o.place # "gone"
      BY <2>2, <1>1, <1>2, MailShrinks
    <2> QED
      BY <2>1, <2>2
  <1>4. /\ x.part \in Nat /\ n - x.part \in Nat /\ x.kind \in {"ack", "kept", "end", "trade"}
        /\ x.kind = "trade" <=> x.part > 0
    BY <1>1, <1>3 DEF Message
  <1>11. o.leaves - x.part \in Nat
    <2> HIDE DEF x, t
    <2>1. n \in Nat /\ o.leaves \in Nat
      BY <1>1
    <2>2. x.part <= n /\ n <= o.leaves
      BY <1>3
    <2>3. x.part \in Nat
      BY <1>4
    <2> QED
      BY <2>1, <2>2, <2>3
  <1> DEFINE As(phase, leaves1) ==
               [side |-> o.side, place |-> o.place, left |-> o.left, phase |-> phase,
                leaves |-> leaves1, mail |-> t]
             d == IF o.phase = "sent" THEN "open" ELSE o.phase
  <1>5. /\ x.kind = "ack" => Heard(o) = As(d, o.leaves)
        /\ x.kind = "kept" => Heard(o) = As("open", o.leaves)
        /\ x.kind = "end" \/ (x.kind = "trade" /\ x.part = o.leaves) => Heard(o) = NoOrder
        /\ x.kind = "trade" /\ x.part # o.leaves => Heard(o) = As(o.phase, o.leaves - x.part)
    <2> DEFINE rest == [o EXCEPT !.mail = t]
    <2>1. Heard(o) = CASE x.kind = "ack" -> [rest EXCEPT !.phase = IF @ = "sent" THEN "open" ELSE @]
                       [] x.kind = "kept" -> [rest EXCEPT !.phase = "open"]
                       [] x.kind = "end" \/ x.part = o.leaves -> NoOrder
                       [] OTHER -> [rest EXCEPT !.leaves = @ - x.part]
      BY <1>1 DEF Heard, Order
    <2>2. o = [side |-> o.side, place |-> o.place, left |-> o.left, phase |-> o.phase,
               leaves |-> o.leaves, mail |-> o.mail]
      BY OrderShape
    <2>3. rest = As(o.phase, o.leaves)
      BY <2>2
    <2>4. [rest EXCEPT !.phase = IF @ = "sent" THEN "open" ELSE @] = As(d, o.leaves)
      <3>1. [As(o.phase, o.leaves) EXCEPT !.phase = IF @ = "sent" THEN "open" ELSE @] = As(d, o.leaves)
        OBVIOUS
      <3> HIDE DEF As, rest, d, x
      <3> QED
        BY <3>1, <2>3
    <2>5. [rest EXCEPT !.phase = "open"] = As("open", o.leaves)
      <3>1. [As(o.phase, o.leaves) EXCEPT !.phase = "open"] = As("open", o.leaves)
        OBVIOUS
      <3> HIDE DEF As, rest, d, x
      <3> QED
        BY <3>1, <2>3
    <2>6. [rest EXCEPT !.leaves = @ - x.part] = As(o.phase, o.leaves - x.part)
      <3>1. [As(o.phase, o.leaves) EXCEPT !.leaves = @ - x.part] = As(o.phase, o.leaves - x.part)
        OBVIOUS
      <3> HIDE DEF As, rest, d, x
      <3> QED
        BY <3>1, <2>3
    <2> DEFINE acked == [rest EXCEPT !.phase = IF @ = "sent" THEN "open" ELSE @]
               kept == [rest EXCEPT !.phase = "open"]
               less == [rest EXCEPT !.leaves = @ - x.part]
    <2>7. Heard(o) = CASE x.kind = "ack" -> acked
                       [] x.kind = "kept" -> kept
                       [] x.kind = "end" \/ x.part = o.leaves -> NoOrder
                       [] OTHER -> less
      BY <2>1
    <2>8. acked = As(d, o.leaves) /\ kept = As("open", o.leaves) /\ less = As(o.phase, o.leaves - x.part)
      BY <2>4, <2>5, <2>6
    <2> HIDE DEF acked, kept, less
    <2>9. /\ x.kind = "ack" => Heard(o) = acked
          /\ x.kind = "kept" => Heard(o) = kept
          /\ x.kind = "end" \/ (x.kind = "trade" /\ x.part = o.leaves) => Heard(o) = NoOrder
          /\ x.kind = "trade" /\ x.part # o.leaves => Heard(o) = less
      <3> HIDE DEF x
      <3>1. x.part = o.leaves /\ (x.kind = "ack" \/ x.kind = "kept") => FALSE
        BY <1>2, <1>1, <1>4
      <3> QED
        BY <2>7, <3>1, <1>4
    <2> QED
      BY <2>8, <2>9
  <1>9. ASSUME NEW c \in {"sent", "open", "canceling", "closed"}, NEW k \in Nat
        PROVE  /\ As(c, k) \in Order /\ As(c, k).side = o.side /\ As(c, k).place = o.place
               /\ As(c, k).left = o.left /\ As(c, k).mail = t /\ As(c, k).leaves = k /\ As(c, k).phase = c
    <2>1. t \in Seq(Message)
      BY <1>3
    <2> HIDE DEF t
    <2> QED
      BY <2>1, <1>1 DEF Order
  <1>10. d \in {"open", "canceling"}
    BY <1>1
  <1> HIDE DEF As, d
  <1> HIDE DEF x, t
  <1>6. ASSUME NEW p \in Order, p.side = o.side, p.place = o.place, p.left = o.left, p.mail = t,
               p.leaves = o.leaves - x.part, p.phase # "closed", x.kind # "end", x.part # o.leaves
        PROVE  OrderFits(p, n - x.part) /\ p.side = o.side /\ p.leaves = o.leaves - x.part
    <2>1. o.leaves - x.part > 0
      BY <1>1, <1>3, <1>4, <1>6
    <2> QED
      BY <2>1, <1>2, <1>3, <1>4, <1>6 DEF OrderFits
  <1>7. \/ Heard(o) = NoOrder /\ n = x.part
        \/ OrderFits(Heard(o), n - x.part) /\ Heard(o).side = o.side /\ Heard(o).leaves = o.leaves - x.part
    <2>1. CASE x.kind = "ack" \/ x.kind = "kept"
      <3>1. PICK c \in {"open", "canceling"} : Heard(o) = As(c, o.leaves)
        BY <2>1, <1>5, <1>10
      <3>2. x.part = 0 /\ x.kind # "end" /\ x.part # o.leaves /\ o.leaves - x.part = o.leaves
        BY <2>1, <1>1, <1>2, <1>4
      <3>3. /\ As(c, o.leaves) \in Order /\ As(c, o.leaves).side = o.side /\ As(c, o.leaves).place = o.place
            /\ As(c, o.leaves).left = o.left /\ As(c, o.leaves).mail = t
            /\ As(c, o.leaves).leaves = o.leaves - x.part /\ As(c, o.leaves).phase # "closed"
        BY <3>2, <1>1, <1>9
      <3>4. OrderFits(As(c, o.leaves), n - x.part)
        BY <3>2, <3>3, <1>6
      <3> QED
        BY <3>1, <3>3, <3>4
    <2>2. CASE x.kind = "end" \/ (x.kind = "trade" /\ x.part = o.leaves)
      BY <2>2, <1>3, <1>5
    <2>3. CASE x.kind = "trade" /\ x.part # o.leaves
      <3>1. Heard(o) = As(o.phase, o.leaves - x.part)
        BY <2>3, <1>5
      <3>2. o.leaves - x.part \in Nat
        BY <1>11
      <3> DEFINE p == As(o.phase, o.leaves - x.part)
      <3>3. /\ p \in Order /\ p.side = o.side /\ p.place = o.place /\ p.left = o.left /\ p.mail = t
            /\ p.leaves = o.leaves - x.part /\ p.phase = o.phase
        BY <3>2, <1>1, <1>9
      <3> HIDE DEF p
      <3>4. OrderFits(p, n - x.part)
        BY <3>3, <2>3, <1>1, <1>6
      <3> QED
        BY <3>1, <3>3, <3>4 DEF p
    <2> QED
      BY <2>1, <2>2, <2>3, <1>4
  <1>8. OrderFits(NoOrder, 0) /\ (n = x.part => n - x.part = 0)
    <2>1. NoOrder \in Order /\ NoOrder.phase = "closed"
      BY DEF NoOrder, Order, Sides
    <2> QED
      BY <2>1, <1>1, <1>4 DEF OrderFits
  <1> QED
    BY <1>3, <1>7, <1>8 DEF HeardAs, x

-----------------------------------------------------------------------------
(* The three orders together: what they may still trade each way, and what *)
(* has traded that the engine has not heard of.                            *)

OpenOf(o, side) == IF o.side = side THEN o.leaves ELSE 0
Open(w, side) == OpenOf(w["long"], side) + OpenOf(w["short"], side) + OpenOf(w["taker"], side)

Toward(o, n) == IF o.side = 1 THEN n ELSE -n
Unheard(w, n) == Toward(w["long"], n["long"]) + Toward(w["short"], n["short"]) + Toward(w["taker"], n["taker"])

\* The orders and their unheard fills.
AllFit(w, n) ==
    /\ w \in [Views -> Order] /\ n \in [Views -> Nat]
    /\ \A v \in Views : OrderFits(w[v], n[v])

\* A side times a quantity.
LEMMA SideTimes ==
  ASSUME NEW o \in Order, NEW n \in Int
  PROVE  o.side * n = Toward(o, n) /\ Toward(o, n) \in Int
  <1>1. o.side = 1 \/ o.side = -1
    BY DEF Order, Sides
  <1> QED
    BY <1>1 DEF Toward

\* Nothing, either way.
LEMMA TowardNothing ==
  ASSUME NEW o, NEW k \in Int, k = 0
  PROVE  Toward(o, k) = 0
  <1>1. PICK j \in Int : j = -k
    OBVIOUS
  <1>2. j + k = 0
    BY <1>1
  <1>3. j = 0
    BY <1>2
  <1> QED
    BY <1>1, <1>3 DEF Toward

\* What is open each way, in numbers.
LEMMA OpenTypes ==
  ASSUME NEW w, NEW n, AllFit(w, n)
  PROVE  /\ Open(w, 1) \in Nat /\ Open(w, -1) \in Nat /\ Unheard(w, n) \in Int
         /\ -Open(w, -1) <= Unheard(w, n) /\ Unheard(w, n) <= Open(w, 1)
  <1>1. ASSUME NEW v \in Views
        PROVE  /\ OpenOf(w[v], 1) \in Nat /\ OpenOf(w[v], -1) \in Nat /\ Toward(w[v], n[v]) \in Int
               /\ -OpenOf(w[v], -1) <= Toward(w[v], n[v]) /\ Toward(w[v], n[v]) <= OpenOf(w[v], 1)
    <2>1. OrderFits(w[v], n[v])
      BY DEF AllFit
    <2>2. n[v] \in Nat /\ w[v].side \in Sides /\ w[v].leaves \in Nat /\ n[v] <= w[v].leaves
      BY <2>1, OrderShape
    <2>3. w[v].side = 1 \/ w[v].side = -1
      BY <2>2 DEF Sides
    <2> QED
      BY <2>2, <2>3 DEF OpenOf, Toward
  <1>2. "long" \in Views /\ "short" \in Views /\ "taker" \in Views
    BY DEF Views
  <1> QED
    BY <1>1, <1>2 DEF Open, Unheard

\* f1 is f but for v.
Replaced(f, v, x, f1) == f1 = [f EXCEPT ![v] = x]

\* What that does to the books.
Adjusted(w, n, v, o, k, w1, n1) ==
    /\ AllFit(w1, n1)
    /\ Open(w1, 1) = Open(w, 1) - OpenOf(w[v], 1) + OpenOf(o, 1)
    /\ Open(w1, -1) = Open(w, -1) - OpenOf(w[v], -1) + OpenOf(o, -1)
    /\ Unheard(w1, n1) = Unheard(w, n) - Toward(w[v], n[v]) + Toward(o, k)

\* One order changes.
LEMMA OneChanges ==
  ASSUME NEW w, NEW n, AllFit(w, n), NEW v \in Views, NEW o, NEW k, OrderFits(o, k),
         NEW w1, NEW n1, Replaced(w, v, o, w1), Replaced(n, v, k, n1)
  PROVE  Adjusted(w, n, v, o, k, w1, n1)
  <1>1. w \in [Views -> Order] /\ n \in [Views -> Nat] /\ \A u \in Views : OrderFits(w[u], n[u])
    BY DEF AllFit
  <1>2. o \in Order /\ k \in Nat
    BY OrderShape
  <1>3. /\ w1 \in [Views -> Order] /\ n1 \in [Views -> Nat] /\ w1[v] = o /\ n1[v] = k
        /\ \A u \in Views \ {v} : w1[u] = w[u] /\ n1[u] = n[u]
    BY <1>1, <1>2 DEF Replaced
  <1>4. AllFit(w1, n1)
    <2>1. ASSUME NEW u \in Views PROVE OrderFits(w1[u], n1[u])
      <3>1. CASE u = v
        BY <3>1, <1>3
      <3>2. CASE u # v
        BY <3>2, <1>1, <1>3
      <3> QED
        BY <3>1, <3>2
    <2> QED
      BY <2>1, <1>3 DEF AllFit
  <1>5. ASSUME NEW p \in Order, NEW j \in Nat
        PROVE  OpenOf(p, 1) \in Int /\ OpenOf(p, -1) \in Int /\ Toward(p, j) \in Int
    BY DEF OpenOf, Toward, Order
  <1>6. ASSUME NEW u \in Views
        PROVE  /\ OpenOf(w[u], 1) \in Int /\ OpenOf(w[u], -1) \in Int /\ Toward(w[u], n[u]) \in Int
    BY <1>1, <1>5
  <1>7. OpenOf(o, 1) \in Int /\ OpenOf(o, -1) \in Int /\ Toward(o, k) \in Int
    BY <1>2, <1>5
  <1>8. "long" \in Views /\ "short" \in Views /\ "taker" \in Views
    BY DEF Views
  <1>9. /\ Open(w1, 1) = Open(w, 1) - OpenOf(w[v], 1) + OpenOf(o, 1)
        /\ Open(w1, -1) = Open(w, -1) - OpenOf(w[v], -1) + OpenOf(o, -1)
        /\ Unheard(w1, n1) = Unheard(w, n) - Toward(w[v], n[v]) + Toward(o, k)
    <2>1. CASE v = "long"
      BY <2>1, <1>3, <1>6, <1>7, <1>8 DEF Open, Unheard
    <2>2. CASE v = "short"
      BY <2>2, <1>3, <1>6, <1>7, <1>8 DEF Open, Unheard
    <2>3. CASE v = "taker"
      BY <2>3, <1>3, <1>6, <1>7, <1>8 DEF Open, Unheard
    <2> QED
      BY <2>1, <2>2, <2>3 DEF Views
  <1> QED
    BY <1>4, <1>9 DEF Adjusted

-----------------------------------------------------------------------------
(* What was admitted, in arguments.                                        *)

Keeps(onlyLong, before, after, minimum) ==
    onlyLong => before * after >= 0
                /\ ~(Size(after) < minimum /\ Size(after) < Size(before))

Bounded(onlyLong, net, buy, sell, maximum, minimum) ==
    /\ net + buy <= Largest(net, maximum)
    /\ net - sell >= Least(net, -maximum)
    /\ Keeps(onlyLong, net, net + buy, minimum) /\ Keeps(onlyLong, net, net - sell, minimum)

\* Between its two ends an account keeps the limits it was checked against.
LEMMA StaysWithin ==
  ASSUME NEW onlyLong \in BOOLEAN, NEW net \in Int, NEW buy \in Nat, NEW sell \in Nat, NEW x \in Int,
         NEW maximum \in Nat, NEW minimum \in Nat,
         Bounded(onlyLong, net, buy, sell, maximum, minimum), Size(net) <= maximum,
         net - sell <= x, x <= net + buy
  PROVE  Size(x) <= maximum /\ (net # 0 => Keeps(onlyLong, net, x, minimum))
  <1>1. net + buy <= maximum /\ -maximum <= net - sell
    <2>1. net <= maximum /\ -maximum <= net
      BY DEF Size
    <2>2. net + buy <= Largest(net, maximum) /\ net - sell >= Least(net, -maximum)
      BY DEF Bounded
    <2> QED
      BY <2>1, <2>2 DEF Largest, Least
  <1>2. Size(x) <= maximum
    BY <1>1 DEF Size
  <1>3. ASSUME net # 0, onlyLong
        PROVE  net * x >= 0 /\ ~(Size(x) < minimum /\ Size(x) < Size(net))
    <2>1. /\ net * (net + buy) >= 0 /\ ~(Size(net + buy) < minimum /\ Size(net + buy) < Size(net))
          /\ net * (net - sell) >= 0 /\ ~(Size(net - sell) < minimum /\ Size(net - sell) < Size(net))
      BY <1>3 DEF Bounded, Keeps
    <2>2. CASE net > 0
      <3>1. net - sell >= 0
        <4>1. ASSUME NEW z \in Int, z < 0 PROVE net * z < 0
          BY <2>2, <4>1
        <4>2. net - sell \in Int
          OBVIOUS
        <4> QED
          BY <2>1, <4>1, <4>2
      <3>2. x >= 0
        BY <3>1
      <3>3. net * x >= 0
        BY <2>2, <3>2
      <3> QED
        BY <2>1, <2>2, <3>1, <3>2, <3>3 DEF Size
    <2>3. CASE net < 0
      <3>1. net + buy <= 0
        <4>1. ASSUME NEW z \in Int, z > 0 PROVE net * z < 0
          BY <2>3, <4>1
        <4>2. net + buy \in Int
          OBVIOUS
        <4> QED
          BY <2>1, <4>1, <4>2
      <3>2. x <= 0
        BY <3>1
      <3>3. net * x >= 0
        BY <2>3, <3>2
      <3> QED
        BY <2>1, <2>3, <3>1, <3>2, <3>3 DEF Size
    <2> QED
      BY <2>2, <2>3, <1>3
  <1> QED
    BY <1>2, <1>3 DEF Keeps

\* The position of both accounts when the last order was admitted.
Net(r) == r.source + Unit * r.hedge

\* What the rule r had checked of the orders open then, buy and sell of them.
AdmissionFits(r, buy, sell) ==
    /\ Size(r.source) <= SourceMax /\ Size(r.hedge) <= HedgeMax
    /\ Bounded(r.onlyLong, r.source, buy, sell, SourceMax, MinKeep)
    /\ CarryExposure(Net(r), buy, sell) <= MaxUnhedged
    /\ Bounded(r.onlyLong, r.hedge, HedgeBuys(Net(r), sell), HedgeSells(Net(r), buy), HedgeMax, 0)

\* What has happened to them since, as the engine and the ledger know it.
Lane(r, buy, sell, w, pos, hedge, res, q) ==
    Carries(Net(r), buy, sell, res, Open(w, 1), Open(w, -1), q, hedge - r.hedge, pos - r.source)

Ledger(r, w, pos, hedge, res, q) ==
    \E buy \in Nat, sell \in Nat : AdmissionFits(r, buy, sell) /\ Lane(r, buy, sell, w, pos, hedge, res, q)

Rules == [onlyLong : BOOLEAN, source : Int, hedge : Int, orders : Nat]

\* Multiplying by the unit distributes.
LEMMA MulSum ==
  ASSUME NEW a \in Int, NEW b \in Int
  PROVE  Unit * (a + b) = Unit * a + Unit * b /\ Unit * (a - b) = Unit * a - Unit * b
         /\ Unit * a \in Int /\ Unit * b \in Int
  BY UnitFacts

\* Whatever the engine has not heard of yet, the limits hold.
LEMMA LimitsHold ==
  ASSUME NEW r \in Rules, NEW w, NEW pos \in Int, NEW hedge \in Int, NEW res, NEW q,
         NEW bid \in Nat, NEW ask \in Nat, bid = Open(w, 1), ask = Open(w, -1),
         Ledger(r, w, pos, hedge, res, q), NEW i \in Int, -ask <= i, i <= bid
  PROVE  /\ Size(pos + i) <= SourceMax /\ Size(hedge) <= HedgeMax
         /\ Size(pos + i + Unit * hedge) <= MaxUnhedged
         /\ r.source # 0 => Keeps(r.onlyLong, r.source, pos + i, MinKeep)
         /\ r.hedge # 0 => Keeps(r.onlyLong, r.hedge, hedge, 0)
  <1>1. PICK buy \in Nat, sell \in Nat : AdmissionFits(r, buy, sell) /\ Lane(r, buy, sell, w, pos, hedge, res, q)
    BY DEF Ledger
  <1>2. r.source \in Int /\ r.hedge \in Int /\ r.onlyLong \in BOOLEAN
    BY DEF Rules
  <1>3. PICK r0 \in Int : r0 = Net(r)
    BY <1>2, UnitFacts DEF Net
  <1>4. PICK m \in Int : m = hedge - r.hedge
    BY <1>2
  <1>5. PICK b \in Int : b = pos - r.source
    BY <1>2
  <1>6. Carries(r0, buy, sell, res, bid, ask, q, m, b)
    BY <1>1, <1>3, <1>4, <1>5 DEF Lane
  <1>7. BooksFit(buy, sell, b, bid, ask)
    BY <1>6, CarriesTypes
  <1>8. /\ Size(r0 + b + i + Unit * m) <= CarryExposure(r0, buy, sell)
        /\ m <= HedgeOunces(-r0, sell) /\ -m <= HedgeOunces(r0, buy)
    BY <1>6, CarriesBounds
  <1>9. SourceMax \in Nat /\ HedgeMax \in Nat /\ MinKeep \in Nat /\ MaxUnhedged \in Nat
    BY ProcessAssumption
  <1>10. /\ Size(r.source) <= SourceMax /\ Size(r.hedge) <= HedgeMax
         /\ Bounded(r.onlyLong, r.source, buy, sell, SourceMax, MinKeep)
         /\ CarryExposure(r0, buy, sell) <= MaxUnhedged
         /\ Bounded(r.onlyLong, r.hedge, HedgeBuys(r0, sell), HedgeSells(r0, buy), HedgeMax, 0)
    BY <1>1, <1>3 DEF AdmissionFits
  <1>11. /\ Size(pos + i) <= SourceMax
         /\ r.source # 0 => Keeps(r.onlyLong, r.source, pos + i, MinKeep)
    <2>1. r.source - sell <= pos + i /\ pos + i <= r.source + buy
      BY <1>2, <1>5, <1>7 DEF BooksFit
    <2>2. pos + i \in Int
      OBVIOUS
    <2> QED
      BY <2>1, <2>2, <1>2, <1>9, <1>10, StaysWithin
  <1>12. Size(hedge) <= HedgeMax /\ (r.hedge # 0 => Keeps(r.onlyLong, r.hedge, hedge, 0))
    <2>1. PICK s0 \in Int : s0 = -r0
      OBVIOUS
    <2>2. PICK hb \in Nat : hb = HedgeBuys(r0, sell) /\ m <= hb
      BY <2>1, <1>8, OuncesFacts DEF HedgeBuys
    <2>3. PICK hs \in Nat : hs = HedgeSells(r0, buy) /\ -m <= hs
      BY <1>8, OuncesFacts DEF HedgeSells
    <2>4. r.hedge - hs <= hedge /\ hedge <= r.hedge + hb
      BY <2>2, <2>3, <1>2, <1>4
    <2>5. Bounded(r.onlyLong, r.hedge, hb, hs, HedgeMax, 0)
      BY <2>2, <2>3, <1>10
    <2>6. PICK zero \in Nat : zero = 0
      OBVIOUS
    <2>7. Size(hedge) <= HedgeMax /\ (r.hedge # 0 => Keeps(r.onlyLong, r.hedge, hedge, zero))
      BY <2>4, <2>5, <2>6, <1>2, <1>9, <1>10, StaysWithin
    <2> QED
      BY <2>6, <2>7
  <1>13. Size(pos + i + Unit * hedge) <= MaxUnhedged
    <2>1. Unit * m = Unit * hedge - Unit * r.hedge /\ Unit * hedge \in Int /\ Unit * r.hedge \in Int
      BY <1>2, <1>4, MulSum
    <2>2. r0 = r.source + Unit * r.hedge
      BY <1>3 DEF Net
    <2>3. r0 + b + i + Unit * m = pos + i + Unit * hedge
      BY <2>1, <2>2, <1>2, <1>5
    <2>4. PICK c : c = CarryExposure(r0, buy, sell)
      OBVIOUS
    <2>5. PICK z : z = pos + i + Unit * hedge
      OBVIOUS
    <2>6. Size(z) <= c /\ c <= MaxUnhedged
      BY <2>3, <2>4, <2>5, <1>8, <1>10
    <2>7. z \in Int /\ Size(z) \in Int
      BY <2>1, <2>5 DEF Size
    <2>8. c \in Int
      <3>1. r0 + buy - sell \in Int /\ Half \in Int
        BY UnitFacts
      <3> QED
        BY <2>4, <3>1 DEF CarryExposure, Largest, Size
    <2> QED
      BY <2>5, <2>6, <2>7, <2>8, <1>9
  <1> QED
    BY <1>11, <1>12, <1>13

-----------------------------------------------------------------------------
(* The inductive invariant.                                                *)

ProcessTypes ==
    /\ accounts \in [source : Int, hedge : Int] /\ position \in Int
    /\ facts \in [source : Int, hedge : Int, budget : BOOLEAN]
    /\ owner \in [residual : Int, lane : Seq(Int \ {0}), freeze : {"none", "cycle", "external"}]
    /\ drain \in [phase : {"run", "drain", "complete", "timeout"}, canceled : SUBSET Views]
    /\ rule \in Rules

\* What has traded is what the engine has heard of and what it has not.
Told(w, source, pos) == \E n : AllFit(w, n) /\ source = pos + Unheard(w, n)

ProcessInv ==
    /\ ProcessTypes
    /\ Told(work, accounts.source, position)
    /\ Ledger(rule, work, position, accounts.hedge, owner.residual, owner.lane)
    /\ drain.phase = "complete" => CycleDone(owner, work)

\* Its parts, as the steps need them.
LEMMA ProcessFacts ==
  ASSUME ProcessInv
  PROVE  /\ accounts = [source |-> accounts.source, hedge |-> accounts.hedge]
         /\ accounts.source \in Int /\ accounts.hedge \in Int /\ position \in Int
         /\ owner = [residual |-> owner.residual, lane |-> owner.lane, freeze |-> owner.freeze]
         /\ owner.residual \in Int /\ owner.lane \in Seq(Int \ {0})
         /\ owner.freeze \in {"none", "cycle", "external"}
         /\ drain.phase \in {"run", "drain", "complete", "timeout"} /\ drain.canceled \in SUBSET Views
         /\ rule \in Rules /\ rule.source \in Int /\ rule.hedge \in Int /\ rule.onlyLong \in BOOLEAN
         /\ \E n : AllFit(work, n) /\ accounts.source = position + Unheard(work, n)
  BY DEF ProcessInv, ProcessTypes, Told, Rules

\* Less may still trade: an order that ends, or that is smaller.
LEMMA LedgerShrinks ==
  ASSUME NEW r, NEW w, NEW pos, NEW hedge, NEW res, NEW q, NEW w1,
         Ledger(r, w, pos, hedge, res, q),
         NEW bid \in Nat, NEW ask \in Nat, bid = Open(w1, 1), ask = Open(w1, -1),
         bid <= Open(w, 1), ask <= Open(w, -1)
  PROVE  Ledger(r, w1, pos, hedge, res, q)
  <1>1. PICK buy \in Nat, sell \in Nat : AdmissionFits(r, buy, sell) /\ Lane(r, buy, sell, w, pos, hedge, res, q)
    BY DEF Ledger
  <1>2. PICK r0, m, b, bid0, ask0 : /\ r0 = Net(r) /\ m = hedge - r.hedge /\ b = pos - r.source
                                    /\ bid0 = Open(w, 1) /\ ask0 = Open(w, -1)
    OBVIOUS
  <1>3. Carries(r0, buy, sell, res, bid0, ask0, q, m, b)
    BY <1>1, <1>2 DEF Lane
  <1>4. Carries(r0, buy, sell, res, bid, ask, q, m, b)
    BY <1>2, <1>3, WithdrawalCarries
  <1>5. Lane(r, buy, sell, w1, pos, hedge, res, q)
    BY <1>2, <1>4 DEF Lane
  <1> QED
    BY <1>1, <1>5 DEF Ledger

\* The books of orders of which none has changed its side or what it may trade.
LEMMA SameOpen ==
  ASSUME NEW w, NEW w1, \A v \in Views : w1[v].side = w[v].side /\ w1[v].leaves = w[v].leaves
  PROVE  Open(w1, 1) = Open(w, 1) /\ Open(w1, -1) = Open(w, -1)
         /\ \A n : Unheard(w1, n) = Unheard(w, n)
  <1>1. "long" \in Views /\ "short" \in Views /\ "taker" \in Views
    BY DEF Views
  <1> QED
    BY <1>1 DEF Open, OpenOf, Unheard, Toward

\* The venue does something to an order, and tells of it.
LEMMA VenueSteps ==
  ASSUME ProcessInv, NEW v \in Views, NEW n, AllFit(work, n), accounts.source = position + Unheard(work, n),
         NEW k \in Nat, NEW o, OrderFits(o, n[v] + k), o.side = work[v].side, o.leaves = work[v].leaves,
         work[v].phase # "closed",
         work' = [work EXCEPT ![v] = o],
         accounts' \in [source : Int, hedge : Int], accounts'.hedge = accounts.hedge,
         accounts'.source = accounts.source + Toward(work[v], k),
         UNCHANGED <<facts, position, owner, drain, rule>>
  PROVE  ProcessInv'
  <1>1. /\ work \in [Views -> Order] /\ n \in [Views -> Nat]
        /\ position \in Int /\ accounts.source \in Int
    BY ProcessFacts DEF AllFit
  <1>2. PICK j \in Nat : j = n[v] + k /\ OrderFits(o, j)
    <2>1. n[v] + k \in Nat
      BY <1>1
    <2> QED
      BY <2>1
  <1>12. PICK n1, w1 : Replaced(n, v, j, n1) /\ Replaced(work, v, o, w1)
    BY DEF Replaced
  <1>3. /\ AllFit(w1, n1)
        /\ Open(w1, 1) = Open(work, 1) - OpenOf(work[v], 1) + OpenOf(o, 1)
        /\ Open(w1, -1) = Open(work, -1) - OpenOf(work[v], -1) + OpenOf(o, -1)
        /\ Unheard(w1, n1) = Unheard(work, n) - Toward(work[v], n[v]) + Toward(o, j)
    <2>1. Adjusted(work, n, v, o, j, w1, n1)
      BY <1>2, <1>12, OneChanges
    <2> QED
      BY <2>1 DEF Adjusted
  <1>4. /\ Open(work, 1) \in Nat /\ Open(work, -1) \in Nat /\ Unheard(work, n) \in Int
        /\ OpenOf(work[v], 1) \in Int /\ OpenOf(work[v], -1) \in Int
    <2>1. work[v].leaves \in Nat
      BY <1>1 DEF Order
    <2> QED
      BY <2>1, OpenTypes DEF OpenOf
  <1>5. OpenOf(o, 1) = OpenOf(work[v], 1) /\ OpenOf(o, -1) = OpenOf(work[v], -1)
    BY DEF OpenOf
  <1>6. /\ Toward(o, j) = Toward(work[v], n[v]) + Toward(work[v], k)
        /\ Toward(work[v], n[v]) \in Int /\ Toward(work[v], k) \in Int
    <2>1. n[v] \in Nat
      BY <1>1
    <2> QED
      BY <2>1, <1>2 DEF Toward
  <1>7. Unheard(w1, n1) = Unheard(work, n) + Toward(work[v], k)
    BY <1>3, <1>4, <1>6
  <1>8. Told(work', accounts'.source, position')
    <2>1. accounts'.source = position + Unheard(w1, n1)
      BY <1>1, <1>4, <1>6, <1>7
    <2> QED
      BY <2>1, <1>3, <1>12 DEF Told, Replaced
  <1>9. Ledger(rule', work', position', accounts'.hedge, owner'.residual, owner'.lane)
    <2>1. Open(w1, 1) = Open(work, 1) /\ Open(w1, -1) = Open(work, -1)
      BY <1>3, <1>4, <1>5
    <2>2. Ledger(rule, work, position, accounts.hedge, owner.residual, owner.lane)
      BY DEF ProcessInv
    <2>3. Ledger(rule, w1, position, accounts.hedge, owner.residual, owner.lane)
      BY <2>1, <2>2, <1>4 DEF Ledger, Lane
    <2> QED
      BY <2>3, <1>12 DEF Replaced
  <1>10. ProcessTypes'
    BY DEF ProcessInv, ProcessTypes
  <1>11. drain'.phase = "complete" => CycleDone(owner', work')
    BY DEF ProcessInv, CycleDone
  <1> QED
    BY <1>8, <1>9, <1>10, <1>11 DEF ProcessInv

\* An order that the venue takes, and one that it keeps.
LEMMA VenueAnswers ==
  ASSUME ProcessInv, NEW v \in Views, VenueAccepts(v) \/ VenueRefusesCancel(v)
  PROVE  ProcessInv'
  <1>1. PICK n : AllFit(work, n) /\ accounts.source = position + Unheard(work, n)
    BY ProcessFacts
  <1> DEFINE o == work[v]
             x == IF o.place = "wire" THEN Says("ack", 0) ELSE Says("kept", 0)
             p == Posted(o, "book", o.left - x.part, x)
  <1>2. OrderFits(o, n[v])
    BY <1>1 DEF AllFit
  <1>3. o.place = "wire" \/ o.place = "asked"
    BY DEF VenueAccepts, VenueRefusesCancel
  <1>4. /\ o.phase # "closed" /\ o.left \in Nat /\ n[v] \in Nat
        /\ o = [side |-> o.side, place |-> o.place, left |-> o.left, phase |-> o.phase,
                leaves |-> o.leaves, mail |-> o.mail]
    BY <1>2, <1>3, OrderShape
  <1>5. x \in Message /\ x.part = 0 /\ x.kind # "end"
    BY DEF Says, Message
  <1>6. 0 < o.left
    BY <1>2, <1>3, <1>4 DEF OrderFits, MailFits
  <1>7. OrderFits(p, n[v] + 0) /\ p.side = o.side /\ p.leaves = o.leaves
    <2>1. OrderFits(p, n[v] + x.part)
      <3> HIDE DEF x
      <3>1. x.part <= o.left /\ x.part < o.left
        BY <1>4, <1>5, <1>6
      <3>2. o.place # "gone"
        BY <1>3
      <3> HIDE DEF o
      <3> QED
        BY <3>1, <3>2, <1>2, <1>5, PostedFits
    <2> QED
      BY <2>1, <1>5 DEF Posted
  <1>8. /\ work' = [work EXCEPT ![v] = [[o EXCEPT !.place = "book"] EXCEPT !.mail = Append(@, x)]]
        /\ UNCHANGED <<accounts, facts, position, owner, drain, rule>>
    BY <1>3 DEF VenueAccepts, VenueRefusesCancel, Tells
  <1>9. [[o EXCEPT !.place = "book"] EXCEPT !.mail = Append(@, x)] = p
    <2>1. o.left - x.part = o.left
      BY <1>4, <1>5
    <2>2. p = Posted(o, "book", o.left, x)
      BY <2>1
    <2> HIDE DEF p, x, o
    <2>3. o \in Order /\ o.left \in Nat /\ x \in Message
      BY <1>2, <1>5, OrderShape
    <2>6. PICK l \in Nat, book \in {"wire", "book", "asked", "gone"} : l = o.left /\ book = "book"
      BY <2>3
    <2>7. Written(o, book, l, x) = Posted(o, book, l, x)
      BY <2>3, Posting
    <2>4. Written(o, "book", o.left, x) = p
      BY <2>2, <2>6, <2>7
    <2>5. [o EXCEPT !.place = "book"] = [o EXCEPT !.left = o.left, !.place = "book"]
      BY <2>3 DEF Order
    <2> QED
      BY <2>4, <2>5 DEF Written
  <1>10. work' = [work EXCEPT ![v] = p]
    BY <1>8, <1>9
  <1>12. PICK zero \in Nat : zero = 0
    OBVIOUS
  <1>11. /\ accounts' \in [source : Int, hedge : Int] /\ accounts'.hedge = accounts.hedge
         /\ accounts'.source = accounts.source + Toward(work[v], zero)
    <2>1. accounts \in [source : Int, hedge : Int] /\ accounts.source \in Int
      BY DEF ProcessInv, ProcessTypes
    <2>2. Toward(work[v], zero) = 0
      BY <1>12, TowardNothing
    <2> QED
      BY <2>1, <2>2, <1>8
  <1>13. OrderFits(p, n[v] + zero)
    BY <1>7, <1>12
  <1> HIDE DEF p, x
  <1> QED
    BY <1>1, <1>4, <1>7, <1>8, <1>10, <1>11, <1>13, VenueSteps

\* A trade, of part of the order or of the rest of it.
LEMMA VenueTradesStep ==
  ASSUME ProcessInv, NEW v \in Views, NEW part \in TradeSizes, VenueTrades(v, part)
  PROVE  ProcessInv'
  <1>1. PICK n : AllFit(work, n) /\ accounts.source = position + Unheard(work, n)
    BY ProcessFacts
  <1>2. PICK o : o = work[v]
    OBVIOUS
  <1>3. PICK x : x = Says("trade", part)
    OBVIOUS
  <1>4. part \in Nat /\ part > 0 /\ x \in Message /\ x.part = part /\ x.kind # "end"
    <2>1. part \in Nat \ {0}
      BY ProcessAssumption
    <2> QED
      BY <2>1, <1>3 DEF Says, Message
  <1>5. OrderFits(o, n[v])
    BY <1>1, <1>2 DEF AllFit
  <1>6. PICK rest : rest = o.left - part
    OBVIOUS
  <1>7. /\ o.place # "gone" /\ o.place # "wire" /\ rest >= 0
        /\ work' = [work EXCEPT ![v] =
                      [[o EXCEPT !.left = rest, !.place = IF rest = 0 THEN "gone" ELSE @] EXCEPT !.mail = Append(@, x)]]
        /\ accounts' = [accounts EXCEPT !.source = @ + o.side * part]
        /\ UNCHANGED <<facts, position, owner, drain, rule>>
    BY <1>2, <1>3, <1>6 DEF VenueTrades, Tells
  <1>8. /\ o \in Order /\ o.left \in Nat /\ n[v] \in Nat /\ o.phase # "closed"
        /\ o.place \in {"wire", "book", "asked"}
    BY <1>5, <1>7, OrderShape
  <1>9. rest \in Nat /\ part <= o.left
    BY <1>4, <1>6, <1>7, <1>8
  <1>10. PICK place \in {"wire", "book", "asked", "gone"} :
           /\ place = IF rest = 0 THEN "gone" ELSE o.place
           /\ work' = [work EXCEPT ![v] = Written(o, place, rest, x)]
    <2>1. PICK c : c = IF rest = 0 THEN "gone" ELSE o.place
      OBVIOUS
    <2>2. work' = [work EXCEPT ![v] = [[o EXCEPT !.left = rest, !.place = c] EXCEPT !.mail = Append(@, x)]]
      <3>1. [o EXCEPT !.left = rest, !.place = IF rest = 0 THEN "gone" ELSE @] = [o EXCEPT !.left = rest, !.place = c]
        BY <2>1, <1>8 DEF Order
      <3> QED
        BY <3>1, <1>7
    <2> QED
      BY <2>1, <2>2, <1>8 DEF Written
  <1>11. work' = [work EXCEPT ![v] = Posted(o, place, rest, x)]
    BY <1>4, <1>8, <1>9, <1>10, Posting
  <1>12. OrderFits(Posted(o, place, rest, x), n[v] + part)
    <2>1. CASE rest = 0
      <3>1. x.part = o.left /\ place = "gone" /\ x.part <= o.left
        BY <2>1, <1>4, <1>6, <1>8, <1>10
      <3>2. OrderFits(Posted(o, "gone", 0, x), n[v] + x.part)
        BY <3>1, <1>4, <1>5, <1>7, <1>8, PostedFits
      <3> QED
        BY <3>1, <3>2, <2>1, <1>4
    <2>2. CASE rest # 0
      <3>1. x.part < o.left /\ place = o.place /\ x.part <= o.left /\ rest = o.left - x.part
        BY <2>2, <1>4, <1>6, <1>8, <1>9, <1>10
      <3>2. OrderFits(Posted(o, o.place, o.left - x.part, x), n[v] + x.part)
        BY <3>1, <1>4, <1>5, <1>7, <1>8, PostedFits
      <3> QED
        BY <3>1, <3>2, <1>4
    <2> QED
      BY <2>1, <2>2
  <1>13. /\ accounts' \in [source : Int, hedge : Int] /\ accounts'.hedge = accounts.hedge
         /\ accounts'.source = accounts.source + Toward(o, part)
    <2>1. accounts \in [source : Int, hedge : Int] /\ accounts.source \in Int
      BY DEF ProcessInv, ProcessTypes
    <2>2. o.side * part = Toward(o, part) /\ Toward(o, part) \in Int
      BY <1>4, <1>8, SideTimes
    <2> QED
      BY <2>1, <2>2, <1>7
  <1>14. PICK p : p = Posted(o, place, rest, x)
    OBVIOUS
  <1>15. p.side = work[v].side /\ p.leaves = work[v].leaves
    BY <1>2, <1>14 DEF Posted
  <1> QED
    BY <1>1, <1>2, <1>4, <1>7, <1>8, <1>11, <1>12, <1>13, <1>14, <1>15, VenueSteps

\* An order that the venue ends.
LEMMA VenueClosesStep ==
  ASSUME ProcessInv, NEW v \in Views, VenueCloses(v)
  PROVE  ProcessInv'
  <1>1. PICK n : AllFit(work, n) /\ accounts.source = position + Unheard(work, n)
    BY ProcessFacts
  <1>2. PICK o : o = work[v]
    OBVIOUS
  <1>3. PICK x : x = Says("end", 0)
    OBVIOUS
  <1>4. x \in Message /\ x.part = 0 /\ x.kind = "end"
    BY <1>3 DEF Says, Message
  <1>5. OrderFits(o, n[v])
    BY <1>1, <1>2 DEF AllFit
  <1>6. PICK zero \in Nat, gone \in {"wire", "book", "asked", "gone"} : zero = 0 /\ gone = "gone"
    OBVIOUS
  <1>7. /\ o.place # "gone"
        /\ work' = [work EXCEPT ![v] = [[o EXCEPT !.left = 0, !.place = "gone"] EXCEPT !.mail = Append(@, x)]]
        /\ UNCHANGED <<accounts, facts, position, owner, drain, rule>>
    BY <1>2, <1>3 DEF VenueCloses, Tells
  <1>8. /\ o \in Order /\ o.left \in Nat /\ n[v] \in Nat /\ o.phase # "closed"
        /\ o.place \in {"wire", "book", "asked"}
    BY <1>5, <1>7, OrderShape
  <1>9. work' = [work EXCEPT ![v] = Written(o, gone, zero, x)]
    BY <1>6, <1>7 DEF Written
  <1>10. work' = [work EXCEPT ![v] = Posted(o, gone, zero, x)]
    BY <1>4, <1>8, <1>9, Posting
  <1>11. OrderFits(Posted(o, gone, zero, x), n[v] + zero)
    <2>1. OrderFits(Posted(o, "gone", 0, x), n[v] + x.part)
      <3>1. x.part <= o.left
        BY <1>4, <1>8
      <3> QED
        BY <3>1, <1>4, <1>5, <1>7, <1>8, PostedFits
    <2> QED
      BY <2>1, <1>4, <1>6
  <1>12. /\ accounts' \in [source : Int, hedge : Int] /\ accounts'.hedge = accounts.hedge
         /\ accounts'.source = accounts.source + Toward(o, zero)
    <2>1. accounts \in [source : Int, hedge : Int] /\ accounts.source \in Int
      BY DEF ProcessInv, ProcessTypes
    <2>2. Toward(o, zero) = 0
      BY <1>6, TowardNothing
    <2> QED
      BY <2>1, <2>2, <1>7
  <1>13. PICK p : p = Posted(o, gone, zero, x)
    OBVIOUS
  <1>14. p.side = work[v].side /\ p.leaves = work[v].leaves
    BY <1>2, <1>13 DEF Posted
  <1> QED
    BY <1>1, <1>2, <1>7, <1>8, <1>10, <1>11, <1>12, <1>13, <1>14, VenueSteps

\* What a fill leaves of the residual, and what it adds to the lane.
Rest(combined) == combined - Unit * RoundHedgeOunces(combined)
RestOf(res, fill) == Rest(res + fill)
LaneOf(q, res, fill) == Obliged(q, RoundHedgeOunces(res + fill))

\* A purchase that is heard of.
LEMMA LedgerBuys ==
  ASSUME NEW r \in Rules, NEW w, NEW pos \in Int, NEW hedge, NEW res, NEW q, NEW w1,
         Ledger(r, w, pos, hedge, res, q), NEW part \in Nat, part > 0,
         NEW bid \in Nat, NEW ask \in Nat, bid = Open(w1, 1), ask = Open(w1, -1),
         bid + part <= Open(w, 1), ask <= Open(w, -1)
  PROVE  Ledger(r, w1, pos + part, hedge, RestOf(res, part), LaneOf(q, res, part))
  <1>1. PICK buy \in Nat, sell \in Nat : AdmissionFits(r, buy, sell) /\ Lane(r, buy, sell, w, pos, hedge, res, q)
    BY DEF Ledger
  <1>2. PICK r0, m, b, bid0, ask0 : /\ r0 = Net(r) /\ m = hedge - r.hedge /\ b = pos - r.source
                                    /\ bid0 = Open(w, 1) /\ ask0 = Open(w, -1)
    OBVIOUS
  <1>3. Carries(r0, buy, sell, res, bid0, ask0, q, m, b)
    BY <1>1, <1>2 DEF Lane
  <1>4. bid0 \in Nat /\ ask0 \in Nat /\ b \in Int /\ r.source \in Int /\ res \in Int
    BY <1>3, CarriesTypes DEF Rules
  <1>5. 1 <= part /\ part <= bid0
    BY <1>2, <1>4
  <1>6. PICK u : u = RoundHedgeOunces(res + part)
    OBVIOUS
  <1>7. Carries(r0, buy, sell, res + part - Unit * u, bid0 - part, ask0, Obliged(q, u), m, b + part)
    BY <1>3, <1>5, <1>6, PurchaseCarries
  <1>8. PICK res1, q1, bid1, b1 : /\ res1 = RestOf(res, part) /\ q1 = LaneOf(q, res, part)
                                  /\ bid1 = bid0 - part /\ b1 = b + part
    OBVIOUS
  <1>9. Carries(r0, buy, sell, res1, bid1, ask0, q1, m, b1)
    <2>1. PICK c \in Int : c = res + part
      BY <1>4
    <2>2. u = RoundHedgeOunces(c)
      BY <2>1, <1>6
    <2>3. res1 = Rest(c) /\ q1 = Obliged(q, u)
      BY <2>1, <2>2, <1>8 DEF RestOf, LaneOf
    <2>4. res1 = c - Unit * u
      BY <2>2, <2>3 DEF Rest
    <2>6. PICK d \in Int : d = Unit * u
      BY <2>2, RoundFacts, UnitFacts
    <2>7. res1 = c - d
      BY <2>4, <2>6
    <2>8. res1 = res + part - d
      BY <2>1, <2>7, <1>4
    <2>5. res1 = res + part - Unit * u
      BY <2>6, <2>8
    <2> QED
      BY <2>3, <2>5, <1>7, <1>8
  <1>10. bid <= bid1 /\ ask <= ask0
    BY <1>2, <1>4, <1>8
  <1>11. Carries(r0, buy, sell, res1, bid, ask, q1, m, b1)
    BY <1>9, <1>10, WithdrawalCarries
  <1>12. b1 = (pos + part) - r.source
    BY <1>2, <1>4, <1>8
  <1>13. Lane(r, buy, sell, w1, pos + part, hedge, res1, q1)
    BY <1>2, <1>11, <1>12 DEF Lane
  <1> QED
    BY <1>1, <1>8, <1>13 DEF Ledger

\* A sale that is heard of.
LEMMA LedgerSells ==
  ASSUME NEW r \in Rules, NEW w, NEW pos \in Int, NEW hedge, NEW res, NEW q, NEW w1,
         Ledger(r, w, pos, hedge, res, q), NEW part \in Nat, part > 0,
         NEW bid \in Nat, NEW ask \in Nat, bid = Open(w1, 1), ask = Open(w1, -1),
         bid <= Open(w, 1), ask + part <= Open(w, -1), NEW fill, fill = -part
  PROVE  Ledger(r, w1, pos + fill, hedge, RestOf(res, fill), LaneOf(q, res, fill))
  <1>1. PICK buy \in Nat, sell \in Nat : AdmissionFits(r, buy, sell) /\ Lane(r, buy, sell, w, pos, hedge, res, q)
    BY DEF Ledger
  <1>2. PICK r0, m, b, bid0, ask0 : /\ r0 = Net(r) /\ m = hedge - r.hedge /\ b = pos - r.source
                                    /\ bid0 = Open(w, 1) /\ ask0 = Open(w, -1)
    OBVIOUS
  <1>3. Carries(r0, buy, sell, res, bid0, ask0, q, m, b)
    BY <1>1, <1>2 DEF Lane
  <1>4. bid0 \in Nat /\ ask0 \in Nat /\ b \in Int /\ r.source \in Int /\ res \in Int
    BY <1>3, CarriesTypes DEF Rules
  <1>5. 1 <= part /\ part <= ask0
    BY <1>2, <1>4
  <1>6. PICK u : u = RoundHedgeOunces(res - part)
    OBVIOUS
  <1>7. Carries(r0, buy, sell, res - part - Unit * u, bid0, ask0 - part, Obliged(q, u), m, b - part)
    BY <1>3, <1>5, <1>6, SaleCarries
  <1>8. PICK res1, q1, ask1, b1 : /\ res1 = RestOf(res, fill) /\ q1 = LaneOf(q, res, fill)
                                  /\ ask1 = ask0 - part /\ b1 = b - part
    OBVIOUS
  <1>9. Carries(r0, buy, sell, res1, bid0, ask1, q1, m, b1)
    <2>1. res + fill = res - part
      BY <1>4
    <2>3. PICK c : c = res + fill
      OBVIOUS
    <2>4. u = RoundHedgeOunces(c)
      BY <2>1, <2>3, <1>6
    <2>6. res1 = Rest(c) /\ q1 = Obliged(q, u)
      BY <2>3, <2>4, <1>8 DEF RestOf, LaneOf
    <2>5. res1 = c - Unit * u /\ q1 = Obliged(q, u)
      BY <2>4, <2>6 DEF Rest
    <2>2. res1 = res - part - Unit * u /\ q1 = Obliged(q, u)
      BY <2>1, <2>3, <2>5
    <2> QED
      BY <2>2, <1>7, <1>8
  <1>10. bid <= bid0 /\ ask <= ask1
    BY <1>2, <1>4, <1>8
  <1>11. Carries(r0, buy, sell, res1, bid, ask, q1, m, b1)
    BY <1>9, <1>10, WithdrawalCarries
  <1>12. b1 = (pos + fill) - r.source
    BY <1>2, <1>4, <1>8
  <1>13. Lane(r, buy, sell, w1, pos + fill, hedge, res1, q1)
    BY <1>2, <1>11, <1>12 DEF Lane
  <1> QED
    BY <1>1, <1>8, <1>13 DEF Ledger

Owners == [residual : Int, lane : Seq(Int \ {0}), freeze : {"none", "cycle", "external"}]

\* Lifting a freeze leaves the ledger.
LEMMA LiftedFacts ==
  ASSUME NEW o \in Owners, NEW w
  PROVE  Lifted(o, w) \in Owners /\ Lifted(o, w).residual = o.residual /\ Lifted(o, w).lane = o.lane
  BY DEF Lifted, Owners

\* What _allocate makes of the ledger.
LEMMA AllocatedFacts ==
  ASSUME NEW o \in Owners, NEW fill \in Int
  PROVE  /\ Allocated(o, fill) \in Owners
         /\ Allocated(o, fill).residual = RestOf(o.residual, fill)
         /\ Allocated(o, fill).lane = LaneOf(o.lane, o.residual, fill)
  <1>1. o.residual \in Int /\ o.lane \in Seq(Int \ {0}) /\ o.freeze \in {"none", "cycle", "external"}
    BY DEF Owners
  <1>2. PICK c \in Int : c = o.residual + fill
    BY <1>1
  <1>3. PICK u \in Int : u = RoundHedgeOunces(c)
    BY RoundFacts
  <1>4. PICK a \in Int : a = c - Unit * u
    <2>1. PICK d \in Int : d = Unit * u
      BY UnitFacts
    <2>2. c - d \in Int
      OBVIOUS
    <2> QED
      BY <2>1, <2>2
  <1>5. PICK q \in Seq(Int \ {0}) : q = Obliged(o.lane, u)
    <2>1. CASE u = 0
      BY <2>1, <1>1 DEF Obliged
    <2>2. CASE u # 0
      <3>1. PICK d \in Int \ {0} : d = -u
        BY <2>2, <1>3
      <3>2. Append(o.lane, d) \in Seq(Int \ {0})
        BY <1>1
      <3> QED
        BY <3>1, <3>2, <2>2 DEF Obliged
    <2> QED
      BY <2>1, <2>2
  <1>6. PICK f \in {"none", "cycle", "external"} : f = IF o.freeze = "external" THEN o.freeze ELSE "cycle"
    OBVIOUS
  <1>7. Allocated(o, fill) = [o EXCEPT !.residual = a, !.lane = q, !.freeze = f]
    <2>1. q = IF u = 0 THEN o.lane ELSE Append(o.lane, -u)
      BY <1>5 DEF Obliged
    <2>4. Allocated(o, fill) =
            [o EXCEPT !.residual = c - Unit * RoundHedgeOunces(c),
                      !.lane = IF RoundHedgeOunces(c) = 0 THEN @ ELSE Append(@, -RoundHedgeOunces(c)),
                      !.freeze = IF @ = "external" THEN @ ELSE "cycle"]
      BY <1>2, Zenon DEF Allocated
    <2>5. Allocated(o, fill) =
            [o EXCEPT !.residual = a,
                      !.lane = IF u = 0 THEN @ ELSE Append(@, -u),
                      !.freeze = IF @ = "external" THEN @ ELSE "cycle"]
      BY <2>4, <1>3, <1>4
    <2>6. Allocated(o, fill) =
            [o EXCEPT !.residual = a,
                      !.lane = IF u = 0 THEN o.lane ELSE Append(o.lane, -u),
                      !.freeze = IF o.freeze = "external" THEN o.freeze ELSE "cycle"]
      BY <2>5 DEF Owners
    <2> QED
      BY <2>1, <2>6, <1>6
  <1>8. a = RestOf(o.residual, fill) /\ q = LaneOf(o.lane, o.residual, fill)
    <2>1. RestOf(o.residual, fill) = Rest(c) /\ LaneOf(o.lane, o.residual, fill) = Obliged(o.lane, u)
      BY <1>2, <1>3 DEF RestOf, LaneOf
    <2>2. Rest(c) = c - Unit * u
      BY <1>3 DEF Rest
    <2> QED
      BY <2>1, <2>2, <1>4, <1>5
  <1> QED
    BY <1>7, <1>8 DEF Owners

\* A message is read: a fill of it is allocated, and the freeze may be lifted.
LEMMA HearsStep ==
  ASSUME ProcessInv, NEW v \in Views, Hears(v)
  PROVE  ProcessInv'
  <1>1. PICK n : AllFit(work, n) /\ accounts.source = position + Unheard(work, n)
    BY ProcessFacts
  <1>2. PICK o : o = work[v]
    OBVIOUS
  <1>3. PICK part : part = Head(o.mail).part
    OBVIOUS
  <1>4. PICK fill : fill = o.side * part
    OBVIOUS
  <1>5. PICK p : p = Heard(o)
    OBVIOUS
  <1>6. PICK w1 : w1 = [work EXCEPT ![v] = p]
    OBVIOUS
  <1>7. PICK a : a = IF fill = 0 THEN owner ELSE Allocated(owner, fill)
    OBVIOUS
  <1>8. /\ Listening /\ o.mail # <<>>
        /\ work' = w1 /\ position' = position + fill /\ owner' = Lifted(a, w1)
        /\ facts' = [facts EXCEPT !.budget = FALSE]
        /\ accounts' = accounts /\ drain' = drain /\ rule' = rule
    BY <1>2, <1>3, <1>4, <1>5, <1>6, <1>7 DEF Hears
  <1>9. OrderFits(o, n[v])
    BY <1>1, <1>2 DEF AllFit
  <1>10. /\ part \in Nat /\ part <= n[v] /\ OrderFits(p, n[v] - part)
         /\ \/ p = NoOrder /\ n[v] = part
            \/ p.side = o.side /\ p.leaves = o.leaves - part
    <2>1. HeardAs(o, n[v], p)
      BY <1>5, <1>8, <1>9, HeardFits
    <2> QED
      BY <2>1, <1>3 DEF HeardAs, Message
  <1>11. /\ o \in Order /\ n[v] \in Nat /\ o.leaves \in Nat /\ o.side \in Sides /\ n[v] <= o.leaves
    BY <1>9, OrderShape
  <1>12. fill = Toward(o, part) /\ fill \in Int
    BY <1>4, <1>10, <1>11, SideTimes
  <1>13. PICK k \in Nat : k = n[v] - part
    BY <1>10, <1>11
  <1>14. PICK n1 : Replaced(n, v, k, n1) /\ Replaced(work, v, p, w1)
    BY <1>6 DEF Replaced
  <1>15. /\ AllFit(w1, n1)
         /\ Open(w1, 1) = Open(work, 1) - OpenOf(o, 1) + OpenOf(p, 1)
         /\ Open(w1, -1) = Open(work, -1) - OpenOf(o, -1) + OpenOf(p, -1)
         /\ Unheard(w1, n1) = Unheard(work, n) - Toward(o, n[v]) + Toward(p, k)
    <2>1. OrderFits(p, k)
      BY <1>10, <1>13
    <2>2. Adjusted(work, n, v, p, k, w1, n1)
      BY <2>1, <1>1, <1>14, OneChanges
    <2> QED
      BY <2>2, <1>2 DEF Adjusted
  <1>16. /\ Open(work, 1) \in Nat /\ Open(work, -1) \in Nat /\ Unheard(work, n) \in Int
         /\ Open(w1, 1) \in Nat /\ Open(w1, -1) \in Nat /\ Unheard(w1, n1) \in Int
    BY <1>1, <1>15, OpenTypes
  <1>17. /\ NoOrder.side = 1 /\ NoOrder.leaves = 0
    BY DEF NoOrder
  <1>18. o.side = 1 \/ o.side = -1
    BY <1>11 DEF Sides
  <1>19. Toward(p, k) = Toward(o, n[v]) - fill /\ Toward(o, n[v]) \in Int
    <2>1. CASE p = NoOrder /\ n[v] = part
      <3>1. k = 0
        BY <2>1, <1>11, <1>13
      <3>2. Toward(p, k) = 0
        BY <3>1, TowardNothing
      <3>3. Toward(o, n[v]) = fill
        BY <2>1, <1>12
      <3> QED
        BY <3>2, <3>3, <1>12
    <2>2. CASE p.side = o.side
      BY <2>2, <1>10, <1>11, <1>12, <1>13 DEF Toward
    <2> QED
      BY <2>1, <2>2, <1>10
  <1>20. Told(work', accounts'.source, position')
    <2>1. position \in Int /\ accounts.source \in Int
      BY ProcessFacts
    <2>2. accounts.source = (position + fill) + Unheard(w1, n1)
      BY <2>1, <1>1, <1>12, <1>15, <1>16, <1>19
    <2> QED
      BY <2>2, <1>8, <1>15 DEF Told
  <1>21. /\ o.side = 1 => Open(w1, 1) + part <= Open(work, 1) /\ Open(w1, -1) <= Open(work, -1)
         /\ o.side = -1 => Open(w1, 1) <= Open(work, 1) /\ Open(w1, -1) + part <= Open(work, -1)
    <2>1. CASE p = NoOrder
      BY <2>1, <1>10, <1>11, <1>15, <1>16, <1>17 DEF OpenOf
    <2>2. CASE p.side = o.side /\ p.leaves = o.leaves - part
      BY <2>2, <1>10, <1>11, <1>15, <1>16 DEF OpenOf
    <2> QED
      BY <2>1, <2>2, <1>10
  <1>22. owner \in Owners /\ rule \in Rules /\ position \in Int
    BY DEF ProcessInv, ProcessTypes, Owners
  <1>23. a \in Owners
    BY <1>7, <1>12, <1>22, AllocatedFacts
  <1>24. Ledger(rule, w1, position + fill, accounts.hedge, a.residual, a.lane)
    <2>1. Ledger(rule, work, position, accounts.hedge, owner.residual, owner.lane)
      BY DEF ProcessInv
    <2>2. PICK bid \in Nat, ask \in Nat : bid = Open(w1, 1) /\ ask = Open(w1, -1)
      BY <1>16
    <2>3. CASE part = 0
      <3>1. fill = 0
        BY <2>3, <1>10, <1>12, TowardNothing
      <3>2. position + fill = position /\ a = owner
        BY <3>1, <1>7, <1>22
      <3>3. bid <= Open(work, 1) /\ ask <= Open(work, -1)
        BY <2>2, <2>3, <1>16, <1>18, <1>21
      <3>4. Ledger(rule, w1, position, accounts.hedge, owner.residual, owner.lane)
        BY <2>1, <2>2, <3>3, LedgerShrinks
      <3> QED
        BY <3>2, <3>4
    <2>4. CASE part > 0 /\ o.side = 1
      <3>1. fill = part /\ fill # 0
        BY <2>4, <1>10, <1>12 DEF Toward
      <3>2. /\ a.residual = RestOf(owner.residual, fill)
            /\ a.lane = LaneOf(owner.lane, owner.residual, fill)
        BY <3>1, <1>7, <1>12, <1>22, AllocatedFacts
      <3>3. bid + part <= Open(work, 1) /\ ask <= Open(work, -1)
        BY <2>2, <2>4, <1>21
      <3>4. Ledger(rule, w1, position + part, accounts.hedge, RestOf(owner.residual, part),
                   LaneOf(owner.lane, owner.residual, part))
        BY <2>1, <2>2, <2>4, <3>3, <1>10, <1>22, LedgerBuys
      <3> QED
        BY <3>1, <3>2, <3>4
    <2>5. CASE part > 0 /\ o.side = -1
      <3>1. fill = -part /\ fill # 0
        BY <2>5, <1>10, <1>12 DEF Toward
      <3>2. /\ a.residual = RestOf(owner.residual, fill)
            /\ a.lane = LaneOf(owner.lane, owner.residual, fill)
        BY <3>1, <1>7, <1>12, <1>22, AllocatedFacts
      <3>3. bid <= Open(work, 1) /\ ask + part <= Open(work, -1)
        BY <2>2, <2>5, <1>21
      <3>4. Ledger(rule, w1, position + fill, accounts.hedge, RestOf(owner.residual, fill),
                   LaneOf(owner.lane, owner.residual, fill))
        BY <2>1, <2>2, <2>5, <3>1, <3>3, <1>10, <1>22, LedgerSells
      <3> QED
        BY <3>2, <3>4
    <2> QED
      BY <2>3, <2>4, <2>5, <1>10, <1>18
  <1>25. owner' \in Owners /\ owner'.residual = a.residual /\ owner'.lane = a.lane
    BY <1>8, <1>23, LiftedFacts
  <1>26. ProcessTypes'
    <2>1. position + fill \in Int
      BY <1>12, <1>22
    <2>2. facts' \in [source : Int, hedge : Int, budget : BOOLEAN]
      BY <1>8 DEF ProcessInv, ProcessTypes
    <2> QED
      BY <2>1, <2>2, <1>8, <1>25 DEF ProcessInv, ProcessTypes, Owners
  <1>27. drain'.phase # "complete"
    BY <1>8 DEF Listening
  <1> QED
    BY <1>8, <1>20, <1>24, <1>25, <1>26, <1>27 DEF ProcessInv

\* An ounce of the oldest obligation is executed.
LEMMA HedgeStep ==
  ASSUME ProcessInv, Hedge
  PROVE  ProcessInv'
  <1>1. PICK q : q = owner.lane
    OBVIOUS
  <1>2. owner \in Owners /\ q \in Seq(Int \ {0}) /\ q # <<>> /\ rule \in Rules /\ accounts.hedge \in Int
    BY <1>1 DEF ProcessInv, ProcessTypes, Hedge, Owners
  <1>3. PICK d \in Int : d = OunceOf(q)
    BY DEF OunceOf
  <1>4. PICK o : o = [owner EXCEPT !.lane = WorkedOff(q)]
    OBVIOUS
  <1>5. /\ Listening
        /\ accounts' = [accounts EXCEPT !.hedge = @ + d] /\ owner' = Lifted(o, work)
        /\ UNCHANGED <<work, facts, position, drain, rule>>
    <2>1. q[1] \in Int /\ Head(q) = q[1]
      BY <1>2, EmptySeq
    <2> QED
      BY <2>1, <1>1, <1>3, <1>4 DEF Hedge, OunceOf, WorkedOff
  <1>6. Ledger(rule, work, position, accounts.hedge + d, owner.residual, WorkedOff(q))
    <2>1. PICK buy \in Nat, sell \in Nat :
            /\ AdmissionFits(rule, buy, sell)
            /\ Lane(rule, buy, sell, work, position, accounts.hedge, owner.residual, q)
      BY <1>1 DEF ProcessInv, Ledger
    <2>2. PICK r0, b, bid, ask, res : /\ r0 = Net(rule) /\ b = position - rule.source
                                      /\ bid = Open(work, 1) /\ ask = Open(work, -1) /\ res = owner.residual
      OBVIOUS
    <2>3. rule.hedge \in Int
      BY <1>2 DEF Rules
    <2>4. PICK m \in Int : m = accounts.hedge - rule.hedge
      BY <2>3, <1>2
    <2>5. Carries(r0, buy, sell, res, bid, ask, q, m, b)
      BY <2>1, <2>2, <2>4 DEF Lane
    <2>6. Carries(r0, buy, sell, res, bid, ask, WorkedOff(q), m + OunceOf(q), b)
      BY <2>5, <1>2, HedgeCarries
    <2>7. m + OunceOf(q) = (accounts.hedge + d) - rule.hedge
      BY <2>3, <2>4, <1>2, <1>3
    <2>8. PICK m1 : m1 = m + OunceOf(q)
      OBVIOUS
    <2>9. Lane(rule, buy, sell, work, position, accounts.hedge + d, owner.residual, WorkedOff(q))
      BY <2>2, <2>6, <2>7, <2>8 DEF Lane
    <2> QED
      BY <2>1, <2>9 DEF Ledger
  <1>7. WorkedOff(q) \in Seq(Int \ {0})
    BY <1>6, CarriesTypes DEF Ledger, Lane
  <1>8. o \in Owners /\ o.residual = owner.residual /\ o.lane = WorkedOff(q)
    BY <1>2, <1>4, <1>7 DEF Owners
  <1>9. owner' \in Owners /\ owner'.residual = owner.residual /\ owner'.lane = WorkedOff(q)
    BY <1>5, <1>8, LiftedFacts
  <1>10. /\ accounts' \in [source : Int, hedge : Int] /\ accounts'.hedge = accounts.hedge + d
         /\ accounts'.source = accounts.source
    <2>1. accounts \in [source : Int, hedge : Int] /\ accounts.hedge + d \in Int
      BY <1>2 DEF ProcessInv, ProcessTypes
    <2> QED
      BY <2>1, <1>5
  <1>11. Ledger(rule', work', position', accounts'.hedge, owner'.residual, owner'.lane)
    BY <1>5, <1>6, <1>9, <1>10
  <1>12. ProcessTypes'
    BY <1>5, <1>9, <1>10 DEF ProcessInv, ProcessTypes, Owners
  <1>13. Told(work', accounts'.source, position')
    BY <1>5, <1>10 DEF ProcessInv
  <1>14. drain'.phase # "complete"
    BY <1>5 DEF Listening
  <1> QED
    BY <1>11, <1>12, <1>13, <1>14 DEF ProcessInv

\* What the rule checks, in arguments.
LEMMA AdmittedFits ==
  ASSUME NEW r, r.onlyLong = rule.onlyLong, r.source = facts.source, r.hedge = facts.hedge,
         Net(r) = owner.residual, NEW buy, NEW sell, Admitted(buy, sell),
         Size(r.source) <= SourceMax, Size(r.hedge) <= HedgeMax
  PROVE  AdmissionFits(r, buy, sell)
  BY DEF AdmissionFits, Admitted, WithinBounds, KeepsRule, Bounded, Keeps

\* An admission is a new start: nothing is owed, so the residual is all there is.
LEMMA SubmitStep ==
  ASSUME ProcessInv, NEW v \in Views, NEW side \in SidesOf(v), NEW q \in Quantities, SubmitSource(v, side, q)
  PROVE  ProcessInv'
  <1>1. PICK n : AllFit(work, n) /\ accounts.source = position + Unheard(work, n)
    BY ProcessFacts
  <1>2. PICK o : o = [side |-> side, place |-> "wire", left |-> q, phase |-> "sent", leaves |-> q, mail |-> <<>>]
    OBVIOUS
  <1>3. PICK w1 : w1 = [work EXCEPT ![v] = o]
    OBVIOUS
  <1>4. PICK r : r = [rule EXCEPT !.source = facts.source, !.hedge = facts.hedge, !.orders = @ + 1]
    OBVIOUS
  <1>5. /\ MayAsk(v) /\ PositionsReady
        /\ Admitted(Leaves(1) + (IF side = 1 THEN q ELSE 0), Leaves(-1) + (IF side = -1 THEN q ELSE 0))
        /\ work' = w1 /\ facts' = [facts EXCEPT !.budget = FALSE] /\ rule' = r
        /\ UNCHANGED <<accounts, position, owner, drain>>
    BY <1>2, <1>3, <1>4 DEF SubmitSource
  <1>6. /\ facts.source = position /\ facts.hedge = accounts.hedge
        /\ work[v].phase = "closed" /\ owner.lane = <<>> /\ drain.phase = "run"
    BY <1>5 DEF MayAsk, PositionsReady
  <1>7. /\ rule \in Rules /\ position \in Int /\ accounts.hedge \in Int /\ rule.source \in Int /\ rule.hedge \in Int
    BY ProcessFacts
  <1>8. /\ r \in Rules /\ r.onlyLong = rule.onlyLong /\ r.source = position /\ r.hedge = accounts.hedge
        /\ r.source = facts.source /\ r.hedge = facts.hedge
    <2>1. PICK c \in Nat : c = rule.orders + 1
      BY <1>7 DEF Rules
    <2>2. PICK source \in Int, hedge \in Int : source = position /\ hedge = accounts.hedge
      BY <1>7
    <2>3. r = [rule EXCEPT !.source = source, !.hedge = hedge, !.orders = c]
      BY <2>1, <2>2, <1>4, <1>6, <1>7 DEF Rules
    <2>4. r \in Rules /\ r.onlyLong = rule.onlyLong /\ r.source = source /\ r.hedge = hedge
      BY <2>3, <1>7 DEF Rules
    <2> QED
      BY <2>2, <2>4, <1>6
  <1>9. side \in Sides /\ q \in Nat \ {0}
    BY ProcessAssumption DEF SidesOf, Sides
  <1>10. /\ OrderFits(o, 0) /\ o.side = side /\ o.leaves = q
    BY <1>2, <1>9, NewFits
  <1>11. PICK k \in Nat : k = 0
    OBVIOUS
  <1>12. PICK n1 : Replaced(n, v, k, n1) /\ Replaced(work, v, o, w1)
    BY <1>3 DEF Replaced
  <1>13. work[v] = NoOrder /\ n[v] = 0 /\ NoOrder.leaves = 0
    BY <1>1, <1>6 DEF AllFit, OrderFits, NoOrder
  <1>14. /\ AllFit(w1, n1)
         /\ Open(w1, 1) = Open(work, 1) - OpenOf(NoOrder, 1) + OpenOf(o, 1)
         /\ Open(w1, -1) = Open(work, -1) - OpenOf(NoOrder, -1) + OpenOf(o, -1)
         /\ Unheard(w1, n1) = Unheard(work, n) - Toward(NoOrder, k) + Toward(o, k)
    <2>1. OrderFits(o, k)
      BY <1>10, <1>11
    <2>2. Adjusted(work, n, v, o, k, w1, n1)
      BY <2>1, <1>1, <1>12, OneChanges
    <2> QED
      BY <2>2, <1>11, <1>13 DEF Adjusted
  <1>15. /\ Open(work, 1) \in Nat /\ Open(work, -1) \in Nat /\ Unheard(work, n) \in Int
         /\ -Open(work, -1) <= Unheard(work, n) /\ Unheard(work, n) <= Open(work, 1)
         /\ Open(w1, 1) \in Nat /\ Open(w1, -1) \in Nat
    BY <1>1, <1>14, OpenTypes
  <1>16. /\ Open(w1, 1) = Leaves(1) + (IF side = 1 THEN q ELSE 0)
         /\ Open(w1, -1) = Leaves(-1) + (IF side = -1 THEN q ELSE 0)
    <2>1. Leaves(1) = Open(work, 1) /\ Leaves(-1) = Open(work, -1)
      BY DEF Leaves, LeavesOf, Open, OpenOf
    <2>2. OpenOf(NoOrder, 1) = 0 /\ OpenOf(NoOrder, -1) = 0
      BY <1>13 DEF OpenOf
    <2>3. /\ OpenOf(o, 1) = IF side = 1 THEN q ELSE 0
          /\ OpenOf(o, -1) = IF side = -1 THEN q ELSE 0
      BY <1>10 DEF OpenOf
    <2> QED
      BY <2>1, <2>2, <2>3, <1>9, <1>14, <1>15
  <1>17. Unheard(w1, n1) = Unheard(work, n)
    <2>1. Toward(NoOrder, k) = 0 /\ Toward(o, k) = 0
      BY <1>11, TowardNothing
    <2> QED
      BY <2>1, <1>14, <1>15
  <1>18. /\ Size(position) <= SourceMax /\ Size(accounts.hedge) <= HedgeMax
    <2>1. PICK bid \in Nat, ask \in Nat : bid = Open(work, 1) /\ ask = Open(work, -1)
      BY <1>15
    <2>2. Ledger(rule, work, position, accounts.hedge, owner.residual, owner.lane)
      BY DEF ProcessInv
    <2>3. PICK i \in Int : i = 0
      OBVIOUS
    <2>6. -ask <= i /\ i <= bid
      BY <2>3
    <2>4. Size(position + i) <= SourceMax /\ Size(accounts.hedge) <= HedgeMax
      BY <2>1, <2>2, <2>6, <1>7, LimitsHold
    <2>5. position + i = position
      BY <2>3, <1>7
    <2> QED
      BY <2>4, <2>5
  <1>19. Net(r) = owner.residual /\ owner.residual \in -Half .. Half
    <2>1. PICK buy \in Nat, sell \in Nat :
            /\ AdmissionFits(rule, buy, sell)
            /\ Lane(rule, buy, sell, work, position, accounts.hedge, owner.residual, owner.lane)
      BY DEF ProcessInv, Ledger
    <2>2. PICK r0 \in Int, m \in Int, b \in Int :
            r0 = Net(rule) /\ b = position - rule.source /\ m = accounts.hedge - rule.hedge
      BY <1>7, UnitFacts DEF Net
    <2>3. Carries(r0, buy, sell, owner.residual, Open(work, 1), Open(work, -1), <<>>, m, b)
      BY <2>1, <2>2, <1>6 DEF Lane
    <2>4. owner.residual = r0 + b + Unit * m
      BY <2>3, LevelWhenDone
    <2>5. Unit * m = Unit * accounts.hedge - Unit * rule.hedge
          /\ Unit * accounts.hedge \in Int /\ Unit * rule.hedge \in Int
      BY <2>2, <1>7, MulSum
    <2>6. r0 = rule.source + Unit * rule.hedge /\ Net(r) = position + Unit * accounts.hedge
      BY <2>2, <1>8 DEF Net
    <2>7. owner.residual \in -Half .. Half
      BY <2>3 DEF Carries
    <2>8. PICK x \in Int, y \in Int, z \in Int : x = Unit * accounts.hedge /\ y = Unit * rule.hedge /\ z = Unit * m
      BY <2>5
    <2>9. z = x - y
      BY <2>5, <2>8
    <2>10. owner.residual = r0 + b + z /\ r0 = rule.source + y /\ Net(r) = position + x
      BY <2>4, <2>6, <2>8
    <2> QED
      BY <2>2, <2>7, <2>9, <2>10, <1>7
  <1>20. Ledger(r, w1, position, accounts.hedge, owner.residual, owner.lane)
    <2>1. PICK buy \in Nat, sell \in Nat : buy = Open(w1, 1) /\ sell = Open(w1, -1)
      BY <1>15
    <2>2. Admitted(buy, sell)
      BY <2>1, <1>5, <1>16
    <2>3. AdmissionFits(r, buy, sell)
      BY <2>2, <1>8, <1>18, <1>19, AdmittedFits
    <2>4. PICK r0 \in -Half .. Half : r0 = owner.residual
      BY <1>19
    <2>5. Carries(r0, buy, sell, r0, buy, sell, <<>>, 0, 0)
      BY StartCarries
    <2>6. accounts.hedge - r.hedge = 0 /\ position - r.source = 0
      BY <1>7, <1>8
    <2>7. Lane(r, buy, sell, w1, position, accounts.hedge, owner.residual, owner.lane)
      BY <2>1, <2>4, <2>5, <2>6, <1>6, <1>19 DEF Lane
    <2> QED
      BY <2>3, <2>7 DEF Ledger
  <1>21. Told(w1, accounts.source, position)
    BY <1>1, <1>14, <1>17 DEF Told
  <1>22. ProcessTypes'
    BY <1>5, <1>8 DEF ProcessInv, ProcessTypes
  <1>23. drain'.phase # "complete"
    BY <1>5, <1>6
  <1> QED
    BY <1>5, <1>20, <1>21, <1>22, <1>23 DEF ProcessInv

\* Orders that are asked to end keep the books as they are.
LEMMA BooksStay ==
  ASSUME ProcessInv, work' \in [Views -> Order],
         \A v \in Views : work'[v] = work[v] \/ (work[v].phase # "closed" /\ work'[v] = Asking(work[v])),
         UNCHANGED <<accounts, position, rule>>,
         owner'.residual = owner.residual, owner'.lane = owner.lane
  PROVE  /\ Told(work', accounts'.source, position')
         /\ Ledger(rule', work', position', accounts'.hedge, owner'.residual, owner'.lane)
  <1>1. PICK n : AllFit(work, n) /\ accounts.source = position + Unheard(work, n)
    BY ProcessFacts
  <1>2. ASSUME NEW v \in Views
        PROVE  OrderFits(work'[v], n[v]) /\ work'[v].side = work[v].side /\ work'[v].leaves = work[v].leaves
    <2>1. OrderFits(work[v], n[v])
      BY <1>1 DEF AllFit
    <2> QED
      BY <2>1, AskedFits
  <1>3. PICK w1 : w1 = work'
    OBVIOUS
  <1>4. AllFit(w1, n)
    BY <1>1, <1>2, <1>3 DEF AllFit
  <1>5. /\ Open(w1, 1) = Open(work, 1) /\ Open(w1, -1) = Open(work, -1)
        /\ Unheard(w1, n) = Unheard(work, n)
    <2>1. \A v \in Views : w1[v].side = work[v].side /\ w1[v].leaves = work[v].leaves
      BY <1>2, <1>3
    <2> QED
      BY <2>1, SameOpen
  <1>6. Told(w1, accounts.source, position)
    BY <1>1, <1>4, <1>5 DEF Told
  <1>7. Ledger(rule, w1, position, accounts.hedge, owner.residual, owner.lane)
    BY <1>5 DEF ProcessInv, Ledger, Lane
  <1> QED
    BY <1>3, <1>6, <1>7

\* A quote that its Maker withdraws.
LEMMA CancelsStep ==
  ASSUME ProcessInv, NEW v \in Views, CancelWorking(v)
  PROVE  ProcessInv'
  <1>1. /\ drain.phase = "run" /\ work[v].phase = "open"
        /\ work' = [work EXCEPT ![v] = Asking(work[v])]
        /\ facts' = [facts EXCEPT !.budget = FALSE]
        /\ UNCHANGED <<accounts, position, owner, drain, rule>>
    BY DEF CancelWorking
  <1>2. PICK n : AllFit(work, n)
    BY ProcessFacts
  <1>3. work \in [Views -> Order] /\ OrderFits(work[v], n[v])
    BY <1>2 DEF AllFit
  <1>4. Asking(work[v]) \in Order
    BY <1>1, <1>3, AskedFits DEF OrderFits
  <1>5. /\ work' \in [Views -> Order]
        /\ \A u \in Views : work'[u] = work[u] \/ (work[u].phase # "closed" /\ work'[u] = Asking(work[u]))
    BY <1>1, <1>3, <1>4
  <1>6. /\ Told(work', accounts'.source, position')
        /\ Ledger(rule', work', position', accounts'.hedge, owner'.residual, owner'.lane)
    BY <1>1, <1>5, BooksStay
  <1>7. ProcessTypes'
    BY <1>1 DEF ProcessInv, ProcessTypes
  <1> QED
    BY <1>1, <1>6, <1>7 DEF ProcessInv

\* A turn of the drain's loop.
LEMMA DrainCancelsStep ==
  ASSUME ProcessInv, DrainCancels
  PROVE  ProcessInv'
  <1>1. /\ drain.phase = "drain"
        /\ work' = [v \in Views |-> IF v \in Cancelable THEN Asking(work[v]) ELSE work[v]]
        /\ drain' = [drain EXCEPT !.canceled = drain.canceled \union Cancelable]
        /\ owner' = Lifted(owner, work')
        /\ facts' = [facts EXCEPT !.budget = FALSE]
        /\ UNCHANGED <<accounts, position, rule>>
    BY DEF DrainCancels
  <1>2. PICK n : AllFit(work, n)
    BY ProcessFacts
  <1>3. Cancelable \in SUBSET Views /\ \A v \in Cancelable : work[v].phase = "open"
    BY DEF Cancelable
  <1>4. ASSUME NEW v \in Views
        PROVE  /\ work'[v] \in Order
               /\ work'[v] = work[v] \/ (work[v].phase # "closed" /\ work'[v] = Asking(work[v]))
    <2>1. OrderFits(work[v], n[v]) /\ work[v] \in Order
      BY <1>2 DEF AllFit
    <2>2. v \in Cancelable => Asking(work[v]) \in Order
      BY <2>1, <1>3, AskedFits DEF OrderFits
    <2> QED
      BY <2>1, <2>2, <1>1, <1>3
  <1>5. work' \in [Views -> Order]
    BY <1>1, <1>4
  <1>6. owner \in Owners
    BY DEF ProcessInv, ProcessTypes, Owners
  <1>7. owner' \in Owners /\ owner'.residual = owner.residual /\ owner'.lane = owner.lane
    BY <1>1, <1>6, LiftedFacts
  <1>8. /\ Told(work', accounts'.source, position')
        /\ Ledger(rule', work', position', accounts'.hedge, owner'.residual, owner'.lane)
    BY <1>1, <1>4, <1>5, <1>7, BooksStay
  <1>9. drain' \in [phase : {"run", "drain", "complete", "timeout"}, canceled : SUBSET Views]
        /\ drain'.phase = "drain"
    <2>1. drain \in [phase : {"run", "drain", "complete", "timeout"}, canceled : SUBSET Views]
      BY DEF ProcessInv, ProcessTypes
    <2>2. PICK c \in SUBSET Views : c = drain.canceled \union Cancelable
      BY <2>1, <1>3
    <2> QED
      BY <2>1, <2>2, <1>1
  <1>10. ProcessTypes'
    BY <1>1, <1>7, <1>9 DEF ProcessInv, ProcessTypes, Owners
  <1> QED
    BY <1>8, <1>9, <1>10 DEF ProcessInv

\* What touches neither the accounts nor the orders nor the ledger.
LEMMA QuietStep ==
  ASSUME ProcessInv, UNCHANGED <<accounts, work, position, rule>>,
         owner' \in Owners, owner'.residual = owner.residual, owner'.lane = owner.lane,
         facts' \in [source : Int, hedge : Int, budget : BOOLEAN],
         drain' \in [phase : {"run", "drain", "complete", "timeout"}, canceled : SUBSET Views],
         drain'.phase = "complete" => CycleDone(owner, work)
  PROVE  ProcessInv'
  <1>1. ProcessTypes'
    BY DEF ProcessInv, ProcessTypes, Owners
  <1>2. /\ Told(work', accounts'.source, position')
        /\ Ledger(rule', work', position', accounts'.hedge, owner'.residual, owner'.lane)
    BY DEF ProcessInv
  <1>3. CycleDone(owner, work) => CycleDone(owner', work')
    BY DEF CycleDone
  <1> QED
    BY <1>1, <1>2, <1>3 DEF ProcessInv

\* The freeze of a position that does not agree.
LEMMA FreezesStep ==
  ASSUME ProcessInv, NEW v \in Views, AdmissionFreezes(v)
  PROVE  ProcessInv'
  <1>1. /\ drain.phase = "run" /\ owner' = [owner EXCEPT !.freeze = "external"]
        /\ UNCHANGED <<accounts, work, facts, position, drain, rule>>
    BY DEF AdmissionFreezes, MayAsk
  <1>2. /\ owner \in Owners /\ facts \in [source : Int, hedge : Int, budget : BOOLEAN]
        /\ drain \in [phase : {"run", "drain", "complete", "timeout"}, canceled : SUBSET Views]
    BY DEF ProcessInv, ProcessTypes, Owners
  <1>3. owner' \in Owners /\ owner'.residual = owner.residual /\ owner'.lane = owner.lane
    BY <1>1, <1>2 DEF Owners
  <1> QED
    BY <1>1, <1>2, <1>3, QuietStep

\* The client learns of a position.
LEMMA PositionsStep ==
  ASSUME ProcessInv, HearsPosition \/ RefreshAccount \/ HearsHedgePosition
  PROVE  ProcessInv'
  <1>1. /\ owner \in Owners /\ facts \in [source : Int, hedge : Int, budget : BOOLEAN]
        /\ drain \in [phase : {"run", "drain", "complete", "timeout"}, canceled : SUBSET Views]
        /\ accounts.source \in Int /\ accounts.hedge \in Int
    BY DEF ProcessInv, ProcessTypes, Owners
  <1>2. Listening /\ UNCHANGED <<accounts, work, position, owner, drain, rule>>
    BY DEF HearsPosition, RefreshAccount, HearsHedgePosition
  <1>3. facts' \in [source : Int, hedge : Int, budget : BOOLEAN]
    BY <1>1 DEF HearsPosition, RefreshAccount, HearsHedgePosition
  <1>4. drain'.phase # "complete"
    BY <1>2 DEF Listening
  <1> QED
    BY <1>1, <1>2, <1>3, <1>4, QuietStep

\* The drain begins, completes or gives up.
LEMMA DrainStep ==
  ASSUME ProcessInv, BeginDrain \/ DrainCompletes \/ DrainTimesOut
  PROVE  ProcessInv'
  <1>1. /\ owner \in Owners /\ facts \in [source : Int, hedge : Int, budget : BOOLEAN]
        /\ drain \in [phase : {"run", "drain", "complete", "timeout"}, canceled : SUBSET Views]
    BY DEF ProcessInv, ProcessTypes, Owners
  <1>2. UNCHANGED <<accounts, work, facts, position, owner, rule>>
    BY DEF BeginDrain, DrainCompletes, DrainTimesOut
  <1>3. PICK phase \in {"drain", "complete", "timeout"} :
          /\ drain' = [drain EXCEPT !.phase = phase]
          /\ phase = "complete" => NothingPending
    BY DEF BeginDrain, DrainCompletes, DrainTimesOut
  <1>4. /\ drain' \in [phase : {"run", "drain", "complete", "timeout"}, canceled : SUBSET Views]
        /\ drain'.phase = phase
    BY <1>1, <1>3
  <1>5. drain'.phase = "complete" => CycleDone(owner, work)
    BY <1>3, <1>4 DEF NothingPending
  <1> QED
    BY <1>1, <1>2, <1>4, <1>5, QuietStep

\* A process that begins.
LEMMA ProcessBegins ==
  ASSUME ProcessInit
  PROVE  ProcessInv
  <1>1. /\ accounts = [source |-> 0, hedge |-> 0] /\ work = [v \in Views |-> NoOrder]
        /\ facts = [source |-> 0, hedge |-> 0, budget |-> FALSE] /\ position = 0
        /\ owner = [residual |-> 0, lane |-> <<>>, freeze |-> "none"]
        /\ drain = [phase |-> "run", canceled |-> {}]
    BY DEF ProcessInit
  <1>2. PICK onlyLong \in BOOLEAN : rule = [onlyLong |-> onlyLong, source |-> 0, hedge |-> 0, orders |-> 0]
    BY DEF ProcessInit
  <1>3. 0 \in -Half .. Half /\ Unit * 0 = 0 /\ 0 + 0 = 0 /\ 0 - 0 = 0
    BY UnitFacts
  <1>4. ProcessTypes
    <2>1. <<>> \in Seq(Int \ {0}) /\ {} \in SUBSET Views
      OBVIOUS
    <2> QED
      BY <2>1, <1>1, <1>2, <1>3 DEF ProcessTypes, Rules
  <1>5. PICK n : n = [v \in Views |-> 0]
    OBVIOUS
  <1>6. OrderFits(NoOrder, 0) /\ NoOrder \in Order /\ NoOrder.leaves = 0
    <2>1. NoOrder \in Order /\ NoOrder.phase = "closed" /\ NoOrder.leaves = 0
      BY DEF NoOrder, Order, Sides
    <2> QED
      BY <2>1 DEF OrderFits
  <1>7. AllFit(work, n)
    BY <1>1, <1>5, <1>6 DEF AllFit
  <1>8. Open(work, 1) = 0 /\ Open(work, -1) = 0 /\ Unheard(work, n) = 0
    <2>1. PICK bid \in Nat, ask \in Nat, i \in Int : bid = Open(work, 1) /\ ask = Open(work, -1) /\ i = Unheard(work, n)
      BY <1>7, OpenTypes
    <2>2. bid = 0 /\ ask = 0
      <3>1. \A v \in Views : work[v].leaves = 0
        BY <1>1, <1>6
      <3>2. "long" \in Views /\ "short" \in Views /\ "taker" \in Views
        BY DEF Views
      <3> QED
        BY <3>1, <3>2, <2>1 DEF Open, OpenOf
    <2>3. -ask <= i /\ i <= bid
      BY <2>1, <1>7, OpenTypes
    <2>4. i = 0
      BY <2>2, <2>3
    <2> QED
      BY <2>1, <2>2, <2>4
  <1>9. Told(work, accounts.source, position)
    BY <1>1, <1>7, <1>8 DEF Told
  <1>10. PICK z \in Nat : z = 0
    OBVIOUS
  <1>11. Net(rule) = 0 /\ rule.source = 0 /\ rule.hedge = 0 /\ rule.onlyLong \in BOOLEAN
    BY <1>2, <1>3 DEF Net
  <1>12. AdmissionFits(rule, z, z)
    <2>1. SourceMax \in Nat /\ HedgeMax \in Nat /\ MinKeep \in Nat /\ MaxUnhedged \in Nat
      BY ProcessAssumption
    <2>2. HedgeBuys(z, z) = z /\ HedgeSells(z, z) = z
      BY <1>10 DEF HedgeBuys, HedgeSells, HedgeOunces
    <2>3. Size(z) = z
      BY DEF Size
    <2>4. CarryExposure(z, z, z) = z
      BY <1>10 DEF CarryExposure, Largest, Size
    <2>5. ASSUME NEW maximum \in Nat, NEW minimum \in Nat PROVE Bounded(rule.onlyLong, z, z, z, maximum, minimum)
      <3>1. Keeps(rule.onlyLong, z, z, minimum)
        <4>1. z * z >= 0 /\ ~(Size(z) < Size(z))
          BY <1>10 DEF Size
        <4> QED
          BY <4>1 DEF Keeps
      <3>2. z + z = z /\ z - z = z
        BY <1>10
      <3>3. z <= Largest(z, maximum) /\ z >= Least(z, -maximum)
        BY <1>10 DEF Largest, Least
      <3> QED
        BY <3>1, <3>2, <3>3 DEF Bounded
    <2>6. Bounded(rule.onlyLong, z, z, z, HedgeMax, z) /\ Bounded(rule.onlyLong, z, z, z, SourceMax, MinKeep)
      BY <2>1, <2>5
    <2> QED
      BY <2>1, <2>2, <2>3, <2>4, <2>6, <1>10, <1>11 DEF AdmissionFits
  <1>13. Ledger(rule, work, position, accounts.hedge, owner.residual, owner.lane)
    <2>1. PICK r0 \in -Half .. Half : r0 = 0
      BY <1>3
    <2>2. Carries(r0, z, z, r0, z, z, <<>>, 0, 0)
      BY StartCarries
    <2>3. /\ position - rule.source = 0 /\ accounts.hedge - rule.hedge = 0
          /\ owner.residual = 0 /\ owner.lane = <<>>
      BY <1>1, <1>3, <1>11
    <2>4. Lane(rule, z, z, work, position, accounts.hedge, owner.residual, owner.lane)
      BY <2>1, <2>2, <2>3, <1>8, <1>10, <1>11 DEF Lane
    <2> QED
      BY <2>4, <1>12 DEF Ledger
  <1> QED
    BY <1>1, <1>4, <1>9, <1>13 DEF ProcessInv

\* Every step of the process keeps the invariant.
LEMMA ProcessSteps ==
  ASSUME ProcessInv, [ProcessNext]_processVars
  PROVE  ProcessInv'
  <1>1. CASE UNCHANGED processVars
    BY <1>1 DEF processVars, ProcessInv, ProcessTypes, CycleDone
  <1>2. ASSUME NEW v \in Views, NEW side \in SidesOf(v), NEW q \in Quantities, SubmitSource(v, side, q)
        PROVE  ProcessInv'
    BY <1>2, SubmitStep
  <1>3. ASSUME NEW v \in Views, AdmissionFreezes(v) \/ Venue(v) \/ Hears(v) \/ CancelWorking(v)
        PROVE  ProcessInv'
    BY <1>3, FreezesStep, VenueAnswers, VenueClosesStep, VenueTradesStep, HearsStep, CancelsStep DEF Venue
  <1>4. CASE \/ HearsPosition \/ RefreshAccount \/ HearsHedgePosition \/ Hedge
             \/ BeginDrain \/ DrainCancels \/ DrainCompletes \/ DrainTimesOut
    BY <1>4, PositionsStep, HedgeStep, DrainStep, DrainCancelsStep
  <1> QED
    BY <1>1, <1>2, <1>3, <1>4 DEF ProcessNext

\* The invariant gives the limits of both accounts.
LEMMA InvariantLimits ==
  ASSUME ProcessInv
  PROVE  JointRiskWithinLimits
  <1>1. PICK n : AllFit(work, n) /\ accounts.source = position + Unheard(work, n)
    BY ProcessFacts
  <1>2. PICK bid \in Nat, ask \in Nat, i \in Int :
          /\ bid = Open(work, 1) /\ ask = Open(work, -1) /\ i = Unheard(work, n)
          /\ -ask <= i /\ i <= bid
    BY <1>1, OpenTypes
  <1>3. /\ rule \in Rules /\ position \in Int /\ accounts.hedge \in Int /\ accounts.source = position + i
        /\ Ledger(rule, work, position, accounts.hedge, owner.residual, owner.lane)
    BY <1>1, <1>2, ProcessFacts DEF ProcessInv
  <1>4. /\ Size(position + i) <= SourceMax /\ Size(accounts.hedge) <= HedgeMax
        /\ Size(position + i + Unit * accounts.hedge) <= MaxUnhedged
        /\ rule.source # 0 => Keeps(rule.onlyLong, rule.source, position + i, MinKeep)
        /\ rule.hedge # 0 => Keeps(rule.onlyLong, rule.hedge, accounts.hedge, 0)
    BY <1>2, <1>3, LimitsHold
  <1>5. /\ Size(accounts.source) <= SourceMax
        /\ Size(Unhedged) <= MaxUnhedged
        /\ rule.source # 0 => Keeps(rule.onlyLong, rule.source, accounts.source, MinKeep)
    BY <1>3, <1>4 DEF Unhedged
  <1> QED
    BY <1>4, <1>5 DEF JointRiskWithinLimits, KeepsRule, Keeps

\* A completed drain leaves everything hedged.
LEMMA InvariantDrained ==
  ASSUME ProcessInv
  PROVE  DrainedIsLevel
  <1> SUFFICES ASSUME drain.phase = "complete"
               PROVE  /\ \A v \in Views : work[v].left = 0 /\ work[v].mail = <<>>
                      /\ position = accounts.source /\ Size(Unhedged) <= Half
    BY DEF DrainedIsLevel
  <1>1. CycleDone(owner, work)
    BY DEF ProcessInv
  <1>2. PICK n : AllFit(work, n) /\ accounts.source = position + Unheard(work, n)
    BY ProcessFacts
  <1>3. \A v \in Views : work[v] = NoOrder /\ n[v] = 0
    BY <1>1, <1>2 DEF AllFit, OrderFits, CycleDone
  <1>4. position = accounts.source
    <2>1. Unheard(work, n) = 0
      <3>1. PICK z \in Int : z = 0
        OBVIOUS
      <3>2. \A v \in Views : Toward(work[v], n[v]) = 0
        BY <3>1, <1>3, TowardNothing
      <3>3. "long" \in Views /\ "short" \in Views /\ "taker" \in Views
        BY DEF Views
      <3> QED
        BY <3>2, <3>3 DEF Unheard
    <2> QED
      BY <2>1, <1>2, ProcessFacts
  <1>5. Size(Unhedged) <= Half
    <2>1. PICK buy \in Nat, sell \in Nat :
            Lane(rule, buy, sell, work, position, accounts.hedge, owner.residual, owner.lane)
      BY DEF ProcessInv, Ledger
    <2>2. rule.source \in Int /\ rule.hedge \in Int /\ position \in Int /\ accounts.hedge \in Int
      BY ProcessFacts
    <2>3. PICK r0 \in Int, m \in Int, b \in Int :
            r0 = Net(rule) /\ b = position - rule.source /\ m = accounts.hedge - rule.hedge
      BY <2>2, UnitFacts DEF Net
    <2>4. Carries(r0, buy, sell, owner.residual, Open(work, 1), Open(work, -1), <<>>, m, b)
      BY <2>1, <2>3, <1>1 DEF Lane, CycleDone
    <2>5. owner.residual = r0 + b + Unit * m
      BY <2>4, LevelWhenDone
    <2>6. Unit * m = Unit * accounts.hedge - Unit * rule.hedge
          /\ Unit * accounts.hedge \in Int /\ Unit * rule.hedge \in Int
      BY <2>2, <2>3, MulSum
    <2>7. PICK x \in Int, y \in Int, z \in Int : x = Unit * accounts.hedge /\ y = Unit * rule.hedge /\ z = Unit * m
      BY <2>6
    <2>8. r0 = rule.source + y /\ Unhedged = accounts.source + x /\ z = x - y
      BY <2>3, <2>6, <2>7 DEF Net, Unhedged
    <2>9. owner.residual = r0 + b + z
      BY <2>5, <2>7
    <2>10. Unhedged = owner.residual
      BY <2>2, <2>3, <2>8, <2>9, <1>4
    <2> QED
      BY <2>10, <1>1 DEF CycleDone
  <1> QED
    BY <1>3, <1>4, <1>5 DEF NoOrder

-----------------------------------------------------------------------------

\* The books of the orders, the ledger and the accounts fit together always.
THEOREM ProcessInvariant == ProcessSpec => []ProcessInv
  <1>1. ProcessInit => ProcessInv
    BY ProcessBegins
  <1>2. ProcessInv /\ [ProcessNext]_processVars => ProcessInv'
    BY ProcessSteps
  <1> QED
    BY <1>1, <1>2, PTL DEF ProcessSpec

\* Both strategies together never take an account out of the limits, nor what is
\* not hedged out of its budget, however the fills and the news of them interleave.
THEOREM RiskStaysWithinLimits == ProcessSpec => []JointRiskWithinLimits
  <1>1. ProcessInv => JointRiskWithinLimits
    BY InvariantLimits
  <1> QED
    BY <1>1, ProcessInvariant, PTL

\* A drain that reports completion is level, and stays so.
THEOREM CompletedDrainIsLevel == ProcessSpec => []DrainedIsLevel
  <1>1. ProcessInv => DrainedIsLevel
    BY InvariantDrained
  <1> QED
    BY <1>1, ProcessInvariant, PTL

=============================================================================
