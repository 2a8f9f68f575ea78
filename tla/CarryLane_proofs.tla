--------------------------- MODULE CarryLane_proofs ---------------------------
(***************************************************************************)
(* Machine-checked proofs about CarryLane, for every Unit, every residual, *)
(* every size of the two quotes and any number of waiting hedges.          *)
(*                                                                         *)
(* That the bounds hold is not inductive: they speak of where the hedge    *)
(* account is, and the next obligation may take it anywhere.  The queue    *)
(* leads the account through a row of levels (Path), from where it is to   *)
(* where it will be when everything is hedged; CarryInv says of every      *)
(* level that the bounds hold there whatever still fills (LevelFits).      *)
(* That is linear in the level, so it holds between two levels as well     *)
(* (LevelBetween), a fill adds one more level that fits (BuyFits), a sale  *)
(* is the mirror of a purchase (SellFits, by LevelMirror), and the rest is *)
(* the rounding: it moves a residual by at most half an ounce, it is       *)
(* monotone and symmetric (RoundFacts, RoundMonotone).                     *)
(***************************************************************************)
EXTENDS CarryLane, SequenceTheorems, TLAPS

\* What the assumptions say of the unit.
LEMMA UnitFacts ==
  Unit \in Nat /\ Unit > 0 /\ Half \in Nat /\ Half > 0 /\ Unit = 2 * Half /\ MaxLeaves \in Nat
  BY UnitAssumption, HalfAssumption, CarryAssumption DEF Half

\* Division by the unit leaves a rest below it.
LEMMA Quotient ==
  ASSUME NEW n \in Int
  PROVE  /\ n \div Unit \in Int /\ n % Unit \in Int
         /\ n = Unit * (n \div Unit) + (n % Unit)
         /\ 0 <= n % Unit /\ n % Unit < Unit
  BY UnitFacts

\* w is a whole number nearest to n.
Nearest(n, w) ==
    /\ w \in Int
    /\ -Half <= n - Unit * w /\ n - Unit * w <= Half
    /\ (n - Unit * w = Half \/ n - Unit * w = -Half) => w % 2 = 0

\* Multiplying by the unit keeps the order.
LEMMA MulMonotone ==
  ASSUME NEW a \in Int, NEW b \in Int, a <= b
  PROVE  Unit * a <= Unit * b /\ Unit * a \in Int /\ Unit * b \in Int
  BY UnitFacts

\* Multiplying by the unit: the next number, the opposite number.
LEMMA MulNext ==
  ASSUME NEW a \in Int
  PROVE  Unit * (a + 1) = Unit * a + Unit /\ Unit * (-a) = -(Unit * a) /\ Unit * a \in Int
  BY UnitFacts

\* Rounding finds a nearest whole number, on a tie the even one.
LEMMA RoundIsNearest ==
  ASSUME NEW n \in Int
  PROVE  Nearest(n, RoundHedgeOunces(n))
  <1> DEFINE w == n \div Unit
             r == n % Unit
             p == Unit * w
  <1>1. w \in Int /\ r \in Int /\ p \in Int /\ n = p + r /\ 0 <= r /\ r < Unit
    BY Quotient, UnitFacts
  <1>2. RoundHedgeOunces(n) =
          IF 2 * r > Unit \/ (2 * r = Unit /\ w % 2 = 1) THEN w + 1 ELSE w
    BY DEF RoundHedgeOunces
  <1>3. Unit * (w + 1) = p + Unit
    BY <1>1, MulNext
  <1>4. w % 2 \in 0 .. 1 /\ (w % 2 = 1 => (w + 1) % 2 = 0)
    <2> HIDE DEF w
    <2> QED
      BY <1>1
  <1> HIDE DEF w, r, p
  <1>5. CASE 2 * r > Unit \/ (2 * r = Unit /\ w % 2 = 1)
    <2>1. RoundHedgeOunces(n) = w + 1
      BY <1>2, <1>5
    <2>2. Unit * RoundHedgeOunces(n) = p + Unit
      BY <2>1, <1>3
    <2>3. n - (p + Unit) = Half => FALSE
      BY <1>1, UnitFacts
    <2>4. n - (p + Unit) = -Half => (w + 1) % 2 = 0
      BY <1>1, <1>4, <1>5, UnitFacts
    <2>5. -Half <= n - (p + Unit) /\ n - (p + Unit) <= Half
      BY <1>1, <1>5, UnitFacts
    <2> QED
      BY <2>1, <2>2, <2>3, <2>4, <2>5, <1>1 DEF Nearest
  <1>6. CASE ~(2 * r > Unit \/ (2 * r = Unit /\ w % 2 = 1))
    <2>1. RoundHedgeOunces(n) = w
      BY <1>2, <1>6
    <2>2. Unit * RoundHedgeOunces(n) = p
      BY <2>1 DEF p
    <2>3. n - p = -Half => FALSE
      BY <1>1, UnitFacts
    <2>4. n - p = Half => w % 2 = 0
      BY <1>1, <1>4, <1>6, UnitFacts
    <2>5. -Half <= n - p /\ n - p <= Half
      BY <1>1, <1>6, UnitFacts
    <2> QED
      BY <2>1, <2>2, <2>3, <2>4, <2>5, <1>1 DEF Nearest
  <1> QED
    BY <1>5, <1>6

\* A larger number has no smaller nearest one; so there is only one.
LEMMA NearestMonotone ==
  ASSUME NEW a \in Int, NEW b \in Int, NEW v, NEW w, a <= b, Nearest(a, v), Nearest(b, w)
  PROVE  v <= w
  <1>1. v \in Int /\ w \in Int
    BY DEF Nearest
  <1> SUFFICES ASSUME v > w PROVE FALSE
    BY <1>1
  <1> DEFINE p == Unit * v
             q == Unit * w
  <1>2. p \in Int /\ q \in Int
    BY <1>1, MulNext
  <1>3. q + Unit <= p
    <2>1. w + 1 <= v
      BY <1>1
    <2> QED
      BY <1>1, <2>1, MulNext, MulMonotone
  <1>4. -Half <= a - p /\ -Half <= b - q /\ b - q <= Half /\ a - p <= Half
    BY DEF Nearest
  <1>5. (a - p = -Half => v % 2 = 0) /\ (b - q = Half => w % 2 = 0)
    BY DEF Nearest
  <1>6. v = w + 1 \/ v >= w + 2
    BY <1>1
  <1>7. v >= w + 2 => q + 2 * Unit <= p
    <2>1. SUFFICES ASSUME w + 1 + 1 <= v PROVE q + Unit + Unit <= p
      BY <1>1, <1>2, UnitFacts
    <2>2. Unit * (w + 1 + 1) = q + Unit + Unit
      BY <1>1, <1>2, MulNext, UnitFacts
    <2> QED
      BY <1>1, <2>1, <2>2, MulMonotone
  <1> HIDE DEF p, q
  <1>8. a - p = -Half /\ b - q = Half /\ ~(v >= w + 2)
    BY <1>2, <1>3, <1>4, <1>7, UnitFacts
  <1> QED
    BY <1>1, <1>5, <1>6, <1>8

\* The nearest number of the opposite is the opposite.
LEMMA NearestOdd ==
  ASSUME NEW n \in Int, NEW w, Nearest(n, w)
  PROVE  Nearest(-n, -w)
  <1> DEFINE p == Unit * w
  <1>1. w \in Int /\ p \in Int /\ Unit * (-w) = -p
    BY MulNext DEF Nearest
  <1>2. /\ -Half <= n - p /\ n - p <= Half
        /\ (n - p = Half \/ n - p = -Half) => w % 2 = 0
    BY DEF Nearest
  <1>3. w % 2 = 0 => (-w) % 2 = 0
    BY <1>1
  <1> HIDE DEF p
  <1>4. /\ -Half <= -n - (-p) /\ -n - (-p) <= Half
        /\ (-n - (-p) = Half \/ -n - (-p) = -Half) => (-w) % 2 = 0
    BY <1>1, <1>2, <1>3, UnitFacts
  <1> QED
    BY <1>1, <1>4 DEF Nearest

\* Rounding moves no ounce that is not more than half there.
LEMMA RoundFacts ==
  ASSUME NEW n \in Int
  PROVE  /\ RoundHedgeOunces(n) \in Int
         /\ -Half <= n - Unit * RoundHedgeOunces(n) /\ n - Unit * RoundHedgeOunces(n) <= Half
         /\ n < Half => RoundHedgeOunces(n) <= 0
         /\ n > -Half => RoundHedgeOunces(n) >= 0
         /\ RoundHedgeOunces(-n) = -RoundHedgeOunces(n)
  <1> DEFINE w == RoundHedgeOunces(n)
  <1>1. Nearest(n, w) /\ Nearest(-n, RoundHedgeOunces(-n))
    BY RoundIsNearest
  <1>2. Nearest(-n, -w)
    BY <1>1, NearestOdd
  <1>3. w \in Int /\ -w \in Int /\ RoundHedgeOunces(-n) \in Int
    BY <1>1 DEF Nearest
  <1>4. RoundHedgeOunces(-n) <= -w /\ -w <= RoundHedgeOunces(-n)
    BY <1>1, <1>2, NearestMonotone
  <1>5. w >= 1 => Unit <= Unit * w
    BY <1>3, UnitFacts, MulMonotone
  <1>6. w <= -1 => Unit * w <= -Unit
    <2>1. Unit * (-1) = -Unit
      BY UnitFacts
    <2> QED
      BY <1>3, <2>1, MulMonotone
  <1>7. -Half <= n - Unit * w /\ n - Unit * w <= Half /\ Unit * w \in Int
    BY <1>1, <1>3, MulNext DEF Nearest
  <1> HIDE DEF w
  <1>8. n < Half => w <= 0
    BY <1>3, <1>5, <1>7, UnitFacts
  <1>9. n > -Half => w >= 0
    BY <1>3, <1>6, <1>7, UnitFacts
  <1> QED
    BY <1>3, <1>4, <1>7, <1>8, <1>9 DEF w

\* Rounding keeps the order.
LEMMA RoundMonotone ==
  ASSUME NEW a \in Int, NEW b \in Int, a <= b
  PROVE  RoundHedgeOunces(a) <= RoundHedgeOunces(b)
  BY RoundIsNearest, NearestMonotone

\* What is at most n in whole units is at most n \div Unit.
LEMMA AtMostQuotient ==
  ASSUME NEW n \in Int, NEW w \in Int, Unit * w <= n
  PROVE  w <= n \div Unit
  <1> DEFINE q == n \div Unit
  <1>1. q \in Int /\ n % Unit \in Int /\ n = Unit * q + (n % Unit) /\ n % Unit < Unit
    BY Quotient
  <1> SUFFICES ASSUME q + 1 <= w PROVE FALSE
    BY <1>1
  <1>2. Unit * q + Unit <= Unit * w /\ Unit * q \in Int /\ Unit * w \in Int
    BY <1>1, MulMonotone, MulNext
  <1> QED
    BY <1>1, <1>2, UnitFacts

-----------------------------------------------------------------------------
(* What one level of the hedge account must satisfy for quotes of buy and  *)
(* sell admitted on a residual r0, of which b is bought so far and bid and *)
(* ask may still trade, if the queue ends at level e.                      *)

LevelFits(r0, buy, sell, b, bid, ask, e, x) ==
    /\ x <= HedgeOunces(-r0, sell) /\ -x <= HedgeOunces(r0, buy)
    /\ buy > 0 /\ sell > 0 =>
         /\ r0 + b + bid + Unit * x <= Half + Largest(buy, sell)
         /\ -(Half + Largest(buy, sell)) <= r0 + b - ask + Unit * x
    /\ sell = 0 => e <= x /\ (x < 0 => Half <= r0 + b)
    /\ buy = 0 => x <= e /\ (x > 0 => r0 + b <= -Half)

BooksFit(buy, sell, b, bid, ask) ==
    /\ bid <= buy /\ ask <= sell
    /\ b <= buy - bid /\ -b <= sell - ask

\* An account never moves further than the whole ounces of what may trade.
LEMMA OuncesFacts ==
  ASSUME NEW r \in Int, NEW t \in Nat
  PROVE  /\ HedgeOunces(r, t) \in Nat
         /\ t = 0 => HedgeOunces(r, t) = 0
         /\ t > 0 => \A x \in Int : Unit * x <= r + t + Half => x <= HedgeOunces(r, t)
  <1> DEFINE q == (r + t + Half) \div Unit
  <1>1. r + t + Half \in Int
    BY UnitFacts
  <1>2. q \in Int
    BY <1>1, Quotient
  <1>3. \A x \in Int : Unit * x <= r + t + Half => x <= q
    BY <1>1, AtMostQuotient
  <1>4. HedgeOunces(r, t) = IF t = 0 THEN 0 ELSE Largest(0, q)
    BY DEF HedgeOunces, Half
  <1> HIDE DEF q
  <1> QED
    BY <1>2, <1>3, <1>4 DEF Largest

\* Buying and selling are symmetric.
LEMMA LevelMirror ==
  ASSUME NEW r0 \in Int, NEW buy \in Nat, NEW sell \in Nat, NEW b \in Int,
         NEW bid \in Nat, NEW ask \in Nat, NEW e \in Int, NEW x \in Int
  PROVE  LevelFits(r0, buy, sell, b, bid, ask, e, x)
           <=> LevelFits(-r0, sell, buy, -b, ask, bid, -e, -x)
  <1> DEFINE p == Unit * x
             gb == HedgeOunces(-r0, sell)
             gs == HedgeOunces(r0, buy)
  <1>1. p \in Int /\ Unit * (-x) = -p
    BY MulNext
  <1>2. gb \in Nat /\ gs \in Nat /\ HedgeOunces(-(-r0), buy) = gs
    <2>1. -(-r0) = r0 /\ -r0 \in Int
      OBVIOUS
    <2> QED
      BY <2>1, OuncesFacts
  <1>3. Largest(buy, sell) = Largest(sell, buy) /\ Largest(buy, sell) \in Nat
    BY DEF Largest
  <1> DEFINE m == Largest(buy, sell)
  <1>4. LevelFits(r0, buy, sell, b, bid, ask, e, x) <=>
          /\ x <= gb /\ -x <= gs
          /\ buy > 0 /\ sell > 0 => r0 + b + bid + p <= Half + m /\ -(Half + m) <= r0 + b - ask + p
          /\ sell = 0 => e <= x /\ (x < 0 => Half <= r0 + b)
          /\ buy = 0 => x <= e /\ (x > 0 => r0 + b <= -Half)
    BY DEF LevelFits
  <1>5. LevelFits(-r0, sell, buy, -b, ask, bid, -e, -x) <=>
          /\ -x <= gs /\ -(-x) <= gb
          /\ sell > 0 /\ buy > 0 => (-r0) + (-b) + ask + (-p) <= Half + m
                                     /\ -(Half + m) <= (-r0) + (-b) - bid + (-p)
          /\ buy = 0 => -e <= -x /\ (-x < 0 => Half <= (-r0) + (-b))
          /\ sell = 0 => -x <= -e /\ (-x > 0 => (-r0) + (-b) <= -Half)
    BY <1>1, <1>2, <1>3 DEF LevelFits
  <1> HIDE DEF p, gb, gs, m
  <1>6. m \in Nat
    BY <1>3 DEF m
  <1> QED
    BY <1>1, <1>2, <1>4, <1>5, <1>6, UnitFacts

\* What holds at two levels holds between them.
LEMMA LevelBetween ==
  ASSUME NEW r0 \in Int, NEW buy \in Nat, NEW sell \in Nat, NEW b \in Int,
         NEW bid \in Nat, NEW ask \in Nat, NEW e \in Int,
         NEW x \in Int, NEW y \in Int, NEW z \in Int, x <= y, y <= z,
         LevelFits(r0, buy, sell, b, bid, ask, e, x),
         LevelFits(r0, buy, sell, b, bid, ask, e, z)
  PROVE  LevelFits(r0, buy, sell, b, bid, ask, e, y)
  <1> DEFINE px == Unit * x
             py == Unit * y
             pz == Unit * z
             gb == HedgeOunces(-r0, sell)
             gs == HedgeOunces(r0, buy)
             m == Largest(buy, sell)
  <1>1. px \in Int /\ py \in Int /\ pz \in Int /\ px <= py /\ py <= pz
    BY MulMonotone
  <1>2. gb \in Nat /\ gs \in Nat /\ m \in Nat
    <2>1. -r0 \in Int
      OBVIOUS
    <2> QED
      BY <2>1, OuncesFacts DEF Largest
  <1>3. /\ x <= gb /\ -x <= gs /\ z <= gb /\ -z <= gs
        /\ buy > 0 /\ sell > 0 => r0 + b + bid + pz <= Half + m /\ -(Half + m) <= r0 + b - ask + px
        /\ sell = 0 => e <= x /\ (x < 0 => Half <= r0 + b)
        /\ buy = 0 => z <= e /\ (z > 0 => r0 + b <= -Half)
    BY DEF LevelFits
  <1>4. LevelFits(r0, buy, sell, b, bid, ask, e, y) <=>
          /\ y <= gb /\ -y <= gs
          /\ buy > 0 /\ sell > 0 => r0 + b + bid + py <= Half + m /\ -(Half + m) <= r0 + b - ask + py
          /\ sell = 0 => e <= y /\ (y < 0 => Half <= r0 + b)
          /\ buy = 0 => y <= e /\ (y > 0 => r0 + b <= -Half)
    BY DEF LevelFits
  <1> HIDE DEF px, py, pz, gb, gs, m
  <1> QED
    BY <1>1, <1>2, <1>3, <1>4, UnitFacts

\* The bid may fill by part, at a residual of r.
CanBuy(r0, buy, sell, b, bid, ask, e, part, r) ==
    /\ r0 \in Int /\ -Half <= r0 /\ r0 <= Half
    /\ buy \in Nat /\ sell \in Nat /\ b \in Int /\ bid \in Nat /\ ask \in Nat
    /\ e \in Int /\ part \in Nat /\ r \in Int
    /\ 1 <= part /\ part <= bid /\ BooksFit(buy, sell, b, bid, ask)
    /\ r = r0 + b + Unit * e /\ -Half <= r /\ r <= Half
    /\ LevelFits(r0, buy, sell, b, bid, ask, e, e)

\* After it, w ounces being obliged.
AfterBuy(r0, buy, sell, b, bid, ask, e, part, r, w) ==
    /\ w \in Nat /\ w <= IntentBound(r0, buy, 1, sell > 0)
    /\ r + part - Unit * w = r0 + (b + part) + Unit * (e - w)
    /\ -Half <= r + part - Unit * w /\ r + part - Unit * w <= Half
    /\ BooksFit(buy, sell, b + part, bid - part, ask)
    /\ LevelFits(r0, buy, sell, b + part, bid - part, ask, e - w, e - w)
    /\ \A x \in Int : LevelFits(r0, buy, sell, b, bid, ask, e, x)
         => LevelFits(r0, buy, sell, b + part, bid - part, ask, e - w, x)

\* A purchase keeps every level fitting, and adds one that fits.
LEMMA BuyFits ==
  ASSUME NEW r0, NEW buy, NEW sell, NEW b, NEW bid, NEW ask, NEW e, NEW part, NEW r,
         CanBuy(r0, buy, sell, b, bid, ask, e, part, r)
  PROVE  AfterBuy(r0, buy, sell, b, bid, ask, e, part, r, RoundHedgeOunces(r + part))
  <1> SUFFICES
         ASSUME r0 \in Int, -Half <= r0, r0 <= Half,
                buy \in Nat, sell \in Nat, b \in Int, bid \in Nat, ask \in Nat,
                e \in Int, part \in Nat, r \in Int,
                1 <= part, part <= bid, BooksFit(buy, sell, b, bid, ask),
                r = r0 + b + Unit * e, -Half <= r, r <= Half,
                LevelFits(r0, buy, sell, b, bid, ask, e, e)
         PROVE  AfterBuy(r0, buy, sell, b, bid, ask, e, part, r, RoundHedgeOunces(r + part))
    BY DEF CanBuy
  <1> DEFINE n == r + part
             w == RoundHedgeOunces(n)
             v == e - w
             p == Unit * e
             d == Unit * w
             m == Largest(buy, sell)
             gb == HedgeOunces(-r0, sell)
             gs == HedgeOunces(r0, buy)
  <1>1. n \in Int /\ n > -Half
    BY UnitFacts
  <1>2. /\ w \in Int /\ w >= 0 /\ -Half <= n - d /\ n - d <= Half
        /\ n < Half => w <= 0
    BY <1>1, RoundFacts
  <1>3. p \in Int /\ d \in Int /\ v \in Int /\ Unit * v = p - d /\ Unit * (-v) = d - p
    <2>1. w \in Int
      BY <1>2
    <2> HIDE DEF w
    <2> QED
      BY <2>1, UnitFacts
  <1>4. m \in Nat /\ buy <= m /\ sell <= m
    BY DEF Largest
  <1>5. /\ gb \in Nat /\ (sell = 0 => gb = 0)
        /\ sell > 0 => \A x \in Int : Unit * x <= -r0 + sell + Half => x <= gb
    <2>1. PICK i \in Int : i = -r0
      OBVIOUS
    <2> QED
      BY <2>1, OuncesFacts
  <1>6. /\ gs \in Nat /\ (buy = 0 => gs = 0)
        /\ buy > 0 => \A x \in Int : Unit * x <= r0 + buy + Half => x <= gs
    BY OuncesFacts
  <1>7. /\ bid <= buy /\ ask <= sell /\ b <= buy - bid /\ -b <= sell - ask
        /\ buy > 0
    BY DEF BooksFit
  <1>8. /\ e <= gb /\ -e <= gs
        /\ sell = 0 => (e < 0 => Half <= r0 + b)
    BY DEF LevelFits
  <1>9. w <= IntentBound(r0, buy, 1, sell > 0)
    <2> DEFINE i == IF sell > 0 THEN Half ELSE r0
    <2>1. i \in Int /\ i + buy \in Int
      BY UnitFacts
    <2>2. n <= i + buy
      <3>1. CASE sell > 0
        BY <3>1, <1>7, UnitFacts
      <3>2. CASE sell = 0
        <4>1. Unit * e <= Unit * 0
          BY <3>2, <1>5, <1>8, MulMonotone
        <4>2. p <= 0
          BY <4>1, UnitFacts
        <4> HIDE DEF p
        <4>3. r = r0 + b + p
          BY DEF p
        <4> QED
          BY <3>2, <4>2, <4>3, <1>3, <1>7
      <3> QED
        BY <3>1, <3>2
    <2>3. IntentBound(r0, buy, 1, sell > 0) = Largest(0, RoundHedgeOunces(i + buy))
      BY UnitFacts DEF IntentBound, Half
    <2>4. w <= RoundHedgeOunces(i + buy) /\ RoundHedgeOunces(i + buy) \in Int
      BY <1>1, <2>1, <2>2, RoundMonotone, RoundFacts
    <2> HIDE DEF w, i
    <2> QED
      BY <1>2, <2>3, <2>4 DEF Largest
  <1>10. r = r0 + b + p
    BY DEF p
  <1> HIDE DEF w, d, p, m, gb, gs
  <1>11. n - d = r0 + (b + part) + (p - d)
    BY <1>3, <1>10
  <1>12. v <= gb
    <2>1. CASE sell = 0
      BY <2>1, <1>2, <1>5, <1>8
    <2>2. CASE sell > 0
      <3>1. p - d <= -r0 + sell + Half
        BY <1>2, <1>3, <1>7, <1>11, UnitFacts
      <3>2. Unit * v <= -r0 + sell + Half
        BY <3>1, <1>3
      <3> QED
        BY <2>2, <3>2, <1>3, <1>5
    <2> QED
      BY <2>1, <2>2
  <1>13. -v <= gs
    <2>1. d - p <= r0 + buy + Half
      BY <1>2, <1>3, <1>7, <1>11, UnitFacts
    <2>2. Unit * (-v) <= r0 + buy + Half /\ -v \in Int
      BY <2>1, <1>3
    <2> QED
      BY <2>2, <1>6, <1>7
  <1>14. r0 + (b + part) + (bid - part) + (p - d) <= Half + m
    BY <1>2, <1>3, <1>4, <1>7, <1>11, UnitFacts
  <1>15. -(Half + m) <= r0 + (b + part) - ask + (p - d)
    BY <1>2, <1>3, <1>4, <1>7, <1>11, UnitFacts
  <1>16. sell = 0 /\ v < 0 => Half <= r0 + (b + part)
    <2> SUFFICES ASSUME sell = 0, v < 0 PROVE Half <= r0 + (b + part)
      OBVIOUS
    <2>1. CASE e < 0
      BY <2>1, <1>8, UnitFacts
    <2>2. CASE e >= 0
      <3>1. e = 0 /\ w > 0
        BY <2>2, <1>2, <1>5, <1>8
      <3>2. p = 0
        BY <3>1, UnitFacts DEF p
      <3> QED
        BY <3>1, <3>2, <1>1, <1>2, <1>10, UnitFacts
    <2> QED
      BY <2>1, <2>2
  <1>17. LevelFits(r0, buy, sell, b + part, bid - part, ask, v, v)
    BY <1>3, <1>7, <1>12, <1>13, <1>14, <1>15, <1>16 DEF LevelFits, m, gb, gs
  <1>18. ASSUME NEW x \in Int, LevelFits(r0, buy, sell, b, bid, ask, e, x)
         PROVE  LevelFits(r0, buy, sell, b + part, bid - part, ask, v, x)
    <2> DEFINE t == Unit * x
    <2>1. t \in Int
      BY MulNext
    <2>2. /\ x <= gb /\ -x <= gs
          /\ sell > 0 => r0 + b + bid + t <= Half + m /\ -(Half + m) <= r0 + b - ask + t
          /\ sell = 0 => e <= x /\ (x < 0 => Half <= r0 + b)
      BY <1>7, <1>18 DEF LevelFits, m, gb, gs
    <2>3. LevelFits(r0, buy, sell, b + part, bid - part, ask, v, x) <=>
            /\ x <= gb /\ -x <= gs
            /\ sell > 0 => /\ r0 + (b + part) + (bid - part) + t <= Half + m
                            /\ -(Half + m) <= r0 + (b + part) - ask + t
            /\ sell = 0 => v <= x /\ (x < 0 => Half <= r0 + (b + part))
      BY <1>7 DEF LevelFits, m, gb, gs
    <2> HIDE DEF t
    <2> QED
      BY <2>1, <2>2, <2>3, <1>2, <1>3, <1>4, <1>5, <1>6, UnitFacts
  <1>19. BooksFit(buy, sell, b + part, bid - part, ask)
    BY <1>7 DEF BooksFit
  <1>20. /\ r + part - Unit * w = r0 + (b + part) + Unit * (e - w)
         /\ -Half <= r + part - Unit * w /\ r + part - Unit * w <= Half
    BY <1>2, <1>3, <1>11 DEF d
  <1> QED
    BY <1>2, <1>9, <1>17, <1>18, <1>19, <1>20 DEF w, AfterBuy

\* The books of a sale are those of a purchase, mirrored.
LEMMA BooksMirror ==
  ASSUME NEW buy \in Nat, NEW sell \in Nat, NEW b \in Int, NEW bid \in Int, NEW ask \in Int
  PROVE  BooksFit(buy, sell, b, bid, ask) <=> BooksFit(sell, buy, -b, ask, bid)
  BY DEF BooksFit

\* The same of the ask.
CanSell(r0, buy, sell, b, bid, ask, e, part, r) ==
    /\ r0 \in Int /\ -Half <= r0 /\ r0 <= Half
    /\ buy \in Nat /\ sell \in Nat /\ b \in Int /\ bid \in Nat /\ ask \in Nat
    /\ e \in Int /\ part \in Nat /\ r \in Int
    /\ 1 <= part /\ part <= ask /\ BooksFit(buy, sell, b, bid, ask)
    /\ r = r0 + b + Unit * e /\ -Half <= r /\ r <= Half
    /\ LevelFits(r0, buy, sell, b, bid, ask, e, e)

AfterSale(r0, buy, sell, b, bid, ask, e, part, r, w) ==
    /\ -w \in Nat /\ -w <= IntentBound(r0, sell, -1, buy > 0)
    /\ r - part - Unit * w = r0 + (b - part) + Unit * (e - w)
    /\ -Half <= r - part - Unit * w /\ r - part - Unit * w <= Half
    /\ BooksFit(buy, sell, b - part, bid, ask - part)
    /\ LevelFits(r0, buy, sell, b - part, bid, ask - part, e - w, e - w)
    /\ \A x \in Int : LevelFits(r0, buy, sell, b, bid, ask, e, x)
         => LevelFits(r0, buy, sell, b - part, bid, ask - part, e - w, x)

\* A sale does as well.
LEMMA SellFits ==
  ASSUME NEW r0, NEW buy, NEW sell, NEW b, NEW bid, NEW ask, NEW e, NEW part, NEW r,
         CanSell(r0, buy, sell, b, bid, ask, e, part, r)
  PROVE  AfterSale(r0, buy, sell, b, bid, ask, e, part, r, RoundHedgeOunces(r - part))
  <1> SUFFICES
         ASSUME r0 \in Int, -Half <= r0, r0 <= Half,
                buy \in Nat, sell \in Nat, b \in Int, bid \in Nat, ask \in Nat,
                e \in Int, part \in Nat, r \in Int,
                1 <= part, part <= ask, BooksFit(buy, sell, b, bid, ask),
                r = r0 + b + Unit * e, -Half <= r, r <= Half,
                LevelFits(r0, buy, sell, b, bid, ask, e, e)
         PROVE  AfterSale(r0, buy, sell, b, bid, ask, e, part, r, RoundHedgeOunces(r - part))
    BY DEF CanSell
  <1>1. PICK r1 \in Int : r1 = -r0
    OBVIOUS
  <1>2. PICK b1 \in Int : b1 = -b
    OBVIOUS
  <1>3. PICK e1 \in Int : e1 = -e
    OBVIOUS
  <1>4. PICK s1 \in Int : s1 = -r
    OBVIOUS
  <1>5. PICK u : u = RoundHedgeOunces(s1 + part)
    OBVIOUS
  <1> DEFINE w == RoundHedgeOunces(r - part)
             p == Unit * e
             d == Unit * w
  <1>6. w \in Int /\ u = -w
    <2>1. r - part \in Int /\ s1 + part = -(r - part)
      BY <1>4
    <2> QED
      BY <2>1, <1>5, RoundFacts
  <1>7. p \in Int /\ Unit * e1 = -p /\ d \in Int /\ Unit * u = -d /\ Unit * (e - w) = p - d
    <2> HIDE DEF w
    <2>1. Unit * (e - w) = Unit * e - Unit * w
      BY <1>6, UnitFacts
    <2> QED
      BY <2>1, <1>3, <1>6, MulNext
  <1>8. -Half <= r1 /\ r1 <= Half /\ -Half <= s1 /\ s1 <= Half
    BY <1>1, <1>4, UnitFacts
  <1>9. s1 = r1 + b1 + Unit * e1
    <2> HIDE DEF p
    <2>1. r = r0 + b + p
      BY DEF p
    <2> QED
      BY <2>1, <1>1, <1>2, <1>4, <1>7
  <1>10. BooksFit(sell, buy, b1, ask, bid)
    BY <1>2, BooksMirror
  <1>11. LevelFits(r1, sell, buy, b1, ask, bid, e1, e1)
    BY <1>1, <1>2, <1>3, LevelMirror
  <1>12. /\ u \in Nat /\ u <= IntentBound(r1, sell, 1, buy > 0)
         /\ -Half <= s1 + part - Unit * u /\ s1 + part - Unit * u <= Half
         /\ BooksFit(sell, buy, b1 + part, ask - part, bid)
         /\ LevelFits(r1, sell, buy, b1 + part, ask - part, bid, e1 - u, e1 - u)
         /\ \A x \in Int : LevelFits(r1, sell, buy, b1, ask, bid, e1, x)
              => LevelFits(r1, sell, buy, b1 + part, ask - part, bid, e1 - u, x)
    <2>1. CanBuy(r1, sell, buy, b1, ask, bid, e1, part, s1)
      BY <1>8, <1>9, <1>10, <1>11 DEF CanBuy
    <2>2. AfterBuy(r1, sell, buy, b1, ask, bid, e1, part, s1, u)
      BY <2>1, <1>5, BuyFits
    <2> QED
      BY <2>2 DEF AfterBuy
  <1>13. IntentBound(r1, sell, 1, buy > 0) = IntentBound(r0, sell, -1, buy > 0)
    <2>1. 1 * r1 = -1 * r0
      BY <1>1
    <2> QED
      BY <2>1 DEF IntentBound
  <1>14. ask - part \in Nat /\ b - part \in Int /\ b1 + part \in Int /\ b1 + part = -(b - part)
    BY <1>2
  <1>15. e1 - u = -(e - w) /\ e - w \in Int
    <2> HIDE DEF w
    <2> QED
      BY <1>3, <1>6
  <1>16. ASSUME NEW x \in Int
         PROVE  LevelFits(r0, buy, sell, b - part, bid, ask - part, e - w, x)
                  <=> LevelFits(r1, sell, buy, b1 + part, ask - part, bid, e1 - u, -x)
    <2>1. PICK y \in Int : y = e - w
      BY <1>15
    <2>2. PICK c \in Int : c = b - part
      BY <1>14
    <2>3. PICK a \in Nat : a = ask - part
      BY <1>14
    <2>4. LevelFits(r0, buy, sell, c, bid, a, y, x) <=> LevelFits(-r0, sell, buy, -c, a, bid, -y, -x)
      BY LevelMirror
    <2>5. -c = b1 + part /\ -y = e1 - u
      BY <2>1, <2>2, <1>14, <1>15
    <2> HIDE DEF w
    <2> QED
      BY <2>1, <2>2, <2>3, <2>4, <2>5, <1>1
  <1>17. LevelFits(r0, buy, sell, b - part, bid, ask - part, e - w, e - w)
    <2>1. PICK y \in Int : y = e - w
      BY <1>15
    <2>2. -y = e1 - u
      BY <2>1, <1>15
    <2> HIDE DEF w
    <2> QED
      BY <2>1, <2>2, <1>12, <1>16
  <1>18. ASSUME NEW x \in Int, LevelFits(r0, buy, sell, b, bid, ask, e, x)
         PROVE  LevelFits(r0, buy, sell, b - part, bid, ask - part, e - w, x)
    <2>1. LevelFits(-r0, sell, buy, -b, ask, bid, -e, -x)
      BY <1>18, LevelMirror
    <2>2. LevelFits(r1, sell, buy, b1, ask, bid, e1, -x)
      BY <2>1, <1>1, <1>2, <1>3
    <2>3. -x \in Int
      OBVIOUS
    <2> HIDE DEF w
    <2> QED
      BY <2>2, <2>3, <1>12, <1>16
  <1>19. BooksFit(buy, sell, b - part, bid, ask - part)
    <2>1. PICK c \in Int : c = b - part
      BY <1>14
    <2>2. PICK a \in Nat : a = ask - part
      BY <1>14
    <2>3. -c = b1 + part
      BY <2>1, <1>14
    <2>4. BooksFit(buy, sell, c, bid, a) <=> BooksFit(sell, buy, -c, a, bid)
      BY BooksMirror
    <2> QED
      BY <2>1, <2>2, <2>3, <2>4, <1>12
  <1>20. /\ -w \in Nat /\ -w <= IntentBound(r0, sell, -1, buy > 0)
    <2> HIDE DEF w
    <2> QED
      BY <1>6, <1>12, <1>13
  <1>21. /\ r - part - Unit * w = r0 + (b - part) + Unit * (e - w)
         /\ -Half <= r - part - Unit * w /\ r - part - Unit * w <= Half
    <2>1. r = r0 + b + p
      BY DEF p
    <2>2. -Half <= s1 + part + d /\ s1 + part + d <= Half
      <3> HIDE DEF d
      <3>1. s1 + part - Unit * u = s1 + part + d
        BY <1>7
      <3> QED
        BY <3>1, <1>12
    <2>3. Unit * w = d
      OBVIOUS
    <2> HIDE DEF p, d, w
    <2> QED
      BY <2>1, <2>2, <2>3, <1>4, <1>6, <1>7, UnitFacts
  <1> QED
    BY <1>17, <1>18, <1>19, <1>20, <1>21 DEF AfterSale

-----------------------------------------------------------------------------
(* The levels from m on that the queue q leads through, the last being e.  *)

Path(q, m, e, f) ==
    /\ f \in [0 .. Len(q) -> Int] /\ f[0] = m /\ f[Len(q)] = e
    /\ \A k \in 1 .. Len(q) : f[k] = f[k - 1] + q[k]

\* The books of two admitted quotes with the path their hedges take: the residual was
\* r0 and is r, the hedge account has moved by m, and q is still to be hedged.
Carries(r0, buy, sell, r, bid, ask, q, m, b) ==
    /\ r0 \in -Half .. Half /\ r \in -Half .. Half /\ m \in Int /\ b \in Int
    /\ buy \in Nat /\ sell \in Nat /\ bid \in Nat /\ ask \in Nat
    /\ q \in Seq(Int \ {0})
    /\ BooksFit(buy, sell, b, bid, ask)
    /\ \E e \in Int :
         /\ r = r0 + b + Unit * e
         /\ \E f : /\ Path(q, m, e, f)
                  /\ \A k \in 0 .. Len(q) : LevelFits(r0, buy, sell, b, bid, ask, e, f[k])

CarryInv ==
    /\ CarryTypeOK
    /\ start \in [residual : -Half .. Half, buy : 0 .. MaxLeaves, sell : 0 .. MaxLeaves]
    /\ Carries(start.residual, start.buy, start.sell, residual, leaves[1], leaves[-1], queue, moved, bought)
    /\ IntentWithinBound

\* g goes on to one more level where f ends.
Extends(q, m, e, f, d, g) ==
    /\ Path(Append(q, d), m, e + d, g)
    /\ \A k \in 0 .. Len(q) : g[k] = f[k]
    /\ g[Len(q) + 1] = e + d

\* A new obligation adds a level at the end.
LEMMA PathGrows ==
  ASSUME NEW q \in Seq(Int), NEW m \in Int, NEW e \in Int, NEW d \in Int, NEW f, Path(q, m, e, f)
  PROVE  \E g : Extends(q, m, e, f, d, g)
  <1> DEFINE n == Len(q)
             a == Append(q, d)
             g == [k \in 0 .. n + 1 |-> IF k <= n THEN f[k] ELSE e + d]
  <1>1. n \in Nat /\ Len(a) = n + 1 /\ a[n + 1] = d /\ \A k \in 1 .. n : a[k] = q[k]
    OBVIOUS
  <1>2. f \in [0 .. n -> Int] /\ f[0] = m /\ f[n] = e /\ \A k \in 1 .. n : f[k] = f[k - 1] + q[k]
    BY DEF Path
  <1>3. /\ g \in [0 .. n + 1 -> Int] /\ g[n + 1] = e + d
        /\ \A k \in 0 .. n : g[k] = f[k]
    BY <1>1, <1>2
  <1> HIDE DEF n, a, g
  <1>4. ASSUME NEW k \in 1 .. n + 1 PROVE g[k] = g[k - 1] + a[k]
    <2>1. CASE k <= n
      <3>1. k \in 0 .. n /\ k - 1 \in 0 .. n /\ k \in 1 .. n
        BY <2>1, <1>1
      <3> QED
        BY <3>1, <1>1, <1>2, <1>3
    <2>2. CASE k > n
      <3>1. k = n + 1 /\ k - 1 = n /\ n \in 0 .. n
        BY <2>2, <1>1
      <3> QED
        BY <3>1, <1>1, <1>2, <1>3
    <2> QED
      BY <2>1, <2>2, <1>1
  <1>5. g[0] = m
    BY <1>1, <1>2, <1>3
  <1>6. Path(a, m, e + d, g)
    BY <1>1, <1>3, <1>4, <1>5 DEF Path
  <1> QED
    BY <1>3, <1>6 DEF n, a, Extends

\* An obligation that is worked off drops the first level.
LEMMA PathPasses ==
  ASSUME NEW q \in Seq(Int), q # <<>>, NEW m \in Int, NEW e \in Int, NEW f, Path(q, m, e, f)
  PROVE  /\ Path(Tail(q), m + q[1], e, [k \in 0 .. Len(q) - 1 |-> f[k + 1]])
         /\ Len(Tail(q)) = Len(q) - 1
  <1> DEFINE n == Len(q)
             t == Tail(q)
             g == [k \in 0 .. n - 1 |-> f[k + 1]]
  <1>1. n \in Nat /\ n >= 1 /\ Len(t) = n - 1 /\ \A k \in 1 .. n - 1 : t[k] = q[k + 1]
    BY EmptySeq
  <1>2. f \in [0 .. n -> Int] /\ f[0] = m /\ f[n] = e /\ \A k \in 1 .. n : f[k] = f[k - 1] + q[k]
    BY DEF Path
  <1>3. g \in [0 .. n - 1 -> Int] /\ \A k \in 0 .. n - 1 : g[k] = f[k + 1]
    BY <1>1, <1>2
  <1> HIDE DEF n, t, g
  <1>4. g[0] = m + q[1] /\ g[n - 1] = e
    BY <1>1, <1>2, <1>3
  <1>5. ASSUME NEW k \in 1 .. n - 1 PROVE g[k] = g[k - 1] + t[k]
    <2>1. k \in 0 .. n - 1 /\ k - 1 \in 0 .. n - 1 /\ k + 1 \in 1 .. n /\ k + 1 - 1 = k /\ k - 1 + 1 = k
      BY <1>1
    <2>2. f[k + 1] = f[k] + q[k + 1]
      BY <2>1, <1>2
    <2> QED
      BY <2>1, <2>2, <1>1, <1>3
  <1>6. Path(t, m + q[1], e, g)
    BY <1>1, <1>3, <1>4, <1>5 DEF Path
  <1> QED
    BY <1>1, <1>6 DEF n, t, g

\* One that is worked off in part moves it.
LEMMA PathMoves ==
  ASSUME NEW q \in Seq(Int), q # <<>>, NEW m \in Int, NEW e \in Int, NEW d \in Int,
         NEW f, Path(q, m, e, f)
  PROVE  Path([q EXCEPT ![1] = @ - d], m + d, e, [f EXCEPT ![0] = m + d])
  <1> DEFINE n == Len(q)
             t == [q EXCEPT ![1] = @ - d]
             g == [f EXCEPT ![0] = m + d]
  <1>1. n \in Nat /\ n >= 1 /\ Len(t) = n /\ t[1] = q[1] - d /\ \A k \in 2 .. n : t[k] = q[k]
    BY EmptySeq
  <1>2. f \in [0 .. n -> Int] /\ f[0] = m /\ f[n] = e /\ \A k \in 1 .. n : f[k] = f[k - 1] + q[k]
    BY DEF Path
  <1>3. g \in [0 .. n -> Int] /\ g[0] = m + d /\ \A k \in 1 .. n : g[k] = f[k]
    BY <1>1, <1>2
  <1>4. q \in [1 .. n -> Int]
    OBVIOUS
  <1> HIDE DEF n, t, g
  <1>5. ASSUME NEW k \in 1 .. n PROVE g[k] = g[k - 1] + t[k]
    <2>1. CASE k = 1
      <3>1. f[1] = m + q[1] /\ q[1] \in Int /\ g[1] = f[1]
        BY <1>1, <1>2, <1>3, <1>4
      <3>2. g[k - 1] = m + d
        BY <2>1, <1>3
      <3> QED
        BY <2>1, <3>1, <3>2, <1>1
    <2>2. CASE k # 1
      <3>1. k \in 2 .. n /\ k - 1 \in 1 .. n
        BY <2>2, <1>1
      <3> QED
        BY <3>1, <1>1, <1>2, <1>3
    <2> QED
      BY <2>1, <2>2
  <1>6. Path(t, m + d, e, g)
    BY <1>1, <1>2, <1>3, <1>5 DEF Path
  <1> QED
    BY <1>6 DEF t, g

\* Obligations that are none leave the queue as it is.
Obliged(q, w) == IF w = 0 THEN q ELSE Append(q, -w)

\* What an obligation may be at most.
IntentFits(r0, buy, sell, x) ==
    IF x < 0 THEN -x <= IntentBound(r0, buy, 1, sell > 0)
    ELSE x <= IntentBound(r0, sell, -1, buy > 0)

\* The types, as the steps need them.
LEMMA CarriesTypes ==
  ASSUME NEW r0, NEW buy, NEW sell, NEW r, NEW bid, NEW ask, NEW q, NEW m, NEW b,
         Carries(r0, buy, sell, r, bid, ask, q, m, b)
  PROVE  /\ r0 \in Int /\ -Half <= r0 /\ r0 <= Half /\ r \in Int /\ -Half <= r /\ r <= Half
         /\ m \in Int /\ b \in Int /\ buy \in Nat /\ sell \in Nat /\ bid \in Nat /\ ask \in Nat
         /\ q \in Seq(Int) /\ q \in Seq(Int \ {0}) /\ Len(q) \in Nat
         /\ BooksFit(buy, sell, b, bid, ask)
  <1>1. /\ r0 \in -Half .. Half /\ r \in -Half .. Half /\ m \in Int /\ b \in Int
        /\ buy \in Nat /\ sell \in Nat /\ bid \in Nat /\ ask \in Nat
        /\ q \in Seq(Int \ {0}) /\ BooksFit(buy, sell, b, bid, ask)
    BY DEF Carries
  <1>2. q \in Seq(Int) /\ Len(q) \in Nat
    BY <1>1
  <1> QED
    BY <1>1, <1>2, UnitFacts

\* A new end of the path, at which everything fits, and at which everything that
\* fitted before fits as well.
LEMMA FillExtends ==
  ASSUME NEW r0, NEW buy, NEW sell, NEW r, NEW bid, NEW ask, NEW q, NEW m, NEW b,
         Carries(r0, buy, sell, r, bid, ask, q, m, b),
         NEW e \in Int, NEW f, Path(q, m, e, f),
         \A k \in 0 .. Len(q) : LevelFits(r0, buy, sell, b, bid, ask, e, f[k]),
         NEW w \in Int, NEW bid1 \in Nat, NEW ask1 \in Nat, NEW b1 \in Int, NEW r1 \in -Half .. Half,
         r1 = r0 + b1 + Unit * (e - w),
         BooksFit(buy, sell, b1, bid1, ask1),
         LevelFits(r0, buy, sell, b1, bid1, ask1, e - w, e - w),
         \A x \in Int : LevelFits(r0, buy, sell, b, bid, ask, e, x)
           => LevelFits(r0, buy, sell, b1, bid1, ask1, e - w, x)
  PROVE  Carries(r0, buy, sell, r1, bid1, ask1, Obliged(q, w), m, b1)
  <1> DEFINE q1 == Obliged(q, w)
             Fits(x) == LevelFits(r0, buy, sell, b1, bid1, ask1, e - w, x)
  <1>1. /\ q \in Seq(Int) /\ q \in Seq(Int \ {0}) /\ Len(q) \in Nat /\ m \in Int
        /\ r0 \in -Half .. Half /\ buy \in Nat /\ sell \in Nat
    BY CarriesTypes DEF Carries
  <1>2. \A k \in 0 .. Len(q) : Fits(f[k])
    <2>1. \A k \in 0 .. Len(q) : f[k] \in Int
      BY DEF Path
    <2> QED
      BY <2>1
  <1>3. Fits(e - w)
    OBVIOUS
  <1> HIDE DEF Fits
  <1>4. /\ q1 \in Seq(Int \ {0})
        /\ \E g : Path(q1, m, e - w, g) /\ \A k \in 0 .. Len(q1) : Fits(g[k])
    <2>1. CASE w = 0
      <3>1. q1 = q /\ e - w = e
        BY <2>1 DEF Obliged
      <3> QED
        BY <3>1, <1>1, <1>2
    <2>2. CASE w # 0
      <3>1. PICK d \in Int : d = -w
        OBVIOUS
      <3>2. PICK g : Extends(q, m, e, f, d, g)
        BY <1>1, PathGrows
      <3>3. q1 = Append(q, d) /\ e + d = e - w /\ Len(q1) = Len(q) + 1 /\ q1 \in Seq(Int \ {0})
        BY <2>2, <3>1, <1>1 DEF Obliged
      <3> HIDE DEF q1
      <3>4. ASSUME NEW k \in 0 .. Len(q) + 1 PROVE Fits(g[k])
        <4>1. CASE k \in 0 .. Len(q)
          BY <4>1, <3>2, <1>2 DEF Extends
        <4>2. CASE k = Len(q) + 1
          BY <4>2, <3>2, <3>3, <1>3 DEF Extends
        <4> QED
          BY <4>1, <4>2, <1>1
      <3> QED
        BY <3>2, <3>3, <3>4 DEF Extends
    <2> QED
      BY <2>1, <2>2
  <1> HIDE DEF q1
  <1>5. e - w \in Int
    OBVIOUS
  <1> QED
    BY <1>1, <1>4, <1>5 DEF Carries, Fits, q1

\* The bid fills by part.
LEMMA PurchaseCarries ==
  ASSUME NEW r0, NEW buy, NEW sell, NEW r, NEW bid, NEW ask, NEW q, NEW m, NEW b,
         Carries(r0, buy, sell, r, bid, ask, q, m, b),
         NEW part \in Nat, 1 <= part, part <= bid
  PROVE  LET w == RoundHedgeOunces(r + part) IN
         /\ Carries(r0, buy, sell, r + part - Unit * w, bid - part, ask, Obliged(q, w), m, b + part)
         /\ w # 0 => IntentFits(r0, buy, sell, -w)
  <1>1. /\ r0 \in Int /\ -Half <= r0 /\ r0 <= Half /\ r \in Int /\ -Half <= r /\ r <= Half
        /\ m \in Int /\ b \in Int /\ buy \in Nat /\ sell \in Nat /\ bid \in Nat /\ ask \in Nat
        /\ Len(q) \in Nat /\ BooksFit(buy, sell, b, bid, ask)
    BY CarriesTypes
  <1>2. PICK e, f :
          /\ e \in Int
          /\ r = r0 + b + Unit * e /\ Path(q, m, e, f)
          /\ \A k \in 0 .. Len(q) : LevelFits(r0, buy, sell, b, bid, ask, e, f[k])
    BY DEF Carries
  <1>3. LevelFits(r0, buy, sell, b, bid, ask, e, e)
    <2>1. Len(q) \in 0 .. Len(q)
      BY <1>1
    <2> QED
      BY <2>1, <1>2 DEF Path
  <1>4. CanBuy(r0, buy, sell, b, bid, ask, e, part, r)
    BY <1>1, <1>2, <1>3 DEF CanBuy
  <1>5. PICK w : w = RoundHedgeOunces(r + part)
    OBVIOUS
  <1>6. AfterBuy(r0, buy, sell, b, bid, ask, e, part, r, w)
    BY <1>4, <1>5, BuyFits
  <1>7. w \in Nat /\ bid - part \in Nat /\ b + part \in Int
    BY <1>1, <1>6 DEF AfterBuy
  <1>8. PICK r1 : r1 = r + part - Unit * w
    OBVIOUS
  <1>9. r1 \in -Half .. Half
    <2>1. Unit * w \in Int
      BY <1>7, MulNext
    <2>2. r1 \in Int
      BY <2>1, <1>1, <1>8
    <2> QED
      BY <2>2, <1>6, <1>8, UnitFacts DEF AfterBuy
  <1>10. Carries(r0, buy, sell, r1, bid - part, ask, Obliged(q, w), m, b + part)
    <2>1. PICK b1 \in Int, bid1 \in Nat : b1 = b + part /\ bid1 = bid - part
      BY <1>7
    <2>2. /\ r1 = r0 + b1 + Unit * (e - w)
          /\ BooksFit(buy, sell, b1, bid1, ask)
          /\ LevelFits(r0, buy, sell, b1, bid1, ask, e - w, e - w)
          /\ \A x \in Int : LevelFits(r0, buy, sell, b, bid, ask, e, x)
               => LevelFits(r0, buy, sell, b1, bid1, ask, e - w, x)
      BY <2>1, <1>6, <1>8 DEF AfterBuy
    <2>3. w \in Int
      BY <1>7
    <2>4. Carries(r0, buy, sell, r1, bid1, ask, Obliged(q, w), m, b1)
      BY <2>2, <2>3, <1>1, <1>2, <1>9, FillExtends
    <2> QED
      BY <2>1, <2>4
  <1>11. w # 0 => IntentFits(r0, buy, sell, -w)
    BY <1>6, <1>7 DEF AfterBuy, IntentFits
  <1> QED
    BY <1>5, <1>8, <1>10, <1>11

\* The ask fills by part.
LEMMA SaleCarries ==
  ASSUME NEW r0, NEW buy, NEW sell, NEW r, NEW bid, NEW ask, NEW q, NEW m, NEW b,
         Carries(r0, buy, sell, r, bid, ask, q, m, b),
         NEW part \in Nat, 1 <= part, part <= ask
  PROVE  LET w == RoundHedgeOunces(r - part) IN
         /\ Carries(r0, buy, sell, r - part - Unit * w, bid, ask - part, Obliged(q, w), m, b - part)
         /\ w # 0 => IntentFits(r0, buy, sell, -w)
  <1>1. /\ r0 \in Int /\ -Half <= r0 /\ r0 <= Half /\ r \in Int /\ -Half <= r /\ r <= Half
        /\ m \in Int /\ b \in Int /\ buy \in Nat /\ sell \in Nat /\ bid \in Nat /\ ask \in Nat
        /\ Len(q) \in Nat /\ BooksFit(buy, sell, b, bid, ask)
    BY CarriesTypes
  <1>2. PICK e, f :
          /\ e \in Int
          /\ r = r0 + b + Unit * e /\ Path(q, m, e, f)
          /\ \A k \in 0 .. Len(q) : LevelFits(r0, buy, sell, b, bid, ask, e, f[k])
    BY DEF Carries
  <1>3. LevelFits(r0, buy, sell, b, bid, ask, e, e)
    <2>1. Len(q) \in 0 .. Len(q)
      BY <1>1
    <2> QED
      BY <2>1, <1>2 DEF Path
  <1>4. CanSell(r0, buy, sell, b, bid, ask, e, part, r)
    BY <1>1, <1>2, <1>3 DEF CanSell
  <1>5. PICK w : w = RoundHedgeOunces(r - part)
    OBVIOUS
  <1>6. AfterSale(r0, buy, sell, b, bid, ask, e, part, r, w)
    BY <1>4, <1>5, SellFits
  <1>7. w \in Int /\ -w \in Nat /\ ask - part \in Nat /\ b - part \in Int
    <2>1. r - part \in Int
      BY <1>1
    <2> QED
      BY <2>1, <1>1, <1>5, <1>6, RoundFacts DEF AfterSale
  <1>8. PICK r1 : r1 = r - part - Unit * w
    OBVIOUS
  <1>9. r1 \in -Half .. Half
    <2>1. Unit * w \in Int
      BY <1>7, MulNext
    <2>2. r1 \in Int
      BY <2>1, <1>1, <1>8
    <2> QED
      BY <2>2, <1>6, <1>8, UnitFacts DEF AfterSale
  <1>10. Carries(r0, buy, sell, r1, bid, ask - part, Obliged(q, w), m, b - part)
    <2>1. PICK b1 \in Int, ask1 \in Nat : b1 = b - part /\ ask1 = ask - part
      BY <1>7
    <2>2. /\ r1 = r0 + b1 + Unit * (e - w)
          /\ BooksFit(buy, sell, b1, bid, ask1)
          /\ LevelFits(r0, buy, sell, b1, bid, ask1, e - w, e - w)
          /\ \A x \in Int : LevelFits(r0, buy, sell, b, bid, ask, e, x)
               => LevelFits(r0, buy, sell, b1, bid, ask1, e - w, x)
      BY <2>1, <1>6, <1>8 DEF AfterSale
    <2>3. Carries(r0, buy, sell, r1, bid, ask1, Obliged(q, w), m, b1)
      BY <2>2, <1>1, <1>2, <1>7, <1>9, FillExtends
    <2> QED
      BY <2>1, <2>3
  <1>11. w # 0 => IntentFits(r0, buy, sell, -w)
    BY <1>6, <1>7 DEF AfterSale, IntentFits
  <1> QED
    BY <1>5, <1>8, <1>10, <1>11

\* What can no longer trade can only help.
LEMMA LevelKeeps ==
  ASSUME NEW r0 \in Int, NEW buy \in Nat, NEW sell \in Nat, NEW b \in Int,
         NEW bid \in Nat, NEW ask \in Nat, NEW bid1 \in Nat, NEW ask1 \in Nat, bid1 <= bid, ask1 <= ask,
         NEW e \in Int, NEW x \in Int, LevelFits(r0, buy, sell, b, bid, ask, e, x)
  PROVE  LevelFits(r0, buy, sell, b, bid1, ask1, e, x)
  <1> DEFINE p == Unit * x
             m == Largest(buy, sell)
  <1>1. p \in Int /\ m \in Nat
    BY MulNext DEF Largest
  <1>2. /\ x <= HedgeOunces(-r0, sell) /\ -x <= HedgeOunces(r0, buy)
        /\ buy > 0 /\ sell > 0 => r0 + b + bid + p <= Half + m /\ -(Half + m) <= r0 + b - ask + p
        /\ sell = 0 => e <= x /\ (x < 0 => Half <= r0 + b)
        /\ buy = 0 => x <= e /\ (x > 0 => r0 + b <= -Half)
    BY DEF LevelFits
  <1> HIDE DEF p, m
  <1>3. buy > 0 /\ sell > 0 => r0 + b + bid1 + p <= Half + m /\ -(Half + m) <= r0 + b - ask1 + p
    BY <1>1, <1>2, UnitFacts
  <1> QED
    BY <1>2, <1>3 DEF LevelFits, p, m

\* Quotes of which less is left than before.
LEMMA WithdrawalCarries ==
  ASSUME NEW r0, NEW buy, NEW sell, NEW r, NEW bid, NEW ask, NEW q, NEW m, NEW b,
         Carries(r0, buy, sell, r, bid, ask, q, m, b),
         NEW bid1 \in Nat, NEW ask1 \in Nat, bid1 <= bid, ask1 <= ask
  PROVE  Carries(r0, buy, sell, r, bid1, ask1, q, m, b)
  <1>1. /\ r0 \in Int /\ m \in Int /\ b \in Int /\ buy \in Nat /\ sell \in Nat /\ bid \in Nat /\ ask \in Nat
        /\ BooksFit(buy, sell, b, bid, ask)
    BY CarriesTypes
  <1>2. PICK e, f :
          /\ e \in Int
          /\ r = r0 + b + Unit * e /\ Path(q, m, e, f)
          /\ \A k \in 0 .. Len(q) : LevelFits(r0, buy, sell, b, bid, ask, e, f[k])
    BY DEF Carries
  <1>3. ASSUME NEW k \in 0 .. Len(q) PROVE LevelFits(r0, buy, sell, b, bid1, ask1, e, f[k])
    <2>1. f[k] \in Int
      BY <1>2 DEF Path
    <2> QED
      BY <2>1, <1>1, <1>2, LevelKeeps
  <1>4. BooksFit(buy, sell, b, bid1, ask1)
    BY <1>1 DEF BooksFit
  <1> QED
    BY <1>2, <1>3, <1>4 DEF Carries

\* The way of one ounce of the oldest obligation, and what remains of the queue.
OunceOf(q) == IF q[1] > 0 THEN 1 ELSE -1
WorkedOff(q) == IF q[1] = OunceOf(q) THEN Tail(q) ELSE [q EXCEPT ![1] = @ - OunceOf(q)]

\* The hedge account moves one ounce along its path.
LEMMA HedgeCarries ==
  ASSUME NEW r0, NEW buy, NEW sell, NEW r, NEW bid, NEW ask, NEW q, NEW m, NEW b,
         Carries(r0, buy, sell, r, bid, ask, q, m, b), q # <<>>
  PROVE  Carries(r0, buy, sell, r, bid, ask, WorkedOff(q), m + OunceOf(q), b)
  <1> DEFINE d == OunceOf(q)
             q1 == WorkedOff(q)
             Fits(e, x) == LevelFits(r0, buy, sell, b, bid, ask, e, x)
  <1>1. /\ r0 \in Int /\ m \in Int /\ b \in Int /\ buy \in Nat /\ sell \in Nat /\ bid \in Nat /\ ask \in Nat
        /\ q \in Seq(Int) /\ q \in Seq(Int \ {0}) /\ Len(q) \in Nat
    BY CarriesTypes
  <1>2. PICK e, f :
          /\ e \in Int
          /\ r = r0 + b + Unit * e /\ Path(q, m, e, f)
          /\ \A k \in 0 .. Len(q) : Fits(e, f[k])
    BY DEF Carries
  <1>3. PICK n : n = Len(q)
    OBVIOUS
  <1>4. /\ n \in Nat /\ n >= 1 /\ DOMAIN q = 1 .. n /\ q[1] \in Int \ {0}
        /\ q \in [1 .. n -> Int \ {0}]
    BY <1>1, <1>3, EmptySeq
  <1>5. f \in [0 .. n -> Int] /\ f[0] = m /\ f[1] = m + q[1]
    BY <1>2, <1>3, <1>4 DEF Path
  <1>6. d \in {1, -1} /\ d \in Int /\ (q[1] > 0 => d = 1) /\ (q[1] < 0 => d = -1)
    BY <1>4 DEF OunceOf
  <1>7. q1 = IF q[1] = d THEN Tail(q) ELSE [q EXCEPT ![1] = @ - d]
    BY DEF WorkedOff
  <1> HIDE DEF d, q1, Fits
  <1>8. Fits(e, m + d)
    <2>1. 0 \in 0 .. n /\ 1 \in 0 .. n
      BY <1>4
    <2>2. Fits(e, m) /\ Fits(e, f[1]) /\ f[1] \in Int /\ m + d \in Int /\ e \in Int
      BY <2>1, <1>1, <1>2, <1>3, <1>5, <1>6
    <2>3. CASE q[1] > 0
      <3>1. m <= m + d /\ m + d <= f[1]
        <4>1. q[1] \in Int /\ m \in Int
          BY <1>1, <1>4
        <4>2. d = 1
          BY <2>3, <1>6
        <4>3. f[1] = m + q[1]
          BY <1>5
        <4> QED
          BY <2>3, <4>1, <4>2, <4>3
      <3>2. m \in Int /\ r0 \in Int /\ b \in Int /\ buy \in Nat /\ sell \in Nat /\ bid \in Nat /\ ask \in Nat
        BY <1>1
      <3>3. LevelFits(r0, buy, sell, b, bid, ask, e, m) /\ LevelFits(r0, buy, sell, b, bid, ask, e, f[1])
        BY <2>2 DEF Fits
      <3>4. LevelFits(r0, buy, sell, b, bid, ask, e, m + d)
        BY <3>1, <3>2, <3>3, <2>2, LevelBetween
      <3> QED
        BY <3>4 DEF Fits
    <2>4. CASE q[1] < 0
      <3>1. f[1] <= m + d /\ m + d <= m
        <4>1. q[1] \in Int /\ m \in Int
          BY <1>1, <1>4
        <4>2. d = -1
          BY <2>4, <1>6
        <4>3. f[1] = m + q[1]
          BY <1>5
        <4> QED
          BY <2>4, <4>1, <4>2, <4>3
      <3>2. m \in Int /\ r0 \in Int /\ b \in Int /\ buy \in Nat /\ sell \in Nat /\ bid \in Nat /\ ask \in Nat
        BY <1>1
      <3>3. LevelFits(r0, buy, sell, b, bid, ask, e, m) /\ LevelFits(r0, buy, sell, b, bid, ask, e, f[1])
        BY <2>2 DEF Fits
      <3>4. LevelFits(r0, buy, sell, b, bid, ask, e, m + d)
        BY <3>1, <3>2, <3>3, <2>2, LevelBetween
      <3> QED
        BY <3>4 DEF Fits
    <2> QED
      BY <2>3, <2>4, <1>4
  <1>9. /\ q1 \in Seq(Int \ {0})
        /\ \E g : Path(q1, m + d, e, g) /\ \A k \in 0 .. Len(q1) : Fits(e, g[k])
    <2>1. CASE q[1] = d
      <3> DEFINE g == [k \in 0 .. n - 1 |-> f[k + 1]]
      <3>1. q1 = Tail(q)
        BY <2>1, <1>7
      <3>2. Path(q1, m + d, e, g) /\ Len(q1) = n - 1
        BY <3>1, <2>1, <1>1, <1>2, <1>3, PathPasses
      <3>3. ASSUME NEW k \in 0 .. n - 1 PROVE Fits(e, g[k])
        <4>1. k + 1 \in 0 .. n /\ g[k] = f[k + 1]
          BY <1>4
        <4> QED
          BY <4>1, <1>2, <1>3
      <3>4. q1 \in Seq(Int \ {0})
        BY <3>1, <1>1
      <3> HIDE DEF g
      <3> QED
        BY <3>2, <3>3, <3>4
    <2>2. CASE q[1] # d
      <3> DEFINE g == [f EXCEPT ![0] = m + d]
                 t == [q EXCEPT ![1] = @ - d]
      <3>1. q1 = t
        BY <2>2, <1>7
      <3>2. Path(t, m + d, e, g)
        BY <1>1, <1>2, <1>6, PathMoves
      <3>3. q[1] - d \in Int \ {0}
        BY <2>2, <1>4, <1>6
      <3>4. t \in Seq(Int \ {0}) /\ Len(t) = n
        BY <3>3, <1>1, <1>3, <1>4
      <3>5. g[0] = m + d /\ \A k \in 1 .. n : g[k] = f[k]
        BY <1>4, <1>5
      <3> HIDE DEF g, t
      <3>6. ASSUME NEW k \in 0 .. n PROVE Fits(e, g[k])
        <4>1. CASE k = 0
          BY <4>1, <3>5, <1>8
        <4>2. CASE k # 0
          <5>1. k \in 1 .. n
            BY <4>2
          <5> QED
            BY <5>1, <3>5, <1>2, <1>3
        <4> QED
          BY <4>1, <4>2
      <3> QED
        BY <3>1, <3>2, <3>4, <3>6
    <2> QED
      BY <2>1, <2>2
  <1>10. m + d \in Int /\ e \in Int
    BY <1>1, <1>2, <1>6
  <1> QED
    BY <1>2, <1>9, <1>10 DEF Carries, Fits, d, q1

\* Quotes as they are admitted, nothing being owed.
LEMMA StartCarries ==
  ASSUME NEW r0 \in -Half .. Half, NEW buy \in Nat, NEW sell \in Nat
  PROVE  Carries(r0, buy, sell, r0, buy, sell, <<>>, 0, 0)
  <1> DEFINE f == [k \in 0 .. 0 |-> 0]
             m == Largest(buy, sell)
             gb == HedgeOunces(-r0, sell)
             gs == HedgeOunces(r0, buy)
  <1>1. PICK r1 \in Int : r1 = -r0
    BY UnitFacts
  <1>2. gb \in Nat /\ gs \in Nat /\ r0 \in Int
    BY <1>1, OuncesFacts, UnitFacts
  <1>3. m \in Nat /\ buy <= m /\ sell <= m
    BY DEF Largest
  <1>4. Unit * 0 = 0
    BY UnitFacts
  <1>5. Path(<<>>, 0, 0, f)
    BY DEF Path
  <1>6. LevelFits(r0, buy, sell, 0, buy, sell, 0, 0)
    <2>1. 0 <= gb /\ -0 <= gs
      BY <1>2
    <2> HIDE DEF m, gb, gs
    <2>2. r0 + 0 + buy + 0 <= Half + m /\ -(Half + m) <= r0 + 0 - sell + 0
      BY <1>3, UnitFacts
    <2> QED
      BY <2>1, <2>2, <1>4 DEF LevelFits, m, gb, gs
  <1>7. BooksFit(buy, sell, 0, buy, sell)
    BY DEF BooksFit
  <1>8. r0 = r0 + 0 + Unit * 0
    BY <1>2, <1>4
  <1>9. \A k \in 0 .. Len(<<>>) : f[k] = 0
    OBVIOUS
  <1> HIDE DEF f
  <1>10. \A k \in 0 .. Len(<<>>) : LevelFits(r0, buy, sell, 0, buy, sell, 0, f[k])
    BY <1>6, <1>9
  <1>11. <<>> \in Seq(Int \ {0})
    OBVIOUS
  <1> QED
    BY <1>5, <1>7, <1>8, <1>10, <1>11 DEF Carries

\* What one level says of the exposure while the hedge account is there, i units
\* having traded that are not in the books yet.
LEMMA LevelExposure ==
  ASSUME NEW r0 \in Int, -Half <= r0, r0 <= Half, NEW buy \in Nat, NEW sell \in Nat, NEW b \in Int,
         NEW bid \in Nat, NEW ask \in Nat, NEW e \in Int, NEW x \in Int, NEW r \in Int, NEW i \in Int, -ask <= i, i <= bid,
         BooksFit(buy, sell, b, bid, ask), r = r0 + b + Unit * e, -Half <= r, r <= Half,
         LevelFits(r0, buy, sell, b, bid, ask, e, x), LevelFits(r0, buy, sell, b, bid, ask, e, e)
  PROVE  Size(r0 + b + i + Unit * x) <= CarryExposure(r0, buy, sell)
  <1> DEFINE p == Unit * x
             q == Unit * e
             m == Largest(buy, sell)
             one == Largest(Size(r0), Size(r0 + buy - sell))
             u == r0 + b + i + p
  <1>1. /\ p \in Int /\ q \in Int /\ m \in Nat /\ r = r0 + b + q
        /\ e <= x => q <= p
        /\ x <= e => p <= q
        /\ x <= 0 => p <= 0
        /\ x >= 0 => p >= 0
        /\ x = 0 => p = 0
    <2>1. Unit * 0 = 0
      BY UnitFacts
    <2> QED
      BY <2>1, MulMonotone DEF Largest
  <1>2. /\ bid <= buy /\ ask <= sell /\ b <= buy - bid /\ -b <= sell - ask
    BY DEF BooksFit
  <1>3. /\ sell = 0 => x <= 0 /\ e <= 0
        /\ buy = 0 => x >= 0 /\ e >= 0
    <2>1. PICK r1 \in Int : r1 = -r0
      OBVIOUS
    <2>2. sell = 0 => HedgeOunces(r1, sell) = 0
      BY OuncesFacts
    <2>3. buy = 0 => HedgeOunces(r0, buy) = 0
      BY OuncesFacts
    <2>4. x <= HedgeOunces(r1, sell) /\ e <= HedgeOunces(r1, sell)
          /\ -x <= HedgeOunces(r0, buy) /\ -e <= HedgeOunces(r0, buy)
      BY <2>1 DEF LevelFits
    <2> QED
      BY <2>2, <2>3, <2>4
  <1>4. /\ buy > 0 /\ sell > 0 => r0 + b + bid + p <= Half + m /\ -(Half + m) <= r0 + b - ask + p
        /\ sell = 0 => e <= x /\ (e < 0 => Half <= r0 + b)
        /\ buy = 0 => x <= e /\ (e > 0 => r0 + b <= -Half)
    BY DEF LevelFits
  <1>5. CarryExposure(r0, buy, sell) = IF buy > 0 /\ sell > 0 THEN Half + m ELSE one
    BY DEF CarryExposure, Half
  <1>6. one \in Int /\ r0 <= one /\ -r0 <= one /\ r0 + buy - sell <= one /\ -(r0 + buy - sell) <= one
    <2>1. PICK c \in Int : c = r0 + buy - sell
      OBVIOUS
    <2>2. one = Largest(Size(r0), Size(c))
      BY <2>1
    <2>3. Size(r0) \in Int /\ Size(c) \in Int /\ r0 <= Size(r0) /\ -r0 <= Size(r0) /\ c <= Size(c) /\ -c <= Size(c)
      BY DEF Size
    <2> HIDE DEF one
    <2> QED
      BY <2>1, <2>2, <2>3 DEF Largest
  <1> HIDE DEF p, q, m, one
  <1>7. CASE buy > 0 /\ sell > 0
    <2>1. u <= Half + m /\ -u <= Half + m
      BY <1>1, <1>4, <1>7, UnitFacts
    <2>2. u \in Int /\ Half + m \in Int
      BY <1>1, UnitFacts
    <2>3. Size(u) <= Half + m
      <3> HIDE DEF u
      <3> QED
        BY <2>1, <2>2 DEF Size
    <2> QED
      BY <2>3, <1>5, <1>7 DEF p
  <1>8. CASE sell = 0
    <2>1. b >= 0 /\ b + i <= buy /\ i >= 0
      BY <1>2, <1>8
    <2>2. u <= one
      BY <2>1, <1>1, <1>3, <1>6, <1>8
    <2>3. -u <= one
      <3>1. CASE e = 0
        BY <3>1, <2>1, <1>1, <1>3, <1>4, <1>6, <1>8
      <3>2. CASE e < 0
        BY <3>2, <2>1, <1>1, <1>3, <1>4, <1>6, <1>8, UnitFacts
      <3> QED
        BY <3>1, <3>2, <1>3, <1>8
    <2> QED
      BY <2>2, <2>3, <1>1, <1>5, <1>6, <1>8 DEF Size, p
  <1>9. CASE buy = 0
    <2>1. b <= 0 /\ -(b + i) <= sell /\ i <= 0
      BY <1>2, <1>9
    <2>2. -u <= one
      BY <2>1, <1>1, <1>3, <1>6, <1>9
    <2>3. u <= one
      <3>1. CASE e = 0
        BY <3>1, <2>1, <1>1, <1>3, <1>4, <1>6, <1>9
      <3>2. CASE e > 0
        BY <3>2, <2>1, <1>1, <1>3, <1>4, <1>6, <1>9, UnitFacts
      <3> QED
        BY <3>1, <3>2, <1>3, <1>9
    <2> QED
      BY <2>2, <2>3, <1>1, <1>5, <1>6, <1>9 DEF Size, p
  <1> QED
    BY <1>7, <1>8, <1>9

\* What follows for the positions, i units having traded that are not in the books yet.
LEMMA CarriesBounds ==
  ASSUME NEW r0, NEW buy, NEW sell, NEW r, NEW bid, NEW ask, NEW q, NEW m, NEW b,
         Carries(r0, buy, sell, r, bid, ask, q, m, b), NEW i \in Int, -ask <= i, i <= bid
  PROVE  /\ Size(r0 + b + i + Unit * m) <= CarryExposure(r0, buy, sell)
         /\ m <= HedgeOunces(-r0, sell) /\ -m <= HedgeOunces(r0, buy)
  <1>1. /\ r0 \in Int /\ -Half <= r0 /\ r0 <= Half /\ r \in Int /\ -Half <= r /\ r <= Half
        /\ m \in Int /\ b \in Int /\ buy \in Nat /\ sell \in Nat /\ bid \in Nat /\ ask \in Nat
        /\ Len(q) \in Nat /\ BooksFit(buy, sell, b, bid, ask)
    BY CarriesTypes
  <1>2. PICK e, f :
          /\ e \in Int
          /\ r = r0 + b + Unit * e /\ Path(q, m, e, f)
          /\ \A k \in 0 .. Len(q) : LevelFits(r0, buy, sell, b, bid, ask, e, f[k])
    BY DEF Carries
  <1>3. LevelFits(r0, buy, sell, b, bid, ask, e, m) /\ LevelFits(r0, buy, sell, b, bid, ask, e, e)
    <2>1. 0 \in 0 .. Len(q) /\ Len(q) \in 0 .. Len(q)
      BY <1>1
    <2> QED
      BY <2>1, <1>2 DEF Path
  <1>4. Size(r0 + b + i + Unit * m) <= CarryExposure(r0, buy, sell)
    BY <1>1, <1>2, <1>3, LevelExposure
  <1>5. m <= HedgeOunces(-r0, sell) /\ -m <= HedgeOunces(r0, buy)
    BY <1>3 DEF LevelFits
  <1> QED
    BY <1>4, <1>5

\* Nothing is owed: the residual is what both venues differ by.
LEMMA LevelWhenDone ==
  ASSUME NEW r0, NEW buy, NEW sell, NEW r, NEW bid, NEW ask, NEW m, NEW b,
         Carries(r0, buy, sell, r, bid, ask, <<>>, m, b)
  PROVE  r = r0 + b + Unit * m
  <1>1. PICK e, f : e \in Int /\ r = r0 + b + Unit * e /\ Path(<<>>, m, e, f)
    BY DEF Carries
  <1>2. e = m
    BY <1>1 DEF Path
  <1> QED
    BY <1>1, <1>2

\* The bounds of an obligation are whole numbers.
LEMMA BoundsAreWhole ==
  ASSUME NEW r \in Int, NEW t \in Nat, NEW u \in Nat
  PROVE  IntentBound(r, t, 1, u > 0) \in Int /\ IntentBound(r, t, -1, u > 0) \in Int
  <1>1. ASSUME NEW i \in Int PROVE Largest(0, RoundHedgeOunces(i + t)) \in Int
    <2>1. RoundHedgeOunces(i + t) \in Int
      BY RoundFacts
    <2> QED
      BY <2>1 DEF Largest
  <1>2. IntentBound(r, t, 1, u > 0) = IF u > 0 THEN Largest(0, RoundHedgeOunces(Half + t))
                                      ELSE Largest(0, RoundHedgeOunces(1 * r + t))
    BY DEF IntentBound, Half
  <1>3. IntentBound(r, t, -1, u > 0) = IF u > 0 THEN Largest(0, RoundHedgeOunces(Half + t))
                                       ELSE Largest(0, RoundHedgeOunces((-1) * r + t))
    BY DEF IntentBound, Half
  <1>4. 1 * r \in Int /\ (-1) * r \in Int /\ Half \in Int
    BY UnitFacts
  <1> QED
    BY <1>1, <1>2, <1>3, <1>4

-----------------------------------------------------------------------------
(* The lane: each of its steps is one of the steps above.                  *)

\* IntentWithinBound, obligation by obligation.
LEMMA IntentsFit ==
  IntentWithinBound <=> \A k \in DOMAIN queue : IntentFits(start.residual, start.buy, start.sell, queue[k])
  BY DEF IntentWithinBound, IntentFits

\* The types, as the lane's steps need them.
LEMMA LaneTypes ==
  ASSUME CarryInv
  PROVE  /\ leaves \in [Sides -> 0 .. MaxLeaves] /\ leaves[1] \in Nat /\ leaves[-1] \in Nat
         /\ residual \in Int /\ queue \in Seq(Int \ {0}) /\ moved \in Int /\ bought \in Int
         /\ start.residual \in Int /\ start.buy \in Nat /\ start.sell \in Nat
  <1>1. leaves \in [Sides -> 0 .. MaxLeaves]
    BY DEF CarryInv, CarryTypeOK
  <1>2. Carries(start.residual, start.buy, start.sell, residual, leaves[1], leaves[-1], queue, moved, bought)
    BY DEF CarryInv
  <1> QED
    BY <1>1, <1>2, CarriesTypes

\* A fill of either quote.
LEMMA FillStep ==
  ASSUME CarryInv, NEW side \in Sides, NEW part \in 1 .. MaxLeaves, Fill(side, part)
  PROVE  CarryInv'
  <1> DEFINE n == residual + side * part
             w == RoundHedgeOunces(n)
             r1 == n - Unit * w
             b1 == bought + side * part
             l1 == [leaves EXCEPT ![side] = @ - part]
             q1 == Obliged(queue, w)
             r0 == start.residual
             buy == start.buy
             sell == start.sell
  <1>1. /\ part \in Nat /\ 1 <= part /\ part <= leaves[side]
        /\ residual' = r1 /\ queue' = q1 /\ leaves' = l1 /\ bought' = b1
        /\ start' = start /\ moved' = moved
    BY UnitFacts DEF Fill, Obliged
  <1>2. /\ leaves \in [Sides -> 0 .. MaxLeaves] /\ leaves[1] \in Nat /\ leaves[-1] \in Nat
        /\ residual \in Int /\ queue \in Seq(Int \ {0}) /\ moved \in Int /\ bought \in Int
    BY LaneTypes
  <1>3. /\ Carries(r0, buy, sell, residual, leaves[1], leaves[-1], queue, moved, bought)
        /\ \A k \in DOMAIN queue : IntentFits(r0, buy, sell, queue[k])
        /\ start \in [residual : -Half .. Half, buy : 0 .. MaxLeaves, sell : 0 .. MaxLeaves]
    BY IntentsFit DEF CarryInv
  <1> HIDE DEF r0, buy, sell
  <1>4. 1 \in Sides /\ -1 \in Sides /\ 1 # -1 /\ \A x \in Sides : leaves[x] \in 0 .. MaxLeaves
    BY <1>2 DEF Sides
  <1>5. leaves[side] - part \in 0 .. MaxLeaves
    BY <1>1, <1>4, UnitFacts
  <1>6. /\ l1 \in [Sides -> 0 .. MaxLeaves]
        /\ Carries(r0, buy, sell, r1, l1[1], l1[-1], q1, moved, b1)
        /\ w # 0 => IntentFits(r0, buy, sell, -w)
    <2>1. CASE side = 1
      <3>1. n = residual + part /\ b1 = bought + part
        BY <2>1, <1>1, <1>2
      <3>2. l1[1] = leaves[1] - part /\ l1[-1] = leaves[-1]
        BY <2>1, <1>2, <1>4
      <3>3. l1 \in [Sides -> 0 .. MaxLeaves]
        BY <1>2, <1>5
      <3>4. PICK v : v = RoundHedgeOunces(residual + part)
        OBVIOUS
      <3>5. /\ Carries(r0, buy, sell, residual + part - Unit * v, leaves[1] - part, leaves[-1],
                       Obliged(queue, v), moved, bought + part)
            /\ v # 0 => IntentFits(r0, buy, sell, -v)
        BY <2>1, <3>4, <1>1, <1>3, PurchaseCarries
      <3>6. w = v
        BY <3>1, <3>4
      <3>7. r1 = residual + part - Unit * v /\ q1 = Obliged(queue, v)
        <4> HIDE DEF w, n
        <4>1. n - Unit * w = n - Unit * v /\ q1 = Obliged(queue, v)
          BY <3>6
        <4>2. PICK c : c = Unit * v
          OBVIOUS
        <4>3. r1 = n - c
          BY <4>1, <4>2
        <4> QED
          BY <4>1, <4>2, <4>3, <3>1, <1>1, <1>2
      <3> HIDE DEF w, n, r1, b1, l1, q1
      <3> QED
        BY <3>1, <3>2, <3>3, <3>5, <3>6, <3>7
    <2>2. CASE side = -1
      <3>1. n = residual - part /\ b1 = bought - part
        BY <2>2, <1>1, <1>2
      <3>2. l1[1] = leaves[1] /\ l1[-1] = leaves[-1] - part
        BY <2>2, <1>2, <1>4
      <3>3. l1 \in [Sides -> 0 .. MaxLeaves]
        BY <1>2, <1>5
      <3>4. PICK v : v = RoundHedgeOunces(residual - part)
        OBVIOUS
      <3>5. /\ Carries(r0, buy, sell, residual - part - Unit * v, leaves[1], leaves[-1] - part,
                       Obliged(queue, v), moved, bought - part)
            /\ v # 0 => IntentFits(r0, buy, sell, -v)
        BY <2>2, <3>4, <1>1, <1>3, SaleCarries
      <3>6. w = v
        BY <3>1, <3>4
      <3>7. r1 = residual - part - Unit * v /\ q1 = Obliged(queue, v)
        <4> HIDE DEF w, n
        <4>1. n - Unit * w = n - Unit * v /\ q1 = Obliged(queue, v)
          BY <3>6
        <4>2. PICK c : c = Unit * v
          OBVIOUS
        <4>3. r1 = n - c
          BY <4>1, <4>2
        <4> QED
          BY <4>1, <4>2, <4>3, <3>1, <1>1, <1>2
      <3> HIDE DEF w, n, r1, b1, l1, q1
      <3> QED
        BY <3>1, <3>2, <3>3, <3>5, <3>6, <3>7
    <2> QED
      BY <2>1, <2>2 DEF Sides
  <1>7. w \in Int
    <2>1. n \in Int
      BY <1>1, <1>2 DEF Sides
    <2> QED
      BY <2>1, RoundFacts
  <1> HIDE DEF r1, b1, l1, n, w
  <1>8. \A k \in DOMAIN q1 : IntentFits(r0, buy, sell, q1[k])
    <2>1. CASE w = 0
      BY <2>1, <1>3 DEF Obliged
    <2>2. CASE w # 0
      <3>1. PICK d \in Int : d = -w
        BY <1>7
      <3>2. q1 = Append(queue, d) /\ Len(queue) \in Nat
        BY <2>2, <3>1, <1>2 DEF Obliged
      <3>3. /\ DOMAIN queue = 1 .. Len(queue) /\ DOMAIN Append(queue, d) = 1 .. Len(queue) + 1
            /\ \A k \in 1 .. Len(queue) : Append(queue, d)[k] = queue[k]
            /\ Append(queue, d)[Len(queue) + 1] = d
        BY <1>2
      <3>4. ASSUME NEW k \in 1 .. Len(queue) + 1 PROVE IntentFits(r0, buy, sell, Append(queue, d)[k])
        <4>1. CASE k \in 1 .. Len(queue)
          BY <4>1, <3>3, <1>3
        <4>2. CASE k = Len(queue) + 1
          BY <4>2, <3>1, <3>3, <1>6, <2>2
        <4> QED
          BY <4>1, <4>2, <3>2
      <3> QED
        BY <3>2, <3>3, <3>4
    <2> QED
      BY <2>1, <2>2
  <1> HIDE DEF q1
  <1>9. (\A k \in DOMAIN queue : IntentFits(start.residual, start.buy, start.sell, queue[k]))'
    BY <1>1, <1>8 DEF r0, buy, sell
  <1>10. IntentWithinBound'
    BY <1>9, IntentsFit, PTL
  <1>11. CarryTypeOK'
    <2>1. r1 \in -Half .. Half /\ b1 \in Int /\ moved \in Int /\ q1 \in Seq(Int \ {0})
      BY <1>6 DEF Carries
    <2> QED
      BY <2>1, <1>1, <1>6 DEF CarryTypeOK
  <1> QED
    BY <1>1, <1>3, <1>6, <1>10, <1>11 DEF CarryInv, r0, buy, sell

\* A quote that is canceled.
LEMMA CancelStep ==
  ASSUME CarryInv, NEW side \in Sides, Cancel(side)
  PROVE  CarryInv'
  <1> DEFINE l1 == [leaves EXCEPT ![side] = 0]
  <1>1. /\ leaves' = l1 /\ residual' = residual /\ queue' = queue /\ bought' = bought
        /\ start' = start /\ moved' = moved
    BY DEF Cancel
  <1>2. leaves \in [Sides -> 0 .. MaxLeaves] /\ leaves[1] \in Nat /\ leaves[-1] \in Nat
    BY LaneTypes
  <1>3. /\ l1 \in [Sides -> 0 .. MaxLeaves] /\ l1[1] \in Nat /\ l1[-1] \in Nat
        /\ l1[1] <= leaves[1] /\ l1[-1] <= leaves[-1]
    BY <1>2, UnitFacts DEF Sides
  <1> HIDE DEF l1
  <1>4. Carries(start.residual, start.buy, start.sell, residual, leaves[1], leaves[-1], queue, moved, bought)
    BY DEF CarryInv
  <1>5. PICK bid1 \in Nat, ask1 \in Nat : bid1 = l1[1] /\ ask1 = l1[-1]
    BY <1>3
  <1>6. Carries(start.residual, start.buy, start.sell, residual, bid1, ask1, queue, moved, bought)
    BY <1>3, <1>4, <1>5, WithdrawalCarries
  <1>7. CarryTypeOK' /\ IntentWithinBound'
    BY <1>1, <1>3 DEF CarryInv, CarryTypeOK, IntentWithinBound
  <1> QED
    BY <1>1, <1>5, <1>6, <1>7 DEF CarryInv

\* What is left of an obligation fits where all of it did.
LEMMA LessFits ==
  ASSUME NEW r0 \in Int, NEW buy \in Nat, NEW sell \in Nat, NEW x \in Int, NEW y \in Int,
         IntentFits(r0, buy, sell, x),
         (x < 0 /\ x <= y /\ y < 0) \/ (x > 0 /\ 0 < y /\ y <= x)
  PROVE  IntentFits(r0, buy, sell, y)
  <1>1. PICK i \in Int, j \in Int :
          i = IntentBound(r0, buy, 1, sell > 0) /\ j = IntentBound(r0, sell, -1, buy > 0)
    BY BoundsAreWhole
  <1>2. \A z \in Int : IntentFits(r0, buy, sell, z) <=> IF z < 0 THEN -z <= i ELSE z <= j
    BY <1>1 DEF IntentFits
  <1> QED
    BY <1>2

\* One ounce of the oldest obligation.
LEMMA WorkOffStep ==
  ASSUME CarryInv, WorkOff
  PROVE  CarryInv'
  <1> DEFINE d == OunceOf(queue)
             q1 == WorkedOff(queue)
             Fits(x) == IntentFits(start.residual, start.buy, start.sell, x)
  <1>1. /\ queue # <<>> /\ moved' = moved + d /\ queue' = q1
        /\ start' = start /\ residual' = residual /\ leaves' = leaves /\ bought' = bought
    BY DEF WorkOff, OunceOf, WorkedOff
  <1>2. /\ queue \in Seq(Int \ {0}) /\ moved \in Int
        /\ start.residual \in Int /\ start.buy \in Nat /\ start.sell \in Nat
    BY LaneTypes
  <1>3. Carries(start.residual, start.buy, start.sell, residual, leaves[1], leaves[-1], queue, moved, bought)
    BY DEF CarryInv
  <1>4. Carries(start.residual, start.buy, start.sell, residual, leaves[1], leaves[-1], q1, moved + d, bought)
    BY <1>1, <1>3, HedgeCarries
  <1>5. \A k \in DOMAIN queue : Fits(queue[k])
    BY IntentsFit DEF CarryInv
  <1>6. PICK n : n = Len(queue)
    OBVIOUS
  <1>7. /\ n \in Nat /\ n >= 1 /\ DOMAIN queue = 1 .. n /\ queue[1] \in Int \ {0}
        /\ queue \in [1 .. n -> Int \ {0}]
    BY <1>1, <1>2, <1>6, EmptySeq
  <1>8. d \in {1, -1} /\ (queue[1] > 0 => d = 1) /\ (queue[1] < 0 => d = -1)
    BY <1>7 DEF OunceOf
  <1>9. q1 = IF queue[1] = d THEN Tail(queue) ELSE [queue EXCEPT ![1] = @ - d]
    BY DEF WorkedOff
  <1> HIDE DEF d, q1
  <1>10. \A k \in DOMAIN q1 : Fits(q1[k])
    <2>1. CASE queue[1] = d
      <3>1. /\ q1 = Tail(queue) /\ DOMAIN Tail(queue) = 1 .. n - 1
            /\ \A k \in 1 .. n - 1 : Tail(queue)[k] = queue[k + 1]
        BY <2>1, <1>1, <1>2, <1>6, <1>7, <1>9
      <3>2. \A k \in 1 .. n - 1 : k + 1 \in 1 .. n
        BY <1>7
      <3> HIDE DEF Fits
      <3> QED
        BY <3>1, <3>2, <1>5, <1>7
    <2>2. CASE queue[1] # d
      <3> DEFINE t == [queue EXCEPT ![1] = @ - d]
      <3>1. Fits(queue[1])
        BY <1>5, <1>7
      <3>2. Fits(queue[1] - d)
        <4>1. queue[1] \in Int /\ queue[1] - d \in Int
          BY <1>7, <1>8
        <4>2. \/ queue[1] < 0 /\ queue[1] <= queue[1] - d /\ queue[1] - d < 0
              \/ queue[1] > 0 /\ 0 < queue[1] - d /\ queue[1] - d <= queue[1]
          BY <2>2, <1>7, <1>8
        <4>3. PICK y \in Int : y = queue[1] - d
          BY <4>1
        <4>4. Fits(y)
          BY <4>1, <4>2, <4>3, <3>1, <1>2, LessFits
        <4> QED
          BY <4>3, <4>4
      <3>3. DOMAIN t = 1 .. n /\ t[1] = queue[1] - d /\ \A k \in 2 .. n : t[k] = queue[k]
        BY <1>7
      <3>4. q1 = t
        BY <2>2, <1>9
      <3> HIDE DEF t, Fits
      <3>5. ASSUME NEW k \in 1 .. n PROVE Fits(t[k])
        <4>1. CASE k = 1
          BY <4>1, <3>2, <3>3
        <4>2. CASE k # 1
          <5>1. k \in 2 .. n
            BY <4>2
          <5> QED
            BY <5>1, <3>3, <1>5, <1>7
        <4> QED
          BY <4>1, <4>2
      <3> QED
        BY <3>3, <3>4, <3>5
    <2> QED
      BY <2>1, <2>2
  <1>11. (\A k \in DOMAIN queue : IntentFits(start.residual, start.buy, start.sell, queue[k]))'
    BY <1>1, <1>10
  <1>12. IntentWithinBound'
    BY <1>11, IntentsFit, PTL
  <1>13. CarryTypeOK'
    <2>1. moved + d \in Int /\ q1 \in Seq(Int \ {0})
      BY <1>4 DEF Carries
    <2> QED
      BY <2>1, <1>1 DEF CarryInv, CarryTypeOK
  <1> QED
    BY <1>1, <1>4, <1>12, <1>13 DEF CarryInv

\* The quotes as they are admitted.
LEMMA Begins ==
  ASSUME CarryInit
  PROVE  CarryInv
  <1>1. /\ residual \in -Half .. Half /\ leaves \in [Sides -> 0 .. MaxLeaves]
        /\ start = [residual |-> residual, buy |-> leaves[1], sell |-> leaves[-1]]
        /\ queue = <<>> /\ moved = 0 /\ bought = 0
    BY DEF CarryInit
  <1>2. leaves[1] \in 0 .. MaxLeaves /\ leaves[-1] \in 0 .. MaxLeaves
    BY <1>1 DEF Sides
  <1>3. start.residual = residual /\ start.buy = leaves[1] /\ start.sell = leaves[-1]
    BY <1>1
  <1>4. queue \in Seq(Int \ {0}) /\ DOMAIN queue = {}
    BY <1>1
  <1>5. PICK buy \in Nat, sell \in Nat : buy = leaves[1] /\ sell = leaves[-1]
    BY <1>2, UnitFacts
  <1>6. Carries(residual, buy, sell, residual, buy, sell, <<>>, 0, 0)
    BY <1>1, StartCarries
  <1>7. Carries(start.residual, start.buy, start.sell, residual, leaves[1], leaves[-1], queue, moved, bought)
    BY <1>1, <1>3, <1>5, <1>6
  <1>8. start \in [residual : -Half .. Half, buy : 0 .. MaxLeaves, sell : 0 .. MaxLeaves]
    BY <1>1, <1>2
  <1>9. CarryTypeOK /\ IntentWithinBound
    BY <1>1, <1>4 DEF CarryTypeOK, IntentWithinBound
  <1> QED
    BY <1>7, <1>8, <1>9 DEF CarryInv

\* Every step keeps the invariant.
LEMMA Steps ==
  ASSUME CarryInv, [CarryNext]_carryVars
  PROVE  CarryInv'
  <1>1. CASE WorkOff
    BY <1>1, WorkOffStep
  <1>2. ASSUME NEW side \in Sides, Cancel(side) PROVE CarryInv'
    BY <1>2, CancelStep
  <1>3. ASSUME NEW side \in Sides, NEW part \in 1 .. MaxLeaves, Fill(side, part) PROVE CarryInv'
    BY <1>3, FillStep
  <1>4. CASE UNCHANGED carryVars
    BY <1>4 DEF carryVars, CarryInv, CarryTypeOK, IntentWithinBound
  <1> QED
    BY <1>1, <1>2, <1>3, <1>4 DEF CarryNext

\* What the invariant says of the three bounds.
LEMMA InvariantAdmits ==
  ASSUME CarryInv
  PROVE  AdmissionHolds
  <1>1. /\ leaves[1] \in Nat /\ leaves[-1] \in Nat /\ moved \in Int /\ bought \in Int /\ start.residual \in Int
    BY LaneTypes
  <1>2. Carries(start.residual, start.buy, start.sell, residual, leaves[1], leaves[-1], queue, moved, bought)
    BY DEF CarryInv
  <1>3. PICK i \in Int : i = 0
    OBVIOUS
  <1>4. -leaves[-1] <= i /\ i <= leaves[1]
    BY <1>1, <1>3
  <1>5. /\ Size(start.residual + bought + i + Unit * moved) <= CarryExposure(start.residual, start.buy, start.sell)
        /\ moved <= HedgeOunces(-start.residual, start.sell) /\ -moved <= HedgeOunces(start.residual, start.buy)
    BY <1>2, <1>4, CarriesBounds
  <1>6. start.residual + bought + i + Unit * moved = Uncovered
    BY <1>1, <1>3, UnitFacts DEF Uncovered
  <1>7. ExposureWithinBound
    BY <1>5, <1>6 DEF ExposureWithinBound
  <1>8. HedgesWithinBound
    BY <1>5 DEF HedgesWithinBound, HedgeBuys, HedgeSells
  <1> QED
    BY <1>7, <1>8 DEF AdmissionHolds, CarryInv

(* Every variable has its type, and the levels through which the queue     *)
(* leads the hedge account fit the quotes (MakerStateStore._allocate).     *)
THEOREM CarryInvariant == CarrySpec => []CarryInv
  <1>1. CarryInit => CarryInv
    BY Begins
  <1>2. CarryInv /\ [CarryNext]_carryVars => CarryInv'
    BY Steps
  <1> QED
    BY <1>1, <1>2, PTL DEF CarrySpec

(* However the quotes trade and however late the hedges are, the exposure, *)
(* the reach of the hedge account and every obligation stay within what    *)
(* maker_carry_bounds, maker_hedge_bounds_allow and                        *)
(* maker_hedge_quantity_bound computed when the quotes were admitted.      *)
THEOREM QuotesStayAdmitted == CarrySpec => []AdmissionHolds
  <1>1. CarrySpec => []CarryInv
    BY CarryInvariant
  <1>2. CarryInv => AdmissionHolds
    BY InvariantAdmits
  <1> QED
    BY <1>1, <1>2, PTL

=============================================================================
