-------------------------- MODULE HedgePlan_proofs --------------------------
(***************************************************************************)
(* What HedgePlan computes, for every unit, obligation and account, and    *)
(* the lemmas on sequences and sums that the proofs about its users need.  *)
(*                                                                         *)
(* A fold takes the members in an order of its own choice.  A sum is       *)
(* therefore given as a function on the sets of members (IsSum), which     *)
(* exists, agrees with the fold, and may be renamed, turned, and added up  *)
(* by rows.  A plan is a fold as well, over the opposing tickets; the      *)
(* plans of all sets of tickets are one function (PlansFor).  What holds   *)
(* of a set if it holds of it without some member holds of every finite    *)
(* set (SetsInduct).                                                       *)
(***************************************************************************)
EXTENDS HedgePlan, FiniteSetTheorems, SequenceTheorems, TLAPS

-----------------------------------------------------------------------------
(* Sequences, of whatever elements. *)

IsSeq(q) == q \in Seq({q[n] : n \in DOMAIN q})

\* A function on 1 .. n is a sequence.
LEMMA FiniteSequence ==
  ASSUME NEW S, NEW n \in Nat, NEW q \in [1 .. n -> S]
  PROVE  q \in Seq(S)
  <1>1. q \in UNION {[1 .. m -> S] : m \in Nat}
    OBVIOUS
  <1> QED
    BY <1>1, SeqDef

\* A function written on 1 .. n is a sequence, of length n.
LEMMA SeqIntro ==
  ASSUME NEW q, NEW n \in Nat, q = [k \in 1 .. n |-> q[k]]
  PROVE  IsSeq(q) /\ Len(q) = n /\ DOMAIN q = 1 .. n
  <1> DEFINE V == {q[k] : k \in DOMAIN q}
  <1>1. q \in [1 .. n -> V]
    OBVIOUS
  <1>2. q \in Seq(V)
    BY <1>1, FiniteSequence
  <1> HIDE DEF V
  <1>3. Len(q) = n /\ DOMAIN q = 1 .. n
    BY <1>1, <1>2
  <1> QED
    BY <1>2, <1>3 DEF IsSeq, V

\* A sequence is a function on 1 .. its length.
LEMMA SeqFacts ==
  ASSUME NEW q, IsSeq(q)
  PROVE  Len(q) \in Nat /\ DOMAIN q = 1 .. Len(q) /\ q = [k \in 1 .. Len(q) |-> q[k]]
  <1> DEFINE V == {q[k] : k \in DOMAIN q}
  <1>1. q \in Seq(V)
    BY DEF IsSeq
  <1> HIDE DEF V
  <1> QED
    BY <1>1

\* One more element goes behind the others.
LEMMA Appended ==
  ASSUME NEW q, IsSeq(q), NEW e
  PROVE  /\ IsSeq(Append(q, e)) /\ DOMAIN Append(q, e) = 1 .. Len(q) + 1
         /\ \A n \in DOMAIN q : Append(q, e)[n] = q[n]
         /\ Append(q, e)[Len(q) + 1] = e
  <1> DEFINE V == {q[k] : k \in DOMAIN q}
             W == V \union {e}
             r == Append(q, e)
  <1>1. q \in Seq(V)
    BY DEF IsSeq
  <1>2. q \in Seq(W)
    <2>1. Len(q) \in Nat /\ DOMAIN q = 1 .. Len(q) /\ q \in [1 .. Len(q) -> W]
      BY <1>1
    <2> QED
      BY <2>1, FiniteSequence
  <1>3. e \in W
    OBVIOUS
  <1> HIDE DEF W, V
  <1>4. /\ Len(q) \in Nat /\ DOMAIN q = 1 .. Len(q)
        /\ r \in Seq(W) /\ Len(r) = Len(q) + 1 /\ DOMAIN r = 1 .. Len(q) + 1
        /\ \A n \in DOMAIN q : r[n] = q[n]
        /\ r[Len(q) + 1] = e
    BY <1>2, <1>3
  <1> HIDE DEF r, V
  <1>5. r = [k \in 1 .. Len(q) + 1 |-> r[k]]
    <2>1. r \in [1 .. Len(r) -> W]
      BY <1>4, LenProperties
    <2> QED
      BY <1>4, <2>1
  <1>6. IsSeq(r)
    <2>1. Len(q) + 1 \in Nat
      BY <1>4
    <2>2. PICK n : n = Len(q) + 1
      OBVIOUS
    <2>3. n \in Nat /\ r = [k \in 1 .. n |-> r[k]]
      BY <1>5, <2>1, <2>2
    <2> QED
      BY <2>3, SeqIntro
  <1> USE DEF r
  <1> QED
    BY <1>4, <1>6

\* One element replaced: still a sequence, of the same length.
LEMMA SeqExcept ==
  ASSUME NEW q, IsSeq(q), NEW i \in DOMAIN q, NEW e, NEW r, r = [q EXCEPT ![i] = e]
  PROVE  /\ IsSeq(r) /\ Len(r) = Len(q) /\ DOMAIN r = DOMAIN q
         /\ \A n \in DOMAIN q : n # i => r[n] = q[n]
         /\ r[i] = e
  <1>1. Len(q) \in Nat /\ DOMAIN q = 1 .. Len(q)
    BY SeqFacts
  <1>2. DOMAIN r = 1 .. Len(q) /\ r = [k \in 1 .. Len(q) |-> r[k]]
    BY <1>1
  <1>4. Len(r) = Len(q) /\ IsSeq(r)
    BY <1>1, <1>2, SeqIntro
  <1> QED
    BY <1>1, <1>2, <1>4

-----------------------------------------------------------------------------
(* Sums, of whatever function. *)

\* Every nonempty set of naturals has a least member.
LEMMA LeastMember ==
  ASSUME NEW S \in SUBSET Nat, S # {}
  PROVE  \E i \in S : \A j \in S : i <= j
  <1> DEFINE R == OpToRel(<, Nat)
  <1>1. PICK i \in S : \A j \in S : ~(<<j, i>> \in R)
    BY NatLessThanWellFounded, WFMin
  <1>2. \A j \in S : j < i => <<j, i>> \in R
    BY DEF OpToRel
  <1> HIDE DEF R
  <1>3. ASSUME NEW j \in S PROVE i <= j
    <2>1. ~(j < i)
      BY <1>1, <1>2
    <2>2. i \in Nat /\ j \in Nat
      OBVIOUS
    <2> QED
      BY <2>1, <2>2
  <1> QED
    BY <1>3

\* w gives every set of members what v adds up to on it.
IsSum(w, v) ==
    /\ w \in [SUBSET DOMAIN v -> Int]
    /\ w[{}] = 0
    /\ \A S \in SUBSET DOMAIN v : \A x \in S : w[S] = w[S \ {x}] + v[x]

IsSummed(v) == IsFiniteSet(DOMAIN v) /\ \A x \in DOMAIN v : v[x] \in Int
Some(S) == CHOOSE x \in S : TRUE

\* What holds of the empty set, and of each set if of it without some member,
\* holds of every set: P is the set of those it holds of.
LEMMA SetsInduct ==
  ASSUME NEW Z, IsFiniteSet(Z), NEW P, {} \in P,
         \A S \in SUBSET Z : S # {} => \E x \in S : S \ {x} \in P => S \in P
  PROVE  \A S \in SUBSET Z : S \in P
  <1> DEFINE Bad == (SUBSET Z) \ P
             N == {Cardinality(S) : S \in Bad}
  <1> SUFFICES ASSUME Bad # {} PROVE FALSE
    OBVIOUS
  <1>1. \A S \in SUBSET Z : IsFiniteSet(S) /\ Cardinality(S) \in Nat
    BY FS_Subset, FS_CardinalityType
  <1>2. N \in SUBSET Nat /\ N # {}
    BY <1>1
  <1>3. PICK n \in N : \A k \in N : n <= k
    <2> HIDE DEF N
    <2> QED
      BY <1>2, LeastMember
  <1>4. PICK S \in Bad : Cardinality(S) = n
    BY <1>3
  <1>5. PICK x \in S : S \ {x} \in P => S \in P
    OBVIOUS
  <1> DEFINE T == S \ {x}
  <1>6. Cardinality(T) = Cardinality(S) - 1 /\ T \in SUBSET Z
    BY <1>1, FS_RemoveElement
  <1>7. T \in Bad
    BY <1>5, <1>6
  <1>8. n <= Cardinality(T)
    <2> HIDE DEF T, Bad
    <2>1. Cardinality(T) \in N
      BY <1>7
    <2> HIDE DEF N
    <2> QED
      BY <1>3, <2>1
  <1>9. Cardinality(S) \in Nat
    BY <1>1
  <1> HIDE DEF T, Bad
  <1> QED
    BY <1>4, <1>6, <1>8, <1>9

\* Two ways of adding up agree when they agree on one member more.
LEMMA SumsAgree ==
  ASSUME NEW Z, IsFiniteSet(Z), NEW f, NEW w, f[{}] = w[{}],
         \A S \in SUBSET Z : S # {} /\ f[S \ {Some(S)}] = w[S \ {Some(S)}] => f[S] = w[S]
  PROVE  \A S \in SUBSET Z : f[S] = w[S]
  <1> DEFINE P == {S \in SUBSET Z : f[S] = w[S]}
  <1>1. {} \in P
    OBVIOUS
  <1>2. ASSUME NEW S \in SUBSET Z, S # {}
        PROVE  \E x \in S : S \ {x} \in P => S \in P
    <2>1. Some(S) \in S
      BY <1>2 DEF Some
    <2>2. S \ {Some(S)} \in P => S \in P
      BY <1>2
    <2> HIDE DEF P
    <2> QED
      BY <2>1, <2>2
  <1>3. \A S \in SUBSET Z : S \in P
    <2> HIDE DEF P
    <2> QED
      BY <1>1, <1>2, SetsInduct
  <1> QED
    BY <1>3

\* A sum is what the fold of the community modules iterates.
LEMMA SumIterates ==
  ASSUME NEW v, NEW w, IsSum(w, v), IsSummed(v)
  PROVE  w = [S \in SUBSET DOMAIN v |-> IF S = {} THEN 0 ELSE v[Some(S)] + w[S \ {Some(S)}]]
  <1>s. \A x \in DOMAIN v : v[x] \in Int
    BY DEF IsSummed
  <1>1. ASSUME NEW S \in SUBSET DOMAIN v
        PROVE  w[S] = IF S = {} THEN 0 ELSE v[Some(S)] + w[S \ {Some(S)}]
    <2>1. CASE S = {}
      BY <2>1 DEF IsSum
    <2>2. CASE S # {}
      <3>1. Some(S) \in S
        BY <2>2 DEF Some
      <3>2. /\ w[S] = w[S \ {Some(S)}] + v[Some(S)] /\ w[S \ {Some(S)}] \in Int
            /\ w[S] \in Int
        BY <3>1 DEF IsSum
      <3>3. w[S] = v[Some(S)] + w[S \ {Some(S)}]
        BY <1>s, <3>1, <3>2
      <3> QED
        BY <2>2, <3>3
    <2> QED
      BY <2>1, <2>2
  <1> QED
    BY <1>1 DEF IsSum

\* What adds up adds up to SumFunction.
LEMMA SumIs ==
  ASSUME NEW v, IsSummed(v), NEW w, IsSum(w, v)
  PROVE  SumFunction(v) = w[DOMAIN v]
  <1> DEFINE Rule(m) == m = [S \in SUBSET DOMAIN v |->
                                IF S = {} THEN 0 ELSE v[Some(S)] + m[S \ {Some(S)}]]
             f == CHOOSE m : Rule(m)
  <1>1. SumFunction(v) = f[DOMAIN v]
    BY DEF SumFunction, SumFunctionOnSet, FoldFunctionOnSet, MapThenFoldSet, Some
  <1>2. Rule(w)
    BY SumIterates
  <1>3. Rule(f)
    <2> HIDE DEF Rule
    <2> QED
      BY <1>2
  <1> HIDE DEF f
  <1>4. \A S \in SUBSET DOMAIN v :
           S # {} /\ f[S \ {Some(S)}] = w[S \ {Some(S)}] => f[S] = w[S]
    BY <1>2, <1>3
  <1>5. f[{}] = w[{}]
    BY <1>2, <1>3
  <1>6. \A S \in SUBSET DOMAIN v : f[S] = w[S]
    BY <1>4, <1>5, SumsAgree DEF IsSummed
  <1> QED
    BY <1>1, <1>6

\* m takes x, of which u knows, into the sums of w.
Takes(m, w, u, x) ==
    m = [S \in SUBSET DOMAIN u |-> IF x \in S THEN w[S \ {x}] + u[x] ELSE w[S]]

\* One member more: every set has the sum it had, with or without the new one.
LEMMA SumGrows ==
  ASSUME NEW v, NEW u, NEW x, x \notin DOMAIN v, DOMAIN u = DOMAIN v \union {x},
         \A y \in DOMAIN v : u[y] = v[y], \A y \in DOMAIN u : u[y] \in Int,
         NEW w, IsSum(w, v), NEW m, Takes(m, w, u, x)
  PROVE  IsSum(m, u)
  <1>1. \A S \in SUBSET DOMAIN u : S \ {x} \in SUBSET DOMAIN v /\ w[S \ {x}] \in Int
    BY DEF IsSum
  <1>m. m = [S \in SUBSET DOMAIN u |-> IF x \in S THEN w[S \ {x}] + u[x] ELSE w[S]]
    BY DEF Takes
  <1>2. m \in [SUBSET DOMAIN u -> Int]
    <2>1. ASSUME NEW S \in SUBSET DOMAIN u
          PROVE  (IF x \in S THEN w[S \ {x}] + u[x] ELSE w[S]) \in Int
      <3>1. CASE x \in S
        <4>1. w[S \ {x}] \in Int /\ u[x] \in Int
          BY <1>1
        <4> QED
          BY <3>1, <4>1
      <3>2. CASE x \notin S
        BY <1>1, <3>2
      <3> QED
        BY <3>1, <3>2
    <2> QED
      BY <1>m, <2>1
  <1>3. m[{}] = 0
    BY <1>m DEF IsSum
  <1>4. ASSUME NEW S \in SUBSET DOMAIN u, NEW y \in S
        PROVE  m[S] = m[S \ {y}] + u[y]
    <2>1. S \ {y} \in SUBSET DOMAIN u
      OBVIOUS
    <2>2. CASE x \notin S
      <3>1. S \in SUBSET DOMAIN v /\ y \in DOMAIN v
        BY <2>2
      <3>2. w[S] = w[S \ {y}] + v[y]
        BY <3>1 DEF IsSum
      <3>3. m[S] = w[S] /\ m[S \ {y}] = w[S \ {y}]
        BY <1>m, <2>1, <2>2
      <3> QED
        BY <3>1, <3>2, <3>3
    <2>3. CASE x \in S /\ y = x
      <3>1. m[S] = w[S \ {x}] + u[x] /\ m[S \ {x}] = w[S \ {x}]
        BY <1>m, <2>1, <2>3
      <3> QED
        BY <2>3, <3>1
    <2>4. CASE x \in S /\ y # x
      <3> DEFINE R == S \ {x}
      <3>1. R \in SUBSET DOMAIN v /\ y \in R /\ y \in DOMAIN v
        BY <2>4
      <3>2. w[R] = w[R \ {y}] + v[y] /\ w[R] \in Int /\ w[R \ {y}] \in Int
        BY <3>1 DEF IsSum
      <3>3. R \ {y} = (S \ {y}) \ {x}
        OBVIOUS
      <3>4. m[S] = w[R] + u[x]
        BY <1>m, <2>4
      <3>5. m[S \ {y}] = w[R \ {y}] + u[x]
        BY <1>m, <2>1, <2>4, <3>3
      <3>6. u[x] \in Int /\ u[y] \in Int /\ u[y] = v[y]
        BY <3>1
      <3> HIDE DEF R
      <3> QED
        BY <3>2, <3>4, <3>5, <3>6
    <2> QED
      BY <2>2, <2>3, <2>4
  <1> QED
    BY <1>2, <1>3, <1>4 DEF IsSum

\* A finite number of integers adds up.
LEMMA SumExists ==
  ASSUME NEW v, IsSummed(v)
  PROVE  \E w : IsSum(w, v)
  <1> DEFINE Z == DOMAIN v
             Part(S) == [x \in S |-> v[x]]
             P == {S \in SUBSET Z : \E w : IsSum(w, Part(S))}
  <1>1. {} \in P
    <2> DEFINE w == [T \in {{}} |-> 0]
    <2>1. DOMAIN Part({}) = {} /\ SUBSET DOMAIN Part({}) = {{}}
      OBVIOUS
    <2>2. IsSum(w, Part({}))
      BY <2>1 DEF IsSum
    <2> QED
      BY <2>2
  <1>2. ASSUME NEW S \in SUBSET Z, NEW x \in S, S \ {x} \in P
        PROVE  S \in P
    <2> DEFINE T == S \ {x}
    <2>1. PICK w : IsSum(w, Part(T))
      BY <1>2
    <2>2. \A y \in S : v[y] \in Int
      BY DEF IsSummed
    <2>3. PICK a : a = Part(T)
      OBVIOUS
    <2>4. PICK b : b = Part(S)
      OBVIOUS
    <2>5. /\ x \notin DOMAIN a /\ DOMAIN b = DOMAIN a \union {x}
          /\ \A y \in DOMAIN a : b[y] = a[y]
          /\ \A y \in DOMAIN b : b[y] \in Int
          /\ IsSum(w, a)
      BY <2>1, <2>2, <2>3, <2>4
    <2>6. PICK m : Takes(m, w, b, x)
      BY DEF Takes
    <2>7. IsSum(m, b)
      BY <2>5, <2>6, SumGrows
    <2> QED
      BY <2>4, <2>7
  <1>3. IsFiniteSet(Z)
    BY DEF IsSummed
  <1>4. Z \in P
    <2> HIDE DEF P, Z
    <2>1. \A S \in SUBSET Z : S # {} => \E x \in S : S \ {x} \in P => S \in P
      BY <1>2
    <2>2. \A S \in SUBSET Z : S \in P
      BY <1>1, <1>3, <2>1, SetsInduct
    <2> QED
      BY <2>2
  <1>5. \E w : IsSum(w, Part(Z))
    BY <1>4
  <1>6. PICK a : a = Part(Z)
    OBVIOUS
  <1>7. ASSUME NEW w, IsSum(w, a) PROVE IsSum(w, v)
    <2>1. DOMAIN a = DOMAIN v /\ \A x \in DOMAIN v : a[x] = v[x]
      BY <1>6
    <2> HIDE DEF Part, P, Z
    <2> QED
      BY <1>7, <2>1 DEF IsSum
  <1> QED
    BY <1>5, <1>6, <1>7

\* What is added up once, and with one member more.
LEMMA SumAdds ==
  ASSUME NEW v, NEW u, NEW x, IsFiniteSet(DOMAIN v), x \notin DOMAIN v,
         DOMAIN u = DOMAIN v \union {x}, \A y \in DOMAIN v : u[y] = v[y],
         \A y \in DOMAIN u : u[y] \in Int
  PROVE  SumFunction(v) \in Int /\ SumFunction(u) = SumFunction(v) + u[x]
  <1>1. IsSummed(v) /\ IsSummed(u)
    BY FS_AddElement DEF IsSummed
  <1>2. PICK w : IsSum(w, v)
    BY <1>1, SumExists
  <1>3. PICK m : Takes(m, w, u, x)
    BY DEF Takes
  <1>4. IsSum(m, u)
    BY <1>2, <1>3, SumGrows
  <1>5. SumFunction(v) = w[DOMAIN v] /\ SumFunction(u) = m[DOMAIN u]
    BY <1>1, <1>2, <1>4, SumIs
  <1>6. m[DOMAIN u] = w[DOMAIN u \ {x}] + u[x] /\ DOMAIN u \ {x} = DOMAIN v
    BY <1>3 DEF Takes
  <1>7. w[DOMAIN v] \in Int
    BY <1>2 DEF IsSum
  <1> QED
    BY <1>5, <1>6, <1>7

\* Nothing adds up to nothing.
LEMMA SumOfNothing ==
  ASSUME NEW v, DOMAIN v = {}
  PROVE  SumFunction(v) = 0
  <1>1. IsSummed(v)
    BY FS_EmptySet DEF IsSummed
  <1>2. PICK w : IsSum(w, v)
    BY <1>1, SumExists
  <1>3. SumFunction(v) = w[{}] /\ w[{}] = 0
    BY <1>1, <1>2, SumIs DEF IsSum
  <1> QED
    BY <1>3

\* Integers add up to an integer.
LEMMA SumIsInt ==
  ASSUME NEW v, IsSummed(v)
  PROVE  SumFunction(v) \in Int
  <1>2. PICK w : IsSum(w, v)
    BY SumExists
  <1>3. SumFunction(v) = w[DOMAIN v] /\ w[DOMAIN v] \in Int
    BY <1>2, SumIs DEF IsSum
  <1> QED
    BY <1>3

\* Other names for the same members.
LEMMA SumRenames ==
  ASSUME NEW v, IsSummed(v), NEW u, IsSummed(u), NEW f,
         \A x \in DOMAIN u : f[x] \in DOMAIN v /\ u[x] = v[f[x]],
         \A x, y \in DOMAIN u : f[x] = f[y] => x = y,
         \A z \in DOMAIN v : \E x \in DOMAIN u : f[x] = z
  PROVE  SumFunction(u) = SumFunction(v)
  <1> DEFINE Image(S) == {f[x] : x \in S}
  <1>1. PICK w : IsSum(w, v)
    BY SumExists
  <1>2. PICK n : n = [S \in SUBSET DOMAIN u |-> w[Image(S)]]
    OBVIOUS
  <1>3. ASSUME NEW S \in SUBSET DOMAIN u
        PROVE  Image(S) \in SUBSET DOMAIN v /\ n[S] = w[Image(S)] /\ n[S] \in Int
    <2>1. Image(S) \in SUBSET DOMAIN v
      OBVIOUS
    <2>2. n[S] = w[Image(S)]
      BY <1>2
    <2> HIDE DEF Image
    <2>3. w[Image(S)] \in Int
      BY <1>1, <2>1 DEF IsSum
    <2> QED
      BY <2>1, <2>2, <2>3
  <1>4. IsSum(n, u)
    <2>1. n \in [SUBSET DOMAIN u -> Int]
      <3> HIDE DEF Image
      <3> QED
        BY <1>2, <1>3
    <2>2. n[{}] = 0
      <3>1. Image({}) = {}
        OBVIOUS
      <3>2. n[{}] = w[Image({})]
        BY <1>3
      <3> QED
        BY <1>1, <3>1, <3>2 DEF IsSum
    <2>3. ASSUME NEW S \in SUBSET DOMAIN u, NEW x \in S PROVE n[S] = n[S \ {x}] + u[x]
      <3>1. f[x] \in Image(S) /\ Image(S \ {x}) = Image(S) \ {f[x]}
        OBVIOUS
      <3>2. S \ {x} \in SUBSET DOMAIN u /\ u[x] = v[f[x]]
        OBVIOUS
      <3>3. Image(S) \in SUBSET DOMAIN v /\ n[S] = w[Image(S)] /\ n[S \ {x}] = w[Image(S \ {x})]
        BY <1>3, <3>2
      <3> HIDE DEF Image
      <3>4. w[Image(S)] = w[Image(S) \ {f[x]}] + v[f[x]]
        BY <1>1, <3>1, <3>3 DEF IsSum
      <3> QED
        BY <3>1, <3>2, <3>3, <3>4
    <2> QED
      BY <2>1, <2>2, <2>3 DEF IsSum
  <1>5. Image(DOMAIN u) = DOMAIN v
    OBVIOUS
  <1>6. SumFunction(u) = n[DOMAIN u] /\ SumFunction(v) = w[DOMAIN v]
    BY <1>1, <1>4, SumIs
  <1>7. n[DOMAIN u] = w[Image(DOMAIN u)]
    BY <1>3
  <1> QED
    BY <1>5, <1>6, <1>7

\* Every member on the other side.
LEMMA SumTurns ==
  ASSUME NEW v, IsSummed(v), NEW a \in {1, -1}, NEW u, DOMAIN u = DOMAIN v,
         \A x \in DOMAIN v : u[x] = a * v[x]
  PROVE  IsSummed(u) /\ SumFunction(u) = a * SumFunction(v)
  <1>1. PICK w : IsSum(w, v)
    BY SumExists
  <1>2. PICK n : n = [S \in SUBSET DOMAIN v |-> a * w[S]]
    OBVIOUS
  <1>3. \A x \in DOMAIN v : v[x] \in Int /\ u[x] \in Int
    BY DEF IsSummed
  <1>4. IsSummed(u)
    BY <1>3 DEF IsSummed
  <1>5. \A S \in SUBSET DOMAIN v : w[S] \in Int /\ n[S] = a * w[S] /\ n[S] \in Int
    BY <1>1, <1>2 DEF IsSum
  <1>6. IsSum(n, u)
    <2>1. n \in [SUBSET DOMAIN u -> Int]
      BY <1>2, <1>5
    <2>2. n[{}] = 0
      BY <1>1, <1>5 DEF IsSum
    <2>3. ASSUME NEW S \in SUBSET DOMAIN v, NEW x \in S PROVE n[S] = n[S \ {x}] + u[x]
      <3>1. w[S] = w[S \ {x}] + v[x]
        BY <1>1 DEF IsSum
      <3>2. S \ {x} \in SUBSET DOMAIN v /\ x \in DOMAIN v
        OBVIOUS
      <3>3. n[S] = a * w[S] /\ n[S \ {x}] = a * w[S \ {x}] /\ u[x] = a * v[x]
        BY <1>5, <3>2
      <3>4. w[S \ {x}] \in Int /\ v[x] \in Int
        BY <1>3, <1>5, <3>2
      <3> QED
        BY <3>1, <3>3, <3>4
    <2> QED
      BY <2>1, <2>2, <2>3 DEF IsSum
  <1>7. SumFunction(u) = n[DOMAIN u] /\ SumFunction(v) = w[DOMAIN v]
    BY <1>1, <1>4, <1>6, SumIs
  <1> QED
    BY <1>4, <1>5, <1>7

\* u is the part of v on B.
PartOf(u, v, B) == DOMAIN u = B /\ \A x \in B : u[x] = v[x]

\* What some of the members add up to can be taken apart.
LEMMA SumSplits ==
  ASSUME NEW v, IsSummed(v), NEW w, IsSum(w, v), NEW A \in SUBSET DOMAIN v, NEW B \in SUBSET A,
         NEW u, PartOf(u, v, B)
  PROVE  w[A] = w[A \ B] + SumFunction(u)
  <1>p. DOMAIN u = B /\ \A x \in B : u[x] = v[x]
    BY DEF PartOf
  <1> DEFINE R == A \ B
  <1>1. PICK n : n = [S \in SUBSET B |-> w[R \union S] - w[R]]
    OBVIOUS
  <1>2. R \in SUBSET DOMAIN v /\ w[R] \in Int
    BY DEF IsSum
  <1>3. ASSUME NEW S \in SUBSET B
        PROVE  R \union S \in SUBSET DOMAIN v /\ w[R \union S] \in Int
               /\ n[S] = w[R \union S] - w[R]
    <2>1. R \union S \in SUBSET DOMAIN v
      OBVIOUS
    <2> HIDE DEF R
    <2> QED
      BY <1>1, <2>1 DEF IsSum
  <1>4. DOMAIN u = B /\ IsSummed(u)
    <2>1. IsFiniteSet(B)
      BY FS_Subset DEF IsSummed
    <2> QED
      BY <1>p, <2>1 DEF IsSummed
  <1>5. IsSum(n, u)
    <2>1. n \in [SUBSET DOMAIN u -> Int]
      <3>1. \A S \in SUBSET B : w[R \union S] - w[R] \in Int
        <4>1. \A a, b \in Int : a - b \in Int
          OBVIOUS
        <4> HIDE DEF R
        <4> QED
          BY <1>2, <1>3, <4>1
      <3> HIDE DEF R
      <3> QED
        BY <1>1, <1>4, <3>1
    <2>2. n[{}] = 0
      <3>1. R \union {} = R /\ {} \in SUBSET B
        OBVIOUS
      <3> HIDE DEF R
      <3>2. n[{}] = w[R] - w[R]
        BY <1>3, <3>1
      <3> QED
        BY <1>2, <3>2
    <2>3. ASSUME NEW S \in SUBSET B, NEW x \in S PROVE n[S] = n[S \ {x}] + u[x]
      <3>1. x \in R \union S /\ (R \union S) \ {x} = R \union (S \ {x}) /\ S \ {x} \in SUBSET B
        OBVIOUS
      <3>2. u[x] = v[x] /\ v[x] \in Int
        BY <1>p DEF IsSummed
      <3> HIDE DEF R
      <3>3. /\ R \union S \in SUBSET DOMAIN v
            /\ n[S] = w[R \union S] - w[R] /\ n[S \ {x}] = w[R \union (S \ {x})] - w[R]
            /\ w[R \union (S \ {x})] \in Int
        BY <1>3, <3>1
      <3>4. w[R \union S] = w[R \union (S \ {x})] + v[x]
        BY <3>1, <3>3 DEF IsSum
      <3> QED
        BY <1>2, <3>2, <3>3, <3>4
    <2> QED
      BY <1>4, <2>1, <2>2, <2>3 DEF IsSum
  <1>6. SumFunction(u) = n[B]
    BY <1>4, <1>5, SumIs
  <1>7. R \union B = A
    OBVIOUS
  <1>8. n[B] = w[A] - w[R] /\ w[A] \in Int
    BY <1>3, <1>7
  <1> QED
    BY <1>2, <1>6, <1>8

\* A is B and R.
Splits(A, B, R, v) == A \in SUBSET DOMAIN v /\ B \in SUBSET A /\ R = A \ B

\* One row of a table and the rest of it.
LEMMA SumTakesRow ==
  ASSUME NEW v, IsSummed(v), NEW w, IsSum(w, v), NEW A, NEW B, NEW R, Splits(A, B, R, v),
         NEW r, PartOf(r, v, B)
  PROVE  w[A] = w[R] + SumFunction(r)
  <1>1. w[A] = w[A \ B] + SumFunction(r)
    BY SumSplits DEF Splits
  <1> QED
    BY <1>1 DEF Splits

\* The members of v are pairs; u has what the rows of it add up to.
IsTotal(u, v, row) ==
    /\ \A p \in DOMAIN v : p[1] \in DOMAIN u
    /\ \A z \in DOMAIN u : /\ PartOf(row[z], v, {p \in DOMAIN v : p[1] = z})
                           /\ u[z] = SumFunction(row[z])

\* A table adds up as its rows do.
LEMMA SumOfRows ==
  ASSUME NEW v, IsSummed(v), NEW u, IsSummed(u), NEW row, IsTotal(u, v, row)
  PROVE  SumFunction(u) = SumFunction(v)
  <1> DEFINE Of(S) == {p \in DOMAIN v : p[1] \in S}
             Row(z) == {q \in DOMAIN v : q[1] = z}
  <1>1. PICK w : IsSum(w, v)
    BY SumExists
  <1>2. PICK n : n = [S \in SUBSET DOMAIN u |-> w[Of(S)]]
    OBVIOUS
  <1>3. \A S : Of(S) \in SUBSET DOMAIN v
    OBVIOUS
  <1>4. \A S \in SUBSET DOMAIN u : n[S] = w[Of(S)] /\ w[Of(S)] \in Int
    <2> HIDE DEF Of
    <2> QED
      BY <1>1, <1>2, <1>3 DEF IsSum
  <1>5. IsSum(n, u)
    <2>1. n \in [SUBSET DOMAIN u -> Int]
      <3> HIDE DEF Of
      <3> QED
        BY <1>2, <1>4
    <2>2. n[{}] = 0
      <3>1. Of({}) = {}
        OBVIOUS
      <3>2. n[{}] = w[Of({})]
        BY <1>4
      <3> QED
        BY <1>1, <3>1, <3>2 DEF IsSum
    <2>3. ASSUME NEW S \in SUBSET DOMAIN u, NEW z \in S PROVE n[S] = n[S \ {z}] + u[z]
      <3>1. Row(z) \in SUBSET Of(S) /\ Of(S) \ Row(z) = Of(S \ {z})
        OBVIOUS
      <3>2. PICK A, B : A = Of(S) /\ B = Row(z)
        OBVIOUS
      <3>3. PICK r : r = row[z]
        OBVIOUS
      <3>4. PartOf(r, v, B)
        BY <3>2, <3>3 DEF IsTotal
      <3>r. PICK R : R = A \ B
        OBVIOUS
      <3>t. u[z] = SumFunction(r)
        BY <3>3 DEF IsTotal
      <3>5. Splits(A, B, R, v)
        BY <1>3, <3>1, <3>2, <3>r DEF Splits
      <3>6. w[A] = w[R] + SumFunction(r)
        <4> HIDE DEF Of, Row
        <4> QED
          BY <1>1, <3>4, <3>5, SumTakesRow
      <3>7. n[S] = w[Of(S)] /\ n[S \ {z}] = w[Of(S \ {z})]
        BY <1>4
      <3> HIDE DEF Of, Row
      <3> QED
        BY <3>1, <3>2, <3>r, <3>t, <3>6, <3>7
    <2> QED
      BY <2>1, <2>2, <2>3 DEF IsSum
  <1>6. Of(DOMAIN u) = DOMAIN v
    BY DEF IsTotal
  <1>7. n[DOMAIN u] = w[Of(DOMAIN u)]
    BY <1>4
  <1>8. SumFunction(u) = n[DOMAIN u] /\ SumFunction(v) = w[DOMAIN v]
    BY <1>1, <1>5, SumIs
  <1> QED
    BY <1>6, <1>7, <1>8

\* v lists the cells of a table, each by its row i and its column c, and has in
\* it what the row's q has there, on the row's side.
IsTable(v, a, q, c) ==
    /\ DOMAIN a = DOMAIN q /\ \A i \in DOMAIN q : a[i] \in Sides
    /\ \A p \in DOMAIN v : /\ p[1] \in DOMAIN q /\ c[p] \in DOMAIN q[p[1]]
                           /\ v[p] = a[p[1]] * q[p[1]][c[p]]
    /\ \A p, r \in DOMAIN v : p[1] = r[1] /\ c[p] = c[r] => p = r
    /\ \A i \in DOMAIN q : \A n \in DOMAIN q[i] : \E p \in DOMAIN v : p[1] = i /\ c[p] = n

\* What is in one row of a table.
LEMMA RowSums ==
  ASSUME NEW v, IsFiniteSet(DOMAIN v), NEW a, NEW q, NEW c, IsTable(v, a, q, c),
         NEW i \in DOMAIN q, IsSummed(q[i]), NEW row, PartOf(row, v, {p \in DOMAIN v : p[1] = i})
  PROVE  SumFunction(row) = a[i] * SumFunction(q[i]) /\ a[i] * SumFunction(q[i]) \in Int
  <1> DEFINE B == {p \in DOMAIN v : p[1] = i}
  <1>1. PICK b : b = a[i]
    OBVIOUS
  <1>2. PICK y : y = q[i]
    OBVIOUS
  <1>3. PICK turned : turned = [n \in DOMAIN y |-> b * y[n]]
    OBVIOUS
  <1>4. b \in {1, -1} /\ IsSummed(y)
    BY <1>1, <1>2 DEF IsTable, Sides
  <1>5. DOMAIN turned = DOMAIN y /\ \A n \in DOMAIN y : turned[n] = b * y[n]
    BY <1>3
  <1>6. IsSummed(turned) /\ SumFunction(turned) = b * SumFunction(y)
    BY <1>4, <1>5, SumTurns
  <1>7. DOMAIN row = B /\ \A p \in B : row[p] = v[p]
    BY DEF PartOf
  <1>8. \A p \in DOMAIN row : c[p] \in DOMAIN turned /\ row[p] = turned[c[p]]
    <2> SUFFICES ASSUME NEW p \in DOMAIN row
                 PROVE  c[p] \in DOMAIN turned /\ row[p] = turned[c[p]]
      OBVIOUS
    <2>1. p \in DOMAIN v /\ p[1] = i /\ row[p] = v[p]
      BY <1>7
    <2>2. c[p] \in DOMAIN y /\ v[p] = b * y[c[p]]
      BY <1>1, <1>2, <2>1 DEF IsTable
    <2> QED
      BY <1>5, <2>1, <2>2
  <1>9. IsSummed(row)
    <2>1. B \subseteq DOMAIN v
      OBVIOUS
    <2>2. IsFiniteSet(DOMAIN row)
      BY <1>7, <2>1, FS_Subset
    <2>3. \A n \in DOMAIN turned : turned[n] \in Int
      BY <1>6 DEF IsSummed
    <2> QED
      BY <1>8, <2>2, <2>3 DEF IsSummed
  <1>10. \A p, r \in DOMAIN row : c[p] = c[r] => p = r
    BY <1>7 DEF IsTable
  <1>11. \A n \in DOMAIN turned : \E p \in DOMAIN row : c[p] = n
    BY <1>2, <1>5, <1>7 DEF IsTable
  <1>12. SumFunction(row) = SumFunction(turned)
    BY <1>6, <1>8, <1>9, <1>10, <1>11, SumRenames
  <1>13. b * SumFunction(y) \in Int
    BY <1>6, SumIsInt
  <1> QED
    BY <1>1, <1>2, <1>6, <1>12, <1>13

\* What is in a table, added up by rows.
LEMMA TableSums ==
  ASSUME NEW v, IsFiniteSet(DOMAIN v), NEW a, NEW q, NEW c, IsTable(v, a, q, c),
         IsFiniteSet(DOMAIN q), \A i \in DOMAIN q : IsSummed(q[i])
  PROVE  SumFunction(v) = SumFunction([i \in DOMAIN q |-> a[i] * SumFunction(q[i])])
  <1> DEFINE B(i) == {p \in DOMAIN v : p[1] = i}
  <1>1. PICK u : u = [i \in DOMAIN q |-> a[i] * SumFunction(q[i])]
    OBVIOUS
  <1>2. PICK row : row = [i \in DOMAIN q |-> [p \in B(i) |-> v[p]]]
    OBVIOUS
  <1>3. \A i \in DOMAIN q : PartOf(row[i], v, B(i))
    BY <1>2 DEF PartOf
  <1>4. ASSUME NEW i \in DOMAIN q
        PROVE  u[i] = SumFunction(row[i]) /\ u[i] \in Int
    <2>1. PICK r : r = row[i]
      OBVIOUS
    <2>2. PartOf(r, v, B(i))
      BY <1>3, <2>1
    <2>3. SumFunction(r) = a[i] * SumFunction(q[i]) /\ a[i] * SumFunction(q[i]) \in Int
      BY <2>2, RowSums
    <2> QED
      BY <1>1, <2>1, <2>3
  <1>5. DOMAIN u = DOMAIN q
    BY <1>1
  <1>6. IsSummed(u)
    BY <1>4, <1>5 DEF IsSummed
  <1>7. IsSummed(v)
    <2> SUFFICES ASSUME NEW p \in DOMAIN v PROVE v[p] \in Int
      BY DEF IsSummed
    <2>1. PICK i, n : i = p[1] /\ n = c[p]
      OBVIOUS
    <2>2. PICK b, y : b = a[i] /\ y = q[i]
      OBVIOUS
    <2>3. i \in DOMAIN q /\ n \in DOMAIN y /\ v[p] = b * y[n] /\ b \in Sides
      BY <2>1, <2>2 DEF IsTable
    <2>4. y[n] \in Int
      BY <2>2, <2>3 DEF IsSummed
    <2> QED
      BY <2>3, <2>4 DEF Sides
  <1>8. IsTotal(u, v, row)
    <2>1. \A p \in DOMAIN v : p[1] \in DOMAIN u
      BY <1>5 DEF IsTable
    <2>2. \A z \in DOMAIN u : PartOf(row[z], v, B(z)) /\ u[z] = SumFunction(row[z])
      BY <1>3, <1>4, <1>5
    <2> QED
      BY <2>1, <2>2 DEF IsTotal
  <1> QED
    BY <1>1, <1>6, <1>7, <1>8, SumOfRows

\* A single part is the whole.
LEMMA SumOfOne ==
  ASSUME NEW x \in Int, NEW q, q = <<x>>
  PROVE  SumFunction(q) = x
  <1>1. PICK v : v = <<>>
    OBVIOUS
  <1>2. DOMAIN v = {} /\ DOMAIN q = {1} /\ q[1] = x
    BY <1>1
  <1>3. PICK n : n = 1
    OBVIOUS
  <1>4. IsFiniteSet(DOMAIN v)
    BY <1>2, FS_EmptySet
  <1>5. /\ n \notin DOMAIN v /\ DOMAIN q = DOMAIN v \union {n}
        /\ \A y \in DOMAIN v : q[y] = v[y]
        /\ \A y \in DOMAIN q : q[y] \in Int
    BY <1>2, <1>3
  <1>6. SumFunction(v) \in Int /\ SumFunction(q) = SumFunction(v) + q[n]
    BY <1>4, <1>5, SumAdds
  <1>7. SumFunction(v) = 0
    BY <1>2, SumOfNothing
  <1> QED
    BY <1>2, <1>3, <1>6, <1>7

-----------------------------------------------------------------------------
(* Whole ounces *)

\* The unit is a positive natural.
LEMMA UnitIs == Unit \in Nat /\ Unit > 0
  BY UnitAssumption

\* Multiplying by the unit.
LEMMA UnitTimes ==
  ASSUME NEW a \in Int, NEW b \in Int
  PROVE  Unit * a \in Int /\ Unit * (a - b) = Unit * a - Unit * b /\ Unit * (a + 1) = Unit * a + Unit
  BY UnitIs

\* Division by the unit leaves a rest below it.
LEMMA UnitDivides ==
  ASSUME NEW n \in Int
  PROVE  /\ n \div Unit \in Int /\ n % Unit \in Int
         /\ n = Unit * (n \div Unit) + (n % Unit)
         /\ 0 <= n % Unit /\ n % Unit < Unit
  BY UnitIs

\* Rounding leaves at most half an ounce.
LEMMA RoundLeavesHalf ==
  ASSUME NEW n \in Int
  PROVE  /\ RoundHedgeOunces(n) \in Int /\ Unit * RoundHedgeOunces(n) \in Int
         /\ 2 * Size(n - Unit * RoundHedgeOunces(n)) <= Unit
  <1> DEFINE w == n \div Unit
             r == n % Unit
             p == Unit * w
             round == RoundHedgeOunces(n)
  <1>1. w \in Int /\ r \in Int /\ p \in Int /\ n = p + r /\ 0 <= r /\ r < Unit
    BY UnitDivides, UnitTimes
  <1>2. /\ round \in {w, w + 1}
        /\ round = w => 2 * r <= Unit
        /\ round = w + 1 => 2 * r >= Unit
    <2>1. round = IF 2 * r > Unit \/ (2 * r = Unit /\ w % 2 = 1) THEN w + 1 ELSE w
      BY DEF RoundHedgeOunces
    <2> HIDE DEF w, r, round
    <2> QED
      BY <1>1, <2>1, UnitIs
  <1>3. Unit * (w + 1) = p + Unit
    <2> HIDE DEF w
    <2>1. Unit * (w + 1) = Unit * w + Unit
      BY <1>1, UnitTimes
    <2> QED
      BY <2>1
  <1>4. CASE round = w
    <2>1. Unit * round = p
      BY <1>4
    <2>2. 2 * r <= Unit
      BY <1>2, <1>4
    <2> HIDE DEF w, r, p, round
    <2>3. n - Unit * round = r
      BY <1>1, <2>1
    <2> QED
      BY <1>1, <1>4, <2>1, <2>2, <2>3, UnitIs DEF Size, round
  <1>5. CASE round = w + 1
    <2>1. Unit * round = p + Unit
      BY <1>3, <1>5
    <2>2. 2 * r >= Unit
      BY <1>2, <1>5, <1>1
    <2> HIDE DEF w, r, p, round
    <2>3. n - Unit * round = r - Unit
      BY <1>1, <2>1, UnitIs
    <2>4. 2 * Size(r - Unit) <= Unit
      BY <1>1, <2>2, UnitIs DEF Size
    <2>5. round \in Int /\ Unit * round \in Int
      BY <1>1, <1>5, <2>1, UnitIs
    <2> QED
      BY <2>3, <2>4, <2>5 DEF round
  <1> QED
    BY <1>2, <1>4, <1>5

-----------------------------------------------------------------------------
(* The planner: the legs of a plan are on its side, and for the whole.     *)

FitsSide(legs, side) ==
    IsSeq(legs) /\ \A n \in DOMAIN legs : legs[n].side = side /\ legs[n].quantity \in Nat
Amount(legs) == SumFunction([n \in DOMAIN legs |-> legs[n].quantity])

\* A finite set of numbers has a greatest.
LEMMA GreatestMember ==
  ASSUME NEW Z, IsFiniteSet(Z), Z \subseteq Nat
  PROVE  \A S \in SUBSET Z : S # {} => Max(S) \in S /\ \A y \in S : Max(S) >= y
  <1> DEFINE P == {S \in SUBSET Z : S = {} \/ \E x \in S : \A y \in S : x >= y}
  <1>1. ASSUME NEW S \in SUBSET Z, NEW z \in S, S \ {z} \in P PROVE S \in P
    <2>1. CASE S \ {z} = {}
      <3>1. \A y \in S : y = z
        BY <2>1
      <3>2. z \in Nat
        OBVIOUS
      <3> QED
        BY <3>1, <3>2
    <2>2. CASE S \ {z} # {}
      <3>1. PICK x \in S : \A y \in S \ {z} : x >= y
        BY <1>1, <2>2
      <3>2. x \in Nat /\ z \in Nat /\ \A y \in S : y \in Nat
        OBVIOUS
      <3>3. CASE x >= z
        BY <3>1, <3>3
      <3>4. CASE z > x
        <4>1. \A y \in S : z >= y
          BY <3>1, <3>2, <3>4
        <4> QED
          BY <4>1
      <3> QED
        BY <3>2, <3>3, <3>4
    <2> QED
      BY <2>1, <2>2
  <1>2. {} \in P
    OBVIOUS
  <1>3. \A S \in SUBSET Z : S \in P
    <2> HIDE DEF P
    <2>1. \A S \in SUBSET Z : S # {} => \E x \in S : S \ {x} \in P => S \in P
      BY <1>1
    <2> QED
      BY <1>2, <2>1, SetsInduct
  <1> SUFFICES ASSUME NEW S \in SUBSET Z, S # {}
               PROVE  Max(S) \in S /\ \A y \in S : Max(S) >= y
    OBVIOUS
  <1>4. \E x \in S : \A y \in S : x >= y
    BY <1>3
  <1> QED
    BY <1>4 DEF Max

\* One leg more.
LEMMA LegAppended ==
  ASSUME NEW legs, NEW side, FitsSide(legs, side), NEW leg, leg.side = side, leg.quantity \in Nat
  PROVE  /\ FitsSide(Append(legs, leg), side)
         /\ Amount(legs) \in Int /\ Amount(Append(legs, leg)) = Amount(legs) + leg.quantity
  <1>1. PICK r : r = Append(legs, leg)
    OBVIOUS
  <1>2. /\ IsSeq(r) /\ DOMAIN r = 1 .. Len(legs) + 1
        /\ \A n \in DOMAIN legs : r[n] = legs[n]
        /\ r[Len(legs) + 1] = leg
    BY <1>1, Appended DEF FitsSide
  <1>3. Len(legs) \in Nat /\ DOMAIN legs = 1 .. Len(legs)
    BY SeqFacts DEF FitsSide
  <1>4. PICK v : v = [n \in DOMAIN legs |-> legs[n].quantity]
    OBVIOUS
  <1>5. PICK u : u = [n \in DOMAIN r |-> r[n].quantity]
    OBVIOUS
  <1>6. PICK x : x = Len(legs) + 1
    OBVIOUS
  <1>7. DOMAIN r = DOMAIN legs \union {x} /\ x \notin DOMAIN legs /\ r[x] = leg
    BY <1>2, <1>3, <1>6
  <1>8. \A n \in DOMAIN r : r[n].side = side /\ r[n].quantity \in Nat
    BY <1>2, <1>7 DEF FitsSide
  <1>9. IsFiniteSet(DOMAIN v)
    BY <1>3, <1>4, FS_Interval
  <1>10. /\ x \notin DOMAIN v /\ DOMAIN u = DOMAIN v \union {x}
         /\ \A y \in DOMAIN v : u[y] = v[y]
         /\ \A y \in DOMAIN u : u[y] \in Int
         /\ u[x] = leg.quantity
    <2>1. x \notin DOMAIN v /\ DOMAIN u = DOMAIN v \union {x}
      BY <1>4, <1>5, <1>7
    <2>2. \A y \in DOMAIN v : u[y] = v[y]
      BY <1>2, <1>4, <1>5, <1>7
    <2>3. \A y \in DOMAIN u : u[y] \in Int
      BY <1>5, <1>8
    <2>4. u[x] = leg.quantity
      BY <1>5, <1>7
    <2> QED
      BY <2>1, <2>2, <2>3, <2>4
  <1>11. SumFunction(v) \in Int /\ SumFunction(u) = SumFunction(v) + u[x]
    BY <1>9, <1>10, SumAdds
  <1> QED
    BY <1>1, <1>2, <1>4, <1>5, <1>8, <1>10, <1>11 DEF FitsSide, Amount

\* A plan without a leg.
LEMMA NoLegs ==
  ASSUME NEW side
  PROVE  FitsSide(<<>>, side) /\ Amount(<<>>) = 0
  <1>1. IsSeq(<<>>)
    <2>1. <<>> = [j \in 1 .. 0 |-> <<>>[j]]
      OBVIOUS
    <2> QED
      BY <2>1, SeqIntro
  <1>2. DOMAIN [n \in DOMAIN <<>> |-> <<>>[n].quantity] = {}
    OBVIOUS
  <1> QED
    BY <1>1, <1>2, SumOfNothing DEF FitsSide, Amount

\* One ticket of the plan is closed.
Closed(positions, side, t, plan) ==
    LET part == Least(plan.rest, Size(positions[t])) IN
    IF part = 0 THEN plan
    ELSE [rest |-> plan.rest - part,
          legs |-> Append(plan.legs, CloseLeg(side, part, t, Size(positions[t])))]
Unplanned(quantity) == [rest |-> quantity, legs |-> <<>>]

\* p gives each set of tickets the plan that closes them.
PlansFor(p, Z, positions, side, quantity) ==
    p = [S \in SUBSET Z |-> IF S = {} THEN Unplanned(quantity)
                            ELSE Closed(positions, side, Max(S), p[S \ {Max(S)}])]

\* There is such a function.
LEMMA PlansExist ==
  ASSUME NEW Z, IsFiniteSet(Z), Z \subseteq Nat, NEW positions, NEW side, NEW quantity
  PROVE  \E p : PlansFor(p, Z, positions, side, quantity)
  <1> DEFINE Step(S, p) == IF S = {} THEN Unplanned(quantity)
                           ELSE Closed(positions, side, Max(S), p[S \ {Max(S)}])
             P == {A \in SUBSET Z : \E p : \A S \in SUBSET A : p[S] = Step(S, p)}
  <1>1. {} \in P
    <2>1. PICK p : p = [S \in {{}} |-> Unplanned(quantity)]
      OBVIOUS
    <2>2. \A S \in SUBSET {} : p[S] = Step(S, p)
      BY <2>1
    <2> QED
      BY <2>2
  <1>2. ASSUME NEW A \in SUBSET Z, A # {} PROVE \E x \in A : A \ {x} \in P => A \in P
    <2>1. PICK x : x = Max(A)
      OBVIOUS
    <2>2. x \in A /\ \A y \in A : x >= y
      BY <1>2, <2>1, GreatestMember
    <2>3. ASSUME NEW S \in SUBSET A, x \in S PROVE Max(S) = x
      <3>1. Max(S) \in S /\ Max(S) >= x
        BY <2>3, GreatestMember
      <3>2. x >= Max(S) /\ x \in Nat /\ Max(S) \in Nat
        BY <2>2, <3>1
      <3> QED
        BY <3>1, <3>2
    <2>4. ASSUME A \ {x} \in P PROVE A \in P
      <3>1. PICK p : \A S \in SUBSET (A \ {x}) : p[S] = Step(S, p)
        BY <2>4
      <3> HIDE DEF Step
      <3>2. PICK q : q = [S \in SUBSET A |->
                             IF x \in S THEN Closed(positions, side, x, p[S \ {x}]) ELSE p[S]]
        OBVIOUS
      <3>3. ASSUME NEW S \in SUBSET A PROVE q[S] = Step(S, q)
        <4>1. CASE x \in S
          <5>1. PICK T : T = S \ {x}
            OBVIOUS
          <5>2. T \in SUBSET A /\ x \notin T
            BY <5>1
          <5>3. q[T] = p[T] /\ q[S] = Closed(positions, side, x, p[T])
            BY <3>2, <4>1, <5>1, <5>2
          <5>4. Max(S) = x /\ S # {}
            BY <2>3, <4>1
          <5> QED
            BY <5>1, <5>3, <5>4 DEF Step
        <4>2. CASE x \notin S
          <5>1. S \in SUBSET (A \ {x}) /\ q[S] = p[S]
            BY <3>2, <4>2
          <5>2. p[S] = Step(S, p)
            BY <3>1, <5>1
          <5>3. CASE S = {}
            BY <5>1, <5>2, <5>3 DEF Step
          <5>4. CASE S # {}
            <6>1. PICK T : T = S \ {Max(S)}
              OBVIOUS
            <6>2. T \in SUBSET A /\ x \notin T
              BY <4>2, <6>1
            <6>3. q[T] = p[T]
              BY <3>2, <6>2
            <6> QED
              BY <5>1, <5>2, <6>1, <6>3 DEF Step
          <5> QED
            BY <5>3, <5>4
        <4> QED
          BY <4>1, <4>2
      <3> QED
        BY <3>3
    <2> HIDE DEF P
    <2> QED
      BY <2>2, <2>4
  <1>3. Z \in P
    <2> HIDE DEF P
    <2> QED
      BY <1>1, <1>2, SetsInduct
  <1>4. PICK p : \A S \in SUBSET Z : p[S] = Step(S, p)
    BY <1>3
  <1> HIDE DEF Step
  <1>5. PICK q : q = [S \in SUBSET Z |-> p[S]]
    OBVIOUS
  <1>6. ASSUME NEW S \in SUBSET Z PROVE q[S] = Step(S, q)
    <2>1. CASE S = {}
      BY <1>4, <1>5, <2>1 DEF Step
    <2>2. CASE S # {}
      <3>1. PICK T : T = S \ {Max(S)}
        OBVIOUS
      <3>2. q[T] = p[T] /\ q[S] = p[S]
        BY <1>5, <3>1
      <3> QED
        BY <1>4, <2>2, <3>1, <3>2 DEF Step
    <2> QED
      BY <2>1, <2>2
  <1>7. q = [S \in SUBSET Z |-> Step(S, q)]
    BY <1>5, <1>6
  <1> QED
    BY <1>7 DEF PlansFor, Step

\* What is planned so far, and what is left over, is the whole.
Covers(plan, side, quantity) ==
    /\ plan.rest \in Nat /\ FitsSide(plan.legs, side)
    /\ Amount(plan.legs) \in Int /\ Amount(plan.legs) + plan.rest = quantity

\* Closing one ticket covers the same.
LEMMA ClosedCovers ==
  ASSUME NEW positions, NEW t, positions[t] \in Int, NEW side, NEW quantity \in Nat,
         NEW plan, Covers(plan, side, quantity)
  PROVE  Covers(Closed(positions, side, t, plan), side, quantity)
  <1>1. PICK size : size = Size(positions[t])
    OBVIOUS
  <1>2. size \in Nat
    BY <1>1 DEF Size
  <1>3. PICK part : part = Least(plan.rest, size)
    OBVIOUS
  <1>4. part \in Nat /\ plan.rest - part \in Nat /\ plan.rest \in Nat
    BY <1>2, <1>3 DEF Covers, Least
  <1>5. CASE part = 0
    BY <1>1, <1>3, <1>5 DEF Closed
  <1>6. CASE part # 0
    <2>1. PICK leg : leg = CloseLeg(side, part, t, size)
      OBVIOUS
    <2>2. leg.side = side /\ leg.quantity = part
      BY <2>1 DEF CloseLeg
    <2>3. PICK legs : legs = plan.legs
      OBVIOUS
    <2>4. PICK r : r = Append(legs, leg)
      OBVIOUS
    <2>5. FitsSide(legs, side) /\ Amount(legs) \in Int /\ Amount(legs) + plan.rest = quantity
      BY <2>3 DEF Covers
    <2>6. FitsSide(r, side) /\ Amount(r) = Amount(legs) + part
      BY <1>4, <2>2, <2>4, <2>5, LegAppended
    <2>7. PICK c : c = [rest |-> plan.rest - part, legs |-> r]
      OBVIOUS
    <2>8. Closed(positions, side, t, plan) = c
      BY <1>1, <1>3, <1>6, <2>1, <2>3, <2>4, <2>7 DEF Closed
    <2>9. c.rest = plan.rest - part /\ c.legs = r
      BY <2>7
    <2>10. Amount(r) \in Int /\ Amount(r) + c.rest = quantity
      BY <1>4, <2>5, <2>6, <2>9
    <2> QED
      BY <1>4, <2>6, <2>8, <2>9, <2>10 DEF Covers
  <1> QED
    BY <1>5, <1>6

\* The opposing tickets are closed, and for no more than is wanted.
LEMMA ClosingCovers ==
  ASSUME NEW positions, IsFiniteSet(DOMAIN positions), DOMAIN positions \subseteq Nat,
         \A t \in DOMAIN positions : positions[t] \in Int,
         NEW side, NEW quantity \in Nat
  PROVE  Covers(Closing(positions, side, quantity), side, quantity)
  <1> DEFINE Z == Opposing(positions, side)
             p == CHOOSE f : PlansFor(f, Z, positions, side, quantity)
  <1>1. Z \subseteq DOMAIN positions
    BY DEF Opposing
  <1>2. IsFiniteSet(Z)
    BY <1>1, FS_Subset
  <1>3. PlansFor(p, Z, positions, side, quantity)
    <2>1. \E f : PlansFor(f, Z, positions, side, quantity)
      <3> HIDE DEF Z
      <3> QED
        BY <1>1, <1>2, PlansExist
    <2> HIDE DEF Z
    <2> QED
      BY <2>1
  <1>4. Closing(positions, side, quantity) = p[Z]
    BY DEF Closing, MapThenFoldSet, PlansFor, Closed, Unplanned
  <1> HIDE DEF p, Z
  <1> DEFINE P == {S \in SUBSET Z : Covers(p[S], side, quantity)}
  <1>5. {} \in P
    <2>1. p[{}] = Unplanned(quantity)
      BY <1>3 DEF PlansFor
    <2>2. Covers(Unplanned(quantity), side, quantity)
      BY NoLegs DEF Covers, Unplanned
    <2> QED
      BY <2>1, <2>2
  <1>6. ASSUME NEW S \in SUBSET Z, S # {} PROVE \E x \in S : S \ {x} \in P => S \in P
    <2>1. PICK x : x = Max(S)
      OBVIOUS
    <2>2. x \in S
      BY <1>1, <1>2, <1>6, <2>1, GreatestMember
    <2>3. ASSUME S \ {x} \in P PROVE S \in P
      <3>1. PICK q : q = p[S \ {x}]
        OBVIOUS
      <3>2. Covers(q, side, quantity)
        BY <2>3, <3>1
      <3>3. p[S] = Closed(positions, side, x, q)
        BY <1>3, <1>6, <2>1, <3>1 DEF PlansFor
      <3>4. positions[x] \in Int
        BY <1>1, <2>2
      <3> QED
        BY <3>2, <3>3, <3>4, ClosedCovers
    <2> HIDE DEF P
    <2> QED
      BY <2>2, <2>3
  <1>7. Z \in P
    <2> HIDE DEF P
    <2>1. \A S \in SUBSET Z : S # {} => \E x \in S : S \ {x} \in P => S \in P
      BY <1>6
    <2>2. \A S \in SUBSET Z : S \in P
      BY <1>2, <1>5, <2>1, SetsInduct
    <2> QED
      BY <2>2
  <1> QED
    BY <1>4, <1>7

\* A plan is on its side, and for the whole quantity.
LEMMA PlanCovers ==
  ASSUME NEW positions, IsFiniteSet(DOMAIN positions), DOMAIN positions \subseteq Nat,
         \A t \in DOMAIN positions : positions[t] \in Int,
         NEW side, NEW quantity \in Nat
  PROVE  /\ FitsSide(PlanHedgeDelta(positions, side, quantity), side)
         /\ Amount(PlanHedgeDelta(positions, side, quantity)) = quantity
  <1>1. PICK c : c = Closing(positions, side, quantity)
    OBVIOUS
  <1>2. Covers(c, side, quantity)
    BY <1>1, ClosingCovers
  <1>3. c.rest \in Nat /\ FitsSide(c.legs, side) /\ Amount(c.legs) \in Int
        /\ Amount(c.legs) + c.rest = quantity
    BY <1>2 DEF Covers
  <1>4. CASE c.rest = 0
    <2>1. PlanHedgeDelta(positions, side, quantity) = c.legs
      BY <1>1, <1>4 DEF PlanHedgeDelta
    <2> QED
      BY <1>3, <1>4, <2>1
  <1>5. CASE c.rest # 0
    <2>1. PICK leg : leg = OpenLeg(side, c.rest)
      OBVIOUS
    <2>2. leg.side = side /\ leg.quantity = c.rest
      BY <2>1 DEF OpenLeg, CloseLeg
    <2>3. PICK legs : legs = c.legs
      OBVIOUS
    <2>4. PlanHedgeDelta(positions, side, quantity) = Append(legs, leg)
      BY <1>1, <1>5, <2>1, <2>3 DEF PlanHedgeDelta
    <2>5. /\ FitsSide(Append(legs, leg), side)
          /\ Amount(Append(legs, leg)) = Amount(legs) + leg.quantity
      BY <1>3, <2>2, <2>3, LegAppended
    <2> QED
      BY <1>3, <2>2, <2>3, <2>4, <2>5
  <1> QED
    BY <1>4, <1>5

-----------------------------------------------------------------------------
(* What the legs of a plan do: each closes a ticket of its own that opposes, *)
(* and only the last one opens.                                            *)

\* Each leg closes another one of the tickets S, for no more than it holds;
\* while anything is left over, all of them are closed.
ClosesEach(legs, rest, S, positions) ==
    /\ \A n \in DOMAIN legs : /\ legs[n].ticket \in S
                              /\ legs[n].expected = Size(positions[legs[n].ticket])
    /\ \A m, n \in DOMAIN legs : legs[m].ticket = legs[n].ticket => m = n
    /\ rest # 0 => \A t \in S : \E n \in DOMAIN legs :
          legs[n].ticket = t /\ legs[n].quantity = Size(positions[t])

\* One more ticket is closed.
LEMMA ClosedCloses ==
  ASSUME NEW positions, NEW S, NEW t \in S, positions[t] \in Int, positions[t] # 0, NEW side,
         NEW plan, plan.rest \in Nat, IsSeq(plan.legs),
         ClosesEach(plan.legs, plan.rest, S \ {t}, positions),
         NEW c, c = Closed(positions, side, t, plan)
  PROVE  ClosesEach(c.legs, c.rest, S, positions)
  <1>1. PICK size : size = Size(positions[t])
    OBVIOUS
  <1>2. size \in Nat /\ size # 0
    BY <1>1 DEF Size
  <1>3. PICK part : part = Least(plan.rest, size)
    OBVIOUS
  <1>4. PICK legs, rest : legs = plan.legs /\ rest = plan.rest
    OBVIOUS
  <1>5. /\ rest \in Nat /\ IsSeq(legs) /\ ClosesEach(legs, rest, S \ {t}, positions)
        /\ part = Least(rest, size)
    BY <1>3, <1>4
  <1>6. CASE part = 0
    <2>1. rest = 0
      BY <1>2, <1>5, <1>6 DEF Least
    <2>2. c = plan
      BY <1>1, <1>3, <1>6 DEF Closed
    <2>3. ClosesEach(legs, rest, S, positions)
      BY <1>5, <2>1 DEF ClosesEach
    <2> QED
      BY <1>4, <2>2, <2>3
  <1>7. CASE part # 0
    <2>1. PICK leg : leg = CloseLeg(side, part, t, size)
      OBVIOUS
    <2>2. leg.ticket = t /\ leg.expected = size /\ leg.quantity = part
      BY <2>1 DEF CloseLeg
    <2>3. PICK r, left : r = Append(legs, leg) /\ left = rest - part
      OBVIOUS
    <2>4. c = [rest |-> left, legs |-> r]
      BY <1>1, <1>3, <1>4, <1>7, <2>1, <2>3 DEF Closed
    <2>5. PICK x : x = Len(legs) + 1
      OBVIOUS
    <2>6. /\ Len(legs) \in Nat /\ DOMAIN legs = 1 .. Len(legs)
          /\ DOMAIN r = 1 .. Len(legs) + 1 /\ r[Len(legs) + 1] = leg
          /\ \A n \in DOMAIN legs : r[n] = legs[n]
      BY <1>5, <2>3, SeqFacts, Appended
    <2>7. /\ DOMAIN r = DOMAIN legs \union {x} /\ x \notin DOMAIN legs /\ r[x] = leg
          /\ \A n \in DOMAIN legs : r[n] = legs[n]
      BY <2>5, <2>6
    <2>8. ASSUME NEW n \in DOMAIN r
          PROVE  r[n].ticket \in S /\ r[n].expected = Size(positions[r[n].ticket])
      <3>1. CASE n = x
        BY <1>1, <2>2, <2>7, <3>1
      <3>2. CASE n \in DOMAIN legs
        BY <1>5, <2>7, <3>2 DEF ClosesEach
      <3> QED
        BY <2>7, <3>1, <3>2
    <2>9. ASSUME NEW m \in DOMAIN r, NEW n \in DOMAIN r, r[m].ticket = r[n].ticket
          PROVE  m = n
      <3>1. \A k \in DOMAIN legs : r[k].ticket # t
        BY <1>5, <2>7 DEF ClosesEach
      <3>2. r[x].ticket = t
        BY <2>2, <2>7
      <3>3. CASE m \in DOMAIN legs /\ n \in DOMAIN legs
        BY <1>5, <2>7, <2>9, <3>3 DEF ClosesEach
      <3> QED
        BY <2>7, <2>9, <3>1, <3>2, <3>3
    <2>10. ASSUME left # 0, NEW u \in S
           PROVE  \E n \in DOMAIN r : r[n].ticket = u /\ r[n].quantity = Size(positions[u])
      <3>1. part = size /\ rest # 0
        BY <1>2, <1>5, <1>7, <2>3, <2>10 DEF Least
      <3>2. CASE u = t
        BY <1>1, <2>2, <2>7, <3>1, <3>2
      <3>3. CASE u # t
        <4>1. \E n \in DOMAIN legs : legs[n].ticket = u /\ legs[n].quantity = Size(positions[u])
          BY <1>5, <3>1, <3>3 DEF ClosesEach
        <4> QED
          BY <2>7, <4>1
      <3> QED
        BY <3>2, <3>3
    <2>11. ClosesEach(r, left, S, positions)
      BY <2>8, <2>9, <2>10 DEF ClosesEach
    <2> QED
      BY <2>4, <2>11
  <1> QED
    BY <1>6, <1>7

\* The planner is such a function of the sets of tickets.
LEMMA ClosingIs ==
  ASSUME NEW positions, IsFiniteSet(DOMAIN positions), DOMAIN positions \subseteq Nat,
         NEW side, NEW quantity
  PROVE  /\ IsFiniteSet(Opposing(positions, side)) /\ Opposing(positions, side) \subseteq Nat
         /\ \E p : /\ PlansFor(p, Opposing(positions, side), positions, side, quantity)
                   /\ Closing(positions, side, quantity) = p[Opposing(positions, side)]
  <1> DEFINE Z == Opposing(positions, side)
             p == CHOOSE f : PlansFor(f, Z, positions, side, quantity)
  <1>1. Z \subseteq DOMAIN positions
    BY DEF Opposing
  <1>2. IsFiniteSet(Z) /\ Z \subseteq Nat
    BY <1>1, FS_Subset
  <1>3. PlansFor(p, Z, positions, side, quantity)
    <2>1. \E f : PlansFor(f, Z, positions, side, quantity)
      <3> HIDE DEF Z
      <3> QED
        BY <1>1, <1>2, PlansExist
    <2> HIDE DEF Z
    <2> QED
      BY <2>1
  <1>4. Closing(positions, side, quantity) = p[Z]
    BY DEF Closing, MapThenFoldSet, PlansFor, Closed, Unplanned
  <1> HIDE DEF p
  <1> QED
    BY <1>2, <1>3, <1>4

\* The opposing tickets are closed, each once.
LEMMA ClosingCloses ==
  ASSUME NEW positions, IsFiniteSet(DOMAIN positions), DOMAIN positions \subseteq Nat,
         \A t \in DOMAIN positions : positions[t] \in Int,
         NEW side \in Sides, NEW quantity \in Nat,
         NEW c, c = Closing(positions, side, quantity)
  PROVE  ClosesEach(c.legs, c.rest, Opposing(positions, side), positions)
  <1>1. PICK Z : Z = Opposing(positions, side)
    OBVIOUS
  <1>2. \A t \in Z : t \in Nat /\ positions[t] \in Int /\ positions[t] # 0
    BY <1>1 DEF Opposing, Sides
  <1>3. PICK p : PlansFor(p, Z, positions, side, quantity) /\ c = p[Z]
    BY <1>1, ClosingIs
  <1>4. IsFiniteSet(Z) /\ Z \subseteq Nat
    BY <1>1, ClosingIs
  <1> DEFINE P == {S \in SUBSET Z : /\ Covers(p[S], side, quantity)
                                    /\ ClosesEach(p[S].legs, p[S].rest, S, positions)}
  <1>5. {} \in P
    <2>1. p[{}] = Unplanned(quantity)
      BY <1>3 DEF PlansFor
    <2>2. Covers(Unplanned(quantity), side, quantity)
      BY NoLegs DEF Covers, Unplanned
    <2>3. DOMAIN <<>> = {}
      OBVIOUS
    <2>4. ClosesEach(<<>>, quantity, {}, positions)
      BY <2>3 DEF ClosesEach
    <2>5. Unplanned(quantity).legs = <<>> /\ Unplanned(quantity).rest = quantity
      BY DEF Unplanned
    <2> QED
      BY <2>1, <2>2, <2>4, <2>5
  <1>6. ASSUME NEW S \in SUBSET Z, S # {} PROVE \E x \in S : S \ {x} \in P => S \in P
    <2>1. PICK x : x = Max(S)
      OBVIOUS
    <2>2. x \in S
      BY <1>4, <1>6, <2>1, GreatestMember
    <2>3. ASSUME S \ {x} \in P PROVE S \in P
      <3>1. PICK q : q = p[S \ {x}]
        OBVIOUS
      <3>2. Covers(q, side, quantity) /\ ClosesEach(q.legs, q.rest, S \ {x}, positions)
        BY <2>3, <3>1
      <3>3. PICK d : d = Closed(positions, side, x, q)
        OBVIOUS
      <3>4. p[S] = d
        BY <1>3, <1>6, <2>1, <3>1, <3>3 DEF PlansFor
      <3>5. positions[x] \in Int /\ positions[x] # 0
        BY <1>2, <2>2
      <3>6. Covers(d, side, quantity)
        BY <3>2, <3>3, <3>5, ClosedCovers
      <3>7. q.rest \in Nat /\ IsSeq(q.legs)
        BY <3>2 DEF Covers, FitsSide
      <3>8. ClosesEach(d.legs, d.rest, S, positions)
        BY <2>2, <3>2, <3>3, <3>5, <3>7, ClosedCloses
      <3> QED
        BY <3>4, <3>6, <3>8
    <2> HIDE DEF P
    <2> QED
      BY <2>2, <2>3
  <1>7. Z \in P
    <2> HIDE DEF P
    <2>1. \A S \in SUBSET Z : S # {} => \E x \in S : S \ {x} \in P => S \in P
      BY <1>6
    <2>2. \A S \in SUBSET Z : S \in P
      BY <1>4, <1>5, <2>1, SetsInduct
    <2> QED
      BY <2>2
  <1> QED
    BY <1>1, <1>3, <1>7

\* What the legs of a whole plan do: those that close are of different opposing
\* tickets, and one that opens is the last, behind the close of all of them.
PlanWorks(legs, positions, side) ==
    /\ \A n \in DOMAIN legs : IF IsClose(legs[n])
          THEN /\ legs[n].ticket \in Opposing(positions, side)
               /\ legs[n].expected = Size(positions[legs[n].ticket])
          ELSE /\ n = Len(legs)
               /\ \A t \in Opposing(positions, side) : \E m \in DOMAIN legs :
                     m # n /\ legs[m].ticket = t /\ legs[m].quantity = Size(positions[t])
    /\ \A m, n \in DOMAIN legs : IsClose(legs[m]) /\ legs[m].ticket = legs[n].ticket => m = n

\* A plan works.
LEMMA PlanIsGood ==
  ASSUME NEW positions, IsFiniteSet(DOMAIN positions), DOMAIN positions \subseteq Nat \ {NoTicket},
         \A t \in DOMAIN positions : positions[t] \in Int,
         NEW side \in Sides, NEW quantity \in Nat
  PROVE  PlanWorks(PlanHedgeDelta(positions, side, quantity), positions, side)
  <1>1. PICK c : c = Closing(positions, side, quantity)
    OBVIOUS
  <1>2. PICK legs, rest : legs = c.legs /\ rest = c.rest
    OBVIOUS
  <1>3. PICK S : S = Opposing(positions, side)
    OBVIOUS
  <1>4. ClosesEach(legs, rest, S, positions)
    BY <1>1, <1>2, <1>3, ClosingCloses
  <1>5. rest \in Nat /\ IsSeq(legs)
    BY <1>1, <1>2, ClosingCovers DEF Covers, FitsSide
  <1>6. \A n \in DOMAIN legs : IsClose(legs[n]) /\ legs[n].ticket # NoTicket
    BY <1>3, <1>4 DEF ClosesEach, Opposing, IsClose
  <1>7. CASE rest = 0
    <2>1. PlanHedgeDelta(positions, side, quantity) = legs
      BY <1>1, <1>2, <1>7 DEF PlanHedgeDelta
    <2>2. PlanWorks(legs, positions, side)
      BY <1>3, <1>4, <1>6 DEF PlanWorks, ClosesEach
    <2> QED
      BY <2>1, <2>2
  <1>8. CASE rest # 0
    <2>1. PICK leg : leg = OpenLeg(side, rest)
      OBVIOUS
    <2>2. leg.ticket = NoTicket /\ ~IsClose(leg)
      BY <2>1 DEF OpenLeg, CloseLeg, IsClose
    <2>3. PICK r : r = Append(legs, leg)
      OBVIOUS
    <2>4. PlanHedgeDelta(positions, side, quantity) = r
      BY <1>1, <1>2, <1>8, <2>1, <2>3 DEF PlanHedgeDelta
    <2>5. PICK x : x = Len(legs) + 1
      OBVIOUS
    <2>6. /\ Len(legs) \in Nat /\ DOMAIN legs = 1 .. Len(legs)
          /\ DOMAIN r = 1 .. Len(legs) + 1 /\ r[Len(legs) + 1] = leg
          /\ \A n \in DOMAIN legs : r[n] = legs[n]
          /\ IsSeq(r)
      BY <1>5, <2>3, SeqFacts, Appended
    <2>7. /\ DOMAIN r = DOMAIN legs \union {x} /\ x \notin DOMAIN legs /\ r[x] = leg
          /\ \A n \in DOMAIN legs : r[n] = legs[n]
      BY <2>5, <2>6
    <2>8. Len(r) = x
      <3>1. x \in Nat /\ DOMAIN r = 1 .. x
        BY <2>5, <2>6
      <3>2. r = [k \in 1 .. x |-> r[k]]
        BY <2>6, <3>1, SeqFacts
      <3> QED
        BY <3>1, <3>2, SeqIntro
    <2>9. ASSUME NEW n \in DOMAIN r, IsClose(r[n])
          PROVE  r[n].ticket \in S /\ r[n].expected = Size(positions[r[n].ticket])
      <3>1. n \in DOMAIN legs
        BY <2>2, <2>7, <2>9
      <3> QED
        BY <1>4, <2>7, <3>1 DEF ClosesEach
    <2>10. ASSUME NEW n \in DOMAIN r, ~IsClose(r[n])
           PROVE  /\ n = Len(r)
                  /\ \A t \in S : \E m \in DOMAIN r :
                        m # n /\ r[m].ticket = t /\ r[m].quantity = Size(positions[t])
      <3>1. n = x
        BY <1>6, <2>7, <2>10
      <3>2. ASSUME NEW t \in S
            PROVE  \E m \in DOMAIN r :
                      m # n /\ r[m].ticket = t /\ r[m].quantity = Size(positions[t])
        <4>1. PICK m \in DOMAIN legs : legs[m].ticket = t /\ legs[m].quantity = Size(positions[t])
          BY <1>4, <1>8 DEF ClosesEach
        <4> QED
          BY <2>7, <3>1, <4>1
      <3> QED
        BY <2>8, <3>1, <3>2
    <2>11. ASSUME NEW m \in DOMAIN r, NEW n \in DOMAIN r, IsClose(r[m]), r[m].ticket = r[n].ticket
           PROVE  m = n
      <3>1. m \in DOMAIN legs
        BY <2>2, <2>7, <2>11
      <3>2. n \in DOMAIN legs
        BY <1>6, <2>2, <2>7, <2>11, <3>1
      <3> QED
        BY <1>4, <2>7, <2>11, <3>1, <3>2 DEF ClosesEach
    <2>12. PlanWorks(r, positions, side)
      BY <1>3, <2>9, <2>10, <2>11 DEF PlanWorks
    <2> QED
      BY <2>4, <2>12
  <1> QED
    BY <1>7, <1>8

\* One member changes.
LEMMA SumChanges ==
  ASSUME NEW v, IsSummed(v), NEW x \in DOMAIN v, NEW d \in Int, NEW u, DOMAIN u = DOMAIN v,
         u[x] = v[x] + d, \A y \in DOMAIN v : y # x => u[y] = v[y]
  PROVE  /\ SumFunction(v) \in Int /\ SumFunction(u) = SumFunction(v) + d
  <1>1. PICK b : b = [y \in DOMAIN v \ {x} |-> v[y]]
    OBVIOUS
  <1>2. DOMAIN b = DOMAIN v \ {x}
    BY <1>1
  <1>3. IsFiniteSet(DOMAIN b)
    BY <1>2, FS_Subset DEF IsSummed
  <1>4. \A y \in DOMAIN v : v[y] \in Int
    BY DEF IsSummed
  <1>5. SumFunction(b) \in Int /\ SumFunction(v) = SumFunction(b) + v[x]
    <2>1. x \notin DOMAIN b /\ DOMAIN v = DOMAIN b \union {x} /\ \A y \in DOMAIN b : v[y] = b[y]
      BY <1>1, <1>2
    <2> QED
      BY <1>3, <1>4, <2>1, SumAdds
  <1>6. SumFunction(u) = SumFunction(b) + u[x]
    <2>1. x \notin DOMAIN b /\ DOMAIN u = DOMAIN b \union {x} /\ \A y \in DOMAIN b : u[y] = b[y]
      BY <1>1, <1>2
    <2>2. \A y \in DOMAIN u : u[y] \in Int
      BY <1>4
    <2> QED
      BY <1>3, <2>1, <2>2, SumAdds
  <1>7. v[x] \in Int
    BY <1>4
  <1> QED
    BY <1>5, <1>6, <1>7

\* Half an ounce is rounded to the even ounce.
LEMMA RoundTiesEven ==
  ASSUME NEW n \in Int, 2 * Size(n - Unit * RoundHedgeOunces(n)) = Unit
  PROVE  RoundHedgeOunces(n) % 2 = 0
  <1>1. PICK w, r, p : w = n \div Unit /\ r = n % Unit /\ p = Unit * w
    OBVIOUS
  <1>2. PICK round : round = RoundHedgeOunces(n)
    OBVIOUS
  <1>3. w \in Int /\ r \in Int /\ p \in Int /\ n = p + r /\ 0 <= r /\ r < Unit
    BY <1>1, UnitDivides, UnitTimes
  <1>4. round = IF 2 * r > Unit \/ (2 * r = Unit /\ w % 2 = 1) THEN w + 1 ELSE w
    BY <1>1, <1>2 DEF RoundHedgeOunces
  <1>5. Unit * (w + 1) = p + Unit
    BY <1>1, <1>3, UnitTimes
  <1>6. w % 2 \in {0, 1}
    BY <1>3
  <1>7. CASE round = w
    <2>1. n - Unit * round = r
      <3>1. Unit * round = p
        BY <1>1, <1>7
      <3> QED
        BY <1>3, <3>1
    <2>2. 2 * r = Unit
      BY <1>2, <1>3, <2>1 DEF Size
    <2>3. w % 2 # 1
      BY <1>3, <1>4, <1>7, <2>2
    <2> QED
      BY <1>2, <1>6, <1>7, <2>3
  <1>8. CASE round = w + 1
    <2>1. n - Unit * round = r - Unit
      BY <1>3, <1>5, <1>8, UnitIs
    <2>2. 2 * r = Unit
      BY <1>2, <1>3, <2>1, UnitIs DEF Size
    <2>3. w % 2 = 1
      BY <1>3, <1>4, <1>8, <2>2
    <2>4. (w + 1) % 2 = 0
      BY <1>3, <2>3
    <2> QED
      BY <1>2, <1>8, <2>4
  <1> QED
    BY <1>4, <1>7, <1>8
=============================================================================
