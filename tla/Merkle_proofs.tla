---------------------------- MODULE Merkle_proofs ----------------------------
(***************************************************************************)
(* The walk of a transparency log's verifier accepts an entry's audit path *)
(* and nothing else, for a log of any length.                              *)
(***************************************************************************)
EXTENDS Merkle, TLAPS, NaturalsInduction, WellFoundedInduction, SequenceTheorems

-----------------------------------------------------------------------------
(* Induction over the numbers below n, with the set that is to hold them.  *)
LEMMA LeastNumber ==
    ASSUME NEW S \in SUBSET Nat, S # {}
    PROVE  \E n \in S : \A m \in S : n =< m
<1> DEFINE R == OpToRel(<, Nat)
<1>1. IsWellFoundedOn(R, Nat)
  BY NatLessThanWellFounded
<1>2. \A x, y \in Nat : <<x, y>> \in R <=> x < y
  BY DEF OpToRel
<1> HIDE DEF R
<1>3. PICK n \in S : \A m \in S : ~(<<m, n>> \in R)
  BY <1>1, WFMin
<1>4. ASSUME NEW m \in S PROVE n =< m
  <2>1. m \in Nat /\ n \in Nat /\ ~(m < n)
    BY <1>2, <1>3
  <2> QED
    BY <2>1
<1> QED
  BY <1>4

LEMMA FromBelow ==
    ASSUME NEW S, \A n \in Nat : (\A k \in 0..(n - 1) : k \in S) => n \in S
    PROVE  Nat \subseteq S
<1> SUFFICES ASSUME NEW k \in Nat, k \notin S PROVE FALSE
  OBVIOUS
<1> DEFINE Rest == {n \in Nat : n \notin S}
<1>1. PICK least \in Rest : \A m \in Rest : least =< m
  BY LeastNumber
<1>2. ASSUME NEW j \in 0..(least - 1) PROVE j \in S
  <2>1. j \in Nat /\ ~(least =< j)
    OBVIOUS
  <2> QED
    BY <1>1, <2>1
<1> QED
  BY <1>1, <1>2

-----------------------------------------------------------------------------
(* Powers of two, and the split of a tree.                                 *)
IsPower(p) == \A S \in SUBSET Nat : 1 \in S /\ (\A x \in S : 2 * x \in S) => p \in S

LEMMA OneIsPower == IsPower(1)
  BY DEF IsPower

LEMMA PowerDoubles ==
    ASSUME NEW p \in Nat, IsPower(p)
    PROVE  IsPower(2 * p)
  BY DEF IsPower

LEMMA PowerHalves ==
    ASSUME NEW p, IsPower(p)
    PROVE  /\ p \in Nat /\ p >= 1
           /\ p # 1 => \E q \in Nat : p = 2 * q /\ q >= 1 /\ IsPower(q)
<1> DEFINE S == {x \in Nat : x >= 1 /\ (x # 1 => \E q \in Nat : x = 2 * q /\ q >= 1 /\ IsPower(q))}
<1>1. 1 \in S
  OBVIOUS
<1>2. ASSUME NEW x \in S PROVE 2 * x \in S
  <2>1. IsPower(x)
    BY OneIsPower, PowerDoubles
  <2>2. x \in Nat /\ x >= 1 /\ 2 * x \in Nat /\ 2 * x >= 1
    OBVIOUS
  <2> QED
    BY <2>1, <2>2
<1>3. S \in SUBSET Nat
  OBVIOUS
<1>4. p \in S
  <2> HIDE DEF S
  <2> QED
    BY <1>1, <1>2, <1>3 DEF IsPower
<1> QED
  BY <1>4

HalfAt(h, k) == IF k =< 2 THEN 1 ELSE 2 * h[(k + 1) \div 2]
IsHalf(h, n) == h = [k \in 1..n |-> HalfAt(h, k)]

LEMMA HalfIsThere ==
    ASSUME NEW n \in Nat
    PROVE  \E h : IsHalf(h, n)
<1> DEFINE S == {m \in Nat : \E h : IsHalf(h, m)}
<1>1. ASSUME NEW m \in Nat, \A k \in 0..(m - 1) : k \in S PROVE m \in S
  <2>1. CASE m = 0
    <3>1. IsHalf([k \in 1..0 |-> 1], 0)
      BY DEF IsHalf
    <3> QED
      BY <2>1, <3>1
  <2>2. CASE m # 0
    <3>1. m - 1 \in Nat /\ m - 1 \in S
      BY <1>1, <2>2
    <3>2. PICK h : IsHalf(h, m - 1)
      BY <3>1
    <3> DEFINE g == [k \in 1..m |-> IF k = m THEN HalfAt(h, m) ELSE h[k]]
    <3>3. ASSUME NEW k \in 1..m PROVE g[k] = HalfAt(g, k)
      <4>1. k > 2 => (k + 1) \div 2 \in 1..(m - 1)
        OBVIOUS
      <4>2. k > 2 => g[(k + 1) \div 2] = h[(k + 1) \div 2]
        BY <4>1
      <4>3. HalfAt(g, k) = HalfAt(h, k)
        BY <4>2 DEF HalfAt
      <4>4. CASE k = m
        BY <4>3, <4>4
      <4>5. CASE k # m
        <5>1. k \in 1..(m - 1)
          BY <4>5
        <5>2. h[k] = HalfAt(h, k)
          BY <3>2, <5>1 DEF IsHalf
        <5> QED
          BY <4>3, <4>5, <5>2
      <4> QED
        BY <4>4, <4>5
    <3>4. IsHalf(g, m)
      BY <3>3 DEF IsHalf
    <3> HIDE DEF g
    <3> QED
      BY <3>4
  <2> QED
    BY <2>1, <2>2
<1> HIDE DEF S
<1>2. n \in S
  BY <1>1, FromBelow
<1> QED
  BY <1>2 DEF S

(* The split of n leaves: a power of two below n and not below its half.   *)
LEMMA SplitIsPower ==
    ASSUME NEW n \in Nat, n > 1
    PROVE  /\ SplitAt(n) \in Nat /\ IsPower(SplitAt(n))
           /\ SplitAt(n) < n /\ n =< 2 * SplitAt(n)
<1>1. PICK h : h = [k \in 1..n |-> IF k =< 2 THEN 1 ELSE 2 * h[(k + 1) \div 2]] /\ SplitAt(n) = h[n]
  <2> DEFINE h == CHOOSE h : h = [k \in 1..n |-> IF k =< 2 THEN 1 ELSE 2 * h[(k + 1) \div 2]]
  <2>1. \E g : g = [k \in 1..n |-> IF k =< 2 THEN 1 ELSE 2 * g[(k + 1) \div 2]]
    BY HalfIsThere DEF IsHalf, HalfAt
  <2>2. h = [k \in 1..n |-> IF k =< 2 THEN 1 ELSE 2 * h[(k + 1) \div 2]]
    BY <2>1
  <2>3. SplitAt(n) = h[n]
    BY DEF SplitAt
  <2> HIDE DEF h
  <2> QED
    BY <2>2, <2>3
<1> DEFINE Good(k) == k > 1 => h[k] \in Nat /\ IsPower(h[k]) /\ h[k] < k /\ k =< 2 * h[k]
           S == {k \in Nat : k =< n => Good(k)}
<1>2. ASSUME NEW k \in Nat, \A j \in 0..(k - 1) : j \in S PROVE k \in S
  <2> SUFFICES ASSUME k =< n, k > 1 PROVE Good(k)
    OBVIOUS
  <2>1. h[k] = IF k =< 2 THEN 1 ELSE 2 * h[(k + 1) \div 2]
    <3>1. k \in 1..n
      OBVIOUS
    <3> QED
      BY <1>1, <3>1
  <2>2. CASE k = 2
    BY <2>1, <2>2, OneIsPower
  <2>3. CASE k > 2
    <3> DEFINE j == (k + 1) \div 2
    <3>1. j \in 0..(k - 1) /\ j > 1 /\ j =< n /\ (k = 2 * j \/ k = 2 * j - 1)
      BY <2>3
    <3>2. Good(j)
      BY <1>2, <3>1
    <3>3. h[k] = 2 * h[j]
      BY <2>1, <2>3
    <3> HIDE DEF j
    <3>4. PICK g : g = h[j]
      OBVIOUS
    <3>5. g \in Nat /\ IsPower(g) /\ g < j /\ j =< 2 * g /\ h[k] = 2 * g
      BY <3>1, <3>2, <3>3, <3>4
    <3>6. 2 * g \in Nat /\ IsPower(2 * g) /\ 2 * g < k /\ k =< 2 * (2 * g)
      BY <3>1, <3>5, PowerDoubles
    <3> QED
      BY <3>5, <3>6
  <2> QED
    BY <2>2, <2>3
<1>3. n \in S
  <2> HIDE DEF S
  <2> QED
    BY <1>2, FromBelow
<1> QED
  BY <1>1, <1>3

-----------------------------------------------------------------------------
(* The place of a last subtree at the first level where it has a sibling.  *)
LiftAt(u, q) == IF q % 2 = 1 \/ q = 0 THEN q ELSE u[q \div 2]
IsLift(u, p) == u = [q \in 0..p |-> LiftAt(u, q)]

LEMMA LiftIsThere ==
    ASSUME NEW p \in Nat
    PROVE  \E u : IsLift(u, p)
<1> DEFINE S == {m \in Nat : \E u : IsLift(u, m)}
<1>1. ASSUME NEW m \in Nat, \A k \in 0..(m - 1) : k \in S PROVE m \in S
  <2>1. CASE m = 0
    <3>1. IsLift([q \in 0..0 |-> 0], 0)
      BY DEF IsLift, LiftAt
    <3> QED
      BY <2>1, <3>1
  <2>2. CASE m # 0
    <3>1. m - 1 \in Nat /\ m - 1 \in S
      BY <1>1, <2>2
    <3>2. PICK u : IsLift(u, m - 1)
      BY <3>1
    <3> DEFINE g == [q \in 0..m |-> IF q = m THEN LiftAt(u, m) ELSE u[q]]
    <3>3. ASSUME NEW q \in 0..m PROVE g[q] = LiftAt(g, q)
      <4>1. q > 0 => q \div 2 \in 0..(m - 1)
        OBVIOUS
      <4>2. q > 0 => g[q \div 2] = u[q \div 2]
        BY <4>1
      <4>3. LiftAt(g, q) = LiftAt(u, q)
        BY <4>2 DEF LiftAt
      <4>4. CASE q = m
        BY <4>3, <4>4
      <4>5. CASE q # m
        <5>1. q \in 0..(m - 1)
          BY <4>5
        <5>2. u[q] = LiftAt(u, q)
          BY <3>2, <5>1 DEF IsLift
        <5> QED
          BY <4>3, <4>5, <5>2
      <4> QED
        BY <4>4, <4>5
    <3>4. IsLift(g, m)
      BY <3>3 DEF IsLift
    <3> HIDE DEF g
    <3> QED
      BY <3>4
  <2> QED
    BY <2>1, <2>2
<1> HIDE DEF S
<1>2. p \in S
  BY <1>1, FromBelow
<1> QED
  BY <1>2 DEF S

LEMMA LiftedAt ==
    ASSUME NEW p \in Nat
    PROVE  \E u : Lifted(p) = u[p] /\ \A q \in 0..p : u[q] = LiftAt(u, q)
<1> DEFINE u == CHOOSE u : u = [q \in 0..p |-> IF q % 2 = 1 \/ q = 0 THEN q ELSE u[q \div 2]]
<1>1. \E g : g = [q \in 0..p |-> IF q % 2 = 1 \/ q = 0 THEN q ELSE g[q \div 2]]
  BY LiftIsThere DEF IsLift, LiftAt
<1>2. u = [q \in 0..p |-> IF q % 2 = 1 \/ q = 0 THEN q ELSE u[q \div 2]]
  BY <1>1
<1>3. Lifted(p) = u[p]
  BY DEF Lifted
<1> HIDE DEF u
<1>4. \A q \in 0..p : u[q] = LiftAt(u, q)
  BY <1>2, ZenonT(20) DEF LiftAt
<1> QED
  BY <1>3, <1>4

(* The last of a full tree goes up to its root.                            *)
LEMMA LiftedPower ==
    ASSUME NEW p, IsPower(p)
    PROVE  Lifted(p) = 1
<1>0. p \in Nat
  BY PowerHalves
<1>1. PICK u : Lifted(p) = u[p] /\ \A q \in 0..p : u[q] = LiftAt(u, q)
  BY <1>0, LiftedAt
<1> DEFINE S == {q \in Nat : q =< p /\ IsPower(q) => u[q] = 1}
<1>2. ASSUME NEW q \in Nat, \A j \in 0..(q - 1) : j \in S PROVE q \in S
  <2> SUFFICES ASSUME q =< p, IsPower(q) PROVE u[q] = 1
    OBVIOUS
  <2>1. u[q] = LiftAt(u, q)
    BY <1>0, <1>1
  <2>2. CASE q = 1
    BY <2>1, <2>2 DEF LiftAt
  <2>3. CASE q # 1
    <3>1. PICK r \in Nat : q = 2 * r /\ r >= 1 /\ IsPower(r)
      BY <2>3, PowerHalves
    <3>2. q % 2 = 0 /\ q # 0 /\ q \div 2 = r /\ r \in 0..(q - 1) /\ r =< p
      BY <1>0, <3>1
    <3>3. u[r] = 1
      BY <1>2, <3>1, <3>2
    <3> QED
      BY <2>1, <3>2, <3>3 DEF LiftAt
  <2> QED
    BY <2>2, <2>3
<1>3. p \in S
  <2> HIDE DEF S
  <2> QED
    BY <1>0, <1>2, FromBelow
<1> QED
  BY <1>0, <1>1, <1>3

(* Beside a full tree, a last subtree that is not its first goes up as far *)
(* as it does alone.                                                       *)
LEMMA LiftedBeside ==
    ASSUME NEW p, IsPower(p), NEW b \in Nat, 0 < b, b < p
    PROVE  \E r \in Nat : /\ IsPower(r)
                          /\ Lifted(b) \div 2 \in Nat /\ Lifted(b) \div 2 < r
                          /\ Lifted(p + b) \div 2 = r + (Lifted(b) \div 2)
<1>0. p \in Nat /\ p + b \in Nat
  BY PowerHalves
<1>1. PICK u : Lifted(p + b) = u[p + b] /\ \A q \in 0..(p + b) : u[q] = LiftAt(u, q)
  BY <1>0, LiftedAt
<1>2. PICK v : Lifted(b) = v[b] /\ \A q \in 0..b : v[q] = LiftAt(v, q)
  BY LiftedAt
<1> DEFINE Good(c, q) == \E r \in Nat : /\ IsPower(r)
                                       /\ v[c] \div 2 \in Nat /\ v[c] \div 2 < r
                                       /\ u[q + c] \div 2 = r + (v[c] \div 2)
           S == {c \in Nat : 0 < c /\ c =< b =>
                   \A q \in Nat : IsPower(q) /\ c < q /\ q =< p => Good(c, q)}
<1>3. ASSUME NEW c \in Nat, \A j \in 0..(c - 1) : j \in S PROVE c \in S
  <2> SUFFICES ASSUME 0 < c, c =< b, NEW q \in Nat, IsPower(q), c < q, q =< p PROVE Good(c, q)
    OBVIOUS
  <2>1. u[q + c] = LiftAt(u, q + c) /\ v[c] = LiftAt(v, c)
    <3>1. q + c \in 0..(p + b) /\ c \in 0..b
      BY <1>0
    <3> QED
      BY <1>1, <1>2, <3>1
  <2>2. PICK r \in Nat : q = 2 * r /\ r >= 1 /\ IsPower(r)
    BY PowerHalves
  <2>3. CASE c % 2 = 1
    <3>1. (q + c) % 2 = 1 /\ c \div 2 \in Nat /\ c \div 2 < r /\ (q + c) \div 2 = r + (c \div 2)
      BY <2>2, <2>3
    <3>2. u[q + c] = q + c /\ v[c] = c
      BY <2>1, <2>3, <3>1 DEF LiftAt
    <3> QED
      BY <2>2, <3>1, <3>2
  <2>4. CASE c % 2 # 1
    <3>1. PICK d \in Nat : c = 2 * d
      BY <2>4
    <3>2. /\ (q + c) % 2 # 1 /\ q + c # 0 /\ (q + c) \div 2 = r + d /\ c \div 2 = d /\ c # 0
          /\ 0 < d /\ d =< b /\ d < r /\ r =< p /\ d \in 0..(c - 1)
      BY <1>0, <2>2, <2>4, <3>1
    <3>3. u[q + c] = u[r + d] /\ v[c] = v[d]
      BY <2>1, <2>4, <3>2 DEF LiftAt
    <3>4. Good(d, r)
      BY <1>3, <2>2, <3>2
    <3> QED
      BY <3>3, <3>4
  <2> QED
    BY <2>3, <2>4
<1>4. b \in S
  <2> HIDE DEF S
  <2> QED
    BY <1>3, FromBelow
<1>5. Good(b, p)
  BY <1>0, <1>4
<1> QED
  BY <1>1, <1>2, <1>5

-----------------------------------------------------------------------------
(* Two walks side by side: A over a tree of more than one leaf, B over the *)
(* part of it that has the leaf.  The left part is a full tree; beside the *)
(* right part, which is no larger, there is a full tree.                   *)
State(w) == /\ w = [ok |-> w.ok, fn |-> w.fn, sn |-> w.sn, hash |-> w.hash]
            /\ w.ok = TRUE /\ w.fn \in Nat /\ w.sn \in Nat

LeftPart(A, B) == /\ A.fn = B.fn /\ A.fn =< B.sn /\ IsPower(B.sn + 1)
                  /\ B.sn < A.sn /\ A.sn < 2 * (B.sn + 1)

RightPart(A, B) == \E p \in Nat : /\ IsPower(p)
                                 /\ A.fn = p + B.fn /\ A.sn = p + B.sn
                                 /\ B.fn =< B.sn /\ B.sn < p

Part(left, A, B) == IF left THEN LeftPart(A, B) ELSE RightPart(A, B)

Joined(left, hash, x) == IF left THEN NodeHash(hash, x) ELSE NodeHash(x, hash)

SideBySide(left, A, B) == State(A) /\ State(B) /\ A.hash = B.hash /\ Part(left, A, B)

LEMMA StepOnce ==
    ASSUME NEW w, State(w), w.sn # 0, w.fn # w.sn, NEW x
    PROVE  WalkStep(w, x) = [ok |-> TRUE, fn |-> w.fn \div 2, sn |-> w.sn \div 2,
                             hash |-> IF w.fn % 2 = 1 THEN NodeHash(x, w.hash)
                                                     ELSE NodeHash(w.hash, x)]
  BY DEF WalkStep, State

LEMMA StepLast ==
    ASSUME NEW w, State(w), w.sn # 0, w.fn = w.sn, NEW x
    PROVE  WalkStep(w, x) = [ok |-> TRUE, fn |-> Lifted(w.fn) \div 2, sn |-> Lifted(w.sn) \div 2,
                             hash |-> NodeHash(x, w.hash)]
  BY DEF WalkStep, State

LEMMA StepOver ==
    ASSUME NEW w, w.sn = 0 \/ w.ok = FALSE, NEW x
    PROVE  WalkStep(w, x).ok = FALSE
  BY DEF WalkStep

LEMMA LiftedOdd ==
    ASSUME NEW p \in Nat, p % 2 = 1
    PROVE  Lifted(p) = p
<1>1. PICK u : Lifted(p) = u[p] /\ \A q \in 0..p : u[q] = LiftAt(u, q)
  BY LiftedAt
<1> QED
  BY <1>1 DEF LiftAt

(* In the left part: both go up one level, until B is at its root.         *)
LEMMA LeftGoesOn ==
    ASSUME NEW A, NEW B, NEW x, SideBySide(TRUE, A, B)
    PROVE  /\ B.sn # 0 => SideBySide(TRUE, WalkStep(A, x), WalkStep(B, x))
           /\ B.sn = 0 => WalkStep(A, x) = [ok |-> TRUE, fn |-> 0, sn |-> 0,
                                            hash |-> Joined(TRUE, B.hash, x)]
<1>0. State(A) /\ State(B) /\ A.hash = B.hash /\ LeftPart(A, B)
  BY DEF SideBySide, Part
<1>1. PICK f \in Nat, a \in Nat, b \in Nat : A.fn = f /\ B.fn = f /\ A.sn = a /\ B.sn = b
  BY <1>0 DEF State, LeftPart
<1>2. f =< b /\ IsPower(b + 1) /\ b < a /\ a < 2 * (b + 1)
  BY <1>0, <1>1 DEF LeftPart
<1>3. WalkStep(A, x) = [ok |-> TRUE, fn |-> f \div 2, sn |-> a \div 2,
                        hash |-> IF f % 2 = 1 THEN NodeHash(x, A.hash) ELSE NodeHash(A.hash, x)]
  BY <1>0, <1>1, <1>2, StepOnce
<1>4. ASSUME b # 0 PROVE SideBySide(TRUE, WalkStep(A, x), WalkStep(B, x))
  <2>1. PICK r \in Nat : b + 1 = 2 * r /\ r >= 1 /\ IsPower(r)
    BY <1>2, <1>4, PowerHalves
  <2>2. WalkStep(B, x) = [ok |-> TRUE, fn |-> f \div 2, sn |-> b \div 2,
                          hash |-> IF f % 2 = 1 THEN NodeHash(x, B.hash) ELSE NodeHash(B.hash, x)]
    <3>1. CASE f = b
      <4>1. b % 2 = 1
        BY <2>1
      <4> QED
        BY <1>0, <1>1, <1>4, <3>1, <4>1, StepLast, LiftedOdd
    <3>2. CASE f # b
      BY <1>0, <1>1, <1>4, <3>2, StepOnce
    <3> QED
      BY <3>1, <3>2
  <2>3. /\ f \div 2 \in Nat /\ a \div 2 \in Nat /\ b \div 2 \in Nat /\ (b \div 2) + 1 = r
        /\ f \div 2 =< b \div 2 /\ b \div 2 < a \div 2 /\ a \div 2 < 2 * ((b \div 2) + 1)
    BY <1>2, <2>1
  <2>4. State(WalkStep(A, x)) /\ State(WalkStep(B, x)) /\ WalkStep(A, x).hash = WalkStep(B, x).hash
    BY <1>0, <1>3, <2>2, <2>3 DEF State
  <2>5. LeftPart(WalkStep(A, x), WalkStep(B, x))
    BY <1>3, <2>1, <2>2, <2>3 DEF LeftPart
  <2> QED
    BY <2>4, <2>5 DEF SideBySide, Part
<1>5. ASSUME b = 0
      PROVE WalkStep(A, x) = [ok |-> TRUE, fn |-> 0, sn |-> 0, hash |-> Joined(TRUE, B.hash, x)]
  <2>1. f = 0 /\ a = 1 /\ f % 2 # 1 /\ f \div 2 = 0 /\ a \div 2 = 0
    BY <1>2, <1>5
  <2> QED
    BY <1>0, <1>3, <2>1 DEF Joined
<1> QED
  BY <1>1, <1>4, <1>5

(* In the right part: until B is at its root, A is at a right child then.  *)
LEMMA RightGoesOn ==
    ASSUME NEW A, NEW B, NEW x, SideBySide(FALSE, A, B)
    PROVE  /\ B.sn # 0 => SideBySide(FALSE, WalkStep(A, x), WalkStep(B, x))
           /\ B.sn = 0 => WalkStep(A, x) = [ok |-> TRUE, fn |-> 0, sn |-> 0,
                                            hash |-> Joined(FALSE, B.hash, x)]
<1>0. State(A) /\ State(B) /\ A.hash = B.hash /\ RightPart(A, B)
  BY DEF SideBySide, Part
<1>1. PICK f \in Nat, b \in Nat : B.fn = f /\ B.sn = b
  BY <1>0 DEF State
<1>2. PICK p \in Nat : IsPower(p) /\ A.fn = p + f /\ A.sn = p + b /\ f =< b /\ b < p
  BY <1>0, <1>1 DEF RightPart
<1>3. ASSUME b # 0 PROVE SideBySide(FALSE, WalkStep(A, x), WalkStep(B, x))
  <2>1. PICK r \in Nat : p = 2 * r /\ r >= 1 /\ IsPower(r)
    BY <1>2, <1>3, PowerHalves
  <2>2. CASE f = b
    <3>1. PICK g \in Nat, t \in Nat : /\ IsPower(t) /\ g < t
                                     /\ Lifted(b) \div 2 = g /\ Lifted(p + b) \div 2 = t + g
      BY <1>2, <1>3, LiftedBeside
    <3>2. WalkStep(A, x) = [ok |-> TRUE, fn |-> t + g, sn |-> t + g, hash |-> NodeHash(x, A.hash)]
      BY <1>0, <1>2, <1>3, <2>2, <3>1, StepLast
    <3>3. WalkStep(B, x) = [ok |-> TRUE, fn |-> g, sn |-> g, hash |-> NodeHash(x, B.hash)]
      BY <1>0, <1>1, <1>3, <2>2, <3>1, StepLast
    <3>4. State(WalkStep(A, x)) /\ State(WalkStep(B, x)) /\ WalkStep(A, x).hash = WalkStep(B, x).hash
      BY <1>0, <3>2, <3>3 DEF State
    <3>5. RightPart(WalkStep(A, x), WalkStep(B, x))
      BY <3>1, <3>2, <3>3 DEF RightPart
    <3> QED
      BY <3>4, <3>5 DEF SideBySide, Part
  <2>3. CASE f # b
    <3>1. /\ f \div 2 \in Nat /\ b \div 2 \in Nat /\ f \div 2 =< b \div 2 /\ b \div 2 < r
          /\ (p + f) \div 2 = r + (f \div 2) /\ (p + b) \div 2 = r + (b \div 2)
          /\ (p + f) % 2 = 1 <=> f % 2 = 1
      BY <1>2, <2>1
    <3>2. WalkStep(A, x) = [ok |-> TRUE, fn |-> r + (f \div 2), sn |-> r + (b \div 2),
                            hash |-> IF f % 2 = 1 THEN NodeHash(x, A.hash) ELSE NodeHash(A.hash, x)]
      <4>1. A.sn # 0 /\ A.fn # A.sn
        BY <1>2, <1>3, <2>3
      <4>2. WalkStep(A, x) = [ok |-> TRUE, fn |-> (p + f) \div 2, sn |-> (p + b) \div 2,
                hash |-> IF (p + f) % 2 = 1 THEN NodeHash(x, A.hash) ELSE NodeHash(A.hash, x)]
        BY <1>0, <1>2, <4>1, StepOnce
      <4> QED
        BY <3>1, <4>2
    <3>3. WalkStep(B, x) = [ok |-> TRUE, fn |-> f \div 2, sn |-> b \div 2,
                            hash |-> IF f % 2 = 1 THEN NodeHash(x, B.hash) ELSE NodeHash(B.hash, x)]
      BY <1>0, <1>1, <1>3, <2>3, StepOnce
    <3>4. State(WalkStep(A, x)) /\ State(WalkStep(B, x)) /\ WalkStep(A, x).hash = WalkStep(B, x).hash
      BY <1>0, <3>1, <3>2, <3>3 DEF State
    <3>5. RightPart(WalkStep(A, x), WalkStep(B, x))
      BY <2>1, <3>1, <3>2, <3>3 DEF RightPart
    <3> QED
      BY <3>4, <3>5 DEF SideBySide, Part
  <2> QED
    BY <2>2, <2>3
<1>4. ASSUME b = 0
      PROVE WalkStep(A, x) = [ok |-> TRUE, fn |-> 0, sn |-> 0, hash |-> Joined(FALSE, B.hash, x)]
  <2>1. A.fn = p /\ A.sn = p /\ A.sn # 0
    BY <1>2, <1>4
  <2>2. Lifted(p) = 1 /\ 1 \div 2 = 0
    BY <1>2, LiftedPower
  <2> QED
    BY <1>0, <2>1, <2>2, StepLast DEF Joined
<1> QED
  BY <1>1, <1>3, <1>4

LEMMA SideGoesOn ==
    ASSUME NEW left \in BOOLEAN, NEW A, NEW B, NEW x, SideBySide(left, A, B)
    PROVE  /\ B.sn # 0 => SideBySide(left, WalkStep(A, x), WalkStep(B, x))
           /\ B.sn = 0 => WalkStep(A, x) = [ok |-> TRUE, fn |-> 0, sn |-> 0,
                                            hash |-> Joined(left, B.hash, x)]
<1>1. CASE left = TRUE
  BY <1>1, LeftGoesOn
<1>2. CASE left = FALSE
  BY <1>2, RightGoesOn
<1> QED
  BY <1>1, <1>2

-----------------------------------------------------------------------------
(* A whole walk, from a hash at a place.                                   *)
Start(hash, fn, sn) == [ok |-> TRUE, fn |-> fn, sn |-> sn, hash |-> hash]

WalkAt(w, start, q, k) == IF k = 0 THEN start ELSE WalkStep(w[k - 1], q[k])
IsWalk(w, start, q) == w = [k \in 0..Len(q) |-> WalkAt(w, start, q, k)]

LEMMA WalkIsThere ==
    ASSUME NEW S, NEW q \in Seq(S), NEW start
    PROVE  \E w : IsWalk(w, start, q)
<1> DEFINE T == {m \in Nat : \E w : w = [k \in 0..m |-> WalkAt(w, start, q, k)]}
<1>1. ASSUME NEW m \in Nat, \A k \in 0..(m - 1) : k \in T PROVE m \in T
  <2>1. CASE m = 0
    <3> DEFINE g == [k \in 0..0 |-> start]
    <3>1. g = [k \in 0..0 |-> WalkAt(g, start, q, k)]
      BY DEF WalkAt
    <3> HIDE DEF g
    <3> QED
      BY <2>1, <3>1
  <2>2. CASE m # 0
    <3>1. m - 1 \in Nat /\ m - 1 \in T
      BY <1>1, <2>2
    <3>2. PICK w : w = [k \in 0..(m - 1) |-> WalkAt(w, start, q, k)]
      BY <3>1
    <3> DEFINE g == [k \in 0..m |-> IF k = m THEN WalkAt(w, start, q, m) ELSE w[k]]
    <3>3. ASSUME NEW k \in 0..m PROVE g[k] = WalkAt(g, start, q, k)
      <4>1. k # 0 => k - 1 \in 0..(m - 1)
        OBVIOUS
      <4>2. k # 0 => g[k - 1] = w[k - 1]
        BY <4>1
      <4>3. WalkAt(g, start, q, k) = WalkAt(w, start, q, k)
        BY <4>2 DEF WalkAt
      <4>4. CASE k = m
        BY <4>3, <4>4
      <4>5. CASE k # m
        <5>1. k \in 0..(m - 1)
          BY <4>5
        <5>2. w[k] = WalkAt(w, start, q, k)
          BY <3>2, <5>1
        <5> QED
          BY <4>3, <4>5, <5>2
      <4> QED
        BY <4>4, <4>5
    <3>4. g = [k \in 0..m |-> WalkAt(g, start, q, k)]
      BY <3>3
    <3> HIDE DEF g
    <3> QED
      BY <3>4
  <2> QED
    BY <2>1, <2>2
<1> HIDE DEF T
<1>2. Len(q) \in T
  BY <1>1, FromBelow
<1> QED
  BY <1>2 DEF T, IsWalk

LEMMA WalkGoes ==
    ASSUME NEW S, NEW q \in Seq(S), NEW start, NEW w, IsWalk(w, start, q)
    PROVE  /\ w[0] = start
           /\ \A k \in 1..Len(q) : w[k] = WalkStep(w[k - 1], q[k])
<1>1. \A k \in 0..Len(q) : w[k] = WalkAt(w, start, q, k)
  BY ZenonT(20) DEF IsWalk
<1>2. w[0] = start
  BY <1>1 DEF WalkAt
<1>3. \A k \in 1..Len(q) : w[k] = WalkStep(w[k - 1], q[k])
  <2> SUFFICES ASSUME NEW k \in 1..Len(q) PROVE w[k] = WalkStep(w[k - 1], q[k])
    OBVIOUS
  <2>1. k \in 0..Len(q) /\ k # 0
    OBVIOUS
  <2> QED
    BY <1>1, <2>1 DEF WalkAt
<1> QED
  BY <1>2, <1>3

Final(w) == w.ok = TRUE /\ w.sn = 0

(* After t siblings: still side by side, or B has had one too many and A   *)
(* is at its end or past it.                                               *)
Phase(left, A, B) ==
    SideBySide(left, A, B) \/ (B.ok = FALSE /\ (A.ok = FALSE \/ A.sn = 0))

LEMMA PhaseGoesOn ==
    ASSUME NEW left \in BOOLEAN, NEW A, NEW B, NEW x, Phase(left, A, B)
    PROVE  Phase(left, WalkStep(A, x), WalkStep(B, x))
<1>1. CASE SideBySide(left, A, B) /\ B.sn # 0
  BY <1>1, SideGoesOn DEF Phase
<1>2. CASE SideBySide(left, A, B) /\ B.sn = 0
  <2>1. WalkStep(B, x).ok = FALSE
    BY <1>2, StepOver
  <2>2. WalkStep(A, x).sn = 0
    BY <1>2, SideGoesOn
  <2> QED
    BY <2>1, <2>2 DEF Phase
<1>3. CASE B.ok = FALSE /\ (A.ok = FALSE \/ A.sn = 0)
  BY <1>3, StepOver DEF Phase
<1> QED
  BY <1>1, <1>2, <1>3 DEF Phase

LEMMA SideNotFinal ==
    ASSUME NEW left \in BOOLEAN, NEW A, NEW B, SideBySide(left, A, B)
    PROVE  A.sn # 0 /\ A.ok = TRUE /\ B.ok = TRUE /\ A.sn \in Nat /\ B.sn \in Nat
<1>1. State(A) /\ State(B) /\ Part(left, A, B)
  BY DEF SideBySide
<1>2. CASE left
  BY <1>1, <1>2 DEF Part, LeftPart, State
<1>3. CASE ~left
  <2>1. PICK p \in Nat : IsPower(p) /\ A.sn = p + B.sn
    BY <1>1, <1>3 DEF Part, RightPart
  <2>2. p >= 1
    BY <2>1, PowerHalves
  <2> QED
    BY <1>1, <2>1, <2>2 DEF State
<1> QED
  BY <1>2, <1>3

(* The walk over the tree is its part's walk and one sibling more.         *)
LEMMA WalkOfPart ==
    ASSUME NEW S, NEW q \in Seq(S), NEW x \in S, NEW left \in BOOLEAN,
           NEW startA, NEW startB, SideBySide(left, startA, startB),
           NEW wA, IsWalk(wA, startA, Append(q, x)),
           NEW wB, IsWalk(wB, startB, q)
    PROVE  LET A == wA[Len(q) + 1]
               B == wB[Len(q)]
           IN  /\ Final(A) <=> Final(B)
               /\ Final(A) => A.hash = Joined(left, B.hash, x)
<1> DEFINE n == Len(q)
           T == {t \in Nat : t =< n => Phase(left, wA[t], wB[t])}
<1>0. /\ Append(q, x) \in Seq(S) /\ Len(Append(q, x)) = n + 1 /\ n \in Nat
      /\ \A k \in 1..n : Append(q, x)[k] = q[k]
      /\ Append(q, x)[n + 1] = x
  OBVIOUS
<1>1. /\ wA[0] = startA
      /\ \A k \in 1..(n + 1) : wA[k] = WalkStep(wA[k - 1], Append(q, x)[k])
  <2> DEFINE r == Append(q, x)
  <2>1. r \in Seq(S) /\ Len(r) = n + 1 /\ IsWalk(wA, startA, r)
    BY <1>0
  <2> HIDE DEF r, n
  <2>2. wA[0] = startA /\ \A k \in 1..Len(r) : wA[k] = WalkStep(wA[k - 1], r[k])
    BY <2>1, WalkGoes
  <2> QED
    BY <2>1, <2>2 DEF r
<1>2. wB[0] = startB /\ \A k \in 1..n : wB[k] = WalkStep(wB[k - 1], q[k])
  BY WalkGoes
<1> HIDE DEF n
<1>3. ASSUME NEW t \in Nat, \A k \in 0..(t - 1) : k \in T PROVE t \in T
  <2>1. CASE t = 0
    BY <1>1, <1>2, <2>1 DEF Phase
  <2>2. CASE t # 0 /\ t =< n
    <3>1. t - 1 \in 0..(t - 1) /\ t - 1 =< n /\ t \in 1..n /\ t \in 1..(n + 1)
      BY <1>0, <2>2
    <3>2. Phase(left, wA[t - 1], wB[t - 1])
      BY <1>3, <3>1
    <3>3. wA[t] = WalkStep(wA[t - 1], q[t]) /\ wB[t] = WalkStep(wB[t - 1], q[t])
      BY <1>0, <1>1, <1>2, <3>1
    <3> QED
      BY <3>2, <3>3, PhaseGoesOn
  <2> QED
    BY <2>1, <2>2
<1>4. Phase(left, wA[n], wB[n])
  <2>1. n \in T
    <3> HIDE DEF T
    <3> QED
      BY <1>0, <1>3, FromBelow
  <2> QED
    BY <1>0, <2>1
<1>5. wA[n + 1] = WalkStep(wA[n], x)
  <2>1. n + 1 \in 1..(n + 1) /\ (n + 1) - 1 = n
    BY <1>0
  <2> QED
    BY <1>0, <1>1, <2>1
<1>6. PICK A, B, C : A = wA[n] /\ B = wB[n] /\ C = wA[n + 1]
  OBVIOUS
<1>7. (Final(C) <=> Final(B)) /\ (Final(C) => C.hash = Joined(left, B.hash, x))
  <2>1. CASE SideBySide(left, A, B) /\ B.sn # 0
    <3>1. SideBySide(left, C, WalkStep(B, x))
      BY <1>5, <1>6, <2>1, SideGoesOn
    <3>2. C.sn # 0
      BY <3>1, SideNotFinal
    <3> QED
      BY <2>1, <3>2 DEF Final
  <2>2. CASE SideBySide(left, A, B) /\ B.sn = 0
    <3>1. C = [ok |-> TRUE, fn |-> 0, sn |-> 0, hash |-> Joined(left, B.hash, x)]
      <4>1. WalkStep(A, x) = [ok |-> TRUE, fn |-> 0, sn |-> 0, hash |-> Joined(left, B.hash, x)]
        BY <2>2, SideGoesOn
      <4>2. C = WalkStep(A, x)
        BY <1>5, <1>6
      <4> QED
        BY <4>1, <4>2
    <3>2. B.ok = TRUE
      BY <2>2, SideNotFinal
    <3> QED
      BY <2>2, <3>1, <3>2 DEF Final
  <2>3. CASE B.ok = FALSE /\ (A.ok = FALSE \/ A.sn = 0)
    <3>1. C.ok = FALSE
      BY <1>5, <1>6, <2>3, StepOver
    <3> QED
      BY <2>3, <3>1 DEF Final
  <2> QED
    BY <1>4, <1>6, <2>1, <2>2, <2>3 DEF Phase
<1> QED
  BY <1>6, <1>7 DEF n

-----------------------------------------------------------------------------
(* The hashes of a log's ranges, and the path of one entry through them.   *)
TreeAt(h, s, n) ==
    [i \in 1..(Len(s) - n + 1) |->
       IF n = 1 THEN LeafHash(s[i])
       ELSE NodeHash(h[SplitAt(n)][i], h[n - SplitAt(n)][i + SplitAt(n)])]
IsTree(h, s) == h = [n \in 1..Len(s) |-> TreeAt(h, s, n)]

PathAt(p, h, s, m, n) ==
    [i \in 1..(Len(s) - n + 1) |->
       IF n = 1 THEN <<>>
       ELSE LET mid == i + SplitAt(n)
            IN  IF m < mid
                  THEN Append(p[SplitAt(n)][i], h[n - SplitAt(n)][mid])
                  ELSE Append(p[n - SplitAt(n)][mid], h[SplitAt(n)][i])]
IsPath(p, h, s, m) == p = [n \in 1..Len(s) |-> PathAt(p, h, s, m, n)]

LEMMA PartsAreSmaller ==
    ASSUME NEW n \in Nat, n > 1
    PROVE  SplitAt(n) \in 1..(n - 1) /\ n - SplitAt(n) \in 1..(n - 1)
<1>1. PICK k : k = SplitAt(n)
  OBVIOUS
<1>2. k \in Nat /\ k < n /\ n =< 2 * k
  BY <1>1, SplitIsPower
<1> QED
  BY <1>1, <1>2

LEMMA TreeIsThere ==
    ASSUME NEW S, NEW s \in Seq(S)
    PROVE  \E h : IsTree(h, s)
<1> DEFINE T == {m \in Nat : \E h : h = [n \in 1..m |-> TreeAt(h, s, n)]}
<1>1. ASSUME NEW m \in Nat, \A k \in 0..(m - 1) : k \in T PROVE m \in T
  <2>1. CASE m = 0
    <3> DEFINE g == [n \in 1..0 |-> 0]
    <3>1. g = [n \in 1..0 |-> TreeAt(g, s, n)]
      OBVIOUS
    <3> HIDE DEF g
    <3> QED
      BY <2>1, <3>1
  <2>2. CASE m # 0
    <3>1. m - 1 \in Nat /\ m - 1 \in T
      BY <1>1, <2>2
    <3>2. PICK h : h = [n \in 1..(m - 1) |-> TreeAt(h, s, n)]
      BY <3>1
    <3> DEFINE g == [n \in 1..m |-> IF n = m THEN TreeAt(h, s, m) ELSE h[n]]
    <3>3. ASSUME NEW n \in 1..m PROVE g[n] = TreeAt(g, s, n)
      <4>1. n # 1 => SplitAt(n) \in 1..(m - 1) /\ n - SplitAt(n) \in 1..(m - 1)
        <5>1. n # 1 => n > 1 /\ 1..(n - 1) \subseteq 1..(m - 1) /\ n \in Nat
          OBVIOUS
        <5> QED
          BY <5>1, PartsAreSmaller
      <4>2. n # 1 => g[SplitAt(n)] = h[SplitAt(n)] /\ g[n - SplitAt(n)] = h[n - SplitAt(n)]
        <5>1. \A k \in 1..(m - 1) : g[k] = h[k]
          OBVIOUS
        <5> HIDE DEF g
        <5> QED
          BY <4>1, <5>1
      <4>3. TreeAt(g, s, n) = TreeAt(h, s, n)
        <5> HIDE DEF g
        <5> QED
          BY <4>2 DEF TreeAt
      <4>4. CASE n = m
        BY <4>3, <4>4
      <4>5. CASE n # m
        <5>1. n \in 1..(m - 1)
          BY <4>5
        <5>2. h[n] = TreeAt(h, s, n)
          BY <3>2, <5>1
        <5> QED
          BY <4>3, <4>5, <5>2
      <4> QED
        BY <4>4, <4>5
    <3>4. g = [n \in 1..m |-> TreeAt(g, s, n)]
      BY <3>3
    <3> HIDE DEF g
    <3> QED
      BY <3>4
  <2> QED
    BY <2>1, <2>2
<1> HIDE DEF T
<1>2. Len(s) \in T
  BY <1>1, FromBelow
<1> QED
  BY <1>2 DEF T, IsTree

LEMMA PathIsThere ==
    ASSUME NEW S, NEW s \in Seq(S), NEW h, NEW e
    PROVE  \E p : IsPath(p, h, s, e)
<1> DEFINE T == {m \in Nat : \E p : p = [n \in 1..m |-> PathAt(p, h, s, e, n)]}
<1>1. ASSUME NEW m \in Nat, \A k \in 0..(m - 1) : k \in T PROVE m \in T
  <2>1. CASE m = 0
    <3> DEFINE g == [n \in 1..0 |-> 0]
    <3>1. g = [n \in 1..0 |-> PathAt(g, h, s, e, n)]
      OBVIOUS
    <3> HIDE DEF g
    <3> QED
      BY <2>1, <3>1
  <2>2. CASE m # 0
    <3>1. m - 1 \in Nat /\ m - 1 \in T
      BY <1>1, <2>2
    <3>2. PICK p : p = [n \in 1..(m - 1) |-> PathAt(p, h, s, e, n)]
      BY <3>1
    <3> DEFINE g == [n \in 1..m |-> IF n = m THEN PathAt(p, h, s, e, m) ELSE p[n]]
    <3>3. ASSUME NEW n \in 1..m PROVE g[n] = PathAt(g, h, s, e, n)
      <4>1. n # 1 => SplitAt(n) \in 1..(m - 1) /\ n - SplitAt(n) \in 1..(m - 1)
        <5>1. n # 1 => n > 1 /\ 1..(n - 1) \subseteq 1..(m - 1) /\ n \in Nat
          OBVIOUS
        <5> QED
          BY <5>1, PartsAreSmaller
      <4>2. n # 1 => g[SplitAt(n)] = p[SplitAt(n)] /\ g[n - SplitAt(n)] = p[n - SplitAt(n)]
        <5>1. \A k \in 1..(m - 1) : g[k] = p[k]
          OBVIOUS
        <5> HIDE DEF g
        <5> QED
          BY <4>1, <5>1
      <4>3. PathAt(g, h, s, e, n) = PathAt(p, h, s, e, n)
        <5> HIDE DEF g
        <5> QED
          BY <4>2 DEF PathAt
      <4>4. CASE n = m
        BY <4>3, <4>4
      <4>5. CASE n # m
        <5>1. n \in 1..(m - 1)
          BY <4>5
        <5>2. p[n] = PathAt(p, h, s, e, n)
          BY <3>2, <5>1
        <5> QED
          BY <4>3, <4>5, <5>2
      <4> QED
        BY <4>4, <4>5
    <3>4. g = [n \in 1..m |-> PathAt(g, h, s, e, n)]
      BY <3>3
    <3> HIDE DEF g
    <3> QED
      BY <3>4
  <2> QED
    BY <2>1, <2>2
<1> HIDE DEF T
<1>2. Len(s) \in T
  BY <1>1, FromBelow
<1> QED
  BY <1>2 DEF T, IsPath

Hashes(h, s) == {h[n][i] : n \in 1..Len(s), i \in 1..Len(s)}

(* A range of n leaves from the i-th on, and its parts of k and n - k.      *)
Ranges(l, n, i) == n \in Nat /\ i \in Nat /\ 1 =< n /\ 1 =< i /\ i + n =< l + 1

AreParts(l, n, i, k) ==
    /\ Ranges(l, n, i) /\ Ranges(l, k, i) /\ Ranges(l, n - k, i + k)
    /\ k = SplitAt(n) /\ IsPower(k) /\ n =< 2 * k /\ n # 1
    /\ k \in 0..(n - 1) /\ n - k \in 0..(n - 1)
    /\ n \in 1..l /\ i \in 1..(l - n + 1)
    /\ k \in 1..l /\ i \in 1..l /\ n - k \in 1..l /\ i + k \in 1..l

LEMMA PartsAreThere ==
    ASSUME NEW l \in Nat, NEW n, NEW i, Ranges(l, n, i), n # 1
    PROVE  \E k \in Nat : AreParts(l, n, i, k)
<1>1. n \in Nat /\ 1 < n
  BY DEF Ranges
<1>2. PICK k \in Nat : k = SplitAt(n) /\ IsPower(k) /\ k < n /\ n =< 2 * k
  BY <1>1, SplitIsPower
<1>3. AreParts(l, n, i, k)
  BY <1>2 DEF AreParts, Ranges
<1> QED
  BY <1>3

HashJoins(h, n, i, k) == h[n][i] = NodeHash(h[k][i], h[n - k][i + k])

LEMMA TreeOfParts ==
    ASSUME NEW s, NEW h, IsTree(h, s), NEW n, NEW i, NEW k, AreParts(Len(s), n, i, k)
    PROVE  HashJoins(h, n, i, k)
<1>1. n # 1 /\ k = SplitAt(n) /\ n \in 1..Len(s) /\ i \in 1..(Len(s) - n + 1)
  BY Zenon DEF AreParts
<1>2. h[n] = TreeAt(h, s, n)
  BY <1>1, Zenon DEF IsTree
<1>3. TreeAt(h, s, n)[i] = NodeHash(h[k][i], h[n - k][i + k])
  BY <1>1, Zenon DEF TreeAt
<1> QED
  BY <1>2, <1>3, Zenon DEF HashJoins

PathJoins(p, h, e, n, i, k) ==
    /\ e < i + k => p[n][i] = Append(p[k][i], h[n - k][i + k])
    /\ ~(e < i + k) => p[n][i] = Append(p[n - k][i + k], h[k][i])

LEMMA PathOfParts ==
    ASSUME NEW s, NEW h, NEW e, NEW p, IsPath(p, h, s, e),
           NEW n, NEW i, NEW k, AreParts(Len(s), n, i, k)
    PROVE  PathJoins(p, h, e, n, i, k)
<1>1. n # 1 /\ k = SplitAt(n) /\ n \in 1..Len(s) /\ i \in 1..(Len(s) - n + 1)
  BY Zenon DEF AreParts
<1>2. p[n] = PathAt(p, h, s, e, n)
  BY <1>1, Zenon DEF IsPath
<1>3. PathAt(p, h, s, e, n)[i] = IF e < i + k THEN Append(p[k][i], h[n - k][i + k])
                                             ELSE Append(p[n - k][i + k], h[k][i])
  BY <1>1, Zenon DEF PathAt
<1> QED
  BY <1>2, <1>3, Zenon DEF PathJoins

LEMMA HashesOfParts ==
    ASSUME NEW s, NEW h, NEW n, NEW i, NEW k, AreParts(Len(s), n, i, k)
    PROVE  h[k][i] \in Hashes(h, s) /\ h[n - k][i + k] \in Hashes(h, s)
<1>1. k \in 1..Len(s) /\ i \in 1..Len(s) /\ n - k \in 1..Len(s) /\ i + k \in 1..Len(s)
  BY Zenon DEF AreParts
<1> QED
  BY <1>1 DEF Hashes

(* A range with the leaf e in it.                                          *)
Holds(l, n, i, e) == Ranges(l, n, i) /\ e \in Nat /\ i =< e /\ e < i + n

LEMMA HeldByPart ==
    ASSUME NEW l \in Nat, NEW n, NEW i, NEW k, AreParts(l, n, i, k), NEW e, Holds(l, n, i, e)
    PROVE  (e < i + k /\ Holds(l, k, i, e)) \/ (~(e < i + k) /\ Holds(l, n - k, i + k, e))
  BY DEF AreParts, Holds, Ranges

LEMMA EmptyIsSeq ==
    ASSUME NEW T
    PROVE  <<>> \in Seq(T)
  OBVIOUS

LEMMA AppendIsSeq ==
    ASSUME NEW T, NEW q \in Seq(T), NEW x \in T
    PROVE  Append(q, x) \in Seq(T)
  OBVIOUS

LEMMA PathIsSeq ==
    ASSUME NEW s, Len(s) \in Nat, NEW h, NEW e, NEW p, IsPath(p, h, s, e),
           NEW n, NEW i, Ranges(Len(s), n, i)
    PROVE  p[n][i] \in Seq(Hashes(h, s))
<1> DEFINE T == {m \in Nat : \A j : Ranges(Len(s), m, j) => p[m][j] \in Seq(Hashes(h, s))}
<1>1. ASSUME NEW m \in Nat, \A k \in 0..(m - 1) : k \in T PROVE m \in T
  <2> SUFFICES ASSUME NEW j, Ranges(Len(s), m, j) PROVE p[m][j] \in Seq(Hashes(h, s))
    OBVIOUS
  <2>1. CASE m = 1
    <3>1. 1 \in 1..Len(s) /\ j \in 1..(Len(s) - 1 + 1)
      BY <2>1 DEF Ranges
    <3>2. p[1] = PathAt(p, h, s, e, 1)
      BY <3>1, Zenon DEF IsPath
    <3>3. PathAt(p, h, s, e, 1)[j] = <<>>
      BY <3>1, Zenon DEF PathAt
    <3>4. p[m][j] = <<>>
      BY <2>1, <3>2, <3>3
    <3> QED
      BY <3>4, EmptyIsSeq, Zenon
  <2>2. CASE m # 1
    <3>1. PICK k \in Nat : AreParts(Len(s), m, j, k)
      BY <2>2, PartsAreThere
    <3>2. PICK q1, q2, x1, x2 : /\ q1 = p[k][j] /\ x1 = h[m - k][j + k]
                               /\ q2 = p[m - k][j + k] /\ x2 = h[k][j]
      OBVIOUS
    <3>3. q1 \in Seq(Hashes(h, s)) /\ q2 \in Seq(Hashes(h, s))
      <4>1. k \in T /\ m - k \in T
        <5> HIDE DEF T
        <5> QED
          BY <1>1, <3>1 DEF AreParts
      <4>2. Ranges(Len(s), k, j) /\ Ranges(Len(s), m - k, j + k)
        BY <3>1, Zenon DEF AreParts
      <4> QED
        BY <3>2, <4>1, <4>2
    <3>4. x1 \in Hashes(h, s) /\ x2 \in Hashes(h, s)
      BY <3>1, <3>2, HashesOfParts, Zenon
    <3>5. p[m][j] = Append(q1, x1) \/ p[m][j] = Append(q2, x2)
      <4>1. PathJoins(p, h, e, m, j, k)
        BY <3>1, PathOfParts, Zenon
      <4> QED
        BY <3>2, <4>1 DEF PathJoins
    <3>6. Append(q1, x1) \in Seq(Hashes(h, s)) /\ Append(q2, x2) \in Seq(Hashes(h, s))
      BY <3>3, <3>4, AppendIsSeq, Zenon
    <3> QED
      BY <3>5, <3>6
  <2> QED
    BY <2>1, <2>2
<1>2. n \in Nat /\ n \in T
  <2>1. n \in Nat
    BY DEF Ranges
  <2> HIDE DEF T
  <2> QED
    BY <1>1, <2>1, FromBelow
<1> QED
  BY <1>2

LEMMA NodesAreDistinct ==
    ASSUME NEW l, NEW r, NEW l2, NEW r2
    PROVE  NodeHash(l, r) = NodeHash(l2, r2) <=> l = l2 /\ r = r2
  BY DEF NodeHash

LEMMA LeavesAreDistinct ==
    ASSUME NEW x, NEW y
    PROVE  LeafHash(x) = LeafHash(y) <=> x = y
  BY DEF LeafHash

LEMMA AppendsAreDistinct ==
    ASSUME NEW S, NEW q \in Seq(S), NEW x \in S, NEW T, NEW r \in Seq(T), NEW y \in T
    PROVE  Append(q, x) = Append(r, y) <=> q = r /\ x = y
<1>1. ASSUME Append(q, x) = Append(r, y) PROVE q = r /\ x = y
  <2>1. Len(q) + 1 = Len(r) + 1
    BY <1>1
  <2>2. Len(q) = Len(r)
    BY <2>1
  <2>3. x = y
    <3>1. Append(q, x)[Len(q) + 1] = x /\ Append(r, y)[Len(r) + 1] = y
      OBVIOUS
    <3> QED
      BY <1>1, <2>2, <3>1
  <2>4. ASSUME NEW k \in 1..Len(q) PROVE q[k] = r[k]
    <3>1. Append(q, x)[k] = q[k] /\ Append(r, y)[k] = r[k]
      BY <2>2
    <3> QED
      BY <1>1, <3>1
  <2>5. q = [k \in 1..Len(q) |-> q[k]] /\ r = [k \in 1..Len(r) |-> r[k]]
    OBVIOUS
  <2>6. q = r
    BY <2>2, <2>4, <2>5
  <2> QED
    BY <2>3, <2>6
<1> QED
  BY <1>1

(* A walk from start comes to the hash own exactly when it began with      *)
(* the hash of the entry, and went along the entry's path.                 *)
WalksTo(S, start, own, hash, leaf, path) ==
    \A w : \A q \in Seq(S) : IsWalk(w, start, q) =>
      ((Final(w[Len(q)]) /\ w[Len(q)].hash = own) <=> (hash = leaf /\ q = path))

(* So it is with every range of n leaves that holds the entry.             *)
Decided(h, p, s, e, S, n) ==
    \A i : Holds(Len(s), n, i, e) =>
      \A hash : WalksTo(S, Start(hash, e - i, n - 1), h[n][i], hash, LeafHash(s[e]), p[n][i])

LEMMA OneLeafDecided ==
    ASSUME NEW s, Len(s) \in Nat, NEW h, IsTree(h, s), NEW e, NEW p, IsPath(p, h, s, e), NEW S
    PROVE  Decided(h, p, s, e, S, 1)
<1> SUFFICES ASSUME NEW i, Holds(Len(s), 1, i, e), NEW hash, NEW w, NEW q \in Seq(S),
                    IsWalk(w, Start(hash, e - i, 1 - 1), q)
             PROVE  (Final(w[Len(q)]) /\ w[Len(q)].hash = h[1][i])
                      <=> (hash = LeafHash(s[e]) /\ q = p[1][i])
  BY Zenon DEF Decided, WalksTo
<1>1. i = e /\ e - i = 0 /\ 1 - 1 = 0 /\ 1 \in 1..Len(s) /\ i \in 1..(Len(s) - 1 + 1)
  BY DEF Holds, Ranges
<1>2. h[1][i] = LeafHash(s[e]) /\ p[1][i] = <<>>
  <2>1. h[1] = TreeAt(h, s, 1) /\ p[1] = PathAt(p, h, s, e, 1)
    BY <1>1, Zenon DEF IsTree, IsPath
  <2>2. TreeAt(h, s, 1)[i] = LeafHash(s[i])
    BY <1>1, Zenon DEF TreeAt
  <2>3. PathAt(p, h, s, e, 1)[i] = <<>>
    BY <1>1, Zenon DEF PathAt
  <2> QED
    BY <1>1, <2>1, <2>2, <2>3
<1>3. w[0] = Start(hash, 0, 0) /\ \A k \in 1..Len(q) : w[k] = WalkStep(w[k - 1], q[k])
  BY <1>1, WalkGoes
<1>4. CASE q = <<>>
  BY <1>2, <1>3, <1>4 DEF Final, Start
<1>5. CASE q # <<>>
  <2> DEFINE T == {k \in Nat : k \in 1..Len(q) => w[k].ok = FALSE}
  <2>1. ASSUME NEW k \in Nat, \A j \in 0..(k - 1) : j \in T PROVE k \in T
    <3> SUFFICES ASSUME k \in 1..Len(q) PROVE w[k].ok = FALSE
      OBVIOUS
    <3>1. w[k] = WalkStep(w[k - 1], q[k])
      BY <1>3
    <3>2. CASE k = 1
      <4>1. w[0].sn = 0 /\ k - 1 = 0
        BY <1>3, <3>2 DEF Start
      <4> QED
        BY <3>1, <4>1, StepOver
    <3>3. CASE k # 1
      <4>1. k - 1 \in 0..(k - 1) /\ k - 1 \in 1..Len(q)
        BY <3>3
      <4>2. w[k - 1].ok = FALSE
        BY <2>1, <4>1
      <4> QED
        BY <3>1, <4>2, StepOver
    <3> QED
      BY <3>2, <3>3
  <2>2. Len(q) \in 1..Len(q) /\ Len(q) \in Nat
    BY <1>5
  <2>3. Len(q) \in T
    <3> HIDE DEF T
    <3> QED
      BY <2>1, <2>2, FromBelow
  <2>4. w[Len(q)].ok = FALSE
    BY <2>2, <2>3
  <2> QED
    BY <1>2, <1>5, <2>4 DEF Final
<1> QED
  BY <1>4, <1>5

LEMMA AppendIsLonger ==
    ASSUME NEW T, NEW q \in Seq(T), NEW x \in T
    PROVE  Append(q, x) # <<>>
<1>1. Len(Append(q, x)) = Len(q) + 1 /\ Len(q) \in Nat
  OBVIOUS
<1>2. Len(q) + 1 # 0
  BY <1>1
<1> QED
  BY <1>1, <1>2

(* What walks to a part's hash walks, with the part's sibling, to theirs.  *)
LEMMA SideDecided ==
    ASSUME NEW S, NEW T, NEW left \in BOOLEAN, NEW startA, NEW startB,
           SideBySide(left, startA, startB), startA.sn # 0,
           NEW own, NEW sibling \in T, NEW path \in Seq(T), NEW hash, NEW leaf,
           WalksTo(S, startB, own, hash, leaf, path)
    PROVE  WalksTo(S, startA, Joined(left, own, sibling), hash, leaf, Append(path, sibling))
<1> SUFFICES ASSUME NEW w, NEW q \in Seq(S), IsWalk(w, startA, q)
             PROVE  (Final(w[Len(q)]) /\ w[Len(q)].hash = Joined(left, own, sibling))
                       <=> (hash = leaf /\ q = Append(path, sibling))
  BY Zenon DEF WalksTo
<1>1. CASE q = <<>>
  <2>1. w[0] = startA
    BY WalkGoes
  <2>2. Len(q) = 0
    BY <1>1
  <2>3. ~Final(w[Len(q)])
    BY <2>1, <2>2 DEF Final
  <2>4. Append(path, sibling) # <<>>
    BY AppendIsLonger
  <2> QED
    BY <1>1, <2>3, <2>4
<1>2. CASE q # <<>>
  <2>1. PICK r \in Seq(S), x \in S : q = Append(r, x)
    <3> DEFINE front == [k \in 1..(Len(q) - 1) |-> q[k]]
    <3>1. Len(q) - 1 \in Nat /\ q[Len(q)] \in S /\ \A k \in 1..(Len(q) - 1) : q[k] \in S
      BY <1>2
    <3>2. front \in Seq(S) /\ Len(front) = Len(q) - 1
      BY <3>1
    <3>3. q = Append(front, q[Len(q)])
      BY <3>1, <3>2
    <3> HIDE DEF front
    <3> QED
      BY <3>1, <3>2, <3>3
  <2>2. Len(q) = Len(r) + 1
    BY <2>1
  <2>3. PICK v : IsWalk(v, startB, r)
    BY WalkIsThere
  <2>4. IsWalk(w, startA, Append(r, x))
    BY <2>1
  <2>5. PICK A, B : A = w[Len(q)] /\ B = v[Len(r)]
    OBVIOUS
  <2>6. (Final(A) <=> Final(B)) /\ (Final(A) => A.hash = Joined(left, B.hash, x))
    BY <2>2, <2>3, <2>4, <2>5, WalkOfPart
  <2>7. (Final(B) /\ B.hash = own) <=> (hash = leaf /\ r = path)
    BY <2>3, <2>5 DEF WalksTo
  <2>8. q = Append(path, sibling) <=> r = path /\ x = sibling
    BY <2>1, AppendsAreDistinct
  <2>9. Joined(left, B.hash, x) = Joined(left, own, sibling) <=> B.hash = own /\ x = sibling
    BY NodesAreDistinct DEF Joined
  <2> QED
    BY <2>5, <2>6, <2>7, <2>8, <2>9
<1> QED
  BY <1>1, <1>2

(* The walk for all n leaves starts beside the walk for the part.          *)
LEMMA StartsBeside ==
    ASSUME NEW l \in Nat, NEW n, NEW i, NEW k, AreParts(l, n, i, k),
           NEW e, Holds(l, n, i, e), NEW hash
    PROVE  /\ Start(hash, e - i, n - 1).sn # 0
           /\ e < i + k =>
                SideBySide(TRUE, Start(hash, e - i, n - 1), Start(hash, e - i, k - 1))
           /\ ~(e < i + k) =>
                SideBySide(FALSE, Start(hash, e - i, n - 1), Start(hash, e - (i + k), (n - k) - 1))
<1>1. k \in Nat /\ n \in Nat /\ i \in Nat /\ e \in Nat /\ IsPower(k)
  BY DEF AreParts, Ranges, Holds
<1>2. /\ e - i \in Nat /\ n - 1 \in Nat /\ k - 1 \in Nat /\ (n - k) - 1 \in Nat /\ n - 1 # 0
      /\ (k - 1) + 1 = k /\ k - 1 < n - 1 /\ n - 1 < 2 * k
      /\ n - 1 = k + ((n - k) - 1) /\ (n - k) - 1 < k /\ e - i =< n - 1
      /\ e < i + k => e - i =< k - 1
      /\ ~(e < i + k) => /\ e - (i + k) \in Nat /\ e - i = k + (e - (i + k))
                        /\ e - (i + k) =< (n - k) - 1
  BY <1>1 DEF AreParts, Ranges, Holds
<1>3. PICK f, g, a, b, c : /\ f = e - i /\ g = e - (i + k)
                          /\ a = n - 1 /\ b = k - 1 /\ c = (n - k) - 1
  OBVIOUS
<1>4. Start(hash, f, a).sn # 0
  BY <1>2, <1>3 DEF Start
<1>5. ASSUME e < i + k PROVE SideBySide(TRUE, Start(hash, f, a), Start(hash, f, b))
  <2>1. f \in Nat /\ a \in Nat /\ b \in Nat /\ b + 1 = k /\ b < a /\ a < 2 * k /\ f =< b /\ f =< a
    BY <1>2, <1>3, <1>5
  <2>2. State(Start(hash, f, a)) /\ State(Start(hash, f, b))
    BY <2>1 DEF State, Start
  <2>3. LeftPart(Start(hash, f, a), Start(hash, f, b))
    BY <1>1, <2>1 DEF LeftPart, Start
  <2> QED
    BY <2>2, <2>3 DEF SideBySide, Part, Start
<1>6. ASSUME ~(e < i + k) PROVE SideBySide(FALSE, Start(hash, f, a), Start(hash, g, c))
  <2>1. /\ f \in Nat /\ g \in Nat /\ a \in Nat /\ c \in Nat /\ f =< a /\ g =< c
        /\ f = k + g /\ a = k + c /\ c < k
    BY <1>2, <1>3, <1>6
  <2>2. State(Start(hash, f, a)) /\ State(Start(hash, g, c))
    BY <2>1 DEF State, Start
  <2>3. RightPart(Start(hash, f, a), Start(hash, g, c))
    BY <1>1, <2>1 DEF RightPart, Start
  <2> QED
    BY <2>2, <2>3 DEF SideBySide, Part, Start
<1> QED
  BY <1>3, <1>4, <1>5, <1>6

LEMMA PartDecided ==
    ASSUME NEW s, Len(s) \in Nat, NEW h, IsTree(h, s), NEW e, NEW p, IsPath(p, h, s, e),
           NEW S, NEW n \in Nat, n # 1, \A k \in 0..(n - 1) : Decided(h, p, s, e, S, k)
    PROVE  Decided(h, p, s, e, S, n)
<1> SUFFICES ASSUME NEW i, Holds(Len(s), n, i, e), NEW hash
             PROVE  WalksTo(S, Start(hash, e - i, n - 1), h[n][i], hash, LeafHash(s[e]), p[n][i])
  BY Zenon DEF Decided
<1>1. PICK k \in Nat : AreParts(Len(s), n, i, k)
  BY PartsAreThere, Zenon DEF Holds
<1>2. PICK H : H = Hashes(h, s)
  OBVIOUS
<1>3. PICK left, right, pathL, pathR : /\ left = h[k][i] /\ right = h[n - k][i + k]
                                      /\ pathL = p[k][i] /\ pathR = p[n - k][i + k]
  OBVIOUS
<1>4. left \in H /\ right \in H
  BY <1>1, <1>2, <1>3, HashesOfParts, Zenon
<1>5. pathL \in Seq(H) /\ pathR \in Seq(H)
  <2>1. Ranges(Len(s), k, i) /\ Ranges(Len(s), n - k, i + k)
    BY <1>1, Zenon DEF AreParts
  <2> QED
    BY <1>2, <1>3, <2>1, PathIsSeq, Zenon
<1>6. h[n][i] = NodeHash(left, right)
  <2>1. HashJoins(h, n, i, k)
    BY <1>1, TreeOfParts, Zenon
  <2> QED
    BY <1>3, <2>1 DEF HashJoins
<1>7. k \in 0..(n - 1) /\ n - k \in 0..(n - 1)
  BY <1>1, Zenon DEF AreParts
<1>8. PICK startA, startL, startR :
          /\ startA = Start(hash, e - i, n - 1)
          /\ startL = Start(hash, e - i, k - 1)
          /\ startR = Start(hash, e - (i + k), (n - k) - 1)
  OBVIOUS
<1>9. startA.sn # 0
  BY <1>1, <1>8, StartsBeside, Zenon
<1>10. CASE e < i + k
  <2>1. Holds(Len(s), k, i, e)
    BY <1>1, <1>10, HeldByPart, Zenon
  <2>2. WalksTo(S, startL, left, hash, LeafHash(s[e]), pathL)
    BY <1>3, <1>7, <1>8, <2>1, Zenon DEF Decided
  <2>3. SideBySide(TRUE, startA, startL)
    BY <1>1, <1>8, <1>10, StartsBeside, Zenon
  <2>4. TRUE \in BOOLEAN
    OBVIOUS
  <2>5. WalksTo(S, startA, Joined(TRUE, left, right), hash, LeafHash(s[e]), Append(pathL, right))
    BY <1>4, <1>5, <1>9, <2>2, <2>3, <2>4, SideDecided, Zenon
  <2>6. p[n][i] = Append(pathL, right)
    <3>1. PathJoins(p, h, e, n, i, k)
      BY <1>1, PathOfParts, Zenon
    <3> QED
      BY <1>3, <1>10, <3>1 DEF PathJoins
  <2>7. h[n][i] = Joined(TRUE, left, right)
    BY <1>6 DEF Joined
  <2> QED
    BY <1>8, <2>5, <2>6, <2>7, Zenon
<1>11. CASE ~(e < i + k)
  <2>1. Holds(Len(s), n - k, i + k, e)
    BY <1>1, <1>11, HeldByPart, Zenon
  <2>2. WalksTo(S, startR, right, hash, LeafHash(s[e]), pathR)
    BY <1>3, <1>7, <1>8, <2>1, Zenon DEF Decided
  <2>3. SideBySide(FALSE, startA, startR)
    BY <1>1, <1>8, <1>11, StartsBeside, Zenon
  <2>4. FALSE \in BOOLEAN
    OBVIOUS
  <2>5. WalksTo(S, startA, Joined(FALSE, right, left), hash, LeafHash(s[e]), Append(pathR, left))
    BY <1>4, <1>5, <1>9, <2>2, <2>3, <2>4, SideDecided, Zenon
  <2>6. p[n][i] = Append(pathR, left)
    <3>1. PathJoins(p, h, e, n, i, k)
      BY <1>1, PathOfParts, Zenon
    <3> QED
      BY <1>3, <1>11, <3>1 DEF PathJoins
  <2>7. h[n][i] = Joined(FALSE, right, left)
    BY <1>6 DEF Joined
  <2> QED
    BY <1>8, <2>5, <2>6, <2>7, Zenon
<1> QED
  BY <1>10, <1>11

LEMMA AllDecided ==
    ASSUME NEW s, Len(s) \in Nat, NEW h, IsTree(h, s), NEW e, NEW p, IsPath(p, h, s, e), NEW S
    PROVE  Decided(h, p, s, e, S, Len(s))
<1> DEFINE T == {n \in Nat : Decided(h, p, s, e, S, n)}
<1>1. ASSUME NEW n \in Nat, \A k \in 0..(n - 1) : k \in T PROVE n \in T
  <2>1. CASE n = 1
    BY <2>1, OneLeafDecided
  <2>2. CASE n # 1
    <3>1. \A k \in 0..(n - 1) : Decided(h, p, s, e, S, k)
      BY <1>1
    <3> QED
      BY <2>2, <3>1, PartDecided
  <2> QED
    BY <2>1, <2>2
<1>2. Len(s) \in T
  <2> HIDE DEF T
  <2> QED
    BY <1>1, FromBelow
<1> QED
  BY <1>2

-----------------------------------------------------------------------------
(* The tree, the path and the walk of the module are these.                *)
LEMMA SubtreeIsTree ==
    ASSUME NEW V, NEW s \in Seq(V)
    PROVE  IsTree(Subtree(s), s)
<1> DEFINE hash == CHOOSE hash : IsTree(hash, s)
<1>1. IsTree(hash, s)
  BY TreeIsThere, Zenon
<1>2. Subtree(s) = hash
  BY Zenon DEF Subtree, IsTree, TreeAt
<1> HIDE DEF hash
<1> QED
  BY <1>1, <1>2, Zenon

LEMMA AuditPathIsPath ==
    ASSUME NEW V, NEW s \in Seq(V), NEW e
    PROVE  \E p : IsPath(p, Subtree(s), s, e) /\ AuditPath(s, e) = p[Len(s)][1]
<1> DEFINE p == CHOOSE p : IsPath(p, Subtree(s), s, e)
<1>1. IsPath(p, Subtree(s), s, e)
  BY PathIsThere, Zenon
<1>2. AuditPath(s, e) = p[Len(s)][1]
  <2> HIDE DEF Subtree
  <2> QED
    BY Zenon DEF AuditPath, IsPath, PathAt
<1> HIDE DEF p
<1> QED
  BY <1>1, <1>2, Zenon

LEMMA WalkIsWalk ==
    ASSUME NEW S, NEW proof \in Seq(S), NEW leaf, NEW index, NEW size
    PROVE  IsWalk(Walk(leaf, index, size, proof), Start(LeafHash(leaf), index, size - 1), proof)
<1> DEFINE w == CHOOSE w : IsWalk(w, Start(LeafHash(leaf), index, size - 1), proof)
<1>1. IsWalk(w, Start(LeafHash(leaf), index, size - 1), proof)
  BY WalkIsThere, Zenon
<1>2. Walk(leaf, index, size, proof) = w
  BY Zenon DEF Walk, IsWalk, WalkAt, Start
<1> HIDE DEF w
<1> QED
  BY <1>1, <1>2, Zenon

LEMMA AuditPathIsSeq ==
    ASSUME NEW V, NEW s \in Seq(V), NEW e, 1 =< Len(s)
    PROVE  AuditPath(s, e) \in Seq(Hashes(Subtree(s), s))
<1>1. PICK p : IsPath(p, Subtree(s), s, e) /\ AuditPath(s, e) = p[Len(s)][1]
  BY AuditPathIsPath, Zenon
<1>2. Ranges(Len(s), Len(s), 1) /\ Len(s) \in Nat
  BY DEF Ranges
<1>3. p[Len(s)][1] \in Seq(Hashes(Subtree(s), s))
  BY <1>1, <1>2, PathIsSeq, Zenon
<1> QED
  BY <1>1, <1>3, Zenon

(* verify_inclusion_proof accepts an entry at a place of the log exactly   *)
(* when it is the entry there and the proof is its audit path.             *)
THEOREM VerifyExact ==
    ASSUME NEW V, NEW s \in Seq(V), NEW e \in 1..Len(s), NEW leaf, NEW S, NEW proof \in Seq(S)
    PROVE  VerifyInclusion(leaf, e - 1, Len(s), TreeRoot(s), proof)
             <=> (leaf = s[e] /\ proof = AuditPath(s, e))
<1>1. Len(s) \in Nat /\ e - 1 < Len(s) /\ Holds(Len(s), Len(s), 1, e)
  BY DEF Holds, Ranges
<1>2. PICK h : h = Subtree(s)
  OBVIOUS
<1>3. IsTree(h, s) /\ TreeRoot(s) = h[Len(s)][1]
  BY <1>2, SubtreeIsTree DEF TreeRoot
<1>4. PICK p : IsPath(p, h, s, e) /\ AuditPath(s, e) = p[Len(s)][1]
  BY <1>2, AuditPathIsPath
<1>5. Decided(h, p, s, e, S, Len(s))
  BY <1>1, <1>3, <1>4, AllDecided, Zenon
<1>6. PICK start : start = Start(LeafHash(leaf), e - 1, Len(s) - 1)
  OBVIOUS
<1>7. WalksTo(S, start, h[Len(s)][1], LeafHash(leaf), LeafHash(s[e]), p[Len(s)][1])
  BY <1>1, <1>5, <1>6, Zenon DEF Decided
<1>8. PICK w : w = Walk(leaf, e - 1, Len(s), proof)
  OBVIOUS
<1>9. IsWalk(w, start, proof)
  BY <1>6, <1>8, WalkIsWalk
<1>10. PICK last : last = w[Len(proof)]
  OBVIOUS
<1>11. (Final(last) /\ last.hash = TreeRoot(s))
         <=> (LeafHash(leaf) = LeafHash(s[e]) /\ proof = AuditPath(s, e))
  BY <1>3, <1>4, <1>7, <1>9, <1>10 DEF WalksTo
<1>12. VerifyInclusion(leaf, e - 1, Len(s), TreeRoot(s), proof)
         <=> last.ok /\ last.sn = 0 /\ last.hash = TreeRoot(s)
  BY <1>1, <1>8, <1>10 DEF VerifyInclusion
<1> QED
  BY <1>11, <1>12, LeavesAreDistinct DEF Final

LEMMA OtherLengths ==
    ASSUME NEW T, NEW path \in Seq(T), NEW x
    PROVE  /\ Append(path, x) \in Seq(T \cup {x}) /\ Append(path, x) # path
           /\ path # <<>> => Front(path) \in Seq(T) /\ Front(path) # path
<1>1. path \in Seq(T \cup {x}) /\ x \in T \cup {x}
  OBVIOUS
<1>2. Append(path, x) \in Seq(T \cup {x}) /\ Len(Append(path, x)) = Len(path) + 1
  BY <1>1
<1>3. Append(path, x) # path
  BY <1>2
<1>4. ASSUME path # <<>> PROVE Front(path) \in Seq(T) /\ Front(path) # path
  <2>1. Len(path) \in Nat /\ Len(path) # 0
    BY <1>4
  <2>2. Front(path) \in Seq(T) /\ Len(Front(path)) = Len(path) - 1
    <3>1. PICK l \in Nat : l = Len(path) - 1
      BY <2>1
    <3>2. 1 \in Int /\ l \in Int /\ \A i \in 1..l : path[i] \in T
      BY <3>1
    <3>3. SubSeq(path, 1, l) \in Seq(T) /\ Len(SubSeq(path, 1, l)) = IF 1 =< l THEN l - 1 + 1 ELSE 0
      BY <3>2, SubSeqProperties
    <3>4. Len(SubSeq(path, 1, l)) = l
      BY <3>3
    <3> QED
      BY <3>1, <3>3, <3>4 DEF Front
  <2> QED
    BY <2>1, <2>2
<1> QED
  BY <1>2, <1>3, <1>4

(* The walk decides what is in a log of any length in which no entry is    *)
(* twice: of its audit paths each proves one entry, at its place.          *)
THEOREM DecidesDistinct ==
    ASSUME NEW V, NEW s \in Seq(V), \A i, j \in 1..Len(s) : s[i] = s[j] => i = j
    PROVE  DecidesInclusion(s)
<1> DEFINE n == Len(s)
           root == TreeRoot(s)
<1>1. SUFFICES ASSUME NEW m \in 1..n, NEW path, path = AuditPath(s, m)
               PROVE  /\ \A i, j \in 1..n :
                           (i = m \/ j = m) =>
                             (VerifyInclusion(s[j], i - 1, n, root, path) <=> (i = m /\ s[j] = s[m]))
                      /\ ~VerifyInclusion(s[m], n, n, root, path)
                      /\ ~VerifyInclusion(s[m], m - 1, n, root, Append(path, root))
                      /\ path # <<>> => ~VerifyInclusion(s[m], m - 1, n, root, Front(path))
  BY Zenon DEF DecidesInclusion
<1>2. PICK T : path \in Seq(T)
  <2>1. 1 =< Len(s)
    OBVIOUS
  <2> QED
    BY <1>1, <2>1, AuditPathIsSeq
<1>3. n \in Nat /\ ~(n < n)
  OBVIOUS
<1> HIDE DEF n, root
<1>4. ASSUME NEW i \in 1..n, NEW leaf, NEW S, NEW proof \in Seq(S)
      PROVE  VerifyInclusion(leaf, i - 1, n, root, proof)
               <=> (leaf = s[i] /\ proof = AuditPath(s, i))
  BY VerifyExact, Zenon DEF n, root
<1>5. ASSUME NEW i \in 1..n, NEW j \in 1..n, i = m \/ j = m
      PROVE  VerifyInclusion(s[j], i - 1, n, root, path) <=> (i = m /\ s[j] = s[m])
  <2>1. VerifyInclusion(s[j], i - 1, n, root, path) <=> (s[j] = s[i] /\ path = AuditPath(s, i))
    BY <1>2, <1>4, Zenon
  <2>2. s[j] = s[i] => i = j
    BY DEF n
  <2> QED
    BY <1>1, <1>5, <2>1, <2>2
<1>6. ~VerifyInclusion(s[m], n, n, root, path)
  BY <1>3 DEF VerifyInclusion
<1>7. ~VerifyInclusion(s[m], m - 1, n, root, Append(path, root))
  <2>1. Append(path, root) \in Seq(T \cup {root}) /\ Append(path, root) # path
    BY <1>2, OtherLengths
  <2> QED
    BY <1>1, <1>4, <2>1, Zenon
<1>8. ASSUME path # <<>> PROVE ~VerifyInclusion(s[m], m - 1, n, root, Front(path))
  <2>1. Front(path) \in Seq(T) /\ Front(path) # path
    BY <1>2, <1>8, OtherLengths
  <2> QED
    BY <1>1, <1>4, <2>1, Zenon
<1> QED
  BY <1>5, <1>6, <1>7, <1>8
=============================================================================
