--------------------------- MODULE LogTail_proofs ---------------------------
(***************************************************************************)
(* What a log file holds, for any records and any size it is cut to:       *)
(* bound_tail cuts between records.                                        *)
(***************************************************************************)
EXTENDS LogTail, TLAPS, NaturalsInduction, WellFoundedInduction, SequenceTheorems

-----------------------------------------------------------------------------
(* Induction, with the set of the numbers that have the property.          *)
LEMMA LeastExists ==
    ASSUME NEW S \in SUBSET Nat, S # {}
    PROVE  \E n \in S : \A m \in S : n =< m
<1> DEFINE R == OpToRel(<, Nat)
<1>1. IsWellFoundedOn(R, Nat)
  BY NatLessThanWellFounded
<1>2. \A x, y \in Nat : <<x, y>> \in R <=> x < y
  BY DEF OpToRel
<1> HIDE DEF R
<1>3. PICK n \in S : \A m \in S : ~(<<m, n>> \in R)
  BY <1>1, WFMin
<1>4. ASSUME NEW m \in S PROVE n =< m
  <2>1. m \in Nat /\ n \in Nat /\ ~(m < n)
    BY <1>2, <1>3
  <2> QED
    BY <2>1
<1> QED
  BY <1>4

LEMMA Induction ==
    ASSUME NEW S, 0 \in S, \A n \in Nat : n \in S => n + 1 \in S
    PROVE  Nat \subseteq S
<1> SUFFICES ASSUME NEW k \in Nat, k \notin S PROVE FALSE
  OBVIOUS
<1> DEFINE Rest == {n \in Nat : n \notin S}
<1>1. PICK least \in Rest : \A m \in Rest : least =< m
  BY LeastExists
<1>2. least - 1 \in Nat /\ (least - 1) + 1 = least
  OBVIOUS
<1> QED
  BY <1>1, <1>2

LEMMA GreatestExists ==
    ASSUME NEW n \in Nat, NEW S \in SUBSET (1..n), S # {}
    PROVE  \E v \in S : \A w \in S : w =< v
<1> DEFINE Below == {n - v : v \in S}
<1>1. Below \subseteq Nat /\ Below # {}
  <2>1. ASSUME NEW v \in S PROVE n - v \in Nat
    OBVIOUS
  <2>2. Below # {}
    OBVIOUS
  <2> QED
    BY <2>1, <2>2
<1>2. PICK least \in Below : \A m \in Below : least =< m
  BY <1>1, LeastExists
<1>3. PICK v \in S : least = n - v
  OBVIOUS
<1>4. ASSUME NEW w \in S PROVE w =< v
  <2>1. n - w \in Below /\ w \in Nat /\ v \in Nat
    OBVIOUS
  <2>2. n - v =< n - w
    BY <1>2, <1>3, <2>1
  <2> QED
    BY <2>1, <2>2
<1> QED
  BY <1>4

(* A function defined by recursion on the number before exists.            *)
Goes(u, V, a, m, G) ==
    u \in [0..m -> V] /\ u[0] = a /\ \A n \in 1..m : u[n] = G[n][u[n - 1]]

LEMMA RecursionExists ==
    ASSUME NEW V, NEW a \in V, NEW m \in Nat, NEW G \in [1..m -> [V -> V]]
    PROVE  \E u : Goes(u, V, a, m, G)
<1> DEFINE Is(k, u) == u \in [0..k -> V] /\ u[0] = a /\ \A n \in 1..k : u[n] = G[n][u[n - 1]]
           S == {k \in Nat : k =< m => \E u : Is(k, u)}
<1>1. 0 \in S
  <2>1. Is(0, [n \in 0..0 |-> a])
    OBVIOUS
  <2> QED
    BY <2>1
<1>2. ASSUME NEW k \in Nat, k \in S PROVE k + 1 \in S
  <2> SUFFICES ASSUME k + 1 =< m PROVE \E u : Is(k + 1, u)
    OBVIOUS
  <2>1. PICK u : Is(k, u)
    BY <1>2
  <2> DEFINE v == [n \in 0..(k + 1) |-> IF n = k + 1 THEN G[k + 1][u[k]] ELSE u[n]]
  <2>2. u[k] \in V /\ G[k + 1][u[k]] \in V
    BY <2>1
  <2>3. v \in [0..(k + 1) -> V] /\ v[0] = a
    BY <2>1, <2>2
  <2>4. ASSUME NEW n \in 1..(k + 1) PROVE v[n] = G[n][v[n - 1]]
    <3>1. n - 1 \in 0..k /\ v[n - 1] = u[n - 1]
      OBVIOUS
    <3>2. CASE n = k + 1
      <4>1. v[n] = G[k + 1][u[k]] /\ n - 1 = k
        BY <3>2
      <4> HIDE DEF v
      <4> QED
        BY <3>1, <3>2, <4>1
    <3>3. CASE n # k + 1
      <4>1. n \in 1..k /\ v[n] = u[n]
        BY <3>3
      <4>2. u[n] = G[n][u[n - 1]]
        BY <2>1, <4>1
      <4> QED
        BY <3>1, <4>1, <4>2
    <3> QED
      BY <3>2, <3>3
  <2>5. Is(k + 1, v)
    BY <2>3, <2>4
  <2> HIDE DEF v, Is
  <2> QED
    BY <2>5
<1>3. m \in S
  BY <1>1, <1>2, Induction
<1> QED
  BY <1>3 DEF Goes

-----------------------------------------------------------------------------
(* The bytes of a log.                                                     *)
LEMMA TextFacts ==
    ASSUME NEW r \in Record
    PROVE  /\ Text(r) \in Seq(Bytes) /\ Len(Text(r)) = r.len + 1 /\ Len(Text(r)) \in Nat \ {0}
           /\ \A i \in 1..Len(Text(r)) : Text(r)[i] = NL <=> i = Len(Text(r))
           /\ \A i \in 1..Len(Text(r)) : Text(r)[i] # Half
<1> DEFINE body == [i \in 1..r.len |-> r.id]
<1>1. r.len \in Nat \ {0} /\ r.id \in Nat \ {0} /\ r.id # NL /\ r.id # Half /\ NL # Half
  BY LogAssumption DEF Record
<1>2. body \in Seq(Bytes) /\ Len(body) = r.len /\ \A i \in 1..r.len : body[i] = r.id
  BY <1>1 DEF Bytes
<1>3. <<NL>> \in Seq(Bytes) /\ Len(<<NL>>) = 1 /\ <<NL>>[1] = NL
  BY DEF Bytes
<1> HIDE DEF body
<1>4. Text(r) = body \o <<NL>>
  BY DEF Text, body
<1>5. /\ Text(r) \in Seq(Bytes) /\ Len(Text(r)) = r.len + 1
      /\ \A i \in 1..(r.len + 1) : Text(r)[i] = IF i =< r.len THEN body[i] ELSE <<NL>>[i - r.len]
  <2>1. /\ body \o <<NL>> \in Seq(Bytes) /\ Len(body \o <<NL>>) = Len(body) + Len(<<NL>>)
        /\ \A i \in 1..Len(body) + Len(<<NL>>) : (body \o <<NL>>)[i] =
             IF i <= Len(body) THEN body[i] ELSE <<NL>>[i - Len(body)]
    BY <1>2, <1>3, ConcatProperties, Zenon
  <2> QED
    BY <1>2, <1>3, <1>4, <2>1
<1>6. ASSUME NEW i \in 1..(r.len + 1)
      PROVE  (Text(r)[i] = NL <=> i = r.len + 1) /\ Text(r)[i] # Half
  <2>1. CASE i =< r.len
    BY <1>1, <1>2, <1>5, <2>1
  <2>2. CASE i = r.len + 1
    <3>1. ~(i =< r.len) /\ i - r.len = 1
      BY <1>1, <2>2
    <3>2. Text(r)[i] = <<NL>>[i - r.len]
      BY <1>5, <3>1
    <3> QED
      BY <1>1, <1>3, <2>2, <3>1, <3>2
  <2> QED
    BY <1>1, <2>1, <2>2
<1> QED
  BY <1>1, <1>5, <1>6

LEMMA TextsAreThere ==
    ASSUME NEW q \in Seq(Record)
    PROVE  \E u \in [0..Len(q) -> Seq(Bytes)] :
             /\ u[0] = <<>> /\ Texts(q) = u[Len(q)]
             /\ \A n \in 1..Len(q) : u[n] = u[n - 1] \o Text(q[n])
<1> DEFINE V == Seq(Bytes)
           G == [n \in 1..Len(q) |-> [f \in V |-> f \o Text(q[n])]]
           IsIt(u) == u = [n \in 0..Len(q) |-> IF n = 0 THEN <<>> ELSE u[n - 1] \o Text(q[n])]
<1>0. Len(q) \in Nat /\ \A n \in 1..Len(q) : q[n] \in Record
  OBVIOUS
<1>1. <<>> \in V
  OBVIOUS
<1>2. ASSUME NEW n \in 1..Len(q), NEW f \in V PROVE f \o Text(q[n]) \in V
  <2>1. Text(q[n]) \in V
    BY <1>0, TextFacts
  <2> HIDE DEF V
  <2>2. V = Seq(Bytes)
    BY DEF V
  <2> QED
    BY <2>1, <2>2, ConcatProperties
<1>3. G \in [1..Len(q) -> [V -> V]]
  BY <1>2
<1>4. PICK u \in [0..Len(q) -> V] : u[0] = <<>> /\ \A n \in 1..Len(q) : u[n] = G[n][u[n - 1]]
  <2> HIDE DEF G, V
  <2>1. \E u : Goes(u, V, <<>>, Len(q), G)
    BY <1>0, <1>1, <1>3, RecursionExists
  <2> QED
    BY <2>1, Zenon DEF Goes
<1>5. ASSUME NEW n \in 1..Len(q) PROVE u[n] = u[n - 1] \o Text(q[n])
  <2>1. n - 1 \in 0..Len(q)
    BY <1>0
  <2>2. u[n - 1] \in V
    BY <1>4, <2>1
  <2>3. u[n] = G[n][u[n - 1]]
    BY <1>4
  <2> HIDE DEF V
  <2> QED
    BY <2>2, <2>3
<1>6. IsIt(u)
  <2>1. u = [n \in 0..Len(q) |-> u[n]]
    BY <1>4
  <2>2. ASSUME NEW n \in 0..Len(q)
        PROVE  u[n] = IF n = 0 THEN <<>> ELSE u[n - 1] \o Text(q[n])
    <3>1. n = 0 \/ n \in 1..Len(q)
      BY <1>0
    <3> QED
      BY <1>4, <1>5, <3>1
  <2> QED
    BY <2>1, <2>2
<1> DEFINE v == CHOOSE w : IsIt(w)
<1>7. IsIt(v)
  <2> HIDE DEF IsIt
  <2> QED
    BY <1>6
<1>8. Texts(q) = v[Len(q)]
  BY DEF Texts
<1> HIDE DEF v
<1>9. v[0] = <<>> /\ \A n \in 1..Len(q) : v[n] = v[n - 1] \o Text(q[n])
  <2>1. 0 \in 0..Len(q) /\ \A n \in 1..Len(q) : n \in 0..Len(q) /\ n # 0
    BY <1>0
  <2> QED
    BY <1>7, <2>1
<1>10. \A n \in Nat : n =< Len(q) => v[n] = u[n]
  <2> DEFINE S == {n \in Nat : n =< Len(q) => v[n] = u[n]}
  <2>1. 0 \in S
    BY <1>4, <1>9
  <2>2. ASSUME NEW n \in Nat, n \in S PROVE n + 1 \in S
    <3> SUFFICES ASSUME n + 1 =< Len(q) PROVE v[n + 1] = u[n + 1]
      OBVIOUS
    <3>1. n + 1 \in 1..Len(q) /\ (n + 1) - 1 = n /\ v[n] = u[n]
      BY <1>0, <2>2
    <3> QED
      BY <1>5, <1>9, <3>1
  <2> HIDE DEF S
  <2>3. Nat \subseteq S
    BY <2>1, <2>2, Induction
  <2> QED
    BY <2>3 DEF S
<1>11. Texts(q) = u[Len(q)]
  BY <1>0, <1>8, <1>10
<1> QED
  BY <1>4, <1>5, <1>11

LEMMA TextsType ==
    ASSUME NEW q \in Seq(Record)
    PROVE  Texts(q) \in Seq(Bytes)
<1>1. PICK u \in [0..Len(q) -> Seq(Bytes)] : Texts(q) = u[Len(q)]
  BY TextsAreThere
<1> QED
  BY <1>1

LEMMA TextsNone == Texts(<<>>) = <<>>
<1>1. <<>> \in Seq(Record) /\ Len(<<>>) = 0
  OBVIOUS
<1>2. PICK u \in [0..Len(<<>>) -> Seq(Bytes)] : u[0] = <<>> /\ Texts(<<>>) = u[Len(<<>>)]
  BY <1>1, TextsAreThere
<1> QED
  BY <1>1, <1>2

LEMMA TextsAppend ==
    ASSUME NEW q \in Seq(Record), NEW r \in Record
    PROVE  Texts(Append(q, r)) = Texts(q) \o Text(r)
<1> DEFINE p == Append(q, r)
<1>1. /\ p \in Seq(Record) /\ Len(p) = Len(q) + 1 /\ p[Len(q) + 1] = r /\ Len(q) \in Nat
      /\ \A i \in 1..Len(q) : p[i] = q[i]
  OBVIOUS
<1> HIDE DEF p
<1>2. PICK u \in [0..Len(q) -> Seq(Bytes)] :
        /\ u[0] = <<>> /\ Texts(q) = u[Len(q)]
        /\ \A n \in 1..Len(q) : u[n] = u[n - 1] \o Text(q[n])
  BY TextsAreThere
<1>3. PICK v \in [0..Len(p) -> Seq(Bytes)] :
        /\ v[0] = <<>> /\ Texts(p) = v[Len(p)]
        /\ \A n \in 1..Len(p) : v[n] = v[n - 1] \o Text(p[n])
  BY <1>1, TextsAreThere
<1> DEFINE S == {n \in Nat : n =< Len(q) => v[n] = u[n]}
<1>4. 0 \in S
  BY <1>2, <1>3
<1>5. ASSUME NEW n \in Nat, n \in S PROVE n + 1 \in S
  <2> SUFFICES ASSUME n + 1 =< Len(q) PROVE v[n + 1] = u[n + 1]
    OBVIOUS
  <2>1. /\ n + 1 \in 1..Len(q) /\ n + 1 \in 1..Len(p) /\ (n + 1) - 1 = n
        /\ v[n] = u[n] /\ p[n + 1] = q[n + 1]
    BY <1>1, <1>5
  <2> QED
    BY <1>2, <1>3, <2>1
<1> HIDE DEF S
<1>6. Nat \subseteq S
  BY <1>4, <1>5, Induction
<1>7. v[Len(q)] = u[Len(q)]
  BY <1>1, <1>6 DEF S
<1>8. v[Len(p)] = v[Len(p) - 1] \o Text(p[Len(p)])
  <2>1. Len(p) \in 1..Len(p)
    BY <1>1
  <2> QED
    BY <1>3, <2>1
<1>9. Len(p) - 1 = Len(q) /\ p[Len(p)] = r
  BY <1>1
<1> QED
  BY <1>2, <1>3, <1>7, <1>8, <1>9 DEF p

-----------------------------------------------------------------------------
(* The text of the records of a log after one and up to another.           *)
Part(q, a, b) == Texts(SubSeq(q, a + 1, b))

LEMMA PartType ==
    ASSUME NEW q \in Seq(Record), NEW a \in 0..Len(q), NEW b \in a..Len(q)
    PROVE  Part(q, a, b) \in Seq(Bytes) /\ Len(Part(q, a, b)) \in Nat
<1>1. SubSeq(q, a + 1, b) \in Seq(Record)
  OBVIOUS
<1>2. Part(q, a, b) \in Seq(Bytes)
  BY <1>1, TextsType DEF Part
<1> QED
  BY <1>2

LEMMA PartNone ==
    ASSUME NEW q \in Seq(Record), NEW a \in 0..Len(q)
    PROVE  Part(q, a, a) = <<>>
<1>1. SubSeq(q, a + 1, a) = <<>>
  OBVIOUS
<1> QED
  BY <1>1, TextsNone DEF Part

LEMMA PartMore ==
    ASSUME NEW q \in Seq(Record), NEW a \in 0..Len(q), NEW b \in a..Len(q), b < Len(q)
    PROVE  Part(q, a, b + 1) = Part(q, a, b) \o Text(q[b + 1])
<1>1. SubSeq(q, a + 1, b) \in Seq(Record) /\ q[b + 1] \in Record
  OBVIOUS
<1>2. SubSeq(q, a + 1, b + 1) = Append(SubSeq(q, a + 1, b), q[b + 1])
  OBVIOUS
<1> QED
  BY <1>1, <1>2, TextsAppend DEF Part

LEMMA PartSplit ==
    ASSUME NEW q \in Seq(Record), NEW a \in 0..Len(q), NEW b \in a..Len(q), NEW c \in b..Len(q)
    PROVE  Part(q, a, c) = Part(q, a, b) \o Part(q, b, c)
<1> DEFINE S == {n \in Nat : b + n =< Len(q) => Part(q, a, b + n) = Part(q, a, b) \o Part(q, b, b + n)}
<1>0. Len(q) \in Nat /\ a \in Nat /\ b \in Nat /\ c \in Nat
  OBVIOUS
<1>1. Part(q, a, b) \in Seq(Bytes)
  BY PartType
<1>2. 0 \in S
  <2>1. b + 0 = b
    BY <1>0
  <2>2. Part(q, b, b) = <<>>
    BY <1>0, PartNone
  <2>3. Part(q, a, b) \o <<>> = Part(q, a, b)
    BY <1>1
  <2> QED
    BY <2>1, <2>2, <2>3
<1>3. ASSUME NEW n \in Nat, n \in S PROVE n + 1 \in S
  <2> SUFFICES ASSUME b + (n + 1) =< Len(q)
               PROVE  Part(q, a, b + (n + 1)) = Part(q, a, b) \o Part(q, b, b + (n + 1))
    OBVIOUS
  <2>1. PICK d : d = b + n
    OBVIOUS
  <2>2. /\ d \in a..Len(q) /\ d \in b..Len(q) /\ d < Len(q) /\ b + (n + 1) = d + 1
        /\ Part(q, a, d) = Part(q, a, b) \o Part(q, b, d)
    BY <1>0, <1>3, <2>1
  <2>3. Text(q[d + 1]) \in Seq(Bytes)
    <3>1. q[d + 1] \in Record
      BY <1>0, <2>2
    <3> QED
      BY <3>1, TextFacts
  <2>4. Part(q, b, d) \in Seq(Bytes)
    BY <1>0, <2>2, PartType
  <2>5. /\ Part(q, a, d + 1) = Part(q, a, d) \o Text(q[d + 1])
        /\ Part(q, b, d + 1) = Part(q, b, d) \o Text(q[d + 1])
    <3>1. a \in 0..Len(q) /\ b \in 0..Len(q)
      BY <1>0
    <3> QED
      BY <2>2, <3>1, PartMore
  <2>6. (Part(q, a, b) \o Part(q, b, d)) \o Text(q[d + 1])
          = Part(q, a, b) \o (Part(q, b, d) \o Text(q[d + 1]))
    <3>1. PICK s, t, u : s = Part(q, a, b) /\ t = Part(q, b, d) /\ u = Text(q[d + 1])
      OBVIOUS
    <3>2. s \in Seq(Bytes) /\ t \in Seq(Bytes) /\ u \in Seq(Bytes)
      BY <1>1, <2>3, <2>4, <3>1
    <3>3. (s \o t) \o u = s \o (t \o u)
      BY <3>2, ConcatAssociative
    <3> QED
      BY <3>1, <3>3
  <2> QED
    BY <2>2, <2>5, <2>6
<1> HIDE DEF S
<1>4. c - b \in S
  BY <1>0, <1>2, <1>3, Induction
<1>5. b + (c - b) = c
  BY <1>0
<1> QED
  BY <1>0, <1>4, <1>5 DEF S

(* A text ends with a line feed, and every line feed ends a record.        *)
LEMMA PartEnds ==
    ASSUME NEW q \in Seq(Record), NEW a \in 0..Len(q), NEW b \in a..Len(q), a < b
    PROVE  Len(Part(q, a, b)) > 0 /\ Part(q, a, b)[Len(Part(q, a, b))] = NL
<1>1. b - 1 \in a..Len(q) /\ b - 1 < Len(q) /\ (b - 1) + 1 = b /\ q[b] \in Record
  OBVIOUS
<1>2. Part(q, a, b) = Part(q, a, b - 1) \o Text(q[b])
  BY <1>1, PartMore
<1>3. PICK s, t : s = Part(q, a, b - 1) /\ t = Text(q[b])
  OBVIOUS
<1>4. s \in Seq(Bytes) /\ t \in Seq(Bytes) /\ Len(t) \in Nat \ {0} /\ t[Len(t)] = NL
  BY <1>1, <1>3, PartType, TextFacts
<1>5. Len(s \o t) > 0 /\ (s \o t)[Len(s \o t)] = NL
  BY <1>4
<1> QED
  BY <1>2, <1>3, <1>5

LEMMA PartFeeds ==
    ASSUME NEW q \in Seq(Record), NEW a \in 0..Len(q), NEW c \in a..Len(q),
           NEW i \in 1..Len(Part(q, a, c)), Part(q, a, c)[i] = NL
    PROVE  \E b \in (a + 1)..c : i = Len(Part(q, a, b))
<1> DEFINE Ended(d) == \A j \in 1..Len(Part(q, a, d)) :
                         Part(q, a, d)[j] = NL => \E b \in (a + 1)..d : j = Len(Part(q, a, b))
           S == {n \in Nat : a + n =< Len(q) => Ended(a + n)}
<1>0. Len(q) \in Nat /\ a \in Nat /\ c \in Nat
  OBVIOUS
<1>1. 0 \in S
  <2>1. a + 0 = a /\ Len(Part(q, a, a)) = 0
    BY <1>0, PartNone
  <2> QED
    BY <2>1
<1>2. ASSUME NEW n \in Nat, n \in S PROVE n + 1 \in S
  <2> SUFFICES ASSUME a + (n + 1) =< Len(q) PROVE Ended(a + (n + 1))
    OBVIOUS
  <2>1. PICK d : d = a + n
    OBVIOUS
  <2>2. /\ d \in Nat /\ d \in a..Len(q) /\ d < Len(q) /\ a + (n + 1) = d + 1 /\ Ended(d)
        /\ q[d + 1] \in Record
    BY <1>0, <1>2, <2>1
  <2>3. PICK s, t : s = Part(q, a, d) /\ t = Text(q[d + 1])
    OBVIOUS
  <2>4. /\ s \in Seq(Bytes) /\ t \in Seq(Bytes) /\ Len(t) \in Nat
        /\ \A i_1 \in 1..Len(t) : t[i_1] = NL <=> i_1 = Len(t)
    BY <1>0, <2>2, <2>3, PartType, TextFacts
  <2>5. Part(q, a, d + 1) = s \o t
    BY <1>0, <2>2, <2>3, PartMore
  <2> SUFFICES ASSUME NEW j \in 1..Len(s \o t), (s \o t)[j] = NL
               PROVE  \E b \in (a + 1)..(d + 1) : j = Len(Part(q, a, b))
    BY <2>2, <2>5
  <2>6. CASE j =< Len(s)
    <3>1. j \in 1..Len(s) /\ s[j] = NL
      BY <2>4, <2>6
    <3>2. PICK b \in (a + 1)..d : j = Len(Part(q, a, b))
      BY <2>2, <2>3, <3>1
    <3> QED
      BY <1>0, <2>2, <3>2
  <2>7. CASE j > Len(s)
    <3>1. j - Len(s) \in 1..Len(t) /\ t[j - Len(s)] = NL
      BY <2>4, <2>7
    <3>2. j = Len(s \o t)
      <4>1. j - Len(s) = Len(t)
        BY <2>4, <3>1
      <4>2. Len(s \o t) = Len(s) + Len(t) /\ Len(s) \in Nat /\ Len(t) \in Nat /\ j \in Nat
        BY <2>4
      <4> QED
        BY <4>1, <4>2
    <3>3. d + 1 \in (a + 1)..(d + 1)
      BY <1>0, <2>2
    <3> QED
      BY <2>5, <3>2, <3>3
  <2> QED
    BY <2>4, <2>6, <2>7
<1> HIDE DEF S
<1>3. c - a \in S
  <2>1. Nat \subseteq S
    BY <1>1, <1>2, Induction
  <2>2. c - a \in Nat
    BY <1>0
  <2> QED
    BY <2>1, <2>2
<1>4. a + (c - a) = c
  BY <1>0
<1>5. Ended(c)
  BY <1>0, <1>3, <1>4 DEF S
<1> QED
  BY <1>5

-----------------------------------------------------------------------------
(* bound_tail.                                                             *)
AtCut(buf, p) == p = 0 \/ buf[p] = NL

(* It cuts behind a line feed, leaves one line or no more than the bound,  *)
(* and no earlier cut would do.                                            *)
LEMMA BoundTailCuts ==
    ASSUME NEW buf \in Seq(Bytes), Len(buf) > MaxLog, buf[Len(buf)] = NL
    PROVE  \E p \in 0..(Len(buf) - 1) :
             /\ BoundTail(buf) = SubSeq(buf, p + 1, Len(buf))
             /\ AtCut(buf, p)
             /\ Len(buf) - p > MaxLog => \A i \in (p + 1)..(Len(buf) - 1) : buf[i] # NL
             /\ \A o \in 0..(p - 1) : AtCut(buf, o) => o =< Len(buf) - MaxLog
<1> DEFINE cut == Len(buf) - MaxLog
           feeds == {i \in DOMAIN buf : buf[i] = NL}
           after == {i \in feeds : i > cut}
           start == IF after = {} THEN 0 ELSE CHOOSE i \in after : \A j \in after : i =< j
           inner == feeds \ {Len(buf)}
           last == IF inner = {} THEN 0 ELSE CHOOSE i \in inner : \A j \in inner : j =< i
           from == IF start = Len(buf) THEN last ELSE start
<1>1. /\ after \in SUBSET Nat /\ inner \in SUBSET (1..Len(buf)) /\ Len(buf) \in Nat \ {0}
      /\ MaxLog \in Nat \ {0} /\ cut \in Nat \ {0} /\ cut < Len(buf)
  BY LogAssumption
<1>2. after # {}
  <2>1. Len(buf) \in after
    BY <1>1
  <2> QED
    BY <2>1
<1>3. start \in after /\ \A j \in after : start =< j
  <2>1. \E i \in after : \A j \in after : i =< j
    <3> HIDE DEF after
    <3> QED
      BY <1>1, <1>2, LeastExists
  <2>2. start = CHOOSE i \in after : \A j \in after : i =< j
    <3> HIDE DEF after
    <3> QED
      BY <1>2
  <2> HIDE DEF after, start
  <2> QED
    BY <2>1, <2>2
<1>4. inner # {} => last \in inner /\ \A j \in inner : j =< last
  <2> SUFFICES ASSUME inner # {} PROVE last \in inner /\ \A j \in inner : j =< last
    OBVIOUS
  <2>1. \E i \in inner : \A j \in inner : j =< i
    <3> HIDE DEF inner
    <3> QED
      BY <1>1, GreatestExists
  <2>2. last = CHOOSE i \in inner : \A j \in inner : j =< i
    <3> HIDE DEF inner
    <3> QED
      OBVIOUS
  <2> HIDE DEF inner, last
  <2> QED
    BY <2>1, <2>2
<1>5. inner = {} => last = 0
  OBVIOUS
<1>6. BoundTail(buf) = SubSeq(buf, from + 1, Len(buf))
  <2>1. BoundTail(buf) = IF cut =< 0 THEN buf ELSE SubSeq(buf, from + 1, Len(buf))
    BY DEF BoundTail
  <2>2. ~(cut =< 0)
    BY <1>1
  <2> HIDE DEF from, cut
  <2> QED
    BY <2>1, <2>2
<1>7. \A i \in 1..Len(buf) : buf[i] = NL /\ i > cut => start =< i
  <2> SUFFICES ASSUME NEW i \in 1..Len(buf), buf[i] = NL, i > cut PROVE start =< i
    OBVIOUS
  <2>1. i \in after
    BY <1>1
  <2> HIDE DEF after, start
  <2> QED
    BY <1>3, <2>1
<1>8. \A i \in 1..(Len(buf) - 1) : buf[i] = NL => inner # {} /\ i =< last
  <2> SUFFICES ASSUME NEW i \in 1..(Len(buf) - 1), buf[i] = NL PROVE inner # {} /\ i =< last
    OBVIOUS
  <2>1. i \in inner
    BY <1>1
  <2> HIDE DEF inner, last
  <2> QED
    BY <1>4, <2>1
<1>9. start \in 1..Len(buf) /\ start > cut /\ buf[start] = NL
  <2> HIDE DEF start
  <2> QED
    BY <1>1, <1>3
<1>10. \/ last = 0
       \/ last \in 1..(Len(buf) - 1) /\ buf[last] = NL
  <2> HIDE DEF last
  <2> QED
    BY <1>1, <1>4, <1>5
<1> HIDE DEF start, last, inner, feeds, after
<1>11. CASE start = Len(buf)
  <2>1. from = last
    BY <1>11
  <2>2. last \in 0..(Len(buf) - 1) /\ AtCut(buf, last)
    BY <1>1, <1>10 DEF AtCut
  <2>3. \A i \in (last + 1)..(Len(buf) - 1) : buf[i] # NL
    BY <1>1, <1>8, <2>2
  <2>4. \A o \in 0..(last - 1) : AtCut(buf, o) => o =< cut
    <3> SUFFICES ASSUME NEW o \in 0..(last - 1), AtCut(buf, o) PROVE o =< cut
      OBVIOUS
    <3>1. CASE o = 0
      BY <1>1, <3>1
    <3>2. CASE o # 0
      <4>1. o \in 1..Len(buf) /\ buf[o] = NL /\ o < Len(buf)
        BY <2>2, <3>2, <1>1 DEF AtCut
      <4> QED
        BY <1>1, <1>7, <1>11, <4>1
    <3> QED
      BY <3>1, <3>2
  <2> HIDE DEF from, cut
  <2>5. cut = Len(buf) - MaxLog
    BY DEF cut
  <2> QED
    BY <1>6, <2>1, <2>2, <2>3, <2>4, <2>5
<1>12. CASE start # Len(buf)
  <2>1. from = start
    BY <1>12
  <2>2. start \in 0..(Len(buf) - 1) /\ AtCut(buf, start)
    BY <1>1, <1>9, <1>12 DEF AtCut
  <2>3. Len(buf) - start =< MaxLog
    BY <1>1, <1>9
  <2>4. \A o \in 0..(start - 1) : AtCut(buf, o) => o =< cut
    <3> SUFFICES ASSUME NEW o \in 0..(start - 1), AtCut(buf, o) PROVE o =< cut
      OBVIOUS
    <3>1. CASE o = 0
      BY <1>1, <3>1
    <3>2. CASE o # 0
      <4>1. o \in 1..Len(buf) /\ buf[o] = NL /\ o < start
        BY <2>2, <3>2, <1>1 DEF AtCut
      <4> QED
        BY <1>1, <1>7, <1>9, <4>1
    <3> QED
      BY <3>1, <3>2
  <2>5. cut = Len(buf) - MaxLog
    OBVIOUS
  <2> HIDE DEF from, cut
  <2>6. ~(Len(buf) - start > MaxLog)
    BY <1>1, <1>9, <2>3
  <2> QED
    BY <1>6, <2>1, <2>2, <2>4, <2>5, <2>6
<1> QED
  BY <1>11, <1>12

LEMMA BoundTailShort ==
    ASSUME NEW buf \in Seq(Bytes), Len(buf) =< MaxLog
    PROVE  BoundTail(buf) = buf
<1>1. Len(buf) - MaxLog =< 0
  BY LogAssumption
<1> QED
  BY <1>1 DEF BoundTail

LEMMA BoundTailType ==
    ASSUME NEW buf \in Seq(Bytes)
    PROVE  BoundTail(buf) \in Seq(Bytes) /\ (Readable(buf) => Readable(BoundTail(buf)))
<1> DEFINE cut == Len(buf) - MaxLog
           feeds == {i \in DOMAIN buf : buf[i] = NL}
           after == {i \in feeds : i > cut}
           start == IF after = {} THEN 0 ELSE CHOOSE i \in after : \A j \in after : i =< j
           inner == feeds \ {Len(buf)}
           last == IF inner = {} THEN 0 ELSE CHOOSE i \in inner : \A j \in inner : j =< i
           from == IF start = Len(buf) THEN last ELSE start
<1>1. after \in SUBSET (1..Len(buf)) /\ inner \in SUBSET (1..Len(buf)) /\ Len(buf) \in Nat
  OBVIOUS
<1>2. start \in 0..Len(buf)
  <2>1. CASE after = {}
    BY <1>1, <2>1
  <2>2. CASE after # {}
    <3>1. after \in SUBSET Nat
      BY <1>1
    <3>2. \E i \in after : \A j \in after : i =< j
      BY <2>2, <3>1, LeastExists
    <3>3. (CHOOSE i \in after : \A j \in after : i =< j) \in after
      <4> HIDE DEF after
      <4> QED
        BY <3>2
    <3>4. start \in after
      BY <2>2, <3>3
    <3> HIDE DEF start, after
    <3> QED
      BY <1>1, <3>4
  <2> QED
    BY <2>1, <2>2
<1>3. last \in 0..Len(buf)
  <2>1. CASE inner = {}
    BY <1>1, <2>1
  <2>2. CASE inner # {}
    <3>1. \E i \in inner : \A j \in inner : j =< i
      BY <1>1, <2>2, GreatestExists
    <3>2. (CHOOSE i \in inner : \A j \in inner : j =< i) \in inner
      <4> HIDE DEF inner
      <4> QED
        BY <3>1
    <3>3. last \in inner
      BY <2>2, <3>2
    <3> HIDE DEF last, inner
    <3> QED
      BY <1>1, <3>3
  <2> QED
    BY <2>1, <2>2
<1>4. BoundTail(buf) = IF cut =< 0 THEN buf ELSE SubSeq(buf, from + 1, Len(buf))
  BY DEF BoundTail
<1> HIDE DEF start, last
<1>5. from \in 0..Len(buf)
  BY <1>2, <1>3
<1> HIDE DEF from, cut
<1>6. /\ SubSeq(buf, from + 1, Len(buf)) \in Seq(Bytes)
      /\ Len(SubSeq(buf, from + 1, Len(buf))) = Len(buf) - from
      /\ \A i \in 1..(Len(buf) - from) : SubSeq(buf, from + 1, Len(buf))[i] = buf[from + i]
  BY <1>1, <1>5
<1>7. Readable(buf) => Readable(SubSeq(buf, from + 1, Len(buf)))
  <2>1. \A i \in 1..(Len(buf) - from) : from + i \in 1..Len(buf)
    BY <1>1, <1>5
  <2> QED
    BY <1>6, <2>1 DEF Readable
<1> QED
  BY <1>4, <1>6, <1>7

(* Two pieces of a file, and the rest of them behind a place.              *)
LEMMA Joined ==
    ASSUME NEW s \in Seq(Bytes), NEW t \in Seq(Bytes)
    PROVE  /\ s \o t \in Seq(Bytes) /\ Len(s \o t) = Len(s) + Len(t)
           /\ Len(s) \in Nat /\ Len(t) \in Nat
           /\ \A i \in 1..Len(s) : (s \o t)[i] = s[i]
           /\ \A i \in 1..Len(t) : (s \o t)[Len(s) + i] = t[i]
<1>1. s \o t \in Seq(Bytes) /\ Len(s \o t) = Len(s) + Len(t) /\ Len(s) \in Nat /\ Len(t) \in Nat
  OBVIOUS
<1>2. \A i \in 1..Len(s) : (s \o t)[i] = s[i]
  OBVIOUS
<1>3. ASSUME NEW i \in 1..Len(t) PROVE (s \o t)[Len(s) + i] = t[i]
  <2>1. /\ Len(s) + i \in 1..(Len(s) + Len(t)) /\ ~(Len(s) + i =< Len(s))
        /\ (Len(s) + i) - Len(s) = i
    BY <1>1
  <2>2. PICK k : k = Len(s) + i
    OBVIOUS
  <2>3. (s \o t)[k] = t[k - Len(s)]
    BY <1>1, <2>1, <2>2
  <2> QED
    BY <2>1, <2>2, <2>3
<1> QED
  BY <1>1, <1>2, <1>3

LEMMA RestOf ==
    ASSUME NEW s \in Seq(Bytes), NEW p \in 0..Len(s)
    PROVE  /\ SubSeq(s, p + 1, Len(s)) \in Seq(Bytes)
           /\ Len(SubSeq(s, p + 1, Len(s))) = Len(s) - p
           /\ \A i \in 1..(Len(s) - p) : SubSeq(s, p + 1, Len(s))[i] = s[p + i]
<1>1. Len(s) \in Nat /\ p \in Nat
  OBVIOUS
<1>2. SubSeq(s, p + 1, Len(s)) \in Seq(Bytes)
  OBVIOUS
<1>3. Len(SubSeq(s, p + 1, Len(s))) = Len(s) - p
  BY <1>1
<1>4. ASSUME NEW i \in 1..(Len(s) - p) PROVE SubSeq(s, p + 1, Len(s))[i] = s[p + i]
  <2>1. SubSeq(s, p + 1, Len(s))[i] = s[(p + 1) + i - 1]
    BY <1>1
  <2>2. (p + 1) + i - 1 = p + i
    BY <1>1
  <2> QED
    BY <2>1, <2>2
<1> QED
  BY <1>2, <1>3, <1>4

LEMMA RestOfFirst ==
    ASSUME NEW s \in Seq(Bytes), NEW t \in Seq(Bytes), NEW p \in 0..Len(s)
    PROVE  SubSeq(s \o t, p + 1, Len(s \o t)) = SubSeq(s, p + 1, Len(s)) \o t
<1>1. PICK h, r, x : h = s \o t /\ r = SubSeq(s, p + 1, Len(s)) /\ x = SubSeq(h, p + 1, Len(h))
  OBVIOUS
<1>2. /\ h \in Seq(Bytes) /\ Len(h) = Len(s) + Len(t) /\ Len(s) \in Nat /\ Len(t) \in Nat
      /\ \A i \in 1..Len(s) : h[i] = s[i]
      /\ \A i \in 1..Len(t) : h[Len(s) + i] = t[i]
  BY <1>1, Joined
<1>3. /\ r \in Seq(Bytes) /\ Len(r) = Len(s) - p
      /\ \A i \in 1..(Len(s) - p) : r[i] = s[p + i]
  BY <1>1, RestOf
<1>4. p \in 0..Len(h)
  BY <1>2
<1>5. /\ x \in Seq(Bytes) /\ Len(x) = Len(h) - p
      /\ \A i \in 1..(Len(h) - p) : x[i] = h[p + i]
  BY <1>1, <1>2, <1>4, RestOf
<1>6. /\ r \o t \in Seq(Bytes) /\ Len(r \o t) = Len(r) + Len(t)
      /\ \A i \in 1..Len(r) : (r \o t)[i] = r[i]
      /\ \A i \in 1..Len(t) : (r \o t)[Len(r) + i] = t[i]
  BY <1>3, Joined
<1>7. Len(x) = Len(r \o t)
  BY <1>2, <1>3, <1>5, <1>6
<1>8. ASSUME NEW i \in 1..Len(x) PROVE x[i] = (r \o t)[i]
  <2>1. x[i] = h[p + i]
    BY <1>5
  <2>2. CASE i =< Len(r)
    <3>1. i \in 1..Len(r) /\ i \in 1..(Len(s) - p) /\ p + i \in 1..Len(s)
      BY <1>2, <1>3, <2>2
    <3> QED
      BY <1>2, <1>3, <1>6, <2>1, <3>1
  <2>3. CASE ~(i =< Len(r))
    <3>1. PICK j : j = i - Len(r)
      OBVIOUS
    <3>2. j \in 1..Len(t) /\ i = Len(r) + j /\ p + i = Len(s) + j
      BY <1>2, <1>3, <1>5, <2>3, <3>1
    <3> QED
      BY <1>2, <1>6, <2>1, <3>2
  <2> QED
    BY <2>2, <2>3
<1>9. x = r \o t
  BY <1>5, <1>6, <1>7, <1>8, SeqEqual
<1> QED
  BY <1>1, <1>9

LEMMA RestOfSecond ==
    ASSUME NEW s \in Seq(Bytes), NEW t \in Seq(Bytes), NEW k \in 0..Len(t)
    PROVE  SubSeq(s \o t, (Len(s) + k) + 1, Len(s \o t)) = SubSeq(t, k + 1, Len(t))
<1>1. PICK h, r, p, x : /\ h = s \o t /\ r = SubSeq(t, k + 1, Len(t)) /\ p = Len(s) + k
                        /\ x = SubSeq(h, p + 1, Len(h))
  OBVIOUS
<1>2. /\ h \in Seq(Bytes) /\ Len(h) = Len(s) + Len(t) /\ Len(s) \in Nat /\ Len(t) \in Nat
      /\ \A i \in 1..Len(t) : h[Len(s) + i] = t[i]
  BY <1>1, Joined
<1>3. /\ r \in Seq(Bytes) /\ Len(r) = Len(t) - k
      /\ \A i \in 1..(Len(t) - k) : r[i] = t[k + i]
  BY <1>1, RestOf
<1>4. p \in 0..Len(h) /\ k \in Nat
  BY <1>1, <1>2
<1>5. /\ x \in Seq(Bytes) /\ Len(x) = Len(h) - p
      /\ \A i \in 1..(Len(h) - p) : x[i] = h[p + i]
  BY <1>1, <1>2, <1>4, RestOf
<1>6. Len(x) = Len(r)
  BY <1>1, <1>2, <1>3, <1>4, <1>5
<1>7. ASSUME NEW i \in 1..Len(x) PROVE x[i] = r[i]
  <2>1. i \in 1..(Len(h) - p) /\ i \in 1..(Len(t) - k)
    BY <1>3, <1>5, <1>6
  <2>2. k + i \in 1..Len(t) /\ p + i = Len(s) + (k + i)
    BY <1>1, <1>2, <1>4, <2>1
  <2> QED
    BY <1>2, <1>3, <1>5, <2>1, <2>2
<1>8. x = r
  BY <1>3, <1>5, <1>6, <1>7, SeqEqual
<1> QED
  BY <1>1, <1>8

(* A text of more than one record has a line feed before its last byte.    *)
LEMMA OneLine ==
    ASSUME NEW q \in Seq(Record), NEW b \in 0..(Len(q) - 1), b # Len(q) - 1
    PROVE  /\ Part(q, b, Len(q))[Len(Part(q, b, b + 1))] = NL
           /\ Len(Part(q, b, b + 1)) \in 1..(Len(Part(q, b, Len(q))) - 1)
<1>0. /\ Len(q) \in Nat /\ b \in 0..Len(q) /\ b + 1 \in b..Len(q) /\ b + 1 \in 0..Len(q)
      /\ Len(q) \in (b + 1)..Len(q) /\ b < b + 1 /\ b + 1 < Len(q) /\ Len(q) \in b..Len(q)
  OBVIOUS
<1>1. PICK s, t : s = Part(q, b, b + 1) /\ t = Part(q, b + 1, Len(q))
  OBVIOUS
<1>2. s \in Seq(Bytes) /\ Len(s) \in Nat /\ Len(s) > 0 /\ s[Len(s)] = NL
  BY <1>0, <1>1, PartType, PartEnds
<1>3. t \in Seq(Bytes) /\ Len(t) \in Nat /\ Len(t) > 0
  BY <1>0, <1>1, PartType, PartEnds
<1>4. Part(q, b, Len(q)) = s \o t
  BY <1>0, <1>1, PartSplit
<1>5. Len(s \o t) = Len(s) + Len(t) /\ (s \o t)[Len(s)] = s[Len(s)]
  BY <1>2, <1>3
<1> QED
  BY <1>1, <1>2, <1>3, <1>4, <1>5

(* h, which is g and the records after the a-th, is cut before or between  *)
(* them.                                                                   *)
CutWell(h, q, a, g) ==
    \E b \in a..(Len(q) - 1), g2 \in Seq(Bytes) :
      /\ BoundTail(h) = g2 \o Part(q, b, Len(q))
      /\ b = 0 \/ AtCut(g2, Len(g2))
      /\ g = <<>> \/ b # a => g2 = <<>>
      /\ Len(BoundTail(h)) > MaxLog =>
           b = Len(q) - 1 /\ \A i \in 1..(Len(BoundTail(h)) - 1) : BoundTail(h)[i] # NL
      /\ b > a /\ (b > 1 \/ g = <<>>) => Len(Part(q, b - 1, Len(q))) >= MaxLog

LEMMA CutAtRecord ==
    ASSUME NEW q \in Seq(Record), NEW a \in 0..(Len(q) - 1), NEW g \in Seq(Bytes),
           a = 0 \/ AtCut(g, Len(g)),
           NEW h, h = g \o Part(q, a, Len(q)), Len(h) > MaxLog
    PROVE  CutWell(h, q, a, g)
<1> DEFINE m == Len(q)
<1>0. m \in Nat /\ a \in 0..m /\ m \in a..m /\ a < m /\ MaxLog \in Nat \ {0}
  BY LogAssumption
<1>1. PICK t : t = Part(q, a, m)
  OBVIOUS
<1>2. t \in Seq(Bytes) /\ Len(t) \in Nat \ {0} /\ t[Len(t)] = NL
  BY <1>0, <1>1, PartType, PartEnds
<1>3. /\ h = g \o t /\ h \in Seq(Bytes) /\ Len(h) = Len(g) + Len(t) /\ Len(g) \in Nat
      /\ \A i \in 1..Len(g) : h[i] = g[i]
      /\ \A i \in 1..Len(t) : h[Len(g) + i] = t[i]
  BY <1>1, <1>2, Joined
<1>4. h[Len(h)] = NL
  <2>1. Len(t) \in 1..Len(t)
    BY <1>2
  <2> QED
    BY <1>2, <1>3, <2>1
<1>5. PICK p \in 0..(Len(h) - 1) :
        /\ BoundTail(h) = SubSeq(h, p + 1, Len(h))
        /\ AtCut(h, p)
        /\ Len(h) - p > MaxLog => \A i \in (p + 1)..(Len(h) - 1) : h[i] # NL
        /\ \A o \in 0..(p - 1) : AtCut(h, o) => o =< Len(h) - MaxLog
  BY <1>3, <1>4, BoundTailCuts
<1>6. /\ BoundTail(h) \in Seq(Bytes) /\ Len(BoundTail(h)) = Len(h) - p
      /\ \A i \in 1..(Len(h) - p) : BoundTail(h)[i] = h[p + i]
  <2>1. p \in 0..Len(h)
    BY <1>3, <1>5
  <2> QED
    BY <1>3, <1>5, <2>1, RestOf
<1>7. Len(BoundTail(h)) > MaxLog => \A i \in 1..(Len(BoundTail(h)) - 1) : BoundTail(h)[i] # NL
  <2> SUFFICES ASSUME Len(BoundTail(h)) > MaxLog, NEW i \in 1..(Len(BoundTail(h)) - 1)
               PROVE  BoundTail(h)[i] # NL
    OBVIOUS
  <2>1. p + i \in (p + 1)..(Len(h) - 1) /\ Len(h) - p > MaxLog /\ i \in 1..(Len(h) - p)
    BY <1>3, <1>6
  <2> QED
    BY <1>5, <1>6, <2>1
<1>8. CASE p =< Len(g)
  <2>1. PICK g2 : g2 = SubSeq(g, p + 1, Len(g))
    OBVIOUS
  <2>2. /\ g2 \in Seq(Bytes) /\ Len(g2) = Len(g) - p /\ p \in 0..Len(g)
        /\ \A i \in 1..(Len(g) - p) : g2[i] = g[p + i]
    <3>1. p \in 0..Len(g)
      BY <1>3, <1>5, <1>8
    <3> QED
      BY <2>1, <3>1, RestOf
  <2>3. BoundTail(h) = g2 \o t
    <3>1. SubSeq(g \o t, p + 1, Len(g \o t)) = SubSeq(g, p + 1, Len(g)) \o t
      BY <1>2, <2>2, RestOfFirst
    <3>2. SubSeq(h, p + 1, Len(h)) = g2 \o t
      BY <1>3, <2>1, <3>1, Zenon
    <3> QED
      BY <1>5, <3>2
  <2>4. a = 0 \/ AtCut(g2, Len(g2))
    <3> SUFFICES ASSUME AtCut(g, Len(g)), Len(g2) # 0 PROVE g2[Len(g2)] = NL
      BY DEF AtCut
    <3>1. Len(g) # 0 /\ g[Len(g)] = NL
      BY <1>3, <1>5, <2>2 DEF AtCut
    <3>2. g2[Len(g) - p] = g[p + (Len(g) - p)] /\ p + (Len(g) - p) = Len(g)
      BY <1>3, <1>8, <2>2
    <3> QED
      BY <2>2, <3>1, <3>2
  <2>5. g = <<>> => g2 = <<>>
    <3> SUFFICES ASSUME g = <<>> PROVE g2 = <<>>
      OBVIOUS
    <3>1. Len(g) = 0
      OBVIOUS
    <3>2. Len(g2) = 0
      BY <1>5, <1>8, <2>2, <3>1
    <3> QED
      BY <2>2, <3>2
  <2>6. Len(BoundTail(h)) > MaxLog => a = m - 1
    <3> SUFFICES ASSUME Len(BoundTail(h)) > MaxLog, a # m - 1 PROVE FALSE
      OBVIOUS
    <3>1. PICK i : i = Len(Part(q, a, a + 1))
      OBVIOUS
    <3>2. t[i] = NL /\ i \in 1..(Len(t) - 1)
      BY <1>1, <3>1, OneLine
    <3>3. /\ g2 \o t \in Seq(Bytes) /\ Len(g2 \o t) = Len(g2) + Len(t) /\ Len(g2) \in Nat
          /\ \A j \in 1..Len(t) : (g2 \o t)[Len(g2) + j] = t[j]
      BY <1>2, <2>2, Joined
    <3>4. i \in 1..Len(t) /\ Len(g2) + i \in 1..(Len(g2 \o t) - 1)
      BY <1>2, <3>2, <3>3
    <3>5. (g2 \o t)[Len(g2) + i] = NL
      BY <3>2, <3>3, <3>4
    <3> QED
      BY <1>7, <2>3, <3>4, <3>5
  <2>7. a \in a..(m - 1) /\ ~(a > a)
    BY <1>0
  <2> QED
    BY <1>1, <1>7, <2>2, <2>3, <2>4, <2>5, <2>6, <2>7 DEF CutWell
<1>9. CASE p > Len(g)
  <2>1. PICK i : i = p - Len(g)
    OBVIOUS
  <2>2. i \in 1..(Len(t) - 1) /\ i \in 1..Len(t) /\ t[i] = NL /\ p = Len(g) + i
    <3>1. i \in 1..(Len(t) - 1) /\ p = Len(g) + i
      BY <1>2, <1>3, <1>5, <1>9, <2>1
    <3>2. i \in 1..Len(t) /\ p # 0
      BY <1>2, <1>3, <3>1
    <3>3. h[p] = NL
      BY <1>5, <3>2 DEF AtCut
    <3> QED
      BY <1>3, <3>1, <3>2, <3>3
  <2>3. PICK b \in (a + 1)..m : i = Len(Part(q, a, b))
    BY <1>0, <1>1, <2>2, PartFeeds
  <2>4. b # m
    BY <1>1, <1>2, <2>2, <2>3
  <2>5. b \in a..(m - 1) /\ b > a /\ b \in a..m /\ b \in 0..m /\ m \in b..m /\ b < m
    BY <1>0, <2>3, <2>4
  <2>6. PICK u, v : u = Part(q, a, b) /\ v = Part(q, b, m)
    OBVIOUS
  <2>7. u \in Seq(Bytes) /\ v \in Seq(Bytes) /\ t = u \o v /\ Len(u) = i /\ Len(v) \in Nat
    BY <1>0, <1>1, <2>3, <2>5, <2>6, PartType, PartSplit
  <2>8. BoundTail(h) = v
    <3>1. SubSeq(h, p + 1, Len(h)) = SubSeq(t, i + 1, Len(t))
      <4>1. i \in 0..Len(t)
        BY <1>2, <2>2
      <4> QED
        BY <1>2, <1>3, <2>2, <4>1, RestOfSecond
    <3>2. SubSeq(t, (Len(u) + 0) + 1, Len(t)) = SubSeq(v, 0 + 1, Len(v))
      <4>1. 0 \in 0..Len(v)
        BY <2>7
      <4> QED
        BY <2>7, <4>1, RestOfSecond
    <3>3. SubSeq(v, 0 + 1, Len(v)) = v
      BY <2>7
    <3>4. (Len(u) + 0) + 1 = i + 1
      BY <2>2, <2>7
    <3> QED
      BY <1>5, <3>1, <3>2, <3>3, <3>4
  <2>9. Len(BoundTail(h)) > MaxLog => b = m - 1
    <3> SUFFICES ASSUME Len(BoundTail(h)) > MaxLog, b # m - 1 PROVE FALSE
      OBVIOUS
    <3>1. \E j \in 1..(Len(v) - 1) : v[j] = NL
      <4>1. b \in 0..(Len(q) - 1)
        BY <1>0, <2>5
      <4> QED
        BY <2>6, <4>1, OneLine
    <3> QED
      BY <1>7, <2>8, <3>1
  <2>10. b > 1 \/ g = <<>> => Len(Part(q, b - 1, m)) >= MaxLog
    <3> SUFFICES ASSUME b > 1 \/ g = <<>> PROVE Len(Part(q, b - 1, m)) >= MaxLog
      OBVIOUS
    <3>1. b - 1 \in a..m /\ b - 1 \in 0..m /\ m \in (b - 1)..m /\ (b - 1) + 1 = b
      BY <1>0, <2>5
    <3>2. PICK w, x : w = Part(q, a, b - 1) /\ x = Part(q, b - 1, m)
      OBVIOUS
    <3>3. w \in Seq(Bytes) /\ x \in Seq(Bytes) /\ t = w \o x /\ Len(w) \in Nat /\ Len(x) \in Nat
      BY <1>0, <1>1, <3>1, <3>2, PartType, PartSplit
    <3>4. Len(t) = Len(w) + Len(x) /\ Len(w) < i
      <4>1. PICK y : y = Text(q[b])
        OBVIOUS
      <4>2. b - 1 < m /\ q[b] \in Record
        BY <1>0, <2>5
      <4>3. y \in Seq(Bytes) /\ Len(y) \in Nat \ {0}
        BY <4>1, <4>2, TextFacts
      <4>4. u = w \o y
        BY <1>0, <2>6, <3>1, <3>2, <4>1, <4>2, PartMore
      <4>5. Len(u) = Len(w) + Len(y)
        BY <3>3, <4>3, <4>4
      <4>6. Len(t) = Len(w) + Len(x)
        BY <3>3
      <4> QED
        BY <2>7, <3>3, <4>3, <4>5, <4>6
    <3>5. Len(g) + Len(w) \in 0..(p - 1)
      BY <1>3, <2>2, <3>3, <3>4
    <3>6. AtCut(h, Len(g) + Len(w))
      <4>1. CASE b - 1 = a
        <5>1. Len(w) = 0
          BY <1>0, <3>2, <4>1, PartNone
        <5>2. CASE g = <<>>
          BY <5>1, <5>2 DEF AtCut
        <5>3. CASE b > 1
          <6>1. AtCut(g, Len(g)) /\ Len(g) + Len(w) = Len(g)
            BY <1>0, <1>3, <4>1, <5>1, <5>3
          <6>2. CASE Len(g) = 0
            BY <6>1, <6>2 DEF AtCut
          <6>3. CASE Len(g) # 0
            <7>1. Len(g) \in 1..Len(h) /\ g[Len(g)] = NL
              BY <1>2, <1>3, <6>1, <6>3 DEF AtCut
            <7>2. h[Len(g)] = g[Len(g)]
              BY <1>3, <7>1
            <7> QED
              BY <6>1, <7>1, <7>2 DEF AtCut
          <6> QED
            BY <6>2, <6>3
        <5> QED
          BY <5>2, <5>3
      <4>2. CASE b - 1 # a
        <5>1. a < b - 1
          BY <1>0, <3>1, <4>2
        <5>2. Len(w) > 0 /\ w[Len(w)] = NL
          BY <1>0, <3>1, <3>2, <5>1, PartEnds
        <5>3. t[Len(w)] = NL
          <6>1. Len(w) \in 1..Len(w)
            BY <3>3, <5>2
          <6> QED
            BY <3>3, <5>2, <6>1, Joined
        <5>4. Len(w) \in 1..Len(t)
          BY <3>3, <3>4, <5>2
        <5> QED
          BY <1>3, <5>3, <5>4 DEF AtCut
      <4> QED
        BY <4>1, <4>2
    <3>7. Len(g) + Len(w) =< Len(h) - MaxLog
      BY <1>5, <3>5, <3>6
    <3> QED
      BY <1>0, <1>3, <3>2, <3>3, <3>4, <3>7
  <2>11. <<>> \in Seq(Bytes) /\ BoundTail(h) = <<>> \o v /\ AtCut(<<>>, Len(<<>>))
    BY <2>7, <2>8 DEF AtCut
  <2> QED
    BY <1>7, <2>5, <2>6, <2>8, <2>9, <2>10, <2>11 DEF CutWell
<1>10. p =< Len(g) \/ p > Len(g)
  BY <1>3, <1>5
<1> QED
  BY <1>8, <1>9, <1>10

-----------------------------------------------------------------------------
(* What the log holds when one more record is appended.                    *)
LEMMA LastIsPart ==
    ASSUME NEW q \in Seq(Record), NEW k \in 0..Len(q)
    PROVE  Texts(LastK(q, k)) = Part(q, Len(q) - k, Len(q))
<1>1. Len(q) - k + 1 = (Len(q) - k) + 1
  OBVIOUS
<1> QED
  BY <1>1 DEF LastK, Part

(* What HoldsLast says, with the number of records that are left out.      *)
LeavesOut(f, q, a) ==
    /\ f = Part(q, a, Len(q))
    /\ q # <<>> => a < Len(q)
    /\ Len(f) > MaxLog => a = Len(q) - 1
    /\ a > 0 => Len(Part(q, a - 1, Len(q))) >= MaxLog

LEMMA HoldsLastLeaves ==
    ASSUME NEW q \in Seq(Record), NEW f
    PROVE  HoldsLast(f, q) <=> \E a \in 0..Len(q) : LeavesOut(f, q, a)
<1>0. Len(q) \in Nat
  OBVIOUS
<1>1. ASSUME NEW k \in 0..Len(q), NEW a \in 0..Len(q), a = Len(q) - k
      PROVE  LeavesOut(f, q, a) <=>
               /\ f = Texts(LastK(q, k))
               /\ q # <<>> => k > 0
               /\ Len(f) > MaxLog => k = 1
               /\ k < Len(q) => Len(Texts(LastK(q, k + 1))) >= MaxLog
  <2>1. Texts(LastK(q, k)) = Part(q, a, Len(q))
    BY <1>1, LastIsPart
  <2>2. a > 0 <=> k < Len(q)
    BY <1>0, <1>1
  <2>3. k < Len(q) => Texts(LastK(q, k + 1)) = Part(q, a - 1, Len(q))
    <3> SUFFICES ASSUME k < Len(q) PROVE Texts(LastK(q, k + 1)) = Part(q, a - 1, Len(q))
      OBVIOUS
    <3>1. k + 1 \in 0..Len(q) /\ Len(q) - (k + 1) = a - 1
      BY <1>0, <1>1
    <3> QED
      BY <3>1, LastIsPart
  <2>4. (a < Len(q) <=> k > 0) /\ (a = Len(q) - 1 <=> k = 1)
    BY <1>0, <1>1
  <2> QED
    BY <2>1, <2>2, <2>3, <2>4 DEF LeavesOut
<1>2. \A k \in 0..Len(q) : Len(q) - k \in 0..Len(q) /\ Len(q) - (Len(q) - k) = k
  BY <1>0
<1>3. HoldsLast(f, q) => \E a \in 0..Len(q) : LeavesOut(f, q, a)
  BY <1>1, <1>2 DEF HoldsLast
<1>4. ASSUME NEW a \in 0..Len(q), LeavesOut(f, q, a) PROVE HoldsLast(f, q)
  <2>1. Len(q) - a \in 0..Len(q) /\ a = Len(q) - (Len(q) - a)
    BY <1>0
  <2> QED
    BY <1>1, <1>4, <2>1 DEF HoldsLast
<1> QED
  BY <1>3, <1>4

(* What was appended to a log stays where it is in the next.               *)
LEMMA PartOfLonger ==
    ASSUME NEW q \in Seq(Record), NEW r \in Record, NEW a \in 0..Len(q)
    PROVE  /\ Part(Append(q, r), a, Len(q)) = Part(q, a, Len(q))
           /\ Part(Append(q, r), a, Len(q) + 1) = Part(q, a, Len(q)) \o Text(r)
<1>1. PICK p : p = Append(q, r)
  OBVIOUS
<1>2. /\ p \in Seq(Record) /\ Len(p) = Len(q) + 1 /\ p[Len(q) + 1] = r /\ Len(q) \in Nat
      /\ \A i \in 1..Len(q) : p[i] = q[i]
  BY <1>1
<1>3. SubSeq(p, a + 1, Len(q)) = SubSeq(q, a + 1, Len(q))
  BY <1>2
<1>4. Part(p, a, Len(q)) = Part(q, a, Len(q))
  BY <1>3 DEF Part
<1>5. a \in 0..Len(p) /\ Len(q) \in a..Len(p) /\ Len(q) < Len(p)
  BY <1>2
<1>6. Part(p, a, Len(q) + 1) = Part(p, a, Len(q)) \o Text(p[Len(q) + 1])
  BY <1>2, <1>5, PartMore
<1> QED
  BY <1>1, <1>2, <1>4, <1>6

LEMMA HoldsOneMore ==
    ASSUME NEW q \in Seq(Record), NEW r \in Record, NEW f, HoldsLast(f, q)
    PROVE  HoldsLast(BoundTail(f \o Text(r)), Append(q, r))
<1>1. PICK a \in 0..Len(q) : LeavesOut(f, q, a)
  BY HoldsLastLeaves
<1>2. PICK p, h : p = Append(q, r) /\ h = f \o Text(r)
  OBVIOUS
<1>3. p \in Seq(Record) /\ Len(p) = Len(q) + 1 /\ Len(q) \in Nat /\ p # <<>>
  BY <1>2
<1>4. a \in 0..(Len(p) - 1) /\ a \in 0..Len(p) /\ Len(p) \in a..Len(p) /\ a < Len(p)
  BY <1>3
<1>5. h = Part(p, a, Len(p)) /\ h \in Seq(Bytes) /\ Len(h) \in Nat
  <2>1. h = Part(p, a, Len(p))
    <3>1. Part(p, a, Len(q) + 1) = Part(q, a, Len(q)) \o Text(r)
      BY <1>2, PartOfLonger
    <3> QED
      BY <1>1, <1>2, <1>3, <3>1 DEF LeavesOut
  <2>2. Part(p, a, Len(p)) \in Seq(Bytes)
    BY <1>3, <1>4, PartType
  <2> QED
    BY <2>1, <2>2
<1>6. a > 0 => Len(Part(p, a - 1, Len(p))) >= MaxLog
  <2> SUFFICES ASSUME a > 0 PROVE Len(Part(p, a - 1, Len(p))) >= MaxLog
    OBVIOUS
  <2>1. a - 1 \in 0..Len(q) /\ Len(q) \in (a - 1)..Len(q)
    BY <1>3
  <2>2. PICK s, t : s = Part(q, a - 1, Len(q)) /\ t = Text(r)
    OBVIOUS
  <2>3. Part(p, a - 1, Len(p)) = s \o t
    BY <1>2, <1>3, <2>1, <2>2, PartOfLonger
  <2>4. s \in Seq(Bytes) /\ t \in Seq(Bytes)
    BY <2>1, <2>2, PartType, TextFacts
  <2>5. Len(s \o t) = Len(s) + Len(t) /\ Len(s) \in Nat /\ Len(t) \in Nat
    BY <2>4
  <2>6. Len(s) >= MaxLog
    BY <1>1, <2>2 DEF LeavesOut
  <2> QED
    BY <2>3, <2>5, <2>6, LogAssumption
<1>7. CASE Len(h) =< MaxLog
  <2>1. BoundTail(h) = h /\ ~(Len(h) > MaxLog)
    BY <1>5, <1>7, BoundTailShort, LogAssumption
  <2>2. LeavesOut(BoundTail(h), p, a)
    BY <1>4, <1>5, <1>6, <2>1 DEF LeavesOut
  <2> QED
    BY <1>2, <1>3, <1>4, <2>2, HoldsLastLeaves
<1>8. CASE Len(h) > MaxLog
  <2>1. PICK g : g = <<>>
    OBVIOUS
  <2>2. g \in Seq(Bytes) /\ (a = 0 \/ AtCut(g, Len(g))) /\ h = g \o Part(p, a, Len(p))
    BY <1>5, <2>1 DEF AtCut
  <2>3. PICK b \in a..(Len(p) - 1), g2 \in Seq(Bytes) :
          /\ BoundTail(h) = g2 \o Part(p, b, Len(p))
          /\ g2 = <<>>
          /\ Len(BoundTail(h)) > MaxLog => b = Len(p) - 1
          /\ b > a => Len(Part(p, b - 1, Len(p))) >= MaxLog
    <3>1. CutWell(h, p, a, g)
      BY <1>3, <1>4, <1>8, <2>2, CutAtRecord
    <3> QED
      BY <2>1, <3>1 DEF CutWell
  <2>4. b \in 0..Len(p) /\ b < Len(p) /\ Len(p) \in b..Len(p) /\ (b > a \/ b = a)
    BY <1>3, <1>4
  <2>5. Part(p, b, Len(p)) \in Seq(Bytes)
    BY <1>3, <2>4, PartType
  <2>6. BoundTail(h) = Part(p, b, Len(p))
    BY <2>3, <2>5
  <2>7. LeavesOut(BoundTail(h), p, b)
    BY <1>6, <2>3, <2>4, <2>6 DEF LeavesOut
  <2> QED
    BY <1>2, <1>3, <2>4, <2>7, HoldsLastLeaves
<1> QED
  BY <1>2, <1>5, <1>7, <1>8, LogAssumption

(* The same of a file that others have written to before, with what is in  *)
(* front of the records.  Only the first of them may begin within a line.  *)
Follows(f, q, g, a) ==
    /\ f = g \o Part(q, a, Len(q))
    /\ q # <<>> => a < Len(q)
    /\ a = 0 \/ AtCut(g, Len(g))
    /\ q # <<>> /\ Oversized(f) => a = Len(q) - 1 /\ \A i \in 1..(Len(f) - 1) : f[i] # NL
    /\ ~Readable(f) => a = 0
    /\ a > 1 => Len(Part(q, a - 1, Len(q))) >= MaxLog

GoesWith(f, q) == \E g \in Seq(Bytes), a \in 0..Len(q) : Follows(f, q, g, a)

LEMMA SuffixOfJoin ==
    ASSUME NEW s \in Seq(Bytes), NEW t \in Seq(Bytes)
    PROVE  IsSuffix(t, s \o t)
<1>1. PICK h : h = s \o t
  OBVIOUS
<1>2. /\ h \in Seq(Bytes) /\ Len(h) = Len(s) + Len(t) /\ Len(s) \in Nat /\ Len(t) \in Nat
      /\ \A i \in 1..Len(t) : h[Len(s) + i] = t[i]
  BY <1>1, Joined
<1>3. PICK rt, rh : rt = Reverse(t) /\ rh = Reverse(h)
  OBVIOUS
<1>4. rt = [i \in 1..Len(t) |-> t[(Len(t) - i) + 1]] /\ rh = [i \in 1..Len(h) |-> h[(Len(h) - i) + 1]]
  BY <1>3 DEF Reverse
<1>5. rt \in Seq(Bytes) /\ Len(rt) = Len(t)
  BY <1>2, <1>4
<1>6. rh \in Seq(Bytes) /\ Len(rh) = Len(h)
  BY <1>2, <1>4
<1>7. ASSUME NEW i \in 1..Len(t) PROVE rt[i] = rh[i]
  <2>1. (Len(t) - i) + 1 \in 1..Len(t) /\ (Len(h) - i) + 1 = Len(s) + ((Len(t) - i) + 1) /\ i \in 1..Len(h)
    BY <1>2
  <2> QED
    BY <1>2, <1>4, <2>1
<1>8. SubSeq(rt, 1, Len(rt)) = SubSeq(rh, 1, Len(rt))
  <2>1. /\ SubSeq(rt, 1, Len(rt)) \in Seq(Bytes) /\ Len(SubSeq(rt, 1, Len(rt))) = Len(t)
        /\ \A i \in 1..Len(t) : SubSeq(rt, 1, Len(rt))[i] = rt[i]
    BY <1>2, <1>5
  <2>2. /\ SubSeq(rh, 1, Len(rt)) \in Seq(Bytes) /\ Len(SubSeq(rh, 1, Len(rt))) = Len(t)
        /\ \A i \in 1..Len(t) : SubSeq(rh, 1, Len(rt))[i] = rh[i]
    BY <1>2, <1>5, <1>6
  <2>3. PICK x, y : x = SubSeq(rt, 1, Len(rt)) /\ y = SubSeq(rh, 1, Len(rt))
    OBVIOUS
  <2>4. x = y
    BY <1>7, <2>1, <2>2, <2>3, SeqEqual
  <2> QED
    BY <2>3, <2>4
<1>9. Len(rt) =< Len(rh)
  BY <1>2, <1>5, <1>6
<1> QED
  BY <1>1, <1>3, <1>8, <1>9 DEF IsSuffix, IsPrefix

LEMMA GoesWithEnds ==
    ASSUME NEW q \in Seq(Record), NEW f, GoesWith(f, q), q # <<>>
    PROVE  EndsWithLast(f, q)
<1>1. PICK g \in Seq(Bytes), a \in 0..Len(q) : Follows(f, q, g, a)
  BY DEF GoesWith
<1>2. PICK k : k = Len(q) - a
  OBVIOUS
<1>3. /\ Len(q) \in Nat /\ k \in 0..Len(q) /\ a = Len(q) - k /\ a < Len(q) /\ k > 0
      /\ Len(q) \in a..Len(q) /\ (a = Len(q) - 1 => k = 1) /\ (k < Len(q) - 1 => a > 1)
  BY <1>1, <1>2 DEF Follows
<1>4. Texts(LastK(q, k)) = Part(q, a, Len(q))
  BY <1>3, LastIsPart
<1>5. Part(q, a, Len(q)) \in Seq(Bytes)
  BY <1>3, PartType
<1>6. IsSuffix(Texts(LastK(q, k)), f)
  BY <1>1, <1>4, <1>5, SuffixOfJoin DEF Follows
<1>7. k < Len(q) - 1 => Len(Texts(LastK(q, k + 1))) >= MaxLog
  <2> SUFFICES ASSUME k < Len(q) - 1 PROVE Len(Texts(LastK(q, k + 1))) >= MaxLog
    OBVIOUS
  <2>1. k + 1 \in 0..Len(q) /\ Len(q) - (k + 1) = a - 1
    BY <1>3
  <2>2. Texts(LastK(q, k + 1)) = Part(q, a - 1, Len(q))
    BY <2>1, LastIsPart
  <2> QED
    BY <1>1, <1>3, <2>2 DEF Follows
<1>8. Oversized(f) => k = 1 /\ \A i \in 1..Len(f) - 1 : f[i] # NL
  BY <1>1, <1>3 DEF Follows
<1>9. ~Readable(f) => k = Len(q)
  BY <1>1, <1>3 DEF Follows
<1> QED
  BY <1>3, <1>6, <1>7, <1>8, <1>9 DEF EndsWithLast

LEMMA GoesWithNone ==
    ASSUME NEW f \in Seq(Bytes)
    PROVE  GoesWith(f, <<>>)
<1>1. <<>> \in Seq(Record) /\ Len(<<>>) = 0 /\ 0 \in 0..Len(<<>>)
  OBVIOUS
<1>2. Part(<<>>, 0, 0) = <<>>
  BY <1>1, PartNone
<1>3. f = f \o Part(<<>>, 0, Len(<<>>))
  BY <1>1, <1>2
<1>4. Follows(f, <<>>, f, 0)
  BY <1>1, <1>3 DEF Follows
<1> QED
  BY <1>1, <1>4 DEF GoesWith

LEMMA GoesOneMore ==
    ASSUME NEW q \in Seq(Record), NEW r \in Record, NEW f, GoesWith(f, q)
    PROVE  GoesWith(Rotated(f \o Text(r)), Append(q, r))
<1>1. PICK g \in Seq(Bytes), a \in 0..Len(q) : Follows(f, q, g, a)
  BY DEF GoesWith
<1>2. PICK p, h : p = Append(q, r) /\ h = f \o Text(r)
  OBVIOUS
<1>3. p \in Seq(Record) /\ Len(p) = Len(q) + 1 /\ Len(q) \in Nat /\ p # <<>> /\ a \in Nat
  BY <1>2
<1>4. /\ a \in 0..(Len(p) - 1) /\ a \in 0..Len(p) /\ Len(p) \in a..Len(p) /\ a < Len(p)
      /\ Len(q) \in a..Len(q)
  BY <1>3
<1>5. h = g \o Part(p, a, Len(p))
  <2>1. PICK s, t : s = Part(q, a, Len(q)) /\ t = Text(r)
    OBVIOUS
  <2>2. s \in Seq(Bytes) /\ t \in Seq(Bytes)
    BY <1>4, <2>1, PartType, TextFacts
  <2>3. Part(p, a, Len(p)) = s \o t
    BY <1>2, <1>3, <2>1, PartOfLonger
  <2>4. h = (g \o s) \o t
    BY <1>1, <1>2, <2>1 DEF Follows
  <2>5. (g \o s) \o t = g \o (s \o t)
    BY <2>2, ConcatAssociative
  <2> QED
    BY <2>3, <2>4, <2>5
<1>6. h \in Seq(Bytes) /\ Len(h) \in Nat
  <2>1. Part(p, a, Len(p)) \in Seq(Bytes)
    BY <1>3, <1>4, PartType
  <2> QED
    BY <1>5, <2>1
<1>7. a > 1 => Len(Part(p, a - 1, Len(p))) >= MaxLog
  <2> SUFFICES ASSUME a > 1 PROVE Len(Part(p, a - 1, Len(p))) >= MaxLog
    OBVIOUS
  <2>1. a - 1 \in 0..Len(q) /\ Len(q) \in (a - 1)..Len(q)
    BY <1>3
  <2>2. PICK s, t : s = Part(q, a - 1, Len(q)) /\ t = Text(r)
    OBVIOUS
  <2>3. Part(p, a - 1, Len(p)) = s \o t
    BY <1>2, <1>3, <2>1, <2>2, PartOfLonger
  <2>4. s \in Seq(Bytes) /\ t \in Seq(Bytes)
    BY <2>1, <2>2, PartType, TextFacts
  <2>5. Len(s \o t) = Len(s) + Len(t) /\ Len(s) \in Nat /\ Len(t) \in Nat
    BY <2>4
  <2>6. Len(s) >= MaxLog
    BY <1>1, <2>2 DEF Follows
  <2> QED
    BY <2>3, <2>5, <2>6, LogAssumption
<1>8. a = 0 \/ AtCut(g, Len(g))
  BY <1>1 DEF Follows
<1>9. MaxLog \in Nat \ {0}
  BY LogAssumption
<1>10. ~Readable(h) => a = 0
  <2> SUFFICES ASSUME ~Readable(h) PROVE ~Readable(f)
    BY <1>1 DEF Follows
  <2>1. PICK s, t : s = Part(q, a, Len(q)) /\ t = Text(r)
    OBVIOUS
  <2>2. f \in Seq(Bytes) /\ t \in Seq(Bytes)
    <3>1. s \in Seq(Bytes) /\ f = g \o s
      BY <1>1, <1>4, <2>1, PartType DEF Follows
    <3> QED
      BY <2>1, <3>1, TextFacts
  <2>3. /\ Len(h) = Len(f) + Len(t) /\ Len(f) \in Nat /\ Len(t) \in Nat
        /\ \A i \in 1..Len(f) : h[i] = f[i]
        /\ \A i \in 1..Len(t) : h[Len(f) + i] = t[i]
    BY <1>2, <2>1, <2>2, Joined
  <2>4. \A i \in 1..Len(t) : t[i] # Half
    BY <2>1, TextFacts
  <2>5. PICK i \in 1..Len(h) : h[i] = Half
    BY <1>6 DEF Readable
  <2>6. i =< Len(f)
    <3> SUFFICES ASSUME ~(i =< Len(f)) PROVE FALSE
      OBVIOUS
    <3>1. i - Len(f) \in 1..Len(t) /\ i = Len(f) + (i - Len(f))
      BY <2>3, <2>5
    <3> QED
      BY <2>3, <2>4, <2>5, <3>1
  <2>7. i \in 1..Len(f) /\ f[i] = Half
    BY <2>3, <2>5, <2>6
  <2> QED
    BY <2>2, <2>7 DEF Readable
<1>11. CASE ~Oversized(h)
  <2>1. Follows(h, p, g, a)
    BY <1>4, <1>5, <1>7, <1>8, <1>11, <1>10 DEF Follows
  <2>2. Rotated(h) = h
    BY <1>11 DEF Rotated
  <2> QED
    BY <1>2, <1>4, <2>1, <2>2 DEF GoesWith
<1>12. CASE Oversized(h)
  <2>1. Rotated(h) = BoundTail(h)
    BY <1>12 DEF Rotated
  <2>2. Len(h) > MaxLog
    BY <1>6, <1>9, <1>12 DEF Oversized
  <2>3. PICK b \in a..(Len(p) - 1), g2 \in Seq(Bytes) :
          /\ BoundTail(h) = g2 \o Part(p, b, Len(p))
          /\ b = 0 \/ AtCut(g2, Len(g2))
          /\ Len(BoundTail(h)) > MaxLog =>
               b = Len(p) - 1 /\ \A i \in 1..(Len(BoundTail(h)) - 1) : BoundTail(h)[i] # NL
          /\ b > a /\ b > 1 => Len(Part(p, b - 1, Len(p))) >= MaxLog
    <3>1. CutWell(h, p, a, g)
      BY <1>3, <1>4, <1>5, <1>8, <2>2, CutAtRecord
    <3> QED
      BY <3>1 DEF CutWell
  <2>4. b \in 0..Len(p) /\ b < Len(p) /\ (b > a \/ b = a)
    BY <1>3, <1>4
  <2>5. BoundTail(h) \in Seq(Bytes) /\ Readable(BoundTail(h))
    BY <1>6, <1>12, BoundTailType DEF Oversized
  <2>6. Oversized(BoundTail(h)) => Len(BoundTail(h)) > MaxLog
    BY <1>9, <2>5 DEF Oversized
  <2>7. Follows(BoundTail(h), p, g2, b)
    BY <1>7, <2>3, <2>4, <2>5, <2>6 DEF Follows
  <2> QED
    BY <1>2, <2>1, <2>4, <2>7 DEF GoesWith
<1> QED
  BY <1>11, <1>12
=============================================================================
