-------------------------- MODULE AgentHost_proofs --------------------------
(***************************************************************************)
(* What holds of a shell on either host, for any servers, endpoints, table *)
(* size, record lengths and bounds, however often it dies.                 *)
(***************************************************************************)
EXTENDS AgentHost, LogTail_proofs

(* The places of a table that are kept, up to one of them.                 *)
IsUpTo(u, q, keep, m) ==
    u = [n \in 0..m |-> IF n = 0 THEN <<>>
                        ELSE IF n \in keep THEN Append(u[n - 1], q[n]) ELSE u[n - 1]]

LEMMA UpToIsThere ==
    ASSUME NEW q, NEW keep, NEW m \in Nat
    PROVE  \E u : IsUpTo(u, q, keep, m)
<1> DEFINE S == {k \in Nat : \E u : IsUpTo(u, q, keep, k)}
<1>1. 0 \in S
  <2>1. IsUpTo([n \in 0..0 |-> <<>>], q, keep, 0)
    BY DEF IsUpTo
  <2> QED
    BY <2>1
<1>2. ASSUME NEW k \in Nat, k \in S PROVE k + 1 \in S
  <2>1. PICK u : IsUpTo(u, q, keep, k)
    BY <1>2
  <2> DEFINE v == [n \in 0..(k + 1) |-> IF n = k + 1
                     THEN IF n \in keep THEN Append(u[k], q[n]) ELSE u[k] ELSE u[n]]
  <2>2. ASSUME NEW n \in 0..(k + 1)
        PROVE  v[n] = IF n = 0 THEN <<>>
                      ELSE IF n \in keep THEN Append(v[n - 1], q[n]) ELSE v[n - 1]
    <3>1. CASE n = k + 1
      BY <3>1
    <3>2. CASE n # k + 1 /\ n # 0
      <4>1. n \in 0..k /\ n - 1 \in 0..k /\ n - 1 # k + 1 /\ n - 1 \in 0..(k+1)
        BY <3>2
      <4>2. v[n] = u[n] /\ v[n - 1] = u[n - 1]
        BY <4>1, <3>2
      <4>3. u[n] = IF n = 0 THEN <<>>
                      ELSE IF n \in keep THEN Append(u[n - 1], q[n]) ELSE u[n - 1]
        BY <2>1, <4>1, ZenonT(30) DEF IsUpTo
      <4> QED
        BY <3>2, <4>2, <4>3
    <3>3. CASE n = 0
      <4>1. u[0] = <<>>
        BY <2>1 DEF IsUpTo
      <4> QED
        BY <3>3, <4>1
    <3> QED
      BY <3>1, <3>2, <3>3
  <2>3. IsUpTo(v, q, keep, k + 1)
    BY <2>2 DEF IsUpTo
  <2> HIDE DEF v
  <2> QED
    BY <2>3
<1>3. m \in S
  BY <1>1, <1>2, Induction
<1> QED
  BY <1>3

(* r is q's entries at those of its first n places that are kept.          *)
IsKept(q, keep, n, r) ==
    /\ Len(r) =< n
    /\ \E f \in [1..Len(r) -> keep \cap (1..n)] :
         /\ \A i, j \in 1..Len(r) : i < j => f[i] < f[j]
         /\ \A i \in 1..Len(r) : r[i] = q[f[i]]
         /\ \A k \in keep \cap (1..n) : \E i \in 1..Len(r) : f[i] = k

LEMMA KeptOneMore ==
    ASSUME NEW V, NEW q \in Seq(V), NEW keep, NEW n \in Nat, n + 1 =< Len(q),
           NEW r \in Seq(V), IsKept(q, keep, n, r)
    PROVE  IF n + 1 \in keep
             THEN Append(r, q[n + 1]) \in Seq(V) /\ IsKept(q, keep, n + 1, Append(r, q[n + 1]))
             ELSE IsKept(q, keep, n + 1, r)
<1>1. PICK f \in [1..Len(r) -> keep \cap (1..n)] :
         /\ \A i, j \in 1..Len(r) : i < j => f[i] < f[j]
         /\ \A i \in 1..Len(r) : r[i] = q[f[i]]
         /\ \A k \in keep \cap (1..n) : \E i \in 1..Len(r) : f[i] = k
  BY DEF IsKept
<1>2. Len(r) =< n /\ Len(r) \in Nat
  BY DEF IsKept
<1>3. CASE n + 1 \notin keep
  <2>1. keep \cap (1..(n + 1)) = keep \cap (1..n)
    BY <1>3
  <2>2. Len(r) =< n + 1
    BY <1>2
  <2>3. IsKept(q, keep, n + 1, r)
    BY <1>1, <2>1, <2>2, Zenon DEF IsKept
  <2> QED
    BY <1>3, <2>3
<1>4. CASE n + 1 \in keep
  <2> DEFINE t == Append(r, q[n + 1])
             g == [i \in 1..Len(t) |-> IF i = Len(t) THEN n + 1 ELSE f[i]]
  <2>1. /\ t \in Seq(V) /\ Len(t) = Len(r) + 1 /\ t[Len(r) + 1] = q[n + 1]
        /\ \A i \in 1..Len(r) : t[i] = r[i]
    BY <1>2
  <2> HIDE DEF t
  <2>2. g \in [1..Len(t) -> keep \cap (1..(n + 1))]
    BY <1>1, <1>2, <1>4, <2>1
  <2>0. /\ \A i \in 1..Len(r) : i \in 1..Len(t) /\ g[i] = f[i] /\ f[i] \in 1..n
        /\ Len(t) \in 1..Len(t) /\ g[Len(t)] = n + 1
        /\ \A i \in 1..Len(t) : i # Len(t) => i \in 1..Len(r)
    <3>1. ASSUME NEW i \in 1..Len(r) PROVE i \in 1..Len(t) /\ i # Len(t) /\ f[i] \in 1..n
      <4> HIDE DEF g
      <4>1. f[i] \in keep \cap (1..n)
        BY <1>1
      <4> QED
        BY <1>2, <2>1, <4>1
    <3>2. Len(t) \in 1..Len(t) /\ \A i \in 1..Len(t) : i # Len(t) => i \in 1..Len(r)
      BY <1>2, <2>1
    <3> QED
      BY <3>1, <3>2
  <2> HIDE DEF g
  <2>3. \A i, j \in 1..Len(t) : i < j => g[i] < g[j]
    <3> SUFFICES ASSUME NEW i \in 1..Len(t), NEW j \in 1..Len(t), i < j PROVE g[i] < g[j]
      OBVIOUS
    <3>1. i \in 1..Len(r) /\ g[i] = f[i] /\ f[i] \in 1..n
      BY <1>2, <2>0, <2>1
    <3>2. CASE j = Len(t)
      BY <2>0, <3>1, <3>2
    <3>3. CASE j # Len(t)
      <4>1. j \in 1..Len(r) /\ g[j] = f[j]
        BY <2>0, <3>3
      <4> QED
        BY <1>1, <3>1, <4>1
    <3> QED
      BY <3>2, <3>3
  <2>4. \A i \in 1..Len(t) : t[i] = q[g[i]]
    <3> SUFFICES ASSUME NEW i \in 1..Len(t) PROVE t[i] = q[g[i]]
      OBVIOUS
    <3>1. CASE i = Len(t)
      BY <2>0, <2>1, <3>1
    <3>2. CASE i # Len(t)
      <4>1. i \in 1..Len(r) /\ g[i] = f[i]
        BY <2>0, <3>2
      <4> QED
        BY <1>1, <2>1, <4>1
    <3> QED
      BY <3>1, <3>2
  <2>5. \A k \in keep \cap (1..(n + 1)) : \E i \in 1..Len(t) : g[i] = k
    <3> SUFFICES ASSUME NEW k \in keep \cap (1..(n + 1)) PROVE \E i \in 1..Len(t) : g[i] = k
      OBVIOUS
    <3>1. CASE k = n + 1
      BY <2>0, <3>1
    <3>2. CASE k # n + 1
      <4>1. k \in keep \cap (1..n)
        BY <3>2
      <4>2. PICK i \in 1..Len(r) : f[i] = k
        BY <1>1, <4>1
      <4> QED
        BY <2>0, <4>2
    <3> QED
      BY <3>1, <3>2
  <2>6. IsKept(q, keep, n + 1, t)
    <3>1. Len(t) =< n + 1
      BY <1>2, <2>1
    <3> QED
      BY <2>2, <2>3, <2>4, <2>5, <3>1 DEF IsKept
  <2> QED
    BY <1>4, <2>1, <2>6 DEF t
<1> QED
  BY <1>3, <1>4

LEMMA RetainedIsKept ==
    ASSUME NEW V, NEW q \in Seq(V), NEW keep
    PROVE  Retained(q, keep) \in Seq(V) /\ IsKept(q, keep, Len(q), Retained(q, keep))
<1> DEFINE U == CHOOSE u : IsUpTo(u, q, keep, Len(q))
<1>1. IsUpTo(U, q, keep, Len(q))
  <2>1. Len(q) \in Nat
    OBVIOUS
  <2> QED
    BY <2>1, UpToIsThere
<1>2. Retained(q, keep) = U[Len(q)]
  BY DEF Retained, IsUpTo
<1> HIDE DEF U
<1>3. U[0] = <<>>
  BY <1>1 DEF IsUpTo
<1>4. ASSUME NEW n \in 1..Len(q)
      PROVE  U[n] = IF n \in keep THEN Append(U[n - 1], q[n]) ELSE U[n - 1]
  <2>1. n \in 0..Len(q) /\ n # 0
    OBVIOUS
  <2> QED
    BY <1>1, <2>1, ZenonT(30) DEF IsUpTo
<1> DEFINE Good == {n \in Nat : n =< Len(q) => U[n] \in Seq(V) /\ IsKept(q, keep, n, U[n])}
<1>5. 0 \in Good
  <2>1. <<>> \in Seq(V) /\ Len(<<>>) = 0 /\ 1..0 = {}
    OBVIOUS
  <2>2. <<>> \in [1..Len(<<>>) -> keep \cap (1..0)]
    BY <2>1
  <2>3. IsKept(q, keep, 0, <<>>)
    <3>1. keep \cap (1..0) = {}
      OBVIOUS
    <3>2. Len(<<>>) =< 0
      BY <2>1
    <3> QED
      BY <2>1, <2>2, <3>1, <3>2, Zenon DEF IsKept
  <2> QED
    BY <1>3, <2>1, <2>3
<1>6. ASSUME NEW n \in Nat, n \in Good PROVE n + 1 \in Good
  <2> SUFFICES ASSUME n + 1 =< Len(q)
               PROVE  U[n + 1] \in Seq(V) /\ IsKept(q, keep, n + 1, U[n + 1])
    OBVIOUS
  <2>1. U[n] \in Seq(V) /\ IsKept(q, keep, n, U[n])
    BY <1>6
  <2>2. n + 1 \in 1..Len(q) /\ (n + 1) - 1 = n
    OBVIOUS
  <2>3. U[n + 1] = IF n + 1 \in keep THEN Append(U[n], q[n + 1]) ELSE U[n]
    BY <1>4, <2>2
  <2> QED
    BY <2>1, <2>3, KeptOneMore
<1>7. Len(q) \in Good
  <2> HIDE DEF Good
  <2>1. Len(q) \in Nat
    OBVIOUS
  <2> QED
    BY <1>5, <1>6, <2>1, Induction
<1> QED
  BY <1>2, <1>7

(* A table of which every entry is kept.                                   *)
LEMMA RetainedAll ==
    ASSUME NEW V, NEW q \in Seq(V), NEW keep, DOMAIN q \subseteq keep
    PROVE  Retained(q, keep) = q
<1> DEFINE U == CHOOSE u : IsUpTo(u, q, keep, Len(q))
<1>1. IsUpTo(U, q, keep, Len(q))
  <2>1. Len(q) \in Nat
    OBVIOUS
  <2> QED
    BY <2>1, UpToIsThere
<1>2. Retained(q, keep) = U[Len(q)]
  BY DEF Retained, IsUpTo
<1> HIDE DEF U
<1>3. U[0] = <<>>
  BY <1>1 DEF IsUpTo
<1>4. ASSUME NEW n \in 1..Len(q) PROVE U[n] = Append(U[n - 1], q[n])
  <2>1. n \in 0..Len(q) /\ n # 0 /\ n \in keep
    OBVIOUS
  <2> QED
    BY <1>1, <2>1, ZenonT(30) DEF IsUpTo
<1> DEFINE Good == {n \in Nat : n =< Len(q) => U[n] = [i \in 1..n |-> q[i]]}
<1>5. 0 \in Good
  <2>1. <<>> = [i \in 1..0 |-> q[i]]
    OBVIOUS
  <2> QED
    BY <1>3, <2>1
<1>6. ASSUME NEW n \in Nat, n \in Good PROVE n + 1 \in Good
  <2> SUFFICES ASSUME n + 1 =< Len(q) PROVE U[n + 1] = [i \in 1..(n + 1) |-> q[i]]
    OBVIOUS
  <2>1. U[n] = [i \in 1..n |-> q[i]]
    BY <1>6
  <2>2. n + 1 \in 1..Len(q) /\ (n + 1) - 1 = n
    OBVIOUS
  <2>3. U[n + 1] = Append(U[n], q[n + 1])
    BY <1>4, <2>2
  <2>4. q[n + 1] \in V /\ \A i \in 1..n : q[i] \in V
    BY <2>2
  <2> QED
    BY <2>1, <2>3, <2>4
<1>7. Len(q) \in Good
  <2> HIDE DEF Good
  <2>1. Len(q) \in Nat
    OBVIOUS
  <2> QED
    BY <1>5, <1>6, <2>1, Induction
<1> QED
  BY <1>2, <1>7

-----------------------------------------------------------------------------
(* Session tables.                                                         *)
Rows(q) == {q[i] : i \in DOMAIN q}
Ordered(q) == \A i, j \in DOMAIN q : i < j => q[i].id < q[j].id

LEMMA RetainedRows ==
    ASSUME NEW q \in Seq(McpSession), NEW keep
    PROVE  /\ Retained(q, keep) \in Seq(McpSession)
           /\ Len(Retained(q, keep)) =< Len(q)
           /\ Rows(Retained(q, keep)) = {q[i] : i \in keep \cap DOMAIN q}
           /\ Ordered(q) => Ordered(Retained(q, keep))
<1> DEFINE r == Retained(q, keep)
<1>1. r \in Seq(McpSession) /\ IsKept(q, keep, Len(q), r)
  BY RetainedIsKept
<1> HIDE DEF r
<1>2. PICK f \in [1..Len(r) -> keep \cap (1..Len(q))] :
         /\ \A i, j \in 1..Len(r) : i < j => f[i] < f[j]
         /\ \A i \in 1..Len(r) : r[i] = q[f[i]]
         /\ \A k \in keep \cap (1..Len(q)) : \E i \in 1..Len(r) : f[i] = k
  BY <1>1 DEF IsKept
<1>3. DOMAIN r = 1..Len(r) /\ DOMAIN q = 1..Len(q) /\ Len(r) =< Len(q)
  BY <1>1 DEF IsKept
<1>4. Rows(r) = {q[i] : i \in keep \cap DOMAIN q}
  <2>1. ASSUME NEW i \in DOMAIN r PROVE r[i] \in {q[k] : k \in keep \cap DOMAIN q}
    BY <1>2, <1>3
  <2>2. ASSUME NEW k \in keep \cap DOMAIN q PROVE q[k] \in Rows(r)
    <3>1. PICK i \in 1..Len(r) : f[i] = k
      BY <1>2, <1>3
    <3> QED
      BY <1>2, <1>3, <3>1 DEF Rows
  <2> QED
    BY <2>1, <2>2 DEF Rows
<1>5. ASSUME Ordered(q) PROVE Ordered(r)
  <2> SUFFICES ASSUME NEW i \in DOMAIN r, NEW j \in DOMAIN r, i < j PROVE r[i].id < r[j].id
    BY DEF Ordered
  <2>1. /\ f[i] \in DOMAIN q /\ f[j] \in DOMAIN q /\ f[i] < f[j]
        /\ r[i] = q[f[i]] /\ r[j] = q[f[j]]
    BY <1>2, <1>3
  <2> QED
    BY <1>5, <2>1 DEF Ordered
<1> QED
  BY <1>1, <1>3, <1>4, <1>5 DEF r

LEMMA WithoutRows ==
    ASSUME NEW q \in Seq(McpSession), NEW s
    PROVE  /\ Without(q, s) \in Seq(McpSession) /\ Len(Without(q, s)) =< Len(q)
           /\ \A x : x \in Rows(Without(q, s)) <=> x \in Rows(q) /\ x.server # s
           /\ Ordered(q) => Ordered(Without(q, s))
<1> DEFINE keep == {i \in DOMAIN q : q[i].server # s}
<1>1. Without(q, s) = Retained(q, keep)
  BY DEF Without
<1>2. \A x : x \in {q[i] : i \in keep \cap DOMAIN q} <=> x \in Rows(q) /\ x.server # s
  BY DEF Rows
<1> QED
  BY <1>1, <1>2, RetainedRows

LEMMA WithoutNone ==
    ASSUME NEW q \in Seq(McpSession), NEW s, \A x \in Rows(q) : x.server # s
    PROVE  Without(q, s) = q
<1> DEFINE keep == {i \in DOMAIN q : q[i].server # s}
<1>1. DOMAIN q \subseteq keep
  BY DEF Rows
<1> QED
  BY <1>1, RetainedAll DEF Without

LEMMA DroppedRows ==
    ASSUME NEW q \in Seq(McpSession), NEW id
    PROVE  /\ Dropped(q, id) \in Seq(McpSession) /\ Len(Dropped(q, id)) =< Len(q)
           /\ \A x : x \in Rows(Dropped(q, id)) <=> x \in Rows(q) /\ x.id # id
           /\ Ordered(q) => Ordered(Dropped(q, id))
<1> DEFINE keep == {i \in DOMAIN q : q[i].id # id}
<1>1. Dropped(q, id) = Retained(q, keep)
  BY DEF Dropped
<1>2. \A x : x \in {q[i] : i \in keep \cap DOMAIN q} <=> x \in Rows(q) /\ x.id # id
  BY DEF Rows
<1> QED
  BY <1>1, <1>2, RetainedRows

(* One more session, with an id above all others.                          *)
LEMMA RoomRows ==
    ASSUME NEW q \in Seq(McpSession), Len(q) =< MaxSessions, Ordered(q),
           NEW x \in McpSession, \A y \in Rows(q) : y.id < x.id
    PROVE  /\ Append(Room(q), x) \in Seq(McpSession) /\ Len(Append(Room(q), x)) =< MaxSessions
           /\ Rows(Append(Room(q), x)) \subseteq Rows(q) \cup {x}
           /\ x \in Rows(Append(Room(q), x))
           /\ Ordered(Append(Room(q), x))
<1> DEFINE r == Room(q)
           d == IF Len(q) < MaxSessions THEN 0 ELSE 1
<1>1. MaxSessions \in Nat \ {0} /\ Len(q) \in Nat
  BY SessionsAssumption
<1>2. /\ r \in Seq(McpSession) /\ d \in {0, 1}
      /\ Len(r) = Len(q) - d /\ Len(r) < MaxSessions /\ Len(r) \in Nat
      /\ \A i \in 1..Len(r) : r[i] = q[i + d] /\ i + d \in 1..Len(q)
  <2>1. CASE Len(q) < MaxSessions
    BY <1>1, <2>1 DEF Room
  <2>2. CASE Len(q) = MaxSessions
    <3>1. r = SubSeq(q, 2, Len(q))
      BY <1>1, <2>2 DEF Room
    <3>2. /\ r \in Seq(McpSession) /\ Len(r) = Len(q) - 1
          /\ \A i \in 1..Len(r) : r[i] = q[i + 1]
      BY <1>1, <2>2, <3>1
    <3> HIDE DEF r
    <3> QED
      BY <1>1, <2>2, <3>2
  <2> QED
    BY <1>1, <2>1, <2>2
<1> HIDE DEF r, d
<1> DEFINE t == Append(r, x)
<1>3. /\ t \in Seq(McpSession) /\ Len(t) = Len(r) + 1 /\ t[Len(r) + 1] = x
      /\ DOMAIN t = 1..(Len(r) + 1) /\ \A i \in 1..Len(r) : t[i] = r[i]
  BY <1>2
<1> HIDE DEF t
<1>4. \A i \in 1..Len(r) : t[i] \in Rows(q)
  <2> SUFFICES ASSUME NEW i \in 1..Len(r) PROVE t[i] \in Rows(q)
    OBVIOUS
  <2>1. t[i] = q[i + d] /\ i + d \in DOMAIN q
    BY <1>1, <1>2, <1>3
  <2> QED
    BY <2>1 DEF Rows
<1>5. Rows(t) \subseteq Rows(q) \cup {x} /\ x \in Rows(t)
  <2>1. ASSUME NEW i \in DOMAIN t PROVE t[i] \in Rows(q) \cup {x}
    <3>1. i = Len(r) + 1 \/ i \in 1..Len(r)
      BY <1>2, <1>3
    <3> QED
      BY <1>3, <1>4, <3>1
  <2>2. Len(r) + 1 \in DOMAIN t
    BY <1>2, <1>3
  <2> QED
    BY <1>3, <2>1, <2>2 DEF Rows
<1>6. Ordered(t)
  <2> SUFFICES ASSUME NEW i \in DOMAIN t, NEW j \in DOMAIN t, i < j PROVE t[i].id < t[j].id
    BY DEF Ordered
  <2>1. i \in 1..Len(r) /\ i \in Nat /\ j \in Nat
    BY <1>2, <1>3
  <2>2. CASE j = Len(r) + 1
    BY <1>3, <1>4, <2>1, <2>2
  <2>3. CASE j # Len(r) + 1
    <3>1. j \in 1..Len(r)
      <4>1. j \in 1..(Len(r) + 1) /\ Len(r) \in Nat
        BY <1>2, <1>3
      <4> QED
        BY <2>3, <4>1
    <3>2. t[i] = q[i + d] /\ i + d \in DOMAIN q
      BY <1>1, <1>2, <1>3, <2>1
    <3>3. t[j] = q[j + d] /\ j + d \in DOMAIN q
      <4>1. t[j] = r[j] /\ r[j] = q[j + d] /\ j + d \in 1..Len(q)
        BY <1>2, <1>3, <3>1
      <4> QED
        BY <4>1
    <3>4. i + d < j + d
      BY <1>2, <2>1
    <3> QED
      BY <3>2, <3>3, <3>4 DEF Ordered
  <2> QED
    BY <2>2, <2>3
<1>7. Len(t) =< MaxSessions
  BY <1>1, <1>2, <1>3
<1> QED
  BY <1>3, <1>5, <1>6, <1>7 DEF t, r

LEMMA SessionOfRow ==
    ASSUME NEW q \in Seq(McpSession), NEW id \in OpenIds(q)
    PROVE  SessionOf(q, id) \in Rows(q) /\ SessionOf(q, id).id = id
<1>1. \E i \in DOMAIN q : q[i].id = id
  BY DEF OpenIds
<1> QED
  BY <1>1 DEF SessionOf, Rows

LEMMA ImplicitRow ==
    ASSUME NEW q \in Seq(McpSession), NEW s
    PROVE  ImplicitSid(q, s) = None \/ \E x \in Rows(q) : x.server = s /\ ImplicitSid(q, s) = x.sid
<1> DEFINE of == {i \in DOMAIN q : q[i].server = s}
           Is(i) == i \in of /\ \A j \in of : i =< j
<1>1. CASE of = {}
  BY <1>1 DEF ImplicitSid
<1>2. CASE of # {}
  <2>1. of \subseteq Nat
    OBVIOUS
  <2>2. PICK i \in of : \A j \in of : i =< j
    BY <1>2, <2>1, LeastExists
  <2>3. ImplicitSid(q, s) = q[CHOOSE k \in of : \A j \in of : k =< j].sid
    BY <1>2 DEF ImplicitSid
  <2>4. (CHOOSE k \in of : \A j \in of : k =< j) \in of
    BY <2>2
  <2> QED
    BY <2>3, <2>4 DEF Rows
<1> QED
  BY <1>1, <1>2

LEMMA RowTypes ==
    ASSUME NEW q \in Seq(McpSession)
    PROVE  /\ Rows(q) \subseteq McpSession
           /\ Ordered(q) => \A x, y \in Rows(q) : x.id = y.id => x = y
<1>1. DOMAIN q \subseteq Nat
  OBVIOUS
<1>2. ASSUME Ordered(q), NEW i \in DOMAIN q, NEW j \in DOMAIN q, q[i].id = q[j].id
      PROVE  i = j
  <2>0. q[i] \in McpSession
    OBVIOUS
  <2>1. q[i].id \in Nat /\ i \in Nat /\ j \in Nat
    BY <1>1, <2>0 DEF McpSession
  <2>2. ~(i < j) /\ ~(j < i)
    BY <1>2, <2>1 DEF Ordered
  <2> QED
    BY <2>1, <2>2
<1> QED
  BY <1>2 DEF Rows

-----------------------------------------------------------------------------
(* The memory, the configs and the line in progress as one value, and what *)
(* a line and an answer make of it.  In the memory that an oplog stands    *)
(* for (below) Torn is the server of which the oplog has said nothing yet: *)
(* what is known of it is what boot found on disk.                         *)
Snap(sv, ss, n, c, j) == [servers |-> sv, sessions |-> ss, next |-> n, conf |-> c, job |-> j]

Now == Snap(servers, sessions, next_session, conf, job)

CallJob(line, url, sid) == [pc |-> "call", line |-> line, url |-> url, sid |-> sid]
EndJob(line, answer) == [pc |-> "end", line |-> line, answer |-> answer]

AddBegun(m, line) ==
    Snap(m.servers, m.sessions, m.next,
         [m.conf EXCEPT ![line.server] = [url |-> line.url, installed |-> FALSE]],
         CallJob(line, line.url, None))

ReloadBegun(m, line) ==
    Snap(m.servers, m.sessions, m.next, m.conf, CallJob(line, m.conf[line.server].url, None))

RemoveBegun(m, line) ==
    Snap([m.servers EXCEPT ![line.server] = None], Without(m.sessions, line.server), m.next,
         [m.conf EXCEPT ![line.server] = None], EndJob(line, Silent))

OpenBegun(m, line) ==
    Snap(m.servers, m.sessions, m.next, m.conf, CallJob(line, m.servers[line.server].url, None))

CloseBegun(m, line) ==
    LET q == SessionOf(m.sessions, line.id)
    IN  Snap(m.servers, Dropped(m.sessions, line.id), m.next, m.conf,
             IF q.sid = None \/ m.servers[q.server] = None THEN EndJob(line, Silent)
             ELSE CallJob(line, m.servers[q.server].url, q.sid))

ToolBegun(m, line) ==
    Snap(m.servers, m.sessions, m.next, m.conf,
         CallJob(line, m.servers[line.server].url,
                 IF line.named = NoId THEN ImplicitSid(m.sessions, line.server)
                 ELSE [local |-> line.named]))

Begun(m, line) ==
    CASE line.op = "add" -> AddBegun(m, line)
      [] line.op = "reload" -> ReloadBegun(m, line)
      [] line.op = "remove" -> RemoveBegun(m, line)
      [] line.op = "open" -> OpenBegun(m, line)
      [] line.op = "close" -> CloseBegun(m, line)
      [] line.op = "tool" -> ToolBegun(m, line)

(* A line that is refused.                                                 *)
Turned(m, line) == Snap(m.servers, m.sessions, m.next, m.conf, EndJob(line, Silent))

NewSession(m, a) == [id |-> m.next + 1, server |-> m.job.line.server, sid |-> a.sid]

InstallAnswered(m, a) ==
    LET s == m.job.line.server
        entry == [url |-> m.job.url, installed |-> a.ok]
    IN  Snap([m.servers EXCEPT ![s] = entry], Without(m.sessions, s), m.next,
             IF a.ok THEN [m.conf EXCEPT ![s] = entry] ELSE m.conf, EndJob(m.job.line, a))

OpenAnswered(m, a) ==
    Snap(m.servers, Append(Room(m.sessions), NewSession(m, a)), m.next + 1, m.conf,
         EndJob(m.job.line, a))

PlainAnswered(m, a) == Snap(m.servers, m.sessions, m.next, m.conf, EndJob(m.job.line, a))

Answered(m, a) ==
    IF m.job.line.op \in {"add", "reload"} THEN InstallAnswered(m, a)
    ELSE IF m.job.line.op = "open" /\ a.ok THEN OpenAnswered(m, a)
    ELSE PlainAnswered(m, a)

(* The line names what is there.                                           *)
Accepted(m, line) ==
    /\ line.op = "reload" => m.conf[line.server] \in Entry
    /\ line.op = "remove" => m.conf[line.server] # None
    /\ line.op \in {"open", "tool"} => m.servers[line.server] \in Entry
    /\ line.op = "tool" => m.servers[line.server].installed
    /\ line.op = "close" => line.id \in OpenIds(m.sessions)
    /\ line.op = "tool" /\ line.named # NoId =>
         /\ line.named \in OpenIds(m.sessions)
         /\ SessionOf(m.sessions, line.named).server = line.server
         /\ SessionOf(m.sessions, line.named).sid # None

(* ... and the oplog speaks of it.                                         *)
Firm(r, line) == Accepted(r, line) /\ (line.op = "remove" => r.conf[line.server] # Torn)

(* An answer to the call that waits for one.                               *)
AnswersCall(m, a) ==
    /\ a \in Answer
    /\ a.sid # None => m.job.line.op = "open" /\ a.sid.at = m.job.url

-----------------------------------------------------------------------------
(* What holds of such a value.                                             *)
IsSnap(m) ==
    /\ m = Snap(m.servers, m.sessions, m.next, m.conf, m.job)
    /\ m.servers \in [Servers -> Entry \cup {None, Torn}]
    /\ m.sessions \in Seq(McpSession) /\ m.next \in Nat
    /\ m.conf \in [Servers -> Entry \cup {None, Torn}]
    /\ m.job \in Jobs

TableSound(m) ==
    /\ Len(m.sessions) =< MaxSessions /\ Ordered(m.sessions)
    /\ \A x \in Rows(m.sessions) :
         /\ x.id =< m.next
         /\ m.servers[x.server] \in Entry
         /\ x.sid # None => x.sid.at = m.servers[x.server].url

(* The session that the line in progress has opened.                       *)
Told(m) == [id |-> m.next, server |-> m.job.line.server, sid |-> m.job.answer.sid]
Tells(m) == m.job.pc = "end" /\ m.job.line.op = "open" /\ m.job.answer.ok

JobSound(m) ==
    /\ m.job.pc = "call" =>
         /\ m.job.line.op # "remove"
         /\ m.job.line.op \in {"add", "reload"} => m.conf[m.job.line.server] \in Entry
         /\ m.job.line.op = "open" => /\ m.servers[m.job.line.server] \in Entry
                                      /\ m.job.url = m.servers[m.job.line.server].url
         /\ m.job.sid \in Sid => m.job.sid.at = m.job.url
    /\ Tells(m) => Told(m) \in Rows(m.sessions)

Sound(m) == IsSnap(m) /\ TableSound(m) /\ JobSound(m)

(* No session id is ahead of what its endpoint has issued.                 *)
WasIssued(iss, sid) == sid \in Sid => sid.n =< iss[sid.at]
Issues(iss, m) ==
    /\ \A x \in Rows(m.sessions) : WasIssued(iss, x.sid)
    /\ m.job.pc = "call" => WasIssued(iss, m.job.sid)
SidsIssued == Issues(issued, Now)

-----------------------------------------------------------------------------
(* What an oplog stands for: the values a run over it goes through.        *)
Fresh == Snap([s \in Servers |-> Torn], <<>>, 0, [s \in Servers |-> Torn], Idle)

After(r, e, refused) ==
    IF r.job.pc = "call" THEN Answered(r, e) ELSE IF refused THEN Turned(r, e) ELSE Begun(r, e)

(* Lines and answers as they were when they were recorded.                 *)
Recorded(iss, r, e, refused) ==
    IF r.job.pc = "call" THEN ~refused /\ AnswersCall(r, e) /\ WasIssued(iss, e.sid)
    ELSE e \in Line /\ (IF refused THEN ~Firm(r, e) ELSE Firm(r, e))

(* A server that is spoken of has a config that is.                        *)
Speaks(m) == \A s \in Servers : m.servers[s] # Torn => m.conf[s] # Torn

IsRun(run) ==
    /\ run = [c \in 0..Len(oplog) |-> run[c]]
    /\ run[0] = Fresh
    /\ \A c \in 0..Len(oplog) : Sound(run[c]) /\ Speaks(run[c])
    /\ \A c \in 0..(Len(oplog) - 1) :
         /\ Recorded(issued, run[c], oplog[c + 1], c + 1 \in refusals)
         /\ run[c + 1] = After(run[c], oplog[c + 1], c + 1 \in refusals)

(* m is what the run has come to, but for what boot found.                 *)
Known(f, g) == \A s \in Servers : g[s] # Torn => f[s] = g[s]
Matches(m, r) ==
    /\ m.sessions = r.sessions /\ m.next = r.next
    /\ m.job = r.job \/ (m.job = Idle /\ r.job.pc # "call")
    /\ Known(m.servers, r.servers) /\ Known(m.conf, r.conf)

(* A line that was refused at first is taken over the files there are now, *)
(* and asks for an answer that the oplog does not have.                    *)
Near(m, r) == /\ m.sessions = r.sessions /\ m.next = r.next
              /\ Known(m.servers, r.servers) /\ Known(m.conf, r.conf)
Astray(r) ==
    /\ cursor \in refusals /\ ~Live
    /\ job.pc = "call" /\ r.job.pc = "end" /\ Near(Now, r)

(* What boot can find is what the oplog speaks of.                         *)
Spoken(run) == \A s \in Servers :
    /\ \A c \in 0..Len(oplog) :
         /\ run[c].conf[s] # Torn => run[Len(oplog)].conf[s] # Torn
         /\ run[c].servers[s] # Torn => run[Len(oplog)].servers[s] # Torn
    /\ conf[s] # None => run[Len(oplog)].conf[s] # Torn
    /\ servers[s] # None \/ (conf[s] \in Entry /\ conf[s].installed) =>
         run[Len(oplog)].servers[s] # Torn

(* Beyond the last line that ended there is one line at most.              *)
MemoryOf(r) ==
    <<[s \in Servers |-> IF r.servers[s] = Torn THEN None ELSE r.servers[s]], r.sessions, r.next>>

Keeping(run) ==
    /\ kept.at \in {-1} \cup 1..Len(oplog)
    /\ kept.at # -1 => kept.memory = MemoryOf(run[kept.at])
    /\ \A c \in 1..(Len(oplog) - 1) : kept.at < c => run[c].job.pc = "call"
    /\ built /\ job = Idle /\ cursor # 0 => cursor =< kept.at

(* All that was ever said of a local id agrees.                            *)
Mentioned(run) == told \cup UNION {Rows(run[c].sessions) : c \in 0..Len(oplog)}
Agreed(run) ==
    /\ \A x, y \in Mentioned(run) : x.id = y.id => x = y
    /\ \A x \in Mentioned(run) : x.id =< run[Len(oplog)].next

GolemInv(run) ==
    /\ IsRun(run) /\ refusals \subseteq 1..Len(oplog)
    /\ built => Matches(Now, run[cursor]) \/ Astray(run[cursor])
    /\ Spoken(run) /\ Keeping(run) /\ Agreed(run)

NativeInv ==
    /\ oplog = <<>> /\ cursor = 0 /\ kept.at = -1
    /\ \A x \in told : x.id =< next_session
    /\ IdsMean

Unbuilt ==
    ~built => /\ servers = [s \in Servers |-> None] /\ sessions = <<>> /\ next_session = 0
              /\ job = Idle /\ cursor = 0

Inv ==
    /\ TypeOK /\ oplog \in Seq(Line \cup Answer)
    /\ Sound(Now) /\ Unbuilt /\ SidsIssued /\ SentHome
    /\ IF OnGolem THEN \E run : GolemInv(run) ELSE NativeInv

-----------------------------------------------------------------------------
(* A line and an answer leave such a value behind.                         *)
LEMMA LineFields ==
    ASSUME NEW line \in Line
    PROVE  /\ line.op \in Ops
           /\ line.op # "close" => line.server \in Servers
           /\ line.op = "close" => line.id \in Nat
           /\ line.op = "add" => line.url \in Urls
           /\ line.op = "tool" => line.named \in Nat
BY DEF Line, Ops

LEMMA Constants ==
    /\ None \notin Entry /\ None \notin Sid /\ Torn \notin Entry /\ Torn # None
    /\ MaxSessions \in Nat \ {0}
    /\ \A n : [local |-> n] \notin Sid
<1>1. \A n : [local |-> n] \notin Sid
  BY DEF Sid
<1> QED
  BY <1>1, SessionsAssumption, HostAssumption

LEMMA JobTypes ==
    /\ Idle \in Jobs /\ Idle.pc = "idle"
    /\ \A line \in Line, url \in Urls, sid \in Sid \cup {None} \cup [local : Nat] :
         CallJob(line, url, sid) \in Jobs
    /\ \A line \in Line, a \in Answer : EndJob(line, a) \in Jobs
    /\ Silent \in Answer
    /\ \A j \in Jobs :
         /\ j.pc \in {"idle", "call", "end"}
         /\ j.pc = "idle" => j = Idle
         /\ j.pc = "call" => /\ j.line \in Line /\ j.url \in Urls
                             /\ j.sid \in Sid \cup {None} \cup [local : Nat]
         /\ j.pc = "end" => j.line \in Line /\ j.answer \in Answer
BY DEF Jobs, Idle, CallJob, EndJob, Silent, Answer

LEMMA SnapFields ==
    ASSUME NEW sv, NEW ss, NEW n, NEW c, NEW j
    PROVE  LET m == Snap(sv, ss, n, c, j)
           IN  /\ m.servers = sv /\ m.sessions = ss /\ m.next = n /\ m.conf = c /\ m.job = j
               /\ m = Snap(m.servers, m.sessions, m.next, m.conf, m.job)
BY DEF Snap

LEMMA JobFields ==
    ASSUME NEW line, NEW url, NEW sid, NEW a
    PROVE  /\ CallJob(line, url, sid).pc = "call" /\ CallJob(line, url, sid).line = line
           /\ CallJob(line, url, sid).url = url /\ CallJob(line, url, sid).sid = sid
           /\ EndJob(line, a).pc = "end" /\ EndJob(line, a).line = line
           /\ EndJob(line, a).answer = a
BY DEF CallJob, EndJob

LEMMA BegunSound ==
    ASSUME NEW m, Sound(m), NEW line \in Line, Accepted(m, line)
    PROVE  Sound(Begun(m, line))
<1> DEFINE s == line.server
           Known3 == [Servers -> Entry \cup {None, Torn}]
<1>1. /\ m.servers \in Known3 /\ m.conf \in Known3
      /\ m.sessions \in Seq(McpSession) /\ m.next \in Nat
      /\ Len(m.sessions) =< MaxSessions /\ Ordered(m.sessions)
  BY DEF Sound, IsSnap, TableSound
<1>2. \A x \in Rows(m.sessions) :
         /\ x.id =< m.next
         /\ m.servers[x.server] \in Entry
         /\ x.sid # None => x.sid.at = m.servers[x.server].url
  BY DEF Sound, TableSound
<1>3. Len(m.sessions) \in Nat /\ Rows(m.sessions) \subseteq McpSession
  BY <1>1, RowTypes
<1>4. \A e \in Entry : e.url \in Urls
  BY DEF Entry
<1>5. CASE line.op = "add"
  <2> DEFINE e == [url |-> line.url, installed |-> FALSE]
             c == [m.conf EXCEPT ![s] = e]
             j == CallJob(line, line.url, None)
  <2>1. s \in Servers /\ line.url \in Urls /\ e \in Entry
    BY <1>5, LineFields DEF Entry
  <2>2. c \in Known3 /\ c[s] \in Entry
    BY <1>1, <2>1
  <2>3. j \in Jobs
    BY <2>1, JobTypes
  <2>4. Begun(m, line) = Snap(m.servers, m.sessions, m.next, c, j)
    BY <1>5 DEF Begun, AddBegun
  <2> HIDE DEF c, e
  <2>5. IsSnap(Begun(m, line)) /\ TableSound(Begun(m, line))
    BY <1>1, <1>2, <2>2, <2>3, <2>4, SnapFields DEF IsSnap, TableSound
  <2>6. JobSound(Begun(m, line))
    <3>1. LET w == Begun(m, line)
          IN  /\ w.job.pc = "call" /\ w.job.line = line /\ w.job.sid = None /\ w.conf = c
      BY <2>4, SnapFields, JobFields
    <3> QED
      BY <1>5, <2>2, <3>1, Constants DEF JobSound, Tells
  <2> QED
    BY <2>5, <2>6 DEF Sound
<1>6. CASE line.op = "reload"
  <2> DEFINE j == CallJob(line, m.conf[s].url, None)
  <2>1. s \in Servers /\ m.conf[s] \in Entry
    BY <1>6, LineFields DEF Accepted
  <2>2. j \in Jobs
    BY <1>4, <2>1, JobTypes
  <2>3. Begun(m, line) = Snap(m.servers, m.sessions, m.next, m.conf, j)
    BY <1>6 DEF Begun, ReloadBegun
  <2>4. IsSnap(Begun(m, line)) /\ TableSound(Begun(m, line))
    BY <1>1, <1>2, <2>2, <2>3, SnapFields DEF IsSnap, TableSound
  <2>5. JobSound(Begun(m, line))
    <3>1. LET w == Begun(m, line)
          IN  /\ w.job.pc = "call" /\ w.job.line = line /\ w.job.sid = None /\ w.conf = m.conf
      BY <2>3, SnapFields, JobFields
    <3> QED
      BY <1>6, <2>1, <3>1, Constants DEF JobSound, Tells
  <2> QED
    BY <2>4, <2>5 DEF Sound
<1>7. CASE line.op = "remove"
  <2> DEFINE v == [m.servers EXCEPT ![s] = None]
             c == [m.conf EXCEPT ![s] = None]
             q == Without(m.sessions, s)
             j == EndJob(line, Silent)
  <2>1. v \in Known3 /\ c \in Known3
    BY <1>1
  <2>2. j \in Jobs
    BY JobTypes
  <2>3. /\ q \in Seq(McpSession) /\ Len(q) =< MaxSessions /\ Ordered(q)
        /\ \A x \in Rows(q) : x \in Rows(m.sessions) /\ x.server # s
    <3>1. /\ q \in Seq(McpSession) /\ Len(q) =< Len(m.sessions) /\ Ordered(q)
          /\ \A x \in Rows(q) : x \in Rows(m.sessions) /\ x.server # s
      BY <1>1, WithoutRows
    <3> HIDE DEF q
    <3>2. Len(q) \in Nat
      BY <3>1
    <3> QED
      BY <1>1, <1>3, <3>1, <3>2, Constants
  <2>4. Begun(m, line) = Snap(v, q, m.next, c, j)
    BY <1>7 DEF Begun, RemoveBegun
  <2>5. \A x \in Rows(q) : x.server \in Servers /\ v[x.server] = m.servers[x.server]
    BY <1>1, <1>3, <2>3 DEF McpSession
  <2> HIDE DEF v, c, q
  <2>6. IsSnap(Begun(m, line)) /\ TableSound(Begun(m, line))
    BY <1>1, <1>2, <2>1, <2>2, <2>3, <2>4, <2>5, SnapFields DEF IsSnap, TableSound
  <2>7. JobSound(Begun(m, line))
    BY <1>7, <2>4, SnapFields, JobFields DEF JobSound, Tells
  <2> QED
    BY <2>6, <2>7 DEF Sound
<1>8. CASE line.op = "open"
  <2> DEFINE j == CallJob(line, m.servers[s].url, None)
  <2>1. s \in Servers /\ m.servers[s] \in Entry
    BY <1>8, LineFields DEF Accepted
  <2>2. j \in Jobs
    BY <1>4, <2>1, JobTypes
  <2>3. Begun(m, line) = Snap(m.servers, m.sessions, m.next, m.conf, j)
    BY <1>8 DEF Begun, OpenBegun
  <2>4. IsSnap(Begun(m, line)) /\ TableSound(Begun(m, line))
    BY <1>1, <1>2, <2>2, <2>3, SnapFields DEF IsSnap, TableSound
  <2>5. JobSound(Begun(m, line))
    <3>1. LET w == Begun(m, line)
          IN  /\ w.job.pc = "call" /\ w.job.line = line /\ w.job.url = m.servers[s].url
              /\ w.job.sid = None /\ w.servers = m.servers
      BY <2>3, SnapFields, JobFields
    <3> QED
      BY <1>8, <2>1, <3>1, Constants DEF JobSound, Tells
  <2> QED
    BY <2>4, <2>5 DEF Sound
<1>9. CASE line.op = "close"
  <2> DEFINE x == SessionOf(m.sessions, line.id)
             q == Dropped(m.sessions, line.id)
             u == m.servers[x.server].url
             j == IF x.sid = None \/ m.servers[x.server] = None THEN EndJob(line, Silent)
                  ELSE CallJob(line, u, x.sid)
  <2>1. x \in Rows(m.sessions)
    BY <1>1, <1>9, SessionOfRow DEF Accepted
  <2>2. x.sid \in Sid \cup {None} /\ m.servers[x.server] \in Entry
    BY <1>2, <1>3, <2>1 DEF McpSession
  <2>3. x.sid # None => x.sid.at = u
    BY <1>2, <2>1
  <2>4. /\ q \in Seq(McpSession) /\ Len(q) =< MaxSessions /\ Ordered(q)
        /\ \A y \in Rows(q) : y \in Rows(m.sessions)
    <3>1. /\ q \in Seq(McpSession) /\ Len(q) =< Len(m.sessions) /\ Ordered(q)
          /\ \A y \in Rows(q) : y \in Rows(m.sessions)
      BY <1>1, DroppedRows
    <3> HIDE DEF q
    <3>2. Len(q) \in Nat
      BY <3>1
    <3> QED
      BY <1>1, <1>3, <3>1, <3>2, Constants
  <2>5. Begun(m, line) = Snap(m.servers, q, m.next, m.conf, j)
    BY <1>9 DEF Begun, CloseBegun
  <2> HIDE DEF x, q
  <2>6. /\ j \in Jobs /\ j.line = line /\ j.pc \in {"call", "end"}
        /\ j.pc = "call" => j.sid = x.sid /\ j.url = u /\ x.sid # None
    BY <1>4, <2>2, JobTypes, JobFields
  <2> HIDE DEF j, u
  <2>7. IsSnap(Begun(m, line)) /\ TableSound(Begun(m, line))
    BY <1>1, <1>2, <2>4, <2>5, <2>6, SnapFields DEF IsSnap, TableSound
  <2>8. JobSound(Begun(m, line))
    BY <1>9, <2>3, <2>5, <2>6, SnapFields DEF JobSound, Tells
  <2> QED
    BY <2>7, <2>8 DEF Sound
<1>10. CASE line.op = "tool"
  <2> DEFINE sid == IF line.named = NoId THEN ImplicitSid(m.sessions, s) ELSE [local |-> line.named]
             u == m.servers[s].url
             j == CallJob(line, u, sid)
  <2>1. s \in Servers /\ m.servers[s] \in Entry /\ line.named \in Nat
    BY <1>10, LineFields DEF Accepted
  <2>2. sid \in Sid \cup {None} \cup [local : Nat] /\ (sid \in Sid => sid.at = u)
    <3>1. CASE line.named = NoId
      <4>1. CASE ImplicitSid(m.sessions, s) = None
        BY <3>1, <4>1, Constants
      <4>2. ASSUME NEW x \in Rows(m.sessions), x.server = s, ImplicitSid(m.sessions, s) = x.sid
            PROVE  sid \in Sid \cup {None} /\ (sid \in Sid => sid.at = u)
        BY <1>2, <1>3, <3>1, <4>2, Constants DEF McpSession
      <4> QED
        BY <1>1, <4>1, <4>2, ImplicitRow
    <3>2. CASE line.named # NoId
      BY <2>1, <3>2, Constants
    <3> QED
      BY <3>1, <3>2
  <2>3. Begun(m, line) = Snap(m.servers, m.sessions, m.next, m.conf, j)
    BY <1>10 DEF Begun, ToolBegun
  <2> HIDE DEF sid
  <2>4. j \in Jobs
    BY <1>4, <2>1, <2>2, JobTypes
  <2>5. IsSnap(Begun(m, line)) /\ TableSound(Begun(m, line))
    BY <1>1, <1>2, <2>3, <2>4, SnapFields DEF IsSnap, TableSound
  <2>6. JobSound(Begun(m, line))
    <3>1. LET w == Begun(m, line).job
          IN  w.pc = "call" /\ w.line = line /\ w.url = u /\ w.sid = sid
      BY <2>3, SnapFields, JobFields
    <3> QED
      BY <1>10, <2>2, <3>1 DEF JobSound, Tells
  <2> QED
    BY <2>5, <2>6 DEF Sound
<1> QED
  BY <1>5, <1>6, <1>7, <1>8, <1>9, <1>10, LineFields DEF Ops

LEMMA AnsweredSound ==
    ASSUME NEW m, Sound(m), m.job.pc = "call", NEW a, AnswersCall(m, a)
    PROVE  Sound(Answered(m, a))
<1> DEFINE line == m.job.line
           s == line.server
           j == EndJob(line, a)
           Known3 == [Servers -> Entry \cup {None, Torn}]
<1>1. /\ m.servers \in Known3 /\ m.conf \in Known3
      /\ m.sessions \in Seq(McpSession) /\ m.next \in Nat
      /\ Len(m.sessions) =< MaxSessions /\ Ordered(m.sessions)
  BY DEF Sound, IsSnap, TableSound
<1>2. \A x \in Rows(m.sessions) :
         /\ x.id =< m.next
         /\ m.servers[x.server] \in Entry
         /\ x.sid # None => x.sid.at = m.servers[x.server].url
  BY DEF Sound, TableSound
<1>3. Len(m.sessions) \in Nat /\ Rows(m.sessions) \subseteq McpSession
  BY <1>1, RowTypes
<1>4. line \in Line /\ m.job.url \in Urls /\ a \in Answer /\ j \in Jobs
  BY JobTypes DEF Sound, IsSnap, AnswersCall
<1>5. j.pc = "end" /\ j.line = line /\ j.answer = a
  BY JobFields
<1>6. a.ok \in BOOLEAN /\ a.sid \in Sid \cup {None}
  BY <1>4 DEF Answer
<1>7. CASE line.op \in {"add", "reload"}
  <2> DEFINE e == [url |-> m.job.url, installed |-> a.ok]
             v == [m.servers EXCEPT ![s] = e]
             c == IF a.ok THEN [m.conf EXCEPT ![s] = e] ELSE m.conf
             q == Without(m.sessions, s)
  <2>1. s \in Servers /\ e \in Entry
    BY <1>4, <1>6, <1>7, LineFields DEF Entry
  <2>2. v \in Known3 /\ c \in Known3
    BY <1>1, <2>1
  <2>3. /\ q \in Seq(McpSession) /\ Len(q) =< MaxSessions /\ Ordered(q)
        /\ \A x \in Rows(q) : x \in Rows(m.sessions) /\ x.server # s
    <3>1. /\ q \in Seq(McpSession) /\ Len(q) =< Len(m.sessions) /\ Ordered(q)
          /\ \A x \in Rows(q) : x \in Rows(m.sessions) /\ x.server # s
      BY <1>1, WithoutRows
    <3> HIDE DEF q
    <3>2. Len(q) \in Nat
      BY <3>1
    <3> QED
      BY <1>1, <1>3, <3>1, <3>2, Constants
  <2>4. Answered(m, a) = Snap(v, q, m.next, c, j)
    BY <1>7 DEF Answered, InstallAnswered
  <2>5. \A x \in Rows(q) : x.server \in Servers /\ v[x.server] = m.servers[x.server]
    BY <1>1, <1>3, <2>3 DEF McpSession
  <2> HIDE DEF v, c, q, j
  <2>6. IsSnap(Answered(m, a)) /\ TableSound(Answered(m, a))
    BY <1>1, <1>2, <1>4, <2>2, <2>3, <2>4, <2>5, SnapFields DEF IsSnap, TableSound
  <2>7. JobSound(Answered(m, a))
    BY <1>5, <1>7, <2>4, SnapFields DEF JobSound, Tells
  <2> QED
    BY <2>6, <2>7 DEF Sound
<1>8. CASE line.op = "open" /\ a.ok
  <2> DEFINE x == NewSession(m, a)
             q == Append(Room(m.sessions), x)
  <2>1. s \in Servers /\ m.servers[s] \in Entry /\ m.job.url = m.servers[s].url
    BY <1>4, <1>8, LineFields DEF Sound, JobSound
  <2>2. /\ x \in McpSession /\ x.id = m.next + 1 /\ x.server = s /\ x.sid = a.sid
        /\ x.sid # None => x.sid.at = m.servers[s].url
    BY <1>1, <1>6, <2>1 DEF NewSession, McpSession, AnswersCall
  <2>3. \A y \in Rows(m.sessions) : y.id < x.id /\ y.id =< m.next + 1
    BY <1>1, <1>2, <1>3, <2>2 DEF McpSession
  <2>4. Answered(m, a) = Snap(m.servers, q, m.next + 1, m.conf, j)
    BY <1>7, <1>8 DEF Answered, OpenAnswered
  <2>5. Told(Answered(m, a)) = x
    BY <1>5, <2>4, SnapFields DEF Told, NewSession
  <2> HIDE DEF x, j
  <2>6. /\ q \in Seq(McpSession) /\ Len(q) =< MaxSessions /\ Ordered(q)
        /\ Rows(q) \subseteq Rows(m.sessions) \cup {x} /\ x \in Rows(q)
    BY <1>1, <2>2, <2>3, RoomRows
  <2> HIDE DEF q
  <2>7. IsSnap(Answered(m, a))
    BY <1>1, <1>4, <2>4, <2>6, SnapFields DEF IsSnap
  <2>8. TableSound(Answered(m, a))
    <3>1. \A y \in Rows(q) : /\ y.id =< m.next + 1
                             /\ m.servers[y.server] \in Entry
                             /\ y.sid # None => y.sid.at = m.servers[y.server].url
      BY <1>1, <1>2, <2>1, <2>2, <2>3, <2>6
    <3> QED
      BY <2>4, <2>6, <3>1, SnapFields DEF TableSound
  <2>9. JobSound(Answered(m, a))
    BY <1>5, <2>4, <2>5, <2>6, SnapFields DEF JobSound
  <2> QED
    BY <2>7, <2>8, <2>9 DEF Sound
<1>9. CASE line.op \notin {"add", "reload"} /\ ~(line.op = "open" /\ a.ok)
  <2>1. Answered(m, a) = Snap(m.servers, m.sessions, m.next, m.conf, j)
    BY <1>9 DEF Answered, PlainAnswered
  <2> HIDE DEF j
  <2>2. IsSnap(Answered(m, a)) /\ TableSound(Answered(m, a))
    BY <1>1, <1>2, <1>4, <2>1, SnapFields DEF IsSnap, TableSound
  <2>3. JobSound(Answered(m, a))
    BY <1>5, <1>9, <2>1, SnapFields DEF JobSound, Tells
  <2> QED
    BY <2>2, <2>3 DEF Sound
<1> QED
  BY <1>7, <1>8, <1>9

(* What a step says of a server: nothing of what is known of it is         *)
(* forgotten again; where it says nothing, nothing changes, but for a      *)
(* config that has no tool list and for what is removed.                   *)
Says(m, r, m2, r2) == \A s \in Servers :
    /\ r.conf[s] # Torn => r2.conf[s] # Torn
    /\ r.servers[s] # Torn => r2.servers[s] # Torn
    /\ r2.conf[s] # Torn \/ m2.conf[s] \in {m.conf[s], None}
    /\ r2.servers[s] # Torn \/ /\ m2.servers[s] \in {m.servers[s], None}
                               /\ m2.conf[s] \in {m.conf[s], None} \/ ~m2.conf[s].installed

(* The same line, or the same answer, keeps the memory and what the oplog  *)
(* stands for together.                                                    *)
LEMMA BegunMatches ==
    ASSUME NEW m, Sound(m), NEW r, Sound(r), Matches(m, r),
           NEW line \in Line, Accepted(m, line), Accepted(r, line)
    PROVE  /\ Matches(Begun(m, line), Begun(r, line))
           /\ Says(m, r, Begun(m, line), Begun(r, line))
           /\ Begun(m, line).job # Idle
<1> DEFINE s == line.server
           Known3 == [Servers -> Entry \cup {None, Torn}]
           m2 == Begun(m, line)
           r2 == Begun(r, line)
<1>1. /\ m.servers \in Known3 /\ m.conf \in Known3 /\ r.servers \in Known3 /\ r.conf \in Known3
      /\ m.sessions = r.sessions /\ m.next = r.next /\ r.sessions \in Seq(McpSession)
      /\ Known(m.servers, r.servers) /\ Known(m.conf, r.conf)
  BY DEF Sound, IsSnap, Matches
<1>2. \A x \in Rows(r.sessions) : x.server \in Servers /\ r.servers[x.server] \in Entry
  BY <1>1, RowTypes DEF Sound, TableSound, McpSession
<1>3. ASSUME NEW e \in Entry \cup {None}, s \in Servers
      PROVE  /\ Known([m.conf EXCEPT ![s] = e], [r.conf EXCEPT ![s] = e])
             /\ Known([m.servers EXCEPT ![s] = e], [r.servers EXCEPT ![s] = e])
  BY <1>1, <1>3 DEF Known
<1>4. Torn \notin Entry /\ Torn # None
  BY Constants
<1>5. CASE line.op = "add"
  <2> DEFINE e == [url |-> line.url, installed |-> FALSE]
             j == CallJob(line, line.url, None)
             c == [m.conf EXCEPT ![s] = e]
             d == [r.conf EXCEPT ![s] = e]
  <2>1. s \in Servers /\ e \in Entry /\ e.installed = FALSE
    BY <1>5, LineFields DEF Entry
  <2>2. /\ m2 = Snap(m.servers, m.sessions, m.next, c, j)
        /\ r2 = Snap(r.servers, r.sessions, r.next, d, j)
    BY <1>5 DEF Begun, AddBegun
  <2>3. j # Idle
    BY JobFields, JobTypes
  <2>4. \A t \in Servers : IF t = s THEN c[t] = e /\ d[t] = e ELSE c[t] = m.conf[t] /\ d[t] = r.conf[t]
    BY <1>1, <2>1
  <2>5. Known(c, d)
    BY <1>3, <2>1
  <2> HIDE DEF m2, r2, c, d, e, j
  <2>6. Matches(m2, r2)
    BY <1>1, <2>2, <2>5, SnapFields DEF Matches
  <2>7. Says(m, r, m2, r2)
    BY <1>4, <2>1, <2>2, <2>4, SnapFields DEF Says
  <2> QED
    BY <2>2, <2>3, <2>6, <2>7, SnapFields DEF m2, r2
<1>6. CASE line.op = "reload"
  <2> DEFINE j == CallJob(line, r.conf[s].url, None)
  <2>1. s \in Servers /\ m.conf[s] = r.conf[s]
    BY <1>1, <1>4, <1>6, LineFields DEF Accepted, Known
  <2>2. /\ m2 = Snap(m.servers, m.sessions, m.next, m.conf, j)
        /\ r2 = Snap(r.servers, r.sessions, r.next, r.conf, j)
    BY <1>6, <2>1 DEF Begun, ReloadBegun
  <2>3. j # Idle
    BY JobFields, JobTypes
  <2> HIDE DEF m2, r2, j
  <2>4. Matches(m2, r2) /\ Says(m, r, m2, r2)
    BY <1>1, <2>2, SnapFields DEF Matches, Says
  <2> QED
    BY <2>2, <2>3, <2>4, SnapFields DEF m2, r2
<1>7. CASE line.op = "remove"
  <2> DEFINE j == EndJob(line, Silent)
             c == [m.conf EXCEPT ![s] = None]
             d == [r.conf EXCEPT ![s] = None]
             v == [m.servers EXCEPT ![s] = None]
             w == [r.servers EXCEPT ![s] = None]
             q == Without(r.sessions, s)
  <2>1. s \in Servers
    BY <1>7, LineFields
  <2>2. m2 = Snap(v, q, m.next, c, j) /\ r2 = Snap(w, q, r.next, d, j)
    BY <1>1, <1>7 DEF Begun, RemoveBegun
  <2>3. j # Idle
    BY JobFields, JobTypes
  <2>4. \A t \in Servers :
          IF t = s THEN c[t] = None /\ d[t] = None /\ v[t] = None /\ w[t] = None
          ELSE c[t] = m.conf[t] /\ d[t] = r.conf[t] /\ v[t] = m.servers[t] /\ w[t] = r.servers[t]
    BY <1>1, <2>1
  <2>5. Known(c, d) /\ Known(v, w)
    BY <1>3, <2>1
  <2> HIDE DEF m2, r2, c, d, v, w, q, j
  <2>6. Matches(m2, r2)
    BY <1>1, <2>2, <2>5, SnapFields DEF Matches
  <2>7. Says(m, r, m2, r2)
    BY <1>4, <2>1, <2>2, <2>4, SnapFields DEF Says
  <2> QED
    BY <2>2, <2>3, <2>6, <2>7, SnapFields DEF m2, r2
<1>8. CASE line.op \in {"open", "tool"}
  <2> DEFINE sid == IF line.op = "open" THEN None
                    ELSE IF line.named = NoId THEN ImplicitSid(r.sessions, s)
                    ELSE [local |-> line.named]
             j == CallJob(line, r.servers[s].url, sid)
  <2>1. s \in Servers /\ m.servers[s] = r.servers[s]
    BY <1>1, <1>4, <1>8, LineFields DEF Accepted, Known
  <2>2. /\ m2 = Snap(m.servers, m.sessions, m.next, m.conf, j)
        /\ r2 = Snap(r.servers, r.sessions, r.next, r.conf, j)
    <3>1. CASE line.op = "open"
      BY <2>1, <3>1 DEF Begun, OpenBegun
    <3>2. CASE line.op = "tool"
      BY <1>1, <2>1, <3>2 DEF Begun, ToolBegun
    <3> QED
      BY <1>8, <3>1, <3>2
  <2>3. j # Idle
    BY JobFields, JobTypes
  <2> HIDE DEF m2, r2, j
  <2>4. Matches(m2, r2) /\ Says(m, r, m2, r2)
    BY <1>1, <2>2, SnapFields DEF Matches, Says
  <2> QED
    BY <2>2, <2>3, <2>4, SnapFields DEF m2, r2
<1>9. CASE line.op = "close"
  <2> DEFINE x == SessionOf(r.sessions, line.id)
             q == Dropped(r.sessions, line.id)
             j == IF x.sid = None \/ r.servers[x.server] = None THEN EndJob(line, Silent)
                  ELSE CallJob(line, r.servers[x.server].url, x.sid)
  <2>1. x \in Rows(r.sessions)
    BY <1>1, <1>9, SessionOfRow DEF Accepted
  <2>2. m.servers[x.server] = r.servers[x.server]
    BY <1>1, <1>2, <1>4, <2>1 DEF Known
  <2>3. /\ m2 = Snap(m.servers, q, m.next, m.conf, j)
        /\ r2 = Snap(r.servers, q, r.next, r.conf, j)
    BY <1>1, <1>9, <2>2 DEF Begun, CloseBegun
  <2>4. j # Idle
    BY JobFields, JobTypes
  <2> HIDE DEF m2, r2, j, q
  <2>5. Matches(m2, r2) /\ Says(m, r, m2, r2)
    BY <1>1, <2>3, SnapFields DEF Matches, Says
  <2> QED
    BY <2>3, <2>4, <2>5, SnapFields DEF m2, r2
<1> QED
  BY <1>5, <1>6, <1>7, <1>8, <1>9, LineFields DEF Ops

LEMMA AnsweredMatches ==
    ASSUME NEW m, Sound(m), NEW r, Sound(r), Matches(m, r),
           m.job.pc = "call", NEW a, AnswersCall(m, a)
    PROVE  /\ Matches(Answered(m, a), Answered(r, a))
           /\ Says(m, r, Answered(m, a), Answered(r, a))
           /\ m.job = r.job /\ Answered(m, a).job # Idle
<1> DEFINE line == r.job.line
           s == line.server
           Known3 == [Servers -> Entry \cup {None, Torn}]
           j == EndJob(line, a)
           m2 == Answered(m, a)
           r2 == Answered(r, a)
<1>1. /\ m.servers \in Known3 /\ m.conf \in Known3 /\ r.servers \in Known3 /\ r.conf \in Known3
      /\ m.sessions = r.sessions /\ m.next = r.next
      /\ Known(m.servers, r.servers) /\ Known(m.conf, r.conf)
  BY DEF Sound, IsSnap, Matches
<1>2. m.job = r.job /\ line \in Line /\ r.job.url \in Urls /\ a.ok \in BOOLEAN
  BY JobTypes DEF Sound, IsSnap, Matches, AnswersCall, Answer
<1>3. Torn \notin Entry /\ Torn # None
  BY Constants
<1>4. j # Idle
  BY JobFields, JobTypes
<1>5. CASE line.op \in {"add", "reload"}
  <2> DEFINE e == [url |-> r.job.url, installed |-> a.ok]
             c == IF a.ok THEN [m.conf EXCEPT ![s] = e] ELSE m.conf
             d == IF a.ok THEN [r.conf EXCEPT ![s] = e] ELSE r.conf
             v == [m.servers EXCEPT ![s] = e]
             w == [r.servers EXCEPT ![s] = e]
             q == Without(r.sessions, s)
  <2>1. s \in Servers /\ e \in Entry
    BY <1>2, <1>5, LineFields DEF Entry
  <2>2. m2 = Snap(v, q, m.next, c, j) /\ r2 = Snap(w, q, r.next, d, j)
    BY <1>1, <1>2, <1>5 DEF Answered, InstallAnswered
  <2>3. \A t \in Servers :
          /\ IF t = s /\ a.ok THEN c[t] = e /\ d[t] = e ELSE c[t] = m.conf[t] /\ d[t] = r.conf[t]
          /\ IF t = s THEN v[t] = e /\ w[t] = e ELSE v[t] = m.servers[t] /\ w[t] = r.servers[t]
    BY <1>1, <1>2, <2>1
  <2> HIDE DEF m2, r2, c, d, e, v, w, q, j
  <2>4. Known(c, d) /\ Known(v, w)
    BY <1>1, <2>3 DEF Known
  <2>5. Matches(m2, r2)
    BY <1>1, <2>2, <2>4, SnapFields DEF Matches
  <2>6. Says(m, r, m2, r2)
    BY <1>3, <2>1, <2>2, <2>3, SnapFields DEF Says
  <2> QED
    BY <1>2, <1>4, <2>2, <2>5, <2>6, SnapFields DEF m2, r2
<1>6. CASE line.op \notin {"add", "reload"}
  <2> DEFINE x == [id |-> r.next + 1, server |-> s, sid |-> a.sid]
             q == IF line.op = "open" /\ a.ok THEN Append(Room(r.sessions), x) ELSE r.sessions
             n == IF line.op = "open" /\ a.ok THEN r.next + 1 ELSE r.next
  <2>1. m2 = Snap(m.servers, q, n, m.conf, j) /\ r2 = Snap(r.servers, q, n, r.conf, j)
    BY <1>1, <1>2, <1>6 DEF Answered, OpenAnswered, PlainAnswered, NewSession
  <2> HIDE DEF m2, r2, j, q, n
  <2>2. Matches(m2, r2) /\ Says(m, r, m2, r2)
    BY <1>1, <2>1, SnapFields DEF Matches, Says
  <2> QED
    BY <1>2, <1>4, <2>1, <2>2, SnapFields DEF m2, r2
<1> QED
  BY <1>5, <1>6

-----------------------------------------------------------------------------
(* The actions as such steps.                                              *)
(* A refused line leaves everything as it is.                              *)
LEMMA TurnedSound ==
    ASSUME NEW m, Sound(m), NEW line \in Line
    PROVE  Sound(Turned(m, line))
<1> DEFINE j == EndJob(line, Silent)
<1>1. /\ m.servers \in [Servers -> Entry \cup {None, Torn}]
      /\ m.sessions \in Seq(McpSession) /\ m.next \in Nat
      /\ m.conf \in [Servers -> Entry \cup {None, Torn}] /\ TableSound(m)
  BY DEF Sound, IsSnap
<1>2. j \in Jobs /\ j.pc = "end" /\ ~j.answer.ok
  BY JobTypes, JobFields DEF Silent
<1> HIDE DEF j
<1>3. Turned(m, line) = Snap(m.servers, m.sessions, m.next, m.conf, j)
  BY DEF Turned, j
<1>4. PICK t : t = Turned(m, line)
  OBVIOUS
<1>5. /\ t.servers = m.servers /\ t.sessions = m.sessions /\ t.next = m.next /\ t.conf = m.conf
      /\ t.job = j /\ t = Snap(t.servers, t.sessions, t.next, t.conf, t.job)
  BY <1>3, <1>4, SnapFields
<1>6. IsSnap(t) /\ TableSound(t) /\ JobSound(t)
  BY <1>1, <1>2, <1>5 DEF IsSnap, TableSound, JobSound, Tells
<1> QED
  BY <1>4, <1>6 DEF Sound

LEMMA TurnedMatches ==
    ASSUME NEW m, NEW r, Matches(m, r), NEW line \in Line
    PROVE  /\ Matches(Turned(m, line), Turned(r, line))
           /\ Says(m, r, Turned(m, line), Turned(r, line))
           /\ Turned(m, line).job # Idle
<1>1. EndJob(line, Silent) # Idle
  BY JobFields, JobTypes
<1> QED
  BY <1>1, SnapFields DEF Turned, Matches, Says

(* Lines that were refused at first and are taken over files that are      *)
(* there now.  To remove what is not known leaves nothing behind.          *)
LEMMA RemovedLate ==
    ASSUME NEW m, Sound(m), NEW r, Sound(r), Speaks(r), Matches(m, r),
           NEW line \in Line, line.op = "remove", Accepted(m, line), ~Firm(r, line)
    PROVE  /\ Matches(Begun(m, line), Turned(r, line))
           /\ Says(m, r, Begun(m, line), Turned(r, line))
           /\ Begun(m, line).job # Idle
<1> DEFINE s == line.server
           j == EndJob(line, Silent)
           c == [m.conf EXCEPT ![s] = None]
           v == [m.servers EXCEPT ![s] = None]
<1>1. /\ m.servers \in [Servers -> Entry \cup {None, Torn}]
      /\ m.conf \in [Servers -> Entry \cup {None, Torn}]
      /\ m.sessions = r.sessions /\ m.next = r.next /\ r.sessions \in Seq(McpSession)
      /\ Known(m.servers, r.servers) /\ Known(m.conf, r.conf)
  BY DEF Sound, IsSnap, Matches
<1>2. s \in Servers /\ m.conf[s] # None
  BY LineFields DEF Accepted
<1>3. r.conf[s] = Torn /\ r.servers[s] = Torn
  BY <1>1, <1>2 DEF Accepted, Firm, Known, Speaks
<1>4. \A x \in Rows(r.sessions) : x.server # s
  BY <1>3, Constants DEF Sound, TableSound
<1>5. Without(m.sessions, s) = r.sessions
  BY <1>1, <1>4, WithoutNone
<1>6. Begun(m, line) = Snap(v, r.sessions, m.next, c, j)
  BY <1>5 DEF Begun, RemoveBegun
<1>7. Turned(r, line) = Snap(r.servers, r.sessions, r.next, r.conf, j)
  BY DEF Turned
<1>8. \A t \in Servers : IF t = s THEN c[t] = None /\ v[t] = None
                         ELSE c[t] = m.conf[t] /\ v[t] = m.servers[t]
  BY <1>1
<1>9. j # Idle
  BY JobFields, JobTypes
<1> HIDE DEF c, v, j
<1>10. Known(v, r.servers) /\ Known(c, r.conf)
  BY <1>1, <1>3, <1>8 DEF Known
<1>11. Matches(Begun(m, line), Turned(r, line))
  BY <1>1, <1>6, <1>7, <1>10, SnapFields DEF Matches
<1>12. Says(m, r, Begun(m, line), Turned(r, line))
  BY <1>6, <1>7, <1>8, SnapFields DEF Says
<1> QED
  BY <1>6, <1>9, <1>11, <1>12, SnapFields

(* Any other asks for an answer, and changes nothing else.                 *)
LEMMA AskedLate ==
    ASSUME NEW m, NEW r, Matches(m, r),
           NEW line \in Line, line.op \in {"reload", "open", "tool"}
    PROVE  /\ Near(Begun(m, line), Turned(r, line))
           /\ Begun(m, line).job.pc = "call" /\ Turned(r, line).job.pc = "end"
           /\ Says(m, r, Begun(m, line), Turned(r, line))
<1>1. PICK j : /\ Begun(m, line) = Snap(m.servers, m.sessions, m.next, m.conf, j)
               /\ j.pc = "call"
  <2>1. CASE line.op = "reload"
    BY <2>1, JobFields DEF Begun, ReloadBegun
  <2>2. CASE line.op = "open"
    BY <2>2, JobFields DEF Begun, OpenBegun
  <2>3. CASE line.op = "tool"
    BY <2>3, JobFields DEF Begun, ToolBegun
  <2> QED
    BY <2>1, <2>2, <2>3
<1>2. /\ Turned(r, line) = Snap(r.servers, r.sessions, r.next, r.conf, EndJob(line, Silent))
      /\ EndJob(line, Silent).pc = "end"
  BY JobFields DEF Turned
<1> QED
  BY <1>1, <1>2, SnapFields DEF Near, Matches, Says

(* What is known of a server goes with what is known of its config.        *)
LEMMA AfterSpeaks ==
    ASSUME NEW r, Sound(r), Speaks(r), NEW e, NEW x \in BOOLEAN,
           IF r.job.pc = "call" THEN AnswersCall(r, e) ELSE e \in Line
    PROVE  Speaks(After(r, e, x))
<1>1. r.servers \in [Servers -> Entry \cup {None, Torn}]
      /\ r.conf \in [Servers -> Entry \cup {None, Torn}] /\ r.job \in Jobs
  BY DEF Sound, IsSnap
<1>2. CASE r.job.pc = "call"
  <2>1. After(r, e, x) = Answered(r, e)
    BY <1>2 DEF After
  <2>2. CASE r.job.line.op \in {"add", "reload"}
    <3> DEFINE s == r.job.line.server
               entry == [url |-> r.job.url, installed |-> e.ok]
               v == [r.servers EXCEPT ![s] = entry]
               c == IF e.ok THEN [r.conf EXCEPT ![s] = entry] ELSE r.conf
    <3>1. entry \in Entry /\ entry # Torn /\ r.conf[s] # Torn
      <4>1. r.job.url \in Urls /\ e.ok \in BOOLEAN
        BY <1>1, <1>2, JobTypes DEF AnswersCall, Answer
      <4>2. r.conf[s] \in Entry
        BY <1>2, <2>2 DEF Sound, JobSound
      <4> QED
        BY <4>1, <4>2, Constants DEF Entry
    <3>2. Answered(r, e).servers = v /\ Answered(r, e).conf = c
      BY <2>2, SnapFields DEF Answered, InstallAnswered
    <3>3. \A t \in Servers : /\ v[t] # Torn => t = s \/ r.servers[t] # Torn
                             /\ r.conf[t] # Torn => c[t] # Torn
      BY <1>1, <3>1
    <3> HIDE DEF v, c
    <3> QED
      BY <2>1, <3>1, <3>2, <3>3 DEF Speaks
  <2>3. CASE r.job.line.op \notin {"add", "reload"}
    <3>1. Answered(r, e).servers = r.servers /\ Answered(r, e).conf = r.conf
      BY <2>3, SnapFields DEF Answered, OpenAnswered, PlainAnswered
    <3> QED
      BY <2>1, <3>1 DEF Speaks
  <2> QED
    BY <2>2, <2>3
<1>3. CASE r.job.pc # "call" /\ x
  BY <1>3, SnapFields DEF After, Turned, Speaks
<1>4. CASE r.job.pc # "call" /\ ~x
  <2>1. After(r, e, x) = Begun(r, e) /\ e \in Line
    BY <1>4 DEF After
  <2>2. CASE e.op = "add"
    <3>1. /\ Begun(r, e).servers = r.servers
          /\ Begun(r, e).conf = [r.conf EXCEPT ![e.server] = [url |-> e.url, installed |-> FALSE]]
      BY <2>2, SnapFields DEF Begun, AddBegun
    <3>2. [url |-> e.url, installed |-> FALSE] # Torn
      <4>1. [url |-> e.url, installed |-> FALSE] \in Entry
        BY <2>1, <2>2, LineFields DEF Entry
      <4> QED
        BY <4>1, Constants
    <3> QED
      BY <1>1, <2>1, <3>1, <3>2 DEF Speaks
  <2>3. CASE e.op = "remove"
    <3>1. /\ Begun(r, e).servers = [r.servers EXCEPT ![e.server] = None]
          /\ Begun(r, e).conf = [r.conf EXCEPT ![e.server] = None]
      BY <2>3, SnapFields DEF Begun, RemoveBegun
    <3> QED
      BY <1>1, <2>1, <3>1, Constants DEF Speaks
  <2>4. CASE e.op \notin {"add", "remove"}
    <3>1. Begun(r, e).servers = r.servers /\ Begun(r, e).conf = r.conf
      <4>1. CASE e.op = "reload"
        BY <4>1, SnapFields DEF Begun, ReloadBegun
      <4>2. CASE e.op = "open"
        BY <4>2, SnapFields DEF Begun, OpenBegun
      <4>3. CASE e.op = "close"
        BY <4>3, SnapFields DEF Begun, CloseBegun
      <4>4. CASE e.op = "tool"
        BY <4>4, SnapFields DEF Begun, ToolBegun
      <4> QED
        BY <2>1, <2>4, <4>1, <4>2, <4>3, <4>4, LineFields DEF Ops
    <3> QED
      BY <2>1, <3>1 DEF Speaks
  <2> QED
    BY <2>2, <2>3, <2>4
<1> QED
  BY <1>2, <1>3, <1>4

LEMMA NowFields ==
    /\ Now.servers = servers /\ Now.sessions = sessions /\ Now.next = next_session
    /\ Now.conf = conf /\ Now.job = job
    /\ Now = Snap(servers, sessions, next_session, conf, job)
BY SnapFields DEF Now

LEMMA NowNext ==
    Now' = Snap(servers', sessions', next_session', conf', job')
BY DEF Now

LEMMA AcceptsLine ==
    ASSUME TypeOK, NEW line \in Line, Accepts(line)
    PROVE  Accepted(Now, line)
<1>1. /\ servers \in [Servers -> Entry \cup {None}]
      /\ conf \in [Servers -> Entry \cup {None, Torn}]
  BY DEF TypeOK, Files
<1>2. CASE line.op \in {"reload", "remove"}
  BY <1>1, <1>2, LineFields, NowFields DEF Accepts, Accepted
<1>3. CASE line.op = "open"
  BY <1>1, <1>3, LineFields, NowFields DEF Accepts, Accepted
<1>4. CASE line.op = "tool"
  BY <1>1, <1>4, LineFields, NowFields DEF Accepts, Accepted
<1>5. CASE line.op = "close"
  BY <1>5, NowFields DEF Accepts, Accepted
<1>6. CASE line.op = "add"
  BY <1>6 DEF Accepted
<1> QED
  BY <1>2, <1>3, <1>4, <1>5, <1>6, LineFields DEF Ops

(* Whether the entry that a step takes is a line that was refused at first.*)
Noted(x) ==
    /\ ~Live => (x <=> cursor + 1 \in refusals)
    /\ refusals' = IF Live /\ x THEN refusals \cup {cursor + 1} ELSE refusals

(* A line comes in and is taken, or refused.                               *)
Comes(line, refused) ==
    /\ Enter(line) /\ refused \in BOOLEAN /\ (refused <=> ~Accepts(line))
    /\ Now' = IF refused THEN Turned(Now, line) ELSE Begun(Now, line)
    /\ OnGolem => \E x \in BOOLEAN : Noted(x) /\ (Live => (x <=> refused))
    /\ refusals' \subseteq refusals \cup {cursor + 1}

LEMMA NotedSo ==
    ASSUME NEW refused \in BOOLEAN,
           refusals' = IF Live /\ refused THEN refusals \cup {cursor + 1} ELSE refusals
    PROVE  \E x \in BOOLEAN : Noted(x) /\ (Live => (x <=> refused))
<1>1. CASE Live
  BY <1>1 DEF Noted
<1>2. CASE ~Live /\ cursor + 1 \in refusals
  <2>1. Noted(TRUE)
    BY <1>2 DEF Noted
  <2> QED
    BY <1>2, <2>1
<1>3. CASE ~Live /\ cursor + 1 \notin refusals
  <2>1. Noted(FALSE)
    BY <1>3 DEF Noted
  <2> QED
    BY <1>3, <2>1
<1> QED
  BY <1>1, <1>2, <1>3

LEMMA BeginComes ==
    ASSUME NEW line, Begin(line), Now' = Begun(Now, line)
    PROVE  Comes(line, FALSE)
<1>1. \E x \in BOOLEAN : Noted(x) /\ (Live => (x <=> FALSE))
  <2>1. refusals' = IF Live /\ FALSE THEN refusals \cup {cursor + 1} ELSE refusals
    BY DEF Begin
  <2> QED
    BY <2>1, NotedSo
<1> QED
  BY <1>1 DEF Begin, Comes

LEMMA RefuseComes ==
    ASSUME NEW line, Refuse(line)
    PROVE  Comes(line, TRUE)
<1>1. job' = EndJob(line, Silent)
  BY DEF Refuse, Ending, EndJob
<1>2. Now' = Turned(Now, line)
  BY <1>1, NowFields, NowNext DEF Refuse, Turned, mcp
<1>3. OnGolem => \E x \in BOOLEAN : Noted(x) /\ (Live => (x <=> TRUE))
  <2>1. OnGolem => refusals' = IF Live /\ TRUE THEN refusals \cup {cursor + 1} ELSE refusals
    BY DEF Refuse
  <2> QED
    BY <2>1, NotedSo
<1> QED
  BY <1>2, <1>3 DEF Refuse, Comes

LEMMA AttemptsAreLines == sessions \in Seq(McpSession) /\ next_session \in Nat => Attempts \subseteq Line
<1>1. Ids \subseteq Nat /\ NoId \in Nat
  BY DEF Ids, NoId
<1> QED
  BY <1>1 DEF Attempts, Line

LEMMA RequestBegins ==
    ASSUME TypeOK, Request
    PROVE  \E line \in Line, refused \in BOOLEAN : Comes(line, refused)
<1>1. ASSUME NEW s \in Servers, NEW url \in Urls, Add(s, url)
      PROVE  \E line \in Line : Begin(line) /\ Now' = Begun(Now, line)
  <2> DEFINE line == [op |-> "add", server |-> s, url |-> url]
  <2>1. line \in Line /\ line.op = "add" /\ line.server = s /\ line.url = url
    BY DEF Line
  <2>2. /\ Begin(line) /\ job' = CallJob(line, url, None)
        /\ conf' = [conf EXCEPT ![s] = [url |-> url, installed |-> FALSE]]
        /\ servers' = servers /\ sessions' = sessions /\ next_session' = next_session
    BY <1>1 DEF Add, Asking, CallJob, mcp
  <2> HIDE DEF line
  <2>3. Now' = Begun(Now, line)
    BY <2>1, <2>2, NowFields, NowNext DEF Begun, AddBegun
  <2> QED
    BY <2>1, <2>2, <2>3
<1>2. ASSUME NEW s \in Servers, McpReload(s)
      PROVE  \E line \in Line : Begin(line) /\ Now' = Begun(Now, line)
  <2> DEFINE line == [op |-> "reload", server |-> s]
  <2>1. line \in Line /\ line.op = "reload" /\ line.server = s
    BY DEF Line
  <2>2. /\ Begin(line) /\ job' = CallJob(line, conf[s].url, None) /\ conf' = conf
        /\ servers' = servers /\ sessions' = sessions /\ next_session' = next_session
    BY <1>2 DEF McpReload, Asking, CallJob, mcp
  <2> HIDE DEF line
  <2>3. Now' = Begun(Now, line)
    BY <2>1, <2>2, NowFields, NowNext DEF Begun, ReloadBegun
  <2> QED
    BY <2>1, <2>2, <2>3
<1>3. ASSUME NEW s \in Servers, McpRemove(s)
      PROVE  \E line \in Line : Begin(line) /\ Now' = Begun(Now, line)
  <2> DEFINE line == [op |-> "remove", server |-> s]
  <2>1. line \in Line /\ line.op = "remove" /\ line.server = s
    BY DEF Line
  <2>2. /\ Begin(line) /\ job' = EndJob(line, Silent) /\ conf' = [conf EXCEPT ![s] = None]
        /\ servers' = [servers EXCEPT ![s] = None] /\ sessions' = Without(sessions, s)
        /\ next_session' = next_session
    BY <1>3 DEF McpRemove, RemoveServer, Ending, EndJob
  <2> HIDE DEF line
  <2>3. Now' = Begun(Now, line)
    BY <2>1, <2>2, NowFields, NowNext DEF Begun, RemoveBegun
  <2> QED
    BY <2>1, <2>2, <2>3
<1>4. ASSUME NEW s \in Servers, SessionOpen(s)
      PROVE  \E line \in Line : Begin(line) /\ Now' = Begun(Now, line)
  <2> DEFINE line == [op |-> "open", server |-> s]
  <2>1. line \in Line /\ line.op = "open" /\ line.server = s
    BY DEF Line
  <2>2. /\ Begin(line) /\ job' = CallJob(line, servers[s].url, None) /\ conf' = conf
        /\ servers' = servers /\ sessions' = sessions /\ next_session' = next_session
    BY <1>4 DEF SessionOpen, Asking, CallJob, mcp
  <2> HIDE DEF line
  <2>3. Now' = Begun(Now, line)
    BY <2>1, <2>2, NowFields, NowNext DEF Begun, OpenBegun
  <2> QED
    BY <2>1, <2>2, <2>3
<1>5. ASSUME NEW s \in Servers, NEW named \in Nat, Tool(s, named)
      PROVE  \E line \in Line : Begin(line) /\ Now' = Begun(Now, line)
  <2> DEFINE line == [op |-> "tool", server |-> s, named |-> named]
  <2>1. line \in Line /\ line.op = "tool" /\ line.server = s /\ line.named = named
    BY DEF Line
  <2>2. /\ Begin(line) /\ job' = CallJob(line, servers[s].url, ToolSid(s, named)) /\ conf' = conf
        /\ servers' = servers /\ sessions' = sessions /\ next_session' = next_session
    BY <1>5 DEF Tool, Asking, CallJob, mcp
  <2> HIDE DEF line
  <2>3. Now' = Begun(Now, line)
    BY <2>1, <2>2, NowFields, NowNext DEF Begun, ToolBegun, ToolSid
  <2> QED
    BY <2>1, <2>2, <2>3
<1>6. ASSUME NEW id \in Nat, SessionClose(id)
      PROVE  \E line \in Line : Begin(line) /\ Now' = Begun(Now, line)
  <2> DEFINE line == [op |-> "close", id |-> id]
             x == SessionOf(sessions, id)
  <2>1. line \in Line /\ line.op = "close" /\ line.id = id
    BY DEF Line
  <2>2. /\ Begin(line) /\ conf' = conf
        /\ job' = IF x.sid = None \/ servers[x.server] = None THEN EndJob(line, Silent)
                  ELSE CallJob(line, servers[x.server].url, x.sid)
        /\ servers' = servers /\ sessions' = Dropped(sessions, id) /\ next_session' = next_session
    BY <1>6 DEF SessionClose, CloseSession, Asking, Ending, CallJob, EndJob
  <2> HIDE DEF line
  <2>3. Now' = Begun(Now, line)
    BY <2>1, <2>2, NowFields, NowNext DEF Begun, CloseBegun
  <2> QED
    BY <2>1, <2>2, <2>3
<1>7. OpenIds(sessions) \subseteq Nat
  <2>1. ASSUME NEW i \in DOMAIN sessions PROVE sessions[i].id \in Nat
    <3>1. sessions[i] \in McpSession
      BY DEF TypeOK
    <3> QED
      BY <3>1 DEF McpSession
  <2> QED
    BY <2>1 DEF OpenIds
<1>8. CASE \E line \in Line : Begin(line) /\ Now' = Begun(Now, line)
  BY <1>8, BeginComes
<1>9. CASE \E line \in Attempts : Refuse(line)
  BY <1>9, RefuseComes, AttemptsAreLines DEF TypeOK
<1> QED
  BY <1>1, <1>2, <1>3, <1>4, <1>5, <1>6, <1>7, <1>8, <1>9 DEF Request, NoId

LEMMA CallAnswers ==
    ASSUME TypeOK, Call
    PROVE  \E a : /\ a \in IF Live THEN Answers ELSE {oplog[cursor + 1]} \cap Answer
                  /\ Take(a) /\ Reached(a) /\ Now' = Answered(Now, a)
<1>1. PICK a \in IF Live THEN Answers ELSE {oplog[cursor + 1]} \cap Answer :
         /\ Take(a)
         /\ Reached(a)
         /\ \/ job.line.op \in {"add", "reload"} /\ Installed(job.line.server, a)
            \/ job.line.op = "open" /\ Opened(job.line.server, a) /\ UNCHANGED conf
            \/ job.line.op \in {"close", "tool"} /\ UNCHANGED <<mcp, conf>>
         /\ Ending(job.line, a)
  BY DEF Call
<1>2. job' = EndJob(job.line, a)
  BY <1>1 DEF Ending, EndJob
<1>3. CASE job.line.op \in {"add", "reload"}
  BY <1>1, <1>2, <1>3, NowFields, NowNext DEF Installed, SetServer, Answered, InstallAnswered
<1>4. CASE job.line.op = "open" /\ a.ok
  BY <1>1, <1>2, <1>4, NowFields, NowNext
  DEF Opened, OpenSession, Answered, OpenAnswered, NewSession
<1>5. CASE job.line.op \in {"close", "tool"} \/ (job.line.op = "open" /\ ~a.ok)
  <2>1. conf' = conf /\ servers' = servers /\ sessions' = sessions /\ next_session' = next_session
    BY <1>1, <1>5 DEF Opened, mcp
  <2> QED
    BY <1>1, <1>2, <1>5, <2>1, NowFields, NowNext DEF Answered, PlainAnswered
<1> QED
  BY <1>1, <1>3, <1>4, <1>5

-----------------------------------------------------------------------------
(* On the agent: a run over the oplog goes on with every line and answer.  *)
IssuedGrows == \A url \in Urls : issued[url] \in Nat /\ issued'[url] \in Nat /\ issued[url] =< issued'[url]

LEMMA IssuedStays ==
    ASSUME IssuedGrows, NEW sid, WasIssued(issued, sid)
    PROVE  WasIssued(issued', sid)
<1> SUFFICES ASSUME sid \in Sid PROVE sid.n =< issued'[sid.at]
  BY DEF WasIssued
<1>1. sid.at \in Urls /\ sid.n \in Nat
  BY DEF Sid
<1>2. sid.n =< issued[sid.at]
  BY DEF WasIssued
<1> QED
  BY <1>1, <1>2 DEF IssuedGrows

LEMMA RecordedStays ==
    ASSUME IssuedGrows, NEW r, NEW e, NEW x, Recorded(issued, r, e, x)
    PROVE  Recorded(issued', r, e, x)
BY IssuedStays DEF Recorded

(* What a line was recorded for is still there.                            *)
LEMMA AcceptedAgain ==
    ASSUME TypeOK, NEW r, Matches(Now, r), NEW line \in Line, Firm(r, line)
    PROVE  Accepts(line)
<1>1. Known(servers, r.servers) /\ Known(conf, r.conf) /\ sessions = r.sessions
  BY NowFields DEF Matches
<1>0. Accepted(r, line) /\ (line.op = "remove" => r.conf[line.server] # Torn)
  BY DEF Firm
<1>2. CASE line.op = "close"
  BY <1>0, <1>1, <1>2 DEF Accepted, Accepts
<1>3. CASE line.op = "add"
  BY <1>3 DEF Accepts
<1>4. CASE line.op = "reload"
  BY <1>0, <1>1, <1>4, LineFields, Constants DEF Accepted, Accepts, Known
<1>5. CASE line.op = "remove"
  BY <1>0, <1>1, <1>5, LineFields, Constants DEF Accepted, Accepts, Known
<1>6. CASE line.op = "open"
  BY <1>0, <1>1, <1>6, LineFields, Constants DEF Accepted, Accepts, Known
<1>7. CASE line.op = "tool"
  BY <1>0, <1>1, <1>7, LineFields, Constants DEF Accepted, Accepts, Known
<1> QED
  BY <1>2, <1>3, <1>4, <1>5, <1>6, <1>7, LineFields DEF Ops

(* Where the whole oplog has been heard, it speaks of what a line names.   *)
LEMMA LiveAccepted ==
    ASSUME NEW r, Near(Now, r), NEW line \in Line, Accepted(Now, line),
           \A s \in Servers : /\ conf[s] # None => r.conf[s] # Torn
                              /\ servers[s] # None => r.servers[s] # Torn
    PROVE  Firm(r, line)
<1> SUFFICES Accepted(r, line) /\ (line.op = "remove" => r.conf[line.server] # Torn)
  BY DEF Firm
<1>1. /\ Known(servers, r.servers) /\ Known(conf, r.conf) /\ sessions = r.sessions
  BY NowFields DEF Near
<1>2. \A s \in Servers :
        /\ conf[s] # None => conf[s] = r.conf[s] /\ r.conf[s] # Torn
        /\ servers[s] # None => servers[s] = r.servers[s] /\ r.servers[s] # Torn
  BY <1>1 DEF Known
<1>3. CASE line.op = "close" \/ line.op = "add"
  BY <1>1, <1>3, NowFields DEF Accepted
<1>4. CASE line.op # "close"
  <2>1. line.server \in Servers
    BY <1>4, LineFields
  <2>2. CASE line.op \in {"reload", "remove"}
    BY <1>2, <2>1, <2>2, NowFields, Constants DEF Accepted
  <2>3. CASE line.op \in {"open", "tool"}
    BY <1>1, <1>2, <2>1, <2>3, NowFields, Constants DEF Accepted
  <2> QED
    BY <1>3, <1>4, <2>2, <2>3, LineFields DEF Ops
<1> QED
  BY <1>3, <1>4

(* What a line makes of the memory goes with what it makes of the run, but *)
(* for a line that was refused at first and now asks for an answer.        *)
Parts(m2, r2) == Near(m2, r2) /\ m2.job.pc = "call" /\ r2.job.pc = "end"

LEMMA LineGoesOn ==
    ASSUME TypeOK, Sound(Now), job = Idle,
           NEW r, Sound(r), Speaks(r), Matches(Now, r), r.job.pc # "call",
           NEW e \in Line, NEW y \in BOOLEAN, y <=> ~Accepts(e),
           NEW x \in BOOLEAN, IF x THEN ~Firm(r, e) ELSE Firm(r, e)
    PROVE  /\ Says(Now, r, After(Now, e, y), After(r, e, x))
           /\ After(Now, e, y).job # Idle
           /\ Sound(After(Now, e, y)) /\ Sound(After(r, e, x))
           /\ \/ Matches(After(Now, e, y), After(r, e, x))
              \/ /\ x /\ After(r, e, x) = Turned(r, e) /\ Accepted(Now, e)
                 /\ Parts(After(Now, e, y), After(r, e, x))
<1>1. After(Now, e, y) = IF y THEN Turned(Now, e) ELSE Begun(Now, e)
  BY NowFields, JobTypes DEF After
<1>2. After(r, e, x) = IF x THEN Turned(r, e) ELSE Begun(r, e)
  BY DEF After
<1>3. ~y => Accepted(Now, e)
  BY AcceptsLine
<1>4. Firm(r, e) => Accepted(r, e) /\ ~y
  BY AcceptedAgain DEF Firm
<1>5. CASE ~x
  BY <1>1, <1>2, <1>3, <1>4, <1>5, BegunMatches, BegunSound
<1>6. CASE x /\ y
  BY <1>1, <1>2, <1>6, TurnedMatches, TurnedSound
<1>7. CASE x /\ ~y
  <2>1. Accepted(Now, e) /\ ~Firm(r, e)
    BY <1>3, <1>7
  <2>2. Sound(Begun(Now, e)) /\ Sound(Turned(r, e))
    BY <2>1, BegunSound, TurnedSound
  <2>3. CASE e.op = "remove"
    BY <1>1, <1>2, <1>7, <2>1, <2>2, <2>3, RemovedLate
  <2>4. CASE e.op \in {"reload", "open", "tool"}
    <3>1. /\ Parts(Begun(Now, e), Turned(r, e)) /\ Says(Now, r, Begun(Now, e), Turned(r, e))
      BY <2>4, AskedLate DEF Parts
    <3>2. Begun(Now, e).job # Idle
      BY <3>1, JobTypes DEF Parts
    <3> QED
      BY <1>1, <1>2, <1>7, <2>1, <2>2, <3>1, <3>2
  <2>5. CASE e.op = "add"
    BY <2>1, <2>5 DEF Firm, Accepted
  <2>6. CASE e.op = "close"
    <3>1. sessions = r.sessions
      BY NowFields DEF Matches
    <3> QED
      BY <2>1, <2>6, <3>1, NowFields DEF Firm, Accepted
  <2> QED
    BY <2>3, <2>4, <2>5, <2>6, LineFields DEF Ops
<1> QED
  BY <1>5, <1>6, <1>7

(* The entry that a step takes is one that the run goes through.           *)
Entered(e, y) ==
    /\ e \in Line \cup Answer
    /\ IF job.pc = "call" THEN ~y /\ AnswersCall(Now, e) /\ WasIssued(issued', e.sid)
       ELSE job = Idle /\ e \in Line /\ (y <=> ~Accepts(e))

SameHost == /\ host' = host /\ built' = built /\ told' = told /\ kept' = kept

LEMMA LongerRun ==
    ASSUME oplog \in Seq(Line \cup Answer), NEW run, IsRun(run), refusals \subseteq 1..Len(oplog),
           NEW e \in Line \cup Answer, oplog' = Append(oplog, e), IssuedGrows,
           NEW x \in BOOLEAN,
           refusals' = IF x THEN refusals \cup {Len(oplog) + 1} ELSE refusals,
           NEW r, r = run[Len(oplog)], Recorded(issued', r, e, x),
           Sound(After(r, e, x)), Speaks(After(r, e, x))
    PROVE  \E longer : /\ IsRun(longer)'
                       /\ \A c \in 0..Len(oplog) : longer[c] = run[c]
                       /\ longer[Len(oplog) + 1] = After(r, e, x)
<1>1. PICK L \in Nat : L = Len(oplog)
  OBVIOUS
<1>2. PICK longer : longer = [c \in 0..(L + 1) |-> IF c = L + 1 THEN After(r, e, x) ELSE run[c]]
  OBVIOUS
<1>3. Len(oplog') = L + 1 /\ oplog'[L + 1] = e /\ \A c \in 1..L : oplog'[c] = oplog[c]
  BY <1>1
<1>4. /\ \A c \in 0..L : longer[c] = run[c]
      /\ longer[L + 1] = After(r, e, x) /\ longer = [c \in 0..(L + 1) |-> longer[c]]
  BY <1>2
<1>5. longer[0] = Fresh /\ \A c \in 0..(L + 1) : Sound(longer[c]) /\ Speaks(longer[c])
  <2>1. 0 \in 0..L /\ \A c \in 0..(L + 1) : c = L + 1 \/ c \in 0..L
    OBVIOUS
  <2> QED
    BY <1>1, <1>4, <2>1 DEF IsRun
<1>6. /\ L + 1 \in refusals' <=> x
      /\ \A c \in 1..L : c \in refusals' <=> c \in refusals
  BY <1>1
<1>7. ASSUME NEW c \in 0..L
      PROVE  /\ Recorded(issued', longer[c], oplog'[c + 1], c + 1 \in refusals')
             /\ longer[c + 1] = After(longer[c], oplog'[c + 1], c + 1 \in refusals')
  <2>1. CASE c = L
    <3>1. L + 1 \in refusals' <=> x
      BY <1>6
    <3>2. Recorded(issued', r, e, L + 1 \in refusals') /\ After(r, e, L + 1 \in refusals') = After(r, e, x)
      BY <3>1 DEF Recorded, After
    <3> QED
      BY <1>1, <1>3, <1>4, <2>1, <3>2
  <2>2. CASE c # L
    <3>1. c \in 0..(L - 1) /\ c \in 0..L /\ c + 1 \in 0..L /\ c + 1 \in 1..L
      BY <2>2
    <3>2. longer[c] = run[c] /\ longer[c + 1] = run[c + 1] /\ oplog'[c + 1] = oplog[c + 1]
      BY <1>3, <1>4, <3>1
    <3>3. PICK z \in BOOLEAN : z <=> c + 1 \in refusals
      OBVIOUS
    <3>4. Recorded(issued, run[c], oplog[c + 1], z) /\ run[c + 1] = After(run[c], oplog[c + 1], z)
      <4>1. /\ Recorded(issued, run[c], oplog[c + 1], c + 1 \in refusals)
            /\ run[c + 1] = After(run[c], oplog[c + 1], c + 1 \in refusals)
        BY <1>1, <3>1 DEF IsRun
      <4> QED
        BY <3>3, <4>1 DEF Recorded, After
    <3>5. z <=> c + 1 \in refusals'
      BY <1>6, <3>1, <3>3
    <3>6. Recorded(issued', run[c], oplog[c + 1], z)
      BY <3>4, RecordedStays
    <3>7. /\ Recorded(issued', run[c], oplog[c + 1], c + 1 \in refusals')
          /\ run[c + 1] = After(run[c], oplog[c + 1], c + 1 \in refusals')
      BY <3>4, <3>5, <3>6 DEF Recorded, After
    <3> QED
      BY <3>2, <3>7
  <2> QED
    BY <2>1, <2>2
<1>8. IsRun(longer)'
  <2>1. Fresh' = Fresh
    BY DEF Fresh, Snap, Idle
  <2>2. 0..Len(oplog') = 0..(L + 1) /\ 0..(Len(oplog') - 1) = 0..L
    BY <1>3
  <2>3. longer = [c \in 0..Len(oplog') |-> longer[c]]
    BY <1>4, <2>2
  <2> QED
    BY <1>5, <1>7, <2>1, <2>2, <2>3, Zenon DEF IsRun
<1> QED
  BY <1>1, <1>4, <1>8

LEMMA OplogGrows ==
    ASSUME OnGolem, TypeOK, oplog \in Seq(Line \cup Answer), NEW e \in Line \cup Answer, Take(e)
    PROVE  /\ oplog' \in Seq(Line \cup Answer) /\ cursor' = cursor + 1
           /\ Len(oplog) \in Nat /\ cursor \in 0..Len(oplog) /\ cursor' \in 0..Len(oplog')
           /\ Live => oplog' = Append(oplog, e) /\ Len(oplog') = Len(oplog) + 1
           /\ ~Live => oplog' = oplog /\ oplog[cursor + 1] = e /\ cursor + 1 =< Len(oplog)
<1>1. cursor \in 0..Len(oplog) /\ Len(oplog) \in Nat
  BY DEF TypeOK
<1>2. CASE Live
  <2>1. oplog' = Append(oplog, e) /\ cursor' = cursor + 1
    BY <1>2 DEF Take
  <2>2. oplog' \in Seq(Line \cup Answer) /\ Len(oplog') = Len(oplog) + 1
    BY <2>1
  <2> QED
    BY <1>1, <1>2, <2>1, <2>2 DEF Live
<1>3. CASE ~Live
  <2>1. oplog' = oplog /\ cursor' = cursor + 1 /\ oplog[cursor + 1] = e
    BY <1>3 DEF Take
  <2> QED
    BY <1>1, <1>3, <2>1 DEF Live
<1> QED
  BY <1>2, <1>3

(* The new run is the old one with at most one value more.                 *)
Extends(run, run2, e, x) ==
    /\ IsRun(run2)'
    /\ \A c \in 0..Len(oplog) : run2[c] = run[c]
    /\ run2[cursor'] = After(run[cursor], e, x)
    /\ cursor' \in 0..Len(oplog') /\ cursor \in 0..Len(oplog) /\ cursor' = cursor + 1
    /\ \/ Len(oplog') = Len(oplog) /\ ~Live
       \/ Len(oplog') = Len(oplog) + 1 /\ Live

LEMMA RunNow ==
    ASSUME NEW run, IsRun(run), Len(oplog) \in Nat, cursor \in 0..Len(oplog), ~Live,
           NEW x \in BOOLEAN, Noted(x), NEW e, e = oplog[cursor + 1]
    PROVE  /\ Recorded(issued, run[cursor], e, x)
           /\ run[cursor + 1] = After(run[cursor], e, x)
<1>1. cursor \in 0..(Len(oplog) - 1)
  BY DEF Live
<1>2. /\ Recorded(issued, run[cursor], e, cursor + 1 \in refusals)
      /\ run[cursor + 1] = After(run[cursor], e, cursor + 1 \in refusals)
  BY <1>1 DEF IsRun
<1> QED
  BY <1>2 DEF Noted, Recorded, After

(* Where an answer is recorded, the run asks for one.                      *)
LEMMA OnCourse ==
    ASSUME OnGolem, built, Len(oplog) \in Nat, cursor \in 0..Len(oplog), NEW run, GolemInv(run),
           job.pc = "call" /\ ~Live => oplog[cursor + 1] \in Answer
    PROVE  Matches(Now, run[cursor])
<1> SUFFICES ASSUME Astray(run[cursor]) PROVE FALSE
  BY DEF GolemInv
<1>1. cursor \in 0..(Len(oplog) - 1) /\ oplog[cursor + 1] \in Answer /\ run[cursor].job.pc = "end"
  BY DEF Astray, Live
<1>2. Recorded(issued, run[cursor], oplog[cursor + 1], cursor + 1 \in refusals)
  BY <1>1 DEF GolemInv, IsRun
<1>3. oplog[cursor + 1] \in Line
  BY <1>1, <1>2 DEF Recorded
<1>4. \A line \in Line : line \notin Answer
  BY DEF Line, Answer
<1> QED
  BY <1>1, <1>3, <1>4

(* The last line that the oplog has is refused again.                      *)
LEMMA LastIsRefused ==
    ASSUME OnGolem, Len(oplog) \in Nat, cursor \in 0..Len(oplog), ~Live,
           NEW run, GolemInv(run), NEW r, r = run[cursor], Near(Now, r),
           NEW e \in Line, run[cursor + 1] = Turned(r, e), Accepted(Now, e), ~Firm(r, e)
    PROVE  cursor + 1 # Len(oplog)
<1> SUFFICES ASSUME cursor + 1 = Len(oplog) PROVE FALSE
  OBVIOUS
<1>1. run[Len(oplog)].conf = r.conf /\ run[Len(oplog)].servers = r.servers
  BY SnapFields DEF Turned
<1>2. \A s \in Servers : /\ conf[s] # None => r.conf[s] # Torn
                         /\ servers[s] # None => r.servers[s] # Torn
  BY <1>1 DEF GolemInv, Spoken
<1> QED
  BY <1>2, LiveAccepted

LEMMA RunExtends ==
    ASSUME OnGolem, built, TypeOK, oplog \in Seq(Line \cup Answer), Sound(Now),
           NEW run, GolemInv(run), NEW e, NEW y \in BOOLEAN, Entered(e, y), Take(e), IssuedGrows,
           NEW x \in BOOLEAN, Noted(x), Live => (x <=> y)
    PROVE  /\ Recorded(issued', run[cursor], e, x)
           /\ Says(Now, run[cursor], After(Now, e, y), After(run[cursor], e, x))
           /\ After(Now, e, y).job # Idle
           /\ \/ Matches(After(Now, e, y), After(run[cursor], e, x))
              \/ /\ x /\ cursor' # Len(oplog')
                 /\ Parts(After(Now, e, y), After(run[cursor], e, x))
           /\ job = Idle \/ (job.pc = "call" /\ run[cursor].job.pc = "call")
           /\ \E run2 : Extends(run, run2, e, x)
<1>1. PICK r : r = run[cursor]
  OBVIOUS
<1>2. e \in Line \cup Answer
  BY DEF Entered
<1>3. /\ oplog' \in Seq(Line \cup Answer) /\ cursor' = cursor + 1
      /\ Len(oplog) \in Nat /\ cursor \in 0..Len(oplog) /\ cursor' \in 0..Len(oplog')
      /\ Live => oplog' = Append(oplog, e) /\ Len(oplog') = Len(oplog) + 1
      /\ ~Live => oplog' = oplog /\ oplog[cursor + 1] = e /\ cursor + 1 =< Len(oplog)
  BY <1>2, OplogGrows
<1>4. IsRun(run) /\ Sound(r) /\ Speaks(r) /\ Matches(Now, r)
  <2>1. job.pc = "call" /\ ~Live => oplog[cursor + 1] \in Answer
    BY <1>3 DEF Entered, AnswersCall
  <2>2. Matches(Now, r)
    BY <1>1, <1>3, <2>1, OnCourse
  <2> QED
    BY <1>1, <1>3, <2>2 DEF GolemInv, IsRun
<1>5. /\ Now.job = job
      /\ job.pc = "call" => r.job.pc = "call" /\ job = r.job
      /\ job = Idle => r.job.pc # "call"
  BY <1>4, NowFields, JobTypes DEF Matches
<1>6. ~Live => Recorded(issued, r, e, x) /\ run[cursor + 1] = After(r, e, x)
  BY <1>1, <1>3, <1>4, RunNow
<1>7. /\ Recorded(issued', r, e, x)
      /\ Says(Now, r, After(Now, e, y), After(r, e, x))
      /\ After(Now, e, y).job # Idle /\ Sound(After(r, e, x))
      /\ \/ Matches(After(Now, e, y), After(r, e, x))
         \/ x /\ cursor' # Len(oplog') /\ Parts(After(Now, e, y), After(r, e, x))
  <2>1. CASE job.pc = "call"
    <3>1. ~y /\ AnswersCall(Now, e) /\ WasIssued(issued', e.sid)
      BY <2>1 DEF Entered
    <3>2. AnswersCall(r, e)
      BY <1>5, <2>1, <3>1 DEF AnswersCall
    <3>3. After(Now, e, y) = Answered(Now, e) /\ After(r, e, x) = Answered(r, e)
      BY <1>5, <2>1 DEF After
    <3>4. ~x
      BY <1>5, <1>6, <2>1, <3>1 DEF Recorded
    <3>5. Recorded(issued', r, e, x)
      BY <1>5, <2>1, <3>1, <3>2, <3>4 DEF Recorded
    <3> QED
      BY <1>4, <1>5, <2>1, <3>1, <3>2, <3>3, <3>5, AnsweredMatches, AnsweredSound
  <2>2. CASE job.pc # "call"
    <3>1. job = Idle /\ e \in Line /\ (y <=> ~Accepts(e))
      BY <2>2 DEF Entered
    <3>2. r.job.pc # "call"
      BY <1>5, <3>1
    <3>3. IF x THEN ~Firm(r, e) ELSE Firm(r, e)
      <4>1. CASE Live
        <5>1. y => ~Firm(r, e)
          BY <1>4, <3>1, AcceptedAgain
        <5>2. ~y => Firm(r, e)
          <6>1. Near(Now, r)
            BY <1>4 DEF Matches, Near
          <6>2. \A s \in Servers : /\ conf[s] # None => r.conf[s] # Torn
                                   /\ servers[s] # None => r.servers[s] # Torn
            BY <1>1, <4>1 DEF GolemInv, Spoken, Live
          <6> QED
            BY <3>1, <6>1, <6>2, LiveAccepted, AcceptsLine
        <5> QED
          BY <4>1, <5>1, <5>2
      <4>2. CASE ~Live
        BY <1>6, <3>2, <4>2 DEF Recorded
      <4> QED
        BY <4>1, <4>2
    <3>4. Recorded(issued', r, e, x)
      BY <3>1, <3>2, <3>3 DEF Recorded
    <3>5. /\ Says(Now, r, After(Now, e, y), After(r, e, x))
          /\ After(Now, e, y).job # Idle /\ Sound(After(r, e, x))
          /\ \/ Matches(After(Now, e, y), After(r, e, x))
             \/ /\ x /\ After(r, e, x) = Turned(r, e) /\ Accepted(Now, e)
                /\ Parts(After(Now, e, y), After(r, e, x))
      BY <1>4, <3>1, <3>2, <3>3, LineGoesOn
    <3>6. ASSUME x, After(r, e, x) = Turned(r, e), Accepted(Now, e) PROVE cursor' # Len(oplog')
      <4>1. Near(Now, r) /\ ~Firm(r, e)
        BY <1>4, <3>3, <3>6 DEF Matches, Near
      <4>2. CASE Live
        <5>1. y
          BY <3>6, <4>2
        <5>2. \A s \in Servers : /\ conf[s] # None => r.conf[s] # Torn
                                 /\ servers[s] # None => r.servers[s] # Torn
          BY <1>1, <4>2 DEF GolemInv, Spoken, Live
        <5> QED
          BY <3>1, <3>6, <4>1, <5>2, LiveAccepted
      <4>3. CASE ~Live
        <5>1. run[cursor + 1] = Turned(r, e)
          BY <1>6, <3>6, <4>3
        <5>2. cursor + 1 # Len(oplog)
          BY <1>1, <1>3, <3>1, <3>6, <4>1, <4>3, <5>1, LastIsRefused
        <5> QED
          BY <1>3, <4>3, <5>2
      <4> QED
        BY <4>2, <4>3
    <3> QED
      BY <3>4, <3>5, <3>6
  <2> QED
    BY <2>1, <2>2
<1>8. \E run2 : Extends(run, run2, e, x)
  <2>1. CASE Live
    <3>1. r = run[Len(oplog)]
      BY <1>1, <2>1 DEF Live
    <3>2. Speaks(After(r, e, x))
      BY <1>4, <1>7, AfterSpeaks DEF Recorded
    <3>3. /\ refusals' = IF x THEN refusals \cup {Len(oplog) + 1} ELSE refusals
          /\ refusals \subseteq 1..Len(oplog)
      BY <2>1 DEF Noted, Live, GolemInv
    <3>4. PICK longer : /\ IsRun(longer)'
                        /\ \A c \in 0..Len(oplog) : longer[c] = run[c]
                        /\ longer[Len(oplog) + 1] = After(r, e, x)
      BY <1>2, <1>3, <1>4, <1>7, <2>1, <3>1, <3>2, <3>3, LongerRun
    <3>5. longer[cursor'] = After(run[cursor], e, x)
      BY <1>1, <1>3, <2>1, <3>4 DEF Live
    <3> QED
      BY <1>3, <2>1, <3>4, <3>5 DEF Extends
  <2>2. CASE ~Live
    <3>1. refusals' = refusals
      BY <2>2 DEF Noted
    <3>2. run[cursor'] = After(run[cursor], e, x)
      BY <1>1, <1>3, <1>6, <2>2
    <3>3. IsRun(run)'
      <4>1. Fresh' = Fresh
        BY DEF Fresh, Snap, Idle
      <4>2. \A c \in 0..(Len(oplog) - 1) : Recorded(issued', run[c], oplog[c + 1], c + 1 \in refusals)
        BY <1>4, RecordedStays DEF IsRun
      <4> QED
        BY <1>3, <1>4, <2>2, <3>1, <4>1, <4>2, Zenon DEF IsRun
    <3> QED
      BY <1>3, <2>2, <3>2, <3>3 DEF Extends
  <2> QED
    BY <2>1, <2>2
<1>9. job = Idle \/ (job.pc = "call" /\ r.job.pc = "call")
  BY <1>5 DEF Entered
<1> QED
  BY <1>1, <1>7, <1>8, <1>9

(* A step opens one session at most, with the next id.                     *)
LEMMA AfterRows ==
    ASSUME NEW r, Sound(r), NEW e, NEW x \in BOOLEAN,
           IF r.job.pc = "call" THEN AnswersCall(r, e) ELSE e \in Line
    PROVE  /\ After(r, e, x).next = r.next \/ After(r, e, x).next = r.next + 1
           /\ \A row \in Rows(After(r, e, x).sessions) :
                \/ row \in Rows(r.sessions)
                \/ /\ row.id = r.next + 1 /\ After(r, e, x).next = r.next + 1
                   /\ row.sid = e.sid /\ r.job.pc = "call"
<1>1. r.sessions \in Seq(McpSession)
  BY DEF Sound, IsSnap
<1>2. CASE r.job.pc = "call"
  <2>1. After(r, e, x) = Answered(r, e)
    BY <1>2 DEF After
  <2>2. CASE r.job.line.op \in {"add", "reload"}
    <3>1. /\ Answered(r, e).sessions = Without(r.sessions, r.job.line.server)
          /\ Answered(r, e).next = r.next
      BY <2>2, SnapFields DEF Answered, InstallAnswered
    <3> QED
      BY <1>1, <2>1, <3>1, WithoutRows
  <2>3. CASE r.job.line.op = "open" /\ e.ok
    <3> DEFINE new == NewSession(r, e)
               q == Append(Room(r.sessions), new)
    <3>1. /\ Answered(r, e).sessions = q /\ Answered(r, e).next = r.next + 1
      <4>1. Answered(r, e) = OpenAnswered(r, e)
        BY <2>3 DEF Answered
      <4> HIDE DEF q, new
      <4>2. OpenAnswered(r, e) = Snap(r.servers, q, r.next + 1, r.conf, EndJob(r.job.line, e))
        BY DEF OpenAnswered, q, new
      <4> QED
        BY <4>1, <4>2, SnapFields
    <3>2. Len(r.sessions) =< MaxSessions /\ Ordered(r.sessions) /\ r.next \in Nat
      BY DEF Sound, TableSound, IsSnap
    <3>3. new.id = r.next + 1 /\ new \in McpSession /\ new.sid = e.sid
      <4>1. r.job.line \in Line /\ e \in Answer
        BY <1>2, JobTypes DEF Sound, IsSnap, AnswersCall
      <4>2. r.job.line.server \in Servers /\ e.sid \in Sid \cup {None}
        BY <2>3, <4>1, LineFields DEF Answer
      <4> QED
        BY <3>2, <4>2 DEF NewSession, McpSession
    <3>4. \A y \in Rows(r.sessions) : y.id < new.id
      <4>1. \A y \in Rows(r.sessions) : y.id \in Nat /\ y.id =< r.next
        BY <1>1, RowTypes DEF Sound, TableSound, McpSession
      <4> QED
        BY <3>2, <3>3, <4>1
    <3> HIDE DEF new
    <3>5. Rows(q) \subseteq Rows(r.sessions) \cup {new}
      BY <1>1, <3>2, <3>3, <3>4, RoomRows
    <3> QED
      BY <1>2, <2>1, <3>1, <3>3, <3>5
  <2>4. CASE r.job.line.op \notin {"add", "reload"} /\ ~(r.job.line.op = "open" /\ e.ok)
    BY <2>1, <2>4, SnapFields DEF Answered, PlainAnswered
  <2> QED
    BY <2>2, <2>3, <2>4
<1>3. CASE r.job.pc # "call" /\ ~x
  <2>1. After(r, e, x) = Begun(r, e) /\ e \in Line
    BY <1>3 DEF After
  <2>2. CASE e.op = "remove"
    <3>1. Begun(r, e).sessions = Without(r.sessions, e.server) /\ Begun(r, e).next = r.next
      BY <2>2, SnapFields DEF Begun, RemoveBegun
    <3> QED
      BY <1>1, <2>1, <3>1, WithoutRows
  <2>3. CASE e.op = "close"
    <3>1. Begun(r, e).sessions = Dropped(r.sessions, e.id) /\ Begun(r, e).next = r.next
      BY <2>3, SnapFields DEF Begun, CloseBegun
    <3> QED
      BY <1>1, <2>1, <3>1, DroppedRows
  <2>4. CASE e.op = "add"
    BY <2>1, <2>4, SnapFields DEF Begun, AddBegun
  <2>5. CASE e.op = "reload"
    BY <2>1, <2>5, SnapFields DEF Begun, ReloadBegun
  <2>6. CASE e.op = "open"
    BY <2>1, <2>6, SnapFields DEF Begun, OpenBegun
  <2>7. CASE e.op = "tool"
    BY <2>1, <2>7, SnapFields DEF Begun, ToolBegun
  <2> QED
    BY <2>1, <2>2, <2>3, <2>4, <2>5, <2>6, <2>7, LineFields DEF Ops
<1>4. CASE r.job.pc # "call" /\ x
  BY <1>4, SnapFields DEF After, Turned
<1> QED
  BY <1>2, <1>3, <1>4

LEMMA SpokenGoesOn ==
    ASSUME NEW run, Spoken(run), NEW run2, NEW e, NEW x \in BOOLEAN, Extends(run, run2, e, x), Len(oplog) \in Nat,
           NEW r, r = run[cursor], NEW r2, r2 = After(r, e, x), Says(Now, r, Now', r2)
    PROVE  Spoken(run2)'
<1> SUFFICES ASSUME NEW s \in Servers
             PROVE  /\ \A c \in 0..Len(oplog') :
                         /\ run2[c].conf[s] # Torn => run2[Len(oplog')].conf[s] # Torn
                         /\ run2[c].servers[s] # Torn => run2[Len(oplog')].servers[s] # Torn
                    /\ conf'[s] # None => run2[Len(oplog')].conf[s] # Torn
                    /\ servers'[s] # None \/ (conf'[s] \in Entry /\ conf'[s].installed) =>
                         run2[Len(oplog')].servers[s] # Torn
  BY Zenon DEF Spoken
<1>1. /\ run2[cursor'] = r2 /\ cursor' \in 0..Len(oplog') /\ Len(oplog') \in Nat
      /\ \A c \in 0..Len(oplog) : run2[c] = run[c]
      /\ Len(oplog) \in 0..Len(oplog')
      /\ \/ Len(oplog') = Len(oplog)
         \/ Len(oplog') = cursor' /\ cursor = Len(oplog) /\ Len(oplog') = Len(oplog) + 1
  BY DEF Extends, Live
<1>2. /\ r.conf[s] # Torn => r2.conf[s] # Torn
      /\ r.servers[s] # Torn => r2.servers[s] # Torn
      /\ r2.conf[s] # Torn \/ conf'[s] \in {conf[s], None}
      /\ r2.servers[s] # Torn \/ /\ servers'[s] \in {servers[s], None}
                                 /\ conf'[s] \in {conf[s], None} \/ ~conf'[s].installed
  <2>1. Now'.conf = conf' /\ Now'.servers = servers'
    BY NowNext, SnapFields
  <2> QED
    BY <2>1, NowFields DEF Says
<1>3. /\ \A c \in 0..Len(oplog) :
           /\ run[c].conf[s] # Torn => run[Len(oplog)].conf[s] # Torn
           /\ run[c].servers[s] # Torn => run[Len(oplog)].servers[s] # Torn
      /\ conf[s] # None => run[Len(oplog)].conf[s] # Torn
      /\ servers[s] # None \/ (conf[s] \in Entry /\ conf[s].installed) =>
           run[Len(oplog)].servers[s] # Torn
  BY DEF Spoken
<1>4. ASSUME NEW c \in 0..Len(oplog')
      PROVE  /\ run2[c].conf[s] # Torn => run2[Len(oplog')].conf[s] # Torn
             /\ run2[c].servers[s] # Torn => run2[Len(oplog')].servers[s] # Torn
  <2>1. CASE Len(oplog') = Len(oplog)
    BY <1>1, <1>3, <2>1
  <2>2. CASE Len(oplog') = cursor' /\ cursor = Len(oplog) /\ Len(oplog') = Len(oplog) + 1
    <3>1. c = Len(oplog') \/ c \in 0..Len(oplog)
      BY <1>1, <2>2
    <3> QED
      BY <1>1, <1>2, <1>3, <2>2, <3>1
  <2> QED
    BY <1>1, <2>1, <2>2
<1>5. conf'[s] # None => run2[Len(oplog')].conf[s] # Torn
  BY <1>1, <1>2, <1>3, <1>4
<1>6. servers'[s] # None \/ (conf'[s] \in Entry /\ conf'[s].installed) =>
        run2[Len(oplog')].servers[s] # Torn
  BY <1>1, <1>2, <1>3, <1>4, Constants
<1> QED
  BY <1>4, <1>5, <1>6

LEMMA KeepingGoesOn ==
    ASSUME NEW run, Keeping(run), NEW run2, NEW e, NEW x \in BOOLEAN, Extends(run, run2, e, x), Len(oplog) \in Nat,
           built, job = Idle \/ (job.pc = "call" /\ run[cursor].job.pc = "call"),
           kept' = kept, job' # Idle
    PROVE  Keeping(run2)'
<1>1. /\ \A c \in 0..Len(oplog) : run2[c] = run[c]
      /\ \/ Len(oplog') = Len(oplog)
         \/ cursor = Len(oplog) /\ Len(oplog') = Len(oplog) + 1
  BY DEF Extends, Live
<1>2. /\ kept.at \in {-1} \cup 1..Len(oplog)
      /\ kept.at # -1 => kept.memory = MemoryOf(run[kept.at])
      /\ \A c \in 1..(Len(oplog) - 1) : kept.at < c => run[c].job.pc = "call"
      /\ job = Idle /\ cursor # 0 => cursor =< kept.at
  BY DEF Keeping
<1>3. kept.at \in {-1} \cup 1..Len(oplog')
  BY <1>1, <1>2
<1>4. kept.at # -1 => kept.memory = MemoryOf(run2[kept.at])
  BY <1>1, <1>2
<1>5. ASSUME NEW c \in 1..(Len(oplog') - 1), kept.at < c PROVE run2[c].job.pc = "call"
  <2>1. CASE c \in 1..(Len(oplog) - 1)
    BY <1>1, <1>2, <1>5, <2>1
  <2>2. CASE c \notin 1..(Len(oplog) - 1)
    <3>1. c = Len(oplog) /\ cursor = c /\ c # 0 /\ c \in 0..Len(oplog)
      BY <1>1, <2>2
    <3>2. job # Idle
      BY <1>2, <1>5, <3>1
    <3> QED
      BY <1>1, <3>1, <3>2
  <2> QED
    BY <2>1, <2>2
<1>6. MemoryOf(run2[kept.at])' = MemoryOf(run2[kept'.at])
  BY DEF MemoryOf
<1> QED
  BY <1>3, <1>4, <1>5, <1>6 DEF Keeping

LEMMA AgreedGoesOn ==
    ASSUME NEW run, IsRun(run), Agreed(run), told \subseteq McpSession, told' = told,
           NEW run2, NEW e, NEW refused \in BOOLEAN, Extends(run, run2, e, refused), Len(oplog) \in Nat,
           Recorded(issued', run[cursor], e, refused)
    PROVE  Agreed(run2)'
<1> DEFINE M == Mentioned(run)
           N == Mentioned(run2)'
<1>1. N = told \cup UNION {Rows(run2[c].sessions) : c \in 0..Len(oplog')}
  BY DEF Mentioned, Rows
<1>2. M = told \cup UNION {Rows(run[c].sessions) : c \in 0..Len(oplog)}
  BY DEF Mentioned
<1>3. /\ \A x, y \in M : x.id = y.id => x = y
      /\ \A x \in M : x.id =< run[Len(oplog)].next
  BY DEF Agreed
<1>4. M \subseteq McpSession /\ run[Len(oplog)].next \in Nat
  <2>1. \A c \in 0..Len(oplog) : run[c].sessions \in Seq(McpSession) /\ run[c].next \in Nat
    BY DEF IsRun, Sound, IsSnap
  <2>2. \A c \in 0..Len(oplog) : Rows(run[c].sessions) \subseteq McpSession
    BY <2>1, RowTypes
  <2> QED
    BY <1>2, <2>1, <2>2
<1>5. \A c \in 0..Len(oplog) : run2[c] = run[c]
  BY DEF Extends
<1> HIDE DEF M, N
<1>6. CASE Len(oplog') = Len(oplog)
  <2>1. N = M
    BY <1>1, <1>2, <1>5, <1>6
  <2>2. run2[Len(oplog')].next = run[Len(oplog)].next
    BY <1>5, <1>6
  <2> QED
    BY <1>3, <2>1, <2>2 DEF Agreed, N
<1>7. CASE Len(oplog') = Len(oplog) + 1 /\ cursor = Len(oplog)
  <2> DEFINE L == Len(oplog)
             r == run[L]
             r2 == run2[L + 1]
  <2>1. r2 = After(r, e, refused) /\ Sound(r)
    BY <1>7 DEF Extends, IsRun
  <2>2. Sound(r2)
    BY <1>7 DEF Extends, IsRun
  <2>3. /\ r2.next = r.next \/ r2.next = r.next + 1
        /\ \A x \in Rows(r2.sessions) :
             x \in Rows(r.sessions) \/ (x.id = r.next + 1 /\ r2.next = r.next + 1)
    <3>1. Recorded(issued', r, e, refused)
      BY <1>7
    <3> HIDE DEF r, r2
    <3> QED
      BY <2>1, <3>1, AfterRows DEF Recorded
  <2> HIDE DEF r, r2
  <2>4. N \subseteq M \cup Rows(r2.sessions) /\ Rows(r.sessions) \subseteq M
    <3>1. \A c \in 0..(L + 1) : c = L + 1 \/ c \in 0..L
      OBVIOUS
    <3>2. L \in 0..L
      OBVIOUS
    <3> QED
      BY <1>1, <1>2, <1>5, <1>7, <3>1, <3>2 DEF r, r2
  <2>5. ASSUME NEW x \in N
        PROVE  x \in M \/ (x \in Rows(r2.sessions) /\ x.id = r.next + 1 /\ r2.next = r.next + 1)
    BY <2>3, <2>4
  <2>6. \A x \in M : x.id \in Nat /\ x.id =< r.next
    BY <1>3, <1>4 DEF r, McpSession
  <2>7. r.next \in Nat
    BY <1>4 DEF r
  <2>8. \A x, y \in Rows(r2.sessions) : x.id = y.id => x = y
    BY <2>2, RowTypes DEF Sound, IsSnap, TableSound
  <2>9. \A x, y \in N : x.id = y.id => x = y
    <3> SUFFICES ASSUME NEW x \in N, NEW y \in N, x.id = y.id PROVE x = y
      OBVIOUS
    <3>1. CASE x \in M /\ y \in M
      BY <1>3, <3>1
    <3>2. CASE x \notin M /\ y \notin M
      BY <2>5, <2>8, <3>2
    <3>3. CASE x \in M /\ y \notin M
      <4>1. y.id = r.next + 1 /\ x.id =< r.next
        BY <2>5, <2>6, <3>3
      <4> QED
        BY <2>6, <2>7, <3>3, <4>1
    <3>4. CASE x \notin M /\ y \in M
      <4>1. x.id = r.next + 1 /\ y.id =< r.next
        BY <2>5, <2>6, <3>4
      <4> QED
        BY <2>6, <2>7, <3>4, <4>1
    <3> QED
      BY <3>1, <3>2, <3>3, <3>4
  <2>10. ASSUME NEW x \in N PROVE x.id =< run2[Len(oplog')].next
    <3>1. run2[Len(oplog')] = r2
      BY <1>7 DEF r2
    <3>2. CASE x \in M
      BY <2>3, <2>6, <2>7, <3>1, <3>2
    <3>3. CASE x \notin M
      BY <2>5, <2>7, <3>1, <3>3
    <3> QED
      BY <3>2, <3>3
  <2> QED
    BY <2>9, <2>10 DEF Agreed, N
<1> QED
  BY <1>6, <1>7 DEF Extends, Live

LEMMA RunGoesOn ==
    ASSUME OnGolem, built, TypeOK, oplog \in Seq(Line \cup Answer), Sound(Now),
           NEW run, GolemInv(run), NEW e, NEW y \in BOOLEAN, Entered(e, y), Take(e), IssuedGrows,
           SameHost, NEW x \in BOOLEAN, Noted(x), Live => (x <=> y), Now' = After(Now, e, y)
    PROVE  /\ oplog' \in Seq(Line \cup Answer) /\ cursor' \in 0..Len(oplog')
           /\ \E run2 : GolemInv(run2)'
<1>1. /\ Recorded(issued', run[cursor], e, x)
      /\ Says(Now, run[cursor], After(Now, e, y), After(run[cursor], e, x))
      /\ After(Now, e, y).job # Idle
      /\ \/ Matches(After(Now, e, y), After(run[cursor], e, x))
         \/ x /\ cursor' # Len(oplog') /\ Parts(After(Now, e, y), After(run[cursor], e, x))
      /\ job = Idle \/ (job.pc = "call" /\ run[cursor].job.pc = "call")
      /\ \E run2 : Extends(run, run2, e, x)
  BY RunExtends
<1>2. PICK run2 : Extends(run, run2, e, x)
  BY <1>1
<1>3. /\ oplog' \in Seq(Line \cup Answer) /\ Len(oplog) \in Nat /\ cursor \in 0..Len(oplog)
      /\ cursor' = cursor + 1 /\ Len(oplog') \in Nat
  BY OplogGrows DEF Entered
<1>4. IsRun(run2)' /\ run2[cursor'] = After(run[cursor], e, x) /\ cursor' \in 0..Len(oplog')
  BY <1>2 DEF Extends
<1>5. (Matches(Now, run2[cursor]) \/ Astray(run2[cursor]))'
  <2>1. CASE Matches(Now', run2[cursor'])
    BY <2>1 DEF Matches, Known
  <2>2. CASE x /\ cursor' # Len(oplog') /\ Parts(Now', run2[cursor'])
    <3>1. cursor' \in refusals'
      BY <1>3, <2>2 DEF Noted
    <3>2. job'.pc = "call" /\ run2[cursor'].job.pc = "end" /\ Near(Now', run2[cursor'])
      BY <2>2, NowNext, SnapFields DEF Parts
    <3> QED
      BY <2>2, <3>1, <3>2 DEF Astray, Live, Near, Known
  <2> QED
    BY <1>1, <1>4, <2>1, <2>2
<1>6. Spoken(run2)'
  BY <1>1, <1>2, <1>3, SpokenGoesOn DEF GolemInv
<1>7. job' # Idle
  <2>1. Now'.job = job'
    BY NowNext, SnapFields
  <2> QED
    BY <1>1, <2>1
<1>8. Keeping(run2)'
  BY <1>1, <1>2, <1>3, <1>7, KeepingGoesOn DEF GolemInv, SameHost
<1>9. Agreed(run2)'
  BY <1>1, <1>2, <1>3, AgreedGoesOn DEF GolemInv, SameHost, TypeOK
<1>10. (refusals \subseteq 1..Len(oplog))'
  <2>1. refusals \subseteq 1..Len(oplog) /\ refusals' \subseteq refusals \cup {cursor + 1}
    BY DEF GolemInv, Noted
  <2>2. Len(oplog) =< Len(oplog') /\ cursor + 1 \in 1..Len(oplog')
    BY <1>2, <1>3 DEF Extends
  <2> QED
    BY <1>3, <2>1, <2>2
<1> QED
  BY <1>3, <1>4, <1>5, <1>6, <1>8, <1>9, <1>10 DEF GolemInv

-----------------------------------------------------------------------------
(* The log keeps its type: a cut is within the file.                       *)
LogTypes == file \in Seq(Bytes) /\ buffer \in Seq(Bytes) /\ records \in Seq(Record)

LEMMA NewRecord ==
    ASSUME LogTypes, NEW len \in Nat \ {0}
    PROVE  [id |-> Len(records) + 1, len |-> len] \in Record
BY DEF LogTypes, Record

LEMMA EmitTypes ==
    ASSUME LogTypes, NEW len \in Nat \ {0}, Emit(len)
    PROVE  LogTypes'
<1>1. PICK r : r = [id |-> Len(records) + 1, len |-> len]
  OBVIOUS
<1>2. r \in Record /\ Text(r) \in Seq(Bytes)
  BY <1>1, NewRecord, TextFacts
<1>3. /\ records' = Append(records, r)
      /\ buffer' = IF OnGolem THEN BoundTail(buffer \o Text(r)) ELSE buffer
      /\ file' = IF OnGolem THEN buffer' ELSE Rotated(file \o Text(r))
  BY <1>1 DEF Emit
<1>4. buffer \o Text(r) \in Seq(Bytes) /\ file \o Text(r) \in Seq(Bytes)
  BY <1>2 DEF LogTypes
<1>5. BoundTail(buffer \o Text(r)) \in Seq(Bytes) /\ Rotated(file \o Text(r)) \in Seq(Bytes)
  BY <1>4, BoundTailType DEF Rotated
<1>6. records' \in Seq(Record)
  BY <1>2, <1>3 DEF LogTypes
<1> QED
  BY <1>3, <1>5, <1>6 DEF LogTypes

LEMMA CutOffTypes ==
    ASSUME LogTypes, NEW len \in Nat \ {0}, NEW f \in CutOff(len)
    PROVE  f \in Seq(Bytes)
<1>1. PICK r : r = [id |-> Len(records) + 1, len |-> len]
  OBVIOUS
<1>2. PICK text : text = Text(r)
  OBVIOUS
<1>3. text \in Seq(Bytes)
  BY <1>1, <1>2, NewRecord, TextFacts
<1>4. PICK whole : whole = IF OnGolem THEN BoundTail(buffer \o text) ELSE Rotated(file \o text)
  OBVIOUS
<1>5. whole \in Seq(Bytes)
  <2>1. buffer \o text \in Seq(Bytes) /\ file \o text \in Seq(Bytes)
    BY <1>3 DEF LogTypes
  <2> QED
    BY <1>4, <2>1, BoundTailType DEF Rotated
<1>6. f \in Cuts(whole) \/ \E t \in Cuts(text) : f = file \o t
  BY <1>1, <1>2, <1>4 DEF CutOff
<1>7. ASSUME NEW g \in Seq(Bytes), NEW b \in Cuts(g) PROVE b \in Seq(Bytes)
  <2>1. Len(g) \in Nat /\ \A n \in 0..Len(g) : SubSeq(g, 1, n) \in Seq(Bytes)
    OBVIOUS
  <2>2. <<Half>> \in Seq(Bytes)
    BY DEF Bytes
  <2>3. \/ \E n \in 0..Len(g) : b = SubSeq(g, 1, n)
        \/ \E n \in 1..(Len(g) - 1) : b = SubSeq(g, 1, n - 1) \o <<Half>>
    BY DEF Cuts
  <2>4. CASE \E n \in 0..Len(g) : b = SubSeq(g, 1, n)
    BY <2>1, <2>4
  <2>5. CASE \E n \in 1..(Len(g) - 1) : b = SubSeq(g, 1, n - 1) \o <<Half>>
    <3>1. PICK n \in 1..(Len(g) - 1) : b = SubSeq(g, 1, n - 1) \o <<Half>>
      BY <2>5
    <3>2. n - 1 \in 0..Len(g)
      BY <2>1
    <3>3. PICK s : s = SubSeq(g, 1, n - 1)
      OBVIOUS
    <3>4. s \in Seq(Bytes) /\ b = s \o <<Half>>
      BY <2>1, <3>1, <3>2, <3>3
    <3> QED
      BY <2>2, <3>4, ConcatProperties
  <2> QED
    BY <2>3, <2>4, <2>5
<1>8. file \in Seq(Bytes)
  BY DEF LogTypes
<1>9. CASE \E t \in Cuts(text) : f = file \o t
  <2>1. PICK t \in Cuts(text) : f = file \o t
    BY <1>9
  <2>2. t \in Seq(Bytes)
    BY <1>3, <1>7
  <2> QED
    BY <1>8, <2>1, <2>2
<1>10. CASE f \in Cuts(whole)
  BY <1>5, <1>7, <1>10
<1> QED
  BY <1>6, <1>9, <1>10

-----------------------------------------------------------------------------
(* The invariant, step by step.                                            *)
NoneTorn(v) == v \in [Servers -> Entry \cup {None}]

LEMMA BegunTypes ==
    ASSUME NEW m, NoneTorn(m.servers), NEW line \in Line
    PROVE  NoneTorn(Begun(m, line).servers)
<1>1. CASE line.op = "remove"
  BY <1>1, SnapFields DEF Begun, RemoveBegun, NoneTorn
<1>2. CASE line.op = "add"
  BY <1>2, SnapFields DEF Begun, AddBegun
<1>3. CASE line.op = "reload"
  BY <1>3, SnapFields DEF Begun, ReloadBegun
<1>4. CASE line.op = "open"
  BY <1>4, SnapFields DEF Begun, OpenBegun
<1>5. CASE line.op = "close"
  BY <1>5, SnapFields DEF Begun, CloseBegun
<1>6. CASE line.op = "tool"
  BY <1>6, SnapFields DEF Begun, ToolBegun
<1> QED
  BY <1>1, <1>2, <1>3, <1>4, <1>5, <1>6, LineFields DEF Ops

LEMMA TurnedTypes ==
    ASSUME NEW m, NoneTorn(m.servers), NEW line
    PROVE  NoneTorn(Turned(m, line).servers)
BY SnapFields DEF Turned

LEMMA AnsweredTypes ==
    ASSUME NEW m, NoneTorn(m.servers), m.job \in Jobs, m.job.pc = "call",
           NEW a, AnswersCall(m, a)
    PROVE  NoneTorn(Answered(m, a).servers)
<1>1. CASE m.job.line.op \in {"add", "reload"}
  <2> DEFINE e == [url |-> m.job.url, installed |-> a.ok]
             s == m.job.line.server
  <2>1. e \in Entry
    BY JobTypes DEF AnswersCall, Answer, Entry
  <2>2. Answered(m, a).servers = [m.servers EXCEPT ![s] = e]
    BY <1>1, SnapFields DEF Answered, InstallAnswered
  <2> QED
    BY <2>1, <2>2 DEF NoneTorn
<1>2. CASE m.job.line.op = "open" /\ a.ok
  <2>1. Answered(m, a) = OpenAnswered(m, a)
    BY <1>2 DEF Answered
  <2> QED
    BY <2>1, SnapFields DEF OpenAnswered
<1>3. CASE m.job.line.op \notin {"add", "reload"} /\ ~(m.job.line.op = "open" /\ a.ok)
  BY <1>3, SnapFields DEF Answered, PlainAnswered
<1> QED
  BY <1>1, <1>2, <1>3

(* The sessions, and the session that is asked for, are issued ones.       *)
LEMMA BegunIssues ==
    ASSUME NEW iss, NEW m, Sound(m), Issues(iss, m), NEW line \in Line, Accepted(m, line)
    PROVE  Issues(iss, Begun(m, line))
<1>1. m.sessions \in Seq(McpSession) /\ \A x \in Rows(m.sessions) : WasIssued(iss, x.sid)
  BY DEF Sound, IsSnap, Issues
<1>2. WasIssued(iss, None) /\ \A n : WasIssued(iss, [local |-> n])
  BY Constants DEF WasIssued
<1>3. CASE line.op = "add"
  BY <1>1, <1>2, <1>3, SnapFields, JobFields DEF Begun, AddBegun, Issues
<1>4. CASE line.op = "reload"
  BY <1>1, <1>2, <1>4, SnapFields, JobFields DEF Begun, ReloadBegun, Issues
<1>5. CASE line.op = "open"
  BY <1>1, <1>2, <1>5, SnapFields, JobFields DEF Begun, OpenBegun, Issues
<1>6. CASE line.op = "remove"
  <2>1. /\ Begun(m, line).sessions = Without(m.sessions, line.server)
        /\ Begun(m, line).job.pc = "end"
    BY <1>6, SnapFields, JobFields DEF Begun, RemoveBegun
  <2> QED
    BY <1>1, <2>1, WithoutRows DEF Issues
<1>7. CASE line.op = "close"
  <2> DEFINE x == SessionOf(m.sessions, line.id)
             j == IF x.sid = None \/ m.servers[x.server] = None THEN EndJob(line, Silent)
                  ELSE CallJob(line, m.servers[x.server].url, x.sid)
  <2>1. Begun(m, line).sessions = Dropped(m.sessions, line.id) /\ Begun(m, line).job = j
    BY <1>7, SnapFields DEF Begun, CloseBegun
  <2>2. x \in Rows(m.sessions)
    BY <1>1, <1>7, SessionOfRow DEF Accepted
  <2> HIDE DEF x
  <2>3. j.pc = "call" => j.sid = x.sid
    BY JobFields
  <2> HIDE DEF j
  <2> QED
    BY <1>1, <2>1, <2>2, <2>3, DroppedRows DEF Issues
<1>8. CASE line.op = "tool"
  <2> DEFINE sid == IF line.named = NoId THEN ImplicitSid(m.sessions, line.server)
                    ELSE [local |-> line.named]
             j == CallJob(line, m.servers[line.server].url, sid)
  <2>1. Begun(m, line).sessions = m.sessions /\ Begun(m, line).job = j
    BY <1>8, SnapFields DEF Begun, ToolBegun
  <2>2. WasIssued(iss, sid)
    BY <1>1, <1>2, ImplicitRow
  <2> HIDE DEF sid
  <2>3. j.sid = sid
    BY JobFields
  <2> QED
    BY <1>1, <2>1, <2>2, <2>3 DEF Issues
<1> QED
  BY <1>3, <1>4, <1>5, <1>6, <1>7, <1>8, LineFields DEF Ops

LEMMA TurnedIssues ==
    ASSUME NEW iss, NEW m, Issues(iss, m), NEW line
    PROVE  Issues(iss, Turned(m, line))
BY SnapFields, JobFields DEF Turned, Issues

LEMMA AnsweredIssues ==
    ASSUME NEW m, Sound(m), IssuedGrows, Issues(issued, m), m.job.pc = "call",
           NEW a, AnswersCall(m, a), WasIssued(issued', a.sid)
    PROVE  Issues(issued', Answered(m, a))
<1>1. Answered(m, a) = After(m, a, FALSE)
  BY DEF After
<1>2. \A x \in Rows(Answered(m, a).sessions) : x \in Rows(m.sessions) \/ x.sid = a.sid
  BY <1>1, AfterRows
<1>3. \A x \in Rows(m.sessions) : WasIssued(issued', x.sid)
  BY IssuedStays DEF Issues
<1>4. Answered(m, a).job.pc # "call"
  <2>1. Answered(m, a).job = EndJob(m.job.line, a)
    BY SnapFields DEF Answered, InstallAnswered, OpenAnswered, PlainAnswered
  <2> QED
    BY <2>1, JobFields
<1> QED
  BY <1>2, <1>3, <1>4 DEF Issues

LEMMA IdsMeanRows ==
    IdsMean <=> \A t \in told, x \in Rows(sessions) : x.id = t.id => x = t
BY DEF IdsMean, Rows

LEMMA SentHomeStays ==
    ASSUME SentHome, IssuedGrows
    PROVE  \A call \in calls : call.sid \in Sid => call.sid.at = call.to /\ call.sid.n =< issued'[call.to]
<1> SUFFICES ASSUME NEW call \in calls, call.sid \in Sid
             PROVE  call.sid.at = call.to /\ call.sid.n =< issued'[call.to]
  OBVIOUS
<1>1. call.sid.at = call.to /\ call.sid.n =< issued[call.to] /\ call.sid.n \in Nat /\ call.to \in Urls
  BY DEF SentHome, Sid
<1> QED
  BY <1>1 DEF IssuedGrows

(* The types of a sound value.                                             *)
LEMMA TypesNext ==
    ASSUME Sound(Now'), NoneTorn(Now'.servers), LogTypes',
           host' \in Hosts, cursor' \in 0..Len(oplog'), built' \in BOOLEAN,
           issued' \in [Urls -> Nat], told' \subseteq McpSession, refusals' \subseteq Nat,
           lines' \in Nat, crashes' \in Nat
    PROVE  TypeOK'
<1>1. /\ servers' \in [Servers -> Entry \cup {None}] /\ sessions' \in Seq(McpSession)
      /\ next_session' \in Nat /\ conf' \in Files /\ job' \in Jobs
  BY NowNext, SnapFields DEF Sound, IsSnap, NoneTorn, Files
<1> QED
  BY <1>1 DEF TypeOK, LogTypes, Files

LEMMA InvTypes ==
    ASSUME Inv
    PROVE  /\ TypeOK /\ LogTypes /\ NoneTorn(Now.servers) /\ Sound(Now)
           /\ issued \in [Urls -> Nat] /\ Len(oplog) \in Nat /\ cursor \in 0..Len(oplog)
           /\ job \in Jobs /\ told \subseteq McpSession /\ refusals \subseteq Nat
           /\ ~OnGolem => oplog = <<>> /\ cursor = 0 /\ Live
BY NowFields DEF Inv, TypeOK, LogTypes, NoneTorn, NativeInv, Live

LEMMA NativeStep ==
    ASSUME ~OnGolem, Inv, IdsMean', host' = host, UNCHANGED <<oplog, cursor>>, kept' = kept,
           \A x \in told' : x.id =< next_session'
    PROVE  /\ oplog' \in Seq(Line \cup Answer) /\ cursor' \in 0..Len(oplog')
           /\ (IF OnGolem THEN \E run : GolemInv(run) ELSE NativeInv)'
<1>1. NativeInv'
  BY DEF Inv, NativeInv
<1>2. ~OnGolem'
  BY DEF OnGolem
<1>3. oplog' \in Seq(Line \cup Answer) /\ cursor' \in 0..Len(oplog')
  BY DEF Inv, TypeOK
<1> QED
  BY <1>1, <1>2, <1>3

LEMMA RequestStep ==
    ASSUME Inv, Request
    PROVE  Inv'
<1>0. /\ TypeOK /\ LogTypes /\ NoneTorn(Now.servers) /\ Sound(Now)
      /\ issued \in [Urls -> Nat] /\ job \in Jobs /\ told \subseteq McpSession
      /\ refusals \subseteq Nat /\ cursor + 1 \in Nat
  BY InvTypes
<1>1. PICK line \in Line, refused \in BOOLEAN : Comes(line, refused)
  BY <1>0, RequestBegins
<1>2. /\ built /\ job = Idle /\ Take(line) /\ Emit(LineLen[line.op])
      /\ lines' = IF Live THEN lines + 1 ELSE lines
      /\ host' = host /\ built' = built /\ issued' = issued /\ calls' = calls /\ told' = told
      /\ kept' = kept /\ crashes' = crashes /\ refusals' \subseteq Nat
  BY <1>0, <1>1, JobTypes DEF Comes, Enter, Ready
<1>3. Now' = (IF refused THEN Turned(Now, line) ELSE Begun(Now, line)) /\ (refused <=> ~Accepts(line))
  BY <1>1 DEF Comes
<1>4. ~refused => Accepted(Now, line)
  BY <1>0, <1>3, AcceptsLine
<1>5. Sound(Now') /\ NoneTorn(Now'.servers) /\ LogTypes'
  <2>1. LineLen[line.op] \in Nat \ {0}
    BY HostAssumption, LineFields
  <2> QED
    BY <1>0, <1>2, <1>3, <1>4, <2>1, BegunSound, BegunTypes, TurnedSound, TurnedTypes, EmitTypes
<1>6. Issues(issued', Now')
  BY <1>0, <1>2, <1>3, <1>4, BegunIssues, TurnedIssues DEF Inv, SidsIssued
<1>7. IssuedGrows
  BY <1>0, <1>2 DEF IssuedGrows
<1>8. SentHome'
  BY <1>2 DEF Inv, SentHome
<1>9. Now' = After(Now, line, refused) /\ Entered(line, refused)
  <2>1. job.pc # "call"
    BY <1>2, JobTypes
  <2> QED
    BY <1>2, <1>3, <2>1, NowFields DEF After, Entered
<1>10. /\ oplog' \in Seq(Line \cup Answer) /\ cursor' \in 0..Len(oplog')
      /\ (IF OnGolem THEN \E run : GolemInv(run) ELSE NativeInv)'
  <2>1. CASE OnGolem
    <3>1. PICK run : GolemInv(run)
      BY <2>1 DEF Inv
    <3>2. PICK x \in BOOLEAN : Noted(x) /\ (Live => (x <=> refused))
      BY <1>1, <2>1 DEF Comes
    <3>3. /\ oplog' \in Seq(Line \cup Answer) /\ cursor' \in 0..Len(oplog')
          /\ \E run2 : GolemInv(run2)'
      BY <1>0, <1>2, <1>7, <1>9, <2>1, <3>1, <3>2, RunGoesOn DEF Inv, SameHost
    <3>4. OnGolem'
      BY <1>2, <2>1 DEF OnGolem
    <3> QED
      BY <3>3, <3>4
  <2>2. CASE ~OnGolem
    <3>1. /\ next_session' = next_session \/ next_session' = next_session + 1
          /\ \A x \in Rows(sessions') : x \in Rows(sessions)
      <4>1. Now'.sessions = sessions' /\ Now'.next = next_session'
        BY NowNext, SnapFields
      <4>2. Now.job.pc # "call"
        BY <1>2, NowFields, JobTypes
      <4> QED
        BY <1>0, <1>9, <4>1, <4>2, NowFields, AfterRows
    <3>2. next_session \in Nat /\ \A x \in told : x.id \in Nat /\ x.id =< next_session
      BY <1>0, <2>2 DEF Inv, NativeInv, TypeOK, McpSession
    <3>3. \A x \in told' : x.id =< next_session'
      BY <1>2, <3>1, <3>2
    <3>4. IdsMean'
      <4>1. \A t \in told', x \in Rows(sessions') : x.id = t.id => x = t
        BY <1>2, <2>2, <3>1, IdsMeanRows DEF Inv, NativeInv
      <4> QED
        BY <4>1 DEF IdsMean, Rows
    <3>5. UNCHANGED <<oplog, cursor>>
      BY <1>2, <2>2 DEF Take
    <3> QED
      BY <1>2, <2>2, <3>3, <3>4, <3>5, NativeStep
  <2> QED
    BY <2>1, <2>2
<1>11. TypeOK'
  <2>1. lines' \in Nat /\ crashes' \in Nat /\ host' \in Hosts /\ built' \in BOOLEAN
    BY <1>0, <1>2 DEF TypeOK
  <2> QED
    BY <1>0, <1>2, <1>5, <1>10, <2>1, TypesNext
<1>12. Unbuilt'
  BY <1>2 DEF Unbuilt
<1>13. Sound(Now)' /\ SidsIssued'
  BY <1>5, <1>6 DEF SidsIssued, Sound, Issues, IsSnap, TableSound, JobSound, Rows, Ordered, Tells, Told
<1> QED
  BY <1>8, <1>10, <1>11, <1>12, <1>13 DEF Inv

(* What is answered: on the agent while it is run again, what was.         *)
LEMMA AnswerFits ==
    ASSUME Inv, Ready("call"), NEW a, Reached(a),
           a \in IF Live THEN Answers ELSE {oplog[cursor + 1]} \cap Answer
    PROVE  /\ AnswersCall(Now, a) /\ WasIssued(issued', a.sid)
           /\ issued' \in [Urls -> Nat] /\ IssuedGrows
<1>0. /\ TypeOK /\ Sound(Now) /\ issued \in [Urls -> Nat] /\ Len(oplog) \in Nat
      /\ cursor \in 0..Len(oplog) /\ job \in Jobs /\ (~OnGolem => Live)
  BY InvTypes
<1>1. built /\ job.pc = "call" /\ job.line \in Line /\ job.url \in Urls
  BY <1>0, JobTypes DEF Ready
<1>2. issued' = IF Live /\ a.sid # None THEN [issued EXCEPT ![job.url] = @ + 1] ELSE issued
  BY DEF Reached
<1>3. issued' \in [Urls -> Nat] /\ IssuedGrows
  <2>1. CASE issued' = issued
    BY <1>0, <2>1 DEF IssuedGrows
  <2>2. CASE issued' = [issued EXCEPT ![job.url] = @ + 1]
    BY <1>0, <1>1, <2>2 DEF IssuedGrows
  <2> QED
    BY <1>2, <2>1, <2>2
<1>4. CASE Live
  <2>1. a \in Answers
    BY <1>4
  <2>2. CASE a.sid = None /\ a.ok \in BOOLEAN /\ a = [ok |-> a.ok, sid |-> None]
    BY <1>3, <2>2, Constants DEF AnswersCall, Answer, WasIssued
  <2>3. CASE job.line.op = "open" /\ a = [ok |-> TRUE, sid |-> Issue(job.url)]
    <3>1. Issue(job.url) \in Sid /\ Issue(job.url).at = job.url
          /\ Issue(job.url).n = issued[job.url] + 1
      BY <1>0, <1>1 DEF Issue, Sid
    <3>2. a \in Answer /\ a.sid = Issue(job.url) /\ a.sid # None
      BY <2>3, <3>1, Constants DEF Answer
    <3>3. issued'[job.url] = issued[job.url] + 1
      BY <1>0, <1>1, <1>2, <1>4, <3>2
    <3> QED
      <4>1. AnswersCall(Now, a)
        BY <2>3, <3>1, <3>2, NowFields DEF AnswersCall
      <4>2. WasIssued(issued', a.sid)
        BY <3>1, <3>2, <3>3, <1>3, <1>1 DEF WasIssued
      <4> QED
        BY <1>3, <4>1, <4>2
  <2> QED
    BY <1>3, <2>1, <2>2, <2>3 DEF Answers
<1>5. CASE ~Live
  <2>1. PICK run : GolemInv(run)
    BY <1>0, <1>5 DEF Inv
  <2>2. cursor \in 0..(Len(oplog) - 1)
    BY <1>0, <1>5 DEF Live
  <2>3. /\ Recorded(issued, run[cursor], a, cursor + 1 \in refusals)
        /\ Matches(Now, run[cursor])
    <3>1. a = oplog[cursor + 1] /\ a \in Answer
      BY <1>5
    <3>2. Matches(Now, run[cursor])
      BY <1>0, <1>1, <1>5, <2>1, <3>1, OnCourse
    <3> QED
      BY <2>1, <2>2, <3>1, <3>2 DEF GolemInv, IsRun
  <2>4. run[cursor].job = job
    BY <1>1, <2>3, NowFields, JobTypes DEF Matches
  <2>5. AnswersCall(run[cursor], a) /\ WasIssued(issued, a.sid)
    BY <1>1, <2>3, <2>4 DEF Recorded
  <2>6. AnswersCall(Now, a)
    BY <2>4, <2>5, NowFields DEF AnswersCall
  <2> QED
    BY <1>3, <2>5, <2>6, IssuedStays
<1> QED
  BY <1>4, <1>5

LEMMA CallStep ==
    ASSUME Inv, Call
    PROVE  Inv'
<1>0. /\ TypeOK /\ LogTypes /\ NoneTorn(Now.servers) /\ Sound(Now)
      /\ issued \in [Urls -> Nat] /\ job \in Jobs /\ told \subseteq McpSession
      /\ (~OnGolem => Live) /\ refusals \subseteq Nat
  BY InvTypes
<1>1. PICK a : /\ a \in IF Live THEN Answers ELSE {oplog[cursor + 1]} \cap Answer
               /\ Take(a) /\ Reached(a) /\ Now' = Answered(Now, a)
  BY <1>0, CallAnswers
<1>2. /\ Ready("call") /\ host' = host /\ built' = built /\ told' = told /\ kept' = kept
      /\ file' = file /\ buffer' = buffer /\ records' = records
      /\ lines' = lines /\ crashes' = crashes /\ refusals' = refusals /\ refusals \subseteq Nat
  BY <1>0 DEF Call, log, count
<1>3. /\ AnswersCall(Now, a) /\ WasIssued(issued', a.sid)
      /\ issued' \in [Urls -> Nat] /\ IssuedGrows
  BY <1>1, <1>2, AnswerFits
<1>4. built /\ job.pc = "call" /\ Now.job = job
  BY <1>2, NowFields DEF Ready
<1>5. Sound(Now') /\ NoneTorn(Now'.servers) /\ LogTypes'
  BY <1>0, <1>1, <1>2, <1>3, <1>4, AnsweredSound, AnsweredTypes DEF LogTypes
<1>6. Issues(issued', Now')
  BY <1>0, <1>1, <1>3, <1>4, AnsweredIssues DEF Inv, SidsIssued
<1>7. SentHome'
  <2>1. \A call \in calls : call.sid \in Sid => call.sid.at = call.to /\ call.sid.n =< issued'[call.to]
    BY <1>3, SentHomeStays DEF Inv
  <2>2. job.sid \in Sid => job.sid.at = job.url /\ job.sid.n =< issued'[job.url]
    <3>1. job.sid \in Sid => job.sid.at = job.url
      BY <1>0, <1>4 DEF Sound, JobSound
    <3>2. WasIssued(issued', job.sid)
      BY <1>3, <1>4, IssuedStays DEF Inv, SidsIssued, Issues
    <3> QED
      BY <3>1, <3>2 DEF WasIssued
  <2>3. PICK named : calls' = IF Live /\ job.line.op \in {"tool", "close"}
                               THEN calls \cup {[to |-> job.url, sid |-> job.sid, named |-> named]}
                               ELSE calls
    BY <1>1 DEF Reached
  <2>4. \A call \in calls' : call \in calls \/ (call.sid = job.sid /\ call.to = job.url)
    BY <2>3
  <2> QED
    BY <2>1, <2>2, <2>4 DEF SentHome
<1>8. Now' = After(Now, a, FALSE)
  BY <1>1, <1>4 DEF After
<1>9. /\ oplog' \in Seq(Line \cup Answer) /\ cursor' \in 0..Len(oplog')
      /\ (IF OnGolem THEN \E run : GolemInv(run) ELSE NativeInv)'
  <2>1. CASE OnGolem
    <3>1. PICK run : GolemInv(run)
      BY <2>1 DEF Inv
    <3>2. Entered(a, FALSE)
      BY <1>3, <1>4 DEF Entered, AnswersCall
    <3>3. PICK x \in BOOLEAN : Noted(x) /\ (Live => (x <=> FALSE))
      <4>1. refusals' = IF Live /\ FALSE THEN refusals \cup {cursor + 1} ELSE refusals
        BY <1>2
      <4> QED
        BY <4>1, NotedSo
    <3>4. /\ oplog' \in Seq(Line \cup Answer) /\ cursor' \in 0..Len(oplog')
          /\ \E run2 : GolemInv(run2)'
      BY <1>0, <1>1, <1>2, <1>3, <1>4, <1>8, <2>1, <3>1, <3>2, <3>3, RunGoesOn DEF Inv, SameHost
    <3>5. OnGolem'
      BY <1>2, <2>1 DEF OnGolem
    <3> QED
      BY <3>4, <3>5
  <2>2. CASE ~OnGolem
    <3>1. /\ next_session' = next_session \/ next_session' = next_session + 1
          /\ \A x \in Rows(sessions') : x \in Rows(sessions) \/ x.id = next_session + 1
      <4>1. Now'.sessions = sessions' /\ Now'.next = next_session'
        BY NowNext, SnapFields
      <4> QED
        BY <1>0, <1>3, <1>4, <1>8, <4>1, NowFields, AfterRows, Zenon
    <3>2. next_session \in Nat /\ \A x \in told : x.id \in Nat /\ x.id =< next_session
      BY <1>0, <2>2 DEF Inv, NativeInv, TypeOK, McpSession
    <3>3. \A x \in told' : x.id =< next_session'
      BY <1>2, <3>1, <3>2
    <3>4. IdsMean'
      <4>1. \A t \in told, x \in Rows(sessions) : x.id = t.id => x = t
        BY <2>2, IdsMeanRows DEF Inv, NativeInv
      <4>2. ASSUME NEW t \in told', NEW x \in Rows(sessions'), x.id = t.id PROVE x = t
        <5>1. x.id # next_session + 1
          BY <1>2, <3>2, <4>2
        <5> QED
          BY <1>2, <3>1, <4>1, <4>2, <5>1
      <4> QED
        BY <4>2 DEF IdsMean, Rows
    <3>5. UNCHANGED <<oplog, cursor>>
      BY <1>1, <2>2 DEF Take
    <3> QED
      BY <1>2, <2>2, <3>3, <3>4, <3>5, NativeStep
  <2> QED
    BY <2>1, <2>2
<1>10. TypeOK'
  <2>1. lines' \in Nat /\ crashes' \in Nat /\ host' \in Hosts /\ built' \in BOOLEAN
    BY <1>0, <1>2 DEF TypeOK
  <2> QED
    BY <1>0, <1>2, <1>3, <1>5, <1>9, <2>1, TypesNext
<1>11. Unbuilt'
  BY <1>2, <1>4 DEF Unbuilt
<1>12. Sound(Now)' /\ SidsIssued'
  BY <1>5, <1>6 DEF SidsIssued, Sound, Issues, IsSnap, TableSound, JobSound, Rows, Ordered, Tells, Told
<1> QED
  BY <1>7, <1>9, <1>10, <1>11, <1>12 DEF Inv

LEMMA FinishStep ==
    ASSUME Inv, Finish
    PROVE  Inv'
<1>0. /\ TypeOK /\ LogTypes /\ NoneTorn(Now.servers) /\ Sound(Now)
      /\ issued \in [Urls -> Nat] /\ job \in Jobs /\ told \subseteq McpSession
      /\ Len(oplog) \in Nat /\ cursor \in 0..Len(oplog) /\ (~OnGolem => Live)
      /\ refusals \subseteq Nat
  BY InvTypes
<1>1. /\ built /\ job.pc = "end" /\ Emit(1) /\ job' = Idle
      /\ kept' = IF OnGolem /\ cursor > kept.at THEN [at |-> cursor, memory |-> Memory] ELSE kept
      /\ told' = IF job.line.op = "open" /\ job.answer.ok
                   THEN told \cup {[id |-> next_session, server |-> job.line.server,
                                    sid |-> job.answer.sid]}
                   ELSE told
      /\ servers' = servers /\ sessions' = sessions /\ next_session' = next_session
      /\ host' = host /\ oplog' = oplog /\ cursor' = cursor /\ built' = built /\ conf' = conf
      /\ issued' = issued /\ calls' = calls /\ lines' = lines /\ crashes' = crashes
      /\ refusals' = refusals
  BY DEF Finish, Ready, mcp, count
<1>2. Now' = Snap(servers, sessions, next_session, conf, Idle)
  BY <1>1, NowNext
<1>3. Idle \in Jobs /\ Idle.pc = "idle" /\ Idle # job
  BY <1>1, JobTypes
<1>4. Sound(Now') /\ NoneTorn(Now'.servers) /\ LogTypes'
  <2>1. IsSnap(Now') /\ TableSound(Now') /\ JobSound(Now')
    BY <1>0, <1>2, <1>3, NowFields, SnapFields
    DEF Sound, IsSnap, TableSound, JobSound, Tells
  <2> QED
    BY <1>0, <1>1, <1>2, <2>1, NowFields, SnapFields, EmitTypes DEF Sound
<1>5. Issues(issued', Now')
  BY <1>1, <1>2, <1>3, NowFields, SnapFields DEF Inv, SidsIssued, Issues
<1>6. \A t \in told' : t \in told \/ t \in Rows(sessions)
  <2>1. CASE job.line.op = "open" /\ job.answer.ok
    <3>1. Told(Now) \in Rows(sessions)
      BY <1>0, <1>1, <2>1, NowFields DEF Sound, JobSound, Tells
    <3> QED
      BY <1>1, <2>1, <3>1, NowFields DEF Told
  <2>2. CASE ~(job.line.op = "open" /\ job.answer.ok)
    BY <1>1, <2>2
  <2> QED
    BY <2>1, <2>2
<1>7. Rows(sessions) \subseteq McpSession /\ Ordered(sessions)
  BY <1>0, NowFields, RowTypes DEF Sound, TableSound, TypeOK
<1>8. told' \subseteq McpSession
  BY <1>0, <1>6, <1>7
<1>9. (IF OnGolem THEN \E run : GolemInv(run) ELSE NativeInv)'
  <2>1. CASE OnGolem
    <3>1. PICK run : GolemInv(run)
      BY <2>1 DEF Inv
    <3>2. IsRun(run)'
      <4>1. Fresh' = Fresh
        BY DEF Fresh, Snap, Idle
      <4> QED
        BY <1>1, <3>1, <4>1 DEF GolemInv, IsRun
    <3>3. /\ sessions = run[cursor].sessions /\ next_session = run[cursor].next
          /\ Known(servers, run[cursor].servers) /\ Known(conf, run[cursor].conf)
          /\ run[cursor].job.pc = "end"
      <4>1. Matches(Now, run[cursor])
        BY <1>1, <3>1 DEF GolemInv, Astray
      <4> QED
        BY <1>1, <1>3, <4>1, NowFields DEF Matches
    <3>4. Matches(Now, run[cursor])'
      <4>1. Matches(Now', run[cursor'])
        BY <1>1, <1>2, <3>3, SnapFields DEF Matches
      <4> QED
        BY <4>1 DEF Matches, Known
    <3>5. Spoken(run)'
      BY <1>1, <3>1 DEF GolemInv, Spoken
    <3>6. cursor # 0
      <4>1. run[0] = Fresh /\ Fresh.job = Idle
        BY <3>1, SnapFields DEF GolemInv, IsRun, Fresh
      <4> QED
        BY <1>3, <3>3, <4>1
    <3>7. cursor > kept.at => cursor = Len(oplog)
      <4>1. \A c \in 1..(Len(oplog) - 1) : kept.at < c => run[c].job.pc = "call"
        BY <3>1 DEF GolemInv, Keeping
      <4>2. kept.at \in Int
        BY <3>1 DEF GolemInv, Keeping
      <4> QED
        BY <1>0, <3>3, <3>6, <4>1, <4>2
    <3>8. cursor > kept.at => Memory = MemoryOf(run[cursor])
      <4> SUFFICES ASSUME cursor = Len(oplog) PROVE Memory = MemoryOf(run[cursor])
        BY <3>7
      <4>1. \A s \in Servers :
              servers[s] = IF run[cursor].servers[s] = Torn THEN None ELSE run[cursor].servers[s]
        BY <3>1, <3>3 DEF GolemInv, Spoken, Known
      <4>2. servers = [s \in Servers |-> servers[s]]
        BY <1>0 DEF TypeOK
      <4>3. servers = [s \in Servers |-> IF run[cursor].servers[s] = Torn THEN None
                                         ELSE run[cursor].servers[s]]
        BY <4>1, <4>2
      <4> QED
        BY <3>3, <4>3 DEF Memory, mcp, MemoryOf
    <3>9. Keeping(run)'
      <4>1. /\ kept.at \in {-1} \cup 1..Len(oplog)
            /\ kept.at # -1 => kept.memory = MemoryOf(run[kept.at])
            /\ \A c \in 1..(Len(oplog) - 1) : kept.at < c => run[c].job.pc = "call"
        BY <3>1 DEF GolemInv, Keeping
      <4>2. kept'.at = IF cursor > kept.at THEN cursor ELSE kept.at
        BY <1>1, <2>1
      <4>3. kept'.at \in {-1} \cup 1..Len(oplog) /\ kept.at =< kept'.at /\ cursor =< kept'.at
        BY <1>0, <3>6, <4>1, <4>2
      <4>4. kept'.at # -1 => kept'.memory = MemoryOf(run[kept'.at])
        BY <1>1, <2>1, <3>8, <4>1
      <4>5. \A c \in 1..(Len(oplog) - 1) : kept'.at < c => run[c].job.pc = "call"
        BY <4>1, <4>3
      <4>6. MemoryOf(run[kept.at])' = MemoryOf(run[kept'.at])
        BY DEF MemoryOf
      <4> QED
        BY <1>1, <4>3, <4>4, <4>5, <4>6 DEF Keeping
    <3>10. Agreed(run)'
      <4>1. Mentioned(run)' = told' \cup UNION {Rows(run[c].sessions) : c \in 0..Len(oplog)}
        BY <1>1 DEF Mentioned, Rows
      <4>2. Rows(sessions) \subseteq UNION {Rows(run[c].sessions) : c \in 0..Len(oplog)}
        BY <1>0, <3>3
      <4>3. Mentioned(run)' \subseteq Mentioned(run)
        BY <1>6, <4>1, <4>2 DEF Mentioned
      <4> DEFINE N == Mentioned(run)'
                 M == Mentioned(run)
      <4>4. \A x, y \in M : x.id = y.id => x = y
        BY <3>1 DEF GolemInv, Agreed
      <4>5. \A x \in M : x.id =< run[Len(oplog')].next
        BY <1>1, <3>1 DEF GolemInv, Agreed
      <4>6. N \subseteq M
        BY <4>3
      <4> HIDE DEF M
      <4>7. /\ \A x, y \in N : x.id = y.id => x = y
            /\ \A x \in N : x.id =< run[Len(oplog')].next
        BY <4>4, <4>5, <4>6
      <4> QED
        BY <4>7 DEF Agreed
    <3>11. GolemInv(run)'
      BY <1>1, <3>1, <3>2, <3>4, <3>5, <3>9, <3>10 DEF GolemInv
    <3>12. OnGolem'
      BY <1>1, <2>1 DEF OnGolem
    <3> QED
      BY <3>11, <3>12
  <2>2. CASE ~OnGolem
    <3>1. \A x \in Rows(sessions) : x.id =< next_session
      BY <1>0, NowFields DEF Sound, TableSound
    <3>2. \A x \in told' : x.id =< next_session'
      BY <1>1, <1>6, <2>2, <3>1 DEF Inv, NativeInv
    <3>3. IdsMean'
      <4>1. \A x, y \in Rows(sessions) : x.id = y.id => x = y
        BY <1>0, <1>7, RowTypes DEF TypeOK
      <4>2. \A t \in told, x \in Rows(sessions) : x.id = t.id => x = t
        BY <2>2, IdsMeanRows DEF Inv, NativeInv
      <4>3. \A t \in told', x \in Rows(sessions') : x.id = t.id => x = t
        BY <1>1, <1>6, <4>1, <4>2
      <4> QED
        BY <4>3 DEF IdsMean, Rows
    <3>4. kept' = kept
      BY <1>1, <2>2
    <3> QED
      BY <1>1, <2>2, <3>2, <3>3, <3>4, NativeStep
  <2> QED
    BY <2>1, <2>2
<1>10. TypeOK'
  <2>1. lines' \in Nat /\ crashes' \in Nat /\ host' \in Hosts /\ built' \in BOOLEAN
        /\ cursor' \in 0..Len(oplog')
    BY <1>0, <1>1 DEF TypeOK
  <2> QED
    BY <1>0, <1>1, <1>4, <1>8, <2>1, TypesNext
<1>11. Unbuilt' /\ SentHome' /\ oplog' \in Seq(Line \cup Answer)
  BY <1>1 DEF Unbuilt, SentHome, Inv
<1>12. Sound(Now)' /\ SidsIssued'
  BY <1>4, <1>5 DEF SidsIssued, Sound, Issues, IsSnap, TableSound, JobSound, Rows, Ordered, Tells, Told
<1> QED
  BY <1>9, <1>10, <1>11, <1>12 DEF Inv

LEMMA EmptyTable ==
    /\ <<>> \in Seq(McpSession) /\ Len(<<>>) = 0 /\ Rows(<<>>) = {} /\ Ordered(<<>>)
    /\ 0 =< MaxSessions
BY Constants DEF Rows, Ordered

(* A memory that has just been set up.                                     *)
LEMMA NewSound ==
    ASSUME NEW v, v \in [Servers -> Entry \cup {None, Torn}], NEW c, c \in Files, NEW iss
    PROVE  /\ Sound(Snap(v, <<>>, 0, c, Idle)) /\ Issues(iss, Snap(v, <<>>, 0, c, Idle))
           /\ Rows(Snap(v, <<>>, 0, c, Idle).sessions) = {}
<1> DEFINE m == Snap(v, <<>>, 0, c, Idle)
<1>1. /\ m.servers = v /\ m.sessions = <<>> /\ m.next = 0 /\ m.conf = c /\ m.job = Idle
      /\ m = Snap(m.servers, m.sessions, m.next, m.conf, m.job)
  BY SnapFields
<1> HIDE DEF m
<1>2. Idle \in Jobs /\ Idle.pc = "idle"
  BY JobTypes
<1>3. c \in [Servers -> Entry \cup {None, Torn}]
  BY DEF Files
<1>4. IsSnap(m)
  BY <1>1, <1>2, <1>3, EmptyTable DEF IsSnap
<1>5. TableSound(m) /\ JobSound(m) /\ Issues(iss, m) /\ Rows(m.sessions) = {}
  BY <1>1, <1>2, EmptyTable DEF TableSound, JobSound, Tells, Issues
<1> QED
  BY <1>4, <1>5 DEF Sound, m

LEMMA BuildStep ==
    ASSUME Inv, Build
    PROVE  Inv'
<1>0. /\ TypeOK /\ LogTypes /\ NoneTorn(Now.servers) /\ Sound(Now)
      /\ issued \in [Urls -> Nat] /\ told \subseteq McpSession
      /\ Len(oplog) \in Nat /\ cursor \in 0..Len(oplog) /\ refusals \subseteq Nat
      /\ conf \in [Servers -> Entry \cup {None, Torn}]
  BY InvTypes DEF TypeOK, Files
<1>1. /\ ~built /\ built' = TRUE
      /\ servers' = [s \in Servers |->
                     IF conf[s] \notin {None, Torn} /\ conf[s].installed THEN conf[s] ELSE None]
      /\ sessions' = sessions /\ next_session' = next_session /\ host' = host /\ oplog' = oplog
      /\ cursor' = cursor /\ conf' = conf /\ job' = job /\ issued' = issued /\ calls' = calls
      /\ told' = told /\ kept' = kept /\ lines' = lines /\ crashes' = crashes
      /\ file' = file /\ buffer' = buffer /\ records' = records /\ refusals' = refusals
  BY DEF Build, log, count
<1>2. sessions = <<>> /\ next_session = 0 /\ job = Idle /\ cursor = 0
  BY <1>1 DEF Inv, Unbuilt
<1>3. Now' = Snap(servers', <<>>, 0, conf, Idle) /\ servers' \in [Servers -> Entry \cup {None}]
  BY <1>0, <1>1, <1>2, NowNext
<1>4. Sound(Now') /\ Issues(issued', Now') /\ Rows(Now'.sessions) = {}
  BY <1>0, <1>3, NewSound DEF Files
<1>5. NoneTorn(Now'.servers) /\ Rows(sessions') = {}
  BY <1>1, <1>2, <1>3, SnapFields, EmptyTable DEF NoneTorn
<1>6. (IF OnGolem THEN \E run : GolemInv(run) ELSE NativeInv)'
  <2>1. CASE OnGolem
    <3>1. PICK run : GolemInv(run)
      BY <2>1 DEF Inv
    <3>2. IsRun(run)'
      <4>1. Fresh' = Fresh
        BY DEF Fresh, Snap, Idle
      <4> QED
        BY <1>1, <3>1, <4>1 DEF GolemInv, IsRun
    <3>3. run[0] = Fresh
      BY <3>1 DEF GolemInv, IsRun
    <3>4. Matches(Now, run[cursor])'
      <4>1. Matches(Now', run[cursor'])
        BY <1>1, <1>2, <1>3, <3>3, SnapFields, JobTypes DEF Matches, Fresh, Known
      <4> QED
        BY <4>1 DEF Matches, Known
    <3>5. Spoken(run)'
      <4> SUFFICES ASSUME NEW s \in Servers, servers'[s] # None
                   PROVE  conf[s] \in Entry /\ conf[s].installed
        BY <1>1, <3>1, Zenon DEF GolemInv, Spoken
      <4> QED
        BY <1>0, <1>1
    <3>6. Keeping(run)'
      <4>1. MemoryOf(run[kept.at])' = MemoryOf(run[kept'.at])
        BY DEF MemoryOf
      <4> QED
        BY <1>1, <1>2, <3>1, <4>1 DEF GolemInv, Keeping
    <3>7. Agreed(run)'
      BY <1>1, <3>1 DEF GolemInv, Agreed, Mentioned, Rows
    <3>8. GolemInv(run)'
      BY <1>1, <3>1, <3>2, <3>4, <3>5, <3>6, <3>7 DEF GolemInv
    <3>9. OnGolem'
      BY <1>1, <2>1 DEF OnGolem
    <3> QED
      BY <3>8, <3>9
  <2>2. CASE ~OnGolem
    <3>1. IdsMean'
      BY <1>5 DEF IdsMean, Rows
    <3> QED
      BY <1>1, <2>2, <3>1, NativeStep DEF Inv, NativeInv
  <2> QED
    BY <2>1, <2>2
<1>7. TypeOK'
  <2>1. lines' \in Nat /\ crashes' \in Nat /\ host' \in Hosts /\ built' \in BOOLEAN
        /\ cursor' \in 0..Len(oplog') /\ LogTypes'
    BY <1>0, <1>1 DEF TypeOK, LogTypes
  <2> QED
    BY <1>0, <1>1, <1>4, <1>5, <2>1, TypesNext
<1>8. Unbuilt' /\ SentHome' /\ oplog' \in Seq(Line \cup Answer)
  BY <1>1 DEF Unbuilt, SentHome, Inv
<1>9. Sound(Now)' /\ SidsIssued'
  BY <1>4 DEF SidsIssued, Sound, Issues, IsSnap, TableSound, JobSound, Rows, Ordered, Tells, Told
<1> QED
  BY <1>6, <1>7, <1>8, <1>9 DEF Inv

LEMMA CrashStep ==
    ASSUME Inv, Crash
    PROVE  Inv'
<1>0. /\ TypeOK /\ LogTypes /\ Sound(Now) /\ job \in Jobs
      /\ issued \in [Urls -> Nat] /\ told \subseteq McpSession
      /\ Len(oplog) \in Nat /\ cursor \in 0..Len(oplog)
      /\ conf \in [Servers -> Entry \cup {None, Torn}] /\ crashes \in Nat
      /\ refusals \subseteq Nat
  BY InvTypes DEF TypeOK, Files
<1>1. /\ crashes' = crashes + 1
      /\ servers' = [s \in Servers |-> None] /\ sessions' = <<>> /\ next_session' = 0
      /\ built' = FALSE /\ buffer' = <<>> /\ records' = <<>> /\ job' = Idle /\ cursor' = 0
      /\ told' = IF OnGolem THEN told ELSE {}
      /\ \/ issued' = issued
         \/ job.pc = "call" /\ issued' = [issued EXCEPT ![job.url] = @ + 1]
      /\ host' = host /\ oplog' = oplog /\ calls' = calls /\ kept' = kept /\ lines' = lines
      /\ refusals' = refusals
  BY DEF Crash
<1>2. file' \in Seq(Bytes)
  <2>1. \/ file' = file \/ file' = <<>>
        \/ file' \in CutOff(1)
        \/ \E op \in Ops : file' \in CutOff(LineLen[op])
    <3> DEFINE next == IF job.pc = "end" THEN {1} ELSE {LineLen[op] : op \in Ops}
    <3>1. file' \in ({file} \cup IF job.pc = "call" THEN {} ELSE UNION {CutOff(len) : len \in next})
                      \cup IF OnGolem THEN {<<>>} ELSE {}
      BY DEF Crash, CrashedFiles
    <3>2. file' = file \/ file' = <<>> \/ \E len \in next : file' \in CutOff(len)
      BY <3>1
    <3> QED
      BY <3>2
  <2>2. \A op \in Ops : LineLen[op] \in Nat \ {0}
    BY HostAssumption
  <2>3. <<>> \in Seq(Bytes) /\ file \in Seq(Bytes) /\ 1 \in Nat \ {0}
    BY <1>0 DEF LogTypes
  <2> QED
    BY <1>0, <2>1, <2>2, <2>3, CutOffTypes
<1>3. /\ conf' \in Files
      /\ \A s \in Servers : conf'[s] # None =>
            \/ conf'[s] = conf[s]
            \/ conf'[s] = Torn /\ conf[s] \in Entry
  <2>1. \/ conf' = conf
        \/ conf' = [s \in Servers |-> None]
        \/ /\ job.pc = "call" /\ job.line.op \in {"add", "reload"}
           /\ conf' = [conf EXCEPT ![job.line.server] = Torn]
    BY DEF Crash, CrashedFiles
  <2>2. job.pc = "call" /\ job.line.op \in {"add", "reload"} => conf[job.line.server] \in Entry
    BY <1>0, NowFields DEF Sound, JobSound
  <2> QED
    BY <1>0, <2>1, <2>2 DEF Files
<1>4. issued' \in [Urls -> Nat] /\ IssuedGrows
  <2>1. CASE issued' = issued
    BY <1>0, <2>1 DEF IssuedGrows
  <2>2. CASE job.pc = "call" /\ issued' = [issued EXCEPT ![job.url] = @ + 1]
    <3>1. job.url \in Urls
      BY <1>0, <2>2, JobTypes
    <3> QED
      BY <1>0, <2>2, <3>1 DEF IssuedGrows
  <2> QED
    BY <1>1, <2>1, <2>2
<1>5. Now' = Snap(servers', <<>>, 0, conf', Idle) /\ servers' \in [Servers -> Entry \cup {None}]
  BY <1>1, NowNext
<1>6. Sound(Now') /\ Issues(issued', Now')
  BY <1>3, <1>5, NewSound
<1>7. NoneTorn(Now'.servers) /\ Rows(sessions') = {} /\ LogTypes'
  <2>1. <<>> \in Seq(Bytes) /\ <<>> \in Seq(Record)
    OBVIOUS
  <2> QED
    BY <1>1, <1>2, <1>5, <2>1, SnapFields, EmptyTable DEF NoneTorn, LogTypes
<1>8. (IF OnGolem THEN \E run : GolemInv(run) ELSE NativeInv)'
  <2>1. CASE OnGolem
    <3>1. PICK run : GolemInv(run)
      BY <2>1 DEF Inv
    <3>2. IsRun(run)'
      <4>1. Fresh' = Fresh
        BY DEF Fresh, Snap, Idle
      <4>2. \A c \in 0..(Len(oplog) - 1) : Recorded(issued', run[c], oplog[c + 1], c + 1 \in refusals)
        BY <1>4, <3>1, RecordedStays DEF GolemInv, IsRun
      <4> QED
        BY <1>1, <3>1, <4>1, <4>2, Zenon DEF GolemInv, IsRun
    <3>3. Spoken(run)'
      <4> SUFFICES ASSUME NEW s \in Servers
                   PROVE  /\ conf'[s] # None => run[Len(oplog)].conf[s] # Torn
                          /\ servers'[s] # None \/ (conf'[s] \in Entry /\ conf'[s].installed) =>
                               run[Len(oplog)].servers[s] # Torn
        BY <1>1, <3>1, Zenon DEF GolemInv, Spoken
      <4>1. /\ conf[s] # None => run[Len(oplog)].conf[s] # Torn
            /\ conf[s] \in Entry /\ conf[s].installed => run[Len(oplog)].servers[s] # Torn
        BY <3>1 DEF GolemInv, Spoken
      <4> QED
        BY <1>1, <1>3, <4>1, Constants
    <3>4. Keeping(run)'
      <4>1. MemoryOf(run[kept.at])' = MemoryOf(run[kept'.at])
        BY DEF MemoryOf
      <4> QED
        BY <1>1, <3>1, <4>1 DEF GolemInv, Keeping
    <3>5. Agreed(run)'
      BY <1>1, <2>1, <3>1 DEF GolemInv, Agreed, Mentioned, Rows
    <3>6. GolemInv(run)'
      BY <1>1, <3>1, <3>2, <3>3, <3>4, <3>5 DEF GolemInv
    <3>7. OnGolem'
      BY <1>1, <2>1 DEF OnGolem
    <3> QED
      BY <3>6, <3>7
  <2>2. CASE ~OnGolem
    <3>1. IdsMean'
      BY <1>7 DEF IdsMean, Rows
    <3>2. UNCHANGED <<oplog, cursor>>
      BY <1>1, <2>2 DEF Inv, NativeInv
    <3> QED
      BY <1>1, <2>2, <3>1, <3>2, NativeStep
  <2> QED
    BY <2>1, <2>2
<1>9. TypeOK'
  <2>1. lines' \in Nat /\ crashes' \in Nat /\ host' \in Hosts /\ built' \in BOOLEAN
        /\ cursor' \in 0..Len(oplog') /\ told' \subseteq McpSession
    <3>1. lines \in Nat /\ host \in Hosts
      BY <1>0 DEF TypeOK
    <3>2. 0 \in 0..Len(oplog)
      BY <1>0
    <3>3. lines' \in Nat /\ host' \in Hosts /\ built' \in BOOLEAN
      BY <1>1, <3>1
    <3>4. crashes' \in Nat
      BY <1>0, <1>1
    <3>5. cursor' \in 0..Len(oplog')
      BY <1>1, <3>2
    <3>6. told' \subseteq McpSession
      BY <1>0, <1>1
    <3> QED
      BY <3>3, <3>4, <3>5, <3>6
  <2>2. refusals' \subseteq Nat
    BY <1>0, <1>1
  <2> QED
    BY <1>4, <1>6, <1>7, <2>1, <2>2, TypesNext
<1>10. SentHome'
  BY <1>1, <1>4, SentHomeStays DEF Inv, SentHome
<1>11. Unbuilt' /\ oplog' \in Seq(Line \cup Answer)
  BY <1>1 DEF Unbuilt, Inv
<1>12. Sound(Now)' /\ SidsIssued'
  BY <1>6 DEF SidsIssued, Sound, Issues, IsSnap, TableSound, JobSound, Rows, Ordered, Tells, Told
<1> QED
  BY <1>8, <1>9, <1>10, <1>11, <1>12 DEF Inv

LEMMA InitInv ==
    ASSUME Init
    PROVE  Inv
<1>1. /\ host \in Hosts /\ oplog = <<>> /\ cursor = 0 /\ built = FALSE
      /\ servers = [s \in Servers |-> None] /\ sessions = <<>> /\ next_session = 0
      /\ conf = [s \in Servers |-> None] /\ file = <<>> /\ buffer = <<>> /\ records = <<>>
      /\ job = Idle /\ issued = [url \in Urls |-> 0] /\ calls = {} /\ told = {}
      /\ kept = [at |-> -1, memory |-> <<>>] /\ lines = 0 /\ crashes = 0 /\ refusals = {}
  BY DEF Init
<1>2. /\ Now = Snap(servers, <<>>, 0, conf, Idle) /\ conf \in Files
      /\ servers \in [Servers -> Entry \cup {None}]
  BY <1>1, NowFields DEF Files
<1>3. Sound(Now) /\ Issues(issued, Now)
  BY <1>2, NewSound
<1>4. /\ <<>> \in Seq(Bytes) /\ <<>> \in Seq(Record) /\ <<>> \in Seq(Line \cup Answer)
      /\ <<>> \in Seq(McpSession) /\ Len(<<>>) = 0
  OBVIOUS
<1>5. TypeOK
  <2>1. cursor \in 0..Len(oplog)
    BY <1>1, <1>4
  <2>2. issued \in [Urls -> Nat] /\ told \subseteq McpSession /\ built \in BOOLEAN
        /\ lines \in Nat /\ crashes \in Nat /\ next_session \in Nat
    BY <1>1
  <2>3. /\ sessions \in Seq(McpSession) /\ job \in Jobs /\ file \in Seq(Bytes)
        /\ buffer \in Seq(Bytes) /\ records \in Seq(Record)
    BY <1>1, <1>4, JobTypes
  <2> QED
    BY <1>1, <1>2, <2>1, <2>2, <2>3 DEF TypeOK
<1>6. Unbuilt /\ SentHome
  BY <1>1 DEF Unbuilt, SentHome
<1>7. CASE OnGolem
  <2>1. PICK run : run = [c \in 0..0 |-> Fresh]
    OBVIOUS
  <2>2. Sound(Fresh) /\ Rows(Fresh.sessions) = {}
    BY NewSound DEF Fresh, Files
  <2>3. /\ run = [c \in 0..Len(oplog) |-> run[c]] /\ run[0] = Fresh
        /\ \A c \in 0..Len(oplog) : run[c] = Fresh
    BY <1>1, <1>4, <2>1
  <2>4. IsRun(run)
    <3>1. 0..(Len(oplog) - 1) = {}
      BY <1>1, <1>4
    <3>2. Speaks(Fresh)
      BY SnapFields DEF Fresh, Speaks
    <3> QED
      BY <2>2, <2>3, <3>1, <3>2, Zenon DEF IsRun
  <2>5. Spoken(run)
    BY <1>1, <1>2, <2>3, Constants DEF Spoken
  <2>6. Keeping(run)
    <3>1. 1..(Len(oplog) - 1) = {}
      BY <1>1, <1>4
    <3> QED
      BY <1>1, <3>1 DEF Keeping
  <2>7. Agreed(run)
    <3>1. Mentioned(run) = {}
      BY <1>1, <2>2, <2>3 DEF Mentioned
    <3> QED
      BY <3>1 DEF Agreed
  <2> QED
    BY <1>1, <1>3, <1>4, <1>5, <1>6, <1>7, <2>4, <2>5, <2>6, <2>7 DEF Inv, GolemInv, SidsIssued
<1>8. CASE ~OnGolem
  BY <1>1, <1>3, <1>4, <1>5, <1>6, <1>8 DEF Inv, NativeInv, IdsMean, SidsIssued
<1> QED
  BY <1>7, <1>8

LEMMA Stutter ==
    ASSUME Inv, UNCHANGED vars
    PROVE  Inv'
<1>1. /\ servers' = servers /\ sessions' = sessions /\ next_session' = next_session
      /\ host' = host /\ oplog' = oplog /\ cursor' = cursor /\ built' = built /\ conf' = conf
      /\ file' = file /\ buffer' = buffer /\ records' = records /\ job' = job
      /\ issued' = issued /\ calls' = calls /\ told' = told /\ kept' = kept
      /\ lines' = lines /\ crashes' = crashes /\ refusals' = refusals
  BY DEF vars, mcp, log, count
<1>2. Now' = Now
  BY <1>1, NowNext, NowFields
<1>3. TypeOK' /\ oplog' \in Seq(Line \cup Answer) /\ Unbuilt' /\ SentHome'
  BY <1>1 DEF Inv, TypeOK, Unbuilt, SentHome
<1>4. Sound(Now') /\ Issues(issued', Now')
  BY <1>1, <1>2 DEF Inv, SidsIssued
<1>5. Sound(Now)' /\ SidsIssued'
  BY <1>4 DEF SidsIssued, Sound, Issues, IsSnap, TableSound, JobSound, Rows, Ordered, Tells, Told
<1>6. CASE OnGolem
  <2>1. PICK run : GolemInv(run)
    BY <1>6 DEF Inv
  <2>2. IsRun(run)'
    <3>1. Fresh' = Fresh
      BY DEF Fresh, Snap, Idle
    <3> QED
      BY <1>1, <2>1, <3>1 DEF GolemInv, IsRun
  <2>3. (built => Matches(Now, run[cursor]) \/ Astray(run[cursor]))'
    <3>1. built => Matches(Now, run[cursor]) \/ Astray(run[cursor])
      BY <2>1 DEF GolemInv
    <3>2. CASE Matches(Now, run[cursor])
      <4>1. Matches(Now', run[cursor'])
        BY <1>1, <1>2, <3>2
      <4> QED
        BY <4>1 DEF Matches, Known
    <3>3. CASE Astray(run[cursor])
      <4>1. Near(Now', run[cursor'])
        BY <1>1, <1>2, <3>3 DEF Astray
      <4> QED
        BY <1>1, <3>3, <4>1 DEF Astray, Near, Known, Live
    <3> QED
      BY <1>1, <3>1, <3>2, <3>3
  <2>4. Spoken(run)'
    BY <1>1, <2>1 DEF GolemInv, Spoken
  <2>5. Keeping(run)'
    <3>1. MemoryOf(run[kept.at])' = MemoryOf(run[kept'.at])
      BY DEF MemoryOf
    <3> QED
      BY <1>1, <2>1, <3>1 DEF GolemInv, Keeping
  <2>6. Agreed(run)'
    BY <1>1, <2>1 DEF GolemInv, Agreed, Mentioned, Rows
  <2>7. GolemInv(run)'
    BY <1>1, <2>1, <2>2, <2>3, <2>4, <2>5, <2>6 DEF GolemInv
  <2>8. OnGolem'
    BY <1>1, <1>6 DEF OnGolem
  <2> QED
    BY <1>3, <1>5, <2>7, <2>8 DEF Inv
<1>7. CASE ~OnGolem
  <2>1. IdsMean' /\ \A x \in told' : x.id =< next_session'
    BY <1>1, <1>7 DEF Inv, NativeInv, IdsMean
  <2> QED
    BY <1>1, <1>3, <1>5, <1>7, <2>1, NativeStep DEF Inv
<1> QED
  BY <1>6, <1>7

LEMMA NextInv ==
    ASSUME Inv, [Next]_vars
    PROVE  Inv'
<1>1. CASE Request
  BY <1>1, RequestStep
<1>2. CASE Build
  BY <1>2, BuildStep
<1>3. CASE Call
  BY <1>3, CallStep
<1>4. CASE Finish
  BY <1>4, FinishStep
<1>5. CASE Crash
  BY <1>5, CrashStep
<1>6. CASE UNCHANGED vars
  BY <1>6, Stutter
<1> QED
  BY <1>1, <1>2, <1>3, <1>4, <1>5, <1>6 DEF Next, Work

LEMMA SpecInv == Spec => []Inv
<1>1. Init => Inv
  BY InitInv
<1>2. Inv /\ [Next]_vars => Inv'
  BY NextInv
<1> QED
  BY <1>1, <1>2, PTL DEF Spec

-----------------------------------------------------------------------------
(* The log.  A line's step writes one record or none.                      *)
LogSound ==
    IF OnGolem THEN HoldsLast(buffer, records) /\ (records # <<>> => file = buffer)
               ELSE GoesWith(file, records)

LEMMA LogSteps ==
    ASSUME [Next]_vars
    PROVE  /\ UNCHANGED host
           /\ \/ UNCHANGED log
              \/ \E len \in Nat \ {0} : Emit(len)
              \/ records' = <<>> /\ buffer' = <<>>
<1>1. \A op \in Ops : LineLen[op] \in Nat \ {0}
  BY HostAssumption
<1>2. ASSUME NEW line, line.op \in Ops, Enter(line)
      PROVE  UNCHANGED host /\ \E len \in Nat \ {0} : Emit(len)
  BY <1>1, <1>2 DEF Enter
<1>3. CASE Request
  <2> DEFINE Some == \E line : line.op \in Ops /\ Enter(line)
  <2>1. ASSUME NEW s, NEW url, Add(s, url) PROVE Some
    <3>1. PICK line : line = [op |-> "add", server |-> s, url |-> url]
      OBVIOUS
    <3>2. line.op \in Ops /\ Enter(line)
      BY <2>1, <3>1 DEF Add, Begin, Ops
    <3> QED
      BY <3>2
  <2>2. ASSUME NEW s, McpReload(s) PROVE Some
    <3>1. PICK line : line = [op |-> "reload", server |-> s]
      OBVIOUS
    <3>2. line.op \in Ops /\ Enter(line)
      BY <2>2, <3>1 DEF McpReload, Begin, Ops
    <3> QED
      BY <3>2
  <2>3. ASSUME NEW s, McpRemove(s) PROVE Some
    <3>1. PICK line : line = [op |-> "remove", server |-> s]
      OBVIOUS
    <3>2. line.op \in Ops /\ Enter(line)
      BY <2>3, <3>1 DEF McpRemove, Begin, Ops
    <3> QED
      BY <3>2
  <2>4. ASSUME NEW s, SessionOpen(s) PROVE Some
    <3>1. PICK line : line = [op |-> "open", server |-> s]
      OBVIOUS
    <3>2. line.op \in Ops /\ Enter(line)
      BY <2>4, <3>1 DEF SessionOpen, Begin, Ops
    <3> QED
      BY <3>2
  <2>5. ASSUME NEW id, SessionClose(id) PROVE Some
    <3>1. PICK line : line = [op |-> "close", id |-> id]
      OBVIOUS
    <3>2. line.op \in Ops /\ Enter(line)
      BY <2>5, <3>1 DEF SessionClose, Begin, Ops
    <3> QED
      BY <3>2
  <2>6. ASSUME NEW s, NEW named, Tool(s, named) PROVE Some
    <3>1. PICK line : line = [op |-> "tool", server |-> s, named |-> named]
      OBVIOUS
    <3>2. line.op \in Ops /\ Enter(line)
      BY <2>6, <3>1 DEF Tool, Begin, Ops
    <3> QED
      BY <3>2
  <2>7. ASSUME NEW line \in Attempts, Refuse(line) PROVE Some
    <3>1. line.op \in Ops
      BY DEF Attempts, Ops
    <3> QED
      BY <2>7, <3>1 DEF Refuse
  <2> HIDE DEF Some
  <2>8. Some
    BY <1>3, <2>1, <2>2, <2>3, <2>4, <2>5, <2>6, <2>7 DEF Request
  <2> QED
    BY <1>2, <2>8 DEF Some
<1>4. CASE Build
  BY <1>4 DEF Build
<1>5. CASE Call
  BY <1>5 DEF Call
<1>6. CASE Finish
  <2>1. 1 \in Nat \ {0}
    OBVIOUS
  <2> QED
    BY <1>6, <2>1 DEF Finish
<1>7. CASE Crash
  BY <1>7 DEF Crash
<1>8. CASE UNCHANGED vars
  BY <1>8 DEF vars
<1> QED
  BY <1>3, <1>4, <1>5, <1>6, <1>7, <1>8 DEF Next, Work

LEMMA EmitSound ==
    ASSUME LogTypes, LogSound, UNCHANGED host, NEW len \in Nat \ {0}, Emit(len)
    PROVE  LogSound'
<1>1. PICK r : r = [id |-> Len(records) + 1, len |-> len]
  OBVIOUS
<1>2. r \in Record
  BY <1>1, NewRecord
<1>3. /\ records' = Append(records, r)
      /\ buffer' = IF OnGolem THEN BoundTail(buffer \o Text(r)) ELSE buffer
      /\ file' = IF OnGolem THEN buffer' ELSE Rotated(file \o Text(r))
  BY <1>1 DEF Emit
<1>4. records \in Seq(Record)
  BY DEF LogTypes
<1>5. OnGolem' <=> OnGolem
  BY DEF OnGolem
<1>6. CASE OnGolem
  <2>1. HoldsLast(buffer, records)
    BY <1>6 DEF LogSound
  <2>2. HoldsLast(BoundTail(buffer \o Text(r)), Append(records, r))
    BY <1>2, <1>4, <2>1, HoldsOneMore
  <2>3. HoldsLast(buffer', records')
    BY <1>3, <1>6, <2>2
  <2> QED
    BY <1>3, <1>5, <1>6, <2>3 DEF LogSound
<1>7. CASE ~OnGolem
  <2>1. GoesWith(file, records)
    BY <1>7 DEF LogSound
  <2>2. GoesWith(Rotated(file \o Text(r)), Append(records, r))
    BY <1>2, <1>4, <2>1, GoesOneMore
  <2> QED
    BY <1>3, <1>5, <1>7, <2>2 DEF LogSound
<1> QED
  BY <1>6, <1>7

LEMMA NoRecords ==
    ASSUME NEW f \in Seq(Bytes)
    PROVE  HoldsLast(<<>>, <<>>) /\ GoesWith(f, <<>>)
<1>1. <<>> \in Seq(Record) /\ Len(<<>>) = 0 /\ 0 \in 0..Len(<<>>)
  OBVIOUS
<1>2. Part(<<>>, 0, Len(<<>>)) = <<>>
  BY <1>1, PartNone
<1>3. LeavesOut(<<>>, <<>>, 0)
  BY <1>1, <1>2, LogAssumption DEF LeavesOut
<1> QED
  BY <1>1, <1>3, HoldsLastLeaves, GoesWithNone

LEMMA LogStep ==
    ASSUME LogTypes, LogTypes', LogSound, [Next]_vars
    PROVE  LogSound'
<1>1. host' = host
  BY LogSteps
<1>2. OnGolem' <=> OnGolem
  BY <1>1 DEF OnGolem
<1>3. CASE UNCHANGED log
  BY <1>2, <1>3 DEF LogSound, log
<1>4. CASE \E len \in Nat \ {0} : Emit(len)
  BY <1>1, <1>4, EmitSound
<1>5. CASE records' = <<>> /\ buffer' = <<>>
  <2>1. file' \in Seq(Bytes)
    BY DEF LogTypes
  <2> QED
    BY <1>5, <2>1, NoRecords DEF LogSound
<1> QED
  BY <1>3, <1>4, <1>5, LogSteps

LEMMA SpecLog == Spec => [](LogTypes /\ LogSound)
<1>1. Inv => LogTypes
  BY InvTypes
<1>2. Init => LogSound
  <2> SUFFICES ASSUME Init PROVE LogSound
    OBVIOUS
  <2>1. file = <<>> /\ buffer = <<>> /\ records = <<>>
    BY DEF Init
  <2>2. <<>> \in Seq(Bytes)
    OBVIOUS
  <2> QED
    BY <2>1, <2>2, NoRecords DEF LogSound
<1>3. LogTypes /\ LogTypes' /\ LogSound /\ [Next]_vars => LogSound'
  BY LogStep
<1> QED
  BY <1>1, <1>2, <1>3, SpecInv, PTL DEF Spec

-----------------------------------------------------------------------------
(* What it says of a state.                                                *)
LEMMA InvTable ==
    ASSUME Inv
    PROVE  SessionTable
<1>0. TypeOK /\ Sound(Now)
  BY InvTypes
<1>1. /\ Len(sessions) =< MaxSessions /\ Ordered(sessions)
      /\ \A x \in Rows(sessions) : x.id =< next_session /\ servers[x.server] \in Entry
  BY <1>0, NowFields DEF Sound, TableSound
<1>2. \A i \in DOMAIN sessions : sessions[i] \in Rows(sessions)
  BY DEF Rows
<1> QED
  BY <1>1, <1>2, Constants DEF SessionTable, Ordered

LEMMA InvIds ==
    ASSUME Inv
    PROVE  IdsMean
<1>1. CASE ~OnGolem
  BY <1>1 DEF Inv, NativeInv
<1>2. CASE OnGolem /\ built
  <2>1. PICK run : GolemInv(run)
    BY <1>2 DEF Inv
  <2>2. sessions = run[cursor].sessions /\ cursor \in 0..Len(oplog)
    BY <1>2, <2>1, NowFields, InvTypes DEF GolemInv, Matches, Astray, Near
  <2>3. told \subseteq Mentioned(run) /\ Rows(sessions) \subseteq Mentioned(run)
    BY <2>2 DEF Mentioned
  <2>4. \A x, y \in Mentioned(run) : x.id = y.id => x = y
    BY <2>1 DEF GolemInv, Agreed
  <2> QED
    BY <2>3, <2>4, IdsMeanRows
<1>3. CASE ~built
  BY <1>3 DEF Inv, Unbuilt, IdsMean
<1> QED
  BY <1>1, <1>2, <1>3

LEMMA InvConverges ==
    ASSUME Inv
    PROVE  Converges
<1> SUFFICES ASSUME built, job = Idle, Live, kept.at = cursor PROVE kept.memory = Memory
  BY DEF Converges
<1>0. TypeOK /\ Len(oplog) \in Nat /\ cursor \in 0..Len(oplog)
  BY InvTypes
<1>1. OnGolem
  BY <1>0 DEF Inv, NativeInv
<1>2. PICK run : GolemInv(run)
  BY <1>1 DEF Inv
<1>3. kept.memory = MemoryOf(run[cursor])
  BY <1>0, <1>2 DEF GolemInv, Keeping
<1>4. /\ sessions = run[cursor].sessions /\ next_session = run[cursor].next
      /\ Known(servers, run[cursor].servers) /\ cursor = Len(oplog)
  BY <1>2, NowFields DEF GolemInv, Matches, Astray, Near, Live
<1>5. \A s \in Servers :
        servers[s] = IF run[cursor].servers[s] = Torn THEN None ELSE run[cursor].servers[s]
  BY <1>2, <1>4 DEF GolemInv, Spoken, Known
<1>6. servers = [s \in Servers |-> servers[s]]
  BY <1>0 DEF TypeOK
<1>7. servers = [s \in Servers |-> IF run[cursor].servers[s] = Torn THEN None
                                   ELSE run[cursor].servers[s]]
  BY <1>5, <1>6
<1> QED
  BY <1>3, <1>4, <1>7 DEF Memory, mcp, MemoryOf

LEMMA AskedWasTaken ==
    ASSUME NEW run, IsRun(run), refusals \subseteq 1..Len(oplog), Len(oplog) \in Nat,
           NEW c \in 0..Len(oplog), run[c].job.pc = "call"
    PROVE  c \notin refusals
<1> SUFFICES ASSUME c \in refusals PROVE FALSE
  OBVIOUS
<1>1. PICK d \in 0..(Len(oplog) - 1) : c = d + 1
  <2>1. c \in 1..Len(oplog) /\ c - 1 \in 0..(Len(oplog) - 1) /\ c = (c - 1) + 1
    OBVIOUS
  <2> QED
    BY <2>1
<1>2. /\ Recorded(issued, run[d], oplog[d + 1], d + 1 \in refusals)
      /\ run[d + 1] = After(run[d], oplog[d + 1], d + 1 \in refusals)
  BY DEF IsRun
<1>3. run[d].job.pc # "call"
  BY <1>1, <1>2 DEF Recorded
<1>4. run[c] = Turned(run[d], oplog[d + 1])
  BY <1>1, <1>2, <1>3 DEF After
<1> QED
  BY <1>4, SnapFields, JobFields DEF Turned

LEMMA InvReplays ==
    ASSUME Inv
    PROVE  Replays
<1> SUFFICES ASSUME built, OnGolem
             PROVE  /\ job.pc = "idle" /\ ~Live =>
                         /\ oplog[cursor + 1] \in Line
                         /\ cursor + 1 \in refusals \/ Accepts(oplog[cursor + 1])
                    /\ job.pc = "call" => IF cursor \in refusals THEN ~Live
                                          ELSE Live \/ oplog[cursor + 1] \in Answer
  BY DEF Replays
<1>0. TypeOK /\ Len(oplog) \in Nat /\ cursor \in 0..Len(oplog) /\ job \in Jobs
  BY InvTypes
<1>1. PICK run : GolemInv(run)
  BY DEF Inv
<1>2. PICK r : r = run[cursor]
  OBVIOUS
<1>3. Matches(Now, r) \/ Astray(r)
  BY <1>1, <1>2 DEF GolemInv
<1>4. ~Live => Recorded(issued, r, oplog[cursor + 1], cursor + 1 \in refusals)
  <2>1. ~Live => cursor \in 0..(Len(oplog) - 1)
    BY <1>0 DEF Live
  <2> QED
    BY <1>1, <1>2, <2>1 DEF GolemInv, IsRun
<1>5. ASSUME job.pc = "idle", ~Live
      PROVE  /\ oplog[cursor + 1] \in Line
             /\ cursor + 1 \in refusals \/ Accepts(oplog[cursor + 1])
  <2>1. Matches(Now, r) /\ job = Idle
    BY <1>0, <1>3, <1>5, JobTypes DEF Astray
  <2>2. r.job.pc # "call"
    BY <1>5, <2>1, NowFields, JobTypes DEF Matches
  <2>3. /\ oplog[cursor + 1] \in Line
        /\ cursor + 1 \in refusals \/ Firm(r, oplog[cursor + 1])
    BY <1>4, <1>5, <2>2 DEF Recorded
  <2> QED
    BY <1>0, <2>1, <2>3, AcceptedAgain
<1>6. ASSUME job.pc = "call"
      PROVE  IF cursor \in refusals THEN ~Live ELSE Live \/ oplog[cursor + 1] \in Answer
  <2>1. CASE Matches(Now, r)
    <3>1. r.job.pc = "call"
      BY <1>6, <2>1, NowFields, JobTypes DEF Matches
    <3>2. cursor \notin refusals
      BY <1>0, <1>1, <1>2, <3>1, AskedWasTaken DEF GolemInv
    <3>3. Live \/ oplog[cursor + 1] \in Answer
      BY <1>4, <3>1 DEF Recorded, AnswersCall
    <3> QED
      BY <3>2, <3>3
  <2>2. CASE Astray(r)
    BY <2>2 DEF Astray
  <2> QED
    BY <1>3, <2>1, <2>2
<1> QED
  BY <1>5, <1>6

-----------------------------------------------------------------------------
(* Memory, disk, log and oplog keep their types on either host: no server  *)
(* in memory has a torn config, whatever boot finds.                       *)
THEOREM AgentTypeCorrect == Spec => []TypeOK
<1>1. Inv => TypeOK
  BY DEF Inv
<1> QED
  BY <1>1, SpecInv, PTL

(* The session table of crates/clank-core/src/mcp/state.rs stays within    *)
(* its bound, in the order of the ids, none ahead of the counter, each     *)
(* session with a server that is known.                                    *)
THEOREM TableIsSound == Spec => []SessionTable
<1>1. Inv => SessionTable
  BY InvTable
<1> QED
  BY <1>1, SpecInv, PTL

(* A session id goes to the endpoint that issued it, after any adding,     *)
(* removing, reloading and replaying.                                      *)
THEOREM SidsGoHome == Spec => []SentHome
<1>1. Inv => SentHome
  BY DEF Inv
<1> QED
  BY <1>1, SpecInv, PTL

(* The id that `mcp session open` printed never comes to stand for another *)
(* session, also not for an instance that is run again from its oplog.     *)
THEOREM IdsKeepMeaning == Spec => []IdsMean
<1>1. Inv => IdsMean
  BY InvIds
<1> QED
  BY <1>1, SpecInv, PTL

(* However often the instance dies and whatever it finds on disk: with the *)
(* oplog used up it remembers what it remembered.                          *)
THEOREM ReplayConverges == Spec => []Converges
<1>1. Inv => Converges
  BY InvConverges
<1> QED
  BY <1>1, SpecInv, PTL

(* A replay refuses no line that was taken at first, and asks for an       *)
(* answer where a line is recorded only for a line that was refused at     *)
(* first, over files that a later line wrote: never for the last of all.   *)
THEOREM ReplayFollows == Spec => []Replays
<1>1. Inv => Replays
  BY InvReplays
<1> QED
  BY <1>1, SpecInv, PTL

(* shell.log holds the end of what was logged, record by record: the sink  *)
(* of either host cuts between records only, whatever was in the file, and *)
(* the agent's has nothing else in it.                                     *)
THEOREM LogIsTail == Spec => []LogKept
<1>1. LogTypes /\ LogSound => LogKept
  <2> SUFFICES ASSUME LogTypes, LogSound, records # <<>>
               PROVE  IF OnGolem THEN HoldsLast(file, records) ELSE EndsWithLast(file, records)
    BY DEF LogKept
  <2>1. records \in Seq(Record)
    BY DEF LogTypes
  <2> QED
    BY <2>1, GoesWithEnds DEF LogSound
<1> QED
  BY <1>1, SpecLog, PTL
=============================================================================
