--------------------------- MODULE Session_proofs ---------------------------
(***************************************************************************)
(* What a session keeps whatever its lines, answers, jobs and bounds, and  *)
(* before it what its two parts guarantee by themselves.  The process      *)
(* table: what its operations keep, for every table.  The gate: for every  *)
(* command line, however long, the strictest segment exists, a line it     *)
(* lets through has no gated segment, and a confirmation names every       *)
(* segment it covers.                                                      *)
(***************************************************************************)
EXTENDS Session, FiniteSetTheorems, WellFoundedInduction, TLAPS

(* A new row makes a table of a table.                                     *)
LEMMA SpawnedTable ==
    ASSUME NEW T, IsTable(T), NEW pid \in Pids, NEW parent \in Nat, NEW st \in ProcState
    PROVE  /\ IsTable(Spawned(T, pid, parent, st))
           /\ DOMAIN Spawned(T, pid, parent, st) = DOMAIN T \cup {pid}
<1> DEFINE U == Spawned(T, pid, parent, st)
<1>1. DOMAIN U = DOMAIN T \cup {pid}
  BY DEF Spawned
<1>2. IsFiniteSet(DOMAIN U)
  BY <1>1, FS_AddElement DEF IsTable
<1>3. \A p \in DOMAIN U : U[p] \in Row
  BY DEF IsTable, Spawned, Row
<1>4. U \in [DOMAIN U -> Row]
  BY <1>3 DEF Spawned
<1> QED
  BY <1>1, <1>2, <1>4 DEF IsTable

(* Pausing and resuming change states, not rows.                           *)
LEMMA MovedTable ==
    ASSUME NEW T, IsTable(T), NEW pid, NEW from, NEW to \in ProcState
    PROVE  IsTable(Moved(T, pid, from, to)) /\ DOMAIN Moved(T, pid, from, to) = DOMAIN T
<1> DEFINE U == [T EXCEPT ![pid].state = to]
<1>1. CASE pid \in InState(T, from)
  <2>1. Moved(T, pid, from, to) = U
    BY <1>1 DEF Moved
  <2>2. T \in [DOMAIN T -> Row] /\ pid \in DOMAIN T
    BY <1>1 DEF IsTable, InState
  <2>3. U \in [DOMAIN T -> Row] /\ DOMAIN U = DOMAIN T
    BY <2>2 DEF Row
  <2> QED
    BY <2>1, <2>3 DEF IsTable
<1>2. CASE pid \notin InState(T, from)
  BY <1>2 DEF Moved
<1> QED
  BY <1>1, <1>2

(* What is left of a table is a table.                                     *)
LEMMA KeptTable ==
    ASSUME NEW T, IsTable(T), NEW S, S \subseteq DOMAIN T,
           NEW U, U \in [S -> Row]
    PROVE  IsTable(U)
<1>1. IsFiniteSet(S) /\ S \subseteq Pids
  BY FS_Subset DEF IsTable
<1> QED
  BY <1>1 DEF IsTable

LEMMA CompletedAllTable ==
    ASSUME NEW T, IsTable(T), NEW ps
    PROVE  IsTable(CompletedAll(T, ps)) /\ DOMAIN CompletedAll(T, ps) \subseteq DOMAIN T
<1> DEFINE leaving == {p \in Dead(T) \cup ps :
                          ps # {} /\ TurnToLeave(T, ps, p) < Excess(T)}
           S == DOMAIN T \ leaving
           U == [p \in S |-> IF p \in ps THEN [T[p] EXCEPT !.state = "Z"] ELSE T[p]]
<1>1. CompletedAll(T, ps) = U
  BY DEF CompletedAll
<1>2. S \subseteq DOMAIN T
  OBVIOUS
<1> HIDE DEF S
<1>3. \A p \in S : T[p] \in Row
  BY <1>2 DEF IsTable
<1>4. \A p \in S : [T[p] EXCEPT !.state = "Z"] \in Row
  BY <1>3 DEF Row, ProcState
<1>5. U \in [S -> Row] /\ DOMAIN U = S
  BY <1>3, <1>4
<1> QED
  BY <1>1, <1>2, <1>5, KeptTable

LEMMA PrunedTable ==
    ASSUME NEW T, IsTable(T)
    PROVE  IsTable(Pruned(T)) /\ DOMAIN Pruned(T) \subseteq DOMAIN T
<1> DEFINE S == DOMAIN T \ {p \in Dead(T) : Older(Dead(T), p) < Excess(T)}
           U == [p \in S |-> T[p]]
<1>1. Pruned(T) = U
  BY DEF Pruned
<1>2. S \subseteq DOMAIN T
  OBVIOUS
<1> HIDE DEF S
<1>3. U \in [S -> Row] /\ DOMAIN U = S
  BY <1>2 DEF IsTable
<1> QED
  BY <1>1, <1>2, <1>3, KeptTable

(* Completing a row, whether it is there or not.                           *)
LEMMA FinishedTable ==
    ASSUME NEW T, IsTable(T), NEW pid
    PROVE  IsTable(Finished(T, pid)) /\ DOMAIN Finished(T, pid) \subseteq DOMAIN T
BY CompletedAllTable, PrunedTable DEF Finished, Completed

LEMMA EmptyTable == ASSUME NEW T, DOMAIN T = {}, T \in [DOMAIN T -> Row] PROVE IsTable(T)
BY FS_EmptySet DEF IsTable
-----------------------------------------------------------------------------
(* The rows by state.                                                      *)
LEMMA SpawnedStates ==
    ASSUME NEW T, NEW pid, pid \notin DOMAIN T, NEW parent, NEW st, NEW s
    PROVE  InState(Spawned(T, pid, parent, st), s)
             = InState(T, s) \cup (IF s = st THEN {pid} ELSE {})
BY DEF InState, Spawned

LEMMA MovedStates ==
    ASSUME NEW T, IsTable(T), NEW from, NEW to, from # to, NEW pid \in InState(T, from), NEW s
    PROVE  InState(Moved(T, pid, from, to), s)
             = (InState(T, s) \ {pid}) \cup (IF s = to THEN {pid} ELSE {})
<1> DEFINE U == [T EXCEPT ![pid].state = to]
<1>1. T \in [DOMAIN T -> Row] /\ pid \in DOMAIN T /\ T[pid].state = from
  BY DEF IsTable, InState
<1>2. DOMAIN U = DOMAIN T /\ U[pid].state = to
  BY <1>1 DEF Row
<1>3. \A p \in DOMAIN T \ {pid} : U[p] = T[p]
  BY <1>1
<1>4. Moved(T, pid, from, to) = U
  BY DEF Moved
<1> HIDE DEF U
<1> QED
  BY <1>1, <1>2, <1>3, <1>4 DEF InState

LEMMA CompletedAllStates ==
    ASSUME NEW T, IsTable(T), NEW ps, NEW s, s # "Z"
    PROVE  InState(CompletedAll(T, ps), s) = InState(T, s) \ ps
<1> DEFINE leaving == {p \in Dead(T) \cup ps :
                          ps # {} /\ TurnToLeave(T, ps, p) < Excess(T)}
           S == DOMAIN T \ leaving
           U == [p \in S |-> IF p \in ps THEN [T[p] EXCEPT !.state = "Z"] ELSE T[p]]
<1>1. CompletedAll(T, ps) = U
  BY DEF CompletedAll
<1>2. \A p \in leaving : p \in ps \/ T[p].state = "Z"
  BY DEF Dead, InState
<1> HIDE DEF leaving
<1>3. \A p \in DOMAIN T : T[p] \in Row
  BY DEF IsTable
<1>4. \A p \in S : /\ p \in ps => U[p].state = "Z"
                   /\ p \notin ps => U[p] = T[p]
  BY <1>3 DEF Row
<1>5. DOMAIN U = S
  OBVIOUS
<1> HIDE DEF U
<1> QED
  BY <1>1, <1>2, <1>4, <1>5 DEF InState

LEMMA PrunedStates ==
    ASSUME NEW T, NEW s, s # "Z" PROVE InState(Pruned(T), s) = InState(T, s)
BY DEF Pruned, InState, Dead

(* Whoever is completed is in no live state any more, the others stay.     *)
LEMMA FinishedStates ==
    ASSUME NEW T, IsTable(T), NEW pid, NEW s, s # "Z"
    PROVE  InState(Finished(T, pid), s) = InState(T, s) \ {pid}
<1>1. CASE pid = NoPid
  BY <1>1 DEF Finished, InState, IsTable, Pids
<1>2. CASE pid # NoPid /\ pid \in Live(T)
  BY <1>2, CompletedAllStates DEF Finished, Completed
<1>3. CASE pid # NoPid /\ pid \notin Live(T)
  <2>1. pid \notin InState(T, s)
    BY <1>3 DEF InState, Live
  <2> QED
    BY <1>3, <2>1, PrunedStates DEF Finished, Completed
<1> QED
  BY <1>1, <1>2, <1>3
-----------------------------------------------------------------------------
(* How many rows are over.                                                 *)

(* The members of a set, counted from the oldest, each has a turn.         *)
LEMMA OlderRanks ==
    ASSUME NEW S \in SUBSET Nat, IsFiniteSet(S)
    PROVE  /\ Cardinality(S) \in Nat
           /\ \A p \in S : Older(S, p) \in 0..Cardinality(S) - 1
           /\ \A p, q \in S : p # q => Older(S, p) # Older(S, q)
<1> DEFINE Before(p) == {q \in S : q < p}
<1>1. Cardinality(S) \in Nat
  BY FS_CardinalityType
<1>2. ASSUME NEW p \in S
      PROVE  IsFiniteSet(Before(p)) /\ Older(S, p) = Cardinality(Before(p)) /\ Older(S, p) \in Nat
  <2>1. IsFiniteSet(Before(p))
    BY FS_Subset
  <2> QED
    BY <2>1, FS_CardinalityType DEF Older
<1>3. ASSUME NEW p \in S PROVE Older(S, p) =< Cardinality(S) - 1
  <2>1. IsFiniteSet(S \ {p}) /\ Cardinality(S \ {p}) = Cardinality(S) - 1
    BY FS_RemoveElement
  <2>2. Before(p) \in SUBSET (S \ {p})
    OBVIOUS
  <2> HIDE DEF Before
  <2> QED
    BY <1>2, <2>1, <2>2, FS_Subset
<1>4. ASSUME NEW p \in S, NEW q \in S, p < q PROVE Older(S, p) < Older(S, q)
  <2>1. p \in Before(q) /\ Before(p) \in SUBSET (Before(q) \ {p})
    <3>1. p \in Nat /\ q \in Nat
      OBVIOUS
    <3>2. ASSUME NEW r \in Before(p) PROVE r \in Before(q) \ {p}
      <4>1. r \in S /\ r \in Nat /\ r < p
        OBVIOUS
      <4> QED
        BY <1>4, <3>1, <4>1
    <3> QED
      BY <1>4, <3>2
  <2> HIDE DEF Before
  <2>2. /\ IsFiniteSet(Before(q) \ {p})
        /\ Cardinality(Before(q) \ {p}) = Cardinality(Before(q)) - 1
    BY <1>2, <2>1, FS_RemoveElement
  <2>3. Cardinality(Before(p)) =< Cardinality(Before(q)) - 1
    BY <2>1, <2>2, FS_Subset
  <2>4. /\ Older(S, p) = Cardinality(Before(p)) /\ Older(S, p) \in Nat
        /\ Older(S, q) = Cardinality(Before(q)) /\ Older(S, q) \in Nat
    BY <1>2
  <2> QED
    BY <2>3, <2>4
<1>5. ASSUME NEW p \in S, NEW q \in S, p # q PROVE Older(S, p) # Older(S, q)
  <2>1. p < q \/ q < p
    BY <1>5
  <2>2. Older(S, p) \in Nat /\ Older(S, q) \in Nat
    BY <1>2
  <2> QED
    BY <1>4, <2>1, <2>2
<1>6. ASSUME NEW p \in S PROVE Older(S, p) \in 0..Cardinality(S) - 1
  <2>1. Older(S, p) \in Nat /\ Older(S, p) =< Cardinality(S) - 1
    BY <1>2, <1>3
  <2> QED
    BY <1>1, <2>1
<1> HIDE DEF Before
<1> QED
  BY <1>1, <1>5, <1>6

(* Of a set whose members have turns, those that come no earlier than e    *)
(* are at most as many as are left then.                                   *)
LEMMA LateOnes ==
    ASSUME NEW S, IsFiniteSet(S), NEW turn, NEW n \in Nat, NEW e \in Nat, n = Cardinality(S),
           \A p \in S : turn[p] \in 0..n - 1,
           \A p, q \in S : p # q => turn[p] # turn[q]
    PROVE  Cardinality({p \in S : e =< turn[p]}) =< IF e =< n THEN n - e ELSE 0
<1> DEFINE late == {p \in S : e =< turn[p]}
           f == [p \in late |-> turn[p]]
<1>1. \A p \in late : f[p] \in e..n - 1
  OBVIOUS
<1>2. \A p, q \in late : f[p] = f[q] => p = q
  OBVIOUS
<1>3. f \in [late -> e..n - 1]
  BY <1>1
<1>4. f \in Injection(late, e..n - 1)
  BY <1>2, <1>3 DEF Injection, IsInjective
<1>5. /\ IsFiniteSet(e..n - 1)
      /\ Cardinality(e..n - 1) = IF e > n - 1 THEN 0 ELSE n - 1 - e + 1
  <2> DEFINE m == n - 1
  <2>1. m \in Int /\ e \in Int
    OBVIOUS
  <2> HIDE DEF m
  <2>2. IsFiniteSet(e..m) /\ Cardinality(e..m) = IF e > m THEN 0 ELSE m - e + 1
    BY <2>1, FS_Interval
  <2> QED
    BY <2>2 DEF m
<1> HIDE DEF late, f
<1>6. Cardinality(late) =< Cardinality(e..n - 1)
  BY <1>4, <1>5, FS_Injection
<1> QED
  BY <1>5, <1>6 DEF late

LEMMA DeadFinite ==
    ASSUME NEW T, IsTable(T)
    PROVE  /\ IsFiniteSet(Dead(T)) /\ Dead(T) \in SUBSET Nat
           /\ Cardinality(Dead(T)) \in Nat /\ Cardinality(DOMAIN T) \in Nat
           /\ Cardinality(Dead(T)) =< Cardinality(DOMAIN T)
<1>1. Dead(T) \in SUBSET (DOMAIN T)
  BY DEF Dead, InState
<1>2. IsFiniteSet(Dead(T)) /\ Cardinality(Dead(T)) =< Cardinality(DOMAIN T)
  BY <1>1, FS_Subset DEF IsTable
<1> QED
  BY <1>1, <1>2, FS_CardinalityType DEF IsTable, Pids
(* While rows ps are completed, all rows that are or will be over have     *)
(* turns to leave.                                                         *)
LEMMA TurnRanks ==
    ASSUME NEW T, IsTable(T), NEW ps \in SUBSET Live(T)
    PROVE  /\ IsFiniteSet(Dead(T) \cup ps)
           /\ \A p \in Dead(T) \cup ps :
                TurnToLeave(T, ps, p) \in 0..Cardinality(Dead(T) \cup ps) - 1
           /\ \A p, q \in Dead(T) \cup ps :
                p # q => TurnToLeave(T, ps, p) # TurnToLeave(T, ps, q)
<1> DEFINE first == {q \in ps : \A r \in ps : q =< r}
           A == Dead(T) \cup first
           B == ps \ first
           D == Dead(T) \cup ps
           a == Cardinality(A)
           b == Cardinality(B)
<1>1. D \in SUBSET (DOMAIN T) /\ Dead(T) \cap ps = {}
  BY DEF Dead, Live, InState
<1>2. IsFiniteSet(D) /\ D \in SUBSET Nat
  BY <1>1, FS_Subset DEF IsTable, Pids
<1>3. D = A \cup B /\ A \cap B = {}
  BY <1>1
<1>4. \A p \in D : TurnToLeave(T, ps, p) = IF p \in A THEN Older(A, p) ELSE a + Older(B, p)
  BY DEF TurnToLeave
<1> HIDE DEF first, A, B, D
<1>5. /\ IsFiniteSet(A) /\ A \in SUBSET Nat /\ IsFiniteSet(B) /\ B \in SUBSET Nat
  <2>1. A \in SUBSET D /\ B \in SUBSET D
    BY <1>3
  <2> QED
    BY <1>2, <2>1, FS_Subset
<1>6. a \in Nat /\ b \in Nat /\ Cardinality(D) = a + b
  <2>1. Cardinality(A \cup B) = a + b - Cardinality(A \cap B)
    BY <1>5, FS_Union
  <2>2. a \in Nat /\ b \in Nat /\ Cardinality(A \cap B) = 0
    BY <1>3, <1>5, FS_CardinalityType, FS_EmptySet
  <2> HIDE DEF a, b
  <2> QED
    BY <1>3, <2>1, <2>2
<1>7. /\ \A p \in A : Older(A, p) \in 0..a - 1
      /\ \A p, q \in A : p # q => Older(A, p) # Older(A, q)
      /\ \A p \in B : Older(B, p) \in 0..b - 1
      /\ \A p, q \in B : p # q => Older(B, p) # Older(B, q)
  BY <1>5, OlderRanks
<1> HIDE DEF a, b
<1>8. ASSUME NEW p \in D
      PROVE  TurnToLeave(T, ps, p) \in 0..a + b - 1
  <2>1. CASE p \in A
    BY <1>4, <1>6, <1>7, <2>1
  <2>2. CASE p \in B
    <3>1. p \notin A /\ Older(B, p) \in 0..b - 1 /\ TurnToLeave(T, ps, p) = a + Older(B, p)
      BY <1>3, <1>4, <1>7, <2>2
    <3> QED
      BY <1>6, <3>1
  <2> QED
    BY <1>3, <2>1, <2>2
<1>9. ASSUME NEW p \in D, NEW q \in D, p # q
      PROVE  TurnToLeave(T, ps, p) # TurnToLeave(T, ps, q)
  <2>1. CASE p \in A /\ q \in A
    BY <1>4, <1>7, <1>9, <2>1
  <2>2. CASE p \in B /\ q \in B
    <3>1. p \notin A /\ q \notin A /\ Older(B, p) \in 0..b - 1 /\ Older(B, q) \in 0..b - 1
      BY <1>3, <1>7, <2>2
    <3>2. Older(B, p) # Older(B, q)
      BY <1>7, <1>9, <2>2
    <3> QED
      BY <1>4, <1>6, <3>1, <3>2
  <2>3. CASE p \in A /\ q \in B
    <3>1. q \notin A /\ Older(A, p) \in 0..a - 1 /\ Older(B, q) \in 0..b - 1
      BY <1>3, <1>7, <2>3
    <3> QED
      BY <1>4, <1>6, <2>3, <3>1
  <2>4. CASE p \in B /\ q \in A
    <3>1. p \notin A /\ Older(A, q) \in 0..a - 1 /\ Older(B, p) \in 0..b - 1
      BY <1>3, <1>7, <2>4
    <3> QED
      BY <1>4, <1>6, <2>4, <3>1
  <2> QED
    BY <1>3, <2>1, <2>2, <2>3, <2>4
<1> QED
  BY <1>2, <1>6, <1>8, <1>9 DEF D

(* Of a table that is pruned by any such order no more than the cap of     *)
(* rows that are over is left.                                             *)
LEMMA KeptWithinCap ==
    ASSUME NEW T, IsTable(T), NEW D \in SUBSET (DOMAIN T), NEW turn,
           \A p \in D : turn[p] \in 0..Cardinality(D) - 1,
           \A p, q \in D : p # q => turn[p] # turn[q],
           NEW K \in SUBSET D, \A p \in K : ~(turn[p] < Excess(T))
    PROVE  Cardinality(K) =< MaxRows
<1> DEFINE n == Cardinality(D)
           all == Cardinality(DOMAIN T)
           e == Excess(T)
<1>1. IsFiniteSet(D) /\ n \in Nat /\ all \in Nat /\ n =< all /\ MaxRows \in Nat
  BY FS_Subset, FS_CardinalityType, MaxRowsAssumption DEF IsTable
<1>2. e = all - MaxRows
  BY DEF Excess
<1>3. Cardinality(K) \in Nat /\ Cardinality(K) =< n
  BY <1>1, FS_Subset, FS_CardinalityType
<1>4. CASE e =< 0
  BY <1>1, <1>2, <1>3, <1>4
<1>5. CASE e > 0
  <2> DEFINE late == {p \in D : e =< turn[p]}
  <2>1. e \in Nat
    BY <1>1, <1>2, <1>5
  <2>2. \A p \in D : turn[p] \in 0..n - 1
    OBVIOUS
  <2> HIDE DEF n, e
  <2>3. Cardinality(late) =< IF e =< n THEN n - e ELSE 0
    BY <1>1, <2>1, <2>2, LateOnes DEF n
  <2>4. K \in SUBSET late
    <3>1. \A p \in D : turn[p] \in Int
      BY <2>2
    <3>2. \A p \in K : p \in D /\ ~(turn[p] < e)
      BY DEF e
    <3> QED
      BY <2>1, <3>1, <3>2
  <2>5. IsFiniteSet(late) /\ Cardinality(late) \in Nat
    BY <1>1, FS_Subset, FS_CardinalityType
  <2> HIDE DEF late
  <2>6. Cardinality(K) =< Cardinality(late)
    BY <2>4, <2>5, FS_Subset
  <2> HIDE DEF all
  <2> QED
    BY <1>1, <1>2, <1>3, <2>1, <2>3, <2>5, <2>6
<1> HIDE DEF e, n, all
<1> QED
  BY <1>1, <1>2, <1>4, <1>5

(* The table after completing rows holds no more than the cap of rows that *)
(* are over, if it did before.                                             *)
Capped(T) == Cardinality(Dead(T)) =< MaxRows

LEMMA CompletedAllCapped ==
    ASSUME NEW T, IsTable(T), Capped(T), NEW ps \in SUBSET Live(T)
    PROVE  Capped(CompletedAll(T, ps))
<1> DEFINE D == Dead(T) \cup ps
           turn == [p \in D |-> TurnToLeave(T, ps, p)]
           leaving == {p \in D : ps # {} /\ TurnToLeave(T, ps, p) < Excess(T)}
           S == DOMAIN T \ leaving
           U == [p \in S |-> IF p \in ps THEN [T[p] EXCEPT !.state = "Z"] ELSE T[p]]
<1>1. CompletedAll(T, ps) = U
  BY DEF CompletedAll
<1>2. D \in SUBSET (DOMAIN T)
  BY DEF Dead, Live, InState
<1>3. Dead(U) \in SUBSET (D \ leaving)
  <2>1. \A p \in S : p \notin ps => U[p] = T[p]
    OBVIOUS
  <2>2. DOMAIN U = S /\ S = DOMAIN T \ leaving
    OBVIOUS
  <2> HIDE DEF U, S, leaving
  <2>3. ASSUME NEW p \in Dead(U) PROVE p \in D \ leaving
    <3>1. p \in S /\ U[p].state = "Z"
      BY <2>2 DEF Dead, InState
    <3>2. p \in DOMAIN T /\ p \notin leaving
      BY <2>2, <3>1
    <3> QED
      BY <2>1, <3>1, <3>2 DEF Dead, InState
  <2> QED
    BY <2>3
<1>4. CASE ps = {}
  <2>1. U = [p \in DOMAIN T |-> T[p]]
    BY <1>4
  <2>2. U = T
    BY <2>1 DEF IsTable
  <2> QED
    BY <1>1, <2>2
<1>5. CASE ps # {}
  <2> DEFINE K == Dead(U)
  <2>1. /\ \A p \in D : turn[p] \in 0..Cardinality(D) - 1
        /\ \A p, q \in D : p # q => turn[p] # turn[q]
    BY TurnRanks
  <2>2. \A p \in D \ leaving : ~(turn[p] < Excess(T))
    BY <1>5
  <2> HIDE DEF U, D, turn, leaving, S
  <2>3. K \in SUBSET D /\ \A p \in K : ~(turn[p] < Excess(T))
    BY <1>3, <2>2
  <2> HIDE DEF K
  <2>4. Cardinality(K) =< MaxRows
    BY <1>2, <2>1, <2>3, KeptWithinCap
  <2> QED
    BY <1>1, <2>4 DEF Capped, K
<1> QED
  BY <1>4, <1>5

LEMMA PrunedCapped ==
    ASSUME NEW T, IsTable(T) PROVE Capped(Pruned(T))
<1> DEFINE D == Dead(T)
           turn == [p \in D |-> Older(D, p)]
           K == Dead(Pruned(T))
<1>1. D \in SUBSET (DOMAIN T)
  BY DEF Dead, InState
<1>2. /\ \A p \in D : turn[p] \in 0..Cardinality(D) - 1
      /\ \A p, q \in D : p # q => turn[p] # turn[q]
  BY DeadFinite, OlderRanks
<1>3. ASSUME NEW p \in K PROVE p \in D /\ ~(Older(D, p) < Excess(T))
  BY DEF Pruned, Dead, InState
<1>4. K \in SUBSET D /\ \A p \in K : ~(turn[p] < Excess(T))
  BY <1>3
<1> HIDE DEF D, turn, K
<1>5. Cardinality(K) =< MaxRows
  BY <1>1, <1>2, <1>4, KeptWithinCap
<1> QED
  BY <1>5 DEF Capped, K

LEMMA FinishedCapped ==
    ASSUME NEW T, IsTable(T), Capped(T), NEW pid
    PROVE  Capped(Finished(T, pid))
<1>1. CASE pid = NoPid
  BY <1>1 DEF Finished
<1>2. CASE pid # NoPid /\ pid \in Live(T)
  <2>1. {pid} \in SUBSET Live(T)
    BY <1>2
  <2> QED
    BY <1>2, <2>1, CompletedAllCapped DEF Finished, Completed
<1>3. CASE pid # NoPid /\ pid \notin Live(T)
  BY <1>3, PrunedCapped DEF Finished, Completed
<1> QED
  BY <1>1, <1>2, <1>3

(* A row in a live state is not one that is over.                          *)
LEMMA SpawnedCapped ==
    ASSUME NEW T, Capped(T), NEW pid, pid \notin DOMAIN T, NEW parent, NEW st, st # "Z"
    PROVE  Capped(Spawned(T, pid, parent, st))
<1>1. InState(Spawned(T, pid, parent, st), "Z") = InState(T, "Z")
  BY DEF InState, Spawned
<1> QED
  BY <1>1 DEF Capped, Dead

LEMMA MovedCapped ==
    ASSUME NEW T, IsTable(T), Capped(T), NEW pid, NEW from \in LiveStates,
           NEW to \in LiveStates, from # to
    PROVE  Capped(Moved(T, pid, from, to))
<1>1. CASE pid \in InState(T, from)
  <2>1. Dead(Moved(T, pid, from, to)) = Dead(T) \ {pid}
    BY <1>1, MovedStates DEF Dead, LiveStates
  <2>2. pid \notin Dead(T)
    BY <1>1 DEF Dead, InState, LiveStates
  <2>3. Dead(T) \ {pid} = Dead(T)
    BY <2>2
  <2> QED
    BY <2>1, <2>3 DEF Capped
<1>2. CASE pid \notin InState(T, from)
  BY <1>2 DEF Moved
<1> QED
  BY <1>1, <1>2
-----------------------------------------------------------------------------
(* What becomes of the rows a table has: each keeps its parent, and its    *)
(* state unless it is over.                                                *)
Follows(T, U) == \A p \in DOMAIN T \cap DOMAIN U :
    U[p].ppid = T[p].ppid /\ U[p].state \in {T[p].state, "Z"}

LEMMA CompletedAllFollows ==
    ASSUME NEW T, IsTable(T), NEW ps PROVE Follows(T, CompletedAll(T, ps))
<1> DEFINE leaving == {p \in Dead(T) \cup ps :
                          ps # {} /\ TurnToLeave(T, ps, p) < Excess(T)}
           S == DOMAIN T \ leaving
           U == [p \in S |-> IF p \in ps THEN [T[p] EXCEPT !.state = "Z"] ELSE T[p]]
<1>1. CompletedAll(T, ps) = U
  BY DEF CompletedAll
<1>2. DOMAIN U = S
  OBVIOUS
<1> HIDE DEF leaving
<1>3. ASSUME NEW p \in S PROVE U[p].ppid = T[p].ppid /\ U[p].state \in {T[p].state, "Z"}
  <2>1. T[p] \in Row
    BY DEF IsTable
  <2> QED
    BY <2>1 DEF Row
<1> HIDE DEF U
<1> QED
  BY <1>1, <1>2, <1>3 DEF Follows

LEMMA FinishedFollows ==
    ASSUME NEW T, IsTable(T), NEW pid PROVE Follows(T, Finished(T, pid))
<1>1. Follows(T, T)
  BY DEF Follows
<1>2. Follows(T, Pruned(T))
  BY DEF Follows, Pruned
<1> QED
  BY <1>1, <1>2, CompletedAllFollows DEF Finished, Completed

LEMMA SpawnedFollows ==
    ASSUME NEW T, NEW pid, pid \notin DOMAIN T, NEW parent, NEW st
    PROVE  Follows(T, Spawned(T, pid, parent, st))
BY DEF Follows, Spawned

-----------------------------------------------------------------------------
LEMMA LeastNatural ==
    ASSUME NEW S \in SUBSET Nat, S # {}
    PROVE  \E n \in S : \A m \in S : n =< m
<1> DEFINE R == OpToRel(<, Nat)
<1>1. IsWellFoundedOn(R, Nat)
  BY NatLessThanWellFounded
<1>2. \A x, y \in Nat : <<x, y>> \in R <=> x < y
  BY DEF OpToRel
<1> HIDE DEF R
<1>3. PICK n \in S : \A m \in S : ~(<<m, n>> \in R)
  BY <1>1, WFMin
<1>4. \A m \in S : n =< m
  <2> SUFFICES ASSUME NEW m \in S PROVE n =< m
    OBVIOUS
  <2>1. m \in Nat /\ n \in Nat /\ ~(m < n)
    BY <1>2, <1>3
  <2> QED
    BY <2>1
<1> QED
  BY <1>4

-----------------------------------------------------------------------------
LEMMA DecisionRanks ==
    ASSUME NEW segs \in Seq(Segment), NEW i \in DOMAIN segs, NEW grant \in BOOLEAN
    PROVE  /\ Decide(segs[i], grant) \in {"Allow", "Confirm", "ConfirmSudo"}
           /\ RankAt(segs, i, grant) \in 0..2
           /\ RankAt(segs, i, grant) = 0 <=> Decide(segs[i], grant) = "Allow"
<1>1. segs[i] \in Segment
  OBVIOUS
<1>2. segs[i].tier \in Tiers
  BY <1>1 DEF Segment
<1>3. Decide(segs[i], grant) \in {"Allow", "Confirm", "ConfirmSudo"}
  BY <1>2 DEF Decide, Tiers
<1> QED
  BY <1>3 DEF RankAt, DecisionRank

(* A line has a strictest segment: the first of the highest rank.          *)
LEMMA StrictestExists ==
    ASSUME NEW segs \in Seq(Segment), segs # <<>>, NEW grant \in BOOLEAN
    PROVE  \E i \in DOMAIN segs : IsStrictest(segs, grant, i)
<1> DEFINE rank(i) == RankAt(segs, i, grant)
           At(r) == {i \in DOMAIN segs : rank(i) = r}
<1>1. \A i \in DOMAIN segs : rank(i) \in 0..2
  BY DecisionRanks
<1>2. 1 \in DOMAIN segs /\ DOMAIN segs \subseteq Nat
  OBVIOUS
<1> HIDE DEF rank
<1>3. PICK r \in 0..2 : At(r) # {} /\ \A q \in 0..2 : At(q) # {} => q =< r
  <2>1. At(0) # {} \/ At(1) # {} \/ At(2) # {}
    BY <1>1, <1>2
  <2> HIDE DEF At
  <2>2. CASE At(2) # {}
    BY <2>2
  <2>3. CASE At(2) = {} /\ At(1) # {}
    BY <2>3
  <2>4. CASE At(2) = {} /\ At(1) = {}
    BY <2>1, <2>4
  <2> QED
    BY <2>2, <2>3, <2>4
<1>4. At(r) \in SUBSET Nat
  BY <1>2
<1>5. PICK i \in At(r) : \A j \in At(r) : i =< j
  BY <1>3, <1>4, LeastNatural
<1>6. i \in DOMAIN segs /\ rank(i) = r
  BY <1>5
<1>7. \A j \in DOMAIN segs : rank(j) =< r
  <2> SUFFICES ASSUME NEW j \in DOMAIN segs PROVE rank(j) =< r
    OBVIOUS
  <2>1. rank(j) \in 0..2 /\ At(rank(j)) # {}
    BY <1>1
  <2> QED
    BY <1>3, <2>1
<1>8. \A j \in DOMAIN segs : j < i => rank(j) < r
  <2> SUFFICES ASSUME NEW j \in DOMAIN segs, j < i PROVE rank(j) < r
    OBVIOUS
  <2>1. j \in Nat /\ i \in Nat /\ rank(j) \in 0..2 /\ rank(j) =< r
    BY <1>1, <1>2, <1>6, <1>7
  <2>2. rank(j) # r
    BY <1>5, <2>1
  <2> QED
    BY <2>1, <2>2
<1> QED
  BY <1>6, <1>7, <1>8 DEF IsStrictest, rank

LEMMA StrictestIsOne ==
    ASSUME NEW segs \in Seq(Segment), segs # <<>>, NEW grant \in BOOLEAN
    PROVE  \E i \in DOMAIN segs : /\ Strictest(segs, grant) = segs[i]
                                  /\ IsStrictest(segs, grant, i)
<1> DEFINE k == CHOOSE i \in DOMAIN segs : IsStrictest(segs, grant, i)
<1>1. k \in DOMAIN segs /\ IsStrictest(segs, grant, k)
  BY StrictestExists
<1>2. Strictest(segs, grant) = segs[k]
  BY DEF Strictest
<1> QED
  BY <1>1, <1>2

-----------------------------------------------------------------------------
(* A line that the gate lets through has no segment the gate would stop    *)
(* (Session::resolve_authz_strictest).                                     *)
THEOREM AllowedIsFree ==
    ASSUME NEW segs \in Seq(Segment), segs # <<>>, NEW grant \in BOOLEAN,
           Decide(Strictest(segs, grant), grant) = "Allow"
    PROVE  Gated(segs, grant) = {}
<1>1. PICK k \in DOMAIN segs : /\ Strictest(segs, grant) = segs[k]
                               /\ IsStrictest(segs, grant, k)
  BY StrictestIsOne
<1>2. RankAt(segs, k, grant) = 0
  BY <1>1, DecisionRanks
<1>3. ASSUME NEW i \in DOMAIN segs PROVE Decide(segs[i], grant) = "Allow"
  <2>1. RankAt(segs, i, grant) \in 0..2 /\ RankAt(segs, i, grant) =< 0
    BY <1>1, <1>2, DecisionRanks DEF IsStrictest
  <2>2. RankAt(segs, i, grant) = 0
    BY <2>1
  <2> QED
    BY <2>2, DecisionRanks
<1> QED
  BY <1>3 DEF Gated

(* Every gated segment of a line is named in the question that asks for    *)
(* its confirmation (dispatch_via_authz_gate, gated_commands_summary).     *)
THEOREM NamedCoversGated ==
    ASSUME NEW segs \in Seq(Segment), segs # <<>>, NEW grant \in BOOLEAN,
           NEW i \in Gated(segs, grant)
    PROVE  segs[i].name \in Named(segs, grant)
<1>1. CASE \E j, k \in Gated(segs, grant) : j # k
  BY <1>1 DEF Named
<1>2. CASE \A j, k \in Gated(segs, grant) : j = k
  <2>1. PICK k \in DOMAIN segs : /\ Strictest(segs, grant) = segs[k]
                                 /\ IsStrictest(segs, grant, k)
    BY StrictestIsOne
  <2>2. i \in DOMAIN segs /\ Decide(segs[i], grant) # "Allow"
    BY DEF Gated
  <2>3. RankAt(segs, i, grant) \in 0..2 /\ RankAt(segs, i, grant) # 0
    BY <2>2, DecisionRanks
  <2>4. RankAt(segs, k, grant) \in 0..2 /\ RankAt(segs, i, grant) =< RankAt(segs, k, grant)
    BY <2>1, <2>2, DecisionRanks DEF IsStrictest
  <2>5. RankAt(segs, k, grant) # 0
    BY <2>3, <2>4
  <2>6. k \in Gated(segs, grant)
    BY <2>1, <2>5, DecisionRanks DEF Gated
  <2>7. k = i
    BY <1>2, <2>6
  <2> QED
    BY <1>2, <2>1, <2>7 DEF Named
<1> QED
  BY <1>1, <1>2

-----------------------------------------------------------------------------
(* A world of the right type.                                              *)
IsWorld(w) ==
    /\ w \in [rows : {w.rows}, nextPid : Pids, jobs : {w.jobs}, bgJobs : {w.bgJobs},
              invocations : SUBSET Pids]
    /\ IsTable(w.rows)
    /\ \A p \in DOMAIN w.rows : p < w.nextPid
    /\ w.jobs \in [DOMAIN w.jobs -> {"running", "done"}]
    /\ DOMAIN w.jobs \subseteq JobIds
    /\ w.bgJobs \in [DOMAIN w.bgJobs -> Pids]

(* An open confirmation covers the line it stands for: every segment is    *)
(* free to run or named in the question, and what was captured with it is  *)
(* for a model loop on the same line.                                      *)
QuestionCovers ==
    pending # NoPending /\ pending.kind = "auth" =>
        /\ pending.line.body \in GatedBodies
        /\ pending.choices = ConfirmChoices(pending.sudo)
        /\ pending.stdin \in {NoLine, pending.n}
        /\ pending.stdin # NoLine => Loops(pending.line)
        /\ \A i \in DOMAIN pending.line.segs :
              Covered(pending.line.segs[i], allowAll, pending.named)

(* The inductive invariant.  What runs after an approval was authorized by *)
(* a question of an earlier step, so GateHolds and StdinOwn need           *)
(* QuestionCovers of the question while it is open.                        *)
Inv == TypeOK /\ QuestionCovers /\ GateHolds /\ StdinOwn

-----------------------------------------------------------------------------
(* Worlds keep their type.                                                 *)
LEMMA WorldType == TableTypeOK <=> IsWorld(World)
BY DEF TableTypeOK, IsWorld, World

LEMMA NewRowType ==
    ASSUME NEW w, IsWorld(w), NEW parent \in Nat, NEW st \in ProcState
    PROVE  IsWorld(NewRow(w, parent, st))
<1> DEFINE v == NewRow(w, parent, st)
           T == Spawned(w.rows, w.nextPid, parent, st)
<1>1. w.nextPid \in Pids /\ w.nextPid \in Nat /\ w.nextPid + 1 \in Pids
  BY DEF IsWorld, Pids, NoPid, RootPid
<1>2. IsTable(T) /\ DOMAIN T = DOMAIN w.rows \cup {w.nextPid}
  <2>1. IsTable(w.rows)
    BY DEF IsWorld
  <2> QED
    BY <1>1, <2>1, SpawnedTable
<1>3. DOMAIN w.rows \subseteq Nat
  BY DEF IsWorld, IsTable, Pids
<1>4. \A p \in DOMAIN T : p < w.nextPid + 1
  BY <1>1, <1>2, <1>3 DEF IsWorld
<1> HIDE DEF T
<1>5. /\ v.rows = T /\ v.nextPid = w.nextPid + 1 /\ v.jobs = w.jobs
      /\ v.bgJobs = w.bgJobs /\ v.invocations = w.invocations
      /\ v \in [rows : {T}, nextPid : Pids, jobs : {w.jobs}, bgJobs : {w.bgJobs},
                invocations : SUBSET Pids]
  BY <1>1 DEF NewRow, IsWorld, T
<1> QED
  BY <1>2, <1>4, <1>5 DEF IsWorld

LEMMA WithoutType ==
    ASSUME NEW f, NEW R, f \in [DOMAIN f -> R], NEW S
    PROVE  /\ DOMAIN Without(f, S) \subseteq DOMAIN f
           /\ Without(f, S) \in [DOMAIN Without(f, S) -> R]
BY DEF Without

LEMMA WithType ==
    ASSUME NEW f, NEW R, f \in [DOMAIN f -> R], NEW x, NEW y \in R
    PROVE  /\ DOMAIN With(f, x, y) = DOMAIN f \cup {x}
           /\ With(f, x, y) \in [DOMAIN With(f, x, y) -> R]
BY DEF With

LEMMA CompleteType ==
    ASSUME NEW w, IsWorld(w), NEW pid
    PROVE  IsWorld(Complete(w, pid))
<1> DEFINE T == Finished(w.rows, pid)
<1>1. IsTable(w.rows)
  BY DEF IsWorld
<1>2. IsTable(T) /\ DOMAIN T \subseteq DOMAIN w.rows
  BY <1>1, FinishedTable
<1> HIDE DEF T
<1>3. IsWorld([w EXCEPT !.rows = T])
  BY <1>2 DEF IsWorld
<1> QED
  BY <1>3 DEF Complete, T

LEMMA MovedType ==
    ASSUME NEW w, IsWorld(w), NEW pid, NEW from, NEW to \in ProcState
    PROVE  IsWorld([w EXCEPT !.rows = Moved(w.rows, pid, from, to)])
<1> DEFINE T == Moved(w.rows, pid, from, to)
<1>1. IsTable(w.rows)
  BY DEF IsWorld
<1>2. IsTable(T) /\ DOMAIN T \subseteq DOMAIN w.rows
  BY <1>1, MovedTable
<1> HIDE DEF T
<1>3. IsWorld([w EXCEPT !.rows = T])
  BY <1>2 DEF IsWorld
<1> QED
  BY <1>3 DEF T

(* Jobs S go, the rows ps with them, and inv is what stays tracked.        *)
LEMMA LeftType ==
    ASSUME NEW w, IsWorld(w), NEW S, NEW ps, NEW inv \in SUBSET Pids
    PROVE  IsWorld([w EXCEPT !.jobs = Without(w.jobs, S),
                             !.bgJobs = Without(w.bgJobs, S),
                             !.rows = CompletedAll(w.rows, ps),
                             !.invocations = inv])
<1> DEFINE T == CompletedAll(w.rows, ps)
           js == Without(w.jobs, S)
           bg == Without(w.bgJobs, S)
<1>1. IsTable(w.rows)
  BY DEF IsWorld
<1>2. IsTable(T) /\ DOMAIN T \subseteq DOMAIN w.rows
  BY <1>1, CompletedAllTable
<1>3. DOMAIN js \subseteq DOMAIN w.jobs /\ js \in [DOMAIN js -> {"running", "done"}]
  <2>1. w.jobs \in [DOMAIN w.jobs -> {"running", "done"}]
    BY DEF IsWorld
  <2> QED
    BY <2>1, WithoutType
<1>4. bg \in [DOMAIN bg -> Pids]
  <2>1. w.bgJobs \in [DOMAIN w.bgJobs -> Pids]
    BY DEF IsWorld
  <2> QED
    BY <2>1, WithoutType
<1> HIDE DEF T, js, bg
<1>6. IsWorld([w EXCEPT !.jobs = js, !.bgJobs = bg, !.rows = T, !.invocations = inv])
  BY <1>2, <1>3, <1>4 DEF IsWorld
<1> QED
  BY <1>6 DEF T, js, bg

LEMMA ReapedType == ASSUME NEW w, IsWorld(w) PROVE IsWorld(Reaped(w))
<1> DEFINE S == {j \in DOMAIN w.jobs : w.jobs[j] = "done"}
           ps == {w.bgJobs[j] : j \in S \cap DOMAIN w.bgJobs}
<1>1. w.invocations \in SUBSET Pids
  BY DEF IsWorld
<1> HIDE DEF S, ps
<1>2. IsWorld([w EXCEPT !.jobs = Without(w.jobs, S), !.bgJobs = Without(w.bgJobs, S),
                        !.rows = CompletedAll(w.rows, ps), !.invocations = w.invocations])
  BY <1>1, LeftType
<1>3. [w EXCEPT !.jobs = Without(w.jobs, S), !.bgJobs = Without(w.bgJobs, S),
                !.rows = CompletedAll(w.rows, ps), !.invocations = w.invocations]
        = [w EXCEPT !.jobs = Without(w.jobs, S), !.bgJobs = Without(w.bgJobs, S),
                    !.rows = CompletedAll(w.rows, ps)]
  BY DEF IsWorld
<1> QED
  BY <1>2, <1>3 DEF Reaped, S, ps

LEMMA KilledType == ASSUME NEW w, IsWorld(w), NEW line PROVE IsWorld(Killed(w, line))
<1> DEFINE inv == w.invocations \ (line.pids \cap w.invocations)
           S == {j \in DOMAIN w.bgJobs \cap DOMAIN w.jobs :
                    j \in line.jobs \/ w.bgJobs[j] \in line.pids}
           ps == (line.pids \cap w.invocations) \cup {w.bgJobs[j] : j \in S}
<1>1. inv \in SUBSET Pids
  BY DEF IsWorld
<1> HIDE DEF inv, S, ps
<1>2. IsWorld([w EXCEPT !.jobs = Without(w.jobs, S), !.bgJobs = Without(w.bgJobs, S),
                        !.rows = CompletedAll(w.rows, ps), !.invocations = inv])
  BY <1>1, LeftType
<1>3. [w EXCEPT !.jobs = Without(w.jobs, S), !.bgJobs = Without(w.bgJobs, S),
                !.rows = CompletedAll(w.rows, ps), !.invocations = inv]
        = [w EXCEPT !.invocations = inv, !.jobs = Without(w.jobs, S),
                    !.bgJobs = Without(w.bgJobs, S), !.rows = CompletedAll(w.rows, ps)]
  BY DEF IsWorld
<1> QED
  BY <1>2, <1>3 DEF Killed, inv, S, ps

LEMMA InvokedType == ASSUME NEW w, IsWorld(w) PROVE IsWorld(Invoked(w))
<1> DEFINE row == NewRow(w, RootPid, "S")
           tracked == w.invocations \cup {w.nextPid}
           oldest == {p \in tracked : \A q \in tracked : p =< q}
<1>1. IsWorld(row)
  BY NewRowType DEF RootPid, ProcState, LiveStates
<1>2. tracked \in SUBSET Pids
  BY DEF IsWorld
<1> HIDE DEF row, tracked, oldest
<1>3. IsTable(row.rows)
  BY <1>1 DEF IsWorld
<1> DEFINE T == CompletedAll(row.rows, oldest)
<1>4. IsTable(T) /\ DOMAIN T \subseteq DOMAIN row.rows
  BY <1>3, CompletedAllTable
<1> HIDE DEF T
<1>5. IsWorld([row EXCEPT !.invocations = tracked \ oldest, !.rows = T])
  BY <1>1, <1>2, <1>4 DEF IsWorld
<1>6. IsWorld([row EXCEPT !.invocations = tracked])
  BY <1>1, <1>2 DEF IsWorld
<1> QED
  BY <1>5, <1>6 DEF Invoked, row, tracked, oldest, T

LEMMA LaunchesType ==
    ASSUME NEW w, IsWorld(w), NEW parent \in Nat, NEW v \in Launches(w, parent)
    PROVE  IsWorld(v)
<1>1. PICK j \in JobIds, st \in {"running", "done"} : v = Launched(w, parent, j, st)
  BY DEF Launches
<1> DEFINE row == NewRow(w, parent, "S")
           js == With(w.jobs, j, st)
           bg == With(w.bgJobs, j, w.nextPid)
<1>2. IsWorld(row)
  BY NewRowType DEF ProcState, LiveStates
<1>3. /\ w.jobs \in [DOMAIN w.jobs -> {"running", "done"}] /\ DOMAIN w.jobs \subseteq JobIds
      /\ w.bgJobs \in [DOMAIN w.bgJobs -> Pids]
      /\ w.nextPid \in Pids
  BY DEF IsWorld
<1>4. js \in [DOMAIN js -> {"running", "done"}] /\ DOMAIN js \subseteq JobIds
  <2> DEFINE R == {"running", "done"}
  <2> HIDE DEF R
  <2>0. w.jobs \in [DOMAIN w.jobs -> R] /\ st \in R
    BY <1>1, <1>3 DEF R
  <2>1. DOMAIN js = DOMAIN w.jobs \cup {j} /\ js \in [DOMAIN js -> R]
    BY <2>0, WithType DEF js
  <2> QED
    BY <1>3, <2>1 DEF R
<1>5. bg \in [DOMAIN bg -> Pids]
  BY <1>3, WithType
<1> HIDE DEF row, js, bg
<1>6. IsWorld([row EXCEPT !.jobs = js, !.bgJobs = bg])
  BY <1>2, <1>4, <1>5 DEF IsWorld
<1> QED
  BY <1>1, <1>6, ReapedType DEF Launched, row, js, bg

LEMMA TooledType ==
    ASSUME NEW w, IsWorld(w), NEW v \in Tooled(w) PROVE IsWorld(v)
<1>1. RootPid \in Nat
  BY DEF RootPid
<1> QED
  BY <1>1, ReapedType, InvokedType, LaunchesType DEF Tooled

(* The bodies that are run.                                                *)
LEMMA OutcomesType ==
    ASSUME NEW w, IsWorld(w), NEW line, line.body \in GatedBodies \cup {"blank"},
           NEW pid \in Nat, NEW v \in Outcomes(w, line, pid)
    PROVE  IsWorld(v)
<1> DEFINE parent == IF pid = NoPid THEN RootPid ELSE pid
<1>1. line.body \in {"blank", "plain", "job", "direct", "kill", "invoke", "ask", "pipe"}
  BY DEF GatedBodies, Bodies
<1>2. /\ line.body \in {"plain", "blank"} => Outcomes(w, line, pid) = {Reaped(w)}
      /\ line.body = "job" => Outcomes(w, line, pid) = Launches(w, parent)
      /\ line.body = "direct" => Outcomes(w, line, pid) = {w}
      /\ line.body = "kill" => Outcomes(w, line, pid) = {Killed(w, line)}
      /\ line.body = "invoke" => Outcomes(w, line, pid) = {w, Invoked(w)}
      /\ line.body \in {"ask", "pipe"} => Outcomes(w, line, pid) = Tooled(w)
  BY DEF Outcomes, Loops
<1>3. parent \in Nat
  BY DEF RootPid
<1> HIDE DEF parent
<1> QED
  BY <1>1, <1>2, <1>3, ReapedType, LaunchesType, KilledType, InvokedType, TooledType

LEMMA SetWorldType ==
    ASSUME NEW w, IsWorld(w), SetWorld(w) PROVE TableTypeOK'
BY DEF SetWorld, IsWorld, TableTypeOK

(* The world a line starts in.                                             *)
LEMMA LineWorldType ==
    ASSUME TableTypeOK
    PROVE  IsWorld(LineWorld) /\ LinePid \in Nat \ {NoPid} /\ IsWorld(Reaped(World))
<1>1. IsWorld(World) /\ IsWorld(Reaped(World))
  BY WorldType, ReapedType
<1>2. IsWorld(LineWorld)
  BY <1>1, NewRowType DEF LineWorld, RootPid, ProcState, LiveStates
<1> QED
  BY <1>1, <1>2 DEF TableTypeOK, LinePid, Pids

LEMMA PausedType == ASSUME NEW w, IsWorld(w), NEW pid
                    PROVE  IsWorld([w EXCEPT !.rows = Paused(w.rows, pid)])
BY MovedType DEF Paused, ProcState, LiveStates

LEMMA ResumptionType == ASSUME TableTypeOK PROVE IsWorld(Resumption)
<1>1. IsWorld(World)
  BY WorldType
<1>2. IsWorld([World EXCEPT !.rows = Moved(World.rows, pending.pid, "P", "R")])
  BY <1>1, MovedType DEF ProcState, LiveStates
<1> QED
  BY <1>2 DEF Resumption, Resumed, World

-----------------------------------------------------------------------------
(* The dialogue keeps its type.                                            *)
LEMMA ChoicesType == \A sudoGrant : ConfirmChoices(sudoGrant) \in SUBSET Answers
BY SessionAssumption DEF ConfirmChoices

LEMMA LineType ==
    ASSUME NEW line \in Lines
    PROVE  /\ line.body \in Bodies
           /\ line.segs \in Seq(Segment)
           /\ line.body # "blank" => line.segs # <<>>
           /\ line.choices \in SUBSET Answers
           /\ line.upstream \in Seq(Segment)
BY SessionAssumption DEF Line

LEMMA NamedType ==
    ASSUME NEW line \in Lines, line.body # "blank", allowAll \in BOOLEAN
    PROVE  Named(line.segs, allowAll) \in SUBSET Commands
<1> DEFINE segs == line.segs
<1>1. segs \in Seq(Segment) /\ segs # <<>>
  BY LineType
<1>2. ASSUME NEW i \in DOMAIN segs PROVE segs[i].name \in Commands
  <2>1. segs[i] \in Segment
    BY <1>1
  <2> QED
    BY <2>1 DEF Segment
<1>3. \E i \in DOMAIN segs : Strictest(segs, allowAll) = segs[i]
  BY <1>1, StrictestIsOne
<1> HIDE DEF segs
<1>4. Named(segs, allowAll) \in SUBSET Commands
  BY <1>2, <1>3 DEF Named, Gated
<1> QED
  BY <1>4 DEF segs

LEMMA QuestionType ==
    ASSUME asked \in 0..MaxAsked, asked < MaxAsked,
           NEW kind \in {"user", "auth", "plugin"}, NEW n \in 1..MaxLines,
           NEW pid \in Nat, NEW choices \in SUBSET Answers, NEW line \in Lines,
           NEW sudoGrant \in BOOLEAN, NEW stdin \in 0..MaxLines,
           NEW named \in SUBSET Commands
    PROVE  /\ Question(kind, n, pid, choices, line, sudoGrant, stdin, named) \in Asking
           /\ Question(kind, n, pid, choices, line, sudoGrant, stdin, named).kind = kind
           /\ Question(kind, n, pid, choices, line, sudoGrant, stdin, named).number = asked + 1
BY SessionAssumption DEF Question, Asking

LEMMA AskingOpen == NoPending \notin Asking
BY DEF NoPending, Asking

(* What a call may leave the session waiting for.                          *)
Waiting == /\ pending' \in Asking \cup {NoPending}
           /\ told' \in BOOLEAN
           /\ asked' \in 0..MaxAsked
           /\ pending' # NoPending => pending'.kind = "plugin"

LEMMA AwaitNothingType ==
    ASSUME asked \in 0..MaxAsked, AwaitNothing PROVE Waiting
BY DEF AwaitNothing, Waiting

(* The question of a model loop.                                           *)
LEMMA PluginQuestion ==
    ASSUME asked \in 0..MaxAsked, asked < MaxAsked, NEW n \in 1..MaxLines,
           NEW pid \in Nat, NEW c \in SUBSET Answers, NEW line \in Lines
    PROVE  /\ Question("plugin", n, pid, c, line, FALSE, NoLine, {}) \in Asking
           /\ Question("plugin", n, pid, c, line, FALSE, NoLine, {}).kind = "plugin"
<1> DEFINE no == FALSE
<1>1. /\ NoLine \in 0..MaxLines /\ {} \in SUBSET Commands
      /\ "plugin" \in {"user", "auth", "plugin"}
  BY SessionAssumption DEF NoLine
<1>2. no \in BOOLEAN
  OBVIOUS
<1> HIDE DEF no
<1> DEFINE q == Question("plugin", n, pid, c, line, no, NoLine, {})
<1>3. q \in Asking
  BY <1>1, <1>2, QuestionType
<1>4. q.kind = "plugin"
  BY DEF Question
<1> QED
  BY <1>3, <1>4 DEF no

LEMMA LoopAsksType ==
    ASSUME asked \in 0..MaxAsked, NEW n \in 1..MaxLines, NEW pid \in Nat,
           NEW line \in Lines, LoopAsks(n, pid, line)
    PROVE  Waiting
<1>1. PICK c \in {ConfirmChoices(TRUE), ConfirmChoices(FALSE), Answers} :
         Await(Question("plugin", n, pid, c, line, FALSE, NoLine, {}))
  BY DEF LoopAsks
<1>2. c \in SUBSET Answers
  BY ChoicesType
<1> DEFINE q == Question("plugin", n, pid, c, line, FALSE, NoLine, {})
<1>3. asked < MaxAsked /\ pending' = q /\ told' = TRUE /\ asked' = asked + 1
  BY <1>1 DEF Await
<1>4. q \in Asking /\ q.kind = "plugin"
  BY <1>2, <1>3, PluginQuestion
<1>5. told' \in BOOLEAN
  BY <1>3
<1>6. asked' \in 0..MaxAsked
  BY <1>3, SessionAssumption
<1> HIDE DEF q
<1> QED
  BY <1>3, <1>4, <1>5, <1>6 DEF Waiting

LEMMA LoopEndsType ==
    ASSUME asked \in 0..MaxAsked, NEW n \in 1..MaxLines, NEW line \in Lines,
           LoopEnds(n, line)
    PROVE  Waiting
<1>1. CASE AwaitNothing
  BY <1>1, AwaitNothingType
<1>2. CASE ~AwaitNothing
  <2> DEFINE q == Question("plugin", n, NoPid, Answers, line, FALSE, NoLine, {})
  <2>1. asked < MaxAsked /\ pending' = q /\ told' = FALSE /\ asked' = asked + 1
    BY <1>2 DEF LoopEnds
  <2>2. NoPid \in Nat /\ Answers \in SUBSET Answers
    BY DEF NoPid
  <2>3. q \in Asking /\ q.kind = "plugin"
    BY <2>1, <2>2, PluginQuestion
  <2>4. told' \in BOOLEAN
    BY <2>1
  <2>5. asked' \in 0..MaxAsked
    BY <2>1, SessionAssumption
  <2> HIDE DEF q
  <2> QED
    BY <2>1, <2>3, <2>4, <2>5 DEF Waiting
<1> QED
  BY <1>1, <1>2

LEMMA StopsType ==
    ASSUME asked \in 0..MaxAsked, NEW n \in 1..MaxLines, NEW line \in Lines,
           Stops(n, line)
    PROVE  Waiting
<1>1. NoPid \in Nat
  BY DEF NoPid
<1> QED
  BY <1>1, AwaitNothingType, LoopAsksType, LoopEndsType DEF Stops

LogEntry == [loop : BOOLEAN, refused : BOOLEAN, events : Seq(Event)]

AuditType == audit \in Seq(LogEntry) /\ Len(audit) =< MaxLines

LEMMA LogLineType ==
    ASSUME AuditType, NEW line, line.body = "blank" \/ Typed < MaxLines, LogLine(line)
    PROVE  AuditType'
<1>1. CASE line.body = "blank"
  BY <1>1 DEF LogLine, AuditType
<1>2. CASE line.body # "blank"
  <2> DEFINE loops == Loops(line)
             refused == pending # NoPending /\ told'
             second == IF told' THEN "pause" ELSE "end"
             entry == [loop |-> loops, refused |-> refused, events |-> <<"start", second>>]
  <2>1. audit' = Append(audit, entry)
    BY <1>2 DEF LogLine
  <2>2. loops \in BOOLEAN /\ refused \in BOOLEAN
    BY DEF Loops
  <2>3. second \in Event
    BY DEF Event
  <2> HIDE DEF loops, refused, second
  <2>4. <<"start", second>> \in Seq(Event)
    BY <2>3 DEF Event
  <2>5. entry \in LogEntry
    BY <2>2, <2>4 DEF LogEntry
  <2> HIDE DEF entry
  <2>6. Len(audit) < MaxLines /\ MaxLines \in Nat
    BY <1>2, SessionAssumption DEF Typed
  <2> QED
    BY <2>1, <2>5, <2>6 DEF AuditType
<1> QED
  BY <1>1, <1>2

LEMMA LogEndType ==
    ASSUME NEW log \in Seq(LogEntry), NEW n
    PROVE  LogEnd(log, n) \in Seq(LogEntry) /\ Len(LogEnd(log, n)) = Len(log)
<1> DEFINE longer == [log[n] EXCEPT !.events = Append(log[n].events, "end")]
           ended == [log EXCEPT ![n] = longer]
<1>1. LogEnd(log, n) = ended
  BY DEF LogEnd
<1>2. n \in DOMAIN log => longer \in LogEntry
  <2> SUFFICES ASSUME n \in DOMAIN log PROVE longer \in LogEntry
    OBVIOUS
  <2>1. log[n] \in LogEntry
    OBVIOUS
  <2>2. "end" \in Event
    BY DEF Event
  <2>3. Append(log[n].events, "end") \in Seq(Event)
    BY <2>1, <2>2 DEF LogEntry
  <2> QED
    BY <2>1, <2>3 DEF LogEntry
<1> HIDE DEF longer
<1>3. log \in [1..Len(log) -> LogEntry] /\ Len(log) \in Nat
  OBVIOUS
<1>4. ended \in [1..Len(log) -> LogEntry]
  BY <1>2, <1>3
<1>5. ended \in Seq(LogEntry) /\ Len(ended) = Len(log)
  BY <1>3, <1>4
<1> QED
  BY <1>1, <1>5

LEMMA LogAnswerType == ASSUME AuditType, LogAnswer PROVE AuditType'
<1>1. CASE audit' = audit
  BY <1>1 DEF AuditType
<1>2. CASE audit' = LogEnd(audit, pending.n)
  BY <1>2, LogEndType DEF AuditType
<1> QED
  BY <1>1, <1>2 DEF LogAnswer

LEMMA AuditOfTypeOK == TypeOK => AuditType
BY DEF TypeOK, DialogueTypeOK, AuditType, LogEntry

LEMMA RunCommandType ==
    ASSUME NEW w, IsWorld(w), NEW n \in 1..MaxLines, NEW pid \in Nat, NEW line \in Lines,
           line.body \in GatedBodies, NEW upstream \in Seq(Segment),
           NEW named \in SUBSET Commands,
           NEW blanket \in BOOLEAN, allowAll' \in BOOLEAN,
           NEW rerun \in 0..MaxLines, NEW next \in 0..MaxLines,
           RunCommand(w, n, pid, line, upstream, named, blanket, rerun, next)
    PROVE  /\ TableTypeOK'
           /\ rerunStdin' \in 0..MaxLines /\ nextAskStdin' \in 0..MaxLines
           /\ ran' \in Run
           /\ ran'.segs = line.segs /\ ran'.named = named /\ ran'.blanket = blanket
           /\ ran'.allowAll = allowAll' /\ ran'.line = n
           /\ ran'.stdin = StdinFor(line, rerun, next)
<1>1. TableTypeOK'
  <2>1. PICK o \in Outcomes(w, line, pid) : SetWorld(Complete(o, pid))
    BY DEF RunCommand
  <2>2. IsWorld(Complete(o, pid))
    BY OutcomesType, CompleteType
  <2> QED
    BY <2>1, <2>2, SetWorldType
<1>2. NoLine \in 0..MaxLines
  BY SessionAssumption DEF NoLine
<1>3. rerunStdin' \in 0..MaxLines /\ nextAskStdin' \in 0..MaxLines
  BY <1>2 DEF RunCommand, RerunLeft, NextLeft
<1>4. StdinFor(line, rerun, next) \in 0..MaxLines
  BY <1>2 DEF StdinFor
<1>5. line.segs \in Seq(Segment)
  BY LineType
<1>6. ran' = [line |-> n, segs |-> line.segs, upstream |-> upstream, named |-> named,
              blanket |-> blanket, allowAll |-> allowAll',
              stdin |-> StdinFor(line, rerun, next)]
  BY DEF RunCommand
<1>7. ran' \in Run
  BY <1>4, <1>5, <1>6 DEF Run
<1> QED
  BY <1>1, <1>3, <1>6, <1>7

-----------------------------------------------------------------------------
(* What several actions have in common.                                    *)
LEMMA DialogueParts ==
    ASSUME pending' \in Asking \cup {NoPending}, allowAll' \in BOOLEAN, told' \in BOOLEAN,
           rerunStdin' \in 0..MaxLines, nextAskStdin' \in 0..MaxLines,
           AuditType', asked' \in 0..MaxAsked, ran' \in Run \cup {Nothing}
    PROVE  DialogueTypeOK'
BY DEF DialogueTypeOK, AuditType, LogEntry

LEMMA OpenQuestion ==
    ASSUME TypeOK, pending # NoPending
    PROVE  /\ pending \in Asking
           /\ pending.n \in 1..MaxLines /\ pending.pid \in Nat /\ pending.line \in Lines
           /\ pending.stdin \in 0..MaxLines /\ pending.named \in SUBSET Commands
           /\ pending.kind \in {"user", "auth", "plugin"}
           /\ pending.number \in 1..MaxAsked
<1>1. pending \in Asking
  BY DEF TypeOK, DialogueTypeOK
<1> QED
  BY <1>1 DEF Asking

LEMMA GateKept == ASSUME GateHolds, ran' = ran PROVE GateHolds'
BY DEF GateHolds

LEMMA StdinKept ==
    ASSUME StdinOwn, ran' = ran, rerunStdin' = rerunStdin, nextAskStdin' = nextAskStdin
    PROVE  StdinOwn'
BY DEF StdinOwn

LEMMA QuestionKept ==
    ASSUME QuestionCovers, pending' = pending, allowAll' = allowAll PROVE QuestionCovers'
BY DEF QuestionCovers

LEMMA NoConfirmation ==
    ASSUME pending' # NoPending => pending'.kind # "auth" PROVE QuestionCovers'
BY DEF QuestionCovers

(* A call that changes neither the grant, nor what ran, nor what was       *)
(* captured, and asks for no confirmation.                                 *)
LEMMA QuietCall ==
    ASSUME Inv, TableTypeOK', AuditType', Waiting,
           allowAll' = allowAll, ran' = ran,
           rerunStdin' = rerunStdin, nextAskStdin' = nextAskStdin
    PROVE  Inv'
<1>1. DialogueTypeOK'
  BY DialogueParts DEF Inv, TypeOK, DialogueTypeOK, Waiting
<1>2. QuestionCovers'
  BY NoConfirmation DEF Waiting
<1> QED
  BY <1>1, <1>2, GateKept, StdinKept DEF Inv, TypeOK

(* The same, and the question stays what it was.                           *)
LEMMA StandingCall ==
    ASSUME Inv, TableTypeOK', AuditType', told' \in BOOLEAN, asked' = asked,
           pending' = pending, allowAll' = allowAll, ran' = ran,
           rerunStdin' = rerunStdin, nextAskStdin' = nextAskStdin
    PROVE  Inv'
<1>1. DialogueTypeOK'
  BY DialogueParts DEF Inv, TypeOK, DialogueTypeOK
<1> QED
  BY <1>1, QuestionKept, GateKept, StdinKept DEF Inv, TypeOK

LEMMA TableKept == ASSUME TableTypeOK, UNCHANGED table PROVE TableTypeOK'
BY DEF TableTypeOK, table

(* The end of a question without running anything.                         *)
LEMMA DropLineInv ==
    ASSUME Inv, pending # NoPending, DropLine, AuditType' PROVE Inv'
<1>1. IsWorld(Resumption)
  BY ResumptionType DEF Inv, TypeOK
<1>2. IsWorld(Complete(Resumption, pending.pid)) /\ SetWorld(Complete(Resumption, pending.pid))
  BY <1>1, CompleteType DEF DropLine
<1>3. TableTypeOK'
  BY <1>2, SetWorldType
<1>4. Waiting
  BY AwaitNothingType DEF DropLine, Inv, TypeOK, DialogueTypeOK
<1>5. rerunStdin' = rerunStdin
  BY DEF DropLine, Inv, StdinOwn
<1> QED
  BY <1>3, <1>4, <1>5, QuietCall DEF DropLine

(* A line that surfaces a question.                                        *)
LEMMA SurfaceType ==
    ASSUME Inv, Ready, NEW kind \in {"user", "auth", "plugin"}, NEW line \in Lines,
           NEW choices \in SUBSET Answers, NEW sudoGrant \in BOOLEAN,
           NEW stdin \in 0..MaxLines, NEW named \in SUBSET Commands,
           Surface(kind, line, choices, sudoGrant, stdin, named),
           ran' \in Run \cup {Nothing}
    PROVE  /\ TableTypeOK' /\ DialogueTypeOK'
           /\ pending' = Question(kind, Typed + 1, LinePid, choices, line,
                                  sudoGrant, stdin, named)
           /\ allowAll' = allowAll
           /\ rerunStdin' = rerunStdin /\ nextAskStdin' = nextAskStdin
<1> DEFINE q == Question(kind, Typed + 1, LinePid, choices, line, sudoGrant, stdin, named)
<1>1. IsWorld(LineWorld) /\ LinePid \in Nat
  BY LineWorldType DEF Inv, TypeOK
<1>2. TableTypeOK'
  BY <1>1, PausedType, SetWorldType DEF Surface
<1>3. Typed + 1 \in 1..MaxLines /\ Typed < MaxLines
  BY SessionAssumption DEF Ready, Typed, Inv, TypeOK, DialogueTypeOK
<1>4. asked \in 0..MaxAsked /\ asked < MaxAsked /\ asked' = asked + 1 /\ told' = TRUE
      /\ pending' = q
  BY DEF Surface, Await, Inv, TypeOK, DialogueTypeOK
<1>5. q \in Asking
  BY <1>1, <1>3, <1>4, QuestionType
<1>6. AuditType'
  BY <1>3, AuditOfTypeOK, LogLineType DEF Surface, Inv
<1> HIDE DEF q
<1>7. asked' \in 0..MaxAsked
  BY <1>4, SessionAssumption
<1>8. told' \in BOOLEAN
  BY <1>4
<1>9. DialogueTypeOK'
  BY <1>4, <1>5, <1>6, <1>7, <1>8, DialogueParts
  DEF Surface, Inv, TypeOK, DialogueTypeOK
<1> QED
  BY <1>2, <1>4, <1>9 DEF Surface, q

-----------------------------------------------------------------------------
(* Each action keeps the invariant.                                        *)
LEMMA EvalBlankInv == ASSUME Inv, NEW line \in Lines, EvalBlank(line) PROVE Inv'
<1>1. PICK o \in Outcomes(Reaped(World), line, NoPid) : SetWorld(o)
  BY DEF EvalBlank
<1>2. IsWorld(Reaped(World)) /\ NoPid \in Nat
  BY LineWorldType DEF Inv, TypeOK, NoPid
<1>3. IsWorld(o)
  BY <1>1, <1>2, OutcomesType DEF EvalBlank
<1>4. TableTypeOK'
  BY <1>1, <1>3, SetWorldType
<1>5. Waiting
  BY AwaitNothingType DEF EvalBlank, Inv, TypeOK, DialogueTypeOK
<1>6. AuditType'
  BY AuditOfTypeOK, LogLineType DEF EvalBlank, Inv
<1> QED
  BY <1>4, <1>5, <1>6, QuietCall DEF EvalBlank

LEMMA EvalInterceptedInv == ASSUME Inv, NEW line \in Lines, EvalIntercepted(line) PROVE Inv'
<1>1. IsWorld(Complete(LineWorld, LinePid))
  BY LineWorldType, CompleteType DEF Inv, TypeOK
<1>2. TableTypeOK'
  BY <1>1, SetWorldType DEF EvalIntercepted
<1>3. Waiting
  BY AwaitNothingType DEF EvalIntercepted, Inv, TypeOK, DialogueTypeOK
<1>4. AuditType'
  BY AuditOfTypeOK, LogLineType DEF EvalIntercepted, Ready, Inv
<1> QED
  BY <1>2, <1>3, <1>4, QuietCall DEF EvalIntercepted

LEMMA EvalQuestionInv == ASSUME Inv, NEW line \in Lines, EvalQuestion(line) PROVE Inv'
<1> DEFINE no == FALSE
<1>1. /\ no \in BOOLEAN /\ NoLine \in 0..MaxLines /\ {} \in SUBSET Commands
      /\ "user" \in {"user", "auth", "plugin"}
      /\ line.choices \in SUBSET Answers
  BY SessionAssumption, LineType DEF NoLine
<1> HIDE DEF no
<1>2. Ready /\ Surface("user", line, line.choices, no, NoLine, {})
  BY DEF EvalQuestion, no
<1>5. ran' = ran /\ ran' \in Run \cup {Nothing}
  BY DEF EvalQuestion, Inv, TypeOK, DialogueTypeOK
<1>3. /\ TableTypeOK' /\ DialogueTypeOK' /\ GateHolds' /\ StdinOwn'
      /\ pending' = Question("user", Typed + 1, LinePid, line.choices, line, no, NoLine, {})
  BY <1>1, <1>2, <1>5, SurfaceType, GateKept, StdinKept DEF Inv
<1>4. QuestionCovers'
  BY <1>3, NoConfirmation DEF Question
<1> QED
  BY <1>3, <1>4 DEF Inv, TypeOK

(* A gated segment is named, any other is free.                            *)
LEMMA NamedCovers ==
    ASSUME NEW line \in Lines, line.body # "blank", allowAll \in BOOLEAN,
           NEW i \in DOMAIN line.segs
    PROVE  Covered(line.segs[i], allowAll, Named(line.segs, allowAll))
<1> DEFINE segs == line.segs
<1>1. segs \in Seq(Segment) /\ segs # <<>>
  BY LineType
<1> HIDE DEF segs
<1>2. CASE i \in Gated(segs, allowAll)
  BY <1>1, <1>2, NamedCoversGated DEF Covered, segs
<1>3. CASE i \notin Gated(segs, allowAll)
  <2>1. Decide(segs[i], allowAll) = "Allow"
    BY <1>3 DEF Gated, segs
  <2>2. segs[i] \in Segment
    BY <1>1 DEF segs
  <2>3. segs[i].tier \in Tiers
    BY <2>2 DEF Segment
  <2> QED
    BY <2>1, <2>3 DEF Decide, Covered, Tiers, segs
<1> QED
  BY <1>2, <1>3

LEMMA EvalConfirmInv == ASSUME Inv, NEW line \in Lines, EvalConfirm(line) PROVE Inv'
<1> DEFINE sudoGrant == Gate(line) = "ConfirmSudo"
           stdin == IF line.body = "pipe" THEN Typed + 1 ELSE NoLine
           named == Named(line.segs, allowAll)
<1>1. line.body \in GatedBodies /\ line.body # "blank" /\ allowAll \in BOOLEAN
  BY DEF EvalConfirm, GatedBodies, Inv, TypeOK, DialogueTypeOK
<1>2. /\ sudoGrant \in BOOLEAN /\ named \in SUBSET Commands
      /\ "auth" \in {"user", "auth", "plugin"}
      /\ ConfirmChoices(sudoGrant) \in SUBSET Answers
  BY <1>1, NamedType, ChoicesType
<1>3. stdin \in 0..MaxLines
  BY SessionAssumption DEF EvalConfirm, Ready, Typed, NoLine, Inv, TypeOK, DialogueTypeOK
<1>4. \A i \in DOMAIN line.segs : Covered(line.segs[i], allowAll, named)
  BY <1>1, NamedCovers
<1>5. stdin \in {NoLine, Typed + 1} /\ (stdin # NoLine => Loops(line))
  BY DEF Loops
<1>6. Ready /\ Surface("auth", line, ConfirmChoices(sudoGrant), sudoGrant, stdin, named)
  BY DEF EvalConfirm
<1> HIDE DEF sudoGrant, stdin, named
<1>10. \/ ran' = ran
       \/ ran' = Captured(Typed + 1, line.upstream)
  BY DEF EvalConfirm
<1>11. /\ Captured(Typed + 1, line.upstream) \in Run
       /\ Captured(Typed + 1, line.upstream) # Nothing
  <2>1. Typed + 1 \in 1..MaxLines /\ NoLine \in 0..MaxLines /\ Typed + 1 # NoLine
    BY SessionAssumption DEF EvalConfirm, Ready, Typed, NoLine, Inv, TypeOK, DialogueTypeOK
  <2> DEFINE none == <<>>
  <2>2. none \in Seq(Segment) /\ line.upstream \in Seq(Segment)
    BY LineType
  <2> HIDE DEF none
  <2>3. Captured(Typed + 1, line.upstream)
          = [line |-> Typed + 1, segs |-> none, upstream |-> line.upstream, named |-> {},
             blanket |-> FALSE, allowAll |-> allowAll, stdin |-> NoLine]
    BY DEF Captured, none
  <2>4. Captured(Typed + 1, line.upstream) \in Run
    <3> DEFINE n == Typed + 1
               nobody == {}
    <3>1. n \in 1..MaxLines /\ nobody \in SUBSET Commands /\ FALSE \in BOOLEAN
      BY <2>1
    <3> HIDE DEF n, nobody
    <3>2. [line |-> n, segs |-> none, upstream |-> line.upstream, named |-> nobody,
           blanket |-> FALSE, allowAll |-> allowAll, stdin |-> NoLine] \in Run
      BY <1>1, <2>1, <2>2, <3>1 DEF Run
    <3> QED
      BY <2>3, <3>2 DEF n, nobody
  <2>5. Captured(Typed + 1, line.upstream).line = Typed + 1 /\ Nothing.line = NoLine
    BY <2>3 DEF Nothing
  <2> QED
    BY <2>1, <2>4, <2>5
<1>12. ran' \in Run \cup {Nothing}
  BY <1>10, <1>11 DEF Inv, TypeOK, DialogueTypeOK
<1>7. /\ TableTypeOK' /\ DialogueTypeOK' /\ allowAll' = allowAll
      /\ rerunStdin' = rerunStdin /\ nextAskStdin' = nextAskStdin
      /\ pending' = Question("auth", Typed + 1, LinePid, ConfirmChoices(sudoGrant), line,
                             sudoGrant, stdin, named)
  BY <1>2, <1>3, <1>6, <1>12, SurfaceType
<1>13. GateHolds' /\ StdinOwn'
  <2>1. CASE ran' = ran
    BY <1>7, <2>1, GateKept, StdinKept DEF Inv
  <2>2. CASE ran' = Captured(Typed + 1, line.upstream)
    <3>1. ran'.segs = <<>> /\ ran'.blanket = FALSE /\ ran'.stdin = NoLine
      BY <2>2 DEF Captured
    <3>2. DOMAIN ran'.segs = {}
      BY <3>1
    <3>3. GateHolds'
      BY <3>1, <3>2 DEF GateHolds
    <3> QED
      BY <1>7, <3>1, <3>3 DEF Inv, StdinOwn
  <2> QED
    BY <1>10, <2>1, <2>2
<1>8. /\ pending'.line = line /\ pending'.choices = ConfirmChoices(sudoGrant)
      /\ pending'.sudo = sudoGrant /\ pending'.stdin = stdin /\ pending'.n = Typed + 1
      /\ pending'.named = named
  BY <1>7 DEF Question
<1>9. QuestionCovers'
  BY <1>1, <1>4, <1>5, <1>7, <1>8 DEF QuestionCovers
<1> QED
  BY <1>7, <1>9, <1>13 DEF Inv, TypeOK

(* What a loop finds of captured input, and that it leaves none.           *)
LEMMA StdinTaken ==
    ASSUME StdinOwn, NEW line, NEW n, n # NoLine, NEW rerun, NEW next,
           rerun = NoLine \/ next = NoLine,
           rerun \in {NoLine, n}, next \in {NoLine, n},
           rerun # NoLine \/ next # NoLine => Loops(line)
    PROVE  /\ StdinFor(line, rerun, next) \in {NoLine, n}
           /\ RerunLeft(line, rerun) = NoLine
           /\ NextLeft(line, rerun, next) = NoLine
BY DEF StdinFor, RerunLeft, NextLeft

LEMMA EvalAllowedInv == ASSUME Inv, NEW line \in Lines, EvalAllowed(line) PROVE Inv'
<1> DEFINE segs == line.segs
           strictest == Strictest(segs, allowAll)
           blanket == strictest.sudo \/ allowAll
           next == IF line.body = "pipe" THEN Typed + 1 ELSE nextAskStdin
<1>1. /\ line.body \in GatedBodies /\ line.body # "blank" /\ allowAll \in BOOLEAN
      /\ allowAll' = allowAll
  BY DEF EvalAllowed, GatedBodies, Inv, TypeOK, DialogueTypeOK
<1>2. segs \in Seq(Segment) /\ segs # <<>>
  BY <1>1, LineType
<1>3. PICK k \in DOMAIN segs : strictest = segs[k]
  BY <1>1, <1>2, StrictestIsOne
<1>4. blanket \in BOOLEAN /\ (blanket => allowAll \/ segs[k].sudo)
  BY <1>3
<1>5. Gated(segs, allowAll) = {}
  BY <1>1, <1>2, AllowedIsFree DEF EvalAllowed, Gate
<1>6. ASSUME NEW i \in DOMAIN segs PROVE Covered(segs[i], allowAll, {})
  <2>1. Decide(segs[i], allowAll) = "Allow"
    BY <1>5 DEF Gated
  <2>2. segs[i] \in Segment
    BY <1>2
  <2>3. segs[i].tier \in Tiers
    BY <2>2 DEF Segment
  <2> QED
    BY <2>1, <2>3 DEF Decide, Covered, Tiers
<1>7. Typed + 1 \in 1..MaxLines /\ Typed + 1 # NoLine /\ Typed < MaxLines
  BY SessionAssumption DEF EvalAllowed, Ready, Typed, NoLine, Inv, TypeOK, DialogueTypeOK
<1>8. rerunStdin = NoLine /\ nextAskStdin = NoLine /\ NoLine \in 0..MaxLines
  BY SessionAssumption DEF Inv, StdinOwn, NoLine
<1>9. next \in {NoLine, Typed + 1} /\ next \in 0..MaxLines
      /\ (next # NoLine => Loops(line))
  BY <1>7, <1>8 DEF Loops
<1>10. /\ RunCommand(LineWorld, Typed + 1, LinePid, line, line.upstream, {}, blanket,
                     rerunStdin, next)
       /\ line.upstream \in Seq(Segment)
  BY LineType DEF EvalAllowed
<1>11. IsWorld(LineWorld) /\ LinePid \in Nat /\ {} \in SUBSET Commands
  BY LineWorldType DEF Inv, TypeOK
<1> HIDE DEF segs, strictest, blanket, next
<1>12. /\ TableTypeOK'
       /\ rerunStdin' \in 0..MaxLines /\ nextAskStdin' \in 0..MaxLines
       /\ ran' \in Run
       /\ ran'.segs = line.segs /\ ran'.named = {} /\ ran'.blanket = blanket
       /\ ran'.allowAll = allowAll' /\ ran'.line = Typed + 1
       /\ ran'.stdin = StdinFor(line, rerunStdin, next)
  BY <1>1, <1>4, <1>7, <1>8, <1>9, <1>10, <1>11, RunCommandType
<1>13. Waiting
  BY <1>7, StopsType DEF EvalAllowed, Inv, TypeOK, DialogueTypeOK
<1>14. AuditType'
  BY <1>7, AuditOfTypeOK, LogLineType DEF EvalAllowed, Inv
<1>15. DialogueTypeOK'
  BY <1>1, <1>12, <1>13, <1>14, DialogueParts DEF Waiting
<1>16. GateHolds'
  <2>1. \A i \in DOMAIN ran'.segs : Covered(ran'.segs[i], ran'.allowAll, ran'.named)
    BY <1>1, <1>6, <1>12 DEF segs
  <2>2. ran'.blanket => ran'.allowAll \/ \E i \in DOMAIN ran'.segs : ran'.segs[i].sudo
    BY <1>1, <1>3, <1>4, <1>12 DEF segs
  <2> QED
    BY <2>1, <2>2 DEF GateHolds
<1>17. StdinOwn'
  <2>1. /\ StdinFor(line, rerunStdin, next) \in {NoLine, Typed + 1}
        /\ RerunLeft(line, rerunStdin) = NoLine /\ NextLeft(line, rerunStdin, next) = NoLine
    BY <1>7, <1>8, <1>9, StdinTaken DEF Inv
  <2>2. rerunStdin' = NoLine /\ nextAskStdin' = NoLine
    BY <1>10, <2>1 DEF RunCommand
  <2> QED
    BY <1>12, <2>1, <2>2 DEF StdinOwn
<1>18. QuestionCovers'
  BY <1>13, NoConfirmation DEF Waiting
<1> QED
  BY <1>12, <1>15, <1>16, <1>17, <1>18 DEF Inv, TypeOK

LEMMA EvalRefusedInv == ASSUME Inv, NEW line \in Lines, EvalRefused(line) PROVE Inv'
<1>1. AuditType'
  BY AuditOfTypeOK, LogLineType DEF EvalRefused, Inv
<1>2. told' \in BOOLEAN
  BY DEF EvalRefused
<1> QED
  BY <1>1, <1>2, TableKept, StandingCall DEF EvalRefused, Inv, TypeOK

LEMMA EvalKillPendingInv == ASSUME Inv, NEW line \in Lines, EvalKillPending(line) PROVE Inv'
<1> DEFINE ended == LogEnd(audit, pending.n)
           no == FALSE
           entry == [loop |-> no, refused |-> no, events |-> <<"start", "end">>]
<1>1. ended \in Seq(LogEntry) /\ Len(ended) = Len(audit)
  BY AuditOfTypeOK, LogEndType DEF Inv, AuditType
<1>2. <<"start", "end">> \in Seq(Event)
  BY DEF Event
<1>3. no \in BOOLEAN
  OBVIOUS
<1>4. audit' = Append(ended, entry)
  BY DEF EvalKillPending
<1> HIDE DEF ended, no
<1>5. entry \in LogEntry
  BY <1>2, <1>3 DEF LogEntry
<1>6. Len(audit) < MaxLines /\ MaxLines \in Nat
  BY SessionAssumption DEF EvalKillPending, Typed
<1> HIDE DEF entry
<1>7. AuditType'
  BY <1>1, <1>4, <1>5, <1>6 DEF AuditType
<1> QED
  BY <1>7, DropLineInv DEF EvalKillPending, Aborted

LEMMA AnswerAbortInv == ASSUME Inv, AnswerAbort PROVE Inv'
<1>1. AuditType'
  BY AuditOfTypeOK, LogAnswerType DEF AnswerAbort, Inv
<1> QED
  BY <1>1, DropLineInv DEF AnswerAbort, Aborted

LEMMA AnswerInvalidInv == ASSUME Inv, NEW answer \in Answers, AnswerInvalid(answer) PROVE Inv'
<1>1. told' \in BOOLEAN /\ AuditType'
  BY AuditOfTypeOK DEF AnswerInvalid, Inv, AuditType
<1> QED
  BY <1>1, TableKept, StandingCall DEF AnswerInvalid, Inv, TypeOK

LEMMA AnswerFinalInv == ASSUME Inv, NEW answer \in Answers, AnswerFinal(answer) PROVE Inv'
<1>1. AuditType'
  BY AuditOfTypeOK, LogAnswerType DEF AnswerFinal, Inv
<1> QED
  BY <1>1, DropLineInv DEF AnswerFinal, Given

LEMMA AnswerNothingInv == ASSUME Inv, AnswerNothing PROVE Inv'
<1>1. told' \in BOOLEAN /\ AuditType'
  BY AuditOfTypeOK DEF AnswerNothing, Inv, AuditType
<1> QED
  BY <1>1, TableKept, StandingCall DEF AnswerNothing, Inv, TypeOK

LEMMA JobEndsInv == ASSUME Inv, NEW j \in JobIds, JobEnds(j) PROVE Inv'
<1>1. jobs' \in [DOMAIN jobs' -> {"running", "done"}] /\ DOMAIN jobs' \subseteq JobIds
  BY DEF JobEnds, Inv, TypeOK, TableTypeOK
<1>2. TableTypeOK'
  BY <1>1 DEF JobEnds, Inv, TypeOK, TableTypeOK
<1>3. told' \in BOOLEAN /\ asked' = asked /\ ran' = ran /\ AuditType'
  BY AuditOfTypeOK DEF JobEnds, history, Inv, TypeOK, DialogueTypeOK, AuditType
<1> QED
  BY <1>2, <1>3, StandingCall DEF JobEnds

LEMMA AnswerApprovedInv == ASSUME Inv, NEW answer \in Answers, AnswerApproved(answer) PROVE Inv'
<1> DEFINE line == pending.line
           grant == allowAll \/ answer = "all"
<1>1. pending # NoPending /\ pending.kind = "auth"
  BY DEF AnswerApproved, Given
<1>2. /\ pending.n \in 1..MaxLines /\ pending.pid \in Nat /\ line \in Lines
      /\ pending.stdin \in 0..MaxLines /\ pending.named \in SUBSET Commands
  BY <1>1, OpenQuestion DEF Inv
<1>3. /\ line.body \in GatedBodies
      /\ pending.stdin \in {NoLine, pending.n}
      /\ pending.stdin # NoLine => Loops(line)
      /\ \A i \in DOMAIN line.segs : Covered(line.segs[i], allowAll, pending.named)
  BY <1>1 DEF Inv, QuestionCovers
<1>4. allowAll' = grant /\ allowAll' \in BOOLEAN /\ (allowAll => allowAll')
  BY DEF AnswerApproved
<1>5. nextAskStdin = NoLine /\ nextAskStdin \in 0..MaxLines /\ pending.n # NoLine
  BY <1>2, SessionAssumption DEF Inv, StdinOwn, NoLine
<1> DEFINE none == <<>>
<1>6. RunCommand(Resumption, pending.n, pending.pid, line, none, pending.named,
                 allowAll', pending.stdin, nextAskStdin)
  BY DEF AnswerApproved
<1>15. none \in Seq(Segment)
  OBVIOUS
<1>7. IsWorld(Resumption)
  BY ResumptionType DEF Inv, TypeOK
<1> HIDE DEF line, grant, none
<1>8. /\ TableTypeOK'
      /\ rerunStdin' \in 0..MaxLines /\ nextAskStdin' \in 0..MaxLines
      /\ ran' \in Run
      /\ ran'.segs = line.segs /\ ran'.named = pending.named /\ ran'.blanket = allowAll'
      /\ ran'.allowAll = allowAll' /\ ran'.line = pending.n
      /\ ran'.stdin = StdinFor(line, pending.stdin, nextAskStdin)
  BY <1>2, <1>3, <1>4, <1>5, <1>6, <1>7, <1>15, RunCommandType
<1>9. Waiting
  BY <1>2, StopsType DEF AnswerApproved, Inv, TypeOK, DialogueTypeOK, line
<1>10. AuditType'
  BY AuditOfTypeOK, LogAnswerType DEF AnswerApproved, Inv
<1>11. DialogueTypeOK'
  BY <1>4, <1>8, <1>9, <1>10, DialogueParts DEF Waiting
<1>12. GateHolds'
  <2>1. ASSUME NEW i \in DOMAIN line.segs
        PROVE  Covered(line.segs[i], allowAll', pending.named)
    BY <1>3, <1>4 DEF Covered
  <2>2. \A i \in DOMAIN ran'.segs : Covered(ran'.segs[i], ran'.allowAll, ran'.named)
    BY <1>8, <2>1
  <2>3. ran'.blanket => ran'.allowAll \/ \E i \in DOMAIN ran'.segs : ran'.segs[i].sudo
    BY <1>8
  <2> QED
    BY <2>2, <2>3 DEF GateHolds
<1>13. StdinOwn'
  <2> DEFINE stdin == pending.stdin
             n == pending.n
  <2>0. /\ stdin \in {NoLine, n} /\ nextAskStdin \in {NoLine, n}
        /\ stdin # NoLine \/ nextAskStdin # NoLine => Loops(line)
        /\ stdin = NoLine \/ nextAskStdin = NoLine
        /\ n # NoLine /\ StdinOwn
    BY <1>3, <1>5 DEF Inv
  <2> HIDE DEF stdin, n
  <2>1. /\ StdinFor(line, stdin, nextAskStdin) \in {NoLine, n}
        /\ RerunLeft(line, stdin) = NoLine
        /\ NextLeft(line, stdin, nextAskStdin) = NoLine
    BY <2>0, StdinTaken
  <2> USE DEF stdin, n
  <2>2. rerunStdin' = NoLine /\ nextAskStdin' = NoLine
    BY <1>6, <2>1 DEF RunCommand
  <2> QED
    BY <1>8, <2>1, <2>2 DEF StdinOwn
<1>14. QuestionCovers'
  BY <1>9, NoConfirmation DEF Waiting
<1> QED
  BY <1>8, <1>11, <1>12, <1>13, <1>14 DEF Inv, TypeOK

LEMMA AnswerLoopInv == ASSUME Inv, NEW answer \in Answers, AnswerLoop(answer) PROVE Inv'
<1>1. pending # NoPending
  BY DEF AnswerLoop, Given
<1>2. pending.n \in 1..MaxLines /\ pending.pid \in Nat /\ pending.line \in Lines
  BY <1>1, OpenQuestion DEF Inv
<1>3. IsWorld(Resumption)
  BY ResumptionType DEF Inv, TypeOK
<1>4. PICK o \in Tooled(Resumption) :
         \/ /\ LoopEnds(pending.n, pending.line)
            /\ SetWorld(Complete(o, pending.pid))
         \/ /\ LoopAsks(pending.n, pending.pid, pending.line)
            /\ SetWorld([o EXCEPT !.rows = Paused(o.rows, pending.pid)])
  BY DEF AnswerLoop
<1>5. IsWorld(o)
  BY <1>3, TooledType
<1>6. TableTypeOK'
  BY <1>4, <1>5, CompleteType, PausedType, SetWorldType
<1>7. Waiting
  BY <1>2, <1>4, LoopEndsType, LoopAsksType DEF Inv, TypeOK, DialogueTypeOK
<1>8. AuditType'
  BY AuditOfTypeOK, LogAnswerType DEF AnswerLoop, Inv
<1> QED
  BY <1>6, <1>7, <1>8, QuietCall DEF AnswerLoop

-----------------------------------------------------------------------------
LEMMA InitInv == Init => Inv
<1> SUFFICES ASSUME Init PROVE Inv
  OBVIOUS
<1>1. DOMAIN Empty = {} /\ \A R : Empty \in [DOMAIN Empty -> R]
  BY DEF Empty
<1>2. TableTypeOK
  <2>1. IsTable(rows) /\ \A p \in DOMAIN rows : p < nextPid
    BY <1>1, EmptyTable DEF Init
  <2>2. nextPid \in Pids /\ invocations \subseteq Pids
    BY DEF Init, FirstPid, Pids, NoPid, RootPid
  <2>3. /\ jobs \in [DOMAIN jobs -> {"running", "done"}] /\ DOMAIN jobs \subseteq JobIds
        /\ bgJobs \in [DOMAIN bgJobs -> Pids]
    BY <1>1 DEF Init
  <2> QED
    BY <2>1, <2>2, <2>3 DEF TableTypeOK
<1>3. DialogueTypeOK
  <2>1. allowAll \in BOOLEAN /\ told \in BOOLEAN
    BY DEF Init
  <2>2. rerunStdin \in 0..MaxLines /\ nextAskStdin \in 0..MaxLines /\ asked \in 0..MaxAsked
    BY SessionAssumption DEF Init, NoLine
  <2>3. /\ audit \in Seq([loop : BOOLEAN, refused : BOOLEAN, events : Seq(Event)])
        /\ Len(audit) =< MaxLines
    BY SessionAssumption DEF Init
  <2> QED
    BY <2>1, <2>2, <2>3 DEF Init, DialogueTypeOK
<1>4. QuestionCovers /\ GateHolds /\ StdinOwn
  BY DEF Init, QuestionCovers, GateHolds, StdinOwn
<1> QED
  BY <1>2, <1>3, <1>4 DEF Inv, TypeOK

LEMMA NextInv == Inv /\ [Next]_vars => Inv'
<1> SUFFICES ASSUME Inv, [Next]_vars PROVE Inv'
  OBVIOUS
<1>1. ASSUME NEW line \in Lines, EvalLine(line) PROVE Inv'
  BY <1>1, EvalBlankInv, EvalInterceptedInv, EvalQuestionInv, EvalConfirmInv,
     EvalAllowedInv, EvalRefusedInv, EvalKillPendingInv DEF EvalLine
<1>2. ASSUME NEW answer \in Answers, AnswerPrompt(answer) PROVE Inv'
  BY <1>2, AnswerInvalidInv, AnswerFinalInv, AnswerApprovedInv, AnswerLoopInv
  DEF AnswerPrompt
<1>3. CASE AnswerAbort
  BY <1>3, AnswerAbortInv
<1>4. CASE AnswerNothing
  BY <1>4, AnswerNothingInv
<1>5. ASSUME NEW j \in JobIds, JobEnds(j) PROVE Inv'
  BY <1>5, JobEndsInv
<1>6. CASE UNCHANGED vars
  BY <1>6 DEF vars, Inv, TypeOK, TableTypeOK, DialogueTypeOK, QuestionCovers, GateHolds, StdinOwn
<1> QED
  BY <1>1, <1>2, <1>3, <1>4, <1>5, <1>6 DEF Next

LEMMA InvHolds == Spec => []Inv
BY InitInv, NextInv, PTL DEF Spec

-----------------------------------------------------------------------------
(* Every variable keeps its type: no call makes a row without a PID of its *)
(* own, a job without a known state or a question without a line.          *)
THEOREM TypeCorrect == Spec => []TypeOK
<1>1. Inv => TypeOK
  BY DEF Inv
<1> QED
  BY <1>1, InvHolds, PTL

(* Nothing runs that the gate, `sudo`, the "all" grant or an approved      *)
(* question naming it did not authorize, for command lines of any length.  *)
THEOREM GateIsKept == Spec => []GateHolds
<1>1. Inv => GateHolds
  BY DEF Inv
<1> QED
  BY <1>1, InvHolds, PTL

(* Captured standard input reaches the ask it was captured for, or nobody. *)
THEOREM StdinIsOwn == Spec => []StdinOwn
<1>1. Inv => StdinOwn
  BY DEF Inv
<1> QED
  BY <1>1, InvHolds, PTL

-----------------------------------------------------------------------------
(* The "all" grant changes in one action only, and a question for a        *)
(* sudo-only command does not offer it.                                    *)
LEMMA GrantChange ==
    ASSUME Next, allowAll' # allowAll
    PROVE  \E answer \in Answers : AnswerApproved(answer)
<1>1. ASSUME NEW line \in Lines, EvalLine(line) PROVE allowAll' = allowAll
  BY <1>1 DEF EvalLine, EvalBlank, EvalIntercepted, EvalQuestion, EvalConfirm, Surface,
              EvalAllowed, EvalRefused, EvalKillPending, Aborted, DropLine
<1>2. ASSUME NEW answer \in Answers, AnswerPrompt(answer), ~AnswerApproved(answer)
      PROVE  allowAll' = allowAll
  BY <1>2 DEF AnswerPrompt, AnswerInvalid, AnswerFinal, DropLine, AnswerLoop
<1>3. AnswerAbort \/ AnswerNothing => allowAll' = allowAll
  BY DEF AnswerAbort, Aborted, DropLine, AnswerNothing
<1>4. ASSUME NEW j \in JobIds, JobEnds(j) PROVE allowAll' = allowAll
  BY <1>4 DEF JobEnds
<1> QED
  BY <1>1, <1>2, <1>3, <1>4 DEF Next

LEMMA GrantStep ==
    ASSUME Inv, Next, allowAll' # allowAll
    PROVE  allowAll' /\ pending # NoPending /\ pending.kind = "auth" /\ ~pending.sudo
<1>1. PICK answer \in Answers : AnswerApproved(answer)
  BY GrantChange
<1>2. /\ pending # NoPending /\ pending.kind = "auth" /\ answer \in pending.choices
      /\ allowAll' = (allowAll \/ answer = "all")
  BY <1>1 DEF AnswerApproved, Given
<1>3. pending.choices = ConfirmChoices(pending.sudo)
  BY <1>2 DEF Inv, QuestionCovers
<1>4. allowAll \in BOOLEAN
  BY DEF Inv, TypeOK, DialogueTypeOK
<1>5. answer = "all" /\ allowAll'
  BY <1>2, <1>4
<1>6. ~pending.sudo
  BY <1>2, <1>3, <1>5 DEF ConfirmChoices
<1> QED
  BY <1>2, <1>5, <1>6

(* The "all" grant is only given, and only by a human who is asked about a *)
(* command that is not sudo-only (resolve_auth_confirm, confirm_choices).  *)
THEOREM GrantIsAsked == Spec => GrantAsked
<1>1. Inv /\ [Next]_vars => [allowAll' # allowAll =>
                               /\ allowAll'
                               /\ pending # NoPending
                               /\ pending.kind = "auth"
                               /\ ~pending.sudo]_vars
  BY GrantStep
<1> QED
  BY <1>1, InvHolds, PTL DEF Spec, GrantAsked

-----------------------------------------------------------------------------
(* What a call may do to the dialogue when no model calls an installed     *)
(* prompt: resolve it, ask, show a standing question again, find nothing   *)
(* to do, or (a job's end) none of it.                                     *)
Asks == /\ asked' = asked + 1 /\ told' = TRUE
        /\ pending' # NoPending /\ pending'.number = asked + 1
Stands == pending # NoPending /\ told' = TRUE /\ UNCHANGED <<pending, asked>>
Idles == pending = NoPending /\ told' = FALSE /\ UNCHANGED <<pending, asked>>
Reply == \/ AwaitNothing \/ Asks \/ Stands \/ Idles
         \/ UNCHANGED <<pending, asked, told>>

LEMMA AwaitAsks ==
    ASSUME NEW kind, NEW n, NEW pid, NEW choices, NEW line, NEW sudoGrant,
           NEW stdin, NEW named,
           Await(Question(kind, n, pid, choices, line, sudoGrant, stdin, named))
    PROVE  Asks
<1> DEFINE q == Question(kind, n, pid, choices, line, sudoGrant, stdin, named)
<1>1. q.number = asked + 1
  BY DEF Question
<1>2. q # NoPending
  <2>1. DOMAIN NoPending = {"kind"} /\ "number" \in DOMAIN q
    BY DEF NoPending, Question
  <2> QED
    BY <2>1
<1> HIDE DEF q
<1>3. pending' = q /\ told' = TRUE /\ asked' = asked + 1
  BY DEF Await, q
<1> QED
  BY <1>1, <1>2, <1>3 DEF Asks

LEMMA StopsReply ==
    ASSUME NestedPrompts = FALSE, NEW n, NEW pid, NEW line
    PROVE  /\ LoopEnds(n, line) => AwaitNothing
           /\ LoopAsks(n, pid, line) => Asks
           /\ Stops(n, line) => AwaitNothing \/ Asks
<1>1. LoopEnds(n, line) => AwaitNothing
  BY DEF LoopEnds
<1>2. ASSUME NEW p, LoopAsks(n, p, line) PROVE Asks
  BY <1>2, AwaitAsks DEF LoopAsks
<1>3. Stops(n, line) => AwaitNothing \/ Asks
  BY <1>1, <1>2 DEF Stops
<1> QED
  BY <1>1, <1>2, <1>3

LEMMA StepReply ==
    ASSUME NestedPrompts = FALSE, [Next]_vars
    PROVE  Reply
<1>1. ASSUME NEW line \in Lines, EvalLine(line) PROVE Reply
  <2>1. CASE EvalBlank(line) \/ EvalIntercepted(line)
    BY <2>1 DEF EvalBlank, EvalIntercepted, Reply
  <2>2. CASE EvalQuestion(line)
    BY <2>2, AwaitAsks DEF EvalQuestion, Surface, Reply
  <2>3. CASE EvalConfirm(line)
    BY <2>3, AwaitAsks DEF EvalConfirm, Surface, Reply
  <2>4. CASE EvalAllowed(line)
    BY <2>4, StopsReply DEF EvalAllowed, Reply
  <2>5. CASE EvalRefused(line)
    BY <2>5 DEF EvalRefused, Stands, Reply
  <2>6. CASE EvalKillPending(line)
    BY <2>6 DEF EvalKillPending, Aborted, DropLine, Reply
  <2> QED
    BY <1>1, <2>1, <2>2, <2>3, <2>4, <2>5, <2>6 DEF EvalLine
<1>2. ASSUME NEW answer \in Answers, AnswerPrompt(answer) PROVE Reply
  <2>1. CASE AnswerInvalid(answer)
    BY <2>1 DEF AnswerInvalid, Stands, Reply
  <2>2. CASE AnswerFinal(answer)
    BY <2>2 DEF AnswerFinal, DropLine, Reply
  <2>3. CASE AnswerApproved(answer)
    BY <2>3, StopsReply DEF AnswerApproved, Reply
  <2>4. CASE AnswerLoop(answer)
    BY <2>4, StopsReply DEF AnswerLoop, Reply
  <2> QED
    BY <1>2, <2>1, <2>2, <2>3, <2>4 DEF AnswerPrompt
<1>3. CASE AnswerAbort
  BY <1>3 DEF AnswerAbort, Aborted, DropLine, Reply
<1>4. CASE AnswerNothing
  BY <1>4 DEF AnswerNothing, Idles, Reply
<1>5. ASSUME NEW j \in JobIds, JobEnds(j) PROVE Reply
  BY <1>5 DEF JobEnds, history, Reply
<1>6. CASE UNCHANGED vars
  BY <1>6 DEF vars, Reply
<1> QED
  BY <1>1, <1>2, <1>3, <1>4, <1>5, <1>6 DEF Next

(* As long as no model calls an installed prompt, the driver can tell from *)
(* the last reply whether a question is open (LineResult::pending_prompt). *)
THEOREM CallerIsTold == ASSUME NestedPrompts = FALSE PROVE Spec => []CallerKnows
<1>1. Init => CallerKnows
  BY DEF Init, CallerKnows
<1>2. ASSUME CallerKnows, [Next]_vars PROVE CallerKnows'
  <2>1. Reply
    BY <1>2, StepReply
  <2>2. CASE AwaitNothing \/ Asks
    BY <2>2 DEF AwaitNothing, Asks, CallerKnows
  <2>3. CASE Stands \/ Idles
    BY <2>3 DEF Stands, Idles, CallerKnows
  <2>4. CASE UNCHANGED <<pending, asked, told>>
    BY <1>2, <2>4 DEF CallerKnows
  <2> QED
    BY <2>1, <2>2, <2>3, <2>4 DEF Reply
<1> QED
  BY <1>1, <1>2, PTL DEF Spec

LEMMA ReplyServes ==
    ASSUME TypeOK, TypeOK', Reply
    PROVE  [Protocol!Next]_(Protocol!vars)
<1>1. /\ asked \in Nat
      /\ pending # NoPending => pending.number # 0
  <2>1. asked \in Nat
    BY DEF TypeOK, DialogueTypeOK
  <2>2. pending # NoPending => pending.number # 0
    BY OpenQuestion
  <2> QED
    BY <2>1, <2>2
<1>2. CASE AwaitNothing
  BY <1>2 DEF AwaitNothing, Protocol!Next, Protocol!RunLine, Protocol!Resolve, Protocol!Answer
<1>3. CASE Asks
  BY <1>1, <1>3 DEF Asks, Protocol!Next, Protocol!AskFirst, Protocol!AskAgain, Protocol!Ask
<1>4. CASE Stands
  BY <1>1, <1>4 DEF Stands, Protocol!Next, Protocol!Remind
<1>5. CASE Idles
  BY <1>5 DEF Idles, Protocol!Next, Protocol!RunLine, Protocol!Answer
<1>6. CASE UNCHANGED <<pending, asked, told>>
  BY <1>6 DEF Protocol!vars
<1> QED
  BY <1>2, <1>3, <1>4, <1>5, <1>6 DEF Reply

(* A session implements the contract with its driver: a question is never  *)
(* replaced, and while it stands nothing else runs.                        *)
THEOREM ContractKept == ASSUME NestedPrompts = FALSE PROVE Spec => Contract
<1>1. Init => Protocol!Init
  BY DEF Init, Protocol!Init
<1>2. ASSUME TypeOK, TypeOK', [Next]_vars PROVE [Protocol!Next]_(Protocol!vars)
  BY <1>2, StepReply, ReplyServes
<1> QED
  BY <1>1, <1>2, TypeCorrect, PTL DEF Spec, Contract, Protocol!Spec

-----------------------------------------------------------------------------
(* The numbers up to m, by induction with the set that is to hold them.    *)
LEMMA UpTo ==
    ASSUME NEW m \in Nat, NEW S, 0 \in S, \A n \in 0..(m - 1) : n \in S => n + 1 \in S
    PROVE  0..m \subseteq S
<1> SUFFICES ASSUME NEW k \in 0..m, k \notin S PROVE FALSE
  OBVIOUS
<1> DEFINE Rest == {n \in 0..m : n \notin S}
<1>1. PICK least \in Rest : \A n \in Rest : least =< n
  <2>1. Rest \in SUBSET Nat /\ Rest # {}
    OBVIOUS
  <2> HIDE DEF Rest
  <2> QED
    BY <2>1, LeastNatural
<1>2. least - 1 \in 0..(m - 1) /\ (least - 1) + 1 = least
  OBVIOUS
<1>3. least - 1 \notin Rest
  BY <1>1, <1>2
<1> QED
  BY <1>1, <1>2, <1>3

-----------------------------------------------------------------------------
(* The counter of the pass.                                                *)
DropAt(T, h, n) ==
    IF n = 0 THEN Excess(T)
    ELSE IF n - 1 \in Dead(T) /\ h[n - 1] > 0 THEN h[n - 1] - 1 ELSE h[n - 1]
IsToDrop(h, T, m) == h = [n \in 0..m |-> DropAt(T, h, n)]

LEMMA ToDropIsThere ==
    ASSUME NEW T, NEW m \in Nat
    PROVE  \E h : IsToDrop(h, T, m)
<1> DEFINE S == {k \in Nat : \E h : IsToDrop(h, T, k)}
<1>1. 0 \in S
  <2> DEFINE h == [n \in 0..0 |-> Excess(T)]
  <2>1. \A n \in 0..0 : DropAt(T, h, n) = Excess(T)
    BY DEF DropAt
  <2>2. IsToDrop(h, T, 0)
    BY <2>1 DEF IsToDrop
  <2> QED
    BY <2>2
<1>2. ASSUME NEW k \in 0..(m - 1), k \in S PROVE k + 1 \in S
  <2>1. PICK h : IsToDrop(h, T, k)
    BY <1>2
  <2> DEFINE v == [n \in 0..(k + 1) |-> IF n = k + 1 THEN DropAt(T, h, n) ELSE h[n]]
  <2>2. ASSUME NEW n \in 0..(k + 1) PROVE v[n] = DropAt(T, v, n)
    <3>1. n # 0 => n - 1 \in 0..k /\ v[n - 1] = h[n - 1]
      OBVIOUS
    <3>2. DropAt(T, v, n) = DropAt(T, h, n)
      BY <3>1 DEF DropAt
    <3>3. CASE n = k + 1
      BY <3>2, <3>3
    <3>4. CASE n # k + 1
      <4>1. n \in 0..k /\ v[n] = h[n]
        BY <3>4
      <4>2. h[n] = DropAt(T, h, n)
        BY <2>1, <4>1 DEF IsToDrop
      <4> QED
        BY <3>2, <4>1, <4>2
    <3> QED
      BY <3>3, <3>4
  <2>3. v = [n \in 0..(k + 1) |-> v[n]]
    OBVIOUS
  <2>4. IsToDrop(v, T, k + 1)
    <3> HIDE DEF v
    <3> QED
      BY <2>2, <2>3 DEF IsToDrop
  <2> QED
    BY <2>4
<1>3. 0..m \subseteq S
  <2> HIDE DEF S
  <2> QED
    BY <1>1, <1>2, UpTo
<1> QED
  BY <1>3

(* What is left to drop when the pass comes to a PID.                      *)
LEMMA OlderNext ==
    ASSUME NEW D \in SUBSET Nat, IsFiniteSet(D), NEW n \in Nat
    PROVE  /\ Older(D, 0) = 0 /\ Older(D, n) \in Nat
           /\ Older(D, n + 1) = Older(D, n) + IF n \in D THEN 1 ELSE 0
<1> DEFINE Before(p) == {q \in D : q < p}
<1>0. \A q \in D : ~(q < 0) /\ ~(n < n) /\ (q < n + 1 <=> q < n \/ q = n)
  OBVIOUS
<1>1. Before(0) = {}
  BY <1>0
<1>2. IsFiniteSet(Before(n)) /\ Cardinality(Before(n)) \in Nat
  BY FS_Subset, FS_CardinalityType
<1>3. CASE n \in D
  <2>1. Before(n + 1) = Before(n) \cup {n} /\ n \notin Before(n)
    BY <1>0, <1>3
  <2> HIDE DEF Before
  <2>2. Cardinality(Before(n + 1)) = Cardinality(Before(n)) + 1
    BY <1>2, <2>1, FS_AddElement
  <2> QED
    BY <1>1, <1>2, <1>3, <2>2, FS_EmptySet DEF Older, Before
<1>4. CASE n \notin D
  <2>1. Before(n + 1) = Before(n)
    BY <1>0, <1>4
  <2> QED
    BY <1>1, <1>2, <1>4, <2>1, FS_EmptySet DEF Older
<1> QED
  BY <1>3, <1>4

LEMMA ToDropCounts ==
    ASSUME NEW T, IsTable(T), NEW m \in Nat, NEW h, IsToDrop(h, T, m), NEW p \in 0..m
    PROVE  h[p] > 0 <=> Older(Dead(T), p) < Excess(T)
<1> DEFINE D == Dead(T)
           e == Excess(T)
           Left(n) == IF e =< 0 THEN e
                      ELSE IF Older(D, n) < e THEN e - Older(D, n) ELSE 0
           S == {n \in 0..m : h[n] = Left(n)}
<1>1. IsFiniteSet(D) /\ D \in SUBSET Nat /\ e \in Int
  BY DeadFinite, MaxRowsAssumption DEF Excess
<1>2. ASSUME NEW n \in 0..m
      PROVE  h[n] = IF n = 0 THEN e
                    ELSE IF n - 1 \in D /\ h[n - 1] > 0 THEN h[n - 1] - 1 ELSE h[n - 1]
  BY DEF IsToDrop, DropAt
<1> HIDE DEF D, e
<1>3. 0 \in S
  <2>1. 0 \in 0..m /\ Older(D, 0) = 0
    BY <1>1, OlderNext
  <2> QED
    BY <1>1, <1>2, <2>1
<1>4. ASSUME NEW n \in 0..(m - 1), n \in S PROVE n + 1 \in S
  <2>1. n + 1 \in 0..m /\ n + 1 # 0 /\ (n + 1) - 1 = n /\ n \in Nat
    OBVIOUS
  <2>2. h[n + 1] = IF n \in D /\ h[n] > 0 THEN h[n] - 1 ELSE h[n]
    BY <1>2, <2>1
  <2>3. Older(D, n) \in Nat /\ Older(D, n + 1) = Older(D, n) + IF n \in D THEN 1 ELSE 0
    BY <1>1, <2>1, OlderNext
  <2>4. h[n] = Left(n)
    BY <1>4
  <2>5. h[n + 1] = Left(n + 1)
    BY <1>1, <2>2, <2>3, <2>4
  <2> QED
    BY <2>1, <2>5
<1>5. p \in S
  <2> HIDE DEF S
  <2> QED
    BY <1>3, <1>4, UpTo
<1>6. Older(D, p) \in Nat
  BY <1>1, OlderNext
<1> QED
  BY <1>1, <1>5, <1>6 DEF D, e

(* The pass prunes.                                                        *)
LEMMA PassPrunes ==
    ASSUME NEW T, IsTable(T), NEW m \in Nat, \A p \in DOMAIN T : p =< m
    PROVE  PrunedInPass(T, m) = Pruned(T)
<1> DEFINE IsIt(h) == h = [n \in 0..m |->
               IF n = 0 THEN Excess(T)
               ELSE LET before == h[n - 1]
                    IN  IF n - 1 \in Dead(T) /\ before > 0 THEN before - 1 ELSE before]
           f == CHOOSE h : IsIt(h)
           kept == {p \in DOMAIN T : p \in Dead(T) => ~(f[p] > 0)}
           stay == DOMAIN T \ {p \in Dead(T) : Older(Dead(T), p) < Excess(T)}
<1>1. ASSUME NEW h PROVE IsIt(h) <=> IsToDrop(h, T, m)
  BY DEF IsToDrop, DropAt
<1>2. IsIt(f)
  <2>1. PICK h : IsToDrop(h, T, m)
    BY ToDropIsThere
  <2>2. IsIt(h)
    BY <1>1, <2>1
  <2> HIDE DEF IsIt
  <2> QED
    BY <2>2
<1>3. IsToDrop(f, T, m)
  BY <1>1, <1>2
<1>4. PrunedInPass(T, m) = [p \in kept |-> T[p]]
  BY Zenon DEF PrunedInPass
<1> HIDE DEF f
<1>5. ASSUME NEW p \in DOMAIN T PROVE f[p] > 0 <=> Older(Dead(T), p) < Excess(T)
  <2>1. p \in 0..m
    BY DEF IsTable, Pids
  <2> QED
    BY <1>3, <2>1, ToDropCounts
<1>6. kept = stay
  BY <1>5 DEF Dead, InState
<1> QED
  BY <1>4, <1>6 DEF Pruned

(* One completion is the mark and the pass.                                *)
LEMMA OnceCompletes ==
    ASSUME NEW T, IsTable(T), NEW m \in Nat, \A p \in DOMAIN T : p =< m, NEW pid
    PROVE  CompletedOnce(T, pid, m) = Completed(T, pid)
<1>1. CASE pid \in Live(T)
  <2> DEFINE U == [T EXCEPT ![pid].state = "Z"]
             D == Dead(T) \cup {pid}
  <2>1. pid \in DOMAIN T /\ T \in [DOMAIN T -> Row]
    BY <1>1 DEF Live, IsTable
  <2>2. U \in [DOMAIN T -> Row] /\ DOMAIN U = DOMAIN T
    BY <2>1 DEF Row, ProcState
  <2>3. \A p \in DOMAIN T : U[p] = IF p \in {pid} THEN [T[p] EXCEPT !.state = "Z"] ELSE T[p]
    BY <2>1
  <2>4. \A p \in DOMAIN T : U[p].state = IF p = pid THEN "Z" ELSE T[p].state
    BY <2>1, <2>3 DEF Row
  <2> HIDE DEF U
  <2>5. IsTable(U) /\ \A p \in DOMAIN U : p =< m
    BY <2>2 DEF IsTable
  <2>6. Dead(U) = D /\ Excess(U) = Excess(T)
    BY <2>1, <2>2, <2>4 DEF Dead, InState, Excess
  <2>7. \A p \in D : TurnToLeave(T, {pid}, p) = Older(D, p)
    <3>1. {q \in {pid} : \A r \in {pid} : q =< r} = {pid}
      BY <2>1 DEF IsTable, Pids
    <3> QED
      BY <3>1 DEF TurnToLeave
  <2> DEFINE leaving == {p \in D : Older(D, p) < Excess(T)}
  <2>8. CompletedAll(T, {pid}) = [p \in DOMAIN T \ leaving |-> U[p]]
    <3>1. {p \in D : {pid} # {} /\ TurnToLeave(T, {pid}, p) < Excess(T)} = leaving
      BY <2>7
    <3> HIDE DEF leaving
    <3> QED
      BY <2>3, <3>1 DEF CompletedAll
  <2>9. Pruned(U) = [p \in DOMAIN T \ leaving |-> U[p]]
    BY <2>2, <2>6 DEF Pruned
  <2>10. CompletedOnce(T, pid, m) = Pruned(U)
    <3>1. CompletedOnce(T, pid, m) = PrunedInPass(U, m)
      BY <1>1 DEF CompletedOnce, U
    <3> QED
      BY <2>5, <3>1, PassPrunes
  <2> QED
    BY <1>1, <2>8, <2>9, <2>10 DEF Completed
<1>2. CASE pid \notin Live(T)
  BY <1>2, PassPrunes DEF CompletedOnce, Completed
<1> QED
  BY <1>1, <1>2

-----------------------------------------------------------------------------
(* Completing none.                                                        *)
LEMMA NoneCompleted == ASSUME NEW T, IsTable(T) PROVE CompletedAll(T, {}) = T
<1>1. {p \in Dead(T) \cup {} : {} # {} /\ TurnToLeave(T, {}, p) < Excess(T)} = {}
  OBVIOUS
<1>2. CompletedAll(T, {}) = [p \in DOMAIN T |-> T[p]]
  BY <1>1 DEF CompletedAll
<1> QED
  BY <1>2 DEF IsTable

(* A later completion changes no turn, and its own row has the last.       *)
LEMMA LastTurn ==
    ASSUME NEW T, IsTable(T), NEW qs \in SUBSET Live(T), qs # {},
           NEW n \in Live(T), \A q \in qs : q < n
    PROVE  /\ \A q \in Dead(T) \cup qs : TurnToLeave(T, qs \cup {n}, q) = TurnToLeave(T, qs, q)
           /\ TurnToLeave(T, qs \cup {n}, n) = Cardinality(Dead(T) \cup qs)
<1> DEFINE ns == qs \cup {n}
           first(S) == {q \in S : \A r \in S : q =< r}
           A == Dead(T) \cup first(qs)
           B == qs \ first(qs)
<1>1. /\ qs \in SUBSET Nat /\ n \in Nat /\ n \notin qs /\ n \notin Dead(T)
      /\ Dead(T) \in SUBSET Nat /\ IsFiniteSet(Dead(T)) /\ IsFiniteSet(qs)
      /\ Dead(T) \cap qs = {}
  <2>1. qs \in SUBSET DOMAIN T /\ DOMAIN T \in SUBSET Nat
    BY DEF Live, IsTable, Pids
  <2>2. IsFiniteSet(qs)
    BY <2>1, FS_Subset DEF IsTable
  <2>3. n \in Nat
    BY <2>1 DEF Live
  <2>4. n \notin qs
    BY <2>3
  <2> QED
    BY <2>1, <2>2, <2>3, <2>4, DeadFinite DEF Live, Dead, InState
<1>2. first(ns) = first(qs)
  <2>1. \A q \in qs : q =< n /\ ~(n =< q)
    BY <1>1
  <2>2. n \notin first(ns)
    BY <2>1
  <2> QED
    BY <2>1, <2>2
<1>3. ns \ first(ns) = B \cup {n} /\ n \notin A /\ n \notin B
  <2>1. first(qs) \in SUBSET qs
    OBVIOUS
  <2> HIDE DEF first
  <2> QED
    BY <1>1, <1>2, <2>1
<1>4. /\ \A q : TurnToLeave(T, qs, q) = IF q \in A THEN Older(A, q) ELSE Cardinality(A) + Older(B, q)
      /\ \A q : TurnToLeave(T, ns, q) =
                    IF q \in A THEN Older(A, q) ELSE Cardinality(A) + Older(B \cup {n}, q)
  <2>1. \A q : TurnToLeave(T, ns, q) =
                 IF q \in Dead(T) \cup first(ns) THEN Older(Dead(T) \cup first(ns), q)
                 ELSE Cardinality(Dead(T) \cup first(ns)) + Older(ns \ first(ns), q)
    BY DEF TurnToLeave
  <2>2. \A q : TurnToLeave(T, qs, q) = IF q \in A THEN Older(A, q) ELSE Cardinality(A) + Older(B, q)
    BY DEF TurnToLeave
  <2> HIDE DEF first, ns
  <2> QED
    BY <1>2, <1>3, <2>1, <2>2
<1>5. A \cup B = Dead(T) \cup qs /\ A \cap B = {} /\ B \in SUBSET qs /\ A \in SUBSET (Dead(T) \cup qs)
  BY <1>1
<1> HIDE DEF A, B, ns, first
<1>6. ASSUME NEW q \in B PROVE Older(B \cup {n}, q) = Older(B, q)
  <2>1. ~(n < q)
    BY <1>1, <1>5
  <2>2. {x \in B \cup {n} : x < q} = {x \in B : x < q}
    BY <2>1
  <2> QED
    BY <2>2 DEF Older
<1>7. Older(B \cup {n}, n) = Cardinality(B)
  <2>1. ~(n < n) /\ \A q \in B : q < n
    BY <1>1, <1>5
  <2>2. {x \in B \cup {n} : x < n} = B
    BY <2>1
  <2> QED
    BY <2>2 DEF Older
<1>8. Cardinality(Dead(T) \cup qs) = Cardinality(A) + Cardinality(B)
  <2>1. IsFiniteSet(A) /\ IsFiniteSet(B)
    BY <1>1, <1>5, FS_Subset, FS_Union
  <2>2. Cardinality(A \cup B) = Cardinality(A) + Cardinality(B) - Cardinality(A \cap B)
    BY <2>1, FS_Union
  <2>3. Cardinality(A \cap B) = 0 /\ Cardinality(A) \in Nat /\ Cardinality(B) \in Nat
    BY <1>5, <2>1, FS_EmptySet, FS_CardinalityType
  <2>4. Cardinality(Dead(T) \cup qs) = Cardinality(A \cup B)
    BY <1>5
  <2> DEFINE a == Cardinality(A)
             b == Cardinality(B)
             ab == Cardinality(A \cap B)
  <2>5. Cardinality(A \cup B) = a + b - ab /\ ab = 0 /\ a \in Nat /\ b \in Nat
    BY <2>2, <2>3
  <2> HIDE DEF a, b, ab
  <2>6. Cardinality(A \cup B) = a + b
    BY <2>5
  <2> QED
    BY <2>4, <2>6 DEF a, b
<1>9. ASSUME NEW q \in Dead(T) \cup qs PROVE TurnToLeave(T, ns, q) = TurnToLeave(T, qs, q)
  <2>1. q \in A \/ q \in B
    BY <1>5
  <2> QED
    BY <1>4, <1>6, <2>1
<1>10. TurnToLeave(T, ns, n) = Cardinality(Dead(T) \cup qs)
  BY <1>3, <1>4, <1>7, <1>8
<1> QED
  BY <1>9, <1>10 DEF ns

(* The rows that leave with qs: when the table has too many, as many rows  *)
(* as that, or all that are over.                                          *)
LeavingWith(T, qs) == {p \in Dead(T) \cup qs : qs # {} /\ TurnToLeave(T, qs, p) < Excess(T)}

LEMMA CompletedIs ==
    ASSUME NEW T, IsTable(T), NEW qs \in SUBSET Live(T)
    PROVE  /\ DOMAIN CompletedAll(T, qs) = DOMAIN T \ LeavingWith(T, qs)
           /\ \A p \in DOMAIN T \ LeavingWith(T, qs) :
                CompletedAll(T, qs)[p] = IF p \in qs THEN [T[p] EXCEPT !.state = "Z"] ELSE T[p]
           /\ Dead(CompletedAll(T, qs)) = (Dead(T) \cup qs) \ LeavingWith(T, qs)
           /\ Live(CompletedAll(T, qs)) = Live(T) \ qs
           /\ LeavingWith(T, qs) \in SUBSET (Dead(T) \cup qs)
           /\ Dead(T) \cup qs \in SUBSET (DOMAIN T)
<1> DEFINE L == LeavingWith(T, qs)
           U == [p \in DOMAIN T \ L |-> IF p \in qs THEN [T[p] EXCEPT !.state = "Z"] ELSE T[p]]
<1>1. CompletedAll(T, qs) = U
  BY DEF CompletedAll, LeavingWith
<1>2. L \in SUBSET (Dead(T) \cup qs) /\ Dead(T) \cup qs \in SUBSET (DOMAIN T)
  BY DEF LeavingWith, Dead, Live, InState
<1> HIDE DEF L
<1>3. ASSUME NEW p \in DOMAIN T \ L
      PROVE  U[p] = (IF p \in qs THEN [T[p] EXCEPT !.state = "Z"] ELSE T[p])
             /\ U[p].state = IF p \in qs THEN "Z" ELSE T[p].state
  <2>1. T[p] \in Row
    BY DEF IsTable
  <2> QED
    BY <2>1 DEF Row
<1>4. DOMAIN U = DOMAIN T \ L
  OBVIOUS
<1> HIDE DEF U
<1>5. Dead(U) = (Dead(T) \cup qs) \ L
  BY <1>2, <1>3, <1>4 DEF Dead, InState
<1>6. Live(U) = Live(T) \ qs
  BY <1>2, <1>3, <1>4 DEF Dead, InState, Live
<1> QED
  BY <1>1, <1>2, <1>3, <1>4, <1>5, <1>6 DEF L

LEMMA LeavingWithAll ==
    ASSUME NEW T, IsTable(T), NEW qs \in SUBSET Live(T), qs # {}
    PROVE  LET all == Dead(T) \cup qs
           IN  /\ Cardinality(all) \in Nat
               /\ Excess(T) =< Cardinality(all) => Excess(CompletedAll(T, qs)) =< 0
               /\ Excess(T) > Cardinality(all) => /\ LeavingWith(T, qs) = all
                                                  /\ Excess(CompletedAll(T, qs)) > 0
<1> DEFINE all == Dead(T) \cup qs
           n == Cardinality(all)
           e == Excess(T)
           L == LeavingWith(T, qs)
           late == all \ L
           turn == [p \in all |-> TurnToLeave(T, qs, p)]
           d == Cardinality(DOMAIN T)
           l == Cardinality(L)
           u == Excess(CompletedAll(T, qs))
<1>1. /\ IsFiniteSet(all) /\ n \in Nat /\ d \in Nat /\ MaxRows \in Nat /\ e = d - MaxRows
      /\ IsFiniteSet(L) /\ l \in Nat /\ l =< n /\ l =< d
  <2>1. L \in SUBSET all /\ all \in SUBSET (DOMAIN T)
    BY CompletedIs
  <2>2. IsFiniteSet(all) /\ IsFiniteSet(L) /\ l =< n
    BY <2>1, FS_Subset DEF IsTable
  <2>3. L \in SUBSET (DOMAIN T) /\ IsFiniteSet(DOMAIN T)
    BY <2>1 DEF IsTable
  <2>4. l =< d
    BY <2>3, FS_Subset
  <2>5. n \in Nat /\ l \in Nat /\ d \in Nat
    BY <2>2, <2>3, FS_CardinalityType
  <2> QED
    BY <2>2, <2>4, <2>5, MaxRowsAssumption DEF Excess
<1>2. u = d - l - MaxRows
  <2> DEFINE D == DOMAIN T
             c == Cardinality(D \ L)
  <2>1. IsFiniteSet(D) /\ L \in SUBSET D
    BY CompletedIs DEF IsTable
  <2>2. c = Cardinality(D) - Cardinality(D \cap L) /\ D \cap L = L
    <3> HIDE DEF D, L
    <3> QED
      BY <2>1, FS_Difference
  <2>3. c = d - l
    BY <2>2
  <2>4. u = c - MaxRows
    BY CompletedIs DEF Excess
  <2> HIDE DEF c, d, l, u
  <2> QED
    BY <2>3, <2>4
<1>3. /\ \A p \in all : turn[p] \in 0..n - 1
      /\ \A p, q \in all : p # q => turn[p] # turn[q]
  BY TurnRanks
<1>4. \A p \in all : p \in L <=> turn[p] < e
  BY DEF LeavingWith
<1> HIDE DEF all, n, e, L, turn, d, l, u
<1>5. ASSUME e =< n PROVE u =< 0
  <2>1. CASE e =< 0
    BY <1>1, <1>2, <1>5, <2>1
  <2>2. CASE e > 0
    <3>1. e \in Nat /\ \A p \in all : turn[p] \in Int
      BY <1>1, <1>3, <2>2
    <3>2. late = {p \in all : e =< turn[p]}
      BY <1>1, <1>4, <3>1
    <3>3. Cardinality({p \in all : e =< turn[p]}) =< n - e
      <4>1. Cardinality({p \in all : e =< turn[p]}) =< IF e =< n THEN n - e ELSE 0
        BY <1>1, <1>3, <3>1, LateOnes DEF n
      <4> QED
        BY <1>5, <4>1
    <3>4. Cardinality(late) = n - l
      <4>1. Cardinality(late) = Cardinality(all) - Cardinality(all \cap L)
        BY <1>1, FS_Difference
      <4>2. all \cap L = L
        BY DEF all, L, LeavingWith
      <4> QED
        BY <4>1, <4>2 DEF n, l
    <3>5. n - l =< n - e
      BY <3>2, <3>3, <3>4
    <3> QED
      BY <1>1, <1>2, <1>5, <3>5
  <2> QED
    BY <1>1, <2>1, <2>2
<1>6. ASSUME e > n PROVE L = all /\ u > 0
  <2>1. \A p \in all : turn[p] < e
    BY <1>1, <1>3, <1>6
  <2>2. L = all
    BY <1>4, <2>1 DEF L, LeavingWith, all
  <2>3. l = n
    BY <2>2 DEF l, n
  <2> QED
    BY <1>1, <1>2, <1>6, <2>2, <2>3
<1> QED
  BY <1>1, <1>5, <1>6 DEF all, n, e, L, u

(* Completing one more, later than the others, is completing them and then *)
(* that one.                                                               *)
LEMMA CompletedLast ==
    ASSUME NEW T, IsTable(T), NEW qs \in SUBSET Live(T), NEW n \in Live(T), \A q \in qs : q < n
    PROVE  Completed(CompletedAll(T, qs), n) = CompletedAll(T, qs \cup {n})
<1> DEFINE U == CompletedAll(T, qs)
           ns == qs \cup {n}
           all == Dead(T) \cup qs
           marked(p) == [T[p] EXCEPT !.state = "Z"]
<1>1. CASE qs = {}
  <2>1. U = T /\ ns = {n}
    BY <1>1, NoneCompleted
  <2> QED
    BY <2>1 DEF Completed
<1>2. CASE qs # {}
  <2>1. n \notin qs /\ n \in DOMAIN T /\ n \notin Dead(T) /\ ns \in SUBSET Live(T)
    <3>1. n \in Nat
      BY DEF Live, IsTable, Pids
    <3>2. ~(n < n)
      BY <3>1
    <3> QED
      BY <3>2 DEF Live, Dead, InState
  <2>2. /\ DOMAIN U = DOMAIN T \ LeavingWith(T, qs)
        /\ \A p \in DOMAIN U : U[p] = IF p \in qs THEN marked(p) ELSE T[p]
        /\ Dead(U) = all \ LeavingWith(T, qs)
        /\ Live(U) = Live(T) \ qs
        /\ LeavingWith(T, qs) \in SUBSET all
    <3>1. /\ DOMAIN U = DOMAIN T \ LeavingWith(T, qs)
          /\ \A p \in DOMAIN T \ LeavingWith(T, qs) :
                U[p] = IF p \in qs THEN [T[p] EXCEPT !.state = "Z"] ELSE T[p]
          /\ Dead(U) = all \ LeavingWith(T, qs)
          /\ Live(U) = Live(T) \ qs
          /\ LeavingWith(T, qs) \in SUBSET all
      BY CompletedIs, Zenon
    <3> HIDE DEF U, all
    <3> QED
      BY <3>1
  <2>3. IsTable(U) /\ n \in Live(U) /\ {n} \in SUBSET Live(U)
    <3>1. IsTable(U)
      BY CompletedAllTable
    <3> HIDE DEF U
    <3> QED
      BY <2>1, <2>2, <3>1
  <2>4. LeavingWith(T, ns) = LeavingWith(T, qs) \cup LeavingWith(U, {n})
    <3>1. /\ \A q \in all : TurnToLeave(T, ns, q) = TurnToLeave(T, qs, q)
          /\ TurnToLeave(T, ns, n) = Cardinality(all)
      BY <1>2, LastTurn
    <3>2. /\ Dead(T) \cup ns = all \cup {n} /\ ns # {} /\ {n} # {}
      OBVIOUS
    <3>3. LeavingWith(T, ns) = LeavingWith(T, qs) \cup {p \in {n} : Cardinality(all) < Excess(T)}
      BY <1>2, <3>1, <3>2 DEF LeavingWith
    <3>4. /\ \A p \in Dead(U) \cup {n} : TurnToLeave(U, {n}, p) \in 0..Cardinality(Dead(U) \cup {n}) - 1
      BY <2>3, TurnRanks
    <3>5. /\ Cardinality(all) \in Nat /\ Excess(T) \in Int /\ Excess(U) \in Int
      <4>1. Cardinality(all) \in Nat
        BY <1>2, LeavingWithAll
      <4> QED
        BY <2>3, <4>1, DeadFinite, MaxRowsAssumption DEF Excess
    <3>6. CASE Excess(T) =< Cardinality(all)
      <4>1. Excess(U) =< 0
        BY <1>2, <3>6, LeavingWithAll
      <4>2. \A p \in Dead(U) \cup {n} : ~(TurnToLeave(U, {n}, p) < Excess(U))
        BY <3>4, <3>5, <4>1
      <4>3. LeavingWith(U, {n}) = {}
        BY <4>2 DEF LeavingWith
      <4>4. ~(Cardinality(all) < Excess(T))
        BY <3>5, <3>6
      <4> QED
        BY <3>3, <4>3, <4>4
    <3>7. CASE Excess(T) > Cardinality(all)
      <4>1. Excess(U) > 0 /\ LeavingWith(T, qs) = all
        BY <1>2, <3>7, LeavingWithAll
      <4>2. Dead(U) = {}
        BY <2>2, <4>1
      <4>3. TurnToLeave(U, {n}, n) = 0
        <5>1. Dead(U) \cup {n} = {n} /\ Cardinality({n}) = 1
          BY <4>2, FS_Singleton
        <5>2. TurnToLeave(U, {n}, n) \in 0..Cardinality({n}) - 1
          BY <3>4, <5>1
        <5> QED
          BY <5>1, <5>2
      <4>4. TurnToLeave(U, {n}, n) < Excess(U)
        BY <4>1, <4>3
      <4>5. LeavingWith(U, {n}) = {n}
        BY <4>2, <4>4 DEF LeavingWith
      <4>6. Cardinality(all) < Excess(T)
        BY <3>5, <3>7
      <4> QED
        BY <3>3, <4>5, <4>6
    <3> QED
      BY <3>5, <3>6, <3>7
  <2>5. DOMAIN U \ LeavingWith(U, {n}) = DOMAIN T \ LeavingWith(T, ns)
    BY <2>2, <2>4
  <2>6. /\ CompletedAll(T, ns) =
             [p \in DOMAIN T \ LeavingWith(T, ns) |-> IF p \in ns THEN marked(p) ELSE T[p]]
        /\ CompletedAll(U, {n}) =
             [p \in DOMAIN U \ LeavingWith(U, {n}) |->
                IF p \in {n} THEN [U[p] EXCEPT !.state = "Z"] ELSE U[p]]
    BY DEF CompletedAll, LeavingWith
  <2>7. ASSUME NEW p \in DOMAIN U
        PROVE  (IF p \in {n} THEN [U[p] EXCEPT !.state = "Z"] ELSE U[p])
               = IF p \in ns THEN marked(p) ELSE T[p]
    BY <2>1, <2>2
  <2> HIDE DEF U, ns, all
  <2>8. CompletedAll(U, {n}) = CompletedAll(T, ns)
    BY <2>5, <2>6, <2>7
  <2> QED
    BY <2>3, <2>8 DEF Completed, U, ns
<1> QED
  BY <1>1, <1>2

-----------------------------------------------------------------------------
(* The tables between completions.                                         *)
AfterAt(T, ps, m, h, n) ==
    IF n = 0 THEN T
    ELSE IF n - 1 \in ps THEN CompletedOnce(h[n - 1], n - 1, m) ELSE h[n - 1]
IsAfter(h, T, ps, m, k) == h = [n \in 0..k |-> AfterAt(T, ps, m, h, n)]

LEMMA AfterIsThere ==
    ASSUME NEW T, NEW ps, NEW m \in Nat
    PROVE  \E h : IsAfter(h, T, ps, m, m)
<1> DEFINE S == {k \in Nat : \E h : IsAfter(h, T, ps, m, k)}
<1>1. 0 \in S
  <2> DEFINE h == [n \in 0..0 |-> T]
  <2>1. \A n \in 0..0 : AfterAt(T, ps, m, h, n) = T
    BY DEF AfterAt
  <2>2. IsAfter(h, T, ps, m, 0)
    BY <2>1 DEF IsAfter
  <2> QED
    BY <2>2
<1>2. ASSUME NEW k \in 0..(m - 1), k \in S PROVE k + 1 \in S
  <2>1. PICK h : IsAfter(h, T, ps, m, k)
    BY <1>2
  <2> DEFINE v == [n \in 0..(k + 1) |-> IF n = k + 1 THEN AfterAt(T, ps, m, h, n) ELSE h[n]]
  <2>2. ASSUME NEW n \in 0..(k + 1) PROVE v[n] = AfterAt(T, ps, m, v, n)
    <3>1. n # 0 => n - 1 \in 0..k /\ v[n - 1] = h[n - 1]
      OBVIOUS
    <3>2. AfterAt(T, ps, m, v, n) = AfterAt(T, ps, m, h, n)
      BY <3>1 DEF AfterAt
    <3>3. CASE n = k + 1
      BY <3>2, <3>3
    <3>4. CASE n # k + 1
      <4>1. n \in 0..k /\ v[n] = h[n]
        BY <3>4
      <4>2. h[n] = AfterAt(T, ps, m, h, n)
        BY <2>1, <4>1 DEF IsAfter
      <4> QED
        BY <3>2, <4>1, <4>2
    <3> QED
      BY <3>3, <3>4
  <2>3. v = [n \in 0..(k + 1) |-> v[n]]
    OBVIOUS
  <2>4. IsAfter(v, T, ps, m, k + 1)
    <3> HIDE DEF v
    <3> QED
      BY <2>2, <2>3 DEF IsAfter
  <2> QED
    BY <2>4
<1>3. 0..m \subseteq S
  <2> HIDE DEF S
  <2> QED
    BY <1>1, <1>2, UpTo
<1> QED
  BY <1>3

LEMMA AfterIs ==
    ASSUME NEW T, IsTable(T), NEW ps \in SUBSET Live(T), NEW m \in Nat,
           \A p \in DOMAIN T : p =< m, NEW h, IsAfter(h, T, ps, m, m), NEW k \in 0..m
    PROVE  h[k] = CompletedAll(T, {q \in ps : q < k})
<1> DEFINE Below(n) == {q \in ps : q < n}
           S == {n \in 0..m : h[n] = CompletedAll(T, Below(n))}
<1>1. ps \in SUBSET Nat
  BY DEF Live, IsTable, Pids
<1>2. ASSUME NEW n \in 0..m PROVE h[n] = AfterAt(T, ps, m, h, n)
  BY DEF IsAfter
<1>3. 0 \in S
  <2>1. \A q \in ps : ~(q < 0)
    BY <1>1
  <2>2. Below(0) = {} /\ 0 \in 0..m
    BY <2>1
  <2>3. h[0] = T
    BY <1>2, <2>2 DEF AfterAt
  <2> QED
    BY <2>2, <2>3, NoneCompleted
<1>4. ASSUME NEW n \in 0..(m - 1), n \in S PROVE n + 1 \in S
  <2>1. n + 1 \in 0..m /\ n + 1 # 0 /\ (n + 1) - 1 = n /\ n \in Nat
    OBVIOUS
  <2>2. h[n + 1] = IF n \in ps THEN CompletedOnce(h[n], n, m) ELSE h[n]
    BY <1>2, <2>1 DEF AfterAt
  <2>3. h[n] = CompletedAll(T, Below(n))
    BY <1>4
  <2>4. \A q \in ps : q < n + 1 <=> q < n \/ q = n
    BY <1>1, <2>1
  <2>5. CASE n \in ps
    <3>1. Below(n + 1) = Below(n) \cup {n}
      BY <2>4, <2>5
    <3>2. /\ Below(n) \in SUBSET Live(T) /\ n \in Live(T) /\ \A q \in Below(n) : q < n
      BY <2>5
    <3> HIDE DEF Below
    <3>3. IsTable(h[n]) /\ \A p \in DOMAIN h[n] : p =< m
      BY <2>3, <3>2, CompletedAllTable
    <3>4. CompletedOnce(h[n], n, m) = Completed(h[n], n)
      BY <3>3, OnceCompletes
    <3>5. Completed(CompletedAll(T, Below(n)), n) = CompletedAll(T, Below(n) \cup {n})
      BY <3>2, CompletedLast
    <3> QED
      BY <2>1, <2>2, <2>3, <2>5, <3>1, <3>4, <3>5
  <2>6. CASE n \notin ps
    <3>1. Below(n + 1) = Below(n)
      BY <2>4, <2>6
    <3> QED
      BY <2>1, <2>2, <2>3, <2>6, <3>1
  <2> QED
    BY <2>5, <2>6
<1>5. k \in S
  <2> HIDE DEF S
  <2> QED
    BY <1>3, <1>4, UpTo
<1> QED
  BY <1>5

(* For every table: completing rows at once is completing them in turn.    *)
LEMMA TurnsComplete ==
    ASSUME NEW T, IsTable(T), NEW ps \in SUBSET Live(T), NEW m \in Nat,
           \A p \in DOMAIN T : p < m
    PROVE  CompletedInTurn(T, ps, m) = CompletedAll(T, ps)
<1> DEFINE IsIt(h) == h = [n \in 0..m |->
               IF n = 0 THEN T
               ELSE LET before == h[n - 1]
                    IN  IF n - 1 \in ps THEN CompletedOnce(before, n - 1, m) ELSE before]
           f == CHOOSE h : IsIt(h)
<1>1. ASSUME NEW h PROVE IsIt(h) <=> IsAfter(h, T, ps, m, m)
  BY DEF IsAfter, AfterAt
<1>2. IsIt(f)
  <2>1. PICK h : IsAfter(h, T, ps, m, m)
    BY AfterIsThere
  <2>2. IsIt(h)
    BY <1>1, <2>1
  <2> HIDE DEF IsIt
  <2> QED
    BY <2>2
<1>3. IsAfter(f, T, ps, m, m)
  BY <1>1, <1>2
<1>4. CompletedInTurn(T, ps, m) = f[m]
  BY Zenon DEF CompletedInTurn
<1> HIDE DEF f
<1>5. DOMAIN T \in SUBSET Nat /\ ps \in SUBSET (DOMAIN T)
  BY DEF Live, IsTable, Pids
<1>6. \A p \in DOMAIN T : p =< m
  BY <1>5
<1>7. m \in 0..m
  OBVIOUS
<1>8. f[m] = CompletedAll(T, {q \in ps : q < m})
  BY <1>3, <1>6, <1>7, AfterIs
<1>9. {q \in ps : q < m} = ps
  BY <1>5
<1> QED
  BY <1>4, <1>8, <1>9

(* On every table a session reaches, completing several rows at once, as   *)
(* the model does for jobs that are reaped or killed, gives what complete  *)
(* gives when it is called for them in the order of the table, each call   *)
(* pruning in one pass: which of the old rows survive is the code's own    *)
(* choice.                                                                 *)
THEOREM CompletionIsInTurn == Spec => []CompletionInTurn
<1>1. Inv => CompletionInTurn
  <2> SUFFICES ASSUME Inv PROVE CompletionInTurn
    OBVIOUS
  <2>1. IsTable(rows) /\ nextPid \in Nat /\ \A p \in DOMAIN rows : p < nextPid
    BY DEF Inv, TypeOK, TableTypeOK, Pids
  <2>2. \A p \in DOMAIN rows : p =< nextPid
    BY <2>1 DEF IsTable, Pids
  <2>3. ASSUME NEW ps \in SUBSET Live(rows)
        PROVE  CompletedAll(rows, ps) = CompletedInTurn(rows, ps, nextPid)
    BY <2>1, TurnsComplete
  <2>4. ASSUME NEW p \in 0..nextPid PROVE Completed(rows, p) = CompletedOnce(rows, p, nextPid)
    BY <2>1, <2>2, OnceCompletes
  <2> QED
    BY <2>3, <2>4 DEF CompletionInTurn
<1> QED
  BY <1>1, InvHolds, PTL
=============================================================================
