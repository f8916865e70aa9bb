--------------------------- MODULE AskLoop_proofs ---------------------------
(***************************************************************************)
(* What every loop of `ask` keeps, however many turns it may take, however *)
(* large its batches are and however deep loops run inside one another.    *)
(***************************************************************************)
EXTENDS AskLoop, FiniteSetTheorems, SequenceTheorems, TLAPS

(* A loop that runs.  While it is in a batch its turn is one ahead of the  *)
(* history, until the batch is recorded.                                   *)
GoodFrame(f) ==
    /\ f \in Frame
    /\ Accounted(f.history, f.ids, f.batch, f.results, f.stage = "drain")
    /\ Turns(f.history) =< MaxTurns
    /\ f.stage = "model" => f.turn = Turns(f.history) /\ f.results = <<>>
    /\ f.stage = "tools" => f.turn = Turns(f.history) + 1

(* A loop that is put away.                                                *)
GoodPause(p) ==
    /\ p \in Pause
    /\ Accounted(p.history, p.ids, p.batch, p.results, TRUE)
    /\ Turns(p.history) =< MaxTurns
    /\ p.batch # <<>>
    /\ Waits(p.batch[1].kind, p.blanket)

(* Only the innermost loop may await the model; those around it are each   *)
(* in the call that started the next.                                      *)
Stacked == \A i \in 1..Depth - 1 : frames[i].stage # "model" /\ frames[i].batch # <<>>

StackOK == /\ frames \in Seq(Frame) /\ Depth =< MaxDepth
           /\ \A i \in DOMAIN frames : GoodFrame(frames[i])
           /\ Stacked

Inv == /\ StackOK
       /\ pending = NoPause \/ GoodPause(pending)
       /\ told \in BOOLEAN
       /\ ProviderHome

-----------------------------------------------------------------------------
(* Turns of a history.                                                     *)
LEMMA TurnsFinite ==
    ASSUME NEW h \in Seq(Turn)
    PROVE  /\ IsFiniteSet({i \in DOMAIN h : h[i].role = "assistant"})
           /\ Turns(h) \in Nat
<1> DEFINE S == {i \in DOMAIN h : h[i].role = "assistant"}
<1>1. IsFiniteSet(1..Len(h))
  BY FS_Interval
<1>2. IsFiniteSet(S)
  BY <1>1, FS_Subset
<1> QED
  BY <1>2, FS_CardinalityType DEF Turns

LEMMA TurnsEmpty == Turns(<<>>) = 0
<1>1. {i \in DOMAIN <<>> : <<>>[i].role = "assistant"} = {}
  OBVIOUS
<1> QED
  BY <1>1, FS_EmptySet DEF Turns

LEMMA TurnsAssistant ==
    ASSUME NEW h \in Seq(Turn), NEW ids
    PROVE  Turns(Append(h, Assistant(ids))) = Turns(h) + 1
<1> DEFINE S == {i \in DOMAIN h : h[i].role = "assistant"}
           g == Append(h, Assistant(ids))
<1>1. {i \in DOMAIN g : g[i].role = "assistant"} = S \cup {Len(h) + 1}
  BY DEF Assistant
<1>2. IsFiniteSet(S) /\ Len(h) + 1 \notin S
  <2>1. IsFiniteSet(S)
    BY TurnsFinite
  <2>2. Len(h) + 1 \notin DOMAIN h
    OBVIOUS
  <2> QED
    BY <2>1, <2>2
<1> HIDE DEF S, g
<1>3. Cardinality(S \cup {Len(h) + 1}) = Cardinality(S) + 1
  BY <1>2, FS_AddElement
<1> QED
  BY <1>1, <1>3 DEF Turns, S, g

LEMMA TurnsResults ==
    ASSUME NEW h \in Seq(Turn), NEW ids
    PROVE  Turns(Append(h, Results(ids))) = Turns(h)
<1> DEFINE g == Append(h, Results(ids))
<1>1. {i \in DOMAIN g : g[i].role = "assistant"} = {i \in DOMAIN h : h[i].role = "assistant"}
  BY DEF Results
<1> QED
  BY <1>1 DEF Turns

-----------------------------------------------------------------------------
(* The turns of a history stay paired.                                     *)
LEMMA EvenOrOdd == \A n \in Nat : n % 2 = 0 \/ n % 2 = 1
OBVIOUS

LEMMA MatchedAssistant ==
    ASSUME NEW h \in Seq(Turn), Matched(h), Len(h) % 2 = 0, NEW ids \in Seq(Nat)
    PROVE  LET g == Append(h, Assistant(ids))
           IN  /\ g \in Seq(Turn) /\ Matched(g) /\ Len(g) % 2 = 1
               /\ g[Len(g)] = Assistant(ids)
<1> DEFINE g == Append(h, Assistant(ids))
<1>1. /\ g \in Seq(Turn) /\ Len(g) = Len(h) + 1 /\ g[Len(g)] = Assistant(ids)
      /\ \A i \in 1..Len(h) : g[i] = h[i]
  <2>1. Assistant(ids) \in Turn
    BY DEF Assistant, Turn
  <2> QED
    BY <2>1, AppendProperties
<1>2. Len(g) % 2 = 1
  BY <1>1
<1>3. ASSUME NEW i \in DOMAIN g
      PROVE  IF i % 2 = 1
               THEN /\ g[i].role = "assistant"
                    /\ i < Len(g) => g[i + 1] = Results(g[i].ids)
               ELSE g[i].role = "results"
  <2>1. CASE i = Len(g)
    BY <1>1, <1>2, <2>1 DEF Assistant
  <2>2. CASE i \in 1..Len(h) /\ i % 2 = 1
    <3>1. i < Len(h) /\ i + 1 \in 1..Len(h) /\ i \in DOMAIN h
      BY <2>2
    <3>2. h[i].role = "assistant" /\ h[i + 1] = Results(h[i].ids)
      BY <2>2, <3>1 DEF Matched
    <3>3. g[i] = h[i] /\ g[i + 1] = h[i + 1]
      BY <1>1, <3>1
    <3> QED
      BY <2>2, <3>2, <3>3
  <2>3. CASE i \in 1..Len(h) /\ i % 2 # 1
    BY <1>1, <2>3 DEF Matched
  <2> QED
    BY <1>1, <2>1, <2>2, <2>3
<1> QED
  BY <1>1, <1>2, <1>3 DEF Matched

LEMMA MatchedResults ==
    ASSUME NEW h \in Seq(Turn), Matched(h), Len(h) % 2 = 1, NEW ids \in Seq(Nat),
           h[Len(h)] = Assistant(ids)
    PROVE  LET g == Append(h, Results(ids))
           IN  g \in Seq(Turn) /\ Matched(g) /\ Len(g) % 2 = 0
<1> DEFINE g == Append(h, Results(ids))
<1>1. /\ g \in Seq(Turn) /\ Len(g) = Len(h) + 1 /\ g[Len(g)] = Results(ids)
      /\ \A i \in 1..Len(h) : g[i] = h[i]
  <2>1. Results(ids) \in Turn
    BY DEF Results, Turn
  <2> QED
    BY <2>1, AppendProperties
<1>2. Len(g) % 2 = 0
  BY <1>1
<1>3. ASSUME NEW i \in DOMAIN g
      PROVE  IF i % 2 = 1
               THEN /\ g[i].role = "assistant"
                    /\ i < Len(g) => g[i + 1] = Results(g[i].ids)
               ELSE g[i].role = "results"
  <2>1. CASE i = Len(g)
    BY <1>1, <1>2, <2>1 DEF Results
  <2>2. CASE i = Len(h)
    BY <1>1, <2>2 DEF Assistant
  <2>3. CASE i \in 1..Len(h) /\ i < Len(h)
    BY <1>1, <2>3 DEF Matched
  <2> QED
    BY <1>1, <2>1, <2>2, <2>3
<1> QED
  BY <1>1, <1>2, <1>3 DEF Matched

-----------------------------------------------------------------------------
(* The results so far and the calls left are the batch.                    *)
LEMMA IdsType ==
    ASSUME NEW b \in Seq(ToolCall)
    PROVE  Ids(b) \in Seq(Nat) /\ Len(Ids(b)) = Len(b) /\ \A i \in 1..Len(b) : Ids(b)[i] = b[i].id
<1>1. ASSUME NEW i \in 1..Len(b) PROVE b[i].id \in Nat
  <2>1. b[i] \in ToolCall
    OBVIOUS
  <2> QED
    BY <2>1 DEF ToolCall
<1> QED
  BY <1>1 DEF Ids

LEMMA IdsEmpty == Ids(<<>>) = <<>>
BY DEF Ids

LEMMA IdsSettled ==
    ASSUME NEW r \in Seq(Nat), NEW b \in Seq(ToolCall), b # <<>>
    PROVE  /\ Append(r, b[1].id) \in Seq(Nat) /\ Tail(b) \in Seq(ToolCall)
           /\ Append(r, b[1].id) \o Ids(Tail(b)) = r \o Ids(b)
<1> DEFINE t == Tail(b)
           e == b[1].id
           x == Ids(b)
           y == Ids(t)
<1>1. e \in Nat
  <2>1. b[1] \in ToolCall
    OBVIOUS
  <2> QED
    BY <2>1 DEF ToolCall
<1>2. t \in Seq(ToolCall) /\ Len(t) = Len(b) - 1 /\ \A i \in 1..Len(t) : t[i] = b[i + 1]
  BY HeadTailProperties
<1>3. /\ x \in Seq(Nat) /\ Len(x) = Len(b) /\ \A i \in 1..Len(b) : x[i] = b[i].id
      /\ y \in Seq(Nat) /\ Len(y) = Len(t) /\ \A i \in 1..Len(t) : y[i] = t[i].id
  BY <1>2, IdsType
<1>4. x[1] = e /\ x # <<>> /\ Len(b) \in Nat /\ Len(b) > 0
  BY <1>3
<1>5. ASSUME NEW i \in 1..Len(y) PROVE y[i] = Tail(x)[i]
  <2>1. i \in 1..Len(t) /\ i + 1 \in 1..Len(b) /\ i \in 1..Len(Tail(x))
    BY <1>2, <1>3, <1>4, HeadTailProperties
  <2>2. Tail(x)[i] = x[i + 1]
    BY <1>3, <1>4, <2>1, HeadTailProperties
  <2>3. y[i] = t[i].id /\ t[i] = b[i + 1] /\ x[i + 1] = b[i + 1].id
    BY <1>2, <1>3, <2>1
  <2> QED
    BY <2>2, <2>3
<1>6. y = Tail(x)
  <2> HIDE DEF x, y, t
  <2>1. Tail(x) \in Seq(Nat) /\ Len(Tail(x)) = Len(y)
    BY <1>2, <1>3, <1>4, HeadTailProperties
  <2> QED
    BY <1>3, <1>5, <2>1, SeqEqual
<1> HIDE DEF t, e, x, y
<1>7. Append(r, e) = r \o <<e>> /\ <<e>> \in Seq(Nat) /\ Append(r, e) \in Seq(Nat)
  BY <1>1, AppendIsConcat, AppendProperties
<1>8. (r \o <<e>>) \o y = r \o (<<e>> \o y)
  BY <1>3, <1>7, ConcatAssociative
<1>9. <<e>> \o y = x
  <2>1. Head(x) = e
    BY <1>3, <1>4
  <2>2. <<Head(x)>> \o Tail(x) = x
    BY <1>3, <1>4
  <2> QED
    BY <1>6, <2>1, <2>2
<1>10. Append(r, e) \o y = r \o x
  BY <1>7, <1>8, <1>9
<1> QED
  BY <1>2, <1>7, <1>10 DEF t, e, x, y

-----------------------------------------------------------------------------
(* What the steps make of one loop.                                        *)
LEMMA FreshGood ==
    ASSUME NEW b \in BOOLEAN PROVE GoodFrame(Fresh(b)) /\ Fresh(b).stage = "model"
<1> DEFINE f == Fresh(b)
<1>1. f \in Frame /\ f.stage = "model" /\ f.turn = 0 /\ f.history = <<>> /\ f.ids = <<>>
      /\ f.batch = <<>> /\ f.results = <<>>
  BY AskLoopAssumption DEF Fresh, Frame
<1> HIDE DEF f
<1>2. Matched(<<>>) /\ Len(<<>>) % 2 = 0 /\ <<>> \o <<>> = <<>>
  BY DEF Matched
<1>3. Accounted(f.history, f.ids, f.batch, f.results, f.stage = "drain")
  BY <1>1, <1>2, IdsEmpty DEF Accounted
<1> QED
  BY <1>1, <1>3, TurnsEmpty, AskLoopAssumption DEF GoodFrame, f

LEMMA PairAppend ==
    ASSUME NEW S, NEW s \in Seq(S), NEW c \in S
    PROVE  /\ Append(s, c) \in Seq(S) /\ Len(Append(s, c)) = Len(s) + 1
           /\ Append(s, c)[Len(s) + 1] = c
           /\ \A i \in 1..Len(s) : Append(s, c)[i] = s[i]
  BY AppendProperties

LEMMA PairConcat ==
    ASSUME NEW S, NEW a \in S, NEW c \in S PROVE <<a>> \o <<c>> = <<a, c>>
<1>1. <<a>> \in Seq(S) /\ <<a, c>> \in Seq(S)
  OBVIOUS
<1>2. Append(<<a>>, c) = <<a>> \o <<c>>
  BY <1>1, AppendIsConcat
<1>3. Append(<<a>>, c) = <<a, c>>
  <2> DEFINE s == <<a>>
             t == Append(s, c)
             u == <<a, c>>
  <2>1. s \in Seq(S) /\ Len(s) = 1 /\ s[1] = a
    BY <1>1
  <2>3. u \in Seq(S) /\ Len(u) = 2 /\ u[1] = a /\ u[2] = c
    BY <1>1
  <2> HIDE DEF s, u
  <2>2. /\ t \in Seq(S) /\ Len(t) = Len(s) + 1 /\ t[Len(s) + 1] = c
        /\ \A i \in 1..Len(s) : t[i] = s[i]
    BY <2>1, PairAppend
  <2> HIDE DEF t
  <2>4. Len(t) = 2 /\ t[1] = a /\ t[2] = c
    BY <2>1, <2>2
  <2>5. ASSUME NEW i \in 1..Len(t) PROVE t[i] = u[i]
    <3>1. i = 1 \/ i = 2
      BY <2>4
    <3> QED
      BY <2>3, <2>4, <3>1
  <2>6. t = u
    BY <2>2, <2>3, <2>4, <2>5, SeqEqual
  <2> QED
    BY <2>6 DEF s, t, u
<1> QED
  BY <1>2, <1>3

LEMMA SettledGood ==
    ASSUME NEW f, GoodFrame(f), f.batch # <<>>, f.stage # "model"
    PROVE  GoodFrame(Settled(f)) /\ Settled(f).stage = f.stage
<1> DEFINE r == Append(f.results, f.batch[1].id)
           b == Tail(f.batch)
           v == Settled(f)
<1>1. f \in Frame
  BY DEF GoodFrame
<1>2. f.results \in Seq(Nat) /\ f.batch \in Seq(ToolCall)
  BY <1>1 DEF Frame
<1>3. r \in Seq(Nat) /\ b \in Seq(ToolCall) /\ r \o Ids(b) = f.results \o Ids(f.batch)
  BY <1>2, IdsSettled
<1>4. v = [f EXCEPT !.results = r, !.batch = b]
  BY <1>1 DEF Settled, Frame
<1> HIDE DEF r, b, v
<1>5. /\ v \in Frame /\ v.stage = f.stage /\ v.history = f.history /\ v.turn = f.turn
      /\ v.ids = f.ids /\ v.batch = b /\ v.results = r
  BY <1>1, <1>3, <1>4 DEF Frame
<1>6. Accounted(v.history, v.ids, v.batch, v.results, v.stage = "drain")
  BY <1>3, <1>5 DEF GoodFrame, Accounted
<1> QED
  BY <1>5, <1>6 DEF GoodFrame, v

LEMMA PutAwayGood ==
    ASSUME NEW f, GoodFrame(f), f.batch # <<>>, f.stage # "model",
           Waits(f.batch[1].kind, f.blanket), Depth \in 1..MaxDepth
    PROVE  GoodPause(PutAway(f))
<1> DEFINE h == IF f.stage = "tools" THEN Append(f.history, Assistant(f.ids)) ELSE f.history
           p == PutAway(f)
<1>1. f \in Frame /\ f.history \in Seq(Turn) /\ f.ids \in Seq(Nat) /\ f.stage \in {"tools", "drain"}
      /\ f.turn \in 0..MaxTurns
  BY DEF GoodFrame, Frame
<1>2. /\ Matched(f.history) /\ f.ids = f.results \o Ids(f.batch)
      /\ (f.stage = "drain") <=> Len(f.history) % 2 = 1
      /\ f.stage = "drain" => f.history[Len(f.history)] = Assistant(f.ids)
  BY DEF GoodFrame, Accounted
<1>3. h \in Seq(Turn) /\ Matched(h) /\ Len(h) % 2 = 1 /\ h[Len(h)] = Assistant(f.ids)
  <2>1. CASE f.stage = "tools"
    <3>1. Len(f.history) % 2 # 1
      BY <1>2, <2>1
    <3>0. Len(f.history) \in Nat
      BY <1>1
    <3>2. Len(f.history) % 2 = 0
      BY <3>0, <3>1, EvenOrOdd
    <3> QED
      BY <1>1, <1>2, <2>1, <3>2, MatchedAssistant
  <2>2. CASE f.stage = "drain"
    BY <1>1, <1>2, <2>2
  <2> QED
    BY <1>1, <2>1, <2>2
<1>4. Turns(h) =< MaxTurns
  <2>1. CASE f.stage = "tools"
    <3>1. Turns(h) = f.turn
      BY <1>1, <2>1, TurnsAssistant DEF GoodFrame
    <3> QED
      BY <1>1, <3>1, AskLoopAssumption
  <2>2. CASE f.stage = "drain"
    BY <2>2 DEF GoodFrame
  <2> QED
    BY <1>1, <2>1, <2>2
<1>5. p = [history |-> h, ids |-> f.ids, batch |-> f.batch, results |-> f.results,
           blanket |-> f.blanket, depth |-> Depth]
  BY DEF PutAway
<1> HIDE DEF h, p
<1>6. /\ p \in Pause /\ p.history = h /\ p.ids = f.ids /\ p.batch = f.batch
      /\ p.results = f.results /\ p.blanket = f.blanket
  BY <1>1, <1>3, <1>5 DEF Pause, Frame
<1>7. Accounted(p.history, p.ids, p.batch, p.results, TRUE)
  BY <1>2, <1>3, <1>6 DEF Accounted
<1> QED
  BY <1>4, <1>6, <1>7 DEF GoodPause, p

LEMMA NextTurnGood ==
    ASSUME NEW f, GoodFrame(f), f.batch = <<>>, f.stage # "model"
    PROVE  GoodFrame(NextTurn(f)) /\ NextTurn(f).stage = "model"
<1>1. f \in Frame /\ f.history \in Seq(Turn) /\ f.ids \in Seq(Nat) /\ f.stage \in {"tools", "drain"}
      /\ f.turn \in 0..MaxTurns /\ f.results \in Seq(Nat)
  BY DEF GoodFrame, Frame
<1>2. /\ Matched(f.history) /\ f.ids = f.results
      /\ (f.stage = "drain") <=> Len(f.history) % 2 = 1
      /\ f.stage = "drain" => f.history[Len(f.history)] = Assistant(f.ids)
  <2>1. f.results \o Ids(f.batch) = f.results
    BY <1>1, IdsEmpty, ConcatEmptySeq
  <2> QED
    BY <2>1 DEF GoodFrame, Accounted
<1> DEFINE g == IF f.stage = "tools" THEN Append(f.history, Assistant(f.ids)) ELSE f.history
           h == Append(g, Results(f.results))
           k == IF f.stage = "tools" THEN f.turn ELSE Turns(f.history)
           v == NextTurn(f)
<1>3. g \in Seq(Turn) /\ Matched(g) /\ Len(g) % 2 = 1 /\ g[Len(g)] = Assistant(f.ids)
  <2>1. CASE f.stage = "tools"
    <3>1. Len(f.history) % 2 # 1
      BY <1>2, <2>1
    <3>0. Len(f.history) \in Nat
      BY <1>1
    <3>2. Len(f.history) % 2 = 0
      BY <3>0, <3>1, EvenOrOdd
    <3> QED
      BY <1>1, <1>2, <2>1, <3>2, MatchedAssistant
  <2>2. CASE f.stage = "drain"
    BY <1>1, <1>2, <2>2
  <2> QED
    BY <1>1, <2>1, <2>2
<1>4. Turns(g) = k /\ k \in 0..MaxTurns
  <2>1. CASE f.stage = "tools"
    BY <1>1, <2>1, TurnsAssistant DEF GoodFrame
  <2>2. CASE f.stage = "drain"
    <3>1. Turns(f.history) \in Nat /\ Turns(f.history) =< MaxTurns
      BY <1>1, TurnsFinite DEF GoodFrame
    <3> QED
      BY <2>2, <3>1, AskLoopAssumption
  <2> QED
    BY <1>1, <2>1, <2>2
<1>5. h \in Seq(Turn) /\ Matched(h) /\ Len(h) % 2 = 0 /\ Turns(h) = k
  <2> HIDE DEF g, k
  <2>1. g[Len(g)] = Assistant(f.results)
    BY <1>2, <1>3
  <2> QED
    BY <1>1, <1>3, <1>4, <2>1, MatchedResults, TurnsResults
<1>6. h = IF f.stage = "tools"
            THEN f.history \o <<Assistant(f.ids), Results(f.results)>>
            ELSE Append(f.history, Results(f.results))
  <2>1. Assistant(f.ids) \in Turn /\ Results(f.results) \in Turn
    BY <1>1 DEF Assistant, Results, Turn
  <2> DEFINE a == Assistant(f.ids)
             c == Results(f.results)
  <2> HIDE DEF a, c
  <2>2. Append(f.history, a) = f.history \o <<a>> /\ Append(f.history, a) \in Seq(Turn)
    BY <1>1, <2>1, AppendIsConcat, AppendProperties DEF a, c
  <2>3. Append(Append(f.history, a), c) = Append(f.history, a) \o <<c>>
    BY <2>1, <2>2, AppendIsConcat DEF a, c
  <2>4. (f.history \o <<a>>) \o <<c>> = f.history \o (<<a>> \o <<c>>)
    <3>1. <<a>> \in Seq(Turn) /\ <<c>> \in Seq(Turn)
      BY <2>1 DEF a, c
    <3> QED
      BY <1>1, <3>1, ConcatAssociative
  <2>5. <<a>> \o <<c>> = <<a, c>>
    <3>1. a \in Turn /\ c \in Turn
      BY <2>1 DEF a, c
    <3> QED
      BY <3>1, PairConcat
  <2>6. Append(Append(f.history, a), c) = f.history \o <<a, c>>
    BY <2>2, <2>3, <2>4, <2>5
  <2> QED
    BY <2>6 DEF a, c
<1>7. v = [f EXCEPT !.stage = "model", !.ids = <<>>, !.results = <<>>, !.history = h, !.turn = k]
  BY <1>6 DEF NextTurn
<1> HIDE DEF g, h, k, v
<1>8. /\ v \in Frame /\ v.stage = "model" /\ v.history = h /\ v.turn = k /\ v.ids = <<>>
      /\ v.results = <<>> /\ v.batch = <<>>
  <2> DEFINE none == <<>>
  <2>1. none \in Seq(Nat) /\ h \in Seq(Turn) /\ k \in 0..MaxTurns
    BY <1>4, <1>5
  <2> HIDE DEF none
  <2>2. v = [f EXCEPT !.stage = "model", !.ids = none, !.results = none, !.history = h, !.turn = k]
    BY <1>7 DEF none
  <2>3. /\ v \in Frame /\ v.stage = "model" /\ v.history = h /\ v.turn = k /\ v.ids = none
        /\ v.results = none /\ v.batch = f.batch
    BY <1>1, <2>1, <2>2 DEF Frame
  <2> QED
    BY <2>3 DEF none
<1>9. Accounted(v.history, v.ids, v.batch, v.results, v.stage = "drain")
  <2>1. <<>> \o <<>> = <<>>
    OBVIOUS
  <2> QED
    BY <1>5, <1>8, <2>1, IdsEmpty DEF Accounted
<1> QED
  BY <1>4, <1>5, <1>8, <1>9 DEF GoodFrame, v

LEMMA ResumedGood ==
    ASSUME NEW answer, pending # NoPause, GoodPause(pending)
    PROVE  /\ GoodFrame(Resumed(answer)) /\ Resumed(answer).stage = "drain"
           /\ Resumed(answer).batch # <<>>
<1> DEFINE b == pending.blanket \/ answer = "all"
           v == Resumed(answer)
<1>1. b \in BOOLEAN
  BY DEF GoodPause, Pause
<1> HIDE DEF b
<1>2. /\ v \in Frame /\ v.stage = "drain" /\ v.history = pending.history /\ v.turn = 0
      /\ v.ids = pending.ids /\ v.batch = pending.batch /\ v.results = pending.results
  BY <1>1, AskLoopAssumption DEF Resumed, Frame, GoodPause, Pause, b
<1> HIDE DEF v
<1>3. Accounted(v.history, v.ids, v.batch, v.results, v.stage = "drain")
  BY <1>2 DEF GoodPause, Accounted
<1> QED
  BY <1>2, <1>3 DEF GoodFrame, GoodPause, v

LEMMA CalledGood ==
    ASSUME StackOK, AtModel, Top.turn < MaxTurns, NEW n \in 1..MaxBatch,
           NEW kinds \in [1..n -> Kinds]
    PROVE  LET v == [Top EXCEPT !.stage = "tools", !.turn = @ + 1,
                                !.ids = Ids(Batch(kinds)), !.batch = Batch(kinds)]
           IN  GoodFrame(v) /\ v.stage = "tools"
<1> DEFINE f == Top
           b == Batch(kinds)
           v == [f EXCEPT !.stage = "tools", !.turn = @ + 1, !.ids = Ids(b), !.batch = b]
<1>1. GoodFrame(f) /\ f.stage = "model"
  BY DEF StackOK, AtModel, Idle, Depth, Top
<1>2. /\ f \in Frame /\ f.turn \in Nat /\ f.turn < MaxTurns /\ f.results = <<>>
      /\ f.turn = Turns(f.history) /\ Matched(f.history) /\ Len(f.history) % 2 # 1
  BY <1>1 DEF GoodFrame, Frame, Accounted
<1>3. b \in Seq(ToolCall)
  <2>1. n \in Nat /\ DOMAIN kinds = 1..n /\ \A i \in 1..n : kinds[i] \in Kinds
    BY AskLoopAssumption
  <2>2. f.turn * MaxBatch \in Nat
    BY <1>2, AskLoopAssumption
  <2>3. ASSUME NEW i \in 1..n PROVE [id |-> f.turn * MaxBatch + i, kind |-> kinds[i]] \in ToolCall
    BY <2>1, <2>2 DEF ToolCall
  <2>4. b = [i \in 1..n |-> [id |-> f.turn * MaxBatch + i, kind |-> kinds[i]]]
    BY <2>1 DEF Batch
  <2> HIDE DEF b, f
  <2>5. b \in [1..n -> ToolCall]
    BY <2>3, <2>4
  <2> QED
    BY <2>1, <2>5
<1>4. Ids(b) \in Seq(Nat) /\ <<>> \o Ids(b) = Ids(b)
  BY <1>3, IdsType, ConcatEmptySeq
<1>5. f.turn + 1 \in 0..MaxTurns
  BY <1>2, AskLoopAssumption
<1> HIDE DEF f, b
<1>6. /\ v \in Frame /\ v.stage = "tools" /\ v.turn = f.turn + 1 /\ v.history = f.history
      /\ v.ids = Ids(b) /\ v.batch = b /\ v.results = <<>>
  BY <1>2, <1>3, <1>4, <1>5 DEF Frame
<1> HIDE DEF v
<1>7. Accounted(v.history, v.ids, v.batch, v.results, v.stage = "drain")
  BY <1>2, <1>4, <1>6 DEF Accounted
<1>8. GoodFrame(v) /\ v.stage = "tools"
  BY <1>1, <1>2, <1>6, <1>7 DEF GoodFrame
<1> QED
  BY <1>8 DEF v, f, b

-----------------------------------------------------------------------------
(* What the steps make of the stack.                                       *)
LEMMA DepthBound == ASSUME StackOK, ~Idle PROVE Depth \in 1..MaxDepth
<1>1. Depth \in Nat /\ Depth # 0 /\ Depth =< MaxDepth
  BY DEF StackOK, Idle, Depth
<1> QED
  BY <1>1, AskLoopAssumption

LEMMA TopGood ==
    ASSUME StackOK, ~Idle
    PROVE  Depth \in Nat \ {0} /\ Depth \in DOMAIN frames /\ GoodFrame(Top)
BY DEF StackOK, Idle, Depth, Top

LEMMA SetTopStack ==
    ASSUME StackOK, ~Idle, NEW v, GoodFrame(v), SetTop(v)
    PROVE  StackOK' /\ ~Idle' /\ Top' = v
<1>1. frames \in Seq(Frame) /\ v \in Frame /\ Depth \in Nat \ {0} /\ Depth = Len(frames)
  BY TopGood DEF StackOK, GoodFrame, Depth
<1>2. frames' = [frames EXCEPT ![Depth] = v]
  BY DEF SetTop
<1>3. /\ frames' \in Seq(Frame) /\ Depth' = Depth /\ frames'[Depth] = v
      /\ \A i \in 1..Depth - 1 : frames'[i] = frames[i]
  BY <1>1, <1>2 DEF Depth
<1>4. ASSUME NEW i \in 1..Depth PROVE GoodFrame(frames'[i])
  <2>1. CASE i = Depth
    BY <1>3, <2>1
  <2>2. CASE i # Depth
    <3>1. i \in 1..Depth - 1 /\ i \in DOMAIN frames
      BY <1>1, <2>2
    <3> QED
      BY <1>3, <3>1 DEF StackOK
  <2> QED
    BY <2>1, <2>2
<1>5. Stacked'
  BY <1>3 DEF StackOK, Stacked
<1> QED
  BY <1>1, <1>3, <1>4, <1>5 DEF StackOK, Idle, Top, Depth

LEMMA PushStack ==
    ASSUME StackOK, ~Idle, Top.stage # "model", Top.batch # <<>>, Depth < MaxDepth,
           NEW v, GoodFrame(v), frames' = Append(frames, v)
    PROVE  StackOK' /\ ~Idle' /\ Top' = v
<1>1. frames \in Seq(Frame) /\ v \in Frame /\ Depth \in Nat \ {0} /\ Depth = Len(frames)
  BY TopGood DEF StackOK, GoodFrame, Depth
<1>2. /\ frames' \in Seq(Frame) /\ Depth' = Depth + 1 /\ frames'[Depth + 1] = v
      /\ \A i \in 1..Depth : frames'[i] = frames[i]
  BY <1>1, AppendProperties DEF Depth
<1>3. ASSUME NEW i \in 1..Depth + 1 PROVE GoodFrame(frames'[i])
  <2>1. CASE i = Depth + 1
    BY <1>2, <2>1
  <2>2. CASE i # Depth + 1
    <3>1. i \in 1..Depth /\ i \in DOMAIN frames
      BY <1>1, <2>2
    <3> QED
      BY <1>2, <3>1 DEF StackOK
  <2> QED
    BY <2>1, <2>2
<1>4. ASSUME NEW i \in 1..Depth PROVE frames'[i].stage # "model" /\ frames'[i].batch # <<>>
  <2>1. CASE i = Depth
    BY <1>1, <1>2, <2>1 DEF Top
  <2>2. CASE i # Depth
    <3>1. i \in 1..Depth - 1
      BY <1>1, <2>2
    <3> QED
      BY <1>2, <3>1 DEF StackOK, Stacked
  <2> QED
    BY <2>1, <2>2
<1>5. Stacked'
  BY <1>1, <1>2, <1>4 DEF Stacked
<1>6. Depth' =< MaxDepth
  BY <1>1, <1>2, AskLoopAssumption
<1> QED
  BY <1>1, <1>2, <1>3, <1>5, <1>6 DEF StackOK, Idle, Top, Depth

LEMMA ReturnStack ==
    ASSUME StackOK, ~Idle, told \in BOOLEAN, NEW asks \in BOOLEAN, Return(asks)
    PROVE  StackOK' /\ told' \in BOOLEAN /\ ~AtModel'
<1>1. frames \in Seq(Frame) /\ Depth \in Nat \ {0} /\ Depth = Len(frames) /\ Depth =< MaxDepth
  BY TopGood DEF StackOK, Depth
<1>2. CASE Depth = 1
  <2>1. frames' = <<>> /\ told' = asks
    BY <1>2 DEF Return
  <2>2. Depth' = 0 /\ frames' \in Seq(Frame) /\ Idle'
    BY <2>1 DEF Depth, Idle
  <2> QED
    BY <2>1, <2>2, AskLoopAssumption DEF StackOK, Stacked, AtModel
<1>3. CASE Depth # 1
  <2> DEFINE d == Depth - 1
  <2>1. /\ frames' = [i \in 1..d |-> IF i = d THEN Settled(frames[i]) ELSE frames[i]]
        /\ told' = told
    BY <1>3 DEF Return
  <2>2. d \in Nat \ {0} /\ d < Depth /\ d \in 1..Depth - 1
    BY <1>1, <1>3
  <2>3. \A i \in 1..d : i \in DOMAIN frames /\ GoodFrame(frames[i])
    BY <1>1, <2>2 DEF StackOK
  <2>4. /\ GoodFrame(Settled(frames[d])) /\ Settled(frames[d]).stage # "model"
    BY <2>2, <2>3, SettledGood DEF StackOK, Stacked
  <2> HIDE DEF d
  <2>5. \A i \in 1..d : GoodFrame(frames'[i])
    BY <2>1, <2>3, <2>4
  <2>6. frames' \in Seq(Frame) /\ Depth' = d
    <3>1. frames' \in [1..d -> Frame]
      BY <2>1, <2>3, <2>4 DEF GoodFrame
    <3> QED
      BY <2>2, <3>1 DEF Depth
  <2>7. ASSUME NEW i \in 1..d - 1 PROVE frames'[i].stage # "model" /\ frames'[i].batch # <<>>
    <3>1. i \in 1..d /\ i # d /\ i \in 1..Depth - 1
      BY <2>2 DEF d
    <3>2. frames'[i] = frames[i]
      BY <2>1, <3>1
    <3> QED
      BY <3>1, <3>2 DEF StackOK, Stacked
  <2>8. Stacked'
    BY <2>6, <2>7 DEF Stacked
  <2>9. Top'.stage # "model"
    BY <2>1, <2>2, <2>4, <2>6 DEF Top
  <2>10. DOMAIN frames' = 1..d /\ d =< MaxDepth
    BY <1>1, <2>2, <2>6, AskLoopAssumption DEF Depth
  <2>11. StackOK'
    BY <2>5, <2>6, <2>8, <2>10 DEF StackOK
  <2>12. told' \in BOOLEAN
    BY <2>1
  <2> QED
    BY <2>9, <2>11, <2>12 DEF AtModel
<1> QED
  BY <1>2, <1>3

-----------------------------------------------------------------------------
(* Every step keeps the invariant.                                         *)
LEMMA ProviderAway ==
    ASSUME ProviderHome, ~Idle PROVE provider = (IF AtModel THEN "out" ELSE "home")
BY DEF ProviderHome

LEMMA NoPauseOpen == \A p : GoodPause(p) => p # NoPause
BY DEF GoodPause, NoPause

LEMMA AskInv == ASSUME Inv, NEW blanket \in BOOLEAN, Ask(blanket) PROVE Inv'
<1>1. CASE UNCHANGED <<provider, frames, pending>> /\ told' = FALSE
  <2>1. told' \in BOOLEAN
    BY <1>1
  <2> QED
    BY <1>1, <2>1 DEF Inv, StackOK, Stacked, ProviderHome, AtModel, Idle, Top, Depth
<1>2. CASE provider' = "out" /\ frames' = <<Fresh(blanket)>> /\ UNCHANGED <<pending, told>>
  <2> DEFINE v == Fresh(blanket)
  <2>1. GoodFrame(v) /\ v.stage = "model"
    BY FreshGood
  <2> HIDE DEF v
  <2>2. v \in Frame /\ frames' = <<v>>
    BY <1>2, <2>1 DEF GoodFrame, v
  <2>3. frames' \in Seq(Frame) /\ Depth' = 1 /\ Top' = v /\ ~Idle' /\ DOMAIN frames' = {1}
        /\ frames'[1] = v
    BY <2>2 DEF Depth, Top, Idle
  <2>4. StackOK'
    BY <2>1, <2>3, AskLoopAssumption DEF StackOK, Stacked
  <2> QED
    BY <1>2, <2>1, <2>3, <2>4 DEF Inv, ProviderHome, AtModel
<1> QED
  BY <1>1, <1>2 DEF Ask

LEMMA LoopEndsInv == ASSUME Inv, LimitReached \/ ModelEnds PROVE Inv'
<1>1. ~Idle /\ provider' = "home" /\ Return(FALSE) /\ pending' = pending
  BY DEF LimitReached, ModelEnds, AtModel
<1>2. StackOK' /\ told' \in BOOLEAN /\ ~AtModel'
  BY <1>1, ReturnStack DEF Inv
<1> QED
  BY <1>1, <1>2 DEF Inv, ProviderHome

LEMMA ModelCallsInv == ASSUME Inv, ModelCalls PROVE Inv'
<1>1. PICK n \in 1..MaxBatch : \E kinds \in [1..n -> Offered] :
          SetTop([Top EXCEPT !.stage = "tools", !.turn = @ + 1,
                             !.ids = Ids(Batch(kinds)), !.batch = Batch(kinds)])
  BY DEF ModelCalls
<1>2. PICK kinds \in [1..n -> Kinds] :
          SetTop([Top EXCEPT !.stage = "tools", !.turn = @ + 1,
                             !.ids = Ids(Batch(kinds)), !.batch = Batch(kinds)])
  BY <1>1 DEF Offered
<1> DEFINE v == [Top EXCEPT !.stage = "tools", !.turn = @ + 1,
                            !.ids = Ids(Batch(kinds)), !.batch = Batch(kinds)]
<1>3. GoodFrame(v) /\ v.stage = "tools"
  BY CalledGood DEF ModelCalls, Inv
<1>4. SetTop(v)
  BY <1>2
<1> HIDE DEF v
<1>5. StackOK' /\ ~Idle' /\ Top' = v
  BY <1>3, <1>4, SetTopStack DEF ModelCalls, AtModel, Inv
<1> QED
  BY <1>3, <1>5 DEF ModelCalls, Inv, ProviderHome, AtModel

LEMMA RunToolInv == ASSUME Inv, RunTool PROVE Inv'
<1>1. ~Idle /\ Top.stage # "model" /\ Top.batch # <<>> /\ GoodFrame(Top)
  BY TopGood DEF RunTool, AtCall, Inv
<1>2. GoodFrame(Settled(Top)) /\ Settled(Top).stage # "model"
  BY <1>1, SettledGood
<1>3. StackOK' /\ ~Idle' /\ Top' = Settled(Top)
  BY <1>1, <1>2, SetTopStack DEF RunTool, Inv
<1>4. provider = "home" /\ ~AtModel'
  BY <1>1, <1>2, <1>3, ProviderAway DEF Inv, AtModel
<1> QED
  BY <1>3, <1>4 DEF RunTool, Inv, ProviderHome

LEMMA RunPromptInv == ASSUME Inv, RunPrompt PROVE Inv'
<1>1. ~Idle /\ Top.stage # "model" /\ Top.batch # <<>> /\ Top.blanket \in BOOLEAN
  BY TopGood DEF RunPrompt, AtCall, Inv, GoodFrame, Frame
<1> DEFINE v == Fresh(Top.blanket)
<1>2. GoodFrame(v) /\ v.stage = "model"
  BY <1>1, FreshGood
<1> HIDE DEF v
<1>3. StackOK' /\ ~Idle' /\ Top' = v
  BY <1>1, <1>2, PushStack DEF RunPrompt, Inv, v
<1> QED
  BY <1>2, <1>3 DEF RunPrompt, Inv, ProviderHome, AtModel

LEMMA PauseToolInv == ASSUME Inv, PauseTool PROVE Inv'
<1>1. ~Idle /\ Top.stage # "model" /\ Top.batch # <<>> /\ GoodFrame(Top)
  BY TopGood DEF PauseTool, AtCall, Inv
<1>2. GoodPause(pending')
  <2>1. Depth \in 1..MaxDepth
    BY <1>1, DepthBound DEF Inv
  <2> QED
    BY <1>1, <2>1, PutAwayGood DEF PauseTool, Call
<1>3. StackOK' /\ told' \in BOOLEAN /\ ~AtModel'
  BY <1>1, ReturnStack DEF PauseTool, Inv
<1>4. provider = "home"
  BY <1>1, ProviderAway DEF Inv, AtModel
<1> QED
  BY <1>2, <1>3, <1>4 DEF PauseTool, Inv, ProviderHome

(* The provider is home, so the branch of a missing one is not taken.      *)
LEMMA EndBatchInv == ASSUME Inv, EndBatch PROVE Inv'
<1>1. ~Idle /\ Top.stage # "model" /\ Top.batch = <<>> /\ GoodFrame(Top)
  BY TopGood DEF EndBatch, Inv
<1>2. provider = "home"
  BY <1>1, ProviderAway DEF Inv, AtModel
<1>3. provider' = "out" /\ SetTop(NextTurn(Top)) /\ told' = told /\ pending' = pending
  BY <1>2 DEF EndBatch
<1>4. GoodFrame(NextTurn(Top)) /\ NextTurn(Top).stage = "model"
  BY <1>1, NextTurnGood
<1>5. StackOK' /\ ~Idle' /\ Top' = NextTurn(Top)
  BY <1>1, <1>3, <1>4, SetTopStack DEF Inv
<1> QED
  BY <1>3, <1>4, <1>5 DEF Inv, ProviderHome, AtModel

LEMMA AnswerSettlesInv == ASSUME Inv, NEW answer, AnswerSettles(answer) PROVE Inv'
<1>1. pending # NoPause /\ GoodPause(pending) /\ Idle /\ provider = "home"
  BY DEF AnswerSettles, Inv, ProviderHome, AtModel
<1> DEFINE v == Settled(Resumed(answer))
<1>2. GoodFrame(v) /\ v.stage # "model"
  BY <1>1, ResumedGood, SettledGood
<1>3. frames' = <<v>>
  BY DEF AnswerSettles
<1> HIDE DEF v
<1>4. frames' \in Seq(Frame) /\ Depth' = 1 /\ Top' = v /\ DOMAIN frames' = {1} /\ frames'[1] = v
  BY <1>2, <1>3 DEF GoodFrame, Depth, Top
<1>5. StackOK'
  BY <1>2, <1>4, AskLoopAssumption DEF StackOK, Stacked
<1>6. ~AtModel'
  BY <1>2, <1>4 DEF AtModel
<1> QED
  BY <1>1, <1>5, <1>6 DEF AnswerSettles, Inv, ProviderHome

LEMMA AnswerPromptsInv == ASSUME Inv, NEW answer, AnswerPrompts(answer) PROVE Inv'
<1>1. pending # NoPause /\ GoodPause(pending)
  BY DEF AnswerPrompts, Inv
<1> DEFINE u == Resumed(answer)
           v == Fresh(u.blanket)
<1>2. GoodFrame(u) /\ u.stage = "drain" /\ u.batch # <<>>
  BY <1>1, ResumedGood
<1>3. u.blanket \in BOOLEAN
  BY <1>2 DEF GoodFrame, Frame
<1> HIDE DEF u
<1>4. GoodFrame(v) /\ v.stage = "model"
  BY <1>3, FreshGood
<1>5. frames' = <<u, v>>
  BY DEF AnswerPrompts, u
<1> HIDE DEF v
<1>6. /\ frames' \in Seq(Frame) /\ Depth' = 2 /\ Top' = v /\ DOMAIN frames' = {1, 2}
      /\ frames'[1] = u /\ frames'[2] = v /\ ~Idle'
  <2>1. u \in Frame /\ v \in Frame
    BY <1>2, <1>4 DEF GoodFrame
  <2>2. <<u, v>> \in Seq(Frame) /\ Len(<<u, v>>) = 2 /\ <<u, v>>[1] = u /\ <<u, v>>[2] = v
    BY <2>1
  <2> QED
    BY <1>5, <2>2 DEF Depth, Top, Idle
<1>7. Stacked'
  <2>1. 1..Depth' - 1 = {1}
    BY <1>6
  <2>2. frames'[1].stage # "model" /\ frames'[1].batch # <<>>
    BY <1>2, <1>6
  <2> QED
    BY <2>1, <2>2 DEF Stacked
<1>8. StackOK'
  BY <1>2, <1>4, <1>6, <1>7, AskLoopAssumption DEF AnswerPrompts, StackOK
<1> QED
  BY <1>4, <1>6, <1>8 DEF AnswerPrompts, Inv, ProviderHome, AtModel

LEMMA AnswerAbortsInv == ASSUME Inv, AnswerAborts PROVE Inv'
<1>1. told' \in BOOLEAN
  BY DEF AnswerAborts
<1>2. provider' = "home" /\ ~AtModel'
  BY DEF AnswerAborts, Inv, ProviderHome, AtModel, Idle
<1>3. StackOK'
  BY DEF AnswerAborts, Inv, StackOK, Stacked, Depth
<1> QED
  BY <1>1, <1>2, <1>3 DEF AnswerAborts, Inv, ProviderHome

LEMMA InitInv == Init => Inv
<1> SUFFICES ASSUME Init PROVE Inv
  OBVIOUS
<1>1. frames = <<>> /\ Idle /\ Depth = 0 /\ told \in BOOLEAN
  BY DEF Init, Idle, Depth
<1>2. StackOK
  BY <1>1, AskLoopAssumption DEF StackOK, Stacked
<1>3. ProviderHome
  BY <1>1 DEF Init, ProviderHome, AtModel
<1> QED
  BY <1>1, <1>2, <1>3 DEF Init, Inv

LEMMA NextInv == Inv /\ [Next]_vars => Inv'
<1> SUFFICES ASSUME Inv, [Next]_vars PROVE Inv'
  OBVIOUS
<1>1. CASE Step
  BY <1>1, LoopEndsInv, ModelCallsInv, RunToolInv, RunPromptInv, PauseToolInv, EndBatchInv
  DEF Step
<1>2. CASE Drive
  BY <1>2, AskInv, AnswerSettlesInv, AnswerPromptsInv, AnswerAbortsInv DEF Drive
<1>3. CASE UNCHANGED vars
  BY <1>3 DEF vars, Inv, StackOK, Stacked, ProviderHome, AtModel, Idle, Top, Depth
<1> QED
  BY <1>1, <1>2, <1>3 DEF Next

LEMMA InvHolds == Spec => []Inv
BY InitInv, NextInv, PTL DEF Spec

-----------------------------------------------------------------------------
(* The variables of the loop keep their types: no call is lost track of.   *)
THEOREM LoopTypeCorrect == Spec => []TypeOK
<1>1. Inv => TypeOK
  <2> SUFFICES ASSUME Inv PROVE TypeOK
    OBVIOUS
  <2>1. provider \in {"home", "out", "none"}
    BY DEF Inv, ProviderHome
  <2>2. pending \in Pause \cup {NoPause}
    BY DEF Inv, GoodPause
  <2> QED
    BY <2>1, <2>2 DEF Inv, StackOK, TypeOK
<1> QED
  BY <1>1, InvHolds, PTL

(* The provider is back whenever a loop inside, after or beyond a pause    *)
(* needs it (the take and restore of drive_ask_loop).                      *)
THEOREM ProviderIsHome == Spec => []ProviderHome
<1>1. Inv => ProviderHome
  BY DEF Inv
<1> QED
  BY <1>1, InvHolds, PTL

(* The model is never shown a call without its result, or one twice, for   *)
(* batches of any size interrupted any number of times.                    *)
THEOREM CallsAreAnswered == Spec => []CallsAnswered
<1>1. Inv => CallsAnswered
  BY DEF Inv, StackOK, GoodFrame, GoodPause, CallsAnswered
<1> QED
  BY <1>1, InvHolds, PTL

(* No sequence of pauses lets a loop take more turns than its budget.      *)
THEOREM BudgetIsKept == Spec => []BudgetKept
<1>1. Inv => BudgetKept
  BY DEF Inv, StackOK, GoodFrame, GoodPause, BudgetKept
<1> QED
  BY <1>1, InvHolds, PTL
-----------------------------------------------------------------------------
(* What the driver is told.  The question of a nested loop is not told and *)
(* may be replaced while the loop around it goes on; no other question is  *)
(* there while a loop runs, and each way the outermost loop stops is a     *)
(* reply.                                                                  *)
Dialogue == /\ ~Idle => pending = NoPause \/ pending.depth > 1
            /\ ReplyTells

(* The outermost loop returns to the driver, any other to the loop around  *)
(* it.                                                                     *)
LEMMA Returned ==
    ASSUME StackOK, ~Idle, NEW asks, Return(asks)
    PROVE  /\ Depth = 1 => Idle' /\ told' = asks
           /\ Depth # 1 => ~Idle' /\ Depth > 1
<1>1. Depth \in Nat \ {0}
  BY TopGood
<1>2. CASE Depth = 1
  BY <1>2 DEF Return, Idle
<1>3. CASE Depth # 1
  <2>1. DOMAIN frames' = 1..Depth - 1 /\ 1 \in 1..Depth - 1
    BY <1>1, <1>3 DEF Return
  <2>2. frames' # <<>>
    <3>1. DOMAIN frames' # {}
      BY <2>1
    <3>2. \A s : s = <<>> => DOMAIN s = {}
      OBVIOUS
    <3> QED
      BY <3>1, <3>2, Zenon
  <2> QED
    BY <1>1, <1>3, <2>2 DEF Idle
<1> QED
  BY <1>2, <1>3

LEMMA SetTopRuns == ASSUME StackOK, ~Idle, NEW f, SetTop(f) PROVE ~Idle'
<1>1. DOMAIN frames' = DOMAIN frames /\ DOMAIN frames # {}
  BY DEF SetTop, StackOK, Idle
<1> QED
  BY <1>1 DEF Idle

LEMMA StepDialogue == ASSUME Inv, Dialogue, Step PROVE Dialogue'
<1>1. StackOK /\ ~Idle /\ (pending = NoPause \/ pending.depth > 1)
  BY DEF Inv, Dialogue, Step, LimitReached, ModelEnds, ModelCalls, RunTool, RunPrompt, PauseTool,
         EndBatch, AtModel, AtCall
<1>2. ASSUME Return(FALSE), pending' = pending PROVE Dialogue'
  <2>1. Idle' => told' = FALSE
    BY <1>1, <1>2, Returned
  <2>2. pending' = NoPause \/ (pending.depth > 1 /\ pending.depth \in Nat)
    <3>1. CASE pending = NoPause
      BY <1>2, <3>1
    <3>2. CASE pending.depth > 1 /\ GoodPause(pending)
      <4>1. pending.depth \in Nat
        BY <3>2, AskLoopAssumption DEF GoodPause, Pause
      <4> QED
        BY <3>2, <4>1
    <3> QED
      BY <1>1, <3>1, <3>2 DEF Inv
  <2> QED
    BY <1>2, <2>1, <2>2 DEF Dialogue, ReplyTells
<1>3. ASSUME NEW f, SetTop(f), pending' = pending PROVE Dialogue'
  <2>1. ~Idle'
    BY <1>1, <1>3, SetTopRuns
  <2> QED
    BY <1>1, <1>3, <2>1 DEF Dialogue, ReplyTells
<1>4. CASE LimitReached \/ ModelEnds
  BY <1>2, <1>4 DEF LimitReached, ModelEnds
<1>5. CASE ModelCalls
  BY <1>3, <1>5 DEF ModelCalls
<1>6. CASE RunTool
  BY <1>3, <1>6 DEF RunTool
<1>7. CASE RunPrompt
  <2>1. frames' # <<>>
    <3>1. frames' = Append(frames, Fresh(Top.blanket)) /\ frames \in Seq(Frame)
      BY <1>1, <1>7 DEF RunPrompt, StackOK
    <3>2. GoodFrame(Fresh(Top.blanket))
      BY <1>1, TopGood, FreshGood DEF GoodFrame, Frame
    <3>3. Len(frames') = Len(frames) + 1 /\ Len(frames) \in Nat
      BY <3>1, <3>2, AppendProperties DEF GoodFrame
    <3> QED
      BY <3>3
  <2> QED
    BY <1>1, <1>7, <2>1 DEF RunPrompt, Dialogue, ReplyTells, Idle
<1>8. CASE PauseTool
  <2>1. Return(TRUE) /\ GoodPause(pending') /\ pending'.depth = Depth
    BY <1>1, <1>8, TopGood, DepthBound, PutAwayGood DEF PauseTool, AtCall, Call, PutAway
  <2>2. pending' # NoPause
    BY <2>1, NoPauseOpen
  <2> QED
    <3>1. Depth \in Nat
      BY <1>1, TopGood
    <3>2. CASE Depth = 1
      <4>1. Idle' /\ told' = TRUE /\ pending'.depth = 1
        BY <1>1, <2>1, <3>2, Returned
      <4> QED
        BY <2>2, <4>1 DEF Dialogue, ReplyTells
    <3>3. CASE Depth # 1
      <4>1. ~Idle' /\ pending'.depth > 1
        BY <1>1, <2>1, <3>3, Returned
      <4> QED
        BY <4>1 DEF Dialogue, ReplyTells
    <3> QED
      BY <3>2, <3>3
<1>9. CASE EndBatch
  BY <1>2, <1>3, <1>9 DEF EndBatch
<1> QED
  BY <1>4, <1>5, <1>6, <1>7, <1>8, <1>9 DEF Step

LEMMA DriveDialogue == ASSUME Inv, Dialogue, Drive PROVE Dialogue'
<1>1. ASSUME NEW blanket \in BOOLEAN, Ask(blanket) PROVE Dialogue'
  BY <1>1 DEF Ask, Dialogue, ReplyTells, Idle
<1>2. ASSUME NEW answer, AnswerSettles(answer) PROVE Dialogue'
  BY <1>2 DEF AnswerSettles, Dialogue, ReplyTells, Idle
<1>3. ASSUME NEW answer, AnswerPrompts(answer) PROVE Dialogue'
  BY <1>3 DEF AnswerPrompts, Dialogue, ReplyTells, Idle
<1>4. CASE AnswerAborts
  BY <1>4 DEF AnswerAborts, Dialogue, ReplyTells, Idle
<1> QED
  BY <1>1, <1>2, <1>3, <1>4 DEF Drive

LEMMA DialogueHolds == Spec => []Dialogue
<1>1. Init => Dialogue
  BY DEF Init, Dialogue, ReplyTells, Idle
<1>2. Inv /\ Dialogue /\ [Next]_vars => Dialogue'
  <2>1. CASE UNCHANGED vars
    BY <2>1 DEF vars, Dialogue, ReplyTells, Idle
  <2> QED
    BY <2>1, StepDialogue, DriveDialogue DEF Next
<1> QED
  BY <1>1, <1>2, InvHolds, PTL DEF Spec

(* The driver that answers only when the reply shows a question is out of  *)
(* step with the session over the question of a nested loop, and over no   *)
(* other (ask_once in run.rs, eval in shell.rs).                           *)
THEOREM ReplyIsTold == Spec => []ReplyTells
<1>1. Dialogue => ReplyTells
  BY DEF Dialogue
<1> QED
  BY <1>1, DialogueHolds, PTL

(* No step of a loop overwrites the question put away by an outermost loop *)
(* (surface_agent_pause stores its own without looking at what is there).  *)
THEOREM QuestionIsKept == Spec => QuestionStands
<1>1. Dialogue => (pending # NoPause /\ pending' # pending => Idle \/ pending.depth > 1)
  BY DEF Dialogue
<1>2. Dialogue /\ [Next]_vars
        => [pending # NoPause /\ pending' # pending => Idle \/ pending.depth > 1]_vars
  BY <1>1
<1> QED
  BY <1>2, DialogueHolds, PTL DEF Spec, QuestionStands
=============================================================================
