------------------------- MODULE Transcript_proofs -------------------------
(***************************************************************************)
(* What Transcript keeps for every cap, every cost and every number of     *)
(* lines: its type, the exactness of the marker's count, the order of the  *)
(* window, that no text is in two places, and that what is evicted is what *)
(* would not have fitted.                                                  *)
(***************************************************************************)
EXTENDS Transcript, FiniteSetTheorems, SequenceTheorems, NaturalsInduction, WellFoundedInduction,
        TLAPS

(* Text that has left the window is the text of lines before it.           *)
TextBehind == dropped \cup summary \subseteq 1..(cleared + count)

OneText == (summary = {} \/ dropped = {}) /\ (count = 0 => summary = {})

(* The inductive invariant.  CountExact and WindowIsSuffix say which lines *)
(* an eviction moves out of the window; TextBehind keeps them apart from   *)
(* those that left before.                                                 *)
Inv == TypeOK /\ CountExact /\ WindowIsSuffix /\ TextBehind /\ OneText

-----------------------------------------------------------------------------
(* How many entries go: never the last one.                                *)
LEMMA EvictedBound ==
    ASSUME NEW w \in Seq(Entry)
    PROVE  /\ Evicted(w) \in Nat
           /\ Evicted(w) =< Len(w)
           /\ w # <<>> => Evicted(w) < Len(w)
<1> DEFINE S == {i \in 1..(Len(w) - 1) : i = 1 \/ CostFrom(w, i) > Cap}
<1>1. Len(w) \in Nat /\ (w # <<>> => Len(w) > 0)
  OBVIOUS
<1>2. IsFiniteSet(1..(Len(w) - 1))
  BY <1>1, FS_Interval
<1>3. IsFiniteSet(S) /\ Cardinality(S) =< Cardinality(1..(Len(w) - 1))
  BY <1>2, FS_Subset
<1>4. Cardinality(S) \in Nat
  BY <1>3, FS_CardinalityType
<1>5. Cardinality(1..(Len(w) - 1)) = IF Len(w) > 1 THEN Len(w) - 1 ELSE 0
  BY <1>1, FS_Interval
<1>6. Evicted(w) = 0 \/ Evicted(w) = Cardinality(S)
  BY DEF Evicted
<1> HIDE DEF S
<1> QED
  BY <1>1, <1>3, <1>4, <1>5, <1>6

LEMMA TrimmedBound ==
    ASSUME NEW w \in Seq(Entry), NEW n \in Nat
    PROVE  /\ Trimmed(w, n) \in Nat
           /\ Trimmed(w, n) =< Len(w)
           /\ w # <<>> => Trimmed(w, n) < Len(w)
<1>1. Len(w) \in Nat /\ (w # <<>> => Len(w) > 0)
  OBVIOUS
<1> QED
  BY <1>1 DEF Trimmed

(* What is left of a window when its first k entries go.                   *)
LEMMA RestOfWindow ==
    ASSUME NEW w \in Seq(Entry), NEW k \in Nat, k =< Len(w)
    PROVE  /\ SubSeq(w, k + 1, Len(w)) \in Seq(Entry)
           /\ Len(SubSeq(w, k + 1, Len(w))) = Len(w) - k
           /\ \A i \in 1..(Len(w) - k) : SubSeq(w, k + 1, Len(w))[i] = w[k + i]
<1> DEFINE m == k + 1
           n == Len(w)
<1>1. /\ n \in Nat /\ m \in Int /\ n \in Int /\ n - m + 1 = n - k
      /\ k < n => m =< n
      /\ k =< n
  OBVIOUS
<1>2. \A i \in m..n : w[i] \in Entry
  OBVIOUS
<1> HIDE DEF m, n
<1>3. /\ SubSeq(w, m, n) \in Seq(Entry)
      /\ Len(SubSeq(w, m, n)) = IF m =< n THEN n - m + 1 ELSE 0
      /\ \A i \in 1..n - m + 1 : SubSeq(w, m, n)[i] = w[m + i - 1]
  BY <1>1, <1>2, SubSeqProperties
<1>4. \A i \in 1..(n - k) : m + i - 1 = k + i
  BY <1>1 DEF m
<1>5. k < n \/ n - k = 0
  BY <1>1
<1>6. Len(SubSeq(w, m, n)) = n - k
  BY <1>1, <1>3, <1>5
<1> QED
  BY <1>1, <1>3, <1>4, <1>6 DEF m, n

(* Output makes the last entry dearer and changes nothing else.            *)
LEMMA DearerLast ==
    ASSUME NEW w \in Seq(Entry), w # <<>>, NEW cost \in Nat
    PROVE  LET dearer == [w EXCEPT ![Len(w)].cost = w[Len(w)].cost + cost]
           IN  /\ dearer \in Seq(Entry)
               /\ Len(dearer) = Len(w)
               /\ \A i \in DOMAIN dearer : dearer[i].line = w[i].line
<1> DEFINE n == Len(w)
           last == [w[n] EXCEPT !.cost = w[n].cost + cost]
           dearer == [w EXCEPT ![n] = last]
<1>1. n \in Nat /\ n # 0 /\ DOMAIN w = 1..n /\ \A i \in 1..n : w[i] \in Entry
  OBVIOUS
<1>2. w[n] \in Entry
  BY <1>1
<1>3. last \in Entry /\ last.line = w[n].line
  BY <1>2 DEF Entry
<1> HIDE DEF n, last
<1>4. dearer \in [1..n -> Entry]
  BY <1>1, <1>3
<1>5. dearer \in Seq(Entry) /\ Len(dearer) = n
  BY <1>1, <1>4
<1>6. \A i \in 1..n : dearer[i] = IF i = n THEN last ELSE w[i]
  BY <1>1
<1>7. \A i \in DOMAIN dearer : dearer[i].line = w[i].line
  BY <1>1, <1>3, <1>4, <1>6
<1> QED
  BY <1>5, <1>7 DEF n, last

(* What is stashed is old or new text.                                     *)
LEMMA StashesSubset ==
    ASSUME NEW old, NEW new, NEW d \in Stashes(old, new)
    PROVE  d \subseteq old \cup new /\ (new = {} => d = old)
BY DEF Stashes

(* The oldest k entries of a window w that numbers its lines as it should  *)
(* can leave it.                                                           *)
LEMMA EvictKeeps ==
    ASSUME Inv,
           NEW w \in Seq(Entry), Len(w) = Len(window),
           \A i \in DOMAIN w : w[i].line = window[i].line,
           NEW k \in Nat, k =< Len(w),
           Evict(w, k), lines' = lines, cleared' = cleared, phase' \in Phases
    PROVE  Inv'
<1> USE DEF Inv, TypeOK, CountExact, WindowIsSuffix
<1>1. Len(w) \in Nat /\ DOMAIN w = 1..Len(w) /\ DOMAIN window = 1..Len(w)
  OBVIOUS
<1>2. \A i \in 1..Len(w) : w[i].line = cleared + count + i
  BY <1>1
<1>3. /\ window' \in Seq(Entry)
      /\ Len(window') = Len(w) - k
      /\ \A i \in 1..(Len(w) - k) : window'[i] = w[k + i]
  BY RestOfWindow DEF Evict
<1>4. count' = count + k
  BY DEF Evict
<1>5. CountExact'
  <2>1. cleared + count + Len(w) = lines /\ cleared \in Nat /\ count \in Nat
    BY <1>1
  <2> DEFINE n == Len(w)
  <2>2. n \in Nat /\ cleared + count + n = lines
    BY <1>1, <2>1
  <2> HIDE DEF n
  <2>3. cleared + (count + k) + (n - k) = lines
    BY <2>1, <2>2
  <2> QED
    BY <1>3, <1>4, <2>3 DEF n
<1>6. WindowIsSuffix'
  <2> SUFFICES ASSUME NEW i \in DOMAIN window'
               PROVE  window'[i].line = cleared' + count' + i
    OBVIOUS
  <2>1. i \in 1..(Len(w) - k) /\ i \in Nat
    BY <1>1, <1>3
  <2>2. k + i \in 1..Len(w)
    BY <1>1, <2>1
  <2>3. window'[i].line = cleared + count + (k + i)
    BY <1>2, <1>3, <2>1, <2>2
  <2> QED
    BY <1>4, <2>1, <2>3
<1> DEFINE new == {w[i].line : i \in 1..k}
<1>7. new \subseteq 1..(cleared + count + k)
  BY <1>1, <1>2
<1>8. dropped' \subseteq dropped \cup new /\ (new = {} => dropped' = dropped)
  BY StashesSubset DEF Evict
<1>9. k = 0 => new = {}
  BY <1>1
<1> HIDE DEF new
<1>10. cleared + count + k =< lines /\ cleared + count + k \in Nat
  BY <1>1
<1>11. dropped \subseteq 1..(cleared + count + k) /\ summary \subseteq 1..(cleared + count + k)
  BY <1>10 DEF TextBehind
<1>12. dropped' \subseteq 1..(cleared + count + k) /\ summary' \subseteq 1..(cleared + count + k)
  BY <1>7, <1>8, <1>11 DEF Evict
<1>13. TextBehind'
  BY <1>4, <1>12 DEF TextBehind
<1>14. dropped' \subseteq 1..lines /\ summary' \subseteq 1..lines
  BY <1>10, <1>12
<1>15. OneText'
  <2>1. CASE k = 0
    BY <1>8, <1>9, <2>1 DEF Evict, OneText
  <2>2. CASE k # 0
    BY <1>4, <2>2 DEF Evict, OneText
  <2> QED
    BY <2>1, <2>2
<1>16. TypeOK'
  BY <1>3, <1>4, <1>14 DEF Entry
<1> QED
  BY <1>5, <1>6, <1>13, <1>15, <1>16

-----------------------------------------------------------------------------
LEMMA InitInv == Init => Inv
<1> SUFFICES ASSUME Init PROVE Inv
  OBVIOUS
<1> QED
  BY TranscriptAssumption
  DEF Init, Inv, TypeOK, CountExact, WindowIsSuffix, TextBehind, OneText, Phases, Entry

LEMMA NextInv == Inv /\ [Next]_vars => Inv'
<1> SUFFICES ASSUME Inv, [Next]_vars PROVE Inv'
  OBVIOUS
<1>1. ASSUME NEW cost \in Costs, RecordCommand(cost) PROVE Inv'
  <2>1. [line |-> lines + 1, cost |-> cost] \in Entry
    BY TranscriptAssumption DEF Inv, TypeOK, Entry
  <2>2. /\ window' \in Seq(Entry)
        /\ Len(window') = Len(window) + 1
        /\ \A i \in 1..Len(window) : window'[i] = window[i]
        /\ window'[Len(window) + 1].line = lines + 1
    BY <1>1, <2>1 DEF Inv, TypeOK, RecordCommand
  <2>3. CountExact'
    BY <1>1, <2>2 DEF Inv, TypeOK, CountExact, RecordCommand
  <2>4. WindowIsSuffix'
    BY <1>1, <2>2 DEF Inv, TypeOK, CountExact, WindowIsSuffix, RecordCommand
  <2>5. TypeOK'
    BY <1>1, <2>2, TranscriptAssumption DEF Inv, TypeOK, RecordCommand, Phases
  <2> QED
    BY <1>1, <2>3, <2>4, <2>5 DEF Inv, TextBehind, OneText, RecordCommand
<1>2. ASSUME NEW cost \in Costs, RecordOutput(cost) PROVE Inv'
  <2> DEFINE n == Len(window)
             w == IF n = 0 THEN window
                  ELSE [window EXCEPT ![n].cost = window[n].cost + cost]
  <2>1. window \in Seq(Entry) /\ n \in Nat /\ cost \in Nat
    BY TranscriptAssumption DEF Inv, TypeOK
  <2>2. n # 0 => window # <<>>
    OBVIOUS
  <2>3. w \in Seq(Entry) /\ Len(w) = Len(window)
    BY <2>1, <2>2, DearerLast
  <2>4. \A i \in DOMAIN w : w[i].line = window[i].line
    BY <2>1, <2>2, DearerLast
  <2>5. Evict(w, Evicted(w)) /\ lines' = lines /\ cleared' = cleared /\ phase' \in Phases
    BY <1>2 DEF RecordOutput, Phases
  <2> HIDE DEF w
  <2> QED
    BY <2>3, <2>4, <2>5, EvictedBound, EvictKeeps
<1>3. CASE Clear
  BY <1>3 DEF Inv, TypeOK, CountExact, WindowIsSuffix, TextBehind, OneText, Clear, Entry
<1>4. ASSUME NEW n \in 0..MaxLines, Trim(n) PROVE Inv'
  <2>1. n \in Nat /\ window \in Seq(Entry)
    BY TranscriptAssumption DEF Inv, TypeOK
  <2>2. Evict(window, Trimmed(window, n)) /\ lines' = lines /\ cleared' = cleared
        /\ phase' \in Phases
    BY <1>4 DEF Trim, Inv, TypeOK
  <2> QED
    BY <2>1, <2>2, TrimmedBound, EvictKeeps
<1>5. CASE Finish
  BY <1>5 DEF Inv, TypeOK, CountExact, WindowIsSuffix, TextBehind, OneText, Finish, Phases
<1>6. CASE Summarize
  BY <1>6 DEF Inv, TypeOK, CountExact, WindowIsSuffix, TextBehind, OneText,
              Summarize, CompactEnds, PendingSummary, Phases
<1>7. CASE Discard
  BY <1>7 DEF Inv, TypeOK, CountExact, WindowIsSuffix, TextBehind, OneText,
              Discard, CompactEnds, PendingSummary, Phases
<1>8. CASE KeepForLater
  BY <1>8 DEF Inv, TypeOK, CountExact, WindowIsSuffix, TextBehind, OneText,
              KeepForLater, CompactEnds, PendingSummary, Phases
<1>9. CASE UNCHANGED vars
  BY <1>9 DEF Inv, TypeOK, CountExact, WindowIsSuffix, TextBehind, OneText, vars
<1> QED
  BY <1>1, <1>2, <1>3, <1>4, <1>5, <1>6, <1>7, <1>8, <1>9 DEF Next

LEMMA InvHolds == Spec => []Inv
BY InitInv, NextInv, PTL DEF Spec

-----------------------------------------------------------------------------
(* Every variable keeps its type.                                          *)
THEOREM TypeCorrect == Spec => []TypeOK
<1>1. Inv => TypeOK
  BY DEF Inv
<1> QED
  BY <1>1, InvHolds, PTL

(* The marker's count and the window account for every line recorded since *)
(* the last clear (enforce_cap and trim, one drop at a time).              *)
THEOREM CountIsExact == Spec => []CountExact
<1>1. Inv => CountExact
  BY DEF Inv
<1> QED
  BY <1>1, InvHolds, PTL

(* The window is the newest of those lines, in order and without a gap.    *)
THEOREM WindowInOrder == Spec => []WindowIsSuffix
<1>1. Inv => WindowIsSuffix
  BY DEF Inv
<1> QED
  BY <1>1, InvHolds, PTL

(* The model reads no line twice: window, summary and text that waits for  *)
(* one are disjoint, and a summary is shown only when no text waits.       *)
THEOREM TextOnce == Spec => []TextInOnePlace
<1>1. Inv => TextInOnePlace
  <2> SUFFICES ASSUME Inv PROVE TextInOnePlace
    OBVIOUS
  <2>1. \A i \in DOMAIN window : window[i].line \notin dropped \cup summary
    <3> SUFFICES ASSUME NEW i \in DOMAIN window
                 PROVE  window[i].line \notin dropped \cup summary
      OBVIOUS
    <3>1. window[i].line = cleared + count + i /\ i >= 1 /\ i \in Nat
      BY DEF Inv, TypeOK, WindowIsSuffix
    <3>2. cleared + count \in Nat
      BY DEF Inv, TypeOK
    <3>3. window[i].line \notin 1..(cleared + count)
      BY <3>1, <3>2
    <3> QED
      BY <3>3 DEF Inv, TextBehind
  <2> QED
    BY <2>1 DEF Inv, OneText, TextInOnePlace
<1> QED
  BY <1>1, InvHolds, PTL

(* Neither the cap nor `context trim` takes away the current line.         *)
THEOREM NewestLineStays == Spec => NewestStays
<1> DEFINE Stays == window # <<>> /\ cleared' = cleared =>
                        window' # <<>> /\ window'[Len(window')].line = lines'
<1>1. Inv /\ Inv' /\ [Next]_vars => [Stays]_vars
  <2> SUFFICES ASSUME Inv, Inv', Next, window # <<>>, cleared' = cleared
               PROVE  window' # <<>> /\ window'[Len(window')].line = lines'
    BY DEF vars
  <2>1. window \in Seq(Entry) /\ window' \in Seq(Entry)
    BY DEF Inv, TypeOK
  <2>2. window' # <<>>
    <3>1. ASSUME NEW cost \in Costs, RecordCommand(cost) PROVE window' # <<>>
      BY <2>1, <3>1 DEF RecordCommand
    <3>2. ASSUME NEW cost \in Costs, RecordOutput(cost) PROVE window' # <<>>
      <4> DEFINE n == Len(window)
                 w == [window EXCEPT ![n].cost = window[n].cost + cost]
      <4>1. n \in Nat /\ n # 0 /\ window[n] \in Entry /\ cost \in Nat
        BY <2>1, TranscriptAssumption
      <4>2. w \in Seq(Entry) /\ Len(w) = n
        BY <2>1, <4>1, DearerLast
      <4>3. window' = SubSeq(w, Evicted(w) + 1, Len(w))
        BY <3>2, <4>1 DEF RecordOutput, Evict
      <4> HIDE DEF w
      <4>4. w # <<>>
        BY <4>1, <4>2
      <4>5. Evicted(w) \in Nat /\ Evicted(w) < Len(w)
        BY <4>2, <4>4, EvictedBound
      <4>6. Len(window') = Len(w) - Evicted(w)
        BY <4>2, <4>3, <4>5, RestOfWindow
      <4> QED
        BY <4>1, <4>2, <4>5, <4>6
    <3>3. CASE Clear
      <4>1. lines = cleared
        BY <3>3 DEF Clear
      <4> QED
        BY <2>1, <4>1 DEF Inv, TypeOK, CountExact
    <3>4. ASSUME NEW m \in 0..MaxLines, Trim(m) PROVE window' # <<>>
      <4>1. m \in Nat
        BY TranscriptAssumption
      <4>2. window' = SubSeq(window, Trimmed(window, m) + 1, Len(window))
        BY <3>4 DEF Trim, Evict
      <4>3. Trimmed(window, m) \in Nat /\ Trimmed(window, m) < Len(window)
        BY <2>1, <4>1, TrimmedBound
      <4>4. Len(window') = Len(window) - Trimmed(window, m)
        BY <2>1, <4>2, <4>3, RestOfWindow
      <4> QED
        BY <2>1, <4>3, <4>4
    <3>5. CASE Finish \/ Summarize \/ Discard \/ KeepForLater
      BY <3>5 DEF Finish, Summarize, Discard, KeepForLater
    <3> QED
      BY <3>1, <3>2, <3>3, <3>4, <3>5 DEF Next
  <2>3. Len(window') \in DOMAIN window' /\ Len(window') \in Nat
    BY <2>1, <2>2
  <2> QED
    BY <2>2, <2>3 DEF Inv, TypeOK, CountExact, WindowIsSuffix
<1> QED
  BY <1>1, InvHolds, PTL DEF Spec, NewestStays

-----------------------------------------------------------------------------
(* Induction over the numbers up to m, with the set that is to hold them.  *)
LEMMA LeastNatural ==
    ASSUME NEW S \in SUBSET Nat, S # {}
    PROVE  \E n \in S : \A k \in S : n =< k
<1> DEFINE R == OpToRel(<, Nat)
<1>1. IsWellFoundedOn(R, Nat)
  BY NatLessThanWellFounded
<1>2. \A x, y \in Nat : <<x, y>> \in R <=> x < y
  BY DEF OpToRel
<1> HIDE DEF R
<1>3. PICK n \in S : \A k \in S : ~(<<k, n>> \in R)
  BY <1>1, WFMin
<1>4. ASSUME NEW k \in S PROVE n =< k
  <2>1. k \in Nat /\ n \in Nat /\ ~(k < n)
    BY <1>2, <1>3
  <2> QED
    BY <2>1
<1> QED
  BY <1>4

LEMMA UpTo ==
    ASSUME NEW m \in Nat, NEW S, 0 \in S, \A n \in 0..(m - 1) : n \in S => n + 1 \in S
    PROVE  0..m \subseteq S
<1> SUFFICES ASSUME NEW k \in 0..m, k \notin S PROVE FALSE
  OBVIOUS
<1> DEFINE Rest == {n \in 0..m : n \notin S}
<1>1. PICK least \in Rest : \A n \in Rest : least =< n
  <2>1. Rest \in SUBSET Nat /\ Rest # {}
    OBVIOUS
  <2> HIDE DEF Rest
  <2> QED
    BY <2>1, LeastNatural
<1>2. least - 1 \in 0..(m - 1) /\ (least - 1) + 1 = least
  OBVIOUS
<1>3. least - 1 \notin Rest
  BY <1>1, <1>2
<1> QED
  BY <1>1, <1>2, <1>3

-----------------------------------------------------------------------------
(* The sums of which CostFrom is the last.                                 *)
SumAt(w, i, h, j) == IF j < i THEN 0 ELSE h[j - 1] + w[j].cost
IsSum(h, w, i, n) == h = [j \in 0..n |-> SumAt(w, i, h, j)]

LEMMA SumIsThere ==
    ASSUME NEW w, NEW i \in Nat \ {0}, NEW n \in Nat
    PROVE  \E h : IsSum(h, w, i, n)
<1> DEFINE S == {k \in Nat : \E h : IsSum(h, w, i, k)}
<1>1. 0 \in S
  <2> DEFINE h == [j \in 0..0 |-> 0]
  <2>1. \A j \in 0..0 : SumAt(w, i, h, j) = 0
    BY DEF SumAt
  <2>2. IsSum(h, w, i, 0)
    BY <2>1 DEF IsSum
  <2> QED
    BY <2>2
<1>2. ASSUME NEW k \in 0..(n - 1), k \in S PROVE k + 1 \in S
  <2>1. PICK h : IsSum(h, w, i, k)
    BY <1>2
  <2> DEFINE v == [j \in 0..(k + 1) |-> IF j = k + 1 THEN SumAt(w, i, h, j) ELSE h[j]]
  <2>2. ASSUME NEW j \in 0..(k + 1) PROVE v[j] = SumAt(w, i, v, j)
    <3>1. j # 0 => j - 1 \in 0..k /\ v[j - 1] = h[j - 1]
      OBVIOUS
    <3>2. SumAt(w, i, v, j) = SumAt(w, i, h, j)
      BY <3>1 DEF SumAt
    <3>3. CASE j = k + 1
      BY <3>2, <3>3
    <3>4. CASE j # k + 1
      <4>1. j \in 0..k /\ v[j] = h[j]
        BY <3>4
      <4>2. h[j] = SumAt(w, i, h, j)
        BY <2>1, <4>1 DEF IsSum
      <4> QED
        BY <3>2, <4>1, <4>2
    <3> QED
      BY <3>3, <3>4
  <2>3. v = [j \in 0..(k + 1) |-> v[j]]
    OBVIOUS
  <2>4. IsSum(v, w, i, k + 1)
    <3> HIDE DEF v
    <3> QED
      BY <2>2, <2>3 DEF IsSum
  <2> QED
    BY <2>4
<1>3. 0..n \subseteq S
  <2> HIDE DEF S
  <2> QED
    BY <1>1, <1>2, UpTo
<1> QED
  BY <1>3

LEMMA CostIsSum ==
    ASSUME NEW w \in Seq(Entry), NEW i \in Nat \ {0}
    PROVE  \E h : IsSum(h, w, i, Len(w)) /\ CostFrom(w, i) = h[Len(w)]
<1> DEFINE IsIt(h) == h = [j \in 0..Len(w) |-> IF j < i THEN 0 ELSE h[j - 1] + w[j].cost]
           f == CHOOSE h : IsIt(h)
<1>1. ASSUME NEW h PROVE IsIt(h) <=> IsSum(h, w, i, Len(w))
  BY DEF IsSum, SumAt
<1>2. IsIt(f)
  <2>1. Len(w) \in Nat
    OBVIOUS
  <2>2. PICK h : IsSum(h, w, i, Len(w))
    BY <2>1, SumIsThere
  <2>3. IsIt(h)
    BY <1>1, <2>2
  <2> HIDE DEF IsIt
  <2> QED
    BY <2>3
<1>3. IsSum(f, w, i, Len(w))
  BY <1>1, <1>2
<1>4. CostFrom(w, i) = f[Len(w)]
  BY Zenon DEF CostFrom
<1> HIDE DEF f
<1> QED
  BY <1>3, <1>4

Sums(h, w, i, n) ==
    /\ h[0] = 0
    /\ \A j \in 0..n : j < i => h[j] = 0
    /\ \A j \in 0..(n - 1) : ~(j + 1 < i) => h[j + 1] = h[j] + w[j + 1].cost

LEMMA SumSteps ==
    ASSUME NEW w, NEW i \in Nat \ {0}, NEW n \in Nat, NEW h, IsSum(h, w, i, n)
    PROVE  Sums(h, w, i, n)
<1>1. \A j \in 0..n : h[j] = SumAt(w, i, h, j)
  BY DEF IsSum
<1>2. ASSUME NEW j \in 0..(n - 1), ~(j + 1 < i) PROVE h[j + 1] = h[j] + w[j + 1].cost
  <2>1. j + 1 \in 0..n /\ (j + 1) - 1 = j
    OBVIOUS
  <2> QED
    BY <1>1, <1>2, <2>1 DEF SumAt
<1> QED
  BY <1>1, <1>2 DEF SumAt, Sums

LEMMA CostsAre ==
    ASSUME NEW w \in Seq(Entry)
    PROVE  Len(w) \in Nat /\ \A j \in 1..Len(w) : w[j].cost \in Nat
<1>1. Len(w) \in Nat /\ \A j \in 1..Len(w) : w[j] \in Entry
  OBVIOUS
<1> QED
  BY <1>1 DEF Entry

LEMMA SumsAre ==
    ASSUME NEW w \in Seq(Entry), NEW i \in Nat \ {0}, NEW h, IsSum(h, w, i, Len(w)),
           NEW k \in 0..Len(w)
    PROVE  h[k] \in Nat
<1> DEFINE n == Len(w)
           S == {j \in 0..n : h[j] \in Nat}
<1>1. n \in Nat /\ \A j \in 1..n : w[j].cost \in Nat
  BY CostsAre
<1> HIDE DEF n
<1>2. /\ h[0] = 0 /\ \A j \in 0..n : j < i => h[j] = 0
      /\ \A j \in 0..(n - 1) : ~(j + 1 < i) => h[j + 1] = h[j] + w[j + 1].cost
  BY <1>1, SumSteps DEF n, Sums
<1>3. 0 \in S
  BY <1>1, <1>2
<1>4. ASSUME NEW j \in 0..(n - 1), j \in S PROVE j + 1 \in S
  <2>1. j + 1 \in 0..n /\ j + 1 \in 1..n /\ w[j + 1].cost \in Nat
    BY <1>1
  <2> QED
    BY <1>2, <1>4, <2>1
<1>5. k \in S
  <2> HIDE DEF S
  <2> QED
    BY <1>1, <1>3, <1>4, UpTo DEF n
<1> QED
  BY <1>5

(* The later a sum starts, the less it is.                                 *)
LEMMA CostLater ==
    ASSUME NEW w \in Seq(Entry), NEW i \in Nat \ {0}, NEW k \in Nat, i =< k
    PROVE  CostFrom(w, i) \in Nat /\ CostFrom(w, k) \in Nat /\ CostFrom(w, k) =< CostFrom(w, i)
<1> DEFINE n == Len(w)
<1>1. n \in Nat /\ k \in Nat \ {0} /\ \A j \in 1..n : w[j].cost \in Nat
  BY CostsAre
<1>2. PICK h : IsSum(h, w, i, Len(w)) /\ CostFrom(w, i) = h[Len(w)]
  BY CostIsSum
<1>3. PICK g : IsSum(g, w, k, Len(w)) /\ CostFrom(w, k) = g[Len(w)]
  BY <1>1, CostIsSum
<1>4. \A j \in 0..n : h[j] \in Nat /\ g[j] \in Nat
  BY <1>1, <1>2, <1>3, SumsAre
<1>5. /\ h[0] = 0 /\ \A j \in 0..n : j < i => h[j] = 0
      /\ \A j \in 0..(n - 1) : ~(j + 1 < i) => h[j + 1] = h[j] + w[j + 1].cost
  BY <1>1, <1>2, SumSteps DEF Sums
<1>6. /\ g[0] = 0 /\ \A j \in 0..n : j < k => g[j] = 0
      /\ \A j \in 0..(n - 1) : ~(j + 1 < k) => g[j + 1] = g[j] + w[j + 1].cost
  BY <1>1, <1>3, SumSteps DEF Sums
<1> HIDE DEF n
<1> DEFINE S == {j \in 0..n : g[j] =< h[j]}
<1>7. 0 \in S
  BY <1>1, <1>5, <1>6
<1>8. ASSUME NEW j \in 0..(n - 1), j \in S PROVE j + 1 \in S
  <2>1. j + 1 \in 0..n /\ j \in 0..n /\ w[j + 1].cost \in Nat /\ h[j + 1] \in Nat
    BY <1>1, <1>4
  <2>2. CASE j + 1 < k
    BY <1>6, <2>1, <2>2
  <2>3. CASE ~(j + 1 < k)
    <3>1. ~(j + 1 < i)
      BY <1>1, <2>3
    <3>2. g[j + 1] = g[j] + w[j + 1].cost /\ h[j + 1] = h[j] + w[j + 1].cost /\ g[j] =< h[j]
      BY <1>5, <1>6, <1>8, <2>3, <3>1
    <3> QED
      BY <1>4, <2>1, <3>2
  <2> QED
    BY <2>2, <2>3
<1>9. n \in S
  <2>1. 0..n \subseteq S
    <3> HIDE DEF S
    <3> QED
      BY <1>1, <1>7, <1>8, UpTo
  <2> QED
    BY <1>1, <2>1
<1> QED
  BY <1>1, <1>2, <1>3, <1>4, <1>9 DEF n

(* What is left of a window costs what it did.                             *)
LEMMA CostOfRest ==
    ASSUME NEW w \in Seq(Entry), NEW d \in Nat, d =< Len(w)
    PROVE  CostFrom(SubSeq(w, d + 1, Len(w)), 1) = CostFrom(w, d + 1)
<1> DEFINE n == Len(w)
           s == SubSeq(w, d + 1, Len(w))
           m == n - d
<1>1. s \in Seq(Entry) /\ Len(s) = m /\ \A j \in 1..m : s[j] = w[d + j]
  BY RestOfWindow
<1>2. n \in Nat /\ m \in Nat /\ d + m = n /\ d + 1 \in Nat \ {0} /\ 1 \in Nat \ {0}
  OBVIOUS
<1>3. PICK h : IsSum(h, w, d + 1, Len(w)) /\ CostFrom(w, d + 1) = h[Len(w)]
  BY <1>2, CostIsSum
<1>4. PICK g : IsSum(g, s, 1, Len(s)) /\ CostFrom(s, 1) = g[Len(s)]
  <2> HIDE DEF s
  <2> QED
    BY <1>1, <1>2, CostIsSum
<1>5. /\ \A j \in 0..n : j < d + 1 => h[j] = 0
      /\ \A j \in 0..(n - 1) : ~(j + 1 < d + 1) => h[j + 1] = h[j] + w[j + 1].cost
  BY <1>2, <1>3, SumSteps DEF Sums
<1> HIDE DEF s
<1>6. /\ g[0] = 0
      /\ \A j \in 0..(m - 1) : ~(j + 1 < 1) => g[j + 1] = g[j] + s[j + 1].cost
  <2> HIDE DEF n, m
  <2>1. IsSum(g, s, 1, m)
    BY <1>1, <1>4
  <2>2. Sums(g, s, 1, m)
    BY <1>2, <2>1, SumSteps
  <2> QED
    BY <1>2, <2>2 DEF Sums
<1> HIDE DEF n, m
<1> DEFINE S == {j \in 0..m : g[j] = h[d + j]}
<1>7. 0 \in S
  <2>1. d + 0 \in 0..n /\ d + 0 < d + 1 /\ 0 \in 0..m
    BY <1>2
  <2> QED
    BY <1>5, <1>6, <2>1
<1>8. ASSUME NEW j \in 0..(m - 1), j \in S PROVE j + 1 \in S
  <2>1. /\ j + 1 \in 1..m /\ j + 1 \in 0..m /\ ~(j + 1 < 1) /\ d + j \in 0..(n - 1)
        /\ ~((d + j) + 1 < d + 1) /\ d + (j + 1) = (d + j) + 1
    BY <1>2
  <2>2. g[j + 1] = g[j] + s[j + 1].cost /\ s[j + 1] = w[(d + j) + 1]
    BY <1>1, <1>6, <2>1
  <2>3. h[(d + j) + 1] = h[d + j] + w[(d + j) + 1].cost
    BY <1>5, <2>1
  <2>4. g[j] = h[d + j]
    BY <1>8
  <2>5. g[j + 1] = h[(d + j) + 1]
    BY <2>2, <2>3, <2>4
  <2> QED
    BY <2>1, <2>5
<1>9. m \in S
  <2>1. 0..m \subseteq S
    <3> HIDE DEF S
    <3> QED
      BY <1>2, <1>7, <1>8, UpTo
  <2> QED
    BY <1>2, <2>1
<1>10. g[m] = h[n]
  BY <1>2, <1>9
<1> QED
  BY <1>1, <1>3, <1>4, <1>10 DEF n, m, s

(* A dearer last entry makes every sum dearer by as much.                  *)
LEMMA CostOfDearer ==
    ASSUME NEW w \in Seq(Entry), w # <<>>, NEW cost \in Nat, NEW v \in Seq(Entry),
           Len(v) = Len(w), \A j \in 1..(Len(w) - 1) : v[j] = w[j],
           v[Len(w)].cost = w[Len(w)].cost + cost,
           NEW i \in 1..Len(w)
    PROVE  CostFrom(v, i) = CostFrom(w, i) + cost
<1> DEFINE n == Len(w)
<1>1. n \in Nat /\ n # 0 /\ n - 1 \in Nat /\ (n - 1) + 1 = n /\ i \in Nat \ {0} /\ i =< n
  OBVIOUS
<1>2. PICK h : IsSum(h, w, i, Len(w)) /\ CostFrom(w, i) = h[Len(w)]
  BY <1>1, CostIsSum
<1>3. PICK g : IsSum(g, v, i, Len(v)) /\ CostFrom(v, i) = g[Len(v)]
  BY <1>1, CostIsSum
<1>4. /\ h[0] = 0 /\ \A j \in 0..n : j < i => h[j] = 0
      /\ \A j \in 0..(n - 1) : ~(j + 1 < i) => h[j + 1] = h[j] + w[j + 1].cost
  BY <1>1, <1>2, SumSteps DEF Sums
<1>5. /\ g[0] = 0 /\ \A j \in 0..n : j < i => g[j] = 0
      /\ \A j \in 0..(n - 1) : ~(j + 1 < i) => g[j + 1] = g[j] + v[j + 1].cost
  BY <1>1, <1>3, SumSteps DEF Sums
<1>6. \A j \in 0..n : h[j] \in Nat
  BY <1>1, <1>2, SumsAre
<1>7. w[n].cost \in Nat
  <2>1. n \in 1..n
    BY <1>1
  <2> QED
    BY <2>1, CostsAre
<1>8. Len(v) = n /\ (\A j \in 1..(n - 1) : v[j] = w[j]) /\ v[n].cost = w[n].cost + cost
  OBVIOUS
<1> HIDE DEF n
<1> DEFINE S == {j \in 0..(n - 1) : g[j] = h[j]}
<1>9. 0 \in S
  BY <1>1, <1>4, <1>5
<1>10. ASSUME NEW j \in 0..((n - 1) - 1), j \in S PROVE j + 1 \in S
  <2>1. j + 1 \in 1..(n - 1) /\ j + 1 \in 0..n /\ j \in 0..(n - 1) /\ j + 1 \in 0..(n - 1)
    BY <1>1
  <2>2. v[j + 1] = w[j + 1] /\ g[j] = h[j]
    BY <1>8, <1>10, <2>1
  <2>3. g[j + 1] = h[j + 1]
    BY <1>4, <1>5, <2>1, <2>2
  <2> QED
    BY <2>1, <2>3
<1>11. n - 1 \in S
  <2>1. 0..(n - 1) \subseteq S
    <3> HIDE DEF S
    <3> QED
      BY <1>1, <1>9, <1>10, UpTo
  <2> QED
    BY <1>1, <2>1
<1>12. g[n - 1] = h[n - 1] /\ n - 1 \in 0..(n - 1) /\ n - 1 \in 0..n /\ ~((n - 1) + 1 < i)
  BY <1>1, <1>11
<1>13. g[n] = g[n - 1] + v[n].cost /\ h[n] = h[n - 1] + w[n].cost
  BY <1>1, <1>4, <1>5, <1>12
<1>14. g[n] = h[n] + cost
  BY <1>6, <1>7, <1>8, <1>12, <1>13
<1> QED
  BY <1>2, <1>3, <1>8, <1>14 DEF n

-----------------------------------------------------------------------------
(* A set of numbers that has with each also those before it.               *)
LEMMA FirstOnes ==
    ASSUME NEW m \in Nat, NEW S \in SUBSET (1..m), \A i \in S : \A j \in 1..i : j \in S
    PROVE  S = 1..Cardinality(S)
<1>1. PICK k \in 0..m : S = 1..k
  <2> DEFINE Out == {j \in 1..(m + 1) : j \notin S}
  <2>1. Out \in SUBSET Nat /\ m + 1 \in Out
    OBVIOUS
  <2>2. PICK least \in Out : \A j \in Out : least =< j
    <3> HIDE DEF Out
    <3> QED
      BY <2>1, LeastNatural
  <2>3. least - 1 \in 0..m
    OBVIOUS
  <2>4. ASSUME NEW j \in 1..(least - 1) PROVE j \in S
    <3>1. j \in 1..(m + 1) /\ ~(least =< j)
      OBVIOUS
    <3> QED
      BY <2>2, <3>1
  <2>5. ASSUME NEW j \in S PROVE j \in 1..(least - 1)
    <3>1. ~(least =< j)
      <4>1. least \in 1..j => least \in S
        OBVIOUS
      <4>2. least \notin S /\ least \in Nat /\ least >= 1 /\ j \in Nat
        OBVIOUS
      <4> QED
        BY <4>1, <4>2
    <3> QED
      BY <3>1
  <2> QED
    BY <2>3, <2>4, <2>5
<1>2. Cardinality(1..k) = k
  <2>1. Cardinality(1..k) = IF 1 > k THEN 0 ELSE k - 1 + 1
    BY FS_Interval
  <2> QED
    BY <2>1
<1> QED
  BY <1>1, <1>2

(* How many entries go: as many as leave the rest within the cap, and no   *)
(* more.                                                                   *)
LEMMA EvictedFits ==
    ASSUME NEW w \in Seq(Entry), w # <<>>, MarkerCost \in Nat
    PROVE  LET d == Evicted(w)
           IN  /\ d = 0 => MarkerCost + CostFrom(w, 1) =< Cap \/ Len(w) = 1
               /\ d > 0 => CostFrom(w, d + 1) =< Cap \/ d = Len(w) - 1
               /\ d = 1 => MarkerCost + CostFrom(w, 1) > Cap
               /\ d > 1 => CostFrom(w, d) > Cap
<1> DEFINE n == Len(w)
           S == {i \in 1..(n - 1) : i = 1 \/ CostFrom(w, i) > Cap}
           d == Evicted(w)
           c == MarkerCost + CostFrom(w, 1)
<1>1. n \in Nat /\ n >= 1 /\ n - 1 \in Nat /\ Cap \in Nat
  BY TranscriptAssumption
<1>2. \A i \in 1..n : CostFrom(w, i) \in Nat
  BY <1>1, CostLater
<1>3. c \in Nat
  BY <1>1, <1>2
<1>4. d \in Nat /\ d < n
  BY EvictedBound
<1>5. CASE c =< Cap
  <2>1. d = 0
    BY <1>5 DEF Evicted
  <2> QED
    BY <1>5, <2>1
<1>6. CASE ~(c =< Cap)
  <2>1. d = Cardinality(S)
    BY <1>6 DEF Evicted
  <2>2. ASSUME NEW i \in S, NEW j \in 1..i PROVE j \in S
    <3>1. j \in 1..(n - 1) /\ j \in Nat \ {0} /\ i \in Nat /\ i \in 1..n /\ j \in 1..n /\ j =< i
      BY <1>1
    <3>2. CostFrom(w, i) =< CostFrom(w, j) /\ CostFrom(w, i) \in Nat /\ CostFrom(w, j) \in Nat
      BY <3>1, CostLater
    <3>3. CASE i = 1
      BY <3>1, <3>3
    <3>4. CASE i # 1
      <4>1. CostFrom(w, i) > Cap
        BY <3>4
      <4> QED
        BY <1>1, <3>1, <3>2, <4>1
    <3> QED
      BY <3>3, <3>4
  <2>3. S = 1..d
    <3>1. S \in SUBSET (1..(n - 1))
      OBVIOUS
    <3> HIDE DEF S
    <3> QED
      BY <1>1, <2>1, <2>2, <3>1, FirstOnes
  <2>4. CASE n = 1
    <3>1. d = 0
      BY <1>4, <2>4
    <3> QED
      BY <2>4, <3>1
  <2>5. CASE n # 1
    <3>1. 1 \in S
      <4>1. 1 \in 1..(n - 1)
        <5> HIDE DEF n
        <5> QED
          BY <1>1, <2>5
      <4> QED
        BY <4>1
    <3>2. d > 0
      BY <1>4, <2>3, <3>1
    <3>3. CostFrom(w, d + 1) =< Cap \/ d = n - 1
      <4> SUFFICES ASSUME d # n - 1 PROVE CostFrom(w, d + 1) =< Cap
        OBVIOUS
      <4>1. d + 1 \in 1..(n - 1) /\ d + 1 \in 1..n /\ d + 1 \notin 1..d
        BY <1>1, <1>4
      <4>2. d + 1 \notin S
        BY <2>3, <4>1
      <4>3. ~(CostFrom(w, d + 1) > Cap)
        BY <4>1, <4>2
      <4> QED
        BY <1>1, <1>2, <4>1, <4>3
    <3>4. d > 1 => CostFrom(w, d) > Cap
      <4> SUFFICES ASSUME d > 1 PROVE CostFrom(w, d) > Cap
        OBVIOUS
      <4>1. d \in 1..d /\ d # 1
        BY <1>4
      <4>2. d \in S
        BY <2>3, <4>1
      <4> QED
        BY <4>1, <4>2
    <3>5. c > Cap
      BY <1>1, <1>3, <1>6
    <3> HIDE DEF d, n, S
    <3> QED
      BY <1>4, <3>2, <3>3, <3>4, <3>5 DEF d, n
  <2> QED
    BY <2>4, <2>5
<1> QED
  BY <1>5, <1>6

(* Recording output leaves the window within its cap unless the current    *)
(* line alone exceeds it, and each entry it drops is one with which the    *)
(* window would not have fitted (enforce_cap).                             *)
THEOREM RecordingFits == Spec => Fits
<1> DEFINE Fit == phase' = "recorded" =>
            LET shown == Len(window')
                gone == count' - count
                last == IF Len(window) = 0 THEN 0
                        ELSE window'[shown].cost - window[Len(window)].cost
            IN  /\ CostFrom(window', 1) + MarkerCost' =< Cap \/ shown =< 1
                /\ gone > 1 => CostFrom(window, gone) + last > Cap
                /\ gone = 1 => CostFrom(window, 1) + last + MarkerCost > Cap
<1>1. ASSUME Inv, NEW cost \in Costs, RecordOutput(cost) PROVE Fit
  <2> DEFINE n == Len(window)
             w == [window EXCEPT ![n].cost = window[n].cost + cost]
             d == Evicted(w)
  <2>1. window \in Seq(Entry) /\ n \in Nat /\ cost \in Nat /\ count \in Nat /\ Cap \in Nat
        /\ MarkerCost \in Nat
    <3>1. window \in Seq(Entry) /\ count \in Nat
      BY <1>1 DEF Inv, TypeOK
    <3>2. cost \in Nat /\ Cap \in Nat /\ SummaryCost \in Nat
      BY TranscriptAssumption
    <3>3. MarkerCost \in Nat
      BY <3>2 DEF MarkerCost
    <3> QED
      BY <3>1, <3>2, <3>3
  <2>2. CASE n = 0
    <3>1. window = <<>> /\ Evict(window, Evicted(window))
      BY <1>1, <2>1, <2>2 DEF RecordOutput
    <3>2. Evicted(window) \in Nat /\ Evicted(window) =< n
      BY <2>1, EvictedBound
    <3>3. Evicted(window) = 0
      BY <2>2, <3>2
    <3>4. Len(window') = 0 /\ count' - count = 0
      <4>1. window' = SubSeq(window, 1, 0) /\ count' = count + 0
        BY <2>2, <3>1, <3>3 DEF Evict
      <4> QED
        BY <2>1, <4>1
    <3> QED
      BY <3>4
  <2>3. CASE n # 0
    <3>1. window # <<>> /\ n \in 1..n /\ window[n] \in Entry
      BY <2>1, <2>3
    <3>2. w \in Seq(Entry) /\ Len(w) = n
      BY <2>1, <3>1, DearerLast
    <3>3. (\A j \in 1..(n - 1) : w[j] = window[j]) /\ w[n].cost = window[n].cost + cost
      BY <2>1, <3>1 DEF Entry
    <3>4. Evict(w, d)
      BY <1>1, <2>3 DEF RecordOutput
    <3> HIDE DEF w
    <3>5. w # <<>>
      BY <2>1, <2>3, <3>2
    <3>6. d \in Nat /\ d < n
      BY <3>2, <3>5, EvictedBound
    <3>7. /\ d = 0 => MarkerCost + CostFrom(w, 1) =< Cap \/ n = 1
          /\ d > 0 => CostFrom(w, d + 1) =< Cap \/ d = n - 1
          /\ d = 1 => MarkerCost + CostFrom(w, 1) > Cap
          /\ d > 1 => CostFrom(w, d) > Cap
      BY <2>1, <3>2, <3>5, EvictedFits
    <3>8. \A i \in 1..n : CostFrom(w, i) = CostFrom(window, i) + cost /\ CostFrom(window, i) \in Nat
      <4>1. ASSUME NEW i \in 1..n PROVE CostFrom(w, i) = CostFrom(window, i) + cost
        BY <2>1, <3>1, <3>2, <3>3, CostOfDearer
      <4>2. ASSUME NEW i \in 1..n PROVE CostFrom(window, i) \in Nat
        BY <2>1, CostLater
      <4> QED
        BY <4>1, <4>2
    <3>9. /\ Len(window') = n - d /\ window'[n - d] = w[n]
          /\ CostFrom(window', 1) = CostFrom(w, d + 1)
      <4>1. window' = SubSeq(w, d + 1, Len(w))
        BY <3>4 DEF Evict
      <4> HIDE DEF d
      <4>2. Len(window') = n - d /\ \A i \in 1..(n - d) : window'[i] = w[d + i]
        BY <3>2, <3>6, <4>1, RestOfWindow
      <4>3. n - d \in 1..(n - d) /\ d + (n - d) = n
        BY <2>1, <3>6
      <4>4. CostFrom(window', 1) = CostFrom(w, d + 1)
        BY <3>2, <3>6, <4>1, CostOfRest
      <4> QED
        BY <4>2, <4>3, <4>4
    <3>10. count' = count + d /\ summary' = IF d = 0 THEN summary ELSE {}
      BY <3>4 DEF Evict
    <3> HIDE DEF d
    <3>11. count' - count = d
      BY <2>1, <3>6, <3>10
    <3>12. MarkerCost' = IF d = 0 THEN MarkerCost ELSE 0
      BY <3>10 DEF MarkerCost
    <3>13. window'[Len(window')].cost - window[n].cost = cost
      <4>1. window[n].cost \in Nat
        BY <2>1, <3>1, CostsAre
      <4> QED
        BY <2>1, <3>3, <3>9, <4>1
    <3> DEFINE whole == CostFrom(window', 1)
    <3>14. whole + MarkerCost' =< Cap \/ n - d =< 1
      <4>1. CASE d = 0
        <5>1. whole = CostFrom(w, 1) /\ CostFrom(w, 1) \in Nat
          <6>1. 1 \in 1..n /\ CostFrom(window, 1) \in Nat /\ CostFrom(w, 1) = CostFrom(window, 1) + cost
            BY <2>1, <2>3, <3>8
          <6> QED
            BY <2>1, <3>9, <4>1, <6>1
        <5>2. MarkerCost + whole =< Cap \/ n = 1
          BY <3>7, <4>1, <5>1
        <5>3. MarkerCost' = MarkerCost /\ whole \in Nat
          BY <3>12, <4>1, <5>1
        <5> HIDE DEF whole, n
        <5>4. whole + MarkerCost' = MarkerCost + whole
          BY <2>1, <5>3
        <5>5. n = 1 => n - d =< 1
          BY <4>1
        <5> QED
          BY <5>2, <5>4, <5>5
      <4>2. CASE d # 0
        <5>1. d > 0 /\ d + 1 \in 1..n
          BY <2>1, <3>6, <4>2
        <5>2. whole = CostFrom(w, d + 1) /\ CostFrom(w, d + 1) \in Nat
          <6>1. CostFrom(w, d + 1) = CostFrom(window, d + 1) + cost /\ CostFrom(window, d + 1) \in Nat
            BY <3>8, <5>1
          <6> QED
            BY <2>1, <3>9, <6>1
        <5> HIDE DEF whole
        <5> QED
          BY <2>1, <3>6, <3>7, <3>12, <4>2, <5>1, <5>2
      <4> QED
        BY <4>1, <4>2
    <3>15. d > 1 => CostFrom(window, d) + cost > Cap
      <4> SUFFICES ASSUME d > 1 PROVE CostFrom(window, d) + cost > Cap
        OBVIOUS
      <4>1. d \in 1..n
        BY <2>1, <3>6
      <4>2. CostFrom(w, d) > Cap /\ CostFrom(w, d) = CostFrom(window, d) + cost
        BY <3>7, <3>8, <4>1
      <4> QED
        BY <4>2
    <3>16. d = 1 => CostFrom(window, 1) + cost + MarkerCost > Cap
      <4> SUFFICES ASSUME d = 1 PROVE CostFrom(window, 1) + cost + MarkerCost > Cap
        OBVIOUS
      <4>1. 1 \in 1..n
        BY <2>1, <2>3
      <4>2. /\ MarkerCost + CostFrom(w, 1) > Cap /\ CostFrom(w, 1) = CostFrom(window, 1) + cost
            /\ CostFrom(window, 1) \in Nat
        BY <3>7, <3>8, <4>1
      <4> QED
        BY <2>1, <4>2
    <3> QED
      BY <2>3, <3>9, <3>11, <3>13, <3>14, <3>15, <3>16
  <2> QED
    BY <2>2, <2>3
<1>2. ASSUME Next, phase' = "recorded"
      PROVE  \E cost \in Costs : RecordOutput(cost)
  BY <1>2 DEF Next, RecordCommand, Clear, Trim, Finish, Summarize, Discard, KeepForLater, CompactEnds
<1>3. Inv /\ [Next]_vars => [Fit]_vars
  BY <1>1, <1>2
<1> QED
  BY <1>3, InvHolds, PTL DEF Spec, Fits
=============================================================================
