----------------------- MODULE SessionRecords_proofs -----------------------
(***************************************************************************)
(* The two records a session keeps of its lines, whatever its lines,       *)
(* answers, jobs and bounds.  The process table: each live row is the one  *)
(* the open question waits with, or a job's, or an invocation's.  And      *)
(* shell.log: it has the end of every line that is neither a model loop    *)
(* nor turned away, once its question is resolved.                         *)
(***************************************************************************)
EXTENDS Session_proofs

JobRowsOf(w) == {w.bgJobs[j] : j \in DOMAIN w.bgJobs}

(* A world in the middle of a call: its rows run that run, those wait that *)
(* wait for the human, and all others that live are jobs or invocations.   *)
Accounted(w, run, wait) ==
    /\ IsWorld(w)
    /\ InState(w.rows, "R") = run
    /\ InState(w.rows, "P") = wait
    /\ InState(w.rows, "S") = JobRowsOf(w) \cup w.invocations
    /\ JobRowsOf(w) \cap w.invocations = {}
    /\ \A i, j \in DOMAIN w.bgJobs : w.bgJobs[i] = w.bgJobs[j] => i = j
    /\ DOMAIN w.bgJobs = DOMAIN w.jobs
    /\ Capped(w.rows)

Balanced(w, run, wait) ==
    Accounted(w, run, wait) /\ Cardinality(w.invocations) =< MaxInvocations

(* From one world to a later one rows keep what RowLifecycle says, and the *)
(* new ones have new PIDs.                                                 *)
Kept(w, v) ==
    /\ Follows(w.rows, v.rows)
    /\ \A p \in DOMAIN v.rows \ DOMAIN w.rows : w.nextPid =< p
    /\ w.nextPid =< v.nextPid

Steady(w, v, run, wait) == Balanced(v, run, wait) /\ Kept(w, v)

-----------------------------------------------------------------------------
LEMMA KeptSame == ASSUME NEW w, IsWorld(w) PROVE Kept(w, w)
BY DEF Kept, Follows, IsWorld, Pids

LEMMA KeptTransitive ==
    ASSUME NEW u, NEW v, NEW w, IsWorld(u), IsWorld(v), IsWorld(w), Kept(u, v), Kept(v, w)
    PROVE  Kept(u, w)
<1>1. u.nextPid \in Nat /\ v.nextPid \in Nat /\ w.nextPid \in Nat
  BY DEF IsWorld, Pids
<1>2. DOMAIN u.rows \subseteq Nat /\ DOMAIN v.rows \subseteq Nat /\ DOMAIN w.rows \subseteq Nat
  BY DEF IsWorld, IsTable, Pids
<1>3. u.nextPid =< w.nextPid
  BY <1>1 DEF Kept
<1>4. ASSUME NEW p \in DOMAIN w.rows \ DOMAIN u.rows PROVE u.nextPid =< p
  <2>1. CASE p \in DOMAIN v.rows
    BY <2>1 DEF Kept
  <2>2. CASE p \notin DOMAIN v.rows
    <3>1. v.nextPid =< p /\ u.nextPid =< v.nextPid /\ p \in Nat
      BY <1>2, <2>2 DEF Kept
    <3> QED
      BY <1>1, <3>1
  <2> QED
    BY <2>1, <2>2
<1>5. ASSUME NEW p \in DOMAIN u.rows \cap DOMAIN w.rows PROVE p \in DOMAIN v.rows
  <2>1. p < u.nextPid /\ p \in Nat /\ u.nextPid =< v.nextPid
    BY <1>2 DEF IsWorld, Kept
  <2>2. p \notin DOMAIN v.rows => v.nextPid =< p
    BY DEF Kept
  <2> QED
    BY <1>1, <2>1, <2>2
<1>6. Follows(u.rows, w.rows)
  BY <1>5 DEF Kept, Follows
<1> QED
  BY <1>3, <1>4, <1>6 DEF Kept

LEMMA SteadyTwice ==
    ASSUME NEW u, NEW v, NEW w, NEW run, NEW wait, IsWorld(u), IsWorld(v),
           Kept(u, v), Steady(v, w, run, wait)
    PROVE  Steady(u, w, run, wait)
BY KeptTransitive DEF Steady, Balanced, Accounted

-----------------------------------------------------------------------------
(* A new row is one the table did not have.                                *)
LEMMA NewRowSteps ==
    ASSUME NEW w, IsWorld(w), Capped(w.rows), NEW parent \in Nat, NEW st \in LiveStates,
           NEW v, v = NewRow(w, parent, st)
    PROVE  /\ IsWorld(v) /\ Kept(w, v) /\ Capped(v.rows)
           /\ v.jobs = w.jobs /\ v.bgJobs = w.bgJobs /\ v.invocations = w.invocations
           /\ w.nextPid \in Pids \ DOMAIN w.rows
           /\ \A s : InState(v.rows, s)
                       = InState(w.rows, s) \cup (IF s = st THEN {w.nextPid} ELSE {})
<1> DEFINE T == Spawned(w.rows, w.nextPid, parent, st)
<1>1. IsWorld(v)
  BY NewRowType DEF ProcState
<1>2. /\ v.rows = T /\ v.nextPid = w.nextPid + 1
      /\ v.jobs = w.jobs /\ v.bgJobs = w.bgJobs /\ v.invocations = w.invocations
  BY DEF NewRow, IsWorld
<1>3. w.nextPid \in Pids /\ w.nextPid \in Nat /\ w.nextPid \notin DOMAIN w.rows
  BY DEF IsWorld, Pids
<1>4. st # "Z"
  BY DEF LiveStates
<1>5. Capped(T) /\ Follows(w.rows, T)
  BY <1>3, <1>4, SpawnedCapped, SpawnedFollows
<1>6. \A s : InState(T, s) = InState(w.rows, s) \cup (IF s = st THEN {w.nextPid} ELSE {})
  BY <1>3, SpawnedStates
<1>7. \A p \in DOMAIN T \ DOMAIN w.rows : w.nextPid =< p
  BY <1>3 DEF Spawned
<1> HIDE DEF T
<1>8. Kept(w, v)
  BY <1>2, <1>3, <1>5, <1>7 DEF Kept
<1> QED
  BY <1>1, <1>2, <1>3, <1>5, <1>6, <1>8

(* The row of a line.                                                      *)
LEMMA RunRow ==
    ASSUME NEW w, NEW wait, Balanced(w, {}, wait)
    PROVE  Steady(w, NewRow(w, RootPid, "R"), {w.nextPid}, wait)
<1> DEFINE v == NewRow(w, RootPid, "R")
<1>1. RootPid \in Nat /\ "R" \in LiveStates /\ IsWorld(w) /\ Capped(w.rows)
  BY DEF RootPid, LiveStates, Balanced, Accounted
<1>0. v = NewRow(w, RootPid, "R")
  OBVIOUS
<1> HIDE DEF v
<1>2. /\ IsWorld(v) /\ Kept(w, v) /\ Capped(v.rows)
      /\ v.jobs = w.jobs /\ v.bgJobs = w.bgJobs /\ v.invocations = w.invocations
      /\ \A s : InState(v.rows, s)
                  = InState(w.rows, s) \cup (IF s = "R" THEN {w.nextPid} ELSE {})
  BY <1>0, <1>1, NewRowSteps
<1>3. /\ InState(v.rows, "R") = {w.nextPid} /\ InState(v.rows, "P") = wait
      /\ InState(v.rows, "S") = InState(w.rows, "S")
  <2>1. /\ InState(v.rows, "R") = InState(w.rows, "R") \cup {w.nextPid}
        /\ InState(v.rows, "P") = InState(w.rows, "P") \cup {}
        /\ InState(v.rows, "S") = InState(w.rows, "S") \cup {}
    BY <1>2
  <2> QED
    BY <2>1 DEF Balanced, Accounted
<1>4. Balanced(v, {w.nextPid}, wait)
  BY <1>2, <1>3 DEF Balanced, Accounted, JobRowsOf
<1> QED
  BY <1>2, <1>4 DEF Steady, v

(* The row of a line that is over.                                         *)
LEMMA CompleteRow ==
    ASSUME NEW w, NEW run, NEW wait, Balanced(w, run, wait), NEW pid,
           pid \notin InState(w.rows, "S")
    PROVE  Steady(w, Complete(w, pid), run \ {pid}, wait \ {pid})
<1> DEFINE v == Complete(w, pid)
           T == Finished(w.rows, pid)
<1>1. IsWorld(w) /\ IsTable(w.rows) /\ Capped(w.rows)
  BY DEF Balanced, Accounted, IsWorld
<1> HIDE DEF T
<1>2. IsWorld(v)
  BY <1>1, CompleteType
<1>3. /\ v.rows = T /\ v.nextPid = w.nextPid
      /\ v.jobs = w.jobs /\ v.bgJobs = w.bgJobs /\ v.invocations = w.invocations
  BY <1>1 DEF Complete, IsWorld, T
<1>4. Capped(T) /\ Follows(w.rows, T) /\ DOMAIN T \subseteq DOMAIN w.rows
  BY <1>1, FinishedCapped, FinishedFollows, FinishedTable DEF T
<1>5. /\ InState(T, "R") = run \ {pid} /\ InState(T, "P") = wait \ {pid}
      /\ InState(T, "S") = InState(w.rows, "S")
  <2>1. \A s : s # "Z" => InState(T, s) = InState(w.rows, s) \ {pid}
    BY <1>1, FinishedStates DEF T
  <2>2. InState(w.rows, "S") \ {pid} = InState(w.rows, "S")
    OBVIOUS
  <2> QED
    BY <2>1, <2>2 DEF Balanced, Accounted
<1>6. w.nextPid \in Nat
  BY <1>1 DEF IsWorld, Pids
<1> HIDE DEF v
<1>7. Kept(w, v)
  BY <1>3, <1>4, <1>6 DEF Kept
<1>8. Balanced(v, run \ {pid}, wait \ {pid})
  BY <1>2, <1>3, <1>4, <1>5 DEF Balanced, Accounted, JobRowsOf
<1> QED
  BY <1>7, <1>8 DEF Steady, v

-----------------------------------------------------------------------------
(* Jobs S and invocations gone leave, and their rows with them.            *)
Left(w, S, gone) ==
    [w EXCEPT !.jobs = Without(w.jobs, S),
              !.bgJobs = Without(w.bgJobs, S),
              !.rows = CompletedAll(w.rows, gone \cup {w.bgJobs[j] : j \in S}),
              !.invocations = w.invocations \ gone]

LEMMA LeftAccounted ==
    ASSUME NEW w, NEW run, NEW wait, Accounted(w, run, wait),
           NEW S \in SUBSET (DOMAIN w.jobs), NEW gone \in SUBSET w.invocations
    PROVE  Kept(w, Left(w, S, gone)) /\ Accounted(Left(w, S, gone), run, wait)
<1> DEFINE v == Left(w, S, gone)
           of == {w.bgJobs[j] : j \in S}
           ps == gone \cup of
           T == CompletedAll(w.rows, ps)
<1>0. v = Left(w, S, gone)
  OBVIOUS
<1> HIDE DEF v
<1>1. IsWorld(w) /\ IsTable(w.rows) /\ Capped(w.rows) /\ w.nextPid \in Nat
  BY DEF Accounted, IsWorld, Pids
<1>2. /\ IsWorld(v) /\ v.rows = T /\ v.nextPid = w.nextPid
      /\ v.jobs = Without(w.jobs, S) /\ v.bgJobs = Without(w.bgJobs, S)
      /\ v.invocations = w.invocations \ gone
  <2>1. T = CompletedAll(w.rows, gone \cup {w.bgJobs[j] : j \in S})
    OBVIOUS
  <2> HIDE DEF T, ps, of
  <2>2. IsWorld(v)
    <3>1. w.invocations \ gone \in SUBSET Pids
      BY <1>1 DEF IsWorld
    <3> QED
      BY <1>0, <1>1, <3>1, LeftType DEF Left
  <2>3. v = [w EXCEPT !.jobs = Without(w.jobs, S), !.bgJobs = Without(w.bgJobs, S),
                      !.rows = T, !.invocations = w.invocations \ gone]
    BY <1>0, <2>1 DEF Left
  <2>4. w \in [rows : {w.rows}, nextPid : Pids, jobs : {w.jobs}, bgJobs : {w.bgJobs},
               invocations : SUBSET Pids]
    BY <1>1 DEF IsWorld
  <2> QED
    BY <2>2, <2>3, <2>4
<1>3. of \subseteq JobRowsOf(w)
  BY DEF Accounted, JobRowsOf
<1>4. ps \subseteq InState(w.rows, "S")
  BY <1>3 DEF Accounted
<1>5. ps \in SUBSET Live(w.rows) /\ ps \cap (run \cup wait) = {}
  BY <1>4 DEF Accounted, Live, InState
<1>6. JobRowsOf(v) = JobRowsOf(w) \ of
  <2>1. DOMAIN v.bgJobs = DOMAIN w.bgJobs \ S
    BY <1>2 DEF Without
  <2>2. \A j \in DOMAIN v.bgJobs : v.bgJobs[j] = w.bgJobs[j]
    BY <1>2 DEF Without
  <2>3. \A i, j \in DOMAIN w.bgJobs : w.bgJobs[i] = w.bgJobs[j] => i = j
    BY DEF Accounted
  <2>4. S \subseteq DOMAIN w.bgJobs
    BY DEF Accounted
  <2> QED
    BY <2>1, <2>2, <2>3, <2>4 DEF JobRowsOf
<1> HIDE DEF ps
<1>7. Capped(T) /\ Follows(w.rows, T) /\ DOMAIN T \subseteq DOMAIN w.rows
  BY <1>1, <1>5, CompletedAllCapped, CompletedAllFollows, CompletedAllTable
<1>8. /\ InState(T, "R") = run /\ InState(T, "P") = wait
      /\ InState(T, "S") = InState(w.rows, "S") \ ps
  <2>1. \A s : s # "Z" => InState(T, s) = InState(w.rows, s) \ ps
    BY <1>1, CompletedAllStates
  <2>2. run \ ps = run /\ wait \ ps = wait
    BY <1>5
  <2> HIDE DEF T
  <2> QED
    BY <2>1, <2>2 DEF Accounted
<1> HIDE DEF T
<1>9. Kept(w, v)
  BY <1>1, <1>2, <1>7 DEF Kept
<1>10. /\ InState(v.rows, "S") = JobRowsOf(v) \cup v.invocations
       /\ JobRowsOf(v) \cap v.invocations = {}
  <2>1. /\ InState(w.rows, "S") = JobRowsOf(w) \cup w.invocations
        /\ JobRowsOf(w) \cap w.invocations = {}
    BY DEF Accounted
  <2> HIDE DEF of
  <2> QED
    BY <1>2, <1>3, <1>6, <1>8, <2>1 DEF ps
<1>11. /\ DOMAIN v.bgJobs = DOMAIN v.jobs
       /\ \A i, j \in DOMAIN v.bgJobs : v.bgJobs[i] = v.bgJobs[j] => i = j
  BY <1>2 DEF Accounted, Without
<1>12. Accounted(v, run, wait)
  BY <1>2, <1>7, <1>8, <1>10, <1>11 DEF Accounted
<1> QED
  BY <1>9, <1>12 DEF v

LEMMA InvocationsFinite ==
    ASSUME NEW w, NEW run, NEW wait, Accounted(w, run, wait)
    PROVE  IsFiniteSet(w.invocations) /\ Cardinality(w.invocations) \in Nat
<1>1. w.invocations \in SUBSET (DOMAIN w.rows) /\ IsFiniteSet(DOMAIN w.rows)
  BY DEF Accounted, InState, IsWorld, IsTable
<1> QED
  BY <1>1, FS_Subset, FS_CardinalityType

LEMMA LeftSteady ==
    ASSUME NEW w, NEW run, NEW wait, Balanced(w, run, wait),
           NEW S \in SUBSET (DOMAIN w.jobs), NEW gone \in SUBSET w.invocations
    PROVE  Steady(w, Left(w, S, gone), run, wait)
<1> DEFINE v == Left(w, S, gone)
<1>1. Accounted(w, run, wait) /\ Cardinality(w.invocations) =< MaxInvocations
  BY DEF Balanced
<1>2. Kept(w, v) /\ Accounted(v, run, wait)
  BY <1>1, LeftAccounted
<1>3. v.invocations \in SUBSET w.invocations
  BY DEF Left, Balanced, Accounted, IsWorld
<1> HIDE DEF v
<1>4. Cardinality(v.invocations) =< MaxInvocations
  <2>1. Cardinality(v.invocations) =< Cardinality(w.invocations)
    BY <1>1, <1>3, InvocationsFinite, FS_Subset
  <2>2. Cardinality(v.invocations) \in Nat /\ Cardinality(w.invocations) \in Nat
    BY <1>1, <1>2, InvocationsFinite
  <2> QED
    BY <1>1, <2>1, <2>2, SessionAssumption
<1> QED
  BY <1>2, <1>4 DEF Steady, Balanced, v

LEMMA ReapedSteady ==
    ASSUME NEW w, NEW run, NEW wait, Balanced(w, run, wait)
    PROVE  Steady(w, Reaped(w), run, wait)
<1> DEFINE S == {j \in DOMAIN w.jobs : w.jobs[j] = "done"}
           ps == {w.bgJobs[j] : j \in S \cap DOMAIN w.bgJobs}
           of == {w.bgJobs[j] : j \in S}
<1>1. S \in SUBSET (DOMAIN w.jobs) /\ {} \in SUBSET w.invocations
  OBVIOUS
<1>2. S \cap DOMAIN w.bgJobs = S
  BY DEF Balanced, Accounted
<1>3. ps = {} \cup of
  BY <1>2
<1>4. Reaped(w) = [w EXCEPT !.jobs = Without(w.jobs, S), !.bgJobs = Without(w.bgJobs, S),
                            !.rows = CompletedAll(w.rows, ps)]
  BY DEF Reaped
<1>5. Left(w, S, {}) = [w EXCEPT !.jobs = Without(w.jobs, S), !.bgJobs = Without(w.bgJobs, S),
                                 !.rows = CompletedAll(w.rows, {} \cup of),
                                 !.invocations = w.invocations \ {}]
  BY DEF Left
<1> HIDE DEF S, ps, of
<1>6. Reaped(w) = Left(w, S, {})
  <2>1. w.invocations \ {} = w.invocations
    OBVIOUS
  <2>2. w \in [rows : {w.rows}, nextPid : Pids, jobs : {w.jobs}, bgJobs : {w.bgJobs},
               invocations : SUBSET Pids]
    BY DEF Balanced, Accounted, IsWorld
  <2>3. Left(w, S, {}) = [w EXCEPT !.jobs = Without(w.jobs, S), !.bgJobs = Without(w.bgJobs, S),
                                   !.rows = CompletedAll(w.rows, ps),
                                   !.invocations = w.invocations]
    BY <1>3, <1>5, <2>1
  <2> QED
    BY <1>4, <2>2, <2>3
<1> QED
  BY <1>1, <1>6, LeftSteady

LEMMA KilledSteady ==
    ASSUME NEW w, NEW run, NEW wait, Balanced(w, run, wait), NEW line
    PROVE  Steady(w, Killed(w, line), run, wait)
<1> DEFINE gone == line.pids \cap w.invocations
           S == {j \in DOMAIN w.bgJobs \cap DOMAIN w.jobs :
                    j \in line.jobs \/ w.bgJobs[j] \in line.pids}
           ps == gone \cup {w.bgJobs[j] : j \in S}
           inv == w.invocations \ gone
<1>1. S \in SUBSET (DOMAIN w.jobs) /\ gone \in SUBSET w.invocations
  OBVIOUS
<1>2. Killed(w, line) = [w EXCEPT !.invocations = inv, !.jobs = Without(w.jobs, S),
                                  !.bgJobs = Without(w.bgJobs, S),
                                  !.rows = CompletedAll(w.rows, ps)]
  BY DEF Killed
<1>3. Left(w, S, gone) = [w EXCEPT !.jobs = Without(w.jobs, S),
                                   !.bgJobs = Without(w.bgJobs, S),
                                   !.rows = CompletedAll(w.rows, ps), !.invocations = inv]
  BY DEF Left
<1> HIDE DEF S, gone, ps, inv
<1>4. Killed(w, line) = Left(w, S, gone)
  BY <1>2, <1>3 DEF Balanced, Accounted, IsWorld
<1> QED
  BY <1>1, <1>4, LeftSteady

(* A sleeping row is a new job's.                                          *)
LEMMA LaunchedSteady ==
    ASSUME NEW w, NEW run, NEW wait, Balanced(w, run, wait), NEW parent \in Nat,
           NEW v \in Launches(w, parent)
    PROVE  Steady(w, v, run, wait)
<1>1. PICK j \in JobIds \ DOMAIN w.jobs, st \in {"running", "done"} :
         v = Launched(w, parent, j, st)
  BY DEF Launches
<1> DEFINE row == NewRow(w, parent, "S")
           js == With(w.jobs, j, st)
           bg == With(w.bgJobs, j, w.nextPid)
           u == [row EXCEPT !.jobs = js, !.bgJobs = bg]
<1>2. /\ IsWorld(row) /\ Kept(w, row) /\ Capped(row.rows)
      /\ row.jobs = w.jobs /\ row.bgJobs = w.bgJobs /\ row.invocations = w.invocations
      /\ w.nextPid \in Pids \ DOMAIN w.rows
      /\ \A s : InState(row.rows, s)
                  = InState(w.rows, s) \cup (IF s = "S" THEN {w.nextPid} ELSE {})
  <2>1. row = NewRow(w, parent, "S") /\ "S" \in LiveStates
    BY DEF LiveStates
  <2>2. IsWorld(w) /\ Capped(w.rows)
    BY DEF Balanced, Accounted
  <2> HIDE DEF row
  <2> QED
    BY <2>1, <2>2, NewRowSteps
<1>3. /\ InState(row.rows, "R") = run /\ InState(row.rows, "P") = wait
      /\ InState(row.rows, "S") = InState(w.rows, "S") \cup {w.nextPid}
  <2>1. /\ InState(row.rows, "R") = InState(w.rows, "R") \cup {}
        /\ InState(row.rows, "P") = InState(w.rows, "P") \cup {}
        /\ InState(row.rows, "S") = InState(w.rows, "S") \cup {w.nextPid}
    BY <1>2
  <2> QED
    BY <2>1 DEF Balanced, Accounted
<1>4. /\ w.jobs \in [DOMAIN w.jobs -> {"running", "done"}] /\ DOMAIN w.jobs \subseteq JobIds
      /\ w.bgJobs \in [DOMAIN w.bgJobs -> Pids] /\ DOMAIN w.bgJobs = DOMAIN w.jobs
  BY DEF Balanced, Accounted, IsWorld
<1>5. /\ js \in [DOMAIN js -> {"running", "done"}]
      /\ DOMAIN js = DOMAIN w.jobs \cup {j} /\ DOMAIN js \subseteq JobIds
  <2> DEFINE R == {"running", "done"}
  <2>0. w.jobs \in [DOMAIN w.jobs -> R] /\ st \in R
    BY <1>1, <1>4
  <2> HIDE DEF R
  <2>1. DOMAIN js = DOMAIN w.jobs \cup {j} /\ js \in [DOMAIN js -> R]
    BY <2>0, WithType DEF js
  <2> QED
    BY <1>4, <2>1 DEF R
<1>6. /\ bg \in [DOMAIN bg -> Pids] /\ DOMAIN bg = DOMAIN w.bgJobs \cup {j}
      /\ bg[j] = w.nextPid /\ \A i \in DOMAIN w.bgJobs : bg[i] = w.bgJobs[i]
  <2>1. w.nextPid \in Pids /\ j \notin DOMAIN w.bgJobs
    BY <1>2, <1>4
  <2>2. bg \in [DOMAIN bg -> Pids] /\ DOMAIN bg = DOMAIN w.bgJobs \cup {j}
    <3>1. w.bgJobs \in [DOMAIN w.bgJobs -> Pids]
      BY <1>4
    <3> QED
      BY <2>1, <3>1, WithType
  <2> QED
    BY <2>1, <2>2 DEF With
<1>7. w.nextPid \notin JobRowsOf(w) \cup w.invocations
  BY <1>2 DEF Balanced, Accounted, InState
<1> HIDE DEF row, js, bg
<1>8. /\ u.rows = row.rows /\ u.nextPid = row.nextPid /\ u.jobs = js /\ u.bgJobs = bg
      /\ u.invocations = w.invocations
      /\ u \in [rows : {row.rows}, nextPid : Pids, jobs : {js}, bgJobs : {bg},
                invocations : SUBSET Pids]
  BY <1>2 DEF IsWorld
<1> HIDE DEF u
<1>9. IsWorld(u) /\ Kept(w, u)
  BY <1>2, <1>5, <1>6, <1>8 DEF IsWorld, Kept
<1>10. JobRowsOf(u) = JobRowsOf(w) \cup {w.nextPid}
  BY <1>6, <1>8 DEF JobRowsOf
<1>11. \A i, k \in DOMAIN bg : bg[i] = bg[k] => i = k
  <2>1. \A i \in DOMAIN w.bgJobs : bg[i] \in JobRowsOf(w)
    BY <1>6 DEF JobRowsOf
  <2>2. \A i \in DOMAIN w.bgJobs : bg[i] # bg[j]
    BY <1>6, <1>7, <2>1
  <2> QED
    BY <1>6, <2>2 DEF Balanced, Accounted
<1>12. Balanced(u, run, wait)
  <2>1. /\ InState(w.rows, "S") = JobRowsOf(w) \cup w.invocations
        /\ JobRowsOf(w) \cap w.invocations = {}
        /\ Cardinality(w.invocations) =< MaxInvocations
    BY DEF Balanced, Accounted
  <2>2. /\ InState(u.rows, "S") = JobRowsOf(u) \cup u.invocations
        /\ JobRowsOf(u) \cap u.invocations = {}
    BY <1>3, <1>7, <1>8, <1>10, <2>1
  <2>3. DOMAIN u.bgJobs = DOMAIN u.jobs
    BY <1>4, <1>5, <1>6, <1>8
  <2> QED
    BY <1>2, <1>3, <1>8, <1>9, <1>11, <2>1, <2>2, <2>3 DEF Balanced, Accounted
<1>13. v = Reaped(u)
  BY <1>1 DEF Launched, row, js, bg, u
<1>14. Steady(u, v, run, wait)
  BY <1>12, <1>13, ReapedSteady
<1>15. IsWorld(w)
  BY DEF Balanced, Accounted
<1> QED
  BY <1>9, <1>14, <1>15, SteadyTwice

(* A sleeping row is a new invocation's; the oldest one makes room.        *)
LEMMA InvokedSteady ==
    ASSUME NEW w, NEW run, NEW wait, Balanced(w, run, wait)
    PROVE  Steady(w, Invoked(w), run, wait)
<1> DEFINE row == NewRow(w, RootPid, "S")
           tracked == w.invocations \cup {w.nextPid}
           oldest == {p \in tracked : \A q \in tracked : p =< q}
           u == [row EXCEPT !.invocations = tracked]
           v == [row EXCEPT !.invocations = tracked \ oldest,
                            !.rows = CompletedAll(row.rows, oldest)]
<1>1. /\ IsWorld(row) /\ Kept(w, row) /\ Capped(row.rows)
      /\ row.jobs = w.jobs /\ row.bgJobs = w.bgJobs /\ row.invocations = w.invocations
      /\ w.nextPid \in Pids \ DOMAIN w.rows
      /\ \A s : InState(row.rows, s)
                  = InState(w.rows, s) \cup (IF s = "S" THEN {w.nextPid} ELSE {})
  <2>1. row = NewRow(w, RootPid, "S") /\ "S" \in LiveStates /\ RootPid \in Nat
    BY DEF LiveStates, RootPid
  <2>2. IsWorld(w) /\ Capped(w.rows)
    BY DEF Balanced, Accounted
  <2> HIDE DEF row
  <2> QED
    BY <2>1, <2>2, NewRowSteps
<1>2. /\ InState(row.rows, "R") = run /\ InState(row.rows, "P") = wait
      /\ InState(row.rows, "S") = InState(w.rows, "S") \cup {w.nextPid}
  <2>1. /\ InState(row.rows, "R") = InState(w.rows, "R") \cup {}
        /\ InState(row.rows, "P") = InState(w.rows, "P") \cup {}
        /\ InState(row.rows, "S") = InState(w.rows, "S") \cup {w.nextPid}
    BY <1>1
  <2> QED
    BY <2>1 DEF Balanced, Accounted
<1>3. /\ w.nextPid \notin JobRowsOf(w) \cup w.invocations
      /\ tracked \in SUBSET Pids
  BY <1>1 DEF Balanced, Accounted, InState, IsWorld
<1>4. Invoked(w) = IF Cardinality(tracked) > MaxInvocations THEN v ELSE u
  BY DEF Invoked
<1> HIDE DEF row, tracked, oldest
<1>5. row \in [rows : {row.rows}, nextPid : Pids, jobs : {row.jobs}, bgJobs : {row.bgJobs},
               invocations : SUBSET Pids]
  BY <1>1 DEF IsWorld
<1>6. /\ u.rows = row.rows /\ u.nextPid = row.nextPid /\ u.jobs = w.jobs
      /\ u.bgJobs = w.bgJobs /\ u.invocations = tracked
      /\ u \in [rows : {row.rows}, nextPid : Pids, jobs : {w.jobs}, bgJobs : {w.bgJobs},
                invocations : SUBSET Pids]
  BY <1>1, <1>3, <1>5
<1>7. v = [u EXCEPT !.rows = CompletedAll(u.rows, oldest), !.invocations = tracked \ oldest]
  BY <1>5
<1> HIDE DEF u, v
<1>8. IsWorld(u) /\ Kept(w, u)
  BY <1>1, <1>6 DEF IsWorld, Kept
<1>9. Accounted(u, run, wait)
  <2>1. /\ InState(w.rows, "S") = JobRowsOf(w) \cup w.invocations
        /\ JobRowsOf(w) \cap w.invocations = {}
    BY DEF Balanced, Accounted
  <2>2. JobRowsOf(u) = JobRowsOf(w)
    BY <1>6 DEF JobRowsOf
  <2>3. /\ InState(u.rows, "S") = JobRowsOf(u) \cup u.invocations
        /\ JobRowsOf(u) \cap u.invocations = {}
    BY <1>2, <1>3, <1>6, <2>1, <2>2 DEF tracked
  <2> QED
    BY <1>1, <1>2, <1>6, <1>8, <2>3 DEF Balanced, Accounted
<1>10. /\ IsFiniteSet(tracked) /\ Cardinality(tracked) = Cardinality(w.invocations) + 1
       /\ Cardinality(w.invocations) \in Nat /\ Cardinality(w.invocations) =< MaxInvocations
       /\ tracked # {}
  <2>1. IsFiniteSet(w.invocations) /\ Cardinality(w.invocations) \in Nat
    BY InvocationsFinite DEF Balanced
  <2> QED
    BY <1>3, <2>1, FS_AddElement DEF Balanced, tracked
<1>11. IsWorld(w)
  BY DEF Balanced, Accounted
<1>12. CASE Cardinality(tracked) =< MaxInvocations
  <2>1. Invoked(w) = u
    BY <1>4, <1>10, <1>12, SessionAssumption
  <2> QED
    BY <1>6, <1>8, <1>9, <1>12, <2>1 DEF Steady, Balanced
<1>13. CASE Cardinality(tracked) > MaxInvocations
  <2>1. Invoked(w) = v
    BY <1>4, <1>13
  <2>2. PICK m \in tracked : \A q \in tracked : m =< q
    <3>1. tracked \in SUBSET Nat
      BY <1>3 DEF Pids
    <3> QED
      BY <1>10, <3>1, LeastNatural
  <2>3. oldest = {m}
    <3>1. \A p \in tracked : p \in Nat
      BY <1>3 DEF Pids
    <3> QED
      BY <2>2, <3>1 DEF oldest
  <2>4. v = Left(u, {}, oldest)
    <3> DEFINE ps == oldest \cup {u.bgJobs[j] : j \in {}}
    <3>1. /\ ps = oldest /\ u.jobs = Without(u.jobs, {}) /\ u.bgJobs = Without(u.bgJobs, {})
      BY <1>8 DEF Without, IsWorld
    <3>2. Left(u, {}, oldest) = [u EXCEPT !.jobs = Without(u.jobs, {}),
              !.bgJobs = Without(u.bgJobs, {}), !.rows = CompletedAll(u.rows, ps),
              !.invocations = u.invocations \ oldest]
      BY DEF Left
    <3> HIDE DEF ps
    <3>3. Left(u, {}, oldest) = [u EXCEPT !.jobs = u.jobs, !.bgJobs = u.bgJobs,
              !.rows = CompletedAll(u.rows, oldest), !.invocations = tracked \ oldest]
      BY <1>6, <3>1, <3>2
    <3> QED
      BY <1>6, <1>7, <3>3
  <2>5. oldest \in SUBSET u.invocations /\ {} \in SUBSET (DOMAIN u.jobs)
    BY <1>6 DEF oldest
  <2>6. Kept(u, v) /\ Accounted(v, run, wait)
    BY <1>9, <2>4, <2>5, LeftAccounted
  <2>7. v.invocations = tracked \ {m}
    BY <1>6, <1>7, <2>3
  <2>8. Cardinality(v.invocations) = Cardinality(tracked) - 1
    BY <1>10, <2>2, <2>7, FS_RemoveElement
  <2>9. Cardinality(v.invocations) =< MaxInvocations
    BY <1>10, <2>8, SessionAssumption
  <2>10. Steady(u, v, run, wait)
    BY <2>6, <2>9 DEF Steady, Balanced
  <2> QED
    BY <1>8, <1>11, <2>1, <2>10, SteadyTwice
<1> QED
  BY <1>10, <1>12, <1>13, SessionAssumption

LEMMA TooledSteady ==
    ASSUME NEW w, NEW run, NEW wait, Balanced(w, run, wait), NEW v \in Tooled(w)
    PROVE  Steady(w, v, run, wait)
<1>1. RootPid \in Nat /\ Steady(w, w, run, wait)
  BY KeptSame DEF RootPid, Steady, Balanced, Accounted
<1> QED
  BY <1>1, ReapedSteady, InvokedSteady, LaunchedSteady DEF Tooled

LEMMA OutcomesSteady ==
    ASSUME NEW w, NEW run, NEW wait, Balanced(w, run, wait),
           NEW line, line.body \in GatedBodies \cup {"blank"},
           NEW pid \in Nat, NEW v \in Outcomes(w, line, pid)
    PROVE  Steady(w, v, run, wait)
<1> DEFINE parent == IF pid = NoPid THEN RootPid ELSE pid
<1>1. line.body \in {"blank", "plain", "job", "direct", "kill", "invoke", "ask", "pipe"}
  BY DEF GatedBodies, Bodies
<1>2. /\ line.body \in {"plain", "blank"} => Outcomes(w, line, pid) = {Reaped(w)}
      /\ line.body = "job" => Outcomes(w, line, pid) = Launches(w, parent)
      /\ line.body = "direct" => Outcomes(w, line, pid) = {w}
      /\ line.body = "kill" => Outcomes(w, line, pid) = {Killed(w, line)}
      /\ line.body = "invoke" => Outcomes(w, line, pid) = {w, Invoked(w)}
      /\ line.body \in {"ask", "pipe"} => Outcomes(w, line, pid) = Tooled(w)
  BY DEF Outcomes, Loops
<1>3. parent \in Nat
  BY DEF RootPid
<1>4. Steady(w, w, run, wait)
  BY KeptSame DEF Steady, Balanced, Accounted
<1> HIDE DEF parent
<1> QED
  BY <1>1, <1>2, <1>3, <1>4, ReapedSteady, LaunchedSteady, KilledSteady, InvokedSteady,
     TooledSteady

-----------------------------------------------------------------------------
(* The row that waits with a question.                                     *)
Waiters(question) == IF question = NoPending THEN {} ELSE {question.pid} \ {NoPid}

RowsInv == Balanced(World, {}, Waiters(pending))

(* What a call must show.                                                  *)
RowsStep == Steady(World, World', {}, Waiters(pending'))

LEMMA WorldSet == ASSUME NEW w, IsWorld(w), SetWorld(w) PROVE World' = w
BY DEF SetWorld, World, IsWorld

LEMMA NotAsleep ==
    ASSUME NEW w, NEW wait, NEW pid, Balanced(w, {pid} \ {NoPid}, wait)
    PROVE  pid \notin InState(w.rows, "S")
<1>1. CASE pid = NoPid
  BY <1>1 DEF Balanced, Accounted, InState, IsWorld, IsTable, Pids
<1>2. CASE pid # NoPid
  BY <1>2 DEF Balanced, Accounted, InState
<1> QED
  BY <1>1, <1>2

LEMMA CompleteSteady ==
    ASSUME NEW u, NEW w, NEW pid, IsWorld(u), Steady(u, w, {pid} \ {NoPid}, {})
    PROVE  Steady(u, Complete(w, pid), {}, {})
<1>1. Balanced(w, {pid} \ {NoPid}, {}) /\ Kept(u, w) /\ IsWorld(w)
  BY DEF Steady, Balanced, Accounted
<1>2. Steady(w, Complete(w, pid), ({pid} \ {NoPid}) \ {pid}, {} \ {pid})
  BY <1>1, NotAsleep, CompleteRow
<1>3. ({pid} \ {NoPid}) \ {pid} = {} /\ {} \ {pid} = {}
  OBVIOUS
<1>4. Steady(w, Complete(w, pid), {}, {})
  BY <1>2, <1>3
<1> QED
  BY <1>1, <1>4, SteadyTwice

LEMMA RunSteady ==
    ASSUME NEW u, NEW w, NEW n, NEW pid \in Nat, NEW line, NEW upstream, NEW named,
           NEW blanket, NEW rerun, NEW next, line.body \in GatedBodies \cup {"blank"},
           IsWorld(u), Steady(u, w, {pid} \ {NoPid}, {}),
           RunCommand(w, n, pid, line, upstream, named, blanket, rerun, next)
    PROVE  Steady(u, World', {}, {})
<1>1. PICK o \in Outcomes(w, line, pid) : SetWorld(Complete(o, pid))
  BY DEF RunCommand
<1>2. Balanced(w, {pid} \ {NoPid}, {}) /\ Kept(u, w) /\ IsWorld(w)
  BY DEF Steady, Balanced, Accounted
<1>3. Steady(w, o, {pid} \ {NoPid}, {})
  BY <1>1, <1>2, OutcomesSteady
<1>4. Steady(u, o, {pid} \ {NoPid}, {})
  BY <1>2, <1>3, SteadyTwice
<1>5. Steady(u, Complete(o, pid), {}, {})
  BY <1>4, CompleteSteady
<1>6. World' = Complete(o, pid)
  BY <1>1, <1>5, WorldSet DEF Steady, Balanced, Accounted
<1> QED
  BY <1>5, <1>6

(* What the calls leave waiting.                                           *)
LEMMA WaitersOf ==
    ASSUME NEW kind, NEW n, NEW pid, NEW choices, NEW line, NEW sudoGrant, NEW stdin, NEW named
    PROVE  Waiters(Question(kind, n, pid, choices, line, sudoGrant, stdin, named))
             = {pid} \ {NoPid}
<1> DEFINE q == Question(kind, n, pid, choices, line, sudoGrant, stdin, named)
<1>1. q # NoPending
  <2>1. DOMAIN NoPending = {"kind"} /\ "number" \in DOMAIN q
    BY DEF NoPending, Question
  <2> QED
    BY <2>1
<1>2. q.pid = pid
  BY DEF Question
<1> HIDE DEF q
<1> QED
  BY <1>1, <1>2 DEF Waiters, q

LEMMA StopsWaiters ==
    ASSUME NEW n, NEW pid, NEW line
    PROVE  /\ AwaitNothing => Waiters(pending') = {}
           /\ LoopEnds(n, line) => Waiters(pending') = {}
           /\ LoopAsks(n, pid, line) => Waiters(pending') = {pid} \ {NoPid}
           /\ Stops(n, line) => Waiters(pending') = {}
<1>1. AwaitNothing => Waiters(pending') = {}
  BY DEF AwaitNothing, Waiters
<1>2. \A p, c : Waiters(Question("plugin", n, p, c, line, FALSE, NoLine, {})) = {p} \ {NoPid}
  <2> DEFINE no == FALSE
             none == {}
  <2> HIDE DEF no, none
  <2>1. \A p, c : Waiters(Question("plugin", n, p, c, line, no, NoLine, none)) = {p} \ {NoPid}
    BY WaitersOf
  <2> QED
    BY <2>1 DEF no, none
<1>3. LoopEnds(n, line) => Waiters(pending') = {}
  BY <1>1, <1>2 DEF LoopEnds
<1>4. ASSUME NEW p, LoopAsks(n, p, line) PROVE Waiters(pending') = {p} \ {NoPid}
  <2>1. PICK c \in {ConfirmChoices(TRUE), ConfirmChoices(FALSE), Answers} :
          Await(Question("plugin", n, p, c, line, FALSE, NoLine, {}))
    BY <1>4 DEF LoopAsks
  <2>2. pending' = Question("plugin", n, p, c, line, FALSE, NoLine, {})
    BY <2>1 DEF Await
  <2> QED
    BY <1>2, <2>2
<1>5. Stops(n, line) => Waiters(pending') = {}
  BY <1>1, <1>3, <1>4 DEF Stops
<1> QED
  BY <1>1, <1>3, <1>4, <1>5

LEMMA LineSteady ==
    ASSUME RowsInv, pending = NoPending
    PROVE  /\ IsWorld(World) /\ Steady(World, Reaped(World), {}, {})
           /\ LinePid \in Nat \ {NoPid}
           /\ Steady(World, LineWorld, {LinePid}, {})
<1>1. Balanced(World, {}, {}) /\ IsWorld(World)
  BY DEF RowsInv, Waiters, Balanced, Accounted
<1>2. Steady(World, Reaped(World), {}, {})
  BY <1>1, ReapedSteady
<1>3. Reaped(World).nextPid = nextPid /\ nextPid \in Nat \ {NoPid}
  BY <1>1 DEF Reaped, World, IsWorld, Pids
<1>4. Balanced(Reaped(World), {}, {}) /\ Kept(World, Reaped(World)) /\ IsWorld(Reaped(World))
  BY <1>2 DEF Steady, Balanced, Accounted
<1>5. Steady(Reaped(World), LineWorld, {nextPid}, {})
  BY <1>3, <1>4, RunRow DEF LineWorld
<1>6. Steady(World, LineWorld, {nextPid}, {})
  BY <1>1, <1>4, <1>5, SteadyTwice
<1> QED
  BY <1>1, <1>2, <1>3, <1>6 DEF LinePid

-----------------------------------------------------------------------------
(* A question's row runs again while its answer is worked on.              *)
LEMMA ResumptionFields ==
    ASSUME RowsInv, pending # NoPending
    PROVE  /\ Balanced(Resumption, {pending.pid} \ {NoPid}, {})
           /\ IsWorld(World) /\ Resumption.nextPid = nextPid
           /\ DOMAIN Resumption.rows = DOMAIN rows
           /\ \A p \in DOMAIN rows : /\ Resumption.rows[p].ppid = rows[p].ppid
                                     /\ p # pending.pid => Resumption.rows[p] = rows[p]
                                     /\ p = pending.pid => rows[p].state = "P"
<1> DEFINE pid == pending.pid
           T == Moved(rows, pid, "P", "R")
<1>1. IsWorld(World) /\ IsTable(rows) /\ Capped(rows)
  BY DEF RowsInv, Balanced, Accounted, IsWorld, World
<1>2. InState(rows, "P") = {pid} \ {NoPid} /\ InState(rows, "R") = {}
  BY DEF RowsInv, Balanced, Accounted, World, Waiters
<1>3. NoPid \notin DOMAIN rows
  BY <1>1 DEF IsTable, Pids
<1>4. IsTable(T) /\ DOMAIN T = DOMAIN rows
  BY <1>1, MovedTable DEF ProcState, LiveStates
<1>5. Capped(T)
  BY <1>1, MovedCapped DEF LiveStates
<1>6. /\ InState(T, "R") = {pid} \ {NoPid} /\ InState(T, "P") = {}
      /\ InState(T, "S") = InState(rows, "S")
  <2>1. CASE pid = NoPid
    <3>1. T = rows
      BY <1>3, <2>1 DEF Moved, InState
    <3> QED
      BY <1>2, <2>1, <3>1
  <2>2. CASE pid # NoPid
    <3>1. pid \in InState(rows, "P")
      BY <1>2, <2>2
    <3>2. /\ InState(T, "R") = (InState(rows, "R") \ {pid}) \cup {pid}
          /\ InState(T, "P") = (InState(rows, "P") \ {pid}) \cup {}
          /\ InState(T, "S") = (InState(rows, "S") \ {pid}) \cup {}
      BY <1>1, <3>1, MovedStates
    <3>3. pid \notin InState(rows, "S")
      BY <3>1 DEF InState
    <3> HIDE DEF pid, T
    <3> QED
      BY <1>2, <2>2, <3>2, <3>3
  <2> QED
    BY <2>1, <2>2
<1>7. \A p \in DOMAIN rows : T[p].ppid = rows[p].ppid /\ (p # pid => T[p] = rows[p])
  <2>1. \A p \in DOMAIN rows : rows[p] \in Row
    BY <1>1 DEF IsTable
  <2> QED
    BY <2>1 DEF Moved, Row
<1>8. \A p \in DOMAIN rows : p = pid => rows[p].state = "P"
  BY <1>2, <1>3 DEF InState
<1> HIDE DEF T, pid
<1>9. Resumption = [World EXCEPT !.rows = T]
  BY DEF Resumption, Resumed, T, pid
<1>10. /\ Resumption.rows = T /\ Resumption.nextPid = nextPid /\ Resumption.jobs = jobs
       /\ Resumption.bgJobs = bgJobs /\ Resumption.invocations = invocations
  BY <1>9 DEF World
<1>11. IsWorld(Resumption)
  BY <1>1, ResumptionType, WorldType
<1>12. Balanced(Resumption, {pid} \ {NoPid}, {})
  <2>1. /\ InState(rows, "S") = JobRowsOf(World) \cup invocations
        /\ JobRowsOf(World) \cap invocations = {}
        /\ \A i, j \in DOMAIN bgJobs : bgJobs[i] = bgJobs[j] => i = j
        /\ DOMAIN bgJobs = DOMAIN jobs
        /\ Cardinality(invocations) =< MaxInvocations
    BY DEF RowsInv, Balanced, Accounted, World
  <2>2. JobRowsOf(World) = JobRowsOf(Resumption)
    BY <1>10 DEF JobRowsOf, World
  <2> QED
    BY <1>5, <1>6, <1>10, <1>11, <2>1, <2>2 DEF Balanced, Accounted
<1> QED
  BY <1>1, <1>4, <1>7, <1>8, <1>10, <1>12 DEF pid

(* A call that leaves no row running has done more with the question's row *)
(* than run it again.                                                      *)
LEMMA ResumedSteady ==
    ASSUME RowsInv, pending # NoPending, NEW v, Steady(Resumption, v, {}, {})
    PROVE  Steady(World, v, {}, {})
<1>1. /\ IsWorld(World) /\ Resumption.nextPid = nextPid
      /\ DOMAIN Resumption.rows = DOMAIN rows
      /\ \A p \in DOMAIN rows : /\ Resumption.rows[p].ppid = rows[p].ppid
                                /\ p # pending.pid => Resumption.rows[p] = rows[p]
      /\ Balanced(Resumption, {pending.pid} \ {NoPid}, {})
  BY ResumptionFields
<1>2. Balanced(v, {}, {}) /\ Kept(Resumption, v)
  BY DEF Steady
<1>3. ASSUME NEW p \in DOMAIN rows \cap DOMAIN v.rows
      PROVE  v.rows[p].ppid = rows[p].ppid /\ v.rows[p].state \in {rows[p].state, "Z"}
  <2>1. /\ v.rows[p].ppid = Resumption.rows[p].ppid
        /\ v.rows[p].state \in {Resumption.rows[p].state, "Z"}
    BY <1>1, <1>2 DEF Kept, Follows
  <2>2. CASE p # pending.pid
    BY <1>1, <2>1, <2>2
  <2>3. CASE p = pending.pid
    <3>1. p # NoPid
      BY <1>1 DEF IsWorld, IsTable, World, Pids
    <3>2. p \in InState(Resumption.rows, "R")
      BY <1>1, <2>3, <3>1 DEF Balanced, Accounted
    <3>3. Resumption.rows[p].state = "R"
      BY <3>2 DEF InState
    <3>4. v.rows[p].state # "R"
      BY <1>2 DEF Balanced, Accounted, InState
    <3> QED
      BY <1>1, <2>1, <3>3, <3>4
  <2> QED
    BY <2>2, <2>3
<1>4. Kept(World, v)
  BY <1>1, <1>2, <1>3 DEF Kept, Follows, World
<1> QED
  BY <1>2, <1>4 DEF Steady

(* Table U is T but for the state of row pid, which waits.                 *)
WaitsIn(T, U, pid) ==
    /\ DOMAIN U = DOMAIN T
    /\ \A p \in DOMAIN T : /\ U[p].ppid = T[p].ppid
                           /\ p # pid => U[p] = T[p]
                           /\ p = pid => U[p].state = "P"

(* A loop that asks again puts its row back to waiting.                    *)
Repaused(w, pid) == [w EXCEPT !.rows = Paused(w.rows, pid)]

LEMMA PausedSteady ==
    ASSUME NEW w, NEW pid, Balanced(w, {pid} \ {NoPid}, {}), NEW v, v = Repaused(w, pid)
    PROVE  /\ Balanced(v, {}, {pid} \ {NoPid}) /\ v.nextPid = w.nextPid
           /\ WaitsIn(w.rows, v.rows, pid)
<1> DEFINE T == Moved(w.rows, pid, "R", "P")
<1>1. IsWorld(w) /\ IsTable(w.rows) /\ Capped(w.rows) /\ NoPid \notin DOMAIN w.rows
  BY DEF Balanced, Accounted, IsWorld, IsTable, Pids
<1>2. InState(w.rows, "R") = {pid} \ {NoPid} /\ InState(w.rows, "P") = {}
  BY DEF Balanced, Accounted
<1>3. Capped(T) /\ DOMAIN T = DOMAIN w.rows
  BY <1>1, MovedCapped, MovedTable DEF LiveStates, ProcState
<1>4. /\ InState(T, "P") = {pid} \ {NoPid} /\ InState(T, "R") = {}
      /\ InState(T, "S") = InState(w.rows, "S")
  <2>1. CASE pid = NoPid
    <3>1. T = w.rows
      BY <1>1, <2>1 DEF Moved, InState
    <3> QED
      BY <1>2, <2>1, <3>1
  <2>2. CASE pid # NoPid
    <3>1. pid \in InState(w.rows, "R")
      BY <1>2, <2>2
    <3>2. /\ InState(T, "P") = (InState(w.rows, "P") \ {pid}) \cup {pid}
          /\ InState(T, "R") = (InState(w.rows, "R") \ {pid}) \cup {}
          /\ InState(T, "S") = (InState(w.rows, "S") \ {pid}) \cup {}
      BY <1>1, <3>1, MovedStates
    <3>3. pid \notin InState(w.rows, "S")
      BY <3>1 DEF InState
    <3> HIDE DEF T
    <3> QED
      BY <1>2, <2>2, <3>2, <3>3
  <2> QED
    BY <2>1, <2>2
<1>5. \A p \in DOMAIN w.rows : T[p].ppid = w.rows[p].ppid /\ (p # pid => T[p] = w.rows[p])
  <2>1. \A p \in DOMAIN w.rows : w.rows[p] \in Row
    BY <1>1 DEF IsTable
  <2> QED
    BY <2>1 DEF Moved, Row
<1> HIDE DEF T
<1>6. \A p \in DOMAIN w.rows : p = pid => T[p].state = "P"
  BY <1>1, <1>4 DEF InState
<1>7. v = [w EXCEPT !.rows = T]
  BY DEF Repaused, Paused, T
<1>8. /\ v.rows = T /\ v.nextPid = w.nextPid /\ v.jobs = w.jobs
      /\ v.bgJobs = w.bgJobs /\ v.invocations = w.invocations
  BY <1>1, <1>7 DEF IsWorld
<1>9. IsWorld(v)
  BY <1>1, PausedType DEF Repaused
<1>10. Balanced(v, {}, {pid} \ {NoPid})
  BY <1>3, <1>4, <1>8, <1>9 DEF Balanced, Accounted, JobRowsOf
<1> QED
  BY <1>3, <1>5, <1>6, <1>8, <1>10 DEF WaitsIn

LEMMA AskedAgainSteady ==
    ASSUME RowsInv, pending # NoPending, NEW o, NEW v,
           Steady(Resumption, o, {pending.pid} \ {NoPid}, {}),
           v = [o EXCEPT !.rows = Paused(o.rows, pending.pid)]
    PROVE  Steady(World, v, {}, {pending.pid} \ {NoPid})
<1> DEFINE pid == pending.pid
<1>1. /\ IsWorld(World) /\ Resumption.nextPid = nextPid
      /\ DOMAIN Resumption.rows = DOMAIN rows
      /\ \A p \in DOMAIN rows : /\ Resumption.rows[p].ppid = rows[p].ppid
                                /\ p # pid => Resumption.rows[p] = rows[p]
                                /\ p = pid => rows[p].state = "P"
  BY ResumptionFields
<1>2. Balanced(o, {pid} \ {NoPid}, {}) /\ Kept(Resumption, o)
  BY DEF Steady
<1>0. v = Repaused(o, pid)
  BY DEF Repaused
<1> HIDE DEF pid
<1>3. /\ Balanced(v, {}, {pid} \ {NoPid}) /\ v.nextPid = o.nextPid
      /\ WaitsIn(o.rows, v.rows, pid)
  BY <1>0, <1>2, PausedSteady
<1>4. ASSUME NEW p \in DOMAIN rows \cap DOMAIN v.rows
      PROVE  v.rows[p].ppid = rows[p].ppid /\ v.rows[p].state \in {rows[p].state, "Z"}
  <2>1. /\ o.rows[p].ppid = Resumption.rows[p].ppid
        /\ o.rows[p].state \in {Resumption.rows[p].state, "Z"}
    BY <1>1, <1>2, <1>3 DEF Kept, Follows, WaitsIn
  <2>2. CASE p # pid
    BY <1>1, <1>3, <2>1, <2>2 DEF WaitsIn
  <2>3. CASE p = pid
    BY <1>1, <1>3, <2>1, <2>3 DEF WaitsIn
  <2> QED
    BY <2>2, <2>3
<1>5. Kept(World, v)
  BY <1>1, <1>2, <1>3, <1>4 DEF Kept, Follows, World, WaitsIn
<1> QED
  BY <1>3, <1>5 DEF Steady, pid

-----------------------------------------------------------------------------
(* One lemma per action.                                                   *)
LEMMA EvalBlankRows ==
    ASSUME RowsInv, NEW line \in Lines, EvalBlank(line) PROVE RowsStep
<1>1. pending = NoPending /\ line.body = "blank" /\ AwaitNothing
  BY DEF EvalBlank
<1>2. PICK o \in Outcomes(Reaped(World), line, NoPid) : SetWorld(o)
  BY DEF EvalBlank
<1>3. IsWorld(World) /\ Steady(World, Reaped(World), {}, {})
  BY <1>1, LineSteady
<1>4. Balanced(Reaped(World), {}, {}) /\ Kept(World, Reaped(World)) /\ IsWorld(Reaped(World))
  BY <1>3 DEF Steady, Balanced, Accounted
<1>5. Steady(Reaped(World), o, {}, {})
  BY <1>1, <1>2, <1>4, OutcomesSteady DEF NoPid
<1>6. Steady(World, o, {}, {})
  BY <1>3, <1>4, <1>5, SteadyTwice
<1>7. World' = o
  BY <1>2, <1>6, WorldSet DEF Steady, Balanced, Accounted
<1>8. Waiters(pending') = {}
  BY <1>1, StopsWaiters
<1> QED
  BY <1>6, <1>7, <1>8 DEF RowsStep

LEMMA EvalInterceptedRows ==
    ASSUME RowsInv, NEW line \in Lines, EvalIntercepted(line) PROVE RowsStep
<1>1. pending = NoPending /\ AwaitNothing /\ SetWorld(Complete(LineWorld, LinePid))
  BY DEF EvalIntercepted, Ready
<1>2. /\ IsWorld(World) /\ LinePid \in Nat \ {NoPid}
      /\ Steady(World, LineWorld, {LinePid}, {})
  BY <1>1, LineSteady
<1>3. {LinePid} \ {NoPid} = {LinePid}
  BY <1>2
<1>4. Steady(World, Complete(LineWorld, LinePid), {}, {})
  BY <1>2, <1>3, CompleteSteady
<1>5. World' = Complete(LineWorld, LinePid)
  BY <1>1, <1>4, WorldSet DEF Steady, Balanced, Accounted
<1>6. Waiters(pending') = {}
  BY <1>1, StopsWaiters
<1> QED
  BY <1>4, <1>5, <1>6 DEF RowsStep

LEMMA SurfaceRows ==
    ASSUME RowsInv, pending = NoPending, NEW kind, NEW line, NEW choices, NEW sudoGrant,
           NEW stdin, NEW named, Surface(kind, line, choices, sudoGrant, stdin, named)
    PROVE  RowsStep
<1> DEFINE v == [LineWorld EXCEPT !.rows = Paused(LineWorld.rows, LinePid)]
           pid == LinePid
<1>1. IsWorld(World) /\ pid \in Nat \ {NoPid} /\ Steady(World, LineWorld, {pid}, {})
  BY LineSteady
<1>2. v = Repaused(LineWorld, pid)
  BY DEF Repaused
<1>3. SetWorld(v)
  BY DEF Surface
<1>4. pending' = Question(kind, Typed + 1, pid, choices, line, sudoGrant, stdin, named)
  BY DEF Surface, Await
<1>5. Waiters(pending') = {pid} \ {NoPid}
  BY <1>4, WaitersOf
<1>6. World.rows = rows /\ World.nextPid = nextPid /\ pid = nextPid
  BY DEF World, LinePid
<1> HIDE DEF v, pid
<1>7. {pid} \ {NoPid} = {pid}
  BY <1>1
<1>8. /\ Balanced(LineWorld, {pid} \ {NoPid}, {}) /\ Kept(World, LineWorld)
      /\ IsWorld(LineWorld)
  BY <1>1, <1>7 DEF Steady, Balanced, Accounted
<1>9. /\ Balanced(v, {}, {pid} \ {NoPid}) /\ v.nextPid = LineWorld.nextPid
      /\ WaitsIn(LineWorld.rows, v.rows, pid)
  BY <1>2, <1>8, PausedSteady
<1>10. \A p \in DOMAIN rows : p # pid
  BY <1>1, <1>6 DEF IsWorld, IsTable, Pids
<1>11. Kept(World, v)
  BY <1>6, <1>8, <1>9, <1>10 DEF Kept, Follows, WaitsIn
<1>12. World' = v
  BY <1>3, <1>9, WorldSet DEF Balanced, Accounted
<1> QED
  BY <1>5, <1>9, <1>11, <1>12 DEF RowsStep, Steady

LEMMA EvalQuestionRows ==
    ASSUME RowsInv, NEW line \in Lines, EvalQuestion(line) PROVE RowsStep
BY SurfaceRows DEF EvalQuestion, Ready

LEMMA EvalConfirmRows ==
    ASSUME RowsInv, NEW line \in Lines, EvalConfirm(line) PROVE RowsStep
BY SurfaceRows DEF EvalConfirm, Ready

LEMMA EvalAllowedRows ==
    ASSUME RowsInv, NEW line \in Lines, EvalAllowed(line) PROVE RowsStep
<1>1. pending = NoPending /\ line.body \in GatedBodies /\ Stops(Typed + 1, line)
  BY DEF EvalAllowed, Ready
<1>2. \E blanket, next : RunCommand(LineWorld, Typed + 1, LinePid, line, line.upstream,
                                    {}, blanket, rerunStdin, next)
  BY DEF EvalAllowed
<1>3. /\ IsWorld(World) /\ LinePid \in Nat \ {NoPid}
      /\ Steady(World, LineWorld, {LinePid}, {})
  BY <1>1, LineSteady
<1>4. {LinePid} \ {NoPid} = {LinePid}
  BY <1>3
<1>5. Steady(World, World', {}, {})
  BY <1>1, <1>2, <1>3, <1>4, RunSteady
<1>6. Waiters(pending') = {}
  BY <1>1, StopsWaiters
<1> QED
  BY <1>5, <1>6 DEF RowsStep

(* Nothing moves.                                                          *)
LEMMA StillRows ==
    ASSUME RowsInv, UNCHANGED <<table, pending>> PROVE RowsStep
<1>1. World' = World /\ pending' = pending
  BY DEF World, table
<1>2. Kept(World, World)
  BY KeptSame DEF RowsInv, Balanced, Accounted
<1> QED
  BY <1>1, <1>2 DEF RowsStep, RowsInv, Steady

LEMMA DropLineRows ==
    ASSUME RowsInv, pending # NoPending, DropLine PROVE RowsStep
<1>1. SetWorld(Complete(Resumption, pending.pid)) /\ AwaitNothing
  BY DEF DropLine
<1>2. Balanced(Resumption, {pending.pid} \ {NoPid}, {}) /\ IsWorld(Resumption)
  BY ResumptionFields DEF Balanced, Accounted
<1>3. Steady(Resumption, Resumption, {pending.pid} \ {NoPid}, {})
  BY <1>2, KeptSame DEF Steady
<1>4. Steady(Resumption, Complete(Resumption, pending.pid), {}, {})
  BY <1>2, <1>3, CompleteSteady
<1>5. Steady(World, Complete(Resumption, pending.pid), {}, {})
  BY <1>4, ResumedSteady
<1>6. World' = Complete(Resumption, pending.pid)
  BY <1>1, <1>5, WorldSet DEF Steady, Balanced, Accounted
<1>7. Waiters(pending') = {}
  BY <1>1, StopsWaiters
<1> QED
  BY <1>5, <1>6, <1>7 DEF RowsStep

LEMMA AnswerApprovedRows ==
    ASSUME RowsInv, Inv, NEW answer \in Answers, AnswerApproved(answer) PROVE RowsStep
<1> DEFINE line == pending.line
<1>1. pending # NoPending /\ pending.kind = "auth" /\ Stops(pending.n, line)
  BY DEF AnswerApproved, Given
<1>2. RunCommand(Resumption, pending.n, pending.pid, line, <<>>, pending.named,
                 allowAll', pending.stdin, nextAskStdin)
  BY DEF AnswerApproved
<1>3. line.body \in GatedBodies /\ pending.pid \in Nat
  BY <1>1, OpenQuestion DEF Inv, QuestionCovers
<1>4. Balanced(Resumption, {pending.pid} \ {NoPid}, {}) /\ IsWorld(Resumption)
  BY <1>1, ResumptionFields DEF Balanced, Accounted
<1>5. Steady(Resumption, Resumption, {pending.pid} \ {NoPid}, {})
  BY <1>4, KeptSame DEF Steady
<1> HIDE DEF line
<1>6. Steady(Resumption, World', {}, {})
  BY <1>2, <1>3, <1>4, <1>5, RunSteady
<1>7. Steady(World, World', {}, {})
  BY <1>1, <1>6, ResumedSteady
<1>8. Waiters(pending') = {}
  BY <1>1, StopsWaiters
<1> QED
  BY <1>7, <1>8 DEF RowsStep

LEMMA AnswerLoopRows ==
    ASSUME RowsInv, NEW answer \in Answers, AnswerLoop(answer) PROVE RowsStep
<1> DEFINE pid == pending.pid
<1>1. pending # NoPending
  BY DEF AnswerLoop, Given
<1>2. PICK o \in Tooled(Resumption) :
         \/ LoopEnds(pending.n, pending.line) /\ SetWorld(Complete(o, pid))
         \/ /\ LoopAsks(pending.n, pid, pending.line)
            /\ SetWorld([o EXCEPT !.rows = Paused(o.rows, pid)])
  BY DEF AnswerLoop
<1>3. Balanced(Resumption, {pid} \ {NoPid}, {}) /\ IsWorld(Resumption)
  BY <1>1, ResumptionFields DEF Balanced, Accounted
<1>4. Steady(Resumption, o, {pid} \ {NoPid}, {})
  BY <1>2, <1>3, TooledSteady
<1>5. CASE LoopEnds(pending.n, pending.line) /\ SetWorld(Complete(o, pid))
  <2>1. Steady(Resumption, Complete(o, pid), {}, {})
    BY <1>3, <1>4, CompleteSteady
  <2>2. Steady(World, Complete(o, pid), {}, {})
    BY <1>1, <2>1, ResumedSteady
  <2>3. World' = Complete(o, pid)
    BY <1>5, <2>2, WorldSet DEF Steady, Balanced, Accounted
  <2>4. Waiters(pending') = {}
    BY <1>5, StopsWaiters
  <2> QED
    BY <2>2, <2>3, <2>4 DEF RowsStep
<1>6. CASE /\ LoopAsks(pending.n, pid, pending.line)
           /\ SetWorld([o EXCEPT !.rows = Paused(o.rows, pid)])
  <2> DEFINE v == [o EXCEPT !.rows = Paused(o.rows, pid)]
  <2>1. Steady(World, v, {}, {pid} \ {NoPid})
    BY <1>1, <1>4, AskedAgainSteady
  <2>2. World' = v
    BY <1>6, <2>1, WorldSet DEF Steady, Balanced, Accounted
  <2>3. Waiters(pending') = {pid} \ {NoPid}
    BY <1>6, StopsWaiters
  <2> QED
    BY <2>1, <2>2, <2>3 DEF RowsStep
<1> QED
  BY <1>2, <1>5, <1>6

LEMMA JobEndsRows ==
    ASSUME RowsInv, NEW j \in JobIds, JobEnds(j) PROVE RowsStep
<1>1. /\ jobs' = [jobs EXCEPT ![j] = "done"] /\ pending' = pending
      /\ UNCHANGED <<rows, nextPid, bgJobs, invocations>>
  BY DEF JobEnds
<1>2. IsWorld(World)
  BY DEF RowsInv, Balanced, Accounted
<1>3. jobs' \in [DOMAIN jobs' -> {"running", "done"}] /\ DOMAIN jobs' = DOMAIN jobs
  BY <1>1, <1>2 DEF IsWorld, World
<1>4. /\ World'.rows = rows /\ World'.nextPid = nextPid /\ World'.jobs = jobs'
      /\ World'.bgJobs = bgJobs /\ World'.invocations = invocations
  BY <1>1 DEF World
<1>5. IsWorld(World')
  BY <1>1, <1>2, <1>3 DEF IsWorld, World
<1>6. Kept(World, World')
  BY <1>2, <1>4 DEF Kept, Follows, World, IsWorld, Pids
<1>7. Balanced(World', {}, Waiters(pending))
  BY <1>3, <1>4, <1>5 DEF RowsInv, Balanced, Accounted, JobRowsOf, World
<1> QED
  BY <1>1, <1>6, <1>7 DEF RowsStep, Steady

-----------------------------------------------------------------------------
LEMMA RowsInit == Init => RowsInv
<1> SUFFICES ASSUME Init PROVE RowsInv
  OBVIOUS
<1>1. DOMAIN Empty = {}
  BY DEF Empty
<1>2. IsWorld(World)
  BY InitInv, WorldType DEF Inv, TypeOK
<1>3. /\ World.rows = Empty /\ World.jobs = Empty /\ World.bgJobs = Empty
      /\ World.invocations = {} /\ pending = NoPending
  BY DEF Init, World
<1>4. \A st : InState(World.rows, st) = {}
  BY <1>1, <1>3 DEF InState
<1>5. Capped(World.rows) /\ Cardinality(World.invocations) =< MaxInvocations
  <2>1. Dead(World.rows) = {}
    BY <1>4 DEF Dead
  <2>2. Cardinality({}) = 0
    BY FS_EmptySet
  <2> QED
    BY <1>3, <2>1, <2>2, MaxRowsAssumption, SessionAssumption DEF Capped
<1>6. JobRowsOf(World) = {}
  BY <1>1, <1>3 DEF JobRowsOf
<1> QED
  BY <1>1, <1>2, <1>3, <1>4, <1>5, <1>6 DEF RowsInv, Balanced, Accounted, Waiters

LEMMA RowsNext == Inv /\ RowsInv /\ [Next]_vars => RowsStep
<1> SUFFICES ASSUME Inv, RowsInv, [Next]_vars PROVE RowsStep
  OBVIOUS
<1>1. ASSUME NEW line \in Lines, EvalLine(line) PROVE RowsStep
  <2>1. CASE EvalRefused(line)
    BY <2>1, StillRows DEF EvalRefused
  <2>2. CASE EvalKillPending(line)
    BY <2>2, DropLineRows DEF EvalKillPending, Aborted
  <2> QED
    BY <1>1, <2>1, <2>2, EvalBlankRows, EvalInterceptedRows, EvalQuestionRows,
       EvalConfirmRows, EvalAllowedRows DEF EvalLine
<1>2. ASSUME NEW answer \in Answers, AnswerPrompt(answer) PROVE RowsStep
  <2>1. CASE AnswerInvalid(answer)
    BY <2>1, StillRows DEF AnswerInvalid
  <2>2. CASE AnswerFinal(answer)
    BY <2>2, DropLineRows DEF AnswerFinal, Given
  <2> QED
    BY <1>2, <2>1, <2>2, AnswerApprovedRows, AnswerLoopRows DEF AnswerPrompt
<1>3. CASE AnswerAbort
  BY <1>3, DropLineRows DEF AnswerAbort, Aborted
<1>4. CASE AnswerNothing
  BY <1>4, StillRows DEF AnswerNothing
<1>5. ASSUME NEW j \in JobIds, JobEnds(j) PROVE RowsStep
  BY <1>5, JobEndsRows
<1>6. CASE UNCHANGED vars
  BY <1>6, StillRows DEF vars, table
<1> QED
  BY <1>1, <1>2, <1>3, <1>4, <1>5, <1>6 DEF Next

LEMMA RowsHold == Spec => [](Inv /\ RowsInv)
<1>1. Init => Inv /\ RowsInv
  BY InitInv, RowsInit
<1>2. Inv /\ RowsInv /\ [Next]_vars => (Inv /\ RowsInv)'
  <2>1. RowsStep => RowsInv'
    BY DEF RowsStep, Steady, RowsInv
  <2> QED
    BY <2>1, NextInv, RowsNext
<1> QED
  BY <1>1, <1>2, PTL DEF Spec

-----------------------------------------------------------------------------
LEMMA RowsAreThere == RowsInv => RowsAccountedFor
<1> SUFFICES ASSUME RowsInv PROVE RowsAccountedFor
  OBVIOUS
<1>1. Waiters(pending) = {p \in {pending.pid : x \in {pending} \ {NoPending}} : p # NoPid}
  BY DEF Waiters
<1>2. JobRowsOf(World) = JobRows
  BY DEF JobRowsOf, JobRows, World
<1> QED
  BY <1>1, <1>2 DEF RowsInv, Balanced, Accounted, RowsAccountedFor, World

(* The rows that live are those of the open question, of the jobs and of   *)
(* the invocations, one for one (proctable.rs, reap_bg_jobs, run_kill,     *)
(* spawn_agent_invocation_row, answer_prompt_inner), between any two calls.*)
THEOREM RowsAreAccounted == Spec => []RowsAccountedFor
BY RowsHold, RowsAreThere, PTL

(* How many rows live.                                                     *)
LEMMA LiveBounded ==
    ASSUME RowsInv
    PROVE  Cardinality(Live(rows)) =< Cardinality(DOMAIN jobs) + MaxInvocations + 1
<1> DEFINE js == JobRowsOf(World)
           inv == invocations
           wait == Waiters(pending)
           dom == DOMAIN bgJobs
<1>1. /\ IsTable(rows) /\ bgJobs \in [dom -> Pids] /\ dom = DOMAIN jobs
      /\ InState(rows, "R") = {} /\ InState(rows, "P") = wait
      /\ InState(rows, "S") = js \cup inv
      /\ \A i, j \in dom : bgJobs[i] = bgJobs[j] => i = j
      /\ Cardinality(inv) =< MaxInvocations
  BY DEF RowsInv, Balanced, Accounted, World, IsWorld
<1>2. Live(rows) = js \cup inv \cup wait
  <2>1. Live(rows) = InState(rows, "R") \cup InState(rows, "P") \cup InState(rows, "S")
    <3>1. \A p \in DOMAIN rows : rows[p].state \in {"R", "S", "P", "Z"}
      BY <1>1 DEF IsTable, Row, ProcState, LiveStates
    <3> QED
      BY <3>1 DEF Live, InState
  <2> QED
    BY <1>1, <2>1
<1>3. js = {bgJobs[j] : j \in dom}
  BY DEF JobRowsOf, World
<1>4. IsFiniteSet(Live(rows))
  <2>1. Live(rows) \in SUBSET (DOMAIN rows)
    BY DEF Live
  <2> QED
    BY <1>1, <2>1, FS_Subset DEF IsTable
<1>5. /\ IsFiniteSet(js) /\ IsFiniteSet(inv) /\ IsFiniteSet(wait)
      /\ Cardinality(js) \in Nat /\ Cardinality(inv) \in Nat /\ Cardinality(wait) \in Nat
  <2>1. js \in SUBSET Live(rows) /\ inv \in SUBSET Live(rows) /\ wait \in SUBSET Live(rows)
    BY <1>2
  <2> HIDE DEF js, inv, wait
  <2> QED
    BY <1>4, <2>1, FS_Subset, FS_CardinalityType
<1>6. IsFiniteSet(dom) /\ Cardinality(js) =< Cardinality(dom) /\ Cardinality(dom) \in Nat
  <2>1. bgJobs \in [dom -> js]
    BY <1>1, <1>3
  <2>2. bgJobs \in Injection(dom, js)
    BY <1>1, <2>1 DEF Injection, IsInjective
  <2>3. bgJobs \in Surjection(dom, js)
    BY <1>3, <2>1 DEF Surjection
  <2> HIDE DEF js, dom
  <2>4. IsFiniteSet(dom)
    BY <1>5, <2>2, FS_Injection
  <2> QED
    BY <2>3, <2>4, FS_Surjection, FS_CardinalityType
<1>7. Cardinality(wait) =< 1
  <2>1. \E x : wait \subseteq {x}
    BY DEF Waiters
  <2>2. PICK x : wait \subseteq {x}
    BY <2>1
  <2>3. IsFiniteSet({x}) /\ Cardinality({x}) = 1 /\ wait \in SUBSET {x}
    BY <2>2, FS_Singleton
  <2> HIDE DEF wait
  <2> QED
    BY <2>3, FS_Subset
<1> HIDE DEF js, inv, wait, dom
<1>8. IsFiniteSet(js \cup inv) /\ Cardinality(js \cup inv) =< Cardinality(js) + Cardinality(inv)
  <2>1. /\ IsFiniteSet(js \cup inv)
        /\ Cardinality(js \cup inv) = Cardinality(js) + Cardinality(inv) - Cardinality(js \cap inv)
    BY <1>5, FS_Union
  <2>2. Cardinality(js \cap inv) \in Nat
    BY <1>5, FS_Subset, FS_CardinalityType
  <2> QED
    BY <1>5, <2>1, <2>2
<1>9. Cardinality(js \cup inv \cup wait) =< Cardinality(js \cup inv) + Cardinality(wait)
  <2> DEFINE S == js \cup inv
  <2>0. IsFiniteSet(S) /\ Cardinality(S) \in Nat
    BY <1>8, FS_CardinalityType
  <2> HIDE DEF S
  <2>1. Cardinality(S \cup wait) = Cardinality(S) + Cardinality(wait) - Cardinality(S \cap wait)
    BY <1>5, <2>0, FS_Union
  <2>2. Cardinality(S \cap wait) \in Nat
    BY <1>5, FS_Subset, FS_CardinalityType
  <2> QED
    BY <1>5, <2>0, <2>1, <2>2 DEF S
<1>10. Cardinality(js \cup inv \cup wait) \in Nat /\ Cardinality(js \cup inv) \in Nat
  BY <1>2, <1>4, <1>8, FS_CardinalityType
<1> QED
  BY <1>1, <1>2, <1>5, <1>6, <1>7, <1>8, <1>9, <1>10, SessionAssumption

(* However long a session lasts, its table holds no more than the cap of   *)
(* rows that are over (MAX_PROC_ROWS), no more invocations than are        *)
(* tracked (MAX_PENDING_INVOCATIONS), and a row for each job.              *)
THEOREM TableIsBounded == Spec => []TableBounded
<1>1. RowsInv => TableBounded
  BY LiveBounded DEF RowsInv, Balanced, Accounted, Capped, World, TableBounded
<1> QED
  BY <1>1, RowsHold, PTL

(* No call brings a row back to life, changes its parent or gives its PID  *)
(* to another, though some rows run again after their question and others  *)
(* are pruned while their jobs come and go.                                *)
THEOREM RowsLive == Spec => RowLifecycle
<1>1. RowsStep => [/\ \A p \in DOMAIN rows \cap DOMAIN rows' :
                         /\ rows'[p].ppid = rows[p].ppid
                         /\ rows'[p].state \in {rows[p].state, "Z"}
                   /\ \A p \in DOMAIN rows' \ DOMAIN rows : nextPid =< p]_vars
  BY DEF RowsStep, Steady, Kept, Follows, World
<1>2. Inv /\ RowsInv /\ [Next]_vars
        => [/\ \A p \in DOMAIN rows \cap DOMAIN rows' :
                  /\ rows'[p].ppid = rows[p].ppid
                  /\ rows'[p].state \in {rows[p].state, "Z"}
            /\ \A p \in DOMAIN rows' \ DOMAIN rows : nextPid =< p]_vars
  BY <1>1, RowsNext
<1> QED
  BY <1>2, RowsHold, PTL DEF Spec, RowLifecycle

-----------------------------------------------------------------------------
(* The log.                                                                *)
(* Whether line n's own row waits with this question.                      *)
WaitsFor(question, n) ==
    question # NoPending /\ question.n = n /\ question.pid # NoPid

Paired(events) == events \in {<<"start", "end">>, <<"start", "pause">>,
                              <<"start", "pause", "end">>}

(* What Logged says of one entry.                                          *)
Closed(entry, waits) ==
    /\ Paired(entry.events)
    /\ waits => entry.events = <<"start", "pause">>
    /\ entry.events = <<"start", "pause">> => waits \/ entry.refused \/ entry.loop

ClosedAll(log, question) ==
    \A n \in 1..Len(log) : Closed(log[n], WaitsFor(question, n))

(* A question is about a line that was typed, and a confirmation that will *)
(* run a model loop is logged as one: after its approval the loop may stop *)
(* to ask again, and then nobody writes the end of the line.               *)
LogInv ==
    /\ pending # NoPending => pending.n \in 1..Typed
    /\ pending # NoPending /\ pending.kind = "auth" =>
          audit[pending.n].loop = Loops(pending.line)
    /\ ClosedAll(audit, pending)

LEMMA LoggedIsClosed == ClosedAll(audit, pending) => Logged
BY DEF ClosedAll, Closed, Paired, WaitsFor, Logged, Typed

NoneWaits(question) == \A n : ~WaitsFor(question, n)

-----------------------------------------------------------------------------
LEMMA Appended ==
    ASSUME NEW log \in Seq(LogEntry), NEW q, ClosedAll(log, q), NEW r, NEW entry,
           \A n \in 1..Len(log) : WaitsFor(r, n) = WaitsFor(q, n),
           Closed(entry, WaitsFor(r, Len(log) + 1))
    PROVE  ClosedAll(Append(log, entry), r)
<1> DEFINE longer == Append(log, entry)
<1>1. /\ Len(longer) = Len(log) + 1 /\ Len(log) \in Nat
      /\ longer[Len(log) + 1] = entry
      /\ \A n \in 1..Len(log) : longer[n] = log[n]
  OBVIOUS
<1> HIDE DEF longer
<1>2. ASSUME NEW n \in 1..Len(longer) PROVE Closed(longer[n], WaitsFor(r, n))
  <2>1. CASE n = Len(log) + 1
    BY <1>1, <2>1
  <2>2. CASE n # Len(log) + 1
    <3>1. n \in 1..Len(log)
      BY <1>1, <2>2
    <3> QED
      BY <1>1, <3>1 DEF ClosedAll
  <2> QED
    BY <2>1, <2>2
<1> QED
  BY <1>2 DEF ClosedAll, longer

LEMMA AppendIs ==
    ASSUME NEW S, NEW s \in Seq(S), NEW c \in S, NEW t \in Seq(S), Len(t) = Len(s) + 1,
           t[Len(s) + 1] = c, \A i \in 1..Len(s) : t[i] = s[i]
    PROVE  Append(s, c) = t
OBVIOUS

(* The line whose question is resolved has its end.                        *)
LEMMA Ended ==
    ASSUME NEW log \in Seq(LogEntry), NEW q, ClosedAll(log, q), NEW n \in 1..Len(log),
           WaitsFor(q, n), NEW r, NoneWaits(r)
    PROVE  ClosedAll(LogEnd(log, n), r)
<1> DEFINE longer == LogEnd(log, n)
           entry == [log[n] EXCEPT !.events = Append(log[n].events, "end")]
<1>1. Len(longer) = Len(log)
  BY LogEndType
<1>2. /\ longer[n] = entry
      /\ \A m \in 1..Len(log) : m # n => longer[m] = log[m]
  <2>1. longer = [log EXCEPT ![n] = entry]
    BY DEF LogEnd
  <2>2. log \in [1..Len(log) -> LogEntry]
    OBVIOUS
  <2> HIDE DEF longer, entry
  <2> QED
    BY <2>1, <2>2
<1>3. log[n] \in LogEntry /\ log[n].events = <<"start", "pause">>
  BY DEF ClosedAll, Closed
<1>4. entry.events = <<"start", "pause", "end">>
  <2> DEFINE e == log[n]
  <2>1. e \in LogEntry /\ e.events = <<"start", "pause">>
    BY <1>3
  <2>2. Append(<<"start", "pause">>, "end") = <<"start", "pause", "end">>
    <3> DEFINE two == <<"start", "pause">>
               three == <<"start", "pause", "end">>
               last == "end"
    <3>1. two \in Seq(Event) /\ three \in Seq(Event) /\ last \in Event
      BY DEF Event
    <3>2. Len(three) = Len(two) + 1 /\ three[Len(two) + 1] = last
      OBVIOUS
    <3>3. \A i \in 1..Len(two) : three[i] = two[i]
      OBVIOUS
    <3> HIDE DEF two, three, last
    <3>4. Append(two, last) = three
      BY <3>1, <3>2, <3>3, AppendIs
    <3> QED
      BY <3>4 DEF two, three, last
  <2>3. entry = [e EXCEPT !.events = Append(e.events, "end")]
    OBVIOUS
  <2> HIDE DEF e, entry
  <2>4. entry.events = Append(e.events, "end")
    BY <2>1, <2>3 DEF LogEntry
  <2> QED
    BY <2>1, <2>2, <2>4
<1>5. <<"start", "pause", "end">> # <<"start", "pause">>
  OBVIOUS
<1> HIDE DEF longer, entry
<1>6. ASSUME NEW m \in 1..Len(log) PROVE Closed(longer[m], WaitsFor(r, m))
  <2>1. ~WaitsFor(r, m)
    BY DEF NoneWaits
  <2>2. CASE m = n
    BY <1>2, <1>4, <1>5, <2>1, <2>2 DEF Closed, Paired
  <2>3. CASE m # n
    <3>1. longer[m] = log[m] /\ ~WaitsFor(q, m)
      BY <1>2, <2>3 DEF WaitsFor
    <3>2. Closed(log[m], WaitsFor(q, m))
      BY DEF ClosedAll
    <3> QED
      BY <2>1, <3>1, <3>2 DEF Closed
  <2> QED
    BY <2>2, <2>3
<1> QED
  BY <1>1, <1>6 DEF ClosedAll, longer

(* A question nobody's row waits with leaves the log as it is.             *)
LEMMA NoneWaited ==
    ASSUME NEW log, NEW q, ClosedAll(log, q), NoneWaits(q), NEW r, NoneWaits(r)
    PROVE  ClosedAll(log, r)
<1>1. \A n : WaitsFor(q, n) = WaitsFor(r, n)
  BY DEF NoneWaits, WaitsFor
<1> QED
  BY <1>1 DEF ClosedAll, Closed, NoneWaits

LEMMA QuietQuestions ==
    /\ NoneWaits(NoPending)
    /\ \A q : q.pid = NoPid => NoneWaits(q)
BY DEF NoneWaits, WaitsFor

(* How a line or a loop leaves the session.                                *)
LEMMA QuestionFields ==
    ASSUME NEW kind, NEW n, NEW pid, NEW choices, NEW line, NEW sudoGrant,
           NEW stdin, NEW named, NEW q,
           q = Question(kind, n, pid, choices, line, sudoGrant, stdin, named)
    PROVE  /\ q # NoPending /\ q.kind = kind /\ q.n = n /\ q.pid = pid /\ q.line = line
<1>1. q # NoPending
  <2>1. DOMAIN NoPending = {"kind"} /\ "number" \in DOMAIN q
    BY DEF NoPending, Question
  <2> QED
    BY <2>1
<1> QED
  BY <1>1 DEF Question

LEMMA EndsQuiet ==
    ASSUME NEW n, NEW line, LoopEnds(n, line)
    PROVE  /\ told' = FALSE /\ NoneWaits(pending')
           /\ pending' # NoPending => pending'.n = n /\ pending'.kind = "plugin"
<1>1. CASE AwaitNothing
  BY <1>1, QuietQuestions DEF AwaitNothing
<1>2. CASE ~AwaitNothing
  <2>1. told' = FALSE
    BY <1>2 DEF LoopEnds
  <2> DEFINE no == FALSE
             none == {}
  <2>2. pending' = Question("plugin", n, NoPid, Answers, line, no, NoLine, none)
    BY <1>2 DEF LoopEnds
  <2> HIDE DEF no, none
  <2>3. pending' # NoPending /\ pending'.kind = "plugin" /\ pending'.n = n /\ pending'.pid = NoPid
    BY <2>2, QuestionFields
  <2> QED
    BY <2>1, <2>3, QuietQuestions
<1> QED
  BY <1>1, <1>2

LEMMA AsksAs ==
    ASSUME NEW n, NEW pid, NEW line, LoopAsks(n, pid, line)
    PROVE  /\ told' = TRUE /\ pending' # NoPending /\ pending'.n = n
           /\ pending'.pid = pid /\ pending'.kind = "plugin"
<1> DEFINE no == FALSE
           none == {}
<1>1. PICK c \in {ConfirmChoices(TRUE), ConfirmChoices(FALSE), Answers} :
         Await(Question("plugin", n, pid, c, line, no, NoLine, none))
  BY DEF LoopAsks
<1>2. told' = TRUE /\ pending' = Question("plugin", n, pid, c, line, no, NoLine, none)
  BY <1>1 DEF Await
<1> HIDE DEF no, none
<1> QED
  BY <1>2, QuestionFields

(* How a line that ran leaves it: what still asks is a loop's question,    *)
(* with which no row waits.                                                *)
LEMMA StopsAs ==
    ASSUME NEW n, NEW line, Stops(n, line)
    PROVE  /\ told' \in BOOLEAN /\ NoneWaits(pending')
           /\ pending' # NoPending => pending'.n = n /\ pending'.kind = "plugin"
           /\ told' => Loops(line)
<1>1. CASE LoopAsks(n, NoPid, line) /\ Loops(line)
  <2>1. /\ told' = TRUE /\ pending' # NoPending /\ pending'.n = n
        /\ pending'.pid = NoPid /\ pending'.kind = "plugin"
    BY <1>1, AsksAs
  <2> QED
    BY <1>1, <2>1, QuietQuestions
<1>2. CASE LoopEnds(n, line)
  BY <1>2, EndsQuiet
<1>3. CASE AwaitNothing
  BY <1>3, QuietQuestions DEF AwaitNothing
<1> QED
  BY <1>1, <1>2, <1>3 DEF Stops

-----------------------------------------------------------------------------
(* What the answer to a question logs, when none is told after it.         *)
LEMMA AnswerEnds ==
    ASSUME Inv, LogInv, pending # NoPending, LogAnswer, told' = FALSE,
           NoneWaits(pending')
    PROVE  Len(audit') = Len(audit) /\ ClosedAll(audit', pending')
<1>1. audit \in Seq(LogEntry) /\ pending.n \in 1..Len(audit)
  BY AuditOfTypeOK DEF Inv, AuditType, LogInv, Typed
<1>2. CASE pending.pid # NoPid
  <2>1. audit' = LogEnd(audit, pending.n)
    BY <1>2 DEF LogAnswer
  <2>2. WaitsFor(pending, pending.n)
    BY <1>2 DEF WaitsFor
  <2>3. ClosedAll(LogEnd(audit, pending.n), pending')
    BY <1>1, <2>2, Ended DEF LogInv
  <2> QED
    BY <1>1, <2>1, <2>3, LogEndType
<1>3. CASE pending.pid = NoPid
  <2>1. audit' = audit
    BY <1>3 DEF LogAnswer
  <2>2. NoneWaits(pending)
    BY <1>3, QuietQuestions
  <2>3. ClosedAll(audit, pending')
    BY <2>2, NoneWaited DEF LogInv
  <2> QED
    BY <2>1, <2>3
<1> QED
  BY <1>2, <1>3

(* A new line after which no row waits.                                    *)
LEMMA LineEnds ==
    ASSUME Inv, LogInv, pending = NoPending, NEW line, line.body # "blank",
           LogLine(line), told' \in BOOLEAN, told' => Loops(line), NoneWaits(pending')
    PROVE  /\ Len(audit') = Typed + 1 /\ ClosedAll(audit', pending')
<1> DEFINE loops == Loops(line)
           refused == pending # NoPending /\ told'
           second == IF told' THEN "pause" ELSE "end"
           entry == [loop |-> loops, refused |-> refused, events |-> <<"start", second>>]
<1>1. audit \in Seq(LogEntry)
  BY AuditOfTypeOK DEF Inv, AuditType
<1>2. audit' = Append(audit, entry)
  BY DEF LogLine
<1>3. Closed(entry, FALSE)
  <2>1. CASE told'
    BY <2>1 DEF Closed, Paired
  <2>2. CASE ~told'
    BY <2>2 DEF Closed, Paired
  <2> QED
    BY <2>1, <2>2
<1> HIDE DEF entry
<1>4. \A n : WaitsFor(pending', n) = FALSE /\ WaitsFor(pending, n) = FALSE
  BY DEF NoneWaits, WaitsFor
<1>5. Closed(entry, WaitsFor(pending', Len(audit) + 1))
  BY <1>3, <1>4 DEF Closed
<1>6. ClosedAll(audit, pending)
  BY DEF LogInv
<1>7. ClosedAll(audit', pending')
  <2>1. \A n \in 1..Len(audit) : WaitsFor(pending', n) = WaitsFor(pending, n)
    BY <1>4
  <2> QED
    BY <1>1, <1>2, <1>5, <1>6, <2>1, Appended
<1> QED
  BY <1>1, <1>2, <1>7 DEF Typed

(* The log and the question stay, or the question stays with the log.      *)
LEMMA LogStands ==
    ASSUME LogInv, UNCHANGED <<pending, audit>> PROVE LogInv'
BY DEF LogInv, ClosedAll, Closed, Paired, WaitsFor, Typed

(* A call that leaves nothing to confirm keeps LogInv with its log.        *)
LEMMA LogFromParts ==
    ASSUME ClosedAll(audit', pending'),
           pending' # NoPending => pending'.n \in 1..Len(audit') /\ pending'.kind # "auth"
    PROVE  LogInv'
BY DEF LogInv, ClosedAll, Closed, Paired, WaitsFor, Typed

LEMMA EvalBlankLog ==
    ASSUME LogInv, NEW line \in Lines, EvalBlank(line) PROVE LogInv'
BY LogStands DEF EvalBlank, AwaitNothing, LogLine

LEMMA EvalInterceptedLog ==
    ASSUME Inv, LogInv, NEW line \in Lines, EvalIntercepted(line) PROVE LogInv'
<1>1. /\ pending = NoPending /\ line.body # "blank" /\ LogLine(line)
      /\ pending' = NoPending /\ told' = FALSE
  BY DEF EvalIntercepted, Ready, AwaitNothing
<1>2. ClosedAll(audit', pending')
  BY <1>1, LineEnds, QuietQuestions
<1> QED
  BY <1>1, <1>2, LogFromParts

LEMMA SurfaceLog ==
    ASSUME Inv, LogInv, pending = NoPending, NEW kind, NEW line, line.body # "blank",
           NEW choices, NEW sudoGrant, NEW stdin, NEW named,
           Surface(kind, line, choices, sudoGrant, stdin, named)
    PROVE  LogInv'
<1> DEFINE loops == Loops(line)
           refused == pending # NoPending /\ told'
           entry == [loop |-> loops, refused |-> refused, events |-> <<"start", "pause">>]
           n == Typed + 1
<1>1. audit \in Seq(LogEntry) /\ Typed = Len(audit) /\ LinePid # NoPid
  BY AuditOfTypeOK, LineWorldType DEF Inv, TypeOK, AuditType, Typed
<1>2. told' = TRUE /\ LogLine(line)
      /\ pending' = Question(kind, n, LinePid, choices, line, sudoGrant, stdin, named)
  BY DEF Surface, Await
<1>3. audit' = Append(audit, entry)
  BY <1>2 DEF LogLine
<1>4. /\ pending' # NoPending /\ pending'.n = n /\ pending'.pid = LinePid /\ pending'.line = line
  BY <1>2, QuestionFields
<1>5. entry.loop = loops
  OBVIOUS
<1>6. Closed(entry, TRUE)
  BY DEF Closed, Paired
<1> HIDE DEF entry
<1>7. WaitsFor(pending', Len(audit) + 1)
  BY <1>1, <1>4 DEF WaitsFor
<1>8. \A m \in 1..Len(audit) : WaitsFor(pending', m) = WaitsFor(pending, m)
  BY <1>1, <1>4 DEF WaitsFor
<1>9. Closed(entry, WaitsFor(pending', Len(audit) + 1))
  BY <1>6, <1>7 DEF Closed
<1>10. ClosedAll(audit', pending')
  BY <1>1, <1>3, <1>8, <1>9, Appended DEF LogInv
<1>11. n \in 1..Len(audit') /\ audit'[n] = entry
  BY <1>1, <1>3
<1> HIDE DEF n
<1>12. pending'.n \in 1..Len(audit') /\ audit'[pending'.n].loop = Loops(pending'.line)
  BY <1>4, <1>5, <1>11
<1> QED
  BY <1>10, <1>12 DEF LogInv, ClosedAll, Closed, Paired, WaitsFor, Typed

LEMMA EvalAllowedLog ==
    ASSUME Inv, LogInv, NEW line \in Lines, EvalAllowed(line) PROVE LogInv'
<1>1. /\ pending = NoPending /\ line.body # "blank" /\ LogLine(line)
      /\ Stops(Typed + 1, line)
  BY DEF EvalAllowed, Ready, GatedBodies
<1>2. /\ told' \in BOOLEAN /\ NoneWaits(pending') /\ (told' => Loops(line))
      /\ pending' # NoPending => pending'.n = Typed + 1 /\ pending'.kind = "plugin"
  BY <1>1, StopsAs
<1>3. Len(audit') = Typed + 1 /\ ClosedAll(audit', pending')
  BY <1>1, <1>2, LineEnds
<1>4. Typed \in Nat
  BY AuditOfTypeOK DEF Inv, AuditType, Typed
<1> QED
  BY <1>2, <1>3, <1>4, LogFromParts

(* A line turned away has its pause and no end; the question stands.       *)
LEMMA EvalRefusedLog ==
    ASSUME Inv, LogInv, NEW line \in Lines, EvalRefused(line) PROVE LogInv'
<1>1. pending # NoPending /\ told' = TRUE /\ pending' = pending /\ LogLine(line)
  BY DEF EvalRefused
<1>2. CASE line.body = "blank"
  BY <1>1, <1>2, LogStands DEF LogLine
<1>3. CASE line.body # "blank"
  <2> DEFINE loops == Loops(line)
             refused == pending # NoPending /\ told'
             entry == [loop |-> loops, refused |-> refused, events |-> <<"start", "pause">>]
             n == pending.n
  <2>1. audit' = Append(audit, entry)
    BY <1>1, <1>3 DEF LogLine
  <2>2. audit \in Seq(LogEntry) /\ n \in 1..Len(audit)
    BY <1>1, AuditOfTypeOK DEF Inv, AuditType, LogInv, Typed
  <2>3. ~WaitsFor(pending, Len(audit) + 1)
    BY <2>2 DEF WaitsFor
  <2>4. Closed(entry, FALSE)
    BY <1>1 DEF Closed, Paired
  <2> HIDE DEF entry
  <2>5. Closed(entry, WaitsFor(pending', Len(audit) + 1))
    BY <1>1, <2>3, <2>4 DEF Closed
  <2>6. ClosedAll(audit', pending')
    BY <1>1, <2>1, <2>2, <2>5, Appended DEF LogInv
  <2>7. n \in 1..Len(audit') /\ audit'[n] = audit[n]
    BY <2>1, <2>2
  <2> HIDE DEF n
  <2>8. /\ pending'.n \in 1..Len(audit')
        /\ pending'.kind = "auth" => audit'[pending'.n].loop = Loops(pending'.line)
    BY <1>1, <2>7 DEF LogInv, n
  <2> QED
    BY <2>6, <2>8 DEF LogInv, ClosedAll, Closed, Paired, WaitsFor, Typed
<1> QED
  BY <1>2, <1>3

(* The question is dropped.                                                *)
LEMMA DroppedLog ==
    ASSUME Inv, LogInv, pending # NoPending, DropLine, LogAnswer PROVE LogInv'
<1>1. told' = FALSE /\ pending' = NoPending
  BY DEF DropLine, AwaitNothing
<1>2. ClosedAll(audit', pending')
  BY <1>1, AnswerEnds, QuietQuestions
<1> QED
  BY <1>1, <1>2, LogFromParts

LEMMA EvalKillPendingLog ==
    ASSUME Inv, LogInv, NEW line \in Lines, EvalKillPending(line) PROVE LogInv'
<1> DEFINE ended == LogEnd(audit, pending.n)
           no == FALSE
           entry == [loop |-> no, refused |-> no, events |-> <<"start", "end">>]
<1>1. pending # NoPending /\ pending.pid # NoPid /\ pending' = NoPending
  BY DEF EvalKillPending, Aborted, DropLine, AwaitNothing
<1>2. audit' = Append(ended, entry)
  BY DEF EvalKillPending
<1>3. audit \in Seq(LogEntry) /\ pending.n \in 1..Len(audit)
  BY <1>1, AuditOfTypeOK DEF Inv, AuditType, LogInv, Typed
<1>4. WaitsFor(pending, pending.n) /\ NoneWaits(pending')
  BY <1>1, QuietQuestions DEF WaitsFor
<1>5. ended \in Seq(LogEntry) /\ ClosedAll(ended, pending')
  BY <1>3, <1>4, Ended, LogEndType DEF LogInv
<1>6. Closed(entry, FALSE)
  BY DEF Closed, Paired
<1> HIDE DEF ended, entry
<1>7. Closed(entry, WaitsFor(pending', Len(ended) + 1))
  BY <1>4, <1>6 DEF Closed, NoneWaits
<1>8. ClosedAll(audit', pending')
  BY <1>2, <1>5, <1>7, Appended
<1> QED
  BY <1>1, <1>8, LogFromParts

(* After an approval the line ran, or a loop stopped to ask again.         *)
LEMMA AnswerApprovedLog ==
    ASSUME Inv, LogInv, NEW answer \in Answers, AnswerApproved(answer) PROVE LogInv'
<1> DEFINE n == pending.n
<1>1. /\ pending # NoPending /\ pending.kind = "auth"
      /\ Stops(n, pending.line) /\ LogAnswer
  BY DEF AnswerApproved, Given
<1>2. /\ told' \in BOOLEAN /\ NoneWaits(pending') /\ (told' => Loops(pending.line))
      /\ pending' # NoPending => pending'.n = n /\ pending'.kind = "plugin"
  BY <1>1, StopsAs
<1>3. audit \in Seq(LogEntry) /\ n \in 1..Len(audit)
  BY <1>1, AuditOfTypeOK DEF Inv, AuditType, LogInv, Typed
<1>4. CASE told' = FALSE
  <2>1. Len(audit') = Len(audit) /\ ClosedAll(audit', pending')
    BY <1>1, <1>2, <1>4, AnswerEnds
  <2> QED
    BY <1>2, <1>3, <2>1, LogFromParts
<1>5. CASE told' = TRUE
  <2>1. audit' = audit
    BY <1>1, <1>5 DEF LogAnswer
  <2>2. audit[n].loop
    <3>1. audit[n].loop = Loops(pending.line)
      BY <1>1 DEF LogInv
    <3> QED
      BY <1>2, <1>5, <3>1
  <2>3. ASSUME NEW m \in 1..Len(audit) PROVE Closed(audit[m], WaitsFor(pending', m))
    <3>1. Closed(audit[m], WaitsFor(pending, m)) /\ ~WaitsFor(pending', m)
      BY <1>2 DEF LogInv, ClosedAll, NoneWaits
    <3>2. CASE m = n
      BY <2>2, <3>1, <3>2 DEF Closed
    <3>3. CASE m # n
      BY <3>1, <3>3 DEF Closed, WaitsFor
    <3> QED
      BY <3>2, <3>3
  <2>4. ClosedAll(audit', pending')
    BY <2>1, <2>3 DEF ClosedAll
  <2> QED
    BY <1>2, <1>3, <2>1, <2>4, LogFromParts
<1> QED
  BY <1>2, <1>4, <1>5

LEMMA AnswerLoopLog ==
    ASSUME Inv, LogInv, NEW answer \in Answers, AnswerLoop(answer) PROVE LogInv'
<1> DEFINE n == pending.n
           pid == pending.pid
<1>1. pending # NoPending /\ LogAnswer
  BY DEF AnswerLoop, Given
<1>2. audit \in Seq(LogEntry) /\ n \in 1..Len(audit)
  BY <1>1, AuditOfTypeOK DEF Inv, AuditType, LogInv, Typed
<1>3. LoopEnds(n, pending.line) \/ LoopAsks(n, pid, pending.line)
  BY DEF AnswerLoop
<1>4. CASE LoopEnds(n, pending.line)
  <2>1. /\ told' = FALSE /\ NoneWaits(pending')
        /\ pending' # NoPending => pending'.n = n /\ pending'.kind = "plugin"
    BY <1>4, EndsQuiet
  <2>2. Len(audit') = Len(audit) /\ ClosedAll(audit', pending')
    BY <1>1, <2>1, AnswerEnds
  <2> QED
    BY <1>2, <2>1, <2>2, LogFromParts
<1>5. CASE LoopAsks(n, pid, pending.line)
  <2>1. /\ told' = TRUE /\ pending' # NoPending /\ pending'.n = n
        /\ pending'.pid = pid /\ pending'.kind = "plugin"
    BY <1>5, AsksAs
  <2>2. audit' = audit
    BY <1>1, <2>1 DEF LogAnswer
  <2>3. \A m : WaitsFor(pending', m) = WaitsFor(pending, m)
    BY <1>1, <2>1 DEF WaitsFor
  <2>4. ClosedAll(audit', pending')
    BY <2>2, <2>3 DEF LogInv, ClosedAll, Closed
  <2> QED
    BY <1>2, <2>1, <2>2, <2>4, LogFromParts
<1> QED
  BY <1>3, <1>4, <1>5

-----------------------------------------------------------------------------
LEMMA LogInit == Init => LogInv
BY DEF Init, LogInv, ClosedAll

LEMMA LogNext == Inv /\ LogInv /\ [Next]_vars => LogInv'
<1> SUFFICES ASSUME Inv, LogInv, [Next]_vars PROVE LogInv'
  OBVIOUS
<1>1. ASSUME NEW line \in Lines, EvalLine(line) PROVE LogInv'
  <2>1. CASE EvalQuestion(line)
    BY <2>1, SurfaceLog DEF EvalQuestion, Ready
  <2>2. CASE EvalConfirm(line)
    BY <2>2, SurfaceLog DEF EvalConfirm, Ready, GatedBodies
  <2> QED
    BY <1>1, <2>1, <2>2, EvalBlankLog, EvalInterceptedLog, EvalAllowedLog,
       EvalRefusedLog, EvalKillPendingLog DEF EvalLine
<1>2. ASSUME NEW answer \in Answers, AnswerPrompt(answer) PROVE LogInv'
  <2>1. CASE AnswerInvalid(answer)
    BY <2>1, LogStands DEF AnswerInvalid
  <2>2. CASE AnswerFinal(answer)
    BY <2>2, DroppedLog DEF AnswerFinal, Given
  <2> QED
    BY <1>2, <2>1, <2>2, AnswerApprovedLog, AnswerLoopLog DEF AnswerPrompt
<1>3. CASE AnswerAbort
  BY <1>3, DroppedLog DEF AnswerAbort, Aborted
<1>4. CASE AnswerNothing
  BY <1>4, LogStands DEF AnswerNothing
<1>5. ASSUME NEW j \in JobIds, JobEnds(j) PROVE LogInv'
  BY <1>5, LogStands DEF JobEnds, history
<1>6. CASE UNCHANGED vars
  BY <1>6, LogStands DEF vars
<1> QED
  BY <1>1, <1>2, <1>3, <1>4, <1>5, <1>6 DEF Next

(* Every line that is neither a model loop nor turned away has exactly one *)
(* end in shell.log, as soon as its question is resolved (eval_line,       *)
(* answer_prompt), whichever answer, abort or kill resolves it.            *)
THEOREM LogIsKept == Spec => []Logged
<1>1. Init => Inv /\ LogInv
  BY InitInv, LogInit
<1>2. Inv /\ LogInv /\ [Next]_vars => (Inv /\ LogInv)'
  BY NextInv, LogNext
<1>3. Inv /\ LogInv => Logged
  BY LoggedIsClosed DEF LogInv
<1> QED
  BY <1>1, <1>2, <1>3, PTL DEF Spec
=============================================================================
