----------------------------- MODULE ProcTable -----------------------------
(***************************************************************************)
(* The synthetic process table of crates/bash/src/runtime/proctable.rs.    *)
(*                                                                         *)
(* A table is a function from the PIDs it holds to their rows.  The rows   *)
(* of the code are a Vec in start order, and PIDs are handed out in that   *)
(* order, so the order of the Vec is the order of the domain.  Kinds,      *)
(* command lines and labels only decorate a listing and are left out.      *)
(***************************************************************************)
EXTENDS Integers, FiniteSets

CONSTANT MaxRows        \* config::limits::MAX_PROC_ROWS

ASSUME MaxRowsAssumption == MaxRows \in Nat \ {0}

NoPid == 0              \* `None` where the code has an Option<u32>
RootPid == 1            \* the shell, which is not a stored row
FirstPid == 2

Pids == Nat \ {NoPid, RootPid}

LiveStates == {"R", "S", "P"}
ProcState == LiveStates \cup {"Z"}
Row == [ppid : Nat, state : ProcState]

IsTable(T) == /\ IsFiniteSet(DOMAIN T)
              /\ DOMAIN T \subseteq Pids
              /\ T \in [DOMAIN T -> Row]

InState(T, st) == {p \in DOMAIN T : T[p].state = st}
Dead(T) == InState(T, "Z")
Live(T) == {p \in DOMAIN T : T[p].state # "Z"}

-----------------------------------------------------------------------------
(* spawn and spawn_bg: a new row under a PID the caller takes from the     *)
(* session's counter.                                                      *)
Spawned(T, pid, parent, st) ==
    [p \in DOMAIN T \cup {pid} |->
        IF p = pid THEN [ppid |-> parent, state |-> st] ELSE T[p]]

(* pause (R -> P) and resume (P -> R) do nothing to a row in any other     *)
(* state, nor for a PID the table does not hold.                           *)
Moved(T, pid, from, to) ==
    IF pid \in InState(T, from) THEN [T EXCEPT ![pid].state = to] ELSE T

Paused(T, pid) == Moved(T, pid, "R", "P")
Resumed(T, pid) == Moved(T, pid, "P", "R")

-----------------------------------------------------------------------------
(* complete marks the row Z and then prunes: while the table holds more    *)
(* than MaxRows rows, the oldest Z row goes.  CompletedAll(T, ps) is the   *)
(* table after completing the live rows ps one after the other, oldest     *)
(* first.  The first completion prunes among the rows that were Z and its  *)
(* own; only when that does not reach the cap does each later completion   *)
(* drop the one Z row there is, its own.  So the rows leave in the order   *)
(* of their TurnToLeave, as many as the table has too many.                *)
Older(S, p) == Cardinality({q \in S : q < p})

(* Variant of TurnToLeave: the newest goes first.                          *)
TurnOfNewest(T, ps, p) == Cardinality({q \in Dead(T) \cup ps : p < q})

TurnToLeave(T, ps, p) ==
    LET first == {q \in ps : \A r \in ps : q =< r}
        prunedFirst == Dead(T) \cup first
    IN  IF p \in prunedFirst
          THEN Older(prunedFirst, p)
          ELSE Cardinality(prunedFirst) + Older(ps \ first, p)

Excess(T) == Cardinality(DOMAIN T) - MaxRows

(* Variant of CompletedAll: rows are never dropped.                        *)
CompletedUnpruned(T, ps) ==
    [p \in DOMAIN T |-> IF p \in ps THEN [T[p] EXCEPT !.state = "Z"] ELSE T[p]]

CompletedAll(T, ps) ==
    LET leaving == {p \in Dead(T) \cup ps :
                        ps # {} /\ TurnToLeave(T, ps, p) < Excess(T)}
    IN  [p \in DOMAIN T \ leaving |->
            IF p \in ps THEN [T[p] EXCEPT !.state = "Z"] ELSE T[p]]

(* complete of a PID that is unknown or already Z changes no row but still *)
(* prunes.                                                                 *)
Pruned(T) ==
    LET leaving == {p \in Dead(T) : Older(Dead(T), p) < Excess(T)}
    IN  [p \in DOMAIN T \ leaving |-> T[p]]

Completed(T, pid) ==
    IF pid \in Live(T) THEN CompletedAll(T, {pid}) ELSE Pruned(T)

(* A caller that has no row has nothing to complete.                       *)
Finished(T, pid) == IF pid = NoPid THEN T ELSE Completed(T, pid)

-----------------------------------------------------------------------------
(* prune as the code has it: one pass over the rows in start order, with   *)
(* the number of rows still to drop.  m is a bound of the PIDs, and        *)
(* toDrop[p] is what is left to drop when the pass comes to PID p.         *)
PrunedInPass(T, m) ==
    LET toDrop[n \in 0..m] ==
            IF n = 0 THEN Excess(T)
            ELSE LET before == toDrop[n - 1]
                 IN  IF n - 1 \in Dead(T) /\ before > 0 THEN before - 1 ELSE before
        kept == {p \in DOMAIN T : p \in Dead(T) => ~(toDrop[p] > 0)}
    IN  [p \in kept |-> T[p]]

CompletedOnce(T, pid, m) ==
    PrunedInPass(IF pid \in Live(T) THEN [T EXCEPT ![pid].state = "Z"] ELSE T, m)

(* complete called for the PIDs ps one after the other, oldest first.      *)
CompletedInTurn(T, ps, m) ==
    LET after[n \in 0..m] ==
            IF n = 0 THEN T
            ELSE LET before == after[n - 1]
                 IN  IF n - 1 \in ps THEN CompletedOnce(before, n - 1, m) ELSE before
    IN  after[m]
=============================================================================
