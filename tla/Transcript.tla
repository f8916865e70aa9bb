----------------------------- MODULE Transcript -----------------------------
(***************************************************************************)
(* The session transcript: a bounded window of the lines that were typed   *)
(* and what they printed, which is also what the model reads.  It is       *)
(* `Transcript` of crates/bash/src/lib.rs, with the compaction step of     *)
(* crates/clank-core/src/clank/ask.rs.                                     *)
(*                                                                         *)
(* An entry is known by the number of the line it belongs to and by its    *)
(* cost in tokens; its text is left out.  The leading marker that stands   *)
(* for the evicted entries is the pair count (0 when there is no marker)   *)
(* and summary, the set of the lines whose text went into the summary      *)
(* ({} for a bare count).  dropped is likewise the set of the lines whose  *)
(* text waits in last_dropped to be summarized.                            *)
(*                                                                         *)
(* A line is recorded in steps: its command, then, when it is not an       *)
(* inspection, its output, once or (for a line that stops to ask) several  *)
(* times, and last the plug-in's compaction, which lines that were         *)
(* intercepted or ran from an answer do without.  While the line runs, the *)
(* `context` builtin may change the window under it.                       *)
(***************************************************************************)
EXTENDS Integers, Sequences, FiniteSets

CONSTANTS Cap,          \* the window's cap, in tokens
          Costs,        \* tokens a command or an output may cost
          SummaryCost,  \* tokens of a generated summary
          MaxLines,     \* bound: lines recorded
          MaxCost,      \* bound: tokens of one entry
          BufferCuts    \* whether text may outgrow LAST_DROPPED_CAP

ASSUME TranscriptAssumption ==
    /\ Cap \in Nat /\ SummaryCost \in Nat /\ Costs \subseteq Nat
    /\ MaxLines \in Nat /\ MaxCost \in Nat
    /\ BufferCuts \in BOOLEAN

VARIABLES window,       \* the entries, oldest first
          count,        \* entries the marker stands for
          summary,      \* lines the marker's summary was made from
          dropped,      \* lines whose text awaits a summary
          phase         \* where the current line stands

(* History: the number of lines recorded, and of those recorded when the   *)
(* window was last cleared.                                                *)
VARIABLES lines, cleared

vars == <<window, count, summary, dropped, phase, lines, cleared>>

Entry == [line : Nat, cost : Nat]
Phases == {"idle", "running", "recorded"}

-----------------------------------------------------------------------------
(* total_tokens: a bare count marker costs nothing.                        *)
CostFrom(w, i) ==
    LET sum[j \in 0..Len(w)] ==
            IF j < i THEN 0 ELSE sum[j - 1] + w[j].cost
    IN  sum[Len(w)]

MarkerCost == IF summary = {} THEN 0 ELSE SummaryCost

(* Variant of Evicted: one drop, when one may not be enough.               *)
EvictedOnce(w) ==
    IF MarkerCost + CostFrom(w, 1) =< Cap \/ Len(w) < 2 THEN 0 ELSE 1

(* enforce_cap drops the oldest entry while the window is over its cap,    *)
(* but never the last one.  The first drop also drops the marker's         *)
(* summary, so from then on the marker costs nothing: entry i goes when    *)
(* what starts at i is still over the cap.                                 *)
Evicted(w) ==
    IF MarkerCost + CostFrom(w, 1) =< Cap THEN 0
    ELSE Cardinality({i \in 1..(Len(w) - 1) : i = 1 \/ CostFrom(w, i) > Cap})

(* Variant of Trimmed: the current line may go too.                        *)
TrimmedAll(w, n) == IF n < Len(w) THEN n ELSE Len(w)

(* trim(n)                                                                 *)
Trimmed(w, n) == IF Len(w) = 0 THEN 0 ELSE IF n < Len(w) THEN n ELSE Len(w) - 1

(* stash_dropped keeps the most recent bytes when the buffer is full.      *)
Stashes(old, new) ==
    IF new = {} THEN {old}
    ELSE {{l \in old \cup new : cut =< l} :
            cut \in IF BufferCuts THEN new \cup {0} ELSE {0}}

(* Variant of Evict: the marker counts evictions, not entries.             *)
EvictCountingOne(w, k) ==
    /\ window' = SubSeq(w, k + 1, Len(w))
    /\ count' = IF k = 0 THEN count ELSE count + 1
    /\ summary' = IF k = 0 THEN summary ELSE {}
    /\ dropped' \in Stashes(dropped, {w[i].line : i \in 1..k})

(* Variant of Evict: the marker's place is skipped when there is none yet. *)
EvictSecond(w, k) ==
    /\ window' = IF count = 0 /\ k > 0
                   THEN <<w[1]>> \o SubSeq(w, k + 2, Len(w))
                   ELSE SubSeq(w, k + 1, Len(w))
    /\ count' = count + k
    /\ summary' = IF k = 0 THEN summary ELSE {}
    /\ dropped' \in Stashes(dropped, {w[i].line : i \in 1..k})

(* The first k entries leave the window w for the marker.                  *)
Evict(w, k) ==
    /\ window' = SubSeq(w, k + 1, Len(w))
    /\ count' = count + k
    /\ summary' = IF k = 0 THEN summary ELSE {}
    /\ dropped' \in Stashes(dropped, {w[i].line : i \in 1..k})

-----------------------------------------------------------------------------
(* record_command: the cap is not enforced yet.                            *)
RecordCommand(cost) ==
    /\ phase = "idle"
    /\ lines < MaxLines
    /\ window' = Append(window, [line |-> lines + 1, cost |-> cost])
    /\ lines' = lines + 1
    /\ phase' = "running"
    /\ UNCHANGED <<count, summary, dropped, cleared>>

(* record_output goes to the last entry, if there is one.                  *)
RecordOutput(cost) ==
    /\ phase \in {"running", "recorded"}
    /\ LET n == Len(window)
           w == IF n = 0 THEN window
                ELSE [window EXCEPT ![n].cost = window[n].cost + cost]
       IN  /\ n > 0 => w[n].cost =< MaxCost
           /\ Evict(w, Evicted(w))
    /\ phase' = "recorded"
    /\ UNCHANGED <<lines, cleared>>

(* Variant of Clear: lines are numbered anew, the text kept for a summary  *)
(* is not theirs.                                                          *)
ClearRestarting ==
    /\ phase = "running"
    /\ window' = <<>> /\ count' = 0 /\ summary' = {}
    /\ cleared' = 0 /\ lines' = 0
    /\ UNCHANGED <<dropped, phase>>

(* context clear                                                           *)
Clear ==
    /\ phase = "running"
    /\ window' = <<>> /\ count' = 0 /\ summary' = {}
    /\ cleared' = lines
    /\ UNCHANGED <<dropped, phase, lines>>

(* context trim n                                                          *)
Trim(n) ==
    /\ phase = "running"
    /\ Evict(window, Trimmed(window, n))
    /\ UNCHANGED <<phase, lines, cleared>>

(* The line is over without output to record (context, a secret answer),   *)
(* or with it but on a path that does not call after_record.               *)
Finish ==
    /\ phase # "idle"
    /\ phase' = "idle"
    /\ UNCHANGED <<window, count, summary, dropped, lines, cleared>>

(* compact_dropped_span, when pending_summary has text to summarize.       *)
PendingSummary == count > 0 /\ summary = {} /\ dropped # {}

CompactEnds == phase = "recorded" /\ PendingSummary /\ phase' = "idle"

(* Variant of Summarize: the summarized text stays in the buffer.          *)
SummarizeKeepingText ==
    /\ CompactEnds
    /\ summary' = dropped
    /\ UNCHANGED <<window, count, dropped, lines, cleared>>

(* The model answered: set_marker_summary.                                 *)
Summarize ==
    /\ CompactEnds
    /\ summary' = dropped
    /\ dropped' = {}
    /\ UNCHANGED <<window, count, lines, cleared>>

(* No model can be resolved: discard_dropped_span.                         *)
Discard ==
    /\ CompactEnds
    /\ dropped' = {}
    /\ UNCHANGED <<window, count, summary, lines, cleared>>

(* No provider, or the model failed: the text is kept for the next time.   *)
KeepForLater ==
    /\ CompactEnds
    /\ UNCHANGED <<window, count, summary, dropped, lines, cleared>>

-----------------------------------------------------------------------------
Init ==
    /\ window = <<>> /\ count = 0 /\ summary = {} /\ dropped = {}
    /\ phase = "idle" /\ lines = 0 /\ cleared = 0

Next == \/ \E cost \in Costs : RecordCommand(cost) \/ RecordOutput(cost)
        \/ Clear
        \/ \E n \in 0..MaxLines : Trim(n)
        \/ Finish
        \/ Summarize \/ Discard \/ KeepForLater

Spec == Init /\ [][Next]_vars

-----------------------------------------------------------------------------
(* Every variable keeps its type.                                          *)
TypeOK ==
    /\ window \in Seq(Entry)
    /\ count \in Nat
    /\ summary \subseteq 1..lines
    /\ dropped \subseteq 1..lines
    /\ phase \in Phases
    /\ lines \in 0..MaxLines
    /\ cleared \in 0..lines

(* No line is lost without trace: what the marker counts and what the      *)
(* window holds are all the lines recorded since the last clear.           *)
CountExact == cleared + count + Len(window) = lines

(* The window is the newest of those lines, in order and without a gap.    *)
WindowIsSuffix ==
    \A i \in DOMAIN window : window[i].line = cleared + count + i

(* What the model reads of a line it reads once: a line is in at most one  *)
(* of the window, the text that waits to be summarized and the summary;    *)
(* and no summary is shown while there is newer text it has not seen.      *)
TextInOnePlace ==
    /\ \A i \in DOMAIN window : window[i].line \notin dropped \cup summary
    /\ summary = {} \/ dropped = {}
    /\ count = 0 => summary = {}

(* Recording output leaves the window within its cap unless the current    *)
(* line alone exceeds it, and drops no entry that would have fitted.       *)
Fits == [][phase' = "recorded" =>
            LET shown == Len(window')
                gone == count' - count
                last == IF Len(window) = 0 THEN 0
                        ELSE window'[shown].cost - window[Len(window)].cost
            IN  /\ CostFrom(window', 1) + MarkerCost' =< Cap \/ shown =< 1
                /\ gone > 1 => CostFrom(window, gone) + last > Cap
                /\ gone = 1 => CostFrom(window, 1) + last + MarkerCost > Cap]_vars

(* The newest line stays, whatever is evicted or trimmed: only a clear     *)
(* removes it.                                                             *)
NewestStays == [][window # <<>> /\ cleared' = cleared =>
                    window' # <<>> /\ window'[Len(window')].line = lines']_vars

(* What the rendered marker says ("[summary of {count} earlier entries]"): *)
(* the summary was made from all the entries it stands for.                *)
SummaryCoversCount ==
    summary # {} => \A l \in (cleared + 1)..(cleared + count) : l \in summary

(* What `clear` documents, that the AI starts fresh: no summary is made    *)
(* from lines that were cleared away.                                      *)
SummaryIsFresh == \A l \in summary : l > cleared
=============================================================================
