------------------------------ MODULE Session ------------------------------
(***************************************************************************)
(* A shell session: crates/bash/src/session/{mod,prompt}.rs, the parts of  *)
(* crates/clank-core/src/clank that a line reaches through the plug-in,    *)
(* and the process table they keep.                                        *)
(*                                                                         *)
(* The driver calls eval_line with a command line or answer_prompt with a  *)
(* human's answer.  Both take `&mut self`, so a call is one atomic action. *)
(* What happens between two calls is that a background job comes to its    *)
(* end.  A line that needs the human does not block: the session stores    *)
(* the question in `pending` and returns, and the call that resolves the   *)
(* question runs the rest of the line.                                     *)
(*                                                                         *)
(* A line is its segments, as the authorization gate sees them, and its    *)
(* body, which says what running it does:                                  *)
(*   blank      nothing is typed                                           *)
(*   intercept  answered before the gate: --help, type, export --secret,   *)
(*              incomplete input, a prompt-user line that does not parse   *)
(*   context    context show, clear, trim                                  *)
(*   question   prompt-user, with the choices it offers                    *)
(*   plain      run by Brush (an external library), leaving no job behind  *)
(*   job        run by Brush, leaving one background job in its manager    *)
(*   direct     run by the session or the plug-in without Brush: curl,     *)
(*              wget, mcp, grease, golem, context summarize                *)
(*   kill       the synthetic kill, with its targets                       *)
(*   invoke     an agent invocation that is triggered, not awaited         *)
(*   ask        the model loop, also behind an installed prompt            *)
(*   pipe       `... | ask`: run_ask_pipe gates the ask, which is the one  *)
(*              segment, and runs what comes before the last `|`, its      *)
(*              upstream, without a gate to capture what it prints         *)
(***************************************************************************)
EXTENDS ProcTable, Authz

CONSTANTS Lines,            \* the command lines a driver may send
          Answers,          \* the answers a human may give
          JobIds,           \* ids Brush's job manager can assign
          MaxLines,         \* bound: lines typed
          MaxAsked,         \* bound: questions asked
          MaxInvocations,   \* config::limits::MAX_PENDING_INVOCATIONS
          NestedPrompts     \* whether a model may call an installed prompt

Bodies == {"blank", "intercept", "context", "question", "plain", "job",
           "direct", "kill", "invoke", "ask", "pipe"}

(* The fields a body does not use are empty.                               *)
Line == [body : Bodies, segs : Seq(Segment), choices : SUBSET Answers,
         pids : SUBSET Nat, jobs : SUBSET JobIds, upstream : Seq(Segment)]

ASSUME SessionAssumption ==
    /\ \A line \in Lines : /\ line \in Line
                           /\ line.body # "blank" => line.segs # <<>>
                           /\ line.body # "pipe" => line.upstream = <<>>
    /\ {"yes", "no", "all"} \subseteq Answers
    /\ MaxLines \in Nat /\ MaxAsked \in Nat
    /\ MaxInvocations \in Nat \ {0}
    /\ NestedPrompts \in BOOLEAN

NoLine == 0                 \* `None` for captured standard input
NoPending == [kind |-> "none"]

VARIABLES rows, nextPid,    \* the process table and its PID counter
          jobs,             \* Brush's job manager: id -> "running" or "done"
          bgJobs,           \* bg_jobs: job id -> PID of its row
          invocations,      \* pending_invocations: PIDs of their rows
          pending,          \* the question the shell awaits an answer to
          allowAll,         \* the session-wide "all" grant
          rerunStdin,       \* rerun_stdin: the line it was captured for
          nextAskStdin      \* next_ask_stdin: likewise

(* History: whether the driver's last reply carried a question; for each   *)
(* typed line whether it runs a model loop, whether it was refused, and    *)
(* its events in shell.log; how many questions were asked; what ran last.  *)
VARIABLES told, audit, asked, ran

table == <<rows, nextPid, jobs, bgJobs, invocations>>
history == <<told, audit, asked, ran>>
vars == <<rows, nextPid, jobs, bgJobs, invocations, pending, allowAll,
          rerunStdin, nextAskStdin, told, audit, asked, ran>>

Loops(line) == line.body \in {"ask", "pipe"}

Typed == Len(audit)         \* lines typed so far; a line is known by its number
Nothing == [line |-> NoLine]

-----------------------------------------------------------------------------
(* The process table, the job manager and the two lists of background work *)
(* change together: a world is the five of them.                           *)
World == [rows |-> rows, nextPid |-> nextPid, jobs |-> jobs,
          bgJobs |-> bgJobs, invocations |-> invocations]

SetWorld(w) == /\ rows' = w.rows
               /\ nextPid' = w.nextPid
               /\ jobs' = w.jobs
               /\ bgJobs' = w.bgJobs
               /\ invocations' = w.invocations

Without(f, S) == [x \in DOMAIN f \ S |-> f[x]]
With(f, x, y) == [z \in DOMAIN f \cup {x} |-> IF z = x THEN y ELSE f[z]]

(* Variant of NewRow: a PID is free again once its row is pruned.          *)
NewRowReusing(w, parent, st) ==
    LET free == {p \in FirstPid..w.nextPid : p \notin DOMAIN w.rows}
        least == CHOOSE p \in free : \A q \in free : p =< q
    IN  [w EXCEPT !.rows = Spawned(w.rows, least, parent, st), !.nextPid = w.nextPid + 1]

(* Variant of NewRow: the counter is not advanced for a sleeping row.      *)
NewRowUncounted(w, parent, st) ==
    [w EXCEPT !.rows = Spawned(w.rows, w.nextPid, parent, st),
              !.nextPid = IF st = "S" THEN w.nextPid ELSE w.nextPid + 1]

NewRow(w, parent, st) ==
    [w EXCEPT !.rows = Spawned(w.rows, w.nextPid, parent, st),
              !.nextPid = w.nextPid + 1]

Complete(w, pid) == [w EXCEPT !.rows = Finished(w.rows, pid)]

(* Variant of Reaped: the mapping goes, the row stays.                     *)
ReapedKeepingRows(w) ==
    LET done == {j \in DOMAIN w.jobs : w.jobs[j] = "done"}
    IN  [w EXCEPT !.jobs = Without(w.jobs, done), !.bgJobs = Without(w.bgJobs, done)]

(* reap_bg_jobs: the manager's poll takes out the jobs that are done, and  *)
(* the rows of those the session knows are completed.                      *)
Reaped(w) ==
    LET done == {j \in DOMAIN w.jobs : w.jobs[j] = "done"}
    IN  [w EXCEPT !.jobs = Without(w.jobs, done),
                  !.bgJobs = Without(w.bgJobs, done),
                  !.rows = CompletedAll(w.rows,
                              {w.bgJobs[j] : j \in done \cap DOMAIN w.bgJobs})]

(* adopt_new_jobs after a line that left job j behind, still running or    *)
(* already done; it reaps at its end.  The manager gives a job an id that  *)
(* no job it holds has.                                                    *)
Launched(w, parent, j, st) ==
    LET row == NewRow(w, parent, "S")
    IN  Reaped([row EXCEPT !.jobs = With(w.jobs, j, st),
                           !.bgJobs = With(w.bgJobs, j, w.nextPid)])

Launches(w, parent) ==
    {Launched(w, parent, j, st) : j \in JobIds \ DOMAIN w.jobs,
                                  st \in {"running", "done"}}

(* spawn_agent_invocation_row: PIDs grow, so the oldest one tracked is the *)
(* least; it is presumed done when there is one too many.                  *)
Invoked(w) ==
    LET row == NewRow(w, RootPid, "S")
        tracked == w.invocations \cup {w.nextPid}
        oldest == {p \in tracked : \A q \in tracked : p =< q}
    IN  IF Cardinality(tracked) > MaxInvocations
          THEN [row EXCEPT !.invocations = tracked \ oldest,
                           !.rows = CompletedAll(row.rows, oldest)]
          ELSE [row EXCEPT !.invocations = tracked]

(* run_kill: a PID names an invocation or the row of a job, a jobspec a    *)
(* job; any other target is a miss and changes nothing.  The targets of a  *)
(* line are taken in the order of their rows.                              *)
Killed(w, line) ==
    LET cancelled == line.pids \cap w.invocations
        aborted == {j \in DOMAIN w.bgJobs \cap DOMAIN w.jobs :
                        j \in line.jobs \/ w.bgJobs[j] \in line.pids}
    IN  [w EXCEPT !.invocations = w.invocations \ cancelled,
                  !.jobs = Without(w.jobs, aborted),
                  !.bgJobs = Without(w.bgJobs, aborted),
                  !.rows = CompletedAll(w.rows,
                              cancelled \cup {w.bgJobs[j] : j \in aborted})]

(* One step of the model loop calls tools, which run on this session       *)
(* without a row of their own.                                             *)
Tooled(w) == {w, Reaped(w), Invoked(w)} \cup Launches(w, RootPid)

(* run_command up to the completion of the row: the worlds a line may      *)
(* leave.                                                                  *)
Outcomes(w, line, pid) ==
    CASE line.body \in {"plain", "blank"} -> {Reaped(w)}
      [] line.body = "job" ->
            Launches(w, IF pid = NoPid THEN RootPid ELSE pid)
      [] line.body = "direct" -> {w}
      [] line.body = "kill" -> {Killed(w, line)}
      [] line.body = "invoke" -> {w, Invoked(w)}
      [] Loops(line) -> Tooled(w)

-----------------------------------------------------------------------------
(* What a call leaves the session waiting for, and what it tells.          *)
AwaitNothing == pending' = NoPending /\ told' = FALSE /\ UNCHANGED asked

Await(question) == /\ asked < MaxAsked
                   /\ pending' = question
                   /\ told' = TRUE
                   /\ asked' = asked + 1

(* A question carries the line it stands for, and its own number.          *)
Question(kind, n, pid, choices, line, sudoGrant, stdin, named) ==
    [kind |-> kind, n |-> n, pid |-> pid, choices |-> choices, line |-> line,
     sudo |-> sudoGrant, stdin |-> stdin, named |-> named, number |-> asked + 1]

(* surface_agent_pause: the model loop waits for a confirmation of a tool  *)
(* call or for the answer to a question of its own.  The plug-in keeps the *)
(* rest of the loop; the line does not matter any more.                    *)
LoopAsks(n, pid, line) ==
    \E c \in {ConfirmChoices(TRUE), ConfirmChoices(FALSE), Answers} :
        Await(Question("plugin", n, pid, c, line, FALSE, NoLine, {}))

(* The model loop comes to its end.  When one of its tool calls ran an     *)
(* installed prompt, a loop of its own may have stopped to ask while the   *)
(* outer one went on: the result the driver gets is the outer one's, which *)
(* carries no question.                                                    *)
LoopEnds(n, line) ==
    \/ AwaitNothing
    \/ /\ NestedPrompts
       /\ asked < MaxAsked
       /\ pending' = Question("plugin", n, NoPid, Answers, line, FALSE, NoLine, {})
       /\ told' = FALSE
       /\ asked' = asked + 1

(* How run_command leaves the session: a loop starts without a row.        *)
Stops(n, line) ==
    IF Loops(line)
      THEN LoopEnds(n, line) \/ LoopAsks(n, NoPid, line)
      ELSE AwaitNothing

(* shell.log: eval_line writes `start` and then `end` or `pause`.          *)
LogLine(line) ==
    audit' = IF line.body = "blank" THEN audit
             ELSE Append(audit, [loop |-> Loops(line),
                                 refused |-> pending # NoPending /\ told',
                                 events |-> <<"start", IF told' THEN "pause" ELSE "end">>])

LogEnd(log, n) == [log EXCEPT ![n].events = Append(@, "end")]

(* Variant of LogAnswer: the waiting row is looked up after it resolved.   *)
LogAnswerLate ==
    audit' = IF pending' # NoPending THEN LogEnd(audit, pending.n) ELSE audit

(* answer_prompt writes the `end` of the line whose row was waiting.       *)
LogAnswer ==
    audit' = IF pending.pid # NoPid /\ ~told'
               THEN LogEnd(audit, pending.n) ELSE audit

-----------------------------------------------------------------------------
(* run_ask takes what was captured for it: rerun_stdin, or, when there is  *)
(* none, next_ask_stdin.                                                   *)
StdinFor(line, rerun, next) ==
    IF ~Loops(line) THEN NoLine ELSE IF rerun # NoLine THEN rerun ELSE next

RerunLeft(line, rerun) == IF Loops(line) THEN NoLine ELSE rerun

NextLeft(line, rerun, next) ==
    IF Loops(line) /\ rerun = NoLine THEN NoLine ELSE next

(* run_command and the completion of the line's row; `upstream` is what    *)
(* capture_upstream ran before it.                                         *)
RunCommand(w, n, pid, line, upstream, named, blanket, rerun, next) ==
    /\ \E o \in Outcomes(w, line, pid) : SetWorld(Complete(o, pid))
    /\ rerunStdin' = RerunLeft(line, rerun)
    /\ nextAskStdin' = NextLeft(line, rerun, next)
    /\ ran' = [line |-> n, segs |-> line.segs, upstream |-> upstream,
               named |-> named, blanket |-> blanket, allowAll |-> allowAll',
               stdin |-> StdinFor(line, rerun, next)]

(* capture_upstream alone, with the question of its `ask` still to come.   *)
Captured(n, upstream) ==
    [line |-> n, segs |-> <<>>, upstream |-> upstream, named |-> {},
     blanket |-> FALSE, allowAll |-> allowAll, stdin |-> NoLine]

(* eval_line up to its dispatch: reap, then a row for the line.            *)
LineWorld == NewRow(Reaped(World), RootPid, "R")
LinePid == nextPid

Ready == pending = NoPending /\ Typed < MaxLines

-----------------------------------------------------------------------------
(* A blank line has no row, but goes through Brush all the same.           *)
EvalBlank(line) ==
    /\ pending = NoPending
    /\ line.body = "blank"
    /\ \E o \in Outcomes(Reaped(World), line, NoPid) : SetWorld(o)
    /\ AwaitNothing
    /\ LogLine(line)
    /\ UNCHANGED <<allowAll, rerunStdin, nextAskStdin, ran>>

(* finish_intercepted, and context lines, which differ in what is recorded *)
(* in the transcript.                                                      *)
EvalIntercepted(line) ==
    /\ Ready
    /\ line.body \in {"intercept", "context"}
    /\ SetWorld(Complete(LineWorld, LinePid))
    /\ AwaitNothing
    /\ LogLine(line)
    /\ UNCHANGED <<allowAll, rerunStdin, nextAskStdin, ran>>

Surface(kind, line, choices, sudoGrant, stdin, named) ==
    /\ SetWorld([LineWorld EXCEPT !.rows = Paused(LineWorld.rows, LinePid)])
    /\ Await(Question(kind, Typed + 1, LinePid, choices, line, sudoGrant, stdin, named))
    /\ LogLine(line)
    /\ UNCHANGED <<allowAll, rerunStdin, nextAskStdin>>

(* surface_prompt                                                          *)
EvalQuestion(line) ==
    /\ Ready
    /\ line.body = "question"
    /\ Surface("user", line, line.choices, FALSE, NoLine, {})
    /\ UNCHANGED ran

(* The gate: dispatch_via_authz_gate, and for their one command            *)
(* dispatch_context_summarize and run_ask_pipe.                            *)
Gate(line) == Decide(Strictest(line.segs, allowAll), allowAll)
GatedBodies == Bodies \ {"blank", "intercept", "context", "question"}

(* surface_auth_confirm.  A pipe into ask runs its upstream now, before    *)
(* the human is asked, and keeps the output with the question.             *)
EvalConfirm(line) ==
    /\ Ready
    /\ line.body \in GatedBodies
    /\ Gate(line) # "Allow"
    /\ LET sudoGrant == Gate(line) = "ConfirmSudo"
       IN  Surface("auth", line, ConfirmChoices(sudoGrant), sudoGrant,
                   IF line.body = "pipe" THEN Typed + 1 ELSE NoLine,
                   Named(line.segs, allowAll))
    /\ ran' = IF line.body = "pipe" THEN Captured(Typed + 1, line.upstream) ELSE ran

EvalAllowed(line) ==
    /\ Ready
    /\ line.body \in GatedBodies
    /\ Gate(line) = "Allow"
    /\ UNCHANGED allowAll
    /\ RunCommand(LineWorld, Typed + 1, LinePid, line, line.upstream, {},
                  Strictest(line.segs, allowAll).sudo \/ allowAll,
                  rerunStdin,
                  IF line.body = "pipe" THEN Typed + 1 ELSE nextAskStdin)
    /\ Stops(Typed + 1, line)
    /\ LogLine(line)

(* Variant of EvalRefused: an error message alone.                         *)
EvalRefusedBare(line) ==
    /\ pending # NoPending
    /\ line.body = "blank" \/ Typed < MaxLines
    /\ ~(line.body = "kill" /\ pending.pid # NoPid /\ pending.pid \in line.pids)
    /\ told' = FALSE
    /\ LogLine(line)
    /\ UNCHANGED <<table, pending, allowAll, rerunStdin, nextAskStdin, asked, ran>>

(* While a question is open a line is refused and the question shown again *)
EvalRefused(line) ==
    /\ pending # NoPending
    /\ line.body = "blank" \/ Typed < MaxLines
    /\ ~(line.body = "kill" /\ pending.pid # NoPid /\ pending.pid \in line.pids)
    /\ told' = TRUE
    /\ LogLine(line)
    /\ UNCHANGED <<table, pending, allowAll, rerunStdin, nextAskStdin, asked, ran>>

-----------------------------------------------------------------------------
(* answer_prompt_inner: the row runs again.                                *)
Resumption == [World EXCEPT !.rows = Resumed(rows, pending.pid)]

(* Variant of DropLine: what was captured is restored before the answer is *)
(* looked at, and not dropped when it is a denial.                         *)
DropLineKeepingStdin ==
    /\ SetWorld(Complete(Resumption, pending.pid))
    /\ AwaitNothing
    /\ rerunStdin' = IF pending.kind = "auth" THEN pending.stdin ELSE rerunStdin
    /\ UNCHANGED <<allowAll, nextAskStdin, ran>>

(* Reaping the row of a question that ends without running anything.       *)
DropLine == /\ SetWorld(Complete(Resumption, pending.pid))
            /\ AwaitNothing
            /\ rerunStdin' = IF pending.kind = "auth" THEN NoLine ELSE rerunStdin
            /\ UNCHANGED <<allowAll, nextAskStdin, ran>>

(* An abort resolves any question: a prompt-user line exits 130, a gated   *)
(* one is denied, a model loop ends.                                       *)
Aborted == pending # NoPending /\ DropLine

AnswerAbort == Aborted /\ LogAnswer

(* Variant of AnswerInvalid: an error message alone.                       *)
AnswerInvalidBare(answer) ==
    /\ pending # NoPending
    /\ answer \notin pending.choices
    /\ told' = FALSE
    /\ UNCHANGED <<table, pending, allowAll, rerunStdin, nextAskStdin, audit, asked, ran>>

(* An answer that is none of the choices leaves the question open.         *)
AnswerInvalid(answer) ==
    /\ pending # NoPending
    /\ answer \notin pending.choices
    /\ told' = TRUE
    /\ UNCHANGED <<table, pending, allowAll, rerunStdin, nextAskStdin, audit, asked, ran>>

Given(answer) == pending # NoPending /\ answer \in pending.choices

(* resolve_user_prompt, and resolve_auth_confirm when it is denied         *)
AnswerFinal(answer) ==
    /\ Given(answer)
    /\ \/ pending.kind = "user"
       \/ pending.kind = "auth" /\ answer \notin {"yes", "all"}
    /\ DropLine
    /\ LogAnswer

(* resolve_auth_confirm on approval; the line runs as if typed without the *)
(* pipe, whose output it finds in rerun_stdin.                             *)
AnswerApproved(answer) ==
    /\ Given(answer)
    /\ pending.kind = "auth"
    /\ answer \in {"yes", "all"}
    /\ allowAll' = (allowAll \/ answer = "all")
    /\ RunCommand(Resumption, pending.n, pending.pid, pending.line, <<>>, pending.named,
                  allowAll', pending.stdin, nextAskStdin)
    /\ Stops(pending.n, pending.line)
    /\ LogAnswer

(* resolve_agent_loop: the loop goes on with the answer.  The row of its   *)
(* question, if it has one, is completed or waits again.                   *)
AnswerLoop(answer) ==
    /\ Given(answer)
    /\ pending.kind = "plugin"
    /\ \E o \in Tooled(Resumption) :
          \/ /\ LoopEnds(pending.n, pending.line)
             /\ SetWorld(Complete(o, pending.pid))
          \/ /\ LoopAsks(pending.n, pending.pid, pending.line)
             /\ SetWorld([o EXCEPT !.rows = Paused(o.rows, pending.pid)])
    /\ LogAnswer
    /\ UNCHANGED <<allowAll, rerunStdin, nextAskStdin, ran>>

(* kill <pid of the waiting row>: both the abort and the kill line are     *)
(* logged.  The kill line itself gets no row.                              *)
EvalKillPending(line) ==
    /\ Typed < MaxLines
    /\ line.body = "kill"
    /\ Aborted
    /\ pending.pid # NoPid
    /\ pending.pid \in line.pids
    /\ audit' = Append(LogEnd(audit, pending.n),
                       [loop |-> FALSE, refused |-> FALSE,
                        events |-> <<"start", "end">>])

(* An answer when nothing is asked is an error, and changes nothing.       *)
AnswerNothing ==
    /\ pending = NoPending
    /\ told' = FALSE
    /\ UNCHANGED <<table, pending, allowAll, rerunStdin, nextAskStdin, audit, asked, ran>>

(* Between calls: a background job comes to its end.                       *)
JobEnds(j) ==
    /\ j \in DOMAIN jobs
    /\ jobs[j] = "running"
    /\ jobs' = [jobs EXCEPT ![j] = "done"]
    /\ UNCHANGED <<rows, nextPid, bgJobs, invocations, pending, allowAll,
                   rerunStdin, nextAskStdin, history>>

-----------------------------------------------------------------------------
Empty == [x \in {} |-> NoPid]

Init ==
    /\ rows = Empty /\ nextPid = FirstPid
    /\ jobs = Empty /\ bgJobs = Empty /\ invocations = {}
    /\ pending = NoPending /\ allowAll = FALSE
    /\ rerunStdin = NoLine /\ nextAskStdin = NoLine
    /\ told = FALSE /\ audit = <<>> /\ asked = 0 /\ ran = Nothing

EvalLine(line) ==
    \/ EvalBlank(line) \/ EvalIntercepted(line) \/ EvalQuestion(line)
    \/ EvalConfirm(line) \/ EvalAllowed(line) \/ EvalRefused(line)
    \/ EvalKillPending(line)

AnswerPrompt(answer) ==
    \/ AnswerInvalid(answer) \/ AnswerFinal(answer)
    \/ AnswerApproved(answer) \/ AnswerLoop(answer)

Next == \/ \E line \in Lines : EvalLine(line)
        \/ \E answer \in Answers : AnswerPrompt(answer)
        \/ AnswerAbort
        \/ AnswerNothing
        \/ \E j \in JobIds : JobEnds(j)

Spec == Init /\ [][Next]_vars

-----------------------------------------------------------------------------
Event == {"start", "pause", "end"}

Asking == [kind : {"user", "auth", "plugin"}, n : 1..MaxLines, pid : Nat,
           choices : SUBSET Answers, line : Lines, sudo : BOOLEAN,
           stdin : 0..MaxLines, named : SUBSET Commands, number : 1..MaxAsked]

Run == [line : 1..MaxLines, segs : Seq(Segment), upstream : Seq(Segment),
        named : SUBSET Commands, blanket : BOOLEAN, allowAll : BOOLEAN,
        stdin : 0..MaxLines]

TableTypeOK ==
    /\ IsTable(rows)
    /\ nextPid \in Pids /\ \A p \in DOMAIN rows : p < nextPid
    /\ jobs \in [DOMAIN jobs -> {"running", "done"}] /\ DOMAIN jobs \subseteq JobIds
    /\ bgJobs \in [DOMAIN bgJobs -> Pids]
    /\ invocations \subseteq Pids

DialogueTypeOK ==
    /\ pending \in Asking \cup {NoPending}
    /\ allowAll \in BOOLEAN /\ told \in BOOLEAN
    /\ rerunStdin \in 0..MaxLines /\ nextAskStdin \in 0..MaxLines
    /\ audit \in Seq([loop : BOOLEAN, refused : BOOLEAN, events : Seq(Event)])
    /\ Len(audit) =< MaxLines
    /\ asked \in 0..MaxAsked
    /\ ran \in Run \cup {Nothing}

(* Every variable keeps its type.                                          *)
TypeOK == TableTypeOK /\ DialogueTypeOK

(* Between calls no row claims to run; the one row that waits for a human  *)
(* is the row of the open question; and the sleeping rows are, one for     *)
(* one, the background jobs the manager holds and the invocations that are *)
(* tracked.  So neither pruning, nor a kill, nor an eviction, nor a line   *)
(* that stopped half way loses the row of live work or leaves one behind.  *)
JobRows == {bgJobs[j] : j \in DOMAIN bgJobs}

RowsAccountedFor ==
    /\ InState(rows, "R") = {}
    /\ InState(rows, "P") = {p \in {pending.pid : x \in {pending} \ {NoPending}} : p # NoPid}
    /\ InState(rows, "S") = JobRows \cup invocations
    /\ JobRows \cap invocations = {}
    /\ \A i, j \in DOMAIN bgJobs : bgJobs[i] = bgJobs[j] => i = j
    /\ DOMAIN bgJobs = DOMAIN jobs

Covered(seg, grant, named) ==
    \/ seg.tier = "allow"
    \/ seg.sudo
    \/ seg.tier = "confirm" /\ grant
    \/ seg.name \in named

(* Of whatever ran, each segment that the gate decides on was free to run: *)
(* it is of the allow tier, or typed with sudo, or covered by the "all"    *)
(* grant, which never covers the sudo-only tier, or the human approved a   *)
(* question that named it.  And a model loop may skip its own              *)
(* confirmations only for a line typed with sudo or under the grant:       *)
(* approving a bare `ask` does not do.  Nothing is said here of what comes *)
(* before a pipe into ask, for which there is no gate (EveryCommandGated). *)
GateHolds ==
    ran # Nothing =>
        /\ \A i \in DOMAIN ran.segs : Covered(ran.segs[i], ran.allowAll, ran.named)
        /\ ran.blanket => ran.allowAll \/ \E i \in DOMAIN ran.segs : ran.segs[i].sudo

(* What AUTH_EXPLAINER.md says of every top-level command of a line: it is *)
(* gated, also one before a pipe into ask.                                 *)
EveryCommandGated ==
    ran # Nothing =>
        /\ \A i \in DOMAIN ran.segs : Covered(ran.segs[i], ran.allowAll, ran.named)
        /\ \A i \in DOMAIN ran.upstream :
              Covered(ran.upstream[i], ran.allowAll, ran.named)

(* What was captured for a piped `ask` reaches that ask or nobody: a loop  *)
(* reads the input of its own line, and none is left over between calls    *)
(* for an unrelated ask to pick up, however its question was answered.     *)
StdinOwn ==
    /\ ran # Nothing => ran.stdin \in {NoLine, ran.line}
    /\ rerunStdin = NoLine /\ nextAskStdin = NoLine

(* shell.log: a line that is not a model loop, and was not turned away,    *)
(* has its `end` as soon as its question is resolved, and exactly one.     *)
Logged == \A n \in 1..Typed :
    LET entry == audit[n]
        waits == pending # NoPending /\ pending.n = n /\ pending.pid # NoPid
    IN  /\ entry.events \in {<<"start", "end">>, <<"start", "pause">>,
                             <<"start", "pause", "end">>}
        /\ waits => entry.events = <<"start", "pause">>
        /\ entry.events = <<"start", "pause">> =>
              waits \/ entry.refused \/ entry.loop

(* The "all" grant is only ever given, never taken back, and only by a     *)
(* human answering "all" to a confirmation that is not for a sudo-only     *)
(* command.                                                                *)
GrantAsked == [][allowAll' # allowAll =>
                   /\ allowAll'
                   /\ pending # NoPending
                   /\ pending.kind = "auth"
                   /\ ~pending.sudo]_vars

(* A row once Z stays as it was until it is pruned, a row never changes    *)
(* its parent nor a live one its kind of life, and a PID is never reused.  *)
RowLifecycle == [][
    /\ \A p \in DOMAIN rows \cap DOMAIN rows' :
          /\ rows'[p].ppid = rows[p].ppid
          /\ rows'[p].state \in {rows[p].state, "Z"}
    /\ \A p \in DOMAIN rows' \ DOMAIN rows : nextPid =< p]_vars

(* A long-lived session does not fill its table: the rows that are over    *)
(* are capped, and the live ones are the open question, the jobs and the   *)
(* invocations still tracked.                                              *)
TableBounded ==
    /\ Cardinality(Dead(rows)) =< MaxRows
    /\ Cardinality(invocations) =< MaxInvocations
    /\ Cardinality(Live(rows)) =< Cardinality(DOMAIN jobs) + MaxInvocations + 1

(* Completing rows at once, as is done here when several jobs are reaped   *)
(* or killed, comes to what completing and pruning them one by one comes   *)
(* to; and complete of a PID without a live row to pruning alone.          *)
CompletionInTurn ==
    /\ \A ps \in SUBSET Live(rows) :
          CompletedAll(rows, ps) = CompletedInTurn(rows, ps, nextPid)
    /\ \A p \in 0..nextPid : Completed(rows, p) = CompletedOnce(rows, p, nextPid)

(* The contract with the driver.                                           *)
Protocol == INSTANCE PromptProtocol WITH
                question <- IF pending = NoPending THEN 0 ELSE pending.number
Contract == Protocol!Spec

(* What LineResult::pending_prompt promises, as a state: a question is     *)
(* open exactly when the last reply carried one.                           *)
CallerKnows == told <=> pending # NoPending

(* What answer_prompt documents: the `end` of a line that stopped to ask   *)
(* is deferred, never dropped.                                             *)
EndOnlyDeferred == \A n \in 1..Typed :
    audit[n].events = <<"start", "pause">> /\ ~audit[n].refused =>
        pending # NoPending /\ pending.n = n
=============================================================================
