# A verification of clank.sh

clank.sh is an AI-native shell: a bash interpreter (Brush, an external crate) wrapped in a session
that keeps its own process table, an authorization gate, a transcript the model reads, and a
plug-in with an agentic `ask` loop, packages, MCP servers and Golem agents. This directory holds
TLA+ modules of its stateful core, the TLC configurations that check them on small instances, and
TLAPS proofs for what holds whatever the instance. Paths below are relative to the repository.

## 1. The system

| Component | State it keeps | Operations | Code |
|---|---|---|---|
| Session engine | the open question, the "all" grant, captured standard input, the list of background jobs | `eval_line`, `answer_prompt` | `crates/bash/src/session/{mod,prompt,ctx}.rs` |
| Process table | rows with PID, parent, state; the PID counter | spawn, pause, resume, complete, prune | `crates/bash/src/runtime/proctable.rs` |
| Authorization gate | none | decide, strictest segment, what to ask | `crates/bash/src/authz.rs` |
| Transcript | window of entries, elision marker, text awaiting a summary | record, evict, trim, clear, summarize | `crates/bash/src/lib.rs` |
| ask loop | history, batch of tool calls, the provider | start, tool call, pause, resume | `crates/clank-core/src/clank/ask.rs` |
| Agent invocations | tracked PIDs and cancel tokens | trigger, cancel, evict | `crates/clank-core/src/clank/agent.rs` |
| Package store (grease) | installed and broken packages, files | install, remove, load | `crates/clank-core/src/{clank/grease.rs,grease/}` |
| Package integrity | none | hash, signature, Merkle proofs | `crates/grease-pkg` |
| MCP | servers, sessions, version counter | install, open, close, call | `crates/clank-core/src/{clank/mcp.rs,mcp/}` |
| Logs | files, the in-memory tail | append, truncate | `crates/bash/src/logging.rs`, `crates/bash-tool` |
| Drivers | whether an answer is due | read, evaluate, answer | `crates/clank-native/src/run.rs`, `crates/clank-embed/src/shell.rs` |
| Tools, transports, file systems, line editor | none of their own, or vendored | | `crates/bash/src/tools`, `fork/` |

How they interact. A driver calls `Session::eval_line`; the session reaps finished jobs, gives the
line a row, classifies it, asks the gate, and runs it in Brush, in itself or in the plug-in, which
may call back into the session (`ctx.run_command`). A line that needs the human does not block: the
session stores the question in `pending`, pauses the row and returns; the driver calls
`answer_prompt`, and that call runs the rest of the line. Both calls take `&mut self`, so calls
do not overlap; between them, background jobs end.

What is hard in this code, and where a test would hardly reach it:

- *Half-done lines.* A question may end by an answer, a denial, an abort, a kill, or by turning into
  another question; each way must complete the row, drop what was captured, and log the end, once.
- *Nested dispatch.* A tool call of the model runs on the same session; it may start jobs, trigger
  invocations, reap, or start a model loop of its own that stops to ask.
- *Several lists of the same work.* A background job is in Brush's manager, in `bg_jobs` and in the
  table; an invocation in `pending_invocations` and in the table.
- *Bounds.* The table is pruned on completion only; invocations are evicted; the transcript's
  window is cut to its cap, with a marker whose own cost changes as it is cut.
- *Text read late.* A summary is made from text set aside earlier, after lines were cleared or
  evicted again.
- *Half-written packages.* A package is a payload and a marker, in two files, each emptied before it
  is filled; a write or an unlink may fail, the latter unnoticed, and the process may die after any
  of them.
- *Names that meet.* A server may list a prompt of its own name, and a package may be called as the
  registry list is.
- *Two reads of one registry.* The index entry and the body of a package are fetched one after the
  other; a release may be published in between.
- *Running again.* A Golem agent that dies is run again from its first line, over files the dead
  instance left, which are not what they were when the line ran first: a line refused then may be
  accepted now.
- *Ids of others.* A local session id stands for an id some server issued; servers are added again
  under another endpoint, the table drops its oldest.

The parts meet in few places. The driver and the session share the reply (`PromptProtocol`). The
session and the plug-in share the row of an invocation and the capability view, which is cached under
the plug-in's version (`GreaseStore`). Packages and MCP servers share the table of servers and the
boot that fills it (`GreaseStore`); sessions with servers, the log and the host share the line in
progress (`AgentHost`).

## 2. Modules

| Module | Models | EXTENDS or uses |
|---|---|---|
| `ProcTable` | the process table, as operators on a table value | |
| `Authz` | the gate, as operators on the segments of a line | |
| `PromptProtocol` | abstract: what the session promises its driver | |
| `Session` | the session engine; one action per route of a call | `ProcTable`, `Authz`; implements `PromptProtocol` |
| `MCSession` | the command lines TLC tries | `Session` |
| `Session_proofs` | lemmas on the table and the gate, for any table and any line; theorems about `Session` | `Session` |
| `Transcript` | the transcript and its compaction | |
| `Transcript_proofs` | theorems about `Transcript` | `Transcript` |
| `AskLoop` | the agentic loop, await by await | |
| `AskLoop_proofs` | theorems about `AskLoop` | `AskLoop` |
| `SessionRecords_proofs` | the process table against jobs, invocations and the open question; the audit events | `Session_proofs` |
| `Merkle` | inclusion proofs: the verifier's walk, and the tree it must agree with | |
| `Merkle_proofs` | the walk accepts the audit path and nothing else, for logs of any length | `Merkle` |
| `GreaseStore` | packages and MCP servers on disk and in memory, file by file, with crashes | `Merkle`; implements `PackageSet` |
| `PackageSet` | abstract: what a durable set of packages promises | |
| `MCGreaseStore` | what registries publish, for TLC | `GreaseStore` |
| `GreaseStore_proofs` | theorems about `GreaseStore` | `GreaseStore`, `Merkle_proofs` |
| `McpSessions` | the table of servers and of the sessions open with them | |
| `LogTail` | a log file as bytes: rotation, `bound_tail` | |
| `AgentHost` | a shell on either host, from line to line: sessions, log, crash, replay | `McpSessions`, `LogTail` |
| `LogTail_proofs` | lemmas on texts, their cuts and their tails; recursion over numbers | `LogTail` |
| `AgentHost_proofs` | theorems about `AgentHost` and `McpSessions` | `AgentHost`, `LogTail_proofs` |
| `MCAgentHost` | lengths of log records, for TLC | `AgentHost` |

### Session

A call is one action. `EvalLine` is the disjunction of the routes of `eval_line_inner`
(`EvalBlank`, `EvalIntercepted`, `EvalQuestion`, `EvalConfirm`, `EvalAllowed`, `EvalRefused`,
`EvalKillPending`); `AnswerPrompt`, `AnswerAbort` and `AnswerNothing` are those of
`answer_prompt_inner`; `JobEnds` is the environment. `rows`/`nextPid` are `ProcessTable`, `jobs` the
manager of Brush, `bgJobs` is `bg_jobs`, `invocations` is `pending_invocations`, `pending`,
`allowAll`, `rerunStdin` and `nextAskStdin` are the fields of those names. A *world* is the five
variables that a line changes together; `Outcomes` gives the worlds a line may leave, so that what
the code does in sequence (reap, row, run, adopt, complete) is composed as functions of the world
and the action has the effect of the whole handler.

A line is abstracted to its segments as the gate sees them (command, tier, `sudo`) and its *body*,
one per route of the code. A pipe into `ask` (`run_ask_pipe`) has the `ask` as its one segment, for
that is what the gate decides on, and beside it what comes before the last `|`, its *upstream*:
`EvalConfirm` runs it before the human is asked, `EvalAllowed` before the `ask`, and `ran` records it.
The steps of a model loop are abstracted: a call that drives a loop may
change the world as one tool call can (`Tooled`), and ends or stops to ask (`LoopEnds`, `LoopAsks`).
A question is given a number, so that "the same question" can be said.

History variables: `told` (the last reply carried a question), `audit` (the events of each line in
`shell.log`), `asked` (questions so far), `ran` (what ran last, with what had authorized it; for a
pipe that awaits its answer, the upstream alone).

External: Brush's job manager (`JobIds`, `jobs`, `JobEnds`): it gives a job a free id, its poll
takes out the jobs that are done. Modelled from how `adopt_new_jobs` and `reap_bg_jobs` use it.

### Transcript

An entry is the number of its line and its cost in tokens. The marker is the pair `count`,
`summary`, where a summary is the set of lines its text came from; `dropped` likewise is the set of
lines whose text is in `last_dropped`. With sets of lines one can say what a summary covers. The
loop of `enforce_cap` is written as how many entries go (`Evicted`): all but the last are candidates,
the first goes when window and marker are over the cap, any later one when what starts at it still
is, because the first eviction drops the marker's summary and with it the marker's cost.
`record_command`, `record_output` (which enforces the cap), the `context` builtins and the
compaction are separate actions since other code of the session runs between them; `phase` orders
them as `eval_line` does.

### AskLoop

`Session` sees a model loop only where calls of the driver begin and end; here each await is a step.
`frames` is the stack of loops that run: a tool call that is an installed prompt runs a loop inside
the loop (`run_command`, `run_prompt`, `run_ask`). A frame is the `AskLoopState` with the locals of
`drive_ask_loop`: the history, the calls of the turn (`ids`), those without a result (`batch`), the
`results`, and its *stage*: awaiting the model, in the batch of `drive_ask_loop`, or draining the
rest of a batch in `resolve_agent_loop`. The two batches are one piece of model, but not of code:
the first pause of a batch records the turn of the model, a later one must not (`PutAway`); the one
counts turns as it goes, the other from the history (`NextTurn`). `pending` is the `AgentLoopPause`,
with the depth of the loop that stopped as history, and `provider` is `ask_provider`.

A tool call is its id and its *kind*: `settled` stands for every call answered at once, the
malformed and refused ones included. `Session` and this module share no state: the row of a loop is
`None` in every call of `run_ask`, so no step of the loop touches the table.

### GreaseStore

One module for packages and servers, since boot and the version join them. On disk: `payload` (per
name and kind), `marker` (`/etc/grease/<name>.toml`), `regs` (the registry list), `conf`
(`/etc/mcp/<name>.toml`). In memory: `pkgs`, `broken`, `gver` of `GreaseState`; `servers`, `mver` of
`McpState`; `view`, the session's cached capability view with the version it was made at. A file is
`Gone`, `Torn` or whole, because `std::fs::write` truncates first.

A line that installs, updates or removes is a `job` of several actions, in the order of the code:
`FetchIndex`, `FetchBody`, `Verify`, `Live` (the server is asked for its tools), then
`BeginPayload`, `EndPayload`, `BeginMarker`, `EndMarker`, `RegisterServer`, the same for each prompt
the server lists (`NextPrompt`), and `Register`; or `RemoveMarker`, `RemoveStore`, `Forget`, each of
which goes on whatever its unlink comes to: the marker may stay, `remove_dir_all` may stop half-way,
and the config of a server may stay as well. A server may list a prompt of its own name, whose
marker is then written over the server's. A package of the name `registries` (`Reserved`) has the
registry list for its marker (`MarkerFile`): written, the list is one that does not parse; removed,
it is empty; and `load` never reads it as a package. Between any two of these actions a registry may
`Publish`, a write may fail (`WriteFails`), or the process may `Crash`; `Boot` loads what there is
(`load_all`, `load_one`, `reconstruct_mcp`). The lines of the `mcp` family touch one file of their
own and are one action each; `CrashInMcp` is the death in the middle of one.

A package's content is the number of its release. A digest or signature is thereby the number it was
made of, and "the digest matches" is `v = w`: the release whose index entry was read is the one whose
body was. Root, size, index and proof of a log all come from the one index entry (`Advertised`), so
they are what the registry says they are: those of a state of its log (`"own"`), with the proof of
another leaf (`"other"`), or of a tree of one leaf made up for this release, as the authoring tool
emits it (`"alone"`). `LogAccepted` runs the walk of `verify_inclusion_proof` on them.

`risk`, `cut`, `estranged` and `leftover` are history of names: `risk`, whose write or removal has
begun and not ended since boot; `cut`, where a write was cut short; `estranged`, with which a line is
done although the disk is not as memory has it; `leftover`, whose marker a removal could not unlink.

### Merkle

Hashes are terms, so that two are equal exactly when what was hashed is. `TreeRoot` and `AuditPath`
are `ref_root` and `ref_proof` of the tests in `grease-pkg`, as recursive functions of the number of
leaves (`Subtree(s)[n][i]` is the hash over n leaves from the i-th on); `WalkStep` is one turn of
the verifier's loop, its inner loop (a last leaf without sibling goes up several levels) being
`Lifted`, and `Walk` gives what the loop has come to after each sibling. The prefix tags of leaf and
node are kept: without them a node could be shown as a leaf.

### McpSessions, LogTail and AgentHost

`McpSessions` is the table of `McpState`: servers, open sessions (the oldest first) and the counter of
local ids. `LogTail` is `logging.rs`: a record is a number and a length, its text that many bytes and
a line feed, so that "cut in the middle of a line", "twice" and "out of order" can be said of bytes.
Any two bytes of a line may be of one character: a crash that cuts between them leaves the byte
`Half` (`Cuts`). `rotate_if_oversized` reads the file with `read_to_string`, which gives up on such a
file, so `Rotated` leaves it as it is, however long it gets; `DurableLogSink` never reads it.

`AgentHost` puts both under a host. A line is `Begin` (log the start, do what comes before the
call), `Call` (the server's answer, or none) and `Finish` (log the end, reply). A line that names
what is not there is refused (`Refuse`): it is logged and taken down like any other and changes
nothing. On Golem, `Take` records each line and each answer in the `oplog`; after a `Crash` the
cursor is at the first entry again and `Take` gives back what was recorded until it is used up,
`Live` again from there. Natively there is no oplog and the next line is a new one. `Crash` empties
the memory and leaves of each file what was there, a beginning of what was being written (`CutOff`),
or, on Golem, nothing. In a run over again boot has read files that later lines wrote, so a line
that was refused may be accepted and ask for an answer. The oplog has none at that place, and the
model stops there as Golem does (`Call` takes an answer only where one is recorded).

`issued`, `calls`, `told`, `records`, `kept` and `refusals` are history: what each endpoint issued
and was sent, which session each printed local id stood for, what was logged, the memory when the
last line ended, and which lines of the oplog were refused when they came in.

## 3. What TLC checks

| Run | Question | Result |
|---|---|---|
| `session` | every interleaving of lines, answers and job ends: rows, gate, input, log | holds |
| `session_contract` | does the session implement `PromptProtocol`? | holds without nested loops |
| `session_nested` | and with them? | `CallerKnows` violated |
| `session_ask_end` | is the `end` of a line that asked only deferred? | `EndOnlyDeferred` violated |
| `session_pipe` | is each command of a line gated, also one before a pipe into `ask`? | `EveryCommandGated` violated |
| `transcript` | count, order, single place of text, eviction's boundary | holds |
| `transcript_summary` | does a summary cover the entries it is labelled with? | violated |
| `transcript_clear` | is nothing cleared summarized afterwards? | violated |
| `ask_loop` | provider, results, budget, questions and return, over pauses and nested loops | holds |
| `packages` | after whatever fails or dies: what is installed, loaded, marked and shown? | holds |
| `agent` | which ids are sent where, what is in the log, and does a run over again converge and get on? | holds |
| `agent_named` | does `--session-id` bind the call to the open session? | `NamedBinds` violated |

**Bounds of the session runs.** Three typed lines (blank ones are free), two questions (three in
`session_contract`), a table of 2 rows, 1 tracked invocation, 2 job ids. Thirteen lines (in
`MCSession`) cover each body, gated and free, with and without `sudo`, a compound line that mixes the
three tiers, and kills that hit rows, jobs, the waiting row and nothing. Two rows and one invocation
make pruning and eviction happen with the second line; three lines are the shortest runs in which a
grant, a captured input or a stale job left by one line meets the next but one. TLC takes about a
minute. The variables that only grow are cut by the bounds in the guards (`Ready`, `Await`).
`Session.cfg` lets a model loop start another (`NestedPrompts`); `SessionContract.cfg` does not,
since the contract is false with it (finding 1).

**Bounds of the transcript runs.** Six lines of costs 0, 1 and 3 against a cap of 4 and a summary of
cost 2: a window holds up to several entries, one entry can exceed the cap by itself, and a summary
may be what makes the difference. `BufferCuts` lets the text buffer forget its oldest part, as
`LAST_DROPPED_CAP` does; the violation runs switch it off so that nothing is lost for that reason.
Deadlock is not checked there: after `MaxLines` lines the model has nothing left to record.

**Bounds of `ask_loop`.** Two turns of at most two calls and one loop inside another: a batch can
pause at its first call and again while it is drained, a loop is resumed with and without budget
left, and the inner loop pauses inside either stage of the outer. The code does not limit how deep
prompts nest; the model does, and `Returns` says that two loops come to their end, not that a chain
of prompts does.

**Bounds of `packages`.** Three names, one of them the reserved one, three kinds, two registries, one
server name; two lines, two releases and one crash, with any write and any unlink failing (656 000
states, about two and a half minutes). The disk may start with an installed MCP package that brings a
prompt; `MCOffers` has one release for each check of an installation (no digest, not in the index,
another name in the payload, the proof of another leaf), the reserved name, and each path (with and
without log, an MCP server with a prompt, and with one of its own name). The first registry gets its
key by a line. Two lines are an install and what undoes, repeats or updates it; a second crash finds
nothing a first one cannot leave, since `Boot` reads only the disk. The logs begin with six entries,
and `ProofDecides` looks at every prefix of them, so at trees of one to seven leaves: full ones, and
each way in which one of up to three levels is not. One release is there from the start and one is
published at any moment, so also between two fetches. Deadlock is not checked: after the last line
the model rests.

**Bounds of `agent`.** Both hosts, one server at two endpoints, a table of two sessions, four lines,
two crashes (4.6 million states up to symmetry, two and a half minutes). The endpoints are symmetric:
nothing in the model tells one from another, and all properties of the run are invariants. With one
server the table's order and eviction are reached by three opens; with two endpoints a session can
outlive its server's address; two crashes let a run over again be cut short and run again. Four lines
are enough for one that is refused, the one that makes it acceptable, and what a crash then makes of
both. The log holds three bytes and a line's records are of 4, 2 and 1 bytes and a line feed: longer
than the log, as long, and shorter. `agent_named` adds calls with `--session-id`. Deadlock is not
checked: after the last line the model rests, and where a replay asks for an answer that is not
recorded it stops.

**Fairness.** Weak fairness of `Step`, in `ask_loop` and in `packages`: a call of the driver
is a future that is polled until it is ready, and what it awaits, the model, a tool, a registry or a
server, answers or fails (both are actions). Nothing is assumed of the human, of who publishes, or of
crashes: between calls the system may rest. `Session`, `Transcript` and `AgentHost` assume none and
claim no liveness, for nothing in them waits for anything but its caller.

### The properties

*Session.* `RowsAccountedFor`: between calls the running rows are none, the waiting row is the open
question's, the sleeping rows are one for one the jobs and the tracked invocations. `GateHolds`: of
what ran, each segment that the gate decides on was of the allow tier, typed with `sudo`, under the
grant when of the confirm tier, or named in a question the human approved. It says nothing of the
upstream of a pipe into `ask`, for which there is no gate; `EveryCommandGated` says what
`AUTH_EXPLAINER.md` promises of it, and is violated (finding 3). `StdinOwn`: captured input reaches
its own ask or nobody. `Logged`: exactly one `end` per line that is not a model loop. `GrantAsked`,
`RowLifecycle`, `TableBounded` as their comments say. `CompletionInTurn` compares the set-wise
`CompletedAll` with `complete` called row by row, each call pruning in one pass (`PrunedInPass`, the
code's `retain`), on every reachable table. `Contract` is the refinement of `PromptProtocol`, whose
question is the number of `pending`.

*Transcript.* `CountExact`, `WindowIsSuffix`, `TextInOnePlace`, `Fits`, `NewestStays`.

*AskLoop.* `ProviderHome`: the provider is out exactly while the innermost loop awaits the model.
`CallsAnswered`: what the model is shown is well-formed, each of its turns followed by the results of
exactly its calls, in order, over any number of interruptions. `BudgetKept`: a loop counts its turns
right after it was resumed, and never takes more than the limit. `QuestionStands`, `ReplyTells`:
a question of the outermost loop is taken away by the human only, and the reply tells of it; that of
a nested loop is told by no reply and may be replaced (finding 1). `Returns`: the loop ends or stops
to ask.

*GreaseStore.* `MarkerHasPayload`: at every point, a whole marker has a payload of its kind, unless
it is one that a removal could not unlink. `RestartKeeps`: what is in memory is what a restart would
load, but for the names in `risk` and in `estranged`: what a line reported as done survives, what it
removed stays removed, and the three ways in which that is not so in this code (own-name prompt,
reserved name, failed unlink) are exactly `estranged`. `FlagsEarned`: what the marker says
(verified, signed) is true of that release at its registry, whatever was published between the
fetches; marker and payload are of one release unless a write was cut short. `LoggedEarned`: a
package marked as logged is the leaf its index entry says, in the tree whose root that entry
advertises. That the tree is that of a log is the registry's word, as the comment at
`grease/state.rs:640` says, and is not claimed. `ViewFresh`: a view whose key is the current version
shows what there is. `ProofDecides`: the walk accepts a leaf at its place and nothing else.
`Durable` is the refinement of `PackageSet`. `Ends`: each line comes to its end, or the process
does.

*AgentHost.* `SessionTable`: the table is bounded, in order, and of known servers. `SentHome`: a
session id goes to the endpoint that issued it and to no other. `IdsMean`: a printed local id stands
for the session it was printed for as long as it is in the table, on Golem also in a later instance.
`LogKept`: `shell.log` is the newest records, none twice and none cut; natively it may begin with what
earlier processes left, and is bounded as long as no crash has cut it within a character; from then on
it has every record and grows. `Converges`: the oplog used up, the memory is what it was when its last
line ended. `Replays`: an instance that is run again refuses no line that was taken at first; it asks
for an answer where none is recorded only for a line that was refused at first, over files a later line
wrote, and never for the last line of the oplog.

### Findings

1. `run_shell_tool` ignores the `pending_prompt` of a tool call's result: a question a nested loop
   asks is open in the session and shown to nobody (`session_nested`).
2. An `ask` that stops has a question without a row, and `end` is logged only through the row
   (`session_ask_end`).
3. `... | ask` decides on the `ask` alone: when that needs a confirmation, what comes before the pipe has
   run before the question is asked, whatever its tier, and the question does not name it
   (`clank/ask.rs:240`). `AUTH_EXPLAINER.md:35` says that every top-level command of a compound line is
   gated, `|` included, and that denying refuses all of it (`session_pipe`).
4. The next eviction drops a summary whose text is already gone; the next summary lacks those
   entries but is counted over them (`transcript_summary`).
5. `context clear` leaves `last_dropped`; cleared lines come back in a later summary
   (`transcript_clear`).
6. A tool call with `--session-id s1` sends `s1` itself as the session id, which no server has issued,
   and not the id the table keeps for it (`clank/mcp.rs:792`); `docs/USAGE.md:475` says that the flag
   binds the call to the open session (`agent_named`). Without the flag the id is looked up.

## 4. What is proved

The theorems hold for every value of the constants that the named assumptions allow:
`SessionAssumption` (lines are well-formed, only a blank one has no segment, the three confirmation
answers exist, bounds are numbers), `MaxRowsAssumption`, `TranscriptAssumption`,
`AskLoopAssumption`, `GreaseAssumption`, `SessionsAssumption` and `HostAssumption` (offers and first
disk contents are well-formed, the markers for "no file" and the like are no contents, there are
finitely many names; a disk whose first server has the reserved name is none the code could have
left). The bounds on lines, questions, releases and crashes stay in the guards, but their values are
arbitrary.

**Session** (`Session_proofs`). The inductive invariant is

    Inv == TypeOK /\ QuestionCovers /\ GateHolds /\ StdinOwn

`GateHolds` is not inductive: what an approval runs was authorized by a question asked some calls
earlier, with a grant that may have changed since. `QuestionCovers` says what the open question must
remember for that: it stands for a line the gate applies to, every segment of the line is free or
named in it, its choices are those of its kind, and what was captured with it is for a model loop on
that line. It is established by `EvalConfirm`, from `NamedCoversGated`, and used by `AnswerApproved`.
There is one lemma per action (`EvalBlankInv` to `AnswerLoopInv`); below them, one per operation on
a world (`NewRowType`, `ReapedType`, `KilledType`, `InvokedType`, `LaunchesType`, ...), which rest on
the lemmas at the head of the module. The results:

| Theorem | States |
|---|---|
| `TypeCorrect` | `Spec => []TypeOK` |
| `GateIsKept` | `Spec => []GateHolds`: of the segments the gate decides on, not of a pipe's upstream |
| `StdinIsOwn` | `Spec => []StdinOwn` |
| `GrantIsAsked` | `Spec => GrantAsked`: only `AnswerApproved` changes the grant, and by `QuestionCovers` a sudo-only question does not offer "all" |
| `CallerIsTold` | `NestedPrompts = FALSE` implies `Spec => []CallerKnows` |
| `ContractKept` | `NestedPrompts = FALSE` implies `Spec => Contract`, the refinement of `PromptProtocol` |

The last two go through `StepReply`: each step does one of five things to the dialogue. They need
the assumption: with nested loops they are false (finding 1).

**The gate** (`Session_proofs`). The code folds over the segments and keeps the first strictest one;
the model states it by a `CHOOSE`. `StrictestExists` shows that there is one for every non-empty
line (by the least-number principle), and from it `AllowedIsFree`: a line let through on
its strictest segment has no segment the gate would stop alone; and `NamedCoversGated`: the question
names every segment it would stop.

**Transcript** (`Transcript_proofs`). The invariant is the conjunction of `TypeOK`, `CountExact`,
`WindowIsSuffix`, `TextBehind` (text set aside is of lines before the window) and `OneText`. The
properties need one another: that a text is in one place only, one needs to know that what is
evicted next is newer than anything set aside before.

`RecordingFits` (`Spec => Fits`) needs what the model says at once, how many entries go, to be what
dropping one at a time comes to: costs add up to less the later the sum starts (`CostLater`), so the
entries that go are the first ones (`FirstOnes`), and the first that stays is the first with which the
window fits (`EvictedFits`). `CostFrom` is a recursive function; that it exists (`SumIsThere`), what
it is for the rest of a window (`CostOfRest`) and for one whose last entry grew (`CostOfDearer`) are
inductions over the places of the window.

**AskLoop** (`AskLoop_proofs`). The invariant is

    Inv == StackOK /\ (pending = NoPause \/ GoodPause(pending)) /\ told \in BOOLEAN /\ ProviderHome

`StackOK` says that each loop is a `GoodFrame`, that only the innermost one can await the model, and
that any other is at a call of its batch, the one that started the next; hence a loop that returns
finds the call it settles, and the provider is never out with two. `GoodFrame` is the part of
`CallsAnswered` and `BudgetKept` about one loop, strengthened: in the batch of `drive_ask_loop` the
counter is one ahead of the history, whose turn is not recorded yet, so that the limit on the
counter leaves room for that turn. The lemmas on sequences (`IdsSettled`, `TurnsAssistant`,
`MatchedAssistant`, `MatchedResults`, ...) say what recording a turn or settling a call does to a
history; above them, one lemma per operation on a frame and one step per action. Theorems:
`LoopTypeCorrect`, `ProviderIsHome`, `CallsAreAnswered`, `BudgetIsKept`.

`Dialogue` is inductive on top of it: while a loop runs, a question that is put away is of a deeper one,
and an idle system has told of the outermost loop's question and of no other. From it
`ReplyIsTold` and `QuestionIsKept`, at any depth.

**The rows of a session** (`SessionRecords_proofs`). `RowsAccountedFor` is proved as `Balanced`, a
statement about a world instead of about a state, so that it can be carried through a line: the
running rows are a given set, the waiting ones another, and the sleeping rows are one for one the
jobs and the tracked invocations, each job of Brush in `bg_jobs` once; the rows that are over are
within the cap. Each operation on a world (a new row, reaping, launching and adopting jobs, a kill,
an invocation with its eviction, completion) has a lemma that it keeps `Balanced` and is `Kept`:
rows keep their parent, leave no state but for "Z", and new ones are numbered from the counter up.
`Kept` is transitive because PIDs stay below the counter, so `RowLifecycle` follows for the whole
call from the same lemmas. A resumed line takes its row from waiting to running; that step alone is
not `Kept`, but the call that does it also ends the row or puts it back to wait, and between
calls no row runs. The cap after completing several rows at once comes from `Session_proofs`
(`CompletedAllCapped`): in what order rows leave, no more stay than the cap. Theorems:
`RowsAreAccounted`, `TableIsBounded`, `RowsLive`.

**Completion in turn** (`Session_proofs`). The model completes a set of rows at once; the code calls
`complete` for one after the other, and each call prunes in a pass over the rows with a counter.
`ToDropCounts` gives the counter at a PID in closed form, so the pass drops what `Pruned` drops
(`PassPrunes`) and one call is `Completed` (`OnceCompletes`). `CompletedLast` is the induction step:
a completion later than the others leaves their turns as they are and takes the last turn itself
(`LastTurn`); either the others have brought the table to its cap, then nothing more leaves, or they
have all left, then this row leaves as well (`LeavingWithAll`). Induction over the PIDs
(`AfterIs`) gives `TurnsComplete` for every table and set of live rows, and from it the theorem
`CompletionIsInTurn`: `Spec => []CompletionInTurn`.

**The log of a session** (`SessionRecords_proofs`). `Logged` is not inductive: that the resolution of a
question closes the line it is about needs the question to name a typed line, and that a confirmed
line whose loop asks again is logged as a loop. `LogInv` adds both. Theorem: `LogIsKept`.

**The package store** (`GreaseStore_proofs`). The inductive invariant is

    Inv == TypeOK /\ JobWhere /\ JobDone /\ ReservedGone /\ MarkerHasPayload /\ RestartKeeps

That a marker may be written, or a package be put in memory, rests on what earlier steps of the same
line left on disk. `JobDone` says what that is: past the payload, the payload is there; past the
marker, the marker; a server's prompts are written while its own two files stand (`MainKept`); in a
removal, the marker is gone or known to be left over; whatever has begun is in `risk`; and where the
marker written is not the package's own, or is the registry list, the name is in `estranged`.
`ReservedGone` says that the reserved name has no marker of its own. `JobWhere` says that what a job
names (registry, releases, package) exists. Two invariants stand on it: `ViewInv` (the view's key is
never ahead of the version, and each step that changes what the view shows moves the version on:
from it `ViewIsFresh`), and `StoreEarned` with `JobEarned` (what is about to be written has passed
the checks for the registry it came from, and no release is ever taken back and no entry leaves a
log: from it `FlagsAreEarned` and `LogIsEarned`). `LogsSound` says that no log has an entry twice
and that a release's proof is against a state the log has been in, or a tree of the release alone;
with `VerifyExact` it gives `ProvesEntry`: what the proof of an index entry proves is a leaf of the
tree that entry advertises. `StoreIsDurable` is the refinement of `PackageSet`: `BeginPayload` and
`RemoveMarker` are its `Begin`, `Register` and `Forget` its `Settle` (which leaves a name at risk
when it is estranged), `Crash` its `Interrupt` (by `RestartKeeps`, what is at no risk is what boot
will load), `Boot` its `Recover`; all else stutters.

| Theorem | States |
|---|---|
| `StoreTypeCorrect`, `MarkerIsBacked`, `RestartIsHarmless`, `ViewIsFresh` | `Spec => []TypeOK`, `[]MarkerHasPayload`, `[]RestartKeeps`, `[]ViewFresh` |
| `FlagsAreEarned`, `LogIsEarned`, `ProofsDecide` | `Spec => []FlagsEarned`, `[]LoggedEarned`, `[]ProofDecides` |
| `StoreIsDurable` | `Spec => Durable` |

**Inclusion proofs** (`Merkle_proofs`). The code walks up from a leaf and computes positions with
shifts; the tree of RFC 6962 is given from the root down, each part split at a power of two. The two
are put together by a simulation between *two walks*: the walk for n leaves and the walk for the part
that the leaf is in take the same siblings, step by step, until the part's walk is at its root; then
the first takes one sibling more. `LeftPart` and `RightPart` relate the positions of the two walks. In
the left part, which is a full tree of p leaves, the position is the same and only the last position
differs; in the right part both are p higher, p a power of two that is halved with each step, and
`LiftedBeside` says that the inner loop, which goes up several levels at once, does so in both. One
lemma for each way a turn of the loop can go (`LeftGoesOn`, `RightGoesOn`), then for the whole walk
(`WalkOfPart`), then induction over the number of leaves (`AllDecided`), with hashes as terms
(`NodesAreDistinct`). The result is an equivalence, `VerifyExact`: a proof of any length and content
is accepted for an entry at a place only if it is the audit path of that entry at that place.

The recursive functions of the module are shown to exist (`HalfIsThere`, `LiftIsThere`,
`TreeIsThere`, `PathIsThere`, `WalkIsThere`), by strong induction in the form of a lemma about sets
(`FromBelow`), since the library's induction theorems cannot be instantiated.

| Theorem | States |
|---|---|
| `VerifyExact` | `VerifyInclusion(leaf, e - 1, Len(s), TreeRoot(s), proof) <=> leaf = s[e] /\ proof = AuditPath(s, e)`, for every log `s`, place `e`, leaf and proof |
| `DecidesDistinct` | `DecidesInclusion(s)` for every log `s` without repetitions |

**The embedded shell** (`AgentHost_proofs`). None of `SentHome`, `IdsMean`, `Converges`, `Replays` is
inductive: each compares what an instance does now with what an earlier one did over the same oplog.
The invariant therefore says what an oplog *stands for*. `Snap` is the memory, the configs and the
line in progress as one value; `Begun` and `Answered` are what a line and an answer make of it. On
Golem there is a *run* over the whole oplog, from a fresh instance (`IsRun`), each of whose values
is `Sound` (table in order, bounded and of known servers; each session's id issued by the endpoint its
server has; the call in progress asks where it should), and

    GolemInv(run) == IsRun(run) /\ refusals \subseteq 1..Len(oplog)
                       /\ (built => Matches(Now, run[cursor]) \/ Astray(run[cursor]))
                       /\ Spoken(run) /\ Keeping(run) /\ Agreed(run)

`Matches` is needed in place of equality because boot finds on disk what the dead instance left:
servers of which the lines so far have said nothing are `Torn` in the run ("not spoken of yet") and may
be anything in memory. `Spoken` bounds what that can be: whatever boot finds, the rest of the oplog
speaks of; at its end the two are equal, which is `Converges`. `Keeping` says where the history
variable `kept` lies on the run, `Agreed` that a local id is used for one session over the whole run
(`IdsMean`).

A line that was refused at first turns nothing of the run (`Turned`); `Recorded` says why it was:
the run's value is not `Firm` for it, that is, the line names what is not there or has not been
spoken of. Over the files there are now it may be accepted all the same. Then either it asks for no
answer and leaves nothing the run has spoken of (`RemovedLate`), or it waits for an answer, and the
instance is `Astray`: the run is past the line, the oplog has no answer for it, and there is no step
but another crash (`OnCourse`). That this is not the last line is `LastIsRefused`: by `Spoken` boot
finds only what the oplog speaks of, so it takes a later line that wrote it. Hence the two halves of
`Replays`: a line that was taken is `Firm` and is taken again, and only a refused one leads astray.

`BegunMatches` and `AnsweredMatches` are the simulation: from matching values, the same
entry leads to matching values; `RunGoesOn` extends a run when the oplog grows. Natively there is no
oplog, and `NativeInv` has what remains.

The log has an invariant of its own, `LogSound`, over the steps of `Emit` only. `LogTail_proofs` has
the lemmas it rests on: a text cut at its front to a number of bytes and then to the next line feed
begins at the beginning of a record (`CutAtRecord`), so the tail of a tail is the tail
(`LastIsPart`, `HoldsOneMore`); natively the file may also start in the middle of what an earlier
process left, and `GoesWith` says that the records since then follow it (`GoesOneMore`). Where that
is cut within a character the file cannot be read, nothing shortens it any more, and it has all the
records since. Texts are given by a recursive function; that it exists is `RecursionExists`, by
induction over its length.

| Theorem | States |
|---|---|
| `AgentTypeCorrect`, `TableIsSound` | `Spec => []TypeOK`, `[]SessionTable` |
| `SidsGoHome`, `IdsKeepMeaning` | `Spec => []SentHome`, `[]IdsMean` |
| `ReplayConverges`, `ReplayFollows` | `Spec => []Converges`, `[]Replays` |
| `LogIsTail` | `Spec => []LogKept` |

They assume `SessionsAssumption`, `HostAssumption` and those of `LogTail` (the table holds at least
one session; the values that stand for "nothing" are no entries, lines or ids; a record has a length).

**Only model-checked.** Liveness (`Returns`, `Ends`) is out of the prover's reach: fairness and
ENABLED are. Every other property of a passing run is stated by a theorem, two of them under the
assumption of their run that no loop nests: `CallerKnows` and `Contract` (`NestedPrompts = FALSE`).

## 5. Not modelled, and the plan

`PROJECT.json` lists every component with its status and every hazard with its line. Most of the
repository's lines are outside: the vendored line editor and terminal library under `fork/`, the text
tools (awk, sed and the coreutils are pure filters that run inside Brush and share no state with the
session), tests, wire formats of the model providers, and rendering. What is left out of the
components that are modelled, and why:

*Session.* Text: how a line is cut into segments, how an answer matches a choice, labels, exit codes.
Brush's job manager and its `wait` are not in the tree; the manager is modelled from how it is used,
`wait` is not, so a job that `wait` takes from the manager behind the session's back is a hazard
without a property. The upstream of a pipe into `ask` is recorded as having run, and that is all: the
jobs it may leave in the manager, which a later line adopts, are of the same hazard. `kill` ends its
targets at once, oldest first, where the code goes by the order of its arguments. A loop's tool call
changes the world as `Tooled` says, not by the steps of `AskLoop`. The nesting depth of prompts is
not limited by the code, and is by the model.

*Native REPL, drivers.* What a driver must do about questions is `PromptProtocol`. The REPL takes the
flow (exit or go on) of the line, not of the answer that runs the rest of it: noted as a hazard.

*GreaseStore.* Stubs on `$PATH`, materialized skills, resources, templates, and the Markdown form of
a prompt decorate a package; `grease search`, `list` and `info` only read. Saving the registry list
by `registry add` or `remove` is one step; only a package of its name tears it. SHA-256 and ed25519
are perfect. What a reader might not expect: a package repaired by a reinstall stays in `broken`
until the next boot; a death in a removal, after the marker is gone, leaves a store nobody lists; an
update cut short between the two files gives the new payload the old marker's flags (`cut`); after a
reinstall under another kind the old server is still registered; `grease remove` says `removed`
whatever its unlinks came to, and the next boot finds what stayed (`leftover`); a server whose
prompt has its own name is a prompt after the next boot; a package called `registries` makes the
registry list unreadable, and its removal makes it empty; `mcp remove` of a server that came with a
package holds until the next boot; the view of a line that asked is not refreshed by its answer. The
comment at `grease/state.rs:142` says that a crash between the two writes leaves a marker without
its payload; the code writes the payload first, so it leaves the payload without its marker, or, in
an update, one of the two files torn (`MarkerHasPayload`).

*McpSessions, AgentHost.* JSON-RPC, paging, `enabled = false`, `reload` of all servers, resources
and watches. What Golem does with an instance that asks for an answer its oplog does not have is
outside: here it stops, until it is run again. An `initialize` whose answer was not recorded is sent
again, and the first session is leaked at the server, as are sessions that the table drops.
Natively, a death in the middle of an append glues the next session's first record to what is left
of the last one (`EndsWithLast` says so). Tool lists are assumed not empty (an empty one is not
cached). The other three log files go through the same sinks. The bash-tool component keeps its sink
only for one invocation.

What a next step would take up, in order: `Session` and `AskLoop` in one model, the loop's tool
calls being the session's own actions; the two drivers composed with it, with the flow of an answer;
the bash tokenizer's segments against a reference; the JSON-RPC exchange with a server that loses or
repeats answers.
