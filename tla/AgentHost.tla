------------------------------ MODULE AgentHost ------------------------------
(***************************************************************************)
(* A shell with clank's plug-in, from one command line to the next, on     *)
(* either of its hosts: crates/clank-embed/src/shell.rs and, of the mcp    *)
(* family, crates/clank-core/src/clank/mcp.rs, over McpSessions and        *)
(* LogTail.                                                                *)
(*                                                                         *)
(* A native process that dies is started again with what is on disk.  A    *)
(* Golem agent is run again from its first line (docs/architecture/        *)
(* replay-safety.md): Golem keeps every line and every answer of a host    *)
(* call in an oplog, and gives them back in order until the oplog is used  *)
(* up.  The files are not part of that: they are as the dead instance left *)
(* them, or gone.                                                          *)
(*                                                                         *)
(* The lines here are those of the mcp family and calls of MCP tools.  A   *)
(* line logs its start, calls the server and logs its end.                 *)
(***************************************************************************)
EXTENDS McpSessions, LogTail

CONSTANTS Hosts,        \* subset of {"golem", "native"}
          LineLen,      \* length of a line's records, by operation
          NamedIds,     \* whether --session-id is given with the calls
          Torn,         \* a file cut off while it was written
          MaxLines, MaxCrashes      \* bounds

Ops == {"add", "remove", "reload", "open", "close", "tool"}

ASSUME HostAssumption ==
    /\ Hosts \subseteq {"golem", "native"}
    /\ LineLen \in [Ops -> Nat \ {0}]
    /\ NamedIds \in BOOLEAN
    /\ Torn \notin Entry \cup {None}
    /\ MaxLines \in Nat /\ MaxCrashes \in Nat

VARIABLES host,
          oplog, cursor,    \* Golem: lines and answers, how many are used
          built,            \* whether the session is built
          conf,             \* /etc/mcp/<server>.toml
          file, buffer,     \* shell.log, and what the durable sink holds of it
          job               \* the line in progress

(* The world, and history: the ids each endpoint has issued; the calls it  *)
(* got; the sessions users were told the ids of; the records logged since  *)
(* the session was built; the memory when the last line ended; the places  *)
(* in the oplog of lines that were refused when they came in; counters.    *)
VARIABLES issued, calls, told, records, kept, refusals, lines, crashes

log == <<file, buffer, records>>
count == <<lines, crashes>>
vars == <<mcp, host, oplog, cursor, built, conf, log, job, issued, calls, told, kept, refusals,
          count>>

Line == [op : {"add"}, server : Servers, url : Urls]
   \cup [op : {"remove", "reload", "open"}, server : Servers]
   \cup [op : {"close"}, id : Nat]
   \cup [op : {"tool"}, server : Servers, named : Nat]

NoId == 0       \* a call without --session-id

Idle == [pc |-> "idle"]

Memory == mcp

-----------------------------------------------------------------------------
(* The host.                                                               *)

OnGolem == host = "golem"
Live == cursor = Len(oplog)

(* The next line or answer: a recorded one while there are any, else a new *)
(* one.  A native process has no record.                                   *)
Take(entry) ==
    IF ~OnGolem THEN UNCHANGED <<oplog, cursor>>
    ELSE /\ cursor' = cursor + 1
         /\ IF Live THEN oplog' = Append(oplog, entry)
                    ELSE oplog[cursor + 1] = entry /\ UNCHANGED oplog

(* Variant of Emit: the sink goes on from the file.                        *)
EmitFromFile(len) ==
    LET r == [id |-> Len(records) + 1, len |-> len]
    IN  /\ records' = Append(records, r)
        /\ buffer' = IF OnGolem THEN BoundTail(file \o Text(r)) ELSE buffer
        /\ file' = IF OnGolem THEN buffer' ELSE Rotated(file \o Text(r))

(* LogSink::append: DurableLogSink writes all it has; DefaultLogSink       *)
(* appends, and shortens the file now and then.                            *)
Emit(len) ==
    LET r == [id |-> Len(records) + 1, len |-> len]
    IN  /\ records' = Append(records, r)
        /\ buffer' = IF OnGolem THEN BoundTail(buffer \o Text(r)) ELSE buffer
        /\ file' = IF OnGolem THEN buffer' ELSE Rotated(file \o Text(r))

(* What a crash leaves of the file when a record of this length was being  *)
(* written: a beginning of what was to be written, or of what was appended.*)
CutOff(len) ==
    LET text == Text([id |-> Len(records) + 1, len |-> len])
        appended == file \o text
        begun == {file \o t : t \in Cuts(text)}
    IN  IF OnGolem THEN Cuts(BoundTail(buffer \o text))
        ELSE IF Oversized(appended) THEN begun \cup Cuts(Rotated(appended)) ELSE begun

-----------------------------------------------------------------------------
(* The session is built with the first line (ensure), and the plug-in with *)
(* it: reconstruct_mcp takes the servers whose config has a tool list.     *)

Build ==
    /\ ~built
    /\ built' = TRUE
    /\ servers' = [s \in Servers |->
                     IF conf[s] \notin {None, Torn} /\ conf[s].installed THEN conf[s] ELSE None]
    /\ UNCHANGED <<sessions, next_session, host, oplog, cursor, conf, log, job, issued, calls,
                   told, kept, refusals, count>>

Ready(pc) == built /\ job.pc = pc

(* What the line names is there.                                           *)
Accepts(line) ==
    CASE line.op = "add" -> TRUE
      [] line.op = "reload" -> conf[line.server] \notin {None, Torn}
      [] line.op = "remove" -> conf[line.server] # None
      [] line.op = "open" -> servers[line.server] # None
      [] line.op = "close" -> line.id \in OpenIds(sessions)
      [] line.op = "tool" ->
           /\ servers[line.server] # None /\ servers[line.server].installed
           /\ line.named # NoId => /\ line.named \in OpenIds(sessions)
                                   /\ SessionOf(sessions, line.named).server = line.server
                                   /\ SessionOf(sessions, line.named).sid # None

(* A line comes in.                                                        *)
Enter(line) ==
    /\ Ready("idle")
    /\ ~Live \/ lines < MaxLines
    /\ lines' = IF Live THEN lines + 1 ELSE lines
    /\ Take(line)
    /\ Emit(LineLen[line.op])
    /\ UNCHANGED <<host, built, issued, calls, told, kept, crashes>>

Begin(line) == Enter(line) /\ Accepts(line) /\ UNCHANGED refusals

Silent == [ok |-> FALSE, sid |-> None]
Asking(line, url, sid) == job' = [pc |-> "call", line |-> line, url |-> url, sid |-> sid]
Ending(line, answer) == job' = [pc |-> "end", line |-> line, answer |-> answer]

(* It ends with a message, and nothing is changed.                         *)
Refuse(line) ==
    /\ Enter(line) /\ ~Accepts(line)
    /\ Ending(line, Silent)
    /\ refusals' = IF OnGolem /\ Live THEN refusals \cup {cursor + 1} ELSE refusals
    /\ UNCHANGED <<mcp, conf>>

(* Variant of Add: a server that is known is not asked again.              *)
AddUnlessKnown(s, url) ==
    LET line == [op |-> "add", server |-> s, url |-> url]
    IN  /\ Begin(line)
        /\ IF servers[s] = [url |-> url, installed |-> TRUE]
             THEN Ending(line, Silent) /\ UNCHANGED conf
             ELSE /\ conf' = [conf EXCEPT ![s] = [url |-> url, installed |-> FALSE]]
                  /\ Asking(line, url, None)
        /\ UNCHANGED mcp

(* mcp_add: the config is written before the server is asked.              *)
Add(s, url) ==
    LET line == [op |-> "add", server |-> s, url |-> url]
    IN  /\ Begin(line)
        /\ conf' = [conf EXCEPT ![s] = [url |-> url, installed |-> FALSE]]
        /\ Asking(line, url, None)
        /\ UNCHANGED mcp

McpReload(s) ==
    LET line == [op |-> "reload", server |-> s]
    IN  /\ Begin(line)
        /\ Asking(line, conf[s].url, None)
        /\ UNCHANGED <<mcp, conf>>

McpRemove(s) ==
    LET line == [op |-> "remove", server |-> s]
    IN  /\ Begin(line)
        /\ conf' = [conf EXCEPT ![s] = None]
        /\ RemoveServer(s)
        /\ Ending(line, Silent)

SessionOpen(s) ==
    LET line == [op |-> "open", server |-> s]
    IN  /\ Begin(line)
        /\ Asking(line, servers[s].url, None)
        /\ UNCHANGED <<mcp, conf>>

(* The session is forgotten before the server is asked to end it, and      *)
(* whether or not it does.                                                 *)
SessionClose(id) ==
    LET line == [op |-> "close", id |-> id]
    IN  /\ Begin(line)
        /\ CloseSession(id)
        /\ IF SessionOf(sessions, id).sid = None \/ servers[SessionOf(sessions, id).server] = None
             THEN Ending(line, Silent)
             ELSE Asking(line, servers[SessionOf(sessions, id).server].url, SessionOf(sessions, id).sid)
        /\ UNCHANGED conf

(* run_mcp_tool: what --session-id says, as it stands; else the session    *)
(* there is; else none.                                                    *)
ToolSid(s, named) == IF named = NoId THEN ImplicitSid(sessions, s) ELSE [local |-> named]

Tool(s, named) ==
    LET line == [op |-> "tool", server |-> s, named |-> named]
    IN  /\ Begin(line)
        /\ Asking(line, servers[s].url, ToolSid(s, named))
        /\ UNCHANGED <<mcp, conf>>

-----------------------------------------------------------------------------
(* The server answers, or cannot be had.                                   *)

Answer == [ok : BOOLEAN, sid : Sid \cup {None}]

Issue(url) == [at |-> url, n |-> issued[url] + 1]

(* What a server may answer to a call of an operation; an endpoint gives a *)
(* session an id of its own, or none.                                      *)
Answers ==
    {[ok |-> ok, sid |-> None] : ok \in BOOLEAN}
      \cup IF job.line.op = "open" THEN {[ok |-> TRUE, sid |-> Issue(job.url)]} ELSE {}

(* The server has got the request: a new one, replay sends nothing.        *)
Reached(answer) ==
    /\ calls' = IF Live /\ job.line.op \in {"tool", "close"}
                  THEN calls \cup {[to |-> job.url, sid |-> job.sid, named |->
                                    IF job.line.op = "tool" THEN job.line.named ELSE NoId]}
                  ELSE calls
    /\ issued' = IF Live /\ answer.sid # None THEN [issued EXCEPT ![job.url] = @ + 1] ELSE issued

(* mcp_install on an answer: the tool list is cached in the config.        *)
Installed(s, answer) ==
    LET entry == [url |-> job.url, installed |-> answer.ok]
    IN  /\ SetServer(s, entry)
        /\ conf' = IF answer.ok THEN [conf EXCEPT ![s] = entry] ELSE conf

(* Variant of Opened: a session is recorded whatever the answer.           *)
OpenedAnyway(s, answer) ==
    OpenSession(s, IF answer.ok THEN answer.sid ELSE [at |-> None, n |-> 0])

Opened(s, answer) == IF answer.ok THEN OpenSession(s, answer.sid) ELSE UNCHANGED mcp

(* Golem does not go on with an instance that asks where none is recorded. *)
Call ==
    /\ Ready("call")
    /\ \E answer \in IF Live THEN Answers ELSE {oplog[cursor + 1]} \cap Answer :
         /\ Take(answer)
         /\ Reached(answer)
         /\ \/ job.line.op \in {"add", "reload"} /\ Installed(job.line.server, answer)
            \/ job.line.op = "open" /\ Opened(job.line.server, answer) /\ UNCHANGED conf
            \/ job.line.op \in {"close", "tool"} /\ UNCHANGED <<mcp, conf>>
         /\ Ending(job.line, answer)
    /\ UNCHANGED <<host, built, log, told, kept, refusals, count>>

(* The reply.  The user is told the local id of a session that was opened. *)
Finish ==
    /\ Ready("end")
    /\ Emit(1)
    /\ job' = Idle
    /\ kept' = IF OnGolem /\ cursor > kept.at THEN [at |-> cursor, memory |-> Memory] ELSE kept
    /\ told' = IF job.line.op = "open" /\ job.answer.ok
                 THEN told \cup {[id |-> next_session, server |-> job.line.server,
                                  sid |-> job.answer.sid]}
                 ELSE told
    /\ UNCHANGED <<mcp, host, oplog, cursor, built, conf, issued, calls, refusals, count>>

-----------------------------------------------------------------------------
(* The instance dies, in or between two lines, and maybe while a file is   *)
(* being written.                                                          *)

CrashedFiles ==
    LET next == IF job.pc = "end" THEN {1} ELSE {LineLen[op] : op \in Ops}
        files == {file} \cup IF job.pc = "call" THEN {} ELSE UNION {CutOff(len) : len \in next}
        cutOff == IF job.pc = "call" /\ job.line.op \in {"add", "reload"}
                  THEN {conf, [conf EXCEPT ![job.line.server] = Torn]} ELSE {conf}
    IN  /\ file' \in files \cup IF OnGolem THEN {<<>>} ELSE {}
        /\ conf' \in cutOff \cup IF OnGolem THEN {[s \in Servers |-> None]} ELSE {}

Crash ==
    /\ built /\ crashes < MaxCrashes
    /\ crashes' = crashes + 1
    /\ CrashedFiles
    /\ servers' = [s \in Servers |-> None] /\ sessions' = <<>> /\ next_session' = 0
    /\ built' = FALSE /\ buffer' = <<>> /\ records' = <<>>
    /\ job' = Idle
    /\ cursor' = 0
    /\ told' = IF OnGolem THEN told ELSE {}
    /\ \/ UNCHANGED issued
       \/ /\ job.pc = "call" /\ job.line.op = "open" /\ Live
          /\ issued' = [issued EXCEPT ![job.url] = @ + 1]
    /\ UNCHANGED <<host, oplog, calls, kept, refusals, lines>>

Init ==
    /\ host \in Hosts
    /\ oplog = <<>> /\ cursor = 0
    /\ built = FALSE
    /\ servers = [s \in Servers |-> None] /\ sessions = <<>> /\ next_session = 0
    /\ conf = [s \in Servers |-> None]
    /\ file = <<>> /\ buffer = <<>> /\ records = <<>>
    /\ job = Idle
    /\ issued = [url \in Urls |-> 0] /\ calls = {}
    /\ told = {}
    /\ kept = [at |-> -1, memory |-> <<>>] /\ refusals = {}
    /\ lines = 0 /\ crashes = 0

(* The ids that were ever printed.                                         *)
Ids == 1..next_session

Attempts ==
    [op : {"remove", "reload", "open"}, server : Servers]
      \cup [op : {"close"}, id : Ids]
      \cup [op : {"tool"}, server : Servers, named : {NoId} \cup IF NamedIds THEN Ids ELSE {}]

Request ==
    \/ \E s \in Servers : \/ \E url \in Urls : Add(s, url)
                          \/ McpReload(s) \/ McpRemove(s) \/ SessionOpen(s)
                          \/ \E named \in {NoId} \cup IF NamedIds THEN OpenIds(sessions) ELSE {} :
                               Tool(s, named)
    \/ \E id \in OpenIds(sessions) : SessionClose(id)
    \/ \E line \in Attempts : Refuse(line)

Work == Build \/ Call \/ Finish

Next == Request \/ Work \/ Crash

Spec == Init /\ [][Next]_vars

-----------------------------------------------------------------------------
(* Properties.                                                             *)

Jobs == {Idle}
   \cup [pc : {"call"}, line : Line, url : Urls, sid : Sid \cup {None} \cup [local : Nat]]
   \cup [pc : {"end"}, line : Line, answer : Answer]

Files == [Servers -> Entry \cup {None, Torn}]

TypeOK ==
    /\ servers \in [Servers -> Entry \cup {None}]
    /\ sessions \in Seq(McpSession) /\ next_session \in Nat
    /\ host \in Hosts /\ cursor \in 0..Len(oplog) /\ built \in BOOLEAN
    /\ conf \in Files
    /\ file \in Seq(Bytes) /\ buffer \in Seq(Bytes) /\ records \in Seq(Record)
    /\ job \in Jobs
    /\ issued \in [Urls -> Nat] /\ told \subseteq McpSession
    /\ refusals \subseteq Nat /\ lines \in Nat /\ crashes \in Nat

(* A session id is sent to the endpoint that issued it and to no other,    *)
(* however often the server was added again, and under replay as well.     *)
SentHome ==
    \A call \in calls : call.sid \in Sid => call.sid.at = call.to /\ call.sid.n =< issued[call.to]

(* The local id that `mcp session open` printed stands for the session it  *)
(* was printed for as long as the table has it; on the agent also after    *)
(* the instance has died and was run again.                                *)
IdsMean ==
    \A t \in told : \A i \in DOMAIN sessions : sessions[i].id = t.id => sessions[i] = t

(* With nothing being written, shell.log is the last of the records of     *)
(* this session, none twice and none cut; on the agent nothing else is in  *)
(* it, whatever the file was when the instance was started.  Natively it   *)
(* is bounded as long as no crash has cut it within a character.           *)
LogKept ==
    records # <<>> =>
      IF OnGolem THEN HoldsLast(file, records) ELSE EndsWithLast(file, records)

(* The oplog used up, the memory is what it was when its last line ended:  *)
(* as the comment at clank/mcp.rs:685 has it, replaying the mcp lines over *)
(* servers that were found on disk "stays idempotent".                     *)
Converges == built /\ job = Idle /\ Live /\ kept.at = cursor => kept.memory = Memory

(* A call that names an open session carries the id that its server knows  *)
(* the session by: docs/USAGE.md:475, "`--session-id` binds the call to an *)
(* open session".                                                          *)
NamedBinds == \A call \in calls : call.named # NoId => call.sid \in Sid

(* An instance that is run again gets on with its oplog: it refuses no     *)
(* line that was taken at first, and asks for an answer where there is     *)
(* none only for a line that was refused at first, over files that a later *)
(* line wrote: never for the last line of all.                             *)
Replays ==
    built /\ OnGolem =>
      /\ job.pc = "idle" /\ ~Live => /\ oplog[cursor + 1] \in Line
                                     /\ cursor + 1 \in refusals \/ Accepts(oplog[cursor + 1])
      /\ job.pc = "call" => IF cursor \in refusals THEN ~Live
                            ELSE Live \/ oplog[cursor + 1] \in Answer
=============================================================================
