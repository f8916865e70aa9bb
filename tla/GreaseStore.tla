---------------------------- MODULE GreaseStore ----------------------------
(***************************************************************************)
(* The package store of `grease`, with the MCP servers registered beside   *)
(* it: crates/clank-core/src/clank/grease.rs and mcp.rs, grease/state.rs,  *)
(* grease/config.rs, mcp/state.rs, mcp/config.rs.                          *)
(*                                                                         *)
(* A package is on disk twice, as the payload of its kind in the store and *)
(* as an install marker; std::fs::write empties a file before it fills it, *)
(* so each is Gone, Torn or whole.  Memory (pkgs, broken, servers) is read *)
(* from disk once, at boot.  A command line that installs or removes is a  *)
(* job of several steps, between which the process may die; the lines that *)
(* touch one file only are one step.                                       *)
(*                                                                         *)
(* A package's content is known by its release, the number under which a   *)
(* registry published it; so a digest or a signature of it is its number.  *)
(* Stubs on $PATH, resources and templates decorate a package and are left *)
(* out, as is the Markdown form of a prompt.                               *)
(***************************************************************************)
EXTENDS Merkle, FiniteSets

CONSTANTS Names,        \* package, prompt and server names
          Kinds,        \* package kinds, "mcp" and "prompt" among them
          Urls,         \* registries
          ServerNames,  \* names the mcp family is used with
          Offers,       \* what a registry may publish, see Offer
          ToolLists,    \* tool lists a server may answer with
          OldLogs,      \* entries the logs have at the start
          FirstRegs,    \* registry lists the disk may hold at the start
          FirstOffers,  \* what was published before, and maybe installed
          Gone, Torn,   \* no such file; a file cut off while written
          Bare,         \* a server's config without cached tools
          Failed,       \* a server that is configured, not installed
          None,
          Reserved,     \* the name "registries", whose marker is that file
          MaxReleases, MaxLines, MaxCrashes,    \* bounds
          IOErrors      \* whether a write may fail

Nothing == {Gone, Torn, Bare, Failed, None}

Offer == [url : Urls, name : Names,
          kind : Kinds,
          misnamed : BOOLEAN,       \* the payload bears another name
          prompts : SUBSET Names,   \* what an MCP server lists
          listed : BOOLEAN,         \* the index has an entry for it
          hashed : BOOLEAN,         \* ... with its digest
          signed : BOOLEAN,         \* ... with a signature by the key
          logged : {"no", "own", "other", "alone"}] \* ... with a proof, see Advertised

Release == [offer : Offers, size : Nat]

Payload == [as : Names, kind : Kinds, ver : Nat, tools : ToolLists \cup {None}]

Marker == [kind : Kinds, ver : Nat, url : Urls, verified : BOOLEAN,
           signed : BOOLEAN, logged : BOOLEAN]

Package == [marker : Marker, payload : Payload]

Registry == [url : Urls, keyed : BOOLEAN]

ASSUME GreaseAssumption ==
    /\ {"mcp", "prompt"} \subseteq Kinds
    /\ Offers \subseteq Offer
    /\ ServerNames \subseteq Names
    /\ OldLogs \subseteq Nat
    /\ FirstRegs \subseteq Seq(Registry)
    /\ Torn \notin Seq(Registry)
    /\ \A first \in FirstOffers : /\ first \in Offers /\ first.hashed
                                  /\ first.name # Reserved
                                  /\ ~first.misnamed /\ first.logged \in {"no", "alone"}
    /\ ToolLists # {}
    /\ Nothing \cap (Payload \cup Marker \cup Package \cup ToolLists) = {}
    /\ Gone # Torn
    /\ Failed # None
    /\ IsFiniteSet(Names)
    /\ MaxReleases \in Nat /\ MaxLines \in Nat /\ MaxCrashes \in Nat
    /\ IOErrors \in BOOLEAN

-----------------------------------------------------------------------------
VARIABLES releases,     \* what the registries have published, in order
          log           \* the transparency log of each

VARIABLES regs,         \* /etc/grease/registries.toml; Torn when it is no list
          payload,      \* the store: per name and kind
          marker,       \* /etc/grease/<name>.toml
          conf          \* /etc/mcp/<name>.toml

VARIABLES up,           \* whether the process runs
          pkgs, broken, gver,   \* GreaseState
          servers, mver,        \* McpState, its sessions apart
          view,         \* the session's cached capability view
          job           \* the line in progress

(* Counters behind the bounds, and history of names.  Since boot: risk,    *)
(* whose write or removal has begun and not ended; estranged, with which a *)
(* line is done although the disk is not as memory has it: the server      *)
(* whose marker its own prompt took, a package of the reserved name, one   *)
(* removed whose marker is still there.  Of the disk, until made good:     *)
(* cut, where a write was cut short; leftover, whose marker the removal    *)
(* could not unlink.                                                       *)
VARIABLES lines, crashes, risk, cut, estranged, leftover

world == <<releases, log>>
disk == <<payload, marker>>
memory == <<pkgs, broken, gver, servers, mver>>
marks == <<risk, cut, estranged, leftover>>
history == <<crashes, marks>>
vars == <<world, regs, disk, conf, up, memory, view, job, lines, history>>

-----------------------------------------------------------------------------
(* What boot makes of the disk.                                            *)

(* Variant of Loaded: any payload in the package's directory will do.      *)
LoadedAnyKind(n) ==
    IF marker[n] \in Marker /\ \E k \in Kinds : payload[n][k] \in Payload
      THEN [marker |-> marker[n],
            payload |-> payload[n][CHOOSE k \in Kinds : payload[n][k] \in Payload]]
      ELSE None

(* load_one: the marker, and the payload of the marker's kind.  load skips *)
(* the reserved name, whose entry here is always Gone, see MarkerFile.     *)
Loaded(n) ==
    IF marker[n] \in Marker /\ payload[n][marker[n].kind] \in Payload
      THEN [marker |-> marker[n], payload |-> payload[n][marker[n].kind]]
      ELSE None

(* Markers that are there and cannot be loaded.                            *)
Unloadable == {n \in Names : marker[n] # Gone /\ Loaded(n) = None}

GreaseServer(n) == Loaded(n) # None /\ Loaded(n).payload.kind = "mcp"
                   /\ Loaded(n).payload.tools # None

(* reconstruct_mcp: the packages' servers, then those of a config with a   *)
(* cached tool list whose name is not taken.                               *)
Reconstructed(n) ==
    IF GreaseServer(n) THEN Loaded(n).payload.tools
    ELSE IF conf[n] \in ToolLists THEN conf[n] ELSE None

(* Clank::version, and what Clank::capabilities renders.                   *)
Version == mver * 1000003 + gver
Surface == <<pkgs, servers>>

(* The view is rebuilt at the start of a line when its version is not the  *)
(* plug-in's.                                                              *)
Refreshed == IF view.key = Version THEN view ELSE [key |-> Version, surface |-> Surface]

-----------------------------------------------------------------------------
(* The registries.                                                         *)

OfferOf(v) == releases[v].offer

Latest(u, n) ==
    LET of == {v \in DOMAIN releases : OfferOf(v).url = u /\ OfferOf(v).name = n}
    IN  IF of = {} THEN 0 ELSE CHOOSE v \in of : \A w \in of : w =< v

Listed(v) == v # 0 /\ OfferOf(v).listed

(* A registry publishes a new release of a package, and may log it.  An    *)
(* index entry with the proof of another leaf is one that was put together *)
(* wrongly: that release is not in the log.                                *)
Publish(offer) ==
    LET v == Len(releases) + 1
        u == offer.url
        entries == IF offer.logged = "own" THEN Append(log[u], v) ELSE log[u]
    IN  /\ v =< MaxReleases
        /\ log' = [log EXCEPT ![u] = entries]
        /\ releases' = Append(releases, [offer |-> offer, size |-> Len(entries)])
        /\ UNCHANGED <<regs, disk, conf, up, memory, view, job, lines, history>>

(* What the index entry of release v advertises of the log: root and size  *)
(* are those of this tree, index and proof those below.  Each is the       *)
(* registry's word: "alone" is a tree made up for this one release, as the *)
(* authoring tool emits it.                                                *)
Advertised(v) ==
    IF OfferOf(v).logged = "alone" THEN <<v>>
    ELSE SubSeq(log[OfferOf(v).url], 1, releases[v].size)

ProofIndex(v) ==
    CASE OfferOf(v).logged = "alone" -> 0
      [] OfferOf(v).logged = "own" -> releases[v].size - 1
      [] OTHER -> IF releases[v].size > 1 THEN releases[v].size - 2 ELSE 1

LogProves(v, leaf) ==
    LET tree == Advertised(v)
        index == ProofIndex(v)
        proof == IF index < Len(tree) THEN AuditPath(tree, index + 1) ELSE <<>>
    IN  VerifyInclusion(leaf, index, Len(tree), TreeRoot(tree), proof)

-----------------------------------------------------------------------------
(* Verification of what was fetched: v is the release whose index entry    *)
(* was read (0 when there was none), w the release whose body was.         *)

Keyed(u) == \E i \in DOMAIN job.regs : job.regs[i].url = u /\ job.regs[i].keyed

(* Variant of DigestAccepted: the index only says that there is one.       *)
DigestTrusted(v, w) == Listed(v) => OfferOf(v).hashed

(* A listed package needs its digest, an unlisted one is taken on trust.   *)
DigestAccepted(v, w) == Listed(v) => OfferOf(v).hashed /\ v = w

SignatureAccepted(u, v, w) == Keyed(u) => Listed(v) /\ OfferOf(v).signed /\ v = w

(* A proof is looked at only where the signature was.                      *)
Proved(u, v) == Keyed(u) /\ Listed(v) /\ OfferOf(v).logged # "no"

(* Variant of LogAccepted: the proof must be there, whatever it proves.    *)
LogTrusted(u, v, w) == TRUE

LogAccepted(u, v, w) == Proved(u, v) => LogProves(v, w)

Accepted(u, v, w) ==
    DigestAccepted(v, w) /\ SignatureAccepted(u, v, w) /\ LogAccepted(u, v, w)

(* Variant of NameAccepted: parse_and_check_payload without its check.     *)
NameUnchecked(n, w) == TRUE

NameAccepted(n, w) == ~OfferOf(w).misnamed

-----------------------------------------------------------------------------
(* The job: where the line stands (pc); the package it installs or removes *)
(* (name); whether an MCP server's tools are wanted; the registries as the *)
(* line read them, and the one it tries (regs, at); the releases whose     *)
(* index entry and body it has (seen, got); the server's tools; the        *)
(* package being written (cur), and whether it is a prompt of the server;  *)
(* the prompts still to write (todo) and the packages still to update      *)
(* (rest).                                                                 *)

Fetching == {"index", "body", "verify", "live"}
Writing == {"payload", "payloading", "marker", "marking"}
Removing == {"unmark", "unstore", "forget"}
Stages == {"idle", "server", "next", "register"} \cup Fetching \cup Writing \cup Removing

Idle == [pc |-> "idle", name |-> None, want |-> TRUE, regs |-> <<>>, at |-> 0, seen |-> 0,
         got |-> 0, tools |-> None, cur |-> None, prompt |-> FALSE, todo |-> {}, rest |-> {}]

(* list_registries: a file that does not parse is no registries.           *)
Registries == IF regs = Torn THEN <<>> ELSE regs

Install(n, want, rest) ==
    [Idle EXCEPT !.pc = "index", !.name = n, !.want = want, !.regs = Registries,
                 !.at = 1, !.rest = rest]

(* grease update keeps the artifact selection of an MCP package.           *)
KeptTools(n) == pkgs[n].payload.kind = "mcp" => pkgs[n].payload.tools # None

(* How a line goes on when one installation is over, or before the first:  *)
(* with the next package to update.  Without registries each is refused.   *)
Continue(rest) ==
    IF Registries = <<>> \/ rest = {} THEN {Idle}
    ELSE {Install(n, KeptTools(n), rest \ {n}) : n \in rest}

Body(j) == OfferOf(j.got)
From(j) == j.regs[j.at].url

Other(n) == CHOOSE m \in Names : m # n

(* What is written for the package itself, and for a prompt of a server:   *)
(* the payload, re-serialized, and the marker.                             *)
PayloadOf(j) ==
    IF j.prompt
      THEN [as |-> j.cur, kind |-> "prompt", ver |-> j.got, tools |-> None]
      ELSE [as |-> IF Body(j).misnamed THEN Other(j.name) ELSE j.name,
            kind |-> Body(j).kind, ver |-> j.got, tools |-> j.tools]

MarkerOf(j) ==
    IF j.prompt
      THEN [kind |-> "prompt", ver |-> j.got, url |-> From(j), verified |-> FALSE,
            signed |-> FALSE, logged |-> FALSE]
      ELSE [kind |-> Body(j).kind, ver |-> j.got, url |-> From(j),
            verified |-> Listed(j.seen), signed |-> Keyed(From(j)),
            logged |-> Proved(From(j), j.seen)]

(* After a write that failed: a server goes on with its next prompt.       *)
GivenUp(j) == IF j.prompt THEN {[j EXCEPT !.pc = "next"]} ELSE Continue(j.rest)

-----------------------------------------------------------------------------
(* Lines.  Each refreshes the view first.                                  *)

StartLine ==
    /\ up /\ job = Idle /\ lines < MaxLines
    /\ lines' = lines + 1
    /\ view' = Refreshed
    /\ UNCHANGED <<world, up, crashes>>

(* grease list, info and search, or a line that is refused.                *)
OtherLine ==
    /\ StartLine
    /\ UNCHANGED <<regs, disk, conf, memory, job, marks>>

(* add_registry: a known URL keeps its place, and its key unless one is    *)
(* given.  A file that does not parse is an error.                         *)
RegistryAdd(u, keyed) ==
    /\ StartLine
    /\ regs # Torn
    /\ LET known == {i \in DOMAIN regs : regs[i].url = u}
       IN  regs' = IF known = {} THEN Append(regs, [url |-> u, keyed |-> keyed])
                   ELSE [i \in DOMAIN regs |->
                           IF i \in known /\ keyed THEN [url |-> u, keyed |-> TRUE]
                                                  ELSE regs[i]]
    /\ UNCHANGED <<disk, conf, memory, job, marks>>

(* remove_registry; a URL is there once.                                   *)
RegistryRemove(u) ==
    /\ StartLine
    /\ regs # Torn
    /\ LET known == {i \in DOMAIN regs : regs[i].url = u}
       IN  regs' \in IF known = {} THEN {regs} ELSE {RemoveAt(regs, i) : i \in known}
    /\ UNCHANGED <<disk, conf, memory, job, marks>>

InstallLine(n, want) ==
    /\ StartLine
    /\ job' = IF Registries = <<>> THEN Idle ELSE Install(n, want, {})
    /\ UNCHANGED <<regs, disk, conf, memory, marks>>

UpdateLine(ns) ==
    /\ StartLine
    /\ \A n \in ns : pkgs[n] # None
    /\ job' \in Continue(ns)
    /\ UNCHANGED <<regs, disk, conf, memory, marks>>

RemoveLine(n) ==
    /\ StartLine
    /\ pkgs[n] # None \/ n \in broken
    /\ job' = [Idle EXCEPT !.pc = "unmark", !.name = n]
    /\ UNCHANGED <<regs, disk, conf, memory, marks>>

-----------------------------------------------------------------------------
(* grease_install up to the first write.                                   *)

Stage(pc) == up /\ job.pc = pc

(* fetch_index_entry: an index that cannot be had is one without the entry.*)
FetchIndex ==
    /\ Stage("index")
    /\ \E v \in {0, Latest(From(job), job.name)} :
          job' = [job EXCEPT !.seen = v, !.pc = "body"]
    /\ UNCHANGED <<world, regs, disk, conf, up, memory, view, lines, history>>

(* Variant of NextRegistry: the same registry again.                       *)
SameRegistry(j) == {[j EXCEPT !.pc = "index"]}

NextRegistry(j) ==
    IF j.at < Len(j.regs) THEN {[j EXCEPT !.at = j.at + 1, !.pc = "index"]}
                        ELSE Continue(j.rest)

FetchBody ==
    /\ Stage("body")
    /\ LET w == Latest(From(job), job.name)
       IN  \/ w # 0 /\ job' = [job EXCEPT !.got = w, !.pc = "verify"]
           \/ job' \in NextRegistry(job)
    /\ UNCHANGED <<world, regs, disk, conf, up, memory, view, lines, history>>

(* The checks, and those of the payload itself; then the kind decides.     *)
Verify ==
    /\ Stage("verify")
    /\ IF Accepted(From(job), job.seen, job.got) /\ NameAccepted(job.name, job.got)
         THEN job' = [job EXCEPT !.pc = IF Body(job).kind = "mcp" THEN "live" ELSE "payload",
                                 !.cur = job.name]
         ELSE job' \in Continue(job.rest)
    /\ UNCHANGED <<world, regs, disk, conf, up, memory, view, lines, history>>

(* initialize and tools/list must succeed, a prompt that cannot be had is  *)
(* skipped.  A prompt may have the server's own name.                      *)
Live ==
    /\ Stage("live")
    /\ \/ \E tools \in IF job.want THEN ToolLists ELSE {None},
            todo \in SUBSET Body(job).prompts :
            job' = [job EXCEPT !.tools = tools, !.todo = todo, !.pc = "payload"]
       \/ job' \in Continue(job.rest)
    /\ UNCHANGED <<world, regs, disk, conf, up, memory, view, lines, history>>

-----------------------------------------------------------------------------
(* persist_package and write_install_marker, for the package itself or for *)
(* a prompt.                                                               *)

(* The marker of the reserved name is registries.toml: whole it is not a   *)
(* list of registries, cut off it may be an empty one.                     *)
MarkerFile(n, file) ==
    IF n = Reserved
      THEN /\ regs' \in IF file \in Marker THEN {Torn}
                       ELSE IF file = Torn THEN {<<>>, Torn} ELSE {<<>>}
           /\ UNCHANGED marker
      ELSE marker' = [marker EXCEPT ![n] = file] /\ UNCHANGED regs

BeginPayload ==
    /\ Stage("payload")
    /\ payload' = [payload EXCEPT ![job.cur][PayloadOf(job).kind] = Torn]
    /\ job' = [job EXCEPT !.pc = "payloading"]
    /\ risk' = risk \cup {job.cur}
    /\ UNCHANGED <<world, regs, marker, conf, up, memory, view, lines, crashes, cut,
                   estranged, leftover>>

EndPayload ==
    /\ Stage("payloading")
    /\ payload' = [payload EXCEPT ![job.cur][PayloadOf(job).kind] = PayloadOf(job)]
    /\ job' = [job EXCEPT !.pc = "marker"]
    /\ UNCHANGED <<world, regs, marker, conf, up, memory, view, lines, history>>

(* A marker that is not the package's own, or is not read at boot.         *)
Estranging(j) == j.cur = Reserved \/ (j.prompt /\ j.cur = j.name)

BeginMarker ==
    /\ Stage("marker")
    /\ MarkerFile(job.cur, Torn)
    /\ job' = [job EXCEPT !.pc = "marking"]
    /\ estranged' = IF Estranging(job) THEN estranged \cup {job.cur}
                                       ELSE estranged \ {job.cur}
    /\ leftover' = leftover \ {job.cur}
    /\ UNCHANGED <<world, payload, conf, up, memory, view, lines, crashes, risk, cut>>

(* An MCP package next has its server registered, others are registered.   *)
EndMarker ==
    /\ Stage("marking")
    /\ MarkerFile(job.cur, MarkerOf(job))
    /\ job' = [job EXCEPT !.pc = IF MarkerOf(job).kind = "mcp" THEN "server" ELSE "register"]
    /\ UNCHANGED <<world, payload, conf, up, memory, view, lines, history>>

(* A write fails before it begins or half-way: what was written stays.     *)
WriteFails ==
    /\ IOErrors
    /\ up /\ job.pc \in Writing
    /\ job' \in GivenUp(job)
    /\ cut' = IF job.pc = "payload" THEN cut ELSE cut \cup {job.cur}
    /\ UNCHANGED <<world, regs, disk, conf, up, memory, view, lines, crashes, risk,
                   estranged, leftover>>

RegisterServer ==
    /\ Stage("server")
    /\ IF job.tools # None
         THEN /\ servers' = [servers EXCEPT ![job.name] = job.tools]
              /\ mver' = mver + 2
         ELSE UNCHANGED <<servers, mver>>
    /\ job' = [job EXCEPT !.pc = "next"]
    /\ UNCHANGED <<world, regs, disk, conf, up, pkgs, broken, gver, view, lines, history>>

(* The prompts one by one, then the package they came with.                *)
NextPrompt ==
    /\ Stage("next")
    /\ IF job.todo = {}
         THEN job' = [job EXCEPT !.cur = job.name, !.prompt = FALSE, !.pc = "register"]
         ELSE \E p \in job.todo :
                job' = [job EXCEPT !.cur = p, !.prompt = TRUE, !.todo = job.todo \ {p},
                                   !.pc = "payload"]
    /\ UNCHANGED <<world, regs, disk, conf, up, memory, view, lines, history>>

(* Variant of SetInstalled: the version stays when a package is replaced.  *)
SetInstalledQuietly(p) ==
    /\ pkgs' = [pkgs EXCEPT ![p.payload.as] = p]
    /\ gver' = IF pkgs[p.payload.as] = None THEN gver + 2 ELSE gver

(* GreaseState::set_installed removes and inserts: the version goes up by 2*)
SetInstalled(p) ==
    /\ pkgs' = [pkgs EXCEPT ![p.payload.as] = p]
    /\ gver' = gver + 2

Register ==
    /\ Stage("register")
    /\ SetInstalled([marker |-> MarkerOf(job), payload |-> PayloadOf(job)])
    /\ IF job.prompt THEN job' = [job EXCEPT !.pc = "next"]
                     ELSE job' \in Continue(job.rest)
    /\ risk' = risk \ {job.cur} /\ cut' = cut \ {job.cur}
    /\ UNCHANGED <<world, regs, disk, conf, up, broken, servers, mver, view, lines, crashes,
                   estranged, leftover>>

-----------------------------------------------------------------------------
(* grease_remove.  Each file is removed if it can be, and what comes of it *)
(* is not looked at.                                                       *)

(* Variant of RemoveMarker: the store goes first.                          *)
RemoveStoreFirst ==
    /\ Stage("unmark")
    /\ payload' = [payload EXCEPT ![job.name] = [k \in Kinds |-> Gone]]
    /\ job' = [job EXCEPT !.pc = "unstore"]
    /\ risk' = risk \cup {job.name}
    /\ UNCHANGED <<world, regs, marker, conf, up, memory, view, lines, crashes, cut,
                   estranged, leftover>>

RemoveMarker ==
    /\ Stage("unmark")
    /\ \/ MarkerFile(job.name, Gone) /\ leftover' = leftover \ {job.name}
       \/ /\ IOErrors
          /\ leftover' = leftover \cup {job.name}
          /\ UNCHANGED <<regs, marker>>
    /\ job' = [job EXCEPT !.pc = "unstore"]
    /\ risk' = risk \cup {job.name}
    /\ UNCHANGED <<world, payload, conf, up, memory, view, lines, crashes, cut, estranged>>

(* remove_dir_all may stop half-way.                                       *)
RemoveStore ==
    /\ Stage("unstore")
    /\ \E gone \in IF IOErrors THEN SUBSET Kinds ELSE {Kinds} :
          payload' = [payload EXCEPT ![job.name] =
                        [k \in Kinds |-> IF k \in gone THEN Gone ELSE @[k]]]
    /\ job' = [job EXCEPT !.pc = "forget"]
    /\ UNCHANGED <<world, regs, marker, conf, up, memory, view, lines, history>>

(* The installed package is forgotten, with its server and its config; or, *)
(* when only a broken one has the name, that.                              *)
Forget ==
    /\ Stage("forget")
    /\ LET n == job.name
           installed == pkgs[n] # None
           server == installed /\ pkgs[n].payload.kind = "mcp"
       IN  /\ pkgs' = [pkgs EXCEPT ![n] = None]
           /\ broken' = IF installed THEN broken ELSE broken \ {n}
           /\ \/ conf' = IF server THEN [conf EXCEPT ![n] = Gone] ELSE conf
              \/ IOErrors /\ UNCHANGED conf
           /\ servers' = IF server THEN [servers EXCEPT ![n] = None] ELSE servers
           /\ mver' = IF server THEN mver + 1 ELSE mver
           /\ risk' = risk \ {n}
           /\ IF n \in leftover
                THEN cut' = cut /\ estranged' = estranged \cup {n}
                ELSE cut' = cut \ {n} /\ estranged' = estranged \ {n}
    /\ gver' = gver + 1
    /\ job' = Idle
    /\ UNCHANGED <<world, regs, disk, up, view, lines, crashes, leftover>>

-----------------------------------------------------------------------------
(* The mcp family, on the same servers: one step each, since what it holds *)
(* for itself between its awaits is nobody else's.                         *)

(* Variant of McpInstall: what came of it is cached, a failure too.        *)
McpInstallCachingAll(n, c) ==
    /\ \E result \in ToolLists \cup {Failed} :
         /\ servers' = [servers EXCEPT ![n] = result]
         /\ conf' = [conf EXCEPT ![n] = result]
    /\ mver' = mver + 2

(* mcp_install: c is the config file it leaves, a cached tool list only if *)
(* the second save went well.                                              *)
McpInstall(n, c) ==
    /\ \/ servers' = [servers EXCEPT ![n] = Failed] /\ conf' = [conf EXCEPT ![n] = c]
       \/ \E tools \in ToolLists :
            /\ servers' = [servers EXCEPT ![n] = tools]
            /\ \/ conf' = [conf EXCEPT ![n] = tools]
               \/ IOErrors /\ conf' = [conf EXCEPT ![n] = Torn]
    /\ mver' = mver + 2

McpAdd(n) ==
    /\ StartLine
    /\ \/ McpInstall(n, Bare)
       \/ IOErrors /\ conf' = [conf EXCEPT ![n] = Torn] /\ UNCHANGED <<servers, mver>>
    /\ UNCHANGED <<regs, disk, pkgs, broken, gver, job, marks>>

McpReload(n) ==
    /\ StartLine
    /\ conf[n] \notin {Gone, Torn}
    /\ McpInstall(n, conf[n])
    /\ UNCHANGED <<regs, disk, pkgs, broken, gver, job, marks>>

McpRemove(n) ==
    /\ StartLine
    /\ conf[n] # Gone
    /\ conf' = [conf EXCEPT ![n] = Gone]
    /\ servers' = [servers EXCEPT ![n] = None]
    /\ mver' = mver + 1
    /\ UNCHANGED <<regs, disk, pkgs, broken, gver, job, marks>>

-----------------------------------------------------------------------------
(* The process ends at any moment, and starts again.                       *)

NoView == [key |-> -1, surface |-> <<>>]

Dead ==
    /\ up' = FALSE
    /\ pkgs' = [n \in Names |-> None] /\ broken' = {} /\ gver' = 0
    /\ servers' = [n \in Names |-> None] /\ mver' = 0
    /\ view' = NoView
    /\ job' = Idle
    /\ crashes' = crashes + 1
    /\ cut' = cut \cup risk

Crash ==
    /\ up /\ crashes < MaxCrashes
    /\ Dead
    /\ UNCHANGED <<world, regs, disk, conf, lines, risk, estranged, leftover>>

(* It ends while a server's config is being written.                       *)
CrashInMcp(n) ==
    /\ up /\ job = Idle /\ lines < MaxLines /\ crashes < MaxCrashes
    /\ Dead
    /\ conf' = [conf EXCEPT ![n] = Torn]
    /\ lines' = lines + 1
    /\ UNCHANGED <<world, regs, disk, risk, estranged, leftover>>

(* Clank::new and reconstruct_mcp; each server set bumps the version by 2. *)
Boot ==
    /\ ~up
    /\ up' = TRUE
    /\ pkgs' = [n \in Names |-> Loaded(n)]
    /\ broken' = Unloadable
    /\ servers' = [n \in Names |-> Reconstructed(n)]
    /\ mver' = 2 * Cardinality({n \in Names : Reconstructed(n) # None})
    /\ risk' = {} /\ estranged' = {}
    /\ UNCHANGED <<world, regs, disk, conf, gver, view, job, lines, crashes, cut, leftover>>

(* A package installed in an earlier session, from an unsigned registry.   *)
OldPayload(first) ==
    [as |-> first.name, kind |-> first.kind, ver |-> 1,
     tools |-> IF first.kind = "mcp" THEN CHOOSE t \in ToolLists : TRUE ELSE None]

OldMarker(first) ==
    [kind |-> first.kind, ver |-> 1, url |-> first.url, verified |-> first.listed,
     signed |-> FALSE, logged |-> FALSE]

(* The process is about to start, on a disk that may hold such a package.  *)
Init ==
    /\ \E k \in OldLogs :
         /\ log = [u \in Urls |-> [i \in 1..k |-> -i]]
         /\ \E first \in FirstOffers, installed \in BOOLEAN :
              LET here(n) == installed /\ n = first.name
              IN  /\ releases = <<[offer |-> first, size |-> k]>>
                  /\ payload = [n \in Names |-> [kind \in Kinds |->
                       IF here(n) /\ kind = first.kind THEN OldPayload(first) ELSE Gone]]
                  /\ marker = [n \in Names |-> IF here(n) THEN OldMarker(first) ELSE Gone]
    /\ regs \in FirstRegs
    /\ conf = [n \in Names |-> Gone]
    /\ up = FALSE
    /\ pkgs = [n \in Names |-> None] /\ broken = {} /\ gver = 0
    /\ servers = [n \in Names |-> None] /\ mver = 0
    /\ view = NoView
    /\ job = Idle
    /\ lines = 0 /\ crashes = 0 /\ risk = {} /\ cut = {}
    /\ estranged = {} /\ leftover = {}

Line ==
    \/ OtherLine
    \/ \E u \in Urls : RegistryRemove(u) \/ \E keyed \in BOOLEAN : RegistryAdd(u, keyed)
    \/ \E n \in Names, want \in BOOLEAN : InstallLine(n, want)
    \/ \E n \in Names : UpdateLine({n})
    \/ UpdateLine({n \in Names : pkgs[n] # None})
    \/ \E n \in Names : RemoveLine(n)
    \/ \E n \in ServerNames : McpAdd(n) \/ McpReload(n) \/ McpRemove(n)

Fetch == FetchIndex \/ FetchBody \/ Verify \/ Live

Write == \/ BeginPayload \/ EndPayload \/ BeginMarker \/ EndMarker \/ WriteFails
         \/ RegisterServer \/ NextPrompt \/ Register

Uninstall == RemoveMarker \/ RemoveStore \/ Forget

Step == Fetch \/ Write \/ Uninstall

Next ==
    \/ \E offer \in Offers : Publish(offer)
    \/ Line \/ Step
    \/ Crash \/ (\E n \in ServerNames : CrashInMcp(n)) \/ Boot

Spec == Init /\ [][Next]_vars

(* A line is a future that is polled until it is ready; what it awaits, a  *)
(* registry or a server, answers or fails.                                 *)
FairSpec == Spec /\ WF_vars(Step)

-----------------------------------------------------------------------------
(* Properties.                                                             *)

View == [key : Int, surface : {<<>>} \cup [Names -> Package \cup {None}]
                                         \X [Names -> ToolLists \cup {None, Failed}]]

Jobs == [pc : Stages, name : Names \cup {None}, want : BOOLEAN, regs : Seq(Registry),
         at : Nat, seen : Nat, got : Nat, tools : ToolLists \cup {None},
         cur : Names \cup {None}, prompt : BOOLEAN,
         todo : SUBSET Names, rest : SUBSET Names]

(* What is on disk, in memory and in progress is what the code can have    *)
(* there; memory holds whole packages only, however broken the disk is.    *)
TypeOK ==
    /\ releases \in Seq(Release) /\ log \in [Urls -> Seq(Int)]
    /\ regs \in Seq(Registry) \cup {Torn}
    /\ payload \in [Names -> [Kinds -> Payload \cup {Gone, Torn}]]
    /\ marker \in [Names -> Marker \cup {Gone, Torn}]
    /\ conf \in [Names -> ToolLists \cup {Gone, Torn, Bare}]
    /\ pkgs \in [Names -> Package \cup {None}]
    /\ broken \subseteq Names
    /\ servers \in [Names -> ToolLists \cup {None, Failed}]
    /\ gver \in Nat /\ mver \in Nat /\ up \in BOOLEAN /\ view \in View
    /\ job \in Jobs
    /\ lines \in Nat /\ crashes \in Nat /\ risk \subseteq Names /\ cut \subseteq Names
    /\ estranged \subseteq Names /\ leftover \subseteq Names

(* At every moment, so also in what a crash leaves behind: where there is  *)
(* a whole marker, there is a payload of its kind, unless a removal could  *)
(* not unlink the marker and went on to the payload.  A package that boot  *)
(* cannot load was cut off while one of its files was being written.       *)
MarkerHasPayload ==
    \A n \in Names \ leftover :
        marker[n] \in Marker => payload[n][marker[n].kind] # Gone

(* The packages in memory are those a restart would load: what a line      *)
(* reported as done survives, and what it removed stays removed.  But for  *)
(* the names whose write or removal is under way or has failed, and for    *)
(* those where it was reported as done and is not: see estranged.          *)
RestartKeeps ==
    up => \A n \in Names \ (risk \cup estranged) : pkgs[n] = Loaded(n)

(* What the marker says of a package was earned by that release: the       *)
(* registry has it, with its digest and with its signature.  And marker    *)
(* and payload are of one release, unless a write was cut short.           *)
FlagsEarned ==
    \A n \in Names : pkgs[n] # None =>
      LET m == pkgs[n].marker
          offer == OfferOf(m.ver)
      IN  /\ m.ver # pkgs[n].payload.ver => n \in cut
          /\ m.url = offer.url
          /\ m.verified => offer.listed /\ offer.hashed
          /\ m.signed => m.verified /\ offer.signed

(* A package said to be logged is the leaf of the tree whose root its own  *)
(* index entry advertises, at the place the entry gives.  That the root is *)
(* the log's own is the registry's word: nothing is said of that.          *)
LoggedEarned ==
    \A n \in Names : pkgs[n] # None /\ pkgs[n].marker.logged =>
      LET v == pkgs[n].marker.ver
      IN  /\ ProofIndex(v) + 1 \in DOMAIN Advertised(v)
          /\ Advertised(v)[ProofIndex(v) + 1] = v

(* A view that counts as current shows the packages and servers there are. *)
ViewFresh == up /\ view.key = Version => view.surface = Surface

(* Whatever state of its log a registry hands out a proof against, the     *)
(* walk decides membership: trees of every size up to that of the log.     *)
ProofDecides ==
    job.pc = "verify" =>
      \A k \in 1..Len(log[From(job)]) : DecidesInclusion(SubSeq(log[From(job)], 1, k))

(* Every line comes to its end, or the process does.                       *)
Ends == job # Idle ~> job = Idle

(* The store is a durable set of packages, of which those that are not as  *)
(* the disk has them stay at risk: see PackageSet.                         *)
Listing == [n \in Names |-> IF up THEN pkgs[n] ELSE Loaded(n)]

Abstract == INSTANCE PackageSet WITH installed <- Listing, risk <- risk \cup estranged

Durable == Abstract!Spec
=============================================================================
