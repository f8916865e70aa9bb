------------------------- MODULE GreaseStore_proofs -------------------------
(***************************************************************************)
(* What the package store keeps for any packages, kinds, registries,       *)
(* servers and bounds, whenever the process dies.                          *)
(***************************************************************************)
EXTENDS GreaseStore, Merkle_proofs, FiniteSetTheorems, SequenceTheorems, WellFoundedInduction,
        TLAPS

(* What is written for the package itself, whatever is being written now.  *)
(* Its payload stays; its marker too, unless a prompt of its name took it. *)
Main(j) == [j EXCEPT !.cur = j.name, !.prompt = FALSE]
MainKept ==
    /\ job.name \in risk \cup estranged
    /\ payload[job.name][PayloadOf(Main(job)).kind] = PayloadOf(Main(job))
    /\ marker[job.name] = MarkerOf(Main(job)) \/ job.name \in estranged

Prompting == job.pc \in Writing \cup {"register"} /\ job.prompt
Chosen == {"live", "server", "next", "register"} \cup Writing

(* Where the job stands: what it goes by is there.                         *)
JobWhere ==
    /\ ~up => job = Idle
    /\ job.pc # "idle" => job.name \in Names
    /\ job.pc \in Fetching \cup Chosen => job.at \in DOMAIN job.regs
    /\ job.seen # 0 => job.seen \in DOMAIN releases
    /\ job.pc \in {"verify"} \cup Chosen => job.got \in DOMAIN releases
    /\ job.pc \in Chosen => job.cur \in Names /\ ~Body(job).misnamed
    /\ job.pc \in Chosen /\ ~job.prompt => job.cur = job.name
    /\ job.pc \in Fetching \cup {"server"} => ~job.prompt
    /\ job.pc \in {"live", "server", "next"} \/ Prompting => Body(job).kind = "mcp"

(* What it has done so far is on disk, and what it has begun is at risk.   *)
JobDone ==
    /\ job.pc \in {"payloading", "marker", "marking"} => job.cur \in risk
    /\ job.pc \in {"marker", "marking", "register"} =>
         payload[job.cur][PayloadOf(job).kind] = PayloadOf(job)
    /\ job.pc = "marking" /\ job.cur = Reserved => job.cur \in estranged
    /\ job.pc \in {"marking", "register"} /\ job.prompt /\ job.cur = job.name =>
         job.cur \in estranged
    /\ job.pc = "register" => /\ job.cur \in risk \cup estranged
                              /\ marker[job.cur] = MarkerOf(job) \/ job.cur \in estranged
    /\ job.pc \in {"server", "next"} \/ Prompting => MainKept
    /\ job.pc \in {"unstore", "forget"} =>
         job.name \in risk /\ (marker[job.name] = Gone \/ job.name \in leftover)

(* The marker of the reserved name is another file.                        *)
ReservedGone == Reserved \in Names => marker[Reserved] = Gone

(* The inductive invariant.  Neither MarkerHasPayload nor RestartKeeps is  *)
(* inductive: that a marker may be written, or a package registered, rests *)
(* on what the earlier steps of the same line left on disk.                *)
Inv == TypeOK /\ JobWhere /\ JobDone /\ ReservedGone /\ MarkerHasPayload /\ RestartKeeps

-----------------------------------------------------------------------------
LEMMA GreatestExists ==
    ASSUME NEW n \in Nat, NEW S \in SUBSET (1..n), S # {}
    PROVE  \E v \in S : \A w \in S : w =< v
<1> DEFINE R == OpToRel(<, Nat)
           Above == {n - v : v \in S}
<1>1. IsWellFoundedOn(R, Nat)
  BY NatLessThanWellFounded
<1>2. \A x, y \in Nat : <<x, y>> \in R <=> x < y
  BY DEF OpToRel
<1> HIDE DEF R
<1>3. Above \subseteq Nat /\ Above # {}
  <2>1. ASSUME NEW v \in S PROVE n - v \in Nat
    OBVIOUS
  <2>2. Above # {}
    OBVIOUS
  <2> QED
    BY <2>1, <2>2
<1>4. PICK least \in Above : \A m \in Above : ~(<<m, least>> \in R)
  BY <1>1, <1>3, WFMin
<1>5. PICK v \in S : least = n - v
  OBVIOUS
<1>6. ASSUME NEW w \in S PROVE w =< v
  <2>1. n - w \in Above /\ n - w \in Nat /\ n - v \in Nat
    OBVIOUS
  <2>2. ~(n - w < n - v)
    BY <1>2, <1>4, <1>5, <2>1
  <2>3. v \in Int /\ w \in Int
    OBVIOUS
  <2> QED
    BY <2>2, <2>3
<1> QED
  BY <1>6

(* The releases a registry has of a package end with one, if it has any.   *)
LEMMA LatestType ==
    ASSUME releases \in Seq(Release), NEW u, NEW n
    PROVE  Latest(u, n) \in Nat /\ (Latest(u, n) # 0 => Latest(u, n) \in DOMAIN releases)
<1> DEFINE of == {v \in DOMAIN releases : OfferOf(v).url = u /\ OfferOf(v).name = n}
<1>1. /\ Len(releases) \in Nat
      /\ DOMAIN releases = 1..Len(releases)
      /\ of \in SUBSET (1..Len(releases))
  OBVIOUS
<1> HIDE DEF of
<1>2. CASE of = {}
  BY <1>2 DEF Latest, of
<1>3. CASE of # {}
  <2>1. \E v \in of : \A w \in of : w =< v
    BY <1>1, <1>3, GreatestExists
  <2>2. Latest(u, n) \in of
    BY <1>3, <2>1 DEF Latest, of
  <2>3. Latest(u, n) \in DOMAIN releases
    BY <2>2 DEF of
  <2> QED
    BY <1>1, <2>3
<1> QED
  BY <1>2, <1>3

-----------------------------------------------------------------------------
(* The constants that stand for nothing are none of the things there are.  *)
LEMMA NothingElse ==
    /\ \A m \in Marker : m # Gone /\ m # Torn
    /\ \A p \in Payload : p # Gone /\ p # Torn
    /\ \A p \in Package : p # None
    /\ \A t \in ToolLists : t # Gone /\ t # Torn /\ t # Bare /\ t # Failed /\ t # None
BY GreaseAssumption DEF Nothing

LEMMA OfferType ==
    ASSUME releases \in Seq(Release), NEW v \in DOMAIN releases
    PROVE  /\ OfferOf(v) \in Offer
           /\ OfferOf(v).kind \in Kinds /\ OfferOf(v).url \in Urls
           /\ OfferOf(v).prompts \subseteq Names
<1>1. releases[v] \in Release
  OBVIOUS
<1>2. OfferOf(v) \in Offer
  BY <1>1, GreaseAssumption DEF OfferOf, Release
<1> QED
  BY <1>2 DEF Offer

(* What a job writes is of the right type and bears the name it is written *)
(* under; the marker is of the payload's kind.                             *)
LEMMA WrittenType ==
    ASSUME TypeOK, JobWhere, job.pc \in Chosen
    PROVE  /\ PayloadOf(job) \in Payload /\ MarkerOf(job) \in Marker
           /\ PayloadOf(job).as = job.cur
           /\ PayloadOf(job).kind = MarkerOf(job).kind
           /\ ~job.prompt => MarkerOf(job).kind = Body(job).kind /\ job.cur = job.name
           /\ job.prompt => MarkerOf(job).kind = "prompt"
<1>1. /\ job \in Jobs /\ job.cur \in Names /\ job.name \in Names /\ ~Body(job).misnamed
      /\ job.got \in DOMAIN releases /\ job.at \in DOMAIN job.regs
      /\ job.prompt \/ job.cur = job.name
  BY DEF TypeOK, JobWhere, Chosen, Writing
<1>2. releases \in Seq(Release) /\ job.regs \in Seq(Registry)
  BY <1>1 DEF TypeOK, Jobs
<1>3. Body(job).kind \in Kinds
  BY <1>1, <1>2, OfferType DEF Body
<1>4. From(job) \in Urls
  <2>1. job.regs[job.at] \in Registry
    BY <1>1, <1>2
  <2> QED
    BY <2>1 DEF From, Registry
<1>5. job.got \in Nat /\ job.tools \in ToolLists \cup {None} /\ job.prompt \in BOOLEAN
  BY <1>1 DEF Jobs
<1>6. "prompt" \in Kinds
  BY GreaseAssumption
<1>7. CASE job.prompt
  BY <1>1, <1>4, <1>5, <1>6, <1>7 DEF PayloadOf, MarkerOf, Payload, Marker
<1>8. CASE ~job.prompt
  <2>1. /\ PayloadOf(job) = [as |-> job.name, kind |-> Body(job).kind, ver |-> job.got,
                             tools |-> job.tools]
        /\ MarkerOf(job) = [kind |-> Body(job).kind, ver |-> job.got, url |-> From(job),
                            verified |-> Listed(job.seen), signed |-> Keyed(From(job)),
                            logged |-> Proved(From(job), job.seen)]
    BY <1>1, <1>8 DEF PayloadOf, MarkerOf
  <2>2. /\ Listed(job.seen) \in BOOLEAN /\ Keyed(From(job)) \in BOOLEAN
        /\ Proved(From(job), job.seen) \in BOOLEAN
    BY DEF Listed, Keyed, Proved
  <2>3. PayloadOf(job) \in Payload
    BY <1>1, <1>3, <1>5, <2>1 DEF Payload
  <2>4. MarkerOf(job) \in Marker
    BY <1>3, <1>4, <1>5, <2>1, <2>2 DEF Marker
  <2> QED
    BY <1>1, <1>8, <2>1, <2>3, <2>4
<1> QED
  BY <1>7, <1>8

(* It depends on the fields below, and on the releases they name.          *)
SameJob ==
    /\ job \in Jobs /\ job' \in Jobs
    /\ job'.name = job.name /\ job'.at = job.at /\ job'.seen = job.seen
    /\ job'.got = job.got /\ job'.tools = job.tools
    /\ job'.regs = job.regs
    /\ releases'[job.got].offer = releases[job.got].offer
    /\ job.seen # 0 => releases'[job.seen].offer = releases[job.seen].offer

LEMMA MainSame ==
    ASSUME SameJob
    PROVE  PayloadOf(Main(job))' = PayloadOf(Main(job)) /\ MarkerOf(Main(job))' = MarkerOf(Main(job))
<1>1. /\ Main(job).cur = job.name /\ Main(job).name = job.name /\ Main(job).at = job.at
      /\ ~Main(job).prompt /\ Main(job).regs = job.regs
      /\ Main(job).seen = job.seen /\ Main(job).got = job.got /\ Main(job).tools = job.tools
  BY DEF SameJob, Jobs, Main
<1>2. /\ Main(job)'.cur = job.name /\ Main(job)'.name = job.name /\ Main(job)'.at = job.at
      /\ ~Main(job)'.prompt /\ Main(job)'.regs = job.regs
      /\ Main(job)'.seen = job.seen /\ Main(job)'.got = job.got /\ Main(job)'.tools = job.tools
  BY DEF SameJob, Jobs, Main
<1> QED
  BY <1>1, <1>2 DEF SameJob, PayloadOf, MarkerOf, Body, From, OfferOf, Listed, Keyed, Proved

LEMMA WrittenSame ==
    ASSUME SameJob, job'.cur = job.cur, job'.prompt = job.prompt
    PROVE  PayloadOf(job)' = PayloadOf(job) /\ MarkerOf(job)' = MarkerOf(job)
BY DEF SameJob, PayloadOf, MarkerOf, Body, From, OfferOf, Listed, Keyed, Proved

LEMMA MainWritten ==
    ASSUME job \in Jobs, job.cur = job.name, ~job.prompt
    PROVE  PayloadOf(Main(job)) = PayloadOf(job) /\ MarkerOf(Main(job)) = MarkerOf(job)
<1>1. Main(job) = job
  BY DEF Main, Jobs
<1> QED
  BY <1>1

-----------------------------------------------------------------------------
(* A job that has just been started, or none.                              *)
Fresh(j) ==
    /\ j \in Jobs /\ j.pc \in {"idle", "index"}
    /\ j.pc = "index" => j.name \in Names /\ j.at \in DOMAIN j.regs
    /\ j.seen = 0 /\ ~j.prompt

LEMMA IdleFresh == Fresh(Idle)
BY DEF Fresh, Idle, Jobs, Stages, Fetching, Writing, Removing

LEMMA RegistriesType ==
    ASSUME TypeOK
    PROVE  Registries \in Seq(Registry)
BY DEF TypeOK, Registries

LEMMA InstallFresh ==
    ASSUME NEW n \in Names, NEW want \in BOOLEAN, NEW rest \in SUBSET Names,
           TypeOK, Registries # <<>>
    PROVE  Fresh(Install(n, want, rest))
<1> DEFINE list == Registries
<1>1. list \in Seq(Registry) /\ list # <<>>
  BY RegistriesType
<1> HIDE DEF list
<1>2. 1 \in DOMAIN list
  BY <1>1
<1>3. Install(n, want, rest) = [Idle EXCEPT !.pc = "index", !.name = n, !.want = want,
                                            !.regs = list, !.at = 1, !.rest = rest]
  BY DEF Install, list
<1>4. Install(n, want, rest) =
        [pc |-> "index", name |-> n, want |-> want, regs |-> list, at |-> 1, seen |-> 0,
         got |-> 0, tools |-> None, cur |-> None, prompt |-> FALSE, todo |-> {}, rest |-> rest]
  BY <1>3 DEF Idle
<1> QED
  BY <1>1, <1>2, <1>4 DEF Fresh, Jobs, Stages, Fetching

LEMMA ContinueFresh ==
    ASSUME NEW rest \in SUBSET Names, TypeOK, NEW j \in Continue(rest)
    PROVE  Fresh(j)
<1>1. \A n \in Names : KeptTools(n) \in BOOLEAN
  BY DEF KeptTools
<1>2. CASE Registries = <<>> \/ rest = {}
  BY <1>2, IdleFresh DEF Continue
<1>3. CASE ~(Registries = <<>> \/ rest = {})
  <2>1. PICK n \in rest : j = Install(n, KeptTools(n), rest \ {n})
    BY <1>3 DEF Continue
  <2> QED
    BY <1>1, <1>3, <2>1, InstallFresh
<1> QED
  BY <1>2, <1>3

LEMMA FreshJob ==
    ASSUME Fresh(job)', ~up' => job' = Idle
    PROVE  JobWhere' /\ JobDone'
BY DEF Fresh, JobWhere, JobDone, Prompting, Fetching, Chosen, Writing

(* What the disk and the packages in memory are to each other stays.       *)
LEMMA StoreKept ==
    ASSUME ReservedGone, MarkerHasPayload, RestartKeeps,
           UNCHANGED <<disk, pkgs, up, risk, estranged, leftover>>
    PROVE  ReservedGone' /\ MarkerHasPayload' /\ RestartKeeps'
BY DEF ReservedGone, MarkerHasPayload, RestartKeeps, Loaded, disk

-----------------------------------------------------------------------------
(* The steps that change the job alone.                                    *)
OnlyJob == UNCHANGED <<world, regs, disk, conf, up, memory, view, lines, history>>

LEMMA OnlyJobType ==
    ASSUME TypeOK, OnlyJob, job' \in Jobs
    PROVE  TypeOK'
BY DEF TypeOK, OnlyJob, world, disk, memory, history, marks

LEMMA OnlyJobStore ==
    ASSUME Inv, OnlyJob
    PROVE  ReservedGone' /\ MarkerHasPayload' /\ RestartKeeps'
BY StoreKept DEF Inv, OnlyJob, memory, history, marks

LEMMA OnlyJobFresh ==
    ASSUME Inv, OnlyJob, up, Fresh(job')
    PROVE  Inv'
<1>1. up'
  BY DEF OnlyJob
<1>2. Fresh(job)'
  BY DEF Fresh
<1>3. JobWhere' /\ JobDone'
  BY <1>1, <1>2, FreshJob
<1> QED
  BY <1>3, OnlyJobType, OnlyJobStore DEF Inv, Fresh

LEMMA FetchIndexInv ==
    ASSUME Inv, FetchIndex
    PROVE  Inv'
<1>1. PICK v \in {0, Latest(From(job), job.name)} :
        job' = [job EXCEPT !.seen = v, !.pc = "body"]
  BY DEF FetchIndex
<1>2. OnlyJob /\ up /\ job.pc = "index" /\ job \in Jobs
  BY DEF FetchIndex, OnlyJob, Stage, Inv, TypeOK
<1>3. v \in Nat /\ (v # 0 => v \in DOMAIN releases)
  BY LatestType DEF Inv, TypeOK
<1>4. job' \in Jobs /\ job'.pc = "body" /\ job'.name = job.name /\ job'.at = job.at
      /\ job'.seen = v /\ job'.regs = job.regs /\ job'.prompt = job.prompt
  BY <1>1, <1>2, <1>3 DEF Jobs, Stages, Fetching
<1>5. JobWhere'
  BY <1>2, <1>3, <1>4 DEF Inv, JobWhere, OnlyJob, world, Prompting, Fetching, Chosen, Writing
<1>6. JobDone'
  BY <1>4 DEF JobDone, Prompting, Writing
<1> QED
  BY <1>2, <1>4, <1>5, <1>6, OnlyJobType, OnlyJobStore DEF Inv

LEMMA NextRegistryFresh ==
    ASSUME Inv, up, job.pc = "body", OnlyJob, job' \in NextRegistry(job)
    PROVE  Inv'
<1>1. /\ job \in Jobs /\ job.regs \in Seq(Registry) /\ job.at \in DOMAIN job.regs
      /\ job.name \in Names /\ TypeOK
  BY DEF Inv, TypeOK, JobWhere, Fetching, Jobs
<1>2. CASE job.at < Len(job.regs)
  <2>1. job' = [job EXCEPT !.at = job.at + 1, !.pc = "index"]
    BY <1>2 DEF NextRegistry
  <2>2. job.at + 1 \in Nat /\ job.at + 1 \in DOMAIN job.regs
    BY <1>1, <1>2
  <2>3. job' \in Jobs /\ job'.pc = "index" /\ job'.name = job.name /\ job'.at = job.at + 1
        /\ job'.seen = job.seen /\ job'.regs = job.regs /\ job'.prompt = job.prompt
    BY <1>1, <2>1, <2>2 DEF Jobs, Stages, Fetching
  <2>4. JobWhere'
    BY <1>1, <2>2, <2>3 DEF Inv, JobWhere, OnlyJob, world, Prompting, Fetching, Chosen, Writing
  <2>5. JobDone'
    BY <2>3 DEF JobDone, Prompting, Writing
  <2> QED
    BY <2>3, <2>4, <2>5, OnlyJobType, OnlyJobStore DEF Inv
<1>3. CASE ~(job.at < Len(job.regs))
  <2>1. job' \in Continue(job.rest) /\ job.rest \in SUBSET Names
    BY <1>1, <1>3 DEF NextRegistry, Jobs
  <2> QED
    BY <1>1, <2>1, ContinueFresh, OnlyJobFresh
<1> QED
  BY <1>2, <1>3

LEMMA FetchBodyInv ==
    ASSUME Inv, FetchBody
    PROVE  Inv'
<1> DEFINE w == Latest(From(job), job.name)
<1>1. OnlyJob /\ up /\ job.pc = "body" /\ job \in Jobs
  BY DEF FetchBody, OnlyJob, Stage, Inv, TypeOK
<1>2. CASE w # 0 /\ job' = [job EXCEPT !.got = w, !.pc = "verify"]
  <2>1. w \in Nat /\ w \in DOMAIN releases
    BY <1>2, LatestType DEF Inv, TypeOK
  <2> HIDE DEF w
  <2>2. job' \in Jobs /\ job'.pc = "verify" /\ job'.name = job.name /\ job'.at = job.at
        /\ job'.seen = job.seen /\ job'.got = w /\ job'.regs = job.regs
        /\ job'.prompt = job.prompt
    BY <1>1, <1>2, <2>1 DEF Jobs, Stages, Fetching
  <2>3. JobWhere'
    BY <1>1, <2>1, <2>2 DEF Inv, JobWhere, OnlyJob, world, Prompting, Fetching, Chosen, Writing
  <2>4. JobDone'
    BY <2>2 DEF JobDone, Prompting, Writing
  <2> QED
    BY <1>1, <2>2, <2>3, <2>4, OnlyJobType, OnlyJobStore DEF Inv
<1>3. CASE job' \in NextRegistry(job)
  BY <1>1, <1>3, NextRegistryFresh
<1> QED
  BY <1>2, <1>3 DEF FetchBody

LEMMA VerifyInv ==
    ASSUME Inv, Verify
    PROVE  Inv'
<1> DEFINE good == Accepted(From(job), job.seen, job.got) /\ NameAccepted(job.name, job.got)
<1>1. /\ OnlyJob /\ up /\ job.pc = "verify" /\ job \in Jobs /\ TypeOK
      /\ job.got \in DOMAIN releases /\ job.name \in Names
  BY DEF Verify, OnlyJob, Stage, Inv, TypeOK, JobWhere
<1>2. CASE good
  <2>1. job' = [job EXCEPT !.pc = IF Body(job).kind = "mcp" THEN "live" ELSE "payload",
                           !.cur = job.name]
    BY <1>2 DEF Verify
  <2>2. /\ job' \in Jobs /\ job'.pc \in {"live", "payload"} /\ job'.name = job.name
        /\ job'.at = job.at /\ job'.seen = job.seen /\ job'.got = job.got
        /\ job'.cur = job.name /\ job'.regs = job.regs /\ job'.prompt = job.prompt
        /\ job'.pc = "live" => Body(job).kind = "mcp"
    BY <1>1, <2>1 DEF Jobs, Stages, Fetching, Writing
  <2>3. ~Body(job).misnamed /\ Body(job)' = Body(job)
    BY <1>1, <1>2, <2>2 DEF NameAccepted, Body, OfferOf, OnlyJob, world
  <2>4. JobWhere'
    BY <1>1, <2>2, <2>3 DEF Inv, JobWhere, OnlyJob, world, Prompting, Fetching, Chosen, Writing
  <2>5. JobDone'
    BY <1>1, <2>2 DEF Inv, JobWhere, JobDone, Prompting, Fetching, Writing
  <2> QED
    BY <1>1, <2>2, <2>4, <2>5, OnlyJobType, OnlyJobStore DEF Inv
<1>3. CASE ~good
  <2>1. job' \in Continue(job.rest) /\ job.rest \in SUBSET Names
    BY <1>1, <1>3 DEF Verify, Jobs
  <2> QED
    BY <1>1, <2>1, ContinueFresh, OnlyJobFresh
<1> QED
  BY <1>2, <1>3

LEMMA LiveInv ==
    ASSUME Inv, Live
    PROVE  Inv'
<1>1. /\ OnlyJob /\ up /\ job.pc = "live" /\ job \in Jobs /\ TypeOK
      /\ job.got \in DOMAIN releases /\ releases \in Seq(Release) /\ ~job.prompt
  BY DEF Live, OnlyJob, Stage, Inv, TypeOK, JobWhere, Chosen, Fetching
<1>2. CASE \E tools \in IF job.want THEN ToolLists ELSE {None},
              todo \in SUBSET Body(job).prompts :
              job' = [job EXCEPT !.tools = tools, !.todo = todo, !.pc = "payload"]
  <2>1. PICK tools \in ToolLists \cup {None}, todo \in SUBSET Body(job).prompts :
          job' = [job EXCEPT !.tools = tools, !.todo = todo, !.pc = "payload"]
    BY <1>2
  <2>2. todo \subseteq Names
    BY <1>1, OfferType DEF Body
  <2>3. /\ job' \in Jobs /\ job'.pc = "payload" /\ job'.name = job.name
        /\ job'.at = job.at /\ job'.seen = job.seen /\ job'.got = job.got
        /\ job'.cur = job.cur /\ job'.regs = job.regs /\ job'.prompt = job.prompt
    BY <1>1, <2>1, <2>2 DEF Jobs, Stages, Writing
  <2>4. Body(job)' = Body(job)
    BY <1>1, <2>3 DEF Body, OfferOf, OnlyJob, world
  <2>5. JobWhere'
    BY <1>1, <2>2, <2>3, <2>4
       DEF Inv, JobWhere, OnlyJob, world, Prompting, Fetching, Chosen, Writing
  <2>6. JobDone'
    BY <1>1, <2>3 DEF JobDone, Prompting, Writing
  <2> QED
    BY <1>1, <2>3, <2>5, <2>6, OnlyJobType, OnlyJobStore DEF Inv
<1>3. CASE job' \in Continue(job.rest)
  <2>1. job.rest \in SUBSET Names
    BY <1>1 DEF Jobs
  <2> QED
    BY <1>1, <1>3, <2>1, ContinueFresh, OnlyJobFresh
<1> QED
  BY <1>2, <1>3 DEF Live

-----------------------------------------------------------------------------
(* The steps of an installation that write.                                *)

(* A job that goes on in the same way still writes the same.               *)
LEMMA GoesOn ==
    ASSUME job \in Jobs, UNCHANGED releases, NEW pc \in Stages,
           job' = [job EXCEPT !.pc = pc]
    PROVE  /\ SameJob /\ job'.cur = job.cur /\ job'.pc = pc /\ job'.prompt = job.prompt
           /\ Body(job)' = Body(job)
           /\ PayloadOf(job)' = PayloadOf(job) /\ MarkerOf(job)' = MarkerOf(job)
           /\ PayloadOf(Main(job))' = PayloadOf(Main(job))
           /\ MarkerOf(Main(job))' = MarkerOf(Main(job))
<1>1. SameJob /\ job'.cur = job.cur /\ job'.pc = pc /\ job'.prompt = job.prompt
  BY DEF SameJob, Jobs
<1>2. Body(job)' = Body(job)
  BY <1>1 DEF SameJob, Body, OfferOf
<1> QED
  BY <1>1, <1>2, MainSame, WrittenSame

(* Under a server's own name a prompt is another payload, of another kind. *)
LEMMA MainStays ==
    ASSUME Inv, Prompting, SameJob, NEW x,
           payload' = [payload EXCEPT ![job.cur][PayloadOf(job).kind] = x]
    PROVE  payload'[job'.name][PayloadOf(Main(job))'.kind] = PayloadOf(Main(job))'
<1> DEFINE k == PayloadOf(job).kind
           main == PayloadOf(Main(job))
<1>1. /\ job \in Jobs /\ job.cur \in Names /\ job.name \in Names /\ job.pc \in Chosen
      /\ job.prompt /\ Body(job).kind = "mcp" /\ MainKept /\ TypeOK /\ JobWhere
  <2>1. TypeOK /\ JobWhere /\ JobDone /\ job.pc \in Chosen /\ job.pc # "idle" /\ job.prompt
    BY DEF Inv, Prompting, Chosen, Writing
  <2>2. MainKept
    BY <2>1 DEF JobDone
  <2>3. job.cur \in Names /\ job.name \in Names /\ Body(job).kind = "mcp"
    BY <2>1 DEF JobWhere
  <2> QED
    BY <2>1, <2>2, <2>3 DEF TypeOK
<1>2. k = "prompt"
  BY <1>1, WrittenType
<1>3. main.kind = "mcp"
  <2>1. Main(job).got = job.got /\ ~Main(job).prompt
    BY <1>1 DEF Main, Jobs
  <2> QED
    BY <1>1, <2>1 DEF PayloadOf, Body
<1>4. payload[job.name][main.kind] = main
  BY <1>1 DEF MainKept
<1>5. PayloadOf(Main(job))' = main /\ job'.name = job.name
  BY MainSame DEF SameJob
<1> HIDE DEF k, main
<1>6. /\ payload \in [Names -> [Kinds -> Payload \cup {Gone, Torn}]]
      /\ "mcp" \in Kinds /\ "prompt" \in Kinds
  BY <1>1, GreaseAssumption DEF TypeOK
<1>7. payload' = [payload EXCEPT ![job.cur]["prompt"] = x]
  BY <1>2 DEF k
<1>8. payload'[job.name]["mcp"] = payload[job.name]["mcp"]
  BY <1>1, <1>6, <1>7
<1> QED
  BY <1>3, <1>4, <1>5, <1>8

LEMMA BeginPayloadInv ==
    ASSUME Inv, BeginPayload
    PROVE  Inv'
<1> DEFINE k == PayloadOf(job).kind
<1>1. /\ up /\ job.pc = "payload" /\ job \in Jobs /\ job.cur \in Names
      /\ UNCHANGED <<world, regs, marker, conf, up, memory, view, lines, crashes, cut,
                     estranged, leftover>>
      /\ payload' = [payload EXCEPT ![job.cur][k] = Torn]
      /\ job' = [job EXCEPT !.pc = "payloading"]
      /\ risk' = risk \cup {job.cur}
      /\ job.pc \in Chosen
  BY DEF BeginPayload, Stage, Inv, TypeOK, JobWhere, Chosen, Writing
<1>2. "payloading" \in Stages
  BY DEF Stages, Writing
<1>3. /\ SameJob /\ job'.cur = job.cur /\ job'.pc = "payloading" /\ job'.prompt = job.prompt
      /\ Body(job)' = Body(job) /\ MarkerOf(Main(job))' = MarkerOf(Main(job))
  BY <1>1, <1>2, GoesOn DEF world
<1>4. k \in Kinds
  BY <1>1, WrittenType DEF Inv, Payload
<1>5. ASSUME Prompting' PROVE MainKept'
  <2>1. Prompting
    BY <1>1, <1>3, <1>5 DEF Prompting, Writing
  <2>2. MainKept
    BY <2>1 DEF Inv, JobDone
  <2>3. payload'[job'.name][PayloadOf(Main(job))'.kind] = PayloadOf(Main(job))'
    BY <1>1, <1>3, <2>1, MainStays
  <2> QED
    BY <1>1, <1>3, <2>2, <2>3 DEF MainKept, SameJob
<1> HIDE DEF k
<1>6. /\ \A n \in Names \ {job.cur} : payload'[n] = payload[n]
      /\ payload' \in [Names -> [Kinds -> Payload \cup {Gone, Torn}]]
      /\ payload'[job.cur][k] = Torn
      /\ \A l \in Kinds \ {k} : payload'[job.cur][l] = payload[job.cur][l]
  BY <1>1, <1>4 DEF Inv, TypeOK
<1>7. TypeOK'
  BY <1>1, <1>3, <1>6 DEF Inv, TypeOK, SameJob, world, memory
<1>8. JobWhere'
  BY <1>1, <1>3 DEF Inv, JobWhere, SameJob, world, Prompting, Fetching, Chosen, Writing
<1>9. JobDone'
  BY <1>1, <1>3, <1>5 DEF JobDone
<1>10. MarkerHasPayload' /\ ReservedGone'
  BY <1>1, <1>6, GreaseAssumption DEF Inv, MarkerHasPayload, ReservedGone, TypeOK, Marker
<1>11. RestartKeeps'
  BY <1>1, <1>6 DEF Inv, RestartKeeps, Loaded, memory
<1> QED
  BY <1>7, <1>8, <1>9, <1>10, <1>11 DEF Inv

LEMMA EndPayloadInv ==
    ASSUME Inv, EndPayload
    PROVE  Inv'
<1> DEFINE p == PayloadOf(job)
<1>1. /\ up /\ job.pc = "payloading" /\ job \in Jobs /\ job.cur \in Names
      /\ UNCHANGED <<world, regs, marker, conf, up, memory, view, lines, history>>
      /\ payload' = [payload EXCEPT ![job.cur][p.kind] = p]
      /\ job' = [job EXCEPT !.pc = "marker"]
      /\ job.cur \in risk
      /\ job.pc \in Chosen
  BY DEF EndPayload, Stage, Inv, TypeOK, JobWhere, JobDone, Chosen, Writing
<1>2. "marker" \in Stages
  BY DEF Stages, Writing
<1>3. /\ SameJob /\ job'.cur = job.cur /\ job'.pc = "marker" /\ job'.prompt = job.prompt
      /\ Body(job)' = Body(job) /\ PayloadOf(job)' = p
      /\ MarkerOf(Main(job))' = MarkerOf(Main(job))
  BY <1>1, <1>2, GoesOn DEF world
<1>4. p \in Payload /\ p.kind \in Kinds
  BY <1>1, WrittenType DEF Inv, Payload
<1>5. ASSUME Prompting' PROVE MainKept'
  <2>1. Prompting
    BY <1>1, <1>3, <1>5 DEF Prompting, Writing
  <2>2. MainKept
    BY <2>1 DEF Inv, JobDone
  <2>3. payload'[job'.name][PayloadOf(Main(job))'.kind] = PayloadOf(Main(job))'
    BY <1>1, <1>3, <2>1, MainStays
  <2> QED
    BY <1>1, <1>3, <2>2, <2>3 DEF MainKept, SameJob, history, marks
<1> HIDE DEF p
<1>6. /\ \A n \in Names \ {job.cur} : payload'[n] = payload[n]
      /\ payload' \in [Names -> [Kinds -> Payload \cup {Gone, Torn}]]
      /\ payload'[job.cur][p.kind] = p
      /\ \A l \in Kinds \ {p.kind} : payload'[job.cur][l] = payload[job.cur][l]
  BY <1>1, <1>4 DEF Inv, TypeOK
<1>7. TypeOK'
  BY <1>1, <1>3, <1>6 DEF Inv, TypeOK, SameJob, world, memory, history, marks
<1>8. JobWhere'
  BY <1>1, <1>3 DEF Inv, JobWhere, SameJob, world, Prompting, Fetching, Chosen, Writing
<1>9. JobDone'
  BY <1>1, <1>3, <1>5, <1>6 DEF JobDone, history, marks
<1>10. MarkerHasPayload' /\ ReservedGone'
  BY <1>1, <1>4, <1>6, NothingElse
     DEF Inv, MarkerHasPayload, ReservedGone, TypeOK, Marker, history, marks
<1>11. RestartKeeps'
  BY <1>1, <1>6 DEF Inv, RestartKeeps, Loaded, memory, history, marks
<1> QED
  BY <1>7, <1>8, <1>9, <1>10, <1>11 DEF Inv

(* A marker is written or removed under its own name, but the reserved one.*)
LEMMA MarkerWritten ==
    ASSUME Inv, NEW n \in Names, NEW file \in Marker \cup {Gone, Torn}, MarkerFile(n, file)
    PROVE  /\ \A m \in Names \ {n} : marker'[m] = marker[m]
           /\ marker' \in [Names -> Marker \cup {Gone, Torn}]
           /\ regs' \in Seq(Registry) \cup {Torn}
           /\ n # Reserved => marker'[n] = file
           /\ n = Reserved => marker'[n] = Gone
           /\ ReservedGone'
<1>1. /\ marker \in [Names -> Marker \cup {Gone, Torn}]
      /\ regs \in Seq(Registry) \cup {Torn} /\ ReservedGone
  BY DEF Inv, TypeOK
<1>2. CASE n = Reserved
  <2>1. marker' = marker /\ regs' \in {<<>>, Torn}
    BY <1>2 DEF MarkerFile
  <2>2. <<>> \in Seq(Registry)
    OBVIOUS
  <2> QED
    BY <1>1, <1>2, <2>1, <2>2 DEF ReservedGone
<1>3. CASE n # Reserved
  BY <1>1, <1>3 DEF MarkerFile, ReservedGone
<1> QED
  BY <1>2, <1>3

LEMMA BeginMarkerInv ==
    ASSUME Inv, BeginMarker
    PROVE  Inv'
<1>1. /\ up /\ job.pc = "marker" /\ job \in Jobs /\ job.cur \in Names
      /\ UNCHANGED <<world, payload, conf, up, memory, view, lines, crashes, risk, cut>>
      /\ MarkerFile(job.cur, Torn)
      /\ job' = [job EXCEPT !.pc = "marking"]
      /\ estranged' = IF Estranging(job) THEN estranged \cup {job.cur}
                                         ELSE estranged \ {job.cur}
      /\ leftover' = leftover \ {job.cur}
      /\ job.cur \in risk /\ payload[job.cur][PayloadOf(job).kind] = PayloadOf(job)
  BY DEF BeginMarker, Stage, Inv, TypeOK, JobWhere, JobDone, Chosen, Writing
<1>2. "marking" \in Stages
  BY DEF Stages, Writing
<1>3. /\ SameJob /\ job'.cur = job.cur /\ job'.pc = "marking" /\ job'.prompt = job.prompt
      /\ Body(job)' = Body(job) /\ PayloadOf(job)' = PayloadOf(job)
      /\ PayloadOf(Main(job))' = PayloadOf(Main(job))
      /\ MarkerOf(Main(job))' = MarkerOf(Main(job))
  BY <1>1, <1>2, GoesOn DEF world
<1>4. /\ \A n \in Names \ {job.cur} : marker'[n] = marker[n]
      /\ marker' \in [Names -> Marker \cup {Gone, Torn}]
      /\ regs' \in Seq(Registry) \cup {Torn} /\ ReservedGone'
      /\ marker'[job.cur] \in {Gone, Torn}
  BY <1>1, MarkerWritten
<1>5. /\ \A n \in Names \ {job.cur} : /\ n \in estranged' <=> n \in estranged
                                     /\ n \in leftover' <=> n \in leftover
      /\ Estranging(job) => job.cur \in estranged'
      /\ estranged' \subseteq Names /\ leftover' \subseteq Names
  BY <1>1 DEF Inv, TypeOK
<1>6. TypeOK'
  BY <1>1, <1>3, <1>4, <1>5 DEF Inv, TypeOK, SameJob, world, memory
<1>7. JobWhere'
  BY <1>1, <1>3 DEF Inv, JobWhere, SameJob, world, Prompting, Fetching, Chosen, Writing
<1>8. JobDone'
  <2>1. ASSUME Prompting' PROVE MainKept'
    <3>1. Prompting /\ job.name \in Names /\ job.prompt
      BY <1>1, <1>3, <2>1 DEF Prompting, SameJob, Writing, Inv, JobWhere
    <3>2. MainKept
      BY <3>1 DEF Inv, JobDone
    <3>3. CASE job.name # job.cur
      BY <1>1, <1>3, <1>4, <1>5, <3>1, <3>2, <3>3 DEF MainKept, SameJob
    <3>4. CASE job.name = job.cur
      <4>1. job.cur \in estranged'
        BY <1>5, <3>1, <3>4 DEF Estranging
      <4> QED
        BY <1>1, <1>3, <3>2, <3>4, <4>1 DEF MainKept, SameJob
    <3> QED
      BY <3>3, <3>4
  <2> QED
    BY <1>1, <1>3, <1>5, <2>1 DEF JobDone, Estranging, SameJob
<1>9. MarkerHasPayload'
  BY <1>1, <1>4, <1>5, NothingElse DEF Inv, MarkerHasPayload
<1>10. RestartKeeps'
  BY <1>1, <1>4, <1>5 DEF Inv, RestartKeeps, Loaded, memory
<1> QED
  BY <1>4, <1>6, <1>7, <1>8, <1>9, <1>10 DEF Inv

LEMMA EndMarkerInv ==
    ASSUME Inv, EndMarker
    PROVE  Inv'
<1> DEFINE m == MarkerOf(job)
           pc == IF m.kind = "mcp" THEN "server" ELSE "register"
<1>1. /\ up /\ job.pc = "marking" /\ job \in Jobs /\ job.cur \in Names /\ job.name \in Names
      /\ UNCHANGED <<world, payload, conf, up, memory, view, lines, history>>
      /\ MarkerFile(job.cur, m)
      /\ job' = [job EXCEPT !.pc = pc]
      /\ job.cur \in risk /\ payload[job.cur][PayloadOf(job).kind] = PayloadOf(job)
      /\ job.cur = Reserved \/ (job.prompt /\ job.cur = job.name) => job.cur \in estranged
      /\ job.pc \in Chosen
  BY DEF EndMarker, Stage, Inv, TypeOK, JobWhere, JobDone, Chosen, Writing
<1>2. pc \in Stages
  BY DEF Stages
<1>3. /\ PayloadOf(job) \in Payload /\ m \in Marker /\ m.kind = PayloadOf(job).kind
      /\ ~job.prompt => m.kind = Body(job).kind /\ job.cur = job.name
      /\ job.prompt => m.kind = "prompt"
  BY <1>1, WrittenType DEF Inv
<1> HIDE DEF m
<1>4. /\ SameJob /\ job'.cur = job.cur /\ job'.pc = pc /\ job'.prompt = job.prompt
      /\ Body(job)' = Body(job) /\ PayloadOf(job)' = PayloadOf(job) /\ MarkerOf(job)' = m
      /\ PayloadOf(Main(job))' = PayloadOf(Main(job))
      /\ MarkerOf(Main(job))' = MarkerOf(Main(job))
  <2> HIDE DEF pc
  <2> QED
    BY <1>1, <1>2, GoesOn DEF world, m
<1>5. /\ \A n \in Names \ {job.cur} : marker'[n] = marker[n]
      /\ marker' \in [Names -> Marker \cup {Gone, Torn}]
      /\ regs' \in Seq(Registry) \cup {Torn} /\ ReservedGone'
      /\ job.cur # Reserved => marker'[job.cur] = m
      /\ job.cur = Reserved => marker'[job.cur] = Gone
  BY <1>1, <1>3, MarkerWritten
<1>6. TypeOK'
  BY <1>1, <1>4, <1>5 DEF Inv, TypeOK, SameJob, world, memory, history, marks
<1>7. pc = "server" => job.cur = job.name /\ Body(job).kind = "mcp" /\ ~job.prompt
  BY <1>3
<1>8. JobWhere'
  BY <1>1, <1>4, <1>7 DEF Inv, JobWhere, SameJob, world, Prompting, Fetching, Chosen, Writing
<1>9. JobDone'
  <2>1. /\ job'.cur \in risk' /\ payload'[job'.cur][PayloadOf(job)'.kind] = PayloadOf(job)'
        /\ marker'[job'.cur] = MarkerOf(job)' \/ job'.cur \in estranged'
    BY <1>1, <1>4, <1>5 DEF history, marks
  <2>2. ASSUME job'.pc = "server" PROVE MainKept'
    <3>1. job.cur = job.name /\ ~job.prompt
      BY <1>4, <1>7, <2>2
    <3>2. PayloadOf(Main(job)) = PayloadOf(job) /\ MarkerOf(Main(job)) = m
      BY <1>1, <3>1, MainWritten DEF m
    <3> QED
      BY <1>1, <1>4, <1>5, <3>1, <3>2 DEF MainKept, SameJob, history, marks
  <2>3. ASSUME Prompting' PROVE MainKept'
    <3>1. Prompting /\ job.prompt
      BY <1>1, <1>4, <2>3 DEF Prompting, SameJob, Writing
    <3>2. MainKept
      BY <3>1 DEF Inv, JobDone
    <3> QED
      BY <1>1, <1>4, <1>5, <3>1, <3>2 DEF MainKept, SameJob, history, marks
  <2> HIDE DEF pc
  <2>4. pc \in {"server", "register"}
    BY DEF pc
  <2> QED
    BY <1>1, <1>4, <2>1, <2>2, <2>3, <2>4 DEF JobDone, SameJob, history, marks
<1>10. MarkerHasPayload'
  BY <1>1, <1>3, <1>5, NothingElse DEF Inv, MarkerHasPayload, history, marks
<1>11. RestartKeeps'
  BY <1>1, <1>5 DEF Inv, RestartKeeps, Loaded, memory, history, marks
<1> QED
  BY <1>5, <1>6, <1>8, <1>9, <1>10, <1>11 DEF Inv

LEMMA WriteFailsInv ==
    ASSUME Inv, WriteFails
    PROVE  Inv'
<1>1. /\ up /\ job.pc \in Writing /\ job.pc \in Chosen /\ job \in Jobs
      /\ TypeOK /\ job.cur \in Names
      /\ job' \in GivenUp(job)
      /\ cut' = IF job.pc = "payload" THEN cut ELSE cut \cup {job.cur}
      /\ UNCHANGED <<world, regs, disk, conf, up, memory, view, lines, crashes, risk,
                     estranged, leftover>>
  BY DEF WriteFails, Inv, JobWhere, Chosen, TypeOK
<1>2. cut' \subseteq Names
  BY <1>1 DEF Inv, TypeOK
<1>3. ReservedGone' /\ MarkerHasPayload' /\ RestartKeeps'
  BY <1>1, StoreKept DEF Inv, memory
<1>4. ASSUME job' \in Jobs PROVE TypeOK'
  BY <1>1, <1>2, <1>4 DEF Inv, TypeOK, world, disk, memory
<1>5. CASE job.prompt
  <2>1. job' = [job EXCEPT !.pc = "next"] /\ "next" \in Stages
    BY <1>1, <1>5 DEF GivenUp, Stages
  <2>2. /\ SameJob /\ job'.pc = "next" /\ job'.cur = job.cur /\ job'.prompt = job.prompt
        /\ Body(job)' = Body(job)
        /\ PayloadOf(Main(job))' = PayloadOf(Main(job))
        /\ MarkerOf(Main(job))' = MarkerOf(Main(job))
    BY <1>1, <2>1, GoesOn DEF world
  <2>3. Prompting
    BY <1>1, <1>5 DEF Prompting
  <2>4. JobWhere'
    BY <1>1, <2>2, <2>3 DEF Inv, JobWhere, SameJob, world, Prompting, Fetching, Chosen, Writing
  <2>5. JobDone'
    <3>1. MainKept
      BY <2>3 DEF Inv, JobDone
    <3>2. MainKept'
      BY <1>1, <2>2, <3>1 DEF MainKept, SameJob, disk
    <3> QED
      BY <2>2, <3>2 DEF JobDone
  <2> QED
    BY <1>3, <1>4, <2>2, <2>4, <2>5 DEF Inv, SameJob
<1>6. CASE ~job.prompt
  <2>1. job' \in Continue(job.rest) /\ job.rest \in SUBSET Names
    BY <1>1, <1>6 DEF GivenUp, Jobs
  <2>2. Fresh(job') /\ Fresh(job)' /\ job' \in Jobs
    BY <1>1, <2>1, ContinueFresh DEF Fresh
  <2>3. JobWhere' /\ JobDone'
    BY <1>1, <2>2, FreshJob
  <2> QED
    BY <1>3, <1>4, <2>2, <2>3 DEF Inv
<1> QED
  BY <1>5, <1>6

LEMMA RegisterServerInv ==
    ASSUME Inv, RegisterServer
    PROVE  Inv'
<1>1. /\ up /\ job.pc = "server" /\ job \in Jobs /\ job.name \in Names
      /\ job' = [job EXCEPT !.pc = "next"]
      /\ UNCHANGED <<world, regs, disk, conf, up, pkgs, broken, gver, view, lines, history>>
      /\ "next" \in Stages
  BY DEF RegisterServer, Stage, Inv, TypeOK, JobWhere, Stages
<1>2. servers' \in [Names -> ToolLists \cup {None, Failed}] /\ mver' \in Nat
  <2>1. /\ job.tools \in ToolLists \cup {None}
        /\ servers \in [Names -> ToolLists \cup {None, Failed}] /\ mver \in Nat
    BY <1>1 DEF Inv, TypeOK, Jobs
  <2>2. CASE job.tools # None
    <3>1. servers' = [servers EXCEPT ![job.name] = job.tools] /\ mver' = mver + 2
      BY <2>2 DEF RegisterServer
    <3> QED
      BY <1>1, <2>1, <3>1
  <2>3. CASE job.tools = None
    BY <2>1, <2>3 DEF RegisterServer
  <2> QED
    BY <2>2, <2>3
<1>3. /\ SameJob /\ job'.pc = "next" /\ job'.cur = job.cur /\ job'.prompt = job.prompt
      /\ Body(job)' = Body(job)
      /\ PayloadOf(Main(job))' = PayloadOf(Main(job))
      /\ MarkerOf(Main(job))' = MarkerOf(Main(job))
  BY <1>1, GoesOn DEF world
<1>4. ReservedGone' /\ MarkerHasPayload' /\ RestartKeeps'
  BY <1>1, StoreKept DEF Inv, history, marks
<1>5. TypeOK'
  BY <1>1, <1>2, <1>3 DEF Inv, TypeOK, world, disk, history, marks, SameJob
<1>6. JobWhere'
  BY <1>1, <1>3 DEF Inv, JobWhere, SameJob, world, Prompting, Fetching, Chosen, Writing
<1>7. JobDone'
  <2>1. MainKept
    BY <1>1 DEF Inv, JobDone
  <2>2. MainKept'
    BY <1>1, <1>3, <2>1 DEF MainKept, SameJob, disk, history, marks
  <2> QED
    BY <1>3, <2>2 DEF JobDone
<1> QED
  BY <1>4, <1>5, <1>6, <1>7 DEF Inv

LEMMA NextPromptInv ==
    ASSUME Inv, NextPrompt
    PROVE  Inv'
<1>1. /\ OnlyJob /\ up /\ job.pc = "next" /\ job \in Jobs /\ job.name \in Names /\ MainKept
  BY DEF NextPrompt, OnlyJob, Stage, Inv, TypeOK, JobWhere, JobDone, Chosen
<1>2. /\ job.at \in DOMAIN job.regs /\ job.got \in DOMAIN releases /\ Body(job).kind = "mcp"
      /\ ~Body(job).misnamed
      /\ job.seen # 0 => job.seen \in DOMAIN releases
  BY <1>1 DEF Inv, JobWhere, Chosen
<1>3. CASE job.todo = {}
  <2>1. job' = [job EXCEPT !.cur = job.name, !.prompt = FALSE, !.pc = "register"]
    BY <1>3 DEF NextPrompt
  <2>2. /\ SameJob /\ job'.pc = "register" /\ job'.cur = job.name /\ ~job'.prompt
    BY <1>1, <2>1 DEF SameJob, Jobs, Stages, OnlyJob, world
  <2>3. /\ PayloadOf(Main(job))' = PayloadOf(Main(job))
        /\ MarkerOf(Main(job))' = MarkerOf(Main(job))
    BY <2>2, MainSame
  <2>4. Main(job)' = job'
    BY <2>2 DEF Main, SameJob, Jobs
  <2>5. /\ PayloadOf(job)' = PayloadOf(Main(job)) /\ MarkerOf(job)' = MarkerOf(Main(job))
    <3>1. PayloadOf(Main(job))' = PayloadOf(job)' /\ MarkerOf(Main(job))' = MarkerOf(job)'
      BY <2>4 DEF PayloadOf, MarkerOf, Body, From
    <3> QED
      BY <2>3, <3>1
  <2>6. Body(job)' = Body(job)
    BY <2>2 DEF SameJob, Body, OfferOf
  <2>7. JobWhere'
    BY <1>1, <1>2, <2>2, <2>6
       DEF JobWhere, SameJob, OnlyJob, world, Prompting, Fetching, Chosen, Writing
  <2>8. JobDone'
    BY <1>1, <2>2, <2>5
       DEF JobDone, MainKept, SameJob, OnlyJob, Prompting, Writing, disk, history, marks
  <2> QED
    BY <1>1, <2>2, <2>7, <2>8, OnlyJobType, OnlyJobStore DEF Inv, SameJob
<1>4. CASE job.todo # {}
  <2>1. PICK p \in job.todo :
          job' = [job EXCEPT !.cur = p, !.prompt = TRUE, !.todo = job.todo \ {p},
                             !.pc = "payload"]
    BY <1>4 DEF NextPrompt
  <2>2. /\ SameJob /\ job'.pc = "payload" /\ job'.cur = p /\ job'.prompt /\ p \in Names
    BY <1>1, <2>1 DEF SameJob, Jobs, Stages, Writing, OnlyJob, world
  <2>3. /\ PayloadOf(Main(job))' = PayloadOf(Main(job))
        /\ MarkerOf(Main(job))' = MarkerOf(Main(job))
    BY <2>2, MainSame
  <2>4. Body(job)' = Body(job)
    BY <2>2 DEF SameJob, Body, OfferOf
  <2>5. JobWhere'
    BY <1>1, <1>2, <2>2, <2>4
       DEF JobWhere, SameJob, OnlyJob, world, Prompting, Fetching, Chosen, Writing
  <2>6. MainKept'
    BY <1>1, <2>2, <2>3 DEF MainKept, SameJob, OnlyJob, disk, history, marks
  <2>7. JobDone'
    BY <2>2, <2>6 DEF JobDone
  <2> QED
    BY <1>1, <2>2, <2>5, <2>7, OnlyJobType, OnlyJobStore DEF Inv, SameJob
<1> QED
  BY <1>3, <1>4

(* Once registered, the package in memory is the one a restart would load, *)
(* or it is estranged.                                                     *)
LEMMA RegisterInv ==
    ASSUME Inv, Register
    PROVE  Inv'
<1> DEFINE p == PayloadOf(job)
           m == MarkerOf(job)
           package == [marker |-> m, payload |-> p]
<1>1. /\ up /\ job.pc = "register" /\ job.pc \in Chosen /\ job \in Jobs
      /\ TypeOK /\ job.cur \in Names /\ job.name \in Names
      /\ UNCHANGED <<world, regs, disk, conf, up, broken, servers, mver, view, lines, crashes,
                     estranged, leftover>>
      /\ risk' = risk \ {job.cur} /\ cut' = cut \ {job.cur}
      /\ payload[job.cur][p.kind] = p /\ (marker[job.cur] = m \/ job.cur \in estranged)
      /\ job.prompt \/ job.cur = job.name
      /\ job.prompt /\ job.cur = job.name => job.cur \in estranged
  <2>1. /\ Stage("register") /\ TypeOK /\ JobWhere /\ JobDone
        /\ UNCHANGED <<world, regs, disk, conf, up, broken, servers, mver, view, lines, crashes,
                       estranged, leftover>>
        /\ risk' = risk \ {job.cur} /\ cut' = cut \ {job.cur}
    BY DEF Register, Inv
  <2>2. up /\ job.pc = "register" /\ job.pc \in Chosen /\ job \in Jobs
    BY <2>1 DEF Stage, Chosen, TypeOK
  <2>3. job.cur \in Names /\ job.name \in Names /\ (job.prompt \/ job.cur = job.name)
    BY <2>1, <2>2 DEF JobWhere
  <2>4. /\ payload[job.cur][p.kind] = p /\ (marker[job.cur] = m \/ job.cur \in estranged)
        /\ job.prompt /\ job.cur = job.name => job.cur \in estranged
    BY <2>1, <2>2 DEF JobDone
  <2> QED
    BY <2>1, <2>2, <2>3, <2>4
<1>2. p \in Payload /\ m \in Marker /\ p.as = job.cur /\ p.kind = m.kind
  BY <1>1, WrittenType DEF Inv
<1>3. pkgs' = [pkgs EXCEPT ![p.as] = package] /\ gver' = gver + 2
  BY DEF Register, SetInstalled
<1> HIDE DEF p, m
<1>4. package \in Package
  BY <1>2 DEF Package
<1>5. job.cur \notin estranged => Loaded(job.cur) = package
  BY <1>1, <1>2 DEF Loaded
<1> HIDE DEF package
<1>6. /\ pkgs' \in [Names -> Package \cup {None}] /\ gver' \in Nat
      /\ pkgs'[job.cur] = package
      /\ \A n \in Names \ {job.cur} : pkgs'[n] = pkgs[n]
  BY <1>1, <1>2, <1>3, <1>4 DEF Inv, TypeOK
<1>7. MarkerHasPayload' /\ ReservedGone'
  BY <1>1 DEF Inv, MarkerHasPayload, ReservedGone, disk
<1>8. RestartKeeps'
  <2> SUFFICES ASSUME NEW n \in Names \ (risk' \cup estranged) PROVE pkgs'[n] = Loaded(n)'
    BY <1>1 DEF RestartKeeps
  <2>1. Loaded(n)' = Loaded(n)
    BY <1>1 DEF Loaded, disk
  <2> QED
    BY <1>1, <1>5, <1>6, <2>1 DEF Inv, RestartKeeps
<1>9. ASSUME job' \in Jobs PROVE TypeOK'
  BY <1>1, <1>6, <1>9 DEF Inv, TypeOK, world, disk
<1>10. CASE ~job.prompt
  <2>1. job' \in Continue(job.rest) /\ job.rest \in SUBSET Names
    BY <1>1, <1>10 DEF Register, Jobs
  <2>2. Fresh(job') /\ Fresh(job)' /\ job' \in Jobs
    BY <1>1, <2>1, ContinueFresh DEF Fresh
  <2>3. JobWhere' /\ JobDone'
    BY <1>1, <2>2, FreshJob
  <2> QED
    BY <1>7, <1>8, <1>9, <2>2, <2>3 DEF Inv
<1>11. CASE job.prompt
  <2>1. job' = [job EXCEPT !.pc = "next"] /\ "next" \in Stages
    BY <1>11 DEF Register, Stages
  <2>2. /\ SameJob /\ job'.pc = "next" /\ job'.cur = job.cur /\ job'.prompt = job.prompt
        /\ Body(job)' = Body(job)
        /\ PayloadOf(Main(job))' = PayloadOf(Main(job))
        /\ MarkerOf(Main(job))' = MarkerOf(Main(job))
    BY <1>1, <2>1, GoesOn DEF world
  <2>3. Prompting
    BY <1>1, <1>11 DEF Prompting
  <2>4. JobWhere'
    BY <1>1, <2>2, <2>3 DEF Inv, JobWhere, SameJob, world, Prompting, Fetching, Chosen, Writing
  <2>5. JobDone'
    <3>1. MainKept
      BY <2>3 DEF Inv, JobDone
    <3>2. job.name \in risk' \cup estranged
      BY <1>1, <1>11, <3>1 DEF MainKept
    <3>3. MainKept'
      BY <1>1, <2>2, <3>1, <3>2 DEF MainKept, SameJob, disk
    <3> QED
      BY <2>2, <3>3 DEF JobDone
  <2> QED
    BY <1>7, <1>8, <1>9, <2>2, <2>4, <2>5 DEF Inv, SameJob
<1> QED
  BY <1>10, <1>11

-----------------------------------------------------------------------------
(* The steps of a removal.                                                 *)
LEMMA RemoveMarkerInv ==
    ASSUME Inv, RemoveMarker
    PROVE  Inv'
<1>1. /\ up /\ job.pc = "unmark" /\ job \in Jobs /\ job.name \in Names
      /\ job' = [job EXCEPT !.pc = "unstore"]
      /\ risk' = risk \cup {job.name}
      /\ UNCHANGED <<world, payload, conf, up, memory, view, lines, crashes, cut, estranged>>
      /\ "unstore" \in Stages
  BY DEF RemoveMarker, Stage, Inv, TypeOK, JobWhere, Stages, Removing
<1>2. SameJob /\ job'.pc = "unstore" /\ job'.prompt = job.prompt
  BY <1>1, GoesOn DEF world
<1>3. /\ \A n \in Names \ {job.name} : marker'[n] = marker[n]
      /\ \A n \in Names \ {job.name} : n \in leftover' <=> n \in leftover
      /\ marker' \in [Names -> Marker \cup {Gone, Torn}]
      /\ regs' \in Seq(Registry) \cup {Torn} /\ leftover' \subseteq Names /\ ReservedGone'
      /\ marker'[job.name] = Gone \/ job.name \in leftover'
  <2>1. /\ marker \in [Names -> Marker \cup {Gone, Torn}] /\ leftover \subseteq Names
        /\ regs \in Seq(Registry) \cup {Torn} /\ ReservedGone
    BY DEF Inv, TypeOK
  <2>2. CASE MarkerFile(job.name, Gone) /\ leftover' = leftover \ {job.name}
    BY <1>1, <2>1, <2>2, MarkerWritten
  <2>3. CASE leftover' = leftover \cup {job.name} /\ UNCHANGED <<regs, marker>>
    BY <1>1, <2>1, <2>3 DEF ReservedGone
  <2> QED
    BY <2>2, <2>3 DEF RemoveMarker
<1>4. TypeOK'
  BY <1>1, <1>2, <1>3 DEF Inv, TypeOK, SameJob, world, memory
<1>5. JobWhere'
  BY <1>1, <1>2 DEF Inv, JobWhere, SameJob, world, Prompting, Fetching, Chosen, Writing
<1>6. JobDone'
  BY <1>1, <1>2, <1>3 DEF JobDone, SameJob, Prompting, Writing
<1>7. ASSUME NEW n \in Names, n # job.name
      PROVE  marker'[n] = marker[n] /\ (n \in leftover' <=> n \in leftover)
  <2>1. n \in Names \ {job.name}
    BY <1>7
  <2> QED
    BY <1>3, <2>1
<1>8. MarkerHasPayload'
  <2> SUFFICES ASSUME NEW n \in Names \ leftover', marker'[n] \in Marker
               PROVE  payload'[n][marker'[n].kind] # Gone
    BY DEF MarkerHasPayload
  <2>1. n # job.name
    <3>1. Gone \notin Marker
      BY NothingElse
    <3>2. marker'[job.name] = Gone \/ job.name \in leftover'
      BY <1>3
    <3> QED
      BY <3>1, <3>2
  <2>2. n \notin leftover /\ marker'[n] = marker[n] /\ payload' = payload
    BY <1>1, <1>7, <2>1
  <2> QED
    BY <2>2 DEF Inv, MarkerHasPayload
<1>9. RestartKeeps'
  <2> SUFFICES ASSUME NEW n \in Names \ (risk' \cup estranged') PROVE pkgs'[n] = Loaded(n)'
    BY DEF RestartKeeps
  <2>1. /\ n # job.name /\ n \notin risk /\ n \notin estranged
        /\ payload' = payload /\ pkgs' = pkgs
    BY <1>1 DEF memory
  <2>2. marker'[n] = marker[n]
    BY <1>7, <2>1
  <2>3. Loaded(n)' = Loaded(n)
    BY <2>1, <2>2 DEF Loaded
  <2> QED
    BY <1>1, <2>1, <2>3 DEF Inv, RestartKeeps
<1> QED
  BY <1>3, <1>4, <1>5, <1>6, <1>8, <1>9 DEF Inv

LEMMA RemoveStoreInv ==
    ASSUME Inv, RemoveStore
    PROVE  Inv'
<1>1. /\ up /\ job.pc = "unstore" /\ job \in Jobs /\ job.name \in Names
      /\ job' = [job EXCEPT !.pc = "forget"]
      /\ UNCHANGED <<world, regs, marker, conf, up, memory, view, lines, history>>
      /\ job.name \in risk /\ (marker[job.name] = Gone \/ job.name \in leftover)
      /\ Gone \notin Marker /\ "forget" \in Stages
  BY NothingElse DEF RemoveStore, Stage, Inv, TypeOK, JobWhere, JobDone, Stages, Removing
<1>2. SameJob /\ job'.pc = "forget" /\ job'.prompt = job.prompt
  BY <1>1, GoesOn DEF world
<1>3. /\ \A n \in Names \ {job.name} : payload'[n] = payload[n]
      /\ payload' \in [Names -> [Kinds -> Payload \cup {Gone, Torn}]]
  <2>1. PICK gone : payload' = [payload EXCEPT ![job.name] =
                                  [k \in Kinds |-> IF k \in gone THEN Gone ELSE @[k]]]
    BY DEF RemoveStore
  <2> QED
    BY <1>1, <2>1 DEF Inv, TypeOK
<1>4. TypeOK'
  BY <1>1, <1>2, <1>3 DEF Inv, TypeOK, SameJob, world, memory, history, marks
<1>5. JobWhere'
  BY <1>1, <1>2 DEF Inv, JobWhere, SameJob, world, Prompting, Fetching, Chosen, Writing
<1>6. JobDone'
  BY <1>1, <1>2, <1>3 DEF JobDone, SameJob, Prompting, Writing, history, marks
<1>7. MarkerHasPayload' /\ ReservedGone'
  BY <1>1, <1>3 DEF Inv, MarkerHasPayload, ReservedGone, history, marks
<1>8. RestartKeeps'
  BY <1>1, <1>3 DEF Inv, RestartKeeps, Loaded, memory, history, marks
<1> QED
  BY <1>4, <1>5, <1>6, <1>7, <1>8 DEF Inv

LEMMA ForgetInv ==
    ASSUME Inv, Forget
    PROVE  Inv'
<1>1. /\ up /\ job.pc = "forget" /\ job.name \in Names /\ job' = Idle
      /\ pkgs' = [pkgs EXCEPT ![job.name] = None] /\ gver' = gver + 1
      /\ risk' = risk \ {job.name} /\ cut' \subseteq Names
      /\ IF job.name \in leftover THEN estranged' = estranged \cup {job.name}
                                 ELSE estranged' = estranged \ {job.name}
      /\ UNCHANGED <<world, regs, disk, up, view, lines, crashes, leftover>>
      /\ marker[job.name] = Gone \/ job.name \in leftover
      /\ Gone \notin Marker
  BY NothingElse DEF Forget, Stage, Inv, TypeOK, JobWhere, JobDone
<1>2. /\ broken' \subseteq Names /\ conf' \in [Names -> ToolLists \cup {Gone, Torn, Bare}]
      /\ servers' \in [Names -> ToolLists \cup {None, Failed}] /\ mver' \in Nat
  <2>1. /\ broken \subseteq Names /\ conf \in [Names -> ToolLists \cup {Gone, Torn, Bare}]
        /\ servers \in [Names -> ToolLists \cup {None, Failed}] /\ mver \in Nat
    BY DEF Inv, TypeOK
  <2>2. broken' \subseteq Names
    BY <2>1 DEF Forget
  <2>3. conf' \in {conf, [conf EXCEPT ![job.name] = Gone]}
    BY Zenon DEF Forget
  <2>4. servers' \in {servers, [servers EXCEPT ![job.name] = None]}
    BY DEF Forget
  <2>5. mver' \in {mver, mver + 1}
    BY DEF Forget
  <2> QED
    BY <1>1, <2>1, <2>2, <2>3, <2>4, <2>5
<1>3. pkgs' \in [Names -> Package \cup {None}]
  BY <1>1 DEF Inv, TypeOK
<1>4. Fresh(job') /\ Fresh(job)' /\ job' \in Jobs
  BY <1>1, IdleFresh DEF Fresh, Idle
<1>5. TypeOK'
  BY <1>1, <1>2, <1>3, <1>4 DEF Inv, TypeOK, world, disk
<1>6. JobWhere' /\ JobDone'
  BY <1>1, <1>4, FreshJob
<1>7. MarkerHasPayload' /\ ReservedGone'
  BY <1>1 DEF Inv, MarkerHasPayload, ReservedGone, disk
<1>8. RestartKeeps'
  BY <1>1 DEF Inv, TypeOK, RestartKeeps, Loaded, disk
<1> QED
  BY <1>5, <1>6, <1>7, <1>8 DEF Inv

-----------------------------------------------------------------------------
(* Lines: those that start a job, and those that are one step.             *)
LEMMA RefreshedType ==
    ASSUME TypeOK
    PROVE  Refreshed \in View
<1>1. Version \in Int
  BY DEF TypeOK, Version
<1>2. Surface \in [Names -> Package \cup {None}] \X [Names -> ToolLists \cup {None, Failed}]
  BY DEF TypeOK, Surface
<1>3. view \in View
  BY DEF TypeOK
<1> QED
  BY <1>1, <1>2, <1>3 DEF Refreshed, View

LEMMA StartType ==
    ASSUME Inv, StartLine
    PROVE  /\ up /\ job = Idle /\ view' \in View /\ lines' \in Nat
           /\ UNCHANGED <<world, up, crashes>>
BY RefreshedType DEF StartLine, Inv, TypeOK

(* A line that ends at once leaves the store alone.                        *)
LEMMA LineInv ==
    ASSUME Inv, StartLine, UNCHANGED <<disk, pkgs, broken, gver, job, marks>>,
           regs' \in Seq(Registry) \cup {Torn}, conf' \in [Names -> ToolLists \cup {Gone, Torn, Bare}],
           servers' \in [Names -> ToolLists \cup {None, Failed}], mver' \in Nat
    PROVE  Inv'
<1>1. /\ up /\ job = Idle /\ view' \in View /\ lines' \in Nat
      /\ UNCHANGED <<world, up, crashes>>
  BY StartType
<1>2. TypeOK'
  BY <1>1 DEF Inv, TypeOK, world, disk, marks
<1>3. Fresh(job)'
  BY <1>1, IdleFresh DEF Fresh, Idle
<1>4. JobWhere' /\ JobDone'
  BY <1>1, <1>3, FreshJob
<1>5. ReservedGone' /\ MarkerHasPayload' /\ RestartKeeps'
  BY <1>1, StoreKept DEF Inv, marks
<1> QED
  BY <1>2, <1>4, <1>5 DEF Inv

LEMMA JobLineInv ==
    ASSUME Inv, StartLine, UNCHANGED <<regs, disk, conf, memory, marks>>,
           job' \in Jobs, job'.pc \in {"idle", "index", "unmark"},
           job'.pc # "idle" => job'.name \in Names,
           job'.pc = "index" => job'.at \in DOMAIN job'.regs,
           job'.seen = 0, ~job'.prompt
    PROVE  Inv'
<1>1. /\ up /\ job = Idle /\ view' \in View /\ lines' \in Nat
      /\ UNCHANGED <<world, up, crashes>>
  BY StartType
<1>2. TypeOK'
  BY <1>1 DEF Inv, TypeOK, world, disk, memory, marks
<1>3. JobWhere' /\ JobDone'
  BY <1>1 DEF JobWhere, JobDone, Prompting, Fetching, Chosen, Writing
<1>4. ReservedGone' /\ MarkerHasPayload' /\ RestartKeeps'
  BY <1>1, StoreKept DEF Inv, memory, marks
<1> QED
  BY <1>2, <1>3, <1>4 DEF Inv

LEMMA OtherLineInv ==
    ASSUME Inv, OtherLine
    PROVE  Inv'
BY LineInv DEF OtherLine, memory, Inv, TypeOK

LEMMA RegistryAddInv ==
    ASSUME Inv, NEW u \in Urls, NEW keyed \in BOOLEAN, RegistryAdd(u, keyed)
    PROVE  Inv'
<1> DEFINE known == {i \in DOMAIN regs : regs[i].url = u}
           entry == [url |-> u, keyed |-> keyed]
           signed == [i \in DOMAIN regs |->
                        IF i \in known /\ keyed THEN [url |-> u, keyed |-> TRUE] ELSE regs[i]]
<1>1. regs \in Seq(Registry) /\ entry \in Registry
  BY DEF RegistryAdd, Inv, TypeOK, Registry
<1>2. Append(regs, entry) \in Seq(Registry)
  BY <1>1
<1>3. signed \in Seq(Registry)
  <2>1. ASSUME NEW i \in DOMAIN regs PROVE signed[i] \in Registry
    <3>1. regs[i] \in Registry
      BY <1>1
    <3>2. [url |-> u, keyed |-> TRUE] \in Registry
      BY DEF Registry
    <3>3. signed[i] \in {regs[i], [url |-> u, keyed |-> TRUE]}
      OBVIOUS
    <3> QED
      BY <3>1, <3>2, <3>3
  <2>2. DOMAIN regs = 1..Len(regs) /\ Len(regs) \in Nat
    BY <1>1
  <2>3. signed \in [1..Len(regs) -> Registry]
    BY <2>1, <2>2
  <2> HIDE DEF signed
  <2> QED
    BY <2>2, <2>3, SeqDef
<1>4. regs' \in {Append(regs, entry), signed}
  BY DEF RegistryAdd
<1>5. regs' \in Seq(Registry)
  BY <1>2, <1>3, <1>4
<1> QED
  BY <1>5, LineInv DEF RegistryAdd, memory, Inv, TypeOK

LEMMA RegistryRemoveInv ==
    ASSUME Inv, NEW u \in Urls, RegistryRemove(u)
    PROVE  Inv'
<1>1. regs \in Seq(Registry)
  BY DEF RegistryRemove, Inv, TypeOK
<1>2. regs' = regs \/ \E i \in DOMAIN regs : regs' = RemoveAt(regs, i)
  BY DEF RegistryRemove
<1>3. ASSUME NEW i \in DOMAIN regs PROVE RemoveAt(regs, i) \in Seq(Registry)
  <2>1. /\ i \in 1..Len(regs) /\ Len(regs) \in Nat
        /\ i - 1 \in Int /\ i + 1 \in Int
    BY <1>1
  <2>2. SubSeq(regs, 1, i - 1) \in Seq(Registry) /\ SubSeq(regs, i + 1, Len(regs)) \in Seq(Registry)
    BY <1>1, <2>1
  <2> QED
    BY <2>2 DEF RemoveAt
<1>4. regs' \in Seq(Registry)
  BY <1>1, <1>2, <1>3
<1> QED
  BY <1>4, LineInv DEF RegistryRemove, memory, Inv, TypeOK

LEMMA InstallLineInv ==
    ASSUME Inv, NEW n \in Names, NEW want \in BOOLEAN, InstallLine(n, want)
    PROVE  Inv'
<1>1. StartLine /\ UNCHANGED <<regs, disk, conf, memory, marks>> /\ TypeOK
  BY DEF InstallLine, Inv
<1>2. Fresh(job')
  <2>1. CASE Registries = <<>>
    BY <2>1, IdleFresh DEF InstallLine
  <2>2. CASE Registries # <<>>
    BY <1>1, <2>2, InstallFresh DEF InstallLine
  <2> QED
    BY <2>1, <2>2
<1>3. /\ job' \in Jobs /\ job'.pc \in {"idle", "index"}
      /\ job'.pc = "index" => job'.name \in Names /\ job'.at \in DOMAIN job'.regs
      /\ job'.seen = 0 /\ ~job'.prompt
  BY <1>2 DEF Fresh
<1> QED
  BY <1>1, <1>3, JobLineInv

LEMMA UpdateLineInv ==
    ASSUME Inv, NEW ns \in SUBSET Names, UpdateLine(ns)
    PROVE  Inv'
<1>1. StartLine /\ UNCHANGED <<regs, disk, conf, memory, marks>> /\ TypeOK
  BY DEF UpdateLine, Inv
<1>2. Fresh(job')
  BY <1>1, ContinueFresh DEF UpdateLine
<1>3. /\ job' \in Jobs /\ job'.pc \in {"idle", "index"}
      /\ job'.pc = "index" => job'.name \in Names /\ job'.at \in DOMAIN job'.regs
      /\ job'.seen = 0 /\ ~job'.prompt
  BY <1>2 DEF Fresh
<1> QED
  BY <1>1, <1>3, JobLineInv

LEMMA RemoveLineInv ==
    ASSUME Inv, NEW n \in Names, RemoveLine(n)
    PROVE  Inv'
<1>1. StartLine /\ UNCHANGED <<regs, disk, conf, memory, marks>>
  BY DEF RemoveLine
<1>2. job' = [Idle EXCEPT !.pc = "unmark", !.name = n]
  BY DEF RemoveLine
<1>3. /\ job' \in Jobs /\ job'.pc = "unmark" /\ job'.name \in Names
      /\ job'.seen = 0 /\ ~job'.prompt
  <2>1. Idle \in Jobs /\ "unmark" \in Stages /\ Idle.seen = 0 /\ ~Idle.prompt
    BY IdleFresh DEF Fresh, Stages, Removing, Idle
  <2> QED
    BY <1>2, <2>1 DEF Jobs
<1> QED
  BY <1>1, <1>3, JobLineInv

LEMMA McpInstallType ==
    ASSUME TypeOK, NEW n \in Names, NEW c \in ToolLists \cup {Gone, Torn, Bare},
           McpInstall(n, c)
    PROVE  /\ conf' \in [Names -> ToolLists \cup {Gone, Torn, Bare}]
           /\ servers' \in [Names -> ToolLists \cup {None, Failed}] /\ mver' \in Nat
<1>1. /\ conf \in [Names -> ToolLists \cup {Gone, Torn, Bare}]
      /\ servers \in [Names -> ToolLists \cup {None, Failed}] /\ mver \in Nat
      /\ mver' = mver + 2
  BY DEF TypeOK, McpInstall
<1>2. CASE servers' = [servers EXCEPT ![n] = Failed] /\ conf' = [conf EXCEPT ![n] = c]
  BY <1>1, <1>2
<1>3. CASE \E tools \in ToolLists :
             /\ servers' = [servers EXCEPT ![n] = tools]
             /\ \/ conf' = [conf EXCEPT ![n] = tools]
                \/ IOErrors /\ conf' = [conf EXCEPT ![n] = Torn]
  BY <1>1, <1>3
<1> QED
  BY <1>2, <1>3 DEF McpInstall

LEMMA McpInv ==
    ASSUME Inv, NEW n \in Names, McpAdd(n) \/ McpReload(n) \/ McpRemove(n)
    PROVE  Inv'
<1>1. /\ StartLine /\ UNCHANGED <<regs, disk, pkgs, broken, gver, job, marks>>
      /\ TypeOK
  BY DEF McpAdd, McpReload, McpRemove, Inv
<1>2. /\ regs' \in Seq(Registry) \cup {Torn} /\ conf \in [Names -> ToolLists \cup {Gone, Torn, Bare}]
      /\ servers \in [Names -> ToolLists \cup {None, Failed}] /\ mver \in Nat
  BY <1>1 DEF TypeOK
<1>3. /\ conf' \in [Names -> ToolLists \cup {Gone, Torn, Bare}]
      /\ servers' \in [Names -> ToolLists \cup {None, Failed}] /\ mver' \in Nat
  <2>1. CASE McpInstall(n, Bare) \/ McpInstall(n, conf[n])
    BY <1>1, <1>2, <2>1, McpInstallType
  <2>2. CASE conf' = [conf EXCEPT ![n] = Torn] /\ UNCHANGED <<servers, mver>>
    BY <1>2, <2>2
  <2>3. CASE McpRemove(n)
    BY <1>2, <2>3 DEF McpRemove
  <2> QED
    BY <2>1, <2>2, <2>3 DEF McpAdd, McpReload
<1> QED
  BY <1>1, <1>2, <1>3, LineInv

-----------------------------------------------------------------------------
(* What the registries publish, the end of the process and its start.      *)

(* Earlier releases are what they were.                                    *)
LEMMA PublishKeeps ==
    ASSUME TypeOK, NEW offer \in Offers, Publish(offer)
    PROVE  /\ releases' \in Seq(Release) /\ log' \in [Urls -> Seq(Int)]
           /\ \A v \in DOMAIN releases : v \in DOMAIN releases' /\ releases'[v] = releases[v]
<1> DEFINE v == Len(releases) + 1
           entries == IF offer.logged = "own" THEN Append(log[offer.url], v) ELSE log[offer.url]
           release == [offer |-> offer, size |-> Len(entries)]
<1>1. /\ releases \in Seq(Release) /\ log \in [Urls -> Seq(Int)] /\ offer.url \in Urls
      /\ v \in Int
  BY GreaseAssumption DEF TypeOK, Offer
<1>2. entries \in Seq(Int) /\ Len(entries) \in Nat
  BY <1>1
<1>3. log' = [log EXCEPT ![offer.url] = entries] /\ releases' = Append(releases, release)
  BY DEF Publish
<1> HIDE DEF v, entries
<1>4. release \in Release
  BY <1>2 DEF Release
<1> HIDE DEF release
<1>5. log' \in [Urls -> Seq(Int)]
  BY <1>1, <1>2, <1>3
<1>6. /\ releases' \in Seq(Release) /\ Len(releases') = Len(releases) + 1
      /\ \A i \in 1..Len(releases) : releases'[i] = releases[i]
  BY <1>1, <1>3, <1>4, AppendProperties
<1>7. /\ DOMAIN releases = 1..Len(releases) /\ DOMAIN releases' = 1..Len(releases')
      /\ Len(releases) \in Nat
  BY <1>1, <1>6
<1> QED
  BY <1>5, <1>6, <1>7

LEMMA PublishInv ==
    ASSUME Inv, NEW offer \in Offers, Publish(offer)
    PROVE  Inv'
<1>1. /\ UNCHANGED <<regs, disk, conf, up, memory, view, job, lines, history>>
      /\ releases' \in Seq(Release) /\ log' \in [Urls -> Seq(Int)]
      /\ \A v \in DOMAIN releases : v \in DOMAIN releases' /\ releases'[v] = releases[v]
      /\ job \in Jobs
  BY PublishKeeps DEF Publish, Inv, TypeOK
<1>2. TypeOK'
  BY <1>1 DEF Inv, TypeOK, disk, memory, history, marks
<1>3. ReservedGone' /\ MarkerHasPayload' /\ RestartKeeps'
  BY <1>1, StoreKept DEF Inv, memory, history, marks
<1>4. job.seen # 0 => job.seen \in DOMAIN releases
  BY DEF Inv, JobWhere
<1>5. CASE job.got \in DOMAIN releases
  <2>1. SameJob /\ job' = job
    BY <1>1, <1>4, <1>5 DEF SameJob
  <2>2. Body(job)' = Body(job)
    BY <2>1 DEF SameJob, Body, OfferOf
  <2>3. JobWhere'
    BY <1>1, <2>1, <2>2 DEF Inv, JobWhere, Prompting, Fetching, Chosen, Writing
  <2>4. /\ PayloadOf(job)' = PayloadOf(job) /\ MarkerOf(job)' = MarkerOf(job)
        /\ PayloadOf(Main(job))' = PayloadOf(Main(job))
        /\ MarkerOf(Main(job))' = MarkerOf(Main(job))
    BY <2>1, MainSame, WrittenSame
  <2>5. JobDone'
    BY <1>1, <2>1, <2>4 DEF Inv, JobDone, Prompting, MainKept, disk, history, marks
  <2> QED
    BY <1>2, <1>3, <2>3, <2>5 DEF Inv
<1>6. CASE job.got \notin DOMAIN releases
  <2>1. job.pc \notin {"verify"} \cup Chosen
    BY <1>6 DEF Inv, JobWhere
  <2>2. JobWhere'
    BY <1>1, <2>1 DEF Inv, JobWhere, Prompting, Fetching, Chosen, Writing
  <2>3. JobDone'
    BY <1>1, <2>1 DEF Inv, JobDone, Prompting, Chosen, Writing, disk, history, marks
  <2> QED
    BY <1>2, <1>3, <2>2, <2>3 DEF Inv
<1> QED
  BY <1>5, <1>6

LEMMA DeadInv ==
    ASSUME Inv, up, Dead, UNCHANGED <<world, regs, disk, risk, estranged, leftover>>,
           lines' \in Nat, conf' \in [Names -> ToolLists \cup {Gone, Torn, Bare}]
    PROVE  Inv'
<1>1. Fresh(job)' /\ job' = Idle /\ job' \in Jobs
  BY IdleFresh DEF Dead, Fresh, Idle
<1>2. NoView \in View
  BY DEF NoView, View
<1>3. TypeOK'
  <2>1. /\ pkgs' \in [Names -> Package \cup {None}] /\ broken' \subseteq Names /\ gver' \in Nat
        /\ servers' \in [Names -> ToolLists \cup {None, Failed}] /\ mver' \in Nat
    BY DEF Dead
  <2>2. view' \in View /\ up' \in BOOLEAN
    BY <1>2 DEF Dead
  <2>3. crashes' \in Nat /\ cut' \subseteq Names
    BY DEF Dead, Inv, TypeOK
  <2> QED
    BY <1>1, <2>1, <2>2, <2>3 DEF Inv, TypeOK, world, disk
<1>4. JobWhere' /\ JobDone'
  BY <1>1, FreshJob
<1>5. MarkerHasPayload' /\ ReservedGone'
  BY DEF Inv, MarkerHasPayload, ReservedGone, disk
<1>6. RestartKeeps'
  BY DEF RestartKeeps, Dead
<1> QED
  BY <1>3, <1>4, <1>5, <1>6 DEF Inv

LEMMA CrashInv ==
    ASSUME Inv, Crash \/ \E n \in Names : CrashInMcp(n)
    PROVE  Inv'
<1>1. CASE Crash
  BY <1>1, DeadInv DEF Crash, Inv, TypeOK
<1>2. CASE \E n \in Names : CrashInMcp(n)
  <2>1. PICK n \in Names : CrashInMcp(n)
    BY <1>2
  <2>2. lines' \in Nat /\ conf' \in [Names -> ToolLists \cup {Gone, Torn, Bare}]
    BY <2>1 DEF CrashInMcp, Inv, TypeOK
  <2> QED
    BY <2>1, <2>2, DeadInv DEF CrashInMcp
<1> QED
  BY <1>1, <1>2

LEMMA LoadedType ==
    ASSUME TypeOK, NEW n \in Names
    PROVE  Loaded(n) \in Package \cup {None}
BY DEF TypeOK, Loaded, Package

LEMMA ReconstructedType ==
    ASSUME TypeOK, NEW n \in Names
    PROVE  Reconstructed(n) \in ToolLists \cup {None}
<1>1. CASE GreaseServer(n)
  <2>1. Loaded(n) \in Package
    BY <1>1, LoadedType DEF GreaseServer
  <2>2. Loaded(n).payload.tools \in ToolLists \cup {None}
    BY <2>1 DEF Package, Payload
  <2> QED
    BY <1>1, <2>2 DEF Reconstructed
<1>2. CASE ~GreaseServer(n)
  BY <1>2 DEF Reconstructed
<1> QED
  BY <1>1, <1>2

LEMMA BootInv ==
    ASSUME Inv, Boot
    PROVE  Inv'
<1>1. /\ up' = TRUE /\ job = Idle /\ risk' = {} /\ estranged' = {}
      /\ pkgs' = [n \in Names |-> Loaded(n)]
      /\ UNCHANGED <<world, regs, disk, conf, gver, view, job, lines, crashes, cut, leftover>>
      /\ TypeOK
  BY DEF Boot, Inv, JobWhere
<1>2. mver' \in Nat
  <2> DEFINE known == {n \in Names : Reconstructed(n) # None}
  <2>1. IsFiniteSet(known)
    BY GreaseAssumption, FS_Subset
  <2>2. Cardinality(known) \in Nat
    BY <2>1, FS_CardinalityType
  <2>3. mver' = 2 * Cardinality(known)
    BY DEF Boot
  <2> QED
    BY <2>2, <2>3
<1>3. /\ pkgs' \in [Names -> Package \cup {None}] /\ broken' \subseteq Names
      /\ servers' \in [Names -> ToolLists \cup {None, Failed}]
  <2>1. servers' = [n \in Names |-> Reconstructed(n)] /\ broken' \subseteq Names
    BY DEF Boot, Unloadable
  <2> QED
    BY <1>1, <2>1, LoadedType, ReconstructedType
<1>4. TypeOK'
  BY <1>1, <1>2, <1>3 DEF TypeOK, world, disk
<1>5. Fresh(job)'
  BY <1>1, IdleFresh DEF Fresh, Idle
<1>6. JobWhere' /\ JobDone'
  BY <1>1, <1>5, FreshJob
<1>7. MarkerHasPayload' /\ ReservedGone'
  BY <1>1 DEF Inv, MarkerHasPayload, ReservedGone, disk
<1>8. RestartKeeps'
  <2>1. \A n \in Names : Loaded(n)' = Loaded(n)
    BY <1>1 DEF Loaded, disk
  <2> QED
    BY <1>1, <2>1 DEF RestartKeeps
<1> QED
  BY <1>4, <1>6, <1>7, <1>8 DEF Inv

-----------------------------------------------------------------------------
LEMMA InitInv ==
    ASSUME Init
    PROVE  Inv
<1>1. PICK k \in OldLogs :
        /\ log = [u \in Urls |-> [i \in 1..k |-> -i]]
        /\ \E first \in FirstOffers, installed \in BOOLEAN :
             LET here(n) == installed /\ n = first.name
             IN  /\ releases = <<[offer |-> first, size |-> k]>>
                 /\ payload = [n \in Names |-> [kind \in Kinds |->
                      IF here(n) /\ kind = first.kind THEN OldPayload(first) ELSE Gone]]
                 /\ marker = [n \in Names |-> IF here(n) THEN OldMarker(first) ELSE Gone]
  BY DEF Init
<1>2. PICK first \in FirstOffers, installed \in BOOLEAN :
        /\ releases = <<[offer |-> first, size |-> k]>>
        /\ payload = [n \in Names |-> [kind \in Kinds |->
             IF installed /\ n = first.name /\ kind = first.kind
               THEN OldPayload(first) ELSE Gone]]
        /\ marker = [n \in Names |->
             IF installed /\ n = first.name THEN OldMarker(first) ELSE Gone]
  BY <1>1
<1>3. /\ k \in Nat /\ first \in Offers /\ first.kind \in Kinds /\ first.name \in Names
      /\ first.url \in Urls /\ first.listed \in BOOLEAN /\ first.name # Reserved
  BY GreaseAssumption DEF Offer
<1>4. releases \in Seq(Release)
  BY <1>2, <1>3 DEF Release
<1>5. log \in [Urls -> Seq(Int)]
  <2>1. [i \in 1..k |-> -i] \in Seq(Int)
    BY <1>3
  <2> QED
    BY <1>1, <2>1
<1>6. OldPayload(first) \in Payload /\ OldPayload(first).kind = first.kind
  <2>1. (CHOOSE t \in ToolLists : TRUE) \in ToolLists
    BY GreaseAssumption
  <2> QED
    BY <1>3, <2>1 DEF OldPayload, Payload
<1>7. OldMarker(first) \in Marker /\ OldMarker(first).kind = first.kind
  BY <1>3 DEF OldMarker, Marker
<1>8. /\ payload \in [Names -> [Kinds -> Payload \cup {Gone, Torn}]]
      /\ marker \in [Names -> Marker \cup {Gone, Torn}]
  BY <1>2, <1>6, <1>7
<1>9. regs \in Seq(Registry) /\ NoView \in View
  BY GreaseAssumption DEF Init, NoView, View
<1>10. Fresh(job) /\ job = Idle
  BY IdleFresh DEF Init
<1>11. TypeOK
  BY <1>4, <1>5, <1>8, <1>9, <1>10 DEF Init, TypeOK, Fresh
<1>12. JobWhere /\ JobDone
  BY <1>10 DEF Fresh, JobWhere, JobDone, Prompting, Fetching, Chosen, Writing
<1>13. MarkerHasPayload /\ ReservedGone
  BY <1>2, <1>3, <1>6, <1>7, NothingElse DEF MarkerHasPayload, ReservedGone
<1>14. RestartKeeps
  BY DEF Init, RestartKeeps
<1> QED
  BY <1>11, <1>12, <1>13, <1>14 DEF Inv

LEMMA NextInv ==
    ASSUME Inv, [Next]_vars
    PROVE  Inv'
<1>1. ASSUME NEW offer \in Offers, Publish(offer) PROVE Inv'
  BY <1>1, PublishInv
<1>2. CASE Line
  <2>1. {n \in Names : pkgs[n] # None} \in SUBSET Names
    OBVIOUS
  <2>2. \A n \in ServerNames : n \in Names
    BY GreaseAssumption
  <2> QED
    BY <1>2, <2>1, <2>2, OtherLineInv, RegistryAddInv, RegistryRemoveInv, InstallLineInv,
       UpdateLineInv, RemoveLineInv, McpInv DEF Line
<1>3. CASE Fetch
  BY <1>3, FetchIndexInv, FetchBodyInv, VerifyInv, LiveInv DEF Fetch
<1>4. CASE Write
  BY <1>4, BeginPayloadInv, EndPayloadInv, BeginMarkerInv, EndMarkerInv, WriteFailsInv,
     RegisterServerInv, NextPromptInv, RegisterInv DEF Write
<1>5. CASE Uninstall
  BY <1>5, RemoveMarkerInv, RemoveStoreInv, ForgetInv DEF Uninstall
<1>6. CASE Crash \/ \E n \in ServerNames : CrashInMcp(n)
  BY <1>6, GreaseAssumption, CrashInv
<1>7. CASE Boot
  BY <1>7, BootInv
<1>8. CASE UNCHANGED vars
  BY <1>8 DEF vars, world, disk, memory, history, Inv, TypeOK, JobWhere, JobDone, Prompting,
     MainKept, Main, PayloadOf, MarkerOf, Body, From, OfferOf, Listed, Keyed, Proved,
     MarkerHasPayload, ReservedGone, RestartKeeps, Loaded, marks
<1> QED
  BY <1>1, <1>2, <1>3, <1>4, <1>5, <1>6, <1>7, <1>8 DEF Next, Step

-----------------------------------------------------------------------------
(* Every variable keeps its type: memory holds whole packages only, from   *)
(* whatever disk the process has been started on.                          *)
THEOREM StoreTypeCorrect == Spec => []TypeOK
<1>1. Inv => TypeOK
  BY DEF Inv
<1> QED
  BY <1>1, InitInv, NextInv, PTL DEF Spec

(* Where there is a whole install marker there is a payload of its kind,   *)
(* between any two steps of a line, so also after a crash there; but for a *)
(* marker a removal could not unlink before it went on to the payload.     *)
THEOREM MarkerIsBacked == Spec => []MarkerHasPayload
<1>1. Inv => MarkerHasPayload
  BY DEF Inv
<1> QED
  BY <1>1, InitInv, NextInv, PTL DEF Spec

(* The packages in memory are those a restart would load, but for the      *)
(* names whose write or removal has begun and not ended, or ended with     *)
(* something else on the disk, in the three ways Estranging and Forget     *)
(* name.                                                                   *)
THEOREM RestartIsHarmless == Spec => []RestartKeeps
<1>1. Inv => RestartKeeps
  BY DEF Inv
<1> QED
  BY <1>1, InitInv, NextInv, PTL DEF Spec

-----------------------------------------------------------------------------
(* The cached view.  Its key is never ahead of the version, and the        *)
(* version moves with every change of what the view shows; a process that  *)
(* starts has no view yet, and counts from 0.                              *)
ViewInv ==
    /\ ~up => view = NoView /\ gver = 0 /\ mver = 0
    /\ up => view.key =< Version
    /\ ViewFresh

VersionOf(m, g) == m * 1000003 + g

(* The version moves on with either counter.                               *)
LEMMA VersionMoves ==
    ASSUME NEW m \in Nat, NEW g \in Nat, NEW m2 \in Nat, NEW g2 \in Nat, m2 >= m, g2 >= g
    PROVE  /\ VersionOf(m, g) \in Nat /\ VersionOf(m2, g2) \in Nat
           /\ VersionOf(m2, g2) >= VersionOf(m, g)
           /\ g2 > g \/ m2 > m => VersionOf(m2, g2) > VersionOf(m, g)
BY SMT DEF VersionOf

LEMMA VersionIs == Version = VersionOf(mver, gver) /\ Version' = VersionOf(mver', gver')
BY SMT DEF Version, VersionOf

LEMMA ViewGoesOn ==
    ASSUME TypeOK, TypeOK', ViewInv, up, up', view' \in {view, Refreshed},
           gver' >= gver, mver' >= mver,
           Surface' = Surface \/ gver' > gver \/ mver' > mver
    PROVE  ViewInv'
<1>1. /\ gver \in Nat /\ mver \in Nat /\ gver' \in Nat /\ mver' \in Nat
      /\ Version \in Nat /\ Version' \in Nat /\ view.key \in Int
  <2>1. /\ gver \in Nat /\ mver \in Nat /\ gver' \in Nat /\ mver' \in Nat /\ view.key \in Int
    BY DEF TypeOK, View
  <2> QED
    BY <2>1, VersionIs, VersionMoves
<1>2. Version' >= Version /\ (gver' > gver \/ mver' > mver => Version' > Version)
  BY <1>1, VersionIs, VersionMoves
<1>3. view.key =< Version
  BY DEF ViewInv
<1>4. view'.key =< Version /\ (view'.key = Version => view'.surface = Surface)
  <2>1. CASE view' = view
    BY <1>3, <2>1 DEF ViewInv, ViewFresh
  <2>2. CASE view' = Refreshed
    BY <1>1, <1>3, <2>2 DEF Refreshed, ViewInv, ViewFresh
  <2> QED
    BY <2>1, <2>2
<1>5. view'.key \in Int
  BY DEF TypeOK, View
<1>6. view'.key =< Version'
  BY <1>1, <1>2, <1>4, <1>5
<1>7. ViewFresh'
  <2>1. SUFFICES ASSUME view'.key = Version' PROVE view'.surface = Surface'
    BY DEF ViewFresh
  <2>2. Version' = Version
    BY <1>1, <1>2, <1>4, <1>5, <2>1
  <2>3. Surface' = Surface
    BY <1>1, <1>2, <2>2
  <2> QED
    BY <1>4, <2>1, <2>2, <2>3
<1> QED
  BY <1>6, <1>7 DEF ViewInv

LEMMA DeadView ==
    ASSUME Dead
    PROVE  ViewInv'
BY DEF Dead, ViewInv, ViewFresh

(* A line that is started changes what is in memory only in the mcp family.*)
LEMMA LineKinds ==
    ASSUME Line
    PROVE  /\ StartLine
           /\ UNCHANGED memory \/ \E n \in ServerNames : McpAdd(n) \/ McpReload(n) \/ McpRemove(n)
<1>1. CASE OtherLine
  BY <1>1 DEF OtherLine
<1>2. CASE \E u \in Urls : RegistryRemove(u) \/ \E keyed \in BOOLEAN : RegistryAdd(u, keyed)
  BY <1>2 DEF RegistryAdd, RegistryRemove
<1>3. CASE \E n \in Names, want \in BOOLEAN : InstallLine(n, want)
  BY <1>3 DEF InstallLine
<1>4. CASE (\E n \in Names : UpdateLine({n})) \/ UpdateLine({n \in Names : pkgs[n] # None})
  BY <1>4 DEF UpdateLine
<1>5. CASE \E n \in Names : RemoveLine(n)
  BY <1>5 DEF RemoveLine
<1>6. CASE \E n \in ServerNames : McpAdd(n) \/ McpReload(n) \/ McpRemove(n)
  BY <1>6 DEF McpAdd, McpReload, McpRemove
<1> QED
  BY <1>1, <1>2, <1>3, <1>4, <1>5, <1>6 DEF Line

LEMMA FetchKeeps ==
    ASSUME Fetch
    PROVE  up /\ UNCHANGED <<disk, up, memory, view, history>>
<1>1. CASE FetchIndex
  BY <1>1 DEF FetchIndex, Stage
<1>2. CASE FetchBody
  BY <1>2 DEF FetchBody, Stage
<1>3. CASE Verify
  BY <1>3 DEF Verify, Stage
<1>4. CASE Live
  BY <1>4 DEF Live, Stage
<1> QED
  BY <1>1, <1>2, <1>3, <1>4 DEF Fetch

LEMMA NextView ==
    ASSUME Inv, Inv', ViewInv, [Next]_vars
    PROVE  ViewInv'
<1> DEFINE quiet == UNCHANGED <<up, view, memory>>
           moves == /\ up /\ up' /\ view' \in {view, Refreshed}
                    /\ gver' >= gver /\ mver' >= mver
                    /\ Surface' = Surface \/ gver' > gver \/ mver' > mver
<1>1. TypeOK /\ TypeOK' /\ gver \in Nat /\ mver \in Nat
  BY DEF Inv, TypeOK
<1>2. ASSUME quiet PROVE ViewInv'
  BY <1>2 DEF memory, ViewInv, ViewFresh, Version, Surface
<1>3. ASSUME moves PROVE ViewInv'
  BY <1>1, <1>3, ViewGoesOn
<1>4. ASSUME NEW offer \in Offers, Publish(offer) PROVE quiet
  BY <1>4 DEF Publish
<1>5. ASSUME StartLine, UNCHANGED memory PROVE moves
  BY <1>1, <1>5 DEF StartLine, memory, Surface
<1>6. ASSUME NEW n, McpAdd(n) \/ McpReload(n) \/ McpRemove(n) PROVE moves
  BY <1>1, <1>6 DEF McpAdd, McpReload, McpRemove, McpInstall, StartLine, Surface
<1>7. CASE Line
  <2> HIDE DEF moves
  <2> QED
    BY <1>3, <1>5, <1>6, <1>7, LineKinds
<1>8. CASE Fetch
  BY <1>2, <1>8, FetchKeeps
<1>9. CASE BeginPayload \/ EndPayload \/ BeginMarker \/ EndMarker \/ WriteFails \/ NextPrompt
           \/ RemoveMarker \/ RemoveStore
  <2>1. quiet
    BY <1>9, Zenon DEF BeginPayload, EndPayload, BeginMarker, EndMarker, WriteFails, NextPrompt,
       RemoveMarker, RemoveStore
  <2> QED
    BY <1>2, <2>1
<1>10. CASE RegisterServer
  <2>1. moves
    BY <1>1, <1>10 DEF RegisterServer, Stage, Surface
  <2> QED
    BY <1>3, <2>1
<1>11. CASE Register
  <2>1. moves
    BY <1>1, <1>11 DEF Register, SetInstalled, Stage
  <2> QED
    BY <1>3, <2>1
<1>12. CASE Forget
  <2>1. gver' = gver + 1 /\ mver' \in {mver, mver + 1} /\ up /\ up' = up /\ view' = view
    BY <1>12 DEF Forget, Stage
  <2>2. moves
    BY <1>1, <2>1
  <2> QED
    BY <1>3, <2>2
<1>13. CASE Crash \/ \E n \in ServerNames : CrashInMcp(n)
  BY <1>13, DeadView DEF Crash, CrashInMcp
<1>14. CASE Boot
  <2>1. view' = NoView /\ mver' \in Nat /\ gver' = 0
    BY <1>1, <1>14 DEF Boot, ViewInv, TypeOK
  <2>2. view'.key = -1
    BY <2>1 DEF NoView
  <2>3. Version' \in Nat
    BY <2>1, VersionIs, VersionMoves
  <2> QED
    BY <1>14, <2>2, <2>3 DEF Boot, ViewInv, ViewFresh
<1>15. CASE UNCHANGED vars
  BY <1>2, <1>15 DEF vars
<1> HIDE DEF quiet, moves
<1> QED
  BY <1>2, <1>4, <1>7, <1>8, <1>9, <1>10, <1>11, <1>12, <1>13, <1>14, <1>15
     DEF Next, Step, Write, Uninstall

(* A view that counts as current shows the packages and servers there are, *)
(* however many lines, failures and restarts there have been.              *)
THEOREM ViewIsFresh == Spec => []ViewFresh
<1>1. Init => ViewInv
  BY DEF Init, ViewInv, ViewFresh
<1>2. Inv /\ Inv' /\ ViewInv /\ [Next]_vars => ViewInv'
  BY NextView
<1>3. ViewInv => ViewFresh
  BY DEF ViewInv
<1> QED
  BY <1>1, <1>2, <1>3, InitInv, NextInv, PTL DEF Spec

-----------------------------------------------------------------------------
(* The store implements PackageSet.                                        *)
LEMMA ListingKept ==
    ASSUME UNCHANGED <<disk, up, pkgs>>
    PROVE  Listing' = Listing
BY DEF Listing, Loaded, disk

LEMMA ListingUp ==
    ASSUME TypeOK, up, NEW n \in Names
    PROVE  Listing[n] = pkgs[n]
BY DEF Listing

(* What a step of a line does to the listing while the process runs.       *)
LEMMA UpKept ==
    ASSUME up, up' = up, pkgs' = pkgs
    PROVE  Listing' = Listing
BY DEF Listing

LEMMA StepImplements ==
    ASSUME Inv, [Next]_vars
    PROVE  [Abstract!Next]_(Abstract!vars)
<1> DEFINE all == risk \cup estranged
           stays == Listing' = Listing /\ all' = all
           goal == [Abstract!Next]_(Abstract!vars)
<1>1. ASSUME stays PROVE goal
  BY <1>1 DEF Abstract!vars
<1>2. ASSUME NEW n \in Names, all' = all \cup {n}, Listing' = Listing PROVE goal
  BY <1>2 DEF Abstract!Next, Abstract!Begin
<1>3. ASSUME NEW n \in Names, n \in all, all' \in {all, all \ {n}},
             \A m \in Names \ {n} : Listing'[m] = Listing[m]
      PROVE  goal
  BY <1>3 DEF Abstract!Next, Abstract!Settle
<1>4. ASSUME NEW offer \in Offers, Publish(offer) PROVE stays
  BY <1>4, ListingKept DEF Publish, memory, history, marks
<1>5. CASE Line
  <2>1. up /\ up' = up /\ pkgs' = pkgs
    BY <1>5, LineKinds DEF StartLine, McpAdd, McpReload, McpRemove, memory
  <2>2. risk' = risk /\ estranged' = estranged
    BY <1>5, Zenon DEF Line, OtherLine, RegistryAdd, RegistryRemove, InstallLine, UpdateLine,
       RemoveLine, McpAdd, McpReload, McpRemove, marks
  <2> QED
    BY <1>1, <2>1, <2>2, UpKept
<1>6. CASE Fetch \/ EndPayload \/ EndMarker \/ WriteFails \/ RegisterServer \/ NextPrompt
           \/ RemoveStore
  <2>1. up /\ up' = up /\ pkgs' = pkgs /\ risk' = risk /\ estranged' = estranged
    BY <1>6, FetchKeeps, Zenon DEF EndPayload, EndMarker, WriteFails,
       RegisterServer, NextPrompt, RemoveStore, Stage, memory, history, marks
  <2> QED
    BY <1>1, <2>1, UpKept
<1>7. CASE BeginPayload
  <2>1. /\ job.cur \in Names /\ risk' = risk \cup {job.cur} /\ estranged' = estranged
        /\ Listing' = Listing
    BY <1>7, UpKept DEF BeginPayload, Stage, memory, Inv, JobWhere, Chosen, Writing
  <2>2. all' = all \cup {job.cur}
    BY <2>1
  <2> QED
    BY <1>2, <2>1, <2>2
<1>8. CASE RemoveMarker
  <2>1. /\ job.name \in Names /\ risk' = risk \cup {job.name} /\ estranged' = estranged
        /\ Listing' = Listing
    BY <1>8, UpKept DEF RemoveMarker, Stage, memory, Inv, JobWhere
  <2>2. all' = all \cup {job.name}
    BY <2>1
  <2> QED
    BY <1>2, <2>1, <2>2
<1>9. CASE Register
  <2>1. /\ job.pc \in Chosen /\ job.cur \in Names /\ job.cur \in all
        /\ risk' = risk \ {job.cur} /\ estranged' = estranged /\ up /\ up'
    BY <1>9 DEF Register, Stage, Inv, JobWhere, JobDone, Chosen
  <2>2. PayloadOf(job).as = job.cur
    BY <2>1, WrittenType DEF Inv
  <2>3. \A m \in Names \ {job.cur} : pkgs'[m] = pkgs[m]
    BY <1>9, <2>2 DEF Register, SetInstalled, Inv, TypeOK
  <2>4. \A m \in Names \ {job.cur} : Listing'[m] = Listing[m]
    BY <2>1, <2>3 DEF Listing
  <2>5. all' \in {all, all \ {job.cur}}
    BY <2>1
  <2> QED
    BY <1>3, <2>1, <2>4, <2>5
<1>10. CASE Forget
  <2>1. /\ job.name \in Names /\ job.name \in risk /\ risk' = risk \ {job.name} /\ up /\ up'
        /\ estranged' \in {estranged \cup {job.name}, estranged \ {job.name}}
    BY <1>10 DEF Forget, Stage, Inv, JobWhere, JobDone
  <2>2. \A m \in Names \ {job.name} : pkgs'[m] = pkgs[m]
    BY <1>10 DEF Forget, Inv, TypeOK
  <2>3. \A m \in Names \ {job.name} : Listing'[m] = Listing[m]
    BY <2>1, <2>2 DEF Listing
  <2>4. all' \in {all, all \ {job.name}}
    BY <2>1
  <2> QED
    BY <1>3, <2>1, <2>3, <2>4
<1>11. CASE Crash \/ \E n \in ServerNames : CrashInMcp(n)
  <2>1. up /\ up' = FALSE /\ UNCHANGED <<disk, risk, estranged>>
    BY <1>11 DEF Crash, CrashInMcp, Dead
  <2>2. \A m \in Names \ all : Listing'[m] = Listing[m]
    BY <2>1 DEF Listing, Inv, RestartKeeps, Loaded, disk
  <2> QED
    BY <2>1, <2>2 DEF Abstract!Next, Abstract!Interrupt
<1>12. CASE Boot
  <2>1. ~up /\ up' /\ risk' = {} /\ estranged' = {} /\ pkgs' = [n \in Names |-> Loaded(n)]
    BY <1>12 DEF Boot
  <2>2. Listing' = Listing
    BY <2>1 DEF Listing
  <2> QED
    BY <2>1, <2>2 DEF Abstract!Next, Abstract!Recover
<1>13. CASE UNCHANGED vars
  <2>1. stays
    BY <1>13, ListingKept DEF vars, memory, history, marks
  <2> QED
    BY <1>1, <2>1
<1>14. CASE BeginMarker
  <2>1. /\ up /\ up' = up /\ pkgs' = pkgs /\ risk' = risk /\ job.cur \in risk
        /\ estranged' \in {estranged \cup {job.cur}, estranged \ {job.cur}}
    BY <1>14 DEF BeginMarker, Stage, memory, Inv, JobDone
  <2>2. all' = all
    BY <2>1
  <2> QED
    BY <1>1, <2>1, <2>2, UpKept
<1> HIDE DEF stays
<1> QED
  BY <1>1, <1>4, <1>5, <1>6, <1>7, <1>8, <1>9, <1>10, <1>11, <1>12, <1>13, <1>14
     DEF Next, Step, Write, Uninstall

(* The store is a durable set of packages: a package changes only by a     *)
(* line that writes or removes it, and a crash harms none but those, with  *)
(* those a line has left estranged.                                        *)
THEOREM StoreIsDurable == Spec => Durable
<1>1. Init => Abstract!Init
  BY DEF Init, Abstract!Init
<1>2. Inv /\ [Next]_vars => [Abstract!Next]_(Abstract!vars)
  BY StepImplements
<1> QED
  BY <1>1, <1>2, InitInv, NextInv, PTL DEF Spec, Durable, Abstract!Spec

-----------------------------------------------------------------------------
(* The transparency logs: no release is in one twice, and a log has every  *)
(* entry that it had when the release said to be in it was published.      *)
LogsSound ==
    /\ \A u \in Urls : \A i, j \in 1..Len(log[u]) : log[u][i] = log[u][j] => i = j
    /\ \A u \in Urls : \A i \in 1..Len(log[u]) : log[u][i] =< Len(releases)
    /\ \A v \in DOMAIN releases :
         /\ releases[v].size =< Len(log[OfferOf(v).url])
         /\ OfferOf(v).logged = "own" => 1 =< releases[v].size

(* A release is the leaf its own index entry says it is: always so of one  *)
(* that is said to be alone in a tree made up for it.                      *)
Place(rs, v) ==
    CASE rs[v].offer.logged = "own" -> rs[v].size
      [] OTHER -> IF rs[v].size > 1 THEN rs[v].size - 1 ELSE 2

Entered(rs, lg, v) ==
    /\ v \in DOMAIN rs
    /\ rs[v].offer.logged # "alone" =>
         Place(rs, v) \in 1..rs[v].size /\ lg[rs[v].offer.url][Place(rs, v)] = v

(* What a registry's log has when one more is logged or is not.            *)
Distinct(s) == \A i, j \in 1..Len(s) : s[i] = s[j] => i = j
Below(s, v) == \A i \in 1..Len(s) : s[i] < v
Extends(new, old, v) ==
    /\ new \in Seq(Int) /\ Len(old) =< Len(new) /\ Distinct(new)
    /\ new = Append(old, v) => 1 =< Len(new)
    /\ \A i \in 1..Len(old) : new[i] = old[i]
    /\ \A i \in 1..Len(new) : new[i] =< v

LEMMA EntriesKept ==
    ASSUME NEW old \in Seq(Int), NEW v \in Nat, Below(old, v), Distinct(old),
           NEW new, new = old \/ new = Append(old, v)
    PROVE  Extends(new, old, v)
<1>1. CASE new = old
  <2>1. old # Append(old, v)
    <3>1. Len(Append(old, v)) = Len(old) + 1 /\ Len(old) \in Nat
      OBVIOUS
    <3> QED
      BY <3>1
  <2>2. \A i \in 1..Len(old) : old[i] \in Int
    OBVIOUS
  <2>3. \A i \in 1..Len(old) : old[i] =< v
    BY <2>2 DEF Below
  <2> QED
    BY <1>1, <2>1, <2>3 DEF Extends
<1>2. CASE new = Append(old, v)
  <2>1. /\ new \in Seq(Int) /\ Len(new) = Len(old) + 1 /\ Len(old) \in Nat /\ new[Len(old) + 1] = v
        /\ \A i \in 1..Len(old) : new[i] = old[i] /\ old[i] \in Int
    BY <1>2
  <2>2. \A i \in 1..Len(new) : i \in 1..Len(old) \/ i = Len(old) + 1
    BY <2>1
  <2>3. ASSUME NEW i \in 1..Len(new) PROVE new[i] =< v
    <3>1. CASE i \in 1..Len(old)
      <4>1. new[i] \in Int /\ new[i] = old[i] /\ old[i] < v
        BY <2>1, <3>1 DEF Below
      <4> QED
        BY <4>1
    <3>2. CASE i = Len(old) + 1
      BY <2>1, <3>2
    <3> QED
      BY <2>2, <3>1, <3>2
  <2>4. \A i \in 1..Len(old) : new[i] # v
    BY <2>1 DEF Below
  <2>5. Distinct(new)
    BY <2>1, <2>2, <2>4 DEF Distinct
  <2> QED
    BY <2>1, <2>3, <2>5 DEF Extends
<1> QED
  BY <1>1, <1>2

LEMMA PublishLogs ==
    ASSUME TypeOK, LogsSound, NEW offer \in Offers, Publish(offer)
    PROVE  LogsSound' /\ \A w : Entered(releases, log, w) => Entered(releases', log', w)
<1> DEFINE v == Len(releases) + 1
           entries == IF offer.logged = "own" THEN Append(log[offer.url], v) ELSE log[offer.url]
           release == [offer |-> offer, size |-> Len(entries)]
<1>1. /\ releases \in Seq(Release) /\ log \in [Urls -> Seq(Int)] /\ offer \in Offer
      /\ offer.url \in Urls /\ Len(releases) \in Nat /\ v \in Nat /\ v = Len(releases) + 1
  BY GreaseAssumption DEF TypeOK, Offer
<1>2. log' = [log EXCEPT ![offer.url] = entries] /\ releases' = Append(releases, release)
  BY DEF Publish
<1>3. offer.logged = "own" => entries = Append(log[offer.url], v)
  OBVIOUS
<1>4. PICK old \in Seq(Int) : old = log[offer.url]
  BY <1>1
<1>5. entries = old \/ entries = Append(old, v)
  BY <1>4
<1>6. release.offer = offer /\ release.size = Len(entries)
  OBVIOUS
<1> HIDE DEF entries
<1>7. Below(old, v) /\ Distinct(old)
  <2>1. \A i \in 1..Len(old) : old[i] =< Len(releases) /\ old[i] \in Int
    BY <1>1, <1>4 DEF LogsSound
  <2> QED
    BY <1>1, <1>4, <2>1 DEF LogsSound, Below, Distinct
<1> HIDE DEF v
<1>8. /\ entries \in Seq(Int) /\ Len(old) =< Len(entries)
      /\ entries = Append(old, v) => 1 =< Len(entries)
      /\ \A i \in 1..Len(old) : entries[i] = old[i]
      /\ \A i \in 1..Len(entries) : entries[i] =< v
      /\ \A i, j \in 1..Len(entries) : entries[i] = entries[j] => i = j
  <2>1. Extends(entries, old, v)
    <3>1. v \in Nat
      BY <1>1
    <3> HIDE DEF release
    <3> QED
      BY <1>5, <1>7, <3>1, EntriesKept, Zenon
  <2> QED
    BY <2>1 DEF Extends, Distinct
<1>9. release \in Release
  BY <1>1, <1>8 DEF Release
<1> HIDE DEF release
<1>10. /\ releases' \in Seq(Release) /\ Len(releases') = v /\ releases'[v] = release
       /\ DOMAIN releases = 1..Len(releases) /\ DOMAIN releases' = 1..v
       /\ \A w \in 1..Len(releases) : releases'[w] = releases[w]
  BY <1>1, <1>2, <1>9, AppendProperties
<1>11. log'[offer.url] = entries /\ \A u \in Urls \ {offer.url} : log'[u] = log[u]
  BY <1>1, <1>2
<1>12. \A w \in DOMAIN releases' : w \in DOMAIN releases \/ w = v
  BY <1>1, <1>10
<1>13. \A u \in Urls : \A i, j \in 1..Len(log'[u]) : log'[u][i] = log'[u][j] => i = j
  BY <1>8, <1>11 DEF LogsSound
<1>14. \A u \in Urls : \A i \in 1..Len(log'[u]) : log'[u][i] =< Len(releases')
  <2> SUFFICES ASSUME NEW u \in Urls, NEW i \in 1..Len(log'[u]) PROVE log'[u][i] =< Len(releases')
    OBVIOUS
  <2>1. CASE u = offer.url
    BY <1>8, <1>10, <1>11, <2>1
  <2>2. CASE u # offer.url
    <3>1. log'[u] = log[u] /\ log[u] \in Seq(Int)
      BY <1>1, <1>11, <2>2
    <3>2. log[u][i] \in Int /\ log[u][i] =< Len(releases)
      BY <3>1 DEF LogsSound
    <3> QED
      BY <1>1, <1>10, <3>1, <3>2
  <2> QED
    BY <2>1, <2>2
<1>15. \A u \in Urls : Len(log[u]) =< Len(log'[u]) /\ Len(log[u]) \in Nat /\ Len(log'[u]) \in Nat
  <2> SUFFICES ASSUME NEW u \in Urls
               PROVE  Len(log[u]) =< Len(log'[u]) /\ Len(log[u]) \in Nat /\ Len(log'[u]) \in Nat
    OBVIOUS
  <2>1. log[u] \in Seq(Int) /\ Len(log[u]) \in Nat
    BY <1>1
  <2> QED
    BY <1>4, <1>8, <1>11, <2>1
<1>16. ASSUME NEW w \in DOMAIN releases'
       PROVE  /\ releases'[w].size =< Len(log'[releases'[w].offer.url])
              /\ releases'[w].offer.logged = "own" => 1 =< releases'[w].size
  <2>1. CASE w = v
    BY <1>3, <1>4, <1>6, <1>8, <1>10, <1>11, <2>1
  <2>2. CASE w # v
    <3>1. w \in DOMAIN releases /\ releases'[w] = releases[w] /\ releases[w] \in Release
      BY <1>1, <1>10, <1>12, <2>2
    <3>2. PICK u \in Urls : u = releases[w].offer.url
      BY <1>1, <3>1, OfferType DEF OfferOf
    <3>3. releases[w].size =< Len(log[u]) /\ releases[w].size \in Nat
      BY <3>1, <3>2 DEF LogsSound, OfferOf, Release
    <3>4. releases[w].size =< Len(log'[u])
      BY <1>15, <3>3
    <3> QED
      BY <3>1, <3>2, <3>4 DEF LogsSound, OfferOf
  <2> QED
    BY <2>1, <2>2
<1>17. LogsSound'
  BY <1>13, <1>14, <1>16 DEF LogsSound, OfferOf
<1>18. ASSUME NEW w, Entered(releases, log, w) PROVE Entered(releases', log', w)
  <2>1. /\ w \in DOMAIN releases /\ w \in DOMAIN releases' /\ releases'[w] = releases[w]
        /\ releases[w] \in Release
    BY <1>1, <1>10, <1>12, <1>18 DEF Entered
  <2>2. PICK u \in Urls : u = releases[w].offer.url
    BY <1>1, <2>1, OfferType DEF OfferOf
  <2>3. PICK i : i = Place(releases, w) /\ i = Place(releases', w)
    BY <2>1 DEF Place
  <2>4. CASE releases[w].offer.logged = "alone"
    BY <2>1, <2>4 DEF Entered
  <2>5. CASE releases[w].offer.logged # "alone"
    <3>1. i \in 1..releases[w].size /\ log[u][i] = w
      BY <1>18, <2>2, <2>3, <2>5 DEF Entered
    <3>2. releases[w].size =< Len(log[u]) /\ releases[w].size \in Nat
      BY <2>1, <2>2 DEF LogsSound, OfferOf, Release
    <3>3. i \in 1..Len(log[u])
      BY <1>15, <3>1, <3>2
    <3>4. log'[u][i] = log[u][i]
      BY <1>4, <1>8, <1>11, <3>3
    <3> QED
      BY <2>1, <2>2, <2>3, <3>1, <3>4 DEF Entered
  <2> QED
    BY <2>4, <2>5
<1> QED
  BY <1>17, <1>18

(* Only a registry changes what it has published and logged.               *)
LEMMA WorldKept ==
    ASSUME [Next]_vars, ~\E offer \in Offers : Publish(offer)
    PROVE  UNCHANGED world
<1>1. CASE Line
  BY <1>1, LineKinds DEF StartLine
<1>2. CASE Step
  BY <1>2, Zenon DEF Step, Fetch, FetchIndex, FetchBody, Verify, Live, Write, BeginPayload, EndPayload,
     BeginMarker, EndMarker, WriteFails, RegisterServer, NextPrompt, Register, Uninstall,
     RemoveMarker, RemoveStore, Forget
<1>3. CASE Crash \/ (\E n \in ServerNames : CrashInMcp(n)) \/ Boot
  BY <1>3, Zenon DEF Crash, CrashInMcp, Boot
<1>4. CASE UNCHANGED vars
  BY <1>4 DEF vars
<1> QED
  BY <1>1, <1>2, <1>3, <1>4 DEF Next

LEMMA NextLogs ==
    ASSUME Inv, LogsSound, [Next]_vars
    PROVE  LogsSound' /\ \A v : Entered(releases, log, v) => Entered(releases', log', v)
<1>1. CASE \E offer \in Offers : Publish(offer)
  BY <1>1, PublishLogs DEF Inv
<1>2. CASE ~\E offer \in Offers : Publish(offer)
  <2>1. log' = log /\ releases' = releases
    BY <1>2, WorldKept DEF world
  <2> QED
    BY <2>1 DEF LogsSound, OfferOf
<1> QED
  BY <1>1, <1>2

LEMMA InitLogs ==
    ASSUME Init
    PROVE  LogsSound
<1>1. PICK k \in OldLogs, first \in FirstOffers :
        log = [u \in Urls |-> [i \in 1..k |-> -i]] /\ releases = <<[offer |-> first, size |-> k]>>
  BY DEF Init
<1>2. k \in Nat /\ first \in Offer /\ first.url \in Urls /\ first.logged # "own"
  BY GreaseAssumption DEF Offer
<1>3. /\ Len(releases) = 1 /\ DOMAIN releases = {1}
      /\ releases[1].offer = first /\ releases[1].size = k
  BY <1>1
<1>4. ASSUME NEW u \in Urls
      PROVE  Len(log[u]) = k /\ \A i \in 1..k : log[u][i] = -i
  <2>1. log[u] = [i \in 1..k |-> -i]
    BY <1>1
  <2> QED
    BY <1>2, <2>1
<1>5. \A i, j \in 1..k : -i = -j => i = j
  BY <1>2
<1>6. \A i \in 1..k : -i =< 1
  BY <1>2
<1>7. \A u \in Urls : \A i, j \in 1..Len(log[u]) : log[u][i] = log[u][j] => i = j
  BY <1>4, <1>5
<1>8. \A u \in Urls : \A i \in 1..Len(log[u]) : log[u][i] =< Len(releases)
  BY <1>3, <1>4, <1>6
<1>9. OfferOf(1) = first
  BY <1>3 DEF OfferOf
<1>10. releases[1].size =< Len(log[first.url])
  BY <1>2, <1>3, <1>4
<1> QED
  BY <1>2, <1>3, <1>7, <1>8, <1>9, <1>10 DEF LogsSound

(* A state that a log has been in is a log without repetitions.            *)
LEMMA EarlierLog ==
    ASSUME TypeOK, LogsSound, NEW u \in Urls, NEW k \in 1..Len(log[u])
    PROVE  /\ SubSeq(log[u], 1, k) \in Seq(Int) /\ Len(SubSeq(log[u], 1, k)) = k
           /\ \A i \in 1..k : SubSeq(log[u], 1, k)[i] = log[u][i]
           /\ \A i, j \in 1..k : SubSeq(log[u], 1, k)[i] = SubSeq(log[u], 1, k)[j] => i = j
<1>1. PICK s \in Seq(Int) : s = log[u]
  BY DEF TypeOK
<1>2. /\ k \in Nat /\ 1 =< k /\ 1 \in Int /\ k \in Int /\ Len(s) \in Nat
      /\ 1..k \subseteq 1..Len(s) /\ \A i \in 1..k : s[i] \in Int
  BY <1>1
<1>3. SubSeq(s, 1, k) \in Seq(Int) /\ Len(SubSeq(s, 1, k)) = k
  BY <1>2, SubSeqProperties
<1>4. \A i \in 1..k : SubSeq(s, 1, k)[i] = s[i]
  <2>1. \A i \in 1..(k - 1 + 1) : SubSeq(s, 1, k)[i] = s[1 + i - 1]
    BY <1>2, SubSeqProperties
  <2>2. k - 1 + 1 = k /\ \A i \in 1..k : 1 + i - 1 = i
    BY <1>2
  <2> QED
    BY <2>1, <2>2
<1>5. \A i, j \in 1..k : s[i] = s[j] => i = j
  BY <1>1, <1>2 DEF LogsSound
<1> QED
  BY <1>1, <1>3, <1>4, <1>5

LEMMA FromType ==
    ASSUME TypeOK, JobWhere, job.pc \in Fetching \cup Chosen
    PROVE  From(job) \in Urls
<1>1. job.at \in DOMAIN job.regs /\ job.regs \in Seq(Registry)
  BY DEF TypeOK, JobWhere, Jobs
<1>2. job.regs[job.at] \in Registry
  BY <1>1
<1> QED
  BY <1>2 DEF From, Registry

(* The proof an index entry comes with proves what is at that place in the *)
(* tree that the entry advertises.                                         *)
LEMMA ProvesEntry ==
    ASSUME TypeOK, LogsSound, NEW v \in DOMAIN releases, LogProves(v, v)
    PROVE  Entered(releases, log, v)
<1>1. CASE OfferOf(v).logged = "alone"
  BY <1>1 DEF Entered, OfferOf
<1>2. CASE OfferOf(v).logged # "alone"
  <2>1. PICK u \in Urls : u = OfferOf(v).url
    BY OfferType DEF TypeOK
  <2>2. PICK size \in Nat : size = releases[v].size
    <3>1. releases[v] \in Release
      BY DEF TypeOK
    <3> QED
      BY <3>1 DEF Release
  <2>3. PICK tree : tree = SubSeq(log[u], 1, size)
    OBVIOUS
  <2>4. PICK index : index = ProofIndex(v)
    OBVIOUS
  <2>5. PICK proof : proof = IF index < Len(tree) THEN AuditPath(tree, index + 1) ELSE <<>>
    OBVIOUS
  <2>6. VerifyInclusion(v, index, Len(tree), TreeRoot(tree), proof)
    BY <1>2, <2>1, <2>2, <2>3, <2>4, <2>5 DEF LogProves, Advertised
  <2>7. index < Len(tree)
    BY <2>6 DEF VerifyInclusion
  <2>8. Len(log[u]) \in Nat /\ size =< Len(log[u]) /\ (OfferOf(v).logged = "own" => 1 =< size)
    BY <2>1, <2>2 DEF TypeOK, LogsSound
  <2>9. index \in Nat /\ index + 1 = Place(releases, v)
    BY <1>2, <2>2, <2>4, <2>8 DEF ProofIndex, Place, OfferOf
  <2>10. size # 0
    <3> SUFFICES ASSUME size = 0 PROVE FALSE
      OBVIOUS
    <3>1. Len(tree) = 0
      BY <2>3, SubSeqEmpty
    <3> QED
      BY <2>7, <2>9, <3>1
  <2>11. size \in 1..Len(log[u])
    BY <2>8, <2>10
  <2>12. tree \in Seq(Int) /\ Len(tree) = size /\ \A i \in 1..size : tree[i] = log[u][i]
    BY <2>3, <2>11, EarlierLog
  <2>13. PICK e \in 1..size : e = index + 1
    BY <2>7, <2>9, <2>12
  <2>14. index = e - 1 /\ proof = AuditPath(tree, e) /\ 1 =< Len(tree)
    BY <2>5, <2>7, <2>9, <2>12, <2>13
  <2>15. PICK S : proof \in Seq(S)
    BY <2>12, <2>14, AuditPathIsSeq
  <2>16. v = tree[e]
    BY <2>6, <2>12, <2>14, <2>15, VerifyExact
  <2> QED
    BY <2>1, <2>2, <2>9, <2>12, <2>13, <2>16 DEF Entered, OfferOf
<1> QED
  BY <1>1, <1>2

(* Whatever earlier state of its log a registry hands out a proof against, *)
(* verify_inclusion_proof decides membership in it.                        *)
THEOREM ProofsDecide == Spec => []ProofDecides
<1>1. ASSUME Inv, LogsSound PROVE ProofDecides
  <2> SUFFICES ASSUME job.pc = "verify", NEW k \in 1..Len(log[From(job)])
               PROVE  DecidesInclusion(SubSeq(log[From(job)], 1, k))
    BY DEF ProofDecides
  <2>1. PICK u \in Urls : u = From(job)
    BY <1>1, FromType DEF Inv, Fetching
  <2>2. PICK s : s = SubSeq(log[u], 1, k)
    OBVIOUS
  <2>3. s \in Seq(Int) /\ \A i, j \in 1..Len(s) : s[i] = s[j] => i = j
    BY <1>1, <2>1, <2>2, EarlierLog DEF Inv
  <2> QED
    BY <2>1, <2>2, <2>3, DecidesDistinct
<1> QED
  BY <1>1, InitInv, InitLogs, NextInv, NextLogs, PTL DEF Spec

-----------------------------------------------------------------------------
(* What it takes for a marker to say what it says, of the releases rs and  *)
(* the logs lg.                                                            *)
Earned(m, rs, lg) ==
    /\ m.ver \in DOMAIN rs
    /\ m.url = rs[m.ver].offer.url
    /\ m.verified => rs[m.ver].offer.listed /\ rs[m.ver].offer.hashed
    /\ m.signed => m.verified /\ rs[m.ver].offer.signed
    /\ m.logged => Entered(rs, lg, m.ver)

Mixed(p) == p.marker.ver # p.payload.ver

Half == {"payloading", "marker", "marking"}

(* Whole markers are earned, on disk and in memory, and only a name whose  *)
(* write is under way, or was cut short, may mix two releases.             *)
StoreEarned ==
    /\ \A n \in Names : marker[n] \in Marker => Earned(marker[n], releases, log)
    /\ \A n \in Names : pkgs[n] # None =>
         Earned(pkgs[n].marker, releases, log) /\ (Mixed(pkgs[n]) => n \in cut)
    /\ \A n \in Names : Loaded(n) # None /\ Mixed(Loaded(n)) =>
         n \in cut \/ (job.pc \in Half /\ n = job.cur)

(* What a line has written whole is of the release that it fetched.        *)
Agrees(n) ==
    marker[n] \in Marker =>
      /\ marker[n].ver = job.got
      /\ payload[n][marker[n].kind] \in Payload => payload[n][marker[n].kind].ver = job.got

JobAgrees ==
    /\ job.pc \in {"server", "next"} \/ Prompting => Agrees(job.name)
    /\ job.pc = "register" => Agrees(job.cur)

(* What a job is about to write has passed the checks.                     *)
JobEarned ==
    /\ job.pc \in {"verify"} \cup Chosen => Body(job).url = From(job)
    /\ job.pc \in Chosen => /\ DigestAccepted(job.seen, job.got)
                            /\ SignatureAccepted(From(job), job.seen, job.got)
                            /\ Proved(From(job), job.seen) => Entered(releases, log, job.got)

LEMMA WrittenEarned ==
    ASSUME TypeOK, JobWhere, JobEarned, job.pc \in Chosen
    PROVE  /\ Earned(MarkerOf(job), releases, log)
           /\ MarkerOf(job).ver = PayloadOf(job).ver
<1>1. job.got \in DOMAIN releases /\ Body(job) = releases[job.got].offer
  BY DEF JobWhere, Body, OfferOf
<1>2. Body(job).url = From(job)
  BY DEF JobEarned
<1>3. CASE job.prompt
  BY <1>1, <1>2, <1>3 DEF MarkerOf, PayloadOf, Earned
<1>4. CASE ~job.prompt
  <2>1. /\ MarkerOf(job).ver = job.got /\ PayloadOf(job).ver = job.got
        /\ MarkerOf(job).url = From(job) /\ MarkerOf(job).verified = Listed(job.seen)
        /\ MarkerOf(job).signed = Keyed(From(job))
        /\ MarkerOf(job).logged = Proved(From(job), job.seen)
    BY <1>4 DEF MarkerOf, PayloadOf
  <2>2. Listed(job.seen) => OfferOf(job.seen).listed /\ OfferOf(job.seen).hashed /\ job.seen = job.got
    BY DEF JobEarned, DigestAccepted, Listed
  <2>3. Keyed(From(job)) => Listed(job.seen) /\ OfferOf(job.seen).signed /\ job.seen = job.got
    BY DEF JobEarned, SignatureAccepted
  <2>4. Proved(From(job), job.seen) => Entered(releases, log, job.got)
    BY DEF JobEarned
  <2> QED
    BY <1>1, <1>2, <2>1, <2>2, <2>3, <2>4 DEF Earned, OfferOf
<1> QED
  BY <1>3, <1>4

LEMMA LatestFrom ==
    ASSUME releases \in Seq(Release), NEW u, NEW n, Latest(u, n) # 0
    PROVE  OfferOf(Latest(u, n)).url = u
<1> DEFINE of == {v \in DOMAIN releases : OfferOf(v).url = u /\ OfferOf(v).name = n}
<1>1. Len(releases) \in Nat /\ of \in SUBSET (1..Len(releases))
  OBVIOUS
<1>2. of # {}
  BY DEF Latest
<1> HIDE DEF of
<1>3. \E v \in of : \A w \in of : w =< v
  BY <1>1, <1>2, GreatestExists
<1>4. Latest(u, n) \in of
  BY <1>2, <1>3 DEF Latest, of
<1> QED
  BY <1>4 DEF of

(* The job goes on with what it has fetched.                               *)
SameSource ==
    /\ job \in Jobs /\ job' \in Jobs
    /\ job'.at = job.at /\ job'.seen = job.seen /\ job'.got = job.got
    /\ job'.regs = job.regs
    /\ releases'[job.got].offer = releases[job.got].offer
    /\ job.seen # 0 => releases'[job.seen].offer = releases[job.seen].offer
    /\ Entered(releases, log, job.got) => Entered(releases', log', job.got)

LEMMA SourceEarned ==
    ASSUME JobEarned, SameSource,
           job.pc \in Chosen \/ (job'.pc = "verify" /\ job.pc = "verify")
    PROVE  JobEarned'
<1>1. Body(job)' = Body(job) /\ From(job)' = From(job)
  BY DEF SameSource, Body, OfferOf, From
<1>2. DigestAccepted(job.seen, job.got)' <=> DigestAccepted(job.seen, job.got)
  BY DEF SameSource, DigestAccepted, Listed, OfferOf
<1>3. SignatureAccepted(From(job), job.seen, job.got)' <=>
        SignatureAccepted(From(job), job.seen, job.got)
  BY <1>1 DEF SameSource, SignatureAccepted, Keyed, Listed, OfferOf
<1>4. Proved(From(job), job.seen)' <=> Proved(From(job), job.seen)
  BY <1>1 DEF SameSource, Proved, Keyed, Listed, OfferOf
<1>5. "verify" \notin Chosen
  BY DEF Chosen, Writing
<1>6. job.pc \in Chosen /\ Proved(From(job), job.seen) => Entered(releases', log', job.got)
  BY DEF SameSource, JobEarned
<1>7. job'.got = job.got
  BY DEF SameSource
<1> QED
  BY <1>1, <1>2, <1>3, <1>4, <1>5, <1>6, <1>7 DEF JobEarned

Early == {"idle", "index", "body"} \cup Removing

LEMMA EarlyEarned ==
    ASSUME job'.pc \in Early
    PROVE  JobEarned'
BY DEF Early, JobEarned, Chosen, Writing, Removing

LEMMA FreshEarly ==
    ASSUME NEW j, Fresh(j)
    PROVE  j.pc \in Early
BY DEF Fresh, Early

(* A proof is only accepted of what it has at its place.                   *)
LEMMA AcceptedEntered ==
    ASSUME TypeOK, JobWhere, LogsSound,
           Accepted(From(job), job.seen, job.got), Proved(From(job), job.seen)
    PROVE  Entered(releases, log, job.got)
<1>1. Keyed(From(job)) /\ Listed(job.seen)
  BY DEF Proved
<1>2. job.seen = job.got /\ LogProves(job.seen, job.got)
  BY <1>1 DEF Accepted, SignatureAccepted, LogAccepted
<1>3. job.seen \in DOMAIN releases
  BY <1>1 DEF JobWhere, Listed
<1> QED
  BY <1>2, <1>3, ProvesEntry

LEMMA FetchEarned ==
    ASSUME Inv, LogsSound, JobEarned, Fetch
    PROVE  JobEarned'
<1>1. /\ job \in Jobs /\ job.regs \in Seq(Registry) /\ releases \in Seq(Release)
      /\ job.rest \in SUBSET Names /\ TypeOK
  BY DEF Inv, TypeOK, Jobs
<1>2. ASSUME job' \in Continue(job.rest) PROVE JobEarned'
  BY <1>1, <1>2, ContinueFresh, FreshEarly, EarlyEarned
<1>3. CASE FetchIndex
  <2>1. job'.pc = "body"
    BY <1>1, <1>3 DEF FetchIndex, Jobs
  <2> QED
    BY <2>1, EarlyEarned DEF Early
<1>4. CASE FetchBody
  <2> DEFINE w == Latest(From(job), job.name)
  <2>1. CASE w # 0 /\ job' = [job EXCEPT !.got = w, !.pc = "verify"]
    <3>1. OfferOf(w).url = From(job)
      BY <1>1, <2>1, LatestFrom
    <3> HIDE DEF w
    <3>2. job'.pc = "verify" /\ job'.got = w /\ job'.at = job.at /\ job'.regs = job.regs
          /\ "verify" \notin Chosen
      BY <1>1, <2>1 DEF Jobs, Chosen, Writing
    <3>3. UNCHANGED releases
      BY <1>4 DEF FetchBody, world
    <3>4. Body(job)' = OfferOf(w) /\ From(job)' = From(job)
      BY <3>2, <3>3 DEF Body, OfferOf, From
    <3> QED
      BY <3>1, <3>2, <3>4 DEF JobEarned
  <2>2. CASE job' \in NextRegistry(job)
    <3>1. CASE job.at < Len(job.regs)
      <4>1. job'.pc = "index"
        BY <1>1, <2>2, <3>1 DEF NextRegistry, Jobs
      <4> QED
        BY <4>1, EarlyEarned DEF Early
    <3>2. CASE ~(job.at < Len(job.regs))
      BY <1>2, <2>2, <3>2 DEF NextRegistry
    <3> QED
      BY <3>1, <3>2
  <2> QED
    BY <1>4, <2>1, <2>2 DEF FetchBody
<1>5. CASE Verify
  <2> DEFINE good == Accepted(From(job), job.seen, job.got) /\ NameAccepted(job.name, job.got)
  <2>1. job.pc = "verify" /\ UNCHANGED <<releases, log>> /\ job.got \in DOMAIN releases
    BY <1>5 DEF Verify, Stage, world, Inv, JobWhere
  <2>2. CASE good
    <3>1. job' = [job EXCEPT !.pc = IF Body(job).kind = "mcp" THEN "live" ELSE "payload",
                             !.cur = job.name]
      BY <1>5, <2>2 DEF Verify
    <3>2. /\ job'.at = job.at /\ job'.seen = job.seen /\ job'.got = job.got
          /\ job'.regs = job.regs
      BY <1>1, <3>1 DEF Jobs
    <3>3. DigestAccepted(job.seen, job.got) /\ SignatureAccepted(From(job), job.seen, job.got)
      BY <2>2 DEF Accepted
    <3>4. Body(job).url = From(job)
      BY <2>1 DEF JobEarned
    <3>5. Body(job)' = Body(job) /\ From(job)' = From(job)
      BY <2>1, <3>2 DEF Body, OfferOf, From
    <3>6. DigestAccepted(job.seen, job.got)'
      BY <2>1, <3>2, <3>3 DEF DigestAccepted, Listed, OfferOf
    <3>7. SignatureAccepted(From(job), job.seen, job.got)'
      BY <2>1, <3>2, <3>3, <3>5 DEF SignatureAccepted, Keyed, Listed, OfferOf
    <3>8. Proved(From(job), job.seen) => Entered(releases, log, job.got)
      BY <2>2, AcceptedEntered DEF Inv
    <3>9. Proved(From(job), job.seen)' <=> Proved(From(job), job.seen)
      BY <2>1, <3>2, <3>5 DEF Proved, Keyed, Listed, OfferOf
    <3>10. Entered(releases, log, job.got)' <=> Entered(releases, log, job.got)
      BY <2>1, <3>2
    <3> QED
      BY <3>4, <3>5, <3>6, <3>7, <3>8, <3>9, <3>10 DEF JobEarned
  <2>3. CASE ~good
    BY <1>2, <1>5, <2>3 DEF Verify
  <2> QED
    BY <2>2, <2>3
<1>6. CASE Live
  <2>1. /\ job.pc = "live" /\ job.pc \in Chosen /\ UNCHANGED <<releases, log>> /\ job' \in Jobs
    BY <1>6, LiveInv DEF Live, Stage, world, Chosen, Inv, TypeOK
  <2>2. CASE job' \in Continue(job.rest)
    BY <1>2, <2>2
  <2>3. CASE \E tools, todo : job' = [job EXCEPT !.tools = tools, !.todo = todo, !.pc = "payload"]
    <3>1. /\ job'.at = job.at /\ job'.seen = job.seen /\ job'.got = job.got
          /\ job'.regs = job.regs
      BY <1>1, <2>3 DEF Jobs
    <3> QED
      BY <1>1, <2>1, <3>1, SourceEarned DEF SameSource
  <2> QED
    BY <1>6, <2>2, <2>3 DEF Live
<1> QED
  BY <1>3, <1>4, <1>5, <1>6 DEF Fetch

LEMMA WriteEarned ==
    ASSUME Inv, JobEarned, Write
    PROVE  JobEarned'
<1>1. /\ job \in Jobs /\ job.rest \in SUBSET Names /\ TypeOK
      /\ UNCHANGED <<releases, log>>
  BY DEF Inv, TypeOK, Jobs, Write, BeginPayload, EndPayload, BeginMarker, EndMarker, WriteFails,
     RegisterServer, NextPrompt, Register, world
<1>2. job.pc \in Chosen
  BY DEF Write, BeginPayload, EndPayload, BeginMarker, EndMarker, WriteFails, RegisterServer,
     NextPrompt, Register, Stage, Chosen, Writing
<1>3. ASSUME job' \in Continue(job.rest) PROVE JobEarned'
  BY <1>1, <1>3, ContinueFresh, FreshEarly, EarlyEarned
<1>4. ASSUME NEW pc \in Stages, job' = [job EXCEPT !.pc = pc] PROVE JobEarned'
  <2>1. SameSource
    BY <1>1, <1>4 DEF SameSource, Jobs
  <2> QED
    BY <1>2, <2>1, SourceEarned
<1>5. {"payloading", "marker", "marking", "server", "register", "next"} \subseteq Stages
  BY DEF Stages, Writing
<1>6. CASE BeginPayload \/ EndPayload \/ BeginMarker \/ RegisterServer
  BY <1>4, <1>5, <1>6 DEF BeginPayload, EndPayload, BeginMarker, RegisterServer
<1>7. CASE EndMarker
  <2>1. job' \in {[job EXCEPT !.pc = "server"], [job EXCEPT !.pc = "register"]}
    BY <1>7 DEF EndMarker
  <2> QED
    BY <1>4, <1>5, <2>1
<1>8. CASE WriteFails \/ Register
  <2>1. job' \in Continue(job.rest) \cup {[job EXCEPT !.pc = "next"]}
    BY <1>8 DEF WriteFails, GivenUp, Register
  <2> QED
    BY <1>3, <1>4, <1>5, <2>1
<1>9. CASE NextPrompt
  <2>1. /\ job'.at = job.at /\ job'.seen = job.seen /\ job'.got = job.got
        /\ job'.regs = job.regs
    BY <1>1, <1>9 DEF NextPrompt, Jobs
  <2>2. job' \in Jobs
    BY <1>9, NextPromptInv DEF Inv, TypeOK
  <2> QED
    BY <1>1, <1>2, <2>1, <2>2, SourceEarned DEF SameSource
<1> QED
  BY <1>6, <1>7, <1>8, <1>9 DEF Write

(* A line that starts a job starts it at its beginning.                    *)
LEMMA LineEarly ==
    ASSUME Inv, Line
    PROVE  job'.pc \in Early
<1>1. job = Idle /\ Idle.pc = "idle" /\ TypeOK
  BY LineKinds DEF StartLine, Idle, Inv, TypeOK
<1>2. CASE job' = job
  BY <1>1, <1>2 DEF Early
<1>3. CASE \E n \in Names, want \in BOOLEAN : InstallLine(n, want)
  BY <1>1, <1>3 DEF InstallLine, Install, Idle, Early
<1>4. CASE \E ns \in SUBSET Names : UpdateLine(ns)
  BY <1>1, <1>4, ContinueFresh DEF UpdateLine, Fresh, Early
<1>5. CASE \E n \in Names : RemoveLine(n)
  BY <1>5 DEF RemoveLine, Idle, Early, Removing
<1>6. \/ job' = job \/ (\E n \in Names, want \in BOOLEAN : InstallLine(n, want))
      \/ (\E ns \in SUBSET Names : UpdateLine(ns)) \/ (\E n \in Names : RemoveLine(n))
  <2>1. {n \in Names : pkgs[n] # None} \in SUBSET Names /\ \A n \in Names : {n} \in SUBSET Names
    OBVIOUS
  <2> QED
    BY <2>1, Zenon
       DEF Line, OtherLine, RegistryAdd, RegistryRemove, McpAdd, McpReload, McpRemove
<1> QED
  BY <1>2, <1>3, <1>4, <1>5, <1>6

LEMMA NextJobEarned ==
    ASSUME Inv, Inv', LogsSound, JobEarned, [Next]_vars
    PROVE  JobEarned'
<1>1. job \in Jobs /\ job' \in Jobs
  BY DEF Inv, TypeOK
<1>2. ASSUME NEW offer \in Offers, Publish(offer) PROVE JobEarned'
  <2>1. /\ job' = job
        /\ \A v \in DOMAIN releases : releases'[v] = releases[v]
    BY <1>2, PublishKeeps DEF Publish, Inv
  <2>2. CASE job.pc \in {"verify"} \cup Chosen
    <3>1. Entered(releases, log, job.got) => Entered(releases', log', job.got)
      BY <1>2, PublishLogs DEF Inv
    <3>2. SameSource
      BY <1>1, <2>1, <2>2, <3>1 DEF SameSource, Inv, JobWhere
    <3> QED
      BY <2>1, <2>2, <3>2, SourceEarned
  <2>3. CASE job.pc \notin {"verify"} \cup Chosen
    BY <2>1, <2>3 DEF JobEarned
  <2> QED
    BY <2>2, <2>3
<1>3. CASE Line
  BY <1>3, LineEarly, EarlyEarned
<1>4. CASE Fetch
  BY <1>4, FetchEarned
<1>5. CASE Write
  BY <1>5, WriteEarned
<1>6. CASE Uninstall
  <2>1. job'.pc \in {"unstore", "forget", "idle"}
    BY <1>1, <1>6 DEF Uninstall, RemoveMarker, RemoveStore, Forget, Jobs, Idle
  <2> QED
    BY <2>1, EarlyEarned DEF Early, Removing
<1>7. CASE Crash \/ \E n \in ServerNames : CrashInMcp(n)
  <2>1. job'.pc = "idle"
    BY <1>7 DEF Crash, CrashInMcp, Dead, Idle
  <2> QED
    BY <2>1, EarlyEarned DEF Early
<1>8. CASE Boot
  <2>1. job'.pc = "idle"
    BY <1>8 DEF Boot, Inv, JobWhere, Idle
  <2> QED
    BY <2>1, EarlyEarned DEF Early
<1>9. CASE UNCHANGED vars
  BY <1>9 DEF vars, world, JobEarned, Body, From, OfferOf, DigestAccepted, SignatureAccepted,
     Listed, Keyed, Proved
<1> QED
  BY <1>2, <1>3, <1>4, <1>5, <1>6, <1>7, <1>8, <1>9 DEF Next, Step

LEMMA EarnedStays ==
    ASSUME NEW rs, NEW rs2, \A v \in DOMAIN rs : v \in DOMAIN rs2 /\ rs2[v] = rs[v],
           NEW lg, NEW lg2, \A v : Entered(rs, lg, v) => Entered(rs2, lg2, v),
           NEW m \in Marker, Earned(m, rs, lg)
    PROVE  Earned(m, rs2, lg2)
BY DEF Earned

(* The job may have gone on, but not from one half-written name to another.*)
LEMMA StoreUntouched ==
    ASSUME Inv, StoreEarned, UNCHANGED <<disk, pkgs>>, cut \subseteq cut',
           job.pc \in Half => job.cur \in cut' \/ (job'.pc \in Half /\ job'.cur = job.cur),
           \A v \in DOMAIN releases : v \in DOMAIN releases' /\ releases'[v] = releases[v],
           \A v : Entered(releases, log, v) => Entered(releases', log', v)
    PROVE  StoreEarned'
<1>1. \A m \in Marker : Earned(m, releases, log) => Earned(m, releases', log')
  BY EarnedStays
<1>2. \A n : Loaded(n)' = Loaded(n)
  BY DEF Loaded, disk
<1>3. \A n \in Names : pkgs[n] # None => pkgs[n].marker \in Marker
  BY DEF Inv, TypeOK, Package
<1> QED
  BY <1>1, <1>2, <1>3 DEF StoreEarned, disk

(* A step that writes or removes the files of one name.                    *)
LEMMA StoreChanged ==
    ASSUME Inv, Inv', StoreEarned, NEW c \in Names,
           UNCHANGED <<pkgs, cut, releases, log>>,
           job.pc \in Half => job.cur = c,
           \A n \in Names \ {c} : payload'[n] = payload[n] /\ marker'[n] = marker[n],
           marker'[c] \in Marker => Earned(marker'[c], releases, log),
           \/ Loaded(c)' = None \/ ~Mixed(Loaded(c)') \/ c \in cut
           \/ job'.pc \in Half /\ job'.cur = c
    PROVE  StoreEarned'
<1>1. \A n \in Names \ {c} : Loaded(n)' = Loaded(n)
  BY DEF Loaded
<1> QED
  BY <1>1 DEF StoreEarned

(* What it takes for the files of a name to be of one release.             *)
LEMMA AgreesUnmixed ==
    ASSUME NEW n, Agrees(n)
    PROVE  Loaded(n) = None \/ ~Mixed(Loaded(n))
BY DEF Agrees, Loaded, Mixed

LEMMA AgreesKept ==
    ASSUME NEW n \in Names, Agrees(n), job'.got = job.got,
           \A k \in Kinds : payload'[n][k] \in Payload =>
             payload'[n][k] = payload[n][k] \/ payload'[n][k].ver = job.got,
           marker'[n] \in Marker => marker'[n] = marker[n] \/ marker'[n].ver = job.got,
           marker'[n] \in Marker /\ marker'[n] # marker[n] =>
             payload'[n][marker'[n].kind].ver = job.got
    PROVE  Agrees(n)'
BY DEF Agrees, Marker

LEMMA WrittenVer == MarkerOf(job).ver = job.got /\ PayloadOf(job).ver = job.got
BY DEF MarkerOf, PayloadOf

LEMMA Unconcerned ==
    ASSUME job'.pc \notin {"server", "next", "register"}, job'.pc \in Writing => ~job'.prompt
    PROVE  JobAgrees'
BY DEF JobAgrees, Prompting

(* A step that leaves the files alone.                                     *)
LEMMA AgreesUntouched ==
    ASSUME UNCHANGED disk, job'.got = job.got, NEW n, Agrees(n)
    PROVE  Agrees(n)'
BY DEF Agrees, disk

LEMMA EarlyUnconcerned ==
    ASSUME job'.pc \in Early
    PROVE  JobAgrees'
BY Unconcerned DEF Early, Writing, Removing

LEMMA WriteAgrees ==
    ASSUME Inv, Inv', JobAgrees, Write
    PROVE  JobAgrees'
<1>1. /\ job \in Jobs /\ job.rest \in SUBSET Names /\ TypeOK
      /\ payload \in [Names -> [Kinds -> Payload \cup {Gone, Torn}]]
      /\ Torn \notin Marker /\ Torn \notin Payload /\ Gone \notin Marker
      /\ UNCHANGED releases
  BY NothingElse DEF Inv, TypeOK, Jobs, Write, BeginPayload, EndPayload, BeginMarker, EndMarker,
     WriteFails, RegisterServer, NextPrompt, Register, world
<1>2. /\ job.pc \in Chosen /\ job.cur \in Names /\ job.name \in Names
      /\ ~job.prompt => job.cur = job.name
  <2>1. job.pc \in Chosen
    BY DEF Write, BeginPayload, EndPayload, BeginMarker, EndMarker, WriteFails, RegisterServer,
       NextPrompt, Register, Stage, Chosen, Writing
  <2> QED
    BY <2>1 DEF Inv, JobWhere, Chosen, Writing
<1>3. /\ PayloadOf(job) \in Payload /\ MarkerOf(job) \in Marker
      /\ PayloadOf(job).kind = MarkerOf(job).kind /\ PayloadOf(job).kind \in Kinds
  BY <1>1, <1>2, WrittenType DEF Inv, Payload
<1>4. ASSUME job' \in Continue(job.rest) PROVE JobAgrees'
  BY <1>1, <1>4, ContinueFresh, FreshEarly, EarlyUnconcerned
<1>5. ASSUME NEW pc \in Stages, job' = [job EXCEPT !.pc = pc]
      PROVE  /\ job'.pc = pc /\ job'.name = job.name /\ job'.got = job.got
             /\ job'.cur = job.cur /\ job'.prompt = job.prompt
  BY <1>1, <1>5 DEF Jobs
<1>6. {"payloading", "marker", "marking", "server", "register", "next"} \subseteq Stages
  BY DEF Stages, Writing
<1>7. ASSUME NEW pc \in {"payloading", "marker", "marking"}, job' = [job EXCEPT !.pc = pc],
             job.pc \in Writing, job.prompt => Agrees(job.name)'
      PROVE  JobAgrees'
  BY <1>5, <1>6, <1>7 DEF JobAgrees, Prompting
<1>8. job.pc \in Writing /\ job.prompt => Agrees(job.name)
  BY DEF JobAgrees, Prompting
<1>9. CASE BeginPayload
  <2>1. /\ job.pc \in Writing /\ marker' = marker /\ job' = [job EXCEPT !.pc = "payloading"]
        /\ payload' = [payload EXCEPT ![job.cur][PayloadOf(job).kind] = Torn]
    BY <1>9 DEF BeginPayload, Stage, Writing
  <2>2. \A k \in Kinds : payload'[job.name][k] \in Payload =>
          payload'[job.name][k] = payload[job.name][k]
    BY <1>1, <1>2, <1>3, <2>1
  <2>3. job.prompt => Agrees(job.name)'
    BY <1>2, <1>5, <1>6, <1>8, <2>1, <2>2, AgreesKept
  <2> QED
    BY <1>7, <2>1, <2>3
<1>10. CASE EndPayload
  <2>1. /\ job.pc \in Writing /\ marker' = marker /\ job' = [job EXCEPT !.pc = "marker"]
        /\ payload' = [payload EXCEPT ![job.cur][PayloadOf(job).kind] = PayloadOf(job)]
    BY <1>10 DEF EndPayload, Stage, Writing
  <2>2. PICK p : p = PayloadOf(job) /\ p.ver = job.got /\ p.kind \in Kinds
    BY <1>3, WrittenVer
  <2>3. \A k \in Kinds : payload'[job.name][k] \in Payload =>
          payload'[job.name][k] = payload[job.name][k] \/ payload'[job.name][k] = p
    BY <1>1, <1>2, <2>1, <2>2
  <2>4. job.prompt => Agrees(job.name)'
    BY <1>2, <1>5, <1>6, <1>8, <2>1, <2>2, <2>3, AgreesKept
  <2> QED
    BY <1>7, <2>1, <2>4
<1>11. CASE BeginMarker
  <2>1. /\ job.pc \in Writing /\ payload' = payload /\ job' = [job EXCEPT !.pc = "marking"]
        /\ MarkerFile(job.cur, Torn)
    BY <1>11 DEF BeginMarker, Stage, Writing
  <2>2. /\ \A n \in Names \ {job.cur} : marker'[n] = marker[n]
        /\ marker'[job.cur] \in {Torn, Gone}
    BY <1>2, <2>1, MarkerWritten
  <2>3. marker'[job.name] \in Marker => marker'[job.name] = marker[job.name]
    BY <1>1, <1>2, <2>2
  <2>4. job.prompt => Agrees(job.name)'
    BY <1>2, <1>5, <1>6, <1>8, <2>1, <2>3, AgreesKept
  <2> QED
    BY <1>7, <2>1, <2>4
<1>12. CASE EndMarker
  <2>1. /\ job.pc = "marking" /\ job.pc \in Writing /\ payload' = payload
        /\ job' \in {[job EXCEPT !.pc = "server"], [job EXCEPT !.pc = "register"]}
        /\ MarkerFile(job.cur, MarkerOf(job))
    BY <1>12 DEF EndMarker, Stage, Writing
  <2>2. PICK m \in Marker : m = MarkerOf(job) /\ m.ver = job.got
    BY <1>3, WrittenVer
  <2>3. PICK p : p = PayloadOf(job) /\ p.ver = job.got /\ p.kind = m.kind
    BY <1>3, <2>2, WrittenVer
  <2>4. payload'[job.cur][m.kind] = p
    BY <2>1, <2>3 DEF Inv, JobDone
  <2>5. /\ \A n \in Names \ {job.cur} : marker'[n] = marker[n]
        /\ marker'[job.cur] \in {m, Gone}
    BY <1>2, <2>1, <2>2, MarkerWritten
  <2>6. /\ job'.pc \in {"server", "register"} /\ job'.name = job.name /\ job'.got = job.got
        /\ job'.cur = job.cur /\ job'.prompt = job.prompt
    BY <1>5, <1>6, <2>1
  <2>7. Agrees(job.cur)'
    BY <1>1, <2>2, <2>3, <2>4, <2>5, <2>6 DEF Agrees
  <2>8. ASSUME job.cur # job.name PROVE Agrees(job.name)'
    <3>1. Agrees(job.name)
      BY <1>2, <1>8, <2>1, <2>8
    <3>2. marker'[job.name] = marker[job.name]
      BY <1>2, <2>5, <2>8
    <3> QED
      BY <1>2, <2>1, <2>6, <3>1, <3>2, AgreesKept
  <2>9. Agrees(job.name)'
    BY <2>6, <2>7, <2>8
  <2> QED
    BY <2>7, <2>9 DEF JobAgrees
<1>13. CASE WriteFails
  <2>1. /\ job.pc \in Writing /\ UNCHANGED disk /\ job' \in GivenUp(job)
    BY <1>13 DEF WriteFails
  <2>2. CASE job.prompt
    <3>1. job' = [job EXCEPT !.pc = "next"]
      BY <2>1, <2>2 DEF GivenUp
    <3>2. job'.pc = "next" /\ job'.got = job.got /\ job'.name = job.name
      BY <1>5, <1>6, <3>1
    <3>3. Agrees(job.name)'
      BY <1>8, <2>1, <2>2, <3>2, AgreesUntouched
    <3> QED
      BY <3>2, <3>3 DEF JobAgrees, Prompting, Writing
  <2>3. CASE ~job.prompt
    BY <1>4, <2>1, <2>3 DEF GivenUp
  <2> QED
    BY <2>2, <2>3
<1>14. CASE RegisterServer
  <2>1. job.pc = "server" /\ UNCHANGED disk /\ job' = [job EXCEPT !.pc = "next"]
    BY <1>14 DEF RegisterServer, Stage
  <2>2. job'.pc = "next" /\ job'.got = job.got /\ job'.name = job.name
    BY <1>5, <1>6, <2>1
  <2>3. Agrees(job.name)'
    BY <2>1, <2>2, AgreesUntouched DEF JobAgrees
  <2> QED
    BY <2>2, <2>3 DEF JobAgrees, Prompting, Writing
<1>15. CASE NextPrompt
  <2>1. /\ job.pc = "next" /\ UNCHANGED disk
        /\ job'.got = job.got /\ job'.name = job.name
        /\ job'.pc = "register" => job'.cur = job.name
    BY <1>1, <1>15 DEF NextPrompt, Stage, Jobs
  <2>2. Agrees(job.name)'
    BY <2>1, AgreesUntouched DEF JobAgrees
  <2> QED
    BY <2>1, <2>2 DEF JobAgrees
<1>16. CASE Register
  <2>1. job.pc = "register" /\ UNCHANGED disk
    BY <1>16 DEF Register, Stage
  <2>2. CASE job.prompt
    <3>1. job' = [job EXCEPT !.pc = "next"]
      BY <1>16, <2>2 DEF Register
    <3>2. job'.pc = "next" /\ job'.got = job.got /\ job'.name = job.name
      BY <1>5, <1>6, <3>1
    <3>3. Agrees(job.name)
      BY <2>1, <2>2 DEF JobAgrees, Prompting
    <3>4. Agrees(job.name)'
      BY <2>1, <3>2, <3>3, AgreesUntouched
    <3> QED
      BY <3>2, <3>4 DEF JobAgrees, Prompting, Writing
  <2>3. CASE ~job.prompt
    BY <1>4, <1>16, <2>3 DEF Register
  <2> QED
    BY <2>2, <2>3
<1> QED
  BY <1>9, <1>10, <1>11, <1>12, <1>13, <1>14, <1>15, <1>16 DEF Write

LEMMA NextJobAgrees ==
    ASSUME Inv, Inv', JobAgrees, [Next]_vars
    PROVE  JobAgrees'
<1>1. job \in Jobs /\ job' \in Jobs /\ TypeOK /\ job.rest \in SUBSET Names
  BY DEF Inv, TypeOK, Jobs
<1>2. CASE (\E offer \in Offers : Publish(offer)) \/ UNCHANGED vars
  BY <1>2 DEF Publish, vars, disk, JobAgrees, Agrees, Prompting
<1>3. CASE Line
  BY <1>3, LineEarly, EarlyUnconcerned
<1>4. CASE Fetch
  <2>1. job'.pc \in Early \cup {"verify", "live", "payload"} /\ (job'.pc = "payload" => ~job'.prompt)
    <3>1. job.pc \in Fetching /\ ~job.prompt
      BY <1>4 DEF Fetch, FetchIndex, FetchBody, Verify, Live, Stage, Fetching, Inv, JobWhere
    <3>2. ASSUME job' \in Continue(job.rest) PROVE job'.pc \in Early
      BY <1>1, <3>2, ContinueFresh, FreshEarly
    <3>3. job' \in Continue(job.rest) \/ job'.pc \in {"index", "body", "verify"}
          \/ (job'.pc \in {"live", "payload"} /\ job'.prompt = job.prompt)
      <4>1. CASE FetchIndex
        BY <1>1, <4>1 DEF FetchIndex, Jobs
      <4>2. CASE FetchBody
        BY <1>1, <4>2 DEF FetchBody, NextRegistry, Jobs
      <4>3. CASE Verify
        BY <1>1, <4>3 DEF Verify, Jobs
      <4>4. CASE Live
        BY <1>1, <4>4 DEF Live, Jobs
      <4> QED
        BY <1>4, <4>1, <4>2, <4>3, <4>4 DEF Fetch
    <3>4. CASE job' \in Continue(job.rest)
      <4>1. job'.pc \in Early
        BY <3>2, <3>4
      <4>2. "payload" \notin Early
        BY DEF Early, Removing
      <4> QED
        BY <4>1, <4>2
    <3>5. CASE job'.pc \in {"index", "body", "verify"}
      BY <3>5 DEF Early
    <3>6. CASE job'.pc \in {"live", "payload"} /\ job'.prompt = job.prompt
      BY <3>1, <3>6
    <3> QED
      BY <3>3, <3>4, <3>5, <3>6
  <2> QED
    BY <2>1, Unconcerned DEF Early, Removing, Writing
<1>5. CASE Write
  BY <1>5, WriteAgrees
<1>6. CASE Uninstall
  <2>1. job'.pc \in {"unstore", "forget", "idle"}
    BY <1>1, <1>6 DEF Uninstall, RemoveMarker, RemoveStore, Forget, Jobs, Idle
  <2> QED
    BY <2>1, EarlyUnconcerned DEF Early, Removing
<1>7. CASE Crash \/ (\E n \in ServerNames : CrashInMcp(n)) \/ Boot
  <2>1. job'.pc = "idle"
    BY <1>7 DEF Crash, CrashInMcp, Dead, Boot, Inv, JobWhere, Idle
  <2> QED
    BY <2>1, EarlyUnconcerned DEF Early
<1> QED
  BY <1>2, <1>3, <1>4, <1>5, <1>6, <1>7 DEF Next, Step

LEMMA RegisterEarned ==
    ASSUME Inv, JobEarned, JobAgrees, StoreEarned, Register
    PROVE  StoreEarned'
<1> DEFINE p == PayloadOf(job)
           m == MarkerOf(job)
           package == [marker |-> m, payload |-> p]
<1>1. /\ job.pc = "register" /\ job.pc \in Chosen /\ job.cur \in Names
      /\ UNCHANGED <<releases, log, disk>> /\ cut' = cut \ {job.cur}
      /\ Agrees(job.cur)
  BY DEF Register, Stage, Inv, JobWhere, JobAgrees, Chosen, world
<1>2. p \in Payload /\ m \in Marker /\ p.as = job.cur
  BY <1>1, WrittenType DEF Inv
<1>3. Earned(m, releases, log) /\ m.ver = p.ver
  BY <1>1, WrittenEarned DEF Inv
<1>4. pkgs' = [pkgs EXCEPT ![p.as] = package]
  BY DEF Register, SetInstalled
<1> HIDE DEF p, m
<1>5. ~Mixed(package) /\ package.marker = m
  BY <1>3 DEF Mixed
<1>6. /\ Loaded(job.cur) = None \/ ~Mixed(Loaded(job.cur))
      /\ \A n : Loaded(n)' = Loaded(n)
  BY <1>1, AgreesUnmixed DEF Loaded, disk
<1> HIDE DEF package
<1>7. pkgs'[job.cur] = package /\ \A n \in Names \ {job.cur} : pkgs'[n] = pkgs[n]
  BY <1>1, <1>2, <1>4 DEF Inv, TypeOK
<1>8. \A n \in Names : pkgs'[n] # None =>
        Earned(pkgs'[n].marker, releases, log) /\ (Mixed(pkgs'[n]) => n \in cut')
  BY <1>1, <1>3, <1>5, <1>7 DEF StoreEarned
<1>9. \A n \in Names : Loaded(n) # None /\ Mixed(Loaded(n)) => n \in cut'
  <2>1. job.pc \notin Half
    BY <1>1 DEF Half
  <2> QED
    BY <1>1, <1>6, <2>1 DEF StoreEarned
<1> QED
  BY <1>1, <1>6, <1>8, <1>9 DEF StoreEarned, disk

LEMMA ForgetEarned ==
    ASSUME Inv, StoreEarned, Forget
    PROVE  StoreEarned'
<1>1. /\ job.name \in Names /\ UNCHANGED <<releases, log, disk>> /\ job.pc \notin Half
      /\ \/ cut' = cut
         \/ cut' = cut \ {job.name} /\ marker[job.name] = Gone
      /\ Gone \notin Marker
  BY NothingElse DEF Forget, Stage, Inv, JobWhere, JobDone, world, Half
<1>2. pkgs'[job.name] = None /\ \A n \in Names \ {job.name} : pkgs'[n] = pkgs[n]
  BY <1>1 DEF Forget, Inv, TypeOK
<1>3. /\ cut' = cut \/ (cut' = cut \ {job.name} /\ Loaded(job.name) = None)
      /\ \A n : Loaded(n)' = Loaded(n)
  BY <1>1 DEF Loaded, disk
<1> QED
  BY <1>1, <1>2, <1>3 DEF StoreEarned, disk

LEMMA DeadEarned ==
    ASSUME Inv, StoreEarned, Dead, UNCHANGED <<world, disk>>
    PROVE  StoreEarned'
<1>1. \A n : Loaded(n)' = Loaded(n)
  BY DEF Loaded, disk
<1>2. cut' = cut \cup risk /\ \A n \in Names : pkgs'[n] = None
  BY DEF Dead
<1>3. job.pc \in Half => job.cur \in risk
  BY DEF Inv, JobDone, Half
<1> QED
  BY <1>1, <1>2, <1>3 DEF StoreEarned, disk, world

LEMMA BootEarned ==
    ASSUME Inv, StoreEarned, Boot
    PROVE  StoreEarned'
<1>1. /\ cut' = cut /\ job.pc \notin Half /\ \A n \in Names : pkgs'[n] = Loaded(n)
      /\ UNCHANGED <<releases, log, disk, job>>
  BY DEF Boot, world, Inv, JobWhere, Idle, Half
<1>2. \A n : Loaded(n)' = Loaded(n)
  BY <1>1 DEF Loaded, disk
<1>3. \A n \in Names : Loaded(n) # None => Earned(Loaded(n).marker, releases, log)
  BY DEF StoreEarned, Loaded
<1> QED
  BY <1>1, <1>2, <1>3 DEF StoreEarned, disk

LEMMA WriteEarnedStore ==
    ASSUME Inv, Inv', JobEarned, StoreEarned, BeginPayload \/ EndPayload \/ BeginMarker
    PROVE  StoreEarned'
<1>1. /\ job.cur \in Names /\ UNCHANGED <<pkgs, cut, releases, log>>
      /\ job'.pc \in Half /\ job'.cur = job.cur
  BY DEF BeginPayload, EndPayload, BeginMarker, Stage, memory, history, marks, world, Inv, TypeOK,
     Jobs, JobWhere, Chosen, Writing, Half
<1>2. \A n \in Names \ {job.cur} : payload'[n] = payload[n] /\ marker'[n] = marker[n]
  <2>1. CASE BeginPayload \/ EndPayload
    BY <1>1, <2>1 DEF BeginPayload, EndPayload, Inv, TypeOK
  <2>2. CASE BeginMarker
    BY <1>1, <2>2, MarkerWritten DEF BeginMarker
  <2> QED
    BY <2>1, <2>2
<1>3. marker'[job.cur] = marker[job.cur] \/ marker'[job.cur] \notin Marker
  <2>1. CASE BeginPayload \/ EndPayload
    BY <2>1 DEF BeginPayload, EndPayload
  <2>2. CASE BeginMarker
    <3>1. marker'[job.cur] \in {Torn, Gone}
      BY <1>1, <2>2, MarkerWritten DEF BeginMarker
    <3> QED
      BY <3>1, NothingElse
  <2> QED
    BY <2>1, <2>2
<1>4. marker'[job.cur] \in Marker => Earned(marker'[job.cur], releases, log)
  BY <1>1, <1>3 DEF StoreEarned
<1> QED
  BY <1>1, <1>2, <1>4, StoreChanged

LEMMA EndMarkerEarned ==
    ASSUME Inv, Inv', JobEarned, JobAgrees, StoreEarned, EndMarker
    PROVE  StoreEarned'
<1>1. /\ job.cur \in Names /\ UNCHANGED <<pkgs, cut, releases, log, payload>>
      /\ MarkerFile(job.cur, MarkerOf(job)) /\ job.pc \in Chosen
      /\ job'.cur = job.cur /\ job'.pc \in {"server", "register"}
      /\ job'.name = job.name /\ job'.got = job.got
      /\ ~job'.prompt => job'.cur = job'.name
  BY DEF EndMarker, Stage, memory, history, marks, world, Inv, TypeOK, Jobs, JobWhere, Chosen,
     Writing
<1>2. PICK m \in Marker : m = MarkerOf(job)
  BY <1>1, WrittenType DEF Inv
<1>3. /\ \A n \in Names \ {job.cur} : marker'[n] = marker[n]
      /\ marker'[job.cur] \in {m, Gone}
  BY <1>1, <1>2, MarkerWritten
<1>4. Earned(m, releases, log) /\ Gone \notin Marker
  BY <1>1, <1>2, WrittenEarned, NothingElse DEF Inv
<1>5. Agrees(job.cur)'
  <2>1. JobAgrees'
    BY WriteAgrees DEF Write
  <2>2. job'.pc = "server" => job'.cur = job'.name
    <3>1. JobWhere'
      BY DEF Inv
    <3>2. job'.pc = "server" => ~job'.prompt
      BY <3>1 DEF JobWhere
    <3> QED
      BY <1>1, <3>2
  <2> QED
    BY <1>1, <2>1, <2>2 DEF JobAgrees
<1>6. Loaded(job.cur)' = None \/ ~Mixed(Loaded(job.cur)')
  BY <1>1, <1>5 DEF Agrees, Loaded, Mixed
<1> QED
  BY <1>1, <1>3, <1>4, <1>6, StoreChanged

LEMMA RemoveEarned ==
    ASSUME Inv, Inv', StoreEarned, RemoveMarker \/ RemoveStore
    PROVE  StoreEarned'
<1>1. /\ job.name \in Names /\ UNCHANGED <<pkgs, cut, releases, log>> /\ job.pc \notin Half
      /\ Gone \notin Marker /\ Gone \notin Payload
  BY NothingElse DEF RemoveMarker, RemoveStore, Stage, memory, history, marks, world, Inv, JobWhere,
     Half
<1>2. PICK c \in Names : c = job.name
  BY <1>1
<1>3. CASE RemoveMarker
  <2>1. /\ payload' = payload
        /\ \/ MarkerFile(c, Gone)
           \/ marker' = marker
    BY <1>2, <1>3 DEF RemoveMarker
  <2>2. /\ \A n \in Names \ {c} : marker'[n] = marker[n]
        /\ marker'[c] = Gone \/ marker'[c] = marker[c]
    BY <1>1, <2>1, MarkerWritten
  <2>3. Loaded(c)' = None \/ Loaded(c)' = Loaded(c)
    BY <1>1, <2>1, <2>2 DEF Loaded
  <2>4. Loaded(c)' = None \/ ~Mixed(Loaded(c)') \/ c \in cut
    BY <1>1, <2>3 DEF StoreEarned
  <2>5. marker'[c] \in Marker => Earned(marker'[c], releases, log)
    BY <1>1, <2>2 DEF StoreEarned
  <2> QED
    BY <1>1, <2>1, <2>2, <2>4, <2>5, StoreChanged
<1>4. CASE RemoveStore
  <2>1. PICK gone : payload' = [payload EXCEPT ![job.name] =
                                  [k \in Kinds |-> IF k \in gone THEN Gone ELSE @[k]]]
    BY <1>4 DEF RemoveStore
  <2>2. /\ marker' = marker
        /\ \A n \in Names \ {c} : payload'[n] = payload[n]
        /\ \A k \in Kinds : payload'[c][k] \in {Gone, payload[c][k]}
    BY <1>1, <1>2, <1>4, <2>1 DEF RemoveStore, Inv, TypeOK
  <2>3. Loaded(c)' = None \/ Loaded(c)' = Loaded(c)
    BY <1>1, <2>2 DEF Loaded, Marker
  <2>4. Loaded(c)' = None \/ ~Mixed(Loaded(c)') \/ c \in cut
    BY <1>1, <2>3 DEF StoreEarned
  <2>5. marker'[c] \in Marker => Earned(marker'[c], releases, log)
    BY <1>1, <2>2 DEF StoreEarned
  <2> QED
    BY <1>1, <2>2, <2>4, <2>5, StoreChanged
<1> QED
  BY <1>3, <1>4

LEMMA NextStoreEarned ==
    ASSUME Inv, Inv', LogsSound, JobEarned, JobAgrees, StoreEarned, [Next]_vars
    PROVE  StoreEarned'
<1>1. ASSUME NEW offer \in Offers, Publish(offer) PROVE StoreEarned'
  <2>1. /\ \A v \in DOMAIN releases : v \in DOMAIN releases' /\ releases'[v] = releases[v]
        /\ \A v : Entered(releases, log, v) => Entered(releases', log', v)
    BY <1>1, PublishKeeps, PublishLogs DEF Inv
  <2> QED
    BY <1>1, <2>1, StoreUntouched DEF Publish, memory, history, marks
<1>2. CASE Line
  <2>1. UNCHANGED <<world, up>> /\ job = Idle
    BY <1>2, LineKinds DEF StartLine
  <2>2. UNCHANGED <<disk, pkgs, cut>>
    BY <1>2, Zenon DEF Line, OtherLine, RegistryAdd, RegistryRemove, InstallLine, UpdateLine,
       RemoveLine, McpAdd, McpReload, McpRemove, memory, marks
  <2> QED
    BY <2>1, <2>2, StoreUntouched DEF world, Idle, Half
<1>3. CASE Fetch \/ RegisterServer \/ NextPrompt
  <2>1. UNCHANGED <<disk, pkgs, cut>>
    BY <1>3, FetchKeeps, Zenon DEF RegisterServer, NextPrompt, memory, history, marks
  <2>2. releases' = releases /\ log' = log
    BY <1>3, Zenon DEF Fetch, FetchIndex, FetchBody, Verify, Live, RegisterServer, NextPrompt, world
  <2>3. job.pc \notin Half
    BY <1>3 DEF Fetch, FetchIndex, FetchBody, Verify, Live, RegisterServer, NextPrompt, Stage, Half
  <2> QED
    BY <2>1, <2>2, <2>3, StoreUntouched
<1>4. CASE WriteFails
  <2>1. job.pc \in Half => job.cur \in cut'
    BY <1>4 DEF WriteFails, Half
  <2> QED
    BY <1>4, <2>1, StoreUntouched DEF WriteFails, memory, world
<1>5. CASE BeginPayload \/ EndPayload \/ BeginMarker
  BY <1>5, WriteEarnedStore
<1>6. CASE EndMarker
  BY <1>6, EndMarkerEarned
<1>7. CASE RemoveMarker \/ RemoveStore
  BY <1>7, RemoveEarned
<1>8. CASE Register
  BY <1>8, RegisterEarned
<1>9. CASE Forget
  BY <1>9, ForgetEarned
<1>10. CASE Crash \/ \E n \in ServerNames : CrashInMcp(n)
  BY <1>10, DeadEarned DEF Crash, CrashInMcp
<1>11. CASE Boot
  BY <1>11, BootEarned
<1>12. CASE UNCHANGED vars
  BY <1>12, StoreUntouched DEF vars, memory, history, marks, world
<1> QED
  BY <1>1, <1>2, <1>3, <1>4, <1>5, <1>6, <1>7, <1>8, <1>9, <1>10, <1>11, <1>12
     DEF Next, Step, Write, Uninstall

LEMMA InitEarned ==
    ASSUME Init
    PROVE  JobEarned /\ JobAgrees /\ StoreEarned
<1>1. JobEarned /\ JobAgrees
  BY DEF Init, Idle, JobEarned, JobAgrees, Prompting, Chosen, Writing
<1>2. PICK k \in OldLogs, first \in FirstOffers, installed \in BOOLEAN :
        /\ releases = <<[offer |-> first, size |-> k]>>
        /\ payload = [n \in Names |-> [kind \in Kinds |->
             IF installed /\ n = first.name /\ kind = first.kind
               THEN OldPayload(first) ELSE Gone]]
        /\ marker = [n \in Names |->
             IF installed /\ n = first.name THEN OldMarker(first) ELSE Gone]
  BY DEF Init
<1>3. first.hashed /\ Gone \notin Marker /\ Gone \notin Payload
  BY NothingElse, GreaseAssumption
<1>4. Earned(OldMarker(first), releases, log)
  <2>1. 1 \in DOMAIN releases /\ releases[1].offer = first
    BY <1>2
  <2> QED
    BY <1>3, <2>1 DEF Earned, OldMarker
<1>5. \A n \in Names : marker[n] \in Marker => marker[n] = OldMarker(first)
  BY <1>2, <1>3
<1>6. \A n \in Names, k2 \in Kinds : payload[n][k2] \in Payload => payload[n][k2] = OldPayload(first)
  BY <1>2, <1>3
<1>7. \A n \in Names : marker[n] \in Marker => marker[n].kind \in Kinds
  BY DEF Marker
<1>8. ASSUME NEW n \in Names, Loaded(n) # None PROVE ~Mixed(Loaded(n))
  <2>1. /\ marker[n] \in Marker /\ payload[n][marker[n].kind] \in Payload
        /\ Loaded(n) = [marker |-> marker[n], payload |-> payload[n][marker[n].kind]]
    BY <1>8 DEF Loaded
  <2>2. Loaded(n).marker = OldMarker(first) /\ Loaded(n).payload = OldPayload(first)
    BY <1>5, <1>6, <1>7, <2>1
  <2>3. OldMarker(first).ver = 1 /\ OldPayload(first).ver = 1
    BY DEF OldMarker, OldPayload
  <2> QED
    BY <2>2, <2>3 DEF Mixed
<1>9. \A n \in Names : pkgs[n] = None
  BY DEF Init
<1>10. StoreEarned
  BY <1>4, <1>5, <1>8, <1>9 DEF StoreEarned
<1> QED
  BY <1>1, <1>10

LEMMA StoreIsEarned == Spec => []StoreEarned
<1>1. /\ Inv /\ Inv' /\ LogsSound /\ JobEarned /\ JobAgrees /\ StoreEarned /\ [Next]_vars
        => LogsSound' /\ JobEarned' /\ JobAgrees' /\ StoreEarned'
  BY NextLogs, NextJobEarned, NextJobAgrees, NextStoreEarned
<1>2. Init => LogsSound /\ JobEarned /\ JobAgrees /\ StoreEarned
  BY InitLogs, InitEarned
<1> QED
  BY <1>1, <1>2, InitInv, NextInv, PTL DEF Spec

(* A package in memory has the flags that its release deserves: of that    *)
(* registry, with its digest and its signature there.  Its marker and its  *)
(* payload are of one release, unless a write was cut short.               *)
THEOREM FlagsAreEarned == Spec => []FlagsEarned
<1>1. StoreEarned => FlagsEarned
  BY DEF StoreEarned, FlagsEarned, Earned, Mixed, OfferOf
<1> QED
  BY <1>1, StoreIsEarned, PTL

(* A package said to be logged is the leaf its own index entry says it is, *)
(* in the tree whose root that entry advertises.                           *)
THEOREM LogIsEarned == Spec => []LoggedEarned
<1>1. ASSUME Inv, LogsSound, StoreEarned PROVE LoggedEarned
  <2> SUFFICES ASSUME NEW n \in Names, pkgs[n] # None, pkgs[n].marker.logged,
                      NEW v, v = pkgs[n].marker.ver
               PROVE  /\ ProofIndex(v) + 1 \in DOMAIN Advertised(v)
                      /\ Advertised(v)[ProofIndex(v) + 1] = v
    BY DEF LoggedEarned
  <2>1. Entered(releases, log, v)
    BY <1>1 DEF StoreEarned, Earned
  <2>2. v \in DOMAIN releases /\ TypeOK /\ releases \in Seq(Release)
    BY <1>1, <2>1 DEF Entered, Inv, TypeOK
  <2>3. CASE OfferOf(v).logged = "alone"
    <3>1. Advertised(v) = <<v>> /\ ProofIndex(v) = 0
      BY <2>3 DEF Advertised, ProofIndex
    <3> QED
      BY <3>1
  <2>4. CASE OfferOf(v).logged # "alone"
    <3>1. PICK u \in Urls : u = OfferOf(v).url
      BY <2>2, OfferType
    <3>2. PICK size \in Nat : size = releases[v].size
      <4>1. releases[v] \in Release
        BY <2>2
      <4> QED
        BY <4>1 DEF Release
    <3>3. PICK e \in 1..size : e = Place(releases, v) /\ log[u][e] = v
      BY <2>1, <2>4, <3>1, <3>2 DEF Entered, OfferOf
    <3>4. PICK index : index = ProofIndex(v)
      OBVIOUS
    <3>5. index + 1 = e
      BY <2>4, <3>2, <3>3, <3>4 DEF ProofIndex, Place, OfferOf
    <3>6. size \in 1..Len(log[u])
      <4>1. size =< Len(log[u]) /\ Len(log[u]) \in Nat
        BY <1>1, <2>2, <3>1, <3>2 DEF LogsSound, TypeOK
      <4>2. 1 =< size
        BY <3>3
      <4> QED
        BY <4>1, <4>2
    <3>7. PICK tree : tree = SubSeq(log[u], 1, size)
      OBVIOUS
    <3>8. tree \in Seq(Int) /\ Len(tree) = size /\ tree[e] = log[u][e]
      BY <1>1, <2>2, <3>3, <3>6, <3>7, EarlierLog
    <3>9. Advertised(v) = tree
      BY <2>4, <3>1, <3>2, <3>7 DEF Advertised
    <3> QED
      BY <3>3, <3>4, <3>5, <3>8, <3>9
  <2> QED
    BY <2>3, <2>4
<1> QED
  BY <1>1, InitInv, NextInv, InitLogs, NextLogs, StoreIsEarned, PTL DEF Spec
=============================================================================
