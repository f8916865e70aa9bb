------------------------------- MODULE Authz -------------------------------
(***************************************************************************)
(* The authorization gate: crates/bash/src/authz.rs and the strictest-     *)
(* segment rule of Session::resolve_authz_strictest.                       *)
(*                                                                         *)
(* A command line is the sequence of its top-level segments (what          *)
(* split_segments yields), each one the command it runs, the tier of that  *)
(* command's manifest and whether the segment starts with `sudo`.          *)
(* Tokenizing, wrappers that are seen through (xargs) and subcommand       *)
(* policies decide which name and tier a segment has; here they are given. *)
(***************************************************************************)
EXTENDS Integers, Sequences

CONSTANT Commands       \* names of commands

Tiers == {"allow", "confirm", "sudo-only"}
Segment == [name : Commands, tier : Tiers, sudo : BOOLEAN]

-----------------------------------------------------------------------------
(* decide: Decision::Deny exists in the code but decide never returns it.  *)
Decide(seg, allowAll) ==
    CASE seg.tier = "allow" -> "Allow"
      [] seg.tier = "confirm" ->
            IF seg.sudo \/ allowAll THEN "Allow" ELSE "Confirm"
      [] seg.tier = "sudo-only" ->
            IF seg.sudo THEN "Allow" ELSE "ConfirmSudo"

DecisionRank(d) ==
    CASE d = "Allow" -> 0 [] d = "Confirm" -> 1 [] d = "ConfirmSudo" -> 2

RankAt(segs, i, allowAll) == DecisionRank(Decide(segs[i], allowAll))

(* The first segment of the highest rank: a later one replaces it only     *)
(* when its rank is strictly higher.                                       *)
IsStrictest(segs, allowAll, i) ==
    /\ \A j \in DOMAIN segs : RankAt(segs, j, allowAll) =< RankAt(segs, i, allowAll)
    /\ \A j \in DOMAIN segs : j < i => RankAt(segs, j, allowAll) < RankAt(segs, i, allowAll)

Strictest(segs, allowAll) ==
    segs[CHOOSE i \in DOMAIN segs : IsStrictest(segs, allowAll, i)]

(* The segments the question is about.                                     *)
Gated(segs, allowAll) ==
    {i \in DOMAIN segs : Decide(segs[i], allowAll) # "Allow"}

(* Variant of Named: the strictest command only.                           *)
NamedStrictest(segs, allowAll) == {Strictest(segs, allowAll).name}

(* What the confirmation names: the strictest command, or every gated one  *)
(* when there are several.                                                 *)
Named(segs, allowAll) ==
    IF \E i, j \in Gated(segs, allowAll) : i # j
      THEN {segs[i].name : i \in Gated(segs, allowAll)}
      ELSE {Strictest(segs, allowAll).name}

(* Variant of ConfirmChoices: "all" is always offered.                     *)
ConfirmChoicesAlike(sudoGrant) == {"yes", "no", "all"}

(* confirm_choices: "all" is not offered for a sudo-only command.          *)
ConfirmChoices(sudoGrant) ==
    IF sudoGrant THEN {"yes", "no"} ELSE {"yes", "no", "all"}
=============================================================================
