--------------------------- MODULE MCGreaseStore ---------------------------
(***************************************************************************)
(* What the registries may publish, for model checking GreaseStore: each   *)
(* check of an installation has an offer it must refuse, each path through *)
(* it one that passes.                                                     *)
(***************************************************************************)
EXTENDS GreaseStore

CONSTANTS a, b, r, u1, u2

Good(url, kind, logged) ==
    [url |-> url, name |-> a, kind |-> kind, misnamed |-> FALSE, prompts |-> {},
     listed |-> TRUE, hashed |-> TRUE, signed |-> TRUE, logged |-> logged]

Server(prompts) == [Good(u1, "mcp", "alone") EXCEPT !.prompts = prompts]

MCOffers ==
    {Server({b}), Server({a, b}),
     [Good(u1, "script", "no") EXCEPT !.hashed = FALSE],
     [Good(u1, "prompt", "no") EXCEPT !.listed = FALSE, !.signed = FALSE],
     [Good(u1, "prompt", "no") EXCEPT !.misnamed = TRUE],
     [Good(u2, "script", "own") EXCEPT !.name = r],
     Good(u2, "script", "other")}

MCFirstOffers == {Server({b})}

(* The first registry is unsigned, until a line adds its key.              *)
MCFirstRegs == {<<[url |-> u1, keyed |-> FALSE], [url |-> u2, keyed |-> TRUE]>>}
=============================================================================
