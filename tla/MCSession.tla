----------------------------- MODULE MCSession -----------------------------
(***************************************************************************)
(* Command lines for model checking Session: at least one per body, and    *)
(* for the gate a line whose segments differ in tier and in sudo.          *)
(***************************************************************************)
EXTENDS Session

Seg(name, tier) == [name |-> name, tier |-> tier, sudo |-> FALSE]
Sudo(seg) == [seg EXCEPT !.sudo = TRUE]

MCCommands == {"echo", "curl", "rm", "ask"}
MCAnswers == {"yes", "no", "all", "other"}

Echo == Seg("echo", "allow")
Curl == Seg("curl", "confirm")
Rm == Seg("rm", "sudo-only")
Ask == Seg("ask", "confirm")

Plain(body, segs) ==
    [body |-> body, segs |-> segs, choices |-> {}, pids |-> {}, jobs |-> {},
     upstream |-> <<>>]

Kill(pids, ids) == [Plain("kill", <<Echo>>) EXCEPT !.pids = pids, !.jobs = ids]

MCLines ==
    {Plain("blank", <<>>),
     Plain("intercept", <<Echo>>),
     [Plain("question", <<Echo>>) EXCEPT !.choices = {"yes", "no"}],
     Plain("plain", <<Echo, Curl, Rm>>),
     Plain("direct", <<Sudo(Rm), Curl>>),
     Plain("direct", <<Curl>>),
     Plain("job", <<Echo>>),
     Plain("invoke", <<Sudo(Curl)>>),
     Plain("ask", <<Ask>>),
     Plain("ask", <<Sudo(Ask)>>),
     [Plain("pipe", <<Ask>>) EXCEPT !.upstream = <<Rm>>]}
    \cup {Kill({2, 3}, {}), Kill({4}, {1})}

=============================================================================
