----------------------------- MODULE PackageSet -----------------------------
(***************************************************************************)
(* What a durable set of packages promises whoever lists it: a package     *)
(* changes only by a line that writes or removes it, and a death of the    *)
(* process, whenever it comes, can harm none but the packages some line    *)
(* was writing or removing.  GreaseStore implements it.                    *)
(***************************************************************************)
CONSTANT Names

VARIABLES installed,    \* per name the package that is listed, or None
          risk          \* the names some line has begun to change

vars == <<installed, risk>>

Init == risk = {}

(* A line begins to write or to remove n.                                  *)
Begin(n) == risk' = risk \cup {n} /\ UNCHANGED installed

(* It is done with n: the package is there, or it is gone.  Where the line *)
(* did not see that this failed, n stays at risk.                          *)
Settle(n) ==
    /\ n \in risk
    /\ \A m \in Names \ {n} : installed'[m] = installed[m]
    /\ risk' \in {risk, risk \ {n}}

(* The process dies; what was at risk may be anything.                     *)
Interrupt ==
    /\ \A m \in Names \ risk : installed'[m] = installed[m]
    /\ UNCHANGED risk

(* It starts again, with what is there.                                    *)
Recover == risk' = {} /\ UNCHANGED installed

Next == (\E n \in Names : Begin(n) \/ Settle(n)) \/ Interrupt \/ Recover

Spec == Init /\ [][Next]_vars
=============================================================================
