--------------------------- MODULE PromptProtocol ---------------------------
(***************************************************************************)
(* What the shell promises whoever drives it, for the one question it may  *)
(* have outstanding: the contract LineResult::pending_prompt states        *)
(* (crates/bash/src/session/mod.rs).  The shell never blocks; a call       *)
(* either leaves a question open, and says so in its reply, or leaves none *)
(* and says so.  A question is never replaced by another one: it goes away *)
(* only by being resolved, and while it is open nothing else is run.       *)
(***************************************************************************)
EXTENDS Naturals

VARIABLES question,     \* number of the open question, 0 when there is none
          asked,        \* how many questions have been asked
          told          \* whether the last reply carried a question

vars == <<question, asked, told>>

Init == question = 0 /\ asked = 0 /\ told = FALSE

Ask == question' = asked' /\ asked' = asked + 1 /\ told' = TRUE
Answer == question' = 0 /\ told' = FALSE /\ UNCHANGED asked

(* A line that runs to its end, or a call that finds nothing to do.        *)
RunLine == question = 0 /\ Answer

(* A line that stops to ask.                                               *)
AskFirst == question = 0 /\ Ask

(* A call that cannot be served: the question stands and is shown again.   *)
Remind == question # 0 /\ told' = TRUE /\ UNCHANGED <<question, asked>>

Resolve == question # 0 /\ Answer

(* What was approved runs and stops to ask something else.                 *)
AskAgain == question # 0 /\ Ask

Next == RunLine \/ AskFirst \/ Remind \/ Resolve \/ AskAgain

Spec == Init /\ [][Next]_vars
=============================================================================
