------------------------------ MODULE AskLoop ------------------------------
(***************************************************************************)
(* The agentic loop behind `ask`: run_ask, drive_ask_loop,                 *)
(* resolve_agent_loop, execute_ask_tool and run_prompt of                  *)
(* crates/clank-core/src/clank/ask.rs.                                     *)
(*                                                                         *)
(* A loop consults the model; the model ends it or asks for a batch of     *)
(* tool calls, which are executed in order.  A call that needs the human   *)
(* stops the loop: the rest of the batch and the results so far are put    *)
(* away with the question, and the call of the driver returns.  The answer *)
(* settles the call, the rest of the batch is drained, and the loop goes   *)
(* on.  A call of an installed prompt runs a loop of its own inside the    *)
(* first.  The provider is one value that a loop takes out while it awaits *)
(* the model and must put back for the loops inside it and after it.       *)
(*                                                                         *)
(* Session sees only where the calls of the driver begin and end; here     *)
(* each await is a step.                                                   *)
(***************************************************************************)
EXTENDS Naturals, Sequences, FiniteSets

CONSTANTS MaxTurns,     \* config::limits::ASK_MAX_ITERATIONS
          MaxBatch,     \* bound: tool calls in one reply of the model
          MaxDepth      \* bound: loops inside one another; 1 without prompts

ASSUME AskLoopAssumption ==
    MaxTurns \in Nat /\ MaxBatch \in Nat \ {0} /\ MaxDepth \in Nat \ {0}

VARIABLES provider,     \* ask_provider: "home", "out" with a loop, or "none"
          frames,       \* the loops that run, each inside the one before
          pending,      \* the loop that is put away with its question
          told          \* whether the driver's last reply carried a question

vars == <<provider, frames, pending, told>>

(* What execute_ask_tool makes of a call:                                  *)
(*   settled   answered without the human: malformed, refused by a guard,  *)
(*             or free for the gate to run                                 *)
(*   confirm   a command of the confirm tier                               *)
(*   sudoOnly  a command of the sudo-only tier                             *)
(*   question  prompt_user                                                 *)
(*   prompt    an installed prompt, which is of the confirm tier           *)
Kinds == {"settled", "confirm", "sudoOnly", "question", "prompt"}
Waits(kind, blanket) == \/ kind \in {"question", "sudoOnly"}
                        \/ kind \in {"confirm", "prompt"} /\ ~blanket

(* What a human may answer: free text, or one of confirm_choices.          *)
Choices(kind) == CASE kind = "question" -> {"text"}
                   [] kind = "sudoOnly" -> {"yes", "no"}
                   [] kind \in {"confirm", "prompt"} -> {"yes", "no", "all"}

NoPause == [batch |-> <<>>]

-----------------------------------------------------------------------------
(* A conversation is a sequence of turns, after the first one of the user: *)
(* the calls the model asked for, then their results, by the ids of the    *)
(* calls.  A frame keeps the calls of the turn it is at, those not settled *)
(* yet, and the results so far.  Its stage is "model" while it awaits the  *)
(* model, "tools" in the batch of drive_ask_loop, "drain" in that of       *)
(* resolve_agent_loop.                                                     *)
Assistant(ids) == [role |-> "assistant", ids |-> ids]
Results(ids) == [role |-> "results", ids |-> ids]

Turns(history) == Cardinality({i \in DOMAIN history : history[i].role = "assistant"})

Fresh(blanket) == [stage |-> "model", history |-> <<>>, turn |-> 0, ids |-> <<>>,
                   batch |-> <<>>, results |-> <<>>, blanket |-> blanket]

Idle == frames = <<>>
Depth == Len(frames)
Top == frames[Depth]
SetTop(frame) == frames' = [frames EXCEPT ![Depth] = frame]

(* The first call of the batch has its result.                             *)
Settled(frame) == [frame EXCEPT !.results = Append(@, frame.batch[1].id),
                                !.batch = Tail(@)]

(* Variant of Return: the question of a reply is left out.                 *)
ReturnSilently(asks) ==
    IF Depth = 1
      THEN frames' = <<>> /\ told' = FALSE
      ELSE /\ frames' = [i \in 1..Depth - 1 |->
                            IF i = Depth - 1 THEN Settled(frames[i]) ELSE frames[i]]
           /\ UNCHANGED told

(* The innermost loop returns: to the driver, or as the result of the call *)
(* that started it, of which only output and exit code are used.           *)
Return(asks) ==
    IF Depth = 1
      THEN frames' = <<>> /\ told' = asks
      ELSE /\ frames' = [i \in 1..Depth - 1 |->
                            IF i = Depth - 1 THEN Settled(frames[i]) ELSE frames[i]]
           /\ UNCHANGED told

-----------------------------------------------------------------------------
(* run_ask.  Without a provider, or for an unknown model, it is an error.  *)
Ask(blanket) ==
    /\ Idle
    /\ pending = NoPause
    /\ \/ /\ provider = "home"
          /\ provider' = "out"
          /\ frames' = <<Fresh(blanket)>>
          /\ UNCHANGED <<pending, told>>
       \/ told' = FALSE /\ UNCHANGED <<provider, frames, pending>>

AtModel == ~Idle /\ Top.stage = "model"

(* Variant of LimitReached: the loop goes round instead of ending.         *)
LimitReachedUnended == AtModel /\ Top.turn >= MaxTurns /\ UNCHANGED vars

LimitReached ==
    /\ AtModel
    /\ Top.turn >= MaxTurns
    /\ provider' = "home"
    /\ Return(FALSE)
    /\ UNCHANGED pending

(* The model answers, or the provider fails.                               *)
ModelEnds ==
    /\ AtModel
    /\ Top.turn < MaxTurns
    /\ provider' = "home"
    /\ Return(FALSE)
    /\ UNCHANGED pending

(* The calls of a reply, numbered by the provider.                         *)
Batch(kinds) == [i \in DOMAIN kinds |->
                    [id |-> Top.turn * MaxBatch + i, kind |-> kinds[i]]]
Ids(batch) == [i \in DOMAIN batch |-> batch[i].id]

(* Prompts are offered only where a loop may start another one.            *)
Offered == IF Depth < MaxDepth THEN Kinds ELSE Kinds \ {"prompt"}

(* Variant of ModelCalls: the provider stays with the loop.                *)
ModelCallsKeeping ==
    /\ AtModel
    /\ Top.turn < MaxTurns
    /\ \E n \in 1..MaxBatch : \E kinds \in [1..n -> Offered] :
          SetTop([Top EXCEPT !.stage = "tools", !.turn = @ + 1,
                             !.ids = Ids(Batch(kinds)), !.batch = Batch(kinds)])
    /\ UNCHANGED <<provider, pending, told>>

(* Variant of ModelCalls: one turn more than the limit.                    *)
ModelCallsOver ==
    /\ AtModel
    /\ Top.turn =< MaxTurns
    /\ provider' = "home"
    /\ \E n \in 1..MaxBatch : \E kinds \in [1..n -> Offered] :
          SetTop([Top EXCEPT !.stage = "tools", !.turn = @ + 1,
                             !.ids = Ids(Batch(kinds)), !.batch = Batch(kinds)])
    /\ UNCHANGED <<pending, told>>

(* The model asks for calls.  The provider is put back, for a prompt among *)
(* them needs it.                                                          *)
ModelCalls ==
    /\ AtModel
    /\ Top.turn < MaxTurns
    /\ provider' = "home"
    /\ \E n \in 1..MaxBatch : \E kinds \in [1..n -> Offered] :
          SetTop([Top EXCEPT !.stage = "tools", !.turn = @ + 1,
                             !.ids = Ids(Batch(kinds)), !.batch = Batch(kinds)])
    /\ UNCHANGED <<pending, told>>

-----------------------------------------------------------------------------
AtCall == ~Idle /\ Top.stage # "model" /\ Top.batch # <<>>
Call == Top.batch[1]

(* A call that runs, or is refused; a prompt only fails here.              *)
RunTool ==
    /\ AtCall
    /\ ~Waits(Call.kind, Top.blanket)
    /\ SetTop(Settled(Top))
    /\ UNCHANGED <<provider, pending, told>>

(* run_prompt: a loop inside this one, which inherits its authorization.   *)
RunPrompt ==
    /\ AtCall
    /\ Call.kind = "prompt" /\ Top.blanket
    /\ Depth < MaxDepth
    /\ provider = "home"
    /\ provider' = "out"
    /\ frames' = Append(frames, Fresh(Top.blanket))
    /\ UNCHANGED <<pending, told>>

(* Variant of PutAway: the turn of the model is recorded at every pause.   *)
PutAwayAgain(frame) ==
    [history |-> Append(frame.history, Assistant(frame.ids)),
     ids |-> frame.ids, batch |-> frame.batch, results |-> frame.results,
     blanket |-> frame.blanket, depth |-> Depth]

(* The loop as it is kept with the question.  The first pause of a batch   *)
(* records the turn of the model; a pause while draining finds it there.   *)
(* depth is history: how deep the loop ran, which the code does not keep.  *)
PutAway(frame) ==
    [history |-> IF frame.stage = "tools"
                   THEN Append(frame.history, Assistant(frame.ids))
                   ELSE frame.history,
     ids |-> frame.ids, batch |-> frame.batch, results |-> frame.results,
     blanket |-> frame.blanket, depth |-> Depth]

(* surface_agent_pause                                                     *)
PauseTool ==
    /\ AtCall
    /\ Waits(Call.kind, Top.blanket)
    /\ pending' = PutAway(Top)
    /\ Return(TRUE)
    /\ UNCHANGED provider

(* Variant of NextTurn: a resumed loop starts its budget again.            *)
NextTurnAnew(frame) ==
    [frame EXCEPT !.stage = "model", !.ids = <<>>, !.results = <<>>,
                  !.history = IF frame.stage = "tools"
                                THEN @ \o <<Assistant(frame.ids), Results(frame.results)>>
                                ELSE Append(@, Results(frame.results)),
                  !.turn = IF frame.stage = "tools" THEN @ ELSE 0]

(* The results of a batch are appended; a resumed loop counts its turns.   *)
NextTurn(frame) ==
    [frame EXCEPT !.stage = "model", !.ids = <<>>, !.results = <<>>,
                  !.history = IF frame.stage = "tools"
                                THEN @ \o <<Assistant(frame.ids), Results(frame.results)>>
                                ELSE Append(@, Results(frame.results)),
                  !.turn = IF frame.stage = "tools" THEN @ ELSE Turns(frame.history)]

(* The batch is settled: the loop takes the provider again, and ends with  *)
(* an error when there is none to take.                                    *)
EndBatch ==
    /\ ~Idle /\ Top.stage # "model" /\ Top.batch = <<>>
    /\ IF provider = "home"
         THEN provider' = "out" /\ SetTop(NextTurn(Top)) /\ UNCHANGED told
         ELSE Return(FALSE) /\ UNCHANGED provider
    /\ UNCHANGED pending

-----------------------------------------------------------------------------
(* resolve_agent_loop.  "all" authorizes the rest of this loop.            *)
Resumed(answer) ==
    [stage |-> "drain", history |-> pending.history, turn |-> 0, ids |-> pending.ids,
     batch |-> pending.batch, results |-> pending.results,
     blanket |-> pending.blanket \/ answer = "all"]

(* Variant of AnswerSettles: the question is read, not taken.              *)
AnswerSettlesKeeping(answer) ==
    /\ Idle
    /\ pending # NoPause
    /\ answer \in Choices(pending.batch[1].kind)
    /\ frames' = <<Settled(Resumed(answer))>>
    /\ UNCHANGED <<provider, pending, told>>

(* The call is settled: denied, answered, or run now.                      *)
AnswerSettles(answer) ==
    /\ Idle
    /\ pending # NoPause
    /\ answer \in Choices(pending.batch[1].kind)
    /\ frames' = <<Settled(Resumed(answer))>>
    /\ pending' = NoPause
    /\ UNCHANGED <<provider, told>>

(* An approved prompt runs as a loop inside the resumed one.               *)
AnswerPrompts(answer) ==
    /\ Idle
    /\ pending # NoPause
    /\ pending.batch[1].kind = "prompt" /\ answer \in {"yes", "all"}
    /\ MaxDepth > 1
    /\ provider = "home"
    /\ provider' = "out"
    /\ frames' = <<Resumed(answer), Fresh(Resumed(answer).blanket)>>
    /\ pending' = NoPause
    /\ UNCHANGED told

(* An abort ends the loop, whatever is left of its batch.                  *)
AnswerAborts ==
    /\ Idle
    /\ pending # NoPause
    /\ pending' = NoPause
    /\ told' = FALSE
    /\ UNCHANGED <<provider, frames>>

-----------------------------------------------------------------------------
Init == /\ provider \in {"home", "none"}
        /\ frames = <<>>
        /\ pending = NoPause
        /\ told = FALSE

(* What happens within one call of the driver.                             *)
Step == \/ LimitReached \/ ModelEnds \/ ModelCalls
        \/ RunTool \/ RunPrompt \/ PauseTool \/ EndBatch

Drive == \/ \E blanket \in BOOLEAN : Ask(blanket)
         \/ \E answer \in {"text", "yes", "no", "all"} :
               AnswerSettles(answer) \/ AnswerPrompts(answer)
         \/ AnswerAborts

Next == Step \/ Drive

Spec == Init /\ [][Next]_vars

(* A call of the driver is a future that is polled until it is ready, and  *)
(* what it awaits, the model or a tool, answers or fails.                  *)
FairSpec == Spec /\ WF_vars(Step)

-----------------------------------------------------------------------------
ToolCall == [id : Nat, kind : Kinds]
Turn == [role : {"assistant", "results"}, ids : Seq(Nat)]

Frame == [stage : {"model", "tools", "drain"}, history : Seq(Turn), turn : 0..MaxTurns,
          ids : Seq(Nat), batch : Seq(ToolCall), results : Seq(Nat), blanket : BOOLEAN]

Pause == [history : Seq(Turn), ids : Seq(Nat), batch : Seq(ToolCall),
          results : Seq(Nat), blanket : BOOLEAN, depth : 1..MaxDepth]

TypeOK ==
    /\ provider \in {"home", "out", "none"}
    /\ frames \in Seq(Frame) /\ Depth =< MaxDepth
    /\ pending \in Pause \cup {NoPause}
    /\ told \in BOOLEAN

(* The provider is out with a loop exactly while that loop awaits the      *)
(* model.  So it is there for a prompt among the calls, for the loop after *)
(* its batch, and for the next `ask`, on whichever path a loop ended or    *)
(* stopped; and no loop finds that it went missing.                        *)
ProviderHome ==
    \/ provider = "none" /\ Idle /\ pending = NoPause
    \/ provider = (IF AtModel THEN "out" ELSE "home")

(* Each turn of the model is followed by the results of exactly its calls. *)
Matched(history) ==
    \A i \in DOMAIN history :
        IF i % 2 = 1
          THEN /\ history[i].role = "assistant"
               /\ i < Len(history) => history[i + 1] = Results(history[i].ids)
          ELSE history[i].role = "results"

(* What the model is shown is well-formed, however often its batches were  *)
(* interrupted: a call has one result, at its place, and none is lost with *)
(* a question.                                                             *)
Accounted(history, ids, batch, results, recorded) ==
    /\ Matched(history)
    /\ ids = results \o Ids(batch)
    /\ recorded <=> Len(history) % 2 = 1
    /\ recorded => history[Len(history)] = Assistant(ids)

CallsAnswered ==
    /\ \A i \in DOMAIN frames :
          Accounted(frames[i].history, frames[i].ids, frames[i].batch,
                    frames[i].results, frames[i].stage = "drain")
    /\ pending # NoPause =>
          /\ Accounted(pending.history, pending.ids, pending.batch, pending.results, TRUE)
          /\ Waits(pending.batch[1].kind, pending.blanket)

(* The budget of a loop holds across its pauses.                           *)
BudgetKept ==
    /\ \A i \in DOMAIN frames :
          /\ Turns(frames[i].history) =< MaxTurns
          /\ frames[i].stage = "model" => frames[i].turn = Turns(frames[i].history)
    /\ pending # NoPause => Turns(pending.history) =< MaxTurns

(* A question, once asked, is only taken away by an answer or an abort:    *)
(* except that of a nested loop, which no reply has shown, for the loop    *)
(* around it goes on and may put its own question in the place of it.      *)
QuestionStands ==
    [][pending # NoPause /\ pending' # pending => Idle \/ pending.depth > 1]_vars

(* A reply shows the question that is put away exactly when it is that of  *)
(* the outermost loop; the driver is not told of one a nested loop left.   *)
ReplyTells == Idle => (told <=> pending # NoPause /\ pending.depth = 1)

(* A call of the driver returns: a model that keeps asking for calls runs  *)
(* out of its budget.                                                      *)
Returns == ~Idle ~> Idle
=============================================================================
