------------------------------ MODULE AgentLoop ------------------------------
(***************************************************************************)
(* The loop in which an agent talks to the language model: rounds with     *)
(* tool calls (ToolCallingRuntime.run, agents/runtime.py), and the answer  *)
(* parsed, validated, repaired or replaced                                 *)
(* (StructuredOutputRuntime.parse_validate_repair).                        *)
(*                                                                         *)
(* loop[r] is the loop that run r is in:                                   *)
(*   at       off, ask, tools, synthesis, answer, fallback; done, raised   *)
(*   round, rounds     the round, and the last of them, without tools      *)
(*   talk     the messages since the prompt: the calls of the assistant    *)
(*            and the results of the tools, by the ids of the calls        *)
(*   calls, arrived    the calls being executed, those that have ended     *)
(*   bad      whether the arguments of the next call cannot be parsed      *)
(*   valid    whether the answer meets its schema                          *)
(*   repairs  how often it may still be repaired                           *)
(*   answer   none, model, fallback or failed                              *)
(* An id names a call within its message: providers number them.  No       *)
(* caller requires an initial call (require_initial_tool_call), so that    *)
(* the last round always returns and _force_no_tools_final_answer is not   *)
(* reached.                                                                *)
(***************************************************************************)
EXTENDS Integers, FiniteSets, SequencesExt

CONSTANTS
    Runs,        \* agent runs, in threads of their own
    MaxCalls     \* bound: calls in a message

ASSUME LoopAssumption == MaxCalls \in Nat

VARIABLE loop

Off == [at |-> "off", tools |-> FALSE, round |-> 0, rounds |-> 0, talk |-> <<>>, calls |-> <<>>, arrived |-> <<>>, bad |-> FALSE,
        valid |-> FALSE, repairs |-> 0, answer |-> "none"]
LoopInit == loop = [r \in Runs |-> Off]

LoopAt(r, at) == loop[r].at = at
Become(r, record) == loop' = [loop EXCEPT ![r] = record]

\* The loop begins; the results of the initial calls precede the first round as
\* messages of the user, whatever they are.
Open(tools, rounds, repairs) ==
    [Off EXCEPT !.at = "ask", !.tools = tools, !.round = 1, !.rounds = rounds, !.repairs = repairs]

Final(r) == loop[r].round = loop[r].rounds
Assistant(calls) == [role |-> "assistant", ids |-> calls]
Tool(call) == [role |-> "tool", ids |-> <<call>>]
Messages == {[i \in 1..n |-> i] : n \in 1..MaxCalls}

\* _chat_with_optional_tools: the model raises, answers, or calls tools if it has any.
Raise(r) ==
    /\ LoopAt(r, "ask")
    /\ Become(r, [loop[r] EXCEPT !.at = IF Final(r) THEN "synthesis" ELSE "raised"])
Answer(r) ==
    /\ LoopAt(r, "ask")
    /\ \E valid \in BOOLEAN : Become(r, [loop[r] EXCEPT !.at = "answer", !.valid = valid])
Call(r) ==
    /\ LoopAt(r, "ask") /\ loop[r].tools
    /\ \E calls \in Messages, bad \in BOOLEAN :
         Become(r, IF Final(r) THEN [loop[r] EXCEPT !.at = "synthesis"]
                   ELSE [loop[r] EXCEPT !.at = "tools", !.talk = Append(@, Assistant(calls)), !.arrived = <<>>,
                                        !.calls = IF bad THEN Front(calls) ELSE calls, !.bad = bad])

\* _execute_tool_calls: the tools run in a pool of threads and end in any order, with a
\* result or with their error, an unknown tool at once.
ToolEnds(r) ==
    /\ LoopAt(r, "tools")
    /\ \E call \in Range(loop[r].calls) \ Range(loop[r].arrived) :
         Become(r, [loop[r] EXCEPT !.arrived = Append(@, call)])

\* Mutant: the results are appended in the order in which they arrived.
AsArrived(r) == loop[r].arrived

\* executions.sort by execution_order, the place of the call in its message
Place(r, call) == CHOOSE i \in DOMAIN loop[r].calls : loop[r].calls[i] = call
InOrder(r) ==
    CHOOSE s \in [DOMAIN loop[r].arrived -> Range(loop[r].arrived)] :
      /\ Range(s) = Range(loop[r].arrived)
      /\ \A i, j \in DOMAIN s : i < j => Place(r, s[i]) < Place(r, s[j])

\* Mutant: the pool also waits for the call that was never submitted.
EndedUnparsed(r) == Len(loop[r].arrived) = Len(loop[r].calls) + (IF loop[r].bad THEN 1 ELSE 0)
Ended(r) == Len(loop[r].arrived) = Len(loop[r].calls)

\* All have ended.  Arguments that cannot be parsed raise only now: leaving the pool
\* waits for what was submitted before them; the calls after them count for nothing.
Collect(r) ==
    /\ LoopAt(r, "tools") /\ Ended(r)
    /\ Become(r, IF loop[r].bad THEN [loop[r] EXCEPT !.at = "raised"]
                 ELSE [loop[r] EXCEPT !.at = "ask", !.round = @ + 1, !.calls = <<>>, !.arrived = <<>>,
                                      !.talk = @ \o [i \in DOMAIN InOrder(r) |-> Tool(InOrder(r)[i])]])

\* _synthesize_without_tools
Synthesize(r) ==
    /\ LoopAt(r, "synthesis")
    /\ \/ Become(r, [loop[r] EXCEPT !.at = "raised"])
       \/ \E valid \in BOOLEAN : Become(r, [loop[r] EXCEPT !.at = "answer", !.valid = valid])

\* parse_validate_repair: a repair is asked for with the first answer; it may raise, or
\* be no better.
Accept(r) ==
    /\ LoopAt(r, "answer") /\ loop[r].valid
    /\ Become(r, [loop[r] EXCEPT !.at = "done", !.answer = "model"])
Repair(r) ==
    /\ LoopAt(r, "answer") /\ ~loop[r].valid /\ loop[r].repairs > 0
    /\ \E valid \in BOOLEAN : Become(r, [loop[r] EXCEPT !.repairs = @ - 1, !.valid = valid])
\* _fallback, whose payload may fail the schema as well
Replace(r) ==
    /\ LoopAt(r, "answer") /\ ~loop[r].valid /\ loop[r].repairs = 0
    /\ \E answer \in {"fallback", "failed"} : Become(r, [loop[r] EXCEPT !.at = "done", !.answer = answer])

LoopStep(r) ==
    \/ Raise(r) \/ Answer(r) \/ Call(r) \/ ToolEnds(r) \/ Collect(r)
    \/ Synthesize(r) \/ Accept(r) \/ Repair(r) \/ Replace(r)

\* Whenever the model is asked, each of its calls has been answered once, directly
\* after the message that makes it and in the order of the calls, however the tools
\* ended: providers refuse any other conversation.
CallsAnswered ==
    \A r \in Runs : loop[r].at \in {"ask", "synthesis"} =>
        \A i \in DOMAIN loop[r].talk :
          LET talk == loop[r].talk  m == talk[i]
          IN m.role = "assistant" =>
               /\ i + Len(m.ids) <= Len(talk)
               /\ \A j \in DOMAIN m.ids : talk[i + j] = Tool(m.ids[j])
               /\ i + Len(m.ids) < Len(talk) => talk[i + Len(m.ids) + 1].role = "assistant"
=============================================================================
