------------------------ MODULE ConversationHistory ------------------------
(***************************************************************************)
(* The conversation history an LLM executor sends with each request: the   *)
(* messages so far and at most one tool block, an assistant message whose  *)
(* tool calls still wait for their results. Source:                        *)
(*   src/api/assistant-api/internal/llm/model/history.go                   *)
(*                                                                         *)
(* A message is its role, the request it belongs to and the ids of its     *)
(* tool calls; the text is abstracted. The providers give every tool call  *)
(* an id of its own, never blank, so an assistant message has tool calls   *)
(* iff "calls" is not empty. Every operator is one critical section of the *)
(* history's mutex.                                                        *)
(***************************************************************************)
EXTENDS Naturals, Sequences

BlockStates == {"none", "open", "superseded", "resolved"}

Messages == [role : {"user", "assistant", "tool"}, id : Nat, calls : SUBSET Nat]

\* messages, and the tool block: its state, context, request, calls and results.
Histories == [messages : Seq(Messages), state : BlockStates, ctx : Nat, id : Nat,
              expected : SUBSET Nat, results : SUBSET Nat]

Message(role, id, calls) == [role |-> role, id |-> id, calls |-> calls]

NewHistory == [messages |-> <<>>, state |-> "none", ctx |-> 0, id |-> 0,
               expected |-> {}, results |-> {}]

Add(h, m) == [h EXCEPT !.messages = Append(h.messages, m)]

AppendUser(h, id) == Add(h, Message("user", id, {}))

\* The assistant's own words, not an answer of the model: request 0.
AppendInjected(h) == Add(h, Message("assistant", 0, {}))

\* What the block's fields say of each other.
BlockOK(h) ==
  /\ h.results \subseteq h.expected
  /\ h.state = "none" <=> h.expected = {}
  /\ h.state = "resolved" => h.results = h.expected
  /\ h.state = "open" => h.results # h.expected

AppendAssistantMut(h, ctx, id, calls) ==
  IF calls = {} THEN Add(h, Message("assistant", id, {}))
  ELSE [h EXCEPT !.state = "open", !.ctx = ctx, !.id = id, !.expected = calls]

\* An answer without tool calls joins the history; one with calls becomes the
\* block, whatever block there was.
AppendAssistant(h, ctx, id, calls) ==
  IF calls = {} THEN Add(h, Message("assistant", id, {}))
  ELSE [h EXCEPT !.state = "open", !.ctx = ctx, !.id = id,
                 !.expected = calls, !.results = {}]

AcceptsMut(h, ctx, tool) == h.state # "none" /\ h.ctx = ctx /\ tool \in h.expected

Accepts(h, ctx, tool) == h.state = "open" /\ h.ctx = ctx /\ tool \in h.expected

AcceptToolResultMut(h, tool) ==
  [h EXCEPT !.results = h.results \cup {tool}, !.state = "resolved"]

AcceptToolResult(h, tool) ==
  LET results == h.results \cup {tool}
  IN [h EXCEPT !.results = results,
               !.state = IF results = h.expected THEN "resolved" ELSE "open"]

Cleared(h) == [h EXCEPT !.state = "none", !.ctx = 0, !.id = 0,
                        !.expected = {}, !.results = {}]

\* The calls and their results enter the history together, and only once resolved.
FollowsUp(h) == h.state = "resolved"

FlushToolBlockMut(h) == IF h.state = "superseded" THEN Cleared(h) ELSE h

FlushToolBlock(h) ==
  IF h.state = "superseded" THEN Cleared(h)
  ELSE IF h.state = "resolved"
  THEN Cleared([h EXCEPT !.messages = h.messages \o
          <<Message("assistant", h.id, h.expected), Message("tool", h.id, h.results)>>])
  ELSE h

SupersedePending(h) == IF h.state = "open" THEN [h EXCEPT !.state = "superseded"] ELSE h

\* What the providers require of a request: tool calls are followed by exactly
\* their results, and results follow their calls.
ValidSequence(s) ==
  \A i \in 1..Len(s) :
     /\ s[i].role = "assistant" /\ s[i].calls # {} =>
          /\ i + 1 \in 1..Len(s)
          /\ s[i + 1].role = "tool"
          /\ s[i + 1].calls = s[i].calls
     /\ s[i].role = "tool" =>
          /\ i - 1 \in 1..Len(s)
          /\ s[i - 1].role = "assistant"
          /\ s[i - 1].calls # {}
=============================================================================
