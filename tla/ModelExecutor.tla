--------------------------- MODULE ModelExecutor ---------------------------
(***************************************************************************)
(* The model executor of a voice assistant: it keeps one bidirectional     *)
(* stream to the LLM service open for the whole session, sends each user   *)
(* turn and each completed tool block as a request, and turns responses    *)
(* into packets for the session. Source:                                   *)
(*   src/api/assistant-api/internal/llm/model/{model,model_execute,        *)
(*   model_stream,connection}.go                                           *)
(*                                                                         *)
(* Concurrent: one goroutine per user turn, one per tool result and one    *)
(* per tool, the stream's listener, interruptions (on the session's        *)
(* control dispatcher) and Close. A step is one critical section.          *)
(***************************************************************************)
EXTENDS ConversationHistory, FiniteSets

CONSTANTS
  MaxInputs,   \* bound on inputs: user turns and injected messages together
  MaxCalls     \* bound on tool calls

ASSUME BoundsAssumption == MaxInputs \in Nat /\ MaxCalls \in Nat

VARIABLES
  history,    \* ConversationHistory
  current,    \* context of currentPacket; 0 is nil
  connected,  \* the connection is installed
  stream,     \* the RPC: "up" or "broken"
  listener,   \* the goroutine that receives
  turns,      \* the goroutines of the user turns, in the order of their start
  results,    \* the goroutines that process a tool result
  tools,      \* tool calls being executed
  requests,   \* requests the service has not answered
  sent,       \* number of requests sent
  issued,     \* number of tool calls the service made; their ids are 1..issued
  injected,   \* number of injected messages
  closed,     \* Close was called
  owed,       \* contexts whose user has neither an answer nor an error
  cut,        \* contexts that were interrupted
  dropped,    \* requests whose tool block was superseded
  overtaken   \* a turn became current after a later one had

vars == <<history, current, connected, stream, listener, turns, results, tools,
          requests, sent, issued, injected, closed, owed, cut, dropped, overtaken>>

Idle == [pc |-> "recv", ctx |-> 0, id |-> 0, calls |-> {}, failed |-> FALSE]
Stopped == [Idle EXCEPT !.pc = "stopped"]

Init ==
  /\ history = NewHistory
  /\ current = 0 /\ connected = TRUE /\ stream = "up" /\ listener = Idle
  /\ turns = <<>> /\ results = {} /\ tools = {} /\ requests = {}
  /\ sent = 0 /\ issued = 0 /\ injected = 0 /\ closed = FALSE
  /\ owed = {} /\ cut = {} /\ dropped = {} /\ overtaken = FALSE

-----------------------------------------------------------------------------
(* User turns *)

LastContext == IF turns = <<>> THEN 0 ELSE turns[Len(turns)].ctx

\* A turn has a context of its own, or shares that of the turn before when no
\* interruption came between them.
UserInput(c) ==
  /\ ~closed /\ Len(turns) + injected < MaxInputs
  /\ \/ c = LastContext + 1
     \/ c = LastContext /\ c # 0 /\ c \notin cut
  /\ turns' = Append(turns, [ctx |-> c, pc |-> "begin", id |-> 0])
  /\ owed' = owed \cup {c}
  /\ UNCHANGED <<history, current, connected, stream, listener, results, tools,
                 requests, sent, issued, injected, closed, cut, dropped, overtaken>>

Superseded(h) == IF h.state = "open" THEN dropped \cup {h.id} ELSE dropped

\* Execute: supersede the pending tool block, then become the current packet.
Begin(t) ==
  /\ turns[t].pc = "begin"
  /\ history' = SupersedePending(history)
  /\ dropped' = Superseded(history)
  /\ current' = turns[t].ctx
  /\ overtaken' = (overtaken \/ \E u \in DOMAIN turns : u > t /\ turns[u].pc # "begin")
  /\ turns' = [turns EXCEPT ![t].pc = "send"]
  /\ UNCHANGED <<connected, stream, listener, results, tools, requests, sent, issued,
                 injected, closed, owed, cut>>

CanSend(h) == ValidSequence(h.messages) /\ connected /\ stream = "up"

Send(ctx, tool) ==
  /\ requests' = requests \cup {[id |-> sent + 1, ctx |-> ctx, tool |-> tool]}
  /\ sent' = sent + 1

\* Snapshot, validation and the send; the message itself is recorded after it.
SendChat(t) ==
  /\ turns[t].pc = "send"
  /\ IF CanSend(history)
     THEN /\ Send(turns[t].ctx, FALSE)
          /\ turns' = [turns EXCEPT ![t].pc = "record", ![t].id = sent + 1]
          /\ owed' = owed
     ELSE /\ turns' = [turns EXCEPT ![t].pc = "done"]
          /\ owed' = owed \ {turns[t].ctx}
          /\ UNCHANGED <<requests, sent>>
  /\ UNCHANGED <<history, current, connected, stream, listener, results, tools,
                 issued, injected, closed, cut, dropped, overtaken>>

RecordUser(t) ==
  /\ turns[t].pc = "record"
  /\ history' = AppendUser(history, turns[t].id)
  /\ turns' = [turns EXCEPT ![t].pc = "done"]
  /\ UNCHANGED <<current, connected, stream, listener, results, tools, requests,
                 sent, issued, injected, closed, owed, cut, dropped, overtaken>>

InjectMessage ==
  /\ ~closed /\ Len(turns) + injected < MaxInputs
  /\ history' = AppendInjected(history)
  /\ injected' = injected + 1
  /\ UNCHANGED <<current, connected, stream, listener, turns, results, tools,
                 requests, sent, issued, closed, owed, cut, dropped, overtaken>>

\* The session moved to another context: an open block is superseded, but the
\* interrupted turn stays the current one until the next turn begins.
Interrupt ==
  /\ ~closed /\ LastContext \notin cut \cup {0}
  /\ cut' = cut \cup {LastContext}
  /\ history' = SupersedePending(history)
  /\ dropped' = Superseded(history)
  /\ UNCHANGED <<current, connected, stream, listener, turns, results, tools,
                 requests, sent, issued, injected, closed, owed, overtaken>>

-----------------------------------------------------------------------------
(* Responses *)

\* listen takes the next response and drops it when its turn is not current.
Receive(r, n, failed) ==
  /\ listener.pc = "recv" /\ connected /\ stream = "up"
  /\ n > 0 => ~failed
  /\ issued + n <= MaxCalls
  /\ issued' = issued + n
  /\ requests' = requests \ {r}
  /\ listener' = IF current = 0 \/ r.ctx # current THEN Idle
                 ELSE [pc |-> "handle", ctx |-> r.ctx, id |-> r.id,
                       calls |-> issued + 1 .. issued + n, failed |-> failed]
  /\ UNCHANGED <<history, current, connected, stream, turns, results, tools, sent,
                 injected, closed, owed, cut, dropped, overtaken>>

ToolCalls(l) == {[tool |-> c, ctx |-> l.ctx] : c \in l.calls}

\* handleResponse past the staleness check: the error, or the answer into the
\* history, its tools started, and the packet of the answer.
Respond ==
  /\ listener.pc = "handle"
  /\ listener' = Idle
  /\ owed' = owed \ {listener.ctx}
  /\ IF listener.failed
     THEN UNCHANGED <<history, tools, dropped>>
     ELSE /\ history' = AppendAssistant(history, listener.ctx, listener.id, listener.calls)
          /\ tools' = tools \cup ToolCalls(listener)
          /\ dropped' = IF listener.calls = {} THEN dropped ELSE Superseded(history)
  /\ UNCHANGED <<current, connected, stream, turns, results, requests, sent,
                 issued, injected, closed, cut, overtaken>>

RecvFailsMut == ~connected
RecvFails == stream = "broken" \/ ~connected

\* Recv fails: the listener reports the current turn's context and ends for good.
ReceiveFails ==
  /\ listener.pc = "recv" /\ RecvFails
  /\ listener' = Stopped
  /\ owed' = IF closed THEN owed ELSE owed \ {current}
  /\ UNCHANGED <<history, current, connected, stream, turns, results, tools,
                 requests, sent, issued, injected, closed, cut, dropped, overtaken>>

\* The service ends the conversation (a tool call the session acts on).
ServiceCloses ==
  /\ listener.pc = "recv" /\ stream = "up" /\ connected
  /\ listener' = [Idle EXCEPT !.pc = "ended"]
  /\ UNCHANGED <<history, current, connected, stream, turns, results, tools,
                 requests, sent, issued, injected, closed, owed, cut, dropped, overtaken>>

StreamBreaks ==
  /\ stream = "up"
  /\ stream' = "broken"
  /\ requests' = {}
  /\ UNCHANGED <<history, current, connected, listener, turns, results, tools, sent,
                 issued, injected, closed, owed, cut, dropped, overtaken>>

-----------------------------------------------------------------------------
(* Tools *)

\* A tool answers, or the client does for it; the session hands the result to a
\* goroutine.
ToolReturns(c) ==
  /\ ~closed
  /\ tools' = tools \ {c}
  /\ results' = results \cup {[tool |-> c.tool, ctx |-> c.ctx, pc |-> "accept"]}
  /\ UNCHANGED <<history, current, connected, stream, listener, turns, requests,
                 sent, issued, injected, closed, owed, cut, dropped, overtaken>>

Accept(r) ==
  /\ r.pc = "accept"
  /\ IF Accepts(history, r.ctx, r.tool)
     THEN LET h == AcceptToolResult(history, r.tool)
          IN /\ history' = h
             /\ results' = (results \ {r}) \cup
                           (IF h.state = "resolved" THEN {[r EXCEPT !.pc = "flush"]} ELSE {})
     ELSE /\ results' = results \ {r}
          /\ history' = history
  /\ UNCHANGED <<current, connected, stream, listener, turns, tools, requests,
                 sent, issued, injected, closed, owed, cut, dropped, overtaken>>

\* The block may no longer be the one this goroutine resolved. The goroutine goes
\* on with the context of the block it flushed.
Flush(r) ==
  /\ r.pc = "flush"
  /\ history' = FlushToolBlock(history)
  /\ results' = (results \ {r}) \cup
       (IF FollowsUp(history) THEN {[r EXCEPT !.pc = "follow", !.ctx = history.ctx]} ELSE {})
  /\ UNCHANGED <<current, connected, stream, listener, turns, tools, requests, sent,
                 issued, injected, closed, owed, cut, dropped, overtaken>>

\* The calls and results go back to the model; a failure is only logged.
FollowUp(r) ==
  /\ r.pc = "follow"
  /\ results' = results \ {r}
  /\ IF CanSend(history) THEN Send(r.ctx, TRUE) ELSE UNCHANGED <<requests, sent>>
  /\ UNCHANGED <<history, current, connected, stream, listener, turns, tools,
                 issued, injected, closed, owed, cut, dropped, overtaken>>

-----------------------------------------------------------------------------

\* The session hands a closed executor nothing more; its goroutines still run.
Close ==
  /\ ~closed
  /\ closed' = TRUE /\ connected' = FALSE /\ current' = 0
  /\ history' = NewHistory
  /\ stream' = "broken" /\ requests' = {}
  /\ UNCHANGED <<listener, turns, results, tools, sent, issued, injected, owed, cut,
                 dropped, overtaken>>

TurnStep(t) == Begin(t) \/ SendChat(t) \/ RecordUser(t)
ResultStep(r) == Accept(r) \/ Flush(r) \/ FollowUp(r)
Answer(r) == \E n \in 0..MaxCalls, failed \in BOOLEAN : Receive(r, n, failed)

Next ==
  \/ \E c \in 1..MaxInputs : UserInput(c)
  \/ \E t \in DOMAIN turns : TurnStep(t)
  \/ InjectMessage
  \/ Interrupt
  \/ \E r \in requests : Answer(r)
  \/ Respond
  \/ ReceiveFails
  \/ ServiceCloses
  \/ StreamBreaks
  \/ \E c \in tools : ToolReturns(c)
  \/ \E r \in results : ResultStep(r)
  \/ Close

Spec == Init /\ [][Next]_vars

\* Goroutines run, and the service answers what it was asked. Nothing is assumed
\* of users, tools, the network or the session.
FairSpec ==
  /\ Spec
  /\ \A t \in 1..MaxInputs : WF_vars(t \in DOMAIN turns /\ TurnStep(t))
  /\ WF_vars(Respond)
  /\ WF_vars(ReceiveFails)
  /\ WF_vars(\E r \in results : Accept(r))
  /\ WF_vars(\E r \in results : Flush(r))
  /\ WF_vars(\E r \in results : FollowUp(r))
  /\ WF_vars(\E r \in requests : Answer(r))

-----------------------------------------------------------------------------
(* Properties *)

Contexts == 1..MaxInputs
TurnType == [ctx : Contexts, id : Nat,
             pc : {"begin", "send", "record", "done"}]
ListenerType == [pc : {"recv", "handle", "stopped", "ended"}, ctx : Nat, id : Nat,
                 calls : SUBSET Nat, failed : BOOLEAN]
ResultType == [tool : Nat, ctx : Nat, pc : {"accept", "flush", "follow"}]

GoroutineTypes ==
  /\ listener \in ListenerType /\ turns \in Seq(TurnType) /\ results \subseteq ResultType
  /\ tools \subseteq [tool : Nat, ctx : Nat]
  /\ requests \subseteq [id : Nat, ctx : Nat, tool : BOOLEAN]

RecordTypes ==
  /\ current \in Nat /\ sent \in Nat /\ issued \in Nat /\ injected \in Nat
  /\ owed \subseteq Nat /\ cut \subseteq Nat /\ dropped \subseteq Nat

FlagTypes ==
  /\ connected \in BOOLEAN /\ stream \in {"up", "broken"}
  /\ closed \in BOOLEAN /\ overtaken \in BOOLEAN

\* The types, and what the fields of the tool block say of each other.
TypeOK ==
  /\ history \in Histories /\ BlockOK(history)
  /\ GoroutineTypes /\ RecordTypes /\ FlagTypes

\* Whatever the order of answers, tool results, interruptions and turns, no
\* request is ever refused for its history (validateHistorySequence): tool calls
\* are in it only with all their results right behind them.
HistoryIntegrity == ValidSequence(history.messages)

\* Positions at which a message of a request stands in the history.
Places(id, role) == {i \in DOMAIN history.messages :
                       history.messages[i].id = id /\ history.messages[i].role = role}

\* A request's answer enters the history at most once, however many goroutines
\* process results of its block; and the block of a turn the user interrupted
\* never does, so the model is not shown calls the user cut off.
BlockOnce ==
  /\ \A id \in 1..sent : \A role \in {"user", "assistant", "tool"} :
        Cardinality(Places(id, role)) <= 1
  /\ \A id \in dropped : Places(id, "assistant") \cup Places(id, "tool") = {}

\* The last turn of the user gets an answer or an error, whatever fails: unless
\* its goroutine was overtaken by the goroutine of an earlier turn (whose context
\* then stays current and makes the listener drop the answer), or the session ends.
TurnConcluded ==
  \A c \in Contexts :
     c \in owed ~> \/ c \notin owed \/ c # LastContext
                   \/ overtaken \/ closed \/ listener.pc = "ended"

\* A block whose results are complete is sent back to the model: it does not
\* stay behind as a resolved block that accepts nothing and blocks nothing.
ResolvedFlushed == history.state = "resolved" ~> history.state # "resolved"

=============================================================================
