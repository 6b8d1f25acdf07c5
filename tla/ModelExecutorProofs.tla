------------------------ MODULE ModelExecutorProofs ------------------------
(***************************************************************************)
(* Type correctness of the model executor, and that its history is always  *)
(* one the providers accept. The two are one induction: a block may enter   *)
(* the history only because its results are complete (BlockOK). A second    *)
(* one, upon it, follows each answer from the service into the history and *)
(* shows that it enters once, or never when its block was superseded.      *)
(***************************************************************************)
EXTENDS ModelExecutor, HistoryProofs, FiniteSetTheorems

IInv == GoodHistory(history) /\ GoroutineTypes /\ RecordTypes /\ FlagTypes

USE BoundsAssumption

LEMMA IInvInit == Init => IInv
<1> SUFFICES ASSUME Init PROVE IInv
  OBVIOUS
<1>1. GoodHistory(history)
  BY NewHistoryGood DEF Init
<1>2. GoroutineTypes
  BY DEF Init, GoroutineTypes, ListenerType, Idle
<1>3. RecordTypes
  BY DEF Init, RecordTypes
<1>4. FlagTypes
  BY DEF Init, FlagTypes
<1> QED BY <1>1, <1>2, <1>3, <1>4 DEF IInv

\* The requests a block was dropped for.
LEMMA SupersededType ==
  ASSUME IInv PROVE Superseded(history) \subseteq Nat
  BY DEF IInv, GoodHistory, Histories, RecordTypes, Superseded

LEMMA TurnTyped ==
  ASSUME IInv, NEW t \in DOMAIN turns
  PROVE  turns[t] \in TurnType /\ turns[t].ctx \in Nat /\ turns[t].id \in Nat
<1>1. turns[t] \in TurnType
  BY DEF IInv, GoroutineTypes
<1> QED BY <1>1 DEF TurnType, Contexts

\* A turn's goroutine may change its own state and request only.
LEMMA TurnMoves ==
  ASSUME IInv, NEW t \in DOMAIN turns, NEW pc \in {"begin", "send", "record", "done"},
         NEW id \in Nat
  PROVE  /\ [turns EXCEPT ![t].pc = pc] \in Seq(TurnType)
         /\ [turns EXCEPT ![t].pc = pc, ![t].id = id] \in Seq(TurnType)
<1>1. turns \in Seq(TurnType) /\ turns[t] \in TurnType
  BY TurnTyped DEF IInv, GoroutineTypes
<1>2. [turns[t] EXCEPT !.pc = pc] \in TurnType
  BY <1>1 DEF TurnType
<1>3. [[turns[t] EXCEPT !.pc = pc] EXCEPT !.id = id] \in TurnType
  BY <1>1 DEF TurnType
<1>4. \A x \in TurnType : [turns EXCEPT ![t] = x] \in Seq(TurnType)
  BY <1>1
<1>5. [turns EXCEPT ![t].pc = pc] = [turns EXCEPT ![t] = [turns[t] EXCEPT !.pc = pc]]
  BY Zenon
<1>6. [turns EXCEPT ![t].pc = pc, ![t].id = id]
      = [turns EXCEPT ![t] = [[turns[t] EXCEPT !.pc = pc] EXCEPT !.id = id]]
  BY <1>1
<1> QED BY <1>2, <1>3, <1>4, <1>5, <1>6

LEMMA SendTypes ==
  ASSUME IInv, NEW ctx \in Nat, NEW tool \in BOOLEAN, Send(ctx, tool)
  PROVE  requests' \subseteq [id : Nat, ctx : Nat, tool : BOOLEAN] /\ sent' \in Nat
  BY DEF IInv, GoroutineTypes, RecordTypes, Send

-----------------------------------------------------------------------------
(* One lemma per action *)

LEMMA UserInputStep ==
  ASSUME IInv, NEW c \in 1..MaxInputs, UserInput(c) PROVE IInv'
<1>1. GoodHistory(history)'
  BY DEF UserInput, IInv
<1>2. [ctx |-> c, pc |-> "begin", id |-> 0] \in TurnType
  BY DEF TurnType, Contexts
<1>3. turns' \in Seq(TurnType)
  BY <1>2 DEF UserInput, IInv, GoroutineTypes
<1>4. GoroutineTypes'
  BY <1>3 DEF UserInput, IInv, GoroutineTypes
<1>5. RecordTypes'
  BY DEF UserInput, IInv, RecordTypes
<1>6. FlagTypes'
  BY DEF UserInput, IInv, FlagTypes
<1> QED BY <1>1, <1>4, <1>5, <1>6 DEF IInv

LEMMA BeginStep ==
  ASSUME IInv, NEW t \in DOMAIN turns, Begin(t) PROVE IInv'
<1>1. GoodHistory(history)'
  BY SupersedePendingGood DEF Begin, IInv
<1>2. turns' \in Seq(TurnType)
  BY TurnMoves DEF Begin
<1>3. GoroutineTypes'
  BY <1>2 DEF Begin, IInv, GoroutineTypes
<1>4. RecordTypes'
  BY TurnTyped, SupersededType DEF Begin, IInv, RecordTypes
<1>5. overtaken' \in BOOLEAN
  BY DEF Begin
<1>6. FlagTypes'
  BY <1>5 DEF Begin, IInv, FlagTypes
<1> QED BY <1>1, <1>3, <1>4, <1>6 DEF IInv

LEMMA SendChatStep ==
  ASSUME IInv, NEW t \in DOMAIN turns, SendChat(t) PROVE IInv'
<1>1. GoodHistory(history)'
  BY DEF SendChat, IInv
<1>2. ASSUME CanSend(history) PROVE GoroutineTypes' /\ RecordTypes'
  <2>1. /\ Send(turns[t].ctx, FALSE)
        /\ turns' = [turns EXCEPT ![t].pc = "record", ![t].id = sent + 1]
        /\ owed' = owed
    BY <1>2 DEF SendChat
  <2>2. requests' \subseteq [id : Nat, ctx : Nat, tool : BOOLEAN] /\ sent' \in Nat
    BY <2>1, SendTypes, TurnTyped
  <2>3. sent + 1 \in Nat
    BY DEF IInv, RecordTypes
  <2>4. turns' \in Seq(TurnType)
    BY <2>1, <2>3, TurnMoves
  <2>5. GoroutineTypes'
    BY <2>2, <2>4 DEF SendChat, IInv, GoroutineTypes
  <2>6. RecordTypes'
    BY <2>1, <2>2 DEF SendChat, IInv, RecordTypes
  <2> QED BY <2>5, <2>6
<1>3. ASSUME ~CanSend(history) PROVE GoroutineTypes' /\ RecordTypes'
  <2>1. /\ turns' = [turns EXCEPT ![t].pc = "done"]
        /\ owed' = owed \ {turns[t].ctx}
        /\ UNCHANGED <<requests, sent>>
    BY <1>3 DEF SendChat
  <2>2. turns' \in Seq(TurnType)
    BY <2>1, TurnMoves
  <2>3. GoroutineTypes'
    BY <2>1, <2>2 DEF SendChat, IInv, GoroutineTypes
  <2>4. RecordTypes'
    BY <2>1 DEF SendChat, IInv, RecordTypes
  <2> QED BY <2>3, <2>4
<1>4. GoroutineTypes' /\ RecordTypes'
  BY <1>2, <1>3
<1>5. FlagTypes'
  BY DEF SendChat, IInv, FlagTypes
<1> QED BY <1>1, <1>4, <1>5 DEF IInv

LEMMA RecordUserStep ==
  ASSUME IInv, NEW t \in DOMAIN turns, RecordUser(t) PROVE IInv'
<1>1. GoodHistory(history)'
  BY AppendUserGood, TurnTyped DEF RecordUser, IInv
<1>2. turns' \in Seq(TurnType)
  BY TurnMoves DEF RecordUser
<1>3. GoroutineTypes' /\ RecordTypes'
  BY <1>2 DEF RecordUser, IInv, GoroutineTypes, RecordTypes
<1>4. FlagTypes'
  BY DEF RecordUser, IInv, FlagTypes
<1> QED BY <1>1, <1>3, <1>4 DEF IInv

LEMMA InjectMessageStep ==
  ASSUME IInv, InjectMessage PROVE IInv'
<1>1. GoodHistory(history)'
  BY AppendInjectedGood DEF InjectMessage, IInv
<1>2. GoroutineTypes' /\ RecordTypes'
  BY DEF InjectMessage, IInv, GoroutineTypes, RecordTypes
<1>3. FlagTypes'
  BY DEF InjectMessage, IInv, FlagTypes
<1> QED BY <1>1, <1>2, <1>3 DEF IInv

LEMMA LastContextType ==
  ASSUME IInv PROVE LastContext \in Nat
<1>1. CASE turns = <<>>
  BY <1>1 DEF LastContext
<1>2. CASE turns # <<>>
  <2>1. Len(turns) \in DOMAIN turns
    BY <1>2 DEF IInv, GoroutineTypes
  <2> QED BY <1>2, <2>1, TurnTyped DEF LastContext
<1> QED BY <1>1, <1>2

LEMMA InterruptStep ==
  ASSUME IInv, Interrupt PROVE IInv'
<1>1. GoodHistory(history)'
  BY SupersedePendingGood DEF Interrupt, IInv
<1>2. GoroutineTypes'
  BY DEF Interrupt, IInv, GoroutineTypes
<1>3. RecordTypes'
  BY SupersededType, LastContextType DEF Interrupt, IInv, RecordTypes
<1>4. FlagTypes'
  BY DEF Interrupt, IInv, FlagTypes
<1> QED BY <1>1, <1>2, <1>3, <1>4 DEF IInv

LEMMA ReceiveStep ==
  ASSUME IInv, NEW r \in requests, NEW n \in 0..MaxCalls, NEW failed \in BOOLEAN,
         Receive(r, n, failed)
  PROVE  IInv'
<1>1. GoodHistory(history)'
  BY DEF Receive, IInv
<1>2. r.ctx \in Nat /\ r.id \in Nat /\ issued \in Nat
  BY DEF IInv, GoroutineTypes, RecordTypes
<1>3. issued + 1 .. issued + n \in SUBSET Nat
  BY <1>2
<1>4. [pc |-> "handle", ctx |-> r.ctx, id |-> r.id,
       calls |-> issued + 1 .. issued + n, failed |-> failed] \in ListenerType
  BY <1>2, <1>3 DEF ListenerType
<1>5. Idle \in ListenerType
  BY DEF Idle, ListenerType
<1>6. listener' \in ListenerType
  BY <1>4, <1>5, Zenon DEF Receive
<1>7. GoroutineTypes'
  BY <1>6 DEF Receive, IInv, GoroutineTypes
<1>8. RecordTypes'
  BY <1>2 DEF Receive, IInv, RecordTypes
<1>9. FlagTypes'
  BY DEF Receive, IInv, FlagTypes
<1> QED BY <1>1, <1>7, <1>8, <1>9 DEF IInv

LEMMA RespondStep ==
  ASSUME IInv, Respond PROVE IInv'
<1>1. listener.ctx \in Nat /\ listener.id \in Nat /\ listener.calls \in SUBSET Nat
  BY DEF IInv, GoroutineTypes, ListenerType
<1>2. Idle \in ListenerType
  BY DEF Idle, ListenerType
<1>3. ToolCalls(listener) \subseteq [tool : Nat, ctx : Nat]
  BY <1>1 DEF ToolCalls
<1>4. GoodHistory(history)' /\ tools' \subseteq [tool : Nat, ctx : Nat] /\ dropped' \subseteq Nat
  <2>1. ASSUME listener.failed
        PROVE  GoodHistory(history)' /\ tools' \subseteq [tool : Nat, ctx : Nat] /\ dropped' \subseteq Nat
    BY <2>1 DEF Respond, IInv, GoroutineTypes, RecordTypes
  <2>2. ASSUME ~listener.failed
        PROVE  GoodHistory(history)' /\ tools' \subseteq [tool : Nat, ctx : Nat] /\ dropped' \subseteq Nat
    <3>1. GoodHistory(history)'
      BY <2>2, <1>1, AppendAssistantGood DEF Respond, IInv
    <3>2. tools' \subseteq [tool : Nat, ctx : Nat]
      BY <2>2, <1>3 DEF Respond, IInv, GoroutineTypes
    <3>3. dropped' \subseteq Nat
      BY <2>2, SupersededType DEF Respond, IInv, RecordTypes
    <3> QED BY <3>1, <3>2, <3>3
  <2> QED BY <2>1, <2>2
<1>5. GoroutineTypes'
  BY <1>2, <1>4 DEF Respond, IInv, GoroutineTypes
<1>6. RecordTypes'
  BY <1>4 DEF Respond, IInv, RecordTypes
<1>7. FlagTypes'
  BY DEF Respond, IInv, FlagTypes
<1> QED BY <1>4, <1>5, <1>6, <1>7 DEF IInv

LEMMA ListenerEndsStep ==
  ASSUME IInv, ReceiveFails \/ ServiceCloses PROVE IInv'
<1>1. Stopped \in ListenerType /\ [Idle EXCEPT !.pc = "ended"] \in ListenerType
  BY DEF Stopped, Idle, ListenerType
<1>2. listener' \in ListenerType
  BY <1>1 DEF ReceiveFails, ServiceCloses
<1>3. GoodHistory(history)'
  BY DEF ReceiveFails, ServiceCloses, IInv
<1>4. GoroutineTypes'
  BY <1>2 DEF ReceiveFails, ServiceCloses, IInv, GoroutineTypes
<1>5. RecordTypes'
  BY DEF ReceiveFails, ServiceCloses, IInv, RecordTypes
<1>6. FlagTypes'
  BY DEF ReceiveFails, ServiceCloses, IInv, FlagTypes
<1> QED BY <1>3, <1>4, <1>5, <1>6 DEF IInv

LEMMA StreamBreaksStep ==
  ASSUME IInv, StreamBreaks PROVE IInv'
<1>1. GoodHistory(history)'
  BY DEF StreamBreaks, IInv
<1>2. GoroutineTypes' /\ RecordTypes'
  BY DEF StreamBreaks, IInv, GoroutineTypes, RecordTypes
<1>3. FlagTypes'
  BY DEF StreamBreaks, IInv, FlagTypes
<1> QED BY <1>1, <1>2, <1>3 DEF IInv

LEMMA ToolReturnsStep ==
  ASSUME IInv, NEW c \in tools, ToolReturns(c) PROVE IInv'
<1>1. GoodHistory(history)'
  BY DEF ToolReturns, IInv
<1>2. c.tool \in Nat /\ c.ctx \in Nat
  BY DEF IInv, GoroutineTypes
<1>3. [tool |-> c.tool, ctx |-> c.ctx, pc |-> "accept"] \in ResultType
  BY <1>2 DEF ResultType
<1>4. GoroutineTypes'
  BY <1>3 DEF ToolReturns, IInv, GoroutineTypes
<1>5. RecordTypes'
  BY DEF ToolReturns, IInv, RecordTypes
<1>6. FlagTypes'
  BY DEF ToolReturns, IInv, FlagTypes
<1> QED BY <1>1, <1>4, <1>5, <1>6 DEF IInv

LEMMA ResultMoves ==
  ASSUME IInv, NEW r \in results, NEW pc \in {"accept", "flush", "follow"}, NEW ctx \in Nat
  PROVE  [r EXCEPT !.pc = pc] \in ResultType /\ [r EXCEPT !.pc = pc, !.ctx = ctx] \in ResultType
  BY DEF IInv, GoroutineTypes, ResultType

LEMMA AcceptStep ==
  ASSUME IInv, NEW r \in results, Accept(r) PROVE IInv'
<1>1. [r EXCEPT !.pc = "flush"] \in ResultType
  BY ResultMoves
<1>2. GoodHistory(history)' /\ results' \subseteq ResultType
  <2>1. ASSUME Accepts(history, r.ctx, r.tool)
        PROVE  GoodHistory(history)' /\ results' \subseteq ResultType
    <3>1. history' = AcceptToolResult(history, r.tool)
      BY <2>1 DEF Accept
    <3>2. results' \subseteq results \cup {[r EXCEPT !.pc = "flush"]}
      BY <2>1 DEF Accept
    <3>3. results' \subseteq ResultType
      BY <1>1, <3>2 DEF IInv, GoroutineTypes
    <3>4. GoodHistory(history)'
      BY <2>1, <3>1, AcceptToolResultGood DEF IInv
    <3> QED BY <3>3, <3>4
  <2>2. ASSUME ~Accepts(history, r.ctx, r.tool)
        PROVE  GoodHistory(history)' /\ results' \subseteq ResultType
    BY <2>2 DEF Accept, IInv, GoroutineTypes
  <2> QED BY <2>1, <2>2
<1>3. GoroutineTypes'
  BY <1>2 DEF Accept, IInv, GoroutineTypes
<1>4. RecordTypes'
  BY DEF Accept, IInv, RecordTypes
<1>5. FlagTypes'
  BY DEF Accept, IInv, FlagTypes
<1> QED BY <1>2, <1>3, <1>4, <1>5 DEF IInv

LEMMA FlushStep ==
  ASSUME IInv, NEW r \in results, Flush(r) PROVE IInv'
<1>1. GoodHistory(history)'
  BY FlushToolBlockGood DEF Flush, IInv
<1>2. history.ctx \in Nat
  BY DEF IInv, GoodHistory, Histories
<1>3. [r EXCEPT !.pc = "follow", !.ctx = history.ctx] \in ResultType
  BY <1>2, ResultMoves
<1>4. results' \subseteq results \cup {[r EXCEPT !.pc = "follow", !.ctx = history.ctx]}
  BY DEF Flush
<1>5. GoroutineTypes'
  BY <1>3, <1>4 DEF Flush, IInv, GoroutineTypes
<1>6. RecordTypes'
  BY DEF Flush, IInv, RecordTypes
<1>7. FlagTypes'
  BY DEF Flush, IInv, FlagTypes
<1> QED BY <1>1, <1>5, <1>6, <1>7 DEF IInv

LEMMA FollowUpStep ==
  ASSUME IInv, NEW r \in results, FollowUp(r) PROVE IInv'
<1>1. GoodHistory(history)'
  BY DEF FollowUp, IInv
<1>2. r.ctx \in Nat
  BY DEF IInv, GoroutineTypes, ResultType
<1>3. requests' \subseteq [id : Nat, ctx : Nat, tool : BOOLEAN] /\ sent' \in Nat
  BY <1>2, SendTypes DEF FollowUp, IInv, GoroutineTypes, RecordTypes
<1>4. GoroutineTypes'
  BY <1>3 DEF FollowUp, IInv, GoroutineTypes
<1>5. RecordTypes'
  BY <1>3 DEF FollowUp, IInv, RecordTypes
<1>6. FlagTypes'
  BY DEF FollowUp, IInv, FlagTypes
<1> QED BY <1>1, <1>4, <1>5, <1>6 DEF IInv

LEMMA CloseStep ==
  ASSUME IInv, Close PROVE IInv'
<1>1. GoodHistory(history)'
  BY NewHistoryGood DEF Close
<1>2. GoroutineTypes' /\ RecordTypes'
  BY DEF Close, IInv, GoroutineTypes, RecordTypes
<1>3. FlagTypes'
  BY DEF Close, IInv, FlagTypes
<1> QED BY <1>1, <1>2, <1>3 DEF IInv

LEMMA StutterStep ==
  ASSUME IInv, UNCHANGED vars PROVE IInv'
  BY DEF IInv, vars, GoroutineTypes, RecordTypes, FlagTypes

-----------------------------------------------------------------------------

LEMMA IInvNext ==
  ASSUME IInv, [Next]_vars PROVE IInv'
<1>1. ASSUME NEW c \in 1..MaxInputs, UserInput(c) PROVE IInv'
  BY <1>1, UserInputStep
<1>2. ASSUME NEW t \in DOMAIN turns, TurnStep(t) PROVE IInv'
  BY <1>2, BeginStep, SendChatStep, RecordUserStep DEF TurnStep
<1>3. ASSUME NEW r \in requests, Answer(r) PROVE IInv'
  BY <1>3, ReceiveStep DEF Answer
<1>4. ASSUME NEW c \in tools, ToolReturns(c) PROVE IInv'
  BY <1>4, ToolReturnsStep
<1>5. ASSUME NEW r \in results, ResultStep(r) PROVE IInv'
  BY <1>5, AcceptStep, FlushStep, FollowUpStep DEF ResultStep
<1> QED
  BY <1>1, <1>2, <1>3, <1>4, <1>5, InjectMessageStep, InterruptStep, RespondStep,
     ListenerEndsStep, StreamBreaksStep, CloseStep, StutterStep DEF Next

\* IInv is an invariant: the history and every goroutine's data are well formed.
THEOREM Inductive == Spec => []IInv
  BY IInvInit, IInvNext, PTL DEF Spec

\* Every state has the types of TypeOK, for any bounds: in particular a block that
\* counts as resolved has exactly the results of its calls.
THEOREM TypeCorrect == Spec => []TypeOK
<1>1. IInv => TypeOK
  BY DEF IInv, TypeOK, GoodHistory
<1> QED BY <1>1, Inductive, PTL

\* For any number of turns, calls and injected messages, and any interleaving, the
\* history that is sent to the model never holds tool calls without their results.
THEOREM HistoryAlwaysValid == Spec => []HistoryIntegrity
<1>1. IInv => HistoryIntegrity
  BY DEF IInv, HistoryIntegrity, GoodHistory
<1> QED BY <1>1, Inductive, PTL
-----------------------------------------------------------------------------
(* What is answered once *)

Stands(s, id, role) == \E i \in DOMAIN s : s[i].id = id /\ s[i].role = role

\* No request has two messages of a role. (Injected messages have request 0.)
Distinct(s) == \A i, j \in DOMAIN s :
                  s[i].id # 0 /\ s[i].id = s[j].id /\ s[i].role = s[j].role => i = j

Asked(id) == \E r \in requests : r.id = id
InHand(id) == listener.pc = "handle" /\ listener.id = id
InBlock(id) == history.state # "none" /\ history.id = id
Answered(id) == /\ id # 0
                /\ \/ Stands(history.messages, id, "assistant")
                   \/ Stands(history.messages, id, "tool")

\* An answer is in one place: with the service, with the listener, in the block or
\* in the history. A dropped one is in none, or in a superseded block.
OnePlace ==
  \A id :
    /\ Asked(id) => id \in 1..sent /\ ~InHand(id) /\ ~InBlock(id) /\ ~Answered(id) /\ id \notin dropped
    /\ InHand(id) => id \in 1..sent /\ ~InBlock(id) /\ ~Answered(id) /\ id \notin dropped
    /\ InBlock(id) => /\ id \in 1..sent /\ ~Answered(id)
                      /\ id \in dropped => history.state = "superseded"
    /\ id \in dropped => id \in 1..sent /\ ~Answered(id)
    /\ Answered(id) => id \in 1..sent

AskedOnce == \A r, u \in requests : r.id = u.id => r = u

Recording(t) == turns[t].pc = "record"

\* The message of a user's turn is recorded by that turn's goroutine alone.
RecordedOnce ==
  /\ \A id : Stands(history.messages, id, "user") => id \in 1..sent
  /\ \A t \in DOMAIN turns : Recording(t) =>
        /\ turns[t].id \in 1..sent
        /\ ~Stands(history.messages, turns[t].id, "user")
        /\ \A u \in DOMAIN turns : Recording(u) /\ turns[u].id = turns[t].id => u = t

OnceInv == OnePlace /\ AskedOnce /\ RecordedOnce /\ Distinct(history.messages)

LEMMA MessagesType ==
  ASSUME IInv PROVE history.messages \in Seq(Messages) /\ history.id \in Nat
  BY DEF IInv, GoodHistory, Histories

\* The other turns see nothing of it.
LEMMA TurnEffect ==
  ASSUME IInv, NEW t \in DOMAIN turns, NEW pc
  PROVE  LET u == [turns EXCEPT ![t].pc = pc]
         IN  DOMAIN u = DOMAIN turns /\ u[t].pc = pc
             /\ \A v \in DOMAIN turns \ {t} : u[v] = turns[v]
<1>1. turns \in Seq(TurnType) /\ turns[t] \in TurnType
  BY TurnTyped DEF IInv, GoroutineTypes
<1>2. [turns[t] EXCEPT !.pc = pc].pc = pc
  BY <1>1 DEF TurnType
<1>3. \A x : LET u == [turns EXCEPT ![t] = x]
             IN  DOMAIN u = DOMAIN turns /\ u[t] = x /\ \A v \in DOMAIN turns \ {t} : u[v] = turns[v]
  BY <1>1
<1>4. [turns EXCEPT ![t].pc = pc] = [turns EXCEPT ![t] = [turns[t] EXCEPT !.pc = pc]]
  BY Zenon
<1> QED BY <1>2, <1>3, <1>4

LEMMA OneMore ==
  ASSUME NEW s \in Seq(Messages), NEW m \in Messages
  PROVE  /\ \A id, role : Stands(Append(s, m), id, role) <=>
                             Stands(s, id, role) \/ (id = m.id /\ role = m.role)
         /\ Distinct(s) /\ (m.id = 0 \/ ~Stands(s, m.id, m.role)) => Distinct(Append(s, m))
<1> DEFINE t == Append(s, m)
           n == Len(s) + 1
<1>1. DOMAIN t = DOMAIN s \cup {n} /\ n \notin DOMAIN s /\ t[n] = m
  OBVIOUS
<1>2. \A i \in DOMAIN s : t[i] = s[i]
  OBVIOUS
<1> HIDE DEF t, n
<1>3. \A id, role : Stands(t, id, role) <=> Stands(s, id, role) \/ (id = m.id /\ role = m.role)
  BY <1>1, <1>2 DEF Stands
<1>4. ASSUME Distinct(s), m.id = 0 \/ ~Stands(s, m.id, m.role) PROVE Distinct(t)
  BY <1>1, <1>2, <1>4 DEF Distinct, Stands
<1> QED BY <1>3, <1>4 DEF t

LEMMA TwoMore ==
  ASSUME NEW s \in Seq(Messages), NEW a \in Messages, NEW b \in Messages
  PROVE  s \o <<a, b>> = Append(Append(s, a), b) /\ Append(s, a) \in Seq(Messages)
  OBVIOUS

\* A step that leaves the answers alone.
LEMMA AnswersStay ==
  ASSUME OnceInv, UNCHANGED <<requests, listener, history, dropped, sent>>
  PROVE  OnePlace' /\ AskedOnce' /\ Distinct(history.messages)'
<1>1. \A id : /\ Asked(id)' <=> Asked(id)
              /\ InHand(id)' <=> InHand(id)
              /\ InBlock(id)' <=> InBlock(id)
              /\ Answered(id)' <=> Answered(id)
  BY DEF Asked, InHand, InBlock, Answered
<1> QED BY <1>1 DEF OnceInv, OnePlace, AskedOnce

\* A step of which RecordedOnce sees nothing.
LEMMA UsersStay ==
  ASSUME OnceInv, UNCHANGED <<turns, sent>>,
         \A id : Stands(history.messages, id, "user")' => Stands(history.messages, id, "user")
  PROVE  RecordedOnce'
<1>1. \A t \in DOMAIN turns : Recording(t)' <=> Recording(t)
  BY DEF Recording
<1> QED BY <1>1 DEF OnceInv, RecordedOnce

\* Superseding moves no answer and drops the one in an open block.
LEMMA SupersededOnce ==
  ASSUME IInv, OnceInv, history' = SupersedePending(history), dropped' = Superseded(history),
         UNCHANGED <<requests, listener, sent>>
  PROVE  OnePlace' /\ AskedOnce' /\ Distinct(history.messages)' /\ history'.messages = history.messages
<1>0. history \in Histories
  BY DEF IInv, GoodHistory
<1>1. /\ history'.messages = history.messages /\ history'.id = history.id
      /\ history'.state = IF history.state = "open" THEN "superseded" ELSE history.state
  BY <1>0 DEF SupersedePending, Histories
<1>2. \A id : /\ Asked(id)' <=> Asked(id)
              /\ InHand(id)' <=> InHand(id)
              /\ InBlock(id)' <=> InBlock(id)
              /\ Answered(id)' <=> Answered(id)
  BY <1>1 DEF Asked, InHand, InBlock, Answered
<1>3. \A id \in dropped' : id \in dropped \/ (InBlock(id) /\ history'.state = "superseded")
  BY <1>1 DEF Superseded, InBlock
<1>4. \A id : InBlock(id) /\ id \in dropped => history'.state = "superseded"
  BY <1>1 DEF OnceInv, OnePlace
<1>5. OnePlace'
  BY <1>2, <1>3, <1>4 DEF OnceInv, OnePlace
<1> QED BY <1>1, <1>5 DEF OnceInv, AskedOnce

-----------------------------------------------------------------------------

LEMMA OnceInit == Init => OnceInv
<1> SUFFICES ASSUME Init PROVE OnceInv
  OBVIOUS
<1>1. \A id, role : ~Stands(history.messages, id, role)
  BY DEF Init, NewHistory, Stands
<1>2. \A id : ~Asked(id) /\ ~InHand(id) /\ ~InBlock(id) /\ ~Answered(id) /\ id \notin dropped
  BY <1>1 DEF Init, Asked, InHand, InBlock, Answered, Idle, NewHistory
<1>3. Distinct(history.messages)
  BY DEF Init, NewHistory, Distinct
<1>4. AskedOnce /\ DOMAIN turns = {}
  BY DEF Init, AskedOnce
<1> QED BY <1>1, <1>2, <1>3, <1>4 DEF OnceInv, OnePlace, RecordedOnce

LEMMA UserInputOnce ==
  ASSUME IInv, OnceInv, NEW c \in 1..MaxInputs, UserInput(c) PROVE OnceInv'
<1>1. OnePlace' /\ AskedOnce' /\ Distinct(history.messages)'
  BY AnswersStay DEF UserInput
<1> DEFINE n == Len(turns) + 1
<1>2. turns \in Seq(TurnType)
  BY DEF IInv, GoroutineTypes
<1>3. /\ DOMAIN turns' = DOMAIN turns \cup {n} /\ turns'[n].pc = "begin"
      /\ \A t \in DOMAIN turns : turns'[t] = turns[t]
  BY <1>2 DEF UserInput
<1>4. \A t \in DOMAIN turns' : Recording(t)' => t \in DOMAIN turns /\ Recording(t)
  BY <1>3 DEF Recording
<1>5. history' = history /\ sent' = sent
  BY DEF UserInput
<1>6. RecordedOnce'
  BY <1>3, <1>4, <1>5 DEF OnceInv, RecordedOnce
<1> QED BY <1>1, <1>6 DEF OnceInv

LEMMA BeginOnce ==
  ASSUME IInv, OnceInv, NEW t \in DOMAIN turns, Begin(t) PROVE OnceInv'
<1>1. OnePlace' /\ AskedOnce' /\ Distinct(history.messages)' /\ history'.messages = history.messages
  BY SupersededOnce DEF Begin
<1>2. /\ DOMAIN turns' = DOMAIN turns /\ turns'[t].pc = "send"
      /\ \A u \in DOMAIN turns \ {t} : turns'[u] = turns[u]
  BY TurnEffect DEF Begin
<1>3. \A u \in DOMAIN turns' : Recording(u)' => Recording(u) /\ turns'[u] = turns[u]
  BY <1>2 DEF Recording
<1>4. sent' = sent
  BY DEF Begin
<1>5. RecordedOnce'
  BY <1>1, <1>2, <1>3, <1>4 DEF OnceInv, RecordedOnce
<1> QED BY <1>1, <1>5 DEF OnceInv

\* A request that is sent has an id that is new everywhere.
LEMMA SentOnce ==
  ASSUME IInv, OnceInv, NEW ctx, NEW tool, Send(ctx, tool),
         UNCHANGED <<history, listener, dropped>>
  PROVE  OnePlace' /\ AskedOnce' /\ Distinct(history.messages)'
<1>1. sent \in Nat /\ sent' = sent + 1
  BY DEF IInv, RecordTypes, Send
<1> DEFINE q == [id |-> sent + 1, ctx |-> ctx, tool |-> tool]
<1>2. requests' = requests \cup {q} /\ q.id = sent + 1
  BY DEF Send
<1> HIDE DEF q
<1>8. \A id : Asked(id)' <=> Asked(id) \/ id = sent + 1
  BY <1>2 DEF Asked
<1>3. /\ \A id : Asked(id)' <=> Asked(id) \/ id = sent + 1
      /\ \A id : InHand(id)' <=> InHand(id)
      /\ \A id : InBlock(id)' <=> InBlock(id)
      /\ \A id : Answered(id)' <=> Answered(id)
  BY <1>8 DEF InHand, InBlock, Answered
<1>4. /\ 1..sent \subseteq 1..sent' /\ sent + 1 \notin 1..sent /\ sent + 1 \in 1..sent'
  BY <1>1
<1>5. ~Asked(sent + 1) /\ ~InHand(sent + 1) /\ ~InBlock(sent + 1) /\ ~Answered(sent + 1)
      /\ sent + 1 \notin dropped
  BY <1>4 DEF OnceInv, OnePlace
<1>6. OnePlace'
  BY <1>3, <1>4, <1>5 DEF OnceInv, OnePlace
<1>7. AskedOnce'
  BY <1>2, <1>5 DEF OnceInv, AskedOnce, Asked
<1> QED BY <1>6, <1>7 DEF OnceInv

LEMMA SendChatOnce ==
  ASSUME IInv, OnceInv, NEW t \in DOMAIN turns, SendChat(t) PROVE OnceInv'
<1>1. /\ history' = history /\ DOMAIN turns' = DOMAIN turns
      /\ \A u \in DOMAIN turns \ {t} : turns'[u] = turns[u]
  BY DEF SendChat
<1>2. CASE CanSend(history)
  <2>1. OnePlace' /\ AskedOnce' /\ Distinct(history.messages)'
    BY <1>2, SentOnce DEF SendChat
  <2>2. sent \in Nat /\ sent' = sent + 1
    BY <1>2 DEF IInv, RecordTypes, SendChat, Send
  <2>9. turns' = [turns EXCEPT ![t].pc = "record", ![t].id = sent + 1]
    BY <1>2 DEF SendChat
  <2>3. turns'[t].id = sent + 1
    <3>1. turns \in Seq(TurnType) /\ turns[t] \in TurnType
      BY TurnTyped DEF IInv, GoroutineTypes
    <3>2. turns'[t] = [[turns[t] EXCEPT !.pc = "record"] EXCEPT !.id = sent + 1]
      BY <2>9, <3>1
    <3> QED BY <3>1, <3>2 DEF TurnType
  <2>4. 1..sent \subseteq 1..sent' /\ sent + 1 \in 1..sent' /\ sent + 1 \notin 1..sent
    BY <2>2
  <2>5. \A u \in DOMAIN turns \ {t} : Recording(u)' <=> Recording(u)
    BY <1>1 DEF Recording
  <2>6. ~Stands(history.messages, sent + 1, "user")
    BY <2>4 DEF OnceInv, RecordedOnce
  <2>7. \A u \in DOMAIN turns \ {t} : Recording(u)' => turns'[u].id \in 1..sent
    BY <1>1, <2>5 DEF OnceInv, RecordedOnce
  <2>8. RecordedOnce'
    BY <1>1, <2>3, <2>4, <2>5, <2>6, <2>7 DEF OnceInv, RecordedOnce
  <2> QED BY <2>1, <2>8 DEF OnceInv
<1>3. CASE ~CanSend(history)
  <2>1. OnePlace' /\ AskedOnce' /\ Distinct(history.messages)'
    BY <1>3, AnswersStay DEF SendChat
  <2>5. turns' = [turns EXCEPT ![t].pc = "done"] /\ sent' = sent
    BY <1>3 DEF SendChat
  <2>2. turns'[t].pc = "done" /\ sent' = sent
    BY <2>5, TurnEffect
  <2>3. \A u \in DOMAIN turns' : Recording(u)' => Recording(u) /\ turns'[u] = turns[u]
    BY <1>1, <2>2 DEF Recording
  <2>4. RecordedOnce'
    BY <1>1, <2>2, <2>3 DEF OnceInv, RecordedOnce
  <2> QED BY <2>1, <2>4 DEF OnceInv
<1> QED BY <1>2, <1>3

LEMMA RecordUserOnce ==
  ASSUME IInv, OnceInv, NEW t \in DOMAIN turns, RecordUser(t) PROVE OnceInv'
<1> DEFINE m == Message("user", turns[t].id, {})
<1>1. turns[t].id \in Nat /\ m \in Messages /\ m.id = turns[t].id /\ m.role = "user"
  BY TurnTyped DEF Message, Messages
<1>2. /\ history' = [history EXCEPT !.messages = Append(history.messages, m)]
      /\ history \in Histories
  BY DEF RecordUser, AppendUser, Add, IInv, GoodHistory
<1> HIDE DEF m
<1>3. /\ history'.messages = Append(history.messages, m)
      /\ history'.state = history.state /\ history'.id = history.id
  BY <1>2 DEF Histories
<1>4. \A id, role : Stands(history.messages, id, role)' <=>
         Stands(history.messages, id, role) \/ (id = turns[t].id /\ role = "user")
  BY <1>1, <1>3, OneMore, MessagesType
<1>5. ~Stands(history.messages, turns[t].id, "user") /\ turns[t].id \in 1..sent
  BY DEF OnceInv, RecordedOnce, RecordUser, Recording
<1>6. Distinct(history.messages)'
  BY <1>1, <1>3, <1>5, OneMore, MessagesType DEF OnceInv
<1>7. UNCHANGED <<requests, listener, dropped, sent>>
  BY DEF RecordUser
<1>8. \A id : /\ Asked(id)' <=> Asked(id)
              /\ InHand(id)' <=> InHand(id)
              /\ InBlock(id)' <=> InBlock(id)
              /\ Answered(id)' <=> Answered(id)
  BY <1>3, <1>4, <1>7 DEF Asked, InHand, InBlock, Answered
<1>9. OnePlace' /\ AskedOnce'
  BY <1>3, <1>7, <1>8 DEF OnceInv, OnePlace, AskedOnce
<1>10. /\ DOMAIN turns' = DOMAIN turns /\ turns'[t].pc = "done"
       /\ \A u \in DOMAIN turns \ {t} : turns'[u] = turns[u]
  BY TurnEffect DEF RecordUser
<1>11. \A u \in DOMAIN turns' : Recording(u)' => Recording(u) /\ turns'[u] = turns[u] /\ u # t
  BY <1>10 DEF Recording
<1>12. Recording(t)
  BY DEF RecordUser, Recording
<1>13. \A u \in DOMAIN turns' : Recording(u)' => turns'[u].id # turns[t].id
  BY <1>10, <1>11, <1>12 DEF OnceInv, RecordedOnce
<1>14. RecordedOnce'
  BY <1>4, <1>5, <1>7, <1>10, <1>11, <1>13 DEF OnceInv, RecordedOnce
<1> QED BY <1>6, <1>9, <1>14 DEF OnceInv

LEMMA InjectMessageOnce ==
  ASSUME IInv, OnceInv, InjectMessage PROVE OnceInv'
<1> DEFINE m == Message("assistant", 0, {})
<1>1. m \in Messages /\ m.id = 0 /\ m.role = "assistant"
  BY DEF Message, Messages
<1>2. /\ history' = [history EXCEPT !.messages = Append(history.messages, m)]
      /\ history \in Histories
  BY DEF InjectMessage, AppendInjected, Add, IInv, GoodHistory
<1> HIDE DEF m
<1>3. /\ history'.messages = Append(history.messages, m)
      /\ history'.state = history.state /\ history'.id = history.id
  BY <1>2 DEF Histories
<1>4. \A id, role : Stands(history.messages, id, role)' <=>
         Stands(history.messages, id, role) \/ (id = 0 /\ role = "assistant")
  BY <1>1, <1>3, OneMore, MessagesType
<1>5. Distinct(history.messages)'
  BY <1>1, <1>3, OneMore, MessagesType DEF OnceInv
<1>6. UNCHANGED <<requests, listener, dropped, sent, turns>>
  BY DEF InjectMessage
<1>7. \A id : /\ Asked(id)' <=> Asked(id)
              /\ InHand(id)' <=> InHand(id)
              /\ InBlock(id)' <=> InBlock(id)
              /\ Answered(id)' <=> Answered(id)
  BY <1>3, <1>4, <1>6 DEF Asked, InHand, InBlock, Answered
<1>8. OnePlace' /\ AskedOnce'
  BY <1>3, <1>6, <1>7 DEF OnceInv, OnePlace, AskedOnce
<1>9. RecordedOnce'
  BY <1>4, <1>6, UsersStay
<1> QED BY <1>5, <1>8, <1>9 DEF OnceInv

LEMMA InterruptOnce ==
  ASSUME IInv, OnceInv, Interrupt PROVE OnceInv'
<1>1. OnePlace' /\ AskedOnce' /\ Distinct(history.messages)' /\ history'.messages = history.messages
  BY SupersededOnce DEF Interrupt
<1>2. RecordedOnce'
  BY <1>1, UsersStay DEF Interrupt
<1> QED BY <1>1, <1>2 DEF OnceInv

LEMMA ReceiveOnce ==
  ASSUME IInv, OnceInv, NEW r \in requests, NEW n \in 0..MaxCalls, NEW failed \in BOOLEAN,
         Receive(r, n, failed)
  PROVE  OnceInv'
<1>1. /\ requests' = requests \ {r} /\ UNCHANGED <<history, turns, sent, dropped>>
      /\ listener.pc = "recv"
  BY DEF Receive
<1>2. \A id : Asked(id)' => Asked(id) /\ id # r.id
  BY <1>1 DEF OnceInv, AskedOnce, Asked
<1>3. \A id : InHand(id)' => id = r.id
  <2>1. CASE current = 0 \/ r.ctx # current
    BY <2>1 DEF Receive, InHand, Idle
  <2>2. CASE ~(current = 0 \/ r.ctx # current)
    <3>1. listener' = [pc |-> "handle", ctx |-> r.ctx, id |-> r.id,
                       calls |-> issued + 1 .. issued + n, failed |-> failed]
      BY <2>2 DEF Receive
    <3>2. listener'.id = r.id
      BY <3>1
    <3> QED BY <3>2 DEF InHand
  <2> QED BY <2>1, <2>2
<1>4. Asked(r.id)
  BY DEF Asked
<1>5. \A id : /\ InBlock(id)' <=> InBlock(id)
              /\ Answered(id)' <=> Answered(id)
  BY <1>1 DEF InBlock, Answered
<1>6. OnePlace'
  BY <1>1, <1>2, <1>3, <1>4, <1>5 DEF OnceInv, OnePlace
<1>7. AskedOnce' /\ Distinct(history.messages)'
  BY <1>1 DEF OnceInv, AskedOnce
<1>8. RecordedOnce'
  BY <1>1, UsersStay
<1> QED BY <1>6, <1>7, <1>8 DEF OnceInv

\* The answer leaves the listener: it is an error, becomes a message or the block.
LEMMA RespondOnce ==
  ASSUME IInv, OnceInv, Respond PROVE OnceInv'
<1>1. /\ listener.pc = "handle" /\ listener' = Idle
      /\ UNCHANGED <<requests, turns, sent>>
  BY DEF Respond
<1>2. listener.ctx \in Nat /\ listener.id \in Nat /\ listener.calls \in SUBSET Nat
  BY DEF IInv, GoroutineTypes, ListenerType
<1>3. InHand(listener.id)
  BY <1>1 DEF InHand
<1>4. \A id : ~InHand(id)' /\ (Asked(id)' <=> Asked(id))
  BY <1>1 DEF InHand, Idle, Asked
<1>5. AskedOnce'
  BY <1>1 DEF OnceInv, AskedOnce
<1>6. CASE listener.failed
  <2>1. UNCHANGED <<history, dropped>>
    BY <1>6 DEF Respond
  <2>2. \A id : /\ InBlock(id)' <=> InBlock(id)
                /\ Answered(id)' <=> Answered(id)
    BY <2>1 DEF InBlock, Answered
  <2>3. OnePlace' /\ Distinct(history.messages)'
    BY <1>1, <1>4, <2>1, <2>2 DEF OnceInv, OnePlace
  <2>4. RecordedOnce'
    BY <1>1, <2>1, UsersStay
  <2> QED BY <1>5, <2>3, <2>4 DEF OnceInv
<1>7. CASE ~listener.failed /\ listener.calls = {}
  <2> DEFINE m == Message("assistant", listener.id, {})
  <2>1. m \in Messages /\ m.id = listener.id /\ m.role = "assistant"
    BY <1>2 DEF Message, Messages
  <2>2. /\ history' = [history EXCEPT !.messages = Append(history.messages, m)]
        /\ history \in Histories /\ dropped' = dropped
    BY <1>7 DEF Respond, AppendAssistant, Add, IInv, GoodHistory
  <2> HIDE DEF m
  <2>3. /\ history'.messages = Append(history.messages, m)
        /\ history'.state = history.state /\ history'.id = history.id
    BY <2>2 DEF Histories
  <2>4. \A id, role : Stands(history.messages, id, role)' <=>
           Stands(history.messages, id, role) \/ (id = listener.id /\ role = "assistant")
    BY <2>1, <2>3, OneMore, MessagesType
  <2>5. listener.id \in 1..sent /\ ~Answered(listener.id)
    BY <1>3 DEF OnceInv, OnePlace
  <2>6. ~Stands(history.messages, listener.id, "assistant")
    BY <2>5 DEF Answered
  <2>7. Distinct(history.messages)'
    BY <2>1, <2>3, <2>6, OneMore, MessagesType DEF OnceInv
  <2>8. \A id : /\ InBlock(id)' <=> InBlock(id)
                /\ Answered(id)' => Answered(id) \/ InHand(id)
    BY <1>3, <2>3, <2>4 DEF InBlock, Answered
  <2>9. OnePlace'
    BY <1>1, <1>4, <2>2, <2>3, <2>8 DEF OnceInv, OnePlace
  <2>10. RecordedOnce'
    BY <1>1, <2>4, UsersStay
  <2> QED BY <1>5, <2>7, <2>9, <2>10 DEF OnceInv
<1>8. CASE ~listener.failed /\ listener.calls # {}
  <2>1. /\ history' = [history EXCEPT !.state = "open", !.ctx = listener.ctx, !.id = listener.id,
                                      !.expected = listener.calls, !.results = {}]
        /\ history \in Histories /\ dropped' = Superseded(history)
    BY <1>8 DEF Respond, AppendAssistant, IInv, GoodHistory
  <2>2. history'.messages = history.messages /\ history'.state = "open" /\ history'.id = listener.id
    BY <2>1 DEF Histories
  <2>3. \A id \in dropped' : id \in dropped \/ InBlock(id)
    BY <2>1 DEF Superseded, InBlock
  <2>4. \A id : InBlock(id)' => InHand(id)
    BY <1>3, <2>2 DEF InBlock, InHand
  <2>5. \A id : Answered(id)' <=> Answered(id)
    BY <2>2 DEF Answered
  <2>6. OnePlace'
    BY <1>1, <1>4, <2>3, <2>4, <2>5 DEF OnceInv, OnePlace
  <2>7. Distinct(history.messages)'
    BY <2>2 DEF OnceInv
  <2>8. RecordedOnce'
    BY <1>1, <2>2, UsersStay
  <2> QED BY <1>5, <2>6, <2>7, <2>8 DEF OnceInv
<1> QED BY <1>6, <1>7, <1>8

LEMMA ListenerEndsOnce ==
  ASSUME IInv, OnceInv, ReceiveFails \/ ServiceCloses PROVE OnceInv'
<1>1. UNCHANGED <<requests, history, turns, sent, dropped>> /\ listener'.pc # "handle"
  BY DEF ReceiveFails, ServiceCloses, Stopped, Idle
<1>2. \A id : /\ ~InHand(id)' /\ (Asked(id)' <=> Asked(id))
              /\ InBlock(id)' <=> InBlock(id)
              /\ Answered(id)' <=> Answered(id)
  BY <1>1 DEF Asked, InHand, InBlock, Answered
<1>3. OnePlace' /\ AskedOnce' /\ Distinct(history.messages)'
  BY <1>1, <1>2 DEF OnceInv, OnePlace, AskedOnce
<1>4. RecordedOnce'
  BY <1>1, UsersStay
<1> QED BY <1>3, <1>4 DEF OnceInv

LEMMA StreamBreaksOnce ==
  ASSUME IInv, OnceInv, StreamBreaks PROVE OnceInv'
<1>1. UNCHANGED <<listener, history, turns, sent, dropped>> /\ requests' = {}
  BY DEF StreamBreaks
<1>2. \A id : /\ InHand(id)' <=> InHand(id)
              /\ ~Asked(id)'
              /\ InBlock(id)' <=> InBlock(id)
              /\ Answered(id)' <=> Answered(id)
  BY <1>1 DEF Asked, InHand, InBlock, Answered
<1>3. OnePlace' /\ AskedOnce' /\ Distinct(history.messages)'
  BY <1>1, <1>2 DEF OnceInv, OnePlace, AskedOnce
<1>4. RecordedOnce'
  BY <1>1, UsersStay
<1> QED BY <1>3, <1>4 DEF OnceInv

LEMMA CloseOnce ==
  ASSUME IInv, OnceInv, Close PROVE OnceInv'
<1>1. UNCHANGED <<listener, turns, sent, dropped>> /\ requests' = {} /\ history' = NewHistory
  BY DEF Close
<1>2. \A id, role : ~Stands(history.messages, id, role)'
  BY <1>1 DEF NewHistory, Stands
<1>3. \A id : /\ InHand(id)' <=> InHand(id)
              /\ ~Asked(id)' /\ ~InBlock(id)' /\ ~Answered(id)'
  BY <1>1, <1>2 DEF Asked, InHand, InBlock, Answered, NewHistory
<1>4. OnePlace' /\ AskedOnce'
  BY <1>1, <1>3 DEF OnceInv, OnePlace, AskedOnce
<1>5. Distinct(history.messages)'
  BY <1>1 DEF NewHistory, Distinct
<1>6. RecordedOnce'
  BY <1>1, <1>2, UsersStay
<1> QED BY <1>4, <1>5, <1>6 DEF OnceInv

LEMMA AcceptOnce ==
  ASSUME IInv, OnceInv, NEW r \in results, Accept(r) PROVE OnceInv'
<1>1. UNCHANGED <<listener, turns, sent, dropped, requests>>
  BY DEF Accept
<1>2. history \in Histories
  BY DEF IInv, GoodHistory
<1>3. CASE ~Accepts(history, r.ctx, r.tool)
  <2>1. history' = history
    BY <1>3 DEF Accept
  <2>2. OnePlace' /\ AskedOnce' /\ Distinct(history.messages)'
    BY <1>1, <2>1, AnswersStay
  <2>3. RecordedOnce'
    BY <1>1, <2>1, UsersStay
  <2> QED BY <2>2, <2>3 DEF OnceInv
<1>4. CASE Accepts(history, r.ctx, r.tool)
  <2>1. history' = AcceptToolResult(history, r.tool) /\ history.state = "open"
    BY <1>4 DEF Accept, Accepts
  <2>2. /\ history'.messages = history.messages /\ history'.id = history.id
        /\ history'.state \in {"open", "resolved"}
    BY <1>2, <2>1 DEF AcceptToolResult, Histories
  <2>3. \A id : /\ Asked(id)' <=> Asked(id)
                /\ InHand(id)' <=> InHand(id)
                /\ InBlock(id)' <=> InBlock(id)
                /\ Answered(id)' <=> Answered(id)
    BY <1>1, <2>1, <2>2 DEF Asked, InHand, InBlock, Answered
  <2>4. \A id : InBlock(id) => id \notin dropped
    BY <2>1 DEF OnceInv, OnePlace
  <2>5. OnePlace' /\ AskedOnce' /\ Distinct(history.messages)'
    BY <1>1, <2>2, <2>3, <2>4 DEF OnceInv, OnePlace, AskedOnce
  <2>6. RecordedOnce'
    BY <1>1, <2>2, UsersStay
  <2> QED BY <2>5, <2>6 DEF OnceInv
<1> QED BY <1>3, <1>4

\* The calls of the block and their results become messages together.
LEMMA FlushOnce ==
  ASSUME IInv, OnceInv, NEW r \in results, Flush(r) PROVE OnceInv'
<1>1. UNCHANGED <<listener, turns, sent, dropped, requests>> /\ history' = FlushToolBlock(history)
  BY DEF Flush
<1>2. history \in Histories
  BY DEF IInv, GoodHistory
<1>3. CASE history.state \notin {"superseded", "resolved"}
  <2>1. history' = history
    BY <1>1, <1>3 DEF FlushToolBlock
  <2>2. OnePlace' /\ AskedOnce' /\ Distinct(history.messages)'
    BY <1>1, <2>1, AnswersStay
  <2>3. RecordedOnce'
    BY <1>1, <2>1, UsersStay
  <2> QED BY <2>2, <2>3 DEF OnceInv
<1>4. CASE history.state = "superseded"
  <2>1. history'.messages = history.messages /\ history'.state = "none"
    BY <1>1, <1>2, <1>4 DEF FlushToolBlock, Cleared, Histories
  <2>2. \A id : /\ Asked(id)' <=> Asked(id)
                /\ InHand(id)' <=> InHand(id)
                /\ ~InBlock(id)'
                /\ Answered(id)' <=> Answered(id)
    BY <1>1, <2>1 DEF Asked, InHand, InBlock, Answered
  <2>3. OnePlace' /\ AskedOnce' /\ Distinct(history.messages)'
    BY <1>1, <2>1, <2>2 DEF OnceInv, OnePlace, AskedOnce
  <2>4. RecordedOnce'
    BY <1>1, <2>1, UsersStay
  <2> QED BY <2>3, <2>4 DEF OnceInv
<1>5. CASE history.state = "resolved"
  <2> DEFINE a == Message("assistant", history.id, history.expected)
             b == Message("tool", history.id, history.results)
             s == history.messages
  <2>1. /\ a \in Messages /\ a.id = history.id /\ a.role = "assistant"
        /\ b \in Messages /\ b.id = history.id /\ b.role = "tool"
    BY <1>2 DEF Message, Messages, Histories
  <2>2. /\ history' = Cleared([history EXCEPT !.messages = s \o <<a, b>>])
    BY <1>1, <1>5 DEF FlushToolBlock
  <2> HIDE DEF a, b
  <2>3. history'.messages = s \o <<a, b>> /\ history'.state = "none"
    BY <1>2, <2>2 DEF Cleared, Histories
  <2>4. s \in Seq(Messages)
    BY MessagesType
  <2> DEFINE c == Append(s, a)
  <2>5. history'.messages = Append(c, b) /\ c \in Seq(Messages)
    BY <2>1, <2>3, <2>4, TwoMore
  <2>6. \A id, role : Stands(c, id, role) <=>
           Stands(s, id, role) \/ (id = history.id /\ role = "assistant")
    BY <2>1, <2>4, OneMore
  <2>7. \A id, role : Stands(history.messages, id, role)' <=>
           \/ Stands(s, id, role)
           \/ id = history.id /\ role \in {"assistant", "tool"}
    <3> HIDE DEF c, s
    <3>1. \A id, role : Stands(Append(c, b), id, role) <=>
             Stands(c, id, role) \/ (id = history.id /\ role = "tool")
      BY <2>1, <2>5, OneMore
    <3> QED BY <2>5, <2>6, <3>1
  <2>8. InBlock(history.id) /\ history.id \notin dropped
    BY <1>5 DEF InBlock, OnceInv, OnePlace
  <2>9. history.id \in 1..sent /\ ~Answered(history.id)
    BY <2>8 DEF OnceInv, OnePlace
  <2>10. ~Stands(s, history.id, "assistant") /\ ~Stands(s, history.id, "tool")
    BY <2>9 DEF Answered
  <2>11. Distinct(c)
    BY <2>1, <2>4, <2>10, OneMore DEF OnceInv
  <2>12. Distinct(history.messages)'
    <3> HIDE DEF c, s
    <3>1. ~Stands(c, b.id, b.role)
      BY <2>1, <2>6, <2>10
    <3>2. Distinct(Append(c, b))
      BY <2>1, <2>5, <2>11, <3>1, OneMore
    <3> QED BY <2>5, <3>2
  <2>13. \A id : /\ Asked(id)' <=> Asked(id)
                 /\ InHand(id)' <=> InHand(id)
                 /\ ~InBlock(id)'
                 /\ Answered(id)' => Answered(id) \/ id = history.id
    BY <1>1, <2>3, <2>7 DEF Asked, InHand, InBlock, Answered
  <2>14. OnePlace' /\ AskedOnce'
    BY <1>1, <2>8, <2>13 DEF OnceInv, OnePlace, AskedOnce
  <2>15. RecordedOnce'
    BY <1>1, <2>7, UsersStay
  <2> QED BY <2>12, <2>14, <2>15 DEF OnceInv
<1> QED BY <1>3, <1>4, <1>5

LEMMA FollowUpOnce ==
  ASSUME IInv, OnceInv, NEW r \in results, FollowUp(r) PROVE OnceInv'
<1>1. UNCHANGED <<history, listener, turns, dropped>>
  BY DEF FollowUp
<1>2. CASE CanSend(history)
  <2>1. OnePlace' /\ AskedOnce' /\ Distinct(history.messages)'
    BY <1>1, <1>2, SentOnce DEF FollowUp
  <2>2. 1..sent \subseteq 1..sent'
    BY <1>2 DEF IInv, RecordTypes, FollowUp, Send
  <2>3. \A t \in DOMAIN turns : Recording(t)' <=> Recording(t)
    BY <1>1 DEF Recording
  <2>4. RecordedOnce'
    BY <1>1, <2>2, <2>3 DEF OnceInv, RecordedOnce
  <2> QED BY <2>1, <2>4 DEF OnceInv
<1>3. CASE ~CanSend(history)
  <2>1. UNCHANGED <<requests, sent>>
    BY <1>3 DEF FollowUp
  <2>2. OnePlace' /\ AskedOnce' /\ Distinct(history.messages)'
    BY <1>1, <2>1, AnswersStay
  <2>3. RecordedOnce'
    BY <1>1, <2>1, UsersStay
  <2> QED BY <2>2, <2>3 DEF OnceInv
<1> QED BY <1>2, <1>3

LEMMA ElsewhereOnce ==
  ASSUME OnceInv, UNCHANGED <<requests, listener, history, dropped, sent, turns>>
  PROVE  OnceInv'
<1>1. OnePlace' /\ AskedOnce' /\ Distinct(history.messages)'
  BY AnswersStay
<1>2. RecordedOnce'
  BY UsersStay
<1> QED BY <1>1, <1>2 DEF OnceInv

LEMMA OnceNext ==
  ASSUME IInv, OnceInv, [Next]_vars PROVE OnceInv'
<1>1. ASSUME NEW c \in 1..MaxInputs, UserInput(c) PROVE OnceInv'
  BY <1>1, UserInputOnce
<1>2. ASSUME NEW t \in DOMAIN turns, TurnStep(t) PROVE OnceInv'
  BY <1>2, BeginOnce, SendChatOnce, RecordUserOnce DEF TurnStep
<1>3. ASSUME NEW r \in requests, Answer(r) PROVE OnceInv'
  BY <1>3, ReceiveOnce DEF Answer
<1>4. ASSUME NEW c \in tools, ToolReturns(c) PROVE OnceInv'
  BY <1>4, ElsewhereOnce DEF ToolReturns
<1>5. ASSUME NEW r \in results, ResultStep(r) PROVE OnceInv'
  BY <1>5, AcceptOnce, FlushOnce, FollowUpOnce DEF ResultStep
<1>6. CASE UNCHANGED vars
  BY <1>6, ElsewhereOnce DEF vars
<1> QED
  BY <1>1, <1>2, <1>3, <1>4, <1>5, <1>6, InjectMessageOnce, InterruptOnce, RespondOnce,
     ListenerEndsOnce, StreamBreaksOnce, CloseOnce DEF Next

\* A set with at most one member counts at most one.
LEMMA AtMostOneMember ==
  ASSUME NEW S, \A x, y \in S : x = y PROVE Cardinality(S) <= 1
<1>1. CASE S = {}
  BY <1>1, FS_EmptySet
<1>2. CASE S # {}
  <2>1. PICK x \in S : TRUE
    BY <1>2
  <2>2. S = {x}
    BY <2>1
  <2> QED BY <2>2, FS_Singleton
<1> QED BY <1>1, <1>2

LEMMA OnceImplies ==
  ASSUME IInv, OnceInv PROVE BlockOnce
<1>1. ASSUME NEW id \in 1..sent, NEW role \in {"user", "assistant", "tool"}
      PROVE  Cardinality(Places(id, role)) <= 1
  <2>1. id # 0
    BY DEF IInv, RecordTypes
  <2>2. \A i, j \in Places(id, role) : i = j
    BY <2>1 DEF Places, OnceInv, Distinct
  <2> QED BY <2>2, AtMostOneMember
<1>2. ASSUME NEW id \in dropped
      PROVE  Places(id, "assistant") \cup Places(id, "tool") = {}
  <2>1. id \in 1..sent /\ ~Answered(id)
    BY DEF OnceInv, OnePlace
  <2>2. id # 0
    BY <2>1 DEF IInv, RecordTypes
  <2> QED BY <2>1, <2>2 DEF Answered, Stands, Places
<1> QED BY <1>1, <1>2 DEF BlockOnce

\* For any number of turns, calls and injected messages, and any interleaving of the
\* goroutines that resolve, flush and supersede blocks: each answer enters the
\* history at most once, and that of a block the user cut off never does.
THEOREM AnsweredOnce == Spec => []BlockOnce
<1>1. IInv /\ OnceInv /\ [Next]_vars => OnceInv'
  BY OnceNext
<1>2. IInv /\ OnceInv => BlockOnce
  BY OnceImplies
<1> QED BY <1>1, <1>2, OnceInit, Inductive, PTL DEF Spec
=============================================================================
