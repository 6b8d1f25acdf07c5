--------------------------- MODULE HistoryProofs ---------------------------
(***************************************************************************)
(* What each operation of the conversation history preserves: its type, the *)
(* consistency of the tool block and the validity of the messages.         *)
(***************************************************************************)
EXTENDS ConversationHistory, TLAPS

GoodHistory(h) == h \in Histories /\ BlockOK(h) /\ ValidSequence(h.messages)

LEMMA NewHistoryGood == GoodHistory(NewHistory)
  BY DEF GoodHistory, NewHistory, Histories, BlockOK, ValidSequence, BlockStates, Messages

\* A message that neither makes nor answers tool calls may join anywhere.
LEMMA PlainMessageValid ==
  ASSUME NEW s \in Seq(Messages), ValidSequence(s),
         NEW m \in Messages, m.role # "tool", m.calls = {}
  PROVE  Append(s, m) \in Seq(Messages) /\ ValidSequence(Append(s, m))
<1> DEFINE t == Append(s, m)
<1>1. t \in Seq(Messages) /\ Len(t) = Len(s) + 1 /\ t[Len(s) + 1] = m
  OBVIOUS
<1>2. \A i \in 1..Len(s) : t[i] = s[i]
  OBVIOUS
<1>3. ValidSequence(t)
  BY <1>1, <1>2 DEF ValidSequence
<1> QED BY <1>1, <1>3

\* Tool calls may join together with their results right behind them.
LEMMA ToolBlockValid ==
  ASSUME NEW s \in Seq(Messages), ValidSequence(s),
         NEW a \in Messages, NEW b \in Messages,
         a.role = "assistant", b.role = "tool", a.calls # {}, b.calls = a.calls
  PROVE  s \o <<a, b>> \in Seq(Messages) /\ ValidSequence(s \o <<a, b>>)
<1> DEFINE t == s \o <<a, b>>
<1>1. t \in Seq(Messages) /\ Len(t) = Len(s) + 2
  OBVIOUS
<1>2. t[Len(s) + 1] = a /\ t[Len(s) + 2] = b
  OBVIOUS
<1>3. \A i \in 1..Len(s) : t[i] = s[i]
  OBVIOUS
<1>4. ValidSequence(t)
  BY <1>1, <1>2, <1>3 DEF ValidSequence
<1> QED BY <1>1, <1>4

LEMMA AddGood ==
  ASSUME NEW h, GoodHistory(h), NEW m \in Messages, m.role # "tool", m.calls = {}
  PROVE  GoodHistory(Add(h, m))
<1>1. h.messages \in Seq(Messages) /\ ValidSequence(h.messages)
  BY DEF GoodHistory, Histories
<1>2. Append(h.messages, m) \in Seq(Messages) /\ ValidSequence(Append(h.messages, m))
  BY <1>1, PlainMessageValid
<1> QED BY <1>2 DEF GoodHistory, Add, Histories, BlockOK

LEMMA AppendUserGood ==
  ASSUME NEW h, GoodHistory(h), NEW id \in Nat
  PROVE  GoodHistory(AppendUser(h, id))
<1> Message("user", id, {}) \in Messages
  BY DEF Message, Messages
<1> QED BY AddGood DEF AppendUser, Message

LEMMA AppendInjectedGood ==
  ASSUME NEW h, GoodHistory(h)
  PROVE  GoodHistory(AppendInjected(h))
<1> Message("assistant", 0, {}) \in Messages
  BY DEF Message, Messages
<1> QED BY AddGood DEF AppendInjected, Message

LEMMA AppendAssistantGood ==
  ASSUME NEW h, GoodHistory(h), NEW ctx \in Nat, NEW id \in Nat, NEW calls \in SUBSET Nat
  PROVE  GoodHistory(AppendAssistant(h, ctx, id, calls))
<1>1. CASE calls = {}
  <2> Message("assistant", id, {}) \in Messages
    BY DEF Message, Messages
  <2> QED BY <1>1, AddGood DEF AppendAssistant, Message
<1>2. CASE calls # {}
  BY <1>2 DEF AppendAssistant, GoodHistory, Histories, BlockOK, BlockStates
<1> QED BY <1>1, <1>2

LEMMA AcceptToolResultGood ==
  ASSUME NEW h, GoodHistory(h), NEW ctx, NEW tool, Accepts(h, ctx, tool)
  PROVE  GoodHistory(AcceptToolResult(h, tool))
  BY DEF Accepts, AcceptToolResult, GoodHistory, Histories, BlockOK, BlockStates

LEMMA ClearedGood ==
  ASSUME NEW h \in Histories, ValidSequence(h.messages)
  PROVE  GoodHistory(Cleared(h))
  BY DEF Cleared, GoodHistory, Histories, BlockOK, BlockStates

LEMMA FlushToolBlockGood ==
  ASSUME NEW h, GoodHistory(h)
  PROVE  GoodHistory(FlushToolBlock(h))
<1>1. CASE h.state = "resolved"
  <2> DEFINE a == Message("assistant", h.id, h.expected)
             b == Message("tool", h.id, h.results)
             g == [h EXCEPT !.messages = h.messages \o <<a, b>>]
  <2>1. /\ a \in Messages /\ b \in Messages
        /\ a.role = "assistant" /\ b.role = "tool" /\ a.calls # {} /\ b.calls = a.calls
    BY <1>1 DEF GoodHistory, Histories, BlockOK, Message, Messages
  <2>2. h.messages \o <<a, b>> \in Seq(Messages) /\ ValidSequence(h.messages \o <<a, b>>)
    <3> HIDE DEF a, b
    <3> h.messages \in Seq(Messages) /\ ValidSequence(h.messages)
      BY DEF GoodHistory, Histories
    <3> QED BY <2>1, ToolBlockValid
  <2>3. g \in Histories /\ ValidSequence(g.messages)
    <3> HIDE DEF a, b
    <3> QED BY <2>2 DEF GoodHistory, Histories
  <2>4. GoodHistory(Cleared(g))
    <3> HIDE DEF g
    <3> QED BY <2>3, ClearedGood
  <2> QED BY <1>1, <2>4 DEF FlushToolBlock
<1>2. CASE h.state # "resolved"
  BY <1>2, ClearedGood DEF FlushToolBlock, GoodHistory
<1> QED BY <1>1, <1>2

LEMMA SupersedePendingGood ==
  ASSUME NEW h, GoodHistory(h)
  PROVE  GoodHistory(SupersedePending(h))
  BY DEF SupersedePending, GoodHistory, Histories, BlockOK, BlockStates
=============================================================================
