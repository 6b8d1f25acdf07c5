-------------------------------- MODULE Turn --------------------------------
(***************************************************************************)
(* The turns of a conversation: what the user types and says, what the     *)
(* language model answers and the speech provider plays, as packets on     *)
(* three queues with one dispatcher each. Source:                          *)
(*   src/api/assistant-api/internal/adapters/internal/{dispatch_handler,   *)
(*   dispatch,requestor}.go and ../router/{router,route,policy}.go         *)
(* An interruption gives the session a new context id; packets of the      *)
(* contexts before it are stale and dropped. The session has a greeting,   *)
(* an idle timeout and sometimes the greeting may not be interrupted; it   *)
(* is in audio mode.                                                       *)
(*                                                                         *)
(* Concurrent: the control, ingress and egress dispatchers, a goroutine    *)
(* per request and per silencing, the recognizer, the detector of          *)
(* utterances, the provider and two timers. A handler is one step, except  *)
(* that output which passed the check of its context is held in "hand"     *)
(* while the other dispatchers may move the session to another turn.       *)
(* Queues are unbounded here; Channels has their limits.                   *)
(***************************************************************************)
EXTENDS MessageLifecycle, Watchdog, Sequences, FiniteSets

CONSTANTS
  PromptControl,  \* BOOLEAN: an interruption is handled before the silence after
                  \* the utterance that caused it is over
  Backoff,        \* expiries of the idle timeout before the session ends
  MaxEvents       \* bound on texts typed, utterances, voice activity, expiries,
                  \* tool calls, failures of the model and of the provider together

ASSUME TurnAssumption == PromptControl \in BOOLEAN /\ Backoff \in Nat \ {0} /\ MaxEvents \in Nat

VARIABLES
  turn,        \* MessageLifecycle
  queues,      \* the queued packets of each route
  hand,        \* output whose context was current when it was checked, or Nothing
  ignored,     \* names of packets that the dispatchers drop
  heard,       \* utterances the recognizer has
  transcripts, \* transcripts the detector of utterances has
  requests,    \* requests the model works on
  tools,       \* the tool calls being executed
  silencing,   \* goroutines that are to interrupt the provider
  voice,       \* the turn whose texts the provider has to play, or NoTurn
  idle,        \* the idle watchdog
  idleCount,   \* its expiries since the user was last there
  completion,  \* the speech-completion watchdog
  ending,      \* the client was told to disconnect
  events,      \* how much of the bound is used
  failed,      \* an answer failed
  owed,        \* contexts whose user has no answer, no error and no goodbye of a tool
  late         \* contexts, in order, of output delivered after their end

userVars == <<heard, transcripts>>
modelVars == <<requests, tools>>
voiceVars == <<silencing, voice, completion>>
idleVars == <<idle, idleCount, ending>>
ghosts == <<owed, late, failed>>
vars == <<turn, queues, hand, ignored, userVars, modelVars, voiceVars,
          idleVars, events, ghosts>>

-----------------------------------------------------------------------------
(* Packets: a name, a context and, for some, an argument                   *)

Routes == {"control", "ingress", "egress"}
Inputs == {"UserText", "UserAudio", "SpeechToText", "UserInput", "LLMToolResult"}
Controls == {"InterruptionDetected", "PolicyIgnore", "PolicyPassthrough"}
Targets == {"UserAudio", "UserText", "InterruptionDetected"}
Checked == {"LLMDelta", "LLMDone", "TTSText", "TTSDone", "TTSEnd"}

Classify(name) == IF name \in Inputs THEN "ingress"
                  ELSE IF name \in Controls THEN "control" ELSE "egress"

Packet(name, ctx, arg) == [name |-> name, ctx |-> ctx, arg |-> arg]
Plain(name, ctx) == Packet(name, ctx, "")
Nothing == Plain("Nothing", 0)
NoTurn == 0

\* A packet joins the queue of its route; two packets join one after the other.
OnPacket(q, p) == [q EXCEPT ![Classify(p.name)] = Append(@, p)]
OnPackets(q, first, second) == OnPacket(OnPacket(q, first), second)

NoPackets == [route \in Routes |-> <<>>]

Greeting(ctx) == OnPackets(NoPackets, Plain("PolicyIgnore", ctx), Plain("InjectMessage", ctx))

\* The session as InitializeBehavior leaves it: a greeting that may not be
\* interrupted is queued with its policies, or there is no greeting and the user
\* typed or said something meanwhile; behind them, the idle timeout is to start.
Init ==
  /\ turn = NewMessage
  /\ \E opening \in {Greeting(turn.ctx), OnPacket(NoPackets, Plain("UserText", 0)),
                     OnPacket(NoPackets, Plain("UserAudio", 0))} :
       queues = OnPacket(opening, Plain("StartIdleTimeout", turn.ctx))
  /\ hand = Nothing /\ ignored = {}
  /\ heard = 0 /\ transcripts = 0 /\ requests = {} /\ tools = {}
  /\ silencing = 0 /\ voice = NoTurn /\ completion = Off
  /\ idle = Off /\ idleCount = 0 /\ ending = FALSE
  /\ events = 0 /\ failed = FALSE
  /\ owed = {} /\ late = <<>>

Event == events < MaxEvents /\ events' = events + 1

\* The packet a route's dispatcher hands to its handler next, if there is one:
\* its policy was passed, and the egress dispatcher is in no handler.
Dispatched(route) ==
  {p \in IF queues[route] = <<>> THEN {} ELSE {Head(queues[route])} :
     p.name \notin ignored /\ (route = "egress" => hand = Nothing)}
Rest(route) == [queues EXCEPT ![route] = Tail(@)]

\* A packet whose policy is to be ignored never reaches its handler.
Ignore(route) ==
  /\ queues[route] # <<>> /\ Head(queues[route]).name \in ignored
  /\ queues' = Rest(route)
  /\ UNCHANGED <<turn, hand, ignored, userVars, modelVars, voiceVars, idleVars, events, ghosts>>

-----------------------------------------------------------------------------
(* Control dispatcher *)

\* A word stops the idle timeout even when the turn is interrupted already. The
\* interruptions of the provider and of the model take effect in Silencing and
\* Cancel.
Interruption(q, ctx) ==
  LET next == Transition(turn, "Interrupted") IN
  /\ turn' = next
  /\ queues' = OnPacket(q, Plain("StopIdleTimeout", ctx))
  /\ silencing' = IF next = turn THEN silencing ELSE silencing + 1

HandleInterruptionDetected ==
  \E p \in Dispatched("control") :
    /\ p.name = "InterruptionDetected"
    /\ \/ p.arg = "word" /\ Interruption(Rest("control"), p.ctx)
       \/ p.arg = "vad" /\ turn' = Transition(turn, "Interrupt") /\ queues' = Rest("control")
          /\ UNCHANGED silencing
    /\ UNCHANGED <<hand, ignored, userVars, modelVars, voice, completion, idleVars, events, ghosts>>

\* What is left of a queue, in its order, without the packets of some names: the
\* n-th packet that is left has n - 1 of them before it.
Without(queue, names) ==
  LET left == {i \in DOMAIN queue : queue[i].name \notin names}
      nth(n) == CHOOSE i \in left : Cardinality({j \in left : j < i}) = n - 1
  IN [n \in 1..Cardinality(left) |-> queue[nth(n)]]

\* To ignore a packet also takes those of its name out of their queue.
HandleDispatchPolicy ==
  \E p \in Dispatched("control") :
    /\ \/ /\ p.name = "PolicyIgnore"
          /\ ignored' = Targets
          /\ queues' = [Rest("control") EXCEPT !["control"] = Without(@, Targets),
                                               !["ingress"] = Without(@, Targets)]
       \/ /\ p.name = "PolicyPassthrough"
          /\ ignored' = {}
          /\ queues' = Rest("control")
    /\ UNCHANGED <<turn, hand, userVars, modelVars, voiceVars, idleVars, events, ghosts>>

-----------------------------------------------------------------------------
(* Ingress dispatcher *)

HandleUserText ==
  \E p \in Dispatched("ingress") :
    LET next == Transition(turn, "Interrupted") IN
    /\ p.name = "UserText"
    /\ Interruption(OnPacket(Rest("ingress"), Plain("UserInput", next.ctx)), turn.ctx)
    /\ UNCHANGED <<hand, ignored, userVars, modelVars, voice, completion, idleVars, events, ghosts>>

HandleUserAudio ==
  \E p \in Dispatched("ingress") :
    /\ p.name = "UserAudio"
    /\ heard' = heard + 1 /\ queues' = Rest("ingress")
    /\ UNCHANGED <<turn, hand, ignored, transcripts, modelVars, voiceVars, idleVars, events, ghosts>>

HandleSpeechToText ==
  \E p \in Dispatched("ingress") :
    /\ p.name = "SpeechToText"
    /\ transcripts' = transcripts + 1 /\ queues' = Rest("ingress")
    /\ UNCHANGED <<turn, hand, ignored, heard, modelVars, voiceVars, idleVars, events, ghosts>>

FreshId == CHOOSE id \in 0..Cardinality(requests) : \A r \in requests : r.id # id

\* The input is answered in the context that is current when it is handled.
HandleUserInput ==
  \E p \in Dispatched("ingress") :
    LET next == Transition(turn, "LLMGenerating") IN
    /\ p.name = "UserInput"
    /\ turn' = next
    /\ queues' = OnPacket(Rest("ingress"), Packet("StopIdleTimeout", turn.ctx, "reset"))
    /\ requests' = requests \cup {[id |-> FreshId, ctx |-> next.ctx, stage |-> "begun"]}
    /\ owed' = owed \cup {next.ctx}
    /\ UNCHANGED <<hand, ignored, userVars, tools, voiceVars, idleVars, events, late, failed>>

\* The result of a tool silences the turn, whatever it says by now, starts the
\* idle timeout and goes back to the model; the result of an action that ends
\* the conversation tells the client to leave instead, and the model nothing.
HandleLLMToolResult ==
  \E p \in Dispatched("ingress") :
    /\ p.name = "LLMToolResult"
    /\ \/ /\ p.arg = "end"
          /\ ending' = TRUE /\ owed' = owed \ {p.ctx}
          /\ queues' = Rest("ingress") /\ UNCHANGED <<silencing, requests>>
       \/ /\ p.arg # "end"
          /\ queues' = OnPacket(Rest("ingress"), Plain("StartIdleTimeout", p.ctx))
          /\ silencing' = silencing + 1
          /\ requests' = {IF r.ctx = p.ctx /\ r.stage = "tool" THEN [r EXCEPT !.stage = "begun"] ELSE r
                            : r \in requests}
          /\ UNCHANGED <<ending, owed>>
    /\ UNCHANGED <<turn, hand, ignored, userVars, tools, voice, completion, idle, idleCount, events,
                   late, failed>>

-----------------------------------------------------------------------------
(* Egress dispatcher *)

IsCurrentMut(p) == TRUE
IsCurrent(p) == p.ctx = turn.ctx

\* Output is checked against the current context and held until it is
\* delivered. The end of a speech stops the completion watchdog before.
Check ==
  \E p \in Dispatched("egress") :
    /\ p.name \in Checked
    /\ hand' = IF IsCurrent(p) THEN p ELSE Nothing
    /\ completion' = IF p.name = "TTSEnd" THEN Complete(completion, p.ctx) ELSE completion
    /\ queues' = Rest("egress")
    /\ UNCHANGED <<turn, ignored, userVars, modelVars, silencing, voice, idleVars, events, ghosts>>

\* Delivered to the client: late when its turn has ended meanwhile.
Notify == late' = IF hand.ctx < turn.ctx THEN Append(late, hand.ctx) ELSE late
Held(names) == hand.name \in names /\ hand' = Nothing

\* The answer of the model goes through the output normalizer to the provider.
HandleLLMResponseDelta ==
  /\ Held({"LLMDelta"})
  /\ turn' = Transition(turn, "LLMGenerating")
  /\ queues' = OnPacket(queues, Plain("TTSText", hand.ctx))
  /\ UNCHANGED <<ignored, userVars, modelVars, voiceVars, idleVars, events, ghosts>>

\* The idle timeout starts before the end of the answer is spoken.
ConcludedMut(q, ctx) == OnPacket(q, Plain("TTSDone", ctx))
Concluded(q, ctx) == OnPackets(q, Plain("StartIdleTimeout", ctx), Plain("TTSDone", ctx))

HandleLLMResponseDone ==
  /\ Held({"LLMDone"})
  /\ turn' = Transition(turn, "LLMGenerated")
  /\ queues' = Concluded(queues, hand.ctx)
  /\ UNCHANGED <<ignored, userVars, modelVars, voiceVars, idleVars, events, ghosts>>

\* The provider may never report the end of what it is given.
AwaitedMut(ctx) == UNCHANGED completion
Awaited(ctx) == completion' = Arm(ctx)

HandleTextToSpeechText ==
  /\ Held({"TTSText"}) /\ Notify
  /\ Awaited(hand.ctx)
  /\ \/ UNCHANGED <<queues, events>>
     \/ /\ Event
        /\ queues' = OnPacket(queues, Plain("TTSError", hand.ctx))
  /\ UNCHANGED <<turn, ignored, userVars, modelVars, silencing, voice, idleVars, owed, failed>>

HandleTextToSpeechDone ==
  /\ Held({"TTSDone"}) /\ Notify
  /\ Awaited(hand.ctx)
  /\ voice' = hand.ctx
  /\ owed' = owed \ {hand.ctx}
  /\ UNCHANGED <<turn, queues, ignored, userVars, modelVars, silencing, idleVars, events, failed>>

\* What the greeting blocked passes again when the user has heard it.
HandleTextToSpeechEnd ==
  /\ Held({"TTSEnd"}) /\ Notify
  /\ queues' = OnPacket(queues, Plain("PolicyPassthrough", hand.ctx))
  /\ UNCHANGED <<turn, ignored, userVars, modelVars, voiceVars, idleVars, events, owed, failed>>

\* An error is the current turn's, whatever context it is for.
HandleError ==
  \E p \in Dispatched("egress") :
    /\ \/ /\ p.name = "LLMError"
          /\ turn' = Transition(turn, "LLMGenerated")
          /\ queues' = Rest("egress") /\ owed' = owed \ {p.ctx} /\ failed' = TRUE
       \/ /\ p.name = "TTSError"
          /\ queues' = OnPacket(Rest("egress"), Plain("PolicyPassthrough", p.ctx))
          /\ UNCHANGED <<turn, owed, failed>>
    /\ UNCHANGED <<hand, ignored, userVars, modelVars, voiceVars, idleVars, events, late>>

\* A message is said in the turn that is current when it is handled.
HandleInjectMessage ==
  \E p \in Dispatched("egress") :
    /\ p.name = "InjectMessage"
    /\ turn' = Transition(turn, "LLMGenerated")
    /\ queues' = OnPackets(Rest("egress"), Plain("TTSText", turn.ctx), Plain("TTSDone", turn.ctx))
    /\ UNCHANGED <<hand, ignored, userVars, modelVars, voiceVars, idleVars, events, ghosts>>

\* A message of the call silences the turn and is said in its place; an action
\* of the client, a transfer for instance, stops the idle timeout.
HandleLLMToolCall ==
  \E p \in Dispatched("egress") :
    /\ p.name = "LLMToolCall"
    /\ queues' = IF p.arg = "message" THEN OnPacket(Rest("egress"), Plain("InjectMessage", p.ctx))
                 ELSE IF p.arg = "action"
                 THEN OnPacket(Rest("egress"), Packet("StopIdleTimeout", turn.ctx, "reset"))
                 ELSE Rest("egress")
    /\ silencing' = IF p.arg = "message" THEN silencing + 1 ELSE silencing
    /\ tools' = tools \cup {p}
    /\ UNCHANGED <<turn, hand, ignored, userVars, requests, voice, completion, idleVars, events, ghosts>>

HandleStartIdleTimeout ==
  \E p \in Dispatched("egress") :
    /\ p.name = "StartIdleTimeout"
    /\ idle' = Arm(p.ctx) /\ queues' = Rest("egress")
    /\ UNCHANGED <<turn, hand, ignored, userVars, modelVars, voiceVars, idleCount, ending, events, ghosts>>

HandleStopIdleTimeout ==
  \E p \in Dispatched("egress") :
    /\ p.name = "StopIdleTimeout"
    /\ idle' = Off /\ idleCount' = IF p.arg = "reset" THEN 0 ELSE idleCount
    /\ queues' = Rest("egress")
    /\ UNCHANGED <<turn, hand, ignored, userVars, modelVars, voiceVars, ending, events, ghosts>>

BackedOffMut == idleCount > Backoff
BackedOff == idleCount >= Backoff

\* A silent user is asked, in a turn of the session's own, and in the end left.
HandleIdleTimeoutExpired ==
  \E p \in Dispatched("egress") :
    /\ p.name = "IdleTimeoutExpired"
    /\ \/ /\ BackedOff
          /\ ending' = TRUE /\ queues' = Rest("egress") /\ UNCHANGED <<turn, idleCount, silencing>>
       \/ /\ ~BackedOff
          /\ idleCount' = idleCount + 1 /\ UNCHANGED ending
          /\ LET next == Transition(turn, "Interrupted") IN
             /\ turn' = next
             /\ queues' = OnPackets(Rest("egress"), Plain("InjectMessage", next.ctx), Plain("StartIdleTimeout", next.ctx))
          /\ silencing' = silencing + 1
    /\ UNCHANGED <<hand, ignored, userVars, modelVars, voice, completion, idle, events, ghosts>>

-----------------------------------------------------------------------------
(* Goroutines and timers of the session *)

Silencing ==
  /\ silencing > 0 /\ silencing' = silencing - 1
  /\ voice' = NoTurn
  /\ UNCHANGED <<turn, queues, hand, ignored, userVars, modelVars, completion, idleVars, events, ghosts>>

IdleExpires ==
  /\ idle.armed /\ voice # idle.ctx /\ idle' = Off
  /\ IF idleCount < Backoff THEN Event ELSE UNCHANGED events
  /\ queues' = OnPacket(queues, Plain("IdleTimeoutExpired", idle.ctx))
  /\ UNCHANGED <<turn, hand, ignored, userVars, modelVars, voiceVars, idleCount, ending, ghosts>>

CompletionExpires ==
  /\ completion.armed /\ completion' = Off
  /\ IF voice = completion.ctx THEN Event ELSE UNCHANGED events
  /\ queues' = OnPacket(queues, Plain("TTSEnd", completion.ctx))
  /\ UNCHANGED <<turn, hand, ignored, userVars, modelVars, silencing, voice, idleVars, ghosts>>

-----------------------------------------------------------------------------
(* The user, the recognizer and the detector of utterances *)

Types ==
  /\ Event
  /\ queues' = OnPacket(queues, Plain("UserText", 0))
  /\ UNCHANGED <<turn, hand, ignored, userVars, modelVars, voiceVars, idleVars, ghosts>>

Talks ==
  /\ Event
  /\ queues' = OnPacket(queues, Plain("UserAudio", 0))
  /\ UNCHANGED <<turn, hand, ignored, userVars, modelVars, voiceVars, idleVars, ghosts>>

VoiceActivity ==
  /\ Event
  /\ queues' = OnPacket(queues, Packet("InterruptionDetected", turn.ctx, "vad"))
  /\ UNCHANGED <<turn, hand, ignored, userVars, modelVars, voiceVars, idleVars, ghosts>>

\* The recognizer interrupts the turn it knows before it hands out a transcript;
\* turns are announced to it from goroutines, in any order, so it may know any.
Recognize == \E stt \in 1..turn.ctx :
  /\ heard > 0 /\ heard' = heard - 1
  /\ queues' = OnPackets(queues, Packet("InterruptionDetected", stt, "word"),
                               Plain("SpeechToText", stt))
  /\ UNCHANGED <<turn, hand, ignored, transcripts, modelVars, voiceVars, idleVars, events, ghosts>>

UtteranceEnds ==
  /\ transcripts > 0 /\ transcripts' = 0
  /\ PromptControl => \A i \in DOMAIN queues.control : queues.control[i].name # "InterruptionDetected"
  /\ queues' = OnPacket(queues, Plain("UserInput", turn.ctx))
  /\ UNCHANGED <<turn, hand, ignored, heard, modelVars, voiceVars, idleVars, events, ghosts>>

-----------------------------------------------------------------------------
(* The model answers a request by a text and its end, by a tool call or by   *)
(* an error.                                                                *)

Advance(r, stage) == requests' = (requests \ {r}) \cup {[r EXCEPT !.stage = stage]}

Answer == \E r \in requests :
  /\ r.stage = "begun" /\ requests' = requests \ {r}
  /\ queues' = OnPackets(queues, Plain("LLMDelta", r.ctx), Plain("LLMDone", r.ctx))
  /\ UNCHANGED <<turn, hand, ignored, userVars, tools, voiceVars, idleVars, events, ghosts>>

\* The interruption of a turn ends what the model still does for it.
EndedMut(r) == r.ctx <= turn.ctx
Ended(r) == r.ctx < turn.ctx

Cancel == \E r \in requests :
  /\ Ended(r) /\ requests' = requests \ {r}
  /\ UNCHANGED <<turn, queues, hand, ignored, userVars, tools, voiceVars, idleVars, events, ghosts>>

Fail == \E r \in requests :
  /\ r.stage = "begun" /\ Event
  /\ requests' = requests \ {r}
  /\ queues' = OnPacket(queues, Plain("LLMError", r.ctx))
  /\ UNCHANGED <<turn, hand, ignored, userVars, tools, voiceVars, idleVars, ghosts>>

CallTool == \E r \in requests, arg \in {"", "message", "action"} :
  /\ r.stage = "begun" /\ Event
  /\ Advance(r, "tool")
  /\ queues' = OnPacket(queues, Packet("LLMToolCall", r.ctx, arg))
  /\ UNCHANGED <<turn, hand, ignored, userVars, tools, voiceVars, idleVars, ghosts>>

\* The client may answer an action, or fail to transfer, so that the call ends.
ToolReturns == \E call \in tools :
  /\ tools' = tools \ {call}
  /\ \E arg \in IF call.arg = "action" THEN {"", "end"} ELSE {""} :
       queues' = OnPacket(queues, Packet("LLMToolResult", call.ctx, arg))
  /\ UNCHANGED <<turn, hand, ignored, userVars, requests, voiceVars, idleVars, events, ghosts>>

-----------------------------------------------------------------------------
(* The speech provider *)

\* It plays what it was given and reports the end; when its connection is lost
\* it does neither.
Plays ==
  /\ voice # NoTurn /\ voice' = NoTurn
  /\ queues' = OnPacket(queues, Plain("TTSEnd", voice))
  /\ UNCHANGED <<turn, hand, ignored, userVars, modelVars, silencing, completion, idleVars, events, ghosts>>

ConnectionLost ==
  /\ voice # NoTurn /\ voice' = NoTurn
  /\ Event
  /\ UNCHANGED <<turn, queues, hand, ignored, userVars, modelVars, silencing, completion, idleVars, ghosts>>
-----------------------------------------------------------------------------
Control ==
  \/ Ignore("control") \/ HandleInterruptionDetected  \/ HandleDispatchPolicy

Ingress ==
  \/ Ignore("ingress") \/ HandleUserText \/ HandleUserAudio \/ HandleSpeechToText
  \/ HandleUserInput \/ HandleLLMToolResult

Egress ==
  \/ Check \/ HandleLLMResponseDelta \/ HandleLLMResponseDone \/ HandleTextToSpeechText
  \/ HandleTextToSpeechDone \/ HandleTextToSpeechEnd \/ HandleError
  \/ HandleInjectMessage \/ HandleLLMToolCall \/ HandleStartIdleTimeout \/ HandleStopIdleTimeout
  \/ HandleIdleTimeoutExpired

Model == Cancel \/ Answer \/ Fail \/ CallTool
User == Types \/ Talks \/ VoiceActivity \/ ConnectionLost

Next ==
  \/ Control \/ Ingress \/ Egress \/ Silencing \/ IdleExpires \/ CompletionExpires
  \/ Recognize \/ UtteranceEnds \/ Model \/ ToolReturns \/ Plays \/ User

Spec == Init /\ [][Next]_vars

\* Each dispatcher takes what is queued, goroutines run, timers fire, and the
\* recognizer, the model and the provider answer.
Fairness ==
  /\ WF_vars(Control) /\ WF_vars(Ingress) /\ WF_vars(Egress)
  /\ WF_vars(Silencing) /\ WF_vars(IdleExpires) /\ WF_vars(CompletionExpires)
  /\ WF_vars(Recognize) /\ WF_vars(UtteranceEnds) /\ WF_vars(Model) /\ WF_vars(ToolReturns) /\ WF_vars(Plays)

FairSpec == Spec /\ Fairness

-----------------------------------------------------------------------------
(* Properties *)

\* Nothing is left to be done but for the timers and the user.
Quiet ==
  /\ queues = NoPackets /\ hand = Nothing
  /\ heard = 0 /\ transcripts = 0 /\ requests = {} /\ tools = {}
  /\ silencing = 0 /\ voice = NoTurn

\* Every variable keeps its type.
TypeOK ==
  /\ turn \in [state : MessageStates, ctx : Nat]
  /\ ignored \subseteq Targets
  /\ idleCount \in 0..Backoff /\ ending \in BOOLEAN
  /\ hand.ctx \in 0..turn.ctx
  /\ idle \in [armed : BOOLEAN, ctx : 0..turn.ctx]
  /\ completion \in [armed : BOOLEAN, ctx : 0..turn.ctx]

\* An interruption leaves at most one output of the turn it ends to be
\* delivered, the one the egress dispatcher had checked: the contexts of late
\* output never repeat and never go back.
AtMostOneLate == \A i, j \in DOMAIN late : i < j => late[i] < late[j]

\* A session at rest is under the idle watchdog, or the client was told to
\* leave, unless an error took the place of an answer.
RestIsWatched == Quiet => idle.armed \/ ending \/ failed

\* A user's input is answered, or an error is told, or a tool ends the
\* conversation, unless its turn is ended.
TurnAnswered == (turn.ctx \in owed) ~> (turn.ctx \notin owed)

\* What a greeting that may not be interrupted blocks, while it is being said,
\* passes again: the provider may fail, the watchdog still ends the speech.
BlockLifted == (ignored = Targets /\ turn.ctx = NewMessage.ctx) ~> (ignored = {})

\* The idle timeout, which is stopped when the user engages, never ends a turn
\* whose input is still to be answered.
IdleSparesAnswer == [][idleCount' > idleCount => turn.ctx \notin owed]_vars
=============================================================================
