------------------------------ MODULE Session -------------------------------
(***************************************************************************)
(* One voice session of the assistant API, as genericRequestor runs it:    *)
(* the Talk loop that reads the streamer, the bootstrap dispatcher that    *)
(* runs the initialization and mode-switch chains, the goroutines that     *)
(* dispatch starts for AsyncPackets, the egress dispatcher that turns a    *)
(* failed switch into a lifecycle transition, the data dispatcher that     *)
(* runs the finalizer chain, the ingress consumer, and the two deadlines   *)
(* of OnConnect and OnDisconnect.                                          *)
(*                                                                         *)
(* An executor (STT, TTS, VAD, ...) is a numbered instance: the field of   *)
(* genericRequestor that points to it, and whether Close was called on it, *)
(* are separate pieces of state, because what goes wrong is an instance    *)
(* that is open while nothing points to it.                                *)
(***************************************************************************)
EXTENDS Naturals, Sequences, SessionLifecycle

CONSTANTS
  Comps,        \* the executors this session has
  MaxRequests,  \* bound: mode-switch requests the client sends
  BootstrapCap, \* capacity of the bootstrap channel
  Expire        \* whether the connect and disconnect deadlines can expire

Executors == {"stt", "tts", "vad", "eos", "denoise", "llm", "auth", "recorder"}

ASSUME SessionAssumption ==
  /\ Comps \subseteq Executors
  /\ MaxRequests \in Nat
  /\ BootstrapCap \in Nat \ {0}
  /\ Expire \in BOOLEAN

VARIABLES
  life,            \* sessionLifecycle.state
  mode,            \* messageLifecycle.mode
  config,          \* StreamMode of the ConversationInitialization, "none" before
  established,     \* initialization stages that have succeeded
  exec,            \* per executor: the instance pointed to (0 is nil), made, open
  tasks,           \* goroutines in flight, counted by what they still have to do
  bootstrapCh,     \* the bootstrap channel
  sending,         \* packets the running bootstrap handler has yet to enqueue
  pause,           \* ingressPauseCh: open, closed and waited on, or left behind
  egressCh,        \* mode-switch errors queued for the egress dispatcher
  talk,            \* where the Talk loop is
  requests,        \* mode-switch requests sent so far
  connectTimer, disconnectTimer,
  ingress,         \* the ingress consumer goroutine
  fin,             \* position in the finalizer chain, 0 before it starts
  finNil,          \* the running finalizer has closed but not yet cleared
  told,            \* the client was sent a ConversationDisconnection
  cancelled,       \* sessionCtx is cancelled
  orderly          \* history: nothing was in progress when the pause began

vars == <<life, mode, config, established, exec, tasks, bootstrapCh, sending,
          pause, egressCh, talk, requests, connectTimer, disconnectTimer,
          ingress, fin, finNil, told, cancelled, orderly>>

clientVars  == <<talk, requests, config>>
timerVars   == <<connectTimer, disconnectTimer>>
finalVars   == <<fin, finNil, cancelled>>
ingressVars == <<ingress, pause>>

-----------------------------------------------------------------------------
(* Packets and chains *)

StreamModes == {"text", "audio", "other"}   \* "other": unspecified, both
Stages == {"assistant", "conversation", "runtime", "authentication", "execute"}

Packet(k, a) == [kind |-> k, arg |-> a]

PacketKinds == {"stage", "authSucceeded", "authFailed", "init", "initFailed",
                "initCompleted", "inbound", "switch", "swInit", "swClose",
                "swCompleted", "finalizeInbound"}
Packets == [kind : PacketKinds, arg : Stages \cup Executors \cup StreamModes \cup {"none"}]

\* A chain has a packet for every executor; here, for those the session has.
If(c, k) == IF c \in Comps THEN <<Packet(k, c)>> ELSE <<>>

InitFailed == <<Packet("initFailed", "none")>>

\* The packets a stage enqueues when it succeeds.
NextStage == [assistant |-> "conversation", conversation |-> "runtime",
              runtime |-> "authentication", authentication |-> "execute"]
AfterStageMut(s) == \* mutant: authentication is not awaited
  IF s = "runtime" THEN <<Packet("authSucceeded", "none")>>
  ELSE <<Packet("stage", NextStage[s])>>
AfterStage(s) ==
  IF s = "execute" THEN <<Packet("authSucceeded", "none")>>
  ELSE IF s = "runtime" THEN If("recorder", "init") \o <<Packet("stage", NextStage[s])>>
  ELSE <<Packet("stage", NextStage[s])>>

\* The initialization chain enqueued once authentication has passed.
BootChain(m) ==
  IF m = "text"
    THEN If("llm", "init") \o <<Packet("initCompleted", "none")>>
  ELSE IF m = "audio"
    THEN If("stt", "init") \o If("tts", "init") \o If("llm", "init")
           \o If("vad", "init") \o If("eos", "init") \o If("denoise", "init")
           \o <<Packet("initCompleted", "none")>>
  ELSE <<>>

SwitchChainMut1(m) == \* mutant: the chain to audio leaves VAD out
  IF m = "audio"
    THEN If("stt", "swInit") \o If("eos", "swInit") \o If("denoise", "swInit")
           \o If("tts", "swInit") \o <<Packet("swCompleted", "audio")>>
    ELSE <<Packet("swCompleted", "text")>>
SwitchChainMut2(m) == \* mutant: nothing completes the switch
  If("stt", "swInit") \o If("eos", "swInit")
SwitchChain(m) ==
  IF m = "audio"
    THEN If("stt", "swInit") \o If("vad", "swInit") \o If("eos", "swInit")
           \o If("denoise", "swInit") \o If("tts", "swInit")
           \o <<Packet("swCompleted", "audio")>>
    ELSE If("stt", "swClose") \o If("tts", "swClose") \o If("vad", "swClose")
           \o If("eos", "swClose") \o If("denoise", "swClose")
           \o <<Packet("swCompleted", "text")>>

\* The data dispatcher's finalizers, in the order each enqueues the next.
Final(c) == IF c \in Comps THEN <<c>> ELSE <<>>
FinalizeOrderMut == Final("tts") \o Final("stt") \o Final("llm") \* mutant: no VAD, no EOS
FinalizeOrder == Final("eos") \o Final("vad") \o Final("tts") \o Final("stt")
                   \o Final("auth") \o Final("recorder") \o Final("llm")

\* Packets whose handlers run in goroutines of their own (AsyncPacket).
AsyncInit   == {"vad", "eos", "denoise"}
AsyncSwitch == {"vad", "denoise"}

TaskKinds == {"init", "swInit", "swClose", "clear"}

-----------------------------------------------------------------------------
Init ==
  /\ life = "New" /\ mode = "text" /\ config = "none" /\ established = {}
  /\ exec = [c \in Comps |-> [ptr |-> 0, made |-> 0, open |-> {}]]
  /\ tasks = [t \in TaskKinds \X Comps |-> 0]
  /\ bootstrapCh = <<>> /\ sending = <<>> /\ pause = "open"
  /\ egressCh = <<>>
  /\ talk = "receiving" /\ requests = 0
  /\ connectTimer = "off" /\ disconnectTimer = "off"
  /\ ingress = "none"
  /\ fin = 0 /\ finNil = FALSE
  /\ told = FALSE /\ cancelled = FALSE /\ orderly = FALSE

\* A new instance replaces whatever the field pointed to, without closing it.
Install(c) ==
  exec' = [exec EXCEPT ![c] = [ptr  |-> @.made + 1, made |-> @.made + 1,
                               open |-> @.open \cup {@.made + 1}]]

CloseCurrent(c) == exec' = [exec EXCEPT ![c].open = @ \ {exec[c].ptr}]
Clear(c) == exec' = [exec EXCEPT ![c].ptr = 0]

Spawn(k, c)  == tasks' = [tasks EXCEPT ![<<k, c>>] = @ + 1]
Finish(k, c) == tasks' = [tasks EXCEPT ![<<k, c>>] = @ - 1]

\* A producer blocks while the bootstrap channel is full.
Enqueue(p) == /\ Len(bootstrapCh) < BootstrapCap
              /\ bootstrapCh' = Append(bootstrapCh, p)

-----------------------------------------------------------------------------
(* The Talk loop: what the client does *)

\* OnConnect: arm the deadline, enqueue the first stage.  A second
\* ConversationInitialization fails the transition and is ignored.
Connect(m) ==
  /\ talk = "receiving" /\ CanBe(life, "ConnectRequested")
  /\ life' = Transition(life, "ConnectRequested")
  /\ config' = m
  /\ connectTimer' = "armed"
  /\ Enqueue(Packet("stage", "assistant"))
  /\ UNCHANGED <<mode, established, exec, tasks, sending, ingressVars, egressCh,
                 talk, requests, disconnectTimer, finalVars, told, orderly>>

RequestSwitch(m) ==
  /\ talk = "receiving" /\ requests < MaxRequests
  /\ requests' = requests + 1
  /\ Enqueue(Packet("switch", m))
  /\ UNCHANGED <<life, mode, config, established, exec, tasks, sending, ingressVars,
                 egressCh, talk, timerVars, finalVars, told, orderly>>

\* Recv fails or the client disconnects: OnDisconnect takes the transition,
\* arms its deadline, and then enqueues the pause; other producers get in between.
Disconnect ==
  /\ talk = "receiving"
  /\ CanBe(life, "DisconnectRequested")
  /\ life' = Transition(life, "DisconnectRequested")
  /\ disconnectTimer' = "armed"
  /\ talk' = "leaving"
  /\ UNCHANGED <<mode, config, established, exec, tasks, bootstrapCh, sending,
                 ingressVars, egressCh, requests, connectTimer, finalVars, told, orderly>>

Leave ==
  /\ talk = "leaving"
  /\ Enqueue(Packet("finalizeInbound", "none"))
  /\ talk' = "done"
  /\ UNCHANGED <<life, mode, config, established, exec, tasks, sending, ingressVars,
                 egressCh, requests, timerVars, finalVars, told, orderly>>

-----------------------------------------------------------------------------
(* The bootstrap dispatcher: takes a packet, runs its handler, and enqueues *)
(* the handler's packets one at a time before it takes the next.            *)

Take(k) ==
  /\ pause # "pausing" /\ sending = <<>>
  /\ bootstrapCh # <<>> /\ Head(bootstrapCh).kind = k
  /\ bootstrapCh' = Tail(bootstrapCh)

BootstrapSend ==
  /\ sending # <<>>
  /\ Enqueue(Head(sending))
  /\ sending' = Tail(sending)
  /\ UNCHANGED <<life, mode, established, exec, tasks, ingressVars, egressCh,
                 clientVars, timerVars, finalVars, told, orderly>>

\* A stage of the serial part: on success it enqueues the next stage, on
\* failure InitializationFailed, and the chain stops there.
HandleStage(s) ==
  /\ Take("stage") /\ Head(bootstrapCh).arg = s
  /\ s # "execute" \* HandleExecuteAuthentication is below
  /\ \/ /\ established' = established \cup {s}
        /\ sending' = AfterStage(s)
        /\ IF s = "authentication" /\ "auth" \in Comps
             THEN Install("auth") \/ UNCHANGED exec   \* configured or not
             ELSE UNCHANGED exec
     \/ sending' = InitFailed /\ UNCHANGED <<established, exec>>
  /\ UNCHANGED <<life, mode, tasks, ingressVars, egressCh, clientVars, timerVars,
                 finalVars, told, orderly>>

\* Without an authentication executor, or when its condition or arguments do
\* not apply, the session passes; only a failing execution is refused.
HandleExecuteAuthentication ==
  /\ Take("stage") /\ Head(bootstrapCh).arg = "execute"
  /\ \/ established' = established \cup {"execute"} /\ sending' = AfterStage("execute")
     \/ /\ "auth" \in Comps /\ exec["auth"].ptr # 0
        /\ sending' = <<Packet("authFailed", "none")>>
        /\ UNCHANGED established
  /\ UNCHANGED <<life, mode, exec, tasks, ingressVars, egressCh, clientVars, timerVars,
                 finalVars, told, orderly>>

HandleSessionAuthenticationSucceeded ==
  /\ Take("authSucceeded")
  /\ mode' = IF config \in {"text", "audio"} THEN config ELSE mode
  /\ sending' = BootChain(config)
  /\ UNCHANGED <<life, established, exec, tasks, ingressVars, egressCh, clientVars,
                 timerVars, finalVars, told, orderly>>

\* HandleError for SessionAuthenticationFailed (which has no lifecycle event)
\* and for InitializationFailed: the client is told, the chain is not undone.
HandleInitializationError ==
  /\ \/ Take("authFailed") /\ UNCHANGED life
     \/ Take("initFailed") /\ life' = Transition(life, "InitializationFailed")
  /\ told' = TRUE
  /\ UNCHANGED <<mode, established, exec, tasks, sending, ingressVars, egressCh,
                 clientVars, timerVars, finalVars, orderly>>

\* HandleInitialize<Executor>, run on the dispatcher itself.
HandleInit(c) ==
  /\ Take("init") /\ Head(bootstrapCh).arg = c /\ c \notin AsyncInit
  /\ \/ /\ Install(c)
        /\ mode' = IF c = "tts" THEN "audio" ELSE mode
        /\ UNCHANGED sending
     \/ sending' = InitFailed /\ UNCHANGED <<exec, mode>>
  /\ UNCHANGED <<life, established, tasks, ingressVars, egressCh, clientVars, timerVars,
                 finalVars, told, orderly>>

\* The transition is attempted and its error dropped: the ingress consumer is
\* started whatever the state.
HandleInitializationCompleted ==
  /\ Take("initCompleted")
  /\ life' = Transition(life, "InitializationCompleted")
  /\ sending' = <<Packet("inbound", "none")>>
  /\ UNCHANGED <<mode, established, exec, tasks, ingressVars, egressCh, clientVars,
                 timerVars, finalVars, told, orderly>>

HandleInitializeInboundDispatcher ==
  /\ Take("inbound")
  /\ ingress' = "spawned"
  /\ UNCHANGED <<life, mode, established, exec, tasks, sending, pause, egressCh,
                 clientVars, timerVars, finalVars, told, orderly>>

\* dispatch() starts a goroutine for an AsyncPacket.
DispatchAsync(c) ==
  /\ \/ c \in AsyncInit /\ Take("init") /\ Spawn("init", c)
     \/ c \in AsyncSwitch /\ Take("swInit") /\ Spawn("swInit", c)
     \/ Take("swClose") /\ Spawn("swClose", c)
  /\ Head(bootstrapCh).arg = c
  /\ UNCHANGED <<life, mode, established, exec, sending, ingressVars, egressCh,
                 clientVars, timerVars, finalVars, told, orderly>>

SwitchError(severity) == egressCh' = Append(egressCh, severity)

\* Already in the mode asked for: only a Notify.
HandleModeSwitchRequested(m) ==
  /\ Take("switch") /\ Head(bootstrapCh).arg = m
  /\ \/ /\ m = mode
        /\ UNCHANGED <<life, sending, egressCh>>
     \/ /\ m \in {"text", "audio"} \ {mode} /\ CanBe(life, "SwitchRequested")
        /\ life' = Transition(life, "SwitchRequested")
        /\ sending' = SwitchChain(m)
        /\ UNCHANGED egressCh
     \/ /\ m = "other" \/ (m # mode /\ ~CanBe(life, "SwitchRequested"))
        /\ SwitchError("recoverable")
        /\ UNCHANGED <<life, sending>>
  /\ UNCHANGED <<mode, established, exec, tasks, ingressVars, clientVars, timerVars,
                 finalVars, told, orderly>>

\* HandleModeSwitchInitialize<Executor> on the dispatcher.  A missing EOS
\* configuration is reported as a failed initialization.
HandleSwitchInit(c) ==
  /\ Take("swInit") /\ Head(bootstrapCh).arg = c /\ c \notin AsyncSwitch
  /\ \/ Install(c) /\ UNCHANGED <<egressCh, sending>>
     \/ SwitchError("fatal") /\ UNCHANGED <<exec, sending>>
     \/ c = "eos" /\ sending' = InitFailed /\ UNCHANGED <<exec, egressCh>>
  /\ UNCHANGED <<life, mode, established, tasks, ingressVars, clientVars, timerVars,
                 finalVars, told, orderly>>

\* The mode is set before the transition that may refuse it.
HandleModeSwitchCompleted ==
  /\ Take("swCompleted")
  /\ mode' = Head(bootstrapCh).arg
  /\ IF CanBe(life, "SwitchCompleted")
       THEN UNCHANGED egressCh
       ELSE SwitchError("recoverable")
  /\ life' = Transition(life, "SwitchCompleted")
  /\ UNCHANGED <<established, exec, tasks, sending, ingressVars, clientVars, timerVars,
                 finalVars, told, orderly>>

Orphans(c) == exec[c].open \ {exec[c].ptr}
NoTasks == \A t \in TaskKinds \X Comps : tasks[t] = 0

\* PauseIngress closes ingressPauseCh, then waits for the ingress consumer.
HandleFinalizeInboundDispatcher ==
  /\ Take("finalizeInbound")
  /\ pause' = "pausing"
  /\ orderly' = (Tail(bootstrapCh) = <<>> /\ NoTasks /\ \A c \in Comps : Orphans(c) = {})
  /\ UNCHANGED <<life, mode, established, exec, tasks, sending, ingress, egressCh,
                 clientVars, timerVars, finalVars, told>>

\* A consumer that has not yet replaced ingressPausedCh is not waited for:
\* the channel PauseIngress reads is the one closed at construction.  When
\* the session is cancelled first, PauseIngress may return without onPaused.
IngressPaused ==
  /\ pause = "pausing"
  /\ pause' = "paused"
  /\ \/ ingress \notin {"running", "handling"} /\ fin' = 1
     \/ cancelled /\ UNCHANGED fin
  /\ UNCHANGED <<life, mode, established, exec, tasks, bootstrapCh, sending, ingress,
                 egressCh, clientVars, timerVars, finNil, cancelled, told, orderly>>

-----------------------------------------------------------------------------
(* Goroutines of AsyncPacket handlers, and the egress and data dispatchers *)

TaskDoneMut(k, c) == Finish(k, c) \* mutant: a goroutine that was not started ends
TaskDone(k, c) == tasks[<<k, c>>] > 0 /\ Finish(k, c)

AsyncInitialized(c) ==
  /\ \/ TaskDone("init", c) /\ Install(c) /\ UNCHANGED <<bootstrapCh, egressCh>>
     \/ /\ TaskDone("init", c) /\ Enqueue(Packet("initFailed", "none"))
        /\ UNCHANGED <<exec, egressCh>>
     \/ TaskDone("swInit", c) /\ Install(c) /\ UNCHANGED <<bootstrapCh, egressCh>>
     \/ TaskDone("swInit", c) /\ SwitchError("fatal") /\ UNCHANGED <<bootstrapCh, exec>>
  /\ UNCHANGED <<life, mode, established, sending, ingressVars, clientVars, timerVars,
                 finalVars, told, orderly>>

\* HandleModeSwitchFinalize<Executor>: Close the instance the field points to,
\* and only when Close has returned set the field to nil, whatever it is by then.
SwitchClose(c) ==
  /\ tasks[<<"swClose", c>>] > 0
  /\ IF exec[c].ptr = 0
       THEN Finish("swClose", c) /\ UNCHANGED exec
       ELSE /\ tasks' = [tasks EXCEPT ![<<"swClose", c>>] = @ - 1, ![<<"clear", c>>] = @ + 1]
            /\ CloseCurrent(c)
  /\ UNCHANGED <<life, mode, established, bootstrapCh, sending, ingressVars, egressCh,
                 clientVars, timerVars, finalVars, told, orderly>>

SwitchClear(c) ==
  /\ TaskDone("clear", c)
  /\ Clear(c)
  /\ UNCHANGED <<life, mode, established, bootstrapCh, sending, ingressVars, egressCh,
                 clientVars, timerVars, finalVars, told, orderly>>

\* HandleError for a ModeSwitchErrorPacket.
HandleModeSwitchError ==
  /\ egressCh # <<>>
  /\ egressCh' = Tail(egressCh)
  /\ \/ /\ Head(egressCh) = "recoverable"
        /\ life' = Transition(life, "SwitchFailedRecoverable")
        /\ UNCHANGED told
     \/ /\ Head(egressCh) = "fatal"
        /\ life' = Transition(life, "SwitchFailedFatal")
        /\ told' = TRUE
  /\ UNCHANGED <<mode, established, exec, tasks, bootstrapCh, sending, ingressVars,
                 clientVars, timerVars, finalVars, orderly>>

\* One finalizer handler: nothing to do, or Close and then clear the field.
\* The assistant executor's field is not cleared.
Finalize ==
  /\ fin \in 1..Len(FinalizeOrder)
  /\ LET c == FinalizeOrder[fin] IN
     \/ /\ ~finNil /\ exec[c].ptr = 0
        /\ fin' = fin + 1
        /\ UNCHANGED <<exec, finNil>>
     \/ /\ ~finNil /\ exec[c].ptr # 0 /\ CloseCurrent(c)
        /\ finNil' = (c # "llm")
        /\ fin' = IF c = "llm" THEN fin + 1 ELSE fin
     \/ /\ finNil /\ Clear(c)
        /\ finNil' = FALSE /\ fin' = fin + 1
  /\ UNCHANGED <<life, mode, established, tasks, bootstrapCh, sending, ingressVars,
                 egressCh, clientVars, timerVars, cancelled, told, orderly>>

HandleFinalizationCompleted ==
  /\ fin = Len(FinalizeOrder) + 1
  /\ fin' = fin + 1
  /\ life' = Transition(life, "DisconnectCompleted")
  /\ cancelled' = TRUE
  /\ UNCHANGED <<mode, established, exec, tasks, bootstrapCh, sending, ingressVars,
                 egressCh, clientVars, timerVars, finNil, told, orderly>>

-----------------------------------------------------------------------------
(* The ingress consumer (RunIngress) and the deadlines *)

IngressStep(from, to) ==
  /\ ingress = from /\ ingress' = to
  /\ UNCHANGED <<life, mode, established, exec, tasks, bootstrapCh, sending, pause,
                 egressCh, clientVars, timerVars, finalVars, told, orderly>>

IngressStart == IngressStep("spawned", "running")
IngressTake  == IngressStep("running", "handling")
IngressDone  == IngressStep("handling", "running")
IngressStopMut == cancelled /\ IngressStep("running", "stopped") \* mutant: deaf to the pause
IngressStop  == (pause # "open" \/ cancelled) /\ IngressStep("running", "stopped")

\* The deadline goroutine looks at the state first and acts afterwards.
ConnectDeadlineMut == \* mutant: the test is for the wrong state
  /\ Expire /\ connectTimer = "armed" /\ ~cancelled
  /\ connectTimer' = IF life = "Failed" THEN "expired" ELSE "over"
  /\ UNCHANGED <<life, mode, established, exec, tasks, bootstrapCh, sending, ingressVars,
                 egressCh, clientVars, disconnectTimer, finalVars, told, orderly>>
ConnectDeadline ==
  /\ Expire /\ connectTimer = "armed" /\ ~cancelled
  /\ connectTimer' = IF life = "Initializing" THEN "expired" ELSE "over"
  /\ UNCHANGED <<life, mode, established, exec, tasks, bootstrapCh, sending, ingressVars,
                 egressCh, clientVars, disconnectTimer, finalVars, told, orderly>>

\* It queues its records on the background channel and sends the client an error and
\* the disconnection, each of which may wait for ever, and only then cancels.
ConnectNotify ==
  /\ connectTimer = "expired"
  /\ connectTimer' = "notified"
  /\ told' = TRUE
  /\ UNCHANGED <<life, mode, established, exec, tasks, bootstrapCh, sending, ingressVars,
                 egressCh, clientVars, disconnectTimer, finalVars, orderly>>

ConnectAbort ==
  /\ connectTimer = "notified"
  /\ connectTimer' = "over"
  /\ cancelled' = TRUE
  /\ UNCHANGED <<life, mode, established, exec, tasks, bootstrapCh, sending, ingressVars,
                 egressCh, clientVars, disconnectTimer, fin, finNil, told, orderly>>

DisconnectDeadlineMut == \* mutant: armed by the first finalizer, not by OnDisconnect
  /\ fin > 0
  /\ Expire /\ disconnectTimer = "armed" /\ ~cancelled
  /\ disconnectTimer' = "over"
  /\ cancelled' = TRUE
  /\ UNCHANGED <<life, mode, established, exec, tasks, bootstrapCh, sending, ingressVars,
                 egressCh, clientVars, connectTimer, fin, finNil, told, orderly>>
DisconnectDeadline ==
  /\ Expire /\ disconnectTimer = "armed" /\ ~cancelled
  /\ disconnectTimer' = "over"
  /\ cancelled' = TRUE
  /\ UNCHANGED <<life, mode, established, exec, tasks, bootstrapCh, sending, ingressVars,
                 egressCh, clientVars, connectTimer, fin, finNil, told, orderly>>

-----------------------------------------------------------------------------
Talk == \/ \E m \in StreamModes : Connect(m) \/ RequestSwitch(m)
        \/ Disconnect
        \/ Leave

Bootstrap == \/ BootstrapSend
             \/ \E s \in Stages : HandleStage(s)
             \/ HandleExecuteAuthentication
             \/ HandleSessionAuthenticationSucceeded
             \/ HandleInitializationError
             \/ \E c \in Comps : HandleInit(c) \/ HandleSwitchInit(c) \/ DispatchAsync(c)
             \/ HandleInitializationCompleted
             \/ HandleInitializeInboundDispatcher
             \/ \E m \in StreamModes : HandleModeSwitchRequested(m)
             \/ HandleModeSwitchCompleted
             \/ HandleFinalizeInboundDispatcher
             \/ IngressPaused

Task(c) == AsyncInitialized(c) \/ SwitchClose(c) \/ SwitchClear(c)

Egress == HandleModeSwitchError

Data == Finalize \/ HandleFinalizationCompleted

Ingress == IngressStart \/ IngressTake \/ IngressDone \/ IngressStop

Deadlines == ConnectDeadline \/ ConnectNotify \/ ConnectAbort \/ DisconnectDeadline

Next == Talk \/ Bootstrap \/ (\E c \in Comps : Task(c)) \/ Egress \/ Data
          \/ Ingress \/ Deadlines

Spec == Init /\ [][Next]_vars

-----------------------------------------------------------------------------
(* Fairness.  WatchdogSpec grants progress to the steps of the deadline      *)
(* goroutines that wait for nothing, and so not to what the connect deadline *)
(* sends before it cancels: any handler, queue or streamer may hang.         *)
(* HandlerSpec grants it to every goroutine of a session that is not         *)
(* cancelled (a cancelled dispatcher may return); the consumer's choice      *)
(* between its pause channel and another envelope is Go's random select,     *)
(* hence strong fairness.  A client that was told to disconnect does: the    *)
(* streamer's Recv reports it.                                               *)

Unblocked == ConnectDeadline \/ ConnectAbort \/ DisconnectDeadline
WatchdogSpec == Spec /\ WF_vars(Unblocked)

Live(A) == ~cancelled /\ A

HandlerSpec ==
  /\ Spec
  /\ WF_vars(Live(Bootstrap)) /\ WF_vars(Live(Egress)) /\ WF_vars(Live(Data))
  /\ \A c \in Comps : WF_vars(Live(Task(c)))
  /\ WF_vars(IngressStart) /\ WF_vars(IngressDone) /\ SF_vars(IngressStop)
  /\ WF_vars(Leave) /\ WF_vars(told /\ Disconnect)

-----------------------------------------------------------------------------
(* Properties *)

Instances == [ptr : Nat, made : Nat, open : SUBSET Nat]

TypeOK ==
  /\ life \in LifeStates
  /\ mode \in {"text", "audio"}
  /\ config \in StreamModes \cup {"none"}
  /\ established \in SUBSET Stages
  /\ exec \in [Comps -> Instances]
  /\ tasks \in [TaskKinds \X Comps -> Nat]
  /\ bootstrapCh \in Seq(Packets)
  /\ sending \in Seq(Packets)
  /\ pause \in {"open", "pausing", "paused"}
  /\ egressCh \in Seq({"recoverable", "fatal"})
  /\ talk \in {"receiving", "leaving", "done"}
  /\ requests \in Nat
  /\ connectTimer \in {"off", "armed", "expired", "notified", "over"}
  /\ disconnectTimer \in {"off", "armed", "over"}
  /\ ingress \in {"none", "spawned", "running", "handling", "stopped"}
  /\ fin \in Nat
  /\ finNil \in BOOLEAN /\ told \in BOOLEAN /\ cancelled \in BOOLEAN /\ orderly \in BOOLEAN

Admitted == established = Stages

\* User input is consumed, and the session reports itself ready, only after
\* the assistant, the conversation, the runtime and authentication have all
\* succeeded: no failed or refused stage is overtaken by a packet behind it.
AuthGate == (life \in {"Ready", "Switching"} \/ ingress # "none") => Admitted

\* When a disconnect found nothing in progress, the finalizer chain leaves no
\* executor open, the denoiser apart, for which the chain has no finalizer.
OrderlyTeardown ==
  (orderly /\ life = "Disconnected") =>
     \A c \in Comps \ {"denoise"} : exec[c].open = {}

\* Nothing is queued, in progress, or reported as failed.
Settled == /\ life = "Ready" /\ ~told
           /\ bootstrapCh = <<>> /\ sending = <<>> /\ egressCh = <<>> /\ NoTasks

\* After at most one switch request, a settled session that speaks has all its
\* media executors and one in text mode has closed those that are created on
\* the dispatcher.  (An executor created by a slow goroutine of the bootstrap
\* may outlive the switch to text, and with a second request a slow finalizer
\* may clear its successor: the README tells both stories.)
MediaMatchesMode ==
  (Settled /\ requests <= 1) =>
     \A c \in Comps \cap {"stt", "tts", "vad", "eos", "denoise"} :
        IF mode = "audio" THEN exec[c].ptr # 0 /\ Orphans(c) = {}
        ELSE c \in {"stt", "tts"} => exec[c].open = {}

\* The refinement mapping to SessionContract.
phase == IF cancelled THEN "ended"
         ELSE CASE life = "New" -> "new"
                [] life = "Initializing" -> "opening"
                [] life \in {"Ready", "Switching"} -> "open"
                [] life = "Failed" -> "broken"
                [] life \in {"Disconnecting", "Disconnected"} -> "closing"

serving == CASE ingress \in {"none", "spawned"} -> "not yet"
             [] ingress \in {"running", "handling"} -> "serving"
             [] ingress = "stopped" -> "over"

Contract == INSTANCE SessionContract WITH admitted <- Admitted

\* The session keeps the contract of SessionContract.tla: it opens once and
\* admits before it serves, and from closing it can only end.
KeepsContract == Contract!ContractSpec

\* Whatever hangs, an accepted disconnect cancels the session.
DisconnectEnds == life = "Disconnecting" ~> cancelled

\* Whatever else hangs, a session does not stay in initialization for ever, unless the
\* deadline's own goroutine is held up for ever in what it sends before it cancels.
ConnectEnds ==
  life = "Initializing" ~> \/ life # "Initializing" \/ cancelled
                           \/ [](connectTimer = "expired")

\* Without help from the deadline, a disconnect reaches the end of its chain:
\* pausing the consumer and the finalizers wait for nothing that waits for them.
DisconnectDrains == life = "Disconnecting" ~> life = "Disconnected"

\* A mode switch that was accepted is concluded, one way or the other.
SwitchSettles == life = "Switching" ~> life # "Switching"

\* A client that was told of a failure leaves, and that ends the session.
FailureEnds == told ~> cancelled
=============================================================================
