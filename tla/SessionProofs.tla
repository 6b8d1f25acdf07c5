--------------------------- MODULE SessionProofs ----------------------------
(***************************************************************************)
(* Theorems about Session for every set of executors, every number of      *)
(* switch requests and every channel capacity.                             *)
(***************************************************************************)
EXTENDS Session, TLAPS

-----------------------------------------------------------------------------
(* The inductive invariant behind AuthGate: a packet is queued only when the *)
(* stages it presupposes have succeeded.                                     *)

\* The stages that precede a stage in the serial part of the chain.
Before == [assistant      |-> {},
           conversation   |-> {"assistant"},
           runtime        |-> {"assistant", "conversation"},
           authentication |-> {"assistant", "conversation", "runtime"},
           execute        |-> {"assistant", "conversation", "runtime", "authentication"}]

Requires(p) == IF p.kind = "stage" /\ p.arg \in Stages THEN Before[p.arg]
               ELSE IF p.kind \in {"authSucceeded", "initCompleted", "inbound"} THEN Stages
               ELSE {}

Justified(done) ==
  {p \in Packets : /\ Requires(p) \subseteq done
                   /\ p.kind = "swCompleted" => p.arg \in {"text", "audio"}}

IInv == /\ TypeOK
        /\ bootstrapCh \in Seq(Justified(established))
        /\ sending \in Seq(Justified(established))
        /\ AuthGate

-----------------------------------------------------------------------------
(* Lemmas about the packets and the chains *)

\* What is justified stays justified when a further stage succeeds.
LEMMA JustifiedMonotone ==
  ASSUME NEW d, NEW e, d \subseteq e, NEW s \in Seq(Justified(d))
  PROVE  s \in Seq(Justified(e))
<1>1. Justified(d) \subseteq Justified(e)
  BY DEF Justified
<1>2. QED
  BY <1>1

\* A packet that presupposes nothing may be queued at any time.
LEMMA FreePackets ==
  ASSUME NEW d, NEW k \in PacketKinds \ {"stage", "authSucceeded", "initCompleted", "inbound"},
         NEW a \in Stages \cup Executors \cup StreamModes \cup {"none"},
         k = "swCompleted" => a \in {"text", "audio"}
  PROVE  Packet(k, a) \in Justified(d)
BY DEF Justified, Requires, Packets, Packet, PacketKinds

LEMMA LatePackets ==
  ASSUME NEW k \in {"authSucceeded", "initCompleted", "inbound"}
  PROVE  Packet(k, "none") \in Justified(Stages)
BY DEF Justified, Requires, Packets, Packet, PacketKinds, Stages

LEMMA StagePackets ==
  ASSUME NEW s \in Stages
  PROVE  Packet("stage", s) \in Justified(Before[s])
BY DEF Justified, Requires, Packets, Packet, PacketKinds, Stages, Before

\* A chain holds an executor's packet or nothing in its place.
LEMMA IfType ==
  ASSUME NEW d, NEW k \in {"init", "swInit", "swClose"}, NEW c \in Executors
  PROVE  If(c, k) \in Seq(Justified(d))
<1>1. Packet(k, c) \in Justified(d)
  BY FreePackets DEF PacketKinds
<1>2. QED
  BY <1>1 DEF If

LEMMA ConcatType ==
  ASSUME NEW S, NEW s \in Seq(S), NEW t \in Seq(S)
  PROVE  s \o t \in Seq(S)
OBVIOUS

LEMMA AfterStageType ==
  ASSUME NEW s \in Stages, NEW d, Before[s] \subseteq d
  PROVE  AfterStage(s) \in Seq(Justified(d \cup {s}))
<1> DEFINE J == Justified(d \cup {s})
<1>1. CASE s = "assistant"
  <2>1. Packet("stage", "conversation") \in J
    BY <1>1, StagePackets, JustifiedMonotone DEF Before, Stages, Justified
  <2>2. QED BY <2>1, <1>1 DEF AfterStage, NextStage
<1>2. CASE s = "conversation"
  <2>1. Packet("stage", "runtime") \in J
    BY <1>2, StagePackets DEF Before, Stages, Justified
  <2>2. QED BY <2>1, <1>2 DEF AfterStage, NextStage
<1>3. CASE s = "runtime"
  <2>1. Packet("stage", "authentication") \in J
    BY <1>3, StagePackets DEF Before, Stages, Justified
  <2>2. <<Packet("stage", "authentication")>> \in Seq(J)
    BY <2>1
  <2>3. If("recorder", "init") \in Seq(J)
    BY IfType DEF Executors
  <2>4. If("recorder", "init") \o <<Packet("stage", "authentication")>> \in Seq(J)
    BY <2>2, <2>3, ConcatType
  <2>5. QED BY <2>4, <1>3 DEF AfterStage, NextStage
<1>4. CASE s = "authentication"
  <2>1. Packet("stage", "execute") \in J
    BY <1>4, StagePackets DEF Before, Stages, Justified
  <2>2. QED BY <2>1, <1>4 DEF AfterStage, NextStage
<1>5. CASE s = "execute"
  <2>1. Packet("authSucceeded", "none") \in J
    BY <1>5, LatePackets DEF Before, Stages, Justified
  <2>2. QED BY <2>1, <1>5 DEF AfterStage, NextStage
<1>6. QED
  BY <1>1, <1>2, <1>3, <1>4, <1>5 DEF Stages

\* The executors of the audio chain, whatever set their packets are in.
LEMMA AudioChainIn ==
  ASSUME NEW S, \A c \in Executors : Packet("init", c) \in S
  PROVE  If("stt", "init") \o If("tts", "init") \o If("llm", "init")
           \o If("vad", "init") \o If("eos", "init") \o If("denoise", "init") \in Seq(S)
<1>1. \A c \in Executors : If(c, "init") \in Seq(S)
  BY DEF If
<1>2. If("stt", "init") \o If("tts", "init") \o If("llm", "init")
        \o If("vad", "init") \in Seq(S)
  BY <1>1, ConcatType DEF Executors
<1>3. QED
  BY <1>1, <1>2, ConcatType DEF Executors

LEMMA BootChainType ==
  ASSUME NEW m \in StreamModes \cup {"none"}
  PROVE  BootChain(m) \in Seq(Justified(Stages))
<1> DEFINE J == Justified(Stages)
<1>1. \A c \in Executors : Packet("init", c) \in J
  BY FreePackets DEF PacketKinds
<1>2. <<Packet("initCompleted", "none")>> \in Seq(J)
  BY LatePackets
<1>3. If("llm", "init") \o <<Packet("initCompleted", "none")>> \in Seq(J)
  BY <1>2, IfType, ConcatType DEF Executors
<1>4. If("stt", "init") \o If("tts", "init") \o If("llm", "init")
        \o If("vad", "init") \o If("eos", "init") \o If("denoise", "init") \in Seq(J)
  BY <1>1, AudioChainIn
<1>5. QED
  BY <1>2, <1>3, <1>4, ConcatType DEF BootChain

\* The chain of a switch is made of packets for executors and the one that
\* completes it, whatever set these are known to be in.
LEMMA SwitchChainIn ==
  ASSUME NEW S, NEW m \in {"text", "audio"},
         \A c \in Executors : Packet("swInit", c) \in S /\ Packet("swClose", c) \in S,
         Packet("swCompleted", m) \in S
  PROVE  SwitchChain(m) \in Seq(S)
<1>1. \A c \in Executors : If(c, "swInit") \in Seq(S) /\ If(c, "swClose") \in Seq(S)
  BY DEF If
<1>2. <<Packet("swCompleted", m)>> \in Seq(S)
  OBVIOUS
<1>3. ASSUME m = "audio" PROVE SwitchChain(m) \in Seq(S)
  <2>1. If("stt", "swInit") \o If("vad", "swInit") \o If("eos", "swInit")
          \o If("denoise", "swInit") \in Seq(S)
    BY <1>1, ConcatType DEF Executors
  <2>2. QED
    BY <1>1, <1>2, <1>3, <2>1, ConcatType DEF SwitchChain, Executors
<1>4. ASSUME m = "text" PROVE SwitchChain(m) \in Seq(S)
  <2>1. If("stt", "swClose") \o If("tts", "swClose") \o If("vad", "swClose")
          \o If("eos", "swClose") \in Seq(S)
    BY <1>1, ConcatType DEF Executors
  <2>2. QED
    BY <1>1, <1>2, <1>4, <2>1, ConcatType DEF SwitchChain, Executors
<1>5. QED
  BY <1>3, <1>4

LEMMA SwitchChainType ==
  ASSUME NEW m \in {"text", "audio"}, NEW d
  PROVE  SwitchChain(m) \in Seq(Justified(d))
<1>1. \A c \in Executors : Packet("swInit", c) \in Justified(d) /\ Packet("swClose", c) \in Justified(d)
  BY FreePackets DEF PacketKinds
<1>2. Packet("swCompleted", m) \in Justified(d)
  BY FreePackets DEF PacketKinds, StreamModes
<1>3. QED
  BY <1>1, <1>2, SwitchChainIn

-----------------------------------------------------------------------------
(* Lemmas about the operations shared by the handlers *)

LEMMA InstallType ==
  ASSUME exec \in [Comps -> Instances], NEW c \in Comps, Install(c)
  PROVE  exec' \in [Comps -> Instances]
<1>1. exec[c] \in Instances
  OBVIOUS
<1>2. [ptr |-> exec[c].made + 1, made |-> exec[c].made + 1,
       open |-> exec[c].open \cup {exec[c].made + 1}] \in Instances
  BY <1>1 DEF Instances
<1>3. QED
  BY <1>2 DEF Install

LEMMA CloseType ==
  ASSUME exec \in [Comps -> Instances], NEW c \in Comps, CloseCurrent(c) \/ Clear(c)
  PROVE  exec' \in [Comps -> Instances]
<1>1. exec[c] \in Instances
  OBVIOUS
<1>2. [exec[c] EXCEPT !.open = @ \ {exec[c].ptr}] \in Instances
  BY <1>1 DEF Instances
<1>3. [exec[c] EXCEPT !.ptr = 0] \in Instances
  BY <1>1 DEF Instances
<1>4. QED
  BY <1>2, <1>3 DEF CloseCurrent, Clear

LEMMA SpawnType ==
  ASSUME tasks \in [TaskKinds \X Comps -> Nat], NEW k \in TaskKinds, NEW c \in Comps, Spawn(k, c)
  PROVE  tasks' \in [TaskKinds \X Comps -> Nat]
BY DEF Spawn

LEMMA FinishType ==
  ASSUME tasks \in [TaskKinds \X Comps -> Nat], NEW k \in TaskKinds, NEW c \in Comps,
         TaskDone(k, c) \/ (tasks[<<k, c>>] > 0 /\ Finish(k, c))
  PROVE  tasks' \in [TaskKinds \X Comps -> Nat]
<1>1. tasks[<<k, c>>] - 1 \in Nat
  BY DEF TaskDone
<1>2. QED
  BY <1>1 DEF TaskDone, Finish

LEMMA SwitchErrorType ==
  ASSUME egressCh \in Seq({"recoverable", "fatal"}),
         SwitchError("recoverable") \/ SwitchError("fatal") \/ UNCHANGED egressCh
  PROVE  egressCh' \in Seq({"recoverable", "fatal"})
BY DEF SwitchError

LEMMA SwapType ==
  ASSUME NEW t \in [TaskKinds \X Comps -> Nat], NEW c \in Comps,
         t[<<"swClose", c>>] - 1 \in Nat
  PROVE  [t EXCEPT ![<<"swClose", c>>] = @ - 1, ![<<"clear", c>>] = @ + 1]
            \in [TaskKinds \X Comps -> Nat]
<1>1. <<"swClose", c>> \in TaskKinds \X Comps /\ <<"clear", c>> \in TaskKinds \X Comps
  BY DEF TaskKinds
<1>2. [t EXCEPT ![<<"swClose", c>>] = @ - 1] \in [TaskKinds \X Comps -> Nat]
  BY <1>1
<1>3. QED
  BY <1>1, <1>2

\* The packet a handler takes was justified, and so is what it leaves behind.
LEMMA TakeType ==
  ASSUME NEW d, bootstrapCh \in Seq(Justified(d)), NEW k, Take(k)
  PROVE  /\ Head(bootstrapCh) \in Justified(d)
         /\ Head(bootstrapCh) \in Packets
         /\ Head(bootstrapCh).kind = k
         /\ bootstrapCh' \in Seq(Justified(d))
BY DEF Take, Justified

LEMMA EnqueueType ==
  ASSUME NEW d, bootstrapCh \in Seq(Justified(d)), NEW p \in Justified(d), Enqueue(p)
  PROVE  bootstrapCh' \in Seq(Justified(d))
BY DEF Enqueue

\* The finalizer chain names executors of the session.
LEMMA FinalizeOrderType == FinalizeOrder \in Seq(Comps)
<1>1. \A c \in Executors : Final(c) \in Seq(Comps)
  BY DEF Final
<1>2. Final("eos") \o Final("vad") \o Final("tts") \o Final("stt") \in Seq(Comps)
  BY <1>1, ConcatType DEF Executors
<1>3. QED
  BY <1>1, <1>2, ConcatType DEF FinalizeOrder, Executors

\* Queues of justified packets are queues of packets.
LEMMA QueueType ==
  ASSUME NEW d, NEW s \in Seq(Justified(d))
  PROVE  s \in Seq(Packets)
BY DEF Justified

-----------------------------------------------------------------------------
(* The invariant is inductive *)

LEMMA InitIInv == Init => IInv
<1> SUFFICES ASSUME Init PROVE IInv
  OBVIOUS
<1>1. [c \in Comps |-> [ptr |-> 0, made |-> 0, open |-> {}]] \in [Comps -> Instances]
  BY DEF Instances
<1>2. exec \in [Comps -> Instances] /\ tasks \in [TaskKinds \X Comps -> Nat]
  BY <1>1 DEF Init
<1>3. bootstrapCh \in Seq(Packets) /\ sending \in Seq(Packets)
        /\ egressCh \in Seq({"recoverable", "fatal"})
  BY DEF Init
<1>4. TypeOK
  BY <1>2, <1>3 DEF Init, TypeOK, LifeStates, StreamModes
<1>5. AuthGate
  BY DEF Init, AuthGate
<1>6. QED
  BY <1>4, <1>5 DEF IInv, Init

LEMMA NextIInv == IInv /\ [Next]_vars => IInv'
<1> SUFFICES ASSUME IInv, [Next]_vars PROVE IInv'
  OBVIOUS
<1> USE DEF IInv, AuthGate, Admitted, clientVars, timerVars, finalVars, ingressVars
<1>1. ASSUME NEW m \in StreamModes, Connect(m) PROVE IInv'
  <2>1. Packet("stage", "assistant") \in Justified(established)
    BY StagePackets, JustifiedMonotone DEF Before, Stages, Justified
  <2>2. bootstrapCh' \in Seq(Justified(established))
    BY <1>1, <2>1, EnqueueType DEF Connect
  <2>3. bootstrapCh' \in Seq(Packets)
    BY <2>2, QueueType
  <2>4. QED
    BY <1>1, <2>2, <2>3 DEF Connect, TypeOK, Transition, CanBe, EventSources, EventTarget, LifeStates
<1>2. ASSUME NEW m \in StreamModes, RequestSwitch(m) PROVE IInv'
  <2>1. Packet("switch", m) \in Justified(established)
    BY FreePackets DEF PacketKinds
  <2>2. bootstrapCh' \in Seq(Justified(established))
    BY <1>2, <2>1, EnqueueType DEF RequestSwitch
  <2>3. bootstrapCh' \in Seq(Packets)
    BY <2>2, QueueType
  <2>4. QED
    BY <1>2, <2>2, <2>3 DEF RequestSwitch, TypeOK
<1>3. CASE Disconnect
  BY <1>3 DEF Disconnect, TypeOK, Transition, CanBe, EventSources, EventTarget, LifeStates
<1>4. CASE Leave
  <2>1. Packet("finalizeInbound", "none") \in Justified(established)
    BY FreePackets DEF PacketKinds
  <2>2. bootstrapCh' \in Seq(Justified(established))
    BY <1>4, <2>1, EnqueueType DEF Leave
  <2>3. bootstrapCh' \in Seq(Packets)
    BY <2>2, QueueType
  <2>4. QED
    BY <1>4, <2>2, <2>3 DEF Leave, TypeOK
<1>5. CASE BootstrapSend
  <2>1. Head(sending) \in Justified(established) /\ Tail(sending) \in Seq(Justified(established))
    BY <1>5 DEF BootstrapSend
  <2>2. bootstrapCh' \in Seq(Justified(established))
    BY <1>5, <2>1, EnqueueType DEF BootstrapSend
  <2>3. bootstrapCh' \in Seq(Packets) /\ Tail(sending) \in Seq(Packets)
    BY <2>1, <2>2, QueueType
  <2>4. QED
    BY <1>5, <2>1, <2>2, <2>3 DEF BootstrapSend, TypeOK
<1>6. ASSUME NEW s \in Stages, HandleStage(s) PROVE IInv'
  <2>1. Head(bootstrapCh).kind = "stage" /\ Head(bootstrapCh).arg = s
          /\ Head(bootstrapCh) \in Justified(established)
          /\ bootstrapCh' \in Seq(Justified(established))
    BY <1>6, TakeType DEF HandleStage
  <2>2. Before[s] \subseteq established
    BY <2>1 DEF Justified, Requires
  <2>3. exec' \in [Comps -> Instances]
    BY <1>6, InstallType DEF HandleStage, TypeOK
  <2>4. CASE established' = established \cup {s} /\ sending' = AfterStage(s)
    <3>1. sending' \in Seq(Justified(established'))
      BY <2>2, <2>4, AfterStageType
    <3>2. bootstrapCh' \in Seq(Justified(established'))
      BY <2>1, <2>4, JustifiedMonotone
    <3>3. bootstrapCh' \in Seq(Packets) /\ sending' \in Seq(Packets)
      BY <3>1, <3>2, QueueType
    <3>4. established' \in SUBSET Stages
      BY <2>4 DEF TypeOK
    <3>5. QED
      BY <1>6, <2>3, <2>4, <3>1, <3>2, <3>3, <3>4 DEF HandleStage, TypeOK
  <2>5. CASE sending' = InitFailed /\ UNCHANGED <<established, exec>>
    <3>1. sending' \in Seq(Justified(established))
      BY <2>5, FreePackets DEF InitFailed, PacketKinds
    <3>2. bootstrapCh' \in Seq(Packets) /\ sending' \in Seq(Packets)
      BY <2>1, <3>1, QueueType
    <3>3. QED
      BY <1>6, <2>1, <2>5, <3>1, <3>2 DEF HandleStage, TypeOK
  <2>6. QED
    BY <1>6, <2>4, <2>5 DEF HandleStage
<1>7. CASE HandleExecuteAuthentication
  <2>1. Head(bootstrapCh).kind = "stage" /\ Head(bootstrapCh).arg = "execute"
          /\ Head(bootstrapCh) \in Justified(established)
          /\ bootstrapCh' \in Seq(Justified(established))
    BY <1>7, TakeType DEF HandleExecuteAuthentication
  <2>2. "execute" \in Stages /\ Before["execute"] \subseteq established
    BY <2>1 DEF Justified, Requires, Stages
  <2>3. CASE established' = established \cup {"execute"} /\ sending' = AfterStage("execute")
    <3>1. sending' \in Seq(Justified(established'))
      BY <2>2, <2>3, AfterStageType
    <3>2. bootstrapCh' \in Seq(Justified(established'))
      BY <2>1, <2>3, JustifiedMonotone
    <3>3. bootstrapCh' \in Seq(Packets) /\ sending' \in Seq(Packets)
      BY <3>1, <3>2, QueueType
    <3>4. established' \in SUBSET Stages
      BY <2>2, <2>3 DEF TypeOK
    <3>5. QED
      BY <1>7, <2>3, <3>1, <3>2, <3>3, <3>4 DEF HandleExecuteAuthentication, TypeOK
  <2>4. CASE sending' = <<Packet("authFailed", "none")>> /\ UNCHANGED established
    <3>1. sending' \in Seq(Justified(established))
      BY <2>4, FreePackets DEF PacketKinds
    <3>2. bootstrapCh' \in Seq(Packets) /\ sending' \in Seq(Packets)
      BY <2>1, <3>1, QueueType
    <3>3. QED
      BY <1>7, <2>1, <2>4, <3>1, <3>2 DEF HandleExecuteAuthentication, TypeOK
  <2>5. QED
    BY <1>7, <2>3, <2>4 DEF HandleExecuteAuthentication
<1>8. CASE HandleSessionAuthenticationSucceeded
  <2>1. Head(bootstrapCh) \in Justified(established) /\ Head(bootstrapCh).kind = "authSucceeded"
          /\ bootstrapCh' \in Seq(Justified(established))
    BY <1>8, TakeType DEF HandleSessionAuthenticationSucceeded
  <2>2. established = Stages
    BY <2>1 DEF Justified, Requires, TypeOK
  <2>3. sending' \in Seq(Justified(established))
    BY <1>8, <2>2, BootChainType DEF HandleSessionAuthenticationSucceeded, TypeOK
  <2>4. bootstrapCh' \in Seq(Packets) /\ sending' \in Seq(Packets)
    BY <2>1, <2>3, QueueType
  <2>5. mode' \in {"text", "audio"}
    BY <1>8 DEF HandleSessionAuthenticationSucceeded, TypeOK
  <2>6. QED
    BY <1>8, <2>1, <2>3, <2>4, <2>5 DEF HandleSessionAuthenticationSucceeded, TypeOK
<1>9. CASE HandleInitializationError
  <2>1. bootstrapCh' \in Seq(Justified(established))
    BY <1>9, TakeType DEF HandleInitializationError
  <2>2. bootstrapCh' \in Seq(Packets)
    BY <2>1, QueueType
  <2>3. QED
    BY <1>9, <2>1, <2>2 DEF HandleInitializationError, TypeOK, Transition, CanBe,
                            EventSources, EventTarget, LifeStates
<1>10. ASSUME NEW c \in Comps, HandleInit(c) PROVE IInv'
  <2>1. bootstrapCh' \in Seq(Justified(established))
    BY <1>10, TakeType DEF HandleInit
  <2>2. exec' \in [Comps -> Instances]
    BY <1>10, InstallType DEF HandleInit, TypeOK
  <2>3. InitFailed \in Seq(Justified(established))
    BY FreePackets DEF InitFailed, PacketKinds
  <2>4. sending' \in Seq(Justified(established))
    BY <1>10, <2>3 DEF HandleInit
  <2>5. bootstrapCh' \in Seq(Packets) /\ sending' \in Seq(Packets)
    BY <2>1, <2>4, QueueType
  <2>6. QED
    BY <1>10, <2>1, <2>2, <2>4, <2>5 DEF HandleInit, TypeOK
<1>11. CASE HandleInitializationCompleted
  <2>1. Head(bootstrapCh) \in Justified(established) /\ Head(bootstrapCh).kind = "initCompleted"
          /\ bootstrapCh' \in Seq(Justified(established))
    BY <1>11, TakeType DEF HandleInitializationCompleted
  <2>2. established = Stages
    BY <2>1 DEF Justified, Requires, TypeOK
  <2>3. sending' \in Seq(Justified(established))
    BY <1>11, <2>2, LatePackets DEF HandleInitializationCompleted
  <2>4. bootstrapCh' \in Seq(Packets) /\ sending' \in Seq(Packets)
    BY <2>1, <2>3, QueueType
  <2>5. QED
    BY <1>11, <2>1, <2>2, <2>3, <2>4 DEF HandleInitializationCompleted, TypeOK, Transition,
                                   CanBe, EventSources, EventTarget, LifeStates
<1>12. CASE HandleInitializeInboundDispatcher
  <2>1. Head(bootstrapCh) \in Justified(established) /\ Head(bootstrapCh).kind = "inbound"
          /\ bootstrapCh' \in Seq(Justified(established))
    BY <1>12, TakeType DEF HandleInitializeInboundDispatcher
  <2>2. established = Stages
    BY <2>1 DEF Justified, Requires, TypeOK
  <2>3. bootstrapCh' \in Seq(Packets)
    BY <2>1, QueueType
  <2>4. QED
    BY <1>12, <2>1, <2>2, <2>3 DEF HandleInitializeInboundDispatcher, TypeOK
<1>13. ASSUME NEW c \in Comps, HandleSwitchInit(c) PROVE IInv'
  <2>1. bootstrapCh' \in Seq(Justified(established))
    BY <1>13, TakeType DEF HandleSwitchInit
  <2>2. exec' \in [Comps -> Instances]
    BY <1>13, InstallType DEF HandleSwitchInit, TypeOK
  <2>3. InitFailed \in Seq(Justified(established))
    BY FreePackets DEF InitFailed, PacketKinds
  <2>4. sending' \in Seq(Justified(established))
    BY <1>13, <2>3 DEF HandleSwitchInit
  <2>5. bootstrapCh' \in Seq(Packets) /\ sending' \in Seq(Packets)
    BY <2>1, <2>4, QueueType
  <2>6. egressCh' \in Seq({"recoverable", "fatal"})
    BY <1>13, SwitchErrorType DEF HandleSwitchInit, TypeOK
  <2>7. QED
    BY <1>13, <2>1, <2>2, <2>4, <2>5, <2>6 DEF HandleSwitchInit, TypeOK
<1>14. ASSUME NEW c \in Comps, DispatchAsync(c) PROVE IInv'
  <2>1. bootstrapCh' \in Seq(Justified(established))
    BY <1>14, TakeType DEF DispatchAsync
  <2>2. bootstrapCh' \in Seq(Packets)
    BY <2>1, QueueType
  <2>3. tasks' \in [TaskKinds \X Comps -> Nat]
    BY <1>14, SpawnType DEF DispatchAsync, TypeOK, TaskKinds
  <2>4. QED
    BY <1>14, <2>1, <2>2, <2>3 DEF DispatchAsync, TypeOK
<1>15. ASSUME NEW m \in StreamModes, HandleModeSwitchRequested(m) PROVE IInv'
  <2>1. bootstrapCh' \in Seq(Justified(established))
    BY <1>15, TakeType DEF HandleModeSwitchRequested
  <2>2. sending' \in Seq(Justified(established))
    BY <1>15, SwitchChainType DEF HandleModeSwitchRequested
  <2>3. bootstrapCh' \in Seq(Packets) /\ sending' \in Seq(Packets)
    BY <2>1, <2>2, QueueType
  <2>4. egressCh' \in Seq({"recoverable", "fatal"})
    BY <1>15, SwitchErrorType DEF HandleModeSwitchRequested, TypeOK
  <2>5. life' \in LifeStates /\ (life' \in {"Ready", "Switching"} => life \in {"Ready", "Switching"})
    BY <1>15 DEF HandleModeSwitchRequested, TypeOK, Transition, CanBe, EventSources, EventTarget, LifeStates
  <2>6. QED
    BY <1>15, <2>1, <2>2, <2>3, <2>4, <2>5 DEF HandleModeSwitchRequested, TypeOK
<1>16. CASE HandleModeSwitchCompleted
  <2>1. Head(bootstrapCh) \in Justified(established) /\ Head(bootstrapCh).kind = "swCompleted"
          /\ bootstrapCh' \in Seq(Justified(established))
    BY <1>16, TakeType DEF HandleModeSwitchCompleted
  <2>6. mode' \in {"text", "audio"}
    BY <1>16, <2>1 DEF HandleModeSwitchCompleted, Justified
  <2>2. bootstrapCh' \in Seq(Packets)
    BY <2>1, QueueType
  <2>3. egressCh' \in Seq({"recoverable", "fatal"})
    BY <1>16, SwitchErrorType DEF HandleModeSwitchCompleted, TypeOK
  <2>4. life' \in LifeStates /\ (life' \in {"Ready", "Switching"} => life \in {"Ready", "Switching"})
    BY <1>16 DEF HandleModeSwitchCompleted, TypeOK, Transition, CanBe, EventSources, EventTarget, LifeStates
  <2>5. QED
    BY <1>16, <2>1, <2>2, <2>3, <2>4, <2>6 DEF HandleModeSwitchCompleted, TypeOK
<1>17. CASE HandleFinalizeInboundDispatcher
  <2>1. bootstrapCh' \in Seq(Justified(established))
    BY <1>17, TakeType DEF HandleFinalizeInboundDispatcher
  <2>2. bootstrapCh' \in Seq(Packets)
    BY <2>1, QueueType
  <2>3. orderly' \in BOOLEAN
    BY <1>17 DEF HandleFinalizeInboundDispatcher
  <2>4. QED
    BY <1>17, <2>1, <2>2, <2>3 DEF HandleFinalizeInboundDispatcher, TypeOK
<1>18. CASE IngressPaused
  BY <1>18 DEF IngressPaused, TypeOK
<1>19. ASSUME NEW c \in Comps, AsyncInitialized(c) PROVE IInv'
  <2>1. Packet("initFailed", "none") \in Justified(established)
    BY FreePackets DEF PacketKinds
  <2>2. bootstrapCh' \in Seq(Justified(established))
    BY <1>19, <2>1, EnqueueType DEF AsyncInitialized
  <2>3. bootstrapCh' \in Seq(Packets)
    BY <2>2, QueueType
  <2>4. exec' \in [Comps -> Instances]
    BY <1>19, InstallType DEF AsyncInitialized, TypeOK
  <2>5. tasks' \in [TaskKinds \X Comps -> Nat]
    BY <1>19, FinishType DEF AsyncInitialized, TypeOK, TaskKinds
  <2>6. egressCh' \in Seq({"recoverable", "fatal"})
    BY <1>19, SwitchErrorType DEF AsyncInitialized, TypeOK
  <2>7. QED
    BY <1>19, <2>2, <2>3, <2>4, <2>5, <2>6 DEF AsyncInitialized, TypeOK
<1>20. ASSUME NEW c \in Comps, SwitchClose(c) PROVE IInv'
  <2>1. exec' \in [Comps -> Instances]
    BY <1>20, CloseType DEF SwitchClose, TypeOK
  <2>2. tasks' \in [TaskKinds \X Comps -> Nat]
    <3>1. CASE exec[c].ptr = 0
      BY <1>20, <3>1, FinishType DEF SwitchClose, TypeOK, TaskKinds
    <3>2. CASE exec[c].ptr # 0
      <4>1. tasks[<<"swClose", c>>] - 1 \in Nat
        BY <1>20 DEF SwitchClose, TypeOK, TaskKinds
      <4>2. tasks' = [tasks EXCEPT ![<<"swClose", c>>] = @ - 1, ![<<"clear", c>>] = @ + 1]
        BY <1>20, <3>2 DEF SwitchClose
      <4>3. tasks \in [TaskKinds \X Comps -> Nat]
        BY DEF TypeOK
      <4>4. QED
        BY <4>1, <4>2, <4>3, SwapType, Zenon
    <3>3. QED
      BY <3>1, <3>2
  <2>3. QED
    BY <1>20, <2>1, <2>2 DEF SwitchClose, TypeOK
<1>21. ASSUME NEW c \in Comps, SwitchClear(c) PROVE IInv'
  <2>1. exec' \in [Comps -> Instances] /\ tasks' \in [TaskKinds \X Comps -> Nat]
    BY <1>21, CloseType, FinishType DEF SwitchClear, TypeOK, TaskKinds
  <2>2. QED
    BY <1>21, <2>1 DEF SwitchClear, TypeOK
<1>22. CASE HandleModeSwitchError
  <2>1. egressCh' \in Seq({"recoverable", "fatal"})
    BY <1>22 DEF HandleModeSwitchError, TypeOK
  <2>2. life' \in LifeStates /\ (life' \in {"Ready", "Switching"} => life \in {"Ready", "Switching"})
    BY <1>22 DEF HandleModeSwitchError, TypeOK, Transition, CanBe, EventSources, EventTarget, LifeStates
  <2>3. told' \in BOOLEAN
    BY <1>22 DEF HandleModeSwitchError, TypeOK
  <2>4. QED
    BY <1>22, <2>1, <2>2, <2>3 DEF HandleModeSwitchError, TypeOK
<1>23. CASE Finalize
  <2>1. fin \in 1..Len(FinalizeOrder) => FinalizeOrder[fin] \in Comps
    BY FinalizeOrderType
  <2>2. exec' \in [Comps -> Instances]
    BY <1>23, <2>1, CloseType DEF Finalize, TypeOK
  <2>3. fin' \in Nat
    BY <1>23 DEF Finalize, TypeOK
  <2>4. finNil' \in BOOLEAN
    BY <1>23 DEF Finalize, TypeOK
  <2>5. QED
    BY <1>23, <2>2, <2>3, <2>4 DEF Finalize, TypeOK
<1>24. CASE HandleFinalizationCompleted
  BY <1>24 DEF HandleFinalizationCompleted, TypeOK, Transition, CanBe, EventSources, EventTarget, LifeStates
<1>25. CASE IngressStart \/ IngressTake \/ IngressDone \/ IngressStop
  BY <1>25 DEF IngressStart, IngressTake, IngressDone, IngressStop, IngressStep, TypeOK
<1>26. CASE Deadlines
  <2>1. CASE ConnectDeadline
    BY <2>1 DEF ConnectDeadline, TypeOK
  <2>2. CASE ConnectAbort
    BY <2>2 DEF ConnectAbort, TypeOK
  <2>4. CASE ConnectNotify
    BY <2>4 DEF ConnectNotify, finalVars, TypeOK
  <2>3. CASE DisconnectDeadline
    BY <2>3 DEF DisconnectDeadline, TypeOK
  <2>5. QED
    BY <1>26, <2>1, <2>2, <2>3, <2>4 DEF Deadlines
<1>27. CASE UNCHANGED vars
  BY <1>27 DEF vars, TypeOK
<1>28. QED
  BY <1>1, <1>2, <1>3, <1>4, <1>5, <1>6, <1>7, <1>8, <1>9, <1>10, <1>11, <1>12, <1>13,
     <1>14, <1>15, <1>16, <1>17, <1>18, <1>19, <1>20, <1>21, <1>22, <1>23, <1>24, <1>25,
     <1>26, <1>27
  DEF Next, Talk, Bootstrap, Task, Egress, Data, Ingress

THEOREM TypeCorrect == Spec => []TypeOK
<1>1. IInv => TypeOK
  BY DEF IInv
<1>2. QED
  BY InitIInv, NextIInv, <1>1, PTL DEF Spec

\* For every set of executors and every number of switch requests, no session
\* serves its user or reports itself ready before it was admitted.
THEOREM AdmittedBeforeServed == Spec => []AuthGate
<1>1. IInv => AuthGate
  BY DEF IInv
<1>2. QED
  BY InitIInv, NextIInv, <1>1, PTL DEF Spec

-----------------------------------------------------------------------------
(* The orderly teardown.  A session is disconnected once: the packet that    *)
(* pauses it is queued by the Talk loop as it leaves, so at most one is ever *)
(* on its way, and none when the dispatcher has paused.                      *)

Others == {p \in Packets : p.kind # "finalizeInbound"}

\* The packets of some kinds in a queue, by their places.
Of(q, K) == {i \in DOMAIN q : q[i].kind \in K}
Finals(q) == Of(q, {"finalizeInbound"})

Once ==
  /\ sending \in Seq(Others)
  /\ \A i, j \in Finals(bootstrapCh) : i = j
  /\ talk # "done" \/ pause # "open" => Finals(bootstrapCh) = {}
  /\ pause # "open" => talk = "done"
  /\ pause # "paused" => fin = 0 /\ ~finNil

\* Instances are numbered from 1 on: 0 is no instance.
Numbered == \A c \in Comps : 0 \notin exec[c].open

\* After a pause that found nothing in progress, only the finalizer chain touches
\* the executors, and it leaves closed what it has passed.
Undisturbed ==
  orderly =>
    /\ pause # "open" /\ bootstrapCh = <<>> /\ sending = <<>> /\ NoTasks
    /\ \A c \in Comps : Orphans(c) = {}
    /\ \A i \in 1..Len(FinalizeOrder) :
          i < fin \/ (i = fin /\ finNil) => exec[FinalizeOrder[i]].open = {}

\* The chain is over when the session is disconnected.
LastStep == life = "Disconnected" => fin > Len(FinalizeOrder)

\* What is put behind other packets, and what is left when one is taken.
LEMMA OfAppended ==
  ASSUME NEW K, NEW q \in Seq(Packets), NEW p \in Packets
  PROVE  /\ p.kind \notin K => Of(Append(q, p), K) = Of(q, K)
         /\ Of(q, K) = {} => \A i, j \in Of(Append(q, p), K) : i = j
<1>1. /\ Len(q) \in Nat /\ DOMAIN q = 1..Len(q) /\ DOMAIN Append(q, p) = 1..(Len(q) + 1)
      /\ \A i \in 1..Len(q) : Append(q, p)[i] = q[i]
      /\ Append(q, p)[Len(q) + 1] = p
  OBVIOUS
<1>2. \A i \in 1..(Len(q) + 1) : i \in 1..Len(q) \/ i = Len(q) + 1
  BY <1>1
<1>3. \A i \in 1..Len(q) : i \in 1..(Len(q) + 1)
  BY <1>1
<1> QED BY <1>1, <1>2, <1>3 DEF Of

LEMMA OfTaken ==
  ASSUME NEW K, NEW q \in Seq(Packets), q # <<>>, \A i, j \in Of(q, K) : i = j
  PROVE  /\ Tail(q) \in Seq(Packets)
         /\ \A i, j \in Of(Tail(q), K) : i = j
         /\ Of(q, K) = {} => Of(Tail(q), K) = {}
         /\ Head(q).kind \in K => Of(q, K) # {} /\ Of(Tail(q), K) = {}
<1>1. /\ Len(q) \in Nat \ {0} /\ DOMAIN q = 1..Len(q) /\ Tail(q) \in Seq(Packets)
      /\ DOMAIN Tail(q) = 1..(Len(q) - 1) /\ Head(q) = q[1]
      /\ \A i \in 1..(Len(q) - 1) : Tail(q)[i] = q[i + 1]
  OBVIOUS
<1>2. \A i \in Of(Tail(q), K) : i \in Nat /\ i + 1 \in Of(q, K) /\ i + 1 # 1
  <2> SUFFICES ASSUME NEW i \in Of(Tail(q), K) PROVE i \in Nat /\ i + 1 \in Of(q, K) /\ i + 1 # 1
    OBVIOUS
  <2>1. i \in 1..(Len(q) - 1) /\ q[i + 1].kind \in K
    BY <1>1 DEF Of
  <2> QED BY <1>1, <2>1 DEF Of
<1>3. \A i, j \in Of(Tail(q), K) : i = j
  BY <1>2
<1>4. Of(q, K) = {} => Of(Tail(q), K) = {}
  BY <1>2
<1>5. Head(q).kind \in K => Of(q, K) # {} /\ Of(Tail(q), K) = {}
  <2>1. Head(q).kind \in K => 1 \in Of(q, K)
    BY <1>1 DEF Of
  <2> QED BY <1>2, <2>1
<1> QED BY <1>1, <1>3, <1>4, <1>5

\* No chain pauses the dispatcher.
LEMMA OtherPackets ==
  ASSUME NEW k \in PacketKinds \ {"finalizeInbound"},
         NEW a \in Stages \cup Executors \cup StreamModes \cup {"none"}
  PROVE  Packet(k, a) \in Others /\ Packet(k, a) \in Packets
BY DEF Others, Packets, Packet, PacketKinds

LEMMA OtherChains ==
  /\ \A s \in Stages : AfterStage(s) \in Seq(Others)
  /\ \A m \in StreamModes \cup {"none"} : BootChain(m) \in Seq(Others)
  /\ \A m \in {"text", "audio"} : SwitchChain(m) \in Seq(Others)
  /\ InitFailed \in Seq(Others)
<1>1. \A c \in Executors : If(c, "init") \in Seq(Others)
  <2> TAKE c \in Executors
  <2>1. Packet("init", c) \in Others
    BY OtherPackets DEF PacketKinds
  <2> QED BY <2>1 DEF If
<1>2. ASSUME NEW s \in Stages PROVE AfterStage(s) \in Seq(Others)
  <2>1. /\ Packet("authSucceeded", "none") \in Others
        /\ s # "execute" => Packet("stage", NextStage[s]) \in Others
    BY OtherPackets DEF PacketKinds, Stages, NextStage
  <2>2. s # "execute" => <<Packet("stage", NextStage[s])>> \in Seq(Others)
    BY <2>1
  <2>3. s # "execute" => If("recorder", "init") \o <<Packet("stage", NextStage[s])>> \in Seq(Others)
    BY <1>1, <2>2, ConcatType DEF Executors
  <2>4. <<Packet("authSucceeded", "none")>> \in Seq(Others)
    BY <2>1
  <2> QED BY <2>2, <2>3, <2>4 DEF AfterStage
<1>3. ASSUME NEW m \in StreamModes \cup {"none"} PROVE BootChain(m) \in Seq(Others)
  <2>1. /\ Packet("initCompleted", "none") \in Others
        /\ \A c \in Executors : Packet("init", c) \in Others
    BY OtherPackets DEF PacketKinds
  <2>2. <<Packet("initCompleted", "none")>> \in Seq(Others)
    BY <2>1
  <2>3. If("llm", "init") \o <<Packet("initCompleted", "none")>> \in Seq(Others)
    BY <1>1, <2>2, ConcatType DEF Executors
  <2>4. If("stt", "init") \o If("tts", "init") \o If("llm", "init")
          \o If("vad", "init") \o If("eos", "init") \o If("denoise", "init") \in Seq(Others)
    BY <2>1, AudioChainIn
  <2> QED BY <2>2, <2>3, <2>4, ConcatType DEF BootChain
<1>4. ASSUME NEW m \in {"text", "audio"} PROVE SwitchChain(m) \in Seq(Others)
  <2>1. \A c \in Executors : Packet("swInit", c) \in Others /\ Packet("swClose", c) \in Others
    BY OtherPackets DEF PacketKinds
  <2>2. Packet("swCompleted", m) \in Others
    BY OtherPackets DEF PacketKinds, StreamModes
  <2> QED BY <2>1, <2>2, SwitchChainIn
<1>5. InitFailed \in Seq(Others)
  BY OtherPackets DEF InitFailed, PacketKinds
<1> QED BY <1>2, <1>3, <1>4, <1>5

\* Every executor but the denoiser has its place in the finalizer chain.
Lists(s, c) == \E i \in 1..Len(s) : s[i] = c

LEMMA Contains ==
  ASSUME NEW s \in Seq(Comps), NEW t \in Seq(Comps), NEW c, Lists(s, c) \/ Lists(t, c)
  PROVE  Lists(s \o t, c)
<1>1. /\ Len(s) \in Nat /\ Len(t) \in Nat /\ Len(s \o t) = Len(s) + Len(t)
      /\ \A i \in 1..Len(s) : (s \o t)[i] = s[i]
      /\ \A i \in 1..Len(t) : (s \o t)[Len(s) + i] = t[i]
  OBVIOUS
<1>2. CASE Lists(s, c)
  BY <1>1, <1>2 DEF Lists
<1>3. CASE Lists(t, c)
  <2>1. PICK i \in 1..Len(t) : t[i] = c
    BY <1>3 DEF Lists
  <2>2. Len(s) + i \in 1..Len(s \o t) /\ (s \o t)[Len(s) + i] = c
    BY <1>1, <2>1
  <2> QED BY <2>2 DEF Lists
<1> QED BY <1>2, <1>3

\* A prefix of the chain, and one executor more.
LEMMA ContainsOneMore ==
  ASSUME NEW s \in Seq(Comps), NEW c \in Comps, NEW e \in Executors, NEW S,
         c \in S => Lists(s, c)
  PROVE  /\ s \o Final(e) \in Seq(Comps)
         /\ c \in S \cup {e} => Lists(s \o Final(e), c)
<1>1. Final(e) \in Seq(Comps)
  BY DEF Final
<1>2. c = e => Lists(Final(e), c)
  <2> SUFFICES ASSUME c = e PROVE Lists(Final(e), c)
    OBVIOUS
  <2>1. Final(e) = <<c>>
    BY DEF Final
  <2>2. Len(<<c>>) = 1 /\ <<c>>[1] = c
    OBVIOUS
  <2> QED BY <2>1, <2>2 DEF Lists
<1>3. c \in S \cup {e} => Lists(s, c) \/ Lists(Final(e), c)
  BY <1>2
<1> QED BY <1>1, <1>3, ConcatType, Contains

LEMMA FinalizeOrderComplete ==
  ASSUME NEW c \in Comps \ {"denoise"}
  PROVE  Lists(FinalizeOrder, c)
<1> DEFINE s1 == Final("eos")
           s2 == s1 \o Final("vad")
           s3 == s2 \o Final("tts")
           s4 == s3 \o Final("stt")
           s5 == s4 \o Final("auth")
           s6 == s5 \o Final("recorder")
           s7 == s6 \o Final("llm")
<1>1. c \in {"eos", "vad", "tts", "stt", "auth", "recorder", "llm"} /\ c \in Comps
  BY SessionAssumption DEF SessionAssumption, Executors
<1>2. s1 \in Seq(Comps) /\ (c \in {"eos"} => Lists(s1, c))
  <2>1. c = "eos" => s1 = <<c>>
    BY DEF Final
  <2>2. Len(<<c>>) = 1 /\ <<c>>[1] = c
    OBVIOUS
  <2> QED BY <2>1, <2>2 DEF Final, Lists
<1> HIDE DEF s1
<1>3. s2 \in Seq(Comps) /\ (c \in {"eos"} \cup {"vad"} => Lists(s2, c))
  <2>1. "vad" \in Executors
    BY DEF Executors
  <2> QED BY <1>1, <1>2, <2>1, ContainsOneMore
<1> HIDE DEF s2
<1>4. s3 \in Seq(Comps) /\ (c \in {"eos"} \cup {"vad"} \cup {"tts"} => Lists(s3, c))
  <2>1. "tts" \in Executors
    BY DEF Executors
  <2> QED BY <1>1, <1>3, <2>1, ContainsOneMore
<1> HIDE DEF s3
<1>5. s4 \in Seq(Comps) /\ (c \in {"eos"} \cup {"vad"} \cup {"tts"} \cup {"stt"} => Lists(s4, c))
  <2>1. "stt" \in Executors
    BY DEF Executors
  <2> QED BY <1>1, <1>4, <2>1, ContainsOneMore
<1> HIDE DEF s4
<1>6. /\ s5 \in Seq(Comps)
      /\ c \in {"eos"} \cup {"vad"} \cup {"tts"} \cup {"stt"} \cup {"auth"} => Lists(s5, c)
  <2>1. "auth" \in Executors
    BY DEF Executors
  <2> QED BY <1>1, <1>5, <2>1, ContainsOneMore
<1> HIDE DEF s5
<1>7. /\ s6 \in Seq(Comps)
      /\ c \in {"eos"} \cup {"vad"} \cup {"tts"} \cup {"stt"} \cup {"auth"} \cup {"recorder"}
           => Lists(s6, c)
  <2>1. "recorder" \in Executors
    BY DEF Executors
  <2> QED BY <1>1, <1>6, <2>1, ContainsOneMore
<1> HIDE DEF s6
<1>8. c \in {"eos"} \cup {"vad"} \cup {"tts"} \cup {"stt"} \cup {"auth"} \cup {"recorder"} \cup {"llm"}
        => Lists(s7, c)
  <2>1. "llm" \in Executors
    BY DEF Executors
  <2> QED BY <1>1, <1>7, <2>1, ContainsOneMore
<1>9. FinalizeOrder = s7
  BY DEF FinalizeOrder, s7, s6, s5, s4, s3, s2, s1
<1> QED BY <1>1, <1>8, <1>9

\* What a step may do to the executors.
LEMMA ExecMoves ==
  ASSUME [Next]_vars
  PROVE  UNCHANGED exec \/ \E c \in Comps : Install(c) \/ CloseCurrent(c) \/ Clear(c)
<1>1. CASE Talk \/ Egress \/ Ingress \/ Deadlines \/ UNCHANGED vars
  BY <1>1 DEF Talk, Connect, RequestSwitch, Disconnect, Leave, Egress, HandleModeSwitchError,
     Ingress, IngressStart, IngressTake, IngressDone, IngressStop, IngressStep,
     Deadlines, ConnectDeadline, ConnectNotify, ConnectAbort, DisconnectDeadline, vars
<1>2. ASSUME NEW s \in Stages, HandleStage(s) PROVE UNCHANGED exec \/ \E c \in Comps : Install(c)
  BY <1>2 DEF HandleStage
<1>3. ASSUME NEW c \in Comps, HandleInit(c) \/ HandleSwitchInit(c) \/ DispatchAsync(c)
      PROVE UNCHANGED exec \/ Install(c)
  BY <1>3 DEF HandleInit, HandleSwitchInit, DispatchAsync
<1>4. CASE Bootstrap
  BY <1>2, <1>3, <1>4 DEF Bootstrap, BootstrapSend, HandleExecuteAuthentication,
     HandleSessionAuthenticationSucceeded, HandleInitializationError, HandleInitializationCompleted,
     HandleInitializeInboundDispatcher, HandleModeSwitchRequested, HandleModeSwitchCompleted,
     HandleFinalizeInboundDispatcher, IngressPaused
<1>5. ASSUME NEW c \in Comps, Task(c) PROVE UNCHANGED exec \/ Install(c) \/ CloseCurrent(c) \/ Clear(c)
  BY <1>5 DEF Task, AsyncInitialized, SwitchClose, SwitchClear
<1>6. CASE Data
  <2>1. fin \in 1..Len(FinalizeOrder) => FinalizeOrder[fin] \in Comps
    BY FinalizeOrderType
  <2> QED BY <1>6, <2>1 DEF Data, Finalize, HandleFinalizationCompleted
<1> QED BY <1>1, <1>4, <1>5, <1>6 DEF Next

LEMMA NumberedKept ==
  ASSUME TypeOK, Numbered, [Next]_vars
  PROVE  Numbered'
<1>1. exec \in [Comps -> Instances]
  BY DEF TypeOK
<1>2. CASE UNCHANGED exec
  BY <1>2 DEF Numbered
<1>3. ASSUME NEW c \in Comps, Install(c) PROVE Numbered'
  <2>1. exec[c].made + 1 # 0
    BY <1>1 DEF Instances
  <2>2. \A d \in Comps : exec'[d].open = IF d = c THEN exec[c].open \cup {exec[c].made + 1} ELSE exec[d].open
    BY <1>1, <1>3 DEF Install
  <2> QED BY <2>1, <2>2 DEF Numbered
<1>4. ASSUME NEW c \in Comps, CloseCurrent(c) \/ Clear(c) PROVE Numbered'
  <2>1. \A d \in Comps : exec'[d].open \subseteq exec[d].open
    BY <1>1, <1>4 DEF CloseCurrent, Clear, Instances
  <2> QED BY <2>1 DEF Numbered
<1> QED BY <1>2, <1>3, <1>4, ExecMoves

-----------------------------------------------------------------------------
(* A session is disconnected once *)

\* A handler other than the pause takes its packet; others put one in.
Taken == /\ bootstrapCh # <<>> /\ bootstrapCh' = Tail(bootstrapCh)
         /\ sending' \in Seq(Others) /\ UNCHANGED <<talk, pause, fin, finNil>>
PutIn == /\ \E p \in Others : bootstrapCh' = Append(bootstrapCh, p)
         /\ sending' \in Seq(Others) /\ UNCHANGED <<talk, pause, fin, finNil>>
LetBe == UNCHANGED <<bootstrapCh, sending, talk, pause, fin, finNil>>

LEMMA HandlersTake ==
  ASSUME TypeOK, Once,
         \/ \E s \in Stages : HandleStage(s)
         \/ HandleExecuteAuthentication \/ HandleSessionAuthenticationSucceeded
         \/ HandleInitializationError
         \/ \E c \in Comps : HandleInit(c) \/ HandleSwitchInit(c) \/ DispatchAsync(c)
         \/ HandleInitializationCompleted \/ HandleInitializeInboundDispatcher
         \/ \E m \in StreamModes : HandleModeSwitchRequested(m)
         \/ HandleModeSwitchCompleted
  PROVE  Taken
<1>1. UNCHANGED <<talk, pause, fin, finNil>>
  BY DEF HandleStage, HandleExecuteAuthentication, HandleSessionAuthenticationSucceeded,
     HandleInitializationError, HandleInit, HandleSwitchInit, DispatchAsync,
     HandleInitializationCompleted, HandleInitializeInboundDispatcher,
     HandleModeSwitchRequested, HandleModeSwitchCompleted, ingressVars, clientVars, finalVars
<1>2. bootstrapCh # <<>> /\ bootstrapCh' = Tail(bootstrapCh)
  BY DEF Take, HandleStage, HandleExecuteAuthentication, HandleSessionAuthenticationSucceeded,
     HandleInitializationError, HandleInit, HandleSwitchInit, DispatchAsync,
     HandleInitializationCompleted, HandleInitializeInboundDispatcher,
     HandleModeSwitchRequested, HandleModeSwitchCompleted
<1>3. sending \in Seq(Others) /\ InitFailed \in Seq(Others)
  BY OtherChains DEF Once
<1>4. <<Packet("authFailed", "none")>> \in Seq(Others) /\ <<Packet("inbound", "none")>> \in Seq(Others)
  <2>1. Packet("authFailed", "none") \in Others /\ Packet("inbound", "none") \in Others
    BY OtherPackets DEF PacketKinds
  <2> QED BY <2>1
<1>5. config \in StreamModes \cup {"none"}
  BY DEF TypeOK
<1>6. sending' \in Seq(Others)
  <2>1. ASSUME NEW s \in Stages, HandleStage(s) PROVE sending' \in Seq(Others)
    BY <1>3, <2>1, OtherChains DEF HandleStage
  <2>2. CASE HandleExecuteAuthentication
    <3>1. AfterStage("execute") \in Seq(Others)
      BY OtherChains DEF Stages
    <3> QED BY <2>2, <3>1, <1>4 DEF HandleExecuteAuthentication
  <2>3. CASE HandleSessionAuthenticationSucceeded
    BY <1>5, <2>3, OtherChains DEF HandleSessionAuthenticationSucceeded
  <2>4. CASE HandleInitializationError \/ HandleInitializeInboundDispatcher \/ HandleModeSwitchCompleted
    BY <1>3, <2>4 DEF HandleInitializationError, HandleInitializeInboundDispatcher, HandleModeSwitchCompleted
  <2>5. CASE HandleInitializationCompleted
    BY <1>4, <2>5 DEF HandleInitializationCompleted
  <2>6. ASSUME NEW c \in Comps, HandleInit(c) \/ HandleSwitchInit(c) \/ DispatchAsync(c)
        PROVE sending' \in Seq(Others)
    BY <1>3, <2>6 DEF HandleInit, HandleSwitchInit, DispatchAsync
  <2>7. ASSUME NEW m \in StreamModes, HandleModeSwitchRequested(m) PROVE sending' \in Seq(Others)
    BY <1>3, <2>7, OtherChains DEF HandleModeSwitchRequested
  <2> QED BY <2>1, <2>2, <2>3, <2>4, <2>5, <2>6, <2>7
<1> QED BY <1>1, <1>2, <1>6 DEF Taken

LEMMA ProducersPut ==
  ASSUME TypeOK, Once,
         \/ \E m \in StreamModes : Connect(m) \/ RequestSwitch(m)
         \/ BootstrapSend
         \/ \E c \in Comps : Task(c)
  PROVE  PutIn \/ LetBe
<1>1. sending \in Seq(Others)
  BY DEF Once
<1>2. ASSUME NEW m \in StreamModes, Connect(m) \/ RequestSwitch(m) PROVE PutIn
  <2>1. Packet("stage", "assistant") \in Others /\ Packet("switch", m) \in Others
    BY OtherPackets DEF PacketKinds, Stages
  <2> QED BY <1>1, <1>2, <2>1 DEF Connect, RequestSwitch, Enqueue, PutIn, ingressVars, finalVars
<1>3. CASE BootstrapSend
  <2>1. Head(sending) \in Others /\ Tail(sending) \in Seq(Others)
    BY <1>1, <1>3 DEF BootstrapSend
  <2> QED BY <1>3, <2>1 DEF BootstrapSend, Enqueue, PutIn, ingressVars, clientVars, finalVars
<1>4. ASSUME NEW c \in Comps, Task(c) PROVE PutIn \/ LetBe
  <2>1. Packet("initFailed", "none") \in Others
    BY OtherPackets DEF PacketKinds
  <2> QED BY <1>1, <1>4, <2>1 DEF Task, AsyncInitialized, SwitchClose, SwitchClear, Enqueue,
             PutIn, LetBe, ingressVars, clientVars, finalVars
<1> QED BY <1>2, <1>3, <1>4

LEMMA OnceKept ==
  ASSUME TypeOK, Once, [Next]_vars
  PROVE  Once'
<1>1. bootstrapCh \in Seq(Packets) /\ \A i, j \in Finals(bootstrapCh) : i = j
  BY DEF TypeOK, Once
<1>2. CASE Taken
  <2>1. /\ \A i, j \in Finals(bootstrapCh') : i = j
        /\ Finals(bootstrapCh) = {} => Finals(bootstrapCh') = {}
    BY <1>1, <1>2, OfTaken DEF Taken, Finals
  <2> QED BY <1>2, <2>1 DEF Taken, Once
<1>3. CASE PutIn
  <2>1. Finals(bootstrapCh') = Finals(bootstrapCh)
    BY <1>1, <1>3, OfAppended DEF PutIn, Others, Finals
  <2> QED BY <1>1, <1>3, <2>1 DEF PutIn, Once
<1>4. CASE LetBe
  BY <1>4 DEF LetBe, Once
<1>5. CASE Disconnect
  BY <1>5 DEF Disconnect, Once, finalVars, ingressVars
<1>6. CASE Leave
  <2>1. /\ talk = "leaving" /\ talk' = "done" /\ UNCHANGED <<sending, pause, fin, finNil>>
        /\ bootstrapCh' = Append(bootstrapCh, Packet("finalizeInbound", "none"))
    BY <1>6 DEF Leave, Enqueue, finalVars, ingressVars
  <2>2. Packet("finalizeInbound", "none") \in Packets
    BY DEF Packet, Packets, PacketKinds
  <2>3. Finals(bootstrapCh) = {} /\ pause = "open"
    BY <2>1 DEF Once, TypeOK
  <2>4. \A i, j \in Finals(bootstrapCh') : i = j
    BY <1>1, <2>1, <2>2, <2>3, OfAppended DEF Finals
  <2> QED BY <2>1, <2>3, <2>4 DEF Once
<1>7. CASE HandleFinalizeInboundDispatcher
  <2>1. /\ bootstrapCh # <<>> /\ Head(bootstrapCh).kind = "finalizeInbound"
        /\ bootstrapCh' = Tail(bootstrapCh) /\ pause' = "pausing"
        /\ UNCHANGED <<sending, talk, fin, finNil>>
    BY <1>7 DEF HandleFinalizeInboundDispatcher, Take, clientVars, finalVars
  <2>2. Finals(bootstrapCh) # {} /\ Finals(bootstrapCh') = {}
    BY <1>1, <2>1, OfTaken DEF Finals
  <2>3. talk = "done" /\ pause = "open"
    BY <2>2 DEF Once
  <2> QED BY <2>1, <2>2, <2>3 DEF Once
<1>8. CASE IngressPaused
  BY <1>8 DEF IngressPaused, Once, clientVars
<1>9. CASE Data
  <2>1. UNCHANGED <<bootstrapCh, sending, talk, pause>>
    BY <1>9 DEF Data, Finalize, HandleFinalizationCompleted, ingressVars, clientVars
  <2>2. fin # 0
    BY <1>9 DEF Data, Finalize, HandleFinalizationCompleted
  <2> QED BY <2>1, <2>2 DEF Once
<1>10. CASE Egress \/ Ingress \/ Deadlines \/ UNCHANGED vars
  <2>1. LetBe
    BY <1>10 DEF Egress, HandleModeSwitchError, Ingress, IngressStart, IngressTake, IngressDone,
       IngressStop, IngressStep, Deadlines, ConnectDeadline, ConnectNotify, ConnectAbort, DisconnectDeadline,
       LetBe, vars, ingressVars, clientVars, finalVars
  <2> QED BY <1>4, <2>1
<1> QED BY <1>2, <1>3, <1>4, <1>5, <1>6, <1>7, <1>8, <1>9, <1>10, HandlersTake, ProducersPut
        DEF Next, Talk, Bootstrap

-----------------------------------------------------------------------------
(* Nothing disturbs the chain *)

\* The steps that remain when nothing is in progress.
LEMMA OrderlySteps ==
  ASSUME TypeOK, Once, Undisturbed, orderly, [Next]_vars
  PROVE  \/ Data \/ IngressPaused
         \/ UNCHANGED <<exec, tasks, bootstrapCh, sending, pause, fin, finNil, orderly>>
<1>1. /\ pause # "open" /\ talk = "done" /\ bootstrapCh = <<>> /\ sending = <<>> /\ NoTasks
  BY DEF Undisturbed, Once
<1>2. ~Talk
  BY <1>1 DEF Talk, Connect, RequestSwitch, Disconnect, Leave
<1>3. Bootstrap => IngressPaused
  BY <1>1 DEF Bootstrap, BootstrapSend, HandleStage, HandleExecuteAuthentication,
     HandleSessionAuthenticationSucceeded, HandleInitializationError, HandleInit, HandleSwitchInit,
     DispatchAsync, HandleInitializationCompleted, HandleInitializeInboundDispatcher,
     HandleModeSwitchRequested, HandleModeSwitchCompleted, HandleFinalizeInboundDispatcher, Take
<1>4. \A c \in Comps : ~Task(c)
  <2>1. \A k \in TaskKinds, c \in Comps : tasks[<<k, c>>] = 0
    BY <1>1 DEF NoTasks
  <2>2. \A c \in Comps : /\ tasks[<<"init", c>>] = 0 /\ tasks[<<"swInit", c>>] = 0
                         /\ tasks[<<"swClose", c>>] = 0 /\ tasks[<<"clear", c>>] = 0
    BY <2>1 DEF TaskKinds
  <2> SUFFICES ASSUME NEW c \in Comps, Task(c) PROVE FALSE
    OBVIOUS
  <2>3. \/ tasks[<<"init", c>>] > 0 \/ tasks[<<"swInit", c>>] > 0
        \/ tasks[<<"swClose", c>>] > 0 \/ tasks[<<"clear", c>>] > 0
    BY DEF Task, AsyncInitialized, SwitchClose, SwitchClear, TaskDone
  <2> QED BY <2>2, <2>3
<1>5. Egress \/ Ingress \/ Deadlines \/ UNCHANGED vars =>
        UNCHANGED <<exec, tasks, bootstrapCh, sending, pause, fin, finNil, orderly>>
  BY DEF Egress, HandleModeSwitchError, Ingress, IngressStart, IngressTake, IngressDone,
     IngressStop, IngressStep, Deadlines, ConnectDeadline, ConnectNotify, ConnectAbort, DisconnectDeadline,
     vars, ingressVars, finalVars
<1> QED BY <1>2, <1>3, <1>4, <1>5 DEF Next

\* Only the pause finds a session orderly.
LEMMA OrderlyBegins ==
  ASSUME [Next]_vars, orderly' # orderly
  PROVE  HandleFinalizeInboundDispatcher
BY DEF Next, Talk, Connect, RequestSwitch, Disconnect, Leave, Bootstrap, BootstrapSend, HandleStage,
   HandleExecuteAuthentication, HandleSessionAuthenticationSucceeded, HandleInitializationError,
   HandleInit, HandleSwitchInit, DispatchAsync, HandleInitializationCompleted,
   HandleInitializeInboundDispatcher, HandleModeSwitchRequested, HandleModeSwitchCompleted,
   IngressPaused, Task, AsyncInitialized, SwitchClose, SwitchClear, Egress, HandleModeSwitchError,
   Data, Finalize, HandleFinalizationCompleted, Ingress, IngressStart, IngressTake, IngressDone,
   IngressStop, IngressStep, Deadlines, ConnectDeadline, ConnectNotify, ConnectAbort, DisconnectDeadline, vars

\* A finalizer closes what its field points to, and the field is cleared after.
LEMMA FinalizeStep ==
  ASSUME TypeOK, Numbered, Undisturbed, orderly, Finalize
  PROVE  Undisturbed'
<1>1. /\ pause # "open" /\ bootstrapCh = <<>> /\ sending = <<>> /\ NoTasks
      /\ \A c \in Comps : exec[c].open \subseteq {exec[c].ptr}
      /\ \A i \in 1..Len(FinalizeOrder) :
            i < fin \/ (i = fin /\ finNil) => exec[FinalizeOrder[i]].open = {}
  BY DEF Undisturbed, Orphans
<1>2. UNCHANGED <<pause, bootstrapCh, sending, tasks>>
  BY DEF Finalize, ingressVars
<1> DEFINE c == FinalizeOrder[fin]
<1>3. fin \in 1..Len(FinalizeOrder) /\ Len(FinalizeOrder) \in Nat /\ c \in Comps
      /\ \A i \in 1..Len(FinalizeOrder) : FinalizeOrder[i] \in Comps
  BY FinalizeOrderType DEF Finalize
<1>4. exec \in [Comps -> Instances] /\ exec[c].open \in SUBSET Nat /\ 0 \notin exec[c].open
  BY <1>3 DEF TypeOK, Instances, Numbered
<1>5. \/ ~finNil /\ exec[c].ptr = 0 /\ fin' = fin + 1 /\ UNCHANGED <<exec, finNil>>
      \/ /\ ~finNil /\ exec[c].ptr # 0 /\ CloseCurrent(c)
         /\ \/ finNil' /\ fin' = fin
            \/ ~finNil' /\ fin' = fin + 1
      \/ finNil /\ Clear(c) /\ ~finNil' /\ fin' = fin + 1
  BY DEF Finalize
<1>6. exec'[c].open = {}
  <2>1. CASE exec[c].ptr = 0 /\ UNCHANGED exec
    BY <1>1, <1>3, <1>4, <2>1
  <2>2. CASE CloseCurrent(c)
    BY <1>1, <1>3, <1>4, <2>2 DEF CloseCurrent
  <2>3. CASE finNil /\ Clear(c)
    BY <1>1, <1>3, <1>4, <2>3 DEF Clear
  <2> QED BY <1>5, <2>1, <2>2, <2>3
<1>7. \A d \in Comps \ {c} : exec'[d] = exec[d]
  BY <1>3, <1>4, <1>5 DEF CloseCurrent, Clear
<1>8. \A d \in Comps : exec'[d].open \subseteq {exec'[d].ptr}
  BY <1>1, <1>6, <1>7
<1>9. ASSUME NEW i \in 1..Len(FinalizeOrder), i < fin' \/ (i = fin' /\ finNil')
      PROVE  exec'[FinalizeOrder[i]].open = {}
  <2>1. i < fin \/ i = fin
    BY <1>3, <1>5, <1>9
  <2>2. CASE i = fin
    BY <1>6, <2>2
  <2>3. CASE i < fin
    <3>1. exec[FinalizeOrder[i]].open = {} /\ FinalizeOrder[i] \in Comps
      BY <1>1, <1>3, <2>3
    <3> QED BY <1>6, <1>7, <3>1
  <2> QED BY <2>1, <2>2, <2>3
<1>10. FinalizeOrder' = FinalizeOrder
  BY DEF FinalizeOrder, Final
<1>11. NoTasks'
  BY <1>1, <1>2 DEF NoTasks
<1>12. \A d \in Comps : Orphans(d)' = {}
  BY <1>8 DEF Orphans
<1> QED BY <1>1, <1>2, <1>9, <1>10, <1>11, <1>12 DEF Undisturbed

LEMMA UndisturbedKept ==
  ASSUME TypeOK, Once, Numbered, Undisturbed, [Next]_vars
  PROVE  Undisturbed'
<1>1. FinalizeOrder' = FinalizeOrder
  BY DEF FinalizeOrder, Final
<1>2. CASE HandleFinalizeInboundDispatcher
  <2> SUFFICES ASSUME orderly' PROVE Undisturbed'
    BY DEF Undisturbed
  <2>1. /\ pause' = "pausing" /\ bootstrapCh' = <<>> /\ sending = <<>> /\ NoTasks
        /\ \A c \in Comps : Orphans(c) = {}
        /\ UNCHANGED <<sending, tasks, exec, fin, finNil>>
    BY <1>2 DEF HandleFinalizeInboundDispatcher, Take, finalVars
  <2>2. fin = 0 /\ ~finNil
    <3>1. Head(bootstrapCh).kind = "finalizeInbound" /\ bootstrapCh # <<>> /\ bootstrapCh \in Seq(Packets)
      BY <1>2 DEF HandleFinalizeInboundDispatcher, Take, TypeOK
    <3>2. Finals(bootstrapCh) # {}
      BY <3>1, OfTaken DEF Once, Finals
    <3> QED BY <3>2 DEF Once
  <2>3. \A i \in 1..Len(FinalizeOrder) : ~(i < fin') /\ ~(i = fin' /\ finNil')
    BY <2>1, <2>2
  <2>4. NoTasks' /\ \A c \in Comps : Orphans(c)' = {}
    BY <2>1 DEF NoTasks, Orphans
  <2> QED BY <1>1, <2>1, <2>3, <2>4 DEF Undisturbed
<1>3. CASE ~HandleFinalizeInboundDispatcher
  <2> SUFFICES ASSUME orderly' PROVE Undisturbed'
    BY DEF Undisturbed
  <2>1. orderly
    BY <1>3, OrderlyBegins
  <2>2. CASE Finalize
    BY <2>1, <2>2, FinalizeStep
  <2>3. CASE HandleFinalizationCompleted
    <3>1. /\ fin = Len(FinalizeOrder) + 1 /\ fin' = fin + 1
          /\ UNCHANGED <<exec, tasks, bootstrapCh, sending, pause, finNil>>
      BY <2>3 DEF HandleFinalizationCompleted, ingressVars
    <3>2. Len(FinalizeOrder) \in Nat /\ \A i \in 1..Len(FinalizeOrder) : i < fin
      BY <3>1, FinalizeOrderType
    <3> QED BY <1>1, <2>1, <3>1, <3>2 DEF Undisturbed, NoTasks, Orphans
  <2>4. CASE IngressPaused
    <3>1. /\ pause' = "paused" /\ fin' \in {1, fin} /\ fin = 0 /\ ~finNil
          /\ UNCHANGED <<exec, tasks, bootstrapCh, sending, finNil>>
      BY <2>4 DEF IngressPaused, Once
    <3>2. \A i \in 1..Len(FinalizeOrder) : ~(i < fin') /\ ~(i = fin' /\ finNil')
      BY <3>1
    <3> QED BY <1>1, <2>1, <3>1, <3>2 DEF Undisturbed, NoTasks, Orphans
  <2>5. CASE UNCHANGED <<exec, tasks, bootstrapCh, sending, pause, fin, finNil, orderly>>
    BY <1>1, <2>1, <2>5 DEF Undisturbed, NoTasks, Orphans
  <2> QED BY <2>1, <2>2, <2>3, <2>4, <2>5, OrderlySteps DEF Data
<1> QED BY <1>2, <1>3

\* Only the end of the chain disconnects the session.
LEMMA LastStepKept ==
  ASSUME TypeOK, Once, LastStep, [Next]_vars
  PROVE  LastStep'
<1>1. FinalizeOrder' = FinalizeOrder /\ Len(FinalizeOrder) \in Nat
  BY FinalizeOrderType DEF FinalizeOrder, Final
<1>2. \A e \in DOMAIN EventTarget : e # "DisconnectCompleted" =>
         (Transition(life, e) = "Disconnected" => life = "Disconnected")
  BY DEF Transition, EventTarget
<1>3. CASE HandleFinalizationCompleted
  <2>1. fin' = Len(FinalizeOrder) + 2
    BY <1>1, <1>3 DEF HandleFinalizationCompleted
  <2> QED BY <1>1, <2>1 DEF LastStep
<1>4. CASE ~HandleFinalizationCompleted
  <2> SUFFICES ASSUME life' = "Disconnected" PROVE fin' > Len(FinalizeOrder)
    BY <1>1 DEF LastStep
  <2>1. life = "Disconnected"
    BY <1>2, <1>4 DEF Next, Talk, Connect, RequestSwitch, Disconnect, Leave, Bootstrap, BootstrapSend,
       HandleStage, HandleExecuteAuthentication, HandleSessionAuthenticationSucceeded,
       HandleInitializationError, HandleInit, HandleSwitchInit, DispatchAsync,
       HandleInitializationCompleted, HandleInitializeInboundDispatcher, HandleModeSwitchRequested,
       HandleModeSwitchCompleted, HandleFinalizeInboundDispatcher, IngressPaused, Task,
       AsyncInitialized, SwitchClose, SwitchClear, Egress, HandleModeSwitchError, Data, Finalize,
       Ingress, IngressStart, IngressTake, IngressDone, IngressStop, IngressStep, Deadlines,
       ConnectDeadline, ConnectNotify, ConnectAbort, DisconnectDeadline, vars, EventTarget
  <2>2. fin > Len(FinalizeOrder) /\ fin # 0
    BY <1>1, <2>1 DEF LastStep, TypeOK
  <2>3. pause = "paused"
    BY <2>2 DEF Once
  <2>4. ~IngressPaused
    BY <2>3 DEF IngressPaused
  <2>5. ~Finalize
    BY <1>1, <2>2 DEF Finalize, TypeOK
  <2>6. UNCHANGED fin
    BY <1>4, <2>4, <2>5 DEF Next, Talk, Connect, RequestSwitch, Disconnect, Leave, Bootstrap,
       BootstrapSend, HandleStage, HandleExecuteAuthentication, HandleSessionAuthenticationSucceeded,
       HandleInitializationError, HandleInit, HandleSwitchInit, DispatchAsync,
       HandleInitializationCompleted, HandleInitializeInboundDispatcher, HandleModeSwitchRequested,
       HandleModeSwitchCompleted, HandleFinalizeInboundDispatcher, Task,
       AsyncInitialized, SwitchClose, SwitchClear, Egress, HandleModeSwitchError, Data,
       Ingress, IngressStart, IngressTake, IngressDone, IngressStop, IngressStep, Deadlines,
       ConnectDeadline, ConnectNotify, ConnectAbort, DisconnectDeadline, vars, finalVars
  <2> QED BY <2>2, <2>6
<1> QED BY <1>3, <1>4

\* For every set of executors and every number of switch requests: a session whose
\* disconnect found nothing in progress is disconnected only when every executor
\* but the denoiser is closed, whatever the deadlines and the consumer did meanwhile.
THEOREM TeardownComplete == Spec => []OrderlyTeardown
<1>1. Init => Once /\ Numbered /\ Undisturbed /\ LastStep
  <2> SUFFICES ASSUME Init PROVE Once /\ Numbered /\ Undisturbed /\ LastStep
    OBVIOUS
  <2>1. Finals(bootstrapCh) = {}
    BY DEF Init, Finals, Of
  <2>2. Once
    BY <2>1 DEF Init, Once
  <2> QED BY <2>2 DEF Init, Numbered, Undisturbed, LastStep
<1>2. /\ TypeOK /\ Once /\ Numbered /\ Undisturbed /\ LastStep /\ [Next]_vars
      => Once' /\ Numbered' /\ Undisturbed' /\ LastStep'
  BY OnceKept, NumberedKept, UndisturbedKept, LastStepKept
<1>3. TypeOK /\ Undisturbed /\ LastStep => OrderlyTeardown
  <2> SUFFICES ASSUME TypeOK, Undisturbed, LastStep, orderly, life = "Disconnected",
                      NEW c \in Comps \ {"denoise"}
               PROVE  exec[c].open = {}
    BY DEF OrderlyTeardown
  <2>1. PICK i \in 1..Len(FinalizeOrder) : FinalizeOrder[i] = c
    BY FinalizeOrderComplete DEF Lists
  <2>2. i < fin
    BY FinalizeOrderType DEF LastStep, TypeOK
  <2> QED BY <2>1, <2>2 DEF Undisturbed
<1>4. QED
  BY <1>1, <1>2, <1>3, TypeCorrect, PTL DEF Spec

-----------------------------------------------------------------------------
(* The session keeps its contract.  The initialization is a single thread of *)
(* packets: at most one of them is on its way, none before the session       *)
(* connects or after the ingress consumer was started.                       *)

Thread == {"stage", "authSucceeded", "initCompleted", "inbound"}
Strands(q) == Of(q, Thread)
Free == {p \in Packets : p.kind \notin Thread}

AtMostOne(q) == \A i, j \in Strands(q) : i = j

OneThread ==
  /\ AtMostOne(bootstrapCh) /\ AtMostOne(sending)
  /\ Strands(bootstrapCh) = {} \/ Strands(sending) = {}
  /\ life = "New" \/ ingress # "none" => Strands(bootstrapCh) = {} /\ Strands(sending) = {}
  /\ life = "New" => ingress = "none"

\* What runs only in a session that was begun, or that is closing.
Timely ==
  /\ connectTimer # "off" \/ disconnectTimer # "off" => life # "New"
  /\ talk # "receiving" => life \in {"Disconnecting", "Disconnected"}

\* The lifecycle never goes back to its beginning, and never reopens.
LEMMA LifeMoves ==
  ASSUME TypeOK, [Next]_vars
  PROVE  /\ life # "New" => life' # "New"
         /\ life \in {"Disconnecting", "Disconnected"} => life' \in {"Disconnecting", "Disconnected"}
         /\ life = "Failed" => life' \in {"Failed", "Disconnecting"}
<1>1. UNCHANGED life \/ \E e \in DOMAIN EventTarget : life' = Transition(life, e)
  BY DEF Next, Talk, Connect, RequestSwitch, Disconnect, Leave, Bootstrap, BootstrapSend,
     HandleStage, HandleExecuteAuthentication, HandleSessionAuthenticationSucceeded,
     HandleInitializationError, HandleInit, HandleSwitchInit, DispatchAsync,
     HandleInitializationCompleted, HandleInitializeInboundDispatcher, HandleModeSwitchRequested,
     HandleModeSwitchCompleted, HandleFinalizeInboundDispatcher, IngressPaused, Task,
     AsyncInitialized, SwitchClose, SwitchClear, Egress, HandleModeSwitchError, Data, Finalize,
     HandleFinalizationCompleted, Ingress, IngressStart, IngressTake, IngressDone, IngressStop,
     IngressStep, Deadlines, ConnectDeadline, ConnectNotify, ConnectAbort, DisconnectDeadline, vars, EventTarget
<1>2. \A e \in DOMAIN EventTarget :
        /\ life # "New" => Transition(life, e) # "New"
        /\ life \in {"Disconnecting", "Disconnected"} =>
             Transition(life, e) \in {"Disconnecting", "Disconnected"}
        /\ life = "Failed" => Transition(life, e) \in {"Failed", "Disconnecting"}
  BY DEF Transition, CanBe, EventSources, EventTarget
<1> QED BY <1>1, <1>2

LEMMA TimelyKept ==
  ASSUME TypeOK, Timely, [Next]_vars
  PROVE  Timely'
<1>1. CASE \E m \in StreamModes : Connect(m)
  <2>1. /\ life' = "Initializing" /\ UNCHANGED <<talk, disconnectTimer>> /\ talk = "receiving"
    BY <1>1 DEF Connect, Transition, EventTarget, clientVars, timerVars
  <2> QED BY <2>1 DEF Timely
<1>2. CASE Disconnect
  <2>1. life' = "Disconnecting"
    BY <1>2 DEF Disconnect, Transition, EventTarget
  <2> QED BY <2>1 DEF Timely
<1>3. CASE Leave
  BY <1>3 DEF Leave, Timely, timerVars
<1>4. CASE Deadlines
  BY <1>4 DEF Deadlines, ConnectDeadline, ConnectNotify, ConnectAbort, DisconnectDeadline, Timely, clientVars
<1>5. CASE ~(Disconnect \/ Leave \/ Deadlines \/ \E m \in StreamModes : Connect(m))
  <2>1. UNCHANGED <<talk, connectTimer, disconnectTimer>>
    BY <1>5 DEF Next, Talk, RequestSwitch, Bootstrap, BootstrapSend,
       HandleStage, HandleExecuteAuthentication, HandleSessionAuthenticationSucceeded,
       HandleInitializationError, HandleInit, HandleSwitchInit, DispatchAsync,
       HandleInitializationCompleted, HandleInitializeInboundDispatcher, HandleModeSwitchRequested,
       HandleModeSwitchCompleted, HandleFinalizeInboundDispatcher, IngressPaused, Task,
       AsyncInitialized, SwitchClose, SwitchClear, Egress, HandleModeSwitchError, Data, Finalize,
       HandleFinalizationCompleted, Ingress, IngressStart, IngressTake, IngressDone, IngressStop,
       IngressStep, vars, clientVars, timerVars
  <2> QED BY <2>1, LifeMoves DEF Timely
<1> QED BY <1>1, <1>2, <1>3, <1>4, <1>5

\* What a chain adds to the thread.
LEMMA NoStrands ==
  ASSUME NEW s \in Seq(Free)
  PROVE  Strands(s) = {}
BY DEF Strands, Of, Free

LEMMA OneAtEnd ==
  ASSUME NEW s \in Seq(Free), NEW p \in Packets
  PROVE  AtMostOne(s \o <<p>>)
<1>1. s \in Seq(Packets) /\ s \o <<p>> = Append(s, p)
  BY DEF Free
<1>2. Of(s, Thread) = {}
  BY NoStrands DEF Strands
<1>3. \A i, j \in Of(Append(s, p), Thread) : i = j
  BY <1>1, <1>2, OfAppended
<1> QED BY <1>1, <1>3 DEF AtMostOne, Strands

LEMMA ThreadChains ==
  /\ \A s \in Stages : AtMostOne(AfterStage(s))
  /\ \A m \in StreamModes \cup {"none"} : AtMostOne(BootChain(m))
  /\ \A m \in {"text", "audio"} : Strands(SwitchChain(m)) = {}
  /\ Strands(InitFailed) = {} /\ Strands(<<>>) = {}
  /\ Strands(<<Packet("authFailed", "none")>>) = {}
  /\ AtMostOne(<<Packet("inbound", "none")>>)
<1>1. ASSUME NEW k \in PacketKinds \ Thread, NEW a \in Stages \cup Executors \cup StreamModes \cup {"none"}
      PROVE Packet(k, a) \in Free
  BY DEF Free, Packet, Packets
<1>2. \A c \in Executors : /\ Packet("init", c) \in Free /\ Packet("swInit", c) \in Free
                           /\ Packet("swClose", c) \in Free
  BY <1>1 DEF PacketKinds, Thread
<1>3. <<>> \in Seq(Free) /\ \A c \in Executors : If(c, "init") \in Seq(Free)
  BY <1>2 DEF If
<1>4. \A p \in Packets : AtMostOne(<<p>>)
  <2> TAKE p \in Packets
  <2>1. <<>> \o <<p>> = <<p>>
    OBVIOUS
  <2> QED BY <1>3, <2>1, OneAtEnd
<1>5. ASSUME NEW s \in Stages PROVE AtMostOne(AfterStage(s))
  <2>1. Packet("authSucceeded", "none") \in Packets
    BY DEF Packets, Packet, PacketKinds
  <2>2. s # "execute" => Packet("stage", NextStage[s]) \in Packets
    BY DEF Packets, Packet, PacketKinds, Stages, NextStage
  <2>3. If("recorder", "init") \in Seq(Free)
    BY <1>3 DEF Executors
  <2>4. AtMostOne(<<Packet("authSucceeded", "none")>>)
    BY <1>4, <2>1
  <2>5. s # "execute" => /\ AtMostOne(<<Packet("stage", NextStage[s])>>)
                         /\ AtMostOne(If("recorder", "init") \o <<Packet("stage", NextStage[s])>>)
    BY <1>4, <2>2, <2>3, OneAtEnd
  <2>6. AfterStage(s) = IF s = "execute" THEN <<Packet("authSucceeded", "none")>>
                        ELSE IF s = "runtime"
                             THEN If("recorder", "init") \o <<Packet("stage", NextStage[s])>>
                             ELSE <<Packet("stage", NextStage[s])>>
    BY DEF AfterStage
  <2> QED BY <2>4, <2>5, <2>6, Zenon
<1>6. ASSUME NEW m \in StreamModes \cup {"none"} PROVE AtMostOne(BootChain(m))
  <2>1. Packet("initCompleted", "none") \in Packets
    BY DEF Packets, Packet, PacketKinds
  <2>2. If("llm", "init") \in Seq(Free)
    BY <1>3 DEF Executors
  <2>3. If("stt", "init") \o If("tts", "init") \o If("llm", "init")
          \o If("vad", "init") \o If("eos", "init") \o If("denoise", "init") \in Seq(Free)
    BY <1>2, AudioChainIn
  <2>4. AtMostOne(<<>>)
    BY <1>3, NoStrands DEF AtMostOne
  <2> QED BY <2>1, <2>2, <2>3, <2>4, OneAtEnd DEF BootChain
<1>7. ASSUME NEW m \in {"text", "audio"} PROVE Strands(SwitchChain(m)) = {}
  <2>1. Packet("swCompleted", m) \in Free
    BY <1>1 DEF PacketKinds, Thread, StreamModes
  <2> QED BY <1>2, <2>1, SwitchChainIn, NoStrands
<1>8. Strands(InitFailed) = {} /\ Strands(<<Packet("authFailed", "none")>>) = {}
  <2>1. Packet("initFailed", "none") \in Free /\ Packet("authFailed", "none") \in Free
    BY <1>1 DEF PacketKinds, Thread
  <2>2. <<Packet("initFailed", "none")>> \in Seq(Free) /\ <<Packet("authFailed", "none")>> \in Seq(Free)
    BY <2>1
  <2> QED BY <2>2, NoStrands DEF InitFailed
<1>9. AtMostOne(<<Packet("inbound", "none")>>)
  BY <1>4 DEF Packets, Packet, PacketKinds
<1> QED BY <1>3, <1>5, <1>6, <1>7, <1>8, <1>9, NoStrands

\* A handler outside the thread adds nothing to it.
LEMMA TakeAside ==
  ASSUME TypeOK, OneThread, NEW k, k \notin Thread, Take(k), Strands(sending') = {},
         UNCHANGED ingress, life # "New" => life' # "New"
  PROVE  OneThread'
<1>1. bootstrapCh \in Seq(Packets) /\ bootstrapCh # <<>> /\ bootstrapCh' = Tail(bootstrapCh)
  BY DEF TypeOK, Take
<1>2. AtMostOne(bootstrapCh') /\ (Strands(bootstrapCh) = {} => Strands(bootstrapCh') = {})
  BY <1>1, OfTaken DEF OneThread, AtMostOne, Strands
<1> QED BY <1>2 DEF OneThread, AtMostOne

\* One of the thread takes it off the queue and carries it on.
LEMMA TakeOnThread ==
  ASSUME TypeOK, OneThread, NEW k \in Thread, Take(k), AtMostOne(sending'), UNCHANGED ingress,
         life # "New" => life' # "New"
  PROVE  OneThread' /\ life # "New" /\ ingress = "none"
<1>1. /\ bootstrapCh \in Seq(Packets) /\ bootstrapCh # <<>> /\ bootstrapCh' = Tail(bootstrapCh)
      /\ Head(bootstrapCh).kind \in Thread
  BY DEF TypeOK, Take
<1>2. Strands(bootstrapCh) # {} /\ Strands(bootstrapCh') = {}
  BY <1>1, OfTaken DEF OneThread, AtMostOne, Strands
<1> QED BY <1>2 DEF OneThread, AtMostOne

\* The serial handlers carry the thread on, the others leave it where it is.
LEMMA ThreadSteps ==
  ASSUME TypeOK, OneThread, [Next]_vars,
         \/ \E s \in Stages : HandleStage(s)
         \/ HandleExecuteAuthentication \/ HandleSessionAuthenticationSucceeded
         \/ HandleInitializationCompleted
  PROVE  OneThread'
<1>1. life # "New" => life' # "New"
  BY LifeMoves
<1>2. UNCHANGED ingress
  BY DEF HandleStage, HandleExecuteAuthentication, HandleSessionAuthenticationSucceeded,
     HandleInitializationCompleted, ingressVars
<1>3. Take("stage") \/ Take("authSucceeded") \/ Take("initCompleted")
  BY DEF HandleStage, HandleExecuteAuthentication, HandleSessionAuthenticationSucceeded,
     HandleInitializationCompleted
<1>4. AtMostOne(sending')
  <2>1. ASSUME NEW s, Strands(s) = {} PROVE AtMostOne(s)
    BY <2>1 DEF AtMostOne
  <2>2. ASSUME NEW s \in Stages, HandleStage(s) PROVE AtMostOne(sending')
    BY <2>1, <2>2, ThreadChains DEF HandleStage
  <2>3. CASE HandleExecuteAuthentication
    <3>1. "execute" \in Stages
      BY DEF Stages
    <3>2. sending' = AfterStage("execute") \/ sending' = <<Packet("authFailed", "none")>>
      BY <2>3 DEF HandleExecuteAuthentication
    <3> QED BY <2>1, <3>1, <3>2, ThreadChains
  <2>4. CASE HandleSessionAuthenticationSucceeded
    <3>1. sending' = BootChain(config) /\ config \in StreamModes \cup {"none"}
      BY <2>4 DEF HandleSessionAuthenticationSucceeded, TypeOK
    <3> QED BY <3>1, ThreadChains
  <2>5. CASE HandleInitializationCompleted
    BY <2>5, ThreadChains DEF HandleInitializationCompleted
  <2> QED BY <2>2, <2>3, <2>4, <2>5
<1>5. "stage" \in Thread /\ "authSucceeded" \in Thread /\ "initCompleted" \in Thread
  BY DEF Thread
<1> QED BY <1>1, <1>2, <1>3, <1>4, <1>5, TakeOnThread

LEMMA AsideSteps ==
  ASSUME TypeOK, OneThread, [Next]_vars,
         \/ HandleInitializationError
         \/ \E c \in Comps : HandleInit(c) \/ HandleSwitchInit(c) \/ DispatchAsync(c)
         \/ \E m \in StreamModes : HandleModeSwitchRequested(m)
         \/ HandleModeSwitchCompleted \/ HandleFinalizeInboundDispatcher
  PROVE  OneThread'
<1>1. life # "New" => life' # "New"
  BY LifeMoves
<1>2. UNCHANGED ingress
  BY DEF HandleInitializationError, HandleInit, HandleSwitchInit, DispatchAsync,
     HandleModeSwitchRequested, HandleModeSwitchCompleted, HandleFinalizeInboundDispatcher, ingressVars
<1>3. \/ Take("authFailed") \/ Take("initFailed") \/ Take("init") \/ Take("swInit") \/ Take("swClose")
      \/ Take("switch") \/ Take("swCompleted") \/ Take("finalizeInbound")
  BY DEF HandleInitializationError, HandleInit, HandleSwitchInit, DispatchAsync,
     HandleModeSwitchRequested, HandleModeSwitchCompleted, HandleFinalizeInboundDispatcher
<1>4. Strands(sending') = {}
  <2>1. sending = <<>>
    BY <1>3 DEF Take
  <2>2. \/ sending' = sending \/ sending' = InitFailed
        \/ \E m \in {"text", "audio"} : sending' = SwitchChain(m)
    BY DEF HandleInitializationError, HandleInit, HandleSwitchInit, DispatchAsync,
       HandleModeSwitchRequested, HandleModeSwitchCompleted, HandleFinalizeInboundDispatcher
  <2> QED BY <2>1, <2>2, ThreadChains
<1>5. {"authFailed", "initFailed", "init", "swInit", "swClose", "switch", "swCompleted",
       "finalizeInbound"} \cap Thread = {}
  BY DEF Thread
<1> QED BY <1>1, <1>2, <1>3, <1>4, <1>5, TakeAside

\* A packet of no thread put behind the others changes nothing of it.
LEMMA PutAside ==
  ASSUME TypeOK, OneThread, NEW p \in Free, Enqueue(p), UNCHANGED <<sending, ingress>>,
         life # "New" => life' # "New"
  PROVE  OneThread'
<1>1. bootstrapCh \in Seq(Packets) /\ p \in Packets /\ p.kind \notin Thread
      /\ bootstrapCh' = Append(bootstrapCh, p)
  BY DEF TypeOK, Free, Enqueue
<1>2. Strands(bootstrapCh') = Strands(bootstrapCh)
  BY <1>1, OfAppended DEF Strands
<1> QED BY <1>2 DEF OneThread, AtMostOne

LEMMA OneThreadKept ==
  ASSUME TypeOK, OneThread, [Next]_vars
  PROVE  OneThread'
<1>1. life # "New" => life' # "New"
  BY LifeMoves
<1>2. bootstrapCh \in Seq(Packets) /\ sending \in Seq(Packets)
  BY DEF TypeOK
<1>3. ASSUME UNCHANGED <<bootstrapCh, sending>>, ingress' = "none" <=> ingress = "none"
      PROVE  OneThread'
  BY <1>1, <1>3 DEF OneThread, AtMostOne
<1>4. ASSUME NEW m \in StreamModes, Connect(m) PROVE OneThread'
  <2>1. /\ life = "New" /\ life' = "Initializing" /\ UNCHANGED <<sending, ingress>>
        /\ bootstrapCh' = Append(bootstrapCh, Packet("stage", "assistant"))
    BY <1>4 DEF Connect, Enqueue, CanBe, Transition, EventSources, EventTarget, ingressVars
  <2>2. Packet("stage", "assistant") \in Packets
    BY DEF Packets, Packet, PacketKinds, Stages
  <2>3. Strands(bootstrapCh) = {} /\ Strands(sending) = {} /\ ingress = "none"
    BY <2>1 DEF OneThread
  <2>4. AtMostOne(bootstrapCh')
    BY <1>2, <2>1, <2>2, <2>3, OfAppended DEF AtMostOne, Strands
  <2> QED BY <2>1, <2>3, <2>4 DEF OneThread, AtMostOne
<1>5. ASSUME NEW m \in StreamModes, RequestSwitch(m) PROVE OneThread'
  <2>1. Packet("switch", m) \in Free
    BY DEF Free, Packet, Packets, PacketKinds, Thread
  <2> QED BY <1>1, <1>5, <2>1, PutAside DEF RequestSwitch, ingressVars
<1>6. CASE Leave
  <2>1. Packet("finalizeInbound", "none") \in Free
    BY DEF Free, Packet, Packets, PacketKinds, Thread
  <2> QED BY <1>1, <1>6, <2>1, PutAside DEF Leave, ingressVars
<1>7. CASE Disconnect
  BY <1>3, <1>7 DEF Disconnect, ingressVars
<1>8. CASE BootstrapSend
  <2>1. /\ sending # <<>> /\ bootstrapCh' = Append(bootstrapCh, Head(sending))
        /\ sending' = Tail(sending) /\ UNCHANGED ingress
    BY <1>8 DEF BootstrapSend, Enqueue, ingressVars
  <2>2. /\ AtMostOne(sending') /\ (Strands(sending) = {} => Strands(sending') = {})
        /\ Head(sending).kind \in Thread => Strands(sending) # {} /\ Strands(sending') = {}
    BY <1>2, <2>1, OfTaken DEF OneThread, AtMostOne, Strands
  <2>3. Head(sending) \in Packets
    BY <1>2, <2>1
  <2>4. /\ Head(sending).kind \notin Thread => Strands(bootstrapCh') = Strands(bootstrapCh)
        /\ Strands(bootstrapCh) = {} => AtMostOne(bootstrapCh')
    BY <1>2, <2>1, <2>3, OfAppended DEF AtMostOne, Strands
  <2>5. CASE Head(sending).kind \in Thread
    BY <1>1, <2>1, <2>2, <2>4, <2>5 DEF OneThread, AtMostOne
  <2>6. CASE Head(sending).kind \notin Thread
    BY <1>1, <2>1, <2>2, <2>4, <2>6 DEF OneThread, AtMostOne
  <2> QED BY <2>5, <2>6
<1>9. CASE HandleInitializeInboundDispatcher
  <2>1. /\ bootstrapCh # <<>> /\ bootstrapCh' = Tail(bootstrapCh) /\ sending = <<>> /\ UNCHANGED sending
        /\ Head(bootstrapCh).kind \in Thread
    BY <1>9 DEF HandleInitializeInboundDispatcher, Take, Thread
  <2>2. Strands(bootstrapCh') = {} /\ Strands(bootstrapCh) # {}
    BY <1>2, <2>1, OfTaken DEF OneThread, AtMostOne, Strands
  <2>3. Strands(sending') = {}
    BY <2>1, ThreadChains
  <2>4. life # "New"
    BY <2>2 DEF OneThread
  <2> QED BY <1>1, <2>2, <2>3, <2>4 DEF OneThread, AtMostOne
<1>10. ASSUME NEW c \in Comps, Task(c) PROVE OneThread'
  <2>1. UNCHANGED <<sending, ingress>>
    BY <1>10 DEF Task, AsyncInitialized, SwitchClose, SwitchClear, ingressVars
  <2>2. UNCHANGED bootstrapCh \/ Enqueue(Packet("initFailed", "none"))
    BY <1>10 DEF Task, AsyncInitialized, SwitchClose, SwitchClear
  <2>3. Packet("initFailed", "none") \in Free
    BY DEF Free, Packet, Packets, PacketKinds, Thread
  <2> QED BY <1>1, <1>3, <2>1, <2>2, <2>3, PutAside
<1>11. CASE IngressPaused \/ Egress \/ Data \/ Deadlines \/ UNCHANGED vars
  <2>1. UNCHANGED <<bootstrapCh, sending, ingress>>
    BY <1>11 DEF IngressPaused, Egress, HandleModeSwitchError, Data, Finalize,
       HandleFinalizationCompleted, Deadlines, ConnectDeadline, ConnectNotify, ConnectAbort, DisconnectDeadline,
       vars, ingressVars
  <2> QED BY <1>3, <2>1
<1>12. CASE Ingress
  <2>1. UNCHANGED <<bootstrapCh, sending>> /\ ingress # "none" /\ ingress' # "none"
    BY <1>12 DEF Ingress, IngressStart, IngressTake, IngressDone, IngressStop, IngressStep
  <2> QED BY <1>3, <2>1
<1> QED BY <1>4, <1>5, <1>6, <1>7, <1>8, <1>9, <1>10, <1>11, <1>12, ThreadSteps, AsideSteps
        DEF Next, Talk, Bootstrap

-----------------------------------------------------------------------------
(* The refinement *)

\* What the mapping makes of a state.
LEMMA PhaseValue ==
  /\ cancelled => phase = "ended"
  /\ ~cancelled =>
       /\ life = "New" => phase = "new"
       /\ life = "Initializing" => phase = "opening"
       /\ life \in {"Ready", "Switching"} => phase = "open"
       /\ life = "Failed" => phase = "broken"
       /\ life \in {"Disconnecting", "Disconnected"} => phase = "closing"
BY DEF phase

\* A step that leaves alone what the mapping looks at is a stutter.
LEMMA Unseen ==
  ASSUME UNCHANGED <<life, cancelled, ingress, established>>
  PROVE  UNCHANGED <<phase, Admitted, serving>>
BY DEF phase, serving, Admitted

ContractMove == Contract!ContractNext \/ UNCHANGED <<phase, Admitted, serving>>

\* A transition of the lifecycle, the last one apart, is a move of the contract.
LEMMA LifeStep ==
  ASSUME TypeOK, NEW e \in DOMAIN EventTarget, e # "DisconnectCompleted",
         life' = Transition(life, e), UNCHANGED <<cancelled, ingress, established>>,
         e = "InitializationCompleted" => Admitted
  PROVE  ContractMove
<1>1. UNCHANGED <<serving, Admitted>>
  BY DEF serving, Admitted
<1>2. CASE cancelled
  <2>1. phase' = phase
    BY <1>2 DEF phase
  <2> QED BY <1>1, <2>1 DEF ContractMove
<1>3. CASE ~CanBe(life, e)
  BY <1>3, Unseen DEF Transition, ContractMove
<1>4. CASE ~cancelled /\ CanBe(life, e)
  <2>1. ~cancelled' /\ life' = EventTarget[e] /\ life \in EventSources[e]
    BY <1>4 DEF Transition, CanBe
  <2>2. CASE e = "ConnectRequested"
    <3>1. phase = "new" /\ phase' = "opening"
      BY <1>4, <2>1, <2>2 DEF EventTarget, EventSources, phase
    <3> QED BY <1>1, <3>1 DEF ContractMove, Contract!ContractNext, Contract!Begin
  <2>3. CASE e = "InitializationCompleted"
    <3>1. phase = "opening" /\ phase' = "open"
      BY <1>4, <2>1, <2>3 DEF EventTarget, EventSources, phase
    <3> QED BY <1>1, <2>3, <3>1 DEF ContractMove, Contract!ContractNext, Contract!Open
  <2>4. CASE e \in {"InitializationFailed", "SwitchFailedFatal"}
    <3>1. phase \in {"opening", "open"} /\ phase' = "broken"
      BY <1>4, <2>1, <2>4 DEF EventTarget, EventSources, phase
    <3> QED BY <1>1, <3>1 DEF ContractMove, Contract!ContractNext, Contract!Break
  <2>5. CASE e \in {"SwitchRequested", "SwitchCompleted", "SwitchFailedRecoverable"}
    <3>1. phase = "open" /\ phase' = "open"
      BY <1>4, <2>1, <2>5 DEF EventTarget, EventSources, phase
    <3> QED BY <1>1, <3>1 DEF ContractMove
  <2>6. CASE e = "DisconnectRequested"
    <3>1. phase \in {"new", "opening", "open", "broken"} /\ phase' = "closing"
      BY <1>4, <2>1, <2>6 DEF EventTarget, EventSources, phase
    <3> QED BY <1>1, <3>1 DEF ContractMove, Contract!ContractNext, Contract!Leave
  <2> QED BY <2>2, <2>3, <2>4, <2>5, <2>6 DEF EventTarget
<1> QED BY <1>2, <1>3, <1>4

\* Whoever cancels the session ends one that was begun.
LEMMA EndStep ==
  ASSUME TypeOK, life # "New" \/ cancelled, cancelled', UNCHANGED <<ingress, established>>
  PROVE  ContractMove
<1>1. UNCHANGED <<serving, Admitted>> /\ phase' = "ended"
  BY DEF serving, Admitted, phase
<1>2. CASE cancelled
  BY <1>1, <1>2 DEF phase, ContractMove
<1>3. CASE ~cancelled
  <2>1. phase \notin {"new", "ended"}
    BY <1>3, PhaseValue DEF TypeOK, LifeStates
  <2> QED BY <1>1, <2>1 DEF ContractMove, Contract!ContractNext, Contract!End
<1> QED BY <1>2, <1>3

\* A stage that succeeds may be the one that admits the user.
LEMMA AdmitStep ==
  ASSUME TypeOK, TypeOK', established \subseteq established', UNCHANGED <<life, cancelled, ingress>>
  PROVE  ContractMove
<1>1. UNCHANGED <<phase, serving>>
  BY DEF phase, serving
<1>2. established \subseteq Stages /\ established' \subseteq Stages
  BY DEF TypeOK
<1>3. CASE established = Stages \/ established' # Stages
  <2>1. Admitted' <=> Admitted
    BY <1>2, <1>3 DEF Admitted
  <2>2. Admitted' = Admitted
    BY <2>1 DEF Admitted
  <2> QED BY <1>1, <2>2 DEF ContractMove
<1>4. CASE established # Stages /\ established' = Stages
  <2>1. ~Admitted /\ Admitted' = TRUE
    BY <1>4 DEF Admitted
  <2> QED BY <1>1, <2>1 DEF ContractMove, Contract!ContractNext, Contract!Admit
<1> QED BY <1>3, <1>4

LEMMA ServeStep ==
  ASSUME TypeOK, AuthGate, Once, Timely, Ingress
  PROVE  ContractMove
<1>1. UNCHANGED <<phase, Admitted>>
  <2>1. UNCHANGED <<life, cancelled, established>>
    BY DEF Ingress, IngressStart, IngressTake, IngressDone, IngressStop, IngressStep, finalVars
  <2> QED BY <2>1 DEF phase, Admitted
<1>2. CASE IngressStart
  <2>1. ingress = "spawned" /\ ingress' = "running"
    BY <1>2 DEF IngressStart, IngressStep
  <2>2. Admitted /\ serving = "not yet" /\ serving' = "serving"
    BY <2>1 DEF AuthGate, serving
  <2> QED BY <1>1, <2>2 DEF ContractMove, Contract!ContractNext, Contract!Serve
<1>3. CASE IngressTake \/ IngressDone
  <2>1. ingress \in {"running", "handling"} /\ ingress' \in {"running", "handling"}
    BY <1>3 DEF IngressTake, IngressDone, IngressStep
  <2>2. serving' = serving
    BY <2>1 DEF serving
  <2> QED BY <1>1, <2>2 DEF ContractMove
<1>4. CASE IngressStop
  <2>1. ingress = "running" /\ ingress' = "stopped" /\ (pause # "open" \/ cancelled)
    BY <1>4 DEF IngressStop, IngressStep
  <2>2. serving = "serving" /\ serving' = "over"
    BY <2>1 DEF serving
  <2>3. phase \in {"closing", "ended"}
    <3>1. cancelled \/ talk = "done"
      BY <2>1 DEF Once
    <3>2. cancelled \/ life \in {"Disconnecting", "Disconnected"}
      BY <3>1 DEF Timely
    <3> QED BY <3>2, PhaseValue
  <2> QED BY <1>1, <2>2, <2>3 DEF ContractMove, Contract!ContractNext, Contract!Rest
<1> QED BY <1>2, <1>3, <1>4 DEF Ingress

\* The handlers, by what they change that the mapping looks at.
LEMMA LifeSteps ==
  ASSUME IInv,
         \/ \E m \in StreamModes : Connect(m) \/ HandleModeSwitchRequested(m)
         \/ Disconnect \/ HandleInitializationError \/ HandleInitializationCompleted
         \/ HandleModeSwitchCompleted \/ Egress
  PROVE  ContractMove
<1>1. TypeOK
  BY DEF IInv
<1>2. UNCHANGED <<cancelled, ingress, established>>
  BY DEF Connect, HandleModeSwitchRequested, Disconnect, HandleInitializationError,
     HandleInitializationCompleted, HandleModeSwitchCompleted, Egress, HandleModeSwitchError,
     finalVars, ingressVars
<1>3. CASE HandleInitializationCompleted
  <2>1. life' = Transition(life, "InitializationCompleted") /\ "InitializationCompleted" \in DOMAIN EventTarget
    BY <1>3 DEF HandleInitializationCompleted, EventTarget
  <2>2. Head(bootstrapCh) \in Justified(established) /\ Head(bootstrapCh).kind = "initCompleted"
    BY <1>3, TakeType DEF HandleInitializationCompleted, IInv
  <2>3. Admitted
    BY <1>1, <2>2 DEF Justified, Requires, TypeOK, Admitted
  <2> QED BY <1>1, <1>2, <2>1, <2>3, LifeStep
<1>4. CASE ~HandleInitializationCompleted
  <2>1. UNCHANGED life \/ \E e \in DOMAIN EventTarget \ {"DisconnectCompleted", "InitializationCompleted"} :
                             life' = Transition(life, e)
    BY <1>4 DEF Connect, HandleModeSwitchRequested, Disconnect, HandleInitializationError,
       HandleModeSwitchCompleted, Egress, HandleModeSwitchError, EventTarget
  <2>2. CASE UNCHANGED life
    BY <1>2, <2>2, Unseen DEF ContractMove
  <2>3. ASSUME NEW e \in DOMAIN EventTarget \ {"DisconnectCompleted", "InitializationCompleted"},
               life' = Transition(life, e)
        PROVE  ContractMove
    BY <1>1, <1>2, <2>3, LifeStep
  <2> QED BY <2>1, <2>2, <2>3
<1> QED BY <1>3, <1>4

LEMMA CancelSteps ==
  ASSUME TypeOK, Once, Timely, HandleFinalizationCompleted \/ Deadlines
  PROVE  ContractMove
<1>1. CASE HandleFinalizationCompleted
  <2>1. cancelled' /\ fin # 0 /\ UNCHANGED <<ingress, established>>
    BY <1>1, FinalizeOrderType DEF HandleFinalizationCompleted, ingressVars
  <2>2. talk = "done"
    BY <2>1 DEF Once
  <2>3. life # "New"
    BY <2>2 DEF Timely
  <2> QED BY <2>1, <2>3, EndStep
<1>2. CASE ConnectDeadline \/ ConnectNotify
  <2>1. UNCHANGED <<life, cancelled, ingress, established>>
    BY <1>2 DEF ConnectDeadline, ConnectNotify, finalVars, ingressVars
  <2> QED BY <2>1, Unseen DEF ContractMove
<1>3. CASE ConnectAbort \/ DisconnectDeadline
  <2>1. cancelled' /\ UNCHANGED <<ingress, established>>
    BY <1>3 DEF ConnectAbort, DisconnectDeadline, ingressVars
  <2>2. life # "New"
    BY <1>3 DEF ConnectAbort, DisconnectDeadline, Timely
  <2> QED BY <2>1, <2>2, EndStep
<1> QED BY <1>1, <1>2, <1>3 DEF Deadlines

LEMMA StartStep ==
  ASSUME TypeOK, OneThread, HandleInitializeInboundDispatcher
  PROVE  ContractMove
<1>1. /\ bootstrapCh \in Seq(Packets) /\ bootstrapCh # <<>> /\ Head(bootstrapCh).kind \in Thread
      /\ UNCHANGED <<life, cancelled, established>> /\ ingress' = "spawned"
  BY DEF HandleInitializeInboundDispatcher, Take, Thread, TypeOK, finalVars
<1>2. Strands(bootstrapCh) # {}
  BY <1>1, OfTaken DEF OneThread, AtMostOne, Strands
<1>3. ingress = "none"
  BY <1>2 DEF OneThread
<1>4. UNCHANGED <<phase, Admitted, serving>>
  BY <1>1, <1>3 DEF phase, Admitted, serving
<1> QED BY <1>4 DEF ContractMove

LEMMA ContractStep ==
  ASSUME IInv, TypeOK', Once, OneThread, Timely, [Next]_vars
  PROVE  ContractMove
<1>1. TypeOK /\ AuthGate
  BY DEF IInv
<1>2. CASE (\E s \in Stages : HandleStage(s)) \/ HandleExecuteAuthentication
  <2>1. established \subseteq established' /\ UNCHANGED <<life, cancelled, ingress>>
    BY <1>2 DEF HandleStage, HandleExecuteAuthentication, finalVars, ingressVars
  <2> QED BY <1>1, <2>1, AdmitStep
<1>3. CASE \/ \E m \in StreamModes : RequestSwitch(m)
           \/ Leave \/ BootstrapSend \/ HandleSessionAuthenticationSucceeded
           \/ HandleFinalizeInboundDispatcher \/ IngressPaused \/ Finalize
           \/ \E c \in Comps : HandleInit(c) \/ HandleSwitchInit(c) \/ DispatchAsync(c) \/ Task(c)
           \/ UNCHANGED vars
  <2>1. UNCHANGED <<life, cancelled, ingress, established>>
    BY <1>3 DEF RequestSwitch, Leave, BootstrapSend, HandleSessionAuthenticationSucceeded,
       HandleFinalizeInboundDispatcher, IngressPaused, Finalize, HandleInit, HandleSwitchInit,
       DispatchAsync, Task, AsyncInitialized, SwitchClose, SwitchClear, vars, finalVars, ingressVars
  <2> QED BY <2>1, Unseen DEF ContractMove
<1> QED BY <1>1, <1>2, <1>3, LifeSteps, CancelSteps, StartStep, ServeStep
        DEF Next, Talk, Bootstrap, Data

\* For every set of executors, any number of switch requests and any capacity, the
\* session implements its contract: it opens once and admits before it serves,
\* consumes input in one stretch, and from closing it can only end.
THEOREM ContractKept == Spec => KeepsContract
<1>1. Init => Once /\ OneThread /\ Timely
  <2> SUFFICES ASSUME Init PROVE Once /\ OneThread /\ Timely
    OBVIOUS
  <2>1. Finals(<<>>) = {} /\ Strands(<<>>) = {}
    BY DEF Finals, Strands, Of
  <2> QED BY <2>1 DEF Init, Once, OneThread, AtMostOne, Timely
<1>2. IInv /\ Once /\ OneThread /\ Timely /\ [Next]_vars => Once' /\ OneThread' /\ Timely'
  BY OnceKept, OneThreadKept, TimelyKept DEF IInv
<1>3. Init => Contract!ContractInit
  <2> SUFFICES ASSUME Init PROVE Contract!ContractInit
    OBVIOUS
  <2>1. phase = "new" /\ serving = "not yet"
    BY DEF Init, phase, serving
  <2>2. Admitted = FALSE
    BY DEF Init, Admitted, Stages
  <2> QED BY <2>1, <2>2 DEF Contract!ContractInit
<1>4. IInv /\ Once /\ OneThread /\ Timely /\ [Next]_vars /\ IInv'
      => [Contract!ContractNext]_(Contract!contractVars)
  <2>1. IInv' => TypeOK'
    BY DEF IInv
  <2> QED BY <2>1, ContractStep DEF ContractMove, Contract!contractVars
<1>5. QED
  BY InitIInv, NextIInv, <1>1, <1>2, <1>3, <1>4, PTL DEF Spec, KeepsContract, Contract!ContractSpec

-----------------------------------------------------------------------------
(* The media executors match the mode.  The argument is about sessions that  *)
(* have had no failure and at most one switch request: each executor then    *)
(* has at most one job to be done, and a chain is completed after its jobs   *)
(* have been taken off the queue.                                            *)

Media == {"stt", "tts", "vad", "eos", "denoise"}
Works == {"init", "swInit", "swClose"}
Ends  == {"initCompleted", "swCompleted"}
Chained == Works \cup Ends
Jobs  == {p \in Packets : p.kind \in Works /\ p.arg \in Media}

\* The packets of a queue, and those the dispatcher has before it.
Held(q) == {q[i] : i \in DOMAIN q}
Pending == Held(bootstrapCh) \cup Held(sending)

\* The jobs of a chain come before its end, each of them once, and nothing of a
\* chain comes after it.
InOrder(q) == \A i \in Of(q, Ends), j \in Of(q, Chained) : j <= i
AtMost(q, p) == \A i, j \in DOMAIN q : q[i] = p /\ q[j] = p => i = j

Neat(b, s) ==
  /\ \A p \in Jobs : AtMost(b, p) /\ AtMost(s, p) /\ ~(p \in Held(b) /\ p \in Held(s))
  /\ InOrder(b) /\ InOrder(s)
  /\ Of(b, Ends) = {} \/ Of(s, Chained) = {}

\* A chain that may follow what is left of the queue.
Follows(s, b) ==
  /\ s \in Seq(Packets) /\ InOrder(s)
  /\ \A p \in Jobs : AtMost(s, p) /\ ~(p \in Held(b) /\ p \in Held(s))
  /\ Of(b, Ends) = {} \/ Of(s, Chained) = {}

LEMMA AppendedAt ==
  ASSUME NEW q \in Seq(Packets), NEW p \in Packets
  PROVE  /\ Append(q, p) \in Seq(Packets)
         /\ Len(q) \in Nat /\ DOMAIN q = 1..Len(q) /\ DOMAIN Append(q, p) = 1..(Len(q) + 1)
         /\ \A i \in 1..Len(q) : i \in 1..(Len(q) + 1) /\ Append(q, p)[i] = q[i]
         /\ Len(q) + 1 \in 1..(Len(q) + 1) /\ Append(q, p)[Len(q) + 1] = p
         /\ \A i \in 1..(Len(q) + 1) : i \in 1..Len(q) \/ i = Len(q) + 1
<1>1. Len(q) \in Nat /\ Append(q, p) \in Seq(Packets) /\ DOMAIN q = 1..Len(q)
      /\ DOMAIN Append(q, p) = 1..(Len(q) + 1) /\ Append(q, p)[Len(q) + 1] = p
      /\ \A i \in 1..Len(q) : Append(q, p)[i] = q[i]
  OBVIOUS
<1> QED BY <1>1

LEMMA TakenAt ==
  ASSUME NEW q \in Seq(Packets), q # <<>>
  PROVE  /\ Tail(q) \in Seq(Packets) /\ Head(q) \in Packets
         /\ DOMAIN q = 1..Len(q) /\ DOMAIN Tail(q) = 1..(Len(q) - 1)
         /\ 1 \in 1..Len(q) /\ Head(q) = q[1]
         /\ \A i \in 1..(Len(q) - 1) : i \in Nat /\ i + 1 \in 1..Len(q) /\ i + 1 # 1 /\ Tail(q)[i] = q[i + 1]
         /\ \A i \in 1..Len(q) : i = 1 \/ (i - 1 \in 1..(Len(q) - 1) /\ q[i] = Tail(q)[i - 1])
<1>1. /\ Len(q) \in Nat \ {0} /\ DOMAIN q = 1..Len(q) /\ Tail(q) \in Seq(Packets) /\ Head(q) \in Packets
      /\ DOMAIN Tail(q) = 1..(Len(q) - 1) /\ Head(q) = q[1]
      /\ \A i \in 1..(Len(q) - 1) : Tail(q)[i] = q[i + 1]
  OBVIOUS
<1>2. \A i \in 1..(Len(q) - 1) : i \in Nat /\ i + 1 \in 1..Len(q) /\ i + 1 # 1
  BY <1>1
<1>3. \A i \in 1..Len(q) : i = 1 \/ (i - 1 \in 1..(Len(q) - 1) /\ (i - 1) + 1 = i)
  BY <1>1
<1> QED BY <1>1, <1>2, <1>3

\* What is held, and in which order, after a packet was put behind the others.
LEMMA HeldAppended ==
  ASSUME NEW q \in Seq(Packets), NEW p \in Packets
  PROVE  /\ Append(q, p) \in Seq(Packets)
         /\ Held(Append(q, p)) = Held(q) \cup {p}
         /\ \A o : AtMost(q, o) /\ (o = p => o \notin Held(q)) => AtMost(Append(q, p), o)
         /\ InOrder(q) /\ (p.kind \in Chained => Of(q, Ends) = {}) => InOrder(Append(q, p))
<1> DEFINE r == Append(q, p)  n == Len(q)
<1>1. /\ r \in Seq(Packets)
      /\ n \in Nat /\ DOMAIN q = 1..n /\ DOMAIN r = 1..(n + 1)
      /\ \A i \in 1..n : i \in 1..(n + 1) /\ r[i] = q[i]
      /\ n + 1 \in 1..(n + 1) /\ r[n + 1] = p
      /\ \A i \in 1..(n + 1) : i \in 1..n \/ i = n + 1
  BY AppendedAt
<1> HIDE DEF r, n
<1>2. Held(r) = Held(q) \cup {p}
  BY <1>1 DEF Held
<1>3. ASSUME NEW o, AtMost(q, o), o = p => o \notin Held(q) PROVE AtMost(r, o)
  <2> SUFFICES ASSUME NEW i \in 1..(n + 1), NEW j \in 1..(n + 1), r[i] = o, r[j] = o PROVE i = j
    BY <1>1 DEF AtMost
  <2>1. \A a \in 1..n : r[a] = o => o # p
    BY <1>1, <1>3 DEF Held
  <2> QED BY <1>1, <1>3, <2>1 DEF AtMost
<1>4. ASSUME InOrder(q), p.kind \in Chained => Of(q, Ends) = {} PROVE InOrder(r)
  <2> SUFFICES ASSUME NEW i \in Of(r, Ends), NEW j \in Of(r, Chained) PROVE j <= i
    BY DEF InOrder
  <2>1. i \in 1..(n + 1) /\ j \in 1..(n + 1) /\ r[i].kind \in Ends /\ r[j].kind \in Chained
    BY <1>1 DEF Of
  <2>2. CASE i \in 1..n /\ j \in 1..n
    <3>1. i \in Of(q, Ends) /\ j \in Of(q, Chained)
      BY <1>1, <2>1, <2>2 DEF Of
    <3> QED BY <1>4, <3>1 DEF InOrder
  <2>3. CASE i = n + 1
    BY <1>1, <2>1, <2>3
  <2>4. CASE i \in 1..n /\ j = n + 1
    <3>1. p.kind \in Chained /\ i \in Of(q, Ends)
      BY <1>1, <2>1, <2>4 DEF Of
    <3> QED BY <1>4, <3>1
  <2> QED BY <1>1, <2>1, <2>2, <2>3, <2>4
<1> QED BY <1>1, <1>2, <1>3, <1>4 DEF r

\* And after the first was taken.
LEMMA HeldTaken ==
  ASSUME NEW q \in Seq(Packets), q # <<>>
  PROVE  /\ Tail(q) \in Seq(Packets) /\ Head(q) \in Packets
         /\ Held(q) = Held(Tail(q)) \cup {Head(q)}
         /\ \A o : AtMost(q, o) => AtMost(Tail(q), o)
         /\ AtMost(q, Head(q)) => Head(q) \notin Held(Tail(q))
         /\ InOrder(q) => InOrder(Tail(q))
         /\ InOrder(q) /\ Head(q).kind \in Ends => Of(Tail(q), Chained) = {}
         /\ \A K : Of(q, K) = {} => Of(Tail(q), K) = {} /\ Head(q).kind \notin K
<1> DEFINE r == Tail(q)  n == Len(q)
<1>1. /\ r \in Seq(Packets) /\ Head(q) \in Packets
      /\ DOMAIN q = 1..n /\ DOMAIN r = 1..(n - 1)
      /\ 1 \in 1..n /\ Head(q) = q[1]
      /\ \A i \in 1..(n - 1) : i \in Nat /\ i + 1 \in 1..n /\ i + 1 # 1 /\ r[i] = q[i + 1]
      /\ \A i \in 1..n : i = 1 \/ (i - 1 \in 1..(n - 1) /\ q[i] = r[i - 1])
  BY TakenAt
<1> HIDE DEF r, n
<1>2. Held(q) = Held(r) \cup {Head(q)}
  BY <1>1 DEF Held
<1>3. ASSUME NEW o, AtMost(q, o) PROVE AtMost(r, o)
  <2> SUFFICES ASSUME NEW i \in 1..(n - 1), NEW j \in 1..(n - 1), r[i] = o, r[j] = o PROVE i = j
    BY <1>1 DEF AtMost
  <2>1. i + 1 = j + 1
    BY <1>1, <1>3 DEF AtMost
  <2> QED BY <1>1, <2>1
<1>4. AtMost(q, Head(q)) => Head(q) \notin Held(r)
  BY <1>1 DEF AtMost, Held
<1>5. \A K : \A i \in Of(r, K) : i \in Nat /\ i + 1 \in Of(q, K) /\ i + 1 # 1
  BY <1>1 DEF Of
<1>6. InOrder(q) => InOrder(r)
  <2> SUFFICES ASSUME InOrder(q), NEW i \in Of(r, Ends), NEW j \in Of(r, Chained) PROVE j <= i
    BY DEF InOrder
  <2>1. j + 1 <= i + 1 /\ i \in Nat /\ j \in Nat
    BY <1>5 DEF InOrder
  <2> QED BY <2>1
<1>7. InOrder(q) /\ Head(q).kind \in Ends => Of(r, Chained) = {}
  <2> SUFFICES ASSUME InOrder(q), Head(q).kind \in Ends, NEW j \in Of(r, Chained) PROVE FALSE
    OBVIOUS
  <2>1. 1 \in Of(q, Ends)
    BY <1>1 DEF Of
  <2>2. j + 1 <= 1 /\ j \in Nat /\ j + 1 # 1
    BY <1>5, <2>1 DEF InOrder
  <2> QED BY <2>2
<1>8. ASSUME NEW K, Of(q, K) = {} PROVE Of(r, K) = {} /\ Head(q).kind \notin K
  <2>1. Of(r, K) = {}
    BY <1>5, <1>8
  <2>2. Head(q).kind \notin K
    BY <1>1, <1>8 DEF Of
  <2> QED BY <2>1, <2>2
<1> QED BY <1>1, <1>2, <1>3, <1>4, <1>6, <1>7, <1>8 DEF r

\* Kinds in terms of packets held.
LEMMA OfHeld ==
  ASSUME NEW q, NEW K
  PROVE  Of(q, K) = {} <=> \A p \in Held(q) : p.kind \notin K
BY DEF Of, Held

-----------------------------------------------------------------------------
(* The three ways in which the queues move *)

\* A packet of the running handler goes on to the channel.
LEMMA NeatSent ==
  ASSUME NEW b \in Seq(Packets), NEW s \in Seq(Packets), s # <<>>, Neat(b, s)
  PROVE  /\ Neat(Append(b, Head(s)), Tail(s))
         /\ Held(Append(b, Head(s))) \cup Held(Tail(s)) = Held(b) \cup Held(s)
<1> DEFINE h == Head(s)  r == Tail(s)  a == Append(b, h)
<1>1. /\ r \in Seq(Packets) /\ h \in Packets
      /\ Held(s) = Held(r) \cup {h}
      /\ \A o : AtMost(s, o) => AtMost(r, o)
      /\ AtMost(s, h) => h \notin Held(r)
      /\ InOrder(s) => InOrder(r)
      /\ InOrder(s) /\ h.kind \in Ends => Of(r, Chained) = {}
      /\ \A K : Of(s, K) = {} => Of(r, K) = {} /\ h.kind \notin K
  BY HeldTaken
<1>2. /\ Held(a) = Held(b) \cup {h}
      /\ \A o : AtMost(b, o) /\ (o = h => o \notin Held(b)) => AtMost(a, o)
      /\ InOrder(b) /\ (h.kind \in Chained => Of(b, Ends) = {}) => InOrder(a)
  BY <1>1, HeldAppended
<1> HIDE DEF h, r, a
<1>3. ASSUME NEW p \in Jobs PROVE AtMost(a, p) /\ AtMost(r, p) /\ ~(p \in Held(a) /\ p \in Held(r))
  <2>1. AtMost(b, p) /\ AtMost(s, p) /\ ~(p \in Held(b) /\ p \in Held(s))
    BY DEF Neat
  <2> QED BY <1>1, <1>2, <2>1
<1>4. InOrder(a) /\ InOrder(r)
  BY <1>1, <1>2 DEF Neat
<1>5. Of(a, Ends) = {} \/ Of(r, Chained) = {}
  <2>1. CASE Of(s, Chained) = {}
    BY <1>1, <2>1
  <2>2. CASE h.kind \in Ends
    BY <1>1, <2>2 DEF Neat
  <2>3. CASE Of(b, Ends) = {} /\ h.kind \notin Ends
    BY <1>2, <2>3, OfHeld
  <2> QED BY <2>1, <2>2, <2>3 DEF Neat
<1>6. Held(a) \cup Held(r) = Held(b) \cup Held(s)
  BY <1>1, <1>2
<1> QED BY <1>3, <1>4, <1>5, <1>6 DEF Neat, h, r, a

\* Another goroutine puts in a packet that belongs to no chain.
LEMMA NeatAdded ==
  ASSUME NEW b \in Seq(Packets), NEW s, NEW p \in Packets, p.kind \notin Chained, Neat(b, s)
  PROVE  Neat(Append(b, p), s) /\ Held(Append(b, p)) = Held(b) \cup {p}
<1> DEFINE a == Append(b, p)
<1>1. /\ Held(a) = Held(b) \cup {p}
      /\ \A o : AtMost(b, o) /\ (o = p => o \notin Held(b)) => AtMost(a, o)
      /\ InOrder(b) /\ (p.kind \in Chained => Of(b, Ends) = {}) => InOrder(a)
  BY HeldAppended
<1> HIDE DEF a
<1>2. ASSUME NEW o \in Jobs PROVE AtMost(a, o) /\ AtMost(s, o) /\ ~(o \in Held(a) /\ o \in Held(s))
  <2>1. o # p
    BY DEF Jobs, Chained
  <2> QED BY <1>1, <2>1 DEF Neat
<1>3. Of(a, Ends) = {} \/ Of(s, Chained) = {}
  BY <1>1, OfHeld DEF Neat, Chained
<1> QED BY <1>1, <1>2, <1>3 DEF Neat, a

\* A handler takes the first packet and leaves a chain to be sent.
LEMMA NeatTaken ==
  ASSUME NEW b \in Seq(Packets), b # <<>>, Neat(b, <<>>), NEW s, Follows(s, Tail(b))
  PROVE  /\ Neat(Tail(b), s)
         /\ Held(b) = Held(Tail(b)) \cup {Head(b)}
         /\ Head(b) \in Jobs => Head(b) \notin Held(Tail(b))
         /\ Head(b).kind \in Ends => Of(Tail(b), Chained) = {}
<1>1. /\ Tail(b) \in Seq(Packets) /\ Head(b) \in Packets
      /\ Held(b) = Held(Tail(b)) \cup {Head(b)}
      /\ \A o : AtMost(b, o) => AtMost(Tail(b), o)
      /\ AtMost(b, Head(b)) => Head(b) \notin Held(Tail(b))
      /\ InOrder(b) => InOrder(Tail(b))
      /\ InOrder(b) /\ Head(b).kind \in Ends => Of(Tail(b), Chained) = {}
  BY HeldTaken
<1>2. \A p \in Jobs : AtMost(b, p)
  BY DEF Neat
<1>3. InOrder(b)
  BY DEF Neat
<1> QED BY <1>1, <1>2, <1>3 DEF Neat, Follows

\* What is not of a chain may follow anything.
LEMMA FollowsIdle ==
  ASSUME NEW s \in Seq(Packets), \A p \in Held(s) : p.kind \notin Chained, NEW b
  PROVE  Follows(s, b)
<1>1. Of(s, Chained) = {}
  BY OfHeld
<1>2. InOrder(s)
  BY <1>1 DEF InOrder
<1>3. ASSUME NEW p \in Jobs PROVE AtMost(s, p) /\ p \notin Held(s)
  <2>1. p \notin Held(s)
    BY DEF Jobs, Chained
  <2> QED BY <2>1 DEF AtMost, Held
<1> QED BY <1>1, <1>2, <1>3 DEF Follows

-----------------------------------------------------------------------------
(* The chains *)

\* A queue of one job for each of some executors.
Lined(t, k, S) ==
  /\ t \in Seq(Packets)
  /\ Held(t) = {Packet(k, c) : c \in S \cap Comps}
  /\ \A p : AtMost(t, p)

LEMMA PacketFields ==
  ASSUME NEW k, NEW a, NEW j, NEW b
  PROVE  /\ Packet(k, a).kind = k /\ Packet(k, a).arg = a
         /\ Packet(k, a) = Packet(j, b) <=> k = j /\ a = b
<1>1. Packet(k, a).kind = k /\ Packet(k, a).arg = a /\ Packet(j, b).kind = j /\ Packet(j, b).arg = b
  BY DEF Packet
<1> QED BY <1>1

LEMMA LinedFirst ==
  ASSUME NEW k \in Works, NEW c \in Executors
  PROVE  Lined(If(c, k), k, {c})
<1>1. Packet(k, c) \in Packets
  BY DEF Packet, Packets, PacketKinds, Works
<1>2. CASE c \in Comps
  <2>1. If(c, k) = <<Packet(k, c)>> /\ {c} \cap Comps = {c}
    BY <1>2 DEF If
  <2>2. DOMAIN <<Packet(k, c)>> = {1} /\ <<Packet(k, c)>>[1] = Packet(k, c)
        /\ <<Packet(k, c)>> \in Seq(Packets)
    BY <1>1
  <2> QED BY <2>1, <2>2 DEF Lined, Held, AtMost
<1>3. CASE c \notin Comps
  <2>1. If(c, k) = <<>> /\ {c} \cap Comps = {}
    BY <1>3 DEF If
  <2>2. DOMAIN <<>> = {} /\ <<>> \in Seq(Packets)
    OBVIOUS
  <2> QED BY <2>1, <2>2 DEF Lined, Held, AtMost
<1> QED BY <1>2, <1>3

LEMMA LinedOneMore ==
  ASSUME NEW k \in Works, NEW c \in Executors, NEW S, c \notin S, NEW t, Lined(t, k, S)
  PROVE  Lined(t \o If(c, k), k, S \cup {c})
<1>1. Packet(k, c) \in Packets /\ t \in Seq(Packets)
  BY DEF Packet, Packets, PacketKinds, Works, Lined
<1>2. CASE c \in Comps
  <2>1. t \o If(c, k) = Append(t, Packet(k, c)) /\ (S \cup {c}) \cap Comps = (S \cap Comps) \cup {c}
    BY <1>1, <1>2 DEF If
  <2>2. Packet(k, c) \notin Held(t)
    BY PacketFields DEF Lined
  <2>3. /\ Append(t, Packet(k, c)) \in Seq(Packets)
        /\ Held(Append(t, Packet(k, c))) = Held(t) \cup {Packet(k, c)}
        /\ \A o : AtMost(t, o) /\ (o = Packet(k, c) => o \notin Held(t)) => AtMost(Append(t, Packet(k, c)), o)
    BY <1>1, HeldAppended
  <2>4. Held(Append(t, Packet(k, c))) = {Packet(k, d) : d \in (S \cap Comps) \cup {c}}
    BY <2>3 DEF Lined
  <2> QED BY <2>1, <2>2, <2>3, <2>4 DEF Lined
<1>3. CASE c \notin Comps
  <2>1. t \o If(c, k) = t /\ (S \cup {c}) \cap Comps = S \cap Comps
    BY <1>1, <1>3 DEF If
  <2> QED BY <2>1 DEF Lined
<1> QED BY <1>2, <1>3

\* Such a queue and the packet that completes it, behind what has no end and none
\* of these jobs.
LEMMA LinedEnded ==
  ASSUME NEW k \in Works, NEW S, NEW t, Lined(t, k, S), NEW e \in Packets, e.kind \notin Works
  PROVE  /\ t \o <<e>> \in Seq(Packets) /\ InOrder(t \o <<e>>)
         /\ Held(t \o <<e>>) = {Packet(k, c) : c \in S \cap Comps} \cup {e}
         /\ \A p : p.kind \in Works => AtMost(t \o <<e>>, p)
<1>1. t \in Seq(Packets) /\ t \o <<e>> = Append(t, e) /\ Held(t) = {Packet(k, c) : c \in S \cap Comps}
      /\ \A p : AtMost(t, p)
  BY DEF Lined
<1>2. /\ Append(t, e) \in Seq(Packets)
      /\ Held(Append(t, e)) = Held(t) \cup {e}
      /\ \A o : AtMost(t, o) /\ (o = e => o \notin Held(t)) => AtMost(Append(t, e), o)
      /\ InOrder(t) /\ (e.kind \in Chained => Of(t, Ends) = {}) => InOrder(Append(t, e))
  BY <1>1, HeldAppended
<1>3. InOrder(t) /\ Of(t, Ends) = {}
  <2>1. \A p \in Held(t) : p.kind \notin Ends
    BY <1>1, PacketFields DEF Works, Ends
  <2>2. Of(t, Ends) = {}
    BY <2>1, OfHeld
  <2> QED BY <2>2 DEF InOrder
<1> QED BY <1>1, <1>2, <1>3

AudioSet == {"stt", "tts", "llm", "vad", "eos", "denoise"}

LEMMA BootLined ==
  Lined(If("stt", "init") \o If("tts", "init") \o If("llm", "init")
           \o If("vad", "init") \o If("eos", "init") \o If("denoise", "init"), "init", AudioSet)
<1> DEFINE t1 == If("stt", "init")
           t2 == t1 \o If("tts", "init")
           t3 == t2 \o If("llm", "init")
           t4 == t3 \o If("vad", "init")
           t5 == t4 \o If("eos", "init")
           t6 == t5 \o If("denoise", "init")
<1>0. "init" \in Works
  BY DEF Works
<1>1. Lined(t1, "init", {"stt"})
  <2>1. "stt" \in Executors
    BY DEF Executors
  <2> QED BY <1>0, <2>1, LinedFirst
<1> HIDE DEF t1
<1>2. Lined(t2, "init", {"stt"} \cup {"tts"})
  <2>1. "tts" \in Executors /\ "tts" \notin {"stt"}
    BY DEF Executors
  <2> QED BY <1>0, <1>1, <2>1, LinedOneMore
<1> HIDE DEF t2
<1>3. Lined(t3, "init", {"stt", "tts"} \cup {"llm"})
  <2>1. "llm" \in Executors /\ "llm" \notin {"stt", "tts"} /\ {"stt"} \cup {"tts"} = {"stt", "tts"}
    BY DEF Executors
  <2> QED BY <1>0, <1>2, <2>1, LinedOneMore
<1> HIDE DEF t3
<1>4. Lined(t4, "init", {"stt", "tts", "llm"} \cup {"vad"})
  <2>1. "vad" \in Executors /\ "vad" \notin {"stt", "tts", "llm"}
        /\ {"stt", "tts"} \cup {"llm"} = {"stt", "tts", "llm"}
    BY DEF Executors
  <2> QED BY <1>0, <1>3, <2>1, LinedOneMore
<1> HIDE DEF t4
<1>5. Lined(t5, "init", {"stt", "tts", "llm", "vad"} \cup {"eos"})
  <2>1. "eos" \in Executors /\ "eos" \notin {"stt", "tts", "llm", "vad"}
        /\ {"stt", "tts", "llm"} \cup {"vad"} = {"stt", "tts", "llm", "vad"}
    BY DEF Executors
  <2> QED BY <1>0, <1>4, <2>1, LinedOneMore
<1> HIDE DEF t5
<1>6. Lined(t6, "init", {"stt", "tts", "llm", "vad", "eos"} \cup {"denoise"})
  <2>1. "denoise" \in Executors /\ "denoise" \notin {"stt", "tts", "llm", "vad", "eos"}
        /\ {"stt", "tts", "llm", "vad"} \cup {"eos"} = {"stt", "tts", "llm", "vad", "eos"}
    BY DEF Executors
  <2> QED BY <1>0, <1>5, <2>1, LinedOneMore
<1>7. {"stt", "tts", "llm", "vad", "eos"} \cup {"denoise"} = AudioSet
  BY DEF AudioSet
<1> QED BY <1>6, <1>7 DEF t6, t5, t4, t3, t2, t1

LEMMA SwitchLined ==
  /\ Lined(If("stt", "swInit") \o If("vad", "swInit") \o If("eos", "swInit")
             \o If("denoise", "swInit") \o If("tts", "swInit"), "swInit", Media)
  /\ Lined(If("stt", "swClose") \o If("tts", "swClose") \o If("vad", "swClose")
             \o If("eos", "swClose") \o If("denoise", "swClose"), "swClose", Media)
<1>1. ASSUME NEW k \in Works, NEW c1 \in Executors, NEW c2 \in Executors, NEW c3 \in Executors,
             NEW c4 \in Executors, NEW c5 \in Executors,
             c2 \notin {c1}, c3 \notin {c1, c2}, c4 \notin {c1, c2, c3}, c5 \notin {c1, c2, c3, c4},
             {c1, c2, c3, c4, c5} = Media
      PROVE  Lined(If(c1, k) \o If(c2, k) \o If(c3, k) \o If(c4, k) \o If(c5, k), k, Media)
  <2> DEFINE t1 == If(c1, k)
             t2 == t1 \o If(c2, k)
             t3 == t2 \o If(c3, k)
             t4 == t3 \o If(c4, k)
             t5 == t4 \o If(c5, k)
  <2>1. Lined(t1, k, {c1})
    BY LinedFirst
  <2> HIDE DEF t1
  <2>2. Lined(t2, k, {c1} \cup {c2})
    BY <1>1, <2>1, LinedOneMore
  <2> HIDE DEF t2
  <2>3. Lined(t3, k, {c1, c2} \cup {c3})
    <3>1. {c1} \cup {c2} = {c1, c2}
      OBVIOUS
    <3> QED BY <1>1, <2>2, <3>1, LinedOneMore
  <2> HIDE DEF t3
  <2>4. Lined(t4, k, {c1, c2, c3} \cup {c4})
    <3>1. {c1, c2} \cup {c3} = {c1, c2, c3}
      OBVIOUS
    <3> QED BY <1>1, <2>3, <3>1, LinedOneMore
  <2> HIDE DEF t4
  <2>5. Lined(t5, k, {c1, c2, c3, c4} \cup {c5})
    <3>1. {c1, c2, c3} \cup {c4} = {c1, c2, c3, c4}
      OBVIOUS
    <3> QED BY <1>1, <2>4, <3>1, LinedOneMore
  <2>6. {c1, c2, c3, c4} \cup {c5} = Media
    BY <1>1
  <2> QED BY <2>5, <2>6 DEF t5, t4, t3, t2, t1
<1>2. /\ "swInit" \in Works /\ "swClose" \in Works
      /\ "stt" \in Executors /\ "tts" \in Executors /\ "vad" \in Executors /\ "eos" \in Executors
      /\ "denoise" \in Executors
      /\ {"stt", "vad", "eos", "denoise", "tts"} = Media /\ {"stt", "tts", "vad", "eos", "denoise"} = Media
  BY DEF Works, Executors, Media
<1>3. /\ "vad" \notin {"stt"} /\ "eos" \notin {"stt", "vad"} /\ "denoise" \notin {"stt", "vad", "eos"}
      /\ "tts" \notin {"stt", "vad", "eos", "denoise"}
      /\ "tts" \notin {"stt"} /\ "vad" \notin {"stt", "tts"} /\ "eos" \notin {"stt", "tts", "vad"}
      /\ "denoise" \notin {"stt", "tts", "vad", "eos"}
  OBVIOUS
<1>4. Lined(If("stt", "swInit") \o If("vad", "swInit") \o If("eos", "swInit")
             \o If("denoise", "swInit") \o If("tts", "swInit"), "swInit", Media)
  BY <1>1, <1>2, <1>3
<1>5. Lined(If("stt", "swClose") \o If("tts", "swClose") \o If("vad", "swClose")
             \o If("eos", "swClose") \o If("denoise", "swClose"), "swClose", Media)
  BY <1>1, <1>2, <1>3
<1> QED BY <1>4, <1>5

\* The packets of a chain that are jobs for the media executors.
LEMMA JobPackets ==
  ASSUME NEW k \in Works, NEW c
  PROVE  /\ c \in Media => Packet(k, c) \in Jobs
         /\ Packet(k, c) \in Jobs => c \in Media
BY PacketFields DEF Jobs, Media, Works, Packet, Packets, PacketKinds, Executors

LEMMA SingleHeld ==
  ASSUME NEW p \in Packets
  PROVE  <<p>> \in Seq(Packets) /\ Held(<<p>>) = {p} /\ Held(<<>>) = {} /\ <<>> \in Seq(Packets)
<1>1. DOMAIN <<p>> = {1} /\ <<p>>[1] = p /\ DOMAIN <<>> = {}
  OBVIOUS
<1> QED BY <1>1 DEF Held

LEMMA StageFollows ==
  ASSUME NEW s \in Stages, NEW b, Of(b, Ends) = {}
  PROVE  /\ Follows(AfterStage(s), b)
         /\ \A p \in Held(AfterStage(s)) : /\ p \notin Jobs
                                           /\ p.kind \in {"init", "stage", "authSucceeded"}
<1>1. ASSUME NEW p \in Packets, p.kind \in {"stage", "authSucceeded"}
      PROVE  /\ Follows(<<p>>, b)
             /\ \A o \in Held(<<p>>) : o \notin Jobs /\ o.kind \in {"init", "stage", "authSucceeded"}
  <2>1. <<p>> \in Seq(Packets) /\ Held(<<p>>) = {p} /\ p.kind \notin Chained /\ p \notin Jobs
    BY <1>1, SingleHeld DEF Chained, Works, Ends, Jobs
  <2>2. Follows(<<p>>, b)
    BY <2>1, FollowsIdle
  <2> QED BY <1>1, <2>1, <2>2
<1>2. /\ Packet("authSucceeded", "none") \in Packets
      /\ Packet("authSucceeded", "none").kind = "authSucceeded"
      /\ s # "execute" => Packet("stage", NextStage[s]) \in Packets
      /\ Packet("stage", NextStage[s]).kind = "stage"
  BY DEF Packets, Packet, PacketKinds, Stages, NextStage
<1>3. CASE s = "execute"
  <2>1. AfterStage(s) = <<Packet("authSucceeded", "none")>>
    BY <1>3 DEF AfterStage
  <2> QED BY <1>1, <1>2, <2>1
<1>4. CASE s \notin {"execute", "runtime"}
  <2>1. AfterStage(s) = <<Packet("stage", NextStage[s])>>
    BY <1>4 DEF AfterStage
  <2> QED BY <1>1, <1>2, <1>4, <2>1
<1>5. CASE s = "runtime"
  <2> DEFINE e == Packet("stage", NextStage[s])
             q == If("recorder", "init") \o <<e>>
  <2>1. AfterStage(s) = q
    BY <1>5 DEF AfterStage
  <2>2. "init" \in Works /\ "recorder" \in Executors
    BY DEF Works, Executors
  <2>3. Lined(If("recorder", "init"), "init", {"recorder"})
    BY <2>2, LinedFirst
  <2>4. e \in Packets /\ e.kind = "stage" /\ "stage" \notin Works
    BY <1>2, <1>5, PacketFields DEF Works
  <2> HIDE DEF e
  <2>5. /\ q \in Seq(Packets) /\ InOrder(q)
        /\ Held(q) = {Packet("init", c) : c \in {"recorder"} \cap Comps} \cup {e}
        /\ \A p : p.kind \in Works => AtMost(q, p)
    BY <2>2, <2>3, <2>4, LinedEnded
  <2> HIDE DEF q
  <2>6. \A p \in Held(q) : p \notin Jobs /\ p.kind \in {"init", "stage"}
    <3>1. e \notin Jobs
      BY <2>4 DEF Jobs
    <3>2. Packet("init", "recorder") \notin Jobs
      BY <2>2, JobPackets DEF Media
    <3> QED BY <2>4, <2>5, <3>1, <3>2, PacketFields
  <2>7. \A p \in Jobs : AtMost(q, p) /\ p \notin Held(q)
    BY <2>5, <2>6 DEF Jobs
  <2>8. Follows(q, b)
    BY <2>5, <2>7 DEF Follows
  <2> QED BY <2>1, <2>6, <2>8
<1> QED BY <1>3, <1>4, <1>5

\* The initialization chain has a job for every media executor of a session that
\* speaks, and none for a session in text mode.
LEMMA BootFollows ==
  ASSUME NEW m \in StreamModes \cup {"none"}, NEW b, Of(b, Ends) = {},
         \A c \in Media \cap Comps : Packet("init", c) \notin Held(b)
  PROVE  /\ Follows(BootChain(m), b)
         /\ \A p \in Held(BootChain(m)) : p.kind \in {"init", "initCompleted"}
         /\ \A p \in Held(BootChain(m)) : p.kind = "initCompleted" => m \in {"text", "audio"}
         /\ \A c \in Media \cap Comps : Packet("init", c) \in Held(BootChain(m)) <=> m = "audio"
<1> DEFINE e == Packet("initCompleted", "none")
<1>0. "init" \in Works /\ "llm" \in Executors
  BY DEF Works, Executors
<1>1. e \in Packets /\ e.kind = "initCompleted" /\ e.kind \notin Works
  BY PacketFields DEF Packet, Packets, PacketKinds, Works
<1> HIDE DEF e
<1>2. ASSUME NEW S, NEW t, Lined(t, "init", S)
      PROVE  /\ Follows(t \o <<e>>, b)
             /\ Held(t \o <<e>>) = {Packet("init", c) : c \in S \cap Comps} \cup {e}
             /\ \A p \in Held(t \o <<e>>) : p.kind \in {"init", "initCompleted"}
  <2> DEFINE q == t \o <<e>>
  <2>1. /\ q \in Seq(Packets) /\ InOrder(q)
        /\ Held(q) = {Packet("init", c) : c \in S \cap Comps} \cup {e}
        /\ \A p : p.kind \in Works => AtMost(q, p)
    BY <1>0, <1>1, <1>2, LinedEnded
  <2> HIDE DEF q
  <2>2. ASSUME NEW p \in Jobs PROVE AtMost(q, p) /\ ~(p \in Held(b) /\ p \in Held(q))
    <3>1. AtMost(q, p) /\ p # e
      BY <1>1, <2>1 DEF Jobs
    <3>2. ASSUME p \in Held(q) PROVE p \notin Held(b)
      <4>1. PICK c \in S \cap Comps : p = Packet("init", c)
        BY <2>1, <3>1, <3>2
      <4>2. c \in Media
        BY <1>0, <4>1, JobPackets
      <4> QED BY <4>1, <4>2
    <3> QED BY <3>1, <3>2
  <2>3. Follows(q, b)
    BY <2>1, <2>2 DEF Follows
  <2>4. \A p \in Held(q) : p.kind \in {"init", "initCompleted"}
    BY <1>1, <2>1, PacketFields
  <2> QED BY <2>1, <2>3, <2>4 DEF q
<1>3. CASE m = "text"
  <2>1. BootChain(m) = If("llm", "init") \o <<e>>
    BY <1>3 DEF BootChain, e
  <2>2. Lined(If("llm", "init"), "init", {"llm"})
    BY <1>0, LinedFirst
  <2>3. /\ Follows(BootChain(m), b)
        /\ Held(BootChain(m)) = {Packet("init", c) : c \in {"llm"} \cap Comps} \cup {e}
        /\ \A p \in Held(BootChain(m)) : p.kind \in {"init", "initCompleted"}
    BY <1>2, <2>1, <2>2
  <2>4. ASSUME NEW c \in Media PROVE Packet("init", c) \notin Held(BootChain(m))
    <3>1. c # "llm" /\ Packet("init", c) # e
      BY <1>1, PacketFields DEF Media
    <3> QED BY <2>3, <3>1, PacketFields
  <2> QED BY <1>3, <2>3, <2>4
<1>4. CASE m = "audio"
  <2> DEFINE t == If("stt", "init") \o If("tts", "init") \o If("llm", "init")
                    \o If("vad", "init") \o If("eos", "init") \o If("denoise", "init")
  <2>1. BootChain(m) = t \o <<e>>
    BY <1>4 DEF BootChain, e
  <2>2. Lined(t, "init", AudioSet)
    BY BootLined
  <2> HIDE DEF t
  <2>3. /\ Follows(BootChain(m), b)
        /\ Held(BootChain(m)) = {Packet("init", c) : c \in AudioSet \cap Comps} \cup {e}
        /\ \A p \in Held(BootChain(m)) : p.kind \in {"init", "initCompleted"}
    BY <1>2, <2>1, <2>2
  <2>4. \A c \in Media \cap Comps : Packet("init", c) \in Held(BootChain(m))
    BY <2>3 DEF Media, AudioSet
  <2> QED BY <1>4, <2>3, <2>4
<1>5. CASE m \notin {"text", "audio"}
  <2>1. BootChain(m) = <<>>
    BY <1>5 DEF BootChain
  <2>2. Held(<<>>) = {} /\ <<>> \in Seq(Packets)
    BY <1>1, SingleHeld
  <2>3. Follows(<<>>, b)
    BY <2>2, FollowsIdle
  <2> QED BY <1>5, <2>1, <2>2, <2>3
<1> QED BY <1>3, <1>4, <1>5

\* The chain of a switch has one job for every media executor.
LEMMA SwitchFollows ==
  ASSUME NEW m \in {"text", "audio"}, NEW b, Of(b, Ends) = {}, \A p \in Held(b) : p.kind \notin Works
  PROVE  /\ Follows(SwitchChain(m), b)
         /\ Held(SwitchChain(m)) = {Packet(IF m = "audio" THEN "swInit" ELSE "swClose", c) : c \in Media \cap Comps}
                                     \cup {Packet("swCompleted", m)}
<1> DEFINE k == IF m = "audio" THEN "swInit" ELSE "swClose"
           e == Packet("swCompleted", m)
<1>1. k \in Works /\ e \in Packets /\ e.kind \notin Works
  BY PacketFields DEF Works, Packet, Packets, PacketKinds, StreamModes
<1>2. PICK t : Lined(t, k, Media) /\ SwitchChain(m) = t \o <<e>>
  BY SwitchLined DEF SwitchChain
<1> HIDE DEF k, e
<1> DEFINE q == t \o <<e>>
<1>3. /\ q \in Seq(Packets) /\ InOrder(q)
      /\ Held(q) = {Packet(k, c) : c \in Media \cap Comps} \cup {e}
      /\ \A p : p.kind \in Works => AtMost(q, p)
  BY <1>1, <1>2, LinedEnded
<1> HIDE DEF q
<1>4. \A p \in Jobs : AtMost(q, p) /\ p \notin Held(b)
  BY <1>3 DEF Jobs
<1>5. Follows(q, b)
  BY <1>3, <1>4 DEF Follows
<1> QED BY <1>2, <1>3, <1>5 DEF k, e, q

-----------------------------------------------------------------------------
(* The invariant behind MediaMatchesMode *)

Tidy == Neat(bootstrapCh, sending)

\* No failure has happened or is on its way to the client, the session has not
\* begun to close, and at most one switch was requested.
Clean ==
  /\ requests <= 1 /\ ~told
  /\ life \in {"New", "Initializing", "Ready", "Switching"}
  /\ "fatal" \notin Held(egressCh)
  /\ \A p \in Pending : p.kind \notin {"initFailed", "authFailed"}

\* The switch was accepted.
Turned == life = "Switching" \/ (life = "Ready" /\ mode # config)

\* Which packets are on their way in which phase of the session.
Phase ==
  /\ (\E p \in Pending : p.kind \in {"stage", "authSucceeded"}) =>
        life = "Initializing" /\ mode = "text"
  /\ life = "New" => mode = "text"
  /\ \A p \in Pending : p.kind = "initCompleted" => life = "Initializing" /\ mode = config
  /\ \A p \in Pending : p.kind = "swCompleted" => life = "Switching" /\ p.arg # config
  /\ life = "Ready" => config \in {"text", "audio"} /\ \A p \in Pending : p.kind \notin Works
  /\ life = "Switching" => mode = config

\* The one request is queued, or was answered, or was never sent.
Asked == Of(bootstrapCh, {"switch"})
Ask ==
  /\ \A i, j \in Asked : i = j
  /\ Of(sending, {"switch"}) = {}
  /\ requests = 0 \/ Turned \/ egressCh # <<>> => Asked = {}
  /\ Turned \/ egressCh # <<>> => requests # 0
  /\ life = "Switching" => egressCh = <<>>

\* What an executor has still to do, on the queue or in a goroutine.
Waits(c) == {k \in Works : Packet(k, c) \in Pending}
Idle(c) == \A k \in TaskKinds : tasks[<<k, c>>] = 0
Busy(k, c) == \A j \in TaskKinds : tasks[<<j, c>>] = IF j = k THEN 1 ELSE 0

Due(k, c) == \/ Waits(c) = {k} /\ Idle(c)
             \/ Waits(c) = {} /\ Busy(k, c)
Through(c) == Waits(c) = {} /\ Idle(c)

Fresh(c) == exec[c] = [ptr |-> 0, made |-> 0, open |-> {}]
Begun(c) == exec[c] = [ptr |-> 1, made |-> 1, open |-> {1}]

Unstarted(c) == Through(c) /\ Fresh(c)
Starting(k, c) == \/ Due(k, c) /\ Fresh(c)
                  \/ Through(c) /\ Begun(c)
Stopping(c) == \/ Due("swClose", c) /\ Begun(c)
               \/ Waits(c) = {} /\ (Busy("clear", c) \/ Idle(c)) /\ exec[c].open = {}

\* An executor has one instance at most, made by its one job.  After a switch to
\* text this is claimed for those that the dispatcher creates itself.
Job(c) ==
  /\ c \notin AsyncInit => tasks[<<"init", c>>] = 0
  /\ ~Turned /\ mode = "audio" => Starting("init", c)
  /\ ~Turned /\ mode # "audio" => Unstarted(c)
  /\ Turned /\ config = "text" => Starting("swInit", c)
  /\ Turned /\ config # "text" /\ c \in {"stt", "tts"} => Stopping(c)

Sane == Tidy /\ Phase /\ Ask /\ \A c \in Media \cap Comps : Job(c)

-----------------------------------------------------------------------------
(* A clean session was clean before *)

LEMMA ErrorsKept ==
  ASSUME NEW q \in Seq({"recoverable", "fatal"}), "fatal" \in Held(q)
  PROVE  /\ \A x \in {"recoverable", "fatal"} : "fatal" \in Held(Append(q, x))
         /\ q # <<>> /\ Head(q) # "fatal" => "fatal" \in Held(Tail(q))
<1>1. PICK i \in DOMAIN q : q[i] = "fatal"
  BY DEF Held
<1>2. Len(q) \in Nat /\ DOMAIN q = 1..Len(q) /\ i \in 1..Len(q)
  BY <1>1
<1>3. ASSUME NEW x \in {"recoverable", "fatal"} PROVE "fatal" \in Held(Append(q, x))
  <2>1. i \in DOMAIN Append(q, x) /\ Append(q, x)[i] = "fatal"
    BY <1>1, <1>2
  <2> QED BY <2>1 DEF Held
<1>4. ASSUME q # <<>>, Head(q) # "fatal" PROVE "fatal" \in Held(Tail(q))
  <2>1. Head(q) = q[1] /\ DOMAIN Tail(q) = 1..(Len(q) - 1)
        /\ \A j \in 1..(Len(q) - 1) : Tail(q)[j] = q[j + 1]
    BY <1>4
  <2>2. i # 1
    BY <1>1, <1>4, <2>1
  <2>3. i - 1 \in 1..(Len(q) - 1) /\ (i - 1) + 1 = i
    BY <1>2, <2>2
  <2>4. i - 1 \in DOMAIN Tail(q) /\ Tail(q)[i - 1] = "fatal"
    BY <1>1, <2>1, <2>3
  <2> QED BY <2>4 DEF Held
<1> QED BY <1>3, <1>4

\* A packet leaves the queues when its handler takes it, and only then.
LEMMA PendingMoves ==
  ASSUME TypeOK, [Next]_vars
  PROVE  \/ Pending \subseteq Pending'
         \/ \E k : /\ Take(k) /\ Pending \subseteq Pending' \cup {Head(bootstrapCh)}
                   /\ k \in {"initFailed", "authFailed"} => told'
<1>1. bootstrapCh \in Seq(Packets) /\ sending \in Seq(Packets)
  BY DEF TypeOK
<1>2. ASSUME NEW k, Take(k) PROVE Pending \subseteq Pending' \cup {Head(bootstrapCh)}
  <2>1. bootstrapCh # <<>> /\ bootstrapCh' = Tail(bootstrapCh) /\ sending = <<>>
    BY <1>2 DEF Take
  <2>2. Held(bootstrapCh) = Held(Tail(bootstrapCh)) \cup {Head(bootstrapCh)}
    BY <1>1, <2>1, HeldTaken
  <2>3. Held(<<>>) = {}
    BY DEF Held
  <2> QED BY <2>1, <2>2, <2>3 DEF Pending
<1>3. ASSUME NEW p \in Packets, Enqueue(p), UNCHANGED sending PROVE Pending \subseteq Pending'
  <2>1. Held(bootstrapCh') = Held(bootstrapCh) \cup {p}
    BY <1>1, <1>3, HeldAppended DEF Enqueue
  <2> QED BY <1>3, <2>1 DEF Pending
<1>4. ASSUME UNCHANGED <<bootstrapCh, sending>> PROVE Pending \subseteq Pending'
  BY <1>4 DEF Pending
<1>5. CASE Talk
  <2>1. /\ Packet("stage", "assistant") \in Packets /\ Packet("finalizeInbound", "none") \in Packets
        /\ \A m \in StreamModes : Packet("switch", m) \in Packets
    BY DEF Packet, Packets, PacketKinds, Stages
  <2> QED BY <1>3, <1>4, <1>5, <2>1 DEF Talk, Connect, RequestSwitch, Disconnect, Leave, ingressVars
<1>6. CASE BootstrapSend
  <2>1. sending # <<>> /\ bootstrapCh' = Append(bootstrapCh, Head(sending)) /\ sending' = Tail(sending)
    BY <1>6 DEF BootstrapSend, Enqueue
  <2>2. Head(sending) \in Packets /\ Held(sending) = Held(Tail(sending)) \cup {Head(sending)}
    BY <1>1, <2>1, HeldTaken
  <2>3. Held(bootstrapCh') = Held(bootstrapCh) \cup {Head(sending)}
    BY <1>1, <2>1, <2>2, HeldAppended
  <2> QED BY <2>1, <2>2, <2>3 DEF Pending
<1>7. CASE HandleInitializationError
  <2>1. told' /\ (Take("authFailed") \/ Take("initFailed"))
    BY <1>7 DEF HandleInitializationError
  <2> QED BY <1>2, <2>1
<1>8. CASE Bootstrap /\ ~BootstrapSend /\ ~HandleInitializationError /\ ~IngressPaused
  <2>1. \E k : Take(k) /\ k \notin {"initFailed", "authFailed"}
    <3>1. /\ "stage" \notin {"initFailed", "authFailed"} /\ "authSucceeded" \notin {"initFailed", "authFailed"}
          /\ "init" \notin {"initFailed", "authFailed"} /\ "swInit" \notin {"initFailed", "authFailed"}
          /\ "swClose" \notin {"initFailed", "authFailed"} /\ "initCompleted" \notin {"initFailed", "authFailed"}
          /\ "inbound" \notin {"initFailed", "authFailed"} /\ "switch" \notin {"initFailed", "authFailed"}
          /\ "swCompleted" \notin {"initFailed", "authFailed"}
          /\ "finalizeInbound" \notin {"initFailed", "authFailed"}
      OBVIOUS
    <3>2. \/ Take("stage") \/ Take("authSucceeded") \/ Take("init") \/ Take("swInit") \/ Take("swClose")
          \/ Take("initCompleted") \/ Take("inbound") \/ Take("switch") \/ Take("swCompleted")
          \/ Take("finalizeInbound")
      BY <1>8 DEF Bootstrap, HandleStage, HandleExecuteAuthentication, HandleSessionAuthenticationSucceeded,
         HandleInit, HandleSwitchInit, DispatchAsync, HandleInitializationCompleted,
         HandleInitializeInboundDispatcher, HandleModeSwitchRequested, HandleModeSwitchCompleted,
         HandleFinalizeInboundDispatcher
    <3> QED BY <3>1, <3>2
  <2> QED BY <1>2, <2>1
<1>9. ASSUME NEW c \in Comps, Task(c) PROVE Pending \subseteq Pending'
  <2>1. Packet("initFailed", "none") \in Packets
    BY DEF Packet, Packets, PacketKinds
  <2>2. UNCHANGED sending
    BY <1>9 DEF Task, AsyncInitialized, SwitchClose, SwitchClear
  <2>3. UNCHANGED bootstrapCh \/ Enqueue(Packet("initFailed", "none"))
    BY <1>9 DEF Task, AsyncInitialized, SwitchClose, SwitchClear
  <2> QED BY <1>3, <1>4, <2>1, <2>2, <2>3
<1>10. CASE IngressPaused \/ Egress \/ Data \/ Ingress \/ Deadlines \/ UNCHANGED vars
  BY <1>4, <1>10 DEF IngressPaused, Egress, HandleModeSwitchError, Data, Finalize,
     HandleFinalizationCompleted, Ingress, IngressStart, IngressTake, IngressDone, IngressStop,
     IngressStep, Deadlines, ConnectDeadline, ConnectNotify, ConnectAbort, DisconnectDeadline, vars
<1> QED BY <1>5, <1>6, <1>7, <1>8, <1>9, <1>10 DEF Next

LEMMA CleanBefore ==
  ASSUME TypeOK, [Next]_vars, Clean'
  PROVE  Clean
<1>1. requests' = requests \/ requests' = requests + 1
  BY DEF Next, Talk, Connect, RequestSwitch, Disconnect, Leave, Bootstrap, BootstrapSend,
     HandleStage, HandleExecuteAuthentication, HandleSessionAuthenticationSucceeded,
     HandleInitializationError, HandleInit, HandleSwitchInit, DispatchAsync,
     HandleInitializationCompleted, HandleInitializeInboundDispatcher, HandleModeSwitchRequested,
     HandleModeSwitchCompleted, HandleFinalizeInboundDispatcher, IngressPaused, Task,
     AsyncInitialized, SwitchClose, SwitchClear, Egress, HandleModeSwitchError, Data, Finalize,
     HandleFinalizationCompleted, Ingress, IngressStart, IngressTake, IngressDone, IngressStop,
     IngressStep, Deadlines, ConnectDeadline, ConnectNotify, ConnectAbort, DisconnectDeadline, vars, clientVars
<1>2. told => told'
  BY DEF Next, Talk, Connect, RequestSwitch, Disconnect, Leave, Bootstrap, BootstrapSend,
     HandleStage, HandleExecuteAuthentication, HandleSessionAuthenticationSucceeded,
     HandleInitializationError, HandleInit, HandleSwitchInit, DispatchAsync,
     HandleInitializationCompleted, HandleInitializeInboundDispatcher, HandleModeSwitchRequested,
     HandleModeSwitchCompleted, HandleFinalizeInboundDispatcher, IngressPaused, Task,
     AsyncInitialized, SwitchClose, SwitchClear, Egress, HandleModeSwitchError, Data, Finalize,
     HandleFinalizationCompleted, Ingress, IngressStart, IngressTake, IngressDone, IngressStop,
     IngressStep, Deadlines, ConnectDeadline, ConnectNotify, ConnectAbort, DisconnectDeadline, vars
<1>3. \/ UNCHANGED egressCh \/ HandleModeSwitchError
      \/ SwitchError("recoverable") \/ SwitchError("fatal")
  BY DEF Next, Talk, Connect, RequestSwitch, Disconnect, Leave, Bootstrap, BootstrapSend,
     HandleStage, HandleExecuteAuthentication, HandleSessionAuthenticationSucceeded,
     HandleInitializationError, HandleInit, HandleSwitchInit, DispatchAsync,
     HandleInitializationCompleted, HandleInitializeInboundDispatcher, HandleModeSwitchRequested,
     HandleModeSwitchCompleted, HandleFinalizeInboundDispatcher, IngressPaused, Task,
     AsyncInitialized, SwitchClose, SwitchClear, Egress, Data, Finalize,
     HandleFinalizationCompleted, Ingress, IngressStart, IngressTake, IngressDone, IngressStop,
     IngressStep, Deadlines, ConnectDeadline, ConnectNotify, ConnectAbort, DisconnectDeadline, vars
<1>4. requests <= 1 /\ ~told
  BY <1>1, <1>2 DEF Clean, TypeOK
<1>5. life \in {"New", "Initializing", "Ready", "Switching"}
  BY LifeMoves DEF Clean, TypeOK, LifeStates
<1>6. "fatal" \notin Held(egressCh)
  <2> SUFFICES ASSUME "fatal" \in Held(egressCh) PROVE FALSE
    OBVIOUS
  <2>1. egressCh \in Seq({"recoverable", "fatal"}) /\ ~told' /\ "fatal" \notin Held(egressCh')
    BY DEF TypeOK, Clean
  <2>2. ~SwitchError("recoverable") /\ ~SwitchError("fatal")
    BY <2>1, ErrorsKept DEF SwitchError
  <2>3. CASE HandleModeSwitchError
    <3>1. egressCh # <<>> /\ egressCh' = Tail(egressCh) /\ (Head(egressCh) = "fatal" => told')
      BY <2>3 DEF HandleModeSwitchError
    <3> QED BY <2>1, <3>1, ErrorsKept
  <2> QED BY <1>3, <2>1, <2>2, <2>3
<1>7. ASSUME NEW p \in Pending, p.kind \in {"initFailed", "authFailed"} PROVE FALSE
  <2>1. p \notin Pending' /\ ~told'
    BY <1>7 DEF Clean
  <2>2. PICK k : /\ Take(k) /\ Pending \subseteq Pending' \cup {Head(bootstrapCh)}
                 /\ k \in {"initFailed", "authFailed"} => told'
    BY <2>1, PendingMoves
  <2>3. p = Head(bootstrapCh) /\ Head(bootstrapCh).kind = k
    BY <2>1, <2>2 DEF Take
  <2> QED BY <1>7, <2>1, <2>2, <2>3
<1> QED BY <1>4, <1>5, <1>6, <1>7 DEF Clean

-----------------------------------------------------------------------------
(* What the moves of the queues do to the invariant *)

\* A handler takes its packet and leaves a chain that may follow.
LEMMA TakeMove ==
  ASSUME TypeOK, OneThread, Tidy, Ask, NEW k, Take(k), Follows(sending', Tail(bootstrapCh)),
         \A p \in Held(sending') : p.kind # "switch"
  PROVE  /\ Tidy'
         /\ Head(bootstrapCh) \in Pending /\ Head(bootstrapCh) \in Packets /\ Head(bootstrapCh).kind = k
         /\ Pending' \subseteq Pending \cup Held(sending')
         /\ Held(sending') \subseteq Pending'
         /\ Pending \subseteq Pending' \cup {Head(bootstrapCh)}
         /\ Head(bootstrapCh) \in Jobs /\ Head(bootstrapCh) \notin Held(sending')
              => Head(bootstrapCh) \notin Pending'
         /\ k \in Ends => \A p \in Pending' : p.kind \in Chained => p \in Held(sending')
         /\ k \in Thread => \A p \in Pending' : p.kind \in Thread => p \in Held(sending')
         /\ (\A i, j \in Asked' : i = j) /\ Of(sending', {"switch"}) = {}
         /\ Asked = {} => Asked' = {}
         /\ k = "switch" => Asked' = {} /\ Asked # {}
<1> DEFINE b == bootstrapCh
<1>1. /\ b \in Seq(Packets) /\ b # <<>> /\ sending = <<>> /\ bootstrapCh' = Tail(b)
      /\ Head(b).kind = k
  BY DEF TypeOK, Take
<1>2. /\ Neat(Tail(b), sending')
      /\ Held(b) = Held(Tail(b)) \cup {Head(b)}
      /\ Head(b) \in Jobs => Head(b) \notin Held(Tail(b))
      /\ Head(b).kind \in Ends => Of(Tail(b), Chained) = {}
  <2>1. Neat(b, <<>>)
    BY <1>1 DEF Tidy
  <2> QED BY <1>1, <2>1, NeatTaken
<1>3. Head(b) \in Packets
  BY <1>1, HeldTaken
<1>4. Held(<<>>) = {}
  BY DEF Held
<1>5. Pending = Held(b) /\ Pending' = Held(Tail(b)) \cup Held(sending')
  BY <1>1, <1>4 DEF Pending
<1>6. k \in Ends => \A p \in Held(Tail(b)) : p.kind \notin Chained
  BY <1>1, <1>2, OfHeld
<1>7. k \in Thread => \A p \in Held(Tail(b)) : p.kind \notin Thread
  <2>1. k \in Thread => Of(Tail(b), Thread) = {}
    BY <1>1, OfTaken DEF OneThread, AtMostOne, Strands
  <2> QED BY <2>1, OfHeld
<1>8. /\ \A i, j \in Of(Tail(b), {"switch"}) : i = j
      /\ Of(b, {"switch"}) = {} => Of(Tail(b), {"switch"}) = {}
      /\ k = "switch" => Of(b, {"switch"}) # {} /\ Of(Tail(b), {"switch"}) = {}
  BY <1>1, OfTaken DEF Ask, Asked
<1>9. Of(sending', {"switch"}) = {}
  BY OfHeld
<1>10. Tidy'
  BY <1>1, <1>2 DEF Tidy
<1>11. /\ (\A i, j \in Asked' : i = j)
       /\ Asked = {} => Asked' = {}
       /\ k = "switch" => Asked' = {} /\ Asked # {}
  BY <1>1, <1>8 DEF Asked
<1> QED BY <1>1, <1>2, <1>3, <1>5, <1>6, <1>7, <1>9, <1>10, <1>11

\* Someone else puts a packet in.
LEMMA AddMove ==
  ASSUME TypeOK, Tidy, Ask, NEW p \in Packets, p.kind \notin Chained,
         bootstrapCh' = Append(bootstrapCh, p), UNCHANGED sending
  PROVE  /\ Tidy' /\ Pending' = Pending \cup {p}
         /\ Of(sending', {"switch"}) = {}
         /\ p.kind # "switch" => Asked' = Asked
         /\ Asked = {} => \A i, j \in Asked' : i = j
<1>1. bootstrapCh \in Seq(Packets)
  BY DEF TypeOK
<1>2. Neat(bootstrapCh', sending) /\ Held(bootstrapCh') = Held(bootstrapCh) \cup {p}
  BY <1>1, NeatAdded DEF Tidy
<1>3. /\ p.kind # "switch" => Asked' = Asked
      /\ Asked = {} => \A i, j \in Asked' : i = j
  BY <1>1, OfAppended DEF Asked
<1>4. Tidy' /\ Pending' = Pending \cup {p}
  BY <1>2 DEF Tidy, Pending
<1> QED BY <1>3, <1>4 DEF Ask

\* The dispatcher sends the next packet of the handler it runs.
LEMMA SendMove ==
  ASSUME TypeOK, Tidy, Ask, BootstrapSend
  PROVE  /\ Tidy' /\ Pending' = Pending /\ Asked' = Asked
         /\ Of(sending', {"switch"}) = {}
<1>1. /\ bootstrapCh \in Seq(Packets) /\ sending \in Seq(Packets) /\ sending # <<>>
      /\ bootstrapCh' = Append(bootstrapCh, Head(sending)) /\ sending' = Tail(sending)
  BY DEF TypeOK, BootstrapSend, Enqueue
<1>2. /\ Neat(Append(bootstrapCh, Head(sending)), Tail(sending))
      /\ Held(Append(bootstrapCh, Head(sending))) \cup Held(Tail(sending)) = Held(bootstrapCh) \cup Held(sending)
  BY <1>1, NeatSent DEF Tidy
<1>3. /\ Head(sending) \in Packets
      /\ \A K : Of(sending, K) = {} => Of(Tail(sending), K) = {} /\ Head(sending).kind \notin K
  BY <1>1, HeldTaken
<1>4. Of(Tail(sending), {"switch"}) = {} /\ Head(sending).kind \notin {"switch"}
  BY <1>3 DEF Ask
<1>5. Asked' = Asked
  BY <1>1, <1>3, <1>4, OfAppended DEF Asked
<1> QED BY <1>1, <1>2, <1>4, <1>5 DEF Tidy, Pending

\* An executor that a step does not concern.
LEMMA WaitsSame ==
  ASSUME NEW c \in Media, \A k \in Works : Packet(k, c) \in Pending' <=> Packet(k, c) \in Pending
  PROVE  Waits(c)' = Waits(c)
BY DEF Waits

LEMMA JobSame ==
  ASSUME NEW c, Job(c), Waits(c)' = Waits(c),
         \A k \in TaskKinds : tasks'[<<k, c>>] = tasks[<<k, c>>], exec'[c] = exec[c],
         Turned' <=> Turned, ~Turned => mode' = mode, UNCHANGED config
  PROVE  Job(c)'
<1>1. /\ Idle(c)' <=> Idle(c)
      /\ \A k \in TaskKinds : Busy(k, c)' <=> Busy(k, c)
      /\ Fresh(c)' <=> Fresh(c)
      /\ Begun(c)' <=> Begun(c)
  BY DEF Idle, Busy, Fresh, Begun
<1>2. Through(c)' <=> Through(c)
  BY <1>1 DEF Through
<1>3. \A k \in TaskKinds : Due(k, c)' <=> Due(k, c)
  BY <1>1 DEF Due
<1>4. "init" \in TaskKinds /\ "swInit" \in TaskKinds /\ "swClose" \in TaskKinds /\ "clear" \in TaskKinds
  BY DEF TaskKinds
<1>5. /\ Unstarted(c)' <=> Unstarted(c)
      /\ Starting("init", c)' <=> Starting("init", c)
      /\ Starting("swInit", c)' <=> Starting("swInit", c)
      /\ Stopping(c)' <=> Stopping(c)
  BY <1>1, <1>2, <1>3, <1>4 DEF Unstarted, Starting, Stopping
<1> QED BY <1>4, <1>5 DEF Job

\* A job is taken off the queue: the executor it is for has one thing less to wait for.
LEMMA WaitsTaken ==
  ASSUME NEW k \in Works, NEW c, NEW h \in Packets, h.kind = k, h.arg = c,
         h \in Pending, Pending \subseteq Pending' \cup {h}, h \in Jobs => h \notin Pending',
         \A p \in Pending' : p \in Pending \/ p \notin Jobs
  PROVE  /\ \A d \in Media : d # c => Waits(d)' = Waits(d)
         /\ c \in Media => k \in Waits(c) /\ Waits(c)' = Waits(c) \ {k}
<1>1. h = Packet(k, c)
  BY DEF Packets, Packet
<1>2. \A d \in Media : \A j \in Works :
        Packet(j, d) \in Pending' <=> Packet(j, d) \in Pending /\ Packet(j, d) # h
  <2> SUFFICES ASSUME NEW d \in Media, NEW j \in Works
               PROVE Packet(j, d) \in Pending' <=> Packet(j, d) \in Pending /\ Packet(j, d) # h
    OBVIOUS
  <2>1. Packet(j, d) \in Jobs
    BY JobPackets
  <2> QED BY <2>1
<1>3. \A d \in Media : \A j \in Works : Packet(j, d) = h <=> j = k /\ d = c
  BY <1>1, PacketFields
<1> QED BY <1>1, <1>2, <1>3 DEF Waits

LEMMA JobsSame ==
  ASSUME Sane, \A p \in Jobs : p \in Pending' <=> p \in Pending,
         UNCHANGED <<tasks, exec, config>>, ~Turned => mode' = mode, Turned' <=> Turned
  PROVE  \A c \in Media \cap Comps : Job(c)'
<1> SUFFICES ASSUME NEW c \in Media \cap Comps PROVE Job(c)'
  OBVIOUS
<1>1. Job(c)
  BY DEF Sane
<1>2. \A k \in Works : Packet(k, c) \in Jobs
  BY JobPackets
<1>3. Waits(c)' = Waits(c)
  BY <1>2, WaitsSame
<1> QED BY <1>1, <1>3, JobSame

-----------------------------------------------------------------------------
(* The steps that touch no executor *)

LEMMA SaneQuiet ==
  ASSUME Sane, UNCHANGED <<life, mode, config, exec, tasks, bootstrapCh, sending, egressCh, requests>>
  PROVE  Sane'
<1>1. Tidy' /\ Pending' = Pending /\ (Turned' <=> Turned) /\ Asked' = Asked
  BY DEF Sane, Tidy, Pending, Turned, Asked
<1>2. Phase' /\ Ask'
  BY <1>1 DEF Sane, Phase, Ask
<1>3. \A c \in Media \cap Comps : Job(c)'
  BY <1>1, JobsSame
<1> QED BY <1>1, <1>2, <1>3 DEF Sane

\* What needs a session that is closing does not happen in a clean one.
LEMMA SaneNever ==
  ASSUME TypeOK, Once, Timely, Clean
  PROVE  /\ ~Leave /\ ~HandleFinalizeInboundDispatcher /\ ~IngressPaused /\ ~Data
         /\ Disconnect \/ HandleInitializationError \/ ConnectNotify => ~Clean'
<1>1. talk = "receiving"
  BY DEF Clean, Timely
<1>2. pause = "open" /\ fin = 0
  BY <1>1 DEF Once, TypeOK
<1>3. ~HandleFinalizeInboundDispatcher
  <2> SUFFICES ASSUME HandleFinalizeInboundDispatcher PROVE FALSE
    OBVIOUS
  <2>1. /\ bootstrapCh # <<>> /\ bootstrapCh \in Seq(Packets)
        /\ Head(bootstrapCh).kind = "finalizeInbound"
    BY DEF HandleFinalizeInboundDispatcher, Take, TypeOK
  <2>2. Finals(bootstrapCh) # {}
    BY <2>1, OfTaken DEF Once, Finals
  <2> QED BY <1>1, <2>2 DEF Once
<1>4. ~Leave /\ ~IngressPaused /\ ~Data
  BY <1>1, <1>2, FinalizeOrderType DEF Leave, IngressPaused, Data, Finalize, HandleFinalizationCompleted
<1>5. Disconnect \/ HandleInitializationError \/ ConnectNotify => ~Clean'
  BY DEF Disconnect, HandleInitializationError, ConnectNotify, Clean, Transition, EventTarget, CanBe, EventSources
<1> QED BY <1>3, <1>4, <1>5

LEMMA SaneConnect ==
  ASSUME TypeOK, OneThread, Sane, Clean, NEW m \in StreamModes, Connect(m)
  PROVE  Sane'
<1> DEFINE p == Packet("stage", "assistant")
<1>1. /\ life = "New" /\ life' = "Initializing" /\ bootstrapCh' = Append(bootstrapCh, p)
      /\ UNCHANGED <<mode, exec, tasks, sending, egressCh, requests>>
  BY DEF Connect, CanBe, Transition, EventSources, EventTarget, Enqueue
<1>2. p \in Packets /\ p.kind = "stage" /\ p.kind \notin Chained /\ p \notin Jobs
  BY PacketFields DEF Packet, Packets, PacketKinds, Stages, Chained, Works, Ends, Jobs
<1> HIDE DEF p
<1>3. Tidy /\ Ask /\ Phase
  BY DEF Sane
<1>4. Tidy' /\ Pending' = Pending \cup {p} /\ Of(sending', {"switch"}) = {} /\ Asked' = Asked
  BY <1>1, <1>2, <1>3, AddMove
<1>5. Of(bootstrapCh, Thread) = {} /\ Of(sending, Thread) = {}
  BY <1>1 DEF OneThread, Strands
<1>6. \A o \in Pending : o.kind \notin Thread
  BY <1>5, OfHeld DEF Pending
<1>7. mode = "text" /\ ~Turned /\ ~Turned'
  BY <1>1, <1>3 DEF Phase, Turned
<1>8. \A o \in Pending : o.kind \notin {"stage", "authSucceeded", "initCompleted", "swCompleted"}
  BY <1>1, <1>3, <1>6 DEF Phase, Thread
<1>9. Phase'
  BY <1>1, <1>2, <1>4, <1>7, <1>8 DEF Phase
<1>10. Ask'
  BY <1>1, <1>3, <1>4, <1>7 DEF Ask
<1>11. ASSUME NEW c \in Media \cap Comps PROVE Job(c)'
  <2>1. Job(c) /\ \A k \in Works : Packet(k, c) \in Jobs
    BY JobPackets DEF Sane
  <2>2. Waits(c)' = Waits(c)
    BY <1>2, <1>4, <2>1, WaitsSame
  <2>3. Unstarted(c)
    BY <1>7, <2>1 DEF Job
  <2>4. Unstarted(c)'
    BY <1>1, <2>2, <2>3 DEF Unstarted, Through, Idle, Fresh
  <2> QED BY <1>1, <1>7, <2>1, <2>4 DEF Job
<1> QED BY <1>4, <1>9, <1>10, <1>11 DEF Sane

LEMMA SaneRequest ==
  ASSUME TypeOK, Sane, Clean', NEW m \in StreamModes, RequestSwitch(m)
  PROVE  Sane'
<1> DEFINE p == Packet("switch", m)
<1>1. /\ requests' = requests + 1 /\ bootstrapCh' = Append(bootstrapCh, p)
      /\ UNCHANGED <<life, mode, config, exec, tasks, sending, egressCh>>
  BY DEF RequestSwitch, Enqueue
<1>2. p \in Packets /\ p.kind = "switch" /\ p.kind \notin Chained /\ p \notin Jobs
  BY PacketFields DEF Packet, Packets, PacketKinds, Chained, Works, Ends, Jobs
<1> HIDE DEF p
<1>3. Tidy /\ Ask /\ Phase
  BY DEF Sane
<1>4. requests = 0 /\ requests' # 0
  BY <1>1 DEF TypeOK, Clean
<1>5. Asked = {} /\ ~Turned /\ egressCh = <<>>
  BY <1>3, <1>4 DEF Ask
<1>6. Tidy' /\ Pending' = Pending \cup {p} /\ Of(sending', {"switch"}) = {} /\ \A i, j \in Asked' : i = j
  BY <1>1, <1>2, <1>3, <1>5, AddMove
<1>7. ~Turned'
  BY <1>1, <1>5 DEF Turned
<1>8. Phase'
  BY <1>1, <1>2, <1>3, <1>6 DEF Phase, Works
<1>9. Ask'
  BY <1>1, <1>4, <1>5, <1>6, <1>7 DEF Ask
<1>10. \A c \in Media \cap Comps : Job(c)'
  BY <1>1, <1>2, <1>5, <1>6, <1>7, JobsSame
<1> QED BY <1>6, <1>8, <1>9, <1>10 DEF Sane

LEMMA SaneSend ==
  ASSUME TypeOK, Sane, BootstrapSend
  PROVE  Sane'
<1>1. UNCHANGED <<life, mode, config, exec, tasks, egressCh, requests>>
  BY DEF BootstrapSend, clientVars
<1>2. Tidy' /\ Pending' = Pending /\ Asked' = Asked /\ Of(sending', {"switch"}) = {}
  BY SendMove DEF Sane
<1>3. Turned' <=> Turned
  BY <1>1 DEF Turned
<1>4. Phase' /\ Ask'
  BY <1>1, <1>2, <1>3 DEF Sane, Phase, Ask
<1>5. \A c \in Media \cap Comps : Job(c)'
  BY <1>1, <1>2, <1>3, JobsSame
<1> QED BY <1>2, <1>4, <1>5 DEF Sane

LEMMA SaneEgress ==
  ASSUME Sane, Clean', HandleModeSwitchError
  PROVE  Sane'
<1>1. /\ egressCh # <<>> /\ life' = Transition(life, "SwitchFailedRecoverable")
      /\ UNCHANGED <<mode, config, exec, tasks, bootstrapCh, sending, requests>>
  BY DEF HandleModeSwitchError, Clean, clientVars
<1>2. life # "Switching"
  BY <1>1 DEF Sane, Ask
<1>3. UNCHANGED life
  BY <1>1, <1>2 DEF Transition, CanBe, EventSources
<1>4. Tidy' /\ Pending' = Pending /\ (Turned' <=> Turned) /\ Asked' = Asked
  BY <1>1, <1>3 DEF Sane, Tidy, Pending, Turned, Asked
<1>5. Phase' /\ Ask'
  BY <1>1, <1>2, <1>3, <1>4 DEF Sane, Phase, Ask
<1>6. \A c \in Media \cap Comps : Job(c)'
  BY <1>1, <1>4, JobsSame
<1> QED BY <1>4, <1>5, <1>6 DEF Sane

\* A handler that fails leaves a session that is not clean.
LEMMA FailureSeen ==
  ASSUME Clean'
  PROVE  \A k \in {"initFailed", "authFailed"} : sending' # <<Packet(k, "none")>>
<1> SUFFICES ASSUME NEW k \in {"initFailed", "authFailed"}, sending' = <<Packet(k, "none")>> PROVE FALSE
  OBVIOUS
<1>1. Packet(k, "none") \in Packets /\ Packet(k, "none").kind = k
  BY DEF Packet, Packets, PacketKinds
<1>2. Held(sending') = {Packet(k, "none")}
  BY <1>1, SingleHeld
<1> QED BY <1>1, <1>2 DEF Clean, Pending

LEMMA FatalSeen ==
  ASSUME TypeOK, Clean'
  PROVE  ~SwitchError("fatal")
<1> SUFFICES ASSUME SwitchError("fatal") PROVE FALSE
  OBVIOUS
<1>1. egressCh' = Append(egressCh, "fatal") /\ egressCh \in Seq({"recoverable", "fatal"})
  BY DEF SwitchError, TypeOK
<1>2. Len(egressCh) + 1 \in DOMAIN egressCh' /\ egressCh'[Len(egressCh) + 1] = "fatal"
  BY <1>1
<1> QED BY <1>2 DEF Clean, Held

-----------------------------------------------------------------------------
(* The serial handlers *)

\* While the serial part runs, no chain is on the queue.
LEMMA SerialPart ==
  ASSUME TypeOK, OneThread, Phase, NEW k \in {"stage", "authSucceeded"}, Take(k)
  PROVE  /\ life = "Initializing" /\ mode = "text"
         /\ Of(Tail(bootstrapCh), Ends) = {}
         /\ \A p \in Held(Tail(bootstrapCh)) : p \in Pending
<1>1. /\ bootstrapCh \in Seq(Packets) /\ bootstrapCh # <<>> /\ Head(bootstrapCh).kind = k
  BY DEF Take, TypeOK
<1>2. Held(bootstrapCh) = Held(Tail(bootstrapCh)) \cup {Head(bootstrapCh)}
  BY <1>1, HeldTaken
<1>3. life = "Initializing" /\ mode = "text"
  BY <1>1, <1>2 DEF Phase, Pending
<1>4. Of(Tail(bootstrapCh), Thread) = {}
  <2>1. k \in Thread
    BY DEF Thread
  <2> QED BY <1>1, <2>1, OfTaken DEF OneThread, AtMostOne, Strands
<1>5. \A p \in Held(Tail(bootstrapCh)) : p.kind \notin Thread /\ p \in Pending
  BY <1>2, <1>4, OfHeld DEF Pending
<1>6. \A p \in Held(Tail(bootstrapCh)) : p.kind \notin Ends
  BY <1>3, <1>5 DEF Phase, Ends, Thread
<1> QED BY <1>3, <1>5, <1>6, OfHeld

\* A stage hands on to the next one, or to the end of the authentication.
LEMMA SaneStage ==
  ASSUME TypeOK, OneThread, Sane, Clean', (\E s \in Stages : HandleStage(s)) \/ HandleExecuteAuthentication
  PROVE  /\ Tidy' /\ Phase' /\ Ask'
         /\ \A p \in Jobs : p \in Pending' <=> p \in Pending
         /\ UNCHANGED <<tasks, mode, config>> /\ ~Turned /\ ~Turned'
<1>1. /\ Take("stage") /\ UNCHANGED <<life, mode, config, tasks, egressCh, requests>>
      /\ \/ sending' = InitFailed
         \/ sending' = <<Packet("authFailed", "none")>>
         \/ \E s \in Stages : sending' = AfterStage(s)
  BY DEF HandleStage, HandleExecuteAuthentication, clientVars, Stages
<1>2. /\ Tidy /\ Ask /\ Phase
      /\ bootstrapCh \in Seq(Packets) /\ bootstrapCh # <<>> /\ Head(bootstrapCh).kind = "stage"
      /\ bootstrapCh' = Tail(bootstrapCh)
  BY <1>1 DEF Sane, Take, TypeOK
<1>3. PICK s \in Stages : sending' = AfterStage(s)
  <2>1. sending' # InitFailed /\ sending' # <<Packet("authFailed", "none")>>
    BY FailureSeen DEF InitFailed
  <2> QED BY <1>1, <2>1
<1>4. /\ life = "Initializing" /\ mode = "text"
      /\ Of(Tail(bootstrapCh), Ends) = {}
  BY <1>1, <1>2, SerialPart
<1>5. /\ Follows(sending', Tail(bootstrapCh))
      /\ \A p \in Held(sending') : p \notin Jobs /\ p.kind \in {"init", "stage", "authSucceeded"}
  BY <1>3, <1>4, StageFollows
<1>6. /\ Tidy'
      /\ Head(bootstrapCh) \in Pending /\ Head(bootstrapCh).kind = "stage"
      /\ Pending' \subseteq Pending \cup Held(sending')
      /\ Pending \subseteq Pending' \cup {Head(bootstrapCh)}
      /\ (\A i, j \in Asked' : i = j) /\ Of(sending', {"switch"}) = {}
      /\ Asked = {} => Asked' = {}
      /\ \A p \in Pending' : p.kind \in Thread => p \in Held(sending')
  <2>1. \A p \in Held(sending') : p.kind # "switch"
    BY <1>5
  <2>2. "stage" \in Thread
    BY DEF Thread
  <2> QED BY <1>1, <1>2, <1>5, <2>1, <2>2, TakeMove
<1>7. ~Turned /\ ~Turned'
  BY <1>1, <1>4 DEF Turned
<1>8. Phase'
  BY <1>1, <1>2, <1>4, <1>5, <1>6 DEF Phase, Thread
<1>9. Ask'
  BY <1>1, <1>2, <1>6, <1>7 DEF Ask
<1>10. \A p \in Jobs : p \in Pending' <=> p \in Pending
  BY <1>5, <1>6 DEF Jobs, Works
<1> QED BY <1>1, <1>6, <1>7, <1>8, <1>9, <1>10

LEMMA SaneStages ==
  ASSUME TypeOK, OneThread, Sane, Clean', (\E s \in Stages : HandleStage(s)) \/ HandleExecuteAuthentication
  PROVE  Sane'
<1>1. /\ Tidy' /\ Phase' /\ Ask'
      /\ \A p \in Jobs : p \in Pending' <=> p \in Pending
      /\ UNCHANGED <<tasks, mode, config>> /\ ~Turned /\ ~Turned'
  BY SaneStage
<1>2. \A c \in Media \cap Comps : exec'[c] = exec[c]
  <2>1. UNCHANGED exec \/ ("auth" \in Comps /\ Install("auth"))
    BY DEF HandleStage, HandleExecuteAuthentication
  <2>2. "auth" \notin Media /\ exec \in [Comps -> Instances]
    BY DEF Media, TypeOK
  <2> QED BY <2>1, <2>2 DEF Install
<1>3. ASSUME NEW c \in Media \cap Comps PROVE Job(c)'
  <2>1. Job(c) /\ \A k \in Works : Packet(k, c) \in Jobs
    BY JobPackets DEF Sane
  <2>2. Waits(c)' = Waits(c)
    BY <1>1, <2>1, WaitsSame
  <2> QED BY <1>1, <1>2, <2>1, <2>2, JobSame
<1> QED BY <1>1, <1>3 DEF Sane

\* The mode is set and the initialization chain is left to be sent.
LEMMA SaneAdmitted ==
  ASSUME TypeOK, OneThread, Sane, HandleSessionAuthenticationSucceeded
  PROVE  Sane'
<1>1. /\ Take("authSucceeded") /\ sending' = BootChain(config)
      /\ mode' = IF config \in {"text", "audio"} THEN config ELSE mode
      /\ UNCHANGED <<life, config, exec, tasks, egressCh, requests>>
  BY DEF HandleSessionAuthenticationSucceeded, clientVars
<1>2. Tidy /\ Ask /\ Phase /\ config \in StreamModes \cup {"none"}
  BY DEF Sane, TypeOK
<1>3. /\ life = "Initializing" /\ mode = "text"
      /\ Of(Tail(bootstrapCh), Ends) = {}
      /\ \A p \in Held(Tail(bootstrapCh)) : p \in Pending
  BY <1>1, <1>2, SerialPart
<1>4. ~Turned /\ ~Turned'
  BY <1>1, <1>3 DEF Turned
<1>5. ASSUME NEW c \in Media \cap Comps
      PROVE  Unstarted(c) /\ Waits(c) = {} /\ (c \notin AsyncInit => tasks[<<"init", c>>] = 0)
  <2>1. Job(c)
    BY DEF Sane
  <2> QED BY <1>3, <1>4, <2>1 DEF Job, Unstarted, Through
<1>6. \A c \in Media \cap Comps : Packet("init", c) \notin Held(Tail(bootstrapCh))
  <2>1. "init" \in Works
    BY DEF Works
  <2> QED BY <1>3, <1>5, <2>1 DEF Waits
<1>7. /\ Follows(sending', Tail(bootstrapCh))
      /\ \A p \in Held(sending') : p.kind \in {"init", "initCompleted"}
      /\ \A p \in Held(sending') : p.kind = "initCompleted" => config \in {"text", "audio"}
      /\ \A c \in Media \cap Comps : Packet("init", c) \in Held(sending') <=> config = "audio"
  BY <1>1, <1>2, <1>3, <1>6, BootFollows
<1>8. /\ Tidy'
      /\ Head(bootstrapCh).kind = "authSucceeded"
      /\ Pending' \subseteq Pending \cup Held(sending')
      /\ Held(sending') \subseteq Pending'
      /\ Pending \subseteq Pending' \cup {Head(bootstrapCh)}
      /\ (\A i, j \in Asked' : i = j) /\ Of(sending', {"switch"}) = {}
      /\ Asked = {} => Asked' = {}
      /\ \A p \in Pending' : p.kind \in Thread => p \in Held(sending')
  <2>1. \A p \in Held(sending') : p.kind # "switch"
    BY <1>7
  <2>2. "authSucceeded" \in Thread
    BY DEF Thread
  <2> QED BY <1>1, <1>2, <1>7, <2>1, <2>2, TakeMove
<1>9. Phase'
  BY <1>1, <1>2, <1>3, <1>7, <1>8 DEF Phase, Thread
<1>10. Ask'
  BY <1>1, <1>2, <1>4, <1>8 DEF Ask
<1>11. ASSUME NEW c \in Media \cap Comps PROVE Job(c)'
  <2>1. \A k \in Works : Packet(k, c) \in Pending' <=> k = "init" /\ config = "audio"
    <3> TAKE k \in Works
    <3>1. Packet(k, c) \notin Pending
      BY <1>5 DEF Waits
    <3>2. Packet(k, c).kind = k /\ k # "initCompleted"
      BY PacketFields DEF Works
    <3>3. Packet(k, c) \in Held(sending') <=> k = "init" /\ config = "audio"
      BY <1>7, <3>2
    <3> QED BY <1>8, <3>1, <3>3
  <2>2. "init" \in Works
    BY DEF Works
  <2>3. Waits(c)' = IF config = "audio" THEN {"init"} ELSE {}
    BY <2>1, <2>2 DEF Waits
  <2>4. Idle(c)' /\ Fresh(c)' /\ (c \notin AsyncInit => tasks'[<<"init", c>>] = 0)
    BY <1>1, <1>5 DEF Unstarted, Through, Idle, Fresh
  <2>5. mode' = "audio" <=> config = "audio"
    BY <1>1, <1>3
  <2>6. CASE config = "audio"
    BY <1>4, <2>3, <2>4, <2>5, <2>6 DEF Job, Starting, Due
  <2>7. CASE config # "audio"
    BY <1>4, <2>3, <2>4, <2>5, <2>7 DEF Job, Unstarted, Through
  <2> QED BY <2>6, <2>7
<1> QED BY <1>8, <1>9, <1>10, <1>11 DEF Sane

\* A handler that takes a packet of no chain, or the end of one, and leaves nothing
\* that concerns an executor.
LEMMA SaneAside ==
  ASSUME TypeOK, OneThread, Sane, NEW k, k \notin Works, Take(k), sending' \in Seq(Packets),
         \A p \in Held(sending') : p.kind \notin Chained \cup {"switch"}
  PROVE  /\ Tidy'
         /\ Head(bootstrapCh) \in Pending /\ Head(bootstrapCh) \in Packets /\ Head(bootstrapCh).kind = k
         /\ Pending' \subseteq Pending \cup Held(sending')
         /\ k \in Ends => \A p \in Pending' : p.kind \notin Chained
         /\ k \in Thread => \A p \in Pending' : p.kind \in Thread => p \in Held(sending')
         /\ (\A i, j \in Asked' : i = j) /\ Of(sending', {"switch"}) = {}
         /\ Asked = {} => Asked' = {}
         /\ k = "switch" => Asked' = {} /\ Asked # {}
         /\ \A p \in Jobs : p \in Pending' <=> p \in Pending
<1>1. Follows(sending', Tail(bootstrapCh))
  BY FollowsIdle
<1>2. Tidy /\ Ask
  BY DEF Sane
<1>3. /\ Tidy'
      /\ Head(bootstrapCh) \in Pending /\ Head(bootstrapCh) \in Packets /\ Head(bootstrapCh).kind = k
      /\ Pending' \subseteq Pending \cup Held(sending')
      /\ Pending \subseteq Pending' \cup {Head(bootstrapCh)}
      /\ k \in Ends => \A p \in Pending' : p.kind \in Chained => p \in Held(sending')
      /\ k \in Thread => \A p \in Pending' : p.kind \in Thread => p \in Held(sending')
      /\ (\A i, j \in Asked' : i = j) /\ Of(sending', {"switch"}) = {}
      /\ Asked = {} => Asked' = {}
      /\ k = "switch" => Asked' = {} /\ Asked # {}
  BY <1>1, <1>2, TakeMove
<1>4. \A p \in Jobs : p \notin Held(sending') /\ p # Head(bootstrapCh)
  BY <1>3 DEF Jobs, Chained
<1> QED BY <1>3, <1>4

LEMMA SaneInitialized ==
  ASSUME TypeOK, OneThread, Sane, Clean', HandleInitializationCompleted
  PROVE  Sane'
<1> DEFINE q == Packet("inbound", "none")
<1>1. /\ Take("initCompleted") /\ sending' = <<q>>
      /\ life' = Transition(life, "InitializationCompleted")
      /\ UNCHANGED <<mode, config, exec, tasks, egressCh, requests>>
  BY DEF HandleInitializationCompleted, clientVars
<1>2. q \in Packets /\ q.kind = "inbound"
  BY DEF Packet, Packets, PacketKinds
<1> HIDE DEF q
<1>3. sending' \in Seq(Packets) /\ Held(sending') = {q} /\ q.kind \notin Chained \cup {"switch"}
  BY <1>1, <1>2, SingleHeld DEF Chained, Works, Ends
<1>4. "initCompleted" \in Ends /\ "initCompleted" \in Thread /\ "initCompleted" \notin Works
  BY DEF Ends, Thread, Works
<1>5. /\ Tidy'
      /\ Head(bootstrapCh) \in Pending /\ Head(bootstrapCh).kind = "initCompleted"
      /\ Pending' \subseteq Pending \cup Held(sending')
      /\ \A p \in Pending' : p.kind \notin Chained
      /\ \A p \in Pending' : p.kind \in Thread => p \in Held(sending')
      /\ (\A i, j \in Asked' : i = j) /\ Of(sending', {"switch"}) = {}
      /\ Asked = {} => Asked' = {}
      /\ \A p \in Jobs : p \in Pending' <=> p \in Pending
  BY <1>1, <1>3, <1>4, SaneAside
<1>6. life = "Initializing" /\ mode = config /\ life' = "Ready" /\ Ask
  BY <1>1, <1>5 DEF Sane, Phase, Transition, CanBe, EventSources, EventTarget
<1>7. ~Turned /\ ~Turned'
  BY <1>1, <1>6 DEF Turned
<1>8. Phase'
  BY <1>1, <1>2, <1>3, <1>5, <1>6 DEF Phase, Thread, Chained, Ends, TypeOK
<1>9. Ask'
  BY <1>1, <1>5, <1>6, <1>7 DEF Ask
<1>10. \A c \in Media \cap Comps : Job(c)'
  BY <1>1, <1>5, <1>7, JobsSame
<1> QED BY <1>5, <1>8, <1>9, <1>10 DEF Sane

LEMMA SaneInbound ==
  ASSUME TypeOK, OneThread, Sane, HandleInitializeInboundDispatcher
  PROVE  Sane'
<1>1. /\ Take("inbound") /\ sending' = <<>>
      /\ UNCHANGED <<life, mode, config, exec, tasks, egressCh, requests>>
  BY DEF HandleInitializeInboundDispatcher, Take, clientVars
<1>2. sending' \in Seq(Packets) /\ Held(sending') = {} /\ "inbound" \notin Works
  BY <1>1 DEF Held, Works
<1>3. /\ Tidy' /\ Pending' \subseteq Pending
      /\ (\A i, j \in Asked' : i = j) /\ Of(sending', {"switch"}) = {}
      /\ Asked = {} => Asked' = {}
      /\ \A p \in Jobs : p \in Pending' <=> p \in Pending
  BY <1>1, <1>2, SaneAside
<1>4. Turned' <=> Turned
  BY <1>1 DEF Turned
<1>5. Phase' /\ Ask'
  BY <1>1, <1>3, <1>4 DEF Sane, Phase, Ask
<1>6. \A c \in Media \cap Comps : Job(c)'
  BY <1>1, <1>3, <1>4, JobsSame
<1> QED BY <1>3, <1>5, <1>6 DEF Sane

-----------------------------------------------------------------------------
(* The steps that do a job *)

LEMMA TaskAt ==
  ASSUME tasks \in [TaskKinds \X Comps -> Nat], NEW k \in TaskKinds, NEW c \in Comps
  PROVE  /\ Spawn(k, c) => \A j \in TaskKinds, d \in Comps :
              tasks'[<<j, d>>] = IF j = k /\ d = c THEN tasks[<<j, d>>] + 1 ELSE tasks[<<j, d>>]
         /\ Finish(k, c) => \A j \in TaskKinds, d \in Comps :
              tasks'[<<j, d>>] = IF j = k /\ d = c THEN tasks[<<j, d>>] - 1 ELSE tasks[<<j, d>>]
<1>1. \A j \in TaskKinds, d \in Comps : <<j, d>> \in TaskKinds \X Comps /\ (<<j, d>> = <<k, c>> <=> j = k /\ d = c)
  OBVIOUS
<1>2. ASSUME Spawn(k, c), NEW j \in TaskKinds, NEW d \in Comps
      PROVE  tasks'[<<j, d>>] = IF j = k /\ d = c THEN tasks[<<j, d>>] + 1 ELSE tasks[<<j, d>>]
  BY <1>1, <1>2 DEF Spawn
<1>3. ASSUME Finish(k, c), NEW j \in TaskKinds, NEW d \in Comps
      PROVE  tasks'[<<j, d>>] = IF j = k /\ d = c THEN tasks[<<j, d>>] - 1 ELSE tasks[<<j, d>>]
  BY <1>1, <1>3 DEF Finish
<1> QED BY <1>2, <1>3

\* A job that is started, and one that is over.
LEMMA IdleBusy ==
  ASSUME tasks \in [TaskKinds \X Comps -> Nat], NEW k \in TaskKinds, NEW c \in Comps
  PROVE  /\ Spawn(k, c) /\ Idle(c) => Busy(k, c)'
         /\ Finish(k, c) /\ Busy(k, c) => Idle(c)'
         /\ Busy(k, c) => \A j \in TaskKinds : tasks[<<j, c>>] > 0 => j = k
         /\ Idle(c) => \A j \in TaskKinds : ~(tasks[<<j, c>>] > 0)
BY TaskAt DEF Idle, Busy

\* The executors a session claims nothing about: those that a goroutine of the
\* bootstrap may still create after a switch to text.
Unclaimed(c) == Turned /\ config # "text" /\ c \notin {"stt", "tts"}

\* The job that an executor waits for is the only one it has.
LEMMA JobDue ==
  ASSUME NEW c, Job(c), NEW k \in Waits(c), ~Unclaimed(c)
  PROVE  /\ Waits(c) = {k} /\ Idle(c)
         /\ k = "init" => ~Turned /\ mode = "audio" /\ Fresh(c)
         /\ k = "swInit" => Turned /\ config = "text" /\ Fresh(c)
         /\ k = "swClose" => Turned /\ config # "text" /\ c \in {"stt", "tts"} /\ Begun(c)
<1>1. Waits(c) # {}
  OBVIOUS
<1>2. CASE ~Turned
  <2>1. mode = "audio" /\ Due("init", c) /\ Fresh(c)
    BY <1>1, <1>2 DEF Job, Unstarted, Starting, Through
  <2> QED BY <1>1, <1>2, <2>1 DEF Due
<1>3. CASE Turned /\ config = "text"
  <2>1. Due("swInit", c) /\ Fresh(c)
    BY <1>1, <1>3 DEF Job, Starting, Through
  <2> QED BY <1>1, <1>3, <2>1 DEF Due
<1>4. CASE Turned /\ config # "text"
  <2>1. Due("swClose", c) /\ Begun(c) /\ c \in {"stt", "tts"}
    BY <1>1, <1>4 DEF Job, Stopping, Unclaimed
  <2> QED BY <1>1, <1>4, <2>1 DEF Due
<1> QED BY <1>2, <1>3, <1>4

\* And so is the one that a goroutine does.
LEMMA JobBusy ==
  ASSUME TypeOK, NEW c \in Comps, Job(c), NEW k \in TaskKinds, tasks[<<k, c>>] > 0, ~Unclaimed(c)
  PROVE  /\ Waits(c) = {} /\ Busy(k, c)
         /\ k = "init" => ~Turned /\ mode = "audio" /\ Fresh(c)
         /\ k = "swInit" => Turned /\ config = "text" /\ Fresh(c)
         /\ k = "swClose" => Turned /\ config # "text" /\ Begun(c)
         /\ k = "clear" => Turned /\ config # "text" /\ exec[c].open = {}
<1>1. ~Idle(c) /\ \A j \in TaskKinds : Busy(j, c) => j = k
  BY IdleBusy DEF TypeOK
<1>2. "init" \in TaskKinds /\ "swInit" \in TaskKinds /\ "swClose" \in TaskKinds /\ "clear" \in TaskKinds
  BY DEF TaskKinds
<1>3. CASE ~Turned
  <2>1. mode = "audio" /\ Due("init", c) /\ Fresh(c)
    BY <1>1, <1>3 DEF Job, Unstarted, Starting, Through
  <2> QED BY <1>1, <1>2, <1>3, <2>1 DEF Due
<1>4. CASE Turned /\ config = "text"
  <2>1. Due("swInit", c) /\ Fresh(c)
    BY <1>1, <1>4 DEF Job, Starting, Through
  <2> QED BY <1>1, <1>2, <1>4, <2>1 DEF Due
<1>5. CASE Turned /\ config # "text"
  <2>1. Stopping(c)
    BY <1>5 DEF Job, Unclaimed
  <2>2. \/ Due("swClose", c) /\ Begun(c)
        \/ Waits(c) = {} /\ Busy("clear", c) /\ exec[c].open = {}
    BY <1>1, <2>1 DEF Stopping
  <2> QED BY <1>1, <1>2, <1>5, <2>2 DEF Due
<1> QED BY <1>3, <1>4, <1>5

\* A job is taken off the queue, by the handler itself or for a goroutine.
LEMMA JobTake ==
  ASSUME TypeOK, OneThread, Sane, NEW k \in Works, Take(k), NEW c, Head(bootstrapCh).arg = c,
         UNCHANGED <<sending, life, config, egressCh, requests>>
  PROVE  /\ Tidy' /\ life # "Ready"
         /\ mode' = mode => Phase' /\ Ask' /\ (Turned' <=> Turned)
         /\ \A d \in Media : d # c => Waits(d)' = Waits(d)
         /\ c \in Media => k \in Waits(c) /\ Waits(c)' = Waits(c) \ {k}
<1>1. sending' = <<>> /\ sending' \in Seq(Packets) /\ Held(sending') = {}
  BY DEF Take, Held
<1>2. Follows(sending', Tail(bootstrapCh))
  BY <1>1, FollowsIdle
<1>3. Tidy /\ Ask /\ Phase
  BY DEF Sane
<1>4. /\ Tidy'
      /\ Head(bootstrapCh) \in Pending /\ Head(bootstrapCh) \in Packets /\ Head(bootstrapCh).kind = k
      /\ Pending' \subseteq Pending
      /\ Pending \subseteq Pending' \cup {Head(bootstrapCh)}
      /\ Head(bootstrapCh) \in Jobs => Head(bootstrapCh) \notin Pending'
      /\ (\A i, j \in Asked' : i = j) /\ Of(sending', {"switch"}) = {}
      /\ Asked = {} => Asked' = {}
  BY <1>1, <1>2, <1>3, TakeMove
<1>5. life # "Ready"
  BY <1>3, <1>4 DEF Phase
<1>6. mode' = mode => Phase' /\ Ask' /\ (Turned' <=> Turned)
  <2> SUFFICES ASSUME mode' = mode PROVE Phase' /\ Ask' /\ (Turned' <=> Turned)
    OBVIOUS
  <2>1. Turned' <=> Turned
    BY DEF Turned
  <2> QED BY <1>3, <1>4, <2>1 DEF Phase, Ask
<1>7. /\ \A d \in Media : d # c => Waits(d)' = Waits(d)
      /\ c \in Media => k \in Waits(c) /\ Waits(c)' = Waits(c) \ {k}
  BY <1>4, WaitsTaken
<1> QED BY <1>4, <1>5, <1>6, <1>7

\* What a new instance is, and what is left of one that is closed.
LEMMA InstallAt ==
  ASSUME TypeOK, NEW c \in Comps
  PROVE  /\ Install(c) => \A d \in Comps : d # c => exec'[d] = exec[d]
         /\ Install(c) /\ Fresh(c) => Begun(c)'
<1>1. exec \in [Comps -> Instances]
  BY DEF TypeOK
<1>2. Install(c) => \A d \in Comps : d # c => exec'[d] = exec[d]
  BY <1>1 DEF Install
<1>3. ASSUME Install(c), Fresh(c) PROVE Begun(c)'
  <2>1. exec'[c] = [ptr |-> exec[c].made + 1, made |-> exec[c].made + 1,
                    open |-> exec[c].open \cup {exec[c].made + 1}]
    BY <1>1, <1>3 DEF Install
  <2>2. exec[c].made + 1 = 1 /\ exec[c].open \cup {exec[c].made + 1} = {1}
    BY <1>3 DEF Fresh
  <2> QED BY <2>1, <2>2 DEF Begun
<1> QED BY <1>2, <1>3

LEMMA SaneInit ==
  ASSUME TypeOK, OneThread, Sane, Clean', NEW c \in Comps, HandleInit(c)
  PROVE  Sane'
<1>1. sending' # InitFailed
  BY FailureSeen DEF InitFailed
<1>2. /\ Take("init") /\ Head(bootstrapCh).arg = c /\ c \notin AsyncInit /\ Install(c)
      /\ mode' = IF c = "tts" THEN "audio" ELSE mode
      /\ UNCHANGED <<sending, life, config, tasks, egressCh, requests>>
  BY <1>1 DEF HandleInit, clientVars
<1>3. "init" \in Works
  BY DEF Works
<1>4. /\ Tidy' /\ life # "Ready"
      /\ mode' = mode => Phase' /\ Ask' /\ (Turned' <=> Turned)
      /\ \A d \in Media : d # c => Waits(d)' = Waits(d)
      /\ c \in Media => "init" \in Waits(c) /\ Waits(c)' = Waits(c) \ {"init"}
  BY <1>2, <1>3, JobTake
<1>5. c \in Media => c \in {"stt", "tts"}
  BY <1>2 DEF Media, AsyncInit
<1>6. c \in Media => Waits(c) = {"init"} /\ Idle(c) /\ ~Turned /\ mode = "audio" /\ Fresh(c)
  <2> SUFFICES ASSUME c \in Media PROVE Waits(c) = {"init"} /\ Idle(c) /\ ~Turned /\ mode = "audio" /\ Fresh(c)
    OBVIOUS
  <2>1. Job(c) /\ ~Unclaimed(c) /\ "init" \in Waits(c)
    BY <1>4, <1>5 DEF Sane, Unclaimed
  <2> QED BY <2>1, JobDue
<1>7. mode' = mode
  BY <1>2, <1>6 DEF Media
<1>8. ASSUME NEW d \in Media \cap Comps PROVE Job(d)'
  <2>1. Job(d)
    BY DEF Sane
  <2>2. CASE d # c
    <3>1. exec'[d] = exec[d]
      BY <1>2, <2>2, InstallAt
    <3> QED BY <1>2, <1>4, <1>7, <2>1, <2>2, <3>1, JobSame
  <2>3. CASE d = c
    <3>1. Waits(c)' = {} /\ Idle(c)' /\ Begun(c)' /\ ~Turned' /\ mode' = "audio"
      BY <1>2, <1>4, <1>6, <1>7, <2>3, InstallAt DEF Idle
    <3>2. "init" \in TaskKinds
      BY DEF TaskKinds
    <3> QED BY <2>3, <3>1, <3>2 DEF Job, Starting, Through, Idle
  <2> QED BY <2>2, <2>3
<1> QED BY <1>4, <1>7, <1>8 DEF Sane

LEMMA SaneSwitchInit ==
  ASSUME TypeOK, OneThread, Sane, Clean', NEW c \in Comps, HandleSwitchInit(c)
  PROVE  Sane'
<1>1. sending' # InitFailed
  BY FailureSeen DEF InitFailed
<1>2. ~SwitchError("fatal")
  BY FatalSeen
<1>3. /\ Take("swInit") /\ Head(bootstrapCh).arg = c /\ Install(c)
      /\ UNCHANGED <<sending, life, mode, config, tasks, egressCh, requests>>
  BY <1>1, <1>2 DEF HandleSwitchInit, clientVars
<1>4. "swInit" \in Works
  BY DEF Works
<1>5. /\ Tidy' /\ Phase' /\ Ask' /\ (Turned' <=> Turned)
      /\ \A d \in Media : d # c => Waits(d)' = Waits(d)
      /\ c \in Media => "swInit" \in Waits(c) /\ Waits(c)' = Waits(c) \ {"swInit"}
  BY <1>3, <1>4, JobTake
<1>6. ASSUME NEW d \in Media \cap Comps PROVE Job(d)'
  <2>1. Job(d)
    BY DEF Sane
  <2>2. CASE d # c
    <3>1. exec'[d] = exec[d]
      BY <1>3, <2>2, InstallAt
    <3> QED BY <1>3, <1>5, <2>1, <2>2, <3>1, JobSame
  <2>3. CASE d = c /\ Unclaimed(c)
    BY <1>3, <1>5, <2>1, <2>3 DEF Job, Unclaimed
  <2>4. CASE d = c /\ ~Unclaimed(c)
    <3>1. Waits(c) = {"swInit"} /\ Idle(c) /\ Turned /\ config = "text" /\ Fresh(c)
      BY <1>5, <2>1, <2>4, JobDue
    <3>2. Waits(c)' = {} /\ Idle(c)' /\ Begun(c)' /\ Turned' /\ config' = "text"
      BY <1>3, <1>5, <2>4, <3>1, InstallAt DEF Idle
    <3>3. "init" \in TaskKinds
      BY DEF TaskKinds
    <3> QED BY <2>4, <3>2, <3>3 DEF Job, Starting, Through, Idle
  <2> QED BY <2>2, <2>3, <2>4
<1> QED BY <1>5, <1>6 DEF Sane

LEMMA SaneDispatch ==
  ASSUME TypeOK, OneThread, Sane, NEW c \in Comps, DispatchAsync(c)
  PROVE  Sane'
<1>1. PICK k \in Works : /\ Take(k) /\ Head(bootstrapCh).arg = c /\ Spawn(k, c)
                         /\ k = "init" => c \in AsyncInit
                         /\ UNCHANGED <<sending, life, mode, config, exec, egressCh, requests>>
  BY DEF DispatchAsync, Works, clientVars
<1>2. /\ Tidy' /\ Phase' /\ Ask' /\ (Turned' <=> Turned)
      /\ \A d \in Media : d # c => Waits(d)' = Waits(d)
      /\ c \in Media => k \in Waits(c) /\ Waits(c)' = Waits(c) \ {k}
  BY <1>1, JobTake
<1>3. k \in TaskKinds /\ "init" \in TaskKinds /\ tasks \in [TaskKinds \X Comps -> Nat]
  BY DEF TaskKinds, Works, TypeOK
<1>4. \A j \in TaskKinds, d \in Comps :
        tasks'[<<j, d>>] = IF j = k /\ d = c THEN tasks[<<j, d>>] + 1 ELSE tasks[<<j, d>>]
  BY <1>1, <1>3, TaskAt
<1>5. ASSUME NEW d \in Media \cap Comps PROVE Job(d)'
  <2>1. Job(d)
    BY DEF Sane
  <2>2. CASE d # c
    <3>1. \A j \in TaskKinds : tasks'[<<j, d>>] = tasks[<<j, d>>]
      BY <1>4, <2>2
    <3> QED BY <1>1, <1>2, <2>1, <2>2, <3>1, JobSame
  <2>3. d = c /\ d \notin AsyncInit => tasks'[<<"init", d>>] = 0
    BY <1>1, <1>3, <1>4, <2>1 DEF Job
  <2>4. CASE d = c /\ Unclaimed(c)
    BY <1>1, <1>2, <2>3, <2>4 DEF Job, Unclaimed
  <2>5. CASE d = c /\ ~Unclaimed(c)
    <3>1. /\ Waits(c) = {k} /\ Idle(c)
          /\ k = "init" => ~Turned /\ mode = "audio" /\ Fresh(c)
          /\ k = "swInit" => Turned /\ config = "text" /\ Fresh(c)
          /\ k = "swClose" => Turned /\ config # "text" /\ c \in {"stt", "tts"} /\ Begun(c)
      BY <1>2, <2>1, <2>5, JobDue
    <3>2. Waits(c)' = {} /\ Busy(k, c)'
      BY <1>1, <1>2, <1>3, <2>5, <3>1, IdleBusy
    <3>3. Due(k, c)' /\ (Fresh(c) => Fresh(c)') /\ (Begun(c) => Begun(c)')
      BY <1>1, <3>2 DEF Due, Fresh, Begun
    <3> QED BY <1>1, <1>2, <2>3, <2>5, <3>1, <3>3 DEF Job, Starting, Stopping, Works
  <2> QED BY <2>2, <2>4, <2>5
<1> QED BY <1>2, <1>5 DEF Sane

-----------------------------------------------------------------------------
(* The goroutines *)

\* A goroutine concerns one executor and leaves the queues alone.
LEMMA SaneBut ==
  ASSUME Sane, NEW c \in Comps,
         UNCHANGED <<life, mode, config, bootstrapCh, sending, egressCh, requests>>,
         \A d \in Comps : d # c => exec'[d] = exec[d] /\ \A j \in TaskKinds : tasks'[<<j, d>>] = tasks[<<j, d>>],
         Job(c) /\ Waits(c)' = Waits(c) /\ (Turned' <=> Turned) => Job(c)'
  PROVE  Sane'
<1>1. Tidy' /\ Pending' = Pending /\ (Turned' <=> Turned) /\ Asked' = Asked
  BY DEF Sane, Tidy, Pending, Turned, Asked
<1>2. Phase' /\ Ask'
  BY <1>1 DEF Sane, Phase, Ask
<1>3. ASSUME NEW d \in Media \cap Comps PROVE Job(d)'
  <2>1. Job(d) /\ Waits(d)' = Waits(d)
    BY <1>1, <1>3 DEF Sane, Waits
  <2>2. CASE d # c
    BY <1>1, <2>1, <2>2, JobSame
  <2>3. CASE d = c
    BY <1>1, <2>1, <2>3
  <2> QED BY <2>2, <2>3
<1> QED BY <1>1, <1>2, <1>3 DEF Sane

LEMMA SaneInstalled ==
  ASSUME TypeOK, Sane, Clean', NEW c \in Comps, AsyncInitialized(c)
  PROVE  Sane'
<1>1. ~Enqueue(Packet("initFailed", "none"))
  <2> SUFFICES ASSUME Enqueue(Packet("initFailed", "none")) PROVE FALSE
    OBVIOUS
  <2>1. Packet("initFailed", "none") \in Packets /\ Packet("initFailed", "none").kind = "initFailed"
    BY DEF Packet, Packets, PacketKinds
  <2>2. Held(bootstrapCh') = Held(bootstrapCh) \cup {Packet("initFailed", "none")}
    BY <2>1, HeldAppended DEF Enqueue, TypeOK
  <2> QED BY <2>1, <2>2 DEF Clean, Pending
<1>2. PICK k \in {"init", "swInit"} : TaskDone(k, c) /\ Install(c) /\ UNCHANGED <<bootstrapCh, egressCh>>
  BY <1>1, FatalSeen DEF AsyncInitialized
<1>3. /\ UNCHANGED <<life, mode, config, sending, requests>>
      /\ tasks[<<k, c>>] > 0 /\ Finish(k, c)
      /\ tasks \in [TaskKinds \X Comps -> Nat] /\ k \in TaskKinds /\ "init" \in TaskKinds
  BY <1>2 DEF AsyncInitialized, TaskDone, clientVars, TypeOK, TaskKinds
<1>4. \A j \in TaskKinds, d \in Comps :
        tasks'[<<j, d>>] = IF j = k /\ d = c THEN tasks[<<j, d>>] - 1 ELSE tasks[<<j, d>>]
  BY <1>3, TaskAt
<1>5. \A d \in Comps : d # c => exec'[d] = exec[d] /\ \A j \in TaskKinds : tasks'[<<j, d>>] = tasks[<<j, d>>]
  BY <1>2, <1>4, InstallAt
<1>6. ASSUME Job(c), Waits(c)' = Waits(c), Turned' <=> Turned PROVE Job(c)'
  <2>1. c \notin AsyncInit => tasks'[<<"init", c>>] = 0
    BY <1>3, <1>4, <1>6 DEF Job
  <2>2. CASE Unclaimed(c)
    BY <1>3, <1>6, <2>1, <2>2 DEF Job, Unclaimed
  <2>3. CASE ~Unclaimed(c)
    <3>1. /\ Waits(c) = {} /\ Busy(k, c) /\ Fresh(c)
          /\ k = "init" => ~Turned /\ mode = "audio"
          /\ k = "swInit" => Turned /\ config = "text"
      BY <1>3, <1>6, <2>3, JobBusy
    <3>2. Waits(c)' = {} /\ Idle(c)' /\ Begun(c)'
      BY <1>2, <1>3, <1>6, <3>1, IdleBusy, InstallAt
    <3> QED BY <1>3, <1>6, <2>1, <3>1, <3>2 DEF Job, Starting, Through
  <2> QED BY <2>2, <2>3
<1> QED BY <1>2, <1>3, <1>5, <1>6, SaneBut

LEMMA SaneClosed ==
  ASSUME TypeOK, Sane, NEW c \in Comps, SwitchClose(c)
  PROVE  Sane'
<1>1. /\ UNCHANGED <<life, mode, config, bootstrapCh, sending, egressCh, requests>>
      /\ tasks[<<"swClose", c>>] > 0
      /\ tasks \in [TaskKinds \X Comps -> Nat] /\ exec \in [Comps -> Instances]
      /\ "swClose" \in TaskKinds /\ "clear" \in TaskKinds /\ "init" \in TaskKinds
  BY DEF SwitchClose, clientVars, TypeOK, TaskKinds
<1>2. ASSUME exec[c].ptr # 0
      PROVE  /\ \A j \in TaskKinds, d \in Comps :
                  tasks'[<<j, d>>] = IF d = c /\ j = "swClose" THEN tasks[<<j, d>>] - 1
                                     ELSE IF d = c /\ j = "clear" THEN tasks[<<j, d>>] + 1
                                     ELSE tasks[<<j, d>>]
             /\ exec' = [exec EXCEPT ![c].open = @ \ {exec[c].ptr}]
  <2>1. /\ tasks' = [tasks EXCEPT ![<<"swClose", c>>] = @ - 1, ![<<"clear", c>>] = @ + 1]
        /\ exec' = [exec EXCEPT ![c].open = @ \ {exec[c].ptr}]
    BY <1>2 DEF SwitchClose, CloseCurrent
  <2>2. ASSUME NEW j \in TaskKinds, NEW d \in Comps
        PROVE  tasks'[<<j, d>>] = IF d = c /\ j = "swClose" THEN tasks[<<j, d>>] - 1
                                  ELSE IF d = c /\ j = "clear" THEN tasks[<<j, d>>] + 1
                                  ELSE tasks[<<j, d>>]
    <3>1. <<j, d>> \in TaskKinds \X Comps /\ <<"swClose", c>> \in TaskKinds \X Comps
          /\ <<"clear", c>> \in TaskKinds \X Comps /\ <<"clear", c>> # <<"swClose", c>>
      BY <1>1
    <3>2. (<<j, d>> = <<"swClose", c>> <=> d = c /\ j = "swClose") /\ (<<j, d>> = <<"clear", c>> <=> d = c /\ j = "clear")
      OBVIOUS
    <3> QED BY <1>1, <2>1, <3>1, <3>2
  <2> QED BY <2>1, <2>2
<1>3. ASSUME exec[c].ptr = 0
      PROVE  /\ \A j \in TaskKinds, d \in Comps :
                  tasks'[<<j, d>>] = IF j = "swClose" /\ d = c THEN tasks[<<j, d>>] - 1 ELSE tasks[<<j, d>>]
             /\ exec' = exec
  <2>1. Finish("swClose", c) /\ exec' = exec
    BY <1>3 DEF SwitchClose
  <2> QED BY <1>1, <2>1, TaskAt
<1>4. \A d \in Comps : d # c => exec'[d] = exec[d] /\ \A j \in TaskKinds : tasks'[<<j, d>>] = tasks[<<j, d>>]
  BY <1>1, <1>2, <1>3
<1>5. ASSUME Job(c), Waits(c)' = Waits(c), Turned' <=> Turned PROVE Job(c)'
  <2>1. c \notin AsyncInit => tasks'[<<"init", c>>] = 0
    BY <1>1, <1>2, <1>3, <1>5 DEF Job
  <2>2. CASE Unclaimed(c)
    BY <1>1, <1>5, <2>1, <2>2 DEF Job, Unclaimed
  <2>3. CASE ~Unclaimed(c)
    <3>1. Waits(c) = {} /\ Busy("swClose", c) /\ Turned /\ config # "text" /\ Begun(c)
      BY <1>1, <1>5, <2>3, JobBusy
    <3>2. exec[c].ptr = 1 /\ exec[c].open = {1}
      BY <3>1 DEF Begun
    <3>3. exec'[c].open = {}
      <4>1. exec[c] \in Instances /\ exec' = [exec EXCEPT ![c].open = @ \ {exec[c].ptr}]
        BY <1>1, <1>2, <3>2
      <4>2. exec'[c].open = exec[c].open \ {exec[c].ptr}
        BY <1>1, <4>1 DEF Instances
      <4> QED BY <3>2, <4>2
    <3>4. Busy("clear", c)'
      <4> SUFFICES ASSUME NEW j \in TaskKinds PROVE tasks'[<<j, c>>] = IF j = "clear" THEN 1 ELSE 0
        BY DEF Busy
      <4>1. tasks[<<j, c>>] = IF j = "swClose" THEN 1 ELSE 0
        BY <3>1 DEF Busy
      <4> QED BY <1>2, <3>2, <4>1
    <3> QED BY <1>1, <1>5, <2>1, <3>1, <3>3, <3>4 DEF Job, Stopping
  <2> QED BY <2>2, <2>3
<1> QED BY <1>1, <1>4, <1>5, SaneBut

LEMMA SaneCleared ==
  ASSUME TypeOK, Sane, NEW c \in Comps, SwitchClear(c)
  PROVE  Sane'
<1>1. /\ UNCHANGED <<life, mode, config, bootstrapCh, sending, egressCh, requests>>
      /\ tasks[<<"clear", c>>] > 0 /\ Finish("clear", c)
      /\ exec' = [exec EXCEPT ![c].ptr = 0]
      /\ tasks \in [TaskKinds \X Comps -> Nat] /\ exec \in [Comps -> Instances]
      /\ "clear" \in TaskKinds /\ "init" \in TaskKinds
  BY DEF SwitchClear, TaskDone, Clear, clientVars, TypeOK, TaskKinds
<1>2. \A j \in TaskKinds, d \in Comps :
        tasks'[<<j, d>>] = IF j = "clear" /\ d = c THEN tasks[<<j, d>>] - 1 ELSE tasks[<<j, d>>]
  BY <1>1, TaskAt
<1>3. \A d \in Comps : d # c => exec'[d] = exec[d] /\ \A j \in TaskKinds : tasks'[<<j, d>>] = tasks[<<j, d>>]
  BY <1>1, <1>2
<1>4. ASSUME Job(c), Waits(c)' = Waits(c), Turned' <=> Turned PROVE Job(c)'
  <2>1. c \notin AsyncInit => tasks'[<<"init", c>>] = 0
    BY <1>1, <1>2, <1>4 DEF Job
  <2>2. CASE Unclaimed(c)
    BY <1>1, <1>4, <2>1, <2>2 DEF Job, Unclaimed
  <2>3. CASE ~Unclaimed(c)
    <3>1. Waits(c) = {} /\ Busy("clear", c) /\ Turned /\ config # "text" /\ exec[c].open = {}
      BY <1>1, <1>4, <2>3, JobBusy
    <3>2. Idle(c)' /\ exec'[c].open = {}
      BY <1>1, <3>1, IdleBusy DEF Instances
    <3> QED BY <1>1, <1>4, <2>1, <3>1, <3>2 DEF Job, Stopping
  <2> QED BY <2>2, <2>3
<1> QED BY <1>1, <1>3, <1>4, SaneBut

-----------------------------------------------------------------------------
(* The switch *)

\* A request that changes nothing, or is refused.
LEMMA SaneDeclined ==
  ASSUME TypeOK, OneThread, Sane, Take("switch"), UNCHANGED <<life, mode, config, exec, tasks, sending, requests>>,
         life = "Switching" => egressCh' = <<>>
  PROVE  Sane'
<1>1. sending' = <<>> /\ sending' \in Seq(Packets) /\ Held(sending') = {} /\ "switch" \notin Works
  BY DEF Take, Held, Works
<1>2. /\ Tidy' /\ Pending' \subseteq Pending
      /\ (\A i, j \in Asked' : i = j) /\ Of(sending', {"switch"}) = {}
      /\ Asked' = {} /\ Asked # {}
      /\ \A p \in Jobs : p \in Pending' <=> p \in Pending
  BY <1>1, SaneAside
<1>3. Turned' <=> Turned
  BY DEF Turned
<1>4. requests # 0
  BY <1>2 DEF Sane, Ask
<1>5. Phase' /\ Ask'
  BY <1>2, <1>3, <1>4 DEF Sane, Phase, Ask
<1>6. \A c \in Media \cap Comps : Job(c)'
  BY <1>2, <1>3, JobsSame
<1> QED BY <1>2, <1>5, <1>6 DEF Sane

\* The session is settled when a switch is accepted, but for what goroutines of the
\* bootstrap have still to do.
LEMMA SaneAccepted ==
  ASSUME TypeOK, OneThread, Sane, NEW m \in {"text", "audio"}, m # mode, life = "Ready", life' = "Switching",
         Take("switch"), sending' = SwitchChain(m), UNCHANGED <<mode, config, exec, tasks, egressCh, requests>>
  PROVE  Sane'
<1> DEFINE k == IF m = "audio" THEN "swInit" ELSE "swClose"
           e == Packet("swCompleted", m)
<1>1. /\ bootstrapCh \in Seq(Packets) /\ bootstrapCh # <<>> /\ sending = <<>>
      /\ Head(bootstrapCh).kind = "switch" /\ bootstrapCh' = Tail(bootstrapCh)
  BY DEF TypeOK, Take
<1>2. Asked # {}
  BY <1>1, OfTaken DEF Asked
<1>3. Tidy /\ Phase /\ Ask
  BY DEF Sane
<1>4. requests # 0 /\ ~Turned /\ egressCh = <<>> /\ mode = config /\ config \in {"text", "audio"}
  BY <1>2, <1>3 DEF Ask, Phase, Turned
<1>5. \A p \in Pending : p.kind \notin Works \cup {"stage", "authSucceeded", "initCompleted", "swCompleted"}
  BY <1>3 DEF Phase
<1>6. \A p \in Held(Tail(bootstrapCh)) : p \in Pending
  BY <1>1, HeldTaken DEF Pending
<1>7. Of(Tail(bootstrapCh), Ends) = {} /\ \A p \in Held(Tail(bootstrapCh)) : p.kind \notin Works
  BY <1>5, <1>6, OfHeld DEF Ends
<1>8. /\ Follows(sending', Tail(bootstrapCh))
      /\ Held(sending') = {Packet(k, c) : c \in Media \cap Comps} \cup {e}
  BY <1>7, SwitchFollows
<1>9. /\ k \in Works /\ k # "init" /\ k \notin {"stage", "authSucceeded", "initCompleted", "swCompleted", "switch"}
      /\ e.kind = "swCompleted" /\ e.arg = m
  BY DEF Works, Packet
<1> HIDE DEF e
<1>10. \A p \in Held(sending') : p.kind \in {k, "swCompleted"} /\ (p.kind = "swCompleted" => p.arg = m)
  BY <1>8, <1>9, PacketFields
<1>11. /\ Tidy'
       /\ Pending' \subseteq Pending \cup Held(sending')
       /\ Held(sending') \subseteq Pending'
       /\ (\A i, j \in Asked' : i = j) /\ Of(sending', {"switch"}) = {}
       /\ Asked' = {}
  <2>1. \A p \in Held(sending') : p.kind # "switch"
    BY <1>9, <1>10
  <2> HIDE DEF k
  <2> QED BY <1>3, <1>8, <2>1, TakeMove
<1>12. Turned'
  BY DEF Turned
<1>13. Phase'
  <2> HIDE DEF k
  <2>1. \A p \in Pending' : /\ p.kind \notin {"stage", "authSucceeded", "initCompleted"}
                            /\ p.kind = "swCompleted" => p.arg # config'
    BY <1>4, <1>5, <1>9, <1>10, <1>11
  <2> QED BY <1>4, <2>1 DEF Phase
<1>14. Ask'
  BY <1>4, <1>11, <1>12 DEF Ask
<1>15. ASSUME NEW c \in Media \cap Comps PROVE Job(c)'
  <2>1. Job(c) /\ Waits(c) = {}
    BY <1>5 DEF Sane, Waits, PacketFields, Packet
  <2>2. Waits(c)' = {k}
    <3> HIDE DEF k
    <3>1. ASSUME NEW j \in Works PROVE Packet(j, c) \in Pending' <=> j = k
      <4>1. Packet(j, c) \notin Pending /\ Packet(j, c) # e
        BY <1>9, <2>1, PacketFields DEF Waits, Works
      <4>2. Packet(j, c) \in Held(sending') <=> j = k
        BY <1>8, <4>1, PacketFields
      <4> QED BY <1>11, <4>1, <4>2
    <3> QED BY <1>9, <3>1 DEF Waits
  <2>3. /\ \A j \in TaskKinds : tasks'[<<j, c>>] = tasks[<<j, c>>]
        /\ exec'[c] = exec[c]
    OBVIOUS
  <2>4. CASE config = "text"
    <3>1. Unstarted(c) /\ k = "swInit"
      BY <1>4, <2>1, <2>4 DEF Job
    <3>2. Idle(c)' /\ Fresh(c)'
      BY <2>3, <3>1 DEF Unstarted, Through, Idle, Fresh
    <3> QED BY <1>12, <2>1, <2>2, <2>3, <2>4, <3>1, <3>2 DEF Job, Starting, Due
  <2>5. CASE config = "audio"
    <3>1. Starting("init", c) /\ k = "swClose"
      BY <1>4, <2>1, <2>5 DEF Job
    <3>2. c \in {"stt", "tts"} => Through(c) /\ Begun(c)
      <4>1. c \in {"stt", "tts"} => c \notin AsyncInit /\ "init" \in TaskKinds
        BY DEF AsyncInit, TaskKinds
      <4> QED BY <2>1, <3>1, <4>1 DEF Job, Starting, Due, Busy
    <3>3. c \in {"stt", "tts"} => Idle(c)' /\ Begun(c)'
      BY <2>3, <3>2 DEF Through, Idle, Begun
    <3> QED BY <1>12, <2>1, <2>2, <2>3, <2>5, <3>1, <3>3 DEF Job, Stopping, Due
  <2> QED BY <1>4, <2>4, <2>5
<1> QED BY <1>11, <1>13, <1>14, <1>15 DEF Sane

LEMMA SaneSwitch ==
  ASSUME TypeOK, OneThread, Sane, NEW m \in StreamModes, HandleModeSwitchRequested(m)
  PROVE  Sane'
<1>1. Take("switch") /\ UNCHANGED <<mode, config, exec, tasks, requests>>
  BY DEF HandleModeSwitchRequested, clientVars
<1>2. CASE m \in {"text", "audio"} \ {mode} /\ CanBe(life, "SwitchRequested") /\ sending' = SwitchChain(m)
           /\ life' = Transition(life, "SwitchRequested") /\ UNCHANGED egressCh
  <2>1. life = "Ready" /\ life' = "Switching"
    BY <1>2 DEF CanBe, Transition, EventSources, EventTarget
  <2> QED BY <1>1, <1>2, <2>1, SaneAccepted
<1>3. CASE UNCHANGED <<life, sending>>
  <2>1. Asked # {}
    BY <1>1, OfTaken DEF Asked, Take, TypeOK
  <2>2. life # "Switching"
    BY <2>1 DEF Sane, Ask, Turned
  <2> QED BY <1>1, <1>3, <2>2, SaneDeclined
<1> QED BY <1>2, <1>3 DEF HandleModeSwitchRequested

LEMMA SaneSwitched ==
  ASSUME TypeOK, OneThread, Sane, Clean, HandleModeSwitchCompleted
  PROVE  Sane'
<1>1. /\ Take("swCompleted") /\ mode' = Head(bootstrapCh).arg
      /\ life' = Transition(life, "SwitchCompleted")
      /\ CanBe(life, "SwitchCompleted") => UNCHANGED egressCh
      /\ UNCHANGED <<config, exec, tasks, sending, requests>>
  BY DEF HandleModeSwitchCompleted, clientVars
<1>2. /\ sending' = <<>> /\ sending' \in Seq(Packets) /\ Held(sending') = {}
      /\ "swCompleted" \notin Works /\ "swCompleted" \in Ends
  BY <1>1 DEF Take, Held, Works, Ends
<1>3. /\ Tidy' /\ Pending' \subseteq Pending
      /\ Head(bootstrapCh) \in Pending /\ Head(bootstrapCh).kind = "swCompleted"
      /\ \A p \in Pending' : p.kind \notin Chained
      /\ (\A i, j \in Asked' : i = j) /\ Of(sending', {"switch"}) = {}
      /\ Asked = {} => Asked' = {}
      /\ \A p \in Jobs : p \in Pending' <=> p \in Pending
  BY <1>1, <1>2, SaneAside
<1>4. Phase /\ Ask
  BY DEF Sane
<1>5. life = "Switching" /\ mode' # config /\ life' = "Ready" /\ UNCHANGED egressCh
  BY <1>1, <1>3, <1>4 DEF Phase, Transition, CanBe, EventSources, EventTarget
<1>6. Turned /\ Turned'
  BY <1>1, <1>5 DEF Turned
<1>7. config \in {"text", "audio"}
  BY <1>4, <1>5 DEF Phase, TypeOK
<1>8. Phase'
  BY <1>1, <1>3, <1>4, <1>5, <1>7 DEF Phase, Chained, Ends
<1>9. Ask'
  BY <1>1, <1>3, <1>4, <1>5, <1>6 DEF Ask
<1>10. \A c \in Media \cap Comps : Job(c)'
  BY <1>1, <1>3, <1>6, JobsSame
<1> QED BY <1>3, <1>8, <1>9, <1>10 DEF Sane

-----------------------------------------------------------------------------
(* The invariant is kept, and says what a settled session has *)

LEMMA SaneKept ==
  ASSUME TypeOK, Once, OneThread, Timely, Clean => Sane, [Next]_vars
  PROVE  (Clean => Sane)'
<1> SUFFICES ASSUME Clean' PROVE Sane'
  OBVIOUS
<1>1. Clean /\ Sane
  BY CleanBefore
<1>2. CASE Ingress \/ ConnectDeadline \/ ConnectAbort \/ DisconnectDeadline \/ UNCHANGED vars
  <2>1. UNCHANGED <<life, mode, config, exec, tasks, bootstrapCh, sending, egressCh, requests>>
    BY <1>2 DEF Ingress, IngressStart, IngressTake, IngressDone, IngressStop, IngressStep,
       ConnectDeadline, ConnectAbort, DisconnectDeadline, vars, clientVars
  <2> QED BY <1>1, <2>1, SaneQuiet
<1>3. CASE \/ Leave \/ HandleFinalizeInboundDispatcher \/ IngressPaused \/ Data
           \/ Disconnect \/ HandleInitializationError \/ ConnectNotify
  BY <1>1, <1>3, SaneNever
<1>4. CASE \E m \in StreamModes : Connect(m) \/ RequestSwitch(m) \/ HandleModeSwitchRequested(m)
  BY <1>1, <1>4, SaneConnect, SaneRequest, SaneSwitch
<1>5. CASE \E c \in Comps : HandleInit(c) \/ HandleSwitchInit(c) \/ DispatchAsync(c)
  BY <1>1, <1>5, SaneInit, SaneSwitchInit, SaneDispatch
<1>6. CASE \E c \in Comps : Task(c)
  BY <1>1, <1>6, SaneInstalled, SaneClosed, SaneCleared DEF Task
<1>7. CASE (\E s \in Stages : HandleStage(s)) \/ HandleExecuteAuthentication
  BY <1>1, <1>7, SaneStages
<1>8. CASE \/ BootstrapSend \/ HandleModeSwitchError \/ HandleSessionAuthenticationSucceeded
           \/ HandleInitializationCompleted \/ HandleInitializeInboundDispatcher
           \/ HandleModeSwitchCompleted
  BY <1>1, <1>8, SaneSend, SaneEgress, SaneAdmitted, SaneInitialized, SaneInbound, SaneSwitched
<1> QED BY <1>2, <1>3, <1>4, <1>5, <1>6, <1>7, <1>8 DEF Next, Talk, Bootstrap, Egress, Deadlines

LEMMA SaneAtFirst == Init => Sane
<1> SUFFICES ASSUME Init PROVE Sane
  OBVIOUS
<1>1. bootstrapCh = <<>> /\ sending = <<>> /\ Held(<<>>) = {} /\ \A K : Of(<<>>, K) = {}
  BY DEF Init, Held, Of
<1>2. Pending = {} /\ Asked = {} /\ ~Turned
  BY <1>1 DEF Init, Pending, Asked, Turned
<1>3. Tidy
  BY <1>1 DEF Tidy, Neat, InOrder, AtMost
<1>4. Phase /\ Ask
  BY <1>1, <1>2 DEF Init, Phase, Ask
<1>5. ASSUME NEW c \in Media \cap Comps PROVE Job(c)
  <2>1. \A k \in TaskKinds : tasks[<<k, c>>] = 0
    BY DEF Init
  <2>2. "init" \in TaskKinds /\ mode = "text" /\ Fresh(c) /\ Waits(c) = {}
    BY <1>2 DEF TaskKinds, Init, Fresh, Waits
  <2> QED BY <1>2, <2>1, <2>2 DEF Job, Unstarted, Through, Idle
<1> QED BY <1>3, <1>4, <1>5 DEF Sane

LEMMA SettledMedia ==
  ASSUME TypeOK, Clean => Sane
  PROVE  MediaMatchesMode
<1> SUFFICES ASSUME Settled, requests <= 1,
                    NEW c \in Comps \cap {"stt", "tts", "vad", "eos", "denoise"}
             PROVE  IF mode = "audio" THEN exec[c].ptr # 0 /\ Orphans(c) = {}
                    ELSE c \in {"stt", "tts"} => exec[c].open = {}
  BY DEF MediaMatchesMode
<1>1. Held(<<>>) = {}
  BY DEF Held
<1>2. Pending = {} /\ life = "Ready"
  BY <1>1 DEF Settled, Pending
<1>3. Sane
  BY <1>1, <1>2 DEF Settled, Clean
<1>4. Job(c) /\ Waits(c) = {}
  BY <1>2, <1>3 DEF Sane, Media, Waits
<1>5. Idle(c) /\ \A k \in TaskKinds : ~Busy(k, c)
  <2>1. \A k \in TaskKinds : tasks[<<k, c>>] = 0
    BY DEF Settled, NoTasks
  <2>2. ASSUME NEW k \in TaskKinds, Busy(k, c) PROVE FALSE
    <3>1. tasks[<<k, c>>] = 1
      BY <2>2 DEF Busy
    <3> QED BY <2>1, <3>1
  <2> QED BY <2>1, <2>2 DEF Idle
<1>6. "init" \in TaskKinds /\ "swInit" \in TaskKinds /\ "swClose" \in TaskKinds
  BY DEF TaskKinds
<1>7. /\ \A k \in {"init", "swInit"} : Starting(k, c) => Begun(c)
      /\ Stopping(c) => exec[c].open = {}
      /\ Unstarted(c) => exec[c].open = {}
  BY <1>4, <1>5, <1>6 DEF Starting, Stopping, Unstarted, Due, Fresh
<1>8. Begun(c) => exec[c].ptr # 0 /\ Orphans(c) = {}
  BY DEF Begun, Orphans
<1>9. config \in {"text", "audio"} /\ mode \in {"text", "audio"} /\ (Turned <=> mode # config)
  BY <1>2, <1>3 DEF Sane, Phase, TypeOK, Turned
<1> QED BY <1>4, <1>7, <1>8, <1>9 DEF Job

\* For every set of executors and any capacity, in a session that was asked to
\* switch at most once and has settled: if it speaks, each media executor points to
\* an instance and has no other open, and if it does not, those that the dispatcher
\* creates itself have none open.
THEOREM MediaFollowsMode == Spec => []MediaMatchesMode
<1>1. Init => Once /\ OneThread /\ Timely /\ (Clean => Sane)
  <2> SUFFICES ASSUME Init PROVE Once /\ OneThread /\ Timely
    BY SaneAtFirst
  <2>1. Finals(<<>>) = {} /\ Strands(<<>>) = {}
    BY DEF Finals, Strands, Of
  <2> QED BY <2>1 DEF Init, Once, OneThread, AtMostOne, Timely
<1>2. IInv /\ Once /\ OneThread /\ Timely /\ (Clean => Sane) /\ [Next]_vars
      => Once' /\ OneThread' /\ Timely' /\ (Clean => Sane)'
  BY OnceKept, OneThreadKept, TimelyKept, SaneKept DEF IInv
<1>3. IInv /\ (Clean => Sane) => MediaMatchesMode
  BY SettledMedia DEF IInv
<1>4. QED
  BY InitIInv, NextIInv, <1>1, <1>2, <1>3, PTL DEF Spec
=============================================================================
