----------------------------- MODULE TurnProofs -----------------------------
(***************************************************************************)
(* Proofs about Turn, for any number of turns and whatever is queued:      *)
(*   - an interruption lets at most the one output through that the egress *)
(*     dispatcher had already checked;                                     *)
(*   - everything under way is for a turn that has begun;                  *)
(*   - a session at rest is under its idle watchdog: while that is off, or *)
(*     about to be stopped, something that starts it is under way.         *)
(***************************************************************************)
EXTENDS Turn, FiniteSetTheorems, SequenceTheorems, TLAPS

-----------------------------------------------------------------------------
(* The invariant: what is held was checked in a turn that no late output is  *)
(* of, and late output is of turns that are over.                           *)

\* Turns are numbered from 1 on.
Numbered == turn.ctx \in Nat /\ late \in Seq(Nat)

\* Late output is of turns that have ended.
LateIsOver == \A i \in DOMAIN late : late[i] < turn.ctx

\* What is held was checked after all late output had been checked.
HeldIsNewer ==
  hand.name # "Nothing" =>
    /\ hand.ctx \in Nat /\ hand.ctx <= turn.ctx
    /\ \A i \in DOMAIN late : late[i] < hand.ctx

IInv == Numbered /\ LateIsOver /\ HeldIsNewer /\ AtMostOneLate

\* A transition of the message stays in the turn or begins the next one.
LEMMA TransitionCtx ==
  ASSUME NEW t, NEW next, t.ctx \in Nat
  PROVE  Transition(t, next).ctx \in {t.ctx, t.ctx + 1}
BY DEF Transition

LEMMA TransitionGrows ==
  ASSUME NEW t, NEW next, t.ctx \in Nat
  PROVE  Transition(t, next).ctx \in Nat /\ t.ctx <= Transition(t, next).ctx
BY TransitionCtx

\* A later turn disturbs nothing of the invariant as long as nothing is taken
\* or delivered.
LEMMA LaterTurn ==
  ASSUME IInv, UNCHANGED <<hand, late>>, turn'.ctx \in Nat, turn.ctx <= turn'.ctx
  PROVE  IInv'
<1>1. Numbered'
  BY DEF IInv, Numbered
<1>2. LateIsOver'
  BY DEF IInv, Numbered, LateIsOver
<1>3. HeldIsNewer'
  BY DEF IInv, Numbered, HeldIsNewer
<1>4. AtMostOneLate'
  BY DEF IInv, AtMostOneLate
<1> QED BY <1>1, <1>2, <1>3, <1>4 DEF IInv

\* Nor does letting go of what is held without delivering it.
LEMMA LetGo ==
  ASSUME IInv, hand' = Nothing, UNCHANGED late, turn'.ctx \in Nat, turn.ctx <= turn'.ctx
  PROVE  IInv'
<1>1. Numbered'
  BY DEF IInv, Numbered
<1>2. LateIsOver'
  BY DEF IInv, Numbered, LateIsOver
<1>3. HeldIsNewer'
  BY DEF HeldIsNewer, Nothing, Plain, Packet
<1>4. AtMostOneLate'
  BY DEF IInv, AtMostOneLate
<1> QED BY <1>1, <1>2, <1>3, <1>4 DEF IInv

\* What is held is delivered, late if another turn has begun: it is newer than
\* all that was late before, and its turn is over.
LEMMA Deliver ==
  ASSUME IInv, hand.name # "Nothing", hand' = Nothing, UNCHANGED turn, Notify
  PROVE  IInv'
<1>1. CASE ~(hand.ctx < turn.ctx)
  <2>1. UNCHANGED late
    BY <1>1 DEF Notify
  <2> QED BY <2>1, LetGo DEF IInv, Numbered
<1>2. CASE hand.ctx < turn.ctx
  <2>1. late' = Append(late, hand.ctx) /\ hand.ctx \in Nat /\ late \in Seq(Nat)
    BY <1>2 DEF Notify, IInv, HeldIsNewer, Numbered
  <2>2. /\ DOMAIN late = 1..Len(late) /\ DOMAIN late' = 1..(Len(late) + 1)
        /\ Len(late) \in Nat /\ late' \in Seq(Nat)
        /\ \A i \in 1..Len(late) : late'[i] = late[i]
        /\ late'[Len(late) + 1] = hand.ctx
    BY <2>1
  <2>3. \A i \in 1..Len(late) : late[i] < hand.ctx /\ late[i] < turn.ctx
    BY <2>2 DEF IInv, HeldIsNewer, LateIsOver
  <2>4. Numbered'
    BY <2>2 DEF IInv, Numbered
  <2>5. LateIsOver'
    BY <1>2, <2>2, <2>3 DEF LateIsOver
  <2>6. HeldIsNewer'
    BY DEF HeldIsNewer, Nothing, Plain, Packet
  <2>7. AtMostOneLate'
    BY <2>2, <2>3 DEF IInv, AtMostOneLate
  <2> QED BY <2>4, <2>5, <2>6, <2>7 DEF IInv
<1> QED BY <1>1, <1>2

\* The egress dispatcher takes output of the current turn, or drops it.
LEMMA CheckStep ==
  ASSUME IInv, Check
  PROVE  IInv'
<1>1. PICK p \in Dispatched("egress") :
        /\ p.name \in Checked
        /\ hand' = IF IsCurrent(p) THEN p ELSE Nothing
        /\ UNCHANGED <<turn, late>>
  BY DEF Check, ghosts
<1>2. CASE ~IsCurrent(p)
  BY <1>1, <1>2, LetGo DEF IInv, Numbered
<1>3. CASE IsCurrent(p)
  <2>1. Numbered' /\ LateIsOver' /\ AtMostOneLate'
    BY <1>1 DEF IInv, Numbered, LateIsOver, AtMostOneLate
  <2>2. HeldIsNewer'
    BY <1>1, <1>3 DEF IsCurrent, IInv, Numbered, LateIsOver, HeldIsNewer
  <2> QED BY <2>1, <2>2 DEF IInv
<1> QED BY <1>2, <1>3

-----------------------------------------------------------------------------
(* The steps *)

\* Handlers that may begin a turn.
LEMMA Rotations ==
  ASSUME IInv,
         \/ HandleInterruptionDetected \/ HandleUserText \/ HandleUserInput
         \/ HandleError \/ HandleInjectMessage \/ HandleIdleTimeoutExpired
  PROVE  IInv'
<1>1. turn.ctx \in Nat
  BY DEF IInv, Numbered
<1>2. UNCHANGED <<hand, late>>
  BY DEF HandleInterruptionDetected, HandleUserText, HandleUserInput, HandleError,
         HandleInjectMessage, HandleIdleTimeoutExpired, ghosts
<1>3. \/ UNCHANGED turn
      \/ \E next \in MessageStates : turn' = Transition(turn, next)
  BY DEF HandleInterruptionDetected, HandleUserText, HandleUserInput, HandleError,
         HandleInjectMessage, HandleIdleTimeoutExpired, Interruption, MessageStates
<1> QED BY <1>1, <1>2, <1>3, TransitionGrows, LaterTurn

\* Handlers of output that is held.
LEMMA Outputs ==
  ASSUME IInv,
         \/ HandleLLMResponseDelta \/ HandleLLMResponseDone \/ HandleTextToSpeechText
         \/ HandleTextToSpeechDone \/ HandleTextToSpeechEnd
  PROVE  IInv'
<1>1. hand.name # "Nothing" /\ hand' = Nothing
  BY DEF HandleLLMResponseDelta, HandleLLMResponseDone, HandleTextToSpeechText,
         HandleTextToSpeechDone, HandleTextToSpeechEnd, Held
<1>2. CASE HandleLLMResponseDelta \/ HandleLLMResponseDone
  <2>1. UNCHANGED late /\ \E next \in MessageStates : turn' = Transition(turn, next)
    BY <1>2 DEF HandleLLMResponseDelta, HandleLLMResponseDone, ghosts, MessageStates
  <2> QED BY <1>1, <2>1, TransitionGrows, LetGo DEF IInv, Numbered
<1>3. CASE HandleTextToSpeechText \/ HandleTextToSpeechDone \/ HandleTextToSpeechEnd
  <2>1. UNCHANGED turn /\ Notify
    BY <1>3 DEF HandleTextToSpeechText, HandleTextToSpeechDone, HandleTextToSpeechEnd
  <2> QED BY <1>1, <2>1, Deliver
<1> QED BY <1>2, <1>3

\* All other steps leave the turn, what is held and what was late alone.
LEMMA Bystanders ==
  ASSUME IInv, UNCHANGED <<turn, hand, late>>
  PROVE  IInv'
BY LaterTurn DEF IInv, Numbered

LEMMA StepKeepsInvariant ==
  ASSUME IInv, [Next]_vars
  PROVE  IInv'
<1>1. CASE Control
  <2>1. CASE HandleInterruptionDetected
    BY <2>1, Rotations
  <2>2. CASE Ignore("control") \/ HandleDispatchPolicy
    BY <2>2, Bystanders DEF Ignore, HandleDispatchPolicy, ghosts
  <2> QED BY <1>1, <2>1, <2>2 DEF Control
<1>2. CASE Ingress
  <2>1. CASE HandleUserText \/ HandleUserInput
    BY <2>1, Rotations
  <2>2. CASE Ignore("ingress") \/ HandleUserAudio \/ HandleSpeechToText \/ HandleLLMToolResult
    BY <2>2, Bystanders
    DEF Ignore, HandleUserAudio, HandleSpeechToText, HandleLLMToolResult, ghosts
  <2> QED BY <1>2, <2>1, <2>2 DEF Ingress
<1>3. CASE Egress
  <2>1. CASE HandleError \/ HandleInjectMessage \/ HandleIdleTimeoutExpired
    BY <2>1, Rotations
  <2>2. CASE \/ HandleLLMResponseDelta \/ HandleLLMResponseDone \/ HandleTextToSpeechText
             \/ HandleTextToSpeechDone \/ HandleTextToSpeechEnd
    BY <2>2, Outputs
  <2>3. CASE Check
    BY <2>3, CheckStep
  <2>4. CASE HandleLLMToolCall \/ HandleStartIdleTimeout \/ HandleStopIdleTimeout
    BY <2>4, Bystanders
    DEF HandleLLMToolCall, HandleStartIdleTimeout, HandleStopIdleTimeout, ghosts
  <2> QED BY <1>3, <2>1, <2>2, <2>3, <2>4 DEF Egress
<1>4. CASE Silencing \/ IdleExpires \/ CompletionExpires \/ Recognize \/ UtteranceEnds
  BY <1>4, Bystanders
  DEF Silencing, IdleExpires, CompletionExpires, Recognize, UtteranceEnds, ghosts
<1>5. CASE Model \/ ToolReturns \/ Plays
  BY <1>5, Bystanders DEF Model, Answer, Cancel, Fail, CallTool, ToolReturns, Plays, ghosts
<1>6. CASE User
  BY <1>6, Bystanders DEF User, Types, Talks, VoiceActivity, ConnectionLost, ghosts
<1>7. CASE UNCHANGED vars
  BY <1>7, Bystanders DEF vars, ghosts
<1> QED BY <1>1, <1>2, <1>3, <1>4, <1>5, <1>6, <1>7 DEF Next

-----------------------------------------------------------------------------
(* Theorem *)

\* For any bounds on events and any number of turns, an interruption lets at
\* most one output of the turn it ends through to the client.
THEOREM OneLateOutput == Spec => []AtMostOneLate
<1>1. Init => IInv
  <2> SUFFICES ASSUME Init PROVE IInv
    OBVIOUS
  <2>1. turn.ctx = 1 /\ late = <<>> /\ hand = Nothing
    BY DEF Init, NewMessage
  <2>2. late \in Seq(Nat) /\ DOMAIN late = {}
    BY <2>1
  <2>3. hand.name = "Nothing"
    BY <2>1 DEF Nothing, Plain, Packet
  <2>4. LateIsOver /\ AtMostOneLate
    BY <2>2 DEF LateIsOver, AtMostOneLate
  <2> QED
    BY <2>1, <2>2, <2>3, <2>4 DEF IInv, Numbered, HeldIsNewer
<1>2. IInv /\ [Next]_vars => IInv'
  BY StepKeepsInvariant
<1>3. IInv => AtMostOneLate
  BY DEF IInv
<1> QED BY <1>1, <1>2, <1>3, PTL DEF Spec
-----------------------------------------------------------------------------
(* Types: a packet is for a turn that has begun, and so are the requests,    *)
(* the calls of tools and the timers.                                        *)

Names ==
  {"UserText", "UserAudio", "SpeechToText", "UserInput", "LLMToolResult",
   "InterruptionDetected", "PolicyIgnore", "PolicyPassthrough",
   "LLMDelta", "LLMDone", "LLMError", "LLMToolCall", "InjectMessage",
   "TTSText", "TTSDone", "TTSEnd", "TTSError",
   "StartIdleTimeout", "StopIdleTimeout", "IdleTimeoutExpired", "Nothing"}
Arguments == {"", "word", "vad", "reset", "message", "action", "end"}
PacketsTo(n) == [name : Names, ctx : 0..n, arg : Arguments]
QueuesTo(n) == [Routes -> Seq(PacketsTo(n))]
RequestsTo(n) == [id : Nat, ctx : 0..n, stage : {"begun", "tool"}]
TimersTo(n) == [armed : BOOLEAN, ctx : 0..n]

QueueTypes ==
  /\ turn \in [state : MessageStates, ctx : Nat \ {0}]
  /\ queues \in QueuesTo(turn.ctx) /\ hand \in PacketsTo(turn.ctx)
  /\ ignored \subseteq Targets

WorkTypes ==
  /\ heard \in Nat /\ transcripts \in Nat /\ silencing \in Nat
  /\ requests \subseteq RequestsTo(turn.ctx) /\ IsFiniteSet(requests)
  /\ tools \subseteq PacketsTo(turn.ctx) /\ voice \in 0..turn.ctx

TimerTypes ==
  /\ completion \in TimersTo(turn.ctx) /\ idle \in TimersTo(turn.ctx)
  /\ idleCount \in 0..Backoff /\ ending \in BOOLEAN

TypeInv == QueueTypes /\ WorkTypes /\ TimerTypes

\* What is for a turn is, too, when another turn has begun.
LEMMA LaterTypes ==
  ASSUME NEW n \in Nat, NEW m \in Nat, n <= m
  PROVE  /\ 0..n \subseteq 0..m
         /\ PacketsTo(n) \subseteq PacketsTo(m) /\ QueuesTo(n) \subseteq QueuesTo(m)
         /\ RequestsTo(n) \subseteq RequestsTo(m) /\ TimersTo(n) \subseteq TimersTo(m)
<1>1. 0..n \subseteq 0..m
  OBVIOUS
<1>2. PacketsTo(n) \subseteq PacketsTo(m)
  BY <1>1 DEF PacketsTo
<1>3. ASSUME NEW q \in QueuesTo(n) PROVE q \in QueuesTo(m)
  <2>1. \A route \in Routes : q[route] \in Seq(PacketsTo(m))
    BY <1>2, SeqMonotonic DEF QueuesTo
  <2> QED BY <2>1 DEF QueuesTo
<1>4. RequestsTo(n) \subseteq RequestsTo(m) /\ TimersTo(n) \subseteq TimersTo(m)
  BY <1>1 DEF RequestsTo, TimersTo
<1> QED BY <1>1, <1>2, <1>3, <1>4

LEMMA PacketType ==
  ASSUME NEW n, NEW name \in Names, NEW ctx \in 0..n, NEW arg \in Arguments
  PROVE  Packet(name, ctx, arg) \in PacketsTo(n)
BY DEF Packet, PacketsTo

LEMMA PlainType ==
  ASSUME NEW n, NEW name \in Names, NEW ctx \in 0..n
  PROVE  Plain(name, ctx) \in PacketsTo(n)
BY DEF Plain, Packet, PacketsTo, Arguments

LEMMA NothingType ==
  ASSUME NEW n \in Nat
  PROVE  Nothing \in PacketsTo(n)
<1>1. 0 \in 0..n
  OBVIOUS
<1>2. "Nothing" \in Names
  BY DEF Names
<1> QED BY <1>1, <1>2, PlainType DEF Nothing

\* A packet joins one queue, at its end.
LEMMA Joins ==
  ASSUME NEW n, NEW q \in QueuesTo(n), NEW p \in PacketsTo(n)
  PROVE  /\ OnPacket(q, p) \in QueuesTo(n)
         /\ Classify(p.name) \in Routes
         /\ OnPacket(q, p)[Classify(p.name)] = Append(q[Classify(p.name)], p)
         /\ \A route \in Routes \ {Classify(p.name)} : OnPacket(q, p)[route] = q[route]
<1>1. Classify(p.name) \in Routes
  BY DEF Classify, Routes
<1> DEFINE c == Classify(p.name)
<1>2. q[c] \in Seq(PacketsTo(n)) /\ q \in [Routes -> Seq(PacketsTo(n))]
  BY <1>1 DEF QueuesTo
<1>3. Append(q[c], p) \in Seq(PacketsTo(n))
  BY <1>2, AppendProperties
<1>4. OnPacket(q, p) = [q EXCEPT ![c] = Append(q[c], p)]
  BY DEF OnPacket
<1> HIDE DEF c
<1> QED BY <1>1, <1>2, <1>3, <1>4 DEF QueuesTo, c

LEMMA JoinBoth ==
  ASSUME NEW n, NEW q \in QueuesTo(n), NEW first \in PacketsTo(n), NEW second \in PacketsTo(n)
  PROVE  OnPackets(q, first, second) \in QueuesTo(n)
BY Joins DEF OnPackets

\* What a dispatcher takes is the head of its queue.
LEMMA Taken ==
  ASSUME QueueTypes, NEW route \in Routes, NEW p \in Dispatched(route)
  PROVE  /\ queues[route] # <<>> /\ p = Head(queues[route])
         /\ p \in PacketsTo(turn.ctx) /\ p.name \notin ignored
         /\ route = "egress" => hand = Nothing
<1>1. queues[route] # <<>> /\ p = Head(queues[route])
  BY DEF Dispatched
<1>2. queues[route] \in Seq(PacketsTo(turn.ctx))
  BY DEF QueueTypes, QueuesTo
<1> QED BY <1>1, <1>2, HeadTailProperties DEF Dispatched

LEMMA RestTypes ==
  ASSUME QueueTypes, NEW route \in Routes, queues[route] # <<>>
  PROVE  /\ Rest(route) \in QueuesTo(turn.ctx)
         /\ Rest(route)[route] = Tail(queues[route])
         /\ \A other \in Routes \ {route} : Rest(route)[other] = queues[other]
<1>1. Tail(queues[route]) \in Seq(PacketsTo(turn.ctx))
  BY HeadTailProperties DEF QueueTypes, QueuesTo
<1> QED BY <1>1 DEF Rest, QueueTypes, QueuesTo

LEMMA TransitionType ==
  ASSUME NEW t \in [state : MessageStates, ctx : Nat \ {0}], NEW next \in MessageStates
  PROVE  /\ Transition(t, next) \in [state : MessageStates, ctx : Nat \ {0}]
         /\ t.ctx <= Transition(t, next).ctx
         /\ next # "Interrupted" => Transition(t, next).ctx = t.ctx
         /\ Transition(t, next).ctx = t.ctx \/ Transition(t, next).ctx = t.ctx + 1
BY DEF Transition, CanTransition, MessageStates
-----------------------------------------------------------------------------
(* What draining a queue leaves *)

\* The packets of the other names, and nothing else: counting those before it
\* numbers them without a gap.
LEMMA WithoutKeeps ==
  ASSUME NEW S, NEW queue \in Seq(S), NEW names
  PROVE  /\ Without(queue, names) \in Seq(S)
         /\ \A m \in DOMAIN Without(queue, names) : \E i \in DOMAIN queue :
              Without(queue, names)[m] = queue[i] /\ queue[i].name \notin names
         /\ \A i \in DOMAIN queue : queue[i].name \notin names =>
              \E m \in DOMAIN Without(queue, names) : Without(queue, names)[m] = queue[i]
<1> DEFINE left == {i \in DOMAIN queue : queue[i].name \notin names}
           before(i) == {j \in left : j < i}
           C == Cardinality(left)
           rank == [i \in left |-> Cardinality(before(i))]
           nth(n) == CHOOSE i \in left : Cardinality(before(i)) = n - 1
<1>1. DOMAIN queue = 1..Len(queue) /\ Len(queue) \in Nat
  BY LenProperties
<1>2. IsFiniteSet(left) /\ C \in Nat /\ left \subseteq Nat
  <2>1. IsFiniteSet(1..Len(queue)) /\ left \in SUBSET (1..Len(queue))
    BY <1>1, FS_Interval
  <2>2. IsFiniteSet(left)
    BY <2>1, FS_Subset
  <2> QED BY <2>1, <2>2, FS_CardinalityType
<1>3. ASSUME NEW i \in left
      PROVE  IsFiniteSet(before(i)) /\ Cardinality(before(i)) \in 0..(C - 1)
  <2>1. before(i) \in SUBSET left /\ i \notin before(i)
    BY <1>2
  <2>2. IsFiniteSet(before(i)) /\ Cardinality(before(i)) <= C /\ Cardinality(before(i)) # C
    BY <1>2, <2>1, FS_Subset
  <2>3. Cardinality(before(i)) \in Nat
    BY <2>2, FS_CardinalityType
  <2> HIDE DEF before, C
  <2> QED BY <1>2, <2>2, <2>3
<1>4. ASSUME NEW i \in left, NEW k \in left, i < k
      PROVE  rank[i] # rank[k]
  <2>1. before(i) \in SUBSET before(k) /\ i \in before(k) /\ i \notin before(i)
    BY <1>2, <1>4
  <2>2. IsFiniteSet(before(k))
    BY <1>3
  <2>3. Cardinality(before(i)) # Cardinality(before(k))
    BY <2>1, <2>2, FS_Subset
  <2> QED BY <2>3
<1>5. rank \in Injection(left, 0..(C - 1))
  <2>1. rank \in [left -> 0..(C - 1)]
    BY <1>3
  <2>2. \A i, k \in left : i # k => rank[i] # rank[k]
    <3> SUFFICES ASSUME NEW i \in left, NEW k \in left, i # k PROVE rank[i] # rank[k]
      OBVIOUS
    <3>1. i < k \/ k < i
      BY <1>2
    <3> HIDE DEF rank, left
    <3> QED BY <1>4, <3>1
  <2> HIDE DEF rank, left, C
  <2> QED BY <2>1, <2>2 DEF Injection, IsInjective
<1>6. \A m \in 0..(C - 1) : \E i \in left : rank[i] = m
  <2> HIDE DEF rank, left, C
  <2>1. IsFiniteSet(0..(C - 1)) /\ Cardinality(0..(C - 1)) = C
    <3>1. 0 \in Int /\ C - 1 \in Int
      BY <1>2
    <3> QED BY <1>2, <3>1, FS_Interval
  <2>2. rank \in Surjection(left, 0..(C - 1))
    BY <1>5, <2>1, FS_Injection DEF C
  <2> QED BY <2>2 DEF Surjection
<1>7. \A n \in 1..C : nth(n) \in left /\ Cardinality(before(nth(n))) = n - 1
  <2> SUFFICES ASSUME NEW n \in 1..C PROVE \E i \in left : Cardinality(before(i)) = n - 1
    OBVIOUS
  <2>1. n - 1 \in 0..(C - 1)
    BY <1>2
  <2> QED BY <1>6, <2>1
<1>8. \A i \in left : rank[i] + 1 \in 1..C /\ nth(rank[i] + 1) = i
  <2> SUFFICES ASSUME NEW i \in left PROVE rank[i] + 1 \in 1..C /\ nth(rank[i] + 1) = i
    OBVIOUS
  <2>1. rank[i] = Cardinality(before(i)) /\ rank[i] \in 0..(C - 1)
    BY <1>3
  <2>2. rank[i] + 1 \in 1..C /\ (rank[i] + 1) - 1 = rank[i]
    <3> HIDE DEF rank, C
    <3> QED BY <1>2, <2>1
  <2>3. nth(rank[i] + 1) \in left /\ rank[nth(rank[i] + 1)] = rank[i]
    BY <1>7, <2>2
  <2>4. nth(rank[i] + 1) = i
    <3> DEFINE k == nth(rank[i] + 1)
    <3>1. k \in left /\ rank[k] = rank[i]
      BY <2>3
    <3> HIDE DEF k, rank, left
    <3>2. ~(k < i) /\ ~(i < k)
      BY <1>4, <3>1
    <3>3. k = i
      BY <1>2, <3>1, <3>2
    <3> QED BY <3>3 DEF k
  <2> QED BY <2>2, <2>4
<1>9. Without(queue, names) = [n \in 1..C |-> queue[nth(n)]]
  BY DEF Without
<1> HIDE DEF nth, rank, C
<1>10. \A n \in 1..C : queue[nth(n)] \in S
  <2>1. \A i \in left : i \in 1..Len(queue)
    BY <1>1
  <2> HIDE DEF left
  <2> QED BY <1>7, <2>1, ElementOfSeq
<1>11. Without(queue, names) \in Seq(S)
  <2>1. Without(queue, names) \in [1..C -> S]
    BY <1>9, <1>10
  <2> QED BY <1>2, <2>1, SeqDef
<1>12. \A m \in DOMAIN Without(queue, names) : \E i \in DOMAIN queue :
         Without(queue, names)[m] = queue[i] /\ queue[i].name \notin names
  BY <1>7, <1>9
<1>13. \A i \in DOMAIN queue : queue[i].name \notin names =>
         \E m \in DOMAIN Without(queue, names) : Without(queue, names)[m] = queue[i]
  BY <1>8, <1>9
<1> QED BY <1>11, <1>12, <1>13

\* The model numbers requests: a number is free as there is one more to choose
\* from than there are requests.
LEMMA FreshIdType ==
  ASSUME NEW n \in Nat, requests \subseteq RequestsTo(n), IsFiniteSet(requests)
  PROVE  FreshId \in Nat
<1> DEFINE C == Cardinality(requests)
           ids == 0..C
           owner == [id \in ids |-> CHOOSE r \in requests : r.id = id]
<1>1. C \in Nat
  BY FS_CardinalityType
<1>2. \E id \in ids : \A r \in requests : r.id # id
  <2> SUFFICES ASSUME \A id \in ids : \E r \in requests : r.id = id PROVE FALSE
    OBVIOUS
  <2>1. \A id \in ids : owner[id] \in requests /\ owner[id].id = id
    OBVIOUS
  <2>2. owner \in [ids -> requests]
    BY <2>1
  <2>3. IsFiniteSet(ids) /\ Cardinality(ids) = C + 1
    BY <1>1, FS_Interval
  <2>4. C < Cardinality(ids)
    BY <1>1, <2>3
  <2> HIDE DEF ids, owner
  <2>5. PICK x, y \in ids : x # y /\ owner[x] = owner[y]
    BY <2>2, <2>3, <2>4, FS_PigeonHole
  <2> QED BY <2>1, <2>5
<1>3. FreshId \in 0..C
  BY <1>2 DEF FreshId
<1> QED BY <1>1, <1>3
-----------------------------------------------------------------------------
(* Every step keeps the types *)

LEMMA SentType ==
  ASSUME NEW n, NEW q \in QueuesTo(n), NEW name \in Names, NEW ctx \in 0..n
  PROVE  /\ OnPacket(q, Plain(name, ctx)) \in QueuesTo(n)
         /\ \A arg \in Arguments : OnPacket(q, Packet(name, ctx, arg)) \in QueuesTo(n)
BY PlainType, PacketType, Joins

LEMMA SentBothType ==
  ASSUME NEW n, NEW q \in QueuesTo(n), NEW one \in Names, NEW two \in Names, NEW ctx \in 0..n
  PROVE  OnPackets(q, Plain(one, ctx), Plain(two, ctx)) \in QueuesTo(n)
BY PlainType, JoinBoth

\* Parts that a step leaves alone keep their types, in a later turn too.
LEMMA OnlyQueues ==
  ASSUME QueueTypes, UNCHANGED <<turn, hand, ignored>>, queues' \in QueuesTo(turn.ctx)
  PROVE  QueueTypes'
BY DEF QueueTypes

LEMMA SameWork ==
  ASSUME WorkTypes, turn.ctx \in Nat, turn'.ctx \in Nat, turn.ctx <= turn'.ctx,
         UNCHANGED <<userVars, modelVars, voice>>, silencing' \in Nat
  PROVE  WorkTypes'
<1>1. UNCHANGED <<heard, transcripts, requests, tools, voice>>
  BY DEF userVars, modelVars
<1>2. /\ requests \subseteq RequestsTo(turn'.ctx) /\ tools \subseteq PacketsTo(turn'.ctx)
      /\ 0..turn.ctx \subseteq 0..turn'.ctx
  BY LaterTypes DEF WorkTypes
<1> QED BY <1>1, <1>2 DEF WorkTypes

LEMMA SameTimers ==
  ASSUME TimerTypes, turn.ctx \in Nat, turn'.ctx \in Nat, turn.ctx <= turn'.ctx,
         UNCHANGED <<completion, idle>>, idleCount' \in 0..Backoff, ending' \in BOOLEAN
  PROVE  TimerTypes'
BY LaterTypes DEF TimerTypes

LEMMA TurnCtx ==
  ASSUME QueueTypes
  PROVE  turn.ctx \in Nat \ {0} /\ turn.ctx \in 0..turn.ctx /\ 0 \in 0..turn.ctx
BY DEF QueueTypes

\* An interruption, whichever queue it is read from.
LEMMA InterruptionTypes ==
  ASSUME QueueTypes, WorkTypes, NEW q, NEW ctx \in 0..turn.ctx, Interruption(q, ctx),
         q \in QueuesTo(turn'.ctx)
  PROVE  /\ turn' \in [state : MessageStates, ctx : Nat \ {0}] /\ turn.ctx <= turn'.ctx
         /\ queues' \in QueuesTo(turn'.ctx) /\ silencing' \in Nat
<1>1. turn' \in [state : MessageStates, ctx : Nat \ {0}] /\ turn.ctx <= turn'.ctx
  BY TransitionType DEF Interruption, QueueTypes, MessageStates
<1>2. ctx \in 0..turn'.ctx /\ "StopIdleTimeout" \in Names
  BY <1>1, TurnCtx DEF Names
<1>3. queues' \in QueuesTo(turn'.ctx)
  BY <1>2, SentType DEF Interruption
<1>4. silencing' \in Nat
  BY DEF Interruption, WorkTypes
<1> QED BY <1>1, <1>3, <1>4

\* A step that begins a turn, at most, and touches only the queues.
LEMMA LaterQueues ==
  ASSUME TypeInv,
         turn' \in [state : MessageStates, ctx : Nat \ {0}], turn.ctx <= turn'.ctx,
         queues' \in QueuesTo(turn'.ctx), UNCHANGED <<hand, ignored>>
  PROVE  QueueTypes'
<1>1. hand' \in PacketsTo(turn'.ctx)
  BY TurnCtx, LaterTypes DEF TypeInv, QueueTypes
<1> QED BY <1>1 DEF TypeInv, QueueTypes

LEMMA IgnoreTypes ==
  ASSUME TypeInv, NEW route \in Routes, Ignore(route)
  PROVE  TypeInv'
<1> USE DEF TypeInv
<1>1. queues' \in QueuesTo(turn.ctx)
  BY RestTypes DEF Ignore
<1>2. QueueTypes'
  BY <1>1, OnlyQueues DEF Ignore
<1>3. WorkTypes' /\ TimerTypes'
  BY TurnCtx, SameWork, SameTimers DEF Ignore, voiceVars, idleVars, WorkTypes, TimerTypes
<1> QED BY <1>2, <1>3

LEMMA ControlTypes ==
  ASSUME TypeInv, Control
  PROVE  TypeInv'
<1> USE DEF TypeInv
<1>1. CASE Ignore("control")
  BY <1>1, IgnoreTypes DEF Routes
<1>2. CASE HandleInterruptionDetected
  <2>1. PICK p \in Dispatched("control") :
          /\ \/ p.arg = "word" /\ Interruption(Rest("control"), p.ctx)
             \/ p.arg = "vad" /\ turn' = Transition(turn, "Interrupt") /\ queues' = Rest("control")
                /\ UNCHANGED silencing
          /\ UNCHANGED <<hand, ignored, userVars, modelVars, voice, completion, idleVars, events, ghosts>>
    BY <1>2 DEF HandleInterruptionDetected
  <2>2. p.ctx \in 0..turn.ctx /\ Rest("control") \in QueuesTo(turn.ctx)
    BY Taken, RestTypes DEF Routes, PacketsTo
  <2>3. /\ turn' \in [state : MessageStates, ctx : Nat \ {0}] /\ turn.ctx <= turn'.ctx
        /\ queues' \in QueuesTo(turn'.ctx) /\ silencing' \in Nat
    <3>1. CASE p.arg = "word" /\ Interruption(Rest("control"), p.ctx)
      <4>1. turn.ctx <= turn'.ctx /\ turn'.ctx \in Nat
        BY <3>1, TransitionType DEF Interruption, QueueTypes, MessageStates
      <4>2. Rest("control") \in QueuesTo(turn'.ctx)
        BY <2>2, <4>1, TurnCtx, LaterTypes
      <4> QED BY <2>2, <3>1, <4>2, InterruptionTypes
    <3>2. CASE turn' = Transition(turn, "Interrupt") /\ queues' = Rest("control") /\ UNCHANGED silencing
      <4>1. /\ turn' \in [state : MessageStates, ctx : Nat \ {0}]
            /\ turn.ctx <= turn'.ctx
        BY <3>2, TransitionType DEF QueueTypes, MessageStates
      <4> QED BY <2>2, <3>2, <4>1, TurnCtx, LaterTypes DEF WorkTypes
    <3> QED BY <2>1, <3>1, <3>2
  <2>4. QueueTypes'
    BY <2>1, <2>3, LaterQueues
  <2>5. WorkTypes' /\ TimerTypes'
    BY <2>1, <2>3, TurnCtx, SameWork, SameTimers DEF idleVars, TimerTypes
  <2> QED BY <2>4, <2>5
<1>3. CASE HandleDispatchPolicy
  <2>1. PICK p \in Dispatched("control") :
          /\ \/ /\ ignored' = Targets
                /\ queues' = [Rest("control") EXCEPT !["control"] = Without(@, Targets),
                                                     !["ingress"] = Without(@, Targets)]
             \/ ignored' = {} /\ queues' = Rest("control")
          /\ UNCHANGED <<turn, hand, userVars, modelVars, voiceVars, idleVars, events, ghosts>>
    BY <1>3 DEF HandleDispatchPolicy
  <2>2. Rest("control") \in QueuesTo(turn.ctx)
    BY Taken, RestTypes DEF Routes
  <2>3. queues' \in QueuesTo(turn.ctx)
    <3>1. \A route \in Routes : Without(Rest("control")[route], Targets) \in Seq(PacketsTo(turn.ctx))
      BY <2>2, WithoutKeeps DEF QueuesTo
    <3> QED BY <2>1, <2>2, <3>1 DEF QueuesTo, Routes
  <2>4. QueueTypes'
    BY <2>1, <2>3 DEF QueueTypes
  <2>5. WorkTypes' /\ TimerTypes'
    BY <2>1, TurnCtx, SameWork, SameTimers DEF voiceVars, idleVars, WorkTypes, TimerTypes
  <2> QED BY <2>4, <2>5
<1> QED BY <1>1, <1>2, <1>3 DEF Control

LEMMA IngressTypes ==
  ASSUME TypeInv, Ingress
  PROVE  TypeInv'
<1> USE DEF TypeInv
<1>1. CASE Ignore("ingress")
  BY <1>1, IgnoreTypes DEF Routes
<1>2. CASE HandleUserText
  <2> DEFINE next == Transition(turn, "Interrupted")
             q == OnPacket(Rest("ingress"), Plain("UserInput", next.ctx))
  <2>1. /\ queues["ingress"] # <<>> /\ Interruption(q, turn.ctx)
        /\ UNCHANGED <<hand, ignored, userVars, modelVars, voice, completion, idleVars, events, ghosts>>
    BY <1>2, Taken DEF HandleUserText, Routes
  <2>2. turn' = next /\ turn'.ctx \in Nat /\ turn.ctx <= turn'.ctx /\ next.ctx \in 0..next.ctx
    BY <2>1, TransitionType DEF Interruption, QueueTypes, MessageStates
  <2>3. q \in QueuesTo(turn'.ctx)
    <3>1. Rest("ingress") \in QueuesTo(next.ctx)
      BY <2>1, <2>2, RestTypes, LaterTypes, TurnCtx DEF Routes
    <3> QED BY <2>2, <3>1, SentType DEF Names
  <2> HIDE DEF q, next
  <2>4. /\ turn' \in [state : MessageStates, ctx : Nat \ {0}] /\ turn.ctx <= turn'.ctx
        /\ queues' \in QueuesTo(turn'.ctx) /\ silencing' \in Nat
    BY <2>1, <2>3, TurnCtx, InterruptionTypes
  <2>5. QueueTypes'
    BY <2>1, <2>4, LaterQueues
  <2>6. WorkTypes' /\ TimerTypes'
    BY <2>1, <2>4, TurnCtx, SameWork, SameTimers DEF idleVars, TimerTypes
  <2> QED BY <2>5, <2>6
<1>3. CASE HandleUserAudio \/ HandleSpeechToText
  <2>1. queues["ingress"] # <<>> /\ queues' = Rest("ingress") /\ UNCHANGED <<turn, hand, ignored>>
    BY <1>3, Taken DEF HandleUserAudio, HandleSpeechToText, Routes
  <2>2. QueueTypes'
    BY <2>1, RestTypes, OnlyQueues DEF Routes
  <2>3. heard' \in Nat /\ transcripts' \in Nat
    <3>1. CASE HandleUserAudio
      BY <3>1 DEF HandleUserAudio, WorkTypes
    <3>2. CASE HandleSpeechToText
      BY <3>2 DEF HandleSpeechToText, WorkTypes
    <3> QED BY <1>3, <3>1, <3>2
  <2>4. WorkTypes'
    BY <1>3, <2>3 DEF HandleUserAudio, HandleSpeechToText, WorkTypes, modelVars, voiceVars
  <2>5. TimerTypes'
    BY <1>3 DEF HandleUserAudio, HandleSpeechToText, TimerTypes, voiceVars, idleVars
  <2> QED BY <2>2, <2>4, <2>5
<1>4. CASE HandleUserInput
  <2> DEFINE new == [id |-> FreshId, ctx |-> turn.ctx, stage |-> "begun"]
  <2>1. /\ queues["ingress"] # <<>>
        /\ turn' = Transition(turn, "LLMGenerating")
        /\ queues' = OnPacket(Rest("ingress"), Packet("StopIdleTimeout", turn.ctx, "reset"))
        /\ requests' = requests \cup
             {[id |-> FreshId, ctx |-> Transition(turn, "LLMGenerating").ctx, stage |-> "begun"]}
        /\ UNCHANGED <<hand, ignored, userVars, tools, voiceVars, idleVars, events, late, failed>>
    BY <1>4, Taken DEF HandleUserInput, Routes
  <2>2. turn' \in [state : MessageStates, ctx : Nat \ {0}] /\ turn'.ctx = turn.ctx
    BY <2>1, TransitionType DEF QueueTypes, MessageStates
  <2>3. queues' \in QueuesTo(turn.ctx)
    BY <2>1, RestTypes, SentType, TurnCtx DEF Names, Arguments, Routes
  <2>4. QueueTypes'
    BY <2>1, <2>2, <2>3, TurnCtx, LaterQueues
  <2>5. requests' = requests \cup {new} /\ new \in RequestsTo(turn.ctx)
    BY <2>1, <2>2, TurnCtx, FreshIdType DEF RequestsTo, WorkTypes
  <2> HIDE DEF new
  <2>6. requests' \subseteq RequestsTo(turn.ctx) /\ IsFiniteSet(requests')
    BY <2>5, FS_AddElement DEF WorkTypes
  <2>7. WorkTypes'
    BY <2>1, <2>2, <2>6 DEF WorkTypes, userVars, voiceVars
  <2>8. TimerTypes'
    BY <2>1, <2>2 DEF TimerTypes, voiceVars, idleVars
  <2> QED BY <2>4, <2>7, <2>8
<1>5. CASE HandleLLMToolResult
  <2> DEFINE back(ctx) == {IF r.ctx = ctx /\ r.stage = "tool" THEN [r EXCEPT !.stage = "begun"] ELSE r
                             : r \in requests}
  <2>1. PICK p \in Dispatched("ingress") :
    /\ \/ /\ ending' = TRUE /\ queues' = Rest("ingress") /\ UNCHANGED <<silencing, requests>>
       \/ /\ queues' = OnPacket(Rest("ingress"), Plain("StartIdleTimeout", p.ctx))
          /\ silencing' = silencing + 1 /\ requests' = back(p.ctx) /\ UNCHANGED ending
    /\ UNCHANGED <<turn, hand, ignored, userVars, tools, voice, completion, idle, idleCount, events>>
    BY <1>5 DEF HandleLLMToolResult
  <2>2. p.ctx \in 0..turn.ctx /\ Rest("ingress") \in QueuesTo(turn.ctx)
    BY Taken, RestTypes DEF Routes, PacketsTo
  <2>3. QueueTypes'
    <3>1. OnPacket(Rest("ingress"), Plain("StartIdleTimeout", p.ctx)) \in QueuesTo(turn.ctx)
      BY <2>2, SentType DEF Names
    <3> QED BY <2>1, <2>2, <3>1, OnlyQueues
  <2>4. back(p.ctx) \subseteq RequestsTo(turn.ctx)
    BY DEF WorkTypes, RequestsTo
  <2>5. IsFiniteSet(back(p.ctx))
    <3> DEFINE to == [r \in requests |-> IF r.ctx = p.ctx /\ r.stage = "tool"
                                         THEN [r EXCEPT !.stage = "begun"] ELSE r]
    <3>1. to \in Surjection(requests, back(p.ctx))
      BY DEF Surjection
    <3> HIDE DEF to, back
    <3> QED BY <3>1, FS_Surjection DEF WorkTypes
  <2> HIDE DEF back
  <2>6. requests' \in {requests, back(p.ctx)} /\ silencing' \in {silencing, silencing + 1}
    BY <2>1
  <2>7. WorkTypes'
    BY <2>1, <2>4, <2>5, <2>6 DEF WorkTypes, userVars
  <2>8. TimerTypes'
    BY <2>1 DEF TimerTypes
  <2> QED BY <2>3, <2>7, <2>8
<1> QED BY <1>1, <1>2, <1>3, <1>4, <1>5 DEF Ingress

LEMMA ArmTypes ==
  ASSUME NEW n \in Nat, NEW ctx \in 0..n
  PROVE  Arm(ctx) \in TimersTo(n) /\ Off \in TimersTo(n)
BY DEF Arm, Off, TimersTo

\* A step within a turn.
LEMMA SameTurn ==
  ASSUME TypeInv, turn' \in [state : MessageStates, ctx : Nat \ {0}], turn'.ctx = turn.ctx,
         queues' \in QueuesTo(turn.ctx), hand' \in {hand, Nothing}, UNCHANGED ignored
  PROVE  QueueTypes'
BY TurnCtx, NothingType DEF TypeInv, QueueTypes

\* Output that is held is delivered, and what follows from it is queued.
LEMMA OutputTypes ==
  ASSUME TypeInv,
         \/ HandleLLMResponseDelta \/ HandleLLMResponseDone \/ HandleTextToSpeechText
         \/ HandleTextToSpeechDone \/ HandleTextToSpeechEnd
  PROVE  TypeInv'
<1> USE DEF TypeInv
<1>1. hand.ctx \in 0..turn.ctx /\ queues \in QueuesTo(turn.ctx)
  BY DEF QueueTypes, PacketsTo
<1>2. CASE HandleLLMResponseDelta \/ HandleLLMResponseDone
  <2>1. /\ turn' \in [state : MessageStates, ctx : Nat \ {0}] /\ turn'.ctx = turn.ctx
        /\ hand' = Nothing /\ UNCHANGED <<ignored, userVars, modelVars, voiceVars, idleVars>>
    BY <1>2, TransitionType
    DEF HandleLLMResponseDelta, HandleLLMResponseDone, Held, QueueTypes, MessageStates
  <2>2. queues' \in QueuesTo(turn.ctx)
    <3>1. {"TTSText", "StartIdleTimeout", "TTSDone"} \subseteq Names
      BY DEF Names
    <3>2. CASE HandleLLMResponseDelta
      BY <1>1, <3>1, <3>2, SentType DEF HandleLLMResponseDelta
    <3>3. CASE HandleLLMResponseDone
      BY <1>1, <3>1, <3>3, SentBothType DEF HandleLLMResponseDone, Concluded
    <3> QED BY <1>2, <3>2, <3>3
  <2>3. QueueTypes'
    BY <2>1, <2>2, SameTurn
  <2>4. WorkTypes' /\ TimerTypes'
    BY <2>1, TurnCtx, SameWork, SameTimers DEF voiceVars, idleVars, WorkTypes, TimerTypes
  <2> QED BY <2>3, <2>4
<1>3. CASE HandleTextToSpeechText \/ HandleTextToSpeechDone \/ HandleTextToSpeechEnd
  <2>1. hand' = Nothing /\ UNCHANGED <<turn, ignored, heard, transcripts, requests, tools,
                                       silencing, idle, idleCount, ending>>
    BY <1>3 DEF HandleTextToSpeechText, HandleTextToSpeechDone, HandleTextToSpeechEnd,
                Held, userVars, modelVars, voiceVars, idleVars
  <2>2. queues' \in QueuesTo(turn.ctx)
    BY <1>1, <1>3, SentType
    DEF HandleTextToSpeechText, HandleTextToSpeechDone, HandleTextToSpeechEnd, Names
  <2>3. QueueTypes'
    BY <2>1, <2>2, SameTurn DEF QueueTypes
  <2>4. completion' \in TimersTo(turn.ctx) /\ voice' \in 0..turn.ctx
    BY <1>1, <1>3, TurnCtx, ArmTypes
    DEF HandleTextToSpeechText, HandleTextToSpeechDone, HandleTextToSpeechEnd,
        Awaited, voiceVars, TimerTypes, WorkTypes
  <2> QED BY <2>1, <2>3, <2>4 DEF WorkTypes, TimerTypes
<1> QED BY <1>2, <1>3

LEMMA TimeoutTypes ==
  ASSUME TypeInv, HandleIdleTimeoutExpired
  PROVE  TypeInv'
<1> USE DEF TypeInv
<1>1. /\ queues["egress"] # <<>> /\ Rest("egress") \in QueuesTo(turn.ctx)
      /\ UNCHANGED <<hand, ignored, userVars, modelVars, voice, completion, idle>>
  BY Taken, RestTypes DEF HandleIdleTimeoutExpired, Routes
<1>2. CASE BackedOff /\ ending' = TRUE /\ queues' = Rest("egress")
             /\ UNCHANGED <<turn, idleCount, silencing>>
  BY <1>1, <1>2, TurnCtx, OnlyQueues, SameWork, SameTimers DEF TimerTypes, WorkTypes
<1>3. CASE /\ ~BackedOff /\ idleCount' = idleCount + 1 /\ UNCHANGED ending
           /\ turn' = Transition(turn, "Interrupted") /\ silencing' = silencing + 1
           /\ queues' = OnPackets(Rest("egress"), Plain("InjectMessage", turn'.ctx),
                                                  Plain("StartIdleTimeout", turn'.ctx))
  <2>1. turn' \in [state : MessageStates, ctx : Nat \ {0}] /\ turn.ctx <= turn'.ctx
    BY <1>3, TransitionType DEF QueueTypes, MessageStates
  <2>2. Rest("egress") \in QueuesTo(turn'.ctx) /\ turn'.ctx \in 0..turn'.ctx
    BY <1>1, <2>1, LaterTypes, TurnCtx
  <2>3. queues' \in QueuesTo(turn'.ctx)
    BY <1>3, <2>2, SentBothType DEF Names
  <2>4. QueueTypes'
    BY <1>1, <2>1, <2>3, LaterQueues
  <2>5. idleCount' \in 0..Backoff /\ ending' \in BOOLEAN /\ silencing' \in Nat
    BY <1>3, TurnAssumption DEF BackedOff, TimerTypes, WorkTypes
  <2> QED BY <1>1, <2>1, <2>4, <2>5, TurnCtx, SameWork, SameTimers
<1> QED BY <1>2, <1>3 DEF HandleIdleTimeoutExpired

LEMMA EgressTypes ==
  ASSUME TypeInv, Egress
  PROVE  TypeInv'
<1> USE DEF TypeInv
<1>1. CASE Check
  <2>1. PICK p \in Dispatched("egress") :
          /\ hand' = IF IsCurrent(p) THEN p ELSE Nothing
          /\ completion' = IF p.name = "TTSEnd" THEN Complete(completion, p.ctx) ELSE completion
          /\ queues' = Rest("egress")
          /\ UNCHANGED <<turn, ignored, userVars, modelVars, silencing, voice, idleVars>>
    BY <1>1 DEF Check
  <2>2. p \in PacketsTo(turn.ctx) /\ Rest("egress") \in QueuesTo(turn.ctx)
    BY Taken, RestTypes DEF Routes
  <2>3. QueueTypes'
    BY <2>1, <2>2, TurnCtx, NothingType DEF QueueTypes
  <2>4. completion' \in TimersTo(turn.ctx)
    BY <2>1, TurnCtx, ArmTypes DEF Complete, TimerTypes
  <2> QED BY <2>1, <2>3, <2>4 DEF WorkTypes, TimerTypes, userVars, modelVars, idleVars
<1>2. CASE HandleError \/ HandleInjectMessage
  <2>1. queues["egress"] # <<>> /\ Rest("egress") \in QueuesTo(turn.ctx)
    BY <1>2, Taken, RestTypes DEF HandleError, HandleInjectMessage, Routes
  <2>2. UNCHANGED <<hand, ignored, userVars, modelVars, voiceVars, idleVars>>
    BY <1>2 DEF HandleError, HandleInjectMessage
  <2>3. turn' \in [state : MessageStates, ctx : Nat \ {0}] /\ turn'.ctx = turn.ctx
    BY <1>2, TransitionType DEF HandleError, HandleInjectMessage, QueueTypes, MessageStates
  <2>4. queues' \in QueuesTo(turn.ctx)
    <3>1. CASE HandleError
      <4>1. PICK p \in Dispatched("egress") :
              queues' \in {Rest("egress"),
                           OnPacket(Rest("egress"), Plain("PolicyPassthrough", p.ctx))}
        BY <3>1 DEF HandleError
      <4>2. p.ctx \in 0..turn.ctx
        BY Taken DEF Routes, PacketsTo
      <4> QED BY <2>1, <4>1, <4>2, SentType DEF Names
    <3>2. CASE HandleInjectMessage
      <4>1. "TTSText" \in Names /\ "TTSDone" \in Names
        BY DEF Names
      <4>2. queues' = OnPackets(Rest("egress"), Plain("TTSText", turn.ctx), Plain("TTSDone", turn.ctx))
        BY <3>2 DEF HandleInjectMessage
      <4> QED BY <2>1, <4>1, <4>2, TurnCtx, SentBothType
    <3> QED BY <1>2, <3>1, <3>2
  <2> QED BY <2>2, <2>3, <2>4, TurnCtx, SameTurn, SameWork, SameTimers
          DEF voiceVars, idleVars, WorkTypes, TimerTypes
<1>3. CASE HandleLLMToolCall
  <2>1. PICK p \in Dispatched("egress") :
    /\ queues' = IF p.arg = "message" THEN OnPacket(Rest("egress"), Plain("InjectMessage", p.ctx))
                 ELSE IF p.arg = "action"
                 THEN OnPacket(Rest("egress"), Packet("StopIdleTimeout", turn.ctx, "reset"))
                 ELSE Rest("egress")
    /\ silencing' = IF p.arg = "message" THEN silencing + 1 ELSE silencing
    /\ tools' = tools \cup {p}
    /\ UNCHANGED <<turn, hand, ignored, userVars, requests, voice, completion, idleVars>>
    BY <1>3 DEF HandleLLMToolCall
  <2>2. /\ p \in PacketsTo(turn.ctx) /\ p.ctx \in 0..turn.ctx
        /\ Rest("egress") \in QueuesTo(turn.ctx)
    BY Taken, RestTypes DEF Routes, PacketsTo
  <2>3. queues' \in QueuesTo(turn.ctx)
    BY <2>1, <2>2, TurnCtx, SentType DEF Names, Arguments
  <2>4. QueueTypes'
    BY <2>1, <2>3, OnlyQueues
  <2>5. silencing' \in Nat /\ tools' \subseteq PacketsTo(turn.ctx)
    <3>1. silencing' \in {silencing, silencing + 1}
      BY <2>1
    <3>2. silencing \in Nat /\ tools \subseteq PacketsTo(turn.ctx)
      BY DEF WorkTypes
    <3>3. tools' \subseteq PacketsTo(turn.ctx)
      BY <2>1, <2>2, <3>2
    <3> QED BY <3>1, <3>2, <3>3
  <2>6. WorkTypes' /\ TimerTypes'
    BY <2>1, <2>5 DEF WorkTypes, TimerTypes, userVars, idleVars
  <2> QED BY <2>4, <2>6
<1>4. CASE HandleStartIdleTimeout \/ HandleStopIdleTimeout
  <2>1. PICK p \in Dispatched("egress") :
          /\ idle' \in {Arm(p.ctx), Off} /\ idleCount' \in {0, idleCount} /\ queues' = Rest("egress")
          /\ UNCHANGED <<turn, hand, ignored, userVars, modelVars, voiceVars, ending>>
    BY <1>4 DEF HandleStartIdleTimeout, HandleStopIdleTimeout
  <2>2. p.ctx \in 0..turn.ctx /\ Rest("egress") \in QueuesTo(turn.ctx)
    BY Taken, RestTypes DEF Routes, PacketsTo
  <2>3. QueueTypes'
    BY <2>1, <2>2, OnlyQueues
  <2>4. idle' \in TimersTo(turn.ctx) /\ idleCount' \in 0..Backoff
    BY <2>1, <2>2, TurnCtx, ArmTypes, TurnAssumption DEF TimerTypes
  <2> QED BY <2>1, <2>3, <2>4 DEF WorkTypes, TimerTypes, userVars, modelVars, voiceVars
<1> QED BY <1>1, <1>2, <1>3, <1>4, OutputTypes, TimeoutTypes DEF Egress

\* The goroutines, timers, the user, the model and the provider: they queue a
\* packet and take something up or off.
LEMMA OtherTypes ==
  ASSUME TypeInv,
         \/ Silencing \/ IdleExpires \/ CompletionExpires \/ Recognize \/ UtteranceEnds
         \/ Model \/ ToolReturns \/ Plays \/ User
  PROVE  TypeInv'
<1> USE DEF TypeInv
<1>1. turn.ctx \in 0..turn.ctx /\ 0 \in 0..turn.ctx /\ queues \in QueuesTo(turn.ctx)
  BY TurnCtx DEF QueueTypes
<1>2. UNCHANGED <<turn, hand, ignored, idleCount, ending>>
  BY DEF Silencing, IdleExpires, CompletionExpires, Recognize, UtteranceEnds, ToolReturns, Plays,
         Model, Answer, Cancel, Fail, CallTool, User, Types, Talks, VoiceActivity, ConnectionLost,
         idleVars
<1>3. ASSUME NEW q \in QueuesTo(turn.ctx), queues' = q
      PROVE  QueueTypes'
  BY <1>2, <1>3, OnlyQueues
<1>4. ASSUME heard' \in Nat, transcripts' \in Nat, silencing' \in Nat, voice' \in 0..turn.ctx,
             UNCHANGED <<requests, tools>>
      PROVE  WorkTypes'
  BY <1>2, <1>4 DEF WorkTypes
<1>5. ASSUME completion' \in {completion, Off}, idle' \in {idle, Off}
      PROVE  TimerTypes'
  BY <1>2, <1>5, TurnCtx, ArmTypes DEF TimerTypes
<1>6. CASE Silencing \/ ConnectionLost
  <2>1. queues' = queues /\ completion' = completion /\ idle' = idle
    BY <1>6 DEF Silencing, ConnectionLost, idleVars
  <2>2. /\ heard' = heard /\ transcripts' = transcripts /\ silencing' \in Nat /\ voice' = NoTurn
        /\ UNCHANGED <<requests, tools>>
    BY <1>6 DEF Silencing, ConnectionLost, userVars, modelVars, WorkTypes
  <2> QED BY <1>1, <1>3, <1>4, <1>5, <2>1, <2>2 DEF WorkTypes, NoTurn
<1>7. CASE IdleExpires \/ CompletionExpires \/ Plays
  <2>1. queues' \in QueuesTo(turn.ctx)
    <3>1. {"IdleTimeoutExpired", "TTSEnd"} \subseteq Names
      BY DEF Names
    <3>2. {idle.ctx, completion.ctx, voice} \subseteq 0..turn.ctx
      BY DEF TimerTypes, TimersTo, WorkTypes
    <3> QED BY <1>1, <1>7, <3>1, <3>2, SentType DEF IdleExpires, CompletionExpires, Plays
  <2>2. completion' \in {completion, Off} /\ idle' \in {idle, Off}
    BY <1>7 DEF IdleExpires, CompletionExpires, Plays, voiceVars, idleVars
  <2>3. /\ UNCHANGED <<heard, transcripts, silencing, requests, tools>> /\ voice' \in {voice, NoTurn}
    BY <1>7 DEF IdleExpires, CompletionExpires, Plays, userVars, modelVars, voiceVars
  <2> QED BY <1>1, <1>3, <1>4, <1>5, <2>1, <2>2, <2>3 DEF WorkTypes, NoTurn
<1>8. CASE Types \/ Talks \/ VoiceActivity \/ UtteranceEnds
  <2>1. queues' \in QueuesTo(turn.ctx)
    <3>1. {"UserText", "UserAudio", "InterruptionDetected", "UserInput"} \subseteq Names
      BY DEF Names
    <3>2. "vad" \in Arguments
      BY DEF Arguments
    <3> QED BY <1>1, <1>8, <3>1, <3>2, SentType DEF Types, Talks, VoiceActivity, UtteranceEnds
  <2>2. UNCHANGED <<heard, silencing, requests, tools, voice, completion, idle>>
    BY <1>8 DEF Types, Talks, VoiceActivity, UtteranceEnds, userVars, modelVars, voiceVars, idleVars
  <2>3. transcripts' \in {transcripts, 0}
    BY <1>8 DEF Types, Talks, VoiceActivity, UtteranceEnds, userVars
  <2> QED BY <1>3, <1>4, <1>5, <2>1, <2>2, <2>3 DEF WorkTypes
<1>9. CASE Recognize
  <2>1. PICK stt \in 1..turn.ctx :
          queues' = OnPackets(queues, Packet("InterruptionDetected", stt, "word"),
                                      Plain("SpeechToText", stt))
    BY <1>9 DEF Recognize
  <2>2. stt \in 0..turn.ctx /\ {"InterruptionDetected", "SpeechToText"} \subseteq Names /\ "word" \in Arguments
    BY TurnCtx DEF Names, Arguments
  <2>3. queues' \in QueuesTo(turn.ctx)
    BY <1>1, <2>1, <2>2, PacketType, PlainType, JoinBoth
  <2>4. UNCHANGED <<transcripts, silencing, requests, tools, voice, completion, idle>> /\ heard' \in Nat
    BY <1>9 DEF Recognize, modelVars, voiceVars, idleVars, WorkTypes
  <2> QED BY <1>3, <1>4, <1>5, <2>3, <2>4 DEF WorkTypes
<1>10. CASE Model
  <2>1. PICK r \in requests, arg \in {"", "message", "action"} :
          /\ queues' \in {queues, OnPackets(queues, Plain("LLMDelta", r.ctx), Plain("LLMDone", r.ctx)),
                          OnPacket(queues, Plain("LLMError", r.ctx)),
                          OnPacket(queues, Packet("LLMToolCall", r.ctx, arg))}
          /\ requests' \in {requests \ {r}, (requests \ {r}) \cup {[r EXCEPT !.stage = "tool"]}}
    BY <1>10, Zenon DEF Model, Answer, Cancel, Fail, CallTool, Advance
  <2>2. r \in RequestsTo(turn.ctx) /\ r.ctx \in 0..turn.ctx
    BY DEF WorkTypes, RequestsTo
  <2>3. queues' \in QueuesTo(turn.ctx)
    <3>1. {"LLMDelta", "LLMDone", "LLMError", "LLMToolCall"} \subseteq Names /\ arg \in Arguments
      BY DEF Names, Arguments
    <3>2. OnPackets(queues, Plain("LLMDelta", r.ctx), Plain("LLMDone", r.ctx)) \in QueuesTo(turn.ctx)
      BY <1>1, <2>2, <3>1, SentBothType
    <3>3. /\ OnPacket(queues, Plain("LLMError", r.ctx)) \in QueuesTo(turn.ctx)
          /\ OnPacket(queues, Packet("LLMToolCall", r.ctx, arg)) \in QueuesTo(turn.ctx)
      BY <1>1, <2>2, <3>1, SentType
    <3> QED BY <1>1, <2>1, <3>2, <3>3
  <2>4. requests' \subseteq RequestsTo(turn.ctx) /\ IsFiniteSet(requests')
    <3> DEFINE called == [r EXCEPT !.stage = "tool"]
    <3>1. called \in RequestsTo(turn.ctx)
      BY <2>2 DEF RequestsTo
    <3>2. requests \subseteq RequestsTo(turn.ctx) /\ IsFiniteSet(requests \ {r})
      BY FS_RemoveElement DEF WorkTypes
    <3>3. requests' \in {requests \ {r}, (requests \ {r}) \cup {called}}
      BY <2>1
    <3> HIDE DEF called
    <3>4. IsFiniteSet((requests \ {r}) \cup {called})
      BY <3>2, FS_AddElement
    <3> QED BY <3>1, <3>2, <3>3, <3>4
  <2>5. UNCHANGED <<heard, transcripts, silencing, tools, voice, completion, idle>>
    BY <1>10 DEF Model, Answer, Cancel, Fail, CallTool, userVars, modelVars, voiceVars, idleVars
  <2> QED BY <1>2, <1>3, <1>5, <2>3, <2>4, <2>5 DEF WorkTypes
<1>11. CASE ToolReturns
  <2>1. PICK call \in tools, arg \in {"", "end"} :
          /\ tools' = tools \ {call}
          /\ queues' = OnPacket(queues, Packet("LLMToolResult", call.ctx, arg))
    BY <1>11 DEF ToolReturns
  <2>2. call.ctx \in 0..turn.ctx /\ "LLMToolResult" \in Names /\ arg \in Arguments
    BY DEF WorkTypes, PacketsTo, Names, Arguments
  <2>3. queues' \in QueuesTo(turn.ctx)
    BY <1>1, <2>1, <2>2, SentType
  <2>4. UNCHANGED <<heard, transcripts, silencing, requests, voice, completion, idle>>
    BY <1>11 DEF ToolReturns, userVars, voiceVars, idleVars
  <2> QED BY <1>2, <1>3, <1>5, <2>1, <2>3, <2>4 DEF WorkTypes
<1> QED BY <1>6, <1>7, <1>8, <1>9, <1>10, <1>11 DEF User

\* Every step keeps the types.
LEMMA TypesKept ==
  ASSUME TypeInv, [Next]_vars
  PROVE  TypeInv'
<1>1. CASE UNCHANGED vars
  BY <1>1 DEF vars, userVars, modelVars, voiceVars, idleVars, TypeInv, QueueTypes, WorkTypes, TimerTypes
<1> QED BY <1>1, ControlTypes, IngressTypes, EgressTypes, OtherTypes DEF Next

LEMMA InitTypes ==
  ASSUME Init
  PROVE  TypeInv
<1>1. turn \in [state : MessageStates, ctx : Nat \ {0}] /\ turn.ctx = 1
  BY DEF Init, NewMessage, MessageStates
<1>2. NoPackets \in QueuesTo(1)
  BY DEF NoPackets, QueuesTo
<1>3. queues \in QueuesTo(1)
  <2>1. {"PolicyIgnore", "InjectMessage", "UserText", "UserAudio", "StartIdleTimeout"} \subseteq Names
    BY DEF Names
  <2>2. {Greeting(1), OnPacket(NoPackets, Plain("UserText", 0)),
         OnPacket(NoPackets, Plain("UserAudio", 0))} \subseteq QueuesTo(1)
    BY <1>2, <2>1, SentType, SentBothType DEF Greeting
  <2> QED BY <1>1, <2>1, <2>2, SentType DEF Init
<1>4. QueueTypes
  BY <1>1, <1>3, NothingType DEF Init, QueueTypes
<1>5. WorkTypes
  BY <1>1, FS_EmptySet DEF Init, WorkTypes, NoTurn
<1>6. TimerTypes
  <2>1. Off \in TimersTo(turn.ctx) /\ 0 \in 0..Backoff
    BY <1>1, ArmTypes, TurnAssumption
  <2> QED BY <2>1 DEF Init, TimerTypes
<1> QED BY <1>4, <1>5, <1>6 DEF TypeInv

\* The session works for turns that have begun and never for one to come, in
\* every queue, timer, request and call of a tool, for any bounds.
THEOREM TypeCorrect == Spec => []TypeOK
<1>1. Init => TypeInv
  BY InitTypes
<1>2. TypeInv /\ [Next]_vars => TypeInv'
  BY TypesKept
<1>3. TypeInv => TypeOK
  BY DEF TypeInv, QueueTypes, TimerTypes, TimersTo, PacketsTo, TypeOK
<1> QED BY <1>1, <1>2, <1>3, PTL DEF Spec
-----------------------------------------------------------------------------
(* A session at rest is watched: while the idle watchdog is off, or about to *)
(* be stopped, something is under way that starts it.                        *)

Named(queue, name) == \E i \in DOMAIN queue : queue[i].name = name

\* The end of an answer for a turn is queued.
DoneFor(queue, ctx) == \E i \in DOMAIN queue : queue[i].name = "LLMDone" /\ queue[i].ctx = ctx

\* The idle timeout starts, and nothing queued behind it stops it.
StartIsLast(queue) ==
  \E i \in DOMAIN queue :
    /\ queue[i].name = "StartIdleTimeout"
    /\ \A j \in DOMAIN queue : j > i => queue[j].name # "StopIdleTimeout"

IsWord(p) == p.name = "InterruptionDetected" /\ p.arg = "word"

\* The user's words are on their way to the detector of utterances, or their
\* input is on its way to the model.
Speaks == transcripts > 0 \/ Named(queues["ingress"], "SpeechToText")
InputComes == Speaks \/ Named(queues["ingress"], "UserInput")

\* The current turn is being answered, or an error is about to be told.
Answers ==
  \/ \E r \in requests : r.ctx = turn.ctx
  \/ hand.name = "LLMDone" \/ DoneFor(queues["egress"], turn.ctx)
  \/ Named(queues["egress"], "LLMError")

ToolComes == tools # {} \/ Named(queues["ingress"], "LLMToolResult")

StartComes == InputComes \/ Answers \/ ToolComes \/ Named(queues["egress"], "IdleTimeoutExpired")

Watched ==
  \/ ending \/ failed \/ StartComes
  \/ StartIsLast(queues["egress"])
  \/ idle.armed /\ ~Named(queues["egress"], "StopIdleTimeout")

\* A word interrupts before its transcript is read.
WordsAreSpoken == \A i \in DOMAIN queues["control"] : IsWord(queues["control"][i]) => Speaks

WatchInv == Watched /\ WordsAreSpoken

-----------------------------------------------------------------------------
(* What a change of the queues keeps of this, in the turn ctx *)

ComesKeeps(old, new, ctx) ==
  /\ \A name \in {"LLMError", "IdleTimeoutExpired"} : Named(old, name) => Named(new, name)
  /\ DoneFor(old, ctx) => DoneFor(new, ctx)

StartKeeps(old, new) ==
  /\ StartIsLast(old) => StartIsLast(new)
  /\ Named(new, "StopIdleTimeout") => Named(old, "StopIdleTimeout")

IngressKeeps(old, new) ==
  \A name \in {"SpeechToText", "UserInput", "LLMToolResult"} : Named(old, name) => Named(new, name)

ControlKeeps(old, new) ==
  \A i \in DOMAIN new : IsWord(new[i]) => \E j \in DOMAIN old : IsWord(old[j])

\* The words and what follows from them.
WordsKeep(old, new) ==
  IngressKeeps(old["ingress"], new["ingress"]) /\ ControlKeeps(old["control"], new["control"])

Keeps(old, new, ctx) ==
  /\ WordsKeep(old, new)
  /\ ComesKeeps(old["egress"], new["egress"], ctx) /\ StartKeeps(old["egress"], new["egress"])

LEMMA KeepsItself ==
  ASSUME NEW q, NEW ctx
  PROVE  Keeps(q, q, ctx)
BY DEF Keeps, WordsKeep, ComesKeeps, StartKeeps, IngressKeeps, ControlKeeps

LEMMA KeepsBoth ==
  ASSUME NEW q1, NEW q2, NEW q3, NEW ctx, Keeps(q1, q2, ctx), Keeps(q2, q3, ctx)
  PROVE  Keeps(q1, q3, ctx)
<1>1. ComesKeeps(q1["egress"], q3["egress"], ctx) /\ StartKeeps(q1["egress"], q3["egress"])
  BY DEF Keeps, ComesKeeps, StartKeeps
<1>2. IngressKeeps(q1["ingress"], q3["ingress"])
  BY DEF Keeps, WordsKeep, IngressKeeps
<1>3. ControlKeeps(q1["control"], q3["control"])
  BY DEF Keeps, WordsKeep, ControlKeeps
<1> QED BY <1>1, <1>2, <1>3 DEF Keeps, WordsKeep

LEMMA WordsKeepBoth ==
  ASSUME NEW q1, NEW q2, NEW q3, WordsKeep(q1, q2), WordsKeep(q2, q3)
  PROVE  WordsKeep(q1, q3)
<1>1. IngressKeeps(q1["ingress"], q3["ingress"])
  BY DEF WordsKeep, IngressKeeps
<1>2. ControlKeeps(q1["control"], q3["control"])
  BY DEF WordsKeep, ControlKeeps
<1> QED BY <1>1, <1>2 DEF WordsKeep

\* A packet that joins a queue leaves what was there and comes last.
LEMMA AppendNamed ==
  ASSUME NEW S, NEW queue \in Seq(S), NEW p \in S
  PROVE  /\ \A name : Named(Append(queue, p), name) <=> Named(queue, name) \/ p.name = name
         /\ \A ctx : DoneFor(queue, ctx) => DoneFor(Append(queue, p), ctx)
         /\ p.name = "LLMDone" => DoneFor(Append(queue, p), p.ctx)
         /\ p.name # "StopIdleTimeout" /\ StartIsLast(queue) => StartIsLast(Append(queue, p))
         /\ p.name = "StartIdleTimeout" => StartIsLast(Append(queue, p))
<1> DEFINE new == Append(queue, p)
           n == Len(queue)
<1>1. /\ n \in Nat /\ DOMAIN queue = 1..n /\ DOMAIN new = 1..(n + 1)
      /\ \A i \in 1..n : new[i] = queue[i]
      /\ new[n + 1] = p
  BY LenProperties, AppendProperties
<1> HIDE DEF new, n
<1>2. \A name : Named(new, name) <=> Named(queue, name) \/ p.name = name
  BY <1>1 DEF Named
<1>3. /\ \A ctx : DoneFor(queue, ctx) => DoneFor(new, ctx)
      /\ p.name = "LLMDone" => DoneFor(new, p.ctx)
  BY <1>1 DEF DoneFor
<1>4. p.name # "StopIdleTimeout" /\ StartIsLast(queue) => StartIsLast(new)
  <2> SUFFICES ASSUME p.name # "StopIdleTimeout", StartIsLast(queue) PROVE StartIsLast(new)
    OBVIOUS
  <2>1. PICK i \in 1..n : /\ queue[i].name = "StartIdleTimeout"
                          /\ \A j \in 1..n : j > i => queue[j].name # "StopIdleTimeout"
    BY <1>1 DEF StartIsLast
  <2>2. \A j \in 1..(n + 1) : j > i => new[j].name # "StopIdleTimeout"
    BY <1>1, <2>1
  <2>3. i \in 1..(n + 1) /\ new[i].name = "StartIdleTimeout"
    BY <1>1, <2>1
  <2> QED BY <1>1, <2>2, <2>3 DEF StartIsLast
<1>5. p.name = "StartIdleTimeout" => StartIsLast(new)
  <2>1. n + 1 \in DOMAIN new /\ \A j \in DOMAIN new : ~(j > n + 1)
    BY <1>1
  <2> QED BY <1>1, <2>1 DEF StartIsLast
<1> QED BY <1>2, <1>3, <1>4, <1>5 DEF new

\* Taking the head of a queue leaves all but what the head was.
LEMMA TailNamed ==
  ASSUME NEW S, NEW queue \in Seq(S), queue # <<>>
  PROVE  /\ \A name : Named(queue, name) <=> Named(Tail(queue), name) \/ Head(queue).name = name
         /\ \A ctx : DoneFor(queue, ctx) =>
              \/ DoneFor(Tail(queue), ctx)
              \/ Head(queue).name = "LLMDone" /\ Head(queue).ctx = ctx
         /\ StartIsLast(queue) =>
              \/ StartIsLast(Tail(queue))
              \/ Head(queue).name = "StartIdleTimeout" /\ ~Named(Tail(queue), "StopIdleTimeout")
<1> DEFINE new == Tail(queue)
           n == Len(new)
<1>1. /\ n \in Nat /\ DOMAIN new = 1..n /\ DOMAIN queue = 1..(n + 1)
      /\ \A i \in 1..n : new[i] = queue[i + 1]
      /\ queue[1] = Head(queue)
  BY LenProperties, HeadTailProperties, EmptySeq
<1> HIDE DEF new, n
<1>2. \A i \in 1..(n + 1) : i = 1 \/ (i - 1 \in 1..n /\ new[i - 1] = queue[i])
  BY <1>1
<1>3. \A i \in 1..n : i + 1 \in 1..(n + 1)
  BY <1>1
<1>4. \A name : Named(queue, name) <=> Named(new, name) \/ Head(queue).name = name
  <2> SUFFICES ASSUME NEW name
               PROVE  Named(queue, name) <=> Named(new, name) \/ Head(queue).name = name
    OBVIOUS
  <2>1. Named(queue, name) => Named(new, name) \/ Head(queue).name = name
    BY <1>1, <1>2 DEF Named
  <2>2. Named(new, name) => Named(queue, name)
    BY <1>1, <1>3 DEF Named
  <2>3. Head(queue).name = name => Named(queue, name)
    <3>1. 1 \in DOMAIN queue
      BY <1>1
    <3> QED BY <1>1, <3>1 DEF Named
  <2> QED BY <2>1, <2>2, <2>3
<1>5. \A ctx : DoneFor(queue, ctx) =>
        \/ DoneFor(new, ctx)
        \/ Head(queue).name = "LLMDone" /\ Head(queue).ctx = ctx
  BY <1>1, <1>2 DEF DoneFor
<1>6. StartIsLast(queue) =>
        \/ StartIsLast(new)
        \/ Head(queue).name = "StartIdleTimeout" /\ ~Named(new, "StopIdleTimeout")
  <2> SUFFICES ASSUME StartIsLast(queue)
               PROVE  \/ StartIsLast(new)
                      \/ Head(queue).name = "StartIdleTimeout" /\ ~Named(new, "StopIdleTimeout")
    OBVIOUS
  <2>1. PICK i \in 1..(n + 1) : /\ queue[i].name = "StartIdleTimeout"
                                /\ \A j \in 1..(n + 1) : j > i => queue[j].name # "StopIdleTimeout"
    BY <1>1 DEF StartIsLast
  <2>2. \A j \in 1..n : j + 1 > i => new[j].name # "StopIdleTimeout"
    BY <1>1, <1>3, <2>1
  <2>3. CASE i = 1
    <3>1. \A j \in 1..n : new[j].name # "StopIdleTimeout"
      BY <1>1, <2>2, <2>3
    <3> QED BY <1>1, <2>1, <2>3, <3>1 DEF Named
  <2>4. CASE i # 1
    <3>1. i - 1 \in 1..n /\ new[i - 1].name = "StartIdleTimeout"
      BY <1>2, <2>1, <2>4
    <3>2. \A j \in 1..n : j > i - 1 => new[j].name # "StopIdleTimeout"
      BY <1>1, <2>2
    <3> QED BY <1>1, <3>1, <3>2 DEF StartIsLast
  <2> QED BY <2>3, <2>4
<1> QED BY <1>4, <1>5, <1>6 DEF new

\* Any packet but a word can join without taking from the words; what starts the
\* idle timeout is kept if the packet does not stop it.
LEMMA JoinKeeps ==
  ASSUME NEW n, NEW q \in QueuesTo(n), NEW p \in PacketsTo(n), NEW ctx, ~IsWord(p)
  PROVE  /\ WordsKeep(q, OnPacket(q, p)) /\ ComesKeeps(q["egress"], OnPacket(q, p)["egress"], ctx)
         /\ p.name # "StopIdleTimeout" => Keeps(q, OnPacket(q, p), ctx)
<1> DEFINE new == OnPacket(q, p)
           route == Classify(p.name)
<1>1. /\ route \in Routes /\ new[route] = Append(q[route], p)
      /\ \A other \in Routes \ {route} : new[other] = q[other]
      /\ \A other \in Routes : q[other] \in Seq(PacketsTo(n))
  BY Joins DEF QueuesTo
<1> HIDE DEF new, route
<1>2. IngressKeeps(q["ingress"], new["ingress"])
  <2>1. CASE route = "ingress"
    <3>1. new["ingress"] = Append(q["ingress"], p) /\ q["ingress"] \in Seq(PacketsTo(n))
      BY <1>1, <2>1
    <3> QED BY <3>1, AppendNamed DEF IngressKeeps
  <2>2. CASE route # "ingress"
    BY <1>1, <2>2 DEF IngressKeeps, Routes
  <2> QED BY <2>1, <2>2
<1>3. ControlKeeps(q["control"], new["control"])
  <2>1. CASE route = "control"
    <3> DEFINE old == q["control"]
    <3>1. /\ Len(old) \in Nat /\ DOMAIN old = 1..Len(old) /\ DOMAIN new["control"] = 1..(Len(old) + 1)
          /\ \A i \in 1..Len(old) : new["control"][i] = old[i]
          /\ new["control"][Len(old) + 1] = p
      BY <1>1, <2>1, LenProperties, AppendProperties
    <3> HIDE DEF old
    <3> QED BY <3>1 DEF ControlKeeps, old
  <2>2. CASE route # "control"
    BY <1>1, <2>2 DEF ControlKeeps, Routes
  <2> QED BY <2>1, <2>2
<1>4. /\ ComesKeeps(q["egress"], new["egress"], ctx)
      /\ p.name # "StopIdleTimeout" => StartKeeps(q["egress"], new["egress"])
  <2>1. CASE route = "egress"
    <3>1. new["egress"] = Append(q["egress"], p) /\ q["egress"] \in Seq(PacketsTo(n))
      BY <1>1, <2>1
    <3> QED BY <3>1, AppendNamed DEF ComesKeeps, StartKeeps
  <2>2. CASE route # "egress"
    BY <1>1, <2>2 DEF ComesKeeps, StartKeeps, Routes
  <2> QED BY <2>1, <2>2
<1> QED BY <1>2, <1>3, <1>4 DEF Keeps, WordsKeep, new

\* A packet on its way is taken by nobody but the handler of its name.
LEMMA RestKeeps ==
  ASSUME QueueTypes, NEW route \in Routes, queues[route] # <<>>, NEW ctx
  PROVE  LET p == Head(queues[route])
             q == Rest(route)
         IN  /\ p.name \notin {"SpeechToText", "UserInput", "LLMToolResult"} => WordsKeep(queues, q)
             /\ /\ p.name \notin {"LLMError", "IdleTimeoutExpired"}
                /\ p.name = "LLMDone" => p.ctx # ctx
                => ComesKeeps(queues["egress"], q["egress"], ctx)
             /\ p.name # "StartIdleTimeout" => StartKeeps(queues["egress"], q["egress"])
             /\ ControlKeeps(queues["control"], q["control"])
<1> DEFINE p == Head(queues[route])
           q == Rest(route)
<1>1. /\ q[route] = Tail(queues[route])
      /\ \A other \in Routes \ {route} : q[other] = queues[other]
      /\ \A other \in Routes : queues[other] \in Seq(PacketsTo(turn.ctx))
  BY RestTypes DEF QueueTypes, QueuesTo
<1>2. p = Head(queues[route])
  OBVIOUS
<1> HIDE DEF q, p
<1>3. p.name \notin {"SpeechToText", "UserInput", "LLMToolResult"} =>
        IngressKeeps(queues["ingress"], q["ingress"])
  BY <1>1, <1>2, TailNamed DEF IngressKeeps, Routes
<1>4. ControlKeeps(queues["control"], q["control"])
  <2>1. CASE route = "control"
    <3> DEFINE old == queues["control"]
               tail == Tail(old)
    <3>1. /\ Len(tail) \in Nat /\ DOMAIN tail = 1..Len(tail) /\ DOMAIN old = 1..(Len(tail) + 1)
          /\ \A i \in 1..Len(tail) : tail[i] = old[i + 1]
      BY <1>1, <2>1, LenProperties, HeadTailProperties, EmptySeq
    <3>2. q["control"] = tail
      BY <1>1, <2>1
    <3> HIDE DEF tail, old
    <3>3. \A i \in 1..Len(tail) : i + 1 \in 1..(Len(tail) + 1)
      BY <3>1
    <3> QED BY <3>1, <3>2, <3>3 DEF ControlKeeps, old
  <2>2. CASE route # "control"
    BY <1>1, <2>2 DEF ControlKeeps, Routes
  <2> QED BY <2>1, <2>2
<1>5. /\ p.name \notin {"LLMError", "IdleTimeoutExpired"}
      /\ p.name = "LLMDone" => p.ctx # ctx
      => ComesKeeps(queues["egress"], q["egress"], ctx)
  BY <1>1, <1>2, TailNamed DEF ComesKeeps, Routes
<1>6. p.name # "StartIdleTimeout" => StartKeeps(queues["egress"], q["egress"])
  BY <1>1, <1>2, TailNamed DEF StartKeeps, Routes
<1> QED BY <1>3, <1>4, <1>5, <1>6 DEF WordsKeep, p, q

-----------------------------------------------------------------------------
(* Steps that leave what starts the idle timeout on its way *)

LEMMA WordsKept ==
  ASSUME WatchInv, ControlKeeps(queues["control"], queues'["control"]), Speaks => Speaks'
  PROVE  WordsAreSpoken'
BY DEF WatchInv, WordsAreSpoken, ControlKeeps

LEMMA SpeaksKept ==
  ASSUME WordsKeep(queues, queues'), transcripts' = transcripts
  PROVE  Speaks => Speaks'
BY DEF Speaks, WordsKeep, IngressKeeps

LEMMA ComesKept ==
  ASSUME WordsKeep(queues, queues'), ComesKeeps(queues["egress"], queues'["egress"], turn.ctx),
         turn'.ctx = turn.ctx, UNCHANGED <<tools, transcripts>>,
         (\E r \in requests : r.ctx = turn.ctx) => \E r \in requests' : r.ctx = turn.ctx,
         hand.name = "LLMDone" => hand'.name = "LLMDone"
  PROVE  StartComes => StartComes'
<1>1. InputComes => InputComes'
  BY SpeaksKept DEF InputComes, WordsKeep, IngressKeeps
<1>2. ToolComes => ToolComes'
  BY DEF ToolComes, WordsKeep, IngressKeeps
<1>3. Answers => Answers'
  BY DEF Answers, ComesKeeps
<1>4. Named(queues["egress"], "IdleTimeoutExpired") => Named(queues'["egress"], "IdleTimeoutExpired")
  BY DEF ComesKeeps
<1> QED BY <1>1, <1>2, <1>3, <1>4 DEF StartComes

LEMMA Persist ==
  ASSUME WatchInv, Keeps(queues, queues', turn.ctx),
         turn'.ctx = turn.ctx, UNCHANGED <<ending, failed, tools, transcripts, idle>>,
         (\E r \in requests : r.ctx = turn.ctx) => \E r \in requests' : r.ctx = turn.ctx,
         hand.name = "LLMDone" => hand'.name = "LLMDone"
  PROVE  WatchInv'
<1>1. StartComes => StartComes'
  BY ComesKept DEF Keeps
<1>2. Watched'
  BY <1>1 DEF WatchInv, Watched, Keeps, StartKeeps
<1>3. WordsAreSpoken'
  BY WordsKept, SpeaksKept DEF Keeps, WordsKeep
<1> QED BY <1>2, <1>3 DEF WatchInv

\* What is queued by a step that only queues packets.
LEMMA JoinSteps ==
  ASSUME NEW n, NEW q \in QueuesTo(n), NEW ctx, NEW name \in Names, NEW to \in 0..n,
         NEW arg \in Arguments, name # "StopIdleTimeout", ~(name = "InterruptionDetected" /\ arg = "word")
  PROVE  /\ Keeps(q, OnPacket(q, Packet(name, to, arg)), ctx)
         /\ OnPacket(q, Packet(name, to, arg)) \in QueuesTo(n)
<1> DEFINE p == Packet(name, to, arg)
<1>1. p \in PacketsTo(n) /\ p.name = name /\ ~IsWord(p)
  BY PacketType DEF Packet, IsWord
<1> HIDE DEF p
<1> QED BY <1>1, JoinKeeps, Joins DEF p

LEMMA PlainSteps ==
  ASSUME NEW n, NEW q \in QueuesTo(n), NEW ctx, NEW name \in Names, NEW to \in 0..n,
         name # "StopIdleTimeout"
  PROVE  Keeps(q, OnPacket(q, Plain(name, to)), ctx) /\ OnPacket(q, Plain(name, to)) \in QueuesTo(n)
BY JoinSteps DEF Plain, Arguments

LEMMA BothSteps ==
  ASSUME NEW n, NEW q \in QueuesTo(n), NEW ctx, NEW one \in Names, NEW two \in Names, NEW to \in 0..n,
         one # "StopIdleTimeout", two # "StopIdleTimeout"
  PROVE  Keeps(q, OnPackets(q, Plain(one, to), Plain(two, to)), ctx)
<1> DEFINE q1 == OnPacket(q, Plain(one, to))
           q2 == OnPacket(q1, Plain(two, to))
<1>1. Keeps(q, q1, ctx) /\ q1 \in QueuesTo(n)
  BY PlainSteps
<1> HIDE DEF q1
<1>2. Keeps(q1, q2, ctx)
  BY <1>1, PlainSteps
<1> HIDE DEF q2
<1>3. Keeps(q, q2, ctx)
  BY <1>1, <1>2, KeepsBoth
<1> QED BY <1>3 DEF OnPackets, q1, q2

\* The handlers that take a packet which starts nothing.
LEMMA TakeSteps ==
  ASSUME QueueTypes, NEW route \in Routes, NEW p \in Dispatched(route), NEW ctx,
         p.name \notin {"SpeechToText", "UserInput", "LLMToolResult", "LLMError",
                        "IdleTimeoutExpired", "StartIdleTimeout"},
         p.name = "LLMDone" => p.ctx # ctx
  PROVE  Keeps(queues, Rest(route), ctx)
BY Taken, RestKeeps DEF Keeps

\* What is drained or dropped by a policy starts nothing either.
LEMMA DrainKeeps ==
  ASSUME QueueTypes, NEW q \in QueuesTo(turn.ctx), NEW ctx
  PROVE  Keeps(q, [q EXCEPT !["control"] = Without(@, Targets),
                            !["ingress"] = Without(@, Targets)], ctx)
<1> DEFINE new == [q EXCEPT !["control"] = Without(@, Targets), !["ingress"] = Without(@, Targets)]
<1>1. q["control"] \in Seq(PacketsTo(turn.ctx)) /\ q["ingress"] \in Seq(PacketsTo(turn.ctx))
  BY DEF QueuesTo, Routes
<1>2. /\ new["control"] = Without(q["control"], Targets)
      /\ new["ingress"] = Without(q["ingress"], Targets)
      /\ new["egress"] = q["egress"]
  BY DEF QueuesTo, Routes
<1> HIDE DEF new
<1>3. ControlKeeps(q["control"], new["control"])
  <2> DEFINE old == q["control"]
             left == Without(old, Targets)
  <2>1. \A m \in DOMAIN left : \E i \in DOMAIN old : left[m] = old[i]
    BY <1>1, WithoutKeeps
  <2>2. new["control"] = left
    BY <1>2
  <2> HIDE DEF old, left
  <2> QED BY <2>1, <2>2 DEF ControlKeeps, old
<1>4. IngressKeeps(q["ingress"], new["ingress"])
  <2> DEFINE old == q["ingress"]
             left == Without(old, Targets)
  <2>1. \A i \in DOMAIN old : old[i].name \notin Targets => \E m \in DOMAIN left : left[m] = old[i]
    <3>1. old \in Seq(PacketsTo(turn.ctx))
      BY <1>1
    <3> HIDE DEF old
    <3> SUFFICES ASSUME NEW i \in DOMAIN old, old[i].name \notin Targets
                 PROVE  \E m \in DOMAIN left : left[m] = old[i]
      OBVIOUS
    <3> QED BY <3>1, WithoutKeeps
  <2>2. new["ingress"] = left
    BY <1>2
  <2>3. "SpeechToText" \notin Targets /\ "UserInput" \notin Targets /\ "LLMToolResult" \notin Targets
    BY DEF Targets
  <2> HIDE DEF old, left
  <2>4. \A name : name \notin Targets /\ Named(old, name) => Named(left, name)
    BY <2>1 DEF Named
  <2> QED BY <2>2, <2>3, <2>4 DEF IngressKeeps, old
<1> QED BY <1>2, <1>3, <1>4 DEF Keeps, WordsKeep, ComesKeeps, StartKeeps, new

\* When the start of the idle timeout joins, it is the last of its kind.
LEMMA StartJoins ==
  ASSUME NEW n, NEW q \in QueuesTo(n), NEW to, Plain("StartIdleTimeout", to) \in PacketsTo(n)
  PROVE  LET new == OnPacket(q, Plain("StartIdleTimeout", to))
         IN  StartIsLast(new["egress"]) /\ WordsKeep(q, new) /\ new \in QueuesTo(n)
<1> DEFINE start == Plain("StartIdleTimeout", to)
<1>1. start.name = "StartIdleTimeout" /\ start \in PacketsTo(n)
  BY DEF Plain, Packet
<1> HIDE DEF start
<1>2. OnPacket(q, start)["egress"] = Append(q["egress"], start) /\ q["egress"] \in Seq(PacketsTo(n))
  <2>1. Classify(start.name) = "egress" /\ q["egress"] \in Seq(PacketsTo(n))
    BY <1>1 DEF Classify, Inputs, Controls, QueuesTo, Routes
  <2> QED BY <1>1, <2>1, Joins
<1>3. StartIsLast(OnPacket(q, start)["egress"])
  BY <1>1, <1>2, AppendNamed
<1>4. WordsKeep(q, OnPacket(q, start)) /\ OnPacket(q, start) \in QueuesTo(n)
  BY <1>1, JoinKeeps, Joins DEF IsWord
<1> QED BY <1>3, <1>4 DEF start

\* A transcript that waits is passed by nobody else's packet.
LEMMA TranscriptWaits ==
  ASSUME QueueTypes, NEW p \in Dispatched("ingress"), p.name # "SpeechToText"
  PROVE  Named(queues["ingress"], "SpeechToText") => Named(Rest("ingress")["ingress"], "SpeechToText")
<1>1. queues["ingress"] # <<>> /\ p = Head(queues["ingress"]) /\ "ingress" \in Routes
  BY Taken DEF Routes
<1>2. Rest("ingress")["ingress"] = Tail(queues["ingress"])
  BY <1>1, RestTypes
<1>3. queues["ingress"] \in Seq(PacketsTo(turn.ctx))
  BY <1>1 DEF QueueTypes, QueuesTo
<1> QED BY <1>1, <1>2, <1>3, TailNamed

LEMMA ControlWatch ==
  ASSUME TypeInv, WatchInv, Control
  PROVE  WatchInv'
<1>1. QueueTypes /\ queues \in QueuesTo(turn.ctx) /\ ignored \subseteq Targets
  BY DEF TypeInv, QueueTypes
<1>2. CASE Ignore("control")
  <2>1. Keeps(queues, queues', turn.ctx)
    BY <1>1, <1>2, RestKeeps DEF Ignore, Keeps, Targets, Routes
  <2> QED BY <1>2, <2>1, Persist DEF Ignore, modelVars, userVars, idleVars, ghosts
<1>3. CASE HandleInterruptionDetected
  <2>1. PICK p \in Dispatched("control") :
          /\ p.name = "InterruptionDetected"
          /\ \/ p.arg = "word" /\ Interruption(Rest("control"), p.ctx)
             \/ p.arg = "vad" /\ turn' = Transition(turn, "Interrupt") /\ queues' = Rest("control")
          /\ UNCHANGED <<hand, ignored, userVars, modelVars, voice, completion, idleVars, events, ghosts>>
    BY <1>3 DEF HandleInterruptionDetected
  <2>2. UNCHANGED <<hand, transcripts, requests, tools, idle, ending, failed>>
    BY <2>1 DEF modelVars, userVars, idleVars, ghosts
  <2>3. Keeps(queues, Rest("control"), turn.ctx)
    BY <1>1, <2>1, TakeSteps DEF Routes
  <2>4. CASE p.arg = "word" /\ Interruption(Rest("control"), p.ctx)
    <3>1. Speaks
      <4>1. queues["control"] \in Seq(PacketsTo(turn.ctx)) /\ queues["control"] # <<>>
            /\ p = Head(queues["control"])
        BY <1>1, Taken DEF QueuesTo, Routes
      <4>2. 1 \in DOMAIN queues["control"] /\ queues["control"][1] = p
        BY <4>1, LenProperties, EmptySeq
      <4> QED BY <2>1, <2>4, <4>2 DEF WatchInv, WordsAreSpoken, IsWord
    <3>2. queues'["ingress"] = queues["ingress"]
      <4> DEFINE stop == Plain("StopIdleTimeout", p.ctx)
      <4>1. Rest("control") \in QueuesTo(turn.ctx) /\ Rest("control")["ingress"] = queues["ingress"]
        BY <1>1, Taken, RestTypes DEF Routes
      <4>2. stop \in PacketsTo(turn.ctx) /\ stop.name = "StopIdleTimeout"
        <5>1. p.ctx \in 0..turn.ctx /\ "StopIdleTimeout" \in Names
          BY <1>1, Taken DEF Routes, PacketsTo, Names
        <5> QED BY <5>1, PlainType DEF Plain, Packet
      <4>3. queues' = OnPacket(Rest("control"), stop)
        BY <2>4 DEF Interruption
      <4> HIDE DEF stop
      <4> QED BY <4>1, <4>2, <4>3, Joins DEF Classify, Inputs, Controls, Routes
    <3>3. Speaks'
      BY <2>2, <3>1, <3>2 DEF Speaks
    <3> QED BY <3>3 DEF WatchInv, Watched, StartComes, InputComes, WordsAreSpoken
  <2>5. CASE turn' = Transition(turn, "Interrupt") /\ queues' = Rest("control")
    <3>1. turn'.ctx = turn.ctx
      BY <2>5, TransitionType DEF TypeInv, QueueTypes, MessageStates
    <3> QED BY <2>2, <2>3, <2>5, <3>1, Persist
  <2> QED BY <2>1, <2>4, <2>5
<1>4. CASE HandleDispatchPolicy
  <2>1. PICK p \in Dispatched("control") :
          /\ p.name \in {"PolicyIgnore", "PolicyPassthrough"}
          /\ queues' \in {Rest("control"),
                          [Rest("control") EXCEPT !["control"] = Without(@, Targets),
                                                  !["ingress"] = Without(@, Targets)]}
          /\ UNCHANGED <<turn, hand, transcripts, requests, tools, idle, ending, failed>>
    BY <1>4 DEF HandleDispatchPolicy, modelVars, userVars, idleVars, ghosts
  <2>2. Keeps(queues, Rest("control"), turn.ctx)
    BY <1>1, <2>1, TakeSteps DEF Routes
  <2>3. Rest("control") \in QueuesTo(turn.ctx)
    BY <1>1, <2>1, Taken, RestTypes DEF Routes
  <2>4. Keeps(queues, queues', turn.ctx)
    BY <1>1, <2>1, <2>2, <2>3, DrainKeeps, KeepsBoth
  <2> QED BY <2>1, <2>4, Persist
<1> QED BY <1>2, <1>3, <1>4 DEF Control

LEMMA IngressWatch ==
  ASSUME TypeInv, WatchInv, Ingress
  PROVE  WatchInv'
<1>1. QueueTypes /\ queues \in QueuesTo(turn.ctx) /\ ignored \subseteq Targets /\ "ingress" \in Routes
  BY DEF TypeInv, QueueTypes, Routes
<1>2. CASE Ignore("ingress")
  <2>1. Keeps(queues, queues', turn.ctx)
    BY <1>1, <1>2, RestKeeps DEF Ignore, Keeps, Targets
  <2> QED BY <1>2, <2>1, Persist DEF Ignore, modelVars, userVars, idleVars, ghosts
<1>3. CASE HandleUserText
  <2> DEFINE next == Transition(turn, "Interrupted")
             input == Plain("UserInput", next.ctx)
             stop == Plain("StopIdleTimeout", turn.ctx)
             q1 == OnPacket(Rest("ingress"), input)
  <2>1. PICK p \in Dispatched("ingress") :
          /\ p.name = "UserText" /\ queues' = OnPacket(q1, stop) /\ transcripts' = transcripts
    BY <1>3 DEF HandleUserText, Interruption, userVars
  <2>2. next.ctx \in Nat /\ turn.ctx \in Nat /\ turn.ctx <= next.ctx
    BY <1>1, TransitionType DEF QueueTypes, MessageStates
  <2>3. /\ input \in PacketsTo(next.ctx) /\ input.name = "UserInput"
        /\ stop \in PacketsTo(next.ctx) /\ stop.name = "StopIdleTimeout"
    <3>1. {"UserInput", "StopIdleTimeout"} \subseteq Names /\ {turn.ctx, next.ctx} \subseteq 0..next.ctx
      BY <2>2 DEF Names
    <3>2. input.name = "UserInput" /\ stop.name = "StopIdleTimeout"
      BY DEF Plain, Packet
    <3> QED BY <3>1, <3>2, PlainType
  <2>4. Rest("ingress") \in QueuesTo(next.ctx) /\ WordsKeep(queues, Rest("ingress"))
    BY <1>1, <2>1, <2>2, Taken, RestTypes, RestKeeps, LaterTypes
  <2> HIDE DEF input, stop, next
  <2>5. /\ WordsKeep(Rest("ingress"), q1) /\ q1 \in QueuesTo(next.ctx)
        /\ Named(q1["ingress"], "UserInput")
    <3>1. q1["ingress"] = Append(Rest("ingress")["ingress"], input)
      BY <2>3, <2>4, Joins DEF Classify, Inputs
    <3>2. Rest("ingress")["ingress"] \in Seq(PacketsTo(next.ctx))
      BY <1>1, <2>4 DEF QueuesTo
    <3>3. Named(q1["ingress"], "UserInput")
      <4> HIDE DEF q1
      <4> QED BY <2>3, <2>4, <3>1, <3>2, AppendNamed
    <3>4. ~IsWord(input)
      BY <2>3 DEF IsWord
    <3> QED BY <2>3, <2>4, <3>3, <3>4, JoinKeeps, Joins
  <2> HIDE DEF q1
  <2>6. WordsKeep(q1, queues')
    BY <2>1, <2>3, <2>5, JoinKeeps DEF IsWord
  <2>7. WordsKeep(queues, queues') /\ Named(queues'["ingress"], "UserInput")
    BY <2>4, <2>5, <2>6, WordsKeepBoth DEF WordsKeep, IngressKeeps
  <2>8. WordsAreSpoken'
    BY <2>1, <2>7, WordsKept, SpeaksKept DEF WordsKeep
  <2> QED BY <2>7, <2>8 DEF WatchInv, Watched, StartComes, InputComes
<1>4. CASE HandleUserAudio
  <2>1. Keeps(queues, queues', turn.ctx)
    BY <1>1, <1>4, TakeSteps DEF HandleUserAudio
  <2> QED BY <1>4, <2>1, Persist DEF HandleUserAudio, modelVars, idleVars, ghosts
<1>5. CASE HandleSpeechToText
  <2>1. transcripts' = transcripts + 1 /\ transcripts \in Nat
    BY <1>5 DEF HandleSpeechToText, TypeInv, WorkTypes
  <2>2. Speaks'
    BY <2>1 DEF Speaks
  <2> QED BY <2>2 DEF WatchInv, Watched, StartComes, InputComes, WordsAreSpoken
<1>6. CASE HandleUserInput
  <2> DEFINE stop == Packet("StopIdleTimeout", turn.ctx, "reset")
  <2>1. PICK p \in Dispatched("ingress") :
          /\ p.name = "UserInput" /\ transcripts' = transcripts /\ turn' = Transition(turn, "LLMGenerating")
          /\ queues' = OnPacket(Rest("ingress"), stop)
          /\ requests' = requests \cup
               {[id |-> FreshId, ctx |-> Transition(turn, "LLMGenerating").ctx, stage |-> "begun"]}
    BY <1>6 DEF HandleUserInput, userVars
  <2>2. \E r \in requests' : r.ctx = turn'.ctx
    <3> DEFINE new == [id |-> FreshId, ctx |-> Transition(turn, "LLMGenerating").ctx, stage |-> "begun"]
    <3>1. new \in requests' /\ new.ctx = turn'.ctx
      BY <2>1
    <3> QED BY <3>1
  <2>3. Rest("ingress") \in QueuesTo(turn.ctx) /\ stop \in PacketsTo(turn.ctx) /\ ~IsWord(stop)
    <3>1. "StopIdleTimeout" \in Names /\ "reset" \in Arguments
      BY DEF Names, Arguments
    <3>2. ~IsWord(stop)
      BY DEF IsWord, Packet
    <3> QED BY <1>1, <2>1, <3>1, <3>2, Taken, RestTypes, TurnCtx, PacketType
  <2> HIDE DEF stop
  <2>4. WordsKeep(Rest("ingress"), queues')
    BY <2>1, <2>3, JoinKeeps
  <2>5. Speaks => Speaks'
    <3>1. Named(queues["ingress"], "SpeechToText") => Named(Rest("ingress")["ingress"], "SpeechToText")
      BY <1>1, <2>1, TranscriptWaits
    <3> QED BY <2>1, <2>4, <3>1 DEF Speaks, WordsKeep, IngressKeeps
  <2>6. ControlKeeps(queues["control"], queues'["control"])
    <3>1. ControlKeeps(queues["control"], Rest("ingress")["control"])
      BY <1>1, <2>1, Taken, RestKeeps
    <3> QED BY <2>4, <3>1 DEF WordsKeep, ControlKeeps
  <2>7. WordsAreSpoken'
    BY <2>5, <2>6, WordsKept
  <2> QED BY <2>2, <2>7 DEF WatchInv, Watched, StartComes, Answers
<1>7. CASE HandleLLMToolResult
  <2>1. PICK p \in Dispatched("ingress") :
          /\ p.name = "LLMToolResult" /\ transcripts' = transcripts
          /\ \/ ending' = TRUE /\ queues' = Rest("ingress")
             \/ queues' = OnPacket(Rest("ingress"), Plain("StartIdleTimeout", p.ctx))
    BY <1>7 DEF HandleLLMToolResult, userVars
  <2> DEFINE start == Plain("StartIdleTimeout", p.ctx)
             q1 == OnPacket(Rest("ingress"), start)
  <2>2. Rest("ingress") \in QueuesTo(turn.ctx) /\ start \in PacketsTo(turn.ctx)
    <3>1. p.ctx \in 0..turn.ctx /\ "StartIdleTimeout" \in Names
      BY <1>1, Taken DEF PacketsTo, Names
    <3> QED BY <1>1, <3>1, Taken, RestTypes, PlainType
  <2>3. StartIsLast(q1["egress"]) /\ WordsKeep(Rest("ingress"), q1)
    BY <2>2, StartJoins
  <2>4. \/ ending' = TRUE /\ queues' = Rest("ingress")
        \/ queues' = q1
    BY <2>1
  <2> HIDE DEF q1
  <2>5. /\ WordsKeep(Rest("ingress"), queues')
        /\ ending' = TRUE \/ StartIsLast(queues'["egress"])
    BY <2>3, <2>4, KeepsItself DEF Keeps
  <2>6. Speaks => Speaks'
    <3>1. Named(queues["ingress"], "SpeechToText") => Named(Rest("ingress")["ingress"], "SpeechToText")
      BY <1>1, <2>1, TranscriptWaits
    <3> QED BY <2>1, <2>5, <3>1 DEF Speaks, WordsKeep, IngressKeeps
  <2>7. ControlKeeps(queues["control"], queues'["control"])
    <3>1. ControlKeeps(queues["control"], Rest("ingress")["control"])
      BY <1>1, <2>1, Taken, RestKeeps
    <3> QED BY <2>5, <3>1 DEF WordsKeep, ControlKeeps
  <2>8. WordsAreSpoken'
    BY <2>6, <2>7, WordsKept
  <2> QED BY <2>5, <2>8 DEF WatchInv, Watched
<1> QED BY <1>2, <1>3, <1>4, <1>5, <1>6, <1>7 DEF Ingress

\* An egress handler leaves the words alone.
LEMMA EgressWords ==
  ASSUME WatchInv, WordsKeep(queues, queues'), transcripts' = transcripts
  PROVE  WordsAreSpoken'
BY WordsKept, SpeaksKept DEF WordsKeep

LEMMA OutputWatch ==
  ASSUME TypeInv, WatchInv,
         \/ HandleLLMResponseDelta \/ HandleLLMResponseDone \/ HandleTextToSpeechText
         \/ HandleTextToSpeechDone \/ HandleTextToSpeechEnd
  PROVE  WatchInv'
<1>1. queues \in QueuesTo(turn.ctx) /\ hand.ctx \in 0..turn.ctx
  BY DEF TypeInv, QueueTypes, PacketsTo
<1>2. CASE HandleLLMResponseDone
  <2> DEFINE start == Plain("StartIdleTimeout", hand.ctx)
             done == Plain("TTSDone", hand.ctx)
             q1 == OnPacket(queues, start)
  <2>1. queues' = OnPacket(q1, done) /\ transcripts' = transcripts
    BY <1>2 DEF HandleLLMResponseDone, Concluded, OnPackets, userVars
  <2>2. StartIsLast(q1["egress"]) /\ WordsKeep(queues, q1) /\ q1 \in QueuesTo(turn.ctx)
    <3>1. start \in PacketsTo(turn.ctx)
      BY <1>1, PlainType DEF Names
    <3> QED BY <1>1, <3>1, StartJoins
  <2> HIDE DEF q1
  <2>3. Keeps(q1, queues', turn.ctx)
    <3>1. "TTSDone" \in Names
      BY DEF Names
    <3> QED BY <1>1, <2>1, <2>2, <3>1, PlainSteps
  <2>4. StartIsLast(queues'["egress"]) /\ WordsKeep(queues, queues')
    BY <2>2, <2>3, WordsKeepBoth DEF Keeps, StartKeeps
  <2> QED BY <2>1, <2>4, EgressWords DEF WatchInv, Watched
<1>3. CASE \/ HandleLLMResponseDelta \/ HandleTextToSpeechText
           \/ HandleTextToSpeechDone \/ HandleTextToSpeechEnd
  <2>1. /\ hand.name # "LLMDone" /\ UNCHANGED <<transcripts, requests, tools, idle, ending, failed>>
        /\ turn' \in {turn, Transition(turn, "LLMGenerating")}
    BY <1>3 DEF HandleLLMResponseDelta, HandleTextToSpeechText, HandleTextToSpeechDone,
                HandleTextToSpeechEnd, Held, userVars, modelVars, idleVars, ghosts
  <2>2. turn'.ctx = turn.ctx
    BY <2>1, TransitionType DEF TypeInv, QueueTypes, MessageStates
  <2>3. Keeps(queues, queues', turn.ctx)
    <3>1. {"TTSText", "TTSError", "PolicyPassthrough"} \subseteq Names
      BY DEF Names
    <3>2. \/ queues' = queues
          \/ \E name \in {"TTSText", "TTSError", "PolicyPassthrough"} :
               queues' = OnPacket(queues, Plain(name, hand.ctx))
      BY <1>3 DEF HandleLLMResponseDelta, HandleTextToSpeechText, HandleTextToSpeechDone,
                  HandleTextToSpeechEnd
    <3>3. CASE queues' = queues
      BY <3>3, KeepsItself
    <3>4. ASSUME NEW name \in {"TTSText", "TTSError", "PolicyPassthrough"},
                 queues' = OnPacket(queues, Plain(name, hand.ctx))
          PROVE  Keeps(queues, queues', turn.ctx)
      BY <1>1, <3>1, <3>4, PlainSteps
    <3> QED BY <3>2, <3>3, <3>4
  <2> QED BY <2>1, <2>2, <2>3, Persist
<1> QED BY <1>2, <1>3

LEMMA IdleWatch ==
  ASSUME TypeInv, WatchInv,
         HandleStartIdleTimeout \/ HandleStopIdleTimeout \/ HandleIdleTimeoutExpired
  PROVE  WatchInv'
<1>1. QueueTypes /\ "egress" \in Routes
  BY DEF TypeInv, Routes
<1>2. PICK p \in Dispatched("egress") :
        /\ p.name \in {"StartIdleTimeout", "StopIdleTimeout", "IdleTimeoutExpired"}
        /\ \/ /\ p.name = "StartIdleTimeout" /\ idle' = Arm(p.ctx) /\ queues' = Rest("egress")
              /\ UNCHANGED <<turn, ending>>
           \/ /\ p.name = "StopIdleTimeout" /\ idle' = Off /\ queues' = Rest("egress")
              /\ UNCHANGED <<turn, ending>>
           \/ /\ p.name = "IdleTimeoutExpired"
              /\ \/ ending' = TRUE /\ queues' = Rest("egress")
                 \/ queues' = OnPackets(Rest("egress"), Plain("InjectMessage", turn'.ctx),
                                                        Plain("StartIdleTimeout", turn'.ctx))
                    /\ turn' = Transition(turn, "Interrupted")
        /\ UNCHANGED <<hand, transcripts, requests, tools, failed>>
  BY DEF HandleStartIdleTimeout, HandleStopIdleTimeout, HandleIdleTimeoutExpired,
         userVars, modelVars, ghosts
<1> DEFINE e == queues["egress"]
<1>3. /\ e # <<>> /\ p = Head(e) /\ Rest("egress") \in QueuesTo(turn.ctx)
      /\ Rest("egress")["egress"] = Tail(e) /\ e \in Seq(PacketsTo(turn.ctx))
  BY <1>1, Taken, RestTypes DEF QueueTypes, QueuesTo
<1>4. WordsKeep(queues, Rest("egress"))
  BY <1>1, <1>2, <1>3, RestKeeps
<1>5. p.name # "IdleTimeoutExpired" => ComesKeeps(e, Tail(e), turn.ctx)
  BY <1>1, <1>2, <1>3, RestKeeps
<1>6. /\ StartIsLast(e) =>
           \/ StartIsLast(Tail(e))
           \/ p.name = "StartIdleTimeout" /\ ~Named(Tail(e), "StopIdleTimeout")
      /\ Named(Tail(e), "StopIdleTimeout") => Named(e, "StopIdleTimeout")
      /\ p.name = "StopIdleTimeout" => Named(e, "StopIdleTimeout")
  <2>1. /\ StartIsLast(e) =>
             \/ StartIsLast(Tail(e))
             \/ Head(e).name = "StartIdleTimeout" /\ ~Named(Tail(e), "StopIdleTimeout")
        /\ \A name : Named(e, name) <=> Named(Tail(e), name) \/ Head(e).name = name
    <3>1. e \in Seq(PacketsTo(turn.ctx)) /\ e # <<>>
      BY <1>3
    <3> HIDE DEF e
    <3> QED BY <3>1, TailNamed
  <2> QED BY <1>3, <2>1
<1>7. CASE p.name # "IdleTimeoutExpired"
  <2>1. /\ queues' = Rest("egress") /\ UNCHANGED <<turn, ending>>
        /\ \/ p.name = "StartIdleTimeout" /\ idle' = Arm(p.ctx)
           \/ p.name = "StopIdleTimeout"
    BY <1>2, <1>7
  <2>2. queues'["egress"] = Tail(e) /\ WordsKeep(queues, queues')
    BY <1>3, <1>4, <2>1
  <2>3. StartComes => StartComes'
    BY <1>2, <1>5, <1>7, <2>1, <2>2, ComesKept
  <2>4. StartIsLast(e) =>
          \/ StartIsLast(queues'["egress"])
          \/ idle'.armed /\ ~Named(queues'["egress"], "StopIdleTimeout")
    BY <1>6, <2>1, <2>2 DEF Arm
  <2>5. ~Named(e, "StopIdleTimeout") => idle'.armed /\ ~Named(queues'["egress"], "StopIdleTimeout")
    BY <1>6, <2>1, <2>2 DEF Arm
  <2>6. Watched'
    BY <1>2, <2>1, <2>3, <2>4, <2>5 DEF WatchInv, Watched
  <2>7. WordsAreSpoken'
    BY <1>2, <2>2, EgressWords
  <2> QED BY <2>6, <2>7 DEF WatchInv
<1>8. CASE p.name = "IdleTimeoutExpired"
  <2>1. CASE ending' = TRUE /\ queues' = Rest("egress")
    <3>1. WordsAreSpoken'
      BY <1>2, <1>4, <2>1, EgressWords
    <3> QED BY <2>1, <3>1 DEF WatchInv, Watched
  <2>2. CASE /\ queues' = OnPackets(Rest("egress"), Plain("InjectMessage", turn'.ctx),
                                                     Plain("StartIdleTimeout", turn'.ctx))
             /\ turn' = Transition(turn, "Interrupted")
    <3> DEFINE n == turn'.ctx
               q1 == OnPacket(Rest("egress"), Plain("InjectMessage", n))
    <3>1. n \in Nat /\ turn.ctx \in Nat /\ turn.ctx <= n /\ n \in 0..n
      BY <2>2, TransitionType DEF TypeInv, QueueTypes, MessageStates
    <3>2. Rest("egress") \in QueuesTo(n)
      BY <1>3, <3>1, LaterTypes
    <3>3. queues' = OnPacket(q1, Plain("StartIdleTimeout", n))
      BY <2>2 DEF OnPackets
    <3>4. WordsKeep(Rest("egress"), q1) /\ q1 \in QueuesTo(n)
      <4>1. "InjectMessage" \in Names
        BY DEF Names
      <4> HIDE DEF n
      <4> QED BY <3>1, <3>2, <4>1, PlainSteps DEF Keeps
    <3>5. StartIsLast(queues'["egress"]) /\ WordsKeep(q1, queues')
      <4>1. "StartIdleTimeout" \in Names
        BY DEF Names
      <4> HIDE DEF n, q1
      <4> QED BY <3>1, <3>3, <3>4, <4>1, PlainType, StartJoins
    <3>6. WordsKeep(queues, queues')
      BY <1>4, <3>4, <3>5, WordsKeepBoth
    <3>7. WordsAreSpoken'
      BY <1>2, <3>6, EgressWords
    <3> QED BY <3>5, <3>7 DEF WatchInv, Watched
  <2> QED BY <1>2, <1>8, <2>1, <2>2
<1> QED BY <1>7, <1>8

LEMMA EgressWatch ==
  ASSUME TypeInv, WatchInv, Egress
  PROVE  WatchInv'
<1>1. QueueTypes /\ queues \in QueuesTo(turn.ctx) /\ "egress" \in Routes
  BY DEF TypeInv, QueueTypes, Routes
<1>2. CASE Check
  <2>1. PICK p \in Dispatched("egress") :
          /\ p.name \in Checked /\ hand' = IF IsCurrent(p) THEN p ELSE Nothing
          /\ queues' = Rest("egress")
          /\ UNCHANGED <<turn, transcripts, requests, tools, idle, ending, failed>>
    BY <1>2 DEF Check, userVars, modelVars, idleVars, ghosts
  <2>2. hand.name # "LLMDone"
    <3>1. hand = Nothing
      BY <1>1, Taken
    <3> QED BY <3>1 DEF Nothing, Plain, Packet
  <2>3. CASE p.name = "LLMDone" /\ p.ctx = turn.ctx
    <3>1. WordsKeep(queues, queues')
      BY <1>1, <2>1, <2>3, Taken, RestKeeps
    <3>2. hand'.name = "LLMDone"
      BY <2>1, <2>3 DEF IsCurrent
    <3> QED BY <2>1, <3>1, <3>2, EgressWords DEF WatchInv, Watched, StartComes, Answers
  <2>4. CASE ~(p.name = "LLMDone" /\ p.ctx = turn.ctx)
    <3>1. Keeps(queues, queues', turn.ctx)
      BY <1>1, <2>1, <2>4, TakeSteps DEF Checked
    <3> QED BY <2>1, <2>2, <3>1, Persist
  <2> QED BY <2>3, <2>4
<1>3. CASE HandleError
  <2>1. PICK p \in Dispatched("egress") :
          /\ \/ p.name = "LLMError" /\ queues' = Rest("egress") /\ failed' = TRUE
             \/ /\ p.name = "TTSError" /\ UNCHANGED <<turn, failed>>
                /\ queues' = OnPacket(Rest("egress"), Plain("PolicyPassthrough", p.ctx))
          /\ UNCHANGED <<hand, transcripts, requests, tools, idle, ending>>
    BY <1>3 DEF HandleError, userVars, modelVars, idleVars
  <2>2. CASE p.name = "LLMError" /\ queues' = Rest("egress") /\ failed' = TRUE
    <3>1. WordsKeep(queues, queues')
      BY <1>1, <2>2, Taken, RestKeeps
    <3> QED BY <2>1, <2>2, <3>1, EgressWords DEF WatchInv, Watched
  <2>3. CASE /\ p.name = "TTSError" /\ UNCHANGED <<turn, failed>>
             /\ queues' = OnPacket(Rest("egress"), Plain("PolicyPassthrough", p.ctx))
    <3>1. Keeps(queues, Rest("egress"), turn.ctx)
      BY <1>1, <2>3, TakeSteps
    <3>2. Keeps(Rest("egress"), queues', turn.ctx)
      <4>1. p.ctx \in 0..turn.ctx /\ "PolicyPassthrough" \in Names /\ Rest("egress") \in QueuesTo(turn.ctx)
        BY <1>1, Taken, RestTypes DEF PacketsTo, Names
      <4> QED BY <2>3, <4>1, PlainSteps
    <3>3. Keeps(queues, queues', turn.ctx)
      BY <3>1, <3>2, KeepsBoth
    <3> QED BY <2>1, <2>3, <3>3, Persist
  <2> QED BY <2>1, <2>2, <2>3
<1>4. CASE HandleInjectMessage
  <2>1. PICK p \in Dispatched("egress") :
          /\ p.name = "InjectMessage" /\ turn' = Transition(turn, "LLMGenerated")
          /\ queues' = OnPackets(Rest("egress"), Plain("TTSText", turn.ctx), Plain("TTSDone", turn.ctx))
          /\ UNCHANGED <<hand, transcripts, requests, tools, idle, ending, failed>>
    BY <1>4 DEF HandleInjectMessage, userVars, modelVars, idleVars, ghosts
  <2>2. Keeps(queues, Rest("egress"), turn.ctx) /\ Rest("egress") \in QueuesTo(turn.ctx)
    BY <1>1, <2>1, TakeSteps, Taken, RestTypes
  <2>3. Keeps(Rest("egress"), queues', turn.ctx)
    <3>1. "TTSText" \in Names /\ "TTSDone" \in Names /\ turn.ctx \in 0..turn.ctx
      BY <1>1, TurnCtx DEF Names
    <3> QED BY <2>1, <2>2, <3>1, BothSteps
  <2>4. Keeps(queues, queues', turn.ctx)
    BY <2>2, <2>3, KeepsBoth
  <2>5. turn'.ctx = turn.ctx
    BY <1>1, <2>1, TransitionType DEF QueueTypes, MessageStates
  <2> QED BY <2>1, <2>4, <2>5, Persist
<1>5. CASE HandleLLMToolCall
  <2>1. PICK p \in Dispatched("egress") :
          /\ p.name = "LLMToolCall" /\ tools' = tools \cup {p} /\ transcripts' = transcripts
          /\ queues' \in {Rest("egress"), OnPacket(Rest("egress"), Plain("InjectMessage", p.ctx)),
                          OnPacket(Rest("egress"), Packet("StopIdleTimeout", turn.ctx, "reset"))}
    BY <1>5 DEF HandleLLMToolCall, userVars
  <2>2. WordsKeep(queues, Rest("egress")) /\ Rest("egress") \in QueuesTo(turn.ctx)
    BY <1>1, <2>1, Taken, RestTypes, RestKeeps
  <2>3. WordsKeep(Rest("egress"), queues')
    <3> DEFINE stop == Packet("StopIdleTimeout", turn.ctx, "reset")
               inject == Plain("InjectMessage", p.ctx)
    <3>1. stop \in PacketsTo(turn.ctx) /\ inject \in PacketsTo(turn.ctx)
      <4>1. p.ctx \in 0..turn.ctx /\ {"StopIdleTimeout", "InjectMessage"} \subseteq Names /\ "reset" \in Arguments
        BY <1>1, Taken DEF PacketsTo, Names, Arguments
      <4> QED BY <1>1, <4>1, TurnCtx, PacketType, PlainType
    <3>2. ~IsWord(stop) /\ ~IsWord(inject)
      BY DEF IsWord, Plain, Packet
    <3>3. queues' \in {Rest("egress"), OnPacket(Rest("egress"), inject), OnPacket(Rest("egress"), stop)}
      BY <2>1
    <3> HIDE DEF stop, inject
    <3> QED BY <2>2, <3>1, <3>2, <3>3, JoinKeeps, KeepsItself DEF Keeps
  <2>4. WordsAreSpoken'
    BY <2>1, <2>2, <2>3, WordsKeepBoth, EgressWords
  <2> QED BY <2>1, <2>4 DEF WatchInv, Watched, StartComes, ToolComes
<1> QED BY <1>2, <1>3, <1>4, <1>5, OutputWatch, IdleWatch DEF Egress

\* What joined a queue is found there.
LEMMA JoinedName ==
  ASSUME NEW n, NEW q \in QueuesTo(n), NEW p \in PacketsTo(n)
  PROVE  /\ Named(OnPacket(q, p)[Classify(p.name)], p.name)
         /\ p.name = "LLMDone" => DoneFor(OnPacket(q, p)[Classify(p.name)], p.ctx)
<1> DEFINE route == Classify(p.name)
<1>1. OnPacket(q, p)[route] = Append(q[route], p) /\ q[route] \in Seq(PacketsTo(n))
  BY Joins DEF QueuesTo
<1> HIDE DEF route
<1>2. Named(OnPacket(q, p)[route], p.name) /\ (p.name = "LLMDone" => DoneFor(OnPacket(q, p)[route], p.ctx))
  BY <1>1, AppendNamed
<1> QED BY <1>2 DEF route

\* The model answers, fails or calls a tool in the turn of its request.
LEMMA ModelWatch ==
  ASSUME TypeInv, WatchInv, Model
  PROVE  WatchInv'
<1>1. queues \in QueuesTo(turn.ctx) /\ requests \subseteq RequestsTo(turn.ctx)
  BY DEF TypeInv, QueueTypes, WorkTypes
<1>2. UNCHANGED <<turn, hand, transcripts, tools, idle, ending, failed>>
  BY DEF Model, Answer, Cancel, Fail, CallTool, userVars, idleVars, ghosts
<1>3. CASE Cancel
  <2>1. PICK r \in requests : r.ctx < turn.ctx /\ requests' = requests \ {r} /\ queues' = queues
    BY <1>3 DEF Cancel, Ended
  <2>2. Keeps(queues, queues', turn.ctx)
    BY <2>1, KeepsItself
  <2>3. (\E s \in requests : s.ctx = turn.ctx) => \E s \in requests' : s.ctx = turn.ctx
    BY <1>1, <2>1 DEF RequestsTo, TypeInv, QueueTypes
  <2> QED BY <1>2, <2>2, <2>3, Persist
<1>4. CASE CallTool
  <2>1. PICK r \in requests, arg \in {"", "message", "action"} :
          /\ requests' = (requests \ {r}) \cup {[r EXCEPT !.stage = "tool"]}
          /\ queues' = OnPacket(queues, Packet("LLMToolCall", r.ctx, arg))
    BY <1>4 DEF CallTool, Advance
  <2>2. r.ctx \in 0..turn.ctx /\ [r EXCEPT !.stage = "tool"].ctx = r.ctx
    BY <1>1 DEF RequestsTo
  <2>3. Keeps(queues, queues', turn.ctx)
    <3>1. "LLMToolCall" \in Names /\ arg \in Arguments
      BY DEF Names, Arguments
    <3> QED BY <1>1, <2>1, <2>2, <3>1, JoinSteps
  <2>4. (\E s \in requests : s.ctx = turn.ctx) => \E s \in requests' : s.ctx = turn.ctx
    BY <2>1, <2>2
  <2> QED BY <1>2, <2>3, <2>4, Persist
<1>5. CASE Answer
  <2>1. PICK r \in requests :
          /\ requests' = requests \ {r}
          /\ queues' = OnPackets(queues, Plain("LLMDelta", r.ctx), Plain("LLMDone", r.ctx))
    BY <1>5 DEF Answer
  <2>2. r.ctx \in 0..turn.ctx /\ "LLMDelta" \in Names /\ "LLMDone" \in Names
    BY <1>1 DEF RequestsTo, Names
  <2>3. Keeps(queues, queues', turn.ctx)
    BY <1>1, <2>1, <2>2, BothSteps
  <2>4. CASE r.ctx = turn.ctx
    <3> DEFINE q1 == OnPacket(queues, Plain("LLMDelta", r.ctx))
               done == Plain("LLMDone", r.ctx)
    <3>1. q1 \in QueuesTo(turn.ctx) /\ done \in PacketsTo(turn.ctx)
      BY <1>1, <2>2, SentType, PlainType
    <3>2. done.name = "LLMDone" /\ done.ctx = turn.ctx
      BY <2>4 DEF Plain, Packet
    <3>3. queues' = OnPacket(q1, done)
      BY <2>1 DEF OnPackets
    <3> HIDE DEF q1, done
    <3>4. DoneFor(queues'["egress"], turn.ctx)
      BY <3>1, <3>2, <3>3, JoinedName DEF Classify, Inputs, Controls
    <3>5. WordsAreSpoken'
      BY <1>2, <2>3, EgressWords DEF Keeps
    <3> QED BY <1>2, <3>4, <3>5 DEF WatchInv, Watched, StartComes, Answers
  <2>5. CASE r.ctx # turn.ctx
    <3>1. (\E s \in requests : s.ctx = turn.ctx) => \E s \in requests' : s.ctx = turn.ctx
      BY <2>1, <2>5
    <3> QED BY <1>2, <2>3, <3>1, Persist
  <2> QED BY <2>4, <2>5
<1>6. CASE Fail
  <2>1. PICK r \in requests : queues' = OnPacket(queues, Plain("LLMError", r.ctx))
    BY <1>6 DEF Fail
  <2> DEFINE error == Plain("LLMError", r.ctx)
  <2>2. error \in PacketsTo(turn.ctx) /\ error.name = "LLMError" /\ ~IsWord(error)
    <3>1. r.ctx \in 0..turn.ctx /\ "LLMError" \in Names
      BY <1>1 DEF RequestsTo, Names
    <3>2. error.name = "LLMError" /\ ~IsWord(error)
      BY DEF Plain, Packet, IsWord
    <3> QED BY <3>1, <3>2, PlainType
  <2>3. queues' = OnPacket(queues, error)
    BY <2>1
  <2> HIDE DEF error
  <2>4. Named(queues'["egress"], "LLMError") /\ WordsKeep(queues, queues')
    BY <1>1, <2>2, <2>3, JoinedName, JoinKeeps DEF Classify, Inputs, Controls
  <2> QED BY <1>2, <2>4, EgressWords DEF WatchInv, Watched, StartComes, Answers
<1> QED BY <1>3, <1>4, <1>5, <1>6 DEF Model

\* The goroutines, timers, the user, the model and the provider. Only the silence
\* after an utterance takes words away, and, when it comes after the words
\* interrupted, it leaves none that still do.
LEMMA OtherWatch ==
  ASSUME TypeInv, WatchInv, PromptControl,
         \/ Silencing \/ IdleExpires \/ CompletionExpires \/ Recognize \/ UtteranceEnds
         \/ Model \/ ToolReturns \/ Plays \/ User
  PROVE  WatchInv'
<1>1. /\ QueueTypes /\ queues \in QueuesTo(turn.ctx)
      /\ {0, turn.ctx, idle.ctx, completion.ctx, voice} \subseteq 0..turn.ctx
  BY TurnCtx DEF TypeInv, QueueTypes, TimerTypes, TimersTo, WorkTypes
<1>2. turn' = turn /\ hand' = hand /\ ending' = ending /\ failed' = failed
  BY DEF Silencing, IdleExpires, CompletionExpires, Recognize, UtteranceEnds, ToolReturns, Plays,
         Model, Answer, Cancel, Fail, CallTool, User, Types, Talks, VoiceActivity, ConnectionLost,
         idleVars, ghosts
<1>3. CASE Silencing \/ ConnectionLost
  <2>1. UNCHANGED <<queues, transcripts, requests, tools, idle>>
    BY <1>3 DEF Silencing, ConnectionLost, userVars, modelVars, idleVars
  <2>2. Keeps(queues, queues', turn.ctx)
    BY <2>1, KeepsItself
  <2> QED BY <1>2, <2>1, <2>2, Persist
<1>4. CASE CompletionExpires \/ Plays \/ Types \/ Talks \/ VoiceActivity
  <2>1. UNCHANGED <<transcripts, requests, tools, idle>>
    BY <1>4 DEF CompletionExpires, Plays, Types, Talks, VoiceActivity, userVars, modelVars, idleVars
  <2>2. Keeps(queues, queues', turn.ctx)
    <3>1. /\ {"TTSEnd", "UserText", "UserAudio", "InterruptionDetected"} \subseteq Names
          /\ "vad" \in Arguments
      BY DEF Names, Arguments
    <3>2. CASE CompletionExpires \/ Plays \/ Types \/ Talks
      BY <1>1, <3>1, <3>2, PlainSteps DEF CompletionExpires, Plays, Types, Talks
    <3>3. CASE VoiceActivity
      BY <1>1, <3>1, <3>3, JoinSteps DEF VoiceActivity
    <3> QED BY <1>4, <3>2, <3>3
  <2> QED BY <1>2, <2>1, <2>2, Persist
<1>5. CASE IdleExpires
  <2> DEFINE expired == Plain("IdleTimeoutExpired", idle.ctx)
  <2>1. queues' = OnPacket(queues, expired) /\ transcripts' = transcripts
    BY <1>5 DEF IdleExpires, userVars
  <2>2. expired \in PacketsTo(turn.ctx) /\ expired.name = "IdleTimeoutExpired" /\ ~IsWord(expired)
    <3>1. "IdleTimeoutExpired" \in Names
      BY DEF Names
    <3>2. expired.name = "IdleTimeoutExpired" /\ ~IsWord(expired)
      BY DEF Plain, Packet, IsWord
    <3> QED BY <1>1, <3>1, <3>2, PlainType
  <2> HIDE DEF expired
  <2>3. Named(queues'["egress"], "IdleTimeoutExpired") /\ WordsKeep(queues, queues')
    BY <1>1, <2>1, <2>2, JoinedName, JoinKeeps DEF Classify, Inputs, Controls
  <2> QED BY <2>1, <2>3, EgressWords DEF WatchInv, Watched, StartComes
<1>6. CASE Recognize
  <2>1. PICK stt \in 1..turn.ctx :
          /\ transcripts' = transcripts
          /\ queues' = OnPacket(OnPacket(queues, Packet("InterruptionDetected", stt, "word")),
                                Plain("SpeechToText", stt))
    BY <1>6 DEF Recognize, OnPackets
  <2> DEFINE word == Packet("InterruptionDetected", stt, "word")
             text == Plain("SpeechToText", stt)
             q1 == OnPacket(queues, word)
  <2>2. word \in PacketsTo(turn.ctx) /\ text \in PacketsTo(turn.ctx) /\ text.name = "SpeechToText"
    <3>1. /\ {"InterruptionDetected", "SpeechToText"} \subseteq Names /\ "word" \in Arguments
          /\ stt \in 0..turn.ctx
      BY <1>1, TurnCtx DEF Names, Arguments
    <3>2. text.name = "SpeechToText"
      BY DEF Plain, Packet
    <3> QED BY <3>1, <3>2, PacketType, PlainType
  <2> HIDE DEF word, text
  <2>3. q1 \in QueuesTo(turn.ctx)
    BY <1>1, <2>2, Joins
  <2>4. queues' = OnPacket(q1, text)
    BY <2>1 DEF word, text
  <2> HIDE DEF q1
  <2>5. Named(queues'["ingress"], "SpeechToText")
    BY <2>2, <2>3, <2>4, JoinedName DEF Classify, Inputs
  <2>6. Speaks'
    BY <2>5 DEF Speaks
  <2> QED BY <2>6 DEF WatchInv, Watched, StartComes, InputComes, WordsAreSpoken
<1>7. CASE UtteranceEnds
  <2> DEFINE input == Plain("UserInput", turn.ctx)
  <2>1. /\ queues' = OnPacket(queues, input)
        /\ \A i \in DOMAIN queues["control"] : queues["control"][i].name # "InterruptionDetected"
    BY <1>7 DEF UtteranceEnds
  <2>2. input \in PacketsTo(turn.ctx) /\ input.name = "UserInput" /\ ~IsWord(input)
    <3>1. "UserInput" \in Names
      BY DEF Names
    <3>2. input.name = "UserInput" /\ ~IsWord(input)
      BY DEF Plain, Packet, IsWord
    <3> QED BY <1>1, <3>1, <3>2, PlainType
  <2> HIDE DEF input
  <2>3. Named(queues'["ingress"], "UserInput") /\ ControlKeeps(queues["control"], queues'["control"])
    BY <1>1, <2>1, <2>2, JoinedName, JoinKeeps DEF Classify, Inputs, WordsKeep
  <2>4. WordsAreSpoken'
    BY <2>1, <2>3 DEF WordsAreSpoken, ControlKeeps, IsWord
  <2> QED BY <2>3, <2>4 DEF WatchInv, Watched, StartComes, InputComes
<1>8. CASE Model
  BY <1>8, ModelWatch
<1>9. CASE ToolReturns
  <2>1. PICK call \in tools, arg \in {"", "end"} :
          queues' = OnPacket(queues, Packet("LLMToolResult", call.ctx, arg)) /\ transcripts' = transcripts
    BY <1>9 DEF ToolReturns, userVars
  <2> DEFINE result == Packet("LLMToolResult", call.ctx, arg)
  <2>2. result \in PacketsTo(turn.ctx) /\ result.name = "LLMToolResult" /\ ~IsWord(result)
    <3>1. "LLMToolResult" \in Names /\ call.ctx \in 0..turn.ctx /\ arg \in Arguments
      BY DEF Names, Arguments, TypeInv, WorkTypes, PacketsTo
    <3>2. result.name = "LLMToolResult" /\ ~IsWord(result)
      BY DEF Packet, IsWord
    <3> QED BY <3>1, <3>2, PacketType
  <2>3. queues' = OnPacket(queues, result)
    BY <2>1
  <2> HIDE DEF result
  <2>4. Named(queues'["ingress"], "LLMToolResult") /\ WordsKeep(queues, queues')
    BY <1>1, <2>2, <2>3, JoinedName, JoinKeeps DEF Classify, Inputs
  <2> QED BY <2>1, <2>4, EgressWords DEF WatchInv, Watched, StartComes, ToolComes
<1> QED BY <1>3, <1>4, <1>5, <1>6, <1>7, <1>8, <1>9 DEF User

LEMMA WatchKept ==
  ASSUME TypeInv, WatchInv, PromptControl, [Next]_vars
  PROVE  WatchInv'
<1>1. CASE UNCHANGED vars
  BY <1>1 DEF vars, userVars, modelVars, idleVars, ghosts, WatchInv, Watched, WordsAreSpoken, Speaks,
              StartComes, InputComes, Answers, ToolComes
<1> QED BY <1>1, ControlWatch, IngressWatch, EgressWatch, OtherWatch DEF Next

LEMMA InitWatch ==
  ASSUME Init
  PROVE  WatchInv
<1>1. turn.ctx = 1 /\ turn.ctx \in Nat
  BY DEF Init, NewMessage
<1>2. PICK opening \in {Greeting(1), OnPacket(NoPackets, Plain("UserText", 0)),
                        OnPacket(NoPackets, Plain("UserAudio", 0))} :
        queues = OnPacket(opening, Plain("StartIdleTimeout", 1))
  BY <1>1 DEF Init
<1>3. NoPackets \in QueuesTo(1) /\ DOMAIN NoPackets["control"] = {}
  BY DEF NoPackets, QueuesTo, Routes
<1>4. opening \in QueuesTo(1) /\ Keeps(NoPackets, opening, 1)
  <2>1. {"PolicyIgnore", "InjectMessage", "UserText", "UserAudio"} \subseteq Names
    BY DEF Names
  <2>2. CASE opening = Greeting(1)
    BY <1>3, <2>1, <2>2, SentBothType, BothSteps DEF Greeting
  <2>3. CASE opening # Greeting(1)
    BY <1>2, <1>3, <2>1, <2>3, PlainSteps
  <2> QED BY <2>2, <2>3
<1>5. StartIsLast(queues["egress"]) /\ WordsKeep(opening, queues)
  <2>1. "StartIdleTimeout" \in Names
    BY DEF Names
  <2> QED BY <1>2, <1>4, <2>1, PlainType, StartJoins
<1>6. \A i \in DOMAIN queues["control"] : ~IsWord(queues["control"][i])
  BY <1>3, <1>4, <1>5 DEF Keeps, WordsKeep, ControlKeeps
<1> QED BY <1>5, <1>6 DEF WatchInv, Watched, WordsAreSpoken

LEMMA RestIsQuiet ==
  ASSUME TypeInv, WatchInv, Quiet
  PROVE  idle.armed \/ ending \/ failed
<1>1. \A route \in Routes : DOMAIN queues[route] = {}
  BY DEF Quiet, NoPackets
<1>2. \A route \in Routes : \A name : ~Named(queues[route], name)
  BY <1>1 DEF Named
<1>3. ~StartIsLast(queues["egress"]) /\ ~DoneFor(queues["egress"], turn.ctx)
  BY <1>1 DEF StartIsLast, DoneFor, Routes
<1>4. hand.name # "LLMDone"
  BY DEF Quiet, Nothing, Plain, Packet
<1>5. ~StartComes
  BY <1>2, <1>3, <1>4 DEF Quiet, StartComes, InputComes, Speaks, Answers, ToolComes, Routes
<1> QED BY <1>3, <1>5 DEF WatchInv, Watched

\* However long the conversation and whatever was interrupted, failed to be
\* recognized or called a tool: when all is done the idle watchdog is armed, or
\* the client was told to leave, or an answer failed. That the words of an
\* utterance interrupt before the silence after them is over is needed for it.
THEOREM RestWatched == PromptControl => (Spec => []RestIsWatched)
<1> SUFFICES ASSUME PromptControl PROVE Spec => []RestIsWatched
  OBVIOUS
<1>1. Init => TypeInv /\ WatchInv
  BY InitTypes, InitWatch
<1>2. TypeInv /\ WatchInv /\ [Next]_vars => TypeInv' /\ WatchInv'
  BY TypesKept, WatchKept
<1>3. TypeInv /\ WatchInv => RestIsWatched
  BY RestIsQuiet DEF RestIsWatched
<1> QED BY <1>1, <1>2, <1>3, PTL DEF Spec
=============================================================================
