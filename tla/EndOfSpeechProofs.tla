------------------------- MODULE EndOfSpeechProofs -------------------------
(***************************************************************************)
(* Proofs about EndOfSpeech: for a queue of any capacity and any number of *)
(* transcripts and interruptions, transcripts are reported exactly once    *)
(* unless the worker takes a stale copy or wipes a transcript.             *)
(***************************************************************************)
EXTENDS EndOfSpeech, SequenceTheorems, TLAPS

-----------------------------------------------------------------------------
(* Types *)

\* Appending to a queue adds one element to those it holds.
LEMMA AppendElements ==
  ASSUME NEW S, NEW s \in Seq(S), NEW e \in S
  PROVE  /\ Append(s, e) \in Seq(S) /\ Len(Append(s, e)) = Len(s) + 1
         /\ {Append(s, e)[i] : i \in DOMAIN Append(s, e)}
              = {s[i] : i \in DOMAIN s} \cup {e}
<1> DEFINE t == Append(s, e)
<1>1. t \in Seq(S) /\ Len(t) = Len(s) + 1 /\ Len(s) \in Nat
  OBVIOUS
<1>2. DOMAIN s = 1..Len(s) /\ DOMAIN t = 1..(Len(s) + 1)
  OBVIOUS
<1>3. \A i \in 1..Len(s) : t[i] = s[i]
  OBVIOUS
<1>4. t[Len(s) + 1] = e
  OBVIOUS
<1>5. 1..(Len(s) + 1) = (1..Len(s)) \cup {Len(s) + 1}
  BY <1>1
<1>6. {t[i] : i \in DOMAIN t} = {s[i] : i \in DOMAIN s} \cup {e}
  <2> HIDE DEF t
  <2> QED BY <1>2, <1>3, <1>4, <1>5
<1> QED BY <1>1, <1>6

\* Taking the head leaves the others.
LEMMA TailElements ==
  ASSUME NEW S, NEW s \in Seq(S), s # <<>>
  PROVE  /\ Head(s) \in S /\ Tail(s) \in Seq(S) /\ Len(Tail(s)) = Len(s) - 1
         /\ {s[i] : i \in DOMAIN s} = {Tail(s)[i] : i \in DOMAIN Tail(s)} \cup {Head(s)}
<1> DEFINE t == Tail(s)
           h == Head(s)
<1>1. h \in S /\ t \in Seq(S) /\ Len(t) = Len(s) - 1 /\ Len(s) \in Nat \ {0}
  OBVIOUS
<1>2. DOMAIN s = 1..Len(s) /\ DOMAIN t = 1..(Len(s) - 1)
  OBVIOUS
<1>3. \A i \in 1..(Len(s) - 1) : t[i] = s[i + 1]
  OBVIOUS
<1>4. h = s[1]
  OBVIOUS
<1>5. {s[i] : i \in DOMAIN s} = {t[i] : i \in DOMAIN t} \cup {h}
  <2> HIDE DEF t, h
  <2>1. ASSUME NEW i \in 1..Len(s) PROVE s[i] \in {t[j] : j \in DOMAIN t} \cup {h}
    <3>1. CASE i = 1
      BY <3>1, <1>4
    <3>2. CASE i # 1
      <4>1. i - 1 \in 1..(Len(s) - 1) /\ s[i] = t[i - 1]
        BY <3>2, <2>1, <1>1, <1>3
      <4> QED BY <4>1, <1>2
    <3> QED BY <3>1, <3>2
  <2>2. ASSUME NEW i \in 1..(Len(s) - 1) PROVE t[i] \in {s[j] : j \in DOMAIN s}
    <3>1. i + 1 \in 1..Len(s)
      BY <2>2, <1>1
    <3> QED BY <3>1, <1>2, <1>3
  <2>3. h \in {s[j] : j \in DOMAIN s}
    BY <1>1, <1>2, <1>4
  <2> QED BY <2>1, <2>2, <2>3, <1>2
<1> QED BY <1>1, <1>5

\* The grown segment is a span that ends with the new transcript.
LEMMA ExtendedType ==
  ASSUME TypeOK, said < MaxSaid
  PROVE  /\ Extended \in Spans /\ Extended # Empty
         /\ Extended.upto = said + 1
         /\ Extended.from = IF segment = Empty THEN said + 1 ELSE segment.from
BY EndOfSpeechAssumption DEF EndOfSpeechAssumption, TypeOK, Extended, Spans, Empty

\* enqueueCommand keeps the queue within its capacity.
LEMMA EnqueueType ==
  ASSUME TypeOK, NEW c \in Spans, Enqueue(c)
  PROVE  commands' \in Seq(Spans) /\ Len(commands') <= QueueCap
<1>1. CASE Len(commands) < QueueCap /\ commands' = Append(commands, c)
  BY <1>1, AppendElements, EndOfSpeechAssumption DEF TypeOK, EndOfSpeechAssumption
<1>2. CASE UNCHANGED commands
  BY <1>2 DEF TypeOK
<1> QED BY <1>1, <1>2 DEF Enqueue

LEMMA TypeInit == Init => TypeOK
<1> SUFFICES ASSUME Init PROVE TypeOK
  OBVIOUS
<1>1. commands \in Seq(Spans) /\ Len(commands) <= QueueCap
  BY EmptySeq, EndOfSpeechAssumption DEF EndOfSpeechAssumption, Init
<1>2. segment \in Spans /\ current \in Spans /\ ingress \in Spans
  BY EndOfSpeechAssumption DEF EndOfSpeechAssumption, Init, Spans, Empty
<1>3. said \in 0..MaxSaid /\ prolonged \in 0..MaxProlong /\ told \in 0..MaxSaid
  BY EndOfSpeechAssumption DEF EndOfSpeechAssumption, Init
<1>4. /\ fired \in BOOLEAN /\ timer \in BOOLEAN /\ stopped \in BOOLEAN
      /\ doubled \in BOOLEAN /\ skipped \in BOOLEAN
      /\ open \in BOOLEAN /\ slipped \in BOOLEAN
  BY DEF Init
<1>5. /\ goroutines \subseteq [id : 0..MaxProlong, copy : Spans]
      /\ worker \in {"select", "emit", "reset", "stopped"}
  BY DEF Init
<1> QED BY <1>1, <1>2, <1>3, <1>4, <1>5 DEF TypeOK

LEMMA TypeNext == TypeOK /\ [Next]_vars => TypeOK'
<1> SUFFICES ASSUME TypeOK, [Next]_vars PROVE TypeOK'
  OBVIOUS
<1> USE EndOfSpeechAssumption
<1>0. Empty \in Spans
  BY DEF Spans, Empty, EndOfSpeechAssumption
<1>1. CASE Transcript
  BY <1>1, ExtendedType DEF Transcript, TypeOK, EndOfSpeechAssumption
<1>2. CASE Prolong
  BY <1>2 DEF Prolong, TypeOK, historyVars, EndOfSpeechAssumption
<1>3. CASE Interrupted
  BY <1>3 DEF Interrupted, TypeOK, historyVars, EndOfSpeechAssumption
<1>4. CASE IngressPuts
  <2>1. commands' \in Seq(Spans) /\ Len(commands') <= QueueCap
    BY <1>4, EnqueueType DEF IngressPuts, TypeOK
  <2> QED BY <1>4, <2>1, <1>0 DEF IngressPuts, TypeOK, inputVars, historyVars
<1>5. CASE GoroutinePuts
  <2>1. PICK g \in goroutines : Enqueue(g.copy) /\ goroutines' = goroutines \ {g}
    BY <1>5 DEF GoroutinePuts
  <2>2. commands' \in Seq(Spans) /\ Len(commands') <= QueueCap
    BY <2>1, EnqueueType DEF TypeOK
  <2> QED BY <1>5, <2>1, <2>2 DEF GoroutinePuts, TypeOK, inputVars, historyVars
<1>6. CASE Take
  <2>1. /\ Head(commands) \in Spans /\ Tail(commands) \in Seq(Spans)
        /\ Len(Tail(commands)) <= QueueCap
    BY <1>6, TailElements DEF Take, TypeOK, EndOfSpeechAssumption
  <2>2. slipped' \in BOOLEAN /\ timer' \in BOOLEAN
    BY <1>6 DEF Take
  <2>3. current' \in Spans
    BY <1>6, <2>1 DEF Take, TypeOK
  <2> QED BY <1>6, <2>1, <2>2, <2>3 DEF Take, TypeOK, inputVars
<1>7. CASE Fire
  BY <1>7 DEF Fire, TypeOK, inputVars
<1>8. CASE Emit
  <2>1. told' \in 0..MaxSaid
    BY <1>8 DEF Emit, TypeOK, Spans
  <2>2. doubled' \in BOOLEAN /\ skipped' \in BOOLEAN
    BY <1>8 DEF Emit
  <2> QED BY <1>8, <2>1, <2>2 DEF Emit, TypeOK, inputVars
<1>9. CASE Reset
  <2>1. slipped' \in BOOLEAN
    BY <1>9 DEF Reset
  <2> QED BY <1>9, <2>1, <1>0 DEF Reset, TypeOK, inputVars
<1>10. CASE Stop
  BY <1>10 DEF Stop, TypeOK, inputVars, historyVars
<1>11. CASE Close
  BY <1>11 DEF Close, TypeOK, inputVars, historyVars
<1>12. CASE UNCHANGED vars
  BY <1>12 DEF vars, TypeOK, inputVars, historyVars
<1> QED BY <1>1, <1>2, <1>3, <1>4, <1>5, <1>6, <1>7, <1>8, <1>9, <1>10, <1>11, <1>12
        DEF Next, Input, Puts, Worker

\* Every variable keeps its type, and commandCh never holds more than its
\* capacity, however many goroutines queue commands.
THEOREM TypeCorrect == Spec => []TypeOK
BY TypeInit, TypeNext, PTL DEF Spec

-----------------------------------------------------------------------------
(* Exactly once *)

\* The timer runs only while the worker waits, and fired marks the report.
Phases ==
  /\ timer => worker = "select"
  /\ fired <=> worker \in {"emit", "reset"}

\* The segment holds the transcripts that have not been reported; between
\* report and reset it starts where the copy just reported does.
Collected ==
  /\ worker # "reset" =>
       \/ segment = Empty /\ told = said
       \/ segment # Empty /\ segment.from = told + 1 /\ segment.upto = said /\ told < said
  /\ worker = "reset" =>
       /\ segment # Empty /\ segment.from = current.from /\ segment.upto = said
       /\ told = current.upto /\ told <= said

\* The copy waited on, or being reported, starts after what was reported last.
Waiting ==
  timer \/ worker = "emit" =>
    segment # Empty /\ current.from = told + 1 /\ told < current.upto /\ current.upto <= said

\* A copy on its way has been reported, or is of the segment there is.
Spent(c) == c.upto <= told
Recent(c) == segment # Empty /\ c.from = segment.from /\ c.upto <= said
Underway == \A c \in Copies : Spent(c) \/ Recent(c)

\* A segment the worker is not reporting is waited on, or its copy is on its way.
Newest ==
  worker = "select" /\ segment # Empty /\ ~stopped =>
    \/ timer /\ current.upto = said
    \/ \E c \in Copies : c.upto = said

Once == Collected /\ Waiting /\ Underway /\ Newest /\ ~doubled /\ ~skipped

\* The inductive invariant: ExactlyOnce says nothing of the steps before a report.
IInv == TypeOK /\ Phases /\ (~slipped => Once)

\* Numbers and spans the steps compare.
LEMMA Numbers ==
  ASSUME TypeOK
  PROVE  /\ said \in Nat /\ told \in Nat
         /\ current.from \in Nat /\ current.upto \in Nat
         /\ segment.from \in Nat /\ segment.upto \in Nat
         /\ \A c \in Copies : c \in Spans /\ c.from \in Nat /\ c.upto \in Nat
<1>1. \A c \in Spans : c.from \in Nat /\ c.upto \in Nat
  BY DEF Spans
<1>2. \A c \in Copies : c \in Spans
  <2>1. \A i \in DOMAIN commands : commands[i] \in Spans
    BY DEF TypeOK
  <2>2. \A g \in goroutines : g.copy \in Spans
    BY DEF TypeOK
  <2>3. ingress \in Spans
    BY DEF TypeOK
  <2> QED BY <2>1, <2>2, <2>3 DEF Copies
<1> QED BY <1>1, <1>2 DEF TypeOK

\* A transcript, or a prolongation, adds a copy of the segment to those on
\* their way.
LEMMA InputCopies ==
  ASSUME TypeOK
  PROVE  /\ Transcript => Copies' = Copies \cup {segment'}
         /\ Prolong => Copies' = Copies \cup {segment}
         /\ Interrupted => Copies' = Copies \cup {segment}
<1>1. ASSUME Transcript PROVE Copies' = Copies \cup {segment'}
  <2>1. segment' = Extended /\ ingress' = Extended /\ Extended # Empty
    BY <1>1, ExtendedType DEF Transcript
  <2>2. ingress = Empty /\ UNCHANGED <<commands, goroutines>>
    BY <1>1 DEF Transcript
  <2> QED BY <2>1, <2>2 DEF Copies
<1>2. ASSUME Prolong PROVE Copies' = Copies \cup {segment}
  BY <1>2 DEF Prolong, Copies
<1>3. ASSUME Interrupted PROVE Copies' = Copies \cup {segment}
  <2> DEFINE new == [id |-> prolonged, copy |-> segment]
  <2>1. goroutines' = goroutines \cup {new} /\ new.copy = segment
    BY <1>3 DEF Interrupted
  <2>2. {g.copy : g \in goroutines'} = {g.copy : g \in goroutines} \cup {segment}
    <3> HIDE DEF new
    <3> QED BY <2>1
  <2>3. UNCHANGED <<commands, ingress>>
    BY <1>3 DEF Interrupted
  <2> QED BY <2>2, <2>3 DEF Copies
<1> QED BY <1>1, <1>2, <1>3

\* Queueing moves a copy, and loses one only when the detector is closed.
LEMMA PutCopies ==
  ASSUME TypeOK, Puts
  PROVE  Copies' \subseteq Copies /\ (~stopped => Copies' = Copies)
<1> DEFINE Queued == {commands[i] : i \in DOMAIN commands}
           Held == {g.copy : g \in goroutines}
<1>1. ASSUME NEW c \in Spans, Enqueue(c)
      PROVE  /\ Queued' \subseteq Queued \cup {c}
             /\ ~stopped => Queued' = Queued \cup {c}
  <2>1. CASE commands' = Append(commands, c)
    BY <2>1, AppendElements DEF TypeOK
  <2>2. CASE stopped /\ UNCHANGED commands
    BY <2>2
  <2> QED BY <1>1, <2>1, <2>2 DEF Enqueue
<1>2. CASE IngressPuts
  <2>1. /\ Queued' \subseteq Queued \cup {ingress}
        /\ ~stopped => Queued' = Queued \cup {ingress}
    BY <1>1, <1>2 DEF IngressPuts, TypeOK
  <2>2. ingress # Empty /\ ingress' = Empty /\ Held' = Held
    BY <1>2 DEF IngressPuts
  <2>3. Copies = Queued \cup Held \cup {ingress} /\ Copies' = Queued' \cup Held'
    BY <2>2 DEF Copies
  <2> HIDE DEF Queued, Held
  <2> QED BY <2>1, <2>2, <2>3
<1>3. CASE GoroutinePuts
  <2>1. PICK g \in goroutines : Enqueue(g.copy) /\ goroutines' = goroutines \ {g}
    BY <1>3 DEF GoroutinePuts
  <2>2. /\ Queued' \subseteq Queued \cup {g.copy}
        /\ ~stopped => Queued' = Queued \cup {g.copy}
    BY <1>1, <2>1 DEF TypeOK
  <2>3. Held = Held' \cup {g.copy} /\ ingress' = ingress
    BY <1>3, <2>1 DEF GoroutinePuts
  <2>4. /\ Copies = Queued \cup Held \cup ({ingress} \ {Empty})
        /\ Copies' = Queued' \cup Held' \cup ({ingress} \ {Empty})
    BY <2>3 DEF Copies, Empty
  <2> HIDE DEF Queued, Held
  <2> QED BY <2>2, <2>3, <2>4
<1> QED BY <1>2, <1>3 DEF Puts

\* The worker takes the copy at the head of the queue.
LEMMA TakeCopies ==
  ASSUME TypeOK, Take
  PROVE  Copies = Copies' \cup {Head(commands)}
<1> DEFINE Queued == {commands[i] : i \in DOMAIN commands}
<1>1. Queued = Queued' \cup {Head(commands)}
  BY TailElements DEF Take, TypeOK
<1>2. UNCHANGED <<goroutines, ingress>>
  BY DEF Take
<1>3. /\ Copies = Queued \cup {g.copy : g \in goroutines} \cup ({ingress} \ {Empty})
      /\ Copies' = Queued' \cup {g.copy : g \in goroutines} \cup ({ingress} \ {Empty})
  BY <1>2 DEF Copies, Empty
<1> HIDE DEF Queued
<1> QED BY <1>1, <1>3

LEMMA InvInit == Init => IInv
<1> SUFFICES ASSUME Init PROVE IInv
  OBVIOUS
<1>1. TypeOK
  BY TypeInit
<1>2. Copies = {}
  BY DEF Init, Copies
<1>3. Phases
  BY DEF Init, Phases
<1>4. Collected /\ Waiting /\ ~doubled /\ ~skipped
  BY DEF Init, Collected, Waiting
<1>5. Underway /\ Newest
  BY <1>2 DEF Init, Underway, Newest
<1> QED BY <1>1, <1>3, <1>4, <1>5 DEF IInv, Once

LEMMA PhasesNext ==
  ASSUME TypeOK, Phases, [Next]_vars
  PROVE  Phases'
<1>1. CASE Input
  BY <1>1 DEF Input, Transcript, Prolong, Interrupted, Phases
<1>2. CASE Puts
  BY <1>2 DEF Puts, IngressPuts, GoroutinePuts, Phases
<1>3. CASE Take
  BY <1>3 DEF Take, Phases
<1>4. CASE Fire \/ Emit \/ Reset \/ Stop
  BY <1>4 DEF Fire, Emit, Reset, Stop, Phases
<1>5. CASE Close \/ UNCHANGED vars
  BY <1>5 DEF Close, vars, Phases
<1> QED BY <1>1, <1>2, <1>3, <1>4, <1>5 DEF Next, Worker

\* Once slipped, always slipped.
LEMMA SlippedStays ==
  ASSUME TypeOK, [Next]_vars, ~slipped'
  PROVE  ~slipped
<1>1. CASE Input \/ Puts
  BY <1>1 DEF Input, Puts, Transcript, Prolong, Interrupted, IngressPuts, GoroutinePuts,
       historyVars
<1>2. CASE Worker
  BY <1>2 DEF Worker, Take, Fire, Emit, Reset, Stop, historyVars
<1>3. CASE Close \/ UNCHANGED vars
  BY <1>3 DEF Close, vars, historyVars
<1> QED BY <1>1, <1>2, <1>3 DEF Next

\* A transcript extends the segment: copies of it stay recent, and the new one
\* is the newest.
LEMMA OnceTranscript ==
  ASSUME TypeOK, Phases, Once, Transcript
  PROVE  Once'
<1> USE Numbers
<1>1. /\ segment' # Empty /\ segment'.upto = said + 1 /\ said' = said + 1
      /\ segment'.from = IF segment = Empty THEN said + 1 ELSE segment.from
  BY ExtendedType DEF Transcript
<1>2. UNCHANGED <<fired, timer, current, worker, stopped, told, doubled, skipped>>
  BY DEF Transcript
<1>3. Copies' = Copies \cup {segment'}
  BY InputCopies
<1>4. Collected'
  BY <1>1, <1>2 DEF Once, Collected
<1>5. Waiting'
  BY <1>1, <1>2 DEF Once, Waiting
<1>6. Underway'
  <2>1. ASSUME NEW c \in Copies PROVE Spent(c)' \/ Recent(c)'
    BY <1>1, <1>2, <2>1 DEF Once, Underway, Spent, Recent
  <2>2. Recent(segment)'
    BY <1>1 DEF Recent
  <2> QED BY <1>3, <2>1, <2>2 DEF Underway, Spent, Recent
<1>7. Newest'
  BY <1>1, <1>3 DEF Newest
<1> QED BY <1>2, <1>4, <1>5, <1>6, <1>7 DEF Once

\* A prolongation sends one more copy of the segment.
LEMMA OnceProlong ==
  ASSUME TypeOK, Phases, Once, Prolong \/ Interrupted
  PROVE  Once'
<1> USE Numbers
<1>1. UNCHANGED <<segment, fired, timer, current, worker, stopped, said, told, doubled, skipped>>
  BY DEF Prolong, Interrupted, historyVars
<1>2. Copies' = Copies \cup {segment} /\ segment # Empty
  BY InputCopies DEF Prolong, Interrupted
<1>3. Collected' /\ Waiting'
  BY <1>1 DEF Once, Collected, Waiting
<1>4. Recent(segment)
  BY <1>2 DEF Recent, Once, Collected
<1>5. Underway'
  BY <1>1, <1>2, <1>4 DEF Once, Underway, Spent, Recent
<1>6. Newest'
  BY <1>1, <1>2 DEF Once, Newest
<1> QED BY <1>1, <1>3, <1>5, <1>6 DEF Once

\* Queueing a copy changes nothing but where it is.
LEMMA OncePuts ==
  ASSUME TypeOK, Phases, Once, Puts
  PROVE  Once'
<1>1. UNCHANGED <<segment, fired, timer, current, worker, stopped, said, told, doubled, skipped>>
  BY DEF Puts, IngressPuts, GoroutinePuts, inputVars, historyVars
<1>2. Copies' \subseteq Copies /\ (~stopped => Copies' = Copies)
  BY PutCopies
<1>3. Collected' /\ Waiting'
  BY <1>1 DEF Once, Collected, Waiting
<1>4. Underway'
  BY <1>1, <1>2 DEF Once, Underway, Spent, Recent
<1>5. Newest'
  BY <1>1, <1>2 DEF Once, Newest
<1> QED BY <1>1, <1>3, <1>4, <1>5 DEF Once

\* A copy that is not stale is of the segment, and as new as the one it replaces.
LEMMA OnceTake ==
  ASSUME TypeOK, Phases, Once, Take, ~slipped'
  PROVE  Once'
<1> USE Numbers
<1> DEFINE c == Head(commands)
<1>1. ~fired /\ worker = "select"
  BY DEF Take, Phases
<1>2. current' = c /\ timer' = TRUE /\ ~Stale(c)
  BY <1>1 DEF Take
<1>3. UNCHANGED <<segment, fired, worker, stopped, said, told, doubled, skipped>>
  BY DEF Take, inputVars
<1>4. Copies = Copies' \cup {c}
  BY TakeCopies
<1> HIDE DEF c
<1>5. Recent(c) /\ c.upto > told /\ (timer => c.upto >= current.upto)
  BY <1>2, <1>4 DEF Stale, Once, Underway, Spent
<1>6. Collected'
  BY <1>1, <1>3 DEF Once, Collected
<1>7. Waiting'
  BY <1>1, <1>2, <1>3, <1>4, <1>5 DEF Once, Collected, Waiting, Recent
<1>8. Underway'
  BY <1>3, <1>4 DEF Once, Underway, Spent, Recent
<1>9. Newest'
  <2> SUFFICES ASSUME ~stopped PROVE c.upto = said \/ \E d \in Copies' : d.upto = said
    BY <1>2, <1>3 DEF Newest
  <2>1. CASE timer /\ current.upto = said
    BY <2>1, <1>4, <1>5 DEF Recent
  <2>2. CASE \E d \in Copies : d.upto = said
    BY <2>2, <1>4
  <2> QED BY <1>1, <1>5, <2>1, <2>2 DEF Once, Newest, Recent
<1> QED BY <1>3, <1>6, <1>7, <1>8, <1>9 DEF Once

\* The copy reported starts right after what was reported before.
LEMMA OnceReport ==
  ASSUME TypeOK, Phases, Once, Fire \/ Emit
  PROVE  Once'
<1> USE Numbers
<1>1. UNCHANGED <<segment, current, stopped, said>>
  BY DEF Fire, Emit, inputVars
<1>2. Copies' = Copies
  BY DEF Fire, Emit, Copies
<1>3. CASE Fire
  <2>1. UNCHANGED <<told, doubled, skipped>> /\ timer /\ worker' = "emit" /\ worker = "select"
    BY <1>3 DEF Fire
  <2>2. Collected' /\ Waiting'
    BY <1>1, <2>1 DEF Once, Collected, Waiting
  <2>3. Underway' /\ Newest'
    BY <1>1, <1>2, <2>1 DEF Once, Underway, Newest, Spent, Recent
  <2> QED BY <2>1, <2>2, <2>3 DEF Once
<1>4. CASE Emit
  <2>1. /\ worker = "emit" /\ worker' = "reset" /\ told' = current.upto /\ timer' = timer
        /\ ~timer
    BY <1>4 DEF Emit, Phases
  <2>2. current.from = told + 1 /\ told < current.upto /\ current.upto <= said /\ segment # Empty
    BY <2>1 DEF Once, Waiting
  <2>3. ~doubled' /\ ~skipped'
    <3>1. ~(current.from <= told) /\ ~(current.from > told + 1)
      BY <2>2
    <3>2. ~doubled /\ ~skipped
      BY DEF Once
    <3>3. /\ doubled' = (doubled \/ current.from <= told)
          /\ skipped' = (skipped \/ current.from > told + 1)
      BY <1>4 DEF Emit
    <3> QED BY <3>1, <3>2, <3>3, Zenon
  <2>4. Collected' /\ Waiting'
    BY <1>1, <2>1, <2>2 DEF Once, Collected, Waiting
  <2>5. Underway'
    BY <1>1, <1>2, <2>1, <2>2 DEF Once, Underway, Spent, Recent
  <2>6. Newest'
    BY <2>1 DEF Newest
  <2> QED BY <2>3, <2>4, <2>5, <2>6 DEF Once
<1> QED BY <1>3, <1>4

\* A segment that is what has been reported can be forgotten.
LEMMA OnceReset ==
  ASSUME TypeOK, Phases, Once, Reset, ~slipped'
  PROVE  Once'
<1> USE Numbers
<1>1. /\ worker = "reset" /\ worker' = "select" /\ segment' = Empty /\ segment = current
      /\ UNCHANGED <<timer, current, stopped, said, told, doubled, skipped>>
  BY DEF Reset, inputVars
<1>2. Copies' = Copies
  BY DEF Reset, Copies
<1>3. told = said /\ ~timer
  BY <1>1 DEF Once, Collected, Phases
<1>4. Collected' /\ Waiting'
  BY <1>1, <1>3 DEF Collected, Waiting
<1>5. Underway'
  BY <1>1, <1>2, <1>3 DEF Once, Underway, Spent, Recent
<1>6. Newest'
  BY <1>1 DEF Newest
<1> QED BY <1>1, <1>4, <1>5, <1>6 DEF Once

\* Closing, and the worker's leaving, disturb nothing.
LEMMA OnceStop ==
  ASSUME TypeOK, Phases, Once, Stop \/ Close
  PROVE  Once'
<1>1. UNCHANGED <<segment, current, said, told, doubled, skipped>>
  BY DEF Stop, Close, inputVars, historyVars
<1>2. Copies' = Copies
  BY DEF Stop, Close, Copies
<1>3. (timer' => timer) /\ (worker' = worker \/ (worker = "select" /\ worker' = "stopped")) /\ stopped'
  BY DEF Stop, Close
<1>4. Collected' /\ Waiting'
  BY <1>1, <1>3 DEF Once, Collected, Waiting
<1>5. Underway'
  BY <1>1, <1>2 DEF Once, Underway, Spent, Recent
<1>6. Newest'
  BY <1>3 DEF Newest
<1> QED BY <1>1, <1>4, <1>5, <1>6 DEF Once

LEMMA InvNext == IInv /\ [Next]_vars => IInv'
<1> SUFFICES ASSUME IInv, [Next]_vars PROVE IInv'
  OBVIOUS
<1>1. TypeOK /\ Phases
  BY DEF IInv
<1>2. TypeOK' /\ Phases'
  BY <1>1, TypeNext, PhasesNext
<1>3. ASSUME ~slipped' PROVE Once'
  <2>1. Once
    BY <1>1, <1>3, SlippedStays DEF IInv
  <2>2. CASE UNCHANGED vars
    BY <2>1, <2>2 DEF vars, inputVars, historyVars, Once, Collected, Waiting, Underway, Newest,
         Copies, Spent, Recent
  <2> QED BY <1>1, <1>3, <2>1, <2>2, OnceTranscript, OnceProlong, OncePuts, OnceTake, OnceReport,
        OnceReset, OnceStop DEF Next, Input, Worker
<1> QED BY <1>2, <1>3 DEF IInv

\* Absent a stale copy taken or a transcript wiped, the detector reports every
\* transcript exactly once, for every capacity of its queue and any number of
\* interruptions in flight.
THEOREM ReportedExactlyOnce == Spec => []ExactlyOnce
<1>1. IInv => ExactlyOnce
  <2> SUFFICES ASSUME IInv, ~slipped
               PROVE  ~doubled /\ ~skipped /\ (Quiet /\ ~stopped => told = said)
    BY DEF ExactlyOnce
  <2> QED BY DEF IInv, Once, Quiet, Newest, Collected
<1> QED BY <1>1, InvInit, InvNext, PTL DEF Spec
=============================================================================
