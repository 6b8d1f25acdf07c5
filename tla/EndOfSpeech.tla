---------------------------- MODULE EndOfSpeech ----------------------------
(***************************************************************************)
(* When the user's turn ends: the silence based detector collects the      *)
(* final transcripts of an utterance and reports it once no more input     *)
(* has come for a while.                                                   *)
(* Source: src/api/assistant-api/internal/end_of_speech/internal/          *)
(*         silence_based/silence_based_end_of_speech.go                    *)
(*                                                                         *)
(* Final transcripts are numbered as they come, and the text collected is  *)
(* the span of their numbers. Three kinds of goroutine meet: the ingress   *)
(* dispatcher, the goroutine each interruption starts, and the worker. The *)
(* first two copy the segment under the mutex, release it, and then queue  *)
(* the copy; the worker reports a copy, and resets the segment itself.     *)
(*                                                                         *)
(* Left out: typed text, which HandleUserText never hands to the detector, *)
(* transcripts without text, and state.generation, which the worker alone  *)
(* writes and only together with the timer, so its test never fails. The   *)
(* silence timeout is any length of time.                                  *)
(***************************************************************************)
EXTENDS Integers, Sequences

CONSTANTS
  QueueCap,   \* capacity of commandCh (32 in the code)
  MaxSaid,    \* bound on final transcripts
  MaxProlong  \* bound on interim transcripts, voice activity and interruptions

ASSUME EndOfSpeechAssumption ==
  QueueCap \in Nat \ {0} /\ MaxSaid \in Nat /\ MaxProlong \in Nat

VARIABLES
  segment,    \* state.segment
  fired,      \* state.callbackFired
  timer,      \* the worker's timer is armed
  current,    \* the worker's currentCommand
  worker,     \* "select", "emit", "reset", or "stopped"
  commands,   \* commandCh
  ingress,    \* copy the ingress dispatcher is about to queue, Empty when idle
  goroutines, \* copies the goroutines of interruptions are about to queue
  stopped,    \* stopCh is closed
  said,       \* number of final transcripts so far
  prolonged,  \* number of interim transcripts, voice activity and interruptions
  told,       \* history: latest transcript reported
  doubled,    \* history: a transcript was reported twice
  skipped,    \* history: a transcript was passed over by a report
  open,       \* history: a transcript has come since the timer last fired
  slipped     \* history: the worker took a stale copy or wiped a transcript

inputVars == <<said, prolonged>>
historyVars == <<told, doubled, skipped, open, slipped>>
vars == <<segment, fired, timer, current, worker, commands, ingress, goroutines,
          stopped, inputVars, historyVars>>

Empty == [from |-> 0, upto |-> 0]

Spans == [from : 0..MaxSaid, upto : 0..MaxSaid]

Init ==
  /\ segment = Empty /\ fired = FALSE
  /\ timer = FALSE /\ current = Empty /\ worker = "select"
  /\ commands = <<>> /\ ingress = Empty /\ goroutines = {} /\ stopped = FALSE
  /\ said = 0 /\ prolonged = 0
  /\ told = 0 /\ doubled = FALSE /\ skipped = FALSE /\ open = FALSE /\ slipped = FALSE

-----------------------------------------------------------------------------
(* Input. Once closed, the detector is dropped by the adapter.              *)

\* The segment with the next final transcript.
Extended == [from |-> IF segment = Empty THEN said + 1 ELSE segment.from,
             upto |-> said + 1]

TranscriptMut ==
  /\ ~stopped /\ ingress = Empty /\ said < MaxSaid
  /\ segment' = Extended
  /\ ingress' = segment
  /\ said' = said + 1 /\ open' = TRUE
  /\ UNCHANGED <<fired, timer, current, worker, commands, goroutines, stopped,
                 prolonged, told, doubled, skipped, slipped>>

\* handleSpeechToTextPacket, a final transcript
Transcript ==
  /\ ~stopped /\ ingress = Empty /\ said < MaxSaid
  /\ segment' = Extended
  /\ ingress' = Extended
  /\ said' = said + 1 /\ open' = TRUE
  /\ UNCHANGED <<fired, timer, current, worker, commands, goroutines, stopped,
                 prolonged, told, doubled, skipped, slipped>>

\* handleSpeechToTextPacket, an interim transcript, or voice activity: only
\* extends the wait of a segment with text.
Prolong ==
  /\ ~stopped /\ ingress = Empty /\ segment # Empty /\ prolonged < MaxProlong
  /\ ingress' = segment
  /\ prolonged' = prolonged + 1
  /\ UNCHANGED <<segment, fired, timer, current, worker, commands, goroutines,
                 stopped, said, historyVars>>

\* HandleEndOfSpeechInterruption, which runs in a goroutine of its own
Interrupted ==
  /\ ~stopped /\ segment # Empty /\ prolonged < MaxProlong
  /\ goroutines' = goroutines \cup {[id |-> prolonged, copy |-> segment]}
  /\ prolonged' = prolonged + 1
  /\ UNCHANGED <<segment, fired, timer, current, worker, commands, ingress,
                 stopped, said, historyVars>>

EnqueueMut(copy) ==
  \/ commands' = Append(commands, copy)
  \/ stopped /\ UNCHANGED commands

EnqueueMut2(copy) == Len(commands) < QueueCap /\ commands' = Append(commands, copy)

\* enqueueCommand: waits for room, and gives up once stopCh is closed.
Enqueue(copy) ==
  \/ Len(commands) < QueueCap /\ commands' = Append(commands, copy)
  \/ stopped /\ UNCHANGED commands

IngressPuts ==
  /\ ingress # Empty
  /\ Enqueue(ingress)
  /\ ingress' = Empty
  /\ UNCHANGED <<segment, fired, timer, current, worker, goroutines, stopped,
                 inputVars, historyVars>>

GoroutinePuts ==
  /\ \E g \in goroutines : Enqueue(g.copy) /\ goroutines' = goroutines \ {g}
  /\ UNCHANGED <<segment, fired, timer, current, worker, ingress, stopped,
                 inputVars, historyVars>>

-----------------------------------------------------------------------------
(* The worker.                                                              *)

\* A copy whose text has been reported, or older than the one waited on.
Stale(copy) == copy.upto <= told \/ (timer /\ copy.upto < current.upto)

\* A command restarts the timer and replaces the one waited on.
Take ==
  /\ worker = "select" /\ commands # <<>>
  /\ commands' = Tail(commands)
  /\ current' = IF fired THEN current ELSE Head(commands)
  /\ timer' = (~fired \/ timer)
  /\ slipped' = (slipped \/ (~fired /\ Stale(Head(commands))))
  /\ UNCHANGED <<segment, fired, worker, ingress, goroutines, stopped, inputVars,
                 told, doubled, skipped, open>>

\* The timer fires: from here to Reset the mutex is free.
Fire ==
  /\ worker = "select" /\ timer /\ ~fired
  /\ fired' = TRUE /\ timer' = FALSE /\ worker' = "emit" /\ open' = FALSE
  /\ UNCHANGED <<segment, current, commands, ingress, goroutines, stopped,
                 inputVars, told, doubled, skipped, slipped>>

\* emitEndOfSpeech: reports the copy.
Emit ==
  /\ worker = "emit"
  /\ told' = current.upto
  /\ doubled' = (doubled \/ current.from <= told)
  /\ skipped' = (skipped \/ current.from > told + 1)
  /\ worker' = "reset"
  /\ UNCHANGED <<segment, fired, timer, current, commands, ingress, goroutines,
                 stopped, inputVars, open, slipped>>

ResetMut ==
  /\ worker = "reset"
  /\ fired' = FALSE /\ worker' = "select"
  /\ slipped' = (slipped \/ segment # current)
  /\ UNCHANGED <<segment, timer, current, commands, ingress, goroutines, stopped,
                 inputVars, told, doubled, skipped, open>>

\* resetState: forgets the segment, whatever has been added to it meanwhile.
Reset ==
  /\ worker = "reset"
  /\ segment' = Empty /\ fired' = FALSE /\ worker' = "select"
  /\ slipped' = (slipped \/ segment # current)
  /\ UNCHANGED <<timer, current, commands, ingress, goroutines, stopped,
                 inputVars, told, doubled, skipped, open>>

Close ==
  /\ ~stopped
  /\ stopped' = TRUE
  /\ UNCHANGED <<segment, fired, timer, current, worker, commands, ingress,
                 goroutines, inputVars, historyVars>>

\* The worker sees stopCh closed, now or after more commands and timers.
Stop ==
  /\ worker = "select" /\ stopped
  /\ worker' = "stopped" /\ timer' = FALSE
  /\ UNCHANGED <<segment, fired, current, commands, ingress, goroutines, stopped,
                 inputVars, historyVars>>

Input == Transcript \/ Prolong \/ Interrupted
Puts == IngressPuts \/ GoroutinePuts
Worker == Take \/ Fire \/ Emit \/ Reset \/ Stop

Next == Input \/ Puts \/ Worker \/ Close

Spec == Init /\ [][Next]_vars

\* The goroutines run, a sender the channel has room for gets its turn, and a
\* timer that is not restarted fires. Nobody is obliged to speak or to close.
FairSpec == Spec /\ WF_vars(Puts) /\ WF_vars(Worker)

-----------------------------------------------------------------------------

Copies == {commands[i] : i \in DOMAIN commands} \cup {g.copy : g \in goroutines}
            \cup ({ingress} \ {Empty})

TypeOK ==
  /\ segment \in Spans /\ current \in Spans /\ ingress \in Spans
  /\ fired \in BOOLEAN /\ timer \in BOOLEAN /\ stopped \in BOOLEAN
  /\ worker \in {"select", "emit", "reset", "stopped"}
  /\ commands \in Seq(Spans) /\ Len(commands) <= QueueCap
  /\ goroutines \subseteq [id : 0..MaxProlong, copy : Spans]
  /\ said \in 0..MaxSaid /\ prolonged \in 0..MaxProlong /\ told \in 0..MaxSaid
  /\ doubled \in BOOLEAN /\ skipped \in BOOLEAN
  /\ open \in BOOLEAN /\ slipped \in BOOLEAN

\* The worker is waiting and there is nothing for it to wait on.
Quiet == worker = "select" /\ ~timer /\ Copies = {}

\* As long as the worker takes no stale copy and wipes no transcript that came
\* while it was reporting, every transcript is reported exactly once: none
\* twice, none passed over, and none left behind when the detector comes to
\* rest. These are the only ways the lock released between copying the segment
\* and queueing the copy, and between firing and reset, can do harm.
ExactlyOnce ==
  ~slipped =>
    /\ ~doubled /\ ~skipped
    /\ Quiet /\ ~stopped => told = said

\* Whoever speaks is answered: after a transcript the timer fires, unless the
\* detector is closed, whatever the queue holds and however goroutines race.
TurnEnds == open ~> ~open \/ stopped

\* Close lets everyone go: the worker stops, and no dispatcher or goroutine is
\* left waiting for room in the queue of a detector nobody serves any more.
Released == stopped ~> worker = "stopped" /\ ingress = Empty /\ goroutines = {}
=============================================================================
