------------------------------ MODULE Channels ------------------------------
(***************************************************************************)
(* The ingress channel of a session: a bounded queue with many senders and *)
(* one dispatcher, which a disconnect pauses for good. Source:             *)
(*   src/api/assistant-api/internal/adapters/channel/channel.go            *)
(*                                                                         *)
(* A sender that finds the queue full empties it and sends then; a policy  *)
(* of the router takes the packets it matches out of the queue, holding    *)
(* the others meanwhile. The other channels are the same queue without the *)
(* overflow and the pause.                                                 *)
(*                                                                         *)
(* A step is one operation on a Go channel. A select takes any case that   *)
(* is ready: a sender past its first look at the pause may still send.     *)
(* Packets carry a ticket, the order in which they entered the queue.      *)
(***************************************************************************)
EXTENDS Naturals, Sequences

CONSTANTS
  Producers,   \* goroutines that send: the Talk loop, recognizers, detectors, tools
  Dispatcher,  \* the consumer, whose handlers send as well
  Capacity,    \* places in the queue
  MaxSent,     \* bound on packets that enter the queue
  MaxFlushes   \* bound on policies applied

ASSUME ChannelsAssumption ==
  /\ Dispatcher \notin Producers
  /\ Capacity \in Nat \ {0} /\ MaxSent \in Nat /\ MaxFlushes \in Nat

Senders == Producers \cup {Dispatcher}

VARIABLES
  ingress,     \* ingressCh
  calls,       \* per sender: where its call of OnIngress is
  sent,        \* packets that entered the queue
  consumer,    \* where RunIngress is
  pausing,     \* ingressPauseCh is closed
  pauser,      \* where PauseIngress is
  cancelled,   \* the context of the session
  flusher,     \* where flushChannelMatching is
  left,        \* packets it has still to take
  keep,        \* packets it puts back
  flushes,     \* how much of the bound is used
  last,        \* history: the ticket handled last
  newest,      \* history: the newest packet was handled or matched
  overtook,    \* history: the queue was used while a policy was applied
  disordered,  \* history: a packet was handled after a later one
  tardy        \* history: the pause found no consumer begun

queueVars == <<ingress, sent, newest>>
sendVars == <<calls, queueVars>>
takeVars == <<consumer, last, disordered>>
pauseVars == <<pausing, pauser, cancelled, tardy>>
flushVars == <<flusher, left, keep, flushes>>
vars == <<sendVars, takeVars, pauseVars, flushVars, overtook>>

Init ==
  /\ ingress = <<>> /\ sent = 0 /\ newest = TRUE
  /\ calls = [s \in Senders |-> "idle"]
  /\ consumer = "none" /\ last = 0 /\ disordered = FALSE
  /\ pausing = FALSE /\ pauser = "idle" /\ cancelled = FALSE /\ tardy = FALSE
  /\ flusher = "idle" /\ left = 0 /\ keep = <<>> /\ flushes = 0
  /\ overtook = FALSE

At(s, pc) == calls' = [calls EXCEPT ![s] = pc]
FullMut == Len(ingress) > Capacity \* mutant: one packet too many
Full == Len(ingress) >= Capacity
Used == overtook' = (overtook \/ flusher # "idle")

-----------------------------------------------------------------------------
(* OnIngress *)

\* A producer sends at any time, the dispatcher from a handler. Once the pause
\* has begun, a call returns at once.
Call(s) ==
  /\ calls[s] = "idle" /\ ~pausing /\ sent < MaxSent
  /\ s = Dispatcher => consumer = "handle"
  /\ At(s, "try")
  /\ UNCHANGED <<queueVars, takeVars, pauseVars, flushVars, overtook>>

Send(s) ==
  /\ ~Full
  /\ ingress' = Append(ingress, sent + 1) /\ sent' = sent + 1 /\ newest' = FALSE
  /\ At(s, "idle") /\ Used
  /\ UNCHANGED <<takeVars, pauseVars, flushVars>>

GiveUp(s) ==
  /\ pausing
  /\ At(s, "idle")
  /\ UNCHANGED <<queueVars, takeVars, pauseVars, flushVars, overtook>>

Overflow(s) ==
  /\ calls[s] = "try" /\ Full /\ ~pausing
  /\ At(s, "flush")
  /\ UNCHANGED <<queueVars, takeVars, pauseVars, flushVars, overtook>>

Try(s) == calls[s] = "try" /\ (Send(s) \/ GiveUp(s) \/ Overflow(s))

\* What the queue holds is dropped until it is seen empty.
DropHead == ingress # <<>> /\ ingress' = Tail(ingress) /\ Used /\ UNCHANGED <<sent, newest>>

FlushIngressMut(s) == \* mutant: the packet that found no room is not sent
  /\ calls[s] = "flush"
  /\ \/ DropHead /\ UNCHANGED calls
     \/ ingress = <<>> /\ At(s, "idle") /\ UNCHANGED <<queueVars, overtook>>
  /\ UNCHANGED <<takeVars, pauseVars, flushVars>>

FlushIngress(s) ==
  /\ calls[s] = "flush"
  /\ \/ DropHead /\ UNCHANGED calls
     \/ ingress = <<>> /\ At(s, "wait") /\ UNCHANGED <<queueVars, overtook>>
  /\ UNCHANGED <<takeVars, pauseVars, flushVars>>

WaitMut(s) == calls[s] = "wait" /\ Send(s) \* mutant: deaf to the pause
Wait(s) == calls[s] = "wait" /\ (Send(s) \/ GiveUp(s))

OnIngress(s) == Try(s) \/ FlushIngress(s) \/ Wait(s)

-----------------------------------------------------------------------------
(* RunIngress *)

\* The dispatcher is started by the boot chain, in a goroutine; it makes the
\* channel a pause waits on when it begins to run.
Start ==
  /\ consumer = "none" /\ consumer' = "spawned"
  /\ UNCHANGED <<sendVars, last, disordered, pauseVars, flushVars, overtook>>

Begin ==
  /\ consumer = "spawned" /\ consumer' = "select"
  /\ UNCHANGED <<sendVars, last, disordered, pauseVars, flushVars, overtook>>

Take ==
  /\ consumer = "select" /\ ingress # <<>>
  /\ consumer' = "handle"
  /\ ingress' = Tail(ingress) /\ last' = Head(ingress) /\ Used
  /\ newest' = (newest \/ Head(ingress) = sent)
  /\ disordered' = (disordered \/ Head(ingress) < last)
  /\ UNCHANGED <<calls, sent, pauseVars, flushVars>>

Return ==
  /\ consumer = "handle" /\ calls[Dispatcher] = "idle"
  /\ consumer' = "select"
  /\ UNCHANGED <<sendVars, last, disordered, pauseVars, flushVars, overtook>>

Leave ==
  /\ consumer = "select" /\ (pausing \/ cancelled)
  /\ consumer' = "returned"
  /\ UNCHANGED <<sendVars, last, disordered, pauseVars, flushVars, overtook>>

Cancel ==
  /\ ~cancelled /\ cancelled' = TRUE
  /\ UNCHANGED <<sendVars, takeVars, pausing, pauser, tardy, flushVars, overtook>>

-----------------------------------------------------------------------------
(* PauseIngress *)

Pause ==
  /\ pauser = "idle" /\ pauser' = "flush" /\ pausing' = TRUE
  /\ UNCHANGED <<sendVars, takeVars, cancelled, tardy, flushVars, overtook>>

PauseFlush(from, to) ==
  /\ pauser = from
  /\ \/ DropHead /\ UNCHANGED pauser
     \/ ingress = <<>> /\ pauser' = to /\ UNCHANGED <<queueVars, overtook>>
  /\ UNCHANGED <<calls, takeVars, pausing, cancelled, tardy, flushVars>>

\* The channel to wait on is closed before the consumer begins and when it has
\* returned.
ConsumerGoneMut == TRUE \* mutant: does not wait
ConsumerGone == consumer \in {"none", "spawned", "returned"}

AwaitConsumer ==
  /\ pauser = "await"
  /\ \/ ConsumerGone /\ pauser' = "sweep" /\ tardy' = (consumer \in {"none", "spawned"})
     \/ cancelled /\ pauser' = "abandoned" /\ UNCHANGED tardy
  /\ UNCHANGED <<sendVars, takeVars, pausing, cancelled, flushVars, overtook>>

PauseIngress == PauseFlush("flush", "await") \/ AwaitConsumer \/ PauseFlush("sweep", "paused")

-----------------------------------------------------------------------------
(* flushChannelMatching, called by the control dispatcher for a policy *)

FlushMatching ==
  /\ flusher = "idle" /\ flushes < MaxFlushes
  /\ flushes' = flushes + 1
  /\ flusher' = "take" /\ left' = Len(ingress)
  /\ UNCHANGED <<sendVars, takeVars, pauseVars, keep, overtook>>

FlushTakeMut == \* mutant: waits for as many packets as there were
  /\ flusher = "take" /\ left > 0 /\ ingress # <<>>
  /\ left' = left - 1 /\ ingress' = Tail(ingress) /\ keep' = Append(keep, Head(ingress))
  /\ UNCHANGED <<calls, sent, newest, takeVars, pauseVars, flusher, flushes, overtook>>

\* As many packets as there were, fewer when others take some meanwhile.
FlushTake ==
  /\ flusher = "take" /\ left > 0
  /\ left' = left - 1
  /\ \/ ingress = <<>> /\ UNCHANGED <<ingress, keep, newest>>
     \/ /\ ingress # <<>> /\ ingress' = Tail(ingress)
        /\ \/ keep' = Append(keep, Head(ingress)) /\ UNCHANGED newest
           \/ newest' = (newest \/ Head(ingress) = sent) /\ UNCHANGED keep
  /\ UNCHANGED <<calls, sent, takeVars, pauseVars, flusher, flushes, overtook>>

FlushTaken ==
  /\ flusher = "take" /\ left = 0
  /\ flusher' = "put"
  /\ UNCHANGED <<sendVars, takeVars, pauseVars, left, keep, flushes, overtook>>

PutBackMut(queue, packet) == <<packet>> \o queue \* mutant: in front
PutBack(queue, packet) == Append(queue, packet)

FlushPut ==
  /\ flusher = "put"
  /\ \/ /\ keep # <<>> /\ ~Full
        /\ ingress' = PutBack(ingress, Head(keep)) /\ keep' = Tail(keep)
        /\ UNCHANGED flusher
     \/ keep = <<>> /\ flusher' = "idle" /\ UNCHANGED <<ingress, keep>>
  /\ UNCHANGED <<calls, sent, newest, takeVars, pauseVars, left, flushes, overtook>>

-----------------------------------------------------------------------------
\* What goroutines do by themselves, once they have begun.
Running ==
  \/ \E s \in Senders : OnIngress(s)
  \/ Begin \/ Take \/ Return \/ Leave
  \/ PauseIngress
  \/ FlushTake \/ FlushTaken \/ FlushPut

Next ==
  \/ \E s \in Senders : Call(s)
  \/ Start \/ Cancel \/ Pause \/ FlushMatching
  \/ Running

Spec == Init /\ [][Next]_vars

\* Goroutines run and handlers return. One condition serves for all of them: the
\* bound on packets leaves no behaviour in which some run for ever and starve others.
Fairness == WF_vars(Running)

FairSpec == Spec /\ Fairness

-----------------------------------------------------------------------------
(* Properties *)

\* Every variable keeps its type, and the queue its capacity.
TypeOK ==
  /\ ingress \in Seq(1..sent) /\ keep \in Seq(1..sent)
  /\ Len(ingress) <= Capacity
  /\ sent \in Nat /\ last \in 0..sent /\ left \in Nat /\ flushes \in Nat
  /\ calls \in [Senders -> {"idle", "try", "flush", "wait"}]
  /\ consumer \in {"none", "spawned", "select", "handle", "returned"}
  /\ pauser \in {"idle", "flush", "await", "sweep", "paused", "abandoned"}
  /\ flusher \in {"idle", "take", "put"}
  /\ pausing \in BOOLEAN /\ cancelled \in BOOLEAN /\ tardy \in BOOLEAN
  /\ newest \in BOOLEAN /\ overtook \in BOOLEAN /\ disordered \in BOOLEAN

\* Packets are handled in the order they entered the queue, through overflows and
\* pauses, unless the queue is used while a policy takes packets out and back.
InOrder == disordered => overtook

\* When a pause has called back, no handler runs, and none will: unless the
\* dispatcher had not begun when the pause looked for it.
QuietAfterPause == pauser \in {"sweep", "paused"} /\ ~tardy => consumer = "returned"

\* However many senders flush at once, and whatever a policy holds meanwhile, the
\* newest packet survives until the pause: an overflow drops what was said before,
\* never all that was said.
NewestHeard ==
  /\ ingress = <<>> /\ ~pausing /\ flusher = "idle"
  /\ \A s \in Senders : calls[s] \in {"idle", "try"}
  => newest

\* A pause calls back, or the session is cancelled, whatever is queued or sent
\* meanwhile and although the handler it waits for may itself wait for room; and it lets go
\* of everyone who waits for room.
PauseEnds ==
  /\ pausing ~> pauser \in {"paused", "abandoned"}
  /\ pausing ~> \A s \in Senders : calls[s] = "idle"

\* The control dispatcher gets out of a policy, unless the ingress dispatcher is
\* gone or waits for room itself.
PolicyApplied ==
  flusher # "idle" ~> flusher = "idle" \/ pausing \/ cancelled \/ calls[Dispatcher] = "wait"
                      \/ consumer = "none"
=============================================================================
