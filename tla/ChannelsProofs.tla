--------------------------- MODULE ChannelsProofs ---------------------------
(***************************************************************************)
(* Proofs about Channels: for any senders, any capacity and any number of  *)
(* packets and policies, the queue keeps the order, a pause is quiet, and  *)
(* the capacity is kept.                                                   *)
(***************************************************************************)
EXTENDS Channels, SequenceTheorems, TLAPS

-----------------------------------------------------------------------------
(* Sequences of tickets *)

Sorted(s) == \A i, j \in DOMAIN s : i < j => s[i] < s[j]
Above(s, n) == \A i \in DOMAIN s : n < s[i]
Before(s, t) == \A i \in DOMAIN s, j \in DOMAIN t : s[i] < t[j]

\* The elements of a longer queue are those it had and the new one.
LEMMA AppendElements ==
  ASSUME NEW s \in Seq(Nat), NEW e \in Nat
  PROVE  /\ Append(s, e) \in Seq(Nat) /\ Len(Append(s, e)) = Len(s) + 1
         /\ DOMAIN s = 1..Len(s) /\ DOMAIN Append(s, e) = 1..(Len(s) + 1)
         /\ \A i \in 1..Len(s) : Append(s, e)[i] = s[i]
         /\ Append(s, e)[Len(s) + 1] = e
OBVIOUS

LEMMA TailElements ==
  ASSUME NEW s \in Seq(Nat), s # <<>>
  PROVE  /\ Head(s) \in Nat /\ Head(s) = s[1] /\ Tail(s) \in Seq(Nat)
         /\ Len(s) \in Nat \ {0} /\ Len(Tail(s)) = Len(s) - 1
         /\ DOMAIN s = 1..Len(s) /\ DOMAIN Tail(s) = 1..(Len(s) - 1)
         /\ \A i \in 1..(Len(s) - 1) : Tail(s)[i] = s[i + 1]
OBVIOUS

\* What is appended to a sorted queue and is above all of it keeps it sorted.
LEMMA AppendSorted ==
  ASSUME NEW s \in Seq(Nat), NEW e \in Nat, Sorted(s), \A i \in DOMAIN s : s[i] < e
  PROVE  Sorted(Append(s, e))
<1>1. \A i, j \in 1..(Len(s) + 1) : i < j => Append(s, e)[i] < Append(s, e)[j]
  <2> SUFFICES ASSUME NEW i \in 1..(Len(s) + 1), NEW j \in 1..(Len(s) + 1), i < j
               PROVE  Append(s, e)[i] < Append(s, e)[j]
    OBVIOUS
  <2>1. Len(s) \in Nat /\ i \in 1..Len(s) /\ Append(s, e)[i] = s[i]
    BY AppendElements
  <2>2. CASE j = Len(s) + 1
    BY <2>1, <2>2, AppendElements
  <2>3. CASE j \in 1..Len(s)
    BY <2>1, <2>3, AppendElements DEF Sorted
  <2> QED BY <2>1, <2>2, <2>3
<1> QED BY <1>1, AppendElements DEF Sorted

LEMMA TailSorted ==
  ASSUME NEW s \in Seq(Nat), s # <<>>, Sorted(s)
  PROVE  Sorted(Tail(s)) /\ Above(Tail(s), Head(s))
<1> DEFINE t == Tail(s)
<1>1. DOMAIN t = 1..(Len(s) - 1) /\ DOMAIN s = 1..Len(s) /\ Head(s) = s[1] /\ Len(s) \in Nat \ {0}
  BY TailElements
<1>2. \A i \in 1..(Len(s) - 1) : t[i] = s[i + 1]
  BY TailElements
<1>3. \A i, j \in 1..Len(s) : i < j => s[i] < s[j]
  BY <1>1 DEF Sorted
<1> HIDE DEF t
<1>4. \A i, j \in 1..(Len(s) - 1) : i < j => t[i] < t[j]
  BY <1>1, <1>2, <1>3
<1>5. \A i \in 1..(Len(s) - 1) : Head(s) < t[i]
  BY <1>1, <1>2, <1>3
<1>6. Sorted(t) /\ Above(t, Head(s))
  BY <1>1, <1>4, <1>5 DEF Sorted, Above
<1> QED BY <1>6 DEF t

\* A bound on a queue bounds what is left of it.
LEMMA TailAbove ==
  ASSUME NEW s \in Seq(Nat), s # <<>>, NEW n \in Nat, Above(s, n)
  PROVE  Above(Tail(s), n) /\ n < Head(s)
BY TailElements DEF Above

LEMMA AppendAbove ==
  ASSUME NEW s \in Seq(Nat), NEW e \in Nat, NEW n \in Nat, Above(s, n), n < e
  PROVE  Above(Append(s, e), n)
<1>1. \A i \in 1..(Len(s) + 1) : n < Append(s, e)[i]
  <2> SUFFICES ASSUME NEW i \in 1..(Len(s) + 1) PROVE n < Append(s, e)[i]
    OBVIOUS
  <2>1. Len(s) \in Nat /\ (i = Len(s) + 1 \/ i \in 1..Len(s))
    OBVIOUS
  <2> QED BY <2>1, AppendElements DEF Above
<1> QED BY <1>1, AppendElements DEF Above

\* The head of the second queue moves behind the first.
LEMMA MoveHead ==
  ASSUME NEW s \in Seq(Nat), NEW t \in Seq(Nat), t # <<>>,
         Sorted(s), Sorted(t), Before(s, t)
  PROVE  /\ Sorted(Append(s, Head(t))) /\ Sorted(Tail(t))
         /\ Before(Append(s, Head(t)), Tail(t)) /\ Before(s, Tail(t))
<1>1. \A i \in DOMAIN s : s[i] < Head(t)
  BY TailElements DEF Before
<1>2. Sorted(Append(s, Head(t)))
  BY <1>1, AppendSorted, TailElements
<1>3. Sorted(Tail(t)) /\ Above(Tail(t), Head(t))
  BY TailSorted
<1>4. Before(s, Tail(t))
  BY TailElements DEF Before
<1>5. \A i \in 1..(Len(s) + 1), j \in DOMAIN Tail(t) : Append(s, Head(t))[i] < Tail(t)[j]
  <2> SUFFICES ASSUME NEW i \in 1..(Len(s) + 1), NEW j \in DOMAIN Tail(t)
               PROVE  Append(s, Head(t))[i] < Tail(t)[j]
    OBVIOUS
  <2>1. Len(s) \in Nat /\ (i = Len(s) + 1 \/ i \in 1..Len(s)) /\ Head(t) \in Nat
    BY TailElements
  <2>2. CASE i = Len(s) + 1
    BY <2>1, <2>2, <1>3, AppendElements DEF Above
  <2>3. CASE i \in 1..Len(s)
    BY <2>1, <2>3, <1>4, AppendElements DEF Before
  <2> QED BY <2>1, <2>2, <2>3
<1>6. Before(Append(s, Head(t)), Tail(t))
  BY <1>5, TailElements, AppendElements DEF Before
<1> QED BY <1>2, <1>3, <1>4, <1>6

-----------------------------------------------------------------------------
(* Types *)

Counts == sent \in Nat /\ last \in 0..sent /\ left \in Nat /\ flushes \in Nat
Tickets == /\ ingress \in Seq(Nat) /\ keep \in Seq(Nat) /\ Len(ingress) <= Capacity
           /\ \A i \in DOMAIN ingress : ingress[i] \in 1..sent
           /\ \A i \in DOMAIN keep : keep[i] \in 1..sent
Places ==
  /\ calls \in [Senders -> {"idle", "try", "flush", "wait"}]
  /\ consumer \in {"none", "spawned", "select", "handle", "returned"}
  /\ pauser \in {"idle", "flush", "await", "sweep", "paused", "abandoned"}
  /\ flusher \in {"idle", "take", "put"}
Flags ==
  /\ pausing \in BOOLEAN /\ cancelled \in BOOLEAN /\ tardy \in BOOLEAN
  /\ newest \in BOOLEAN /\ overtook \in BOOLEAN /\ disordered \in BOOLEAN

Types == Counts /\ Tickets /\ Places /\ Flags

LEMMA TypesAreTypeOK == Types => TypeOK
<1> SUFFICES ASSUME Types PROVE TypeOK
  OBVIOUS
<1>1. ASSUME NEW s \in Seq(Nat), \A i \in DOMAIN s : s[i] \in 1..sent PROVE s \in Seq(1..sent)
  <2>1. Len(s) \in Nat /\ s \in [1..Len(s) -> 1..sent]
    BY <1>1
  <2>2. [1..Len(s) -> 1..sent] \in {[1..n -> 1..sent] : n \in Nat}
    BY <2>1
  <2>3. \A S : Seq(S) = UNION {[1..n -> S] : n \in Nat}
    BY SeqDef, Zenon
  <2>4. Seq(1..sent) = UNION {[1..n -> 1..sent] : n \in Nat}
    BY <2>3, Zenon
  <2> QED BY <2>1, <2>2, <2>4, Zenon
<1>2. ingress \in Seq(1..sent) /\ keep \in Seq(1..sent)
  BY <1>1 DEF Types, Tickets
<1> QED BY <1>2 DEF Types, TypeOK, Counts, Tickets, Places, Flags

-----------------------------------------------------------------------------
(* How the queue may change *)

\* One packet more, at the end.
Grow == /\ ingress' = Append(ingress, sent + 1) /\ sent' = sent + 1
        /\ Len(ingress) < Capacity
        /\ overtook' = (overtook \/ flusher # "idle")
        /\ UNCHANGED <<last, disordered, flusher, left, keep>>

\* One packet less, at the front, for good.
Shrink == /\ ingress # <<>> /\ ingress' = Tail(ingress) /\ sent' = sent
          /\ overtook' = (overtook \/ flusher # "idle")
          /\ UNCHANGED <<last, disordered, flusher, left, keep>>

Still == UNCHANGED <<ingress, sent, overtook, last, disordered, flusher, left, keep>>

\* What the types of the packets need of a step, and what the order needs of it.
LEMMA GrowTickets ==
  ASSUME Types, Grow PROVE Tickets' /\ sent' \in Nat /\ last' \in 0..sent'
<1>1. sent + 1 \in Nat /\ ingress \in Seq(Nat)
  BY DEF Types, Counts, Tickets
<1>2. /\ ingress' \in Seq(Nat) /\ Len(ingress') = Len(ingress) + 1 /\ Len(ingress) \in Nat
      /\ DOMAIN ingress = 1..Len(ingress) /\ DOMAIN ingress' = 1..(Len(ingress) + 1)
      /\ \A i \in 1..Len(ingress) : ingress'[i] = ingress[i]
      /\ ingress'[Len(ingress) + 1] = sent + 1
  BY <1>1, AppendElements DEF Grow
<1>3. \A i \in DOMAIN ingress' : ingress'[i] \in 1..sent'
  <2> SUFFICES ASSUME NEW i \in 1..(Len(ingress) + 1) PROVE ingress'[i] \in 1..sent'
    BY <1>2
  <2>1. i = Len(ingress) + 1 \/ i \in 1..Len(ingress)
    BY <1>2
  <2> QED BY <2>1, <1>2 DEF Grow, Types, Counts, Tickets
<1>4. keep' = keep /\ \A i \in DOMAIN keep : keep[i] \in 1..sent'
  BY DEF Grow, Types, Counts, Tickets
<1> QED BY <1>2, <1>3, <1>4, ChannelsAssumption
        DEF Grow, Types, Counts, Tickets, ChannelsAssumption

LEMMA ShrinkTickets ==
  ASSUME Types, ingress # <<>>, ingress' = Tail(ingress), UNCHANGED <<sent, keep>>
  PROVE  Tickets' /\ Head(ingress) \in 1..sent
<1>1. ingress \in Seq(Nat) /\ sent \in Nat /\ Len(ingress) <= Capacity
  BY DEF Types, Counts, Tickets
<1>2. /\ ingress' \in Seq(Nat) /\ Len(ingress') = Len(ingress) - 1 /\ Len(ingress) \in Nat \ {0}
      /\ DOMAIN ingress = 1..Len(ingress) /\ DOMAIN ingress' = 1..(Len(ingress) - 1)
      /\ \A i \in 1..(Len(ingress) - 1) : ingress'[i] = ingress[i + 1]
      /\ Head(ingress) = ingress[1]
  BY <1>1, TailElements
<1>3. \A i \in 1..(Len(ingress) - 1) : ingress'[i] \in 1..sent
  <2> SUFFICES ASSUME NEW i \in 1..(Len(ingress) - 1) PROVE ingress'[i] \in 1..sent
    OBVIOUS
  <2>1. i + 1 \in 1..Len(ingress) /\ ingress'[i] = ingress[i + 1]
    BY <1>2
  <2> QED BY <2>1, <1>2 DEF Types, Tickets
<1>4. Len(ingress') <= Capacity
  BY <1>1, <1>2, ChannelsAssumption DEF ChannelsAssumption
<1>5. Head(ingress) \in 1..sent
  BY <1>2 DEF Types, Tickets
<1> QED BY <1>2, <1>3, <1>4, <1>5 DEF Types, Tickets

-----------------------------------------------------------------------------
(* The order *)

\* As long as nobody used the queue during a policy: what is queued and what the
\* policy holds is in order and newer than what was handled; a policy that takes
\* packets holds the older ones, one that puts them back the newer.
Order ==
  ~overtook =>
    /\ ~disordered
    /\ Sorted(ingress) /\ Sorted(keep)
    /\ Above(ingress, last) /\ Above(keep, last)
    /\ flusher = "idle" => keep = <<>>
    /\ flusher = "take" => Before(keep, ingress) /\ left = Len(ingress)
    /\ flusher = "put" => Before(ingress, keep)

LEMMA GrowOrder ==
  ASSUME Types, Order, Grow PROVE Order'
<1> SUFFICES ASSUME ~overtook' PROVE Order'
  BY DEF Order
<1>1. ~overtook /\ flusher = "idle" /\ keep = <<>>
  BY DEF Grow, Order, Types, Flags
<1>2. ingress \in Seq(Nat) /\ sent + 1 \in Nat /\ last \in Nat /\ last < sent + 1
  BY DEF Types, Counts, Tickets
<1>3. \A i \in DOMAIN ingress : ingress[i] < sent + 1
  BY DEF Types, Counts, Tickets
<1>4. Sorted(ingress') /\ Above(ingress', last')
  BY <1>1, <1>2, <1>3, AppendSorted, AppendAbove DEF Grow, Order
<1> QED BY <1>1, <1>4 DEF Grow, Order

LEMMA ShrinkOrder ==
  ASSUME Types, Order, Shrink PROVE Order'
<1> SUFFICES ASSUME ~overtook' PROVE Order'
  BY DEF Order
<1>1. ~overtook /\ flusher = "idle" /\ keep = <<>>
  BY DEF Shrink, Order, Types, Flags
<1>2. ingress \in Seq(Nat) /\ last \in Nat
  BY DEF Types, Counts, Tickets
<1>3. Sorted(ingress') /\ Above(ingress', last')
  BY <1>1, <1>2, TailSorted, TailAbove DEF Shrink, Order
<1> QED BY <1>1, <1>3 DEF Shrink, Order

LEMMA StillOrder ==
  ASSUME Order, Still PROVE Order'
BY DEF Order, Still

-----------------------------------------------------------------------------
(* The steps *)

\* Every step of a sender or the pause lets the queue grow, shrink or be.
LEMMA SenderSteps ==
  ASSUME Types, NEW s \in Senders, Call(s) \/ OnIngress(s)
  PROVE  (Grow \/ Shrink \/ Still) /\ Places' /\ Flags' /\ left' \in Nat /\ flushes' \in Nat
<1>1. ASSUME Send(s) PROVE Grow
  BY <1>1, ChannelsAssumption
  DEF Send, Full, Used, Grow, Types, Tickets, ChannelsAssumption, takeVars, flushVars
<1>2. ASSUME DropHead, UNCHANGED <<takeVars, flushVars>> PROVE Shrink
  BY <1>2 DEF DropHead, Used, Shrink, takeVars, flushVars
<1>3. Grow \/ Shrink \/ Still
  BY <1>1, <1>2 DEF Call, OnIngress, Try, GiveUp, Overflow, FlushIngress, Wait, Still, queueVars,
     takeVars, flushVars
<1>4. calls' \in [Senders -> {"idle", "try", "flush", "wait"}]
  BY DEF Call, OnIngress, Try, Send, GiveUp, Overflow, FlushIngress, Wait, At, Types, Places
<1>5. UNCHANGED <<takeVars, pauseVars, flushVars>>
  BY DEF Call, OnIngress, Try, Send, GiveUp, Overflow, FlushIngress, Wait
<1>6. newest' \in BOOLEAN
  BY DEF Call, OnIngress, Try, Send, GiveUp, Overflow, FlushIngress, Wait, DropHead, queueVars,
     Types, Flags
<1>7. overtook' \in BOOLEAN
  BY <1>3 DEF Grow, Shrink, Still, Types, Flags
<1> QED BY <1>3, <1>4, <1>5, <1>6, <1>7
        DEF takeVars, pauseVars, flushVars, Types, Places, Flags, Counts

LEMMA PauseSteps ==
  ASSUME Types, Pause \/ PauseIngress
  PROVE  (Shrink \/ Still) /\ Places' /\ Flags' /\ left' \in Nat /\ flushes' \in Nat
<1>1. ASSUME DropHead, UNCHANGED <<takeVars, flushVars>> PROVE Shrink
  BY <1>1 DEF DropHead, Used, Shrink, takeVars, flushVars
<1>2. Shrink \/ Still
  BY <1>1 DEF Pause, PauseIngress, PauseFlush, AwaitConsumer, Still, sendVars, queueVars,
     takeVars, flushVars
<1>3. UNCHANGED <<calls, takeVars, flushVars>>
  BY DEF Pause, PauseIngress, PauseFlush, AwaitConsumer, sendVars
<1>4. pauser' \in {"idle", "flush", "await", "sweep", "paused", "abandoned"}
  BY DEF Pause, PauseIngress, PauseFlush, AwaitConsumer, Types, Places
<1>5. newest' \in BOOLEAN /\ pausing' \in BOOLEAN /\ cancelled' \in BOOLEAN
  BY DEF Pause, PauseIngress, PauseFlush, AwaitConsumer, DropHead, sendVars, queueVars, Types, Flags
<1>6. tardy' \in BOOLEAN
  <2>1. tardy' = tardy \/ tardy' = (consumer \in {"none", "spawned"})
    BY Zenon DEF Pause, PauseIngress, PauseFlush, AwaitConsumer
  <2>2. (consumer \in {"none", "spawned"}) \in BOOLEAN
    OBVIOUS
  <2> QED BY <2>1, <2>2, Zenon DEF Types, Flags
<1>7. overtook' \in BOOLEAN
  BY <1>2 DEF Shrink, Still, Types, Flags
<1> QED BY <1>2, <1>3, <1>4, <1>5, <1>6, <1>7
        DEF takeVars, flushVars, Types, Places, Flags, Counts

\* The dispatcher, but for the packet it takes, and the end of the session.
LEMMA QuietSteps ==
  ASSUME Types, Start \/ Begin \/ Return \/ Leave \/ Cancel
  PROVE  Still /\ Places' /\ Flags' /\ left' \in Nat /\ flushes' \in Nat
<1>1. Still /\ UNCHANGED <<calls, newest, pausing, pauser, tardy, flushes>>
  BY DEF Start, Begin, Return, Leave, Cancel, Still, sendVars, queueVars, takeVars, pauseVars, flushVars
<1>2. consumer' \in {"none", "spawned", "select", "handle", "returned"}
  BY DEF Start, Begin, Return, Leave, Cancel, takeVars, Types, Places
<1>3. cancelled' \in BOOLEAN
  BY DEF Start, Begin, Return, Leave, Cancel, pauseVars, Types, Flags
<1> QED BY <1>1, <1>2, <1>3 DEF Still, Types, Places, Flags, Counts

\* From what the queue does follow the types and the order.
LEMMA Keeps ==
  ASSUME Types, Order, Grow \/ Shrink \/ Still,
         Places', Flags', left' \in Nat, flushes' \in Nat
  PROVE  Types' /\ Order'
<1>1. CASE Grow
  BY <1>1, GrowTickets, GrowOrder DEF Types, Counts
<1>2. CASE Shrink
  <2>1. Tickets' /\ Counts'
    BY <1>2, ShrinkTickets DEF Shrink, Types, Counts
  <2> QED BY <1>2, <2>1, ShrinkOrder DEF Types
<1>3. CASE Still
  <2>1. Tickets' /\ Counts'
    BY <1>3 DEF Still, Types, Tickets, Counts
  <2> QED BY <1>3, <2>1, StillOrder DEF Types
<1> QED BY <1>1, <1>2, <1>3

\* The packet taken is the oldest, and newer than the one before.
LEMMA TakeStep ==
  ASSUME Types, Order, Take
  PROVE  Types' /\ Order'
<1>1. Tickets' /\ Head(ingress) \in 1..sent
  BY ShrinkTickets DEF Take, flushVars
<1>2. Counts'
  BY <1>1 DEF Take, Types, Counts, flushVars
<1>3. Places'
  BY DEF Take, Types, Places, pauseVars, flushVars
<1>4. Flags'
  BY DEF Take, Used, Types, Flags, pauseVars
<1>5. Order'
  <2> SUFFICES ASSUME ~overtook' PROVE Order'
    BY DEF Order
  <2>1. ~overtook /\ flusher = "idle" /\ keep = <<>>
    BY DEF Take, Used, Order, Types, Flags
  <2>2. ingress \in Seq(Nat) /\ last \in Nat /\ Head(ingress) \in Nat
    BY <1>1 DEF Types, Counts, Tickets
  <2>3. last < Head(ingress) /\ Sorted(ingress') /\ Above(ingress', last')
    BY <2>1, <2>2, TailSorted, TailAbove DEF Take, Order
  <2>4. ~disordered'
    <3>1. ~disordered /\ ~(Head(ingress) < last)
      BY <2>1, <2>2, <2>3 DEF Order
    <3>2. disordered' = (disordered \/ Head(ingress) < last)
      BY Zenon DEF Take
    <3> QED BY <3>1, <3>2, Zenon
  <2>5. keep' = <<>> /\ flusher' = "idle"
    BY <2>1 DEF Take, flushVars
  <2>6. Sorted(keep') /\ Above(keep', last')
    BY <2>5 DEF Sorted, Above
  <2> QED BY <2>3, <2>4, <2>5, <2>6 DEF Order
<1> QED BY <1>1, <1>2, <1>3, <1>4, <1>5 DEF Types

-----------------------------------------------------------------------------
(* A policy *)

LEMMA MatchingStep ==
  ASSUME Types, Order, FlushMatching
  PROVE  Types' /\ Order'
<1>1. flusher = "idle" /\ flusher' = "take" /\ left' = Len(ingress) /\ flushes' = flushes + 1
  BY DEF FlushMatching
<1>2. UNCHANGED <<sendVars, takeVars, pauseVars, keep, overtook>>
  BY DEF FlushMatching
<1>3. Len(ingress) \in Nat /\ flushes + 1 \in Nat
  BY DEF Types, Counts, Tickets
<1>4. Types'
  BY <1>1, <1>2, <1>3
  DEF Types, Counts, Tickets, Places, Flags, sendVars, queueVars, takeVars, pauseVars
<1>5. Order'
  BY <1>1, <1>2 DEF Order, Before, Sorted, Above, sendVars, queueVars, takeVars
<1> QED BY <1>4, <1>5

LEMMA TakenStep ==
  ASSUME Types, Order, FlushTaken
  PROVE  Types' /\ Order'
<1>1. flusher = "take" /\ left = 0 /\ flusher' = "put"
  BY DEF FlushTaken
<1>2. UNCHANGED <<sendVars, takeVars, pauseVars, left, keep, flushes, overtook>>
  BY DEF FlushTaken
<1>3. Types'
  BY <1>1, <1>2
  DEF Types, Counts, Tickets, Places, Flags, sendVars, queueVars, takeVars, pauseVars
<1>4. Order'
  <2> SUFFICES ASSUME ~overtook PROVE Order'
    BY <1>2 DEF Order
  <2>1. Len(ingress) = 0 /\ ingress \in Seq(Nat)
    BY <1>1 DEF Order, Types, Tickets
  <2>2. DOMAIN ingress = {}
    BY <2>1
  <2>3. Before(ingress, keep)
    BY <2>2 DEF Before
  <2>4. UNCHANGED <<ingress, keep, last, disordered, overtook>>
    BY <1>2 DEF sendVars, queueVars, takeVars
  <2> QED BY <1>1, <2>3, <2>4 DEF Order, Before, Sorted, Above
<1> QED BY <1>3, <1>4

LEMMA TakeBackStep ==
  ASSUME Types, Order, FlushTake
  PROVE  Types' /\ Order'
<1>1. /\ flusher = "take" /\ left > 0 /\ left' = left - 1
      /\ UNCHANGED <<calls, sent, takeVars, pauseVars, flusher, flushes, overtook>>
  BY DEF FlushTake
<1>2. /\ ingress \in Seq(Nat) /\ keep \in Seq(Nat) /\ left' \in Nat /\ sent \in Nat
      /\ Len(ingress) \in Nat
  BY <1>1 DEF Types, Counts, Tickets
<1>3. newest' \in BOOLEAN
  <2>1. UNCHANGED newest \/ newest' = (newest \/ Head(ingress) = sent)
    BY Zenon DEF FlushTake
  <2> QED BY <2>1, Zenon DEF Types, Flags
<1>4. Places' /\ Flags' /\ Counts'
  BY <1>1, <1>2, <1>3 DEF Types, Counts, Places, Flags, takeVars, pauseVars
<1>5. CASE ingress = <<>>
  <2>1. UNCHANGED <<ingress, keep>>
    BY <1>5 DEF FlushTake
  <2>2. Tickets'
    BY <1>1, <2>1 DEF Types, Tickets
  <2>3. overtook
    <3> SUFFICES ASSUME ~overtook PROVE FALSE
      OBVIOUS
    <3> QED BY <1>1, <1>5, <1>2 DEF Order, Types, Counts
  <2> QED BY <1>1, <1>4, <2>2, <2>3 DEF Types, Order
<1>6. CASE ingress # <<>>
  <2>1. ingress' = Tail(ingress)
    BY <1>6 DEF FlushTake
  <2>2. UNCHANGED keep \/ keep' = Append(keep, Head(ingress))
    BY <1>6 DEF FlushTake
  <2>3. Head(ingress) \in Nat /\ Head(ingress) = ingress[1] /\ 1 \in DOMAIN ingress
    BY <1>2, <1>6, TailElements
  <2>4. Head(ingress) \in 1..sent
    BY <2>3 DEF Types, Tickets
  <2>5. Tickets'
    <3>1. /\ Tail(ingress) \in Seq(Nat) /\ Len(Tail(ingress)) <= Capacity
          /\ \A i \in DOMAIN Tail(ingress) : Tail(ingress)[i] \in 1..sent
      <4>1. /\ Tail(ingress) \in Seq(Nat) /\ Len(Tail(ingress)) = Len(ingress) - 1
            /\ DOMAIN Tail(ingress) = 1..(Len(ingress) - 1) /\ DOMAIN ingress = 1..Len(ingress)
            /\ \A i \in 1..(Len(ingress) - 1) : Tail(ingress)[i] = ingress[i + 1]
        BY <1>2, <1>6, TailElements
      <4>2. \A i \in 1..(Len(ingress) - 1) : i + 1 \in 1..Len(ingress)
        BY <1>2
      <4>3. \A i \in 1..(Len(ingress) - 1) : Tail(ingress)[i] \in 1..sent
        BY <4>1, <4>2 DEF Types, Tickets
      <4>4. Len(Tail(ingress)) <= Capacity
        BY <4>1, <1>2, ChannelsAssumption DEF Types, Tickets, ChannelsAssumption
      <4> QED BY <4>1, <4>3, <4>4
    <3>2. keep' \in Seq(Nat) /\ \A i \in DOMAIN keep' : keep'[i] \in 1..sent
      <4>1. CASE UNCHANGED keep
        BY <4>1 DEF Types, Tickets
      <4>2. CASE keep' = Append(keep, Head(ingress))
        <5>1. /\ keep' \in Seq(Nat) /\ DOMAIN keep' = 1..(Len(keep) + 1)
              /\ \A i \in 1..Len(keep) : keep'[i] = keep[i]
              /\ keep'[Len(keep) + 1] = Head(ingress) /\ DOMAIN keep = 1..Len(keep)
          BY <4>2, <1>2, <2>3, AppendElements
        <5>2. \A i \in 1..(Len(keep) + 1) : i \in 1..Len(keep) \/ i = Len(keep) + 1
          BY <1>2
        <5> QED BY <5>1, <5>2, <2>4 DEF Types, Tickets
      <4> QED BY <2>2, <4>1, <4>2
    <3> QED BY <1>1, <2>1, <3>1, <3>2 DEF Tickets
  <2>6. Order'
    <3> SUFFICES ASSUME ~overtook PROVE Order'
      BY <1>1 DEF Order
    <3>1. /\ Sorted(ingress) /\ Sorted(keep) /\ Before(keep, ingress) /\ left = Len(ingress)
          /\ Above(ingress, last) /\ Above(keep, last) /\ ~disordered
      BY <1>1 DEF Order
    <3>2. last \in Nat /\ left' = Len(ingress') /\ UNCHANGED <<last, disordered>>
      BY <1>1, <1>2, <1>6, <2>1, <3>1, TailElements DEF Types, Counts, takeVars
    <3>3. Sorted(ingress') /\ Above(ingress', last') /\ last < Head(ingress)
      BY <1>2, <1>6, <2>1, <3>1, <3>2, TailSorted, TailAbove
    <3>4. /\ Sorted(Append(keep, Head(ingress))) /\ Before(Append(keep, Head(ingress)), ingress')
          /\ Before(keep, ingress')
      BY <1>2, <1>6, <2>1, <3>1, MoveHead
    <3>5. Above(Append(keep, Head(ingress)), last)
      BY <1>2, <2>3, <3>1, <3>2, <3>3, AppendAbove
    <3>6. Sorted(keep') /\ Before(keep', ingress') /\ Above(keep', last')
      BY <2>2, <3>1, <3>2, <3>4, <3>5
    <3> QED BY <1>1, <3>1, <3>2, <3>3, <3>6 DEF Order
  <2> QED BY <1>4, <2>5, <2>6 DEF Types
<1> QED BY <1>5, <1>6

LEMMA PutStep ==
  ASSUME Types, Order, FlushPut
  PROVE  Types' /\ Order'
<1>1. /\ flusher = "put"
      /\ UNCHANGED <<calls, sent, newest, takeVars, pauseVars, left, flushes, overtook>>
  BY DEF FlushPut
<1>2. ingress \in Seq(Nat) /\ keep \in Seq(Nat) /\ sent \in Nat /\ last \in Nat
  BY DEF Types, Counts, Tickets
<1>3. Counts' /\ Flags' /\ Places'
  BY <1>1 DEF FlushPut, Types, Counts, Flags, Places, takeVars, pauseVars
<1>4. CASE keep = <<>>
  <2>1. UNCHANGED <<ingress, keep>> /\ flusher' = "idle"
    BY <1>4 DEF FlushPut
  <2>2. Tickets'
    BY <1>1, <2>1 DEF Types, Tickets
  <2>3. Order'
    BY <1>1, <1>4, <2>1 DEF Order, takeVars, Sorted, Above
  <2> QED BY <1>3, <2>2, <2>3 DEF Types
<1>5. CASE keep # <<>>
  <2>1. /\ Len(ingress) < Capacity /\ ingress' = Append(ingress, Head(keep))
        /\ keep' = Tail(keep) /\ flusher' = "put"
    BY <1>1, <1>2, <1>5, ChannelsAssumption DEF FlushPut, Full, PutBack, ChannelsAssumption
  <2>2. /\ Head(keep) \in Nat /\ Head(keep) = keep[1] /\ Tail(keep) \in Seq(Nat)
        /\ Len(keep) \in Nat \ {0} /\ DOMAIN keep = 1..Len(keep)
        /\ DOMAIN Tail(keep) = 1..(Len(keep) - 1)
        /\ \A i \in 1..(Len(keep) - 1) : Tail(keep)[i] = keep[i + 1]
    BY <1>2, <1>5, TailElements
  <2>3. Head(keep) \in 1..sent
    BY <2>2 DEF Types, Tickets
  <2>4. \A i \in DOMAIN keep' : keep'[i] \in 1..sent
    <3>1. \A i \in 1..(Len(keep) - 1) : i + 1 \in 1..Len(keep)
      BY <2>2
    <3> QED BY <2>1, <2>2, <3>1 DEF Types, Tickets
  <2>5. /\ ingress' \in Seq(Nat) /\ Len(ingress') <= Capacity
        /\ \A i \in DOMAIN ingress' : ingress'[i] \in 1..sent
    <3>1. /\ ingress' \in Seq(Nat) /\ Len(ingress') = Len(ingress) + 1 /\ Len(ingress) \in Nat
          /\ DOMAIN ingress' = 1..(Len(ingress) + 1) /\ DOMAIN ingress = 1..Len(ingress)
          /\ \A i \in 1..Len(ingress) : ingress'[i] = ingress[i]
          /\ ingress'[Len(ingress) + 1] = Head(keep)
      BY <1>2, <2>1, <2>2, AppendElements
    <3>2. \A i \in 1..(Len(ingress) + 1) : i \in 1..Len(ingress) \/ i = Len(ingress) + 1
      BY <3>1
    <3>3. Len(ingress') <= Capacity
      BY <2>1, <3>1, ChannelsAssumption DEF ChannelsAssumption
    <3> QED BY <2>3, <3>1, <3>2, <3>3 DEF Types, Tickets
  <2>6. Tickets'
    BY <1>1, <2>1, <2>2, <2>4, <2>5 DEF Tickets
  <2>7. Order'
    <3> SUFFICES ASSUME ~overtook PROVE Order'
      BY <1>1 DEF Order
    <3>1. /\ Sorted(ingress) /\ Sorted(keep) /\ Before(ingress, keep)
          /\ Above(ingress, last) /\ Above(keep, last) /\ ~disordered
      BY <1>1 DEF Order
    <3>2. Sorted(ingress') /\ Sorted(keep') /\ Before(ingress', keep')
      BY <1>2, <1>5, <2>1, <3>1, MoveHead
    <3>3. Above(keep', last) /\ last < Head(keep)
      BY <1>2, <1>5, <2>1, <3>1, TailAbove
    <3>4. Above(ingress', last)
      BY <1>2, <2>1, <2>2, <3>1, <3>3, AppendAbove
    <3>5. UNCHANGED <<last, disordered, overtook>>
      BY <1>1 DEF takeVars
    <3> QED BY <2>1, <3>1, <3>2, <3>3, <3>4, <3>5 DEF Order
  <2> QED BY <1>3, <2>6, <2>7 DEF Types
<1> QED BY <1>4, <1>5

-----------------------------------------------------------------------------
(* The newest packet *)

\* A queue holds the newest packet.
Holds(s) == \E i \in DOMAIN s : s[i] = sent

\* Where the newest packet is, or who is about to send a newer one: a sender that
\* drops the newest packet has not sent its own yet, and gives up for a pause only.
Fresh == \/ newest \/ pausing \/ Holds(ingress) \/ Holds(keep)
         \/ \E s \in Senders : calls[s] \in {"flush", "wait"}

\* Nothing stays in the hands of a policy that is over.
Kept == flusher = "idle" => keep = <<>>

\* What the pause drops, it drops after it was announced.
Announced == pauser # "idle" => pausing

\* The oldest packet of a queue is its first, the others are in its tail.
LEMMA HeadOrTail ==
  ASSUME NEW s \in Seq(Nat), Holds(s)
  PROVE  s # <<>> /\ (Head(s) = sent \/ Holds(Tail(s)))
<1>1. PICK i \in DOMAIN s : s[i] = sent
  BY DEF Holds
<1>2. s # <<>> /\ Len(s) \in Nat \ {0} /\ DOMAIN s = 1..Len(s)
  BY <1>1
<1>3. /\ Head(s) = s[1] /\ DOMAIN Tail(s) = 1..(Len(s) - 1)
      /\ \A j \in 1..(Len(s) - 1) : Tail(s)[j] = s[j + 1]
  BY <1>2, TailElements
<1>4. CASE i = 1
  BY <1>1, <1>2, <1>3, <1>4
<1>5. CASE i # 1
  <2>1. i - 1 \in 1..(Len(s) - 1) /\ Tail(s)[i - 1] = s[i]
    BY <1>2, <1>3, <1>5
  <2> QED BY <1>1, <1>2, <1>3, <2>1 DEF Holds
<1> QED BY <1>4, <1>5

\* What is put at the end of a queue is in it, with all that was there.
LEMMA HoldsAppended ==
  ASSUME NEW s \in Seq(Nat), NEW e \in Nat, Holds(s) \/ e = sent
  PROVE  Holds(Append(s, e))
<1>1. /\ Len(s) \in Nat /\ DOMAIN s = 1..Len(s) /\ DOMAIN Append(s, e) = 1..(Len(s) + 1)
      /\ \A i \in 1..Len(s) : Append(s, e)[i] = s[i]
      /\ Append(s, e)[Len(s) + 1] = e
  BY AppendElements
<1>2. CASE e = sent
  BY <1>1, <1>2 DEF Holds
<1>3. CASE Holds(s)
  <2>1. PICK i \in DOMAIN s : s[i] = sent
    BY <1>3 DEF Holds
  <2>2. i \in 1..(Len(s) + 1)
    BY <1>1, <2>1
  <2> QED BY <1>1, <2>1, <2>2 DEF Holds
<1> QED BY <1>2, <1>3

\* A sender that sends has sent the newest packet; one that drops packets, or
\* goes to do so, will send; and it returns to its caller for the pause only.
LEMMA SenderFresh ==
  ASSUME Types, Fresh, NEW s \in Senders, Call(s) \/ OnIngress(s)
  PROVE  Fresh'
<1>1. calls \in [Senders -> {"idle", "try", "flush", "wait"}]
  BY DEF Types, Places
<1>2. CASE Send(s)
  <2>1. ingress \in Seq(Nat) /\ sent + 1 \in Nat
    BY DEF Types, Counts, Tickets
  <2>2. Len(ingress) + 1 \in DOMAIN ingress' /\ ingress'[Len(ingress) + 1] = sent'
    BY <1>2, <2>1, AppendElements DEF Send
  <2> QED BY <2>2 DEF Fresh, Holds
<1>3. CASE GiveUp(s)
  BY <1>3 DEF GiveUp, Fresh, pauseVars
<1>4. CASE Call(s) \/ Overflow(s)
  <2>1. UNCHANGED <<ingress, sent, newest, pausing, keep>>
    BY <1>4 DEF Call, Overflow, queueVars, pauseVars, flushVars
  <2>2. \/ calls' = [calls EXCEPT ![s] = "try"] /\ calls[s] = "idle"
        \/ calls' = [calls EXCEPT ![s] = "flush"]
    BY <1>4 DEF Call, Overflow, At
  <2>3. ASSUME NEW r \in Senders, calls[r] \in {"flush", "wait"} PROVE calls'[r] \in {"flush", "wait"}
    BY <1>1, <2>2, <2>3
  <2> QED BY <2>1, <2>3 DEF Fresh, Holds
<1>5. CASE FlushIngress(s)
  <2>1. calls'[s] \in {"flush", "wait"}
    BY <1>1, <1>5 DEF FlushIngress, At
  <2> QED BY <2>1 DEF Fresh
<1> QED BY <1>2, <1>3, <1>4, <1>5 DEF OnIngress, Try, Wait

\* The dispatcher and a policy take the oldest packet: the newest one only when
\* no other is left.
LEMMA TakenFresh ==
  ASSUME Types, Fresh, Take \/ FlushTake
  PROVE  Fresh'
<1>1. UNCHANGED <<calls, sent, pausing>>
  BY DEF Take, FlushTake, pauseVars
<1>2. ingress \in Seq(Nat) /\ keep \in Seq(Nat) /\ sent \in Nat
  BY DEF Types, Counts, Tickets
<1>3. CASE ingress = <<>>
  <2>1. UNCHANGED <<ingress, keep, newest>>
    BY <1>3 DEF Take, FlushTake
  <2> QED BY <1>1, <2>1 DEF Fresh, Holds
<1>4. CASE ingress # <<>>
  <2>1. Head(ingress) \in Nat /\ ingress' = Tail(ingress)
    BY <1>2, <1>4, TailElements DEF Take, FlushTake
  <2>2. \/ keep' = keep /\ newest' = (newest \/ Head(ingress) = sent)
        \/ keep' = Append(keep, Head(ingress)) /\ newest' = newest
    BY <1>4, Zenon DEF Take, FlushTake, flushVars
  <2>3. newest => newest'
    BY <2>2, Zenon
  <2>4. ASSUME Holds(keep) PROVE Holds(keep')
    BY <1>2, <2>1, <2>2, <2>4, HoldsAppended
  <2>5. ASSUME Holds(ingress) PROVE newest' \/ Holds(ingress') \/ Holds(keep')
    <3>1. Head(ingress) = sent \/ Holds(ingress')
      BY <1>2, <2>1, <2>5, HeadOrTail
    <3>2. CASE Head(ingress) = sent
      <4>1. newest' \/ keep' = Append(keep, Head(ingress))
        BY <2>2, <3>2, Zenon
      <4> QED BY <1>2, <2>1, <3>2, <4>1, HoldsAppended
    <3> QED BY <3>1, <3>2
  <2> QED BY <1>1, <2>3, <2>4, <2>5 DEF Fresh, Holds
<1> QED BY <1>3, <1>4

\* A policy puts back what it holds.
LEMMA PutFresh ==
  ASSUME Types, Fresh, FlushPut
  PROVE  Fresh'
<1>1. UNCHANGED <<calls, sent, newest, pausing>>
  BY DEF FlushPut, pauseVars
<1>2. CASE UNCHANGED <<ingress, keep>>
  BY <1>1, <1>2 DEF Fresh, Holds
<1>3. CASE ~UNCHANGED <<ingress, keep>>
  <2>1. keep # <<>> /\ ingress' = Append(ingress, Head(keep)) /\ keep' = Tail(keep)
    BY <1>3 DEF FlushPut, PutBack
  <2>2. ingress \in Seq(Nat) /\ keep \in Seq(Nat) /\ Head(keep) \in Nat
    BY <2>1, TailElements DEF Types, Tickets
  <2>3. ASSUME Holds(ingress) \/ Holds(keep) PROVE Holds(ingress') \/ Holds(keep')
    BY <2>1, <2>2, <2>3, HeadOrTail, HoldsAppended
  <2> QED BY <1>1, <2>3 DEF Fresh, Holds
<1> QED BY <1>2, <1>3

LEMMA FreshKept ==
  ASSUME Types, Fresh, Announced, [Next]_vars
  PROVE  Fresh'
<1>1. CASE \E s \in Senders : Call(s) \/ OnIngress(s)
  BY <1>1, SenderFresh
<1>2. CASE Take \/ FlushTake
  BY <1>2, TakenFresh
<1>3. CASE FlushPut
  BY <1>3, PutFresh
<1>4. CASE Start \/ Begin \/ Return \/ Leave \/ Cancel \/ FlushMatching \/ FlushTaken \/ UNCHANGED vars
  <2>1. UNCHANGED <<ingress, sent, newest, calls, keep, pausing>>
    BY <1>4 DEF Start, Begin, Return, Leave, Cancel, FlushMatching, FlushTaken, vars, sendVars,
       queueVars, pauseVars, flushVars
  <2> QED BY <2>1 DEF Fresh, Holds
<1>5. CASE Pause
  BY <1>5 DEF Pause, Fresh
<1>6. CASE PauseIngress
  <2>1. pauser # "idle" /\ UNCHANGED pausing
    BY <1>6 DEF PauseIngress, PauseFlush, AwaitConsumer
  <2> QED BY <2>1 DEF Announced, Fresh
<1> QED BY <1>1, <1>2, <1>3, <1>4, <1>5, <1>6 DEF Next, Running

LEMMA KeptKept ==
  ASSUME Kept, Announced, [Next]_vars
  PROVE  Kept' /\ Announced'
<1>1. CASE FlushMatching \/ FlushTake \/ FlushTaken \/ FlushPut
  BY <1>1 DEF FlushMatching, FlushTake, FlushTaken, FlushPut, Kept, Announced, pauseVars
<1>2. CASE \/ \E s \in Senders : Call(s) \/ OnIngress(s)
           \/ Start \/ Begin \/ Take \/ Return \/ Leave \/ Cancel \/ UNCHANGED vars
  <2>1. UNCHANGED <<keep, flusher, pausing, pauser>>
    BY <1>2 DEF Call, OnIngress, Try, Send, GiveUp, Overflow, FlushIngress, Wait, Start, Begin,
       Take, Return, Leave, Cancel, vars, pauseVars, flushVars
  <2> QED BY <2>1 DEF Kept, Announced
<1>3. CASE Pause
  BY <1>3 DEF Pause, Kept, Announced, flushVars
<1>4. CASE PauseIngress
  <2>1. pauser # "idle" /\ UNCHANGED <<keep, flusher, pausing>>
    BY <1>4 DEF PauseIngress, PauseFlush, AwaitConsumer, flushVars
  <2> QED BY <2>1 DEF Kept, Announced
<1> QED BY <1>1, <1>2, <1>3, <1>4 DEF Next, Running

-----------------------------------------------------------------------------
(* The invariant and its theorems *)

LEMMA TypesAndOrderKept ==
  ASSUME Types, Order, [Next]_vars
  PROVE  Types' /\ Order'
<1>1. CASE \E s \in Senders : Call(s) \/ OnIngress(s)
  BY <1>1, SenderSteps, Keeps
<1>2. CASE Pause \/ PauseIngress
  BY <1>2, PauseSteps, Keeps
<1>3. CASE Start \/ Begin \/ Return \/ Leave \/ Cancel
  BY <1>3, QuietSteps, Keeps
<1>4. CASE Take
  BY <1>4, TakeStep
<1>5. CASE FlushMatching \/ FlushTake \/ FlushTaken \/ FlushPut
  BY <1>5, MatchingStep, TakeBackStep, TakenStep, PutStep
<1>6. CASE UNCHANGED vars
  <2>1. Still /\ UNCHANGED <<calls, newest, consumer, pauseVars, flushes>>
    BY <1>6 DEF vars, sendVars, queueVars, takeVars, flushVars, Still
  <2>2. Places' /\ Flags'
    BY <2>1 DEF Still, Types, Places, Flags, pauseVars
  <2> QED BY <2>1, <2>2, Keeps DEF Types, Counts, Still
<1> QED BY <1>1, <1>2, <1>3, <1>4, <1>5, <1>6 DEF Next, Running

LEMMA InitTypesAndOrder == Init => Types /\ Order
<1> SUFFICES ASSUME Init PROVE Types /\ Order
  OBVIOUS
<1>1. ingress = <<>> /\ keep = <<>> /\ flusher = "idle" /\ ~disordered
  BY DEF Init
<1>2. DOMAIN ingress = {} /\ DOMAIN keep = {} /\ Len(ingress) = 0
  BY <1>1
<1>3. Tickets
  BY <1>1, <1>2, ChannelsAssumption DEF Tickets, ChannelsAssumption
<1>4. Counts /\ Places /\ Flags
  <2>1. Counts
    BY DEF Init, Counts
  <2>2. calls \in [Senders -> {"idle", "try", "flush", "wait"}]
    BY DEF Init
  <2>3. Places
    BY <2>2 DEF Init, Places
  <2>4. Flags
    BY Zenon DEF Init, Flags
  <2> QED BY <2>1, <2>3, <2>4
<1>5. Order
  BY <1>1, <1>2 DEF Order, Sorted, Above
<1> QED BY <1>3, <1>4, <1>5 DEF Types

\* For any senders, capacity and bounds, every variable keeps its type and the
\* queue never holds more than its capacity.
THEOREM TypeCorrect == Spec => []TypeOK
<1>1. Types /\ Order /\ [Next]_vars => Types' /\ Order'
  BY TypesAndOrderKept
<1> QED BY <1>1, InitTypesAndOrder, TypesAreTypeOK, PTL DEF Spec

\* Through overflows, pauses and policies, packets are handled in the order they
\* entered the queue as long as nobody uses the queue while a policy is applied.
THEOREM HandledInOrder == Spec => []InOrder
<1>1. Types /\ Order /\ [Next]_vars => Types' /\ Order'
  BY TypesAndOrderKept
<1>2. Order => InOrder
  BY Zenon DEF Order, InOrder
<1> QED BY <1>1, <1>2, InitTypesAndOrder, PTL DEF Spec

\* A pause that found its consumer begun is quiet for ever: no handler runs when
\* it calls back, or after.
THEOREM PauseIsQuiet == Spec => []QuietAfterPause
<1>1. Init => QuietAfterPause
  BY DEF Init, QuietAfterPause
<1>2. QuietAfterPause /\ [Next]_vars => QuietAfterPause'
  <2> SUFFICES ASSUME QuietAfterPause, [Next]_vars, pauser' \in {"sweep", "paused"}, ~tardy'
               PROVE  consumer' = "returned"
    BY DEF QuietAfterPause
  <2>1. CASE AwaitConsumer
    <3>1. ConsumerGone /\ tardy' = (consumer \in {"none", "spawned"}) /\ UNCHANGED consumer
      BY <2>1 DEF AwaitConsumer, takeVars
    <3>2. consumer \notin {"none", "spawned"}
      BY <3>1, Zenon
    <3> QED BY <3>1, <3>2 DEF ConsumerGone
  <2>2. CASE Pause \/ PauseFlush("flush", "await")
    <3>1. pauser' \in {"idle", "flush", "await"}
      BY <2>2 DEF Pause, PauseFlush
    <3> QED BY <3>1
  <2>3. CASE PauseFlush("sweep", "paused")
    BY <2>3 DEF PauseFlush, QuietAfterPause, takeVars
  <2>4. CASE Start \/ Begin \/ Take \/ Return \/ Leave \/ Cancel
    BY <2>4 DEF Start, Begin, Take, Return, Leave, Cancel, QuietAfterPause, takeVars, pauseVars
  <2>5. CASE \/ \E s \in Senders : Call(s) \/ OnIngress(s)
             \/ FlushMatching \/ FlushTake \/ FlushTaken \/ FlushPut
    BY <2>5 DEF Call, OnIngress, Try, Send, GiveUp, Overflow, FlushIngress, Wait,
       FlushMatching, FlushTake, FlushTaken, FlushPut, QuietAfterPause, takeVars, pauseVars
  <2>6. CASE UNCHANGED vars
    BY <2>6 DEF vars, QuietAfterPause, takeVars, pauseVars
  <2> QED BY <2>1, <2>2, <2>3, <2>4, <2>5, <2>6 DEF Next, Running, PauseIngress
<1> QED BY <1>1, <1>2, PTL DEF Spec

\* For any number of senders, any capacity, and policies applied in between: until
\* the pause begins, a queue with nobody about to send and no policy at work is
\* empty only when the newest packet was handled or taken out by a policy.
THEOREM NewestIsHeard == Spec => []NewestHeard
<1>1. Types /\ Order /\ Fresh /\ Kept /\ Announced /\ [Next]_vars
      => Types' /\ Order' /\ Fresh' /\ Kept' /\ Announced'
  BY TypesAndOrderKept, FreshKept, KeptKept
<1>2. Init => Fresh /\ Kept /\ Announced
  BY DEF Init, Fresh, Kept, Announced
<1>3. Fresh /\ Kept /\ Types => NewestHeard
  <2> SUFFICES ASSUME Fresh, Kept, Types, ingress = <<>>, ~pausing, flusher = "idle",
                      \A s \in Senders : calls[s] \in {"idle", "try"}
               PROVE  newest
    BY Zenon DEF NewestHeard
  <2>1. ~Holds(ingress) /\ ~Holds(keep)
    <3>1. DOMAIN ingress = {} /\ DOMAIN keep = {}
      BY DEF Kept
    <3> QED BY <3>1 DEF Holds
  <2>2. \A s \in Senders : calls[s] \notin {"flush", "wait"}
    OBVIOUS
  <2> QED BY <2>1, <2>2, Zenon DEF Fresh
<1> QED BY <1>1, <1>2, <1>3, InitTypesAndOrder, PTL DEF Spec
=============================================================================
