# Rapida: a verification of the voice-session runtime

Rapida runs voice assistants: a caller reaches the assistant API over SIP, a
telephony provider, WebRTC or a web socket; one session object per conversation
turns speech into text, text into requests to a language model, and the answers
into speech. This directory holds TLA+ specifications of the concurrent parts of
that system, the TLC configurations that model-check them, and proofs checked by
TLAPS. `PROJECT.json` is the machine-readable index: components, runs, mutants,
the map from definitions to source lines, findings, hazards and theorems.

Abbreviations for paths below: `A` is `src/api/assistant-api`, `I` is
`A/internal`, `H` is `I/adapters/internal/dispatch_handler.go`.

## 1. Inventory

### The session (I/adapters)

One `genericRequestor` per conversation. Its goroutines are the Talk loop that
reads the streamer, six dispatchers that each drain one channel (control,
bootstrap, ingress, egress, data, background), one goroutine per packet that is
marked asynchronous, two deadlines, and the goroutines of the executors.
Everything is a packet: a handler runs on the dispatcher of its packet's route
and enqueues further packets, also on other routes. State shared by the
dispatchers without a lock: the executor fields. State under locks: the session
state machine, the message state machine with the current context id, the
routing policy, the watchdogs.

| Part | State | Operations | What is hard | What makes it correct |
|---|---|---|---|---|
| session lifecycle, boot and teardown (`lifecycle/session_lifecycle.go`, `internal/stream.go`, H 1780-3346) | session state; executor fields; deadlines | connect, five serial stages, executors in parallel, mode switches, errors, finalizer chain | the boot chain, a switch and a teardown overlap; slow goroutines outlive what started them; any handler may hang | admission before service; nothing left open; a disconnect always ends the session |
| channels (`channel/channel.go`) | six bounded queues; the ingress pause | enqueue, run, pause, flush | pause against run; a full queue; handlers that enqueue on their own route | a pause neither loses the chain nor waits for ever |
| message turn and routing (`lifecycle/message_lifecycle.go`, `router/`, H 46-1413) | message state, context id, mode; policies | user text, speech, interruption, answers, tool calls, injected messages | an interruption renames the turn while its packets are in three queues | an answer reaches the user only in its own turn; input blocked by a greeting is unblocked |
| watchdogs (`I/watchdog`) | timer, generation, count | start, extend, stop, expire | an expiry that has fired but is not handled when the user speaks | a stale expiry has no effect |
| end-of-speech detection (`I/end_of_speech`) | current segment; worker with one timer and a command queue | transcript, activity, interruption, timeout | commands carry a copy of the segment; timer against queue | what was said is passed on once, whole |
| output aggregation, normalizers (`I/normalizer`) | buffered text per context | text, done, interruption | text of a cut turn left in the buffer | sentences in order, of one turn |
| executors: speech, activity, noise, authentication, recorder (`I/transformer`, `I/vad`, `I/denoiser`, `I/authentication`, `I/audio`) | a connection or native state each | initialize, execute, close | close against a running execute | closed exactly once |

### The language-model executor (I/llm/model)

Keeps one bidirectional stream to the integration API for the whole session, the
conversation history, and at most one *tool block*: an assistant message whose
tool calls still wait for results. One goroutine per user turn and per tool
result, one listener, interruptions from the control dispatcher. Hard: answers,
tool results and interruptions arrive in any order and for turns that are over.
Correct when the history stays one the providers accept (calls directly followed
by exactly their results), nothing enters twice, and the latest turn always gets
an answer or an error. `agentkit`, `websocket` and `agentflow` are alternatives
with the same interface and are not modelled.

### SIP (A/sip)

*Registration*: every instance of the assistant API polls the phone deployments;
for each number the instance that owns a lease in Redis sends REGISTER and
renews it. State: lease, local registrations and renewal loops per instance, the
status and retry count stored with the deployment. Hard: lease expiry between
the round trips of a claim, crashes, shutdown beside a running reconcile.
Correct when two instances never both hold a number, and a crashed holder is
replaced.

*Inbound calls* (`sip/internal/core`): one goroutine, `HandleInvite`, takes a call
from its INVITE to its answer; CANCEL, ACK and BYE have handlers of their own,
the application is prepared for the call before it is answered, and a media
timeout watches it afterwards. State: the pending INVITE and the mark of a
CANCEL, the session with its state, BYE callback and RTP handler, the server's
table of sessions and of lifecycles, the prepared application. Hard: all of them
may end the call, at any point of the setup and at the same time. Correct when an
INVITE has one final response, a connected caller hears of the end, and nothing
of the call is left. Outbound calls, transfers and bridging are separate parts,
as is *media* (RTP, jitter buffer).

### Around them

Channel pipelines and streamers (`A/internal/channel`), the call context store
(a conditional update claims a pending call), tools, observability, variables
and conditions, the CRUD services of the assistant, endpoint, web and document
APIs, the integration API (the service end of the chat stream), shared packages,
the user interface, SDKs and generated protocol code. `PROJECT.json` lists each
with its status and the reason when it is not modelled.

### Interactions

    streamer --Recv--> Talk loop --bootstrap ch--> boot chain --> executors
        ^                  |                          |
        |                  +--ingress ch--> turn --> LLM executor --egress ch--+
        +------------------------- Notify <------------------------------------+
    SIP INVITE --> registration's number --> inbound call --> streamer --> session

The session hands the LLM executor user turns, interruptions and tool results;
`ModelExecutor` takes these as its environment. `Session` sees every executor
only through creation, replacement and Close. `Registration` shares no state
with the others: it decides at which instance calls arrive. `EndOfSpeech` is an
executor of the session seen from inside: the ingress dispatcher feeds it
transcripts, and what it reports comes back as the user's turn. `Turn` is the
session between boot and teardown: it has the language model, the recognizer,
the detector and the speech provider as what they hand back. `Channels` is one of
the queues between them, with its limits. `InboundCall` is what carries a session
over SIP: the session's Talk is its application.

## 2. Modules

| Module | Models |
|---|---|
| `SessionLifecycle` | the transition table of the session state machine, as operators |
| `SessionContract` | abstract specification: what a session promises its host process |
| `Session` | one session: Talk loop, bootstrap, data and egress dispatchers, asynchronous handlers, ingress consumer, deadlines |
| `ConversationHistory` | the history and its tool block, as operators on a record |
| `ModelExecutor` | the LLM executor around that history |
| `Registration` | the lease, the reconcile, the renewals and the shutdown of a SIP number |
| `EndOfSpeech` | the silence based end-of-speech detector: its segment, command queue, worker and timer |
| `MessageLifecycle` | the transition table of a message and its context id, as operators |
| `Watchdog` | a generation-guarded timer, as operators |
| `Turn` | the turns of a conversation: control, ingress and egress dispatchers, the model, the recognizer, the provider, two watchdogs |
| `Channels` | the ingress channel: senders, overflow, pause, policies |
| `InboundCall` | one inbound SIP call: HandleInvite, the caller's requests, the application, the media timeout, the teardown |
| `MCSession`, `MCModelExecutor`, `MCRegistration`, `MCEndOfSpeech`, `MCTurn`, `MCChannels`, `MCInboundCall` | instances for TLC |
| `SessionProofs`, `HistoryProofs`, `ModelExecutorProofs`, `RegistrationProofs`, `EndOfSpeechProofs`, `TurnProofs`, `ChannelsProofs`, `InboundCallProofs` | theorems and proofs |

### Session

`life` is `sessionLifecycle.state`, `mode` the mode of the message lifecycle.
`exec[c]` keeps apart the instance a field points to (`ptr`, 0 for nil) and the
instances that were not closed (`open`): the leaks of this code are instances
that are open and that nothing points to. `bootstrapCh` is the bootstrap
channel; `sending` what the running handler has still to enqueue, one packet at
a time, so that other producers get in between and a full channel blocks the
handler. `tasks` counts the goroutines of asynchronous packets. `fin` is the
position in the finalizer chain; that Close and the clearing of the field are
two steps (`finNil`, the tasks `"clear"`) is what lets a successor be cleared.

One action per handler, named after it: `HandleStage` stands for the four serial
stages that have the same shape (assistant, conversation, runtime,
authentication), `HandleInit(c)`, `HandleSwitchInit(c)` and `Finalize` for the
handlers that exist once per executor. `Connect`, `Disconnect`/`Leave` are
OnConnect and OnDisconnect (the transition and the deadline first, the enqueue
afterwards). The connect deadline is three steps: its goroutine reads the state
(`ConnectDeadline`), queues records on the background channel and sends the error
and the disconnection through the streamer (`ConnectNotify`), which may both wait
without limit, and then cancels the session (`ConnectAbort`). The disconnect
deadline cancels at once. Handlers of packets that leave
this state alone (telemetry, messages, webhooks) are not actions.

### ConversationHistory and ModelExecutor

The history is a record: messages, and the tool block's state, context, request,
expected calls and results. A message is its role, the request it belongs to and
the ids of its calls. Each operator is one critical section of the mutex in
`history.go`. `ModelExecutor` has one action per critical section of its
goroutines: `Begin`, `SendChat`, `RecordUser` are the three of a user turn (the
message is recorded only after the send), `Receive` and `Respond` the two of the
listener, `Accept`, `Flush`, `FollowUp` the three of a tool result. `owed`,
`cut`, `dropped` and `overtaken` are history variables the properties need.

### Registration

One number, any set of instances, each polling at its own phase. A step is one
round trip: `Claim` (SETNX), `Get`, `Extend` (EXPIRE), `Release` (GET) and
`Delete` (DEL) are separate. `lease.left` says how many polls of its owner the
lease outlasts for certain: `Claim` and `Extend` set it to `LeaseTTL`, each poll
of the owner takes one (`Pass`), and once none is left, or the owner is down,
`Lapse` may take the key away at any moment, between SETNX, GET and EXPIRE as
well. A reconcile that takes half a poll interval or more is a fault of its own
(`Overrun`). When a binding at the registrar expires is left open: a renewal, a
failure or a new REGISTER may come whenever the instance has one. `local` is an
`activeRegistration`; `notice` the event of the renewal loop the observer has
not handled; `Stop` runs beside the reconcile. `missed` is a history variable:
the instances whose reconcile failed to refresh a lease of theirs, was late, or
extended a key that was not theirs any more, and those whose lease a peer
deleted. Only a SETNX that succeeds, or an EXPIRE that finds the instance's own
key, takes an instance out of it.

Assumed, and stated at the head of the module: the registrar refuses a REGISTER
overtaken by a later one of the same binding; the status and the retry count are
written together; a failed write of the status, and the second of the two
reconciles at startup, are left out. The constant assumption `LeaseTTL >= 2` is
the code's choice of two poll intervals (`types.go`): with 1 the lease may lapse
between two reconciles.

### EndOfSpeech

Transcripts are numbered, so a text is the span of numbers it was put together
from: `segment` is `state.segment`, and the commands on `commandCh` carry spans,
since what the properties ask of a command is which words its copy holds. Every
input handler is two steps, as in the code: it copies the segment under the
mutex (`Transcript`, `Prolong`, `Interrupted`) and queues the copy afterwards
(`IngressPuts`, `GoroutinePuts`), where it may wait for room. The ingress
dispatcher handles one packet at a time; each interruption has a goroutine. The
worker's report is three steps (`Fire`, `Emit`, `Reset`) because the mutex is
free between them. `told`, `doubled`, `skipped`, `open` and `slipped` are history
variables. Typed text is left out: `HandleUserText` goes around the detector.

### Turn

`turn` is the message state and the context id, `queues` what is queued on the
three routes that matter here, `ignored` the routing policy. One action per
handler, named after it. A handler is one step, with one exception: the egress
dispatcher compares the context of an output with the current one and uses it
afterwards, so `Check` moves a packet into `hand` and a second step delivers it
while the control dispatcher may have ended the turn. `requests`, `tools` and
`voice` are what the model, the tools and the speech provider work on; `idle` and
`completion` the two watchdogs, whose expiry is a packet that can be queued
behind anything. The result of an action may end the conversation
(`HandleLLMToolResult` with the argument "end": END_CONVERSATION, or a transfer
that comes back with `end_call`): the client is told to leave, the model is not
told, and no idle timeout starts. `owed`, `late` and `failed` are history
variables.

Abstractions: the three policies of a greeting, handed over in one call, are one
packet; an answer is a text and its end, emitted together; a text is its context;
the interruption of the model takes effect in `Cancel` and that of the provider
in `Silencing`, each in a goroutine of its own; turns are announced to the
recognizer from goroutines in any order, so it may know any context up to the
current one. Not modelled: interim transcripts, events of speech begin and end,
raw audio behind the recognizer, the expiry of the maximum session, a mode switch
in the middle of a turn. Queues are unbounded: their limits are `Channels`'.
The idle timeout does not expire while the turn it was started for is being
spoken: each piece of audio extends it (H 1115).

`PromptControl` is the one assumption on speed: the control dispatcher handles an
interruption before the silence after the utterance that caused it is over. The
detector waits for hundreds of milliseconds, and the control dispatcher has short
handlers. With FALSE, *RestIsWatched* fails, and rightly so: the utterance is
passed on, its own interruption then renames the turn, stops the idle timeout
and cancels the request, and nothing is left to break the silence.

### Channels

A step is one operation on a Go channel: the look at the pause, the attempt to
send, each packet `flushChannel` drops, the wait for room. A `select` may take any
case that is ready, so a sender past its first look at the pause may still send.
A policy takes the packets it matches out of the queue and puts the others back
at the end (`FlushTake`, `FlushPut`), holding them meanwhile. Packets carry the
order in which they entered the queue. The dispatcher is a sender too, from its
handlers; `tardy` marks a pause that looked for the consumer before it had begun.

### InboundCall

`at` is where HandleInvite stands, one action per stretch between two points at
which somebody else can interfere. Each look at `isInviteCancelled` is a step of
its own (`GoOn` when it finds nothing), and a CANCEL may come while the part behind
it (`Part`) runs, whose outcome does not depend on it. FailCall, CancelCall and EndCallWithReason are
called by five actors; `closing[a]` says where actor `a` is in them: what it
decided on its look at the session (`FailCall`, `CancelCall`, `EndCall`), the
state it sets (`MarkFailed`, `MarkCancelled`, `MarkEnding`), and Session.End,
which only the first goes through (`End`, `Disconnect`, `StopMedia`, `Forget`).
`pending` and `cancelled` are the tables that CANCEL and the answer settle their
race by, `finals` the final responses sent, `hook` the callback that sends the
BYE. The lifecycle of the server and the state of the session are two state
machines with different tables, and both are kept.

Abstractions, stated at the head of the module: a check and the write after it in
TransitionCall, the lookups of a CANCEL once it terminated the INVITE, and taking
the callback and sending the BYE are one step each; the caller sends at most one
ACK, CANCEL and BYE, a BYE possibly before the answer. Left out: re-INVITE and
UPDATE, retransmissions and the replay of a rejected INVITE, hold, transfer and
bridge, the stop of the server.

## 3. Runs

Each run ends within two to three minutes on two cores.

| Run | Question | Bounds, and why they suffice |
|---|---|---|
| `session` | Do admission, teardown, deadlines and the contract hold in every interleaving? | `stt` (on the dispatcher), `vad` (in a goroutine), `llm` (only finalizers close it): one executor of each kind the handlers distinguish. One switch request; both deadlines can expire. The channel never fills (12 places, at most 9 packets): a full channel is the matter of `Channels`. |
| `session_drains` | Does every disconnect drain, every switch settle, every failure end the session, without help of the deadlines? | `eos` (goroutine at boot, dispatcher when switching) and `auth` (may refuse). Two requests: one is refused while the other runs. |
| `model` | Is the history always acceptable, and does a block enter once? | two inputs, two calls: a block with two results, two blocks, a block against a later turn |
| `model_progress` | Does the latest turn conclude and a resolved block go back? | two inputs, one call |
| `registration` | Can two instances hold one number? | two instances, two faults (failed loads, lease operations, unregistrations or late reconciles), two crashes or shutdowns, one deployment: a claim, a lapse between any two round trips, a take-over, the return of the first and two holders at once, one of which missed its lease. `MaxRetries` 1: retry counts do not touch the lease. Symmetric in the instances. |
| `registration_progress` | Is a number taken over and given up? | no faults, one crash or shutdown; no symmetry, which is unsound for liveness |
| `registration_delete` (violation) | Does an instance delete only its own lease? | one shutdown |
| `end_of_speech` | Is every transcript reported exactly once, does every turn end, does Close strand anybody? | three transcripts and three prolongations on a queue of two: two utterances, one of several transcripts, copies that overtake each other, and senders that wait for room |
| `turn` | Are inputs answered in their turn, is what a greeting blocks heard again, is a silent session watched? | Three openings (a greeting that may not be interrupted, a typed text, something said), then one event of any kind on top: a text, speech, voice activity, a tool call of three sorts, one of which may end the conversation, a failing model, a lost provider, an idle timeout that is not the last (`Backoff` 1: the first asks the user, the second ends the session) and a speech-completion watchdog that expires while the provider still plays. One event already meets the opening input in all its stages; two of them are beyond the checking time. |
| `turn_idle` (violation) | Does the idle timeout, stopped by the user, spare the user's turn? | as `turn` |
| `channels` | Is order kept, does the newest packet survive an overflow, is a pause final, does everyone get out? | two producers and the dispatcher as senders, two places, four packets, one policy: two senders that find the queue full at once, a queue refilled while a policy holds its packets, a pause that meets a handler waiting for room. |
| `call` | Is an INVITE answered or refused but not both, does a connected caller hear of the end, does a call leave nothing, does every call and accepted CANCEL conclude? | one call, every failure of its setup, at most one ACK, CANCEL and BYE each: two calls share nothing but the server's tables, under different keys. |

Bounds named in the modules: `MaxRequests`, `MaxInputs`, `MaxCalls`,
`MaxDeployments`, `MaxFaults`, `MaxStops`, `MaxSaid`, `MaxProlong`, `MaxEvents`,
`MaxSent`, `MaxFlushes`, and the capacities `QueueCap`, `Capacity` and
`BootstrapCap`. Deadlock is not checked: a session or a call that ended, a closed
executor or detector, a paused channel and a system whose bounds are used up do
nothing more.

### What the properties say

*AuthGate*: no user input is consumed, and no session reports itself ready,
before all five stages succeeded; the failure of a stage is queued behind
nothing that could overtake it. *OrderlyTeardown*: a disconnect that found
nothing in progress leaves no executor open (the denoiser apart, see the
findings). *MediaMatchesMode*: a settled session has the executors of its mode.
It is stated for at most one switch request and, in text mode, for the executors
created on the dispatcher, because of two stories TLC finds otherwise:

- *A slow creation outlives the switch.* At boot VAD is created in a goroutine
  of its own. The session becomes ready while it runs; the client switches to
  text; the finalizer of VAD finds the field nil and does nothing; then the
  goroutine installs its VAD into a session that is in text mode. It stays open
  until the disconnect.
- *A slow finalizer clears its successor.* The client switches to text and back.
  The goroutine that finalizes STT has closed the old instance and not yet
  cleared the field (H 2758); the switch back installs a new one; the goroutine
  sets the field to nil. The new instance is open for ever, and the session is
  in audio mode and hears nothing.

*KeepsContract*: `Session` implements `SessionContract` under the mapping
`phase`, `serving`, `Admitted`. *DisconnectEnds*: its deadline cancels the session
whatever handler, queue or streamer hangs. *ConnectEnds* says less, because the
code does: a session does not stay in initialization for ever, unless the
deadline's own goroutine is held up for ever in what it sends before it cancels
(stream.go:285 to 318). *DisconnectDrains*, *SwitchSettles*, *FailureEnds*:
without the deadlines.

*HistoryIntegrity*: `validateHistorySequence` never refuses a request.
*BlockOnce*: each request's answer and its results enter the history once, and
never when the user cut the turn off while the block was open. *TurnConcluded*:
the latest turn is answered or reports an error. It excepts the turn whose
goroutine was overtaken by that of an earlier one: the earlier context then
stays current, the answer to the later turn is dropped as stale, and nothing
reports it. *ResolvedFlushed*: a complete block goes back to the model.

*SoleHolder*, *HolderOwns*: an instance that did refresh its lease, in time, owns
it and has some of it left until its next poll, so no two such instances hold the
number. That is all the code gives. An instance that did *not* (Redis down,
records not loaded, a late reconcile, lease deleted by a peer, or lapsed between
GET and EXPIRE) goes on renewing its registration, and a peer that finds the key
gone registers the number as well; nothing in the code ends a registration
because the lease is gone. The properties except these instances (`missed`), and
the run does reach two holders at once: the properties do not say that this
cannot be, they say which instance is to blame, and that it is always one of
these. *TakeOver*, *Removed*: a crashed holder is
replaced, and a withdrawn number is given up.

*ExactlyOnce*: three races can make the detector repeat or lose words. A copy
queued while the timer fires is taken after the reset; an older copy overtakes
the newer one the worker waits on; a transcript that comes during the report is
wiped by the reset. `slipped` records the step at which one of them happens, and
the property says that there is no fourth: without them each transcript is
reported once, in order, and none is left when the detector comes to rest.
*TurnEnds*, *Released*: in any race the timer fires after a transcript, and Close
lets go of everyone.

*TurnAnswered*: a user's input is answered, an error is told or a tool ends the
conversation, unless something ends its turn. *AtMostOneLate*: an interruption lets at most one output of the
turn it ends through, the one the egress dispatcher had already checked; nothing
can follow it, since the next check sees the new context. *BlockLifted*: the
policies of a greeting that may not be interrupted are lifted, also when the
provider fails in the middle of it, by the speech-completion watchdog.
*RestIsWatched*: when nothing is under way the idle timeout runs, or the client
was told to leave. An error is excepted: HandleError takes the turn to
LLMGenerated and does not start the timeout, so a session whose model failed once
waits for its user without limit. *IdleSparesAnswer* is violated, see the
findings.

*InOrder*: what entered the queue first is handled first, through overflows and
pauses; only when a queue is used while a policy holds its packets can they be
overtaken, since they are put back at the end. *NewestHeard*: two senders may both
find the queue full and flush one after the other, the second the packet of the
first, but each sends after its own flush. So until the pause, and with nobody
about to send and no policy at work, an empty queue means that the newest packet
was handled, or dropped by a policy on purpose.
*QuietAfterPause*: when a pause has called back no handler runs. Excepted is a
consumer that has not begun when the pause looks for it (`tardy`): its goroutine
is spawned, the pause finds the `ingressPausedCh` of before, which is closed, and
goes on; the consumer then takes packets until its `select` picks the pause. *PauseEnds*: a pause ends though the handler it waits for
waits for room itself, and lets go of all who wait. *PolicyApplied*: the control dispatcher gets out of a policy. Excepted
is an ingress dispatcher that waits for room in its own queue, which nobody else
empties. Not modelled, and visible in the code: a policy whose target travels on
the control channel makes the control dispatcher put packets back into the
channel it alone drains; if producers have refilled it, it waits for itself. OnControl and OnEgress
wait for room too, without the overflow and the pause.

*AnswerIsFinal*: the 200 is never joined by a refusal; `terminatePendingInvite` and
`beginPendingInviteFinalResponse` settle the race under one lock. *ByeOwed*: the
teardown of a connected call sends a BYE, unless the caller's came or somebody
had decided on a quiet end while the call was unanswered: FailCall and CancelCall
take that decision before they change the state, and an ACK may come in between.
*NothingLeft* names two ways in which something is left, see the findings.
*CallConcludes*: HandleInvite ends and the INVITE has a final response, but for the
answer that a CANCEL overtook; an accepted CANCEL ends the call.

### Fairness

- `WatchdogSpec` (Session): only those steps of the deadline goroutines that wait
  for nothing (`Unblocked`): the look at the state, and the cancellation. What the
  connect deadline sends in between has no fairness, since a full channel or a
  stuck streamer may hold it up; every handler may hang.
- `HandlerSpec` (Session): every goroutine of a session that is not cancelled
  makes progress, a client told to disconnect does (the streamer's Recv returns
  it), and the ingress consumer eventually takes its pause: Go's `select` picks
  at random among ready cases, hence strong fairness there.
- `FairSpec` (ModelExecutor): goroutines run, and the service answers what it
  was asked. Nothing of users, tools, the network or the session.
- `FairSpec` (Registration): instances that are up poll, a lease that has run out
  lapses, and a reconcile or shutdown that runs goes on. Nothing of users, of renewals, or that an instance comes back.
- `FairSpec` (EndOfSpeech): goroutines run, and a sender gets its turn (Go serves
  the senders of a channel in order). Input is bounded: a user who makes noise
  without end keeps the timer from firing, as intended. Nobody must speak or close.
- `FairSpec` (Turn): dispatchers, goroutines and timers run, and the model, the
  tools, the recognizer and the provider answer what they were given, unless the
  provider's connection is lost. The user need not do anything.
- `FairSpec` (Channels): some goroutine that can go on does. Nobody must send,
  and neither pause nor policy must come.
- `Fairness` (InboundCall): HandleInvite, handlers that have begun, the media
  timeout that fired and whoever is in the teardown go on, and Talk returns once
  its context is cancelled. Nobody must send anything, RTP need not stop, and the
  application need not end by itself.

### Mutants

Each property of a passing run has a mutant in the module, next to the
definition it changes (`...Mut`): a stage that is skipped, a finalizer left out,
a pause not seen, results that pile up, a block resolved by its first result, the
result of a SETNX that nobody reads, a lease without a TTL, a reset that keeps the
segment, a sender deaf to Close, a stale context taken for the current one, a
pause that does not wait, an answer that does not look at CANCEL. The property
fails under it.

## 4. Theorems

| Theorem | Argument |
|---|---|
| `SessionProofs!TypeCorrect` | inductive by itself, for any set of executors and any bounds |
| `SessionProofs!AdmittedBeforeServed` | AuthGate is not inductive: a packet could be queued ahead of what it presupposes. The invariant says of every packet in the channel, and in what the handler still has to send, which stages are established, and that the stages are established in order. |
| `SessionProofs!TeardownComplete` | four facts behind OrderlyTeardown: at most one finalizeInbound is ever queued, and none is after the pause (`Once`); instances are numbered from 1 (`Numbered`); after an orderly pause only the chain of finalizers touches an executor, and those it has passed are closed (`Undisturbed`); the session is disconnected at the chain's end only (`LastStep`). Every executor but the denoiser is in the chain. |
| `SessionProofs!ContractKept` | every step of `Session` is a step of `SessionContract` or a stutter under the mapping. Initialization is one thread of packets, so a stage is reported once and in order (`OneThread`); deadlines and departures belong to sessions begun or closing (`Timely`); admission is AuthGate's invariant. |
| `SessionProofs!MediaFollowsMode` | MediaMatchesMode looks at a settled session, and the reason lies in how it came there. The invariant says of a session that had no failure, is not closing and was asked to switch at most once (`Clean`; a session that is clean was so before) four things (`Sane`). The queues are tidy: each job of a chain is in the channel, or still to be sent, once, and before the packet that ends the chain (`Tidy`). A packet belongs to its phase: when the session is ready no job is queued, though goroutines may still run (`Phase`). The one request is queued, or was answered (`Ask`). And each media executor has one job at most, on the queue or in a goroutine, and one instance at most: it is unstarted, being created, created, being closed, or closed, by the mode it was configured in and by whether the switch was accepted (`Job`). Of VAD, EOS and the denoiser nothing is claimed after a switch to text: their creation may still run in a goroutine, the first of the two stories above. |
| `HistoryProofs!FlushToolBlockGood` and lemmas | each operator of the history keeps `ValidSequence` and the block's consistency; a block enters as a pair, calls with exactly their results |
| `ModelExecutorProofs!TypeCorrect`, `HistoryAlwaysValid` | by the lemmas; the block's consistency (`BlockOK`: resolved means all results) is the strengthening |
| `ModelExecutorProofs!AnsweredOnce` | BlockOnce looks at the history only. The invariant follows each answer through the places it can be in, the service, the listener, the block, the history, and says it is in one of them; one whose block was superseded is in none but that block (`OnePlace`). A user's message is recorded by the one goroutine that holds its request (`RecordedOnce`). |
| `RegistrationProofs!TypeCorrect` | inductive by itself |
| `RegistrationProofs!LeaseCoversHolder`, `OneHolder` | HolderOwns needs to know how long the lease lives. The invariant relates, per instance, the place of its reconcile to the lease. A sound instance that is not due has all of `LeaseTTL` left, since a poll takes one unit and makes it due; one that is due has some left, by `LeaseTTL >= 2` (`Covered`). One that is about to register has just claimed or extended the lease, unless it is in `missed` (`Refreshed`); what lies between SETNX and EXPIRE needs no clause: a lapse there needs a lease with nothing left, which a sound instance has not. What another instance does leaves this alone, as it touches a lease with an owner only by EXPIRE, which refreshes it, or by DEL, which is known (`Others`). `OneHolder` follows: the owner is one instance. |
| `EndOfSpeechProofs!TypeCorrect` | inductive by itself |
| `EndOfSpeechProofs!ReportedExactlyOnce` | ExactlyOnce says nothing of what is under way. The invariant says, until something slipped, that the segment starts right after what was reported last, that every copy on its way is spent or starts where the segment does, and that a segment not being reported is waited on in full or its newest copy is on its way. |
| `TurnProofs!OneLateOutput` | what is held was checked in a turn no late output is of (`HeldIsNewer`); nothing is assumed of what is queued |
| `TurnProofs!TypeCorrect` | inductive by itself, with the queues, requests and tool calls in it: a packet is for a turn that has begun. `WithoutKeeps` says what draining a queue leaves, by counting, and `FreshIdType` that there is a free number for a request, by the pigeonhole principle. |
| `TurnProofs!RestWatched` | RestIsWatched looks at a session with nothing left to do and says nothing of how it came there. The invariant (`Watched`) says that, unless the session is ending or an answer failed, the idle watchdog is armed and nothing queued stops it, or its start is queued behind every stop, or something that leads to a start is under way: a transcript, an input, a request of the current turn or the end of its answer, a tool call or its result, an expiry. Whatever takes one of these off leaves the next (`Persist` is for the steps that leave all of them alone). An interruption by a word stops the watchdog and needs `WordsAreSpoken`: the word's transcript is still to be read, which holds under `PromptControl` alone, the theorem's hypothesis. |
| `ChannelsProofs!TypeCorrect` | inductive by itself |
| `ChannelsProofs!HandledInOrder` | unless something overtook, the queue, and while a policy is applied what it holds together with the rest of the queue, is sorted by ticket and above the last ticket handled |
| `ChannelsProofs!NewestIsHeard` | until the pause the newest packet is handled, dropped by a policy, in the queue or held by the policy, unless a sender between its flush and its wait will send a newer one (`Fresh`) |
| `ChannelsProofs!PauseIsQuiet` | past the wait a consumer that had begun has returned, and none begins again |
| `InboundCallProofs!TypeCorrect`, `AnsweredOrRefused`, `EndIsAnnounced`, `CallLeavesNothing` | one invariant of five parts: types; before the session is registered nobody has anything to end (`EarlyInv`); a response before the answer leaves the INVITE marked as cancelled, so the answer will not begin, and once it has begun nothing terminates the INVITE (`AnswerInv`); the callback is armed from registration on and only the caller's BYE or a quiet decision clears it (`ByeInv`); an application is prepared only while HandleInvite is on its way to start it, and whoever takes finalResponseOnce has cleaned it up (`LeftInv`) |

Assumptions used: `SessionAssumption`, `BoundsAssumption`,
`RegistrationAssumption`, `EndOfSpeechAssumption`, `TurnAssumption`,
`ChannelsAssumption`, which TLC evaluates in the runs. Each theorem holds
for every value of the constants they allow, RestWatched for those with
PromptControl.

Model-checked only: every liveness property (fairness and ENABLED are beyond the
prover). Every invariant and every action property of a passing run, and the
refinement of `SessionContract`, is stated by a theorem.

## 5. Findings

1. *A lease is deleted that a peer has claimed.* `releaseOwner` reads and
   deletes in two round trips, and `Stop` runs it beside the reconcile.
   (`registration_delete`)
2. *An idle timeout ends the turn of a user who has just engaged.* Stopping it
   disarms the timer, not the expiry that is already queued, and its handler looks
   at no context. (`turn_idle`)

The properties that hold name their exceptions, and each exception is a story TLC
tells when it is removed:

- No finalizer of the disconnect chain closes the denoiser, whose native state is
  not garbage collected (OrderlyTeardown).
- A mode switch leaves an executor behind, or clears its successor
  (MediaMatchesMode, above).
- Words are repeated or lost in three races of the end-of-speech detector
  (ExactlyOnce). One of them arms the timer again after the utterance was
  reported.
- An instance reads its own name at GET, its key lapses, and the EXPIRE that
  follows finds nothing; its result is not read (owner.go:146) and the registration
  is kept. That takes a lease with nothing left, after one failed load for instance
  or after a restart. A peer then claims the number and registers it too (SoleHolder
  and HolderOwns, `missed`).
- A connect deadline that waits for room in the background channel, or in the
  streamer, never cancels the session (ConnectEnds).
- An answer with tool calls that comes after the interruption of its turn opens a
  block of that turn; its results are sent back to the model (BlockOnce speaks of
  blocks that were open when the turn was cut).
- Failed renewals and failed registrations share one retry count (status.go:119):
  after them a single transient failure is terminal.
- After an error of the language model no idle timeout runs (RestIsWatched).
- The minimum ring time and the preparation of the application leave time for the
  session to end. Prepare then lets the ended session adopt a new RTP handler,
  which nobody stops, though a comment at session.go:441 gives it to Session.End
  (NothingLeft, `lateMedia`).
- A CANCEL that is marked just before the answer begins makes HandleInvite return
  without cleaning up the application (inbound_call.go:277), and, when the CANCEL
  found the session already gone, without a final response (NothingLeft and
  CallConcludes, `overtaken`).
- An ACK that connects the call between the decision of FailCall and its effect
  leaves the caller connected without a BYE (ByeOwed, `quiet`); so does an ACK that
  never came: the call was answered, but its state is Ringing.
- An application that ends the call while it still rings does not stop the answer:
  HandleInvite looks at CANCEL only, and sends 200 for a session that has ended.
- A CANCEL whose 487 went out while HandleInvite is busy can be followed by a
  second final response when what it is busy with fails: of RejectInboundInvite
  before there is a session, of failBeforeAnswer afterwards (`finals` may hold both
  refusals). The next look at isInviteCancelled comes too late for that.
- A lifecycle entry that End has removed is made again by whoever is still in
  FailCall or EndCallWithReason (server_lifecycle.go:240), and stays; a CANCEL for
  an INVITE the server does not know leaves its mark (server_lifecycle.go:371).

## 6. Plan

The plan of the first version is built: Turn with its watchdogs, Channels, and
the inbound call. What is left, in order of weight:

1. The outbound leg of a call and the transfer (`outbound_dialog.go`,
   `pipeline/transfer.go`): two sessions bridged, either of which may end first.
2. A composition of Turn with ModelExecutor at the interface Turn now has in
   `requests`, and a refinement of Turn's queues by Channels.

## 7. Not modelled, and why

Signal processing, provider protocols, RTP timing, sentence splitting and template
evaluation are numeric or textual, and tested by tables. Observability is written
and never read back. The call context store and the CRUD services leave ordering
to the database and keep no state of their own. Front end, SDKs, generated
protocol code and deployment files hold no state of the runtime. Together these
are most of the repository's lines: of some 218 000 the generated protocol code
alone has about 60 000, and the handlers of the CRUD services and the clients of
some forty providers most of the rest, so the share of lines the modules cover
stays small however much of the runtime they model.

## 8. Use

`tlc -config MCSession.cfg MCSession` runs one configuration; `tlapm
SessionProofs.tla` checks one module of proofs.
