---------------------------- MODULE InboundCall ----------------------------
(***************************************************************************)
(* One inbound SIP call of the server in sip/internal/core: the goroutine  *)
(* of HandleInvite, which sets the call up and answers it, runs together   *)
(* with the handlers of CANCEL, ACK and BYE, with the application the call *)
(* is prepared for, and with the media timeout.  Any of them may end the   *)
(* session; Session.End tears it down once, for the first that gets there. *)
(*                                                                         *)
(* `at` is where HandleInvite stands; the other actors have a variable     *)
(* each.  `closing[a]` is where actor a stands in FailCall, CancelCall or  *)
(* EndCallWithReason, `teardown` what Session.End has still to do.         *)
(* `history` is read by the properties only.                               *)
(*                                                                         *)
(* Each of these is one step: a check and the write that follows it in     *)
(* TransitionCall, the lookups of a CANCEL after it terminated the INVITE, *)
(* taking the onDisconnect callback and sending the BYE.  The caller sends *)
(* at most one ACK, CANCEL and BYE; a BYE may come before the answer.      *)
(* Left out: re-INVITE and UPDATE, retransmissions and the replay of a     *)
(* rejected INVITE, hold, transfer and bridge, the stop of the server.     *)
(***************************************************************************)
EXTENDS Naturals

VARIABLES
  at, dialog, once,           \* HandleInvite, its dialog, finalResponseOnce
  pending, cancelled,         \* pendingInvites[key], cancelledInvites[key]
  finals,                     \* the final responses sent to the INVITE
  present, lifecycle,         \* sessions[callID], lifecycles[callID]
  state, hook, rtp, phase,    \* the session: state, onDisconnect, RTP, phase
  closing, teardown,          \* who ends the call, Session.End
  app, ack, cancel, bye, timeout,
  history

handler == <<at, dialog, once>>
invite  == <<pending, cancelled, finals>>
tables  == <<present, lifecycle>>
session == <<state, hook, rtp, phase>>
ending  == <<closing, teardown>>
others  == <<ack, cancel, bye, timeout>>
vars == <<handler, invite, tables, session, ending, app, others, history>>

Actors == {"handler", "cancel", "bye", "application", "timeout"}

CallStates == {"None", "Initializing", "Ringing", "Connected", "Ending",
               "Ended", "Failed", "Cancelled"}

Terminal == {"Ended", "Failed", "Cancelled"}

TypeOK ==
  /\ at \in {"Idle", "Offer", "Offering", "Config", "Configuring", "Session",
             "Opening", "Registered", "Dialling", "Ringing", "Allocated",
             "Preparing", "Starting", "Ready", "Waiting", "AnswerReady",
             "Answer", "Respond", "AwaitAck", "Unacked", "StartMedia",
             "Invite", "InviteFailed", "Cancelling", "Failing", "Return",
             "Done"}
  /\ dialog \in {"none", "open", "final"}
  /\ once \in BOOLEAN
  /\ pending \in {"none", "waiting", "answering"}
  /\ cancelled \in BOOLEAN
  /\ finals \subseteq {"answered", "terminated", "rejected"}
  /\ present \in BOOLEAN
  /\ lifecycle \in CallStates
  /\ state \in CallStates
  /\ hook \in {"none", "armed", "cleared", "sent"}
  /\ rtp \in {"none", "adopted", "stopped"}
  /\ phase \in {"setup", "answered", "flowing"}
  /\ closing \in [Actors ->
        {"idle", "end", "fail", "failQuietly", "cancel", "shut", "tearing"}]
  /\ teardown \in {"none", "hook", "media", "record", "done"}
  /\ app \in {"none", "starting", "prepared", "started", "closed"}
  /\ ack \in {"none", "marked", "confirmed", "done"}
  /\ cancel \in {"none", "marked", "found", "missed", "cancelling",
                 "ok", "refused"}
  /\ bye \in {"none", "found", "notified", "done"}
  /\ timeout \in {"off", "armed", "fired", "ending", "done"}
  /\ history \subseteq {"connected", "quiet", "lateMedia", "overtaken"}

Init ==
  /\ at = "Idle" /\ dialog = "none" /\ once = FALSE
  /\ pending = "none" /\ cancelled = FALSE /\ finals = {}
  /\ present = FALSE /\ lifecycle = "None"
  /\ state = "None" /\ hook = "none" /\ rtp = "none" /\ phase = "setup"
  /\ closing = [a \in Actors |-> "idle"] /\ teardown = "none"
  /\ app = "none"
  /\ ack = "none" /\ cancel = "none" /\ bye = "none" /\ timeout = "off"
  /\ history = {}

-----------------------------------------------------------------------------
(* The session and its lifecycle.                                          *)

\* Session.IsEnded; Session.Context() is done once End has cancelled it.
IsEnded == teardown # "none"
ContextDone == teardown \in {"record", "done"}

\* lifecycleTransitionAllowed, for the states of a call that is not held,
\* transferred or bridged.
LifecycleAllows(from, to) ==
  \/ from = "Initializing"
       /\ to \in {"Ringing", "Connected", "Ending", "Failed", "Cancelled"}
  \/ from = "Ringing" /\ to \in {"Connected", "Ending", "Failed", "Cancelled"}
  \/ from = "Connected" /\ to \in {"Ending", "Failed"}
  \/ from = "Ending" /\ to \in {"Ended", "Failed"}
  \/ from = "Failed" /\ to \in {"Ending", "Ended"}
  \/ from = "Cancelled" /\ to = "Ended"

Moved(from, to) == IF LifecycleAllows(from, to) THEN to ELSE from

\* getOrCreateLifecycle: an entry that has been removed starts again from
\* the state of the session.
Lifecycle == IF lifecycle = "None" THEN state ELSE lifecycle

\* Session.isValidTransition: terminal states are always reached.
SessionAllows(from, to) ==
  \/ to \in Terminal
  \/ from = "Initializing" /\ to \in {"Ringing", "Connected"}
  \/ from = "Ringing" /\ to \in {"Connected", "Ending"}
  \/ from = "Connected" /\ to = "Ending"

\* setCallState: the session follows when the lifecycle accepts.
SetCallState(next) ==
  LET accepted == Lifecycle = next \/ LifecycleAllows(Lifecycle, next) IN
    /\ lifecycle' = Moved(Lifecycle, next)
    /\ state' = IF accepted /\ SessionAllows(state, next) THEN next ELSE state

TransitionCall(next) ==
  IF IsEnded THEN UNCHANGED <<lifecycle, state>> ELSE SetCallState(next)

\* Mutant of PreAnswer: a connected call counts as unanswered.
PreAnswerMut == state \in {"Initializing", "Ringing", "Connected"}

\* shouldCancelPendingInvite, for an inbound session.
PreAnswer == state \in {"Initializing", "Ringing"}

\* ClearOnDisconnect: no BYE will be sent, unless it is already out.
Cleared == IF hook = "armed" THEN "cleared" ELSE hook

Quiet == IF state \in {"Initializing", "Ringing"} THEN {"quiet"} ELSE {}

\* FailCall, CancelCall and EndCallWithReason up to their first effect: an
\* ended session is left alone, and a call that is not answered yet is
\* ended without a BYE.
FailCall(a) ==
  LET how == IF IsEnded THEN "idle"
             ELSE IF PreAnswer THEN "failQuietly" ELSE "fail" IN
    /\ closing' = [closing EXCEPT ![a] = how]
    /\ history' = IF how = "failQuietly" THEN history \cup Quiet ELSE history

CancelCall(a) ==
  LET how == IF IsEnded THEN "idle"
             ELSE IF PreAnswer THEN "cancel" ELSE "end" IN
    /\ closing' = [closing EXCEPT ![a] = how]
    /\ history' = IF how = "cancel" THEN history \cup Quiet ELSE history

EndCall(a) ==
  closing' = [closing EXCEPT ![a] = IF IsEnded THEN "idle" ELSE "end"]

\* Mutant of MarkEnding: the lifecycle gets a state it does not know.
MarkEndingMut(a) ==
  /\ closing[a] = "end"
  /\ lifecycle' = "Terminating"
  /\ closing' = [closing EXCEPT ![a] = "shut"]
  /\ UNCHANGED <<handler, invite, present, session, teardown, app, others,
                 history>>

\* What each of the three does to the state before it calls Session.End.
MarkEnding(a) ==
  /\ closing[a] = "end"
  /\ lifecycle' = Moved(Lifecycle, "Ending")
  /\ closing' = [closing EXCEPT ![a] = "shut"]
  /\ UNCHANGED <<handler, invite, present, session, teardown, app, others,
                 history>>

MarkFailed(a) ==
  LET failed == Lifecycle = "Failed" \/ LifecycleAllows(Lifecycle, "Failed")
  IN
    /\ closing[a] \in {"fail", "failQuietly"}
    /\ lifecycle' = Moved(Moved(Lifecycle, "Failed"), "Ending")
    /\ state' = IF failed THEN "Failed" ELSE state
    /\ hook' = IF closing[a] = "failQuietly" THEN Cleared ELSE hook
    /\ closing' = [closing EXCEPT ![a] = "shut"]
    /\ UNCHANGED <<handler, invite, present, rtp, phase, teardown, app,
                   others, history>>

MarkCancelled(a) ==
  /\ closing[a] = "cancel"
  /\ SetCallState("Cancelled")
  /\ hook' = Cleared
  /\ closing' = [closing EXCEPT ![a] = "shut"]
  /\ UNCHANGED <<handler, invite, present, rtp, phase, teardown, app, others,
                 history>>

\* Session.End: only the first caller goes on.
End(a) ==
  /\ closing[a] = "shut"
  /\ IF IsEnded
     THEN /\ closing' = [closing EXCEPT ![a] = "idle"]
          /\ UNCHANGED <<teardown, state>>
     ELSE /\ closing' = [closing EXCEPT ![a] = "tearing"]
          /\ teardown' = "hook"
          /\ state' = IF SessionAllows(state, "Ending") THEN "Ending"
                      ELSE state
  /\ UNCHANGED <<handler, invite, tables, hook, rtp, phase, app, others,
                 history>>

\* Session.Disconnect: the BYE, unless the callback was cleared.
Disconnect(a) ==
  /\ closing[a] = "tearing" /\ teardown = "hook"
  /\ hook' = IF hook = "armed" THEN "sent" ELSE hook
  /\ teardown' = "media"
  /\ UNCHANGED <<handler, invite, tables, state, rtp, phase, closing, app,
                 others, history>>

\* End stops the media it finds and cancels the context.
StopMedia(a) ==
  /\ closing[a] = "tearing" /\ teardown = "media"
  /\ rtp' = IF rtp = "adopted" THEN "stopped" ELSE rtp
  /\ teardown' = "record"
  /\ UNCHANGED <<handler, invite, tables, state, hook, phase, closing, app,
                 others, history>>

\* The terminal state, then onEnded: the session leaves the server's maps.
Forget(a) ==
  /\ closing[a] = "tearing" /\ teardown = "record"
  /\ state' = IF state \in Terminal THEN state ELSE "Ended"
  /\ present' = FALSE
  /\ lifecycle' = "None"
  /\ teardown' = "done"
  /\ closing' = [closing EXCEPT ![a] = "idle"]
  /\ UNCHANGED <<handler, invite, hook, rtp, phase, app, others, history>>

Closing(a) ==
  \/ MarkEnding(a) \/ MarkFailed(a) \/ MarkCancelled(a)
  \/ End(a) \/ Disconnect(a) \/ StopMedia(a) \/ Forget(a)

-----------------------------------------------------------------------------
(* HandleInvite.                                                           *)

\* terminatePendingInvite(key, 487): once, and not after the answer began.
TerminatePendingInvite ==
  /\ pending' = IF pending = "waiting" THEN "none" ELSE pending
  /\ finals' = IF pending = "waiting" THEN finals \cup {"terminated"}
               ELSE finals

\* cleanupApplication: what is prepared, or was being prepared, is closed.
Discarded == IF app \in {"starting", "prepared"} THEN "closed" ELSE app

\* Mutant of Cleanup: the prepared application is left alone.
CleanupMut(a) == UNCHANGED <<app, closing>>

\* Streamer.Close ends a call that is past ringing, as cleanup closes it.
Cleanup(a) ==
  /\ app' = Discarded
  /\ IF app = "prepared" /\ state \in {"Connected", "Ending"}
     THEN EndCall(a) ELSE UNCHANGED closing

\* failBeforeAnswer up to FailInboundCall: one final response, unless the
\* dialog has recorded one.
FailBeforeAnswer ==
  /\ finals' = IF dialog = "final" THEN finals ELSE finals \cup {"rejected"}
  /\ dialog' = IF dialog = "none" THEN "none" ELSE "final"
  /\ Cleanup("handler")
  /\ at' = "Failing"
  /\ UNCHANGED <<once, pending, cancelled, tables, session, teardown, others,
                 history>>

ReceiveInvite ==
  /\ at = "Idle"
  /\ at' = "Offer"
  /\ pending' = "waiting"
  /\ UNCHANGED <<dialog, once, cancelled, finals, tables, session, ending, app,
                 others, history>>

\* What HandleInvite does after each look at isInviteCancelled.
Part == [Offer |-> "Offering", Config |-> "Configuring",
         Session |-> "Opening", Registered |-> "Dialling",
         Allocated |-> "Preparing", Ready |-> "Waiting",
         AnswerReady |-> "Answer"]

\* The look finds no CANCEL; one that arrives now is seen by the next look.
GoOn ==
  /\ at \in DOMAIN Part
  /\ ~cancelled
  /\ at' = Part[at]
  /\ UNCHANGED <<dialog, once, invite, tables, session, ending, app, others,
                 history>>

\* The checks before there is a session.
SetupCancelled ==
  /\ at \in {"Offer", "Config", "Session"}
  /\ cancelled
  /\ TerminatePendingInvite
  /\ at' = "Return"
  /\ UNCHANGED <<dialog, once, cancelled, tables, session, ending, app, others,
                 history>>

\* RejectInboundInvite: the offer, the configuration or the session fails,
\* whether or not a CANCEL has terminated the INVITE in the meantime.
SetupRejected ==
  /\ at \in {"Offering", "Configuring", "Opening"}
  /\ finals' = finals \cup {"rejected"}
  /\ at' = "Return"
  /\ UNCHANGED <<dialog, once, pending, cancelled, tables, session, ending,
                 app, others, history>>

SetupGoesOn ==
  /\ at \in {"Offering", "Configuring"}
  /\ at' = IF at = "Offering" THEN "Config" ELSE "Session"
  /\ UNCHANGED <<dialog, once, invite, tables, session, ending, app, others,
                 history>>

RegisterSession ==
  /\ at = "Opening"
  /\ present' = TRUE
  /\ lifecycle' = "Initializing"
  /\ state' = "Initializing"
  /\ hook' = "armed"
  /\ at' = "Registered"
  /\ UNCHANGED <<dialog, once, invite, rtp, phase, ending, app, others,
                 history>>

\* cancelBeforeAnswer up to CancelInboundCall.
CancelBeforeAnswer ==
  /\ at \in {"Registered", "Allocated", "Ready", "AnswerReady"}
  /\ cancelled
  /\ TerminatePendingInvite
  /\ dialog' = IF dialog = "open" /\ pending = "waiting" THEN "final"
               ELSE dialog
  /\ Cleanup("handler")
  /\ at' = "Cancelling"
  /\ UNCHANGED <<once, cancelled, tables, session, teardown, others, history>>

HandlerCancels ==
  /\ at = "Cancelling" /\ closing["handler"] = "idle"
  /\ CancelCall("handler")
  /\ at' = "Return"
  /\ UNCHANGED <<dialog, once, invite, tables, session, teardown, app, others>>

HandlerFails ==
  /\ at = "Failing" /\ closing["handler"] = "idle"
  /\ FailCall("handler")
  /\ at' = "Return"
  /\ UNCHANGED <<dialog, once, invite, tables, session, teardown, app, others>>

\* NewInboundDialog and StartRinging; without a dialog the 500 is sent on
\* the transaction, with one through it.
OpenDialog ==
  /\ at = "Dialling"
  /\ dialog' = "open"
  /\ TransitionCall("Ringing")
  /\ at' = "Ringing"
  /\ UNCHANGED <<once, invite, present, hook, rtp, phase, ending, app, others,
                 history>>

DialogFails ==
  /\ at = "Dialling"
  /\ finals' = finals \cup {"rejected"}
  /\ dialog' \in {"none", "final"}
  /\ at' = "Failing"
  /\ UNCHANGED <<once, pending, cancelled, tables, session, ending, app,
                 others, history>>

\* inboundMedia.Prepare: the session adopts the RTP handler, also when it
\* has ended already.
PrepareMedia ==
  /\ at = "Ringing"
  /\ \/ FailBeforeAnswer
     \/ /\ rtp' = "adopted"
        /\ history' = IF ContextDone THEN history \cup {"lateMedia"}
                      ELSE history
        /\ at' = "Allocated"
        /\ UNCHANGED <<dialog, once, invite, tables, state, hook, phase,
                       ending, app, others>>

\* onApplicationReady refuses an ended session.
StartApplication ==
  /\ at = "Preparing"
  /\ IF IsEnded
     THEN FailBeforeAnswer
     ELSE /\ app' = "starting"
          /\ at' = "Starting"
          /\ UNCHANGED <<dialog, once, invite, tables, session, ending, others,
                         history>>

\* PrepareSession returns: prepared, or failed and closed.
ApplicationReady ==
  /\ at = "Starting"
  /\ \/ FailBeforeAnswer
     \/ /\ app' = "prepared"
        /\ at' = "Ready"
        /\ UNCHANGED <<dialog, once, invite, tables, session, ending, others,
                       history>>

\* waitUntilAnswerReady: the minimum ring time, cut short by the session.
WaitUntilAnswerReady ==
  /\ at = "Waiting"
  /\ \/ FailBeforeAnswer
     \/ /\ at' = "AnswerReady"
        /\ UNCHANGED <<dialog, once, invite, tables, session, ending, app,
                       others, history>>

\* Mutant of BeginFinalResponse: the answer begins without a look at CANCEL.
BeginFinalResponseMut ==
  /\ at = "Answer"
  /\ at' = "Respond"
  /\ pending' = IF pending = "waiting" THEN "answering" ELSE pending
  /\ UNCHANGED <<dialog, once, cancelled, finals, tables, session, ending, app,
                 others, history>>

\* beginPendingInviteFinalResponse: a CANCEL that has been marked wins, and
\* HandleInvite returns as it is.
BeginFinalResponse ==
  /\ at = "Answer"
  /\ IF cancelled
     THEN /\ at' = "Return"
          /\ history' = history \cup {"overtaken"}
          /\ UNCHANGED pending
     ELSE /\ at' = "Respond"
          /\ pending' = IF pending = "waiting" THEN "answering" ELSE pending
          /\ UNCHANGED history
  /\ UNCHANGED <<dialog, once, cancelled, finals, tables, session, ending, app,
                 others>>

\* The 200 is sent, or cannot be.
Respond ==
  /\ at = "Respond"
  /\ \/ FailBeforeAnswer
     \/ /\ finals' = finals \cup {"answered"}
        /\ dialog' = "final"
        /\ phase' = "answered"
        /\ at' = "AwaitAck"
        /\ UNCHANGED <<once, pending, cancelled, tables, state, hook, rtp,
                       ending, app, others, history>>

\* The ACK comes out of the INVITE's own transaction.
AckInTransaction ==
  /\ at = "AwaitAck" /\ ack = "none"
  /\ ack' = "done"
  /\ phase' = "answered"
  /\ TransitionCall("Connected")
  /\ history' = IF state' = "Connected" THEN history \cup {"connected"}
                ELSE history
  /\ at' = "StartMedia"
  /\ UNCHANGED <<dialog, once, invite, present, hook, rtp, ending, app, cancel,
                 bye, timeout>>

\* InitialACKSignal: the ACK was marked by its handler.
AckSignalled ==
  /\ at = "AwaitAck" /\ ack # "none"
  /\ at' = "StartMedia"
  /\ UNCHANGED <<dialog, once, invite, tables, session, ending, app, others,
                 history>>

\* The ACK timer, or the end of the transaction.
AckTimesOut ==
  /\ at = "AwaitAck" /\ ack = "none"
  /\ at' = "Unacked"
  /\ UNCHANGED <<dialog, once, invite, tables, session, ending, app, others,
                 history>>

StartMedia ==
  /\ at = "StartMedia"
  /\ timeout' = "armed"
  /\ phase' = "flowing"
  /\ at' = "Invite"
  /\ UNCHANGED <<dialog, once, invite, tables, state, hook, rtp, ending, app,
                 ack, cancel, bye, history>>

\* onInvite: the prepared session starts, if the call and it are still there.
StartPrepared ==
  /\ at = "Invite"
  /\ IF ~IsEnded /\ app = "prepared"
     THEN app' = "started" /\ at' = "Return"
     ELSE at' = "InviteFailed" /\ UNCHANGED app
  /\ UNCHANGED <<dialog, once, invite, tables, session, ending, others,
                 history>>

\* finalResponseOnce in HandleInvite; Do waits for a Do that is under way.
FailAnswered ==
  /\ at \in {"Unacked", "InviteFailed"}
  /\ ~once
  /\ once' = TRUE
  /\ Cleanup("handler")
  /\ at' = "Failing"
  /\ UNCHANGED <<dialog, invite, tables, session, teardown, others, history>>

LeaveToTimeout ==
  /\ at \in {"Unacked", "InviteFailed"}
  /\ once
  /\ timeout = "done" /\ closing["timeout"] = "idle"
  /\ at' = "Return"
  /\ UNCHANGED <<dialog, once, invite, tables, session, ending, app, others,
                 history>>

\* The deferred clearPendingInvite and clearInviteCancelled.
Return ==
  /\ at = "Return" /\ closing["handler"] = "idle"
  /\ at' = "Done"
  /\ pending' = "none"
  /\ cancelled' = FALSE
  /\ UNCHANGED <<dialog, once, finals, tables, session, ending, app, others,
                 history>>

HandleInvite ==
  \/ GoOn \/ SetupCancelled \/ SetupRejected \/ SetupGoesOn \/ RegisterSession
  \/ CancelBeforeAnswer \/ HandlerCancels \/ HandlerFails
  \/ OpenDialog \/ DialogFails \/ PrepareMedia \/ StartApplication
  \/ ApplicationReady \/ WaitUntilAnswerReady
  \/ BeginFinalResponse \/ Respond \/ AckInTransaction \/ AckSignalled
  \/ AckTimesOut \/ StartMedia \/ StartPrepared \/ FailAnswered
  \/ LeaveToTimeout \/ Return

-----------------------------------------------------------------------------
(* The caller's ACK, CANCEL and BYE, each at most once.                    *)

AckArrives ==
  /\ ack = "none" /\ "answered" \in finals /\ present
  /\ ack' = "marked"
  /\ UNCHANGED <<handler, invite, tables, session, ending, app, cancel, bye,
                 timeout, history>>

AckConfirms ==
  /\ ack = "marked"
  /\ ack' = "confirmed"
  /\ phase' = "answered"
  /\ UNCHANGED <<handler, invite, tables, state, hook, rtp, ending, app, cancel,
                 bye, timeout, history>>

AckConnects ==
  /\ ack = "confirmed"
  /\ ack' = "done"
  /\ TransitionCall("Connected")
  /\ history' = IF state' = "Connected" THEN history \cup {"connected"}
                ELSE history
  /\ UNCHANGED <<handler, invite, present, hook, rtp, phase, ending, app,
                 cancel, bye, timeout>>

CancelArrives ==
  /\ cancel = "none" /\ at # "Idle"
  /\ cancel' = "marked"
  /\ cancelled' = TRUE
  /\ UNCHANGED <<handler, pending, finals, tables, session, ending, app, ack,
                 bye, timeout, history>>

CancelLooksUp ==
  /\ cancel = "marked"
  /\ cancel' = IF present THEN "found" ELSE "missed"
  /\ UNCHANGED <<handler, invite, tables, session, ending, app, ack, bye,
                 timeout, history>>

\* 487 for an INVITE that still waits; 481 for a CANCEL with nothing to end.
CancelTerminates ==
  /\ cancel \in {"found", "missed"}
  /\ TerminatePendingInvite
  /\ cancel' =
       IF cancel = "missed"
       THEN IF pending = "waiting" THEN "ok" ELSE "refused"
       ELSE IF \/ pending = "waiting"
               \/ PreAnswer /\ phase # "answered" /\ pending # "answering"
            THEN "cancelling" ELSE "refused"
  /\ UNCHANGED <<handler, cancelled, tables, session, ending, app, ack, bye,
                 timeout, history>>

\* Mutant of CancelEnds: it is left to HandleInvite to end the call.
CancelEndsMut ==
  /\ cancel = "cancelling"
  /\ cancel' = "ok"
  /\ UNCHANGED <<handler, invite, tables, session, ending, app, ack, bye,
                 timeout, history>>

CancelEnds ==
  /\ cancel = "cancelling"
  /\ cancel' = "ok"
  /\ CancelCall("cancel")
  /\ UNCHANGED <<handler, invite, tables, session, teardown, app, ack, bye,
                 timeout>>

\* A BYE within the dialog of a session the server knows.
ByeArrives ==
  /\ bye = "none" /\ present /\ dialog # "none"
  /\ bye' = "found"
  /\ UNCHANGED <<handler, invite, tables, session, ending, app, ack, cancel,
                 timeout, history>>

ByeNotifies ==
  /\ bye = "found"
  /\ bye' = "notified"
  /\ hook' = Cleared
  /\ UNCHANGED <<handler, invite, tables, state, rtp, phase, ending, app, ack,
                 cancel, timeout, history>>

ByeEnds ==
  /\ bye = "notified"
  /\ bye' = "done"
  /\ EndCall("bye")
  /\ UNCHANGED <<handler, invite, tables, session, teardown, app, ack, cancel,
                 timeout, history>>

Requests ==
  \/ AckConfirms \/ AckConnects
  \/ CancelLooksUp \/ CancelTerminates \/ CancelEnds
  \/ ByeNotifies \/ ByeEnds

-----------------------------------------------------------------------------
(* The application and the media timeout.                                  *)

\* The application ends the call; it may do so before the answer.
ApplicationEnds ==
  /\ app \in {"starting", "prepared", "started"}
  /\ closing["application"] = "idle" /\ ~IsEnded
  /\ EndCall("application")
  /\ UNCHANGED <<handler, invite, tables, session, teardown, app, others,
                 history>>

\* Talk returns, or never starts: the observer closes and the call ends.
ApplicationReturns ==
  /\ app = "started" /\ closing["application"] = "idle"
  /\ app' = "closed"
  /\ EndCall("application")
  /\ UNCHANGED <<handler, invite, tables, session, teardown, others, history>>

MediaTimeout ==
  /\ timeout = "armed"
  /\ timeout' = IF IsEnded THEN "done" ELSE "fired"
  /\ UNCHANGED <<handler, invite, tables, session, ending, app, ack, cancel,
                 bye, history>>

TimeoutCleansUp ==
  /\ timeout = "fired" /\ ~once
  /\ once' = TRUE
  /\ Cleanup("timeout")
  /\ timeout' = "ending"
  /\ UNCHANGED <<at, dialog, invite, tables, session, teardown, ack, cancel,
                 bye, history>>

TimeoutEnds ==
  /\ timeout = "ending" /\ closing["timeout"] = "idle"
  /\ EndCall("timeout")
  /\ timeout' = "done"
  /\ UNCHANGED <<handler, invite, tables, session, teardown, app, ack, cancel,
                 bye, history>>

\* HandleInvite has used finalResponseOnce; Do waits for it.
TimeoutYields ==
  /\ timeout = "fired" /\ once
  /\ at = "Done"
  /\ timeout' = "done"
  /\ UNCHANGED <<handler, invite, tables, session, ending, app, ack, cancel,
                 bye, history>>

Timeout == TimeoutCleansUp \/ TimeoutEnds \/ TimeoutYields

Next ==
  \/ ReceiveInvite \/ HandleInvite
  \/ AckArrives \/ CancelArrives \/ ByeArrives \/ Requests
  \/ ApplicationEnds \/ ApplicationReturns
  \/ MediaTimeout \/ Timeout
  \/ \E a \in Actors : Closing(a)

\* The goroutines go on with what they have begun, and Talk returns once its
\* context is cancelled; nobody has to send anything, and RTP need not stop.
Fairness ==
  /\ WF_vars(HandleInvite)
  /\ WF_vars(AckConfirms \/ AckConnects)
  /\ WF_vars(CancelLooksUp \/ CancelTerminates \/ CancelEnds)
  /\ WF_vars(ByeNotifies \/ ByeEnds)
  /\ WF_vars(ApplicationReturns /\ (ContextDone \/ bye # "none"))
  /\ WF_vars(Timeout)
  /\ \A a \in Actors : WF_vars(Closing(a))

Spec == Init /\ [][Next]_vars /\ Fairness

-----------------------------------------------------------------------------
(* Properties.                                                             *)

\* An INVITE that was answered with 200 is never also refused: whatever the
\* order of CANCEL, the answer and the failures, terminatePendingInvite and
\* beginPendingInviteFinalResponse let one of the two through.
AnswerIsFinal == "answered" \in finals => finals = {"answered"}

\* A caller that was connected hears of the end: the teardown sends a BYE,
\* unless the caller's own BYE came or somebody decided to end the call
\* quietly before it was connected.
ByeOwed ==
  /\ teardown \in {"media", "record", "done"}
  /\ "connected" \in history
  => hook = "sent" \/ bye \in {"notified", "done"} \/ "quiet" \in history

\* When a call is over nothing of it stays: not the session in the map, not
\* the RTP socket, not the prepared application.  Two ways out are left: the
\* session adopts an RTP handler after End has stopped its media, and a
\* CANCEL marked just before the answer makes HandleInvite return without
\* the cleanup.
NothingLeft ==
  /\ teardown = "done" => ~present
  /\ teardown \in {"record", "done"} /\ rtp = "adopted"
       => "lateMedia" \in history
  /\ at = "Done" /\ app \in {"starting", "prepared"}
       => "overtaken" \in history

\* HandleInvite comes to an end and the INVITE has its final response, but
\* for the answer that a CANCEL overtook; and a CANCEL that is accepted ends
\* the call, whether it found the session or only the pending INVITE.
CallConcludes ==
  /\ at = "Offer" ~> at = "Done" /\ (finals # {} \/ "overtaken" \in history)
  /\ cancel = "ok" ~> at = "Done" /\ ~present

=============================================================================
