------------------------- MODULE InboundCallProofs -------------------------
(***************************************************************************)
(* Proofs about InboundCall: types, AnswerIsFinal, ByeOwed and NothingLeft *)
(* hold of the call for any interleaving of its actors.                    *)
(***************************************************************************)
EXTENDS InboundCall, TLAPS

\* Where HandleInvite stands before there is a session, before the answer
\* is decided, and once a 200 may be out.
Early == {"Idle", "Offer", "Offering", "Config", "Configuring", "Session",
          "Opening"}

BeforeAnswer == Early \cup
  {"Registered", "Dialling", "Ringing", "Allocated", "Preparing", "Starting",
   "Ready", "Waiting", "AnswerReady", "Answer"}

AfterAnswer ==
  {"AwaitAck", "Unacked", "StartMedia", "Invite", "InviteFailed", "Failing",
   "Return", "Done"}

\* Before the session is registered nobody has anything to end.
EarlyInv ==
  at \in Early =>
    /\ ~present /\ teardown = "none" /\ hook = "none"
    /\ \A a \in Actors : closing[a] = "idle"
    /\ app = "none" /\ ack = "none" /\ bye = "none" /\ timeout = "off"
    /\ cancel \notin {"found", "cancelling"}

\* A final response before the answer is decided leaves the INVITE marked as
\* cancelled, so the answer will not begin; once it has begun, nothing can
\* terminate the INVITE any more.
AnswerInv ==
  /\ AnswerIsFinal
  /\ "answered" \in finals => at \in AfterAnswer /\ pending # "waiting"
  /\ at \in BeforeAnswer /\ finals # {} => cancelled
  /\ at = "Respond" => finals = {} /\ pending # "waiting"
  /\ cancel \in {"marked", "found", "missed"} /\ at # "Done" => cancelled

\* The callback is there from registration on; only the caller's BYE or a
\* quiet decision clears it, and the teardown does not leave it armed.
ByeInv ==
  /\ at \in {"Registered", "Dialling", "Ringing", "Allocated", "Preparing",
             "Starting", "Ready", "Waiting", "AnswerReady", "Answer",
             "Respond", "AwaitAck"}
       \/ ack # "none" \/ "answered" \in finals \/ "connected" \in history
     => hook # "none"
  /\ hook = "cleared" => bye \in {"notified", "done"} \/ "quiet" \in history
  /\ \A a \in Actors :
       closing[a] \in {"failQuietly", "cancel"} => "quiet" \in history
  /\ teardown \in {"media", "record", "done"} => hook # "armed"

\* The application is prepared while HandleInvite is on its way to start it;
\* whoever takes finalResponseOnce has cleaned it up.
LeftInv ==
  /\ NothingLeft
  /\ app \in {"starting", "prepared"} =>
       at \in {"Starting", "Ready", "Waiting", "AnswerReady", "Answer",
              "Respond", "AwaitAck", "Unacked", "StartMedia", "Invite",
              "InviteFailed"} \/ "overtaken" \in history
  /\ once => app \notin {"starting", "prepared"}
  /\ once \/ timeout # "off" =>
       at \in {"Invite", "InviteFailed", "Failing", "Return", "Done"}

CallInv == TypeOK /\ EarlyInv /\ AnswerInv /\ ByeInv /\ LeftInv

-----------------------------------------------------------------------------
\* A look at isInviteCancelled that finds nothing leads to the part behind it.
LEMMA NextPart ==
  ASSUME GoOn
  PROVE  \/ at = "Offer" /\ at' = "Offering"
         \/ at = "Config" /\ at' = "Configuring"
         \/ at = "Session" /\ at' = "Opening"
         \/ at = "Registered" /\ at' = "Dialling"
         \/ at = "Allocated" /\ at' = "Preparing"
         \/ at = "Ready" /\ at' = "Waiting"
         \/ at = "AnswerReady" /\ at' = "Answer"
  BY DEF GoOn, Part

\* What failBeforeAnswer does keeps the types.
LEMMA FailBeforeAnswerTypes ==
  ASSUME TypeOK, FailBeforeAnswer
  PROVE  TypeOK'
<1>1. once' \in BOOLEAN /\ cancelled' \in BOOLEAN /\ present' \in BOOLEAN
  BY DEF TypeOK, FailBeforeAnswer, tables
<1>2. closing' \in [Actors ->
        {"idle", "end", "fail", "failQuietly", "cancel", "shut", "tearing"}]
  BY DEF TypeOK, FailBeforeAnswer, Cleanup, EndCall, Actors
<1>3. finals' \subseteq {"answered", "terminated", "rejected"}
  BY DEF TypeOK, FailBeforeAnswer
<1>4. /\ app' \in {"none", "starting", "prepared", "started", "closed"}
      /\ dialog' \in {"none", "open", "final"}
  BY DEF TypeOK, FailBeforeAnswer, Cleanup, Discarded
<1>5. QED
  BY <1>1, <1>2, <1>3, <1>4 DEF TypeOK, FailBeforeAnswer, tables, session,
     others

\* Every step keeps the types.
LEMMA TypeStep ==
  ASSUME TypeOK, [Next]_vars
  PROVE  TypeOK'
<1>1. CASE ReceiveInvite
  BY <1>1 DEF TypeOK, CallStates, Actors, ReceiveInvite, tables, session,
        ending, others
<1>2. CASE SetupCancelled
  BY <1>2 DEF TypeOK, CallStates, Actors, SetupCancelled,
        TerminatePendingInvite, tables, session, ending, others
<1>3. CASE SetupRejected
  BY <1>3 DEF TypeOK, CallStates, Actors, SetupRejected, tables, session,
        ending, others
<1>4. CASE SetupGoesOn
  BY <1>4 DEF TypeOK, CallStates, Actors, SetupGoesOn, invite, tables,
        session, ending, others
<1>5. CASE RegisterSession
  BY <1>5 DEF TypeOK, CallStates, Actors, RegisterSession, invite, ending,
        others
<1>6. CASE CancelBeforeAnswer
  BY <1>6 DEF TypeOK, CallStates, Actors, CancelBeforeAnswer,
        TerminatePendingInvite, Cleanup, tables, session, others, Discarded,
        EndCall, IsEnded
<1>7. CASE HandlerCancels
  BY <1>7 DEF TypeOK, CallStates, Actors, HandlerCancels, CancelCall, invite,
        tables, session, others, IsEnded, PreAnswer, Quiet
<1>8. CASE HandlerFails
  BY <1>8 DEF TypeOK, CallStates, Actors, HandlerFails, FailCall, invite,
        tables, session, others, IsEnded, PreAnswer, Quiet
<1>9. CASE OpenDialog
  BY <1>9 DEF TypeOK, CallStates, Actors, OpenDialog, TransitionCall, invite,
        ending, others, IsEnded, SetCallState, Lifecycle, LifecycleAllows,
        Moved, SessionAllows, Terminal
<1>10. CASE DialogFails
  BY <1>10 DEF TypeOK, CallStates, Actors, DialogFails, tables, session,
        ending, others
<1>11. CASE PrepareMedia
  <2>1. CASE FailBeforeAnswer
    BY <2>1, FailBeforeAnswerTypes
  <2>2. CASE ~FailBeforeAnswer
    <3>1. /\ rtp' = "adopted"
          /\ history' = IF ContextDone THEN history \cup {"lateMedia"}
                        ELSE history
          /\ at' = "Allocated"
          /\ UNCHANGED <<dialog, once, invite, tables, state, hook, phase,
                         ending, app, others>>
      BY <1>11, <2>2 DEF PrepareMedia
    <3>2. QED
      BY <3>1 DEF TypeOK, tables, session, ending, others, invite
  <2>3. QED
    BY <2>1, <2>2
<1>12. CASE StartApplication
  <2>1. CASE FailBeforeAnswer
    BY <2>1, FailBeforeAnswerTypes
  <2>2. CASE ~FailBeforeAnswer
    <3>1. /\ app' = "starting"
          /\ at' = "Starting"
          /\ UNCHANGED <<dialog, once, invite, tables, session, ending, others,
                         history>>
      BY <1>12, <2>2 DEF StartApplication
    <3>2. QED
      BY <3>1 DEF TypeOK, tables, session, ending, others, invite
  <2>3. QED
    BY <2>1, <2>2
<1>13. CASE ApplicationReady
  <2>1. CASE FailBeforeAnswer
    BY <2>1, FailBeforeAnswerTypes
  <2>2. CASE ~FailBeforeAnswer
    <3>1. /\ app' = "prepared"
          /\ at' = "Ready"
          /\ UNCHANGED <<dialog, once, invite, tables, session, ending, others,
                         history>>
      BY <1>13, <2>2 DEF ApplicationReady
    <3>2. QED
      BY <3>1 DEF TypeOK, tables, session, ending, others, invite
  <2>3. QED
    BY <2>1, <2>2
<1>14. CASE GoOn
  BY <1>14, NextPart DEF TypeOK, CallStates, Actors, GoOn, invite, tables, session,
        ending, others
<1>15. CASE WaitUntilAnswerReady
  <2>1. CASE FailBeforeAnswer
    BY <2>1, FailBeforeAnswerTypes
  <2>2. CASE ~FailBeforeAnswer
    <3>1. /\ at' = "AnswerReady"
          /\ UNCHANGED <<dialog, once, invite, tables, session, ending, app,
                         others, history>>
      BY <1>15, <2>2 DEF WaitUntilAnswerReady
    <3>2. QED
      BY <3>1 DEF TypeOK, tables, session, ending, others, invite
  <2>3. QED
    BY <2>1, <2>2
<1>17. CASE BeginFinalResponse
  <2>1. once' \in BOOLEAN /\ cancelled' \in BOOLEAN /\ present' \in BOOLEAN
    BY <1>17 DEF TypeOK, BeginFinalResponse, tables, session, ending, others,
         invite
  <2>2. /\ pending' \in {"none", "waiting", "answering"}
        /\ history' \subseteq {"connected", "quiet", "lateMedia", "overtaken"}
        /\ at' \in {"Return", "Respond"}
    BY <1>17 DEF TypeOK, BeginFinalResponse
  <2>3. QED
    BY <1>17, <2>1, <2>2 DEF TypeOK, BeginFinalResponse, tables, session, ending,
         others, invite
<1>18. CASE Respond
  <2>1. CASE FailBeforeAnswer
    BY <2>1, FailBeforeAnswerTypes
  <2>2. CASE ~FailBeforeAnswer
    <3>1. /\ finals' = finals \cup {"answered"}
          /\ dialog' = "final"
          /\ phase' = "answered"
          /\ at' = "AwaitAck"
          /\ UNCHANGED <<once, pending, cancelled, tables, state, hook, rtp,
                         ending, app, others, history>>
      BY <1>18, <2>2 DEF Respond
    <3>2. QED
      BY <3>1 DEF TypeOK, tables, session, ending, others, invite
  <2>3. QED
    BY <2>1, <2>2
<1>19. CASE AckInTransaction
  BY <1>19 DEF TypeOK, CallStates, Actors, AckInTransaction, TransitionCall,
        invite, ending, IsEnded, SetCallState, Lifecycle, LifecycleAllows,
        Moved, SessionAllows, Terminal
<1>20. CASE AckSignalled
  BY <1>20 DEF TypeOK, CallStates, Actors, AckSignalled, invite, tables,
        session, ending, others
<1>21. CASE AckTimesOut
  BY <1>21 DEF TypeOK, CallStates, Actors, AckTimesOut, invite, tables,
        session, ending, others
<1>22. CASE StartMedia
  BY <1>22 DEF TypeOK, CallStates, Actors, StartMedia, invite, tables, ending
<1>23. CASE StartPrepared
  BY <1>23 DEF TypeOK, CallStates, Actors, StartPrepared, IsEnded, invite,
        tables, session, ending, others
<1>24. CASE FailAnswered
  BY <1>24 DEF TypeOK, CallStates, Actors, FailAnswered, Cleanup, invite,
        tables, session, others, Discarded, EndCall, IsEnded
<1>25. CASE LeaveToTimeout
  BY <1>25 DEF TypeOK, CallStates, Actors, LeaveToTimeout, invite, tables,
        session, ending, others
<1>26. CASE Return
  <2>1. once' \in BOOLEAN /\ cancelled' \in BOOLEAN /\ present' \in BOOLEAN
    BY <1>26 DEF TypeOK, Return, tables, session, ending, others, invite
  <2>2. QED
    BY <1>26, <2>1 DEF TypeOK, Return, tables, session, ending, others, invite
<1>27. CASE AckArrives
  BY <1>27 DEF TypeOK, CallStates, Actors, AckArrives, handler, invite,
        tables, session, ending
<1>28. CASE CancelArrives
  BY <1>28 DEF TypeOK, CallStates, Actors, CancelArrives, handler, tables,
        session, ending
<1>29. CASE ByeArrives
  BY <1>29 DEF TypeOK, CallStates, Actors, ByeArrives, handler, invite,
        tables, session, ending
<1>30. CASE AckConfirms
  BY <1>30 DEF TypeOK, CallStates, Actors, AckConfirms, handler, invite,
        tables, ending
<1>31. CASE AckConnects
  BY <1>31 DEF TypeOK, CallStates, Actors, AckConnects, TransitionCall,
        handler, invite, ending, IsEnded, SetCallState, Lifecycle,
        LifecycleAllows, Moved, SessionAllows, Terminal
<1>32. CASE CancelLooksUp
  BY <1>32 DEF TypeOK, CallStates, Actors, CancelLooksUp, handler, invite,
        tables, session, ending
<1>33. CASE CancelTerminates
  BY <1>33 DEF TypeOK, CallStates, Actors, CancelTerminates,
        TerminatePendingInvite, PreAnswer, handler, tables, session, ending
<1>34. CASE CancelEnds
  BY <1>34 DEF TypeOK, CallStates, Actors, CancelEnds, CancelCall, handler,
        invite, tables, session, IsEnded, PreAnswer, Quiet
<1>35. CASE ByeNotifies
  BY <1>35 DEF TypeOK, CallStates, Actors, ByeNotifies, Cleared, handler,
        invite, tables, ending
<1>36. CASE ByeEnds
  BY <1>36 DEF TypeOK, CallStates, Actors, ByeEnds, EndCall, handler, invite,
        tables, session, IsEnded
<1>37. CASE ApplicationEnds
  BY <1>37 DEF TypeOK, CallStates, Actors, ApplicationEnds, IsEnded, EndCall,
        handler, invite, tables, session, others
<1>38. CASE ApplicationReturns
  BY <1>38 DEF TypeOK, CallStates, Actors, ApplicationReturns, EndCall,
        handler, invite, tables, session, others, IsEnded
<1>39. CASE MediaTimeout
  BY <1>39 DEF TypeOK, CallStates, Actors, MediaTimeout, IsEnded, handler,
        invite, tables, session, ending
<1>40. CASE TimeoutCleansUp
  BY <1>40 DEF TypeOK, CallStates, Actors, TimeoutCleansUp, Cleanup, invite,
        tables, session, Discarded, EndCall, IsEnded
<1>41. CASE TimeoutEnds
  BY <1>41 DEF TypeOK, CallStates, Actors, TimeoutEnds, EndCall, handler,
        invite, tables, session, IsEnded
<1>42. CASE TimeoutYields
  BY <1>42 DEF TypeOK, CallStates, Actors, TimeoutYields, handler, invite,
        tables, session, ending
<1>43. CASE \E a \in Actors : Closing(a)
  <2>1. PICK a \in Actors : Closing(a)
    BY <1>43
  <2>2. CASE MarkEnding(a)
    BY <2>2 DEF TypeOK, CallStates, Actors, MarkEnding, Moved, Lifecycle,
          handler, invite, session, others, LifecycleAllows
  <2>3. CASE MarkFailed(a)
    BY <2>3 DEF TypeOK, CallStates, Actors, MarkFailed, Lifecycle,
          LifecycleAllows, Moved, Cleared, handler, invite, others
  <2>4. CASE MarkCancelled(a)
    BY <2>4 DEF TypeOK, CallStates, Actors, MarkCancelled, SetCallState,
          Cleared, handler, invite, others, Lifecycle, LifecycleAllows, Moved,
          SessionAllows, Terminal
  <2>5. CASE End(a)
    BY <2>5 DEF TypeOK, CallStates, Actors, End, IsEnded, SessionAllows,
          handler, invite, tables, others, Terminal
  <2>6. CASE Disconnect(a)
    BY <2>6 DEF TypeOK, CallStates, Actors, Disconnect, handler, invite,
          tables, others
  <2>7. CASE StopMedia(a)
    BY <2>7 DEF TypeOK, CallStates, Actors, StopMedia, handler, invite,
          tables, others
  <2>8. CASE Forget(a)
    <3>1. once' \in BOOLEAN /\ cancelled' \in BOOLEAN /\ present' \in BOOLEAN
      BY <2>8 DEF TypeOK, Forget, invite, handler
    <3>2. QED
      BY <2>8, <3>1 DEF TypeOK, CallStates, Actors, Forget, Terminal, invite,
           handler, others
  <2>9. QED
    BY <2>1, <2>2, <2>3, <2>4, <2>5, <2>6, <2>7, <2>8 DEF Closing
<1>44. CASE UNCHANGED vars
  BY <1>44 DEF TypeOK, CallStates, Actors, vars, handler, invite, tables,
      session, ending, others
<1>45. QED
  BY <1>1, <1>2, <1>3, <1>4, <1>5, <1>6, <1>7, <1>8, <1>9, <1>10, <1>11,
     <1>12, <1>13, <1>14, <1>15, <1>17, <1>18, <1>19, <1>20, <1>21,
     <1>22, <1>23, <1>24, <1>25, <1>26, <1>27, <1>28, <1>29, <1>30, <1>31,
     <1>32, <1>33, <1>34, <1>35, <1>36, <1>37, <1>38, <1>39, <1>40, <1>41,
     <1>42, <1>43, <1>44 DEF Next,
     HandleInvite, Requests, Timeout

\* Nothing ends a call that has not been registered.
LEMMA EarlyStep ==
  ASSUME CallInv, [Next]_vars
  PROVE  EarlyInv'
<1>1. CASE ReceiveInvite
  BY <1>1 DEF EarlyInv, Early, CallInv, TypeOK, Actors, ReceiveInvite, tables,
        session, ending, others
<1>2. CASE SetupCancelled
  BY <1>2 DEF EarlyInv, Early, CallInv, TypeOK, Actors, SetupCancelled,
        TerminatePendingInvite, tables, session, ending, others
<1>3. CASE SetupRejected
  BY <1>3 DEF EarlyInv, Early, CallInv, TypeOK, Actors, SetupRejected, tables,
        session, ending, others
<1>4. CASE SetupGoesOn
  BY <1>4 DEF EarlyInv, Early, CallInv, TypeOK, Actors, SetupGoesOn, invite,
        tables, session, ending, others
<1>5. CASE RegisterSession
  BY <1>5 DEF EarlyInv, Early, CallInv, TypeOK, Actors, RegisterSession,
        invite, ending, others
<1>6. CASE CancelBeforeAnswer
  BY <1>6 DEF EarlyInv, Early, CallInv, TypeOK, Actors, CancelBeforeAnswer,
        TerminatePendingInvite, Cleanup, tables, session, others, Discarded,
        EndCall, IsEnded
<1>7. CASE HandlerCancels
  BY <1>7 DEF EarlyInv, Early, CallInv, TypeOK, Actors, HandlerCancels,
        CancelCall, invite, tables, session, others, IsEnded, PreAnswer, Quiet
<1>8. CASE HandlerFails
  BY <1>8 DEF EarlyInv, Early, CallInv, TypeOK, Actors, HandlerFails,
        FailCall, invite, tables, session, others, IsEnded, PreAnswer, Quiet
<1>9. CASE OpenDialog
  BY <1>9 DEF EarlyInv, Early, CallInv, TypeOK, Actors, OpenDialog,
        TransitionCall, invite, ending, others, IsEnded, SetCallState,
        Lifecycle, LifecycleAllows, Moved, SessionAllows, Terminal
<1>10. CASE DialogFails
  BY <1>10 DEF EarlyInv, Early, CallInv, TypeOK, Actors, DialogFails, tables,
        session, ending, others
<1>11. CASE PrepareMedia
  BY <1>11 DEF EarlyInv, Early, CallInv, TypeOK, Actors, PrepareMedia,
        FailBeforeAnswer, ContextDone, invite, tables, ending, others,
        Cleanup, session, Discarded, EndCall, IsEnded
<1>12. CASE StartApplication
  BY <1>12 DEF EarlyInv, Early, CallInv, TypeOK, Actors, StartApplication,
        IsEnded, FailBeforeAnswer, invite, tables, session, ending, others,
        Cleanup, Discarded, EndCall
<1>13. CASE ApplicationReady
  BY <1>13 DEF EarlyInv, Early, CallInv, TypeOK, Actors, ApplicationReady,
        FailBeforeAnswer, invite, tables, session, ending, others, Cleanup,
        Discarded, EndCall, IsEnded
<1>14. CASE GoOn
  BY <1>14, NextPart DEF EarlyInv, Early, CallInv, TypeOK, Actors, GoOn, invite,
        tables, session, ending, others
<1>15. CASE WaitUntilAnswerReady
  BY <1>15 DEF EarlyInv, Early, CallInv, TypeOK, Actors, WaitUntilAnswerReady,
        FailBeforeAnswer, invite, tables, session, ending, others, Cleanup,
        Discarded, EndCall, IsEnded
<1>17. CASE BeginFinalResponse
  BY <1>17 DEF EarlyInv, Early, CallInv, TypeOK, Actors, BeginFinalResponse,
        tables, session, ending, others
<1>18. CASE Respond
  BY <1>18 DEF EarlyInv, Early, CallInv, TypeOK, Actors, Respond,
        FailBeforeAnswer, tables, ending, others, Cleanup, session, Discarded,
        EndCall, IsEnded
<1>19. CASE AckInTransaction
  BY <1>19 DEF EarlyInv, Early, CallInv, TypeOK, Actors, AckInTransaction,
        TransitionCall, invite, ending, IsEnded, SetCallState, Lifecycle,
        LifecycleAllows, Moved, SessionAllows, Terminal
<1>20. CASE AckSignalled
  BY <1>20 DEF EarlyInv, Early, CallInv, TypeOK, Actors, AckSignalled, invite,
        tables, session, ending, others
<1>21. CASE AckTimesOut
  BY <1>21 DEF EarlyInv, Early, CallInv, TypeOK, Actors, AckTimesOut, invite,
        tables, session, ending, others
<1>22. CASE StartMedia
  BY <1>22 DEF EarlyInv, Early, CallInv, TypeOK, Actors, StartMedia, invite,
        tables, ending
<1>23. CASE StartPrepared
  BY <1>23 DEF EarlyInv, Early, CallInv, TypeOK, Actors, StartPrepared,
        IsEnded, invite, tables, session, ending, others
<1>24. CASE FailAnswered
  BY <1>24 DEF EarlyInv, Early, CallInv, TypeOK, Actors, FailAnswered,
        Cleanup, invite, tables, session, others, Discarded, EndCall, IsEnded
<1>25. CASE LeaveToTimeout
  BY <1>25 DEF EarlyInv, Early, CallInv, TypeOK, Actors, LeaveToTimeout,
        invite, tables, session, ending, others
<1>26. CASE Return
  BY <1>26 DEF EarlyInv, Early, CallInv, TypeOK, Actors, Return, tables,
        session, ending, others
<1>27. CASE AckArrives
  BY <1>27 DEF EarlyInv, Early, CallInv, TypeOK, Actors, AckArrives, handler,
        invite, tables, session, ending
<1>28. CASE CancelArrives
  BY <1>28 DEF EarlyInv, Early, CallInv, TypeOK, Actors, CancelArrives,
        handler, tables, session, ending
<1>29. CASE ByeArrives
  BY <1>29 DEF EarlyInv, Early, CallInv, TypeOK, Actors, ByeArrives, handler,
        invite, tables, session, ending
<1>30. CASE AckConfirms
  BY <1>30 DEF EarlyInv, Early, CallInv, TypeOK, Actors, AckConfirms, handler,
        invite, tables, ending
<1>31. CASE AckConnects
  BY <1>31 DEF EarlyInv, Early, CallInv, TypeOK, Actors, AckConnects,
        TransitionCall, handler, invite, ending, IsEnded, SetCallState,
        Lifecycle, LifecycleAllows, Moved, SessionAllows, Terminal
<1>32. CASE CancelLooksUp
  BY <1>32 DEF EarlyInv, Early, CallInv, TypeOK, Actors, CancelLooksUp,
        handler, invite, tables, session, ending
<1>33. CASE CancelTerminates
  BY <1>33 DEF EarlyInv, Early, CallInv, TypeOK, Actors, CancelTerminates,
        TerminatePendingInvite, PreAnswer, handler, tables, session, ending
<1>34. CASE CancelEnds
  BY <1>34 DEF EarlyInv, Early, CallInv, TypeOK, Actors, CancelEnds,
        CancelCall, handler, invite, tables, session, IsEnded, PreAnswer,
        Quiet
<1>35. CASE ByeNotifies
  BY <1>35 DEF EarlyInv, Early, CallInv, TypeOK, Actors, ByeNotifies, Cleared,
        handler, invite, tables, ending
<1>36. CASE ByeEnds
  BY <1>36 DEF EarlyInv, Early, CallInv, TypeOK, Actors, ByeEnds, EndCall,
        handler, invite, tables, session, IsEnded
<1>37. CASE ApplicationEnds
  BY <1>37 DEF EarlyInv, Early, CallInv, TypeOK, Actors, ApplicationEnds,
        IsEnded, EndCall, handler, invite, tables, session, others
<1>38. CASE ApplicationReturns
  BY <1>38 DEF EarlyInv, Early, CallInv, TypeOK, Actors, ApplicationReturns,
        EndCall, handler, invite, tables, session, others, IsEnded
<1>39. CASE MediaTimeout
  BY <1>39 DEF EarlyInv, Early, CallInv, TypeOK, Actors, MediaTimeout,
        IsEnded, handler, invite, tables, session, ending
<1>40. CASE TimeoutCleansUp
  BY <1>40 DEF EarlyInv, Early, CallInv, TypeOK, Actors, TimeoutCleansUp,
        Cleanup, invite, tables, session, Discarded, EndCall, IsEnded
<1>41. CASE TimeoutEnds
  BY <1>41 DEF EarlyInv, Early, CallInv, TypeOK, Actors, TimeoutEnds, EndCall,
        handler, invite, tables, session, IsEnded
<1>42. CASE TimeoutYields
  BY <1>42 DEF EarlyInv, Early, CallInv, TypeOK, Actors, TimeoutYields,
        handler, invite, tables, session, ending
<1>43. CASE \E a \in Actors : Closing(a)
  <2>1. PICK a \in Actors : Closing(a)
    BY <1>43
  <2>2. CASE MarkEnding(a)
    BY <2>2 DEF EarlyInv, Early, CallInv, TypeOK, Actors, MarkEnding, Moved,
          Lifecycle, handler, invite, session, others, LifecycleAllows
  <2>3. CASE MarkFailed(a)
    BY <2>3 DEF EarlyInv, Early, CallInv, TypeOK, Actors, MarkFailed,
          Lifecycle, LifecycleAllows, Moved, Cleared, handler, invite, others
  <2>4. CASE MarkCancelled(a)
    BY <2>4 DEF EarlyInv, Early, CallInv, TypeOK, Actors, MarkCancelled,
          SetCallState, Cleared, handler, invite, others, Lifecycle,
          LifecycleAllows, Moved, SessionAllows, Terminal
  <2>5. CASE End(a)
    BY <2>5 DEF EarlyInv, Early, CallInv, TypeOK, Actors, End, IsEnded,
          SessionAllows, handler, invite, tables, others, Terminal
  <2>6. CASE Disconnect(a)
    BY <2>6 DEF EarlyInv, Early, CallInv, TypeOK, Actors, Disconnect, handler,
          invite, tables, others
  <2>7. CASE StopMedia(a)
    BY <2>7 DEF EarlyInv, Early, CallInv, TypeOK, Actors, StopMedia, handler,
          invite, tables, others
  <2>8. CASE Forget(a)
    BY <2>8 DEF EarlyInv, Early, CallInv, TypeOK, Actors, Forget, Terminal,
          handler, invite, others
  <2>9. QED
    BY <2>1, <2>2, <2>3, <2>4, <2>5, <2>6, <2>7, <2>8 DEF Closing
<1>44. CASE UNCHANGED vars
  BY <1>44 DEF EarlyInv, Early, CallInv, TypeOK, Actors, vars, handler,
      invite, tables, session, ending, others
<1>45. QED
  BY <1>1, <1>2, <1>3, <1>4, <1>5, <1>6, <1>7, <1>8, <1>9, <1>10, <1>11,
     <1>12, <1>13, <1>14, <1>15, <1>17, <1>18, <1>19, <1>20, <1>21,
     <1>22, <1>23, <1>24, <1>25, <1>26, <1>27, <1>28, <1>29, <1>30, <1>31,
     <1>32, <1>33, <1>34, <1>35, <1>36, <1>37, <1>38, <1>39, <1>40, <1>41,
     <1>42, <1>43, <1>44 DEF Next,
     HandleInvite, Requests, Timeout

\* Every step lets through at most one of the answer and a refusal.
LEMMA AnswerStep ==
  ASSUME CallInv, [Next]_vars
  PROVE  AnswerInv'
<1>1. CASE ReceiveInvite
  BY <1>1 DEF AnswerInv, AnswerIsFinal, Early, BeforeAnswer, AfterAnswer,
        CallInv, TypeOK, EarlyInv, ReceiveInvite, tables, session, ending,
        others
<1>2. CASE SetupCancelled
  BY <1>2 DEF AnswerInv, AnswerIsFinal, Early, BeforeAnswer, AfterAnswer,
        CallInv, TypeOK, EarlyInv, SetupCancelled, TerminatePendingInvite,
        tables, session, ending, others
<1>3. CASE SetupRejected
  BY <1>3 DEF AnswerInv, AnswerIsFinal, Early, BeforeAnswer, AfterAnswer,
        CallInv, TypeOK, EarlyInv, SetupRejected, tables, session, ending,
        others
<1>4. CASE SetupGoesOn
  BY <1>4 DEF AnswerInv, AnswerIsFinal, Early, BeforeAnswer, AfterAnswer,
        CallInv, TypeOK, EarlyInv, SetupGoesOn, invite, tables, session,
        ending, others
<1>5. CASE RegisterSession
  BY <1>5 DEF AnswerInv, AnswerIsFinal, Early, BeforeAnswer, AfterAnswer,
        CallInv, TypeOK, EarlyInv, RegisterSession, invite, ending, others
<1>6. CASE CancelBeforeAnswer
  BY <1>6 DEF AnswerInv, AnswerIsFinal, Early, BeforeAnswer, AfterAnswer,
        CallInv, TypeOK, EarlyInv, CancelBeforeAnswer, TerminatePendingInvite,
        Cleanup, tables, session, others, Discarded, EndCall, IsEnded
<1>7. CASE HandlerCancels
  BY <1>7 DEF AnswerInv, AnswerIsFinal, Early, BeforeAnswer, AfterAnswer,
        CallInv, TypeOK, EarlyInv, HandlerCancels, CancelCall, invite, tables,
        session, others, IsEnded, PreAnswer, Quiet
<1>8. CASE HandlerFails
  BY <1>8 DEF AnswerInv, AnswerIsFinal, Early, BeforeAnswer, AfterAnswer,
        CallInv, TypeOK, EarlyInv, HandlerFails, FailCall, invite, tables,
        session, others, IsEnded, PreAnswer, Quiet
<1>9. CASE OpenDialog
  BY <1>9 DEF AnswerInv, AnswerIsFinal, Early, BeforeAnswer, AfterAnswer,
        CallInv, TypeOK, EarlyInv, OpenDialog, TransitionCall, invite, ending,
        others, IsEnded, SetCallState, Lifecycle, LifecycleAllows, Moved,
        SessionAllows, Terminal
<1>10. CASE DialogFails
  BY <1>10 DEF AnswerInv, AnswerIsFinal, Early, BeforeAnswer, AfterAnswer,
        CallInv, TypeOK, EarlyInv, DialogFails, tables, session, ending,
        others
<1>11. CASE PrepareMedia
  BY <1>11 DEF AnswerInv, AnswerIsFinal, Early, BeforeAnswer, AfterAnswer,
        CallInv, TypeOK, EarlyInv, PrepareMedia, FailBeforeAnswer,
        ContextDone, invite, tables, ending, others, Cleanup, session,
        Discarded, EndCall, IsEnded
<1>12. CASE StartApplication
  BY <1>12 DEF AnswerInv, AnswerIsFinal, Early, BeforeAnswer, AfterAnswer,
        CallInv, TypeOK, EarlyInv, StartApplication, IsEnded,
        FailBeforeAnswer, invite, tables, session, ending, others, Cleanup,
        Discarded, EndCall
<1>13. CASE ApplicationReady
  BY <1>13 DEF AnswerInv, AnswerIsFinal, Early, BeforeAnswer, AfterAnswer,
        CallInv, TypeOK, EarlyInv, ApplicationReady, FailBeforeAnswer, invite,
        tables, session, ending, others, Cleanup, Discarded, EndCall, IsEnded
<1>14. CASE GoOn
  BY <1>14, NextPart DEF AnswerInv, AnswerIsFinal, Early, BeforeAnswer, AfterAnswer,
        CallInv, TypeOK, EarlyInv, GoOn, invite, tables, session, ending,
        others
<1>15. CASE WaitUntilAnswerReady
  BY <1>15 DEF AnswerInv, AnswerIsFinal, Early, BeforeAnswer, AfterAnswer,
        CallInv, TypeOK, EarlyInv, WaitUntilAnswerReady, FailBeforeAnswer,
        invite, tables, session, ending, others, Cleanup, Discarded, EndCall,
        IsEnded
<1>17. CASE BeginFinalResponse
  BY <1>17 DEF AnswerInv, AnswerIsFinal, Early, BeforeAnswer, AfterAnswer,
        CallInv, TypeOK, EarlyInv, BeginFinalResponse, tables, session,
        ending, others
<1>18. CASE Respond
  BY <1>18 DEF AnswerInv, AnswerIsFinal, Early, BeforeAnswer, AfterAnswer,
        CallInv, TypeOK, EarlyInv, Respond, FailBeforeAnswer, tables, ending,
        others, Cleanup, session, Discarded, EndCall, IsEnded
<1>19. CASE AckInTransaction
  BY <1>19 DEF AnswerInv, AnswerIsFinal, Early, BeforeAnswer, AfterAnswer,
        CallInv, TypeOK, EarlyInv, AckInTransaction, TransitionCall, invite,
        ending, IsEnded, SetCallState, Lifecycle, LifecycleAllows, Moved,
        SessionAllows, Terminal
<1>20. CASE AckSignalled
  BY <1>20 DEF AnswerInv, AnswerIsFinal, Early, BeforeAnswer, AfterAnswer,
        CallInv, TypeOK, EarlyInv, AckSignalled, invite, tables, session,
        ending, others
<1>21. CASE AckTimesOut
  BY <1>21 DEF AnswerInv, AnswerIsFinal, Early, BeforeAnswer, AfterAnswer,
        CallInv, TypeOK, EarlyInv, AckTimesOut, invite, tables, session,
        ending, others
<1>22. CASE StartMedia
  BY <1>22 DEF AnswerInv, AnswerIsFinal, Early, BeforeAnswer, AfterAnswer,
        CallInv, TypeOK, EarlyInv, StartMedia, invite, tables, ending
<1>23. CASE StartPrepared
  BY <1>23 DEF AnswerInv, AnswerIsFinal, Early, BeforeAnswer, AfterAnswer,
        CallInv, TypeOK, EarlyInv, StartPrepared, IsEnded, invite, tables,
        session, ending, others
<1>24. CASE FailAnswered
  BY <1>24 DEF AnswerInv, AnswerIsFinal, Early, BeforeAnswer, AfterAnswer,
        CallInv, TypeOK, EarlyInv, FailAnswered, Cleanup, invite, tables,
        session, others, Discarded, EndCall, IsEnded
<1>25. CASE LeaveToTimeout
  BY <1>25 DEF AnswerInv, AnswerIsFinal, Early, BeforeAnswer, AfterAnswer,
        CallInv, TypeOK, EarlyInv, LeaveToTimeout, invite, tables, session,
        ending, others
<1>26. CASE Return
  BY <1>26 DEF AnswerInv, AnswerIsFinal, Early, BeforeAnswer, AfterAnswer,
        CallInv, TypeOK, EarlyInv, Return, tables, session, ending, others
<1>27. CASE AckArrives
  BY <1>27 DEF AnswerInv, AnswerIsFinal, Early, BeforeAnswer, AfterAnswer,
        CallInv, TypeOK, EarlyInv, AckArrives, handler, invite, tables,
        session, ending
<1>28. CASE CancelArrives
  BY <1>28 DEF AnswerInv, AnswerIsFinal, Early, BeforeAnswer, AfterAnswer,
        CallInv, TypeOK, EarlyInv, CancelArrives, handler, tables, session,
        ending
<1>29. CASE ByeArrives
  BY <1>29 DEF AnswerInv, AnswerIsFinal, Early, BeforeAnswer, AfterAnswer,
        CallInv, TypeOK, EarlyInv, ByeArrives, handler, invite, tables,
        session, ending
<1>30. CASE AckConfirms
  BY <1>30 DEF AnswerInv, AnswerIsFinal, Early, BeforeAnswer, AfterAnswer,
        CallInv, TypeOK, EarlyInv, AckConfirms, handler, invite, tables,
        ending
<1>31. CASE AckConnects
  BY <1>31 DEF AnswerInv, AnswerIsFinal, Early, BeforeAnswer, AfterAnswer,
        CallInv, TypeOK, EarlyInv, AckConnects, TransitionCall, handler,
        invite, ending, IsEnded, SetCallState, Lifecycle, LifecycleAllows,
        Moved, SessionAllows, Terminal
<1>32. CASE CancelLooksUp
  BY <1>32 DEF AnswerInv, AnswerIsFinal, Early, BeforeAnswer, AfterAnswer,
        CallInv, TypeOK, EarlyInv, CancelLooksUp, handler, invite, tables,
        session, ending
<1>33. CASE CancelTerminates
  BY <1>33 DEF AnswerInv, AnswerIsFinal, Early, BeforeAnswer, AfterAnswer,
        CallInv, TypeOK, EarlyInv, CancelTerminates, TerminatePendingInvite,
        PreAnswer, handler, tables, session, ending
<1>34. CASE CancelEnds
  BY <1>34 DEF AnswerInv, AnswerIsFinal, Early, BeforeAnswer, AfterAnswer,
        CallInv, TypeOK, EarlyInv, CancelEnds, CancelCall, handler, invite,
        tables, session, IsEnded, PreAnswer, Quiet
<1>35. CASE ByeNotifies
  BY <1>35 DEF AnswerInv, AnswerIsFinal, Early, BeforeAnswer, AfterAnswer,
        CallInv, TypeOK, EarlyInv, ByeNotifies, Cleared, handler, invite,
        tables, ending
<1>36. CASE ByeEnds
  BY <1>36 DEF AnswerInv, AnswerIsFinal, Early, BeforeAnswer, AfterAnswer,
        CallInv, TypeOK, EarlyInv, ByeEnds, EndCall, handler, invite, tables,
        session, IsEnded
<1>37. CASE ApplicationEnds
  BY <1>37 DEF AnswerInv, AnswerIsFinal, Early, BeforeAnswer, AfterAnswer,
        CallInv, TypeOK, EarlyInv, ApplicationEnds, IsEnded, EndCall, handler,
        invite, tables, session, others
<1>38. CASE ApplicationReturns
  BY <1>38 DEF AnswerInv, AnswerIsFinal, Early, BeforeAnswer, AfterAnswer,
        CallInv, TypeOK, EarlyInv, ApplicationReturns, EndCall, handler,
        invite, tables, session, others, IsEnded
<1>39. CASE MediaTimeout
  BY <1>39 DEF AnswerInv, AnswerIsFinal, Early, BeforeAnswer, AfterAnswer,
        CallInv, TypeOK, EarlyInv, MediaTimeout, IsEnded, handler, invite,
        tables, session, ending
<1>40. CASE TimeoutCleansUp
  BY <1>40 DEF AnswerInv, AnswerIsFinal, Early, BeforeAnswer, AfterAnswer,
        CallInv, TypeOK, EarlyInv, TimeoutCleansUp, Cleanup, invite, tables,
        session, Discarded, EndCall, IsEnded
<1>41. CASE TimeoutEnds
  BY <1>41 DEF AnswerInv, AnswerIsFinal, Early, BeforeAnswer, AfterAnswer,
        CallInv, TypeOK, EarlyInv, TimeoutEnds, EndCall, handler, invite,
        tables, session, IsEnded
<1>42. CASE TimeoutYields
  BY <1>42 DEF AnswerInv, AnswerIsFinal, Early, BeforeAnswer, AfterAnswer,
        CallInv, TypeOK, EarlyInv, TimeoutYields, handler, invite, tables,
        session, ending
<1>43. CASE \E a \in Actors : Closing(a)
  <2>1. PICK a \in Actors : Closing(a)
    BY <1>43
  <2>2. CASE MarkEnding(a)
    BY <2>2 DEF AnswerInv, AnswerIsFinal, Early, BeforeAnswer, AfterAnswer,
          CallInv, TypeOK, EarlyInv, MarkEnding, Moved, Lifecycle, handler,
          invite, session, others, LifecycleAllows
  <2>3. CASE MarkFailed(a)
    BY <2>3 DEF AnswerInv, AnswerIsFinal, Early, BeforeAnswer, AfterAnswer,
          CallInv, TypeOK, EarlyInv, MarkFailed, Lifecycle, LifecycleAllows,
          Moved, Cleared, handler, invite, others
  <2>4. CASE MarkCancelled(a)
    BY <2>4 DEF AnswerInv, AnswerIsFinal, Early, BeforeAnswer, AfterAnswer,
          CallInv, TypeOK, EarlyInv, MarkCancelled, SetCallState, Cleared,
          handler, invite, others, Lifecycle, LifecycleAllows, Moved,
          SessionAllows, Terminal
  <2>5. CASE End(a)
    BY <2>5 DEF AnswerInv, AnswerIsFinal, Early, BeforeAnswer, AfterAnswer,
          CallInv, TypeOK, EarlyInv, End, IsEnded, SessionAllows, handler,
          invite, tables, others, Terminal
  <2>6. CASE Disconnect(a)
    BY <2>6 DEF AnswerInv, AnswerIsFinal, Early, BeforeAnswer, AfterAnswer,
          CallInv, TypeOK, EarlyInv, Disconnect, handler, invite, tables,
          others
  <2>7. CASE StopMedia(a)
    BY <2>7 DEF AnswerInv, AnswerIsFinal, Early, BeforeAnswer, AfterAnswer,
          CallInv, TypeOK, EarlyInv, StopMedia, handler, invite, tables,
          others
  <2>8. CASE Forget(a)
    BY <2>8 DEF AnswerInv, AnswerIsFinal, Early, BeforeAnswer, AfterAnswer,
          CallInv, TypeOK, EarlyInv, Forget, Terminal, handler, invite, others
  <2>9. QED
    BY <2>1, <2>2, <2>3, <2>4, <2>5, <2>6, <2>7, <2>8 DEF Closing
<1>44. CASE UNCHANGED vars
  BY <1>44 DEF AnswerInv, AnswerIsFinal, Early, BeforeAnswer, AfterAnswer,
      CallInv, TypeOK, EarlyInv, vars, handler, invite, tables, session,
      ending, others
<1>45. QED
  BY <1>1, <1>2, <1>3, <1>4, <1>5, <1>6, <1>7, <1>8, <1>9, <1>10, <1>11,
     <1>12, <1>13, <1>14, <1>15, <1>17, <1>18, <1>19, <1>20, <1>21,
     <1>22, <1>23, <1>24, <1>25, <1>26, <1>27, <1>28, <1>29, <1>30, <1>31,
     <1>32, <1>33, <1>34, <1>35, <1>36, <1>37, <1>38, <1>39, <1>40, <1>41,
     <1>42, <1>43, <1>44 DEF Next,
     HandleInvite, Requests, Timeout

\* Every step keeps track of the BYE that is owed.
LEMMA ByeStep ==
  ASSUME CallInv, [Next]_vars
  PROVE  ByeInv'
<1>1. CASE ReceiveInvite
  BY <1>1 DEF ByeInv, Early, CallInv, TypeOK, EarlyInv, AnswerInv,
        AfterAnswer, Actors, ReceiveInvite, tables, session, ending, others
<1>2. CASE SetupCancelled
  BY <1>2 DEF ByeInv, Early, CallInv, TypeOK, EarlyInv, AnswerInv,
        AfterAnswer, Actors, SetupCancelled, TerminatePendingInvite, tables,
        session, ending, others
<1>3. CASE SetupRejected
  BY <1>3 DEF ByeInv, Early, CallInv, TypeOK, EarlyInv, AnswerInv,
        AfterAnswer, Actors, SetupRejected, tables, session, ending, others
<1>4. CASE SetupGoesOn
  BY <1>4 DEF ByeInv, Early, CallInv, TypeOK, EarlyInv, AnswerInv,
        AfterAnswer, Actors, SetupGoesOn, invite, tables, session, ending,
        others
<1>5. CASE RegisterSession
  BY <1>5 DEF ByeInv, Early, CallInv, TypeOK, EarlyInv, AnswerInv,
        AfterAnswer, Actors, RegisterSession, invite, ending, others
<1>6. CASE CancelBeforeAnswer
  BY <1>6 DEF ByeInv, Early, CallInv, TypeOK, EarlyInv, AnswerInv,
        AfterAnswer, Actors, CancelBeforeAnswer, TerminatePendingInvite,
        Cleanup, tables, session, others, Discarded, EndCall, IsEnded
<1>7. CASE HandlerCancels
  BY <1>7 DEF ByeInv, Early, CallInv, TypeOK, EarlyInv, AnswerInv,
        AfterAnswer, Actors, HandlerCancels, CancelCall, invite, tables,
        session, others, IsEnded, PreAnswer, Quiet
<1>8. CASE HandlerFails
  BY <1>8 DEF ByeInv, Early, CallInv, TypeOK, EarlyInv, AnswerInv,
        AfterAnswer, Actors, HandlerFails, FailCall, invite, tables, session,
        others, IsEnded, PreAnswer, Quiet
<1>9. CASE OpenDialog
  BY <1>9 DEF ByeInv, Early, CallInv, TypeOK, EarlyInv, AnswerInv,
        AfterAnswer, Actors, OpenDialog, TransitionCall, invite, ending,
        others, IsEnded, SetCallState, Lifecycle, LifecycleAllows, Moved,
        SessionAllows, Terminal
<1>10. CASE DialogFails
  BY <1>10 DEF ByeInv, Early, CallInv, TypeOK, EarlyInv, AnswerInv,
        AfterAnswer, Actors, DialogFails, tables, session, ending, others
<1>11. CASE PrepareMedia
  BY <1>11 DEF ByeInv, Early, CallInv, TypeOK, EarlyInv, AnswerInv,
        AfterAnswer, Actors, PrepareMedia, FailBeforeAnswer, ContextDone,
        invite, tables, ending, others, Cleanup, session, Discarded, EndCall,
        IsEnded
<1>12. CASE StartApplication
  BY <1>12 DEF ByeInv, Early, CallInv, TypeOK, EarlyInv, AnswerInv,
        AfterAnswer, Actors, StartApplication, IsEnded, FailBeforeAnswer,
        invite, tables, session, ending, others, Cleanup, Discarded, EndCall
<1>13. CASE ApplicationReady
  BY <1>13 DEF ByeInv, Early, CallInv, TypeOK, EarlyInv, AnswerInv,
        AfterAnswer, Actors, ApplicationReady, FailBeforeAnswer, invite,
        tables, session, ending, others, Cleanup, Discarded, EndCall, IsEnded
<1>14. CASE GoOn
  BY <1>14, NextPart DEF ByeInv, Early, CallInv, TypeOK, EarlyInv, AnswerInv,
        AfterAnswer, Actors, GoOn, invite, tables, session, ending,
        others
<1>15. CASE WaitUntilAnswerReady
  BY <1>15 DEF ByeInv, Early, CallInv, TypeOK, EarlyInv, AnswerInv,
        AfterAnswer, Actors, WaitUntilAnswerReady, FailBeforeAnswer, invite,
        tables, session, ending, others, Cleanup, Discarded, EndCall, IsEnded
<1>17. CASE BeginFinalResponse
  BY <1>17 DEF ByeInv, Early, CallInv, TypeOK, EarlyInv, AnswerInv,
        AfterAnswer, Actors, BeginFinalResponse, tables, session, ending,
        others
<1>18. CASE Respond
  BY <1>18 DEF ByeInv, Early, CallInv, TypeOK, EarlyInv, AnswerInv,
        AfterAnswer, Actors, Respond, FailBeforeAnswer, tables, ending,
        others, Cleanup, session, Discarded, EndCall, IsEnded
<1>19. CASE AckInTransaction
  BY <1>19 DEF ByeInv, Early, CallInv, TypeOK, EarlyInv, AnswerInv,
        AfterAnswer, Actors, AckInTransaction, TransitionCall, invite, ending,
        IsEnded, SetCallState, Lifecycle, LifecycleAllows, Moved,
        SessionAllows, Terminal
<1>20. CASE AckSignalled
  BY <1>20 DEF ByeInv, Early, CallInv, TypeOK, EarlyInv, AnswerInv,
        AfterAnswer, Actors, AckSignalled, invite, tables, session, ending,
        others
<1>21. CASE AckTimesOut
  BY <1>21 DEF ByeInv, Early, CallInv, TypeOK, EarlyInv, AnswerInv,
        AfterAnswer, Actors, AckTimesOut, invite, tables, session, ending,
        others
<1>22. CASE StartMedia
  BY <1>22 DEF ByeInv, Early, CallInv, TypeOK, EarlyInv, AnswerInv,
        AfterAnswer, Actors, StartMedia, invite, tables, ending
<1>23. CASE StartPrepared
  BY <1>23 DEF ByeInv, Early, CallInv, TypeOK, EarlyInv, AnswerInv,
        AfterAnswer, Actors, StartPrepared, IsEnded, invite, tables, session,
        ending, others
<1>24. CASE FailAnswered
  BY <1>24 DEF ByeInv, Early, CallInv, TypeOK, EarlyInv, AnswerInv,
        AfterAnswer, Actors, FailAnswered, Cleanup, invite, tables, session,
        others, Discarded, EndCall, IsEnded
<1>25. CASE LeaveToTimeout
  BY <1>25 DEF ByeInv, Early, CallInv, TypeOK, EarlyInv, AnswerInv,
        AfterAnswer, Actors, LeaveToTimeout, invite, tables, session, ending,
        others
<1>26. CASE Return
  BY <1>26 DEF ByeInv, Early, CallInv, TypeOK, EarlyInv, AnswerInv,
        AfterAnswer, Actors, Return, tables, session, ending, others
<1>27. CASE AckArrives
  BY <1>27 DEF ByeInv, Early, CallInv, TypeOK, EarlyInv, AnswerInv,
        AfterAnswer, Actors, AckArrives, handler, invite, tables, session,
        ending
<1>28. CASE CancelArrives
  BY <1>28 DEF ByeInv, Early, CallInv, TypeOK, EarlyInv, AnswerInv,
        AfterAnswer, Actors, CancelArrives, handler, tables, session, ending
<1>29. CASE ByeArrives
  BY <1>29 DEF ByeInv, Early, CallInv, TypeOK, EarlyInv, AnswerInv,
        AfterAnswer, Actors, ByeArrives, handler, invite, tables, session,
        ending
<1>30. CASE AckConfirms
  BY <1>30 DEF ByeInv, Early, CallInv, TypeOK, EarlyInv, AnswerInv,
        AfterAnswer, Actors, AckConfirms, handler, invite, tables, ending
<1>31. CASE AckConnects
  BY <1>31 DEF ByeInv, Early, CallInv, TypeOK, EarlyInv, AnswerInv,
        AfterAnswer, Actors, AckConnects, TransitionCall, handler, invite,
        ending, IsEnded, SetCallState, Lifecycle, LifecycleAllows, Moved,
        SessionAllows, Terminal
<1>32. CASE CancelLooksUp
  BY <1>32 DEF ByeInv, Early, CallInv, TypeOK, EarlyInv, AnswerInv,
        AfterAnswer, Actors, CancelLooksUp, handler, invite, tables, session,
        ending
<1>33. CASE CancelTerminates
  BY <1>33 DEF ByeInv, Early, CallInv, TypeOK, EarlyInv, AnswerInv,
        AfterAnswer, Actors, CancelTerminates, TerminatePendingInvite,
        PreAnswer, handler, tables, session, ending
<1>34. CASE CancelEnds
  BY <1>34 DEF ByeInv, Early, CallInv, TypeOK, EarlyInv, AnswerInv,
        AfterAnswer, Actors, CancelEnds, CancelCall, handler, invite, tables,
        session, IsEnded, PreAnswer, Quiet
<1>35. CASE ByeNotifies
  BY <1>35 DEF ByeInv, Early, CallInv, TypeOK, EarlyInv, AnswerInv,
        AfterAnswer, Actors, ByeNotifies, Cleared, handler, invite, tables,
        ending
<1>36. CASE ByeEnds
  BY <1>36 DEF ByeInv, Early, CallInv, TypeOK, EarlyInv, AnswerInv,
        AfterAnswer, Actors, ByeEnds, EndCall, handler, invite, tables,
        session, IsEnded
<1>37. CASE ApplicationEnds
  BY <1>37 DEF ByeInv, Early, CallInv, TypeOK, EarlyInv, AnswerInv,
        AfterAnswer, Actors, ApplicationEnds, IsEnded, EndCall, handler,
        invite, tables, session, others
<1>38. CASE ApplicationReturns
  BY <1>38 DEF ByeInv, Early, CallInv, TypeOK, EarlyInv, AnswerInv,
        AfterAnswer, Actors, ApplicationReturns, EndCall, handler, invite,
        tables, session, others, IsEnded
<1>39. CASE MediaTimeout
  BY <1>39 DEF ByeInv, Early, CallInv, TypeOK, EarlyInv, AnswerInv,
        AfterAnswer, Actors, MediaTimeout, IsEnded, handler, invite, tables,
        session, ending
<1>40. CASE TimeoutCleansUp
  BY <1>40 DEF ByeInv, Early, CallInv, TypeOK, EarlyInv, AnswerInv,
        AfterAnswer, Actors, TimeoutCleansUp, Cleanup, invite, tables,
        session, Discarded, EndCall, IsEnded
<1>41. CASE TimeoutEnds
  BY <1>41 DEF ByeInv, Early, CallInv, TypeOK, EarlyInv, AnswerInv,
        AfterAnswer, Actors, TimeoutEnds, EndCall, handler, invite, tables,
        session, IsEnded
<1>42. CASE TimeoutYields
  BY <1>42 DEF ByeInv, Early, CallInv, TypeOK, EarlyInv, AnswerInv,
        AfterAnswer, Actors, TimeoutYields, handler, invite, tables, session,
        ending
<1>43. CASE \E a \in Actors : Closing(a)
  <2>1. PICK a \in Actors : Closing(a)
    BY <1>43
  <2>2. CASE MarkEnding(a)
    BY <2>2 DEF ByeInv, Early, CallInv, TypeOK, EarlyInv, AnswerInv,
          AfterAnswer, Actors, MarkEnding, Moved, Lifecycle, handler, invite,
          session, others, LifecycleAllows
  <2>3. CASE MarkFailed(a)
    BY <2>3 DEF ByeInv, Early, CallInv, TypeOK, EarlyInv, AnswerInv,
          AfterAnswer, Actors, MarkFailed, Lifecycle, LifecycleAllows, Moved,
          Cleared, handler, invite, others
  <2>4. CASE MarkCancelled(a)
    BY <2>4 DEF ByeInv, Early, CallInv, TypeOK, EarlyInv, AnswerInv,
          AfterAnswer, Actors, MarkCancelled, SetCallState, Cleared, handler,
          invite, others, Lifecycle, LifecycleAllows, Moved, SessionAllows,
          Terminal
  <2>5. CASE End(a)
    BY <2>5 DEF ByeInv, Early, CallInv, TypeOK, EarlyInv, AnswerInv,
          AfterAnswer, Actors, End, IsEnded, SessionAllows, handler, invite,
          tables, others, Terminal
  <2>6. CASE Disconnect(a)
    BY <2>6 DEF ByeInv, Early, CallInv, TypeOK, EarlyInv, AnswerInv,
          AfterAnswer, Actors, Disconnect, handler, invite, tables, others
  <2>7. CASE StopMedia(a)
    BY <2>7 DEF ByeInv, Early, CallInv, TypeOK, EarlyInv, AnswerInv,
          AfterAnswer, Actors, StopMedia, handler, invite, tables, others
  <2>8. CASE Forget(a)
    BY <2>8 DEF ByeInv, Early, CallInv, TypeOK, EarlyInv, AnswerInv,
          AfterAnswer, Actors, Forget, Terminal, handler, invite, others
  <2>9. QED
    BY <2>1, <2>2, <2>3, <2>4, <2>5, <2>6, <2>7, <2>8 DEF Closing
<1>44. CASE UNCHANGED vars
  BY <1>44 DEF ByeInv, Early, CallInv, TypeOK, EarlyInv, AnswerInv,
      AfterAnswer, Actors, vars, handler, invite, tables, session, ending,
      others
<1>45. QED
  BY <1>1, <1>2, <1>3, <1>4, <1>5, <1>6, <1>7, <1>8, <1>9, <1>10, <1>11,
     <1>12, <1>13, <1>14, <1>15, <1>17, <1>18, <1>19, <1>20, <1>21,
     <1>22, <1>23, <1>24, <1>25, <1>26, <1>27, <1>28, <1>29, <1>30, <1>31,
     <1>32, <1>33, <1>34, <1>35, <1>36, <1>37, <1>38, <1>39, <1>40, <1>41,
     <1>42, <1>43, <1>44 DEF Next,
     HandleInvite, Requests, Timeout

\* Every step that leaves the call cleans up behind it.
LEMMA LeftStep ==
  ASSUME CallInv, [Next]_vars
  PROVE  LeftInv'
<1>1. CASE ReceiveInvite
  BY <1>1 DEF LeftInv, NothingLeft, Early, CallInv, TypeOK, EarlyInv,
        ReceiveInvite, tables, session, ending, others
<1>2. CASE SetupCancelled
  BY <1>2 DEF LeftInv, NothingLeft, Early, CallInv, TypeOK, EarlyInv,
        SetupCancelled, TerminatePendingInvite, tables, session, ending,
        others
<1>3. CASE SetupRejected
  BY <1>3 DEF LeftInv, NothingLeft, Early, CallInv, TypeOK, EarlyInv,
        SetupRejected, tables, session, ending, others
<1>4. CASE SetupGoesOn
  BY <1>4 DEF LeftInv, NothingLeft, Early, CallInv, TypeOK, EarlyInv,
        SetupGoesOn, invite, tables, session, ending, others
<1>5. CASE RegisterSession
  BY <1>5 DEF LeftInv, NothingLeft, Early, CallInv, TypeOK, EarlyInv,
        RegisterSession, invite, ending, others
<1>6. CASE CancelBeforeAnswer
  BY <1>6 DEF LeftInv, NothingLeft, Early, CallInv, TypeOK, EarlyInv,
        CancelBeforeAnswer, TerminatePendingInvite, Cleanup, tables, session,
        others, Discarded, EndCall, IsEnded
<1>7. CASE HandlerCancels
  BY <1>7 DEF LeftInv, NothingLeft, Early, CallInv, TypeOK, EarlyInv,
        HandlerCancels, CancelCall, invite, tables, session, others, IsEnded,
        PreAnswer, Quiet
<1>8. CASE HandlerFails
  BY <1>8 DEF LeftInv, NothingLeft, Early, CallInv, TypeOK, EarlyInv,
        HandlerFails, FailCall, invite, tables, session, others, IsEnded,
        PreAnswer, Quiet
<1>9. CASE OpenDialog
  BY <1>9 DEF LeftInv, NothingLeft, Early, CallInv, TypeOK, EarlyInv,
        OpenDialog, TransitionCall, invite, ending, others, IsEnded,
        SetCallState, Lifecycle, LifecycleAllows, Moved, SessionAllows,
        Terminal
<1>10. CASE DialogFails
  BY <1>10 DEF LeftInv, NothingLeft, Early, CallInv, TypeOK, EarlyInv,
        DialogFails, tables, session, ending, others
<1>11. CASE PrepareMedia
  BY <1>11 DEF LeftInv, NothingLeft, Early, CallInv, TypeOK, EarlyInv,
        PrepareMedia, FailBeforeAnswer, ContextDone, invite, tables, ending,
        others, Cleanup, session, Discarded, EndCall, IsEnded
<1>12. CASE StartApplication
  BY <1>12 DEF LeftInv, NothingLeft, Early, CallInv, TypeOK, EarlyInv,
        StartApplication, IsEnded, FailBeforeAnswer, invite, tables, session,
        ending, others, Cleanup, Discarded, EndCall
<1>13. CASE ApplicationReady
  BY <1>13 DEF LeftInv, NothingLeft, Early, CallInv, TypeOK, EarlyInv,
        ApplicationReady, FailBeforeAnswer, invite, tables, session, ending,
        others, Cleanup, Discarded, EndCall, IsEnded
<1>14. CASE GoOn
  BY <1>14, NextPart DEF LeftInv, NothingLeft, Early, CallInv, TypeOK, EarlyInv,
        GoOn, invite, tables, session, ending, others
<1>15. CASE WaitUntilAnswerReady
  BY <1>15 DEF LeftInv, NothingLeft, Early, CallInv, TypeOK, EarlyInv,
        WaitUntilAnswerReady, FailBeforeAnswer, invite, tables, session,
        ending, others, Cleanup, Discarded, EndCall, IsEnded
<1>17. CASE BeginFinalResponse
  BY <1>17 DEF LeftInv, NothingLeft, Early, CallInv, TypeOK, EarlyInv,
        BeginFinalResponse, tables, session, ending, others
<1>18. CASE Respond
  BY <1>18 DEF LeftInv, NothingLeft, Early, CallInv, TypeOK, EarlyInv,
        Respond, FailBeforeAnswer, tables, ending, others, Cleanup, session,
        Discarded, EndCall, IsEnded
<1>19. CASE AckInTransaction
  BY <1>19 DEF LeftInv, NothingLeft, Early, CallInv, TypeOK, EarlyInv,
        AckInTransaction, TransitionCall, invite, ending, IsEnded,
        SetCallState, Lifecycle, LifecycleAllows, Moved, SessionAllows,
        Terminal
<1>20. CASE AckSignalled
  BY <1>20 DEF LeftInv, NothingLeft, Early, CallInv, TypeOK, EarlyInv,
        AckSignalled, invite, tables, session, ending, others
<1>21. CASE AckTimesOut
  BY <1>21 DEF LeftInv, NothingLeft, Early, CallInv, TypeOK, EarlyInv,
        AckTimesOut, invite, tables, session, ending, others
<1>22. CASE StartMedia
  BY <1>22 DEF LeftInv, NothingLeft, Early, CallInv, TypeOK, EarlyInv,
        StartMedia, invite, tables, ending
<1>23. CASE StartPrepared
  BY <1>23 DEF LeftInv, NothingLeft, Early, CallInv, TypeOK, EarlyInv,
        StartPrepared, IsEnded, invite, tables, session, ending, others
<1>24. CASE FailAnswered
  BY <1>24 DEF LeftInv, NothingLeft, Early, CallInv, TypeOK, EarlyInv,
        FailAnswered, Cleanup, invite, tables, session, others, Discarded,
        EndCall, IsEnded
<1>25. CASE LeaveToTimeout
  BY <1>25 DEF LeftInv, NothingLeft, Early, CallInv, TypeOK, EarlyInv,
        LeaveToTimeout, invite, tables, session, ending, others
<1>26. CASE Return
  BY <1>26 DEF LeftInv, NothingLeft, Early, CallInv, TypeOK, EarlyInv, Return,
        tables, session, ending, others
<1>27. CASE AckArrives
  BY <1>27 DEF LeftInv, NothingLeft, Early, CallInv, TypeOK, EarlyInv,
        AckArrives, handler, invite, tables, session, ending
<1>28. CASE CancelArrives
  BY <1>28 DEF LeftInv, NothingLeft, Early, CallInv, TypeOK, EarlyInv,
        CancelArrives, handler, tables, session, ending
<1>29. CASE ByeArrives
  BY <1>29 DEF LeftInv, NothingLeft, Early, CallInv, TypeOK, EarlyInv,
        ByeArrives, handler, invite, tables, session, ending
<1>30. CASE AckConfirms
  BY <1>30 DEF LeftInv, NothingLeft, Early, CallInv, TypeOK, EarlyInv,
        AckConfirms, handler, invite, tables, ending
<1>31. CASE AckConnects
  BY <1>31 DEF LeftInv, NothingLeft, Early, CallInv, TypeOK, EarlyInv,
        AckConnects, TransitionCall, handler, invite, ending, IsEnded,
        SetCallState, Lifecycle, LifecycleAllows, Moved, SessionAllows,
        Terminal
<1>32. CASE CancelLooksUp
  BY <1>32 DEF LeftInv, NothingLeft, Early, CallInv, TypeOK, EarlyInv,
        CancelLooksUp, handler, invite, tables, session, ending
<1>33. CASE CancelTerminates
  BY <1>33 DEF LeftInv, NothingLeft, Early, CallInv, TypeOK, EarlyInv,
        CancelTerminates, TerminatePendingInvite, PreAnswer, handler, tables,
        session, ending
<1>34. CASE CancelEnds
  BY <1>34 DEF LeftInv, NothingLeft, Early, CallInv, TypeOK, EarlyInv,
        CancelEnds, CancelCall, handler, invite, tables, session, IsEnded,
        PreAnswer, Quiet
<1>35. CASE ByeNotifies
  BY <1>35 DEF LeftInv, NothingLeft, Early, CallInv, TypeOK, EarlyInv,
        ByeNotifies, Cleared, handler, invite, tables, ending
<1>36. CASE ByeEnds
  BY <1>36 DEF LeftInv, NothingLeft, Early, CallInv, TypeOK, EarlyInv,
        ByeEnds, EndCall, handler, invite, tables, session, IsEnded
<1>37. CASE ApplicationEnds
  BY <1>37 DEF LeftInv, NothingLeft, Early, CallInv, TypeOK, EarlyInv,
        ApplicationEnds, IsEnded, EndCall, handler, invite, tables, session,
        others
<1>38. CASE ApplicationReturns
  BY <1>38 DEF LeftInv, NothingLeft, Early, CallInv, TypeOK, EarlyInv,
        ApplicationReturns, EndCall, handler, invite, tables, session, others,
        IsEnded
<1>39. CASE MediaTimeout
  BY <1>39 DEF LeftInv, NothingLeft, Early, CallInv, TypeOK, EarlyInv,
        MediaTimeout, IsEnded, handler, invite, tables, session, ending
<1>40. CASE TimeoutCleansUp
  BY <1>40 DEF LeftInv, NothingLeft, Early, CallInv, TypeOK, EarlyInv,
        TimeoutCleansUp, Cleanup, invite, tables, session, Discarded, EndCall,
        IsEnded
<1>41. CASE TimeoutEnds
  BY <1>41 DEF LeftInv, NothingLeft, Early, CallInv, TypeOK, EarlyInv,
        TimeoutEnds, EndCall, handler, invite, tables, session, IsEnded
<1>42. CASE TimeoutYields
  BY <1>42 DEF LeftInv, NothingLeft, Early, CallInv, TypeOK, EarlyInv,
        TimeoutYields, handler, invite, tables, session, ending
<1>43. CASE \E a \in Actors : Closing(a)
  <2>1. PICK a \in Actors : Closing(a)
    BY <1>43
  <2>2. CASE MarkEnding(a)
    BY <2>2 DEF LeftInv, NothingLeft, Early, CallInv, TypeOK, EarlyInv,
          MarkEnding, Moved, Lifecycle, handler, invite, session, others,
          LifecycleAllows
  <2>3. CASE MarkFailed(a)
    BY <2>3 DEF LeftInv, NothingLeft, Early, CallInv, TypeOK, EarlyInv,
          MarkFailed, Lifecycle, LifecycleAllows, Moved, Cleared, handler,
          invite, others
  <2>4. CASE MarkCancelled(a)
    BY <2>4 DEF LeftInv, NothingLeft, Early, CallInv, TypeOK, EarlyInv,
          MarkCancelled, SetCallState, Cleared, handler, invite, others,
          Lifecycle, LifecycleAllows, Moved, SessionAllows, Terminal
  <2>5. CASE End(a)
    BY <2>5 DEF LeftInv, NothingLeft, Early, CallInv, TypeOK, EarlyInv, End,
          IsEnded, SessionAllows, handler, invite, tables, others, Terminal
  <2>6. CASE Disconnect(a)
    BY <2>6 DEF LeftInv, NothingLeft, Early, CallInv, TypeOK, EarlyInv,
          Disconnect, handler, invite, tables, others
  <2>7. CASE StopMedia(a)
    BY <2>7 DEF LeftInv, NothingLeft, Early, CallInv, TypeOK, EarlyInv,
          StopMedia, handler, invite, tables, others
  <2>8. CASE Forget(a)
    BY <2>8 DEF LeftInv, NothingLeft, Early, CallInv, TypeOK, EarlyInv,
          Forget, Terminal, handler, invite, others
  <2>9. QED
    BY <2>1, <2>2, <2>3, <2>4, <2>5, <2>6, <2>7, <2>8 DEF Closing
<1>44. CASE UNCHANGED vars
  BY <1>44 DEF LeftInv, NothingLeft, Early, CallInv, TypeOK, EarlyInv, vars,
      handler, invite, tables, session, ending, others
<1>45. QED
  BY <1>1, <1>2, <1>3, <1>4, <1>5, <1>6, <1>7, <1>8, <1>9, <1>10, <1>11,
     <1>12, <1>13, <1>14, <1>15, <1>17, <1>18, <1>19, <1>20, <1>21,
     <1>22, <1>23, <1>24, <1>25, <1>26, <1>27, <1>28, <1>29, <1>30, <1>31,
     <1>32, <1>33, <1>34, <1>35, <1>36, <1>37, <1>38, <1>39, <1>40, <1>41,
     <1>42, <1>43, <1>44 DEF Next,
     HandleInvite, Requests, Timeout

-----------------------------------------------------------------------------
LEMMA CallInvariant == Spec => []CallInv
<1>1. Init => CallInv
  BY DEF Init, CallInv, TypeOK, CallStates, EarlyInv, AnswerInv, AnswerIsFinal, ByeInv,
     LeftInv, NothingLeft, Early, BeforeAnswer, AfterAnswer, Actors
<1>2. CallInv /\ [Next]_vars => CallInv'
  BY TypeStep, EarlyStep, AnswerStep, ByeStep, LeftStep DEF CallInv
<1>3. QED
  BY <1>1, <1>2, PTL DEF Spec

\* The variables of a call keep their types.
THEOREM TypeCorrect == Spec => []TypeOK
BY CallInvariant, PTL DEF CallInv

\* An INVITE is answered with 200 or refused, never both, however CANCEL,
\* the answer and the failures of HandleInvite interleave.
THEOREM AnsweredOrRefused == Spec => []AnswerIsFinal
BY CallInvariant, PTL DEF CallInv, AnswerInv

\* A caller that was connected is told when the call is torn down.
THEOREM EndIsAnnounced == Spec => []ByeOwed
<1>1. CallInv => ByeOwed
  BY DEF CallInv, TypeOK, ByeInv, ByeOwed
<1>2. QED
  BY CallInvariant, <1>1, PTL

\* An ended call leaves no session, socket or prepared application behind,
\* but for the two ways out that NothingLeft names.
THEOREM CallLeavesNothing == Spec => []NothingLeft
BY CallInvariant, PTL DEF CallInv, LeftInv

=============================================================================
