------------------------------ MODULE Watchdog ------------------------------
(***************************************************************************)
(* The timers of a session: the idle watchdog, which wakes a silent user,  *)
(* and the completion watchdog, which ends a speech whose provider does    *)
(* not. Source:                                                            *)
(*   src/api/assistant-api/internal/watchdog/{idle_timeout,tts_completion}.go *)
(* Durations are abstracted: an armed watchdog may expire at any moment,   *)
(* and extending one changes nothing that can be told apart. A timer that  *)
(* fires after its watchdog was stopped or armed again finds another       *)
(* generation and does nothing, which an expiry guarded by "armed" says.   *)
(***************************************************************************)
EXTENDS Naturals

Off == [armed |-> FALSE, ctx |-> 0]

Arm(ctx) == [armed |-> TRUE, ctx |-> ctx]

\* The end of a speech stops the completion watchdog only for its own turn.
Complete(watchdog, ctx) == IF watchdog.armed /\ watchdog.ctx = ctx THEN Off ELSE watchdog
=============================================================================
