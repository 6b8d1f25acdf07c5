-------------------------- MODULE SessionLifecycle --------------------------
(***************************************************************************)
(* The session state machine of adapters/lifecycle/session_lifecycle.go.   *)
(* Every event has one target state; an event raised in a state that is    *)
(* not among its sources is an error and leaves the state as it was.       *)
(* Callers differ in what they do with that error, so the modules that     *)
(* use this one ask CanBe first and apply Transition afterwards.           *)
(***************************************************************************)

LifeStates == {"New", "Initializing", "Ready", "Switching", "Failed",
               "Disconnecting", "Disconnected"}

EventSources ==
  [ConnectRequested        |-> {"New"},
   InitializationCompleted |-> {"Initializing"},
   InitializationFailed    |-> {"Initializing"},
   SwitchRequested         |-> {"Ready"},
   SwitchCompleted         |-> {"Switching"},
   SwitchFailedRecoverable |-> {"Switching"},
   SwitchFailedFatal       |-> {"Switching"},
   DisconnectRequested     |-> {"New", "Initializing", "Ready", "Switching", "Failed"},
   DisconnectCompleted     |-> {"Disconnecting"}]

EventTarget ==
  [ConnectRequested        |-> "Initializing",
   InitializationCompleted |-> "Ready",
   InitializationFailed    |-> "Failed",
   SwitchRequested         |-> "Switching",
   SwitchCompleted         |-> "Ready",
   SwitchFailedRecoverable |-> "Ready",
   SwitchFailedFatal       |-> "Failed",
   DisconnectRequested     |-> "Disconnecting",
   DisconnectCompleted     |-> "Disconnected"]

\* Mutants of CanBe: a late initialization reopens a closing session; a failed
\* session cannot be left.
CanBeReopen(state, e) ==
  state \in EventSources[e] \/ (e = "InitializationCompleted" /\ state = "Disconnecting")
CanBeStuck(state, e) == state # "Failed" /\ state \in EventSources[e]

CanBe(state, e) == state \in EventSources[e]

Transition(state, e) == IF CanBe(state, e) THEN EventTarget[e] ELSE state

=============================================================================
