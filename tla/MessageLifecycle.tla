-------------------------- MODULE MessageLifecycle --------------------------
(***************************************************************************)
(* The lifecycle of the message a session is working on: one state and the *)
(* context id of the current turn, which every interruption replaces by a  *)
(* fresh one. Source:                                                      *)
(*   src/api/assistant-api/internal/adapters/lifecycle/message_lifecycle.go*)
(* Fresh ids are the numbers from 1 on, in order; a transition is one      *)
(* critical section of the lifecycle's mutex.                              *)
(***************************************************************************)
EXTENDS Naturals

MessageStates == {"Unknown", "Interrupt", "Interrupted", "LLMGenerating", "LLMGenerated"}

NewMessage == [state |-> "Unknown", ctx |-> 1]

CanTransition(turn, next) ==
  /\ next # "Unknown"
  /\ next = "Interrupt" => turn.state \notin {"Interrupted", "Interrupt", "Unknown"}
  /\ next = "Interrupted" => turn.state # "Interrupted"

\* A refused transition is an error and changes nothing.
Transition(turn, next) ==
  IF ~CanTransition(turn, next) THEN turn
  ELSE [state |-> next, ctx |-> IF next = "Interrupted" THEN turn.ctx + 1 ELSE turn.ctx]
=============================================================================
