-------------------------- MODULE SessionContract ---------------------------
(***************************************************************************)
(* What a voice session promises to the process that hosts it, with no     *)
(* word about queues, dispatchers or executors.  A session is opened at    *)
(* most once, it admits its user before it serves him, it consumes user    *)
(* input in one uninterrupted stretch at most, and once it has begun to    *)
(* close it can only end.  Session.tla implements this specification.      *)
(***************************************************************************)
VARIABLES
  phase,     \* where the session is in its life
  admitted,  \* assistant, conversation, runtime and authentication are settled
  serving    \* the single stretch in which user input is consumed

contractVars == <<phase, admitted, serving>>

Phases == {"new", "opening", "open", "broken", "closing", "ended"}

ContractInit == phase = "new" /\ admitted = FALSE /\ serving = "not yet"

Begin == phase = "new" /\ phase' = "opening" /\ UNCHANGED <<admitted, serving>>

\* Admission is settled once; a session already closing may still settle it.
Admit == ~admitted /\ admitted' = TRUE /\ UNCHANGED <<phase, serving>>

Open == /\ phase = "opening" /\ admitted
        /\ phase' = "open"
        /\ UNCHANGED <<admitted, serving>>

\* An open session may break (a fatal mode switch), as may one that is opening.
Break == /\ phase \in {"opening", "open"}
         /\ phase' = "broken"
         /\ UNCHANGED <<admitted, serving>>

Serve == /\ admitted /\ serving = "not yet"
         /\ serving' = "serving"
         /\ UNCHANGED <<phase, admitted>>

Rest == /\ serving = "serving" /\ phase \in {"closing", "ended"}
        /\ serving' = "over"
        /\ UNCHANGED <<phase, admitted>>

Leave == /\ phase \in {"new", "opening", "open", "broken"}
         /\ phase' = "closing"
         /\ UNCHANGED <<admitted, serving>>

\* An orderly close ends a closing session; a deadline may end any session
\* that was ever begun.
End == /\ phase \notin {"new", "ended"}
       /\ phase' = "ended"
       /\ UNCHANGED <<admitted, serving>>

ContractNext == \/ Begin \/ Admit \/ Open \/ Break \/ Serve \/ Rest \/ Leave \/ End

ContractSpec == ContractInit /\ [][ContractNext]_contractVars
=============================================================================
