----------------------------- MODULE MCSession ------------------------------
(* Instances of Session for TLC: which executors a session has decides how  *)
(* much of the chains is explored; each configuration names its own set.    *)
EXTENDS Session

\* "vad" starts and stops in goroutines, "stt" on the dispatcher, "llm" is
\* only ever closed by the finalizers.
MCComps == {"stt", "vad", "llm"}

\* "eos" starts in a goroutine at first and on the dispatcher when switching;
\* "auth" can refuse the session.
MCDrainComps == {"eos", "auth"}
=============================================================================
