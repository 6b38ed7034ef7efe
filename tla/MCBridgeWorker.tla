--------------------------- MODULE MCBridgeWorker ---------------------------
(* Two messages, one for each agent, whose calls both look for a worker.   *)
EXTENDS BridgeWorker

MCMessages == <<1, 2>>
MCTarget == <<"codex", "claude">>
=============================================================================
