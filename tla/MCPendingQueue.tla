--------------------------- MODULE MCPendingQueue ---------------------------
(* Two messages of two sessions, and a clock that can pass the stale       *)
(* threshold of a claim, and of the claim after the heal.                  *)
EXTENDS PendingQueueProps
=============================================================================
