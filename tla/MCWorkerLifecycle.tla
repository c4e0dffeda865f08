------------------------- MODULE MCWorkerLifecycle -------------------------
(* A few commands at once, next to the service manager.                    *)
EXTENDS WorkerLifecycleProps
=============================================================================
