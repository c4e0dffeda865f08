----------------------------- MODULE MCObserver -----------------------------
(* Hook handlers and drains at work on one or two messages.                *)
EXTENDS ObserverProps
=============================================================================
