-------------------------- MODULE MCObserverOwners --------------------------
(* Handlers and drains, with providers that outlive their claims.          *)
EXTENDS ObserverOwners
=============================================================================
