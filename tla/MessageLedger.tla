--------------------------- MODULE MessageLedger ---------------------------
(***************************************************************************)
(* What the pending-message queue promises, whatever its callers do and    *)
(* whenever the process dies (the life cycle of the header of              *)
(* pending_messages.rs): an accepted message stays open until it is        *)
(* processed after having been delivered, or given up after MaxRetries     *)
(* failed attempts, or dropped on request.  Processed and dropped are      *)
(* final; a message given up may still be processed by a late answer.      *)
(***************************************************************************)
EXTENDS Naturals

CONSTANTS Message, MaxRetries

VARIABLES fate,       \* what became of each message
          attempts,   \* failed attempts that were followed by a retry
          delivered   \* messages handed to an observer at least once

ledgerVars == <<fate, attempts, delivered>>

Init ==
  /\ fate = [m \in Message |-> "unknown"]
  /\ attempts = [m \in Message |-> 0]
  /\ delivered = {}

Accept(m) ==
  /\ fate[m] = "unknown"
  /\ fate' = [fate EXCEPT ![m] = "open"]
  /\ UNCHANGED <<attempts, delivered>>

Deliver(m) ==
  /\ fate[m] = "open"
  /\ delivered' = delivered \cup {m}
  /\ UNCHANGED <<fate, attempts>>

Process(m) ==
  /\ fate[m] \in {"open", "failed"}
  /\ m \in delivered
  /\ fate' = [fate EXCEPT ![m] = "processed"]
  /\ UNCHANGED <<attempts, delivered>>

\* A failed attempt on a message already given up reopens nothing.
Retry(m) ==
  /\ fate[m] = "open"
  /\ m \in delivered
  /\ attempts[m] + 1 < MaxRetries
  /\ attempts' = [attempts EXCEPT ![m] = @ + 1]
  /\ UNCHANGED <<fate, delivered>>

GiveUp(m) ==
  /\ fate[m] = "open"
  /\ m \in delivered
  /\ attempts[m] + 1 = MaxRetries
  /\ fate' = [fate EXCEPT ![m] = "failed"]
  /\ UNCHANGED <<attempts, delivered>>

\* Rows the observer already reported as processed end as processed.
Drop(lost, reported) ==
  /\ \A m \in lost \cup reported : fate[m] \in {"open", "failed"}
  /\ reported \subseteq delivered
  /\ fate' = [m \in Message |-> IF m \in reported THEN "processed"
                                ELSE IF m \in lost THEN "dropped" ELSE fate[m]]
  /\ UNCHANGED <<attempts, delivered>>

Next ==
  \/ \E m \in Message : \/ Accept(m)  \/ Deliver(m) \/ Process(m)
                        \/ Retry(m)   \/ GiveUp(m)
  \/ \E lost, reported \in SUBSET Message : Drop(lost, reported)

Spec == Init /\ [][Next]_ledgerVars
=============================================================================
