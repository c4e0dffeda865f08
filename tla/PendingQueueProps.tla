------------------------- MODULE PendingQueueProps -------------------------
(* What the queue guarantees under any callers, and the ledger it keeps.   *)
EXTENDS PendingQueue

\* Every column stays in its domain (row_from would otherwise fail to read it).
TypeOK ==
  /\ rows \in [Id -> Row]
  /\ nextId \in 1..(MaxId + 1)
  /\ events \in [Id -> [Outcome -> Nat]]
  /\ now \in Nat
  /\ handed \subseteq Id
  /\ cleared \subseteq Id

\* retry_count counts exactly the attempts that were retried: it never reaches
\* max_retries, a row is failed only after max_retries - 1 retries, and a row
\* no one was ever handed carries none (mark_failed, pending_messages.rs:194).
RetriesAccounted ==
  \A m \in Id :
    /\ rows[m].retry_count < MaxRetries
    /\ rows[m].status = "failed" => rows[m].retry_count + 1 = MaxRetries
    /\ rows[m].retry_count > 0 => m \in handed

\* A message is never lost: a row that was inserted is still in the table,
\* unless an event says it was processed or a clearing route removed it
\* (confirm_processed, pending_messages.rs:184).
NothingLost ==
  \A m \in Id : m < nextId =>
    Exists(m) \/ events[m]["processed"] > 0 \/ m \in cleared

\* Every row in processing carries the time it was claimed, so the self-heal
\* can reach it once that time is stale (pending_messages.rs:121-129): no
\* interleaving of late answers leaves a claim the heal cannot see.
ClaimsStayHealable ==
  \A m \in Id : rows[m].status = "processing" =>
    m \in handed /\ rows[m].started \in 0..now

\* No completion is reported for a message no observer was ever handed
\* (record_queue_event, pending_messages.rs:241).
EventsAfterClaims ==
  \A m \in Id : (\E o \in Outcome : events[m][o] > 0) => m \in handed

\* A step takes a row out of processing without settling it only if the claim
\* is older than the stale threshold or the attempt is counted: the self-heal
\* never takes a message from an observer that is within its time
\* (claim_next_message, pending_messages.rs:121).
LiveClaimsKept ==
  [][\A m \in Id :
       rows[m].status = "processing" /\ rows'[m].status = "pending" =>
         \/ rows[m].started + StaleThreshold < now
         \/ rows'[m].retry_count = rows[m].retry_count + 1]_queueVars

-----------------------------------------------------------------------------
\* The fate of a message, read off the tables.
Fate(m) ==
  CASE rows[m].status = "unused" -> "unknown"
    [] rows[m].status \in {"pending", "processing"} -> "open"
    [] rows[m].status = "failed" -> "failed"
    [] rows[m].status = "deleted" ->
         IF events[m]["processed"] > 0 THEN "processed" ELSE "dropped"

Ledger == INSTANCE MessageLedger
            WITH Message <- Id,
                 fate <- [m \in Id |-> Fate(m)],
                 attempts <- [m \in Id |-> rows[m].retry_count],
                 delivered <- handed

\* The queue keeps the ledger of its header comment: it implements
\* MessageLedger, crashes between two statements included.
KeepsLedger == Ledger!Spec

\* The inductive invariant behind the safety properties.
QueueInv ==
  /\ TypeOK
  /\ RetriesAccounted
  /\ NothingLost
  /\ ClaimsStayHealable
  /\ EventsAfterClaims
  /\ \A m \in Id :
       /\ rows[m].status = "unused" <=> m >= nextId
       /\ m >= nextId => m \notin handed /\ m \notin cleared
=============================================================================
