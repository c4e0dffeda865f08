---------------------------- MODULE PendingQueue ----------------------------
(***************************************************************************)
(* The persistent queue of crates/claude-mem-core/src/db/                  *)
(* pending_messages.rs: tables pending_messages and pending_message_events *)
(* and every statement that writes them, the queue-clearing routes         *)
(* included.                                                               *)
(*                                                                         *)
(* A row is one tool event waiting for the observer.  SQLite runs each     *)
(* statement as a transaction of its own, so an operation made of two      *)
(* statements can be cut in two by the death of the process: it is stated  *)
(* once whole and once cut short.  Row ids are AUTOINCREMENT: never reused.*)
(* created_at_epoch is read under the lock that guards the INSERT, so with *)
(* a clock that does not run backwards (created_at_epoch, id) is the order *)
(* of ids, and the column is left out.  So are the payload columns, which  *)
(* no statement here reads.                                                *)
(***************************************************************************)
EXTENDS Naturals

CONSTANTS Session,         \* the rows of sdk_sessions that own messages
          MaxId,           \* bound: how many messages are ever enqueued
          MaxRetries,      \* PendingMessageStore.max_retries
          StaleThreshold,  \* PendingMessageStore.stale_threshold_ms
          MaxClock,        \* bound: last instant of the wall clock
          MaxEvents,       \* bound: events of one kind recorded for one row
          NULL             \* SQL NULL

ASSUME QueueAssumption ==
  /\ MaxId \in Nat
  /\ MaxRetries \in Nat \ {0}
  /\ StaleThreshold \in Nat
  /\ MaxClock \in Nat
  /\ MaxEvents \in Nat
  /\ NULL \notin Nat
  /\ NULL \notin Session

VARIABLES rows,     \* pending_messages; a row never inserted is "unused", a removed one "deleted"
          nextId,   \* the next AUTOINCREMENT id
          events,   \* pending_message_events: how many of each status per message
          now,      \* the wall clock
          handed,   \* history: the messages some claim has returned
          cleared   \* history: the messages removed by the clearing routes

queueVars == <<rows, nextId, events, now, handed, cleared>>

Id == 1..MaxId
Status == {"unused", "pending", "processing", "failed", "deleted"}
Outcome == {"processed", "failed"}

Row == [session : Session \cup {NULL}, status : Status,
        retry_count : Nat, started : Nat \cup {NULL}]

QueueInit ==
  /\ rows = [m \in Id |-> [session |-> NULL, status |-> "unused",
                           retry_count |-> 0, started |-> NULL]]
  /\ nextId = 1
  /\ events = [m \in Id |-> [o \in Outcome |-> 0]]
  /\ now = 0
  /\ handed = {}
  /\ cleared = {}

-----------------------------------------------------------------------------
\* UPDATE ... SET status, started_processing_at_epoch
Move(row, status, started) == [row EXCEPT !.status = status, !.started = started]

\* The row mark_failed gives back: pending once more, one retry later.
Again(row) == [session |-> row.session, status |-> "pending",
               retry_count |-> row.retry_count + 1, started |-> NULL]

-----------------------------------------------------------------------------
(* What the statements select. *)

\* Fault: the heal takes a claim exactly as old as the threshold.
IsStale_Inclusive(m) ==
  rows[m].status = "processing" /\ rows[m].started # NULL /\ rows[m].started + StaleThreshold <= now

\* Fault: the cutoff lies ahead of the clock.
IsStale_Ahead(m) ==
  rows[m].status = "processing" /\ rows[m].started # NULL /\ rows[m].started > now + StaleThreshold

\* started_processing_at_epoch IS NOT NULL AND ... < now - stale_threshold_ms
IsStale(m) ==
  /\ rows[m].status = "processing"
  /\ rows[m].started # NULL
  /\ rows[m].started + StaleThreshold < now

\* Fault: a healed row gets its retries back.
Healed_FreshRetries(s) ==
  [m \in Id |-> IF rows[m].session = s /\ IsStale(m)
                THEN [Move(rows[m], "pending", NULL) EXCEPT !.retry_count = 0]
                ELSE rows[m]]

\* The table after the self-healing UPDATE of claim_next_message.
Healed(s) ==
  [m \in Id |-> IF rows[m].session = s /\ IsStale(m)
                THEN Move(rows[m], "pending", NULL)
                ELSE rows[m]]

PendingOf(table, s) ==
  {m \in Id : table[m].session = s /\ table[m].status = "pending"}

\* ORDER BY created_at_epoch ASC, id ASC LIMIT 1
IsOldest(m, table, s) ==
  /\ m \in PendingOf(table, s)
  /\ \A k \in PendingOf(table, s) : m <= k

\* A row the table still holds.
Exists(m) == rows[m].status \in {"pending", "processing", "failed"}

-----------------------------------------------------------------------------
(* The statements. *)

\* INSERT INTO pending_messages ... 'pending', 0
Enqueue(s) ==
  /\ nextId \in Id
  /\ rows' = [rows EXCEPT ![nextId] =
                [session |-> s, status |-> "pending",
                 retry_count |-> 0, started |-> NULL]]
  /\ nextId' = nextId + 1
  /\ UNCHANGED <<events, now, handed, cleared>>

\* claim_next_message returning the oldest pending row, after the self-heal.
ClaimNextMessage(s, m) ==
  /\ IsOldest(m, Healed(s), s)
  /\ rows' = [Healed(s) EXCEPT ![m] = Move(@, "processing", now)]
  /\ handed' = handed \cup {m}
  /\ UNCHANGED <<nextId, events, now, cleared>>

\* claim_next_message returning None.
ClaimNextNothing(s) ==
  /\ PendingOf(Healed(s), s) = {}
  /\ UNCHANGED queueVars

\* The process dies between the self-heal and the claim.
ClaimNextCutShort(s) ==
  /\ rows' = Healed(s)
  /\ UNCHANGED <<nextId, events, now, handed, cleared>>

\* Fault: the claim forgets its time stamp.
ClaimMessageById_NoStamp(m) ==
  /\ rows[m].status = "pending"
  /\ rows' = [rows EXCEPT ![m] = Move(@, "processing", NULL)]
  /\ handed' = handed \cup {m}
  /\ UNCHANGED <<nextId, events, now, cleared>>

\* Fault: the UPDATE drops its AND status = 'pending'.
ClaimMessageById_Unguarded(m) ==
  /\ Exists(m)
  /\ rows' = [rows EXCEPT ![m] = Move(@, "processing", now)]
  /\ handed' = handed \cup {m}
  /\ UNCHANGED <<nextId, events, now, cleared>>

\* claim_message_by_id when the row is still pending.
ClaimMessageById(m) ==
  /\ rows[m].status = "pending"
  /\ rows' = [rows EXCEPT ![m] = Move(@, "processing", now)]
  /\ handed' = handed \cup {m}
  /\ UNCHANGED <<nextId, events, now, cleared>>

\* INSERT INTO pending_message_events ... SELECT ... WHERE id = m:
\* nothing is recorded for a row that is gone.
RecordQueueEvent(m, outcome) ==
  IF Exists(m)
  THEN /\ events[m][outcome] < MaxEvents
       /\ events' = [events EXCEPT ![m][outcome] = @ + 1]
  ELSE UNCHANGED events

\* Fault: the row is kept as 'processed', as store_batch_and_mark_complete does.
DeleteRow_Mark(m) ==
  rows' = IF Exists(m) THEN [rows EXCEPT ![m] = Move(@, "processed", NULL)]
          ELSE rows

\* DELETE FROM pending_messages WHERE id = m
DeleteRow(m) ==
  rows' = IF Exists(m) THEN [rows EXCEPT ![m] = Move(@, "deleted", NULL)]
          ELSE rows

ConfirmProcessed(m) ==
  /\ RecordQueueEvent(m, "processed")
  /\ DeleteRow(m)
  /\ UNCHANGED <<nextId, now, handed, cleared>>

\* Fault: the DELETE runs before the event.
ConfirmCutShort_DeleteFirst(m) ==
  /\ DeleteRow(m)
  /\ UNCHANGED <<nextId, events, now, handed, cleared>>

\* The process dies between the event and the DELETE.
ConfirmCutShort(m) ==
  /\ RecordQueueEvent(m, "processed")
  /\ UNCHANGED <<rows, nextId, now, handed, cleared>>

\* Fault: one retry too many.
IsLastTry_OffByOne(m) == rows[m].retry_count >= MaxRetries

\* mark_failed's test of the row's current retry_count.
IsLastTry(m) == rows[m].retry_count + 1 >= MaxRetries

\* mark_failed below max_retries: the row returns to pending.
Retried(m) ==
  /\ Exists(m)
  /\ ~ IsLastTry(m)
  /\ rows' = [rows EXCEPT ![m] = Again(rows[m])]
  /\ UNCHANGED <<nextId, events, now, handed, cleared>>

\* mark_failed at max_retries: the row stays, as failed; retry_count and
\* started_processing_at_epoch keep their values.
FailRow(m) ==
  /\ Exists(m)
  /\ IsLastTry(m)
  /\ rows' = [rows EXCEPT ![m] = Move(@, "failed", @.started)]

PermanentlyFailed(m) ==
  /\ FailRow(m)
  /\ RecordQueueEvent(m, "failed")
  /\ UNCHANGED <<nextId, now, handed, cleared>>

\* The process dies between the UPDATE and the event.
FailCutShort(m) ==
  /\ FailRow(m)
  /\ UNCHANGED <<nextId, events, now, handed, cleared>>

MarkFailed(m) ==
  \/ Retried(m)
  \/ PermanentlyFailed(m)
  \/ ~ Exists(m) /\ UNCHANGED queueVars       \* MarkFailedOutcome::NotFound

\* The clearing routes delete every row in one of the given states, whoever
\* is working on it.
ClearRows(statuses) ==
  LET gone == {m \in Id : rows[m].status \in statuses}
  IN  /\ rows' = [m \in Id |-> IF m \in gone
                               THEN Move(rows[m], "deleted", NULL)
                               ELSE rows[m]]
      /\ cleared' = cleared \cup gone
      /\ UNCHANGED <<nextId, events, now, handed>>

FailedClear == ClearRows({"failed"})
AllClear == ClearRows({"pending", "processing", "failed"})

\* Wall-clock time passes.
Tick ==
  /\ now < MaxClock
  /\ now' = now + 1
  /\ UNCHANGED <<rows, nextId, events, handed, cleared>>

-----------------------------------------------------------------------------
(* The queue under any callers: whoever was handed a message may settle it, *)
(* at any time and more than once, since a claim does not name its owner.   *)

Claim ==
  \/ \E s \in Session : \E m \in Id : ClaimNextMessage(s, m)
  \/ \E s \in Session : ClaimNextNothing(s)
  \/ \E m \in Id : ClaimMessageById(m)

Settle == \E m \in handed : ConfirmProcessed(m) \/ MarkFailed(m)

CutShort ==
  \/ \E s \in Session : ClaimNextCutShort(s)
  \/ \E m \in handed : ConfirmCutShort(m) \/ FailCutShort(m)

Next ==
  \/ \E s \in Session : Enqueue(s)
  \/ Claim
  \/ Settle
  \/ CutShort
  \/ FailedClear
  \/ AllClear
  \/ Tick

Spec == QueueInit /\ [][Next]_queueVars
=============================================================================
