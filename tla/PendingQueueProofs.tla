------------------------- MODULE PendingQueueProofs -------------------------
(***************************************************************************)
(* Proofs about the pending-message queue, for any sessions, any number of *)
(* messages and retries, any clock: its inductive invariant and what it    *)
(* gives; that every step of its tables is a step of MessageLedger or      *)
(* changes nothing there; and that a step gives back only a claim that is  *)
(* stale or whose attempt it counts.                                       *)
(***************************************************************************)
EXTENDS PendingQueueProps, TLAPS

\* Moving a row touches its status and time stamp only.
LEMMA MoveRow ==
  ASSUME NEW r \in Row, NEW status \in Status, NEW started \in Nat \cup {NULL}
  PROVE  /\ Move(r, status, started) \in Row
         /\ Move(r, status, started).status = status
         /\ Move(r, status, started).started = started
         /\ Move(r, status, started).session = r.session
         /\ Move(r, status, started).retry_count = r.retry_count
BY DEF Move, Row

\* The table a self-heal leaves is well formed, and heals nothing but claims
\* in processing.
LEMMA HealedRows ==
  ASSUME QueueInv, NEW s \in Session
  PROVE  /\ Healed(s) \in [Id -> Row]
         /\ \A m \in Id :
              /\ Healed(s)[m].session = rows[m].session
              /\ Healed(s)[m].retry_count = rows[m].retry_count
              /\ \/ Healed(s)[m] = rows[m]
                 \/ /\ rows[m].status = "processing"
                    /\ rows[m].session = s
                    /\ rows[m].started # NULL
                    /\ rows[m].started + StaleThreshold < now
                    /\ Healed(s)[m].status = "pending"
                    /\ Healed(s)[m].started = NULL
<1>1. \A m \in Id : rows[m] \in Row
  BY DEF QueueInv, TypeOK
<1>2. \A m \in Id : Healed(s)[m] = IF rows[m].session = s /\ IsStale(m)
                                   THEN Move(rows[m], "pending", NULL) ELSE rows[m]
  BY DEF Healed
<1>3. "pending" \in Status /\ NULL \in Nat \cup {NULL}
  BY DEF Status
<1>4. ASSUME NEW m \in Id
      PROVE  Healed(s)[m] \in Row
  <2>1. rows[m] \in Row
    BY <1>1
  <2>2. Move(rows[m], "pending", NULL) \in Row
    BY <2>1, <1>3, MoveRow
  <2>3. QED
    BY <1>2, <2>1, <2>2
<1>5. Healed(s) \in [Id -> Row]
  BY <1>4 DEF Healed
<1>6. ASSUME NEW m \in Id, rows[m].session = s, IsStale(m)
      PROVE  /\ Healed(s)[m].session = rows[m].session
             /\ Healed(s)[m].retry_count = rows[m].retry_count
             /\ Healed(s)[m].status = "pending"
             /\ Healed(s)[m].started = NULL
  <2>1. Healed(s)[m] = Move(rows[m], "pending", NULL)
    BY <1>2, <1>6
  <2>2. rows[m] \in Row
    BY <1>1
  <2>3. QED
    BY <2>1, <2>2 DEF Move, Row
<1>7. ASSUME NEW m \in Id, ~ (rows[m].session = s /\ IsStale(m))
      PROVE  Healed(s)[m] = rows[m]
  BY <1>2, <1>7
<1>8. QED
  BY <1>5, <1>6, <1>7 DEF IsStale

LEMMA QueueInitInv == QueueInit => QueueInv
BY QueueAssumption DEF QueueInit, QueueInv, TypeOK, RetriesAccounted, NothingLost,
   ClaimsStayHealable, EventsAfterClaims, Id, Row, Status, Outcome, Exists

-----------------------------------------------------------------------------
(* Each statement and operation of the queue preserves the invariant.      *)

LEMMA EnqueueInv == \A s \in Session : QueueInv /\ Enqueue(s) => QueueInv'
<1> SUFFICES ASSUME NEW s \in Session, QueueInv, Enqueue(s)
             PROVE  QueueInv'
  OBVIOUS
<1> USE QueueAssumption DEF Id, Row, Status, Exists
<1>1. /\ nextId \in Nat /\ nextId \in Id
      /\ nextId' = nextId + 1
      /\ \A m \in Id : m # nextId => rows'[m] = rows[m]
      /\ rows'[nextId] = [session |-> s, status |-> "pending",
                          retry_count |-> 0, started |-> NULL]
  BY DEF QueueInv, TypeOK, Enqueue
<1>2. TypeOK'
  BY <1>1 DEF QueueInv, TypeOK, Enqueue
<1>3. RetriesAccounted' /\ ClaimsStayHealable' /\ EventsAfterClaims'
  BY <1>1 DEF QueueInv, RetriesAccounted, ClaimsStayHealable, EventsAfterClaims, Enqueue
<1>4. NothingLost'
  BY <1>1 DEF QueueInv, TypeOK, NothingLost, Enqueue
<1>5. QED
  BY <1>1, <1>2, <1>3, <1>4 DEF QueueInv, TypeOK, Enqueue

LEMMA ClaimNextInv ==
  \A s \in Session, m \in Id : QueueInv /\ ClaimNextMessage(s, m) => QueueInv'
<1> SUFFICES ASSUME NEW s \in Session, NEW m \in Id, QueueInv, ClaimNextMessage(s, m)
             PROVE  QueueInv'
  OBVIOUS
<1>1. /\ Healed(s) \in [Id -> Row]
      /\ \A k \in Id : Healed(s)[k] = rows[k] \/ Healed(s)[k].status = "pending"
      /\ \A k \in Id : Healed(s)[k].retry_count = rows[k].retry_count
      /\ \A k \in Id : Healed(s)[k] # rows[k] => rows[k].status = "processing"
  BY HealedRows
<1>a. Healed(s)[m].status = "pending"
  BY DEF ClaimNextMessage, IsOldest, PendingOf
<1>b. "processing" \in Status /\ now \in Nat \cup {NULL}
  BY DEF Status, QueueInv, TypeOK
<1>c. /\ rows' \in [Id -> Row]
      /\ \A k \in Id : k # m => rows'[k] = Healed(s)[k]
      /\ rows'[m] = Move(Healed(s)[m], "processing", now)
  BY <1>1, <1>b, MoveRow DEF ClaimNextMessage
<1>2. /\ \A k \in Id : k # m => rows'[k] = Healed(s)[k]
      /\ rows'[m].status = "processing" /\ rows'[m].started = now
      /\ rows'[m].retry_count = rows[m].retry_count
      /\ rows' \in [Id -> Row]
      /\ Healed(s)[m].status = "pending"
      /\ rows[m].status \in {"pending", "processing"}
  BY <1>1, <1>a, <1>b, <1>c, MoveRow
<1>3. TypeOK'
  BY <1>2 DEF QueueInv, TypeOK, ClaimNextMessage
<1>4. RetriesAccounted' /\ ClaimsStayHealable' /\ EventsAfterClaims'
  BY <1>1, <1>2 DEF QueueInv, TypeOK, RetriesAccounted, ClaimsStayHealable,
     EventsAfterClaims, ClaimNextMessage
<1>5. NothingLost'
  BY <1>1, <1>2 DEF QueueInv, TypeOK, NothingLost, Exists, Id, ClaimNextMessage
<1>6. QED
  BY <1>1, <1>2, <1>3, <1>4, <1>5 DEF QueueInv, ClaimNextMessage

LEMMA ClaimNextCutShortInv == \A s \in Session : QueueInv /\ ClaimNextCutShort(s) => QueueInv'
<1> SUFFICES ASSUME NEW s \in Session, QueueInv, ClaimNextCutShort(s)
             PROVE  QueueInv'
  OBVIOUS
<1>1. /\ rows' \in [Id -> Row]
      /\ \A k \in Id : rows'[k] = rows[k] \/ rows'[k].status = "pending"
      /\ \A k \in Id : rows'[k].retry_count = rows[k].retry_count
      /\ \A k \in Id : rows'[k] # rows[k] => rows[k].status = "processing"
  BY HealedRows DEF ClaimNextCutShort
<1>2. TypeOK'
  BY <1>1 DEF QueueInv, TypeOK, ClaimNextCutShort
<1>3. RetriesAccounted' /\ ClaimsStayHealable' /\ EventsAfterClaims'
  BY <1>1 DEF QueueInv, TypeOK, RetriesAccounted, ClaimsStayHealable,
     EventsAfterClaims, ClaimNextCutShort
<1>4. NothingLost'
  BY <1>1 DEF QueueInv, TypeOK, NothingLost, Exists, Id, ClaimNextCutShort
<1>5. QED
  BY <1>1, <1>2, <1>3, <1>4 DEF QueueInv, ClaimNextCutShort

LEMMA ClaimByIdInv == \A m \in Id : QueueInv /\ ClaimMessageById(m) => QueueInv'
<1> SUFFICES ASSUME NEW m \in Id, QueueInv, ClaimMessageById(m)
             PROVE  QueueInv'
  OBVIOUS
<1>1. /\ \A k \in Id : k # m => rows'[k] = rows[k]
      /\ rows'[m].status = "processing" /\ rows'[m].started = now
      /\ rows'[m].retry_count = rows[m].retry_count
      /\ rows' \in [Id -> Row]
      /\ rows[m].status = "pending"
  <2>1. "processing" \in Status /\ now \in Nat \cup {NULL} /\ rows[m] \in Row
    BY DEF Status, QueueInv, TypeOK
  <2>2. QED
    BY <2>1, MoveRow DEF ClaimMessageById, QueueInv, TypeOK
<1>2. TypeOK'
  BY <1>1 DEF QueueInv, TypeOK, ClaimMessageById
<1>3. RetriesAccounted' /\ ClaimsStayHealable' /\ EventsAfterClaims'
  BY <1>1 DEF QueueInv, TypeOK, RetriesAccounted, ClaimsStayHealable,
     EventsAfterClaims, ClaimMessageById
<1>4. NothingLost'
  BY <1>1 DEF QueueInv, TypeOK, NothingLost, Exists, Id, ClaimMessageById
<1>5. QED
  BY <1>1, <1>2, <1>3, <1>4 DEF QueueInv, ClaimMessageById

LEMMA DeleteFacts ==
  ASSUME QueueInv, NEW m \in Id, Exists(m), DeleteRow(m)
  PROVE  /\ rows' \in [Id -> Row]
         /\ rows'[m].status = "deleted"
         /\ rows'[m].retry_count = rows[m].retry_count
         /\ \A k \in Id : k # m => rows'[k] = rows[k]
<1>1. "deleted" \in Status /\ NULL \in Nat \cup {NULL} /\ rows \in [Id -> Row]
  BY DEF Status, QueueInv, TypeOK
<1>2. rows' = [rows EXCEPT ![m] = Move(rows[m], "deleted", NULL)]
  BY DEF DeleteRow
<1>3. /\ Move(rows[m], "deleted", NULL) \in Row
      /\ Move(rows[m], "deleted", NULL).status = "deleted"
      /\ Move(rows[m], "deleted", NULL).retry_count = rows[m].retry_count
  <2>1. rows[m] \in Row
    BY <1>1
  <2>2. QED
    BY <1>1, <2>1 DEF Move, Row
<1>4. QED
  BY <1>1, <1>2, <1>3

LEMMA ConfirmInv == \A m \in handed : QueueInv /\ ConfirmProcessed(m) => QueueInv'
<1> SUFFICES ASSUME NEW m \in handed, QueueInv, ConfirmProcessed(m)
             PROVE  QueueInv'
  OBVIOUS
<1>1. m \in Id
  BY DEF QueueInv, TypeOK
<1>2. CASE ~ Exists(m)
  <2>1. UNCHANGED queueVars
    BY <1>2 DEF ConfirmProcessed, RecordQueueEvent, DeleteRow, queueVars
  <2>2. QED
    BY <2>1 DEF queueVars, QueueInv, TypeOK, RetriesAccounted, NothingLost,
       ClaimsStayHealable, EventsAfterClaims, Exists
<1>3. CASE Exists(m)
  <2>1. /\ rows' \in [Id -> Row]
        /\ rows'[m].status = "deleted"
        /\ rows'[m].retry_count = rows[m].retry_count
        /\ \A k \in Id : k # m => rows'[k] = rows[k]
    BY <1>1, <1>3, DeleteFacts DEF ConfirmProcessed
  <2>2. /\ events' \in [Id -> [Outcome -> Nat]]
        /\ events'[m]["processed"] = events[m]["processed"] + 1
        /\ \A k \in Id : k # m => events'[k] = events[k]
    BY <1>1, <1>3 DEF ConfirmProcessed, RecordQueueEvent, QueueInv, TypeOK, Outcome
  <2>3. TypeOK'
    BY <2>1, <2>2 DEF QueueInv, TypeOK, ConfirmProcessed
  <2>4. RetriesAccounted' /\ ClaimsStayHealable'
    BY <1>1, <2>1 DEF QueueInv, RetriesAccounted, ClaimsStayHealable, ConfirmProcessed
  <2>5. EventsAfterClaims'
    BY <1>1, <2>2 DEF QueueInv, EventsAfterClaims, ConfirmProcessed
  <2>6. events'[m]["processed"] > 0
    BY <1>1, <2>2 DEF QueueInv, TypeOK, Outcome
  <2>7. NothingLost'
    BY <1>1, <2>1, <2>2, <2>6 DEF QueueInv, NothingLost, Exists, ConfirmProcessed
  <2>8. QED
    BY <1>1, <1>3, <2>1, <2>3, <2>4, <2>5, <2>7 DEF QueueInv, ConfirmProcessed, Exists
<1>4. QED
  BY <1>2, <1>3

LEMMA ConfirmCutShortInv == \A m \in handed : QueueInv /\ ConfirmCutShort(m) => QueueInv'
<1> SUFFICES ASSUME NEW m \in handed, QueueInv, ConfirmCutShort(m)
             PROVE  QueueInv'
  OBVIOUS
<1>1. m \in Id
  BY DEF QueueInv, TypeOK
<1>2. /\ events' \in [Id -> [Outcome -> Nat]]
      /\ \A k \in Id : k # m => events'[k] = events[k]
      /\ events'[m]["processed"] >= events[m]["processed"]
  BY <1>1 DEF ConfirmCutShort, RecordQueueEvent, QueueInv, TypeOK, Outcome
<1>3. TypeOK' /\ RetriesAccounted' /\ ClaimsStayHealable'
  BY <1>2 DEF QueueInv, TypeOK, RetriesAccounted, ClaimsStayHealable, ConfirmCutShort
<1>4. EventsAfterClaims'
  BY <1>1, <1>2 DEF QueueInv, EventsAfterClaims, ConfirmCutShort
<1>5. \A k \in Id : events[k]["processed"] > 0 => events'[k]["processed"] > 0
  BY <1>1, <1>2 DEF QueueInv, TypeOK, Outcome
<1>6. NothingLost'
  BY <1>5 DEF QueueInv, NothingLost, Exists, ConfirmCutShort
<1>7. QED
  BY <1>3, <1>4, <1>6 DEF QueueInv, ConfirmCutShort

LEMMA RetriedInv == \A m \in handed : QueueInv /\ Retried(m) => QueueInv'
<1> SUFFICES ASSUME NEW m \in handed, QueueInv, Retried(m)
             PROVE  QueueInv'
  OBVIOUS
<1>1. m \in Id /\ rows \in [Id -> Row] /\ rows[m] \in Row
  BY DEF QueueInv, TypeOK
<1>2. /\ Again(rows[m]) \in Row
      /\ Again(rows[m]).status = "pending"
      /\ Again(rows[m]).retry_count = rows[m].retry_count + 1
  BY <1>1 DEF Again, Row, Status
<1>3. rows' = [rows EXCEPT ![m] = Again(rows[m])]
  BY DEF Retried
<1>4. /\ rows' \in [Id -> Row]
      /\ rows'[m].status = "pending"
      /\ rows'[m].retry_count = rows[m].retry_count + 1
      /\ \A k \in Id : k # m => rows'[k] = rows[k]
  BY <1>1, <1>2, <1>3
<1>5. TypeOK' /\ ClaimsStayHealable' /\ EventsAfterClaims'
  BY <1>4 DEF QueueInv, TypeOK, ClaimsStayHealable, EventsAfterClaims, Retried
<1>6. rows[m].retry_count + 1 < MaxRetries
  BY <1>1, QueueAssumption DEF Retried, IsLastTry, Row
<1>7. RetriesAccounted'
  BY <1>4, <1>6 DEF QueueInv, RetriesAccounted, Retried
<1>8. NothingLost'
  BY <1>4 DEF QueueInv, NothingLost, Exists, Retried
<1>9. QED
  BY <1>1, <1>4, <1>5, <1>7, <1>8 DEF QueueInv, Retried

\* What the UPDATE to 'failed' leaves.
LEMMA FailFacts ==
  ASSUME QueueInv, NEW m \in Id, FailRow(m)
  PROVE  /\ rows' \in [Id -> Row]
         /\ rows'[m].status = "failed"
         /\ rows'[m].retry_count = rows[m].retry_count
         /\ rows[m].retry_count + 1 = MaxRetries
         /\ \A k \in Id : k # m => rows'[k] = rows[k]
<1>1. rows \in [Id -> Row] /\ rows[m] \in Row /\ "failed" \in Status
  BY DEF QueueInv, TypeOK, Status
<1>2. rows' = [rows EXCEPT ![m] = Move(rows[m], "failed", rows[m].started)]
  BY DEF FailRow
<1>3. /\ Move(rows[m], "failed", rows[m].started) \in Row
      /\ Move(rows[m], "failed", rows[m].started).status = "failed"
      /\ Move(rows[m], "failed", rows[m].started).retry_count = rows[m].retry_count
  BY <1>1 DEF Move, Row
<1>4. rows[m].retry_count + 1 = MaxRetries
  BY <1>1, QueueAssumption DEF QueueInv, RetriesAccounted, FailRow, IsLastTry, Row
<1>5. QED
  BY <1>1, <1>2, <1>3, <1>4

LEMMA FailInv ==
  \A m \in handed : QueueInv /\ (PermanentlyFailed(m) \/ FailCutShort(m)) => QueueInv'
<1> SUFFICES ASSUME NEW m \in handed, QueueInv, PermanentlyFailed(m) \/ FailCutShort(m)
             PROVE  QueueInv'
  OBVIOUS
<1>1. m \in Id
  BY DEF QueueInv, TypeOK
<1>2. /\ rows' \in [Id -> Row]
      /\ rows'[m].status = "failed"
      /\ rows'[m].retry_count = rows[m].retry_count
      /\ rows[m].retry_count + 1 = MaxRetries
      /\ \A k \in Id : k # m => rows'[k] = rows[k]
  BY <1>1, FailFacts DEF PermanentlyFailed, FailCutShort
<1>3. UNCHANGED <<nextId, now, handed, cleared>>
  BY DEF PermanentlyFailed, FailCutShort
<1>4. /\ events' \in [Id -> [Outcome -> Nat]]
      /\ \A k \in Id : k # m => events'[k] = events[k]
      /\ events'[m]["processed"] = events[m]["processed"]
  BY <1>1 DEF PermanentlyFailed, FailCutShort, RecordQueueEvent, QueueInv, TypeOK, Outcome
<1>5. TypeOK' /\ ClaimsStayHealable'
  BY <1>2, <1>3, <1>4 DEF QueueInv, TypeOK, ClaimsStayHealable
<1>6. RetriesAccounted'
  BY <1>2, <1>3 DEF QueueInv, RetriesAccounted
<1>7. EventsAfterClaims'
  BY <1>1, <1>3, <1>4 DEF QueueInv, EventsAfterClaims
<1>8. NothingLost'
  BY <1>2, <1>3, <1>4 DEF QueueInv, NothingLost, Exists
<1>9. Exists(m)
  BY DEF PermanentlyFailed, FailCutShort, FailRow
<1>10. QED
  BY <1>1, <1>2, <1>3, <1>5, <1>6, <1>7, <1>8, <1>9 DEF QueueInv, Exists

LEMMA ClearInv ==
  ASSUME NEW statuses \in SUBSET {"pending", "processing", "failed"},
         QueueInv, ClearRows(statuses)
  PROVE  QueueInv'
<1> DEFINE gone == {m \in Id : rows[m].status \in statuses}
<1>1. /\ \A m \in Id : rows[m] \in Row
      /\ "deleted" \in Status /\ NULL \in Nat \cup {NULL}
  BY DEF QueueInv, TypeOK, Status
<1>2. /\ rows' = [m \in Id |-> IF m \in gone THEN Move(rows[m], "deleted", NULL)
                               ELSE rows[m]]
      /\ cleared' = cleared \cup gone
      /\ UNCHANGED <<nextId, events, now, handed>>
  BY DEF ClearRows
<1>3. \A m \in Id : /\ Move(rows[m], "deleted", NULL) \in Row
                    /\ Move(rows[m], "deleted", NULL).status = "deleted"
                    /\ Move(rows[m], "deleted", NULL).retry_count = rows[m].retry_count
  BY <1>1 DEF Move, Row
<1>4. /\ rows' \in [Id -> Row]
      /\ \A m \in gone : rows'[m].status = "deleted" /\ rows[m].status \in statuses
      /\ \A m \in Id : rows'[m].retry_count = rows[m].retry_count
      /\ \A m \in Id \ gone : rows'[m] = rows[m]
  <2>1. \A m \in Id : rows'[m] = IF m \in gone THEN Move(rows[m], "deleted", NULL)
                                  ELSE rows[m]
    BY <1>2
  <2>2. \A m \in Id : rows'[m] \in Row
    BY <2>1, <1>1, <1>3
  <2>3. rows' \in [Id -> Row]
    BY <1>2, <2>2
  <2>4. QED
    BY <2>1, <2>3, <1>3
<1>5. gone \subseteq Id
  OBVIOUS
<1>6. \A m \in gone : rows[m].status \in {"pending", "processing", "failed"}
  OBVIOUS
<1> HIDE DEF gone
<1>7. TypeOK' /\ ClaimsStayHealable' /\ EventsAfterClaims'
  BY <1>2, <1>4, <1>5 DEF QueueInv, TypeOK, ClaimsStayHealable, EventsAfterClaims
<1>8. RetriesAccounted'
  BY <1>2, <1>4, <1>5 DEF QueueInv, RetriesAccounted
<1>9. NothingLost'
  BY <1>2, <1>4, <1>5 DEF QueueInv, NothingLost, Exists
<1>10. QED
  BY <1>2, <1>4, <1>5, <1>6, <1>7, <1>8, <1>9 DEF QueueInv

LEMMA TickInv == QueueInv /\ Tick => QueueInv'
<1> SUFFICES ASSUME QueueInv, Tick
             PROVE  QueueInv'
  OBVIOUS
<1>1. TypeOK'
  BY DEF QueueInv, TypeOK, Tick
<1>2. ClaimsStayHealable'
  BY DEF QueueInv, TypeOK, ClaimsStayHealable, Tick
<1>3. RetriesAccounted' /\ NothingLost' /\ EventsAfterClaims'
  BY DEF QueueInv, RetriesAccounted, NothingLost, EventsAfterClaims, Exists, Tick
<1>4. QED
  BY <1>1, <1>2, <1>3 DEF QueueInv, Tick

LEMMA StutterInv == QueueInv /\ UNCHANGED queueVars => QueueInv'
BY DEF QueueInv, TypeOK, RetriesAccounted, NothingLost, ClaimsStayHealable,
   EventsAfterClaims, Exists, queueVars

\* Every step of the queue, stuttering included, preserves the invariant.
LEMMA NextInv == QueueInv /\ [Next]_queueVars => QueueInv'
<1> SUFFICES ASSUME QueueInv, [Next]_queueVars
             PROVE  QueueInv'
  OBVIOUS
<1>0. handed \subseteq Id
  BY DEF QueueInv, TypeOK
<1>1. CASE \E s \in Session : Enqueue(s)
  BY <1>1, EnqueueInv
<1>2. CASE Claim
  BY <1>2, ClaimNextInv, ClaimByIdInv, StutterInv DEF Claim, ClaimNextNothing
<1>3. CASE Settle
  BY <1>3, ConfirmInv, RetriedInv, FailInv, StutterInv DEF Settle, MarkFailed
<1>4. CASE CutShort
  BY <1>4, ClaimNextCutShortInv, ConfirmCutShortInv, FailInv DEF CutShort
<1>5. CASE FailedClear
  BY <1>5, ClearInv DEF FailedClear
<1>6. CASE AllClear
  BY <1>6, ClearInv DEF AllClear
<1>7. CASE Tick
  BY <1>7, TickInv
<1>8. CASE UNCHANGED queueVars
  BY <1>8, StutterInv
<1>9. QED
  BY <1>1, <1>2, <1>3, <1>4, <1>5, <1>6, <1>7, <1>8 DEF Next

-----------------------------------------------------------------------------
(* The theorems.                                                           *)

\* The inductive invariant holds of every behaviour of the queue, whatever its
\* callers do and wherever the process dies (pending_messages.rs:66-267).
THEOREM QueueInvariant == Spec => []QueueInv
<1>1. QueueInit => QueueInv
  BY QueueInitInv
<1>2. QueueInv /\ [Next]_queueVars => QueueInv'
  BY NextInv
<1>3. QED
  BY <1>1, <1>2, PTL DEF Spec

\* Every column stays in its domain.
THEOREM TypeCorrect == Spec => []TypeOK
<1>1. QueueInv => TypeOK
  BY DEF QueueInv
<1>2. QED
  BY <1>1, QueueInvariant, PTL

\* No message is lost: an inserted row stays in the table until an event says
\* it was processed or a clearing route removes it (confirm_processed).
THEOREM MessagesNotLost == Spec => []NothingLost
<1>1. QueueInv => NothingLost
  BY DEF QueueInv
<1>2. QED
  BY <1>1, QueueInvariant, PTL

\* retry_count counts the retried attempts, and max_retries bounds it
\* (mark_failed).
THEOREM RetriesCounted == Spec => []RetriesAccounted
<1>1. QueueInv => RetriesAccounted
  BY DEF QueueInv
<1>2. QED
  BY <1>1, QueueInvariant, PTL

\* Every claim carries a time stamp the self-heal can find stale
\* (claim_next_message).
THEOREM ClaimsHealable == Spec => []ClaimsStayHealable
<1>1. QueueInv => ClaimsStayHealable
  BY DEF QueueInv
<1>2. QED
  BY <1>1, QueueInvariant, PTL

-----------------------------------------------------------------------------
(* The refinement mapping.                                                 *)

\* Fate, status by status.
LEMMA FateFacts ==
  ASSUME QueueInv, NEW m \in Id
  PROVE  /\ rows[m].status = "unused" => Fate(m) = "unknown"
         /\ rows[m].status \in {"pending", "processing"} => Fate(m) = "open"
         /\ rows[m].status = "failed" => Fate(m) = "failed"
         /\ rows[m].status = "deleted" =>
              Fate(m) = IF events[m]["processed"] > 0 THEN "processed" ELSE "dropped"
         /\ rows[m].status \in Status
<1>1. rows[m].status \in Status
  BY DEF QueueInv, TypeOK, Row
<1>2. QED
  BY <1>1 DEF Fate, Status

\* The same after a step.
LEMMA FateFactsNext ==
  ASSUME QueueInv', NEW m \in Id
  PROVE  /\ rows'[m].status = "unused" => Fate(m)' = "unknown"
         /\ rows'[m].status \in {"pending", "processing"} => Fate(m)' = "open"
         /\ rows'[m].status = "failed" => Fate(m)' = "failed"
         /\ rows'[m].status = "deleted" =>
              Fate(m)' = IF events'[m]["processed"] > 0 THEN "processed" ELSE "dropped"
         /\ rows'[m].status \in Status
<1>1. rows'[m].status \in Status
  BY DEF QueueInv, TypeOK, Row
<1>2. QED
  BY <1>1 DEF Fate, Status

\* A message whose row keeps its status keeps its fate, if its events do not count
\* any more or have not changed; and so does one that is claimed or given back.
LEMMA FateKept ==
  ASSUME QueueInv, QueueInv', NEW m \in Id,
         \/ /\ rows'[m].status = rows[m].status
            /\ rows[m].status # "deleted" \/ events'[m] = events[m]
         \/ /\ rows[m].status \in {"pending", "processing"}
            /\ rows'[m].status \in {"pending", "processing"}
  PROVE  Fate(m)' = Fate(m)
<1>1. rows[m].status \in {"unused", "pending", "processing", "failed", "deleted"}
  BY FateFacts DEF Status
<1>2. QED
  BY <1>1, FateFacts, FateFactsNext

LEMMA InitMaps == QueueInit => Ledger!Init
BY DEF QueueInit, Fate, Ledger!Init

\* A step that changes no fate, no attempts and no deliveries.
LEMMA StutterMaps ==
  ASSUME \A m \in Id : Fate(m)' = Fate(m) /\ rows'[m].retry_count = rows[m].retry_count,
         handed' = handed
  PROVE  UNCHANGED Ledger!ledgerVars
BY DEF Ledger!ledgerVars

-----------------------------------------------------------------------------
(* Each operation of the queue is a step of the ledger.                    *)

\* A row that was never inserted has no retries: nobody was handed it.
LEMMA EnqueueMaps ==
  ASSUME QueueInv, QueueInv', NEW s \in Session, Enqueue(s)
  PROVE  Ledger!Next
<1>m. PICK m \in Id : m = nextId
  BY DEF Enqueue
<1>1. /\ handed' = handed /\ events' = events
      /\ rows'[m].status = "pending" /\ rows'[m].retry_count = 0
      /\ \A k \in Id : k # m => rows'[k] = rows[k]
  BY <1>m DEF Enqueue, QueueInv, TypeOK
<1>2. rows[m].status = "unused" /\ rows[m].retry_count = 0
  <2>1. m >= nextId
    BY <1>m DEF Id
  <2>2. rows[m].status = "unused" /\ m \notin handed
    BY <1>1, <2>1 DEF QueueInv
  <2>3. rows[m].retry_count \in Nat /\ ~ (rows[m].retry_count > 0)
    BY <1>1, <2>2 DEF QueueInv, TypeOK, RetriesAccounted, Row
  <2>4. QED
    BY <2>2, <2>3
<1>3. Fate(m) = "unknown" /\ Fate(m)' = "open"
  BY <1>1, <1>2, FateFacts, FateFactsNext
<1>4. \A k \in Id : k # m => Fate(k)' = Fate(k)
  BY <1>1, FateKept
<1>5. \A k \in Id : rows'[k].retry_count = rows[k].retry_count
  BY <1>1, <1>2
<1>6. Ledger!Accept(m)
  BY <1>1, <1>3, <1>4, <1>5 DEF Ledger!Accept
<1>7. QED
  BY <1>1, <1>6 DEF Ledger!Next

\* A claim hands over one message that is open, whatever it heals besides.
LEMMA ClaimMaps ==
  ASSUME QueueInv, QueueInv', NEW m \in Id,
         (\E s \in Session : ClaimNextMessage(s, m)) \/ ClaimMessageById(m)
  PROVE  Ledger!Next
<1> DEFINE Claimed ==
      /\ handed' = handed \cup {m} /\ events' = events
      /\ rows[m].status \in {"pending", "processing"} /\ rows'[m].status = "processing"
      /\ \A k \in Id : rows'[k].retry_count = rows[k].retry_count
      /\ \A k \in Id : k # m =>
           \/ rows'[k] = rows[k]
           \/ rows[k].status = "processing" /\ rows'[k].status = "pending"
<1>a. ASSUME ClaimMessageById(m) PROVE Claimed
  <2>1. rows[m] \in Row /\ "processing" \in Status /\ now \in Nat \cup {NULL}
    BY DEF QueueInv, TypeOK, Status
  <2>2. rows' = [rows EXCEPT ![m] = Move(rows[m], "processing", now)]
    BY <1>a DEF ClaimMessageById
  <2>3. QED
    BY <1>a, <2>1, <2>2, MoveRow DEF ClaimMessageById, QueueInv, TypeOK
<1>b. ASSUME NEW s \in Session, ClaimNextMessage(s, m) PROVE Claimed
  <2>1. /\ Healed(s) \in [Id -> Row] /\ Healed(s)[m].status = "pending"
        /\ rows' = [Healed(s) EXCEPT ![m] = Move(Healed(s)[m], "processing", now)]
    BY <1>b, HealedRows DEF ClaimNextMessage, IsOldest, PendingOf
  <2>2. "processing" \in Status /\ now \in Nat \cup {NULL} /\ Healed(s)[m] \in Row
    BY <2>1 DEF QueueInv, TypeOK, Status
  <2>3. /\ rows'[m].status = "processing"
        /\ rows'[m].retry_count = Healed(s)[m].retry_count
        /\ \A k \in Id : k # m => rows'[k] = Healed(s)[k]
    BY <2>1, <2>2, MoveRow
  <2>4. \A k \in Id :
          /\ Healed(s)[k].retry_count = rows[k].retry_count
          /\ \/ Healed(s)[k] = rows[k]
             \/ rows[k].status = "processing" /\ Healed(s)[k].status = "pending"
    BY HealedRows
  <2>5. QED
    BY <1>b, <2>1, <2>3, <2>4 DEF ClaimNextMessage
<1>1. Claimed
  BY <1>a, <1>b
<1>2. Fate(m) = "open"
  BY <1>1, FateFacts
<1>3. \A k \in Id : Fate(k)' = Fate(k)
  BY <1>1, FateKept
<1>4. Ledger!Deliver(m)
  BY <1>1, <1>2, <1>3 DEF Ledger!Deliver
<1>5. QED
  BY <1>4 DEF Ledger!Next

\* A heal that the claim does not follow changes no fate.
LEMMA HealMaps ==
  ASSUME QueueInv, QueueInv', NEW s \in Session, ClaimNextCutShort(s)
  PROVE  UNCHANGED Ledger!ledgerVars
<1>1. \A k \in Id :
        /\ rows'[k].retry_count = rows[k].retry_count
        /\ \/ rows'[k] = rows[k]
           \/ rows[k].status = "processing" /\ rows'[k].status = "pending"
  BY HealedRows DEF ClaimNextCutShort
<1>2. handed' = handed /\ events' = events
  BY DEF ClaimNextCutShort
<1>3. QED
  BY <1>1, <1>2, FateKept, StutterMaps

\* The event and the deletion make the message processed, whichever attempt ends so.
LEMMA ConfirmMaps ==
  ASSUME QueueInv, QueueInv', NEW m \in handed, ConfirmProcessed(m), Exists(m)
  PROVE  Ledger!Next
<1>1. m \in Id /\ handed' = handed
  BY DEF ConfirmProcessed, QueueInv, TypeOK
<1>2. /\ rows'[m].status = "deleted" /\ rows'[m].retry_count = rows[m].retry_count
      /\ \A k \in Id : k # m => rows'[k] = rows[k]
  BY <1>1, DeleteFacts DEF ConfirmProcessed
<1>3. events'[m]["processed"] > 0 /\ \A k \in Id : k # m => events'[k] = events[k]
  BY <1>1 DEF ConfirmProcessed, RecordQueueEvent, QueueInv, TypeOK, Outcome
<1>4. Fate(m) \in {"open", "failed"} /\ Fate(m)' = "processed"
  BY <1>1, <1>2, <1>3, FateFacts, FateFactsNext DEF Exists
<1>5. \A k \in Id : k # m => Fate(k)' = Fate(k)
  BY <1>2, <1>3, FateKept
<1>6. Ledger!Process(m)
  BY <1>1, <1>2, <1>4, <1>5 DEF Ledger!Process
<1>7. QED
  BY <1>1, <1>6 DEF Ledger!Next

\* An event alone says nothing yet: the row is still there.
LEMMA ConfirmCutMaps ==
  ASSUME QueueInv, QueueInv', NEW m \in handed, ConfirmCutShort(m)
  PROVE  UNCHANGED Ledger!ledgerVars
<1>1. rows' = rows /\ handed' = handed /\ m \in Id
  BY DEF ConfirmCutShort, QueueInv, TypeOK
<1>2. \A k \in Id : rows[k].status # "deleted" \/ events'[k] = events[k]
  BY <1>1 DEF ConfirmCutShort, RecordQueueEvent, Exists, QueueInv, TypeOK
<1>3. QED
  BY <1>1, <1>2, FateKept, StutterMaps

\* A failed row has no retry left, so a retry is one of an open message.
LEMMA RetryMaps ==
  ASSUME QueueInv, QueueInv', NEW m \in handed, Retried(m)
  PROVE  Ledger!Next
<1>1. m \in Id /\ rows[m] \in Row /\ handed' = handed /\ events' = events
  BY DEF Retried, QueueInv, TypeOK
<1>2. /\ rows'[m].status = "pending" /\ rows'[m].retry_count = rows[m].retry_count + 1
      /\ \A k \in Id : k # m => rows'[k] = rows[k]
  BY <1>1 DEF Retried, Again, QueueInv, TypeOK
<1>3. rows[m].retry_count + 1 < MaxRetries
  BY <1>1, QueueAssumption DEF Retried, IsLastTry, Row
<1>4. rows[m].status \in {"pending", "processing"}
  BY <1>1, <1>3, QueueAssumption DEF Retried, Exists, QueueInv, RetriesAccounted, Row
<1>5. Fate(m) = "open" /\ \A k \in Id : Fate(k)' = Fate(k)
  BY <1>1, <1>2, <1>4, FateFacts, FateKept
<1>6. Ledger!Retry(m)
  BY <1>1, <1>2, <1>3, <1>5 DEF Ledger!Retry
<1>7. QED
  BY <1>1, <1>6 DEF Ledger!Next

\* The last failure gives an open message up, and changes nothing of a failed one.
LEMMA FailMaps ==
  ASSUME QueueInv, QueueInv', NEW m \in handed, PermanentlyFailed(m) \/ FailCutShort(m)
  PROVE  Ledger!Next \/ UNCHANGED Ledger!ledgerVars
<1>1. m \in Id /\ handed' = handed /\ Exists(m)
  BY DEF PermanentlyFailed, FailCutShort, FailRow, QueueInv, TypeOK
<1>2. /\ rows'[m].status = "failed" /\ rows'[m].retry_count = rows[m].retry_count
      /\ rows[m].retry_count + 1 = MaxRetries
      /\ \A k \in Id : k # m => rows'[k] = rows[k]
  BY <1>1, FailFacts DEF PermanentlyFailed, FailCutShort
<1>3. \A k \in Id : k # m => events'[k] = events[k]
  BY <1>1 DEF PermanentlyFailed, FailCutShort, RecordQueueEvent, QueueInv, TypeOK
<1>4. Fate(m)' = "failed" /\ \A k \in Id : k # m => Fate(k)' = Fate(k)
  BY <1>1, <1>2, <1>3, FateFactsNext, FateKept
<1>5. CASE rows[m].status = "failed"
  <2>1. Fate(m)' = Fate(m)
    BY <1>1, <1>4, <1>5, FateFacts
  <2>2. QED
    BY <1>1, <1>2, <1>4, <2>1, StutterMaps
<1>6. CASE rows[m].status # "failed"
  <2>1. Fate(m) = "open"
    BY <1>1, <1>6, FateFacts DEF Exists
  <2>2. Ledger!GiveUp(m)
    BY <1>1, <1>2, <1>4, <2>1 DEF Ledger!GiveUp
  <2>3. QED
    BY <1>1, <2>2 DEF Ledger!Next
<1>7. QED
  BY <1>5, <1>6

\* A clearing route drops its rows, except those already reported as processed.
LEMMA ClearMaps ==
  ASSUME QueueInv, QueueInv',
         NEW statuses \in SUBSET {"pending", "processing", "failed"}, ClearRows(statuses)
  PROVE  Ledger!Next
<1> DEFINE gone == {m \in Id : rows[m].status \in statuses}
           reported == {m \in gone : events[m]["processed"] > 0}
<1>1. handed' = handed /\ events' = events
  BY DEF ClearRows
<1>2. \A m \in Id :
        /\ rows'[m].retry_count = rows[m].retry_count
        /\ m \in gone => rows'[m].status = "deleted"
        /\ m \notin gone => rows'[m] = rows[m]
  <2>1. \A m \in Id : rows'[m] = IF m \in gone THEN Move(rows[m], "deleted", NULL) ELSE rows[m]
    BY DEF ClearRows
  <2>2. \A m \in Id : rows[m] \in Row
    BY DEF QueueInv, TypeOK
  <2>3. \A m \in Id : /\ Move(rows[m], "deleted", NULL).status = "deleted"
                      /\ Move(rows[m], "deleted", NULL).retry_count = rows[m].retry_count
    BY <2>2 DEF Move, Row
  <2>4. QED
    BY <2>1, <2>3
<1>3. /\ gone \subseteq Id /\ reported \subseteq gone
      /\ \A m \in gone : rows[m].status \in {"pending", "processing", "failed"}
      /\ \A m \in gone : m \in reported <=> events[m]["processed"] > 0
  OBVIOUS
<1>4. reported \subseteq handed
  BY DEF QueueInv, EventsAfterClaims, Outcome
<1> HIDE DEF gone, reported
<1>5. \A m \in gone : Fate(m) \in {"open", "failed"}
  BY <1>3, FateFacts
<1>6. \A m \in Id : Fate(m)' = IF m \in reported THEN "processed"
                               ELSE IF m \in gone THEN "dropped" ELSE Fate(m)
  BY <1>1, <1>2, <1>3, FateKept, FateFactsNext
<1>7. Ledger!Drop(gone, reported)
  <2>1. \A m \in gone \cup reported : [k \in Id |-> Fate(k)][m] \in {"open", "failed"}
    BY <1>3, <1>5
  <2>2. [m \in Id |-> Fate(m)'] =
          [m \in Id |-> IF m \in reported THEN "processed"
                        ELSE IF m \in gone THEN "dropped" ELSE [k \in Id |-> Fate(k)][m]]
    BY <1>6
  <2>3. [m \in Id |-> rows'[m].retry_count] = [m \in Id |-> rows[m].retry_count]
    BY <1>2
  <2>4. QED
    BY <1>1, <1>4, <2>1, <2>2, <2>3 DEF Ledger!Drop
<1>8. QED
  BY <1>3, <1>7 DEF Ledger!Next

-----------------------------------------------------------------------------
\* Every step of the tables is one of the ledger, or none.
LEMMA StepMaps ==
  ASSUME QueueInv, QueueInv', [Next]_queueVars
  PROVE  [Ledger!Next]_(Ledger!ledgerVars)
<1>1. ASSUME UNCHANGED queueVars
      PROVE  UNCHANGED Ledger!ledgerVars
  BY <1>1 DEF queueVars, Fate, Ledger!ledgerVars
<1>2. CASE \E s \in Session : Enqueue(s)
  BY <1>2, EnqueueMaps
<1>3. CASE Claim
  BY <1>1, <1>3, ClaimMaps DEF Claim, ClaimNextNothing
<1>4. CASE Settle
  <2>1. PICK m \in handed : ConfirmProcessed(m) \/ MarkFailed(m)
    BY <1>4 DEF Settle
  <2>2. CASE ConfirmProcessed(m) /\ ~ Exists(m)
    BY <1>1, <2>2 DEF ConfirmProcessed, RecordQueueEvent, DeleteRow, queueVars
  <2>3. QED
    BY <1>1, <2>1, <2>2, ConfirmMaps, RetryMaps, FailMaps DEF MarkFailed
<1>5. CASE CutShort
  BY <1>5, HealMaps, ConfirmCutMaps, FailMaps DEF CutShort
<1>6. CASE FailedClear \/ AllClear
  BY <1>6, ClearMaps DEF FailedClear, AllClear
<1>7. CASE Tick
  <2>1. UNCHANGED <<rows, events, handed>>
    BY <1>7 DEF Tick
  <2>2. QED
    BY <2>1 DEF Fate, Ledger!ledgerVars
<1>8. QED
  BY <1>1, <1>2, <1>3, <1>4, <1>5, <1>6, <1>7 DEF Next

\* The queue implements the ledger its header promises (pending_messages.rs:1-21),
\* whatever its callers do and wherever the process dies.
THEOREM LedgerKept == Spec => KeepsLedger
<1>1. QueueInit => Ledger!Init
  BY InitMaps
<1>2. QueueInv /\ QueueInv' /\ [Next]_queueVars => [Ledger!Next]_(Ledger!ledgerVars)
  BY StepMaps
<1>3. QED
  BY <1>1, <1>2, QueueInvariant, PTL DEF Spec, KeepsLedger, Ledger!Spec

-----------------------------------------------------------------------------
\* A step takes a row out of a claim only by a heal whose time has come or by a
\* retry that is counted.
LEMMA StepKeepsClaims ==
  ASSUME QueueInv, Next, NEW m \in Id,
         rows[m].status = "processing", rows'[m].status = "pending"
  PROVE  \/ rows[m].started + StaleThreshold < now
         \/ rows'[m].retry_count = rows[m].retry_count + 1
<1>1. rows \in [Id -> Row] /\ nextId \in Nat /\ handed \subseteq Id
  BY DEF QueueInv, TypeOK
<1>2. CASE \E s \in Session : Enqueue(s)
  <2>1. rows[nextId].status = "unused" /\ nextId \in Id
    BY <1>1, <1>2 DEF Enqueue, QueueInv, Id
  <2>2. rows'[m] = rows[m]
    BY <1>1, <1>2, <2>1 DEF Enqueue
  <2>3. QED
    BY <2>2
<1>3. CASE Claim \/ \E s \in Session : ClaimNextCutShort(s)
  <2>1. ASSUME NEW s \in Session, NEW k \in Id, ClaimNextMessage(s, k)
        PROVE  rows[m].started + StaleThreshold < now
    <3>1. /\ Healed(s) \in [Id -> Row] /\ Healed(s)[k] \in Row
          /\ rows' = [Healed(s) EXCEPT ![k] = Move(Healed(s)[k], "processing", now)]
      BY <2>1, HealedRows DEF ClaimNextMessage
    <3>2. Move(Healed(s)[k], "processing", now).status = "processing"
      BY <3>1 DEF Move, Row
    <3>3. rows'[m] = Healed(s)[m]
      BY <3>1, <3>2
    <3>4. QED
      BY <3>3, HealedRows
  <2>2. ASSUME NEW s \in Session, ClaimNextCutShort(s)
        PROVE  rows[m].started + StaleThreshold < now
    BY <2>2, HealedRows DEF ClaimNextCutShort
  <2>3. ASSUME NEW k \in Id, ClaimMessageById(k)
        PROVE  FALSE
    BY <2>3, <1>1 DEF ClaimMessageById
  <2>4. ASSUME NEW s \in Session, ClaimNextNothing(s)
        PROVE  FALSE
    BY <2>4 DEF ClaimNextNothing, queueVars
  <2>5. QED
    BY <1>3, <2>1, <2>2, <2>3, <2>4 DEF Claim
<1>4. CASE Settle \/ \E k \in handed : ConfirmCutShort(k) \/ FailCutShort(k)
  <2>1. PICK k \in handed :
          ConfirmProcessed(k) \/ MarkFailed(k) \/ ConfirmCutShort(k) \/ FailCutShort(k)
    BY <1>4 DEF Settle
  <2>2. k \in Id
    BY <1>1
  <2>3. CASE Retried(k)
    <3>1. rows' = [rows EXCEPT ![k] = Again(rows[k])]
      BY <2>3 DEF Retried
    <3>2. k = m
      BY <1>1, <3>1
    <3>3. QED
      BY <1>1, <3>1, <3>2 DEF Again
  <2>4. CASE PermanentlyFailed(k) \/ FailCutShort(k)
    BY <2>2, <2>4, FailFacts DEF PermanentlyFailed, FailCutShort
  <2>5. CASE ConfirmProcessed(k)
    BY <2>2, <2>5, DeleteFacts DEF ConfirmProcessed, DeleteRow
  <2>6. QED
    BY <2>1, <2>3, <2>4, <2>5 DEF MarkFailed, ConfirmCutShort, queueVars
<1>5. CASE FailedClear \/ AllClear
  BY <1>1, <1>5 DEF FailedClear, AllClear, ClearRows, Move, Row
<1>6. CASE Tick
  BY <1>6 DEF Tick
<1>7. QED
  BY <1>2, <1>3, <1>4, <1>5, <1>6 DEF Next, CutShort

\* The self-heal never takes a message from an observer that is within its time
\* (claim_next_message, pending_messages.rs:112-129), however claims, settlements
\* and clearing routes follow each other.
THEOREM ClaimsKept == Spec => LiveClaimsKept
<1> DEFINE Kept == \A m \in Id :
             rows[m].status = "processing" /\ rows'[m].status = "pending" =>
               \/ rows[m].started + StaleThreshold < now
               \/ rows'[m].retry_count = rows[m].retry_count + 1
<1>1. QueueInv /\ [Next]_queueVars => [Kept]_queueVars
  BY StepKeepsClaims
<1>2. QED
  BY <1>1, QueueInvariant, PTL DEF Spec, LiveClaimsKept
=============================================================================
