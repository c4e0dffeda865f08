------------------------ MODULE ObserverOwnerProofs ------------------------
(***************************************************************************)
(* Proofs about who works on a message.  No claim names its owner: what    *)
(* keeps handlers apart is time.  As long as no provider of a message has  *)
(* run longer than its claim lasts, the message has one owner at a time,   *)
(* whom only a clearing route disturbs, the retry_count its handler read   *)
(* at the claim is still the one in the table when the provider fails, and *)
(* an answer is stored once, however often the message is processed.  The  *)
(* constants are arbitrary: the messages that overran are the exception,   *)
(* and there are none where ProviderTimeout <= StaleThreshold.             *)
(***************************************************************************)
EXTENDS ObserverOwners, ObserverProofs, FiniteSetTheorems

\* The row of a message at its provider is as the claim left it, or was cleared; the
\* claim is not stale; and nobody else is at work on the message, unless it overran.
Owned ==
  \A t \in Task : AtProvider(t) /\ task[t].msg \notin overrun =>
    /\ \/ rows[task[t].msg].status = "deleted"
       \/ /\ rows[task[t].msg].status = "processing"
          /\ rows[task[t].msg].started = task[t].since
          /\ rows[task[t].msg].retry_count = task[t].retry
    /\ now <= task[t].since + StaleThreshold
    /\ \A u \in Task : AtProvider(u) /\ task[u].msg = task[t].msg => u = t

\* A step leaves the row of everybody at a provider alone, handler t excepted.
KeepsOthers(t) ==
  \A u \in Task : u # t /\ AtProvider(u) /\ task[u].msg \notin overrun => rows'[task[u].msg] = rows[task[u].msg]

-----------------------------------------------------------------------------
LEMMA ProviderFacts ==
  ASSUME QueueInv, TasksOK, NEW t \in Task, AtProvider(t)
  PROVE  task[t].msg \in Id /\ task[t].msg \in handed /\ task[t].since \in Nat /\ now \in Nat
BY DEF AtProvider, TasksOK, Sound, TaskRecord, QueueInv, TypeOK

\* The self-heal does not reach a message that has not overrun, and no
\* claim finds it pending.
LEMMA HealSpares ==
  ASSUME QueueInv, TasksOK, Owned, NEW t \in Task, AtProvider(t), task[t].msg \notin overrun,
         NEW s \in Session
  PROVE  /\ Healed(s)[task[t].msg] = rows[task[t].msg]
         /\ rows[task[t].msg].status # "pending"
<1>1. /\ task[t].msg \in Id /\ task[t].since \in Nat /\ now \in Nat
      /\ StaleThreshold \in Nat
  BY ProviderFacts, QueueAssumption
<1>2. ~ IsStale(task[t].msg)
  BY <1>1 DEF Owned, IsStale
<1>3. QED
  BY <1>1, <1>2 DEF Healed, Owned

\* A handler leaves the provider, or starts it on no message.
LEMMA OwnedStep ==
  ASSUME QueueInv, TasksOK, Owned, NEW t \in Task, NEW r,
         task' = [task EXCEPT ![t] = r], r.pc # "run" \/ r.msg = NULL,
         now' = now, overrun \subseteq overrun', KeepsOthers(t)
  PROVE  Owned'
<1>1. \A u \in Task : AtProvider(u)' => u # t /\ AtProvider(u) /\ task'[u] = task[u]
  BY DEF AtProvider, TasksOK
<1>2. QED
  BY <1>1 DEF Owned, KeepsOthers

\* A handler starts the provider on a message it has claimed.
LEMMA OwnedClaim ==
  ASSUME QueueInv, TasksOK, MemTypes, Owned, NEW t \in Task, NEW s \in Session,
         NEW m \in Id, task' = [task EXCEPT ![t] = Running(t, s, m)],
         now' = now, overrun \subseteq overrun', KeepsOthers(t),
         \A u \in Task : AtProvider(u) /\ task[u].msg \notin overrun => task[u].msg # m,
         rows'[m].status = "processing", rows'[m].started = now,
         rows'[m].retry_count = rows[m].retry_count
  PROVE  Owned'
<1> DEFINE r == Running(t, s, m)
<1>1. r.pc = "run" /\ r.msg = m /\ r.since = now /\ r.retry = rows[m].retry_count
  BY RunningFacts
<1>2. task'[t] = r
  BY DEF TasksOK
<1>3. \A u \in Task : u # t => task'[u] = task[u]
  BY DEF TasksOK
<1> HIDE DEF r
<1>4. now <= now + StaleThreshold
  BY QueueAssumption DEF QueueInv, TypeOK
<1>5. QED
  BY <1>1, <1>2, <1>3, <1>4 DEF Owned, AtProvider, KeepsOthers

LEMMA OwnedDied == task' = [t \in Task |-> Idle] => Owned'
BY NotRunning DEF Owned, AtProvider

-----------------------------------------------------------------------------
(* What the operations do to rows.                                         *)

LEMMA ClaimNextRows ==
  ASSUME QueueInv, NEW s \in Session, NEW m \in Id, ClaimNextMessage(s, m)
  PROVE  /\ Healed(s)[m].status = "pending"
         /\ rows'[m].status = "processing" /\ rows'[m].started = now
         /\ rows'[m].retry_count = rows[m].retry_count
         /\ \A k \in Id : k # m => rows'[k] = Healed(s)[k]
<1>1. Healed(s) \in [Id -> Row] /\ Healed(s)[m].retry_count = rows[m].retry_count
  BY HealedRows
<1>2. Healed(s)[m] \in Row /\ "processing" \in Status /\ now \in Nat \cup {NULL}
  BY <1>1 DEF QueueInv, TypeOK, Status
<1>3. rows' = [Healed(s) EXCEPT ![m] = Move(Healed(s)[m], "processing", now)]
  BY DEF ClaimNextMessage
<1>4. Healed(s)[m].status = "pending"
  BY DEF ClaimNextMessage, IsOldest, PendingOf
<1>5. QED
  BY <1>1, <1>2, <1>3, <1>4, MoveRow

LEMMA ClaimByIdRows ==
  ASSUME QueueInv, NEW m \in Id, ClaimMessageById(m)
  PROVE  /\ rows[m].status = "pending"
         /\ rows'[m].status = "processing" /\ rows'[m].started = now
         /\ rows'[m].retry_count = rows[m].retry_count
         /\ \A k \in Id : k # m => rows'[k] = rows[k]
<1>1. rows \in [Id -> Row] /\ rows[m] \in Row /\ "processing" \in Status /\ now \in Nat \cup {NULL}
  BY DEF QueueInv, TypeOK, Status
<1>2. rows' = [rows EXCEPT ![m] = Move(rows[m], "processing", now)]
  BY DEF ClaimMessageById
<1>3. QED
  BY <1>1, <1>2, MoveRow DEF ClaimMessageById

\* A settlement that does not fail its row for good.
LEMMA SettleRows ==
  ASSUME QueueInv, NEW m \in Id,
         ConfirmProcessed(m) \/ ConfirmCutShort(m) \/ Retried(m) \/ UNCHANGED queueVars
  PROVE  /\ \A k \in Id : k # m => rows'[k] = rows[k]
         /\ rows' = rows \/ rows'[m].status # "failed"
         /\ now' = now /\ cleared' = cleared
<1>1. rows \in [Id -> Row] /\ rows[m] \in Row
  BY DEF QueueInv, TypeOK
<1>2. CASE ConfirmProcessed(m) /\ Exists(m)
  BY <1>2, DeleteFacts DEF ConfirmProcessed
<1>3. CASE ConfirmProcessed(m) /\ ~ Exists(m)
  BY <1>3 DEF ConfirmProcessed, DeleteRow
<1>4. CASE ConfirmCutShort(m) \/ UNCHANGED queueVars
  BY <1>4 DEF ConfirmCutShort, queueVars
<1>5. CASE Retried(m)
  <2>1. rows' = [rows EXCEPT ![m] = Again(rows[m])] /\ Again(rows[m]).status = "pending"
    BY <1>5 DEF Retried, Again
  <2>2. QED
    BY <1>1, <1>5, <2>1 DEF Retried
<1>6. QED
  BY <1>2, <1>3, <1>4, <1>5

-----------------------------------------------------------------------------
(* The invariant, and what a step leaves alone.                            *)

OwnerInv == Owned /\ FallbackCatchesAll

\* The rows at a provider that goes on are left alone by all but a clearing route.
LeftAlone ==
  \A t \in Task : AtProvider(t) /\ task'[t] = task[t] /\ task[t].msg \notin overrun =>
    rows'[task[t].msg] = rows[task[t].msg] \/ task[t].msg \in cleared'

\* No row fails in a step, but for those that overran.
FailsNothing == \A m \in Id \ overrun : rows'[m].status = "failed" => rows[m].status = "failed"

\* With the fallback on, a failure is never the last: the handler would have fallen
\* back, since the retry_count it read is the one in the table.
LEMMA NeverLast ==
  ASSUME QueueInv, TasksOK, OwnerInv, NEW t \in Task, AtProvider(t), ~ FallsBack(t), LocalFallback,
         task[t].msg \notin overrun
  PROVE  ~ FailRow(task[t].msg)
<1>1. task[t].msg \in Id
  BY ProviderFacts
<1>2. CASE rows[task[t].msg].status = "deleted"
  BY <1>2 DEF FailRow, Exists
<1>3. CASE rows[task[t].msg].retry_count = task[t].retry
  BY <1>3 DEF FallsBack, AtProvider, FailRow, IsLastTry
<1>4. QED
  BY <1>2, <1>3 DEF OwnerInv, Owned

LEMMA FallbackKept ==
  ASSUME FallbackCatchesAll, LocalFallback => FailsNothing, overrun \subseteq overrun'
  PROVE  FallbackCatchesAll'
BY DEF FallbackCatchesAll, FailsNothing

\* Rows that stay as they are.
LEMMA RowsKept ==
  ASSUME rows' = rows
  PROVE  LeftAlone /\ FailsNothing /\ \A t \in Task : KeepsOthers(t)
BY DEF LeftAlone, FailsNothing, KeepsOthers

\* A step of handler t that leaves the provider, keeping the others' rows.
LEMMA AloneStep ==
  ASSUME TasksOK, NEW t \in Task, NEW r, task' = [task EXCEPT ![t] = r],
         AtProvider(t) => r.pc # "run", KeepsOthers(t)
  PROVE  LeftAlone
BY DEF LeftAlone, KeepsOthers, AtProvider, TasksOK

LEMMA AloneInDeath == task' = [t \in Task |-> Idle] => LeftAlone
BY NotRunning DEF LeftAlone, AtProvider

LEMMA WorkOwned ==
  ASSUME ObserverInv, OwnerInv, overrun \subseteq overrun', NEW t \in Task, Work(t)
  PROVE  OwnerInv' /\ LeftAlone
<1>0. /\ QueueInv /\ TasksOK /\ MemTypes /\ Owned /\ FallbackCatchesAll
      /\ task[t] \in TaskRecord /\ Sound(t, task[t], handed)
  BY DEF ObserverInv, TasksOK, OwnerInv
<1>1. CASE ClaimOwn(t)
  <2> DEFINE m == task[t].msg
  <2>1. /\ task[t].session \in Session /\ m \in Id /\ ClaimMessageById(m) /\ ~ AtProvider(t)
        /\ task' = [task EXCEPT ![t] = Running(t, task[t].session, m)]
    BY <1>0, <1>1 DEF ClaimOwn, Sound, AtProvider
  <2>2. now' = now /\ cleared' = cleared
    BY <2>1 DEF ClaimMessageById
  <2> HIDE DEF m
  <2>3. \A u \in Task : AtProvider(u) /\ task[u].msg \notin overrun =>
          task[u].msg \in Id /\ task[u].msg # m
    BY <1>0, <2>1, ClaimByIdRows, HealSpares, ProviderFacts
  <2>4. KeepsOthers(t)
    BY <1>0, <2>1, <2>3, ClaimByIdRows DEF KeepsOthers
  <2>5. Owned'
    BY <1>0, <2>1, <2>2, <2>3, <2>4, ClaimByIdRows, OwnedClaim
  <2>6. FailsNothing
    BY <1>0, <2>1, ClaimByIdRows DEF FailsNothing
  <2>7. QED
    BY <1>0, <2>1, <2>4, <2>5, <2>6, AloneStep, FallbackKept DEF OwnerInv
<1>2. CASE DrainClaim(t)
  <2> DEFINE s == CurrentSession(t)
  <2>1. s \in Session /\ ~ AtProvider(t)
    BY <1>0, <1>2, CurrentFacts DEF DrainClaim, Sound, TaskRecord, AtProvider
  <2>2. PICK m \in Id : ClaimNextMessage(s, m) /\ task' = [task EXCEPT ![t] = Running(t, s, m)]
    BY <1>2 DEF DrainClaim
  <2> HIDE DEF s
  <2>3. now' = now /\ cleared' = cleared
    BY <2>2 DEF ClaimNextMessage
  <2>4. \A u \in Task : AtProvider(u) /\ task[u].msg \notin overrun =>
          task[u].msg \in Id /\ task[u].msg # m /\ rows'[task[u].msg] = rows[task[u].msg]
    BY <1>0, <2>1, <2>2, ClaimNextRows, HealSpares, ProviderFacts
  <2>5. KeepsOthers(t)
    BY <2>4 DEF KeepsOthers
  <2>6. Owned'
    BY <1>0, <2>1, <2>2, <2>3, <2>4, <2>5, ClaimNextRows, OwnedClaim
  <2>7. FailsNothing
    BY <1>0, <2>1, <2>2, ClaimNextRows, HealedRows DEF FailsNothing
  <2>8. QED
    BY <1>0, <2>1, <2>2, <2>5, <2>6, <2>7, AloneStep, FallbackKept DEF OwnerInv
<1>3. CASE ClaimOwnTooLate(t) \/ DrainedSession(t)
  <2>1. /\ rows' = rows /\ now' = now
        /\ task' = [task EXCEPT ![t] = Idle] \/ task' = [task EXCEPT ![t] = SessionDone(t)]
    BY <1>3 DEF ClaimOwnTooLate, DrainedSession, queueVars
  <2>2. LeftAlone /\ FailsNothing /\ KeepsOthers(t)
    BY <2>1, RowsKept
  <2>3. QED
    BY <1>0, <2>1, <2>2, NotRunning, OwnedStep, FallbackKept DEF OwnerInv
<1>4. CASE Finish(t)
  <2>1. PICK a \in Answers(t) : AnswerStored(t, a) \/ AnswerRefused(t, a)
    BY <1>4 DEF Finish
  <2>2. /\ task' = [task EXCEPT ![t] = Settled(t)] \/ task' = [task EXCEPT ![t] = Aborted(t)]
        /\ UNCHANGED queueVars \/ (task[t].msg # NULL /\ ConfirmProcessed(task[t].msg))
        /\ task[t].pc = "run"
    BY <1>4, <2>1 DEF Finish, AnswerStored, AnswerRefused
  <2>3. now' = now /\ FailsNothing /\ KeepsOthers(t)
    <3>1. CASE UNCHANGED queueVars
      BY <3>1, RowsKept DEF queueVars
    <3>2. CASE task[t].msg # NULL /\ ConfirmProcessed(task[t].msg)
      <4>1. AtProvider(t) /\ task[t].msg \in Id
        BY <1>0, <2>2, <3>2, ProviderFacts DEF AtProvider
      <4>2. \A u \in Task : u # t /\ AtProvider(u) /\ task[u].msg \notin overrun =>
              task[u].msg \in Id /\ task[u].msg # task[t].msg
        BY <1>0, <4>1, ProviderFacts DEF Owned
      <4>3. QED
        BY <1>0, <3>2, <4>1, <4>2, SettleRows DEF KeepsOthers, FailsNothing
    <3>3. QED
      BY <2>2, <3>1, <3>2
  <2>4. QED
    BY <1>0, <2>2, <2>3, NotRunning, OwnedStep, AloneStep, FallbackKept DEF OwnerInv
<1>5. CASE ProviderFailed(t)
  <2>1. /\ task' = [task EXCEPT ![t] = Settled(t)] /\ task[t].pc = "run" /\ ~ FallsBack(t)
        /\ IF task[t].msg = NULL THEN UNCHANGED queueVars ELSE MarkFailed(task[t].msg)
    BY <1>5 DEF ProviderFailed
  <2>2. now' = now /\ (LocalFallback => FailsNothing) /\ KeepsOthers(t)
    <3>1. CASE task[t].msg = NULL
      BY <2>1, <3>1, RowsKept DEF queueVars
    <3>2. CASE task[t].msg # NULL
      <4>1. AtProvider(t) /\ task[t].msg \in Id /\ MarkFailed(task[t].msg)
        BY <1>0, <2>1, <3>2, ProviderFacts DEF AtProvider
      <4>2. \A u \in Task : u # t /\ AtProvider(u) /\ task[u].msg \notin overrun =>
              task[u].msg \in Id /\ task[u].msg # task[t].msg
        BY <1>0, <4>1, ProviderFacts DEF Owned
      <4>3. CASE PermanentlyFailed(task[t].msg)
        <5>1. FailRow(task[t].msg) /\ now' = now
          BY <4>3 DEF PermanentlyFailed
        <5>2. KeepsOthers(t)
          BY <1>0, <4>1, <4>2, <5>1, FailFacts DEF KeepsOthers
        <5>3. task[t].msg \notin overrun => ~ LocalFallback
          BY <1>0, <2>1, <4>1, <5>1, NeverLast DEF OwnerInv
        <5>4. task[t].msg \in overrun => FailsNothing
          BY <1>0, <4>1, <5>1, FailFacts DEF FailsNothing
        <5>5. QED
          BY <5>1, <5>2, <5>3, <5>4
      <4>4. CASE Retried(task[t].msg) \/ UNCHANGED queueVars
        BY <1>0, <4>1, <4>2, <4>4, SettleRows DEF KeepsOthers, FailsNothing
      <4>5. QED
        BY <4>1, <4>3, <4>4 DEF MarkFailed
    <3>3. QED
      BY <3>1, <3>2
  <2>3. QED
    BY <1>0, <2>1, <2>2, NotRunning, OwnedStep, AloneStep, FallbackKept DEF OwnerInv
<1>6. QED
  BY <1>1, <1>2, <1>3, <1>4, <1>5 DEF Work

\* Nobody takes or leaves a provider, and the rows at one stay or are cleared.
LEMMA OwnedKept ==
  ASSUME Owned, task' = task, now' = now, overrun \subseteq overrun',
         \A t \in Task : AtProvider(t) /\ task[t].msg \notin overrun =>
           rows'[task[t].msg] = rows[task[t].msg] \/ rows'[task[t].msg].status = "deleted"
  PROVE  Owned'
BY DEF Owned, AtProvider

LEMMA RequestOwned ==
  ASSUME ObserverInv, OwnerInv, overrun \subseteq overrun', Request
  PROVE  OwnerInv' /\ LeftAlone
<1>0. QueueInv /\ TasksOK /\ Owned /\ FallbackCatchesAll
  BY DEF ObserverInv, OwnerInv
<1>1. ASSUME NEW t \in Hook, NEW s \in Session, Submit(t, s) PROVE OwnerInv' /\ LeftAlone
  <2> DEFINE r == [Idle EXCEPT !.pc = "claim", !.session = s, !.msg = nextId]
  <2>1. /\ t \in Task /\ r.pc # "run" /\ task' = [task EXCEPT ![t] = r]
        /\ nextId \in Id /\ now' = now
        /\ rows' = [rows EXCEPT ![nextId] = [session |-> s, status |-> "pending",
                                             retry_count |-> 0, started |-> NULL]]
    BY <1>1 DEF Task, Submit, Enqueue, Idle
  <2> HIDE DEF r
  <2>2. \A m \in Id : m # nextId => rows'[m] = rows[m]
    BY <1>0, <2>1 DEF QueueInv, TypeOK
  <2>3. rows[nextId].status = "unused" /\ rows'[nextId].status = "pending"
    BY <1>0, <2>1 DEF QueueInv, TypeOK, Id
  <2>4. \A u \in Task : AtProvider(u) /\ task[u].msg \notin overrun =>
          task[u].msg \in Id /\ task[u].msg # nextId
    BY <1>0, <2>3, ProviderFacts DEF Owned
  <2>5. KeepsOthers(t) /\ FailsNothing
    BY <2>2, <2>3, <2>4 DEF KeepsOthers, FailsNothing
  <2>6. QED
    BY <1>0, <2>1, <2>5, OwnedStep, AloneStep, FallbackKept DEF OwnerInv
<1>2. ASSUME NEW t \in Hook, NEW s \in Session, StartInit(t, s) PROVE OwnerInv' /\ LeftAlone
  <2> DEFINE r == [Idle EXCEPT !.pc = "run", !.session = s, !.mem = mem[s], !.since = now]
  <2>1. /\ t \in Task /\ r.msg = NULL /\ task' = [task EXCEPT ![t] = r]
        /\ rows' = rows /\ now' = now
    BY <1>2 DEF Task, StartInit, Idle, queueVars
  <2>2. LeftAlone /\ FailsNothing /\ KeepsOthers(t)
    BY <2>1, RowsKept
  <2>3. QED
    BY <1>0, <2>1, <2>2, OwnedStep, FallbackKept DEF OwnerInv
<1>3. ASSUME NEW t \in Drain, StartDrain(t) PROVE OwnerInv' /\ LeftAlone
  <2> DEFINE r == [Idle EXCEPT !.pc = "next", !.todo = SessionsWithWork, !.left = MaxMessages]
  <2>1. /\ t \in Task /\ r.pc # "run" /\ task' = [task EXCEPT ![t] = r]
        /\ rows' = rows /\ now' = now
    BY <1>3 DEF Task, StartDrain, Idle, queueVars
  <2>2. LeftAlone /\ FailsNothing /\ KeepsOthers(t)
    BY <2>1, RowsKept
  <2>3. QED
    BY <1>0, <2>1, <2>2, OwnedStep, FallbackKept DEF OwnerInv
<1>4. ASSUME NEW s \in Session, PostSummary(s) \/ Complete(s) PROVE OwnerInv' /\ LeftAlone
  <2>1. task' = task /\ rows' = rows /\ now' = now
    BY <1>4 DEF PostSummary, Complete, queueVars
  <2>2. QED
    BY <1>0, <2>1, RowsKept, OwnedKept, FallbackKept DEF OwnerInv
<1>5. ASSUME Clear PROVE OwnerInv' /\ LeftAlone
  <2>1. PICK statuses \in SUBSET {"pending", "processing", "failed"} : ClearRows(statuses)
    BY <1>5 DEF Clear, FailedClear, AllClear
  <2>2. task' = task /\ now' = now
    BY <1>5, <2>1 DEF Clear, ClearRows
  <2>3. \A m \in Id : \/ rows'[m] = rows[m]
                      \/ rows'[m].status = "deleted" /\ m \in cleared'
    <3>1. \A m \in Id : rows[m] \in Row
      BY <1>0 DEF QueueInv, TypeOK
    <3>2. QED
      BY <2>1, <3>1 DEF ClearRows, Move, Row
  <2>4. \A t \in Task : AtProvider(t) => task[t].msg \in Id
    BY <1>0, ProviderFacts
  <2>5. LeftAlone /\ FailsNothing
    BY <2>3, <2>4 DEF LeftAlone, FailsNothing
  <2>6. QED
    BY <1>0, <2>2, <2>3, <2>4, <2>5, OwnedKept, FallbackKept DEF OwnerInv
<1>6. QED
  BY <1>1, <1>2, <1>3, <1>4, <1>5 DEF Request

LEMMA PassOwned ==
  ASSUME ObserverInv, OwnerInv, overrun' = overrun \cup Overrunning', Pass
  PROVE  OwnerInv' /\ LeftAlone
<1>1. task' = task /\ rows' = rows /\ now' = now + 1 /\ now \in Nat
  BY DEF Pass, Tick, ObserverInv, QueueInv, TypeOK
<1>2. \A t \in Task : AtProvider(t)' /\ task'[t].msg \notin overrun' =>
        now' <= task'[t].since + StaleThreshold
  <2> SUFFICES ASSUME NEW t \in Task, AtProvider(t)', task'[t].msg \notin overrun'
               PROVE  now' <= task'[t].since + StaleThreshold
    OBVIOUS
  <2>1. ~ (now' > task'[t].since + StaleThreshold)
    BY DEF Overrunning
  <2>2. task'[t].since \in Nat /\ now' \in Nat /\ StaleThreshold \in Nat
    BY <1>1, ProviderFacts, QueueAssumption DEF AtProvider, ObserverInv
  <2>3. QED
    BY <2>1, <2>2
<1>3. Owned'
  BY <1>1, <1>2 DEF OwnerInv, Owned, AtProvider
<1>4. QED
  BY <1>1, <1>3, RowsKept, FallbackKept DEF OwnerInv

LEMMA FaultyOwned ==
  ASSUME ObserverInv, OwnerInv, overrun \subseteq overrun', Faulty
  PROVE  OwnerInv' /\ LeftAlone
<1>0. QueueInv /\ TasksOK /\ Owned /\ FallbackCatchesAll
  BY DEF ObserverInv, OwnerInv
<1>1. ASSUME NEW t \in Task, Dropped(t) PROVE OwnerInv' /\ LeftAlone
  <2>1. task' = [task EXCEPT ![t] = Idle] /\ rows' = rows /\ now' = now
    BY <1>1 DEF Dropped, queueVars
  <2>2. QED
    BY <1>0, <2>1, RowsKept, NotRunning, OwnedStep, FallbackKept DEF OwnerInv
<1>2. ASSUME ~ \E t \in Task : Dropped(t) PROVE OwnerInv' /\ LeftAlone
  <2>1. task' = [t \in Task |-> Idle]
    BY <1>2 DEF Faulty, Crash, CrashInSummary, CrashInClaim, CrashInAnswer, CrashInMarkFailed, Die
  <2>2. Owned' /\ LeftAlone
    BY <2>1, OwnedDied, AloneInDeath
  <2>3. LocalFallback => FailsNothing
    <3>1. CASE Crash \/ (\E s \in Session : CrashInSummary(s)) \/ \E t \in Task : CrashInAnswer(t)
      <4>1. rows' = rows
        BY <3>1 DEF Crash, CrashInSummary, CrashInAnswer, ConfirmCutShort, queueVars
      <4>2. QED
        BY <4>1, RowsKept
    <3>2. ASSUME NEW t \in Task, CrashInClaim(t) PROVE FailsNothing
      <4>1. CurrentSession(t) \in Session /\ rows' = Healed(CurrentSession(t))
        BY <1>0, <3>2, CurrentFacts DEF CrashInClaim, ClaimNextCutShort, TasksOK, Sound, TaskRecord
      <4>2. QED
        BY <1>0, <4>1, HealedRows DEF FailsNothing
    <3>3. ASSUME NEW t \in Task, CrashInMarkFailed(t) PROVE LocalFallback => FailsNothing
      <4>1. AtProvider(t) /\ FailRow(task[t].msg) /\ ~ FallsBack(t) /\ task[t].msg \in Id
        BY <1>0, <3>3, ProviderFacts DEF CrashInMarkFailed, FailCutShort, AtProvider
      <4>2. task[t].msg \notin overrun => ~ LocalFallback
        BY <1>0, <4>1, NeverLast DEF OwnerInv
      <4>3. task[t].msg \in overrun => FailsNothing
        BY <1>0, <4>1, FailFacts DEF FailsNothing
      <4>4. QED
        BY <4>2, <4>3
    <3>4. QED
      BY <1>2, <3>1, <3>2, <3>3 DEF Faulty
  <2>4. QED
    BY <1>0, <2>2, <2>3, FallbackKept DEF OwnerInv
<1>3. QED
  BY <1>1, <1>2

LEMMA StepOwned ==
  ASSUME ObserverInv, OwnerInv, OwnersNext
  PROVE  OwnerInv' /\ LeftAlone
BY WorkOwned, RequestOwned, PassOwned, FaultyOwned DEF OwnersNext, ObserverNext

LEMMA OwnerInitInv == OwnersInit => OwnerInv
BY NotRunning DEF OwnersInit, ObserverInit, QueueInit, OwnerInv, Owned, AtProvider, FallbackCatchesAll

LEMMA OwnerStutter == OwnerInv /\ UNCHANGED ownersVars => OwnerInv'
BY DEF OwnerInv, Owned, AtProvider, FallbackCatchesAll, ownersVars, observerVars

\* The history variable adds nothing to what the observer does.
LEMMA OwnersStep ==
  ASSUME [OwnersNext]_ownersVars
  PROVE  [ObserverNext]_observerVars /\ overrun \subseteq overrun'
BY DEF OwnersNext, ownersVars

LEMMA OwnersInvariant == OwnersSpec => []ObserverInv
<1>1. OwnersInit => ObserverInit
  BY DEF OwnersInit
<1>2. [OwnersNext]_ownersVars => [ObserverNext]_observerVars
  BY OwnersStep
<1>3. QED
  BY <1>1, <1>2, ObserverInvariant, PTL DEF OwnersSpec, ObserverSpec

LEMMA OwnerInvariant == OwnersSpec => []OwnerInv
<1>1. ObserverInv /\ OwnerInv /\ [OwnersNext]_ownersVars => OwnerInv'
  BY StepOwned, OwnerStutter
<1>2. QED
  BY <1>1, OwnerInitInv, OwnersInvariant, PTL DEF OwnersSpec

-----------------------------------------------------------------------------
(* The theorems.                                                           *)

\* One owner for each message none of whose providers has run longer than a claim lasts:
\* claims by id, drains and self-heals, crashes and hang-ups notwithstanding
\* (claim_next_message, pending_messages.rs:112-152; process_claimed_message,
\* observer.rs:231-346).
THEOREM OneOwner == OwnersSpec => []Owned
<1>1. OwnerInv => Owned
  BY DEF OwnerInv
<1>2. QED
  BY <1>1, OwnerInvariant, PTL

\* Nobody but a clearing route touches the row of a message whose provider is running,
\* unless a provider of it has run longer than a claim lasts.
THEOREM NobodyDisturbs == OwnersSpec => RunningUndisturbed
<1> DEFINE Alone == \A t \in Task : AtProvider(t) /\ task'[t] = task[t] /\ task[t].msg \notin overrun =>
                      \/ rows'[task[t].msg] = rows[task[t].msg]
                      \/ task[t].msg \in cleared'
<1>1. ObserverInv /\ OwnerInv /\ [OwnersNext]_ownersVars => [Alone]_ownersVars
  BY StepOwned DEF LeftAlone
<1>2. QED
  BY <1>1, OwnerInvariant, OwnersInvariant, PTL DEF OwnersSpec, RunningUndisturbed

\* The local fallback catches the last try of every message none of whose providers has
\* run longer than a claim lasts: the retry_count a handler read before it awaited its
\* provider cannot be overtaken (process_local_provider_failure_fallback,
\* observer.rs:357-362).
THEOREM FallbackAlways == OwnersSpec => []FallbackCatchesAll
<1>1. OwnerInv => FallbackCatchesAll
  BY DEF OwnerInv
<1>2. QED
  BY <1>1, OwnerInvariant, PTL

-----------------------------------------------------------------------------
(* What is stored once: the argument, and the inductive invariant.  A      *)
(* message can get another answer while it is live.  Then what is stored   *)
(* of it must be found again, and it is, because its row still carries the *)
(* memory id it was hashed with: no handler is left that would replace the *)
(* memory id of that session.                                              *)

\* The message has not overrun, and is in the table, or at a provider though its row was
\* cleared.
Live(m) == m \notin overrun /\ (Exists(m) \/ \E t \in Task : AtProvider(t) /\ task[t].msg = m)

\* Nobody is left who would give the session another memory id.
Frozen(s) ==
  /\ mem[s] # NULL
  /\ \A t \in Task : task[t].pc = "run" /\ task[t].session = s => task[t].mem # NULL

ObservedInv ==
  /\ \A i \in DOMAIN observations : observations[i].text[2] \in handed
  /\ StoredOnce
  /\ \A i \in DOMAIN observations : Live(observations[i].text[2]) =>
       /\ observations[i].hashMem = observations[i].mem
       /\ \E s \in Session : mem[s] = observations[i].mem /\ Frozen(s)

SummariesOf(m) == {i \in DOMAIN summaries : summaries[i].msg = m}

\* Each summary of a live message beyond the first is paid for by a death or hang-up.
SummedInv ==
  /\ \A i \in DOMAIN summaries : summaries[i].msg \in handed \cup {NULL}
  /\ FallbackComesFirst
  /\ \A m \in handed \ overrun : Cardinality(SummariesOf(m)) <= faults + (IF Live(m) THEN 0 ELSE 1)

OnceInv == ObservedInv /\ SummedInv

\* No step makes a message live again that was handed out.
LiveShrinks == \A m \in handed : Live(m)' => Live(m)

\* A handler that enters its provider has read the memory id just now, and has
\* claimed a message that was there, or has none.
Enters ==
  \A t \in Task : task'[t].pc = "run" =>
    \/ task'[t] = task[t]
    \/ /\ task'[t].mem = mem[task'[t].session]
       /\ task'[t].msg = NULL \/ Exists(task'[t].msg)
       /\ task'[t].since = now

-----------------------------------------------------------------------------
(* Who enters a provider, and what stays gone.                             *)

LEMMA EntersStep ==
  ASSUME TasksOK, NEW t \in Task, NEW r, task' = [task EXCEPT ![t] = r],
         r.pc = "run" => r.mem = mem[r.session] /\ (r.msg = NULL \/ Exists(r.msg)) /\ r.since = now
  PROVE  Enters
BY DEF Enters, TasksOK

LEMMA EntersKept == task' = task => Enters
BY DEF Enters

LEMMA NoneEnters == task' = [t \in Task |-> Idle] => Enters
BY NotRunning DEF Enters

\* A message in the table was not inserted by this step if it was handed out before.
LEMMA NoRevival ==
  ASSUME QueueInv, [Next]_queueVars
  PROVE  \A m \in handed : Exists(m)' => Exists(m)
<1>0. /\ rows \in [Id -> Row] /\ handed \subseteq Id
      /\ \A m \in Id : rows[m] \in Row
  BY DEF QueueInv, TypeOK
<1>1. ASSUME NEW s \in Session, Enqueue(s) PROVE \A m \in handed : Exists(m)' => Exists(m)
  <2>1. nextId \in Id /\ nextId \notin handed
    BY <1>1 DEF Enqueue, QueueInv, Id
  <2>2. \A m \in Id : m # nextId => rows'[m] = rows[m]
    BY <1>0, <1>1 DEF Enqueue
  <2>3. QED
    BY <1>0, <2>1, <2>2 DEF Exists
<1>2. ASSUME NEW s \in Session, NEW m \in Id, ClaimNextMessage(s, m)
      PROVE  \A k \in handed : Exists(k)' => Exists(k)
  BY <1>0, <1>2, ClaimNextRows, HealedRows DEF Exists
<1>3. ASSUME NEW m \in Id, ClaimMessageById(m) PROVE \A k \in handed : Exists(k)' => Exists(k)
  BY <1>0, <1>3, ClaimByIdRows DEF Exists
<1>4. ASSUME NEW m \in Id, DeleteRow(m) PROVE \A k \in handed : Exists(k)' => Exists(k)
  <2>1. CASE Exists(m)
    BY <1>0, <1>4, <2>1, DeleteFacts DEF Exists
  <2>2. CASE ~ Exists(m)
    BY <1>4, <2>2 DEF DeleteRow, Exists
  <2>3. QED
    BY <2>1, <2>2
<1>5. ASSUME NEW m \in Id, Retried(m) PROVE \A k \in handed : Exists(k)' => Exists(k)
  <2>1. \A k \in Id : k # m => rows'[k] = rows[k]
    BY <1>0, <1>5 DEF Retried
  <2>2. QED
    BY <1>0, <1>5, <2>1 DEF Retried, Exists
<1>6. ASSUME NEW m \in Id, FailRow(m) PROVE \A k \in handed : Exists(k)' => Exists(k)
  BY <1>0, <1>6, FailFacts DEF FailRow, Exists
<1>7. ASSUME NEW s \in Session, rows' = Healed(s) PROVE \A k \in handed : Exists(k)' => Exists(k)
  BY <1>0, <1>7, HealedRows DEF Exists
<1>8. ASSUME NEW statuses, ClearRows(statuses) PROVE \A k \in handed : Exists(k)' => Exists(k)
  <2>1. \A k \in Id : rows'[k] = rows[k] \/ rows'[k].status = "deleted"
    BY <1>0, <1>8 DEF ClearRows, Move, Row
  <2>2. QED
    BY <1>0, <2>1 DEF Exists
<1>9. ASSUME rows' = rows PROVE \A k \in handed : Exists(k)' => Exists(k)
  BY <1>9 DEF Exists
<1>10. CASE Claim
  BY <1>2, <1>3, <1>9, <1>10 DEF Claim, ClaimNextNothing, queueVars
<1>11. CASE Settle
  BY <1>0, <1>4, <1>5, <1>6, <1>9, <1>11 DEF Settle, ConfirmProcessed, MarkFailed,
     PermanentlyFailed, queueVars
<1>12. CASE CutShort
  BY <1>0, <1>6, <1>7, <1>9, <1>12 DEF CutShort, ClaimNextCutShort, ConfirmCutShort, FailCutShort
<1>13. CASE FailedClear \/ AllClear
  BY <1>8, <1>13 DEF FailedClear, AllClear
<1>14. CASE Tick \/ UNCHANGED queueVars
  BY <1>9, <1>14 DEF Tick, queueVars
<1>15. QED
  BY <1>1, <1>10, <1>11, <1>12, <1>13, <1>14 DEF Next

LEMMA StepEnters ==
  ASSUME ObserverInv, [ObserverNext]_observerVars
  PROVE  Enters
<1>0. QueueInv /\ TasksOK /\ MemTypes
  BY DEF ObserverInv
<1>1. ASSUME NEW t \in Hook, NEW s \in Session, Submit(t, s) PROVE Enters
  <2> DEFINE r == [Idle EXCEPT !.pc = "claim", !.session = s, !.msg = nextId]
  <2>1. t \in Task /\ r.pc # "run" /\ task' = [task EXCEPT ![t] = r]
    BY <1>1 DEF Task, Submit, Idle
  <2>2. QED
    BY <1>0, <2>1, EntersStep
<1>2. ASSUME NEW t \in Hook, NEW s \in Session, StartInit(t, s) PROVE Enters
  <2> DEFINE r == [Idle EXCEPT !.pc = "run", !.session = s, !.mem = mem[s], !.since = now]
  <2>1. /\ t \in Task /\ r.mem = mem[r.session] /\ r.msg = NULL /\ r.since = now
        /\ task' = [task EXCEPT ![t] = r]
    BY <1>2 DEF Task, StartInit, Idle
  <2>2. QED
    BY <1>0, <2>1, EntersStep
<1>3. ASSUME NEW t \in Drain, StartDrain(t) PROVE Enters
  <2> DEFINE r == [Idle EXCEPT !.pc = "next", !.todo = SessionsWithWork, !.left = MaxMessages]
  <2>1. t \in Task /\ r.pc # "run" /\ task' = [task EXCEPT ![t] = r]
    BY <1>3 DEF Task, StartDrain, Idle
  <2>2. QED
    BY <1>0, <2>1, EntersStep
<1>4. ASSUME NEW t \in Task, ClaimOwn(t) PROVE Enters
  <2> DEFINE r == Running(t, task[t].session, task[t].msg)
  <2>1. task[t].session \in Session /\ task[t].msg \in Id /\ task' = [task EXCEPT ![t] = r]
    BY <1>0, <1>4 DEF ClaimOwn, TasksOK, Sound
  <2>2. r.mem = mem[r.session] /\ r.msg = task[t].msg /\ r.since = now
    BY <1>0, <2>1, RunningFacts
  <2>3. Exists(task[t].msg)
    BY <1>4 DEF ClaimOwn, ClaimMessageById, Exists
  <2> HIDE DEF r
  <2>4. QED
    BY <1>0, <2>1, <2>2, <2>3, EntersStep
<1>5. ASSUME NEW t \in Task, DrainClaim(t) PROVE Enters
  <2> DEFINE s == CurrentSession(t)
  <2>1. s \in Session
    BY <1>0, <1>5, CurrentFacts DEF DrainClaim, TasksOK, Sound, TaskRecord
  <2>2. PICK m \in Id : ClaimNextMessage(s, m) /\ task' = [task EXCEPT ![t] = Running(t, s, m)]
    BY <1>5 DEF DrainClaim
  <2> HIDE DEF s
  <2> DEFINE r == Running(t, s, m)
  <2>3. r.mem = mem[r.session] /\ r.msg = m /\ r.since = now
    BY <1>0, <2>1, RunningFacts
  <2>4. Exists(m)
    BY <1>0, <2>1, <2>2, ClaimNextRows, HealedRows DEF Exists
  <2> HIDE DEF r
  <2>5. QED
    BY <1>0, <2>2, <2>3, <2>4, EntersStep DEF r
<1>6. ASSUME NEW t \in Task,
             ClaimOwnTooLate(t) \/ DrainedSession(t) \/ Finish(t) \/ ProviderFailed(t) \/ Dropped(t)
      PROVE  Enters
  <2>1. PICK r \in {Idle, SessionDone(t), Settled(t), Aborted(t)} : task' = [task EXCEPT ![t] = r]
    BY <1>6 DEF ClaimOwnTooLate, DrainedSession, Finish, AnswerStored, AnswerRefused,
       ProviderFailed, Dropped
  <2>2. QED
    BY <1>0, <2>1, NotRunning, EntersStep
<1>7. CASE Pass \/ Clear \/ (\E s \in Session : PostSummary(s) \/ Complete(s))
           \/ UNCHANGED observerVars
  BY <1>7, EntersKept DEF Pass, Clear, PostSummary, Complete, observerVars
<1>8. CASE Crash \/ (\E s \in Session : CrashInSummary(s))
           \/ \E t \in Task : CrashInClaim(t) \/ CrashInAnswer(t) \/ CrashInMarkFailed(t)
  BY <1>8, NoneEnters DEF Crash, CrashInSummary, CrashInClaim, CrashInAnswer, CrashInMarkFailed, Die
<1>9. QED
  BY <1>1, <1>2, <1>3, <1>4, <1>5, <1>6, <1>7, <1>8 DEF ObserverNext, Request, Work, Faulty

LEMMA StepLive ==
  ASSUME ObserverInv, [ObserverNext]_observerVars, overrun \subseteq overrun'
  PROVE  LiveShrinks /\ ReadsOnly
<1>1. Enters
  BY StepEnters
<1>2. \A m \in handed : Exists(m)' => Exists(m)
  BY StepUsesQueue, NoRevival DEF ObserverInv
<1>3. QED
  BY <1>1, <1>2 DEF LiveShrinks, Live, Enters, ReadsOnly, AtProvider

-----------------------------------------------------------------------------
(* One lemma for each shape a step has: what is stored is left alone, moved *)
(* to another memory id, or grows by a row.                                *)

LEMMA FrozenKept ==
  ASSUME ReadsOnly, NEW s \in Session, Frozen(s), mem'[s] = mem[s]
  PROVE  Frozen(s)'
BY DEF Frozen, ReadsOnly

\* Session s may get another memory id, one that no other session knows, if somebody
\* would give it one; what is stored moves along, and a row may come on top of it,
\* which nobody finds under its memory id and text.
LEMMA ObservedStep ==
  ASSUME MemTypes, IdsApart, TablesOK, ObservedInv, ReadsOnly, LiveShrinks, handed \subseteq handed',
         overrun \subseteq overrun', NEW s \in Session, \A k \in Session : k # s => mem'[k] = mem[k],
         \/ mem' = mem
         \/ ~ Frozen(s) /\ mem'[s] \in MemId /\ (\A k \in Session : Known(k, mem'[s]) => k = s),
         DOMAIN observations \subseteq DOMAIN observations',
         \A i \in DOMAIN observations :
           /\ observations'[i].text = observations[i].text
           /\ observations'[i].hashMem = observations[i].hashMem
           /\ observations'[i].mem = IF observations[i].mem = mem[s] THEN mem'[s]
                                     ELSE observations[i].mem,
         \A i, j \in DOMAIN observations' \ DOMAIN observations : i = j,
         \A n \in DOMAIN observations' \ DOMAIN observations :
           /\ observations'[n].text[2] \in handed'
           /\ \A m \in handed' : m = observations'[n].text[2] /\ Live(m)' =>
                /\ observations'[n].hashMem = observations'[n].mem
                /\ mem'[s] = observations'[n].mem /\ Frozen(s)'
           /\ observations'[n].text[2] \notin overrun' =>
                \A i \in DOMAIN observations :
                  ~ (observations'[i].mem = observations'[n].mem /\ observations'[i].text = observations'[n].text)
  PROVE  ObservedInv'
<1>0. \A i \in DOMAIN observations : observations[i] \in Observation
  BY LenProperties DEF TablesOK
<1>1. \A i \in DOMAIN observations : observations[i].mem \in MemId
  BY <1>0 DEF Observation
<1>2. \A i \in DOMAIN observations : \E k \in Session : mem[k] = observations[i].mem
  BY DEF TablesOK, ObservationsReachable
<1>3. \A i \in DOMAIN observations' : observations'[i].text[2] \in handed'
  BY DEF ObservedInv
<1>4. ASSUME NEW i \in DOMAIN observations, NEW j \in DOMAIN observations,
             observations'[i].mem = observations'[j].mem, observations'[i].text = observations'[j].text
      PROVE  i = j \/ observations'[i].text[2] \in overrun'
  <2>1. CASE mem' = mem
    BY <1>4, <2>1 DEF ObservedInv, StoredOnce
  <2>2. CASE \A k \in Session : Known(k, mem'[s]) => k = s
    <3>1. \A k \in Session : mem[k] = mem'[s] => k = s
      BY <2>2 DEF Known
    <3>2. observations[i].mem = observations[j].mem
      BY <1>2, <1>4, <3>1
    <3>3. QED
      BY <1>4, <3>2 DEF ObservedInv, StoredOnce
  <2>3. QED
    BY <2>1, <2>2
<1>5. StoredOnce'
  BY <1>4 DEF StoredOnce
<1>6. ASSUME NEW i \in DOMAIN observations, NEW m, m = observations[i].text[2], Live(m)'
      PROVE  /\ observations'[i].hashMem = observations'[i].mem
             /\ \E k \in Session : mem'[k] = observations'[i].mem /\ Frozen(k)'
  <2>1. Live(observations[i].text[2])
    BY <1>6 DEF LiveShrinks, ObservedInv
  <2>2. PICK k \in Session : mem[k] = observations[i].mem /\ Frozen(k)
    BY <2>1 DEF ObservedInv
  <2>3. observations[i].hashMem = observations[i].mem
    BY <2>1 DEF ObservedInv
  <2>4. CASE mem' = mem
    BY <2>2, <2>3, <2>4, FrozenKept
  <2>5. CASE ~ Frozen(s)
    <3>1. k # s /\ mem'[k] = mem[k]
      BY <2>2, <2>5
    <3>2. mem[s] # observations[i].mem
      BY <1>1, <2>2, <3>1 DEF IdsApart, Known
    <3>3. QED
      BY <2>2, <2>3, <3>1, <3>2, FrozenKept
  <2>6. QED
    BY <2>4, <2>5
<1>7. ASSUME NEW i \in DOMAIN observations', NEW m, m = observations'[i].text[2], Live(m)'
      PROVE  /\ observations'[i].hashMem = observations'[i].mem
             /\ \E k \in Session : mem'[k] = observations'[i].mem /\ Frozen(k)'
  <2>1. CASE i \in DOMAIN observations
    BY <1>6, <1>7, <2>1
  <2>2. CASE i \notin DOMAIN observations
    BY <1>3, <1>7, <2>2
  <2>3. QED
    BY <2>1, <2>2
<1>8. \A i \in DOMAIN observations' : Live(observations[i].text[2])' =>
        /\ observations'[i].hashMem = observations'[i].mem
        /\ \E k \in Session : mem'[k] = observations'[i].mem /\ Frozen(k)'
  BY <1>7 DEF Live, Exists, AtProvider
<1>9. QED
  BY <1>3, <1>5, <1>8 DEF ObservedInv

LEMMA ObservedKept ==
  ASSUME ObservedInv, ReadsOnly, LiveShrinks, handed \subseteq handed',
         overrun \subseteq overrun', observations' = observations,
         \A s \in Session : Frozen(s) => mem'[s] = mem[s]
  PROVE  ObservedInv'
<1>1. ASSUME NEW i \in DOMAIN observations, NEW m, m = observations[i].text[2], Live(m)'
      PROVE  /\ observations[i].hashMem = observations[i].mem
             /\ \E k \in Session : mem'[k] = observations[i].mem /\ Frozen(k)'
  <2>1. Live(observations[i].text[2])
    BY <1>1 DEF LiveShrinks, ObservedInv
  <2>2. PICK k \in Session : mem[k] = observations[i].mem /\ Frozen(k)
    BY <2>1 DEF ObservedInv
  <2>3. observations[i].hashMem = observations[i].mem
    BY <2>1 DEF ObservedInv
  <2>4. QED
    BY <2>2, <2>3, FrozenKept
<1>2. \A i \in DOMAIN observations' : Live(observations[i].text[2])' =>
        /\ observations'[i].hashMem = observations'[i].mem
        /\ \E k \in Session : mem'[k] = observations'[i].mem /\ Frozen(k)'
  BY <1>1 DEF Live, Exists, AtProvider
<1>3. QED
  BY <1>2 DEF ObservedInv, StoredOnce

\* A finite table has finitely many rows about a message.
LEMMA SummariesFinite ==
  ASSUME TablesOK, NEW m
  PROVE  IsFiniteSet(SummariesOf(m)) /\ Cardinality(SummariesOf(m)) \in Nat
<1>1. DOMAIN summaries = 1..Len(summaries) /\ Len(summaries) \in Nat
  BY LenProperties DEF TablesOK
<1>2. IsFiniteSet(1..Len(summaries))
  BY <1>1, FS_Interval
<1>3. SummariesOf(m) \in SUBSET (1..Len(summaries))
  BY <1>1 DEF SummariesOf
<1>4. IsFiniteSet(SummariesOf(m))
  BY <1>2, <1>3, FS_Subset
<1>5. QED
  BY <1>4, FS_CardinalityType

LEMMA OneMore ==
  ASSUME NEW old \in Nat, NEW new \in {old, old + 1}, NEW before \in Nat, NEW after \in Nat,
         before <= after, NEW was \in BOOLEAN, NEW is \in BOOLEAN, is => was,
         old <= before + (IF was THEN 0 ELSE 1),
         new = old \/ (was /\ (~ is \/ after = before + 1))
  PROVE  new <= after + (IF is THEN 0 ELSE 1)
OBVIOUS

\* The table of summaries may grow by a row: a fallback that is the first of its session,
\* or the answer to a message that is live no more or was paid for.
LEMMA SummedStep ==
  ASSUME QueueInv', TablesOK, TablesOK', SummedInv, LiveShrinks, handed \subseteq handed',
         overrun \subseteq overrun',
         faults \in Nat, faults' \in Nat, faults <= faults',
         DOMAIN summaries \subseteq DOMAIN summaries',
         \A i \in DOMAIN summaries :
           /\ summaries'[i].session = summaries[i].session
           /\ summaries'[i].from = summaries[i].from
           /\ summaries'[i].msg = summaries[i].msg,
         \A i, j \in DOMAIN summaries' \ DOMAIN summaries : i = j,
         \A n \in DOMAIN summaries' \ DOMAIN summaries :
           /\ summaries'[n].from = "fallback" =>
                \A i \in DOMAIN summaries : summaries[i].session # summaries'[n].session
           /\ \/ summaries'[n].msg = NULL
              \/ /\ summaries'[n].msg \in handed
                 /\ Live(summaries'[n].msg) \/ summaries'[n].msg \in overrun'
                 /\ \/ faults' = faults + 1
                    \/ \A m \in handed : Live(m)' => m # summaries'[n].msg
  PROVE  SummedInv'
<1>0. /\ DOMAIN summaries = 1..Len(summaries) /\ Len(summaries) \in Nat
      /\ DOMAIN summaries' = 1..Len(summaries') /\ Len(summaries') \in Nat
  BY LenProperties DEF TablesOK
<1>1. \A i \in DOMAIN summaries' : summaries'[i].msg \in handed' \cup {NULL}
  BY DEF SummedInv
<1>2. FallbackComesFirst'
  <2> SUFFICES ASSUME NEW i \in DOMAIN summaries', NEW j \in DOMAIN summaries', i < j,
                      summaries'[i].session = summaries'[j].session
               PROVE  summaries'[j].from # "fallback"
    BY DEF FallbackComesFirst
  <2>1. CASE i \in DOMAIN summaries /\ j \in DOMAIN summaries
    BY <2>1 DEF SummedInv, FallbackComesFirst
  <2>2. CASE i \in DOMAIN summaries /\ j \notin DOMAIN summaries
    BY <2>2
  <2>3. CASE i \notin DOMAIN summaries
    <3>1. j \notin DOMAIN summaries
      BY <1>0, <2>3
    <3>2. i = j
      BY <2>3, <3>1
    <3>3. QED
      BY <1>0, <3>2
  <2>4. QED
    BY <2>1, <2>2, <2>3
<1>3. ASSUME NEW m \in handed', m \notin overrun'
      PROVE  Cardinality(SummariesOf(m)') <= faults' + (IF Live(m)' THEN 0 ELSE 1)
  <2> DEFINE before == SummariesOf(m)
             after == {i \in DOMAIN summaries' : summaries'[i].msg = m}
             old == Cardinality(before)
             new == Cardinality(after)
  <2>0. /\ SummariesOf(m)' = after
        /\ before = {i \in DOMAIN summaries : summaries[i].msg = m}
        /\ m # NULL
    BY QueueAssumption DEF SummariesOf, QueueInv, TypeOK, Id
  <2>1. IsFiniteSet(before) /\ old \in Nat
    BY SummariesFinite
  <2>2. CASE m \in handed
    <3>1. /\ old <= faults + (IF Live(m) THEN 0 ELSE 1)
          /\ Live(m)' => Live(m)
      BY <1>3, <2>2 DEF SummedInv, LiveShrinks
    <3>2. new = old \/ (new = old + 1 /\ Live(m) /\ (~ Live(m)' \/ faults' = faults + 1))
      <4>1. CASE \E n \in DOMAIN summaries' \ DOMAIN summaries : summaries'[n].msg = m
        <5>1. PICK n \in DOMAIN summaries' \ DOMAIN summaries : summaries'[n].msg = m
          BY <4>1
        <5>2. after = before \cup {n} /\ n \notin before
          BY <2>0, <5>1
        <5>3. Live(m) /\ (~ Live(m)' \/ faults' = faults + 1)
          BY <1>3, <2>0, <2>2, <5>1
        <5> HIDE DEF before, after
        <5>4. Cardinality(before \cup {n}) = Cardinality(before) + 1
          BY <2>1, <5>2, FS_AddElement
        <5>5. new = old + 1
          BY <5>2, <5>4
        <5>6. QED
          BY <5>3, <5>5
      <4>2. CASE ~ \E n \in DOMAIN summaries' \ DOMAIN summaries : summaries'[n].msg = m
        BY <2>0, <4>2
      <4>3. QED
        BY <4>1, <4>2
    <3>3. Live(m) \in BOOLEAN /\ Live(m)' \in BOOLEAN
      BY DEF Live
    <3> HIDE DEF old, new, after, before
    <3>4. new <= faults' + (IF Live(m)' THEN 0 ELSE 1)
      BY <2>1, <3>1, <3>2, <3>3, OneMore
    <3>5. QED
      BY <2>0, <3>4 DEF new
  <2>3. CASE m \notin handed
    <3>1. \A i \in DOMAIN summaries' : summaries'[i].msg # m
      BY <2>0, <2>3 DEF SummedInv
    <3>2. after = {}
      BY <3>1
    <3>3. QED
      BY <2>0, <3>2, FS_EmptySet
  <2>4. QED
    BY <2>2, <2>3
<1>4. QED
  BY <1>1, <1>2, <1>3 DEF SummedInv

-----------------------------------------------------------------------------
(* What the operations do to what is stored.                               *)

\* What every step respects.
Calm == /\ ReadsOnly /\ LiveShrinks
        /\ handed \subseteq handed' /\ overrun \subseteq overrun' /\ faults <= faults'

LEMMA StepCalm ==
  ASSUME ObserverInv, [ObserverNext]_observerVars, overrun \subseteq overrun'
  PROVE  ObserverInv' /\ Calm
<1>1. ObserverInv' /\ ReadsOnly /\ LiveShrinks /\ handed \subseteq handed'
  BY ObserverStepInv, StepLive, StepUsesQueue, HandedGrows
<1>2. faults' = faults \/ faults' = faults + 1
  BY DEF ObserverNext, Request, Work, Faulty, Submit, StartInit, StartDrain, PostSummary, Complete,
     Clear, ClaimOwn, ClaimOwnTooLate, DrainClaim, DrainedSession, Finish, AnswerStored,
     AnswerRefused, ProviderFailed, Pass, Crash, CrashInSummary, CrashInClaim, CrashInAnswer,
     CrashInMarkFailed, Dropped, Die, Fault, observerVars
<1>3. faults <= faults'
  BY <1>2, ObserverAssumption DEF ObserverInv, HistoryOK
<1>4. QED
  BY <1>1, <1>3 DEF Calm

\* Steps that store nothing and give no other id to a session that is frozen.
LEMMA OnceKept ==
  ASSUME ObserverInv, ObserverInv', OnceInv, Calm,
         observations' = observations, summaries' = summaries,
         \A s \in Session : Frozen(s) => mem'[s] = mem[s]
  PROVE  OnceInv'
<1>1. ObservedInv'
  BY ObservedKept DEF OnceInv, Calm
<1>2. SummedInv'
  BY SummedStep, ObserverAssumption DEF ObserverInv, OnceInv, Calm, HistoryOK
<1>3. QED
  BY <1>1, <1>2 DEF OnceInv

\* An append, index by index.
LEMMA AppendIndices ==
  ASSUME NEW S, NEW table \in Seq(S), NEW row \in S
  PROVE  /\ DOMAIN table \subseteq DOMAIN Append(table, row)
         /\ \A i \in DOMAIN table : Append(table, row)[i] = table[i]
         /\ \A i \in DOMAIN Append(table, row) \ DOMAIN table :
              i = Len(table) + 1 /\ Append(table, row)[i] = row
<1>1. /\ Append(table, row) \in Seq(S) /\ Len(table) \in Nat
      /\ DOMAIN table = 1..Len(table)
      /\ DOMAIN Append(table, row) = 1..(Len(table) + 1)
  BY AppendProperties, LenProperties
<1>2. QED
  BY <1>1, AppendProperties

\* A summary that a client posts, or the fallback of sessions_complete.
LEMMA RouteOnce ==
  ASSUME ObserverInv, ObserverInv', OnceInv, Calm, NEW s \in Session,
         mem' = [mem EXCEPT ![s] = RouteMem(s)], observations' = observations,
         NEW from \in {"posted", "fallback"}, from = "fallback" => NeedsFallback(s),
         summaries' = Append(summaries, Summary(RouteMem(s), s, from, NULL))
  PROVE  OnceInv'
<1> DEFINE row == Summary(RouteMem(s), s, from, NULL)
<1>0. MemTypes /\ TablesOK /\ TablesOK' /\ QueueInv' /\ HistoryOK /\ HistoryOK'
  BY DEF ObserverInv
<1>1. \A k \in Session : Frozen(k) => mem'[k] = mem[k]
  BY <1>0, RouteFacts DEF Frozen, MemTypes
<1>2. ObservedInv'
  BY <1>1, ObservedKept DEF OnceInv, Calm
<1>3. /\ row \in SummaryRow /\ row.session = s /\ row.from = from /\ row.msg = NULL
  BY <1>0, RouteFacts DEF SummaryRow, Summary
<1>4. summaries \in Seq(SummaryRow) /\ summaries' = Append(summaries, row)
  BY <1>0 DEF TablesOK
<1> HIDE DEF row
<1>5. /\ DOMAIN summaries \subseteq DOMAIN summaries'
      /\ \A i \in DOMAIN summaries : summaries'[i] = summaries[i]
      /\ \A n \in DOMAIN summaries' \ DOMAIN summaries :
           n = Len(summaries) + 1 /\ summaries'[n] = row
  BY <1>3, <1>4, AppendIndices
<1>6. from = "fallback" => \A i \in DOMAIN summaries : summaries[i].session # s
  BY <1>0 DEF NeedsFallback, TablesOK, ObservationsReachable
<1>7. SummedInv'
  BY <1>0, <1>3, <1>5, <1>6, SummedStep, ObserverAssumption DEF OnceInv, Calm, HistoryOK
<1>8. QED
  BY <1>2, <1>7 DEF OnceInv

\* The columns a cascade leaves.
LEMMA CascadeObserved ==
  ASSUME NEW table \in Seq(Observation), NEW old, NEW new, NEW i \in DOMAIN table
  PROVE  /\ Cascade(table, old, new)[i].text = table[i].text
         /\ Cascade(table, old, new)[i].hashMem = table[i].hashMem
<1>1. table[i] \in Observation
  BY LenProperties
<1>2. QED
  BY <1>1 DEF Cascade, Observation

LEMMA CascadeSummed ==
  ASSUME NEW table \in Seq(SummaryRow), NEW old, NEW new, NEW i \in DOMAIN table
  PROVE  /\ Cascade(table, old, new)[i].from = table[i].from
         /\ Cascade(table, old, new)[i].msg = table[i].msg
<1>1. table[i] \in SummaryRow
  BY LenProperties
<1>2. QED
  BY <1>1 DEF Cascade, SummaryRow

\* ensure_memory_session_id replaces no id of a session that is frozen, and none by an
\* id that another session knows.
LEMMA EnsureFresh ==
  ASSUME TasksOK, MemTypes, IdsApart, NEW t \in Task, task[t].pc = "run", NEW id, Fresh(t, id),
         NEW s, s = task[t].session, NEW ids, ids = MemAfterEnsure(t, id)
  PROVE  /\ s \in Session
         /\ \A k \in Session : k # s => ids[k] = mem[k]
         /\ \/ ids = mem
            \/ /\ task[t].mem = NULL /\ ~ Frozen(s) /\ ids[s] \in MemId
               /\ \A k \in Session : Known(k, ids[s]) => k = s
         /\ mem[s] \in MemId => ids[s] \in MemId
<1>1. /\ s \in Session /\ id \in MemId
      /\ \A k \in Session : k # s => ids[k] = mem[k]
      /\ ids = mem \/ (ids[s] = id /\ task[t].mem = NULL)
  BY EnsureFacts
<1>2. ASSUME NEW k \in Session, Known(k, id) PROVE k = s
  <2>1. id \in issued \cup {LocalId(k), RouteId(k)}
    BY <1>1, <1>2 DEF IdsApart
  <2>2. QED
    BY <1>1, <2>1, IdFacts, MemoryAssumption DEF MemTypes, Fresh
<1>3. task[t].mem = NULL => ~ Frozen(s)
  BY DEF Frozen
<1>4. QED
  BY <1>1, <1>2, <1>3

\* What is stored moves along with its session, column by column.
LEMMA EnsureMoves ==
  ASSUME TasksOK, MemTypes, IdsApart, TablesOK, NEW t \in Task, task[t].pc = "run",
         NEW id, Fresh(t, id), NEW s, s = task[t].session, NEW ids, ids = MemAfterEnsure(t, id),
         NEW kept, kept = Cascade(observations, mem[s], ids[s]),
         NEW summed, summed = Cascade(summaries, mem[s], ids[s])
  PROVE  /\ kept \in Seq(Observation) /\ DOMAIN kept = DOMAIN observations
         /\ \A i \in DOMAIN observations :
              /\ kept[i].text = observations[i].text
              /\ kept[i].hashMem = observations[i].hashMem
              /\ kept[i].mem = IF observations[i].mem = mem[s] THEN ids[s] ELSE observations[i].mem
         /\ summed \in Seq(SummaryRow) /\ DOMAIN summed = DOMAIN summaries
         /\ \A i \in DOMAIN summaries :
              /\ summed[i].session = summaries[i].session
              /\ summed[i].from = summaries[i].from
              /\ summed[i].msg = summaries[i].msg
<1>1. /\ observations \in Seq(Observation) /\ summaries \in Seq(SummaryRow)
      /\ Observation \in {Observation, SummaryRow} /\ SummaryRow \in {Observation, SummaryRow}
      /\ mem[s] \in MemId => ids[s] \in MemId
  BY EnsureFresh DEF TablesOK
<1>2. /\ kept \in Seq(Observation) /\ DOMAIN kept = DOMAIN observations
      /\ \A i \in DOMAIN observations :
           kept[i].mem = IF observations[i].mem = mem[s] THEN ids[s] ELSE observations[i].mem
  BY <1>1, CascadeFacts
<1>3. \A i \in DOMAIN observations :
        /\ kept[i].text = observations[i].text
        /\ kept[i].hashMem = observations[i].hashMem
  BY <1>1, CascadeObserved
<1>4. summed \in Seq(SummaryRow) /\ DOMAIN summed = DOMAIN summaries
  BY <1>1, CascadeFacts
<1>5. \A i \in DOMAIN summaries :
        /\ summed[i].session = summaries[i].session
        /\ summed[i].from = summaries[i].from
        /\ summed[i].msg = summaries[i].msg
  BY <1>1, CascadeSession, CascadeSummed
<1>6. QED
  BY <1>2, <1>3, <1>4, <1>5

\* The id was observed, and no batch stored.
LEMMA EnsureOnce ==
  ASSUME ObserverInv, ObserverInv', OnceInv, Calm, NEW t \in Task, task[t].pc = "run",
         NEW id, Fresh(t, id), Ensure(t, id)
  PROVE  OnceInv'
<1>0. /\ TasksOK /\ MemTypes /\ IdsApart /\ TablesOK /\ TablesOK' /\ QueueInv'
      /\ HistoryOK /\ HistoryOK'
  BY DEF ObserverInv
<1> PICK s \in Session : s = task[t].session
  BY <1>0, EnsureFresh
<1> DEFINE ids == MemAfterEnsure(t, id)
<1>1. /\ mem' = ids
      /\ observations' = Cascade(observations, mem[s], ids[s])
      /\ summaries' = Cascade(summaries, mem[s], ids[s])
  BY DEF Ensure
<1>2. /\ \A k \in Session : k # s => ids[k] = mem[k]
      /\ \/ ids = mem
         \/ /\ ~ Frozen(s) /\ ids[s] \in MemId
            /\ \A k \in Session : Known(k, ids[s]) => k = s
  BY <1>0, EnsureFresh
<1>3. /\ DOMAIN observations' = DOMAIN observations
      /\ \A i \in DOMAIN observations :
           /\ observations'[i].text = observations[i].text
           /\ observations'[i].hashMem = observations[i].hashMem
           /\ observations'[i].mem = IF observations[i].mem = mem[s] THEN ids[s]
                                     ELSE observations[i].mem
      /\ DOMAIN summaries' = DOMAIN summaries
      /\ \A i \in DOMAIN summaries :
           /\ summaries'[i].session = summaries[i].session
           /\ summaries'[i].from = summaries[i].from
           /\ summaries'[i].msg = summaries[i].msg
  BY <1>0, <1>1, EnsureMoves
<1> HIDE DEF ids
<1>4. ObservedInv'
  BY <1>0, <1>1, <1>2, <1>3, ObservedStep DEF OnceInv, Calm
<1>5. SummedInv'
  BY <1>0, <1>3, SummedStep, ObserverAssumption DEF OnceInv, Calm, HistoryOK
<1>6. QED
  BY <1>4, <1>5 DEF OnceInv

\* An answer is stored: either its message is live no more, or the handlers are all dead.
LEMMA StoreOnce ==
  ASSUME ObserverInv, ObserverInv', OnceInv, Calm, NEW t \in Task, task[t].pc = "run",
         NEW id, Fresh(t, id), NEW text \in {"local", "agent", "none"},
         NEW m, m = task[t].msg, m = NULL => text = "none", StoreAnswer(t, id, text),
         \/ m = NULL \/ ~ Live(m)'
         \/ faults' = faults + 1 /\ \A u \in Task : task'[u].pc # "run"
  PROVE  OnceInv'
<1>0. /\ TasksOK /\ MemTypes /\ IdsApart /\ TablesOK /\ TablesOK' /\ QueueInv /\ QueueInv'
      /\ HistoryOK /\ HistoryOK'
  BY DEF ObserverInv
<1> PICK s \in Session : s = task[t].session
  BY <1>0, EnsureFresh
<1> DEFINE ids == MemAfterEnsure(t, id)
           b == BatchId(t, id)
           kept == Cascade(observations, mem[s], ids[s])
           summed == Cascade(summaries, mem[s], ids[s])
           row == [mem |-> b, hashMem |-> b, text |-> <<text, m>>]
           summary == Summary(b, s, "answer", m)
<1>1. /\ \A k \in Session : k # s => ids[k] = mem[k]
      /\ \/ ids = mem
         \/ /\ ~ Frozen(s) /\ ids[s] \in MemId
            /\ \A k \in Session : Known(k, ids[s]) => k = s
  BY <1>0, EnsureFresh
<1>2. /\ kept \in Seq(Observation) /\ DOMAIN kept = DOMAIN observations
      /\ \A i \in DOMAIN observations :
           /\ kept[i].text = observations[i].text
           /\ kept[i].hashMem = observations[i].hashMem
           /\ kept[i].mem = IF observations[i].mem = mem[s] THEN ids[s] ELSE observations[i].mem
      /\ summed \in Seq(SummaryRow) /\ DOMAIN summed = DOMAIN summaries
      /\ \A i \in DOMAIN summaries :
           /\ summed[i].session = summaries[i].session
           /\ summed[i].from = summaries[i].from
           /\ summed[i].msg = summaries[i].msg
  BY <1>0, EnsureMoves
<1>3. /\ mem' = ids
      /\ \/ observations' = kept
         \/ /\ text # "none" /\ observations' = Append(kept, row)
            /\ ~ \E i \in DOMAIN kept : kept[i].mem = b /\ kept[i].hashMem = b
                                          /\ kept[i].text = <<text, m>>
      /\ \/ summaries' = summed
         \/ text # "none" /\ summaries' = Append(summed, summary)
  BY DEF StoreAnswer, Inserted
<1>4. ASSUME text # "none"
      PROVE  /\ m \in handed /\ (m \notin overrun => Live(m))
             /\ b \in MemId /\ ids[s] = b
             /\ row \in Observation /\ row.mem = b /\ row.hashMem = b
             /\ row.text = <<text, m>> /\ row.text[2] = m
             /\ summary \in SummaryRow /\ summary.from = "answer" /\ summary.msg = m
  <2>1. m \in handed /\ m \in Id /\ (m \notin overrun => Live(m))
    BY <1>0, <1>4 DEF TasksOK, Sound, QueueInv, TypeOK, Live, AtProvider
  <2>2. b \in MemId /\ ids[s] = b
    BY <1>0, <1>4, BatchFacts DEF StoreAnswer
  <2>3. <<text, m>> \in Texts /\ <<text, m>>[2] = m
    BY <1>4, <2>1 DEF Texts
  <2>4. row \in Observation
    BY <2>2, <2>3 DEF Observation
  <2>5. summary \in SummaryRow /\ summary.from = "answer" /\ summary.msg = m
    BY <1>1, <2>1, <2>2 DEF SummaryRow, Summary
  <2>6. QED
    BY <2>1, <2>2, <2>3, <2>4, <2>5
<1> HIDE DEF ids, b, kept, summed, row, summary
<1>5. ASSUME text # "none", observations' = Append(kept, row), NEW i \in DOMAIN kept,
             kept[i].mem = b, kept[i].text = <<text, m>>, m \notin overrun
      PROVE  FALSE
  <2>1. observations[i].text[2] = m /\ Live(m)
    BY <1>2, <1>4, <1>5
  <2>2. PICK k \in Session : mem[k] = observations[i].mem /\ Frozen(k)
    BY <1>2, <1>5, <2>1 DEF OnceInv, ObservedInv
  <2>3. observations[i].hashMem = observations[i].mem
    BY <1>2, <1>5, <2>1 DEF OnceInv, ObservedInv
  <2>4. kept[i].mem = observations[i].mem
    <3>1. CASE ids = mem
      BY <1>2, <1>5, <3>1
    <3>2. CASE ~ Frozen(s)
      <4>1. observations[i] \in Observation
        BY <1>0, <1>2, <1>5, LenProperties DEF TablesOK
      <4>2. observations[i].mem \in MemId
        BY <4>1 DEF Observation
      <4>3. mem[s] # observations[i].mem
        BY <1>0, <1>1, <2>2, <3>2, <4>2 DEF IdsApart, Known
      <4>4. QED
        BY <1>2, <1>5, <4>3
    <3>3. QED
      BY <1>1, <3>1, <3>2
  <2>5. kept[i].hashMem = b
    BY <1>2, <1>5, <2>3, <2>4
  <2>6. observations' # kept
    BY <1>2, <1>4, <1>5, AppendProperties, LenProperties
  <2>7. QED
    BY <1>3, <1>5, <2>5, <2>6
<1>6. ASSUME text # "none", Live(m)'
      PROVE  Frozen(s)' /\ faults' = faults + 1
  <2>1. faults' = faults + 1 /\ \A u \in Task : task'[u].pc # "run"
    BY <1>4, <1>6
  <2>2. mem'[s] # NULL
    BY <1>3, <1>4, <1>6, MemoryAssumption
  <2>3. QED
    BY <2>1, <2>2 DEF Frozen
<1>7. /\ DOMAIN observations \subseteq DOMAIN observations'
      /\ \A i \in DOMAIN observations : observations'[i] = kept[i]
      /\ \A n \in DOMAIN observations' \ DOMAIN observations :
           /\ text # "none" /\ observations' = Append(kept, row)
           /\ n = Len(kept) + 1 /\ observations'[n] = row
  <2>1. CASE observations' = kept
    BY <1>2, <2>1
  <2>2. CASE text # "none" /\ observations' = Append(kept, row)
    BY <1>2, <1>4, <2>2, AppendIndices
  <2>3. QED
    BY <1>3, <2>1, <2>2
<1>8. ObservedInv'
  <2>1. \A n \in DOMAIN observations' \ DOMAIN observations :
           /\ observations'[n].text[2] \in handed'
           /\ \A k \in handed' : k = observations'[n].text[2] /\ Live(k)' =>
                /\ observations'[n].hashMem = observations'[n].mem
                /\ mem'[s] = observations'[n].mem /\ Frozen(s)'
           /\ observations'[n].text[2] \notin overrun' =>
                \A i \in DOMAIN observations :
                  ~ (observations'[i].mem = observations'[n].mem /\ observations'[i].text = observations'[n].text)
    <3> SUFFICES ASSUME NEW n \in DOMAIN observations' \ DOMAIN observations
                 PROVE  /\ observations'[n].text[2] \in handed'
                        /\ \A k \in handed' : k = observations'[n].text[2] /\ Live(k)' =>
                             /\ observations'[n].hashMem = observations'[n].mem
                             /\ mem'[s] = observations'[n].mem /\ Frozen(s)'
                        /\ observations'[n].text[2] \notin overrun' =>
                             \A i \in DOMAIN observations :
                               ~ (observations'[i].mem = observations'[n].mem
                                    /\ observations'[i].text = observations'[n].text)
      OBVIOUS
    <3>1. text # "none" /\ observations' = Append(kept, row) /\ observations'[n] = row
      BY <1>7
    <3>2. observations'[n].text[2] \in handed'
      BY <1>4, <3>1 DEF Calm
    <3>3. \A k \in handed' : k = observations'[n].text[2] /\ Live(k)' =>
             /\ observations'[n].hashMem = observations'[n].mem
             /\ mem'[s] = observations'[n].mem /\ Frozen(s)'
      BY <1>3, <1>4, <1>6, <3>1
    <3>4. observations'[n].text[2] \notin overrun' =>
            \A i \in DOMAIN observations :
              ~ (observations'[i].mem = observations'[n].mem /\ observations'[i].text = observations'[n].text)
      BY <1>2, <1>4, <1>5, <1>7, <3>1 DEF Calm
    <3>5. QED
      BY <3>2, <3>3, <3>4
  <2>2. /\ \A i \in DOMAIN observations :
             /\ observations'[i].text = observations[i].text
             /\ observations'[i].hashMem = observations[i].hashMem
             /\ observations'[i].mem = IF observations[i].mem = mem[s] THEN mem'[s]
                                       ELSE observations[i].mem
        /\ \A i, j \in DOMAIN observations' \ DOMAIN observations : i = j
    BY <1>2, <1>3, <1>7
  <2>3. /\ \A k \in Session : k # s => mem'[k] = mem[k]
        /\ \/ mem' = mem
           \/ ~ Frozen(s) /\ mem'[s] \in MemId /\ (\A k \in Session : Known(k, mem'[s]) => k = s)
    BY <1>1, <1>3
  <2>4. QED
    BY <1>0, <1>1, <1>7, <2>1, <2>2, <2>3, ObservedStep DEF OnceInv, Calm
<1>9. /\ DOMAIN summaries \subseteq DOMAIN summaries'
      /\ \A i \in DOMAIN summaries : summaries'[i] = summed[i]
      /\ \A n \in DOMAIN summaries' \ DOMAIN summaries :
           text # "none" /\ n = Len(summed) + 1 /\ summaries'[n] = summary
  <2>1. CASE summaries' = summed
    BY <1>2, <2>1
  <2>2. CASE text # "none" /\ summaries' = Append(summed, summary)
    BY <1>2, <1>4, <2>2, AppendIndices
  <2>3. QED
    BY <1>3, <2>1, <2>2
<1>10. SummedInv'
  <2>1. \A n \in DOMAIN summaries' \ DOMAIN summaries :
           /\ summaries'[n].from # "fallback"
           /\ summaries'[n].msg \in handed
           /\ Live(summaries'[n].msg) \/ summaries'[n].msg \in overrun'
           /\ \/ faults' = faults + 1
              \/ \A k \in handed : Live(k)' => k # summaries'[n].msg
    <3> SUFFICES ASSUME NEW n \in DOMAIN summaries' \ DOMAIN summaries
                 PROVE  /\ summaries'[n].from # "fallback"
                        /\ summaries'[n].msg \in handed
                        /\ Live(summaries'[n].msg) \/ summaries'[n].msg \in overrun'
                        /\ \/ faults' = faults + 1
                           \/ \A k \in handed : Live(k)' => k # summaries'[n].msg
      OBVIOUS
    <3>1. text # "none" /\ summaries'[n].from = "answer" /\ summaries'[n].msg = m
      BY <1>4, <1>9
    <3>2. m \in handed /\ (Live(m) \/ m \in overrun') /\ (Live(m)' => faults' = faults + 1)
      BY <1>4, <1>6, <3>1 DEF Calm
    <3>3. QED
      BY <3>1, <3>2
  <2>2. /\ \A i \in DOMAIN summaries :
             /\ summaries'[i].session = summaries[i].session
             /\ summaries'[i].from = summaries[i].from
             /\ summaries'[i].msg = summaries[i].msg
        /\ \A i, j \in DOMAIN summaries' \ DOMAIN summaries : i = j
    BY <1>2, <1>9
  <2>3. QED
    BY <1>0, <1>9, <2>1, <2>2, SummedStep, ObserverAssumption DEF OnceInv, Calm, HistoryOK
<1>11. QED
  BY <1>8, <1>10 DEF OnceInv

-----------------------------------------------------------------------------
(* Each step stores once.                                                  *)

\* A message whose answer was stored and confirmed is live no more: its row is gone, and
\* whoever was at its provider is through.
LEMMA ConfirmedIsOver ==
  ASSUME ObserverInv, OwnerInv, NEW t \in Task, AtProvider(t), NEW m, m = task[t].msg,
         ConfirmProcessed(m), NEW r, r.pc # "run", task' = [task EXCEPT ![t] = r],
         overrun \subseteq overrun'
  PROVE  ~ Live(m)'
<1>0. QueueInv /\ TasksOK /\ Owned /\ m \in Id
  BY ProviderFacts DEF ObserverInv, OwnerInv
<1>1. rows'[m].status = "deleted" \/ (rows' = rows /\ ~ Exists(m))
  BY <1>0, DeleteFacts DEF ConfirmProcessed, DeleteRow
<1>2. ASSUME m \notin overrun, NEW u \in Task, task'[u].pc = "run", task'[u].msg = m PROVE FALSE
  <2>1. u # t /\ task'[u] = task[u]
    BY <1>0, <1>2 DEF TasksOK
  <2>2. AtProvider(u) /\ task[u].msg = task[t].msg
    BY <1>2, <2>1 DEF AtProvider
  <2>3. QED
    BY <1>0, <1>2, <2>1, <2>2 DEF Owned
<1>3. QED
  BY <1>1, <1>2 DEF Live, Exists, AtProvider

LEMMA FinishOnce ==
  ASSUME ObserverInv, ObserverInv', OwnerInv, OnceInv, Calm, NEW t \in Task, Finish(t)
  PROVE  OnceInv'
<1>1. PICK a \in Answers(t) : AnswerStored(t, a) \/ AnswerRefused(t, a)
  BY DEF Finish
<1>2. /\ task[t].pc = "run" /\ Fresh(t, a[1]) /\ a[2] \in {"local", "agent", "none"}
      /\ task[t].msg = NULL => a[2] = "none"
  BY AnswerFacts DEF Finish
<1>3. CASE AnswerRefused(t, a)
  BY <1>2, <1>3, EnsureOnce DEF AnswerRefused
<1>4. CASE AnswerStored(t, a)
  <2>1. PICK m : m = task[t].msg
    OBVIOUS
  <2>2. /\ StoreAnswer(t, a[1], a[2]) /\ task' = [task EXCEPT ![t] = Settled(t)]
        /\ m # NULL => ConfirmProcessed(m)
    BY <1>4, <2>1 DEF AnswerStored
  <2>3. CASE m # NULL
    <3>1. AtProvider(t)
      BY <1>2, <2>1, <2>3 DEF AtProvider
    <3>2. ~ Live(m)'
      BY <2>1, <2>2, <2>3, <3>1, NotRunning, ConfirmedIsOver DEF Calm
    <3>3. QED
      BY <1>2, <2>1, <2>2, <2>3, <3>2, StoreOnce
  <2>4. CASE m = NULL
    BY <1>2, <2>1, <2>2, <2>4, StoreOnce
  <2>5. QED
    BY <2>3, <2>4
<1>5. QED
  BY <1>1, <1>3, <1>4

LEMMA CrashedOnce ==
  ASSUME ObserverInv, ObserverInv', OnceInv, Calm, NEW t \in Task, CrashInAnswer(t)
  PROVE  OnceInv'
<1>1. PICK a \in Answers(t) : Ensure(t, a[1]) \/ StoreAnswer(t, a[1], a[2])
  BY DEF CrashInAnswer
<1>2. /\ task[t].pc = "run" /\ Fresh(t, a[1]) /\ a[2] \in {"local", "agent", "none"}
      /\ task[t].msg = NULL => a[2] = "none"
  BY AnswerFacts DEF CrashInAnswer
<1>3. faults' = faults + 1 /\ \A u \in Task : task'[u].pc # "run"
  BY NotRunning DEF CrashInAnswer, Die, Fault
<1>4. PICK m : m = task[t].msg
  OBVIOUS
<1>5. QED
  BY <1>1, <1>2, <1>3, <1>4, EnsureOnce, StoreOnce

LEMMA StepOnce ==
  ASSUME ObserverInv, OwnerInv, OnceInv, [ObserverNext]_observerVars, overrun \subseteq overrun'
  PROVE  OnceInv'
<1>0. ObserverInv' /\ Calm
  BY StepCalm
<1>1. ASSUME NEW t \in Task, Finish(t) PROVE OnceInv'
  BY <1>0, <1>1, FinishOnce
<1>2. ASSUME NEW t \in Task, CrashInAnswer(t) PROVE OnceInv'
  BY <1>0, <1>2, CrashedOnce
<1>3. ASSUME NEW s \in Session, PostSummary(s) PROVE OnceInv'
  BY <1>0, <1>3, RouteOnce DEF PostSummary
<1>4. ASSUME NEW s \in Session, Complete(s) PROVE OnceInv'
  <2>1. RouteMem(s) = mem[s] /\ mem' = [mem EXCEPT ![s] = RouteMem(s)]
    BY <1>4 DEF Complete, NeedsFallback, RouteMem, ObserverInv, MemTypes
  <2>2. QED
    BY <1>0, <1>4, <2>1, RouteOnce DEF Complete
<1>5. ASSUME NEW s \in Session, CrashInSummary(s) PROVE OnceInv'
  <2>1. \A k \in Session : Frozen(k) => mem'[k] = mem[k]
    BY <1>5 DEF CrashInSummary, Frozen, ObserverInv, MemTypes
  <2>2. QED
    BY <1>0, <1>5, <2>1, OnceKept DEF CrashInSummary
<1>6. CASE /\ mem' = mem /\ observations' = observations /\ summaries' = summaries
  BY <1>0, <1>6, OnceKept
<1>7. CASE \E t \in Task : \/ ClaimOwn(t) \/ ClaimOwnTooLate(t) \/ DrainClaim(t) \/ DrainedSession(t)
                           \/ ProviderFailed(t) \/ CrashInClaim(t) \/ CrashInMarkFailed(t) \/ Dropped(t)
  BY <1>6, <1>7 DEF ClaimOwn, ClaimOwnTooLate, DrainClaim, DrainedSession, ProviderFailed,
     CrashInClaim, CrashInMarkFailed, Dropped, memoryVars, tables
<1>8. CASE (\E t \in Hook, s \in Session : Submit(t, s) \/ StartInit(t, s))
           \/ \E t \in Drain : StartDrain(t)
  BY <1>6, <1>8 DEF Submit, StartInit, StartDrain, memoryVars, tables
<1>9. CASE Clear \/ Pass \/ Crash \/ UNCHANGED observerVars
  BY <1>6, <1>9 DEF Clear, Pass, Crash, observerVars, memoryVars, tables
<1>10. QED
  BY <1>1, <1>2, <1>3, <1>4, <1>5, <1>7, <1>8, <1>9 DEF ObserverNext, Request, Work, Faulty

LEMMA OnceInitInv == OwnersInit => OnceInv
BY DEF OwnersInit, ObserverInit, QueueInit, OnceInv, ObservedInv, SummedInv, StoredOnce, FallbackComesFirst

LEMMA OnceAlways == OwnersSpec => [](ObserverInv /\ OnceInv)
<1>1. ObserverInv /\ OwnerInv /\ OnceInv /\ [OwnersNext]_ownersVars => OnceInv'
  BY StepOnce, OwnersStep
<1>2. QED
  BY <1>1, OnceInitInv, OwnerInvariant, OwnersInvariant, PTL DEF OwnersSpec

\* An answer is stored once though its message is processed again after a crash that fell
\* between the commit and the DELETE: a session whose id was hashed into an observation of
\* a live message has nobody left who would replace that id, so the second answer finds the
\* first.  The exception is a message whose provider ran longer than a claim lasts
\* (store_observation, observations/store.rs:48; ensure_memory_session_id,
\* observer.rs:877-898).
THEOREM AnswersStoredOnce == OwnersSpec => []StoredOnce
<1>1. OnceInv => StoredOnce
  BY DEF OnceInv, ObservedInv
<1>2. QED
  BY <1>1, OnceAlways, PTL

\* No summary is made twice: the fallback of sessions_complete comes first or not at all,
\* and a summarize message has one summary, with one more at most for every death or hang-up,
\* unless a provider of it ran longer than a claim lasts
\* (routes/mod.rs:591-601; process_agent_response, response_processor.rs:187-201).
THEOREM SummariesMadeOnce == OwnersSpec => []SummariesOnce
<1>1. ASSUME ObserverInv, OnceInv, NEW m \in Id \ overrun PROVE Cardinality(SummariesOf(m)) <= 1 + faults
  <2>1. TablesOK /\ faults \in Nat /\ m # NULL
    BY <1>1, ObserverAssumption, QueueAssumption DEF ObserverInv, HistoryOK, Id
  <2>2. Cardinality(SummariesOf(m)) \in Nat
    BY <2>1, SummariesFinite
  <2>3. CASE m \in handed
    <3>1. Cardinality(SummariesOf(m)) <= faults + (IF Live(m) THEN 0 ELSE 1)
      BY <1>1, <2>3 DEF OnceInv, SummedInv
    <3>2. QED
      BY <2>1, <2>2, <3>1
  <2>4. CASE m \notin handed
    <3>1. SummariesOf(m) = {}
      BY <1>1, <2>1, <2>4 DEF OnceInv, SummedInv, SummariesOf
    <3>2. QED
      BY <2>1, <3>1, FS_EmptySet
  <2>5. QED
    BY <2>3, <2>4
<1>2. ObserverInv /\ OnceInv => SummariesOnce
  BY <1>1 DEF OnceInv, SummedInv, SummariesOnce, SummarizedOnce, SummariesOf
<1>3. QED
  BY <1>2, OnceAlways, PTL

-----------------------------------------------------------------------------
(* Where no message overruns.                                              *)

\* The clock moves in Pass alone.
LEMMA ClockMoves == [ObserverNext]_observerVars => now' = now \/ Pass
<1>1. [ObserverNext]_observerVars => Pass \/ UNCHANGED observerVars \/ Request \/ Faulty
                                       \/ \E t \in Task : Work(t)
  BY DEF ObserverNext
<1>2. Request => now' = now
  BY DEF Request, Submit, Enqueue, StartInit, StartDrain, PostSummary, Complete, Clear, FailedClear,
     AllClear, ClearRows, queueVars
<1>3. \A m \in Id : ConfirmProcessed(m) \/ ConfirmCutShort(m) \/ MarkFailed(m) \/ FailCutShort(m)
                       => now' = now
  BY DEF ConfirmProcessed, DeleteRow, ConfirmCutShort, MarkFailed, PermanentlyFailed, Retried, FailRow,
     FailCutShort, queueVars
<1>4. \A t \in Task : Work(t) => now' = now
  BY DEF Work, ClaimOwn, ClaimMessageById, ClaimOwnTooLate, DrainClaim, ClaimNextMessage,
     DrainedSession, Finish, AnswerStored, AnswerRefused, ConfirmProcessed, DeleteRow,
     ProviderFailed, MarkFailed, PermanentlyFailed, Retried, FailRow, queueVars
<1>5. Faulty => now' = now
  BY DEF Faulty, Crash, CrashInSummary, CrashInClaim, ClaimNextCutShort, CrashInAnswer,
     ConfirmCutShort, CrashInMarkFailed, FailCutShort, FailRow, Dropped, queueVars
<1>6. QED
  BY <1>1, <1>2, <1>4, <1>5 DEF observerVars

\* Every provider is within its time.
InTime == \A t \in Task : AtProvider(t) => now <= task[t].since + ProviderTimeout

LEMMA InTimeStep ==
  ASSUME ObserverInv, ObserverInv', InTime, [ObserverNext]_observerVars
  PROVE  InTime'
<1> SUFFICES ASSUME NEW t \in Task, AtProvider(t)'
             PROVE  now' <= task'[t].since + ProviderTimeout
  BY DEF InTime
<1>1. /\ now \in Nat /\ now' \in Nat /\ ProviderTimeout \in Nat
      /\ task'[t].since \in Nat
  BY ProviderFacts, ObserverAssumption DEF ObserverInv, QueueInv, TypeOK, TasksOK, TaskRecord, AtProvider
<1>2. CASE Pass
  BY <1>1, <1>2 DEF Pass, Tick, AtProvider
<1>3. CASE now' = now
  <2>1. task'[t] = task[t] \/ task'[t].since = now
    BY StepEnters DEF Enters, AtProvider
  <2>2. QED
    BY <1>1, <1>3, <2>1 DEF InTime, AtProvider
<1>4. QED
  BY <1>2, <1>3, ClockMoves

\* No message overruns where every provider ends before its claim is stale, so that the
\* theorems above are then about all messages.  The defaults of the code do not meet
\* the condition: 60 s (DEFAULT_STALE_THRESHOLD_MS, pending_messages.rs:20)
\* against the 180 and 240 s of the providers (observer.rs:556, 602, 740).
THEOREM TimelyNeverOverruns ==
  ASSUME ProviderTimeout <= StaleThreshold
  PROVE  OwnersSpec => [](overrun = {})
<1> DEFINE Inv == InTime /\ overrun = {}
<1>1. OwnersInit => Inv
  BY NotRunning DEF OwnersInit, ObserverInit, InTime, AtProvider
<1>2. ObserverInv /\ Inv /\ [OwnersNext]_ownersVars => Inv'
  <2> SUFFICES ASSUME ObserverInv, InTime, overrun = {}, [OwnersNext]_ownersVars PROVE Inv'
    OBVIOUS
  <2>1. InTime' /\ ObserverInv'
    BY OwnersStep, StepCalm, InTimeStep
  <2>2. \A t \in Task : AtProvider(t)' => ~ (now' > task'[t].since + StaleThreshold)
    <3>1. ASSUME NEW t \in Task, AtProvider(t)'
          PROVE  ~ (now' > task'[t].since + StaleThreshold)
      <4>1. now' <= task'[t].since + ProviderTimeout
        BY <2>1, <3>1 DEF InTime
      <4>2. /\ now' \in Nat /\ task'[t].since \in Nat
            /\ ProviderTimeout \in Nat /\ StaleThreshold \in Nat
        BY <2>1, <3>1, QueueAssumption, ObserverAssumption
           DEF ObserverInv, QueueInv, TypeOK, TasksOK, TaskRecord
      <4>3. QED
        BY <4>1, <4>2
    <3>2. QED
      BY <3>1
  <2>3. Overrunning' = {}
    BY <2>2 DEF Overrunning
  <2>4. QED
    BY <2>1, <2>3 DEF OwnersNext, ownersVars
<1>3. QED
  BY <1>1, <1>2, OwnersInvariant, PTL DEF OwnersSpec
=============================================================================
