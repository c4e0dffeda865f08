--------------------------- MODULE ObserverProofs ---------------------------
(***************************************************************************)
(* Proofs about the observer, for any sessions, messages, handlers and     *)
(* ids, however long a provider runs: it uses the queue as the queue       *)
(* allows, so that what is proved of the queue under any callers holds of  *)
(* the queue under the observer; an answer is stored before it is          *)
(* reported; and what is stored can be reached from its session.           *)
(***************************************************************************)
EXTENDS ObserverProps, PendingQueueProofs, WellFoundedInduction, SequenceTheorems

-----------------------------------------------------------------------------
(* The inductive invariant.                                                *)

TaskRecord == [pc : {"idle", "claim", "run", "next"},
               session : Session \cup {NULL}, msg : Id \cup {NULL},
               mem : MemId \cup {NULL}, retry : Nat, since : Nat,
               todo : SUBSET Session, left : 0..MaxMessages]

\* What handler t has when it stands where r says: a message to claim, one that
\* was handed to somebody, sessions left to drain.
Sound(t, r, claimed) ==
  /\ r.pc \in {"claim", "run"} => r.session \in Session
  /\ r.pc = "claim" => r.msg \in Id /\ t \in Hook
  /\ r.pc = "run" => r.msg \in claimed \cup {NULL}
  /\ r.pc = "next" => t \in Drain
  /\ t \in Drain /\ r.pc \in {"next", "run"} => r.todo # {}
  /\ t \in Drain /\ r.pc = "run" => r.left > 0

TasksOK ==
  /\ task \in [Task -> TaskRecord]
  /\ \A t \in Task : Sound(t, task[t], handed)

MemTypes ==
  /\ mem \in [Session -> MemId \cup {NULL}]
  /\ issued \subseteq AgentId

\* Session s has the memory id, or a handler of s still knows it.
Known(s, id) ==
  \/ mem[s] = id
  \/ \E t \in Task : task[t].pc = "run" /\ task[t].session = s /\ task[t].mem = id

\* A memory id is known to one session: the worker makes its own from the session,
\* and an agent hands out each of its ids once.
IdsApart ==
  \A s \in Session, id \in MemId : Known(s, id) =>
    /\ id \in issued \cup {LocalId(s), RouteId(s)}
    /\ \A k \in Session : Known(k, id) => k = s

Observation == [mem : MemId, hashMem : MemId, text : Texts]
SummaryRow == [mem : MemId, session : Session, from : {"answer", "posted", "fallback"},
               msg : Id \cup {NULL}]

TablesOK ==
  /\ observations \in Seq(Observation)
  /\ summaries \in Seq(SummaryRow)
  /\ ObservationsReachable

HistoryOK ==
  /\ type \in [Id -> MessageType \cup {NULL}]
  /\ stored \in [Id -> 0..2]
  /\ faults \in 0..MaxFaults
  /\ ReportedAfterStored

ObserverInv == QueueInv /\ TasksOK /\ MemTypes /\ IdsApart /\ TablesOK /\ HistoryOK

-----------------------------------------------------------------------------
(* Facts about the operators.                                              *)

LEMMA IdleFacts ==
  /\ Idle \in TaskRecord
  /\ \A claimed : \A t \in Task : Sound(t, Idle, claimed)
BY ObserverAssumption DEF Idle, TaskRecord, Sound

\* The first of the sessions that are left is one of them.
LEMMA CurrentFacts ==
  ASSUME NEW t \in Task, task[t].todo \in SUBSET Session, task[t].todo # {}
  PROVE  CurrentSession(t) \in task[t].todo
<1> DEFINE T == task[t].todo
<1>1. T \subseteq Nat /\ T # {}
  BY ObserverAssumption
<1>2. PICK R : R = {ss \in Nat \X Nat : ss[1] < ss[2]} /\ IsWellFoundedOn(R, Nat)
  BY NatLessThanWellFounded DEF OpToRel
<1>3. \E s \in T : \A k \in T : s <= k
  <2>1. PICK s \in T : \A k \in T : <<k, s>> \notin R
    BY <1>1, <1>2, WFMin
  <2>2. \A k \in T : ~ (k < s)
    BY <1>1, <1>2, <2>1
  <2>3. QED
    BY <1>1, <2>2
<1>4. QED
  BY <1>3 DEF CurrentSession

\* A claim never takes a message back from the history.
LEMMA HandedGrows ==
  ASSUME [Next]_queueVars
  PROVE  handed \subseteq handed'
<1> USE DEF queueVars
<1>1. CASE UNCHANGED queueVars
  BY <1>1
<1>2. CASE \E s \in Session : Enqueue(s)
  BY <1>2 DEF Enqueue
<1>3. CASE Claim
  BY <1>3 DEF Claim, ClaimNextMessage, ClaimNextNothing, ClaimMessageById
<1>4. CASE Settle
  BY <1>4 DEF Settle, ConfirmProcessed, MarkFailed, Retried, PermanentlyFailed
<1>5. CASE CutShort
  BY <1>5 DEF CutShort, ClaimNextCutShort, ConfirmCutShort, FailCutShort
<1>6. CASE FailedClear \/ AllClear
  BY <1>6 DEF FailedClear, AllClear, ClearRows
<1>7. CASE Tick
  BY <1>7 DEF Tick
<1>8. QED
  BY <1>1, <1>2, <1>3, <1>4, <1>5, <1>6, <1>7 DEF Next

-----------------------------------------------------------------------------
(* What the handlers know: one lemma for each shape a step has.            *)

LEMMA TaskStep ==
  ASSUME TasksOK, NEW t \in Task, NEW r \in TaskRecord,
         task' = [task EXCEPT ![t] = r], handed \subseteq handed', Sound(t, r, handed')
  PROVE  TasksOK'
<1>1. task' \in [Task -> TaskRecord]
  BY DEF TasksOK
<1>2. ASSUME NEW k \in Task PROVE Sound(k, task'[k], handed')
  BY DEF TasksOK, Sound
<1>3. QED
  BY <1>1, <1>2 DEF TasksOK

LEMMA TasksKept == TasksOK /\ task' = task /\ handed \subseteq handed' => TasksOK'
BY DEF TasksOK, Sound

LEMMA TasksDied == task' = [t \in Task |-> Idle] => TasksOK'
BY IdleFacts DEF TasksOK

\* A handler in the provider, as the rows it read under the lock say.
LEMMA RunningFacts ==
  ASSUME QueueInv, TasksOK, MemTypes, NEW t \in Task, NEW s \in Session, NEW m \in Id
  PROVE  /\ Running(t, s, m) \in TaskRecord
         /\ Running(t, s, m).pc = "run"
         /\ Running(t, s, m).session = s
         /\ Running(t, s, m).msg = m
         /\ Running(t, s, m).mem = mem[s]
         /\ Running(t, s, m).since = now
         /\ Running(t, s, m).retry = rows[m].retry_count
         /\ Running(t, s, m).todo = task[t].todo
         /\ Running(t, s, m).left = task[t].left
<1>1. task[t] \in TaskRecord
  BY DEF TasksOK
<1>2. mem[s] \in MemId \cup {NULL} /\ rows[m].retry_count \in Nat /\ now \in Nat
  BY DEF MemTypes, QueueInv, TypeOK, Row
<1>3. QED
  BY <1>1, <1>2 DEF Running, TaskRecord

\* A drain between two messages.
LEMMA OnwardFacts ==
  ASSUME NEW todo \in SUBSET Session, NEW left \in 0..MaxMessages
  PROVE  /\ [Idle EXCEPT !.pc = "next", !.todo = todo, !.left = left] \in TaskRecord
         /\ [Idle EXCEPT !.pc = "next", !.todo = todo, !.left = left].pc = "next"
         /\ [Idle EXCEPT !.pc = "next", !.todo = todo, !.left = left].todo = todo
BY DEF Idle, TaskRecord

\* Where a drain turns to its next session, or is done.
LEMMA SessionDoneFacts ==
  ASSUME TasksOK, NEW t \in Task, t \in Drain, task[t].pc \in {"next", "run"}, NEW claimed
  PROVE  SessionDone(t) \in TaskRecord /\ Sound(t, SessionDone(t), claimed)
<1> DEFINE rest == task[t].todo \ {CurrentSession(t)}
           onward == [Idle EXCEPT !.pc = "next", !.todo = rest, !.left = MaxMessages]
<1>1. rest \subseteq Session
  BY DEF TasksOK, TaskRecord
<1>2. onward \in TaskRecord /\ onward.pc = "next" /\ onward.todo = rest
  <2> HIDE DEF rest
  <2>1. MaxMessages \in 0..MaxMessages
    BY ObserverAssumption
  <2>2. QED
    BY <1>1, <2>1, OnwardFacts
<1> HIDE DEF onward
<1>3. rest # {} => Sound(t, onward, claimed)
  BY <1>2 DEF Sound
<1>4. SessionDone(t) = IF rest = {} THEN Idle ELSE onward
  BY DEF SessionDone, onward
<1>5. QED
  BY <1>2, <1>3, <1>4, IdleFacts

\* Where a handler goes on after an answer, a failure or an error.
LEMMA AfterRunFacts ==
  ASSUME TasksOK, NEW t \in Task, task[t].pc = "run", NEW claimed
  PROVE  /\ Settled(t) \in TaskRecord /\ Sound(t, Settled(t), claimed)
         /\ Aborted(t) \in TaskRecord /\ Sound(t, Aborted(t), claimed)
<1> DEFINE onward == [Idle EXCEPT !.pc = "next", !.todo = task[t].todo, !.left = task[t].left - 1]
<1>1. task[t] \in TaskRecord /\ Sound(t, task[t], handed)
  BY DEF TasksOK
<1>2. t \in Drain => onward \in TaskRecord /\ Sound(t, onward, claimed)
  <2>1. t \in Drain => task[t].left - 1 \in 0..MaxMessages /\ task[t].todo # {}
    BY <1>1, ObserverAssumption DEF Sound, TaskRecord
  <2>2. t \in Drain => onward \in TaskRecord /\ onward.pc = "next" /\ onward.todo = task[t].todo
    BY <1>1, <2>1, OnwardFacts DEF TaskRecord
  <2>3. QED
    BY <2>1, <2>2 DEF Sound
<1>3. t \in Drain => SessionDone(t) \in TaskRecord /\ Sound(t, SessionDone(t), claimed)
  BY SessionDoneFacts
<1>4. QED
  BY <1>2, <1>3, IdleFacts DEF Settled, Aborted

-----------------------------------------------------------------------------
(* Each step uses the queue as PendingQueue allows.                        *)

\* The message of a handler in the provider was handed to somebody.
LEMMA AtWork ==
  ASSUME TasksOK, NEW t \in Task, task[t].pc = "run"
  PROVE  task[t].msg # NULL => task[t].msg \in handed
BY DEF TasksOK, Sound

LEMMA RequestUsesQueue == ObserverInv /\ Request => [Next]_queueVars
<1> SUFFICES ASSUME ObserverInv, Request PROVE [Next]_queueVars
  OBVIOUS
<1>1. CASE \E t \in Hook, s \in Session : Submit(t, s)
  BY <1>1 DEF Submit, Next
<1>2. CASE \E t \in Hook, s \in Session : StartInit(t, s)
  BY <1>2 DEF StartInit
<1>3. CASE \E t \in Drain : StartDrain(t)
  BY <1>3 DEF StartDrain
<1>4. CASE \E s \in Session : PostSummary(s) \/ Complete(s)
  BY <1>4 DEF PostSummary, Complete
<1>5. CASE Clear
  BY <1>5 DEF Clear, Next
<1>6. QED
  BY <1>1, <1>2, <1>3, <1>4, <1>5 DEF Request

LEMMA WorkUsesQueue == \A t \in Task : ObserverInv /\ Work(t) => [Next]_queueVars
<1> SUFFICES ASSUME NEW t \in Task, ObserverInv, Work(t) PROVE [Next]_queueVars
  OBVIOUS
<1>0. task[t] \in TaskRecord /\ Sound(t, task[t], handed)
  BY DEF ObserverInv, TasksOK
<1>1. CASE ClaimOwn(t)
  BY <1>0, <1>1 DEF ClaimOwn, Sound, Next, Claim
<1>2. CASE ClaimOwnTooLate(t)
  BY <1>2 DEF ClaimOwnTooLate
<1>3. CASE DrainClaim(t)
  <2>1. CurrentSession(t) \in Session
    BY <1>0, <1>3, CurrentFacts DEF DrainClaim, Sound, TaskRecord
  <2>2. QED
    BY <1>3, <2>1 DEF DrainClaim, Next, Claim
<1>4. CASE DrainedSession(t)
  BY <1>4 DEF DrainedSession
<1>5. CASE Finish(t)
  BY <1>5, AtWork DEF ObserverInv, Finish, AnswerStored, AnswerRefused, Next, Settle
<1>6. CASE ProviderFailed(t)
  BY <1>6, AtWork DEF ObserverInv, ProviderFailed, Next, Settle
<1>7. QED
  BY <1>1, <1>2, <1>3, <1>4, <1>5, <1>6 DEF Work

LEMMA FaultyUsesQueue == ObserverInv /\ Faulty => [Next]_queueVars
<1> SUFFICES ASSUME ObserverInv, Faulty PROVE [Next]_queueVars
  OBVIOUS
<1>1. CASE Crash \/ \E s \in Session : CrashInSummary(s)
  BY <1>1 DEF Crash, CrashInSummary
<1>2. ASSUME NEW t \in Task, CrashInClaim(t) PROVE Next
  <2>1. task[t] \in TaskRecord /\ Sound(t, task[t], handed)
    BY DEF ObserverInv, TasksOK
  <2>2. CurrentSession(t) \in Session
    BY <1>2, <2>1, CurrentFacts DEF CrashInClaim, Sound, TaskRecord
  <2>3. QED
    BY <1>2, <2>2 DEF CrashInClaim, Next, CutShort
<1>3. ASSUME NEW t \in Task, CrashInAnswer(t) PROVE [Next]_queueVars
  BY <1>3, AtWork DEF ObserverInv, CrashInAnswer, Next, CutShort
<1>4. ASSUME NEW t \in Task, CrashInMarkFailed(t) PROVE Next
  BY <1>4, AtWork DEF ObserverInv, CrashInMarkFailed, Next, CutShort
<1>5. ASSUME NEW t \in Task, Dropped(t) PROVE UNCHANGED queueVars
  BY <1>5 DEF Dropped
<1>6. QED
  BY <1>1, <1>2, <1>3, <1>4, <1>5 DEF Faulty

LEMMA StepUsesQueue == ObserverInv /\ [ObserverNext]_observerVars => [Next]_queueVars
<1>1. ObserverInv /\ Pass => [Next]_queueVars
  BY DEF Pass, Next
<1>2. UNCHANGED observerVars => UNCHANGED queueVars
  BY DEF observerVars, queueVars
<1>3. QED
  BY <1>1, <1>2, RequestUsesQueue, WorkUsesQueue, FaultyUsesQueue DEF ObserverNext

-----------------------------------------------------------------------------
(* Each step keeps what the handlers know.                                 *)

LEMMA RequestTasks ==
  ASSUME ObserverInv, Request, handed \subseteq handed' PROVE TasksOK'
<1>1. ASSUME NEW t \in Hook, NEW s \in Session, Submit(t, s) PROVE TasksOK'
  <2> DEFINE r == [Idle EXCEPT !.pc = "claim", !.session = s, !.msg = nextId]
  <2>1. nextId \in Id /\ t \in Task /\ task' = [task EXCEPT ![t] = r]
    BY <1>1 DEF Submit, Enqueue, Task
  <2>2. r \in TaskRecord /\ r.pc = "claim" /\ r.session = s /\ r.msg = nextId
    BY <2>1, IdleFacts DEF TaskRecord
  <2> HIDE DEF r
  <2>3. Sound(t, r, handed')
    BY <2>1, <2>2 DEF Sound
  <2>4. QED
    BY <2>1, <2>2, <2>3, TaskStep DEF ObserverInv
<1>2. ASSUME NEW t \in Hook, NEW s \in Session, StartInit(t, s) PROVE TasksOK'
  <2> DEFINE r == [Idle EXCEPT !.pc = "run", !.session = s, !.mem = mem[s], !.since = now]
  <2>1. mem[s] \in MemId \cup {NULL} /\ now \in Nat
    BY DEF ObserverInv, MemTypes, QueueInv, TypeOK
  <2>2. r \in TaskRecord /\ r.pc = "run" /\ r.session = s /\ r.msg = Idle.msg
    BY <2>1, IdleFacts DEF TaskRecord
  <2>3. t \in Task /\ task' = [task EXCEPT ![t] = r]
    BY <1>2 DEF StartInit, Task
  <2> HIDE DEF r
  <2>4. Sound(t, r, handed')
    BY <2>2, ObserverAssumption DEF Sound, Idle
  <2>5. QED
    BY <2>2, <2>3, <2>4, TaskStep DEF ObserverInv
<1>3. ASSUME NEW t \in Drain, StartDrain(t) PROVE TasksOK'
  <2> DEFINE r == [Idle EXCEPT !.pc = "next", !.todo = SessionsWithWork, !.left = MaxMessages]
  <2>1. /\ SessionsWithWork \subseteq Session /\ SessionsWithWork # {}
        /\ MaxMessages \in 0..MaxMessages
        /\ t \in Task /\ task' = [task EXCEPT ![t] = r]
    BY <1>3, ObserverAssumption DEF StartDrain, SessionsWithWork, Task
  <2>2. r \in TaskRecord /\ r.pc = "next" /\ r.todo # {}
    BY <2>1, OnwardFacts
  <2> HIDE DEF r
  <2>3. Sound(t, r, handed')
    BY <2>2 DEF Sound
  <2>4. QED
    BY <2>1, <2>2, <2>3, TaskStep DEF ObserverInv
<1>4. CASE Clear \/ \E s \in Session : PostSummary(s) \/ Complete(s)
  BY <1>4, TasksKept DEF ObserverInv, Clear, PostSummary, Complete
<1>5. QED
  BY <1>1, <1>2, <1>3, <1>4 DEF Request

LEMMA WorkTasks ==
  ASSUME ObserverInv, NEW t \in Task, Work(t), handed \subseteq handed' PROVE TasksOK'
<1>0. task[t] \in TaskRecord /\ Sound(t, task[t], handed)
  BY DEF ObserverInv, TasksOK
<1>1. CASE ClaimOwn(t)
  <2> DEFINE r == Running(t, task[t].session, task[t].msg)
  <2>1. /\ task[t].session \in Session /\ task[t].msg \in Id /\ t \notin Drain
        /\ handed' = handed \cup {task[t].msg} /\ task' = [task EXCEPT ![t] = r]
    BY <1>0, <1>1, ObserverAssumption DEF ClaimOwn, ClaimMessageById, Sound
  <2>2. r \in TaskRecord /\ r.pc = "run" /\ r.session \in Session /\ r.msg = task[t].msg
    BY <2>1, RunningFacts DEF ObserverInv
  <2> HIDE DEF r
  <2>3. Sound(t, r, handed')
    BY <2>1, <2>2 DEF Sound
  <2>4. QED
    BY <2>1, <2>2, <2>3, TaskStep DEF ObserverInv
<1>2. CASE DrainClaim(t)
  <2>1. PICK m \in Id : /\ ClaimNextMessage(CurrentSession(t), m)
                        /\ task' = [task EXCEPT ![t] = Running(t, CurrentSession(t), m)]
    BY <1>2 DEF DrainClaim
  <2> DEFINE r == Running(t, CurrentSession(t), m)
  <2>2. CurrentSession(t) \in Session /\ task[t].todo # {} /\ task[t].left > 0
    BY <1>0, <1>2, CurrentFacts DEF DrainClaim, Sound, TaskRecord
  <2>3. /\ r \in TaskRecord /\ r.pc = "run" /\ r.session \in Session /\ r.msg = m
        /\ r.todo # {} /\ r.left > 0
    BY <2>2, RunningFacts DEF ObserverInv
  <2>4. m \in handed' /\ task' = [task EXCEPT ![t] = r]
    BY <2>1 DEF ClaimNextMessage
  <2> HIDE DEF r
  <2>5. Sound(t, r, handed')
    BY <2>3, <2>4 DEF Sound
  <2>6. QED
    BY <2>3, <2>4, <2>5, TaskStep DEF ObserverInv
<1>3. CASE ClaimOwnTooLate(t)
  BY <1>3, IdleFacts, TaskStep DEF ClaimOwnTooLate, ObserverInv
<1>4. CASE DrainedSession(t)
  BY <1>0, <1>4, SessionDoneFacts, TaskStep DEF DrainedSession, ObserverInv, Sound
<1>5. CASE Finish(t) \/ ProviderFailed(t)
  <2>1. /\ task[t].pc = "run"
        /\ \/ task' = [task EXCEPT ![t] = Settled(t)]
           \/ task' = [task EXCEPT ![t] = Aborted(t)]
    BY <1>5 DEF Finish, ProviderFailed, AnswerStored, AnswerRefused
  <2>2. QED
    BY <2>1, AfterRunFacts, TaskStep DEF ObserverInv
<1>6. QED
  BY <1>1, <1>2, <1>3, <1>4, <1>5 DEF Work

LEMMA FaultyTasks ==
  ASSUME ObserverInv, Faulty, handed \subseteq handed' PROVE TasksOK'
<1>1. CASE \E t \in Task : Dropped(t)
  BY <1>1, IdleFacts, TaskStep DEF Dropped, ObserverInv
<1>2. CASE ~ \E t \in Task : Dropped(t)
  BY <1>2, TasksDied DEF Faulty, Crash, CrashInSummary, CrashInClaim, CrashInAnswer,
     CrashInMarkFailed, Die
<1>3. QED
  BY <1>1, <1>2

LEMMA StepTasks == ObserverInv /\ [ObserverNext]_observerVars => TasksOK'
<1> SUFFICES ASSUME ObserverInv, [ObserverNext]_observerVars PROVE TasksOK'
  OBVIOUS
<1>1. handed \subseteq handed'
  BY StepUsesQueue, HandedGrows
<1>2. CASE Pass \/ UNCHANGED observerVars
  BY <1>1, <1>2, TasksKept DEF ObserverInv, Pass, observerVars
<1>3. QED
  BY <1>1, <1>2, RequestTasks, WorkTasks, FaultyTasks DEF ObserverNext

-----------------------------------------------------------------------------
(* Memory ids.                                                             *)

LEMMA IdFacts ==
  /\ \A s \in Session : LocalId(s) \in MemId /\ RouteId(s) \in MemId
  /\ \A s, k \in Session : LocalId(s) = LocalId(k) \/ RouteId(s) = RouteId(k) => s = k
  /\ \A s, k \in Session : LocalId(s) # RouteId(k)
  /\ AgentId \subseteq MemId
BY DEF MemId, LocalId, RouteId

\* What a provider of handler t can name: an id made of its session, or a new one.
Fresh(t, id) == id = LocalId(task[t].session) \/ id \in AgentId \ issued

LEMMA AnswerFacts ==
  ASSUME NEW t \in Task, NEW a \in Answers(t)
  PROVE  /\ Fresh(t, a[1])
         /\ a[2] \in {"local", "agent", "none"}
         /\ task[t].msg = NULL => a[2] = "none"
<1>1. \/ a = LocalAnswer(t)
      \/ a \in AgentAnswers(t)
  BY DEF Answers
<1>2. CASE a = LocalAnswer(t)
  BY <1>2 DEF LocalAnswer, Fresh
<1>3. CASE a \in AgentAnswers(t)
  BY <1>3 DEF AgentAnswers, Fresh
<1>4. QED
  BY <1>1, <1>2, <1>3

\* A step after which every handler in the provider was there before, or has just
\* read the memory id of its session.
ReadsOnly == \A t \in Task : task'[t].pc = "run" =>
               \/ task'[t] = task[t]
               \/ task'[t].mem = mem[task'[t].session]

\* One that leaves the memory ids as they are.
LEMMA IdsKept ==
  ASSUME IdsApart, ReadsOnly, mem' = mem, issued' = issued
  PROVE  IdsApart'
<1>1. \A s \in Session, id \in MemId : Known(s, id)' => Known(s, id)
  BY DEF Known, ReadsOnly
<1>2. QED
  BY <1>1 DEF IdsApart

\* One that gives a session an id no other can know.
LEMMA IdsStep ==
  ASSUME MemTypes, IdsApart, ReadsOnly, NEW s \in Session, NEW new \in MemId,
         \A k \in Session : k # s => mem'[k] = mem[k],
         mem'[s] \in {mem[s], new},
         issued' \subseteq AgentId, issued \subseteq issued',
         \/ new \in {LocalId(s), RouteId(s)}
         \/ new \in AgentId \ issued /\ new \in issued'
  PROVE  IdsApart'
<1>1. ASSUME NEW k \in Session, NEW id \in MemId, Known(k, id)'
      PROVE  Known(k, id) \/ (k = s /\ id = new)
  BY <1>1 DEF Known, ReadsOnly
<1>2. ASSUME NEW k \in Session, Known(k, new)
      PROVE  k = s
  <2>1. new \in issued \cup {LocalId(k), RouteId(k)}
    BY <1>2 DEF IdsApart
  <2>2. QED
    BY <2>1, IdFacts, MemoryAssumption DEF MemTypes
<1>3. ASSUME NEW k \in Session, NEW id \in MemId, Known(k, id)'
      PROVE  /\ id \in issued' \cup {LocalId(k), RouteId(k)}
             /\ \A j \in Session : Known(j, id)' => j = k
  BY <1>1, <1>2, <1>3 DEF IdsApart
<1>4. QED
  BY <1>3 DEF IdsApart

\* ensure_memory_session_id, under an id the provider could name.
LEMMA EnsureFacts ==
  ASSUME TasksOK, MemTypes, NEW t \in Task, task[t].pc = "run", NEW id, Fresh(t, id)
  PROVE  /\ task[t].session \in Session /\ id \in MemId
         /\ MemAfterEnsure(t, id) \in [Session -> MemId \cup {NULL}]
         /\ \A k \in Session : k # task[t].session => MemAfterEnsure(t, id)[k] = mem[k]
         /\ \/ MemAfterEnsure(t, id) = mem /\ task[t].mem # NULL
            \/ MemAfterEnsure(t, id)[task[t].session] = id /\ task[t].mem = NULL
<1>1. task[t].session \in Session
  BY DEF TasksOK, Sound
<1>2. id \in MemId
  BY <1>1, IdFacts DEF Fresh
<1>3. QED
  BY <1>1, <1>2 DEF MemAfterEnsure, MemTypes

LEMMA EnsureIds ==
  ASSUME TasksOK, MemTypes, IdsApart, ReadsOnly, NEW t \in Task, task[t].pc = "run",
         NEW id, Fresh(t, id),
         mem' = MemAfterEnsure(t, id), issued' = issued \cup ({id} \cap AgentId)
  PROVE  MemTypes' /\ IdsApart'
<1>1. MemTypes'
  BY EnsureFacts DEF MemTypes
<1>2. \/ id \in {LocalId(task[t].session), RouteId(task[t].session)}
      \/ id \in AgentId \ issued /\ id \in issued'
  BY DEF Fresh
<1>3. QED
  BY <1>1, <1>2, EnsureFacts, IdsStep DEF MemTypes

-----------------------------------------------------------------------------
(* What is stored under the memory ids.                                    *)

\* ON UPDATE CASCADE rewrites the column in place.
LEMMA CascadeFacts ==
  ASSUME NEW S \in {Observation, SummaryRow}, NEW table \in Seq(S), NEW old, NEW new,
         old \in MemId => new \in MemId
  PROVE  /\ Cascade(table, old, new) \in Seq(S)
         /\ DOMAIN Cascade(table, old, new) = DOMAIN table
         /\ \A i \in DOMAIN table :
              Cascade(table, old, new)[i].mem = IF table[i].mem = old THEN new ELSE table[i].mem
<1>1. /\ Len(table) \in Nat /\ DOMAIN table = 1..Len(table)
      /\ \A i \in DOMAIN table : table[i] \in S
  BY LenProperties
<1>2. ASSUME NEW i \in DOMAIN table
      PROVE  /\ Cascade(table, old, new)[i] \in S
             /\ Cascade(table, old, new)[i].mem = IF table[i].mem = old THEN new ELSE table[i].mem
  <2>1. CASE S = Observation
    <3>1. table[i] \in Observation
      BY <1>1, <2>1
    <3>2. QED
      BY <2>1, <3>1 DEF Cascade, Observation
  <2>2. CASE S = SummaryRow
    <3>1. table[i] \in SummaryRow
      BY <1>1, <2>2
    <3>2. QED
      BY <2>2, <3>1 DEF Cascade, SummaryRow
  <2>3. QED
    BY <2>1, <2>2
<1>3. Cascade(table, old, new) \in [1..Len(table) -> S]
  BY <1>1, <1>2 DEF Cascade
<1>4. QED
  BY <1>1, <1>2, <1>3, SeqDef

\* A summary stays with its session.
LEMMA CascadeSession ==
  ASSUME NEW table \in Seq(SummaryRow), NEW old, NEW new, NEW i \in DOMAIN table
  PROVE  Cascade(table, old, new)[i].session = table[i].session
<1>1. table[i] \in SummaryRow
  BY LenProperties
<1>2. QED
  BY <1>1 DEF Cascade, SummaryRow

\* What an append leaves, index by index.
LEMMA AppendFacts ==
  ASSUME NEW S, NEW table \in Seq(S), NEW row \in S, NEW i \in DOMAIN Append(table, row)
  PROVE  \/ i \in DOMAIN table /\ Append(table, row)[i] = table[i]
         \/ Append(table, row)[i] = row
<1>1. /\ Append(table, row) \in Seq(S) /\ Len(table) \in Nat
      /\ DOMAIN table = 1..Len(table)
      /\ DOMAIN Append(table, row) = 1..(Len(table) + 1)
  BY AppendProperties, LenProperties
<1>2. QED
  BY <1>1, AppendProperties

\* Every row of a table of observations is reached from a session of ids.
Reached(table, ids) == \A i \in DOMAIN table : \E s \in Session : ids[s] = table[i].mem
\* Every row of a table of summaries is reached from its own.
ReachedFromOwn(table, ids) == \A i \in DOMAIN table : ids[table[i].session] = table[i].mem

\* The tables follow a session to its next memory id.
LEMMA CascadeReaches ==
  ASSUME TablesOK, MemTypes, IdsApart, NEW s \in Session,
         NEW ids \in [Session -> MemId \cup {NULL}],
         \A k \in Session : k # s => ids[k] = mem[k],
         mem[s] \in MemId => ids[s] \in MemId
  PROVE  /\ Cascade(observations, mem[s], ids[s]) \in Seq(Observation)
         /\ Cascade(summaries, mem[s], ids[s]) \in Seq(SummaryRow)
         /\ Reached(Cascade(observations, mem[s], ids[s]), ids)
         /\ ReachedFromOwn(Cascade(summaries, mem[s], ids[s]), ids)
<1>1. /\ observations \in Seq(Observation) /\ summaries \in Seq(SummaryRow)
      /\ Observation \in {Observation, SummaryRow} /\ SummaryRow \in {Observation, SummaryRow}
  BY DEF TablesOK
<1> DEFINE kept == Cascade(observations, mem[s], ids[s])
           summed == Cascade(summaries, mem[s], ids[s])
<1>2. /\ kept \in Seq(Observation) /\ DOMAIN kept = DOMAIN observations
      /\ \A i \in DOMAIN observations : kept[i].mem =
            IF observations[i].mem = mem[s] THEN ids[s] ELSE observations[i].mem
  BY <1>1, CascadeFacts
<1>3. /\ summed \in Seq(SummaryRow) /\ DOMAIN summed = DOMAIN summaries
      /\ \A i \in DOMAIN summaries : summed[i].mem =
            IF summaries[i].mem = mem[s] THEN ids[s] ELSE summaries[i].mem
  BY <1>1, CascadeFacts
<1>4. \A i \in DOMAIN summaries : summed[i].session = summaries[i].session
  BY <1>1, CascadeSession
<1> HIDE DEF kept, summed
<1>5. Reached(kept, ids)
  BY <1>2 DEF Reached, TablesOK, ObservationsReachable
<1>6. ReachedFromOwn(summed, ids)
  <2> SUFFICES ASSUME NEW i \in DOMAIN summaries
               PROVE  ids[summaries[i].session] =
                        IF summaries[i].mem = mem[s] THEN ids[s] ELSE summaries[i].mem
    BY <1>3, <1>4 DEF ReachedFromOwn
  <2>1. /\ summaries[i].session \in Session /\ summaries[i].mem \in MemId
        /\ mem[summaries[i].session] = summaries[i].mem
    <3>1. summaries[i] \in SummaryRow
      BY <1>1, LenProperties
    <3>2. QED
      BY <3>1 DEF SummaryRow, TablesOK, ObservationsReachable
  <2>2. summaries[i].mem = mem[s] => summaries[i].session = s
    BY <2>1 DEF IdsApart, Known
  <2>3. QED
    BY <2>1, <2>2
<1>7. QED
  BY <1>2, <1>3, <1>5, <1>6 DEF kept, summed

LEMMA TablesKept ==
  ASSUME TablesOK, mem' = mem, observations' = observations, summaries' = summaries
  PROVE  TablesOK'
BY DEF TablesOK, ObservationsReachable

\* ensure_memory_session_id moves what is stored along.
LEMMA EnsureReaches ==
  ASSUME TasksOK, MemTypes, IdsApart, TablesOK, NEW t \in Task, task[t].pc = "run",
         NEW id, Fresh(t, id), NEW s, s = task[t].session,
         NEW ids, ids = MemAfterEnsure(t, id)
  PROVE  /\ Cascade(observations, mem[s], ids[s]) \in Seq(Observation)
         /\ Cascade(summaries, mem[s], ids[s]) \in Seq(SummaryRow)
         /\ Reached(Cascade(observations, mem[s], ids[s]), ids)
         /\ ReachedFromOwn(Cascade(summaries, mem[s], ids[s]), ids)
BY EnsureFacts, CascadeReaches

LEMMA EnsureTables ==
  ASSUME TasksOK, MemTypes, IdsApart, TablesOK, NEW t \in Task, task[t].pc = "run",
         NEW id, Fresh(t, id), Ensure(t, id)
  PROVE  TablesOK'
<1> DEFINE s == task[t].session
           ids == MemAfterEnsure(t, id)
<1>1. /\ mem' = ids
      /\ observations' = Cascade(observations, mem[s], ids[s])
      /\ summaries' = Cascade(summaries, mem[s], ids[s])
  BY DEF Ensure
<1> HIDE DEF s, ids
<1>2. /\ observations' \in Seq(Observation) /\ Reached(observations', ids)
      /\ summaries' \in Seq(SummaryRow) /\ ReachedFromOwn(summaries', ids)
  BY <1>1, EnsureReaches DEF s, ids
<1>3. QED
  BY <1>1, <1>2 DEF TablesOK, ObservationsReachable, Reached, ReachedFromOwn

\* The foreign key accepts a batch only under the present id of its own session: no
\* other session can have the id the handler remembers.
LEMMA BatchFacts ==
  ASSUME TasksOK, MemTypes, IdsApart, NEW t \in Task, task[t].pc = "run",
         NEW id, Fresh(t, id), NEW text, text # "none", BatchFits(t, id, text)
  PROVE  /\ BatchId(t, id) \in MemId
         /\ MemAfterEnsure(t, id)[task[t].session] = BatchId(t, id)
<1>1. task[t].session \in Session /\ id \in MemId /\ task[t].mem \in MemId \cup {NULL}
  BY EnsureFacts DEF TasksOK, TaskRecord
<1>2. CASE task[t].mem = NULL
  BY <1>1, <1>2 DEF BatchId, MemAfterEnsure, MemTypes
<1>3. CASE task[t].mem # NULL
  <2>1. BatchId(t, id) = task[t].mem /\ MemAfterEnsure(t, id) = mem
    BY <1>3 DEF BatchId, MemAfterEnsure
  <2>2. PICK k \in Session : mem[k] = task[t].mem
    BY <2>1 DEF BatchFits
  <2>3. Known(k, task[t].mem) /\ Known(task[t].session, task[t].mem)
    BY <2>2 DEF Known
  <2>4. k = task[t].session
    BY <1>1, <1>3, <2>3 DEF IdsApart
  <2>5. QED
    BY <1>1, <1>3, <2>1, <2>2, <2>4
<1>4. QED
  BY <1>2, <1>3

LEMMA StoreTables ==
  ASSUME QueueInv, TasksOK, MemTypes, IdsApart, TablesOK, NEW t \in Task, task[t].pc = "run",
         NEW id, Fresh(t, id), NEW text \in {"local", "agent", "none"},
         task[t].msg = NULL => text = "none", StoreAnswer(t, id, text)
  PROVE  TablesOK'
<1> DEFINE s == task[t].session
           ids == MemAfterEnsure(t, id)
           kept == Cascade(observations, mem[s], ids[s])
           summed == Cascade(summaries, mem[s], ids[s])
           answer == [mem |-> BatchId(t, id), hashMem |-> BatchId(t, id),
                      text |-> <<text, task[t].msg>>]
           summary == Summary(BatchId(t, id), s, "answer", task[t].msg)
<1>1. /\ kept \in Seq(Observation) /\ summed \in Seq(SummaryRow)
      /\ Reached(kept, ids) /\ ReachedFromOwn(summed, ids)
  BY EnsureReaches
<1>2. /\ mem' = ids
      /\ observations' \in {kept, Append(kept, answer)}
      /\ summaries' \in {summed, Append(summed, summary)}
      /\ text = "none" => observations' = kept /\ summaries' = summed
  BY DEF StoreAnswer, Inserted
<1>3. s \in Session
  BY EnsureFacts
<1>4. ASSUME text # "none"
      PROVE  /\ answer \in Observation /\ answer.mem = ids[s]
             /\ summary \in SummaryRow /\ summary.mem = ids[s] /\ summary.session = s
  <2>1. task[t].msg \in Id
    BY <1>4 DEF TasksOK, Sound, QueueInv, TypeOK
  <2>2. BatchId(t, id) \in MemId /\ ids[s] = BatchId(t, id)
    BY <1>4, BatchFacts DEF StoreAnswer
  <2>3. <<text, task[t].msg>> \in Texts
    BY <1>4, <2>1 DEF Texts
  <2>4. answer \in Observation /\ answer.mem = ids[s]
    BY <2>2, <2>3 DEF Observation
  <2>5. summary \in SummaryRow /\ summary.mem = ids[s] /\ summary.session = s
    BY <1>3, <2>1, <2>2 DEF SummaryRow, Summary
  <2>6. QED
    BY <2>4, <2>5
<1> HIDE DEF s, ids, kept, summed, answer, summary
<1>5. observations' \in Seq(Observation) /\ Reached(observations', ids)
  <2>1. ASSUME text # "none"
        PROVE  Append(kept, answer) \in Seq(Observation) /\ Reached(Append(kept, answer), ids)
    <3>1. \A i \in DOMAIN Append(kept, answer) :
            \/ i \in DOMAIN kept /\ Append(kept, answer)[i] = kept[i]
            \/ Append(kept, answer)[i] = answer
      BY <1>1, <1>4, <2>1, AppendFacts
    <3>2. QED
      BY <1>1, <1>3, <1>4, <2>1, <3>1, AppendProperties DEF Reached
  <2>2. QED
    BY <1>1, <1>2, <2>1
<1>6. summaries' \in Seq(SummaryRow) /\ ReachedFromOwn(summaries', ids)
  <2>1. ASSUME text # "none"
        PROVE  /\ Append(summed, summary) \in Seq(SummaryRow)
               /\ ReachedFromOwn(Append(summed, summary), ids)
    <3>1. \A i \in DOMAIN Append(summed, summary) :
            \/ i \in DOMAIN summed /\ Append(summed, summary)[i] = summed[i]
            \/ Append(summed, summary)[i] = summary
      BY <1>1, <1>4, <2>1, AppendFacts
    <3>2. QED
      BY <1>1, <1>4, <2>1, <3>1, AppendProperties DEF ReachedFromOwn
  <2>2. QED
    BY <1>1, <1>2, <2>1
<1>7. QED
  BY <1>2, <1>5, <1>6 DEF TablesOK, ObservationsReachable, Reached, ReachedFromOwn

\* The worker's own summaries go under the id the session has, or is given with them.
LEMMA RouteFacts ==
  ASSUME MemTypes, NEW s \in Session
  PROVE  /\ RouteMem(s) \in MemId
         /\ mem[s] # NULL => RouteMem(s) = mem[s]
         /\ mem[s] = NULL => RouteMem(s) = RouteId(s)
BY IdFacts DEF RouteMem, MemTypes

LEMMA RouteTables ==
  ASSUME TablesOK, MemTypes, IdsApart, NEW s \in Session, mem' = [mem EXCEPT ![s] = RouteMem(s)],
         observations' = observations,
         NEW from \in {"posted", "fallback"},
         summaries' \in {summaries, Append(summaries, Summary(RouteMem(s), s, from, NULL))}
  PROVE  TablesOK'
<1> DEFINE row == Summary(RouteMem(s), s, from, NULL)
<1>1. /\ mem'[s] = RouteMem(s) /\ \A k \in Session : k # s => mem'[k] = mem[k]
      /\ observations \in Seq(Observation) /\ summaries \in Seq(SummaryRow)
  BY DEF MemTypes, TablesOK
<1>2. row \in SummaryRow /\ row.mem = RouteMem(s) /\ row.session = s
  BY RouteFacts DEF SummaryRow, Summary
<1>3. Reached(observations, mem')
  <2>1. ASSUME NEW i \in DOMAIN observations PROVE \E k \in Session : mem'[k] = observations[i].mem
    <3>1. observations[i] \in Observation
      BY <1>1, LenProperties
    <3>2. observations[i].mem # NULL
      BY <3>1, MemoryAssumption DEF Observation
    <3>3. PICK k \in Session : mem[k] = observations[i].mem
      BY DEF TablesOK, ObservationsReachable
    <3>4. QED
      BY <1>1, <3>2, <3>3, RouteFacts
  <2>2. QED
    BY <2>1 DEF Reached
<1>4. ReachedFromOwn(summaries, mem')
  <2>1. ASSUME NEW i \in DOMAIN summaries PROVE mem'[summaries[i].session] = summaries[i].mem
    <3>1. summaries[i] \in SummaryRow /\ mem[summaries[i].session] = summaries[i].mem
      BY <1>1, LenProperties DEF TablesOK, ObservationsReachable
    <3>2. summaries[i].mem # NULL /\ summaries[i].session \in Session
      BY <3>1, MemoryAssumption DEF SummaryRow
    <3>3. QED
      BY <1>1, <3>1, <3>2, RouteFacts
  <2>2. QED
    BY <2>1 DEF ReachedFromOwn
<1> HIDE DEF row
<1>5. Append(summaries, row) \in Seq(SummaryRow) /\ ReachedFromOwn(Append(summaries, row), mem')
  <2>1. \A i \in DOMAIN Append(summaries, row) :
          \/ i \in DOMAIN summaries /\ Append(summaries, row)[i] = summaries[i]
          \/ Append(summaries, row)[i] = row
    BY <1>1, <1>2, AppendFacts
  <2>2. QED
    BY <1>1, <1>2, <1>4, <2>1, AppendProperties DEF ReachedFromOwn
<1>6. summaries' \in {summaries, Append(summaries, row)}
  BY DEF row
<1>7. summaries' \in Seq(SummaryRow) /\ ReachedFromOwn(summaries', mem')
  BY <1>1, <1>4, <1>5, <1>6
<1>8. observations' \in Seq(Observation) /\ Reached(observations', mem')
  BY <1>1, <1>3
<1>9. QED
  BY <1>7, <1>8 DEF TablesOK, ObservationsReachable, Reached, ReachedFromOwn

-----------------------------------------------------------------------------
(* Each step keeps memory ids and tables in order.                         *)

LEMMA NotRunning ==
  ASSUME NEW t \in Task
  PROVE  Idle.pc # "run" /\ SessionDone(t).pc # "run" /\ Settled(t).pc # "run" /\ Aborted(t).pc # "run"
<1>1. Idle.pc # "run"
  BY DEF Idle
<1>2. \A todo, left : [Idle EXCEPT !.pc = "next", !.todo = todo, !.left = left].pc # "run"
  BY DEF Idle
<1>3. QED
  BY <1>1, <1>2 DEF SessionDone, Settled, Aborted

\* A handler that leaves the provider, or enters it with the id it has just read.
LEMMA ReadsStep ==
  ASSUME TasksOK, NEW t \in Task, NEW r, task' = [task EXCEPT ![t] = r],
         r.pc = "run" => r.mem = mem[r.session]
  PROVE  ReadsOnly
BY DEF ReadsOnly, TasksOK

LEMMA DeadReadNothing == task' = [t \in Task |-> Idle] => ReadsOnly
BY NotRunning DEF ReadsOnly

MemoryInv == MemTypes /\ IdsApart /\ TablesOK

LEMMA MemoryKept ==
  ASSUME MemoryInv, ReadsOnly, mem' = mem, issued' = issued,
         observations' = observations, summaries' = summaries
  PROVE  MemoryInv'
<1>1. MemTypes'
  BY DEF MemoryInv, MemTypes
<1>2. QED
  BY <1>1, IdsKept, TablesKept DEF MemoryInv

\* What the provider has told is written, whole or in part.
LEMMA AnswerMemory ==
  ASSUME QueueInv, TasksOK, MemoryInv, ReadsOnly, NEW t \in Task, task[t].pc = "run",
         NEW a \in Answers(t), Ensure(t, a[1]) \/ StoreAnswer(t, a[1], a[2])
  PROVE  MemoryInv'
<1>1. /\ Fresh(t, a[1]) /\ a[2] \in {"local", "agent", "none"}
      /\ task[t].msg = NULL => a[2] = "none"
  BY AnswerFacts
<1>2. mem' = MemAfterEnsure(t, a[1]) /\ issued' = issued \cup ({a[1]} \cap AgentId)
  BY DEF Ensure, StoreAnswer
<1>3. MemTypes' /\ IdsApart'
  BY <1>1, <1>2, EnsureIds DEF MemoryInv
<1>4. TablesOK'
  BY <1>1, EnsureTables, StoreTables DEF MemoryInv
<1>5. QED
  BY <1>3, <1>4 DEF MemoryInv

\* A summary that the worker makes or is posted, whole or cut short.
LEMMA RouteMemory ==
  ASSUME TasksOK, MemoryInv, ReadsOnly, NEW s \in Session, mem' = [mem EXCEPT ![s] = RouteMem(s)],
         observations' = observations, issued' = issued,
         NEW from \in {"posted", "fallback"},
         summaries' \in {summaries, Append(summaries, Summary(RouteMem(s), s, from, NULL))}
  PROVE  MemoryInv'
<1>1. MemTypes'
  BY RouteFacts DEF MemoryInv, MemTypes
<1>2. TablesOK'
  BY RouteTables DEF MemoryInv
<1>3. /\ RouteId(s) \in MemId /\ \A k \in Session : k # s => mem'[k] = mem[k]
      /\ mem'[s] \in {mem[s], RouteId(s)}
  BY RouteFacts, IdFacts DEF MemoryInv, MemTypes
<1>4. IdsApart'
  BY <1>3, IdsStep DEF MemoryInv, MemTypes
<1>5. QED
  BY <1>1, <1>2, <1>4 DEF MemoryInv

LEMMA RequestMemory ==
  ASSUME TasksOK, MemoryInv, QueueInv, Request
  PROVE  MemoryInv'
<1> USE DEF memoryVars, tables
<1>1. ASSUME NEW t \in Hook, NEW s \in Session, Submit(t, s) PROVE MemoryInv'
  <2> DEFINE r == [Idle EXCEPT !.pc = "claim", !.session = s, !.msg = nextId]
  <2>1. t \in Task /\ r.pc # "run" /\ task' = [task EXCEPT ![t] = r]
    BY <1>1 DEF Task, Submit, Idle
  <2>2. ReadsOnly
    BY <2>1, ReadsStep
  <2>3. QED
    BY <1>1, <2>2, MemoryKept DEF Submit
<1>2. ASSUME NEW t \in Hook, NEW s \in Session, StartInit(t, s) PROVE MemoryInv'
  <2> DEFINE r == [Idle EXCEPT !.pc = "run", !.session = s, !.mem = mem[s], !.since = now]
  <2>1. t \in Task /\ r.mem = mem[r.session] /\ task' = [task EXCEPT ![t] = r]
    BY <1>2 DEF Task, StartInit, Idle
  <2>2. ReadsOnly
    BY <2>1, ReadsStep
  <2>3. QED
    BY <1>2, <2>2, MemoryKept DEF StartInit
<1>3. ASSUME NEW t \in Drain, StartDrain(t) PROVE MemoryInv'
  <2> DEFINE r == [Idle EXCEPT !.pc = "next", !.todo = SessionsWithWork, !.left = MaxMessages]
  <2>1. t \in Task /\ r.pc # "run" /\ task' = [task EXCEPT ![t] = r]
    BY <1>3 DEF Task, StartDrain, Idle
  <2>2. ReadsOnly
    BY <2>1, ReadsStep
  <2>3. QED
    BY <1>3, <2>2, MemoryKept DEF StartDrain
<1>4. ASSUME NEW s \in Session, PostSummary(s) PROVE MemoryInv'
  <2>1. ReadsOnly
    BY <1>4 DEF PostSummary, ReadsOnly
  <2>2. QED
    BY <1>4, <2>1, RouteMemory DEF PostSummary
<1>5. ASSUME NEW s \in Session, Complete(s) PROVE MemoryInv'
  <2>1. ReadsOnly
    BY <1>5 DEF Complete, ReadsOnly
  <2>2. RouteMem(s) = mem[s] /\ mem' = [mem EXCEPT ![s] = RouteMem(s)]
    BY <1>5 DEF Complete, NeedsFallback, RouteMem, MemoryInv, MemTypes
  <2>3. QED
    BY <1>5, <2>1, <2>2, RouteMemory DEF Complete
<1>6. CASE Clear
  BY <1>6, MemoryKept DEF Clear, ReadsOnly
<1>7. QED
  BY <1>1, <1>2, <1>3, <1>4, <1>5, <1>6 DEF Request

LEMMA WorkMemory ==
  ASSUME TasksOK, MemoryInv, QueueInv, NEW t \in Task, Work(t)
  PROVE  MemoryInv'
<1> USE DEF memoryVars, tables
<1>0. task[t] \in TaskRecord /\ Sound(t, task[t], handed)
  BY DEF TasksOK
<1>1. CASE ClaimOwn(t)
  <2>1. task[t].session \in Session /\ task[t].msg \in Id
    BY <1>0, <1>1 DEF ClaimOwn, Sound
  <2> DEFINE r == Running(t, task[t].session, task[t].msg)
  <2>2. ReadsOnly
    <3>1. r.mem = mem[r.session]
      BY <2>1, RunningFacts DEF MemoryInv
    <3>2. task' = [task EXCEPT ![t] = r]
      BY <1>1 DEF ClaimOwn
    <3>3. QED
      BY <3>1, <3>2, ReadsStep
  <2>3. QED
    BY <1>1, <2>2, MemoryKept DEF ClaimOwn
<1>2. CASE DrainClaim(t)
  <2>1. CurrentSession(t) \in Session
    BY <1>0, <1>2, CurrentFacts DEF DrainClaim, Sound, TaskRecord
  <2>2. ReadsOnly
    <3>1. PICK m \in Id : task' = [task EXCEPT ![t] = Running(t, CurrentSession(t), m)]
      BY <1>2 DEF DrainClaim
    <3> DEFINE r == Running(t, CurrentSession(t), m)
    <3>2. r.mem = mem[r.session]
      BY <2>1, RunningFacts DEF MemoryInv
    <3>3. QED
      BY <3>1, <3>2, ReadsStep
  <2>3. QED
    BY <1>2, <2>2, MemoryKept DEF DrainClaim
<1>3. CASE ClaimOwnTooLate(t) \/ DrainedSession(t) \/ ProviderFailed(t)
  <2>1. ReadsOnly
    BY <1>3, NotRunning, ReadsStep DEF ClaimOwnTooLate, DrainedSession, ProviderFailed
  <2>2. QED
    BY <1>3, <2>1, MemoryKept DEF ClaimOwnTooLate, DrainedSession, ProviderFailed
<1>4. CASE Finish(t)
  <2>1. PICK a \in Answers(t) : AnswerStored(t, a) \/ AnswerRefused(t, a)
    BY <1>4 DEF Finish
  <2>2. ReadsOnly
    BY <2>1, NotRunning, ReadsStep DEF AnswerStored, AnswerRefused
  <2>3. QED
    BY <1>4, <2>1, <2>2, AnswerMemory DEF Finish, AnswerStored, AnswerRefused
<1>5. QED
  BY <1>1, <1>2, <1>3, <1>4 DEF Work

LEMMA FaultyMemory ==
  ASSUME TasksOK, MemoryInv, QueueInv, Faulty
  PROVE  MemoryInv'
<1> USE DEF memoryVars, tables
<1>1. ReadsOnly
  <2>1. CASE \E t \in Task : Dropped(t)
    BY <2>1, NotRunning, ReadsStep DEF Dropped
  <2>2. CASE ~ \E t \in Task : Dropped(t)
    BY <2>2, DeadReadNothing DEF Faulty, Crash, CrashInSummary, CrashInClaim,
       CrashInAnswer, CrashInMarkFailed, Die
  <2>3. QED
    BY <2>1, <2>2
<1>2. CASE Crash \/ \E t \in Task : CrashInClaim(t) \/ CrashInMarkFailed(t) \/ Dropped(t)
  BY <1>1, <1>2, MemoryKept DEF Crash, CrashInClaim, CrashInMarkFailed, Dropped
<1>3. ASSUME NEW t \in Task, CrashInAnswer(t) PROVE MemoryInv'
  BY <1>1, <1>3, AnswerMemory DEF CrashInAnswer
<1>4. ASSUME NEW s \in Session, CrashInSummary(s) PROVE MemoryInv'
  <2>1. mem' = [mem EXCEPT ![s] = RouteMem(s)]
    BY <1>4 DEF CrashInSummary, RouteMem
  <2>2. QED
    BY <1>1, <1>4, <2>1, RouteMemory DEF CrashInSummary
<1>5. QED
  BY <1>2, <1>3, <1>4 DEF Faulty

LEMMA StepMemory == ObserverInv /\ [ObserverNext]_observerVars => MemoryInv'
<1> SUFFICES ASSUME ObserverInv, [ObserverNext]_observerVars PROVE MemoryInv'
  OBVIOUS
<1>1. TasksOK /\ MemoryInv /\ QueueInv
  BY DEF ObserverInv, MemoryInv
<1>2. CASE Pass \/ UNCHANGED observerVars
  BY <1>1, <1>2, MemoryKept DEF Pass, observerVars, memoryVars, tables, ReadsOnly
<1>3. QED
  BY <1>1, <1>2, RequestMemory, WorkMemory, FaultyMemory DEF ObserverNext

-----------------------------------------------------------------------------
(* Each step keeps the histories in order.                                 *)

\* Nothing is reported that was not before.
ReportsNothing == \A m \in Id : events'[m]["processed"] > 0 => events[m]["processed"] > 0

LEMMA FailureReportsNothing ==
  ASSUME QueueInv, NEW m \in Id, MarkFailed(m) \/ FailCutShort(m)
  PROVE  ReportsNothing
<1>1. CASE PermanentlyFailed(m)
  BY <1>1 DEF ReportsNothing, PermanentlyFailed, RecordQueueEvent, QueueInv, TypeOK, Outcome
<1>2. CASE Retried(m) \/ UNCHANGED queueVars \/ FailCutShort(m)
  BY <1>2 DEF ReportsNothing, Retried, FailCutShort, queueVars
<1>3. QED
  BY <1>1, <1>2 DEF MarkFailed

\* A confirmation reports its own message alone.
LEMMA ConfirmReports ==
  ASSUME QueueInv, NEW m \in Id, ConfirmProcessed(m) \/ ConfirmCutShort(m)
  PROVE  \A k \in Id : k # m /\ events'[k]["processed"] > 0 => events[k]["processed"] > 0
BY DEF ConfirmProcessed, ConfirmCutShort, RecordQueueEvent, QueueInv, TypeOK

LEMMA HistoryKept ==
  ASSUME HistoryOK, type' \in [Id -> MessageType \cup {NULL}], stored' = stored,
         faults' \in 0..MaxFaults, ReportsNothing
  PROVE  HistoryOK'
BY DEF HistoryOK, ReportedAfterStored, ReportsNothing

\* A committed batch counts for its message, reported or not.
LEMMA AnswerHistory ==
  ASSUME QueueInv, TasksOK, HistoryOK, NEW t \in Task, task[t].pc = "run",
         NEW id, NEW text, StoreAnswer(t, id, text), type' = type, faults' \in 0..MaxFaults,
         \/ events' = events
         \/ task[t].msg # NULL /\ (ConfirmProcessed(task[t].msg) \/ ConfirmCutShort(task[t].msg))
  PROVE  HistoryOK'
<1>1. task[t].msg \in Id \cup {NULL} /\ NULL \notin Id
  BY QueueAssumption DEF TasksOK, TaskRecord, Id
<1>2. /\ stored' \in [Id -> 0..2]
      /\ \A m \in Id : stored[m] > 0 \/ m = task[t].msg => stored'[m] > 0
  BY <1>1 DEF StoreAnswer, HistoryOK
<1>3. \A m \in Id : m # task[t].msg /\ events'[m]["processed"] > 0 => events[m]["processed"] > 0
  BY <1>1, ConfirmReports
<1>4. ReportedAfterStored'
  BY <1>2, <1>3 DEF HistoryOK, ReportedAfterStored
<1>5. QED
  BY <1>2, <1>4 DEF HistoryOK

LEMMA RequestHistory ==
  ASSUME HistoryOK, Request
  PROVE  HistoryOK'
<1> USE DEF memoryVars, tables
<1>1. ASSUME NEW t \in Hook, NEW s \in Session, Submit(t, s) PROVE HistoryOK'
  <2>1. ReportsNothing
    BY <1>1 DEF Submit, Enqueue, ReportsNothing
  <2>2. type' \in [Id -> MessageType \cup {NULL}]
    BY <1>1 DEF Submit, HistoryOK
  <2>3. QED
    BY <1>1, <2>1, <2>2, HistoryKept DEF Submit, HistoryOK
<1>2. ASSUME UNCHANGED <<events, type, stored, faults>> PROVE HistoryOK'
  BY <1>2, HistoryKept DEF HistoryOK, ReportsNothing
<1>3. CASE \E t \in Hook, s \in Session : StartInit(t, s)
  BY <1>2, <1>3 DEF StartInit, queueVars
<1>4. CASE \E t \in Drain : StartDrain(t)
  BY <1>2, <1>4 DEF StartDrain, queueVars
<1>5. CASE \E s \in Session : PostSummary(s) \/ Complete(s)
  BY <1>2, <1>5 DEF PostSummary, Complete, queueVars
<1>6. CASE Clear
  BY <1>2, <1>6 DEF Clear, FailedClear, AllClear, ClearRows
<1>7. QED
  BY <1>1, <1>3, <1>4, <1>5, <1>6 DEF Request

LEMMA WorkHistory ==
  ASSUME QueueInv, TasksOK, HistoryOK, NEW t \in Task, Work(t)
  PROVE  HistoryOK'
<1> USE DEF memoryVars, tables
<1>1. ASSUME UNCHANGED <<type, stored, faults>>, ReportsNothing PROVE HistoryOK'
  BY <1>1, HistoryKept DEF HistoryOK
<1>2. CASE ClaimOwn(t) \/ ClaimOwnTooLate(t) \/ DrainClaim(t) \/ DrainedSession(t)
  <2>1. events' = events
    BY <1>2 DEF ClaimOwn, ClaimOwnTooLate, DrainClaim, DrainedSession, ClaimMessageById,
       ClaimNextMessage, queueVars
  <2>2. UNCHANGED <<type, stored, faults>>
    BY <1>2 DEF ClaimOwn, ClaimOwnTooLate, DrainClaim, DrainedSession
  <2>3. QED
    BY <1>1, <2>1, <2>2 DEF ReportsNothing
<1>3. CASE Finish(t)
  <2>1. PICK a \in Answers(t) : AnswerStored(t, a) \/ AnswerRefused(t, a)
    BY <1>3 DEF Finish
  <2>2. CASE AnswerStored(t, a)
    BY <1>3, <2>2, AnswerHistory DEF Finish, AnswerStored, HistoryOK, queueVars
  <2>3. CASE AnswerRefused(t, a)
    BY <1>1, <2>3 DEF AnswerRefused, ReportsNothing, queueVars
  <2>4. QED
    BY <2>1, <2>2, <2>3
<1>4. CASE ProviderFailed(t)
  <2>1. task[t].pc = "run" /\ UNCHANGED <<type, stored, faults>>
    BY <1>4 DEF ProviderFailed
  <2>2. CASE task[t].msg = NULL
    BY <1>1, <1>4, <2>1, <2>2 DEF ProviderFailed, ReportsNothing, queueVars
  <2>3. CASE task[t].msg # NULL
    <3>1. task[t].msg \in Id /\ MarkFailed(task[t].msg)
      BY <1>4, <2>1, <2>3, AtWork DEF ProviderFailed, QueueInv, TypeOK
    <3>2. QED
      BY <1>1, <2>1, <3>1, FailureReportsNothing
  <2>4. QED
    BY <2>2, <2>3
<1>5. QED
  BY <1>2, <1>3, <1>4 DEF Work

LEMMA FaultyHistory ==
  ASSUME QueueInv, TasksOK, HistoryOK, Faulty
  PROVE  HistoryOK'
<1> USE DEF memoryVars, tables
<1>1. faults' \in 0..MaxFaults
  <2>1. Fault
    BY DEF Faulty, Crash, CrashInSummary, CrashInClaim, CrashInAnswer, CrashInMarkFailed,
       Dropped, Die
  <2>2. QED
    BY <2>1, ObserverAssumption DEF Fault, HistoryOK
<1>2. ASSUME UNCHANGED <<type, stored>>, ReportsNothing PROVE HistoryOK'
  BY <1>1, <1>2, HistoryKept DEF HistoryOK
<1>3. CASE Crash \/ (\E s \in Session : CrashInSummary(s)) \/ \E t \in Task : Dropped(t)
  BY <1>2, <1>3 DEF Crash, CrashInSummary, Dropped, ReportsNothing, queueVars
<1>4. CASE \E t \in Task : CrashInClaim(t)
  BY <1>2, <1>4 DEF CrashInClaim, ClaimNextCutShort, ReportsNothing
<1>5. ASSUME NEW t \in Task, CrashInMarkFailed(t) PROVE HistoryOK'
  <2>1. task[t].msg \in Id /\ FailCutShort(task[t].msg)
    BY <1>5, AtWork DEF CrashInMarkFailed, QueueInv, TypeOK
  <2>2. QED
    BY <1>2, <1>5, <2>1, FailureReportsNothing DEF CrashInMarkFailed
<1>6. ASSUME NEW t \in Task, CrashInAnswer(t) PROVE HistoryOK'
  <2>1. PICK a \in Answers(t) :
          \/ Ensure(t, a[1]) /\ UNCHANGED <<queueVars, stored>>
          \/ StoreAnswer(t, a[1], a[2]) /\ UNCHANGED queueVars
          \/ task[t].msg # NULL /\ StoreAnswer(t, a[1], a[2]) /\ ConfirmCutShort(task[t].msg)
    BY <1>6 DEF CrashInAnswer
  <2>2. task[t].pc = "run" /\ type' = type
    BY <1>6 DEF CrashInAnswer
  <2>3. CASE Ensure(t, a[1]) /\ UNCHANGED <<queueVars, stored>>
    BY <1>2, <2>2, <2>3 DEF ReportsNothing, queueVars
  <2>4. CASE ~ (Ensure(t, a[1]) /\ UNCHANGED <<queueVars, stored>>)
    BY <1>1, <2>1, <2>2, <2>4, AnswerHistory DEF queueVars
  <2>5. QED
    BY <2>3, <2>4
<1>7. QED
  BY <1>3, <1>4, <1>5, <1>6 DEF Faulty

LEMMA StepHistory == ObserverInv /\ [ObserverNext]_observerVars => HistoryOK'
<1> SUFFICES ASSUME ObserverInv, [ObserverNext]_observerVars PROVE HistoryOK'
  OBVIOUS
<1>1. QueueInv /\ TasksOK /\ HistoryOK
  BY DEF ObserverInv
<1>2. CASE Pass \/ UNCHANGED observerVars
  <2>1. UNCHANGED <<events, type, stored, faults>>
    BY <1>2 DEF Pass, Tick, observerVars, memoryVars, tables
  <2>2. QED
    BY <1>1, <2>1, HistoryKept DEF HistoryOK, ReportsNothing
<1>3. QED
  BY <1>1, <1>2, RequestHistory, WorkHistory, FaultyHistory DEF ObserverNext

-----------------------------------------------------------------------------
(* The theorems.                                                           *)

LEMMA ObserverInitInv == ObserverInit => ObserverInv
<1> SUFFICES ASSUME ObserverInit PROVE ObserverInv
  OBVIOUS
<1> USE DEF ObserverInit
<1>1. QueueInv
  BY QueueInitInv
<1>2. TasksOK
  BY IdleFacts DEF TasksOK
<1>3. MemTypes
  BY DEF MemTypes
<1>4. IdsApart
  BY NotRunning, MemoryAssumption DEF IdsApart, Known
<1>5. TablesOK
  BY EmptySeq DEF TablesOK, ObservationsReachable
<1>6. HistoryOK
  BY ObserverAssumption DEF HistoryOK, ReportedAfterStored, QueueInit, Outcome
<1>7. QED
  BY <1>1, <1>2, <1>3, <1>4, <1>5, <1>6 DEF ObserverInv

LEMMA ObserverStepInv == ObserverInv /\ [ObserverNext]_observerVars => ObserverInv'
<1> SUFFICES ASSUME ObserverInv, [ObserverNext]_observerVars PROVE ObserverInv'
  OBVIOUS
<1>1. QueueInv'
  BY StepUsesQueue, NextInv DEF ObserverInv
<1>2. QED
  BY <1>1, StepTasks, StepMemory, StepHistory DEF ObserverInv, MemoryInv

\* The inductive invariant of the observer holds in every state it can reach,
\* wherever the process dies and whoever hangs up (observer.rs:145-346).
THEOREM ObserverInvariant == ObserverSpec => []ObserverInv
<1>1. ObserverInit => ObserverInv
  BY ObserverInitInv
<1>2. ObserverInv /\ [ObserverNext]_observerVars => ObserverInv'
  BY ObserverStepInv
<1>3. QED
  BY <1>1, <1>2, PTL DEF ObserverSpec

\* The observer is one of the callers PendingQueue allows, its faults included
\* (process_claimed_message, observer.rs:231-346): whatever holds of the queue
\* under any callers holds under the observer.
THEOREM QueueUsed == ObserverSpec => UsesQueue
<1>1. ObserverInit => QueueInit
  BY DEF ObserverInit
<1>2. ObserverInv /\ [ObserverNext]_observerVars => [Next]_queueVars
  BY StepUsesQueue
<1>3. QED
  BY <1>1, <1>2, ObserverInvariant, PTL DEF ObserverSpec, UsesQueue, Spec

\* No message that the worker accepted is lost: what PendingQueueProofs shows of
\* any callers, carried over to the worker (sessions_observations,
\* routes/mod.rs:455-490).
THEOREM WorkerLosesNothing == ObserverSpec => []NothingLost
BY QueueUsed, MessagesNotLost, PTL DEF UsesQueue

\* The worker keeps the ledger of the queue's header (pending_messages.rs:1-21).
THEOREM WorkerKeepsLedger == ObserverSpec => KeepsLedger
BY QueueUsed, LedgerKept, PTL DEF UsesQueue

\* Every variable of the observer stays in its domain.
THEOREM ObserverTypes == ObserverSpec => []ObserverTypeOK
<1>1. ObserverInv => ObserverTypeOK
  BY DEF ObserverInv, ObserverTypeOK, TasksOK, TaskRecord, MemTypes, TablesOK, Observation,
     SummaryRow, HistoryOK
<1>2. QED
  BY <1>1, ObserverInvariant, PTL

\* Whatever is stored can be reached from its session, however often the memory id
\* was replaced under a running provider (ensure_memory_session_id,
\* observer.rs:877-898).
THEOREM StoredReachable == ObserverSpec => []ObservationsReachable
<1>1. ObserverInv => ObservationsReachable
  BY DEF ObserverInv, TablesOK
<1>2. QED
  BY <1>1, ObserverInvariant, PTL

\* A message is reported as processed only after an answer to it was committed
\* (process_agent_response, response_processor.rs:187-201).
THEOREM StoredBeforeReported == ObserverSpec => []ReportedAfterStored
<1>1. ObserverInv => ReportedAfterStored
  BY DEF ObserverInv, HistoryOK
<1>2. QED
  BY <1>1, ObserverInvariant, PTL
=============================================================================
