------------------------------ MODULE Observer ------------------------------
(***************************************************************************)
(* The observer of crates/claude-mem-worker/src/agents/observer.rs at work *)
(* on the pending-message queue: the request handlers that enqueue an      *)
(* event and process it at once, the handler of POST                       *)
(* /api/pending-queue/process that drains the backlog, the handler of      *)
(* session init, those that summarize and complete a session, and what all *)
(* of them write: the memory id of a session and the observations and      *)
(* summaries stored under it.                                              *)
(*                                                                         *)
(* The handlers share one connection behind a mutex.  A block that holds   *)
(* the mutex has no await, so it is one action here; only the death of the *)
(* process can cut it short, and that is an action of its own for every    *)
(* pair of statements it can fall between.  The mutex is free while the    *)
(* provider (a CLI or an HTTP API) runs: a handler goes on afterwards with *)
(* the session row and the message row it read before.                     *)
(*                                                                         *)
(* A session whose row was not inserted yet is one without a memory id.    *)
(***************************************************************************)
EXTENDS PendingQueue, Sequences, FiniteSets

CONSTANTS Hook,             \* handlers of the hooks' requests
          Drain,            \* handlers of POST /api/pending-queue/process
          Provider,         \* CLAUDE_MEM_PROVIDER: "local", or "agent" for any CLI or HTTP API
          AgentId,          \* session ids an agent hands out, each once
          ProviderTimeout,  \* the longest a provider, with its fallback, runs
          MaxMessages,      \* ObserverConfig.max_messages
          MessageType,      \* the types of message the hooks enqueue
          MaxPosted,        \* bound: summaries that clients write themselves
          LocalFallback,    \* CLAUDE_MEM_PROVIDER_FAILURE_LOCAL_FALLBACK # "false"
          MaxFaults         \* bound: process deaths and dropped requests

ASSUME ObserverAssumption ==
  /\ Session \subseteq Nat
  /\ Provider \in {"local", "agent"}
  /\ ProviderTimeout \in Nat
  /\ MaxMessages \in Nat \ {0}
  /\ LocalFallback \in BOOLEAN
  /\ MessageType \subseteq {"observation", "summarize"}
  /\ MaxPosted \in Nat /\ MaxFaults \in Nat
  /\ Hook \cap Drain = {}

VARIABLES task,          \* what each handler knows
          mem,           \* sdk_sessions.memory_session_id
          observations,  \* the observations table, in insertion order
          summaries,     \* session_summaries, with the session and the message each is about
          type,          \* pending_messages.message_type
          stored,        \* history: batches committed for each message (2 = more than one)
          issued,        \* history: the agent ids handed out
          faults         \* history: process deaths and dropped requests so far

observerVars == <<rows, nextId, events, now, handed, cleared,
                  task, mem, observations, summaries, type, stored, issued, faults>>

Task == Hook \cup Drain

\* The id the local provider observes, and the one store_generated_summary makes up.
LocalId(s) == <<"local-memory", s>>
RouteId(s) == <<"rust-local-memory", s>>
MemId == AgentId \cup {LocalId(s) : s \in Session} \cup {RouteId(s) : s \in Session}

\* What names a memory is no NULL, and no agent makes up the ids of the worker.
ASSUME MemoryAssumption ==
  /\ NULL \notin MemId
  /\ \A s \in Session : LocalId(s) \notin AgentId /\ RouteId(s) \notin AgentId

\* A handler doing nothing; what it knows of a session or a row is a snapshot.
Idle == [pc |-> "idle",    \* claim: enqueued, not yet claimed; run: in the provider; next: between messages
         session |-> NULL, msg |-> NULL, mem |-> NULL, retry |-> 0,
         since |-> 0,      \* when the provider was started
         todo |-> {},      \* the sessions process_all_pending has left
         left |-> 0]       \* how many messages of this session it may still take

ObserverInit ==
  /\ QueueInit
  /\ task = [t \in Task |-> Idle]
  /\ mem = [s \in Session |-> NULL]
  /\ observations = <<>> /\ summaries = <<>>
  /\ type = [m \in Id |-> NULL]
  /\ stored = [m \in Id |-> 0]
  /\ issued = {}
  /\ faults = 0

tables == <<mem, observations, summaries, stored, issued>>
memoryVars == <<tables, type>>

-----------------------------------------------------------------------------
(* Handing messages to the provider.                                       *)

\* sessions_observations and sessions_summarize: the session row is there
\* afterwards, with the memory id it had.
Submit(t, s) ==
  /\ task[t] = Idle
  /\ Enqueue(s)
  /\ \E kind \in MessageType : type' = [type EXCEPT ![nextId] = kind]
  /\ task' = [task EXCEPT ![t] = [Idle EXCEPT !.pc = "claim", !.session = s, !.msg = nextId]]
  /\ UNCHANGED <<tables, faults>>

\* The provider is started on message m with the rows read under the lock.
Running(t, s, m) ==
  [task[t] EXCEPT !.pc = "run", !.session = s, !.msg = m, !.mem = mem[s],
                  !.retry = rows[m].retry_count, !.since = now]

\* process_pending_message: the handler claims the row it enqueued.
ClaimOwn(t) ==
  /\ task[t].pc = "claim"
  /\ ClaimMessageById(task[t].msg)
  /\ task' = [task EXCEPT ![t] = Running(t, task[t].session, task[t].msg)]
  /\ UNCHANGED <<memoryVars, faults>>

\* A drain was faster, or a clearing route.
ClaimOwnTooLate(t) ==
  /\ task[t].pc = "claim"
  /\ rows[task[t].msg].status # "pending"
  /\ task' = [task EXCEPT ![t] = Idle]
  /\ UNCHANGED <<queueVars, memoryVars, faults>>

\* pending_session_ids
SessionsWithWork ==
  {s \in Session : \E m \in Id : rows[m].session = s /\ rows[m].status \in {"pending", "processing"}}

StartDrain(t) ==
  /\ task[t] = Idle
  /\ SessionsWithWork # {}
  /\ task' = [task EXCEPT ![t] = [Idle EXCEPT !.pc = "next", !.todo = SessionsWithWork,
                                              !.left = MaxMessages]]
  /\ UNCHANGED <<queueVars, memoryVars, faults>>

\* ORDER BY session_db_id ASC
CurrentSession(t) == CHOOSE s \in task[t].todo : \A k \in task[t].todo : s <= k

\* The drain turns to its next session.
SessionDone(t) ==
  LET rest == task[t].todo \ {CurrentSession(t)}
  IN  IF rest = {} THEN Idle
      ELSE [Idle EXCEPT !.pc = "next", !.todo = rest, !.left = MaxMessages]

\* process_pending_for_session, one round of its loop
DrainClaim(t) ==
  /\ task[t].pc = "next" /\ task[t].left > 0
  /\ \E m \in Id :
       /\ ClaimNextMessage(CurrentSession(t), m)
       /\ task' = [task EXCEPT ![t] = Running(t, CurrentSession(t), m)]
  /\ UNCHANGED <<memoryVars, faults>>

DrainedSession(t) ==
  /\ task[t].pc = "next"
  /\ task[t].left = 0 \/ PendingOf(Healed(CurrentSession(t)), CurrentSession(t)) = {}
  /\ task' = [task EXCEPT ![t] = SessionDone(t)]
  /\ UNCHANGED <<queueVars, memoryVars, faults>>

\* sessions_init: process_session_init runs the provider on no message.
StartInit(t, s) ==
  /\ task[t] = Idle
  /\ task' = [task EXCEPT ![t] = [Idle EXCEPT !.pc = "run", !.session = s,
                                              !.mem = mem[s], !.since = now]]
  /\ UNCHANGED <<queueVars, memoryVars, faults>>

-----------------------------------------------------------------------------
(* What a handler writes when the provider is done.                        *)

\* Fault: the foreign key does not follow the memory id.
Cascade_None(table, old, new) == table

\* Fault: the foreign key is declared ON UPDATE SET NULL.
Cascade_SetNull(table, old, new) ==
  [i \in DOMAIN table |->
     IF table[i].mem = old /\ old # new THEN [table[i] EXCEPT !.mem = NULL] ELSE table[i]]

\* The ON UPDATE CASCADE of the foreign keys of observations and session_summaries;
\* content_hash is no part of the key and keeps the id it was computed with.
Cascade(table, old, new) ==
  [i \in DOMAIN table |-> IF table[i].mem = old THEN [table[i] EXCEPT !.mem = new] ELSE table[i]]

\* ensure_memory_session_id: the test is on the snapshot, not on the row.
MemAfterEnsure(t, observed) ==
  IF task[t].mem = NULL THEN [mem EXCEPT ![task[t].session] = observed] ELSE mem

Ensure(t, observed) ==
  LET s == task[t].session
      new == MemAfterEnsure(t, observed)
  IN  /\ mem' = new
      /\ issued' = issued \cup ({observed} \cap AgentId)
      /\ observations' = Cascade(observations, mem[s], new[s])
      /\ summaries' = Cascade(summaries, mem[s], new[s])

\* The id the batch is stored under, and whether the foreign key finds it.
BatchId(t, observed) == IF task[t].mem = NULL THEN observed ELSE task[t].mem

BatchFits(t, observed, text) ==
  text # "none" =>
    \E s \in Session : MemAfterEnsure(t, observed)[s] = BatchId(t, observed)

\* Fault: no duplicate is looked for.
Inserted_Blindly(table, id, text) ==
  Append(table, [mem |-> id, hashMem |-> id, text |-> text])

\* store_observation: a row with this memory id and content hash is kept as it is.
Inserted(table, id, text) ==
  IF \E i \in DOMAIN table : /\ table[i].mem = id
                             /\ table[i].hashMem = id /\ table[i].text = text
  THEN table
  ELSE Append(table, [mem |-> id, hashMem |-> id, text |-> text])

\* A row of session_summaries: an answer to a message, one that a client posted, or
\* a fallback made from what is known of the session.
Summary(id, s, from, m) == [mem |-> id, session |-> s, from |-> from, msg |-> m]

\* ensure_memory_session_id and the transaction of store_batch.  An answer that
\* is no XML ("none") makes an empty batch, which no foreign key refuses; there
\* is no duplicate check for summaries.
StoreAnswer(t, observed, text) ==
  LET s == task[t].session
      new == MemAfterEnsure(t, observed)
      kept == Cascade(observations, mem[s], new[s])
      summed == Cascade(summaries, mem[s], new[s])
  IN  /\ BatchFits(t, observed, text)
      /\ mem' = new
      /\ issued' = issued \cup ({observed} \cap AgentId)
      /\ observations' = IF text = "none" \/ type[task[t].msg] = "summarize" THEN kept
                         ELSE Inserted(kept, BatchId(t, observed), <<text, task[t].msg>>)
      /\ summaries' = IF text # "none" /\ type[task[t].msg] = "summarize"
                      THEN Append(summed, Summary(BatchId(t, observed), s, "answer", task[t].msg))
                      ELSE summed
      /\ stored' = IF task[t].msg \in Id
                   THEN [stored EXCEPT ![task[t].msg] = IF @ = 0 THEN 1 ELSE 2]
                   ELSE stored

\* Where a handler goes on after a message, or after an error.
Settled(t) ==
  IF t \in Drain THEN [Idle EXCEPT !.pc = "next", !.todo = task[t].todo, !.left = task[t].left - 1]
  ELSE Idle
Aborted(t) == IF t \in Drain THEN SessionDone(t) ELSE Idle

\* Fault: the last try is missed.
FallsBack_OffByOne(t) == LocalFallback /\ task[t].msg # NULL /\ task[t].retry >= MaxRetries

\* LocalFallback steps in on the last try, as counted by the row read at the claim.
FallsBack(t) == LocalFallback /\ task[t].msg # NULL /\ task[t].retry + 1 >= MaxRetries

\* What the providers can answer: (memory id observed, kind of text).  An agent
\* either hands out a session id of its own or leaves it to a default made of
\* the content session id, for which LocalId stands.  Asked twice about one
\* message it is taken to answer alike.  What the prompt of a session init
\* yields is left out but for the memory id.
LocalAnswer(t) ==
  <<LocalId(task[t].session), IF task[t].msg = NULL THEN "none" ELSE "local">>
AgentAnswers(t) ==
  ({LocalId(task[t].session)} \cup (AgentId \ issued))
    \X (IF task[t].msg = NULL THEN {"none"} ELSE {"agent", "none"})

Answers(t) ==
  IF Provider = "local" THEN {LocalAnswer(t)}
  ELSE AgentAnswers(t) \cup (IF FallsBack(t) THEN {LocalAnswer(t)} ELSE {})

\* The answer is stored and the message confirmed.
AnswerStored(t, a) ==
  /\ StoreAnswer(t, a[1], a[2])
  /\ IF task[t].msg = NULL THEN UNCHANGED queueVars ELSE ConfirmProcessed(task[t].msg)
  /\ task' = [task EXCEPT ![t] = Settled(t)]
  /\ UNCHANGED <<type, faults>>

\* The memory id of the snapshot is gone: the foreign key refuses the batch, and
\* the handler gives up on an error without touching the message.
AnswerRefused(t, a) ==
  /\ ~ BatchFits(t, a[1], a[2])
  /\ Ensure(t, a[1])
  /\ task' = [task EXCEPT ![t] = Aborted(t)]
  /\ UNCHANGED <<queueVars, type, stored, faults>>

Finish(t) ==
  /\ task[t].pc = "run"
  /\ \E a \in Answers(t) : AnswerStored(t, a) \/ AnswerRefused(t, a)

\* The provider has failed, and so has the claude fallback where it is tried.
ProviderFailed(t) ==
  /\ task[t].pc = "run" /\ Provider = "agent"
  /\ ~ FallsBack(t)
  /\ IF task[t].msg = NULL THEN UNCHANGED queueVars ELSE MarkFailed(task[t].msg)
  /\ task' = [task EXCEPT ![t] = Settled(t)]
  /\ UNCHANGED <<memoryVars, faults>>

\* store_generated_summary gives a session without a memory id one.
RouteMem(s) == IF mem[s] = NULL THEN RouteId(s) ELSE mem[s]

\* sessions_summarize with a finished summary, under one lock.
PostSummary(s) ==
  /\ Cardinality({i \in DOMAIN summaries : summaries[i].from = "posted"}) < MaxPosted
  /\ mem' = [mem EXCEPT ![s] = RouteMem(s)]
  /\ summaries' = Append(summaries, Summary(RouteMem(s), s, "posted", NULL))
  /\ UNCHANGED <<queueVars, task, observations, type, stored, issued, faults>>

\* Fault: the fallback looks for fallbacks alone.
NeedsFallback_OwnKind(s) ==
  mem[s] # NULL /\ \A i \in DOMAIN summaries : summaries[i] # Summary(mem[s], s, "fallback", NULL)

\* No summary is found under the memory id of the session.
NeedsFallback(s) == mem[s] # NULL /\ \A i \in DOMAIN summaries : summaries[i].mem # mem[s]

\* sessions_complete, under one lock; on any other session it stores nothing.
Complete(s) ==
  /\ NeedsFallback(s)
  /\ summaries' = Append(summaries, Summary(mem[s], s, "fallback", NULL))
  /\ UNCHANGED <<queueVars, task, mem, observations, type, stored, issued, faults>>

-----------------------------------------------------------------------------
(* Faults.                                                                 *)

Fault == faults < MaxFaults /\ faults' = faults + 1

\* The process dies: the handlers are gone, the database stays.
Die == Fault /\ task' = [t \in Task |-> Idle]

Crash ==
  /\ Die
  /\ UNCHANGED <<queueVars, memoryVars>>

CrashInClaim(t) ==
  /\ task[t].pc = "next" /\ task[t].left > 0
  /\ Die
  /\ ClaimNextCutShort(CurrentSession(t))
  /\ UNCHANGED memoryVars

\* Fault: the message is confirmed before its answer is stored.
CrashInAnswer_ConfirmFirst(t) ==
  /\ task[t].pc = "run" /\ task[t].msg # NULL
  /\ Die
  /\ ConfirmProcessed(task[t].msg)
  /\ UNCHANGED memoryVars

\* Fault: the DELETE runs before the event is recorded.
CrashInAnswer_DeleteFirst(t) ==
  /\ task[t].pc = "run" /\ task[t].msg # NULL
  /\ Die
  /\ \E a \in Answers(t) : StoreAnswer(t, a[1], a[2])
  /\ DeleteRow(task[t].msg)
  /\ UNCHANGED <<nextId, events, now, handed, cleared, type>>

CrashInAnswer(t) ==
  /\ task[t].pc = "run"
  /\ Die
  /\ UNCHANGED type
  /\ \E a \in Answers(t) :
       \/ Ensure(t, a[1]) /\ UNCHANGED <<queueVars, stored>>
       \/ StoreAnswer(t, a[1], a[2]) /\ UNCHANGED queueVars
       \/ task[t].msg # NULL /\ StoreAnswer(t, a[1], a[2]) /\ ConfirmCutShort(task[t].msg)

CrashInMarkFailed(t) ==
  /\ task[t].pc = "run" /\ Provider = "agent"
  /\ task[t].msg # NULL /\ ~ FallsBack(t)
  /\ Die
  /\ FailCutShort(task[t].msg)
  /\ UNCHANGED memoryVars

\* A death between the two statements of store_generated_summary.
CrashInSummary(s) ==
  /\ mem[s] = NULL
  /\ Die
  /\ mem' = [mem EXCEPT ![s] = RouteId(s)]
  /\ UNCHANGED <<queueVars, observations, summaries, type, stored, issued>>

\* The client hangs up: the server drops the handler at its await.
Dropped(t) ==
  /\ task[t].pc = "run"
  /\ Fault
  /\ task' = [task EXCEPT ![t] = Idle]
  /\ UNCHANGED <<queueVars, memoryVars>>

-----------------------------------------------------------------------------
\* A provider call ends within ProviderTimeout.  Time that no claim waits out
\* changes no comparison and is left out.
Pass ==
  /\ \E m \in Id : rows[m].status = "processing" /\ ~ IsStale(m)
  /\ \A t \in Task : task[t].pc = "run" => now < task[t].since + ProviderTimeout
  /\ Tick
  /\ UNCHANGED <<task, memoryVars, faults>>

Clear ==
  /\ FailedClear \/ AllClear
  /\ UNCHANGED <<task, memoryVars, faults>>

\* What a handler does once it has been started.
Work(t) ==
  \/ ClaimOwn(t) \/ ClaimOwnTooLate(t)
  \/ DrainClaim(t) \/ DrainedSession(t)
  \/ Finish(t) \/ ProviderFailed(t)

Faulty ==
  \/ Crash
  \/ \E s \in Session : CrashInSummary(s)
  \/ \E t \in Task : CrashInClaim(t) \/ CrashInAnswer(t) \/ CrashInMarkFailed(t) \/ Dropped(t)

Request ==
  \/ \E t \in Hook, s \in Session : Submit(t, s) \/ StartInit(t, s)
  \/ \E t \in Drain : StartDrain(t)
  \/ \E s \in Session : PostSummary(s) \/ Complete(s)
  \/ Clear

ObserverNext ==
  \/ Request
  \/ \E t \in Task : Work(t)
  \/ Pass
  \/ Faulty

ObserverSpec == ObserverInit /\ [][ObserverNext]_observerVars

\* A handler once started goes on, and time does not stand still; nobody need send a request.
WorkFairness == /\ \A t \in Task : WF_observerVars(Work(t))
                /\ SF_observerVars(Pass)

UnattendedSpec == ObserverSpec /\ WorkFairness

\* Someone keeps posting /api/pending-queue/process.
DrainFairness == \A t \in Drain : WF_observerVars(StartDrain(t))
=============================================================================
