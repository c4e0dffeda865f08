--------------------------- MODULE ObserverOwners ---------------------------
(***************************************************************************)
(* Who works on a message, and what comes of it.  No claim names its       *)
(* owner: what keeps handlers apart is time.  The self-heal takes a claim  *)
(* older than StaleThreshold (60 s) for that of a dead worker, while a     *)
(* provider may run for ProviderTimeout (180 or 240 s).  A history         *)
(* variable records the messages whose provider ran longer than a claim    *)
(* lasts; the properties are about all the others, whatever the two        *)
(* constants are.                                                          *)
(***************************************************************************)
EXTENDS ObserverProps

VARIABLE overrun  \* history: messages whose provider ran on when their claim was stale

ownersVars == <<observerVars, overrun>>

AtProvider(t) == task[t].pc = "run" /\ task[t].msg # NULL

\* The messages at a provider that has run longer than a claim lasts.
Overrunning ==
  {task[t].msg : t \in {u \in Task : AtProvider(u) /\ now > task[u].since + StaleThreshold}}

OwnersInit == ObserverInit /\ overrun = {}

OwnersNext == ObserverNext /\ overrun' = overrun \cup Overrunning'

OwnersSpec == OwnersInit /\ [][OwnersNext]_ownersVars

AttendedOwners == OwnersSpec /\ WorkFairness /\ DrainFairness

-----------------------------------------------------------------------------
\* The row of a message whose provider is running is left alone by everybody but a
\* clearing route, neither settled nor handed out again, unless a provider of it has
\* run longer than a claim lasts (claim_next_message, pending_messages.rs:112-152;
\* claim_message_by_id, pending_messages.rs:159-180).
RunningUndisturbed ==
  [][\A t \in Task : AtProvider(t) /\ task'[t] = task[t] /\ task[t].msg \notin overrun =>
       \/ rows'[task[t].msg] = rows[task[t].msg]
       \/ task[t].msg \in cleared']_ownersVars

\* An answer is stored once, unless a provider of its message has run longer than a
\* claim lasts: no two observations of one session hold the same text, though a
\* message is processed again after a crash that fell between the commit and the
\* DELETE (store_observation, observations/store.rs:48).
StoredOnce ==
  \A i, j \in DOMAIN observations :
    observations[i].mem = observations[j].mem /\ observations[i].text = observations[j].text =>
      i = j \/ observations[i].text[2] \in overrun

\* With the local fallback on, no message ends as failed, unless a provider of it has
\* run longer than a claim lasts: the retry_count a handler read at its claim still
\* tells the last try when its provider fails (process_local_provider_failure_fallback,
\* observer.rs:357-362).
FallbackCatchesAll ==
  LocalFallback => \A m \in Id \ overrun : rows[m].status # "failed"

\* The fallback is the first summary of its session, if it is one at all, and so
\* there is one at most, whatever the memory id of the session becomes (the guard
\* of sessions_complete, routes/mod.rs:591-601, which fallback_summary_regression.rs
\* tests).
FallbackComesFirst ==
  \A i, j \in DOMAIN summaries :
    i < j /\ summaries[i].session = summaries[j].session => summaries[j].from # "fallback"

\* Summaries have no duplicate check (process_agent_response,
\* response_processor.rs:187-201): a summarize message has one summary all the same,
\* and at most one more for every death or hang-up, unless a provider of it has run
\* longer than a claim lasts.
SummarizedOnce ==
  \A m \in Id \ overrun :
    Cardinality({i \in DOMAIN summaries : summaries[i].msg = m}) <= 1 + faults

\* No summary is made twice, with the exceptions of SummarizedOnce.
SummariesOnce == FallbackComesFirst /\ SummarizedOnce

-----------------------------------------------------------------------------
\* "assert_eq!(queue["queue"]["totalFailed"], 0)", in the test that the observer uses the
\* local fallback on the final failure of a provider (claude_http_e2e.rs:1028 and 1100):
\* with the fallback on, no message ends as failed, for providers with the timeouts of
\* the code.
FallbackOnFinalFailure == LocalFallback => \A m \in Id : rows[m].status # "failed"
=============================================================================
