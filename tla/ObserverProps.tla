--------------------------- MODULE ObserverProps ---------------------------
(* What the observer guarantees about messages, answers and memory ids.    *)
EXTENDS Observer

Texts == {"local", "agent"} \X Id

\* Every variable of the observer stays in its domain.
ObserverTypeOK ==
  /\ task \in [Task -> [pc : {"idle", "claim", "run", "next"},
                        session : Session \cup {NULL}, msg : Id \cup {NULL},
                        mem : MemId \cup {NULL}, retry : Nat, since : Nat,
                        todo : SUBSET Session, left : 0..MaxMessages]]
  /\ mem \in [Session -> MemId \cup {NULL}]
  /\ observations \in Seq([mem : MemId, hashMem : MemId, text : Texts])
  /\ summaries \in Seq([mem : MemId, session : Session, from : {"answer", "posted", "fallback"},
                        msg : Id \cup {NULL}])
  /\ type \in [Id -> MessageType \cup {NULL}]
  /\ stored \in [Id -> 0..2]
  /\ issued \subseteq AgentId
  /\ faults \in 0..MaxFaults

\* Every stored observation can be reached from its session, and every summary
\* from its own: its memory id is the present one, however often the id was
\* replaced (ensure_memory_session_id, observer.rs:877-898).
ObservationsReachable ==
  /\ \A i \in DOMAIN observations : \E s \in Session : mem[s] = observations[i].mem
  /\ \A i \in DOMAIN summaries : mem[summaries[i].session] = summaries[i].mem

\* A message is reported as processed only after the answer to it has been
\* committed, wherever the process dies (process_agent_response,
\* response_processor.rs:187-201).
ReportedAfterStored ==
  \A m \in Id : events[m]["processed"] > 0 => stored[m] > 0

\* The observer, its faults included, uses the queue as the queue allows.
UsesQueue == Spec

\* Every accepted message is settled in the end, as long as someone keeps
\* draining the queue: no crash, dropped request, refused answer or late
\* failure leaves it open for ever.
EventuallySettled ==
  \A m \in Id : rows[m].status \in {"pending", "processing"} ~>
                rows[m].status \in {"failed", "deleted"}

\* A crashed worker leaves no stranded work (pending_messages.rs:10-12): a row
\* in processing that no handler works on is taken up again.
NoStrandedWork ==
  \A m \in Id :
    rows[m].status = "processing" /\ (\A t \in Task : task[t].msg # m) ~>
      rows[m].status # "processing" \/ (\E t \in Task : task[t].msg = m)
=============================================================================
