------------------------ MODULE WorkerLifecycleProps ------------------------
(* What the commands that start and stop the worker guarantee.             *)
EXTENDS WorkerLifecycle

\* How far a command can be.
Stage == {"idle", "probe", "await", "check", "send", "post", "free", "probed",
          "ok", "failed", "lost"}

\* Every variable stays in its domain.
LifecycleTypeOK ==
  /\ worker \in [Worker -> {"unused", "starting", "bound", "open", "serving",
                            "closing", "closed", "gone", "failed"}]
  /\ pidFile \in Worker \cup {NoWorker}
  /\ client \in [Client -> [cmd : Command \cup {"none"},
                            at : Stage,
                            told : Worker \cup {NoWorker}]]
  /\ probing \subseteq Client /\ Cardinality(probing) <= 1
  /\ unit \in Worker \cup {NoWorker}
  /\ heirs \subseteq Worker
  /\ starts \in 0..MaxUnitStarts /\ kills \in 0..MaxKills
  /\ disturbed \subseteq Client

\* The PID file names the worker that serves, unless that worker took over the
\* port from one that had not ended yet and will remove the file when it does
\* (run_from_env, lib.rs:31-45): a worker that loses the race for the port
\* never touches the file.
PidNamesServer ==
  \A w \in Worker \ heirs : Answers(w) => pidFile = w

\* A stop that succeeds has waited for the worker it told to shut down: that one
\* does not listen any more (stop_worker, worker_runtime.rs:53-65).
StopWaits ==
  \A c \in Client :
    client[c].cmd = "stop" /\ client[c].at = "ok" /\ client[c].told # NoWorker =>
      ~ Listening(client[c].told)

\* A hook tells nobody that it reached no worker (post_json answers Ok(None),
\* hooks/mod.rs:52-62), and its call is gone for good. That happens only while
\* somebody stops the worker or one is killed: hooks, starts and the service
\* manager by themselves, however their races for the port end, lose nothing.
LossExplained == \A c \in Client : client[c].at = "lost" => c \in disturbed

\* However restarts, starts and the starts of the hooks run into each other, a
\* worker serves in the end, unless someone asked for a stop or a worker was
\* killed (restart_worker, worker_runtime.rs:67-70): no command takes a worker
\* that another is about to shut down for its result and leaves it at that.
RestartsLeaveWorker ==
  \A c \in Client :
    Finished(c) ~>
      \/ \E w \in Worker : worker[w] = "serving"
      \/ kills > 0
      \/ \E d \in Client : client[d].cmd = "stop" \/ Running(d)

\* Every command returns: none waits for ever for a port or an answer
\* (health_monitor.rs:57-68 and 146-159).
CommandsReturn == \A c \in Client : Running(c) ~> Finished(c)
=============================================================================
