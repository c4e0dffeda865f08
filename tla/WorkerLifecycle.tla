--------------------------- MODULE WorkerLifecycle ---------------------------
(***************************************************************************)
(* The life of the worker process and the commands that start and stop it: *)
(* run_from_env of crates/claude-mem-worker/src/lib.rs, worker_runtime.rs, *)
(* the probes of infrastructure/health_monitor.rs, and the hooks, which    *)
(* start a worker if there is none and hand it one call (hooks/mod.rs).    *)
(*                                                                         *)
(* Any number of commands and hooks run at once, and the service manager   *)
(* starts a worker of its own.  What they share is the port, which one     *)
(* process at a time can bind, and the PID file.                           *)
(*                                                                         *)
(* Timeouts are those of the code with one assumption: a step a live       *)
(* process is about to take happens before a client's timeout (0.8 s, 15 s *)
(* and 30 s) runs out.                                                     *)
(***************************************************************************)
EXTENDS Naturals, FiniteSets

CONSTANTS Worker,        \* worker processes, in the order they are spawned
          Client,        \* commands that are run, one each
          MaxUnitStarts, \* bound: workers the service manager starts
          MaxKills,      \* bound: workers that die of a signal
          NoWorker

ASSUME LifecycleAssumption ==
  /\ Worker \subseteq Nat
  /\ NoWorker \notin Worker
  /\ MaxUnitStarts \in Nat /\ MaxKills \in Nat

VARIABLES worker,   \* how far each worker process is
          pidFile,  \* the worker the PID file names
          client,   \* how far each command is
          probing,  \* the clients whose bind probe holds the port right now
          unit,     \* the worker the service manager looks after
          heirs,    \* history: workers that bound the port while another was still closing down
          starts,   \* history: workers the service manager started
          kills,    \* history: workers killed so far
          disturbed \* history: commands during which another stopped a worker or one was killed

vars == <<worker, pidFile, client, probing, unit, heirs, starts, kills, disturbed>>
clientVars == <<client, probing, disturbed>>
serviceVars == <<unit, starts>>

\* "hook" is any hook that reports to the worker: session-init, observation,
\* summarize and session-complete.
Command == {"hook", "start", "stop", "restart"}

Init ==
  /\ worker = [w \in Worker |-> "unused"]
  /\ pidFile = NoWorker
  /\ client = [c \in Client |-> [cmd |-> "none", at |-> "idle", told |-> NoWorker]]
  /\ probing = {}
  /\ unit = NoWorker
  /\ heirs = {}
  /\ starts = 0 /\ kills = 0
  /\ disturbed = {}

\* A hook that reached no worker ends like any other ("lost" is told to nobody).
Finished(c) == client[c].at \in {"ok", "failed", "lost"}
Running(c) == client[c].at # "idle" /\ ~ Finished(c)
Stopping(c) == client[c].cmd \in {"stop", "restart"} /\ Running(c)

-----------------------------------------------------------------------------
(* The worker process.                                                     *)

\* bound: listening, nothing served yet; open: serving, the task that waits for
\* the shutdown notification not yet polled; closing: notified, still accepting.
Listening(w) == worker[w] \in {"bound", "open", "serving", "closing"}
Answers(w) == worker[w] \in {"open", "serving", "closing"}
Alive(w) == worker[w] \notin {"unused", "failed", "gone"}

\* Fault: a bind probe does not keep the port from others.
PortFree_Shared == \A w \in Worker : ~ Listening(w)

\* Nobody has the port, not even a probe.
PortFree == probing = {} /\ \A w \in Worker : ~ Listening(w)

\* A new process; it opens the database and then binds the port.
Spawn(w) ==
  /\ worker[w] = "unused"
  /\ \A v \in Worker : v < w => worker[v] # "unused"
  /\ worker' = [worker EXCEPT ![w] = "starting"]

\* Fault: the PID file is written before the port is bound.
Bind_PidFirst(w) ==
  /\ worker[w] = "starting"
  /\ worker' = [worker EXCEPT ![w] = IF PortFree THEN "bound" ELSE "failed"]
  /\ pidFile' = w
  /\ heirs' = IF PortFree /\ \E v \in Worker : worker[v] = "closed" THEN heirs \cup {w} ELSE heirs
  /\ UNCHANGED <<clientVars, serviceVars, kills>>

\* TcpListener::bind, refused while another process listens.
Bind(w) ==
  /\ worker[w] = "starting"
  /\ worker' = [worker EXCEPT ![w] = IF PortFree THEN "bound" ELSE "failed"]
  /\ heirs' = IF PortFree /\ \E v \in Worker : worker[v] = "closed" THEN heirs \cup {w} ELSE heirs
  /\ UNCHANGED <<pidFile, clientVars, serviceVars, kills>>

WritePid(w) ==
  /\ worker[w] = "bound"
  /\ worker' = [worker EXCEPT ![w] = "open"]
  /\ pidFile' = w
  /\ UNCHANGED <<clientVars, serviceVars, heirs, kills>>

\* The graceful-shutdown task is polled for the first time.
Arm(w) ==
  /\ worker[w] = "open"
  /\ worker' = [worker EXCEPT ![w] = "serving"]
  /\ UNCHANGED <<pidFile, clientVars, serviceVars, heirs, kills>>

\* axum drops the listener, and waits for the open connections.
Close(w) ==
  /\ worker[w] = "closing"
  /\ worker' = [worker EXCEPT ![w] = "closed"]
  /\ UNCHANGED <<pidFile, clientVars, serviceVars, heirs, kills>>

\* The last connection is closed; an event stream may stay open as long as it likes.
Leave(w) ==
  /\ worker[w] = "closed"
  /\ worker' = [worker EXCEPT ![w] = "gone"]
  /\ pidFile' = NoWorker
  /\ UNCHANGED <<clientVars, serviceVars, heirs, kills>>

\* SIGKILL, SIGTERM (only ctrl_c is waited for) or a crash: the PID file stays.
Kill(w) ==
  /\ Alive(w) /\ kills < MaxKills
  /\ worker' = [worker EXCEPT ![w] = "failed"]
  /\ kills' = kills + 1
  /\ disturbed' = disturbed \cup {c \in Client : Running(c)}
  /\ UNCHANGED <<pidFile, client, probing, serviceVars, heirs>>

-----------------------------------------------------------------------------
(* The service manager: started at login, Restart=on-failure.              *)

ServiceStart ==
  /\ starts < MaxUnitStarts
  /\ unit # NoWorker => worker[unit] = "failed"
  /\ \E w \in Worker : Spawn(w) /\ unit' = w
  /\ starts' = starts + 1
  /\ UNCHANGED <<pidFile, clientVars, heirs, kills>>

-----------------------------------------------------------------------------
(* The commands.                                                           *)

Goto(c, at) == client' = [client EXCEPT ![c].at = at]

\* start_worker and ensure_worker_running look for a worker first, stop_worker
\* and restart_worker ask for a shutdown.
FirstStep(cmd) == IF cmd \in {"hook", "start"} THEN "probe" ELSE "post"

Begin(c) ==
  /\ client[c].at = "idle"
  /\ \E cmd \in Command :
       /\ client' = [client EXCEPT ![c] =
                      [cmd |-> cmd, at |-> FirstStep(cmd), told |-> @.told]]
       /\ disturbed' = disturbed
            \cup {d \in Client : cmd \in {"stop", "restart"} /\ Running(d)}
            \cup {d \in {c} : \E e \in Client : Stopping(e)}
  /\ UNCHANGED <<worker, pidFile, probing, serviceVars, heirs, kills>>

\* The request hangs while a worker is bound and does not serve yet.
NobodyListens == \A w \in Worker : ~ Listening(w)

\* A hook goes on whatever ensure_worker_running says.
AfterStart(c, outcome) == IF client[c].cmd = "hook" THEN "check" ELSE outcome

\* wait_for_readiness
Ready(c) ==
  /\ client[c].at \in {"probe", "await"}
  /\ \E w \in Worker : Answers(w)
  /\ Goto(c, AfterStart(c, "ok"))
  /\ UNCHANGED <<worker, pidFile, probing, serviceVars, heirs, kills, disturbed>>

\* 800 ms have passed: spawn_daemon.
NotReady(c) ==
  /\ client[c].at = "probe"
  /\ NobodyListens
  /\ \E w \in Worker : Spawn(w)
  /\ Goto(c, "await")
  /\ UNCHANGED <<pidFile, probing, serviceVars, heirs, kills, disturbed>>

\* Fault: the first refusal is taken for the end of the wait.
StartTimeout_FirstRefusal(c) ==
  /\ client[c].at = "await"
  /\ NobodyListens
  /\ Goto(c, AfterStart(c, "failed"))
  /\ UNCHANGED <<worker, pidFile, probing, serviceVars, heirs, kills, disturbed>>

\* STARTUP_TIMEOUT has passed, and no worker is on its way.
StartTimeout(c) ==
  /\ client[c].at = "await"
  /\ NobodyListens /\ \A w \in Worker : worker[w] # "starting"
  /\ Goto(c, AfterStart(c, "failed"))
  /\ UNCHANGED <<worker, pidFile, probing, serviceVars, heirs, kills, disturbed>>

\* healthy, and then the handler's call: a worker answers it (a handler with two calls
\* stays at the first until it is at the second)...
Call(c) ==
  /\ client[c].at \in {"check", "send"}
  /\ \E w \in Worker : Answers(w)
  /\ Goto(c, IF client[c].at = "check" THEN "send" ELSE "ok")
  /\ UNCHANGED <<worker, pidFile, probing, serviceVars, heirs, kills, disturbed>>

\* ... or nobody does: the handler returns its empty answer as if all were well.
CallRefused(c) ==
  /\ client[c].at \in {"check", "send"}
  /\ NobodyListens
  /\ Goto(c, "lost")
  /\ UNCHANGED <<worker, pidFile, probing, serviceVars, heirs, kills, disturbed>>

\* Fault: the command does not wait for the port.
ShutdownGoesTo_Start == "probe"

\* What stop_worker does once the request is answered or refused.
ShutdownGoesTo == "free"

\* http_shutdown answered by a worker: notify_waiters wakes the task if it waits already.
PostShutdown(c) ==
  /\ client[c].at = "post"
  /\ \E w \in Worker :
       /\ Answers(w)
       /\ worker' = IF worker[w] = "serving" THEN [worker EXCEPT ![w] = "closing"] ELSE worker
       /\ client' = [client EXCEPT ![c] =
                      [cmd |-> @.cmd, at |-> ShutdownGoesTo,
                       told |-> IF worker[w] = "serving" THEN w ELSE NoWorker]]
  /\ UNCHANGED <<pidFile, probing, serviceVars, heirs, kills, disturbed>>

\* http_shutdown refused.
PostRefused(c) ==
  /\ client[c].at = "post"
  /\ NobodyListens
  /\ Goto(c, ShutdownGoesTo)
  /\ UNCHANGED <<worker, pidFile, probing, serviceVars, heirs, kills, disturbed>>

\* Fault: the probe asks whether a worker answers.
ProbePort_HttpOnly(c) ==
  /\ client[c].at = "free"
  /\ \A w \in Worker : worker[w] # "serving"
  /\ probing' = probing \cup {c}
  /\ Goto(c, "probed")
  /\ UNCHANGED <<worker, pidFile, serviceVars, heirs, kills, disturbed>>

\* is_port_in_use binds the port...
ProbePort(c) ==
  /\ client[c].at = "free"
  /\ PortFree
  /\ probing' = probing \cup {c}
  /\ Goto(c, "probed")
  /\ UNCHANGED <<worker, pidFile, serviceVars, heirs, kills, disturbed>>

\* Where a command goes from the end of its stop.
AfterStop(c, outcome) == IF client[c].cmd = "restart" THEN "probe" ELSE outcome

\* ... and lets it go.
ReleasePort(c) ==
  /\ client[c].at = "probed"
  /\ probing' = probing \ {c}
  /\ Goto(c, AfterStop(c, "ok"))
  /\ UNCHANGED <<worker, pidFile, serviceVars, heirs, kills, disturbed>>

\* Fault: a stop has no timeout.
StopTimeout_Never(c) == FALSE /\ UNCHANGED vars

\* wait_for_port_free gives up on a worker nobody is closing.
StopTimeout(c) ==
  /\ client[c].at = "free"
  /\ \E w \in Worker : worker[w] \in {"bound", "open", "serving"}
  /\ Goto(c, AfterStop(c, "failed"))
  /\ UNCHANGED <<worker, pidFile, probing, serviceVars, heirs, kills, disturbed>>

-----------------------------------------------------------------------------
Work(w) == Bind(w) \/ WritePid(w) \/ Arm(w) \/ Close(w)

Proceed(c) ==
  \/ Ready(c) \/ NotReady(c) \/ StartTimeout(c)
  \/ Call(c) \/ CallRefused(c)
  \/ PostShutdown(c) \/ PostRefused(c)
  \/ ProbePort(c) \/ ReleasePort(c) \/ StopTimeout(c)

Next ==
  \/ \E w \in Worker : Work(w) \/ Leave(w) \/ Kill(w)
  \/ ServiceStart
  \/ \E c \in Client : Begin(c) \/ Proceed(c)

\* Processes run; nothing makes the clients of an event stream go away, and
\* nobody need run a command.
Spec ==
  /\ Init /\ [][Next]_vars
  /\ \A w \in Worker : WF_vars(Work(w))
  /\ \A c \in Client : WF_vars(Proceed(c))
=============================================================================
