----------------------- MODULE WorkerLifecycleProofs -----------------------
(***************************************************************************)
(* What is proved of the worker processes and the commands, for any number *)
(* of both: the types, that the PID file names the worker that serves,     *)
(* that a stop has waited for its worker, and that a hook loses its call   *)
(* only while somebody stops or kills a worker.                            *)
(***************************************************************************)
EXTENDS WorkerLifecycleProps, FiniteSetTheorems, TLAPS

\* The domains, with the probes counted without Cardinality.
Domains ==
  /\ worker \in [Worker -> {"unused", "starting", "bound", "open", "serving",
                            "closing", "closed", "gone", "failed"}]
  /\ pidFile \in Worker \cup {NoWorker}
  /\ client \in [Client -> [cmd : Command \cup {"none"},
                            at : Stage,
                            told : Worker \cup {NoWorker}]]
  /\ probing \subseteq Client /\ \A c, d \in probing : c = d
  /\ unit \in Worker \cup {NoWorker}
  /\ heirs \subseteq Worker
  /\ starts \in 0..MaxUnitStarts /\ kills \in 0..MaxKills
  /\ disturbed \subseteq Client

\* One worker at a time has the port.
OneListener == \A v, w \in Worker : Listening(v) /\ Listening(w) => v = w

\* Whoever has the port while another is still closing down is an heir.
HeirsKnown == \A v, w \in Worker : worker[v] = "closed" /\ Listening(w) => w \in heirs

\* A worker that was told to shut down never comes back.
ToldEnds ==
  \A c \in Client :
    client[c].told # NoWorker => worker[client[c].told] \in {"closing", "closed", "gone", "failed"}

\* The port was free when the probe of a command got it.
ProbedFree ==
  \A c \in Client :
    client[c].at = "probed" /\ client[c].told # NoWorker => ~ Listening(client[c].told)

\* The steps of a stop.
StopSteps ==
  \A c \in Client : client[c].cmd = "stop" => client[c].at \in {"post", "free", "probed", "ok", "failed"}

LifecycleInv ==
  /\ Domains
  /\ OneListener /\ HeirsKnown /\ PidNamesServer
  /\ ToldEnds /\ ProbedFree /\ StopSteps /\ StopWaits

-----------------------------------------------------------------------------
\* The parts that speak of a stop only look at the clients and at which
\* workers listen: a step that changes neither a client nor wakes an ended
\* worker keeps them.
LEMMA StopsKept ==
  ASSUME Domains, ToldEnds, ProbedFree, StopSteps, StopWaits,
         client' = client,
         \A w \in Worker :
           /\ ~ Listening(w) /\ worker[w] \notin {"unused", "starting"} => ~ Listening(w)'
           /\ worker[w] \in {"closing", "closed", "gone", "failed"} =>
                worker'[w] \in {"closing", "closed", "gone", "failed"}
  PROVE  ToldEnds' /\ ProbedFree' /\ StopSteps' /\ StopWaits'
<1>1. ToldEnds'
  BY DEF ToldEnds, Domains
<1>2. \A c \in Client : client[c].told # NoWorker /\ ~ Listening(client[c].told) =>
        ~ Listening(client[c].told)'
  BY DEF ToldEnds, Domains
<1>3. ProbedFree'
  BY <1>2 DEF ProbedFree
<1>4. StopSteps'
  BY DEF StopSteps
<1>5. StopWaits'
  BY <1>2 DEF StopWaits
<1>6. QED
  BY <1>1, <1>3, <1>4, <1>5

\* A process that starts is no listener, and neither was the name it takes.
LEMMA SpawnKeeps ==
  ASSUME LifecycleInv, NEW w \in Worker, Spawn(w),
         pidFile' = pidFile, heirs' = heirs
  PROVE  /\ worker' \in [Worker -> {"unused", "starting", "bound", "open", "serving",
                                    "closing", "closed", "gone", "failed"}]
         /\ \A v \in Worker : Listening(v)' <=> Listening(v)
         /\ \A v \in Worker :
              worker[v] \in {"closing", "closed", "gone", "failed"} => worker'[v] = worker[v]
         /\ OneListener' /\ HeirsKnown' /\ PidNamesServer'
<1>1. worker[w] = "unused" /\ worker' = [worker EXCEPT ![w] = "starting"]
  BY DEF Spawn
<1>2. worker \in [Worker -> {"unused", "starting", "bound", "open", "serving",
                            "closing", "closed", "gone", "failed"}]
  BY DEF LifecycleInv, Domains
<1>3. \A v \in Worker :
        /\ Listening(v)' <=> Listening(v)
        /\ Answers(v)' <=> Answers(v)
        /\ worker'[v] = "closed" <=> worker[v] = "closed"
  BY <1>1, <1>2 DEF Listening, Answers
<1>4. OneListener' /\ HeirsKnown' /\ PidNamesServer'
  BY <1>3 DEF LifecycleInv, OneListener, HeirsKnown, PidNamesServer
<1>5. QED
  BY <1>1, <1>2, <1>3, <1>4

LEMMA InitInv == Init => LifecycleInv
<1> SUFFICES ASSUME Init PROVE LifecycleInv
  OBVIOUS
<1>1. Domains
  BY LifecycleAssumption DEF Init, Domains, Stage
<1>2. OneListener /\ HeirsKnown /\ PidNamesServer
  BY DEF Init, OneListener, HeirsKnown, PidNamesServer, Listening, Answers
<1>3. ToldEnds /\ ProbedFree /\ StopSteps /\ StopWaits
  BY DEF Init, ToldEnds, ProbedFree, StopSteps, StopWaits
<1>4. QED
  BY <1>1, <1>2, <1>3 DEF LifecycleInv

-----------------------------------------------------------------------------
(* The steps of a worker.                                                  *)

\* A worker that binds the port is the only listener; if another has closed its
\* listener and not ended, it is an heir from now on.
LEMMA BindInv ==
  ASSUME LifecycleInv, NEW w \in Worker, Bind(w)
  PROVE  LifecycleInv'
<1> USE DEF LifecycleInv
<1>1. Domains'
  BY DEF Domains, Bind, clientVars, serviceVars
<1>2. /\ worker[w] = "starting" /\ worker'[w] \in {"bound", "failed"}
      /\ \A v \in Worker \ {w} : worker'[v] = worker[v]
      /\ client' = client /\ pidFile' = pidFile /\ heirs \subseteq heirs'
  BY DEF Bind, Domains, clientVars
<1>3. worker'[w] = "bound" =>
        /\ \A v \in Worker : ~ Listening(v)
        /\ (\E v \in Worker : worker[v] = "closed") => w \in heirs'
  BY DEF Bind, PortFree, Domains
<1>4. OneListener'
  BY <1>2, <1>3 DEF OneListener, Listening
<1>5. HeirsKnown'
  BY <1>2, <1>3 DEF HeirsKnown, Listening
<1>6. PidNamesServer'
  BY <1>2 DEF PidNamesServer, Answers
<1>7. ToldEnds' /\ ProbedFree' /\ StopSteps' /\ StopWaits'
  <2>1. \A v \in Worker :
          /\ ~ Listening(v) /\ worker[v] \notin {"unused", "starting"} => ~ Listening(v)'
          /\ worker[v] \in {"closing", "closed", "gone", "failed"} =>
               worker'[v] \in {"closing", "closed", "gone", "failed"}
    BY <1>2 DEF Listening
  <2>2. QED
    BY <1>2, <2>1, StopsKept
<1>8. QED
  BY <1>1, <1>4, <1>5, <1>6, <1>7

\* The worker that serves writes the PID file: nobody else listens.
LEMMA WritePidInv ==
  ASSUME LifecycleInv, NEW w \in Worker, WritePid(w)
  PROVE  LifecycleInv'
<1> USE DEF LifecycleInv
<1>1. Domains'
  BY DEF Domains, WritePid, clientVars, serviceVars
<1>2. /\ worker[w] = "bound" /\ worker'[w] = "open"
      /\ \A v \in Worker \ {w} : worker'[v] = worker[v]
      /\ client' = client /\ pidFile' = w /\ heirs' = heirs
  BY DEF WritePid, Domains, clientVars
<1>3. \A v \in Worker : Listening(v)' <=> Listening(v)
  BY <1>2 DEF Listening
<1>4. OneListener'
  BY <1>3 DEF OneListener
<1>5. HeirsKnown'
  BY <1>2, <1>3 DEF HeirsKnown
<1>6. PidNamesServer'
  <2>1. \A v \in Worker : Answers(v)' => v = w
    BY <1>2, <1>3 DEF OneListener, Answers, Listening
  <2>2. QED
    BY <1>2, <2>1 DEF PidNamesServer
<1>7. ToldEnds' /\ ProbedFree' /\ StopSteps' /\ StopWaits'
  <2>1. \A v \in Worker :
          worker[v] \in {"closing", "closed", "gone", "failed"} =>
            worker'[v] \in {"closing", "closed", "gone", "failed"}
    BY <1>2
  <2>2. QED
    BY <1>2, <1>3, <2>1, StopsKept
<1>8. QED
  BY <1>1, <1>4, <1>5, <1>6, <1>7

\* A worker that listens less than before, or is gone.
LEMMA FadeInv ==
  ASSUME LifecycleInv, NEW w \in Worker, Arm(w) \/ Close(w) \/ Leave(w) \/ Kill(w)
  PROVE  LifecycleInv'
<1> USE DEF LifecycleInv
<1>1. Domains'
  <2>1. CASE Arm(w) \/ Close(w)
    BY <2>1 DEF Domains, Arm, Close, clientVars, serviceVars
  <2>2. CASE Leave(w)
    BY <2>2 DEF Domains, Leave, clientVars, serviceVars
  <2>3. CASE Kill(w)
    <3>1. kills' \in 0..MaxKills
      BY <2>3, LifecycleAssumption DEF Domains, Kill
    <3>2. QED
      BY <2>3, <3>1 DEF Domains, Kill, clientVars, serviceVars
  <2>4. QED
    BY <2>1, <2>2, <2>3
<1>2. /\ worker'[w] \in {"serving", "closed", "gone", "failed"}
      /\ \A v \in Worker \ {w} : worker'[v] = worker[v]
      /\ client' = client /\ heirs' = heirs
  BY DEF Arm, Close, Leave, Kill, Domains, clientVars
<1>3. /\ worker'[w] = "serving" => worker[w] = "open" /\ pidFile' = pidFile
      /\ worker'[w] = "closed" => worker[w] = "closing" /\ pidFile' = pidFile
      /\ worker'[w] = "gone" => worker[w] = "closed"
      /\ worker'[w] = "failed" => pidFile' = pidFile
  BY DEF Arm, Close, Leave, Kill, Domains
<1>4. \A v \in Worker : (Listening(v)' => Listening(v)) /\ (Answers(v)' => Answers(v))
  BY <1>2, <1>3 DEF Listening, Answers
<1>5. OneListener'
  BY <1>4 DEF OneListener
<1>6. HeirsKnown'
  <2> SUFFICES ASSUME NEW u \in Worker, NEW v \in Worker,
                      worker'[u] = "closed", Listening(v)'
               PROVE  v \in heirs
    BY <1>2 DEF HeirsKnown
  <2>1. CASE worker[u] = "closed"
    BY <2>1, <1>4 DEF HeirsKnown
  <2>2. CASE worker[u] # "closed"
    <3>1. u = w /\ worker[u] = "closing"
      BY <1>2, <1>3, <2>2
    <3>2. v = u
      BY <1>4, <3>1 DEF OneListener, Listening
    <3>3. QED
      BY <3>2 DEF Listening
  <2>3. QED
    BY <2>1, <2>2
<1>7. PidNamesServer'
  <2> SUFFICES ASSUME NEW v \in Worker \ heirs, Answers(v)'
               PROVE  pidFile' = v
    BY <1>2 DEF PidNamesServer
  <2>1. pidFile = v
    BY <1>4 DEF PidNamesServer
  <2>2. worker'[w] # "gone"
    BY <1>3, <1>4 DEF HeirsKnown, Listening, Answers
  <2>3. QED
    BY <1>2, <1>3, <2>1, <2>2
<1>8. ToldEnds' /\ ProbedFree' /\ StopSteps' /\ StopWaits'
  <2>1. \A v \in Worker :
          worker[v] \in {"closing", "closed", "gone", "failed"} =>
            worker'[v] \in {"closing", "closed", "gone", "failed"}
    BY <1>2, <1>3
  <2>2. QED
    BY <1>2, <1>4, <2>1, StopsKept
<1>9. QED
  BY <1>1, <1>5, <1>6, <1>7, <1>8

-----------------------------------------------------------------------------
(* The service manager and the commands.                                   *)

LEMMA ServiceStartInv ==
  ASSUME LifecycleInv, ServiceStart
  PROVE  LifecycleInv'
<1>1. PICK w \in Worker : Spawn(w) /\ unit' = w
  BY DEF ServiceStart
<1>2. /\ pidFile' = pidFile /\ client' = client /\ probing' = probing
      /\ heirs' = heirs /\ kills' = kills /\ disturbed' = disturbed
      /\ starts < MaxUnitStarts /\ starts' = starts + 1
  BY DEF ServiceStart, clientVars
<1>3. starts' \in 0..MaxUnitStarts
  BY <1>2, LifecycleAssumption DEF LifecycleInv, Domains
<1>4. Domains'
  BY <1>1, <1>2, <1>3, SpawnKeeps DEF LifecycleInv, Domains
<1>5. OneListener' /\ HeirsKnown' /\ PidNamesServer'
  BY <1>1, <1>2, SpawnKeeps
<1>6. ToldEnds' /\ ProbedFree' /\ StopSteps' /\ StopWaits'
  <2>1. \A v \in Worker :
          /\ ~ Listening(v) /\ worker[v] \notin {"unused", "starting"} => ~ Listening(v)'
          /\ worker[v] \in {"closing", "closed", "gone", "failed"} =>
               worker'[v] \in {"closing", "closed", "gone", "failed"}
    BY <1>1, <1>2, SpawnKeeps
  <2>2. QED
    BY <1>2, <2>1, StopsKept DEF LifecycleInv
<1>7. QED
  BY <1>4, <1>5, <1>6 DEF LifecycleInv

\* What the parts that speak of the workers need of a step of a command:
\* whoever listens or answers is the same, and the shared files are untouched.
LEMMA WorkersKept ==
  ASSUME OneListener, HeirsKnown, PidNamesServer,
         pidFile' = pidFile, heirs' = heirs,
         \A v \in Worker :
           /\ Listening(v)' <=> Listening(v)
           /\ Answers(v)' <=> Answers(v)
           /\ worker'[v] = "closed" <=> worker[v] = "closed"
  PROVE  OneListener' /\ HeirsKnown' /\ PidNamesServer'
BY DEF OneListener, HeirsKnown, PidNamesServer

\* A command that moves on without touching a worker. It ends a stop only from
\* the release of its probe, or without success.
LEMMA MoveInv ==
  ASSUME LifecycleInv, NEW c \in Client,
         UNCHANGED <<worker, pidFile, unit, starts, heirs, kills>>,
         disturbed' \subseteq Client,
         probing' \subseteq Client, \A d, e \in probing' : d = e,
         NEW cmd \in Command \cup {"none"},
         NEW at \in Stage,
         client' = [client EXCEPT ![c] = [cmd |-> cmd, at |-> at, told |-> client[c].told]],
         cmd = "stop" => at \in {"post", "free", "probed", "ok", "failed"},
         at = "probed" => \A w \in Worker : ~ Listening(w),
         cmd = "stop" /\ at = "ok" => client[c].at = "probed"
  PROVE  LifecycleInv'
<1> USE DEF LifecycleInv
<1>1. client' \in [Client -> [cmd : Command \cup {"none"},
                              at : Stage,
                              told : Worker \cup {NoWorker}]]
  BY DEF Domains
<1>2. Domains'
  BY <1>1 DEF Domains
<1>3. OneListener' /\ HeirsKnown' /\ PidNamesServer'
  BY DEF OneListener, HeirsKnown, PidNamesServer, Listening, Answers
<1>4. /\ client'[c].cmd = cmd /\ client'[c].at = at
      /\ \A d \in Client \ {c} : client'[d] = client[d]
      /\ \A d \in Client : client'[d].told = client[d].told
  BY DEF Domains
<1>5. ToldEnds'
  BY <1>4 DEF ToldEnds
<1>6. \A d \in Client : client[d].told # NoWorker => client[d].told \in Worker
  BY DEF Domains
<1>7. \A w \in Worker : Listening(w)' <=> Listening(w)
  BY DEF Listening
<1>8. ProbedFree'
  BY <1>4, <1>6, <1>7 DEF ProbedFree
<1>9. StopSteps'
  BY <1>4 DEF StopSteps
<1>10. StopWaits'
  BY <1>4, <1>6, <1>7 DEF StopWaits, ProbedFree
<1>11. QED
  BY <1>2, <1>3, <1>5, <1>8, <1>9, <1>10

\* Goto changes one field of one record.
LEMMA GotoMoves ==
  ASSUME Domains, NEW c \in Client, NEW at, Goto(c, at)
  PROVE  /\ client' = [client EXCEPT ![c] = [cmd |-> client[c].cmd, at |-> at, told |-> client[c].told]]
         /\ client[c].cmd \in Command \cup {"none"}
<1>1. client[c] \in [cmd : Command \cup {"none"},
                     at : Stage,
                     told : Worker \cup {NoWorker}]
  BY DEF Domains
<1>2. [client[c] EXCEPT !.at = at] = [cmd |-> client[c].cmd, at |-> at, told |-> client[c].told]
  BY <1>1
<1>3. QED
  BY <1>1, <1>2 DEF Goto

LEMMA BeginInv ==
  ASSUME LifecycleInv, NEW c \in Client, Begin(c)
  PROVE  LifecycleInv'
<1>1. PICK cmd \in Command :
        client' = [client EXCEPT ![c] =
                    [cmd |-> cmd, at |-> FirstStep(cmd), told |-> client[c].told]]
  BY DEF Begin, LifecycleInv, Domains
<1>2. /\ FirstStep(cmd) \in {"probe", "post"} /\ FirstStep(cmd) \in Stage
      /\ cmd = "stop" => FirstStep(cmd) = "post"
  BY DEF FirstStep, Stage
<1>3. UNCHANGED <<worker, pidFile, unit, starts, heirs, kills>> /\ probing' = probing
  BY DEF Begin, serviceVars
<1>4. probing' \subseteq Client /\ \A d, e \in probing' : d = e
  BY <1>3 DEF LifecycleInv, Domains
<1>5. disturbed' \subseteq Client
  BY DEF Begin, LifecycleInv, Domains
<1>6. QED
  BY <1>1, <1>2, <1>3, <1>4, <1>5, MoveInv

\* The steps of a command that leave the workers alone.
LEMMA MovesInv ==
  ASSUME LifecycleInv, NEW c \in Client,
         \/ Ready(c) \/ StartTimeout(c) \/ Call(c) \/ CallRefused(c) \/ PostRefused(c)
         \/ ProbePort(c) \/ ReleasePort(c) \/ StopTimeout(c)
  PROVE  LifecycleInv'
<1>1. Domains /\ StopSteps
  BY DEF LifecycleInv
<1>2. probing \subseteq Client /\ \A d, e \in probing : d = e
  BY <1>1 DEF Domains
<1>3. UNCHANGED <<worker, pidFile, unit, starts, heirs, kills>>
  BY DEF Ready, StartTimeout, Call, CallRefused, PostRefused, ProbePort, ReleasePort,
         StopTimeout, serviceVars
<1>4. disturbed' \subseteq Client
  BY <1>1 DEF Domains, Ready, StartTimeout, Call, CallRefused, PostRefused, ProbePort,
              ReleasePort, StopTimeout
<1>5. CASE Ready(c) \/ StartTimeout(c) \/ Call(c) \/ CallRefused(c)
  <2>1. client[c].cmd # "stop"
    BY <1>1, <1>5 DEF Ready, StartTimeout, Call, CallRefused, StopSteps
  <2>2. probing' = probing
    BY <1>5 DEF Ready, StartTimeout, Call, CallRefused
  <2>3. PICK at \in {"check", "send", "ok", "failed", "lost"} : Goto(c, at)
    BY <1>5 DEF Ready, StartTimeout, Call, CallRefused, AfterStart
  <2>4. at \in Stage /\ at # "probed"
    BY DEF Stage
  <2>5. QED
    BY <1>1, <1>2, <1>3, <1>4, <2>1, <2>2, <2>3, <2>4, GotoMoves, MoveInv
<1>6. CASE PostRefused(c)
  <2>1. ShutdownGoesTo \in Stage /\ ShutdownGoesTo = "free"
    BY DEF ShutdownGoesTo, Stage
  <2>2. QED
    BY <1>1, <1>2, <1>3, <1>4, <1>6, <2>1, GotoMoves, MoveInv DEF PostRefused
<1>7. CASE ProbePort(c)
  <2>1. probing' \subseteq Client /\ \A d, e \in probing' : d = e
    BY <1>7, <1>2 DEF ProbePort, PortFree
  <2>2. (\A w \in Worker : ~ Listening(w)) /\ "probed" \in Stage
    BY <1>7 DEF ProbePort, PortFree, Stage
  <2>3. QED
    BY <1>1, <1>3, <1>4, <1>7, <2>1, <2>2, GotoMoves, MoveInv DEF ProbePort
<1>8. CASE ReleasePort(c)
  <2>1. probing' \subseteq Client /\ \A d, e \in probing' : d = e
    BY <1>8, <1>2 DEF ReleasePort
  <2>2. /\ AfterStop(c, "ok") \in {"probe", "ok"} /\ AfterStop(c, "ok") \in Stage
        /\ client[c].cmd = "stop" => AfterStop(c, "ok") = "ok"
    BY DEF AfterStop, Stage
  <2>3. QED
    BY <1>1, <1>3, <1>4, <1>8, <2>1, <2>2, GotoMoves, MoveInv DEF ReleasePort
<1>9. CASE StopTimeout(c)
  <2>1. /\ AfterStop(c, "failed") \in {"probe", "failed"} /\ AfterStop(c, "failed") \in Stage
        /\ client[c].cmd = "stop" => AfterStop(c, "failed") = "failed"
    BY DEF AfterStop, Stage
  <2>2. QED
    BY <1>1, <1>2, <1>3, <1>4, <1>9, <2>1, GotoMoves, MoveInv DEF StopTimeout
<1>10. QED
  BY <1>5, <1>6, <1>7, <1>8, <1>9

LEMMA NotReadyInv ==
  ASSUME LifecycleInv, NEW c \in Client, NotReady(c)
  PROVE  LifecycleInv'
<1>1. PICK w \in Worker : Spawn(w)
  BY DEF NotReady
<1>2. /\ UNCHANGED <<pidFile, probing, unit, starts, heirs, kills, disturbed>>
      /\ Goto(c, "await") /\ "await" \in Stage /\ client[c].at = "probe"
  BY DEF NotReady, serviceVars, Stage
<1>3. /\ client' = [client EXCEPT ![c] =
                     [cmd |-> client[c].cmd, at |-> "await", told |-> client[c].told]]
      /\ client[c].cmd \in Command \cup {"none"} /\ client[c].cmd # "stop"
  BY <1>2, GotoMoves DEF LifecycleInv, StopSteps
<1>4. Domains'
  BY <1>1, <1>2, <1>3, SpawnKeeps DEF LifecycleInv, Domains
<1>5. OneListener' /\ HeirsKnown' /\ PidNamesServer'
  BY <1>1, <1>2, SpawnKeeps
<1>6. /\ \A v \in Worker : Listening(v)' <=> Listening(v)
      /\ \A v \in Worker : worker[v] \in {"closing", "closed", "gone", "failed"} => worker'[v] = worker[v]
      /\ \A d \in Client : client[d].told # NoWorker => client[d].told \in Worker
  BY <1>1, <1>2, SpawnKeeps DEF LifecycleInv, Domains
<1>7. /\ client'[c].cmd # "stop" /\ client'[c].at = "await"
      /\ \A d \in Client \ {c} : client'[d] = client[d]
      /\ \A d \in Client : client'[d].told = client[d].told
  BY <1>3 DEF LifecycleInv, Domains
<1>8. ToldEnds'
  BY <1>6, <1>7 DEF LifecycleInv, ToldEnds
<1>9. ProbedFree'
  BY <1>6, <1>7 DEF LifecycleInv, ProbedFree
<1>10. StopSteps' /\ StopWaits'
  BY <1>6, <1>7 DEF LifecycleInv, StopSteps, StopWaits
<1>11. QED
  BY <1>4, <1>5, <1>8, <1>9, <1>10 DEF LifecycleInv

\* A worker that was waiting for the notification is told; one that was not yet
\* answers all the same, and nobody is told.
LEMMA PostShutdownInv ==
  ASSUME LifecycleInv, NEW c \in Client, PostShutdown(c)
  PROVE  LifecycleInv'
<1> USE DEF LifecycleInv
<1>1. PICK w \in Worker :
        /\ Answers(w)
        /\ worker' = IF worker[w] = "serving" THEN [worker EXCEPT ![w] = "closing"] ELSE worker
        /\ client' = [client EXCEPT ![c] =
                       [cmd |-> client[c].cmd, at |-> ShutdownGoesTo,
                        told |-> IF worker[w] = "serving" THEN w ELSE NoWorker]]
  BY DEF PostShutdown
<1>2. UNCHANGED <<pidFile, probing, unit, starts, heirs, kills, disturbed>>
  BY DEF PostShutdown, serviceVars
<1>3. /\ client'[c].at = "free" /\ client'[c].cmd = client[c].cmd
      /\ client'[c].told \in {w, NoWorker}
      /\ client'[c].told = w => worker[w] = "serving"
      /\ \A d \in Client \ {c} : client'[d] = client[d]
  BY <1>1, LifecycleAssumption DEF Domains, ShutdownGoesTo
<1>4. client' \in [Client -> [cmd : Command \cup {"none"},
                              at : Stage,
                              told : Worker \cup {NoWorker}]]
  BY <1>1 DEF Domains, ShutdownGoesTo, Stage
<1>5. Domains'
  BY <1>1, <1>2, <1>4 DEF Domains
<1>6. \A v \in Worker :
        /\ Listening(v)' <=> Listening(v)
        /\ Answers(v)' <=> Answers(v)
        /\ worker'[v] = "closed" <=> worker[v] = "closed"
        /\ worker[v] \in {"closing", "closed", "gone", "failed"} => worker'[v] = worker[v]
  BY <1>1 DEF Domains, Listening, Answers
<1>7. OneListener' /\ HeirsKnown' /\ PidNamesServer'
  BY <1>2, <1>6, WorkersKept
<1>8. \A d \in Client : client[d].told # NoWorker => client[d].told \in Worker
  BY DEF Domains
<1>9. ToldEnds'
  <2>1. client'[c].told = w => worker'[w] = "closing"
    BY <1>1, <1>3 DEF Domains
  <2>2. QED
    BY <1>3, <1>6, <1>8, <2>1 DEF ToldEnds
<1>10. ProbedFree'
  BY <1>3, <1>6, <1>8 DEF ProbedFree
<1>11. StopSteps' /\ StopWaits'
  BY <1>3, <1>6, <1>8 DEF StopSteps, StopWaits
<1>12. QED
  BY <1>5, <1>7, <1>9, <1>10, <1>11

-----------------------------------------------------------------------------
LEMMA NextInv == LifecycleInv /\ [Next]_vars => LifecycleInv'
<1> SUFFICES ASSUME LifecycleInv, [Next]_vars PROVE LifecycleInv'
  OBVIOUS
<1>1. ASSUME NEW w \in Worker, Work(w) \/ Leave(w) \/ Kill(w) PROVE LifecycleInv'
  BY <1>1, BindInv, WritePidInv, FadeInv DEF Work
<1>2. CASE ServiceStart
  BY <1>2, ServiceStartInv
<1>3. ASSUME NEW c \in Client, Begin(c) \/ Proceed(c) PROVE LifecycleInv'
  BY <1>3, BeginInv, MovesInv, NotReadyInv, PostShutdownInv DEF Proceed
<1>4. CASE UNCHANGED vars
  <2>1. Domains' /\ OneListener' /\ HeirsKnown' /\ PidNamesServer'
    BY <1>4 DEF LifecycleInv, Domains, OneListener, HeirsKnown, PidNamesServer,
                Listening, Answers, vars
  <2>2. ToldEnds' /\ ProbedFree' /\ StopSteps' /\ StopWaits'
    BY <1>4 DEF LifecycleInv, ToldEnds, ProbedFree, StopSteps, StopWaits, Listening, vars
  <2>3. QED
    BY <2>1, <2>2 DEF LifecycleInv
<1>5. QED
  BY <1>1, <1>2, <1>3, <1>4 DEF Next

\* The inductive invariant holds in every reachable state.
THEOREM LifecycleInvariant == Spec => []LifecycleInv
<1>1. Init => LifecycleInv
  BY InitInv
<1>2. LifecycleInv /\ [Next]_vars => LifecycleInv'
  BY NextInv
<1>3. QED
  BY <1>1, <1>2, PTL DEF Spec

\* However many workers and commands run: the PID file names the worker that
\* serves, unless it took over the port from one that had not ended (lib.rs:31-45).
THEOREM PidFileCorrect == Spec => []PidNamesServer
<1>1. LifecycleInv => PidNamesServer
  BY DEF LifecycleInv
<1>2. QED
  BY <1>1, LifecycleInvariant, PTL

\* However many commands stop and start workers: a stop that succeeds leaves the
\* worker it told off the port for good (worker_runtime.rs:53-65).
THEOREM StopsComplete == Spec => []StopWaits
<1>1. LifecycleInv => StopWaits
  BY DEF LifecycleInv
<1>2. QED
  BY <1>1, LifecycleInvariant, PTL

\* Every variable stays in its domain, and one probe at a time holds the port.
THEOREM LifecycleTypes == Spec => []LifecycleTypeOK
<1>1. LifecycleInv => LifecycleTypeOK
  <2> SUFFICES ASSUME LifecycleInv PROVE LifecycleTypeOK
    OBVIOUS
  <2>1. Domains
    BY DEF LifecycleInv
  <2>2. probing = {} \/ \E c \in probing : probing = {c}
    BY <2>1 DEF Domains
  <2>3. Cardinality(probing) <= 1
    BY <2>2, FS_EmptySet, FS_Singleton
  <2>4. QED
    BY <2>1, <2>3 DEF Domains, LifecycleTypeOK
<1>2. QED
  BY <1>1, LifecycleInvariant, PTL

-----------------------------------------------------------------------------
(* What the hooks lose.                                                    *)

\* Only a stop or a restart shuts a worker down and probes the port, and only a
\* hook calls the worker.
StepsOfCommands ==
  \A c \in Client :
    /\ client[c].at \in {"post", "free", "probed"} => client[c].cmd \in {"stop", "restart"}
    /\ client[c].at \in {"check", "send", "lost"} => client[c].cmd = "hook"
    /\ c \in probing => client[c].at = "probed"

\* Whoever told a worker to shut down, or found it told, still waits for the port.
ClosingAwaited ==
  (\E w \in Worker : worker[w] = "closing") => \E c \in Client : client[c].at = "free"

\* A hook that is under way, and nothing has come in its way.
Undisturbed(c) == client[c].cmd = "hook" /\ Running(c) /\ c \notin disturbed

\* No stop or restart runs next to it,
NoStopBeside == \A c, d \in Client : Undisturbed(c) => ~ Stopping(d)

\* a worker is on its way as long as it waits for one,
WorkerComes ==
  \A c \in Client : Undisturbed(c) /\ client[c].at = "await" =>
    \E w \in Worker : worker[w] = "starting" \/ Listening(w)

\* and one answers from the moment it has seen one.
WorkerAnswers ==
  \A c \in Client : Undisturbed(c) /\ client[c].at \in {"check", "send"} =>
    \E w \in Worker : Answers(w)

LossInv ==
  /\ StepsOfCommands /\ ClosingAwaited
  /\ NoStopBeside /\ WorkerComes /\ WorkerAnswers
  /\ LossExplained

\* Next to an undisturbed hook no worker is shutting down and no probe holds the port.
LEMMA UndisturbedPort ==
  ASSUME Domains, LossInv, NEW c \in Client, Undisturbed(c)
  PROVE  probing = {} /\ \A w \in Worker : worker[w] # "closing"
<1>1. \A d \in Client : client[d].at \notin {"free", "probed"}
  BY DEF LossInv, StepsOfCommands, NoStopBeside, Stopping, Running, Finished
<1>2. QED
  BY <1>1 DEF LossInv, StepsOfCommands, ClosingAwaited, Domains

LEMMA LossInit == Init => LossInv
BY DEF Init, LossInv, StepsOfCommands, ClosingAwaited, NoStopBeside, WorkerComes,
       WorkerAnswers, LossExplained, Undisturbed, Stopping, Running, Finished

\* A step of the workers that no command takes: as long as it leaves an
\* undisturbed hook the worker it counts on, nothing changes for the hooks.
LEMMA WorkersMove ==
  ASSUME Domains, LossInv,
         UNCHANGED <<client, probing, disturbed>>,
         \A w \in Worker : worker'[w] = "closing" => worker[w] = "closing",
         \A c \in Client : Undisturbed(c) =>
           /\ (\E w \in Worker : worker[w] = "starting" \/ Listening(w)) =>
                \E w \in Worker : worker'[w] = "starting" \/ Listening(w)'
           /\ (\E w \in Worker : Answers(w)) => \E w \in Worker : Answers(w)'
  PROVE  LossInv'
<1> USE DEF LossInv
<1>1. \A c \in Client : (Undisturbed(c)' <=> Undisturbed(c)) /\ (Stopping(c)' <=> Stopping(c))
  BY DEF Undisturbed, Stopping, Running, Finished
<1>2. StepsOfCommands' /\ ClosingAwaited' /\ LossExplained'
  BY DEF StepsOfCommands, ClosingAwaited, LossExplained
<1>3. NoStopBeside'
  BY <1>1 DEF NoStopBeside
<1>4. WorkerComes'
  BY <1>1 DEF WorkerComes
<1>5. WorkerAnswers'
  BY <1>1 DEF WorkerAnswers
<1>6. QED
  BY <1>2, <1>3, <1>4, <1>5

\* A worker that fails to bind leaves the port to another; the listener of one
\* that is told to shut down is not dropped next to an undisturbed hook.
LEMMA WorkLoss ==
  ASSUME Domains, LossInv, NEW w \in Worker, Work(w) \/ Leave(w)
  PROVE  LossInv'
<1>1. UNCHANGED <<client, probing, disturbed>>
  BY DEF Work, Bind, WritePid, Arm, Close, Leave, clientVars
<1>2. \A v \in Worker \ {w} : worker'[v] = worker[v]
  BY DEF Work, Bind, WritePid, Arm, Close, Leave, Domains
<1>3. CASE Bind(w)
  <2>1. /\ worker[w] = "starting" /\ worker'[w] \in {"bound", "failed"}
        /\ worker'[w] = "failed" => probing # {} \/ \E v \in Worker : Listening(v)
    BY <1>3 DEF Bind, PortFree, Domains
  <2>2. ASSUME NEW c \in Client, Undisturbed(c)
        PROVE  \E v \in Worker : Listening(v)'
    <3>1. probing = {}
      BY <2>2, UndisturbedPort
    <3>2. QED
      BY <2>1, <3>1, <1>2 DEF Listening
  <2>3. \A v \in Worker : Answers(v) => Answers(v)'
    BY <1>2, <2>1 DEF Answers
  <2>4. \A v \in Worker : worker'[v] = "closing" => worker[v] = "closing"
    BY <1>2, <2>1
  <2>5. QED
    BY <1>1, <2>2, <2>3, <2>4, WorkersMove
<1>4. CASE WritePid(w) \/ Arm(w) \/ Leave(w)
  <2>1. \/ worker[w] \in {"bound", "open"} /\ worker'[w] \in {"open", "serving"}
        \/ worker[w] = "closed" /\ worker'[w] = "gone"
    BY <1>4 DEF WritePid, Arm, Leave, Domains
  <2>2. \A v \in Worker :
          /\ worker[v] = "starting" => worker'[v] = "starting"
          /\ Listening(v) => Listening(v)'
          /\ Answers(v) => Answers(v)'
          /\ worker'[v] = "closing" => worker[v] = "closing"
    BY <1>2, <2>1 DEF Listening, Answers
  <2>3. QED
    BY <1>1, <2>2, WorkersMove
<1>5. CASE Close(w)
  <2>1. worker[w] = "closing" /\ worker'[w] = "closed"
    BY <1>5 DEF Close, Domains
  <2>2. \A c \in Client : ~ Undisturbed(c)
    BY <2>1, UndisturbedPort
  <2>3. \A v \in Worker : worker'[v] = "closing" => worker[v] = "closing"
    BY <1>2, <2>1
  <2>4. QED
    BY <1>1, <2>2, <2>3, WorkersMove
<1>6. QED
  BY <1>3, <1>4, <1>5 DEF Work

\* Whatever was under way when a worker was killed is disturbed.
LEMMA KillLoss ==
  ASSUME Domains, LossInv, NEW w \in Worker, Kill(w)
  PROVE  LossInv'
<1> USE DEF LossInv
<1>1. /\ client' = client /\ probing' = probing
      /\ disturbed' = disturbed \cup {c \in Client : Running(c)}
      /\ \A v \in Worker : worker'[v] = "closing" => worker[v] = "closing"
  BY DEF Kill, Domains
<1>2. \A c \in Client : ~ Undisturbed(c)'
  BY <1>1 DEF Undisturbed, Running, Finished
<1>3. NoStopBeside' /\ WorkerComes' /\ WorkerAnswers'
  BY <1>2 DEF NoStopBeside, WorkerComes, WorkerAnswers
<1>4. StepsOfCommands' /\ ClosingAwaited' /\ LossExplained'
  BY <1>1 DEF StepsOfCommands, ClosingAwaited, LossExplained
<1>5. QED
  BY <1>3, <1>4

LEMMA SpawnLoss ==
  ASSUME Domains, NEW w \in Worker, Spawn(w)
  PROVE  /\ worker'[w] = "starting"
         /\ \A v \in Worker :
              /\ worker[v] = "starting" => worker'[v] = "starting"
              /\ Listening(v) => Listening(v)'
              /\ Answers(v) => Answers(v)'
              /\ worker'[v] = "closing" => worker[v] = "closing"
BY DEF Domains, Spawn, Listening, Answers

LEMMA ServiceLoss ==
  ASSUME Domains, LossInv, ServiceStart
  PROVE  LossInv'
<1>1. PICK w \in Worker : Spawn(w)
  BY DEF ServiceStart
<1>2. UNCHANGED <<client, probing, disturbed>>
  BY DEF ServiceStart, clientVars
<1>3. QED
  BY <1>1, <1>2, SpawnLoss, WorkersMove

\* A stop that begins disturbs whatever is under way, a hook that begins next to
\* one is disturbed from its first step.
LEMMA BeginLoss ==
  ASSUME Domains, LossInv, NEW c \in Client, Begin(c)
  PROVE  LossInv'
<1> USE DEF LossInv
<1>1. PICK cmd \in Command :
        /\ client' = [client EXCEPT ![c] =
                       [cmd |-> cmd, at |-> FirstStep(cmd), told |-> client[c].told]]
        /\ disturbed' = disturbed
             \cup {d \in Client : cmd \in {"stop", "restart"} /\ Running(d)}
             \cup {d \in {c} : \E e \in Client : Stopping(e)}
  BY DEF Begin, Domains
<1>2. /\ client[c].at = "idle" /\ worker' = worker /\ probing' = probing
      /\ client'[c].cmd = cmd /\ client'[c].at \in {"probe", "post"}
      /\ client'[c].at = "post" <=> cmd \in {"stop", "restart"}
      /\ \A d \in Client \ {c} : client'[d] = client[d]
      /\ disturbed \subseteq disturbed'
  BY <1>1 DEF Begin, Domains, FirstStep, Command
<1>3. /\ ~ Stopping(c) /\ ~ Undisturbed(c)
      /\ \A d \in Client \ {c} :
           (Running(d)' <=> Running(d)) /\ (Stopping(d)' <=> Stopping(d))
  BY <1>2 DEF Stopping, Undisturbed, Running, Finished
<1>4. \A d \in Client \ {c} : Undisturbed(d)' => Undisturbed(d)
  BY <1>2, <1>3 DEF Undisturbed
<1>5. StepsOfCommands'
  BY <1>2 DEF StepsOfCommands
<1>6. ClosingAwaited'
  BY <1>2 DEF ClosingAwaited
<1>7. LossExplained'
  BY <1>2 DEF LossExplained
<1>8. NoStopBeside'
  <2> SUFFICES ASSUME NEW d \in Client, NEW e \in Client, Undisturbed(d)', Stopping(e)'
               PROVE  FALSE
    BY DEF NoStopBeside
  <2>1. CASE e = c
    <3>1. cmd \in {"stop", "restart"} /\ d # c
      BY <2>1, <1>2 DEF Stopping, Undisturbed
    <3>2. Running(d)
      BY <3>1, <1>4 DEF Undisturbed
    <3>3. QED
      BY <3>1, <3>2, <1>1 DEF Undisturbed
  <2>2. CASE e # c /\ d # c
    BY <2>2, <1>3, <1>4 DEF NoStopBeside
  <2>3. CASE e # c /\ d = c
    <3>1. Stopping(e)
      BY <2>3, <1>3
    <3>2. c \in disturbed'
      BY <3>1, <1>1
    <3>3. QED
      BY <2>3, <3>2 DEF Undisturbed
  <2>4. QED
    BY <2>1, <2>2, <2>3
<1>9. WorkerComes' /\ WorkerAnswers'
  BY <1>2, <1>4 DEF WorkerComes, WorkerAnswers, Listening, Answers
<1>10. QED
  BY <1>5, <1>6, <1>7, <1>8, <1>9

\* A command that moves on: what has to be seen to at its new place.
LEMMA ClientMoves ==
  ASSUME Domains, LossInv, NEW c \in Client, Running(c), disturbed' = disturbed,
         client'[c].cmd = client[c].cmd,
         \A d \in Client \ {c} : client'[d] = client[d],
         \A w \in Worker :
           /\ worker[w] = "starting" => worker'[w] = "starting"
           /\ Listening(w) => Listening(w)'
           /\ Answers(w) => Answers(w)',
         ClosingAwaited',
         client'[c].at \in {"post", "free", "probed"} => client[c].cmd \in {"stop", "restart"},
         client'[c].at \in {"check", "send", "lost"} => client[c].cmd = "hook",
         \A d \in probing' : client'[d].at = "probed",
         client'[c].at = "await" =>
           \E w \in Worker : worker'[w] = "starting" \/ Listening(w)',
         Undisturbed(c) /\ client'[c].at \in {"check", "send"} => \E w \in Worker : Answers(w)',
         client'[c].at = "lost" => c \in disturbed
  PROVE  LossInv'
<1> USE DEF LossInv
<1>1. \A d \in Client :
        (Undisturbed(d)' => Undisturbed(d)) /\ (Stopping(d)' => Stopping(d))
  BY DEF Undisturbed, Stopping, Running, Finished
<1>2. StepsOfCommands'
  BY DEF StepsOfCommands
<1>3. NoStopBeside'
  BY <1>1 DEF NoStopBeside
<1>4. WorkerComes'
  BY <1>1 DEF WorkerComes
<1>5. WorkerAnswers'
  BY <1>1 DEF WorkerAnswers
<1>6. LossExplained'
  BY DEF LossExplained
<1>7. QED
  BY <1>2, <1>3, <1>4, <1>5, <1>6

\* A hook that waits, checks or sends undisturbed always has its worker.
LEMMA HookMoves ==
  ASSUME Domains, LossInv, NEW c \in Client,
         Ready(c) \/ NotReady(c) \/ StartTimeout(c) \/ Call(c) \/ CallRefused(c)
  PROVE  LossInv'
<1>1. /\ client[c].at \in {"probe", "await", "check", "send"}
      /\ probing' = probing /\ disturbed' = disturbed /\ Running(c)
  BY DEF Ready, NotReady, StartTimeout, Call, CallRefused, Running, Finished
<1>2. PICK at \in Stage : Goto(c, at) /\ at \notin {"post", "free", "probed", "idle"}
  BY DEF Ready, NotReady, StartTimeout, Call, CallRefused, AfterStart, Stage
<1>3. /\ client'[c].at = at /\ client'[c].cmd = client[c].cmd
      /\ \A d \in Client \ {c} : client'[d] = client[d]
  BY <1>2 DEF Goto, Domains
<1>4. \A w \in Worker :
        /\ worker[w] = "starting" => worker'[w] = "starting"
        /\ Listening(w) => Listening(w)'
        /\ Answers(w) => Answers(w)'
        /\ worker'[w] = "closing" => worker[w] = "closing"
  <2>1. CASE NotReady(c)
    BY <2>1, SpawnLoss DEF NotReady
  <2>2. CASE worker' = worker
    BY <2>2 DEF Listening, Answers
  <2>3. QED
    BY <2>1, <2>2 DEF Ready, StartTimeout, Call, CallRefused
<1>5. ClosingAwaited'
  BY <1>1, <1>3, <1>4 DEF LossInv, ClosingAwaited
<1>6. \A d \in probing' : client'[d].at = "probed"
  BY <1>1, <1>3 DEF LossInv, StepsOfCommands, Domains
<1>7. at \in {"check", "send", "lost"} => client[c].cmd = "hook"
  BY <1>2, <1>3 DEF Ready, NotReady, StartTimeout, Call, CallRefused, AfterStart, Goto, Domains,
                    LossInv, StepsOfCommands
<1>8. at = "await" => \E w \in Worker : worker'[w] = "starting"
  <2>1. CASE NotReady(c)
    BY <2>1, SpawnLoss DEF NotReady
  <2>2. CASE ~ NotReady(c)
    BY <2>2, <1>2, <1>3 DEF Ready, StartTimeout, Call, CallRefused, AfterStart, Goto, Domains
  <2>3. QED
    BY <2>1, <2>2
<1>9. ASSUME Undisturbed(c), at \in {"check", "send", "lost"}
      PROVE  \E w \in Worker : Answers(w)
  <2>1. ~ NotReady(c)
    BY <1>9, <1>3 DEF NotReady, Goto, Domains
  <2>2. ~ StartTimeout(c)
    BY <1>9 DEF StartTimeout, NobodyListens, LossInv, WorkerComes
  <2>3. ~ CallRefused(c)
    BY <1>9 DEF CallRefused, NobodyListens, LossInv, WorkerAnswers, Answers, Listening
  <2>4. QED
    BY <2>1, <2>2, <2>3 DEF Ready, Call
<1>10. at = "lost" => c \in disturbed
  <2> SUFFICES ASSUME at = "lost", c \notin disturbed PROVE FALSE
    OBVIOUS
  <2>1. Undisturbed(c)
    BY <1>1, <1>7 DEF Undisturbed
  <2>2. \E w \in Worker : Answers(w)
    BY <1>9, <2>1
  <2>3. CallRefused(c)
    BY <1>2, <1>3 DEF Ready, NotReady, StartTimeout, Call, AfterStart, Goto, Domains
  <2>4. QED
    BY <2>2, <2>3 DEF CallRefused, NobodyListens, Answers, Listening
<1>11. QED
  BY <1>1, <1>2, <1>3, <1>4, <1>5, <1>6, <1>7, <1>8, <1>9, <1>10, ClientMoves

\* A stop waits for the port as long as a worker is closing.
LEMMA StopMoves ==
  ASSUME Domains, OneListener, LossInv, NEW c \in Client,
         \/ PostShutdown(c) \/ PostRefused(c)
         \/ ProbePort(c) \/ ReleasePort(c) \/ StopTimeout(c)
  PROVE  LossInv'
<1>1. /\ client[c].at \in {"post", "free", "probed"} /\ disturbed' = disturbed
      /\ Running(c) /\ client[c].cmd \in {"stop", "restart"}
  BY DEF PostShutdown, PostRefused, ProbePort, ReleasePort, StopTimeout, Running, Finished,
         LossInv, StepsOfCommands
<1>2. /\ client'[c].at \in {"free", "probed", "probe", "ok", "failed"}
      /\ client'[c].cmd = client[c].cmd
      /\ \A d \in Client \ {c} : client'[d] = client[d]
  BY DEF PostShutdown, PostRefused, ProbePort, ReleasePort, StopTimeout, ShutdownGoesTo,
         AfterStop, Goto, Domains
<1>3. \A w \in Worker :
        /\ worker[w] = "starting" => worker'[w] = "starting"
        /\ Listening(w) => Listening(w)'
        /\ Answers(w) => Answers(w)'
  BY DEF PostShutdown, PostRefused, ProbePort, ReleasePort, StopTimeout, Listening, Answers, Domains
<1>4. \A d \in probing' : client'[d].at = "probed"
  <2>1. CASE ProbePort(c)
    BY <2>1, <1>2 DEF ProbePort, PortFree, Goto, Domains
  <2>2. CASE ReleasePort(c)
    BY <2>2, <1>2 DEF ReleasePort, LossInv, StepsOfCommands, Domains
  <2>3. CASE PostShutdown(c) \/ PostRefused(c) \/ StopTimeout(c)
    BY <2>3, <1>2 DEF PostShutdown, PostRefused, StopTimeout, LossInv, StepsOfCommands, Domains
  <2>4. QED
    BY <2>1, <2>2, <2>3
<1>5. ClosingAwaited'
  <2>1. CASE PostShutdown(c) \/ PostRefused(c)
    <3>1. client'[c].at = "free"
      BY <2>1 DEF PostShutdown, PostRefused, ShutdownGoesTo, Goto, Domains
    <3>2. QED
      BY <3>1 DEF ClosingAwaited
  <2>2. CASE ProbePort(c) \/ StopTimeout(c)
    <3>1. \A w \in Worker : worker[w] # "closing"
      BY <2>2 DEF ProbePort, PortFree, StopTimeout, OneListener, Listening
    <3>2. QED
      BY <2>2, <3>1 DEF ProbePort, StopTimeout, ClosingAwaited
  <2>3. CASE ReleasePort(c)
    BY <2>3, <1>2 DEF ReleasePort, LossInv, ClosingAwaited
  <2>4. QED
    BY <2>1, <2>2, <2>3
<1>6. QED
  BY <1>1, <1>2, <1>3, <1>4, <1>5, ClientMoves

LEMMA LossNext == LifecycleInv /\ LossInv /\ [Next]_vars => LossInv'
<1> SUFFICES ASSUME Domains, OneListener, LossInv, [Next]_vars PROVE LossInv'
  BY DEF LifecycleInv
<1>1. ASSUME NEW w \in Worker, Work(w) \/ Leave(w) \/ Kill(w) PROVE LossInv'
  BY <1>1, WorkLoss, KillLoss
<1>2. CASE ServiceStart
  BY <1>2, ServiceLoss
<1>3. ASSUME NEW c \in Client, Begin(c) \/ Proceed(c) PROVE LossInv'
  BY <1>3, BeginLoss, HookMoves, StopMoves DEF Proceed
<1>4. CASE UNCHANGED vars
  BY <1>4, WorkersMove DEF vars, Listening, Answers
<1>5. QED
  BY <1>1, <1>2, <1>3, <1>4 DEF Next

\* However many hooks, starts and service restarts race for the port: the call of
\* a hook is lost only if a stop, a restart or a kill came in its way
\* (hooks/mod.rs:148-149).
THEOREM HooksLoseNothing == Spec => []LossExplained
<1>1. Init => LossInv
  BY LossInit
<1>2. LifecycleInv /\ LossInv /\ [Next]_vars => LossInv'
  BY LossNext
<1>3. LossInv => LossExplained
  BY DEF LossInv
<1>4. QED
  BY <1>1, <1>2, <1>3, LifecycleInvariant, PTL DEF Spec
=============================================================================
