--------------------------- MODULE DashboardFeed ---------------------------
(***************************************************************************)
(* The dashboard's live data (apps/dashboard/app/dashboard.tsx) and the    *)
(* event stream it follows (stream, http/routes/mod.rs; AppState::publish, *)
(* http/router.rs).                                                        *)
(*                                                                         *)
(* Handlers of the worker store memories and announce them afterwards on a *)
(* broadcast channel.  The page opens an EventSource, whose first message  *)
(* is a snapshot taken before the subscription, and answers every message  *)
(* by a refresh 650 ms later; refreshes also follow a change of the metric *)
(* window and the answers to the page's own POSTs, and any number of them  *)
(* are under way at once.                                                  *)
(*                                                                         *)
(* Memories are numbered in the order they are stored.  A refresh sends    *)
(* six requests and uses the answers together: the moment that matters is  *)
(* the one at which the list of memories is read.                          *)
(***************************************************************************)
EXTENDS Naturals, Sequences, FiniteSets

CONSTANTS Window,       \* the metric windows
          FirstWindow,  \* the window of the first render
          NoWindow,
          NotRead,
          SnapLimit,    \* memories in the snapshot of a new stream
          PageLimit,    \* memories a refresh asks for
          ChannelCap,   \* messages the broadcast channel keeps
          OldItems,     \* memories stored before the page is opened
          MaxItems,     \* bound: memories stored
          MaxWorkers,   \* bound: worker processes, one after the other; the last one stays
          MaxEvents,    \* bound: buttons clicked and requests answered by an error
          MaxRefreshes  \* bound: refreshes under way at once

ASSUME FeedAssumption ==
  /\ FirstWindow \in Window /\ NoWindow \notin Window
  /\ SnapLimit \in Nat /\ PageLimit \in Nat /\ ChannelCap \in Nat \ {0}
  /\ NotRead \notin Nat
  /\ MaxItems \in Nat /\ OldItems \in 0..MaxItems /\ MaxWorkers \in Nat \ {0}
  /\ MaxEvents \in Nat /\ MaxRefreshes \in Nat \ {0}

VARIABLES worker,    \* what each worker process is doing
          stored,    \* memories in the database
          handlers,  \* requests that have stored a memory and not announced it yet
          announced, \* the newest memory a worker announced while it listened...
          announcer, \* ... and that worker; 0 for those of before
          conn,      \* the page's EventSource
          page,      \* metricWindow, and the window whose effect runs
          timers,    \* the effects whose refreshTimer is armed
          refreshes, \* the calls of refreshAll under way, in the order they began
          posts,     \* the page's POSTs under way
          feed,      \* observations and summaries, as the page has them
          metrics,   \* the window the queue's figures are about
          connected, \* the page says "live"
          outcome,   \* history: how the last refresh that changed the page ended
          happened   \* clicks and errors so far

serverVars == <<worker, stored, handlers, announced, announcer>>
streamVars == <<conn, timers>>
shownVars == <<feed, metrics, connected, outcome>>
vars == <<serverVars, streamVars, page, refreshes, posts, shownVars, happened>>

Workers == 1..MaxWorkers

\* One more click or error.
Happen == happened < MaxEvents /\ happened' = happened + 1

Up(w) == w \in Workers /\ worker[w] = "up"

\* Alive: it works on what it has accepted, until the last of it is done.
Alive(w) == w \in Workers /\ worker[w] \in {"up", "closed"}

\* The worker that listens on the port, 0 when none does.
Listener == IF \E w \in Workers : Up(w) THEN CHOOSE w \in Workers : Up(w) ELSE 0

\* The newest n of the first v memories.
Newest(v, n) == {i \in 1..v : i + n > v}

\* An EventSource that has sent its request.
Requested == [at |-> "connecting", worker |-> 0, snap |-> NotRead,
              first |-> FALSE, live |-> 0, lagged |-> FALSE]

\* A call of refreshAll by the closure of a render with the given window.
Call(window, from) ==
  [window |-> window, from |-> from, worker |-> Listener, read |-> NotRead, late |-> FALSE]

\* The worker has served the page, and the first render's effects have run: the
\* window saved in localStorage is chosen, while the stream's effect, which
\* belongs to the first render, has opened the source and called refreshAll.
Init ==
  /\ worker = [w \in Workers |-> IF w = 1 THEN "up" ELSE "unused"]
  /\ stored = OldItems /\ handlers = {} /\ announced = OldItems /\ announcer = 0
  /\ conn = Requested
  /\ \E saved \in Window : page = [chosen |-> saved, effect |-> FirstWindow]
  /\ timers = {} /\ refreshes = <<Call(FirstWindow, "effect")>> /\ posts = {}
  /\ feed = {} /\ metrics = NoWindow /\ connected = FALSE
  /\ outcome = "none"
  /\ happened = 0

-----------------------------------------------------------------------------
(* The worker.                                                             *)

\* What the subscriber of a channel finds after one more message: the oldest
\* one makes room, and the subscriber is told that it lags.
Pushed(c) ==
  IF c.live < ChannelCap THEN [c EXCEPT !.live = c.live + 1] ELSE [c EXCEPT !.lagged = TRUE]

\* The page's stream is one of the channel's receivers.
Subscribed(w) == conn.worker = w /\ conn.at \in {"subscribed", "open"}

\* state.publish, at the end of a handler of worker w.
Publish(w, item) ==
  /\ IF Up(w) /\ item > announced
     THEN announced' = item /\ announcer' = w
     ELSE UNCHANGED <<announced, announcer>>
  /\ conn' = IF Subscribed(w) THEN Pushed(conn) ELSE conn

\* A handler stores a memory...
StoreItem ==
  /\ stored < MaxItems /\ Listener # 0
  /\ stored' = stored + 1
  /\ handlers' = handlers \cup {[item |-> stored + 1, worker |-> Listener]}
  /\ UNCHANGED <<worker, announced, announcer, streamVars, page, refreshes, posts, shownVars, happened>>

\* ... and announces it once the index has been told.
Announce(h) ==
  /\ h \in handlers
  /\ handlers' = handlers \ {h}
  /\ Publish(h.worker, h.item)
  /\ UNCHANGED <<worker, stored, timers, page, refreshes, posts, shownVars, happened>>

\* The client hangs up while the index is being told: the handler is dropped.
DropHandler(h) ==
  /\ h \in handlers
  /\ handlers' = handlers \ {h}
  /\ UNCHANGED <<worker, stored, announced, announcer, streamVars, page, refreshes, posts, shownVars,
                 happened>>

\* A graceful shutdown: the worker listens no more and finishes what it has accepted.
Shutdown(w) ==
  /\ Up(w) /\ w < MaxWorkers
  /\ worker' = [worker EXCEPT ![w] = "closed"]
  /\ UNCHANGED <<stored, handlers, announced, announcer, streamVars, page, refreshes, posts, shownVars,
                 happened>>

\* Something the worker has accepted and not finished, an event stream among them.
Serving(w) ==
  \/ conn.worker = w /\ conn.at \in {"snapped", "subscribed", "open"}
  \/ \E h \in handlers : h.worker = w
  \/ \E i \in DOMAIN refreshes : refreshes[i].worker = w
  \/ \E p \in posts : p.worker = w

\* The last connection of a worker that was shut down is closed.
Leave(w) ==
  /\ worker[w] = "closed" /\ ~ Serving(w)
  /\ worker' = [worker EXCEPT ![w] = "gone"]
  /\ UNCHANGED <<stored, handlers, announced, announcer, streamVars, page, refreshes, posts, shownVars,
                 happened>>

\* A worker dies, and its connections with it.
Kill(w) ==
  /\ Alive(w) /\ w < MaxWorkers
  /\ worker' = [worker EXCEPT ![w] = "gone"]
  /\ handlers' = {h \in handlers : h.worker # w}
  /\ conn' = IF conn.worker = w THEN [conn EXCEPT !.at = "lost"] ELSE conn
  /\ UNCHANGED <<stored, announced, announcer, timers, page, refreshes, posts, shownVars, happened>>

\* Another worker is started, once the port is free.
StartWorker(w) ==
  /\ worker[w] = "unused" /\ Listener = 0
  /\ \A v \in Workers : v < w => worker[v] # "unused"
  /\ worker' = [worker EXCEPT ![w] = "up"]
  /\ UNCHANGED <<stored, handlers, announced, announcer, streamVars, page, refreshes, posts, shownVars,
                 happened>>

-----------------------------------------------------------------------------
(* The stream: the route's handler and the browser's EventSource.          *)

\* stream takes the snapshot; if that fails, the message carries no memories.
TakeSnapshot ==
  /\ conn.at = "connecting" /\ Listener # 0
  /\ \/ /\ conn' = [conn EXCEPT !.at = "snapped", !.worker = Listener,
                                !.snap = stored]
        /\ UNCHANGED happened
     \/ /\ Happen
        /\ conn' = [conn EXCEPT !.at = "snapped", !.worker = Listener]
  /\ UNCHANGED <<serverVars, timers, page, refreshes, posts, shownVars>>

\* ... and only then subscribes to the channel.
Subscribe ==
  /\ conn.at = "snapped"
  /\ conn' = [conn EXCEPT !.at = "subscribed"]
  /\ UNCHANGED <<serverVars, timers, page, refreshes, posts, shownVars, happened>>

\* The answer's head arrives (source.onopen); the snapshot comes first.
Opened ==
  /\ conn.at = "subscribed"
  /\ conn' = [conn EXCEPT !.at = "open", !.first = TRUE]
  /\ connected' = TRUE
  /\ UNCHANGED <<serverVars, timers, page, refreshes, posts, feed, metrics, outcome, happened>>

\* Fault: nothing is done when the stream breaks.
OnError_Silent == UNCHANGED connected

\* source.onerror
OnError == connected' = FALSE

\* The attempt to connect is refused; the browser tries again a little later.
Refused ==
  /\ conn.at = "connecting" /\ Listener = 0
  /\ OnError
  /\ UNCHANGED <<serverVars, streamVars, page, refreshes, posts, feed, metrics, outcome, happened>>

\* The stream breaks: the browser reconnects.
Lost ==
  /\ conn.at = "lost"
  /\ conn' = Requested
  /\ OnError
  /\ UNCHANGED <<serverVars, timers, page, refreshes, posts, feed, metrics, outcome, happened>>

\* Fault: the timer is cleared and not armed anew.
Schedule_Clears == timers' = timers \ {page.effect}

\* scheduleRefresh: the effect's timer is armed anew.
Schedule == timers' = timers \cup {page.effect}

\* Fault: the snapshot is taken for a refresh.
ScheduleFirst_Not == UNCHANGED timers

\* What initial_load schedules: the same as every other event.
ScheduleFirst == Schedule

\* initial_load: the snapshot replaces the lists.
DeliverInitial ==
  /\ conn.at = "open" /\ conn.first
  /\ conn' = [conn EXCEPT !.first = FALSE, !.snap = NotRead]
  /\ feed' = IF conn.snap = NotRead THEN feed ELSE Newest(conn.snap, SnapLimit)
  /\ ScheduleFirst
  /\ UNCHANGED <<serverVars, page, refreshes, posts, metrics, connected, outcome, happened>>

\* Any other event: an announcement, or stream_lagged for those that were dropped.
DeliverEvent ==
  /\ conn.at = "open" /\ ~ conn.first
  /\ \/ conn.lagged /\ conn' = [conn EXCEPT !.lagged = FALSE]
     \/ ~ conn.lagged /\ conn.live > 0 /\ conn' = [conn EXCEPT !.live = conn.live - 1]
  /\ Schedule
  /\ UNCHANGED <<serverVars, page, refreshes, posts, shownVars, happened>>

-----------------------------------------------------------------------------
(* refreshAll.                                                             *)

Begin(window, from) ==
  /\ Len(refreshes) < MaxRefreshes
  /\ refreshes' = Append(refreshes, Call(window, from))

\* The timer has run down.
TimerFires(w) ==
  /\ w \in timers
  /\ timers' = timers \ {w}
  /\ Begin(w, "timer")
  /\ UNCHANGED <<serverVars, conn, page, posts, shownVars, happened>>

\* The worker that has accepted the requests reads the memories, and answers.
Read(i) ==
  /\ i \in DOMAIN refreshes /\ refreshes[i].read = NotRead
  /\ Alive(refreshes[i].worker)
  /\ refreshes' = [refreshes EXCEPT ![i] =
                     [window |-> refreshes[i].window, from |-> refreshes[i].from,
                      worker |-> 0, read |-> stored, late |-> refreshes[i].late]]
  /\ UNCHANGED <<serverVars, streamVars, page, posts, shownVars, happened>>

\* Call i has ended: the calls that began before it are overtaken.
Without(i) ==
  [j \in 1..(Len(refreshes) - 1) |->
    IF j < i THEN [window |-> refreshes[j].window, from |-> refreshes[j].from,
                   worker |-> refreshes[j].worker, read |-> refreshes[j].read, late |-> TRUE]
             ELSE refreshes[j + 1]]

Fashion(r) == IF r.late THEN "late" ELSE IF r.from = "post" THEN "post" ELSE "own"

\* Fault: what refreshAll shows leaves the pill alone.
ShowLive_Not == UNCHANGED connected

\* setConnected(true): a worker has answered.
ShowLive == connected' = TRUE

\* Every answer is there: they are shown together.
Apply(i) ==
  /\ i \in DOMAIN refreshes /\ refreshes[i].read # NotRead
  /\ feed' = Newest(refreshes[i].read, PageLimit)
  /\ metrics' = refreshes[i].window
  /\ ShowLive
  /\ outcome' = Fashion(refreshes[i])
  /\ refreshes' = Without(i)
  /\ UNCHANGED <<serverVars, streamVars, page, posts, happened>>

\* A call fails: only the effect's own first call takes the page for offline.
Fail(i) ==
  /\ refreshes' = Without(i)
  /\ connected' = (connected /\ refreshes[i].from # "effect")
  /\ UNCHANGED <<serverVars, streamVars, page, posts, feed, metrics>>

\* The worker the requests were sent to is gone or does not accept them any more,
\* or there was none.
Unanswered(i) ==
  /\ i \in DOMAIN refreshes /\ refreshes[i].read = NotRead
  /\ ~ Up(refreshes[i].worker)
  /\ Fail(i)
  /\ outcome' = IF refreshes[i].from = "effect" /\ refreshes[i].late THEN "late" ELSE outcome
  /\ UNCHANGED happened

\* One of the six answers is an error.
Refuse(i) ==
  /\ i \in DOMAIN refreshes /\ refreshes[i].read = NotRead
  /\ Alive(refreshes[i].worker)
  /\ Happen
  /\ Fail(i)
  /\ outcome' = "error"

-----------------------------------------------------------------------------
(* Effects and buttons.                                                    *)

\* Fault: the timer of the effect that ends is left armed.
Cleanup_KeepTimer == timers' = timers

\* The clean-up of the effect that ends; calls under way go on.
Cleanup == timers' = timers \ {page.effect}

\* changeMetricWindow
ChangeWindow ==
  /\ Happen
  /\ \E w \in Window \ {page.chosen} : page' = [chosen |-> w, effect |-> page.effect]
  /\ UNCHANGED <<serverVars, streamVars, refreshes, posts, shownVars>>

\* Fault: the effect does not depend on the window, and does not run again.
RunEffect_Once ==
  /\ page.effect # page.chosen
  /\ page' = [chosen |-> page.chosen, effect |-> page.chosen]
  /\ UNCHANGED <<serverVars, streamVars, refreshes, posts, shownVars, happened>>

\* The stream's effect runs again: close the source, open another, refresh.
RunEffect ==
  /\ page.effect # page.chosen
  /\ Cleanup
  /\ page' = [chosen |-> page.chosen, effect |-> page.chosen]
  /\ conn' = Requested
  /\ Begin(page.chosen, "effect")
  /\ UNCHANGED <<serverVars, posts, shownVars, happened>>

\* processQueue, saveManualMemory and saveSettings: a POST, and after its answer
\* the refreshAll of the render whose button was clicked, which may be one whose
\* window is about to be replaced.
Click ==
  /\ Happen
  /\ \E window \in {page.chosen, page.effect}, kind \in {"queue", "memory", "settings"} :
       posts' = posts \cup {[window |-> window, worker |-> Listener, at |-> kind, item |-> 0]}
  /\ UNCHANGED <<serverVars, streamVars, page, refreshes, shownVars>>

Answer(p) ==
  (posts \ {p}) \cup {[window |-> p.window, worker |-> 0, at |-> "answered", item |-> 0]}

\* memory_save stores a memory, pending_queue_process one of those the queue held.
PostStores(p) ==
  /\ p.at \in {"queue", "memory"} /\ Alive(p.worker)
  /\ stored < MaxItems /\ stored' = stored + 1
  /\ posts' = (posts \ {p}) \cup {[p EXCEPT !.at = IF @ = "memory" THEN "stored" ELSE "queue",
                                          !.item = stored + 1]}
  /\ UNCHANGED <<worker, handlers, announced, announcer, streamVars, page, refreshes, shownVars,
                 happened>>

\* Either publishes once the index has been told, and answers.
PostPublishes(p) ==
  /\ p.at \in {"queue", "stored"} /\ Alive(p.worker)
  /\ Publish(p.worker, p.item)
  /\ posts' = Answer(p)
  /\ UNCHANGED <<worker, stored, handlers, timers, page, refreshes, shownVars, happened>>

\* settings_post has nothing to publish.
PostSettings(p) ==
  /\ p.at = "settings" /\ Alive(p.worker)
  /\ posts' = Answer(p)
  /\ UNCHANGED <<serverVars, streamVars, page, refreshes, shownVars, happened>>

\* The answer is there.
PostAnswered(p) ==
  /\ p.at = "answered"
  /\ posts' = posts \ {p}
  /\ Begin(p.window, "post")
  /\ UNCHANGED <<serverVars, streamVars, page, shownVars, happened>>

\* No refresh: the worker is gone or takes no more requests, or the answer is an error;
\* what a worker that died has stored stays in the database.
PostFails(p) ==
  /\ p.at # "answered"
  /\ \/ ~ Alive(p.worker) /\ UNCHANGED happened
     \/ ~ Up(p.worker) /\ p.item = 0 /\ UNCHANGED happened
     \/ Alive(p.worker) /\ p.at # "stored" /\ Happen
  /\ posts' = posts \ {p}
  /\ UNCHANGED <<serverVars, streamVars, page, refreshes, shownVars>>

-----------------------------------------------------------------------------
(* What the page shows.                                                    *)

\* The memory cards, whatever the filters let through.
Shown(chosen) == feed \cap chosen

\* The pill in the header.
Pill == IF connected THEN "live" ELSE "offline"

\* windowLabel, which the figures carry: the window of the answer they come from.
WindowLabel == IF metrics = NoWindow THEN FirstWindow ELSE metrics

-----------------------------------------------------------------------------
\* The life of the stream, one step at a time.
Stream == TakeSnapshot \/ Subscribe \/ Opened \/ Lost \/ Refused \/ DeliverInitial \/ DeliverEvent

\* A call of refreshAll goes on.
Refreshing == \E i \in 1..MaxRefreshes : Read(i) \/ Apply(i) \/ Unanswered(i)

Firing == \E w \in Window : TimerFires(w)

Next ==
  \/ StoreItem
  \/ \E h \in handlers : Announce(h) \/ DropHandler(h)
  \/ \E w \in Workers : Shutdown(w) \/ Leave(w) \/ Kill(w) \/ StartWorker(w)
  \/ Stream \/ Firing \/ Refreshing \/ RunEffect
  \/ \E i \in 1..MaxRefreshes : Refuse(i)
  \/ ChangeWindow \/ Click
  \/ \E p \in posts : \/ PostStores(p) \/ PostPublishes(p) \/ PostSettings(p)
                      \/ PostAnswered(p) \/ PostFails(p)

\* The browser's tasks run, requests are answered or fail, and the stream's
\* messages arrive; nobody need store, announce, click, stop or start anything.
Spec ==
  /\ Init /\ [][Next]_vars
  /\ WF_vars(Stream) /\ WF_vars(Firing) /\ WF_vars(Refreshing) /\ WF_vars(RunEffect)
=============================================================================
