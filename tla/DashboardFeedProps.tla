------------------------- MODULE DashboardFeedProps -------------------------
(* What the page shows of the worker's memories.                           *)
EXTENDS DashboardFeed

\* Every variable stays in its domain; only the effect that runs has a timer.
FeedTypeOK ==
  /\ worker \in [Workers -> {"unused", "up", "closed", "gone"}]
  /\ stored \in 0..MaxItems /\ announced \in 0..stored /\ announcer \in 0..MaxWorkers
  /\ handlers \subseteq [item : 1..MaxItems, worker : Workers]
  /\ conn \in [at : {"connecting", "snapped", "subscribed", "open", "lost"},
               worker : 0..MaxWorkers, snap : (0..MaxItems) \cup {NotRead},
               first : BOOLEAN, live : 0..ChannelCap, lagged : BOOLEAN]
  /\ page \in [chosen : Window, effect : Window]
  /\ timers \subseteq {page.effect}
  /\ refreshes \in Seq([window : Window, from : {"effect", "timer", "post"},
                        worker : 0..MaxWorkers, read : (0..MaxItems) \cup {NotRead},
                        late : BOOLEAN])
  /\ Len(refreshes) <= MaxRefreshes
  /\ posts \subseteq [window : Window, worker : 0..MaxWorkers,
                      at : {"queue", "memory", "settings", "stored", "answered"}, item : 0..MaxItems]
  /\ feed \subseteq 1..MaxItems
  /\ metrics \in Window \cup {NoWindow}
  /\ connected \in BOOLEAN
  /\ outcome \in {"none", "own", "post", "late", "error"}
  /\ happened \in 0..MaxEvents

-----------------------------------------------------------------------------
\* Nothing is under way on the page, and its stream is open...
PageQuiet ==
  /\ page.effect = page.chosen
  /\ conn.at = "open" /\ ~ conn.first /\ ~ conn.lagged /\ conn.live = 0
  /\ timers = {} /\ refreshes = <<>>

\* ... to the worker that listens.
Quiet == PageQuiet /\ Up(conn.worker)

\* The list shows the newest memories, those announced among them.
IsCurrent ==
  \E v \in announced..stored :
    \A chosen \in SUBSET (1..MaxItems) : Shown(chosen) = Newest(v, PageLimit) \cap chosen

\* A page at rest shows every memory that was announced (dashboard.tsx:245-290),
\* whatever happened between its snapshot and its subscription, whatever the
\* channel dropped and however often the worker died, unless a request was
\* answered by an error or a call of refreshAll ended after a later one.
FeedCurrent == Quiet /\ outcome \notin {"late", "error"} => IsCurrent

\* The figures of a page at rest are those of the window chosen (dashboard.tsx:233
\* and 290), although calls of an earlier window are never cancelled: with the
\* exceptions of FeedCurrent, and that of a button clicked before the window was
\* changed and answered afterwards.
WindowShown == Quiet /\ outcome \notin {"late", "error", "post"} => WindowLabel = page.chosen

\* A page at rest whose worker serves it says "live" (dashboard.tsx:257-264), in
\* whatever order the stream opened and its first calls failed.
PillTruthful == Quiet /\ outcome \notin {"late", "error"} => Pill = "live"

\* When no worker is left, the page says "offline" in the end, although answers
\* that arrive after the stream broke say "live" again (dashboard.tsx:242 and 264).
OfflineShown ==
  (\A w \in Workers : ~ Alive(w)) ~> Pill = "offline" \/ \E w \in Workers : Alive(w)

Has(i) == \E j \in feed : j >= i

\* What is announced is shown in the end (dashboard.tsx:265-285), with the exceptions
\* of FeedCurrent and as long as the page's stream is that of the worker that listens.
FeedCatchesUp ==
  \A i \in 1..MaxItems :
    announced >= i ~>
      \/ Has(i) \/ outcome \in {"late", "error"}
      \/ Listener = 0 \/ (conn.worker # 0 /\ ~ Up(conn.worker))

\* "browser viewer shell with live SSE events for session, observation, summary,
\* queue, and manual-memory lifecycle changes" (README.md:59): a page that says
\* "live" and is at rest has heard of the newest memory that was announced, where the
\* worker that announced it is the one that listens.
LiveEventsArrive ==
  /\ PageQuiet /\ Pill = "live"
  /\ announcer # 0 /\ announcer = Listener
  /\ outcome \notin {"late", "error"}
  => Has(announced)
=============================================================================
