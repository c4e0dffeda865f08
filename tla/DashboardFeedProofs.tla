------------------------ MODULE DashboardFeedProofs ------------------------
(***************************************************************************)
(* What is proved of the page and its stream, for any number of workers,   *)
(* memories, windows and refreshes: the types, that a page at rest is      *)
(* current, that its figures are those of the window chosen, and that its  *)
(* pill tells the truth.                                                   *)
(*                                                                         *)
(* The argument: once the page has heard what its stream had to say and    *)
(* its timer has run down, either the page is right already, or a call of  *)
(* refreshAll is under way that will set it right, and every call that     *)
(* could spoil it began before such a call.                                *)
(***************************************************************************)
EXTENDS DashboardFeedProps, SequenceTheorems, TLAPS

\* The calls of refreshAll, one and all.
Calls == [window : Window, from : {"effect", "timer", "post"},
          worker : 0..MaxWorkers, read : (0..MaxItems) \cup {NotRead}, late : BOOLEAN]

\* The page's EventSource, whatever its state.
Conns == [at : {"connecting", "snapped", "subscribed", "open", "lost"},
          worker : 0..MaxWorkers, snap : (0..MaxItems) \cup {NotRead},
          first : BOOLEAN, live : 0..ChannelCap, lagged : BOOLEAN]

\* The page's POSTs.
Posts == [window : Window, worker : 0..MaxWorkers,
          at : {"queue", "memory", "settings", "stored", "answered"}, item : 0..MaxItems]

\* Memories are announced and read after they are stored.
StoredFirst ==
  /\ \A p \in posts : p.item <= stored
  /\ \A h \in handlers : h.item <= stored
  /\ \A i \in DOMAIN refreshes : refreshes[i].read # NotRead => refreshes[i].read <= stored

\* One worker at a time listens.
OneUp == \A v, w \in Workers : Up(v) /\ Up(w) => v = w

\* A stream belongs to a worker that was started.
StreamStarted == conn.worker # 0 => worker[conn.worker] # "unused"

\* The page follows the worker that listens and has no timer armed...
Fed == conn.at = "open" /\ ~ conn.first /\ timers = {} /\ Up(conn.worker)

\* ... and there is nothing left to hear.
Heard == Fed /\ conn.live = 0 /\ ~ conn.lagged

\* A call that is answered, or waits for the worker the page follows.
Sure(r) == r.read # NotRead \/ r.worker = conn.worker

\* A call that brings the figures of the effect's window.
InWindow(r) == r.window = page.effect /\ Sure(r)

\* A call that brings every announced memory.
Fresh(r) == IF r.read = NotRead THEN r.worker = conn.worker ELSE announced <= r.read

\* The figures are right or will be...
WindowSoon ==
  Fed => \/ metrics = page.effect
         \/ outcome \in {"late", "error", "post"}
         \/ \E k \in DOMAIN refreshes : InWindow(refreshes[k])

\* ... and a call of another window is overtaken by one of this window.
WindowOvertaken ==
  Fed => \A j \in DOMAIN refreshes :
           ~ refreshes[j].late /\ refreshes[j].from # "post" /\ refreshes[j].window # page.effect =>
             \E k \in DOMAIN refreshes : k > j /\ InWindow(refreshes[k])

\* The memories are the newest or will be...
FeedSoon ==
  Heard => \/ \E v \in announced..stored : feed = Newest(v, PageLimit)
           \/ outcome \in {"late", "error"}
           \/ \E k \in DOMAIN refreshes : Fresh(refreshes[k])

\* ... and a call that has read too early is overtaken by one that has not.
FeedOvertaken ==
  Heard => \A j \in DOMAIN refreshes :
             ~ refreshes[j].late /\ refreshes[j].read # NotRead /\ refreshes[j].read < announced =>
               \E k \in DOMAIN refreshes : k > j /\ Fresh(refreshes[k])

\* The pill is right or will be...
PillSoon ==
  Fed => \/ connected
         \/ outcome \in {"late", "error"}
         \/ \E k \in DOMAIN refreshes : Sure(refreshes[k])

\* ... and an effect's call that may fail is overtaken by a call that will not.
PillOvertaken ==
  Fed => \A j \in DOMAIN refreshes :
           ~ refreshes[j].late /\ refreshes[j].from = "effect" /\ ~ Sure(refreshes[j]) =>
             \E k \in DOMAIN refreshes : k > j /\ Sure(refreshes[k])

\* The part about what is under way.
Promise ==
  /\ WindowSoon /\ WindowOvertaken
  /\ FeedSoon /\ FeedOvertaken
  /\ PillSoon /\ PillOvertaken

\* The part about the worker and the types.
Base == FeedTypeOK /\ StoredFirst /\ OneUp /\ StreamStarted

FeedInv == Base /\ Promise

-----------------------------------------------------------------------------
\* The listener is the worker that is up, if there is one.
LEMMA ListenerFacts ==
  ASSUME FeedAssumption
  PROVE  /\ Listener \in 0..MaxWorkers
         /\ Listener # 0 => Up(Listener)
         /\ Listener = 0 => \A w \in Workers : ~ Up(w)
         /\ \A w : OneUp /\ Up(w) => Listener = w
<1>1. CASE \E w \in Workers : Up(w)
  <2>1. Listener \in Workers /\ Up(Listener)
    BY <1>1 DEF Listener
  <2> QED
    BY <2>1, FeedAssumption DEF Workers, OneUp, Up
<1>2. CASE ~ \E w \in Workers : Up(w)
  BY <1>2, FeedAssumption DEF Listener, Up, Workers
<1> QED
  BY <1>1, <1>2

\* Calls of refreshAll are made in the right domain.
LEMMA CallType ==
  ASSUME FeedAssumption, NEW window \in Window, NEW from \in {"effect", "timer", "post"}
  PROVE  Call(window, from) \in Calls
BY ListenerFacts DEF Call, Calls

\* Equal intervals end alike.
LEMMA IntervalEnd ==
  ASSUME NEW a \in Nat, NEW b \in Nat, 1..a = 1..b
  PROVE  a = b
<1>1. a > 0 => a \in 1..b
  BY a > 0 => a \in 1..a
<1>2. b > 0 => b \in 1..a
  BY b > 0 => b \in 1..b
<1> QED
  BY <1>1, <1>2

\* What is left of the calls when call i ends.
LEMMA WithoutType ==
  ASSUME refreshes \in Seq(Calls), NEW i \in DOMAIN refreshes
  PROVE  /\ Without(i) \in Seq(Calls)
         /\ Len(Without(i)) = Len(refreshes) - 1
         /\ DOMAIN Without(i) = 1..(Len(refreshes) - 1)
<1> DEFINE n == Len(refreshes) - 1
<1>1. n \in Nat /\ DOMAIN refreshes = 1..Len(refreshes) /\ i \in 1..Len(refreshes)
  BY LenProperties
<1>2. \A j \in 1..Len(refreshes) : refreshes[j] \in Calls
  BY ElementOfSeq
<1>3. ASSUME NEW j \in 1..n
      PROVE  Without(i)[j] \in Calls
  <2>1. j \in 1..Len(refreshes) /\ j + 1 \in 1..Len(refreshes)
    BY <1>1
  <2>2. refreshes[j] \in Calls /\ refreshes[j + 1] \in Calls
    BY <1>2, <2>1
  <2> QED
    BY <2>2 DEF Without, Calls
<1>4. Without(i) \in [1..n -> Calls]
  BY <1>3 DEF Without
<1>5. Without(i) \in Seq(Calls)
  BY <1>1, <1>4, IsASeq
<1>6. DOMAIN Without(i) = 1..n
  BY <1>4
<1>7. Len(Without(i)) \in Nat /\ DOMAIN Without(i) = 1..Len(Without(i))
  BY <1>5, LenProperties
<1>8. Len(Without(i)) = n
  BY <1>1, <1>6, <1>7, IntervalEnd
<1> QED
  BY <1>5, <1>6, <1>8

\* Where the calls left come from: those that began before call i are late.
LEMMA WithoutBack ==
  ASSUME refreshes \in Seq(Calls), NEW i \in DOMAIN refreshes, NEW j \in DOMAIN Without(i)
  PROVE  /\ ~ Without(i)[j].late =>
              j >= i /\ j + 1 \in DOMAIN refreshes /\ Without(i)[j] = refreshes[j + 1]
         /\ \E k \in DOMAIN refreshes : Without(i)[j].read = refreshes[k].read
<1>1. Len(refreshes) \in Nat /\ DOMAIN refreshes = 1..Len(refreshes) /\ i \in 1..Len(refreshes)
  BY LenProperties
<1>2. j \in 1..(Len(refreshes) - 1)
  BY WithoutType
<1>3. j \in DOMAIN refreshes /\ j + 1 \in DOMAIN refreshes
  BY <1>1, <1>2
<1>4. CASE j < i
  <2>1. Without(i)[j].late /\ Without(i)[j].read = refreshes[j].read
    BY <1>2, <1>4 DEF Without
  <2> QED
    BY <2>1, <1>3
<1>5. CASE ~ (j < i)
  <2>1. Without(i)[j] = refreshes[j + 1]
    BY <1>2, <1>5 DEF Without
  <2> QED
    BY <2>1, <1>1, <1>2, <1>3, <1>5
<1> QED
  BY <1>4, <1>5

\* Every other call is still there, those that began later closer to the front.
LEMMA WithoutKept ==
  ASSUME refreshes \in Seq(Calls), NEW i \in DOMAIN refreshes,
         NEW k \in DOMAIN refreshes, k # i
  PROVE  \E m \in DOMAIN Without(i) :
           /\ k > i => m = k - 1
           /\ Without(i)[m].window = refreshes[k].window
           /\ Without(i)[m].read = refreshes[k].read
           /\ Without(i)[m].worker = refreshes[k].worker
<1>1. Len(refreshes) \in Nat /\ i \in 1..Len(refreshes) /\ k \in 1..Len(refreshes)
  BY LenProperties
<1>2. DOMAIN Without(i) = 1..(Len(refreshes) - 1)
  BY WithoutType
<1>3. CASE k < i
  <2>1. k \in 1..(Len(refreshes) - 1)
    BY <1>1, <1>3
  <2>2. /\ Without(i)[k].window = refreshes[k].window
        /\ Without(i)[k].read = refreshes[k].read
        /\ Without(i)[k].worker = refreshes[k].worker
    BY <2>1, <1>3 DEF Without
  <2> QED
    BY <2>1, <2>2, <1>1, <1>2, <1>3
<1>4. CASE k > i
  <2>1. k - 1 \in 1..(Len(refreshes) - 1) /\ ~ (k - 1 < i) /\ (k - 1) + 1 = k
    BY <1>1, <1>4
  <2>2. Without(i)[k - 1] = refreshes[(k - 1) + 1]
    BY <2>1 DEF Without
  <2> QED
    BY <2>1, <2>2, <1>2
<1> QED
  BY <1>1, <1>3, <1>4

-----------------------------------------------------------------------------
\* What the leaves need of the types.
LEMMA TypeFacts ==
  ASSUME FeedAssumption, FeedTypeOK
  PROVE  /\ refreshes \in Seq(Calls) /\ DOMAIN refreshes = 1..Len(refreshes) /\ Len(refreshes) \in Nat
         /\ \A i \in DOMAIN refreshes : refreshes[i] \in Calls
         /\ conn \in Conns
         /\ stored \in Nat /\ announced \in Nat /\ announced <= stored
<1>1. refreshes \in Seq(Calls)
  BY DEF FeedTypeOK, Calls
<1>2. DOMAIN refreshes = 1..Len(refreshes) /\ Len(refreshes) \in Nat
  BY <1>1, LenProperties
<1>3. \A i \in DOMAIN refreshes : refreshes[i] \in Calls
  BY <1>1, <1>2, ElementOfSeq
<1>4. conn \in Conns
  BY DEF FeedTypeOK, Conns
<1>5. stored \in Nat /\ announced \in Nat /\ announced <= stored
  BY FeedAssumption DEF FeedTypeOK
<1> QED
  BY <1>1, <1>2, <1>3, <1>4, <1>5

\* What becomes of a stream stays a stream.
LEMMA ConnTypes ==
  ASSUME FeedAssumption, conn \in Conns
  PROVE  /\ Pushed(conn) \in Conns /\ Pushed(conn).worker = conn.worker
         /\ Requested \in Conns /\ Requested.worker = 0
         /\ [conn EXCEPT !.at = "lost"] \in Conns
         /\ \A w \in 0..MaxWorkers : [conn EXCEPT !.at = "snapped", !.worker = w] \in Conns
         /\ \A w \in 0..MaxWorkers, v \in 0..MaxItems :
              [conn EXCEPT !.at = "snapped", !.worker = w, !.snap = v] \in Conns
         /\ [conn EXCEPT !.at = "subscribed"] \in Conns
         /\ [conn EXCEPT !.at = "open", !.first = TRUE] \in Conns
         /\ [conn EXCEPT !.first = FALSE, !.snap = NotRead] \in Conns
         /\ [conn EXCEPT !.lagged = FALSE] \in Conns
         /\ conn.live > 0 => [conn EXCEPT !.live = conn.live - 1] \in Conns
<1>1. conn.live < ChannelCap => conn.live + 1 \in 0..ChannelCap
  BY FeedAssumption DEF Conns
<1>2. conn.live > 0 => conn.live - 1 \in 0..ChannelCap
  BY FeedAssumption DEF Conns
<1>3. Pushed(conn) \in Conns /\ Pushed(conn).worker = conn.worker
  BY <1>1 DEF Pushed, Conns
<1>4. Requested \in Conns /\ Requested.worker = 0
  BY FeedAssumption DEF Requested, Conns
<1>5. /\ [conn EXCEPT !.at = "lost"] \in Conns
      /\ \A w \in 0..MaxWorkers : [conn EXCEPT !.at = "snapped", !.worker = w] \in Conns
      /\ \A w \in 0..MaxWorkers, v \in 0..MaxItems :
           [conn EXCEPT !.at = "snapped", !.worker = w, !.snap = v] \in Conns
  BY DEF Conns
<1>6. /\ [conn EXCEPT !.at = "subscribed"] \in Conns
      /\ [conn EXCEPT !.at = "open", !.first = TRUE] \in Conns
      /\ [conn EXCEPT !.first = FALSE, !.snap = NotRead] \in Conns
      /\ [conn EXCEPT !.lagged = FALSE] \in Conns
      /\ conn.live > 0 => [conn EXCEPT !.live = conn.live - 1] \in Conns
  BY <1>2 DEF Conns
<1> QED
  BY <1>3, <1>4, <1>5, <1>6

\* The types hold in the first state.
LEMMA BaseInit ==
  ASSUME FeedAssumption, Init
  PROVE  Base
<1>1. Call(FirstWindow, "effect") \in Calls /\ Call(FirstWindow, "effect").read = NotRead
  BY CallType, FeedAssumption DEF Call
<1>2. refreshes \in Seq(Calls) /\ Len(refreshes) = 1 /\ DOMAIN refreshes = 1..1
  BY <1>1 DEF Init
<1>3. \A i \in DOMAIN refreshes : refreshes[i].read = NotRead
  BY <1>1, <1>2 DEF Init
<1>4. FeedTypeOK
  <2>1. Requested \in Conns
    BY FeedAssumption DEF Requested, Conns
  <2>2. /\ worker \in [Workers -> {"unused", "up", "closed", "gone"}]
        /\ stored \in 0..MaxItems /\ announced \in 0..stored /\ announcer \in 0..MaxWorkers
        /\ page \in [chosen : Window, effect : Window]
    BY FeedAssumption DEF Init, Workers
  <2>3. Len(refreshes) <= MaxRefreshes
    BY <1>2, FeedAssumption
  <2>4. conn \in Conns /\ refreshes \in Seq(Calls)
    BY <1>2, <2>1 DEF Init
  <2>5. /\ handlers \subseteq [item : 1..MaxItems, worker : Workers]
        /\ timers \subseteq {page.effect} /\ feed \subseteq 1..MaxItems
        /\ posts \subseteq Posts
        /\ metrics \in Window \cup {NoWindow} /\ connected \in BOOLEAN
        /\ outcome \in {"none", "own", "post", "late", "error"} /\ happened \in 0..MaxEvents
    <3>1. handlers = {} /\ timers = {} /\ feed = {} /\ posts = {}
      BY DEF Init
    <3>2. metrics = NoWindow /\ connected = FALSE /\ outcome = "none" /\ happened = 0
      BY DEF Init
    <3>3. 0 \in 0..MaxEvents
      BY FeedAssumption
    <3> QED
      BY <3>1, <3>2, <3>3
  <2> QED
    BY <2>2, <2>3, <2>4, <2>5 DEF FeedTypeOK, Calls, Conns, Posts
<1>5. StoredFirst
  BY <1>3 DEF Init, StoredFirst
<1>6. OneUp /\ StreamStarted
  BY DEF Init, OneUp, Up, StreamStarted, Requested, Workers
<1> QED
  BY <1>4, <1>5, <1>6 DEF Base

\* The steps of the worker.
LEMMA BaseServer ==
  ASSUME FeedAssumption, Base,
         \/ StoreItem
         \/ \E h \in handlers : Announce(h) \/ DropHandler(h)
         \/ \E w \in Workers : Shutdown(w) \/ Leave(w) \/ Kill(w) \/ StartWorker(w)
  PROVE  Base'
<1> USE FeedAssumption DEF Base
<1>1. CASE StoreItem
  <2>1. Listener \in Workers
    BY <1>1, ListenerFacts DEF StoreItem, Workers
  <2>2. FeedTypeOK'
    BY <1>1, <2>1 DEF StoreItem, FeedTypeOK, streamVars, shownVars
  <2>3. StoredFirst'
    <3>1. /\ \A h \in handlers : h.item \in Nat /\ h.item <= stored
          /\ \A p \in posts : p.item \in Nat /\ p.item <= stored
      BY DEF FeedTypeOK, StoredFirst
    <3>2. \A i \in DOMAIN refreshes :
            refreshes[i].read # NotRead => refreshes[i].read \in Nat /\ refreshes[i].read <= stored
      BY TypeFacts DEF StoredFirst, Calls
    <3> QED
      BY <1>1, <3>1, <3>2, TypeFacts DEF StoreItem, StoredFirst
  <2>4. OneUp' /\ StreamStarted'
    BY <1>1 DEF StoreItem, OneUp, Up, StreamStarted, streamVars
  <2> QED
    BY <2>2, <2>3, <2>4
<1>2. ASSUME NEW h \in handlers, Announce(h)
      PROVE  Base'
  <2>1. h.item \in 1..MaxItems /\ h.item <= stored
    BY DEF FeedTypeOK, StoredFirst
  <2>2. announced' \in 0..stored /\ announcer' \in 0..MaxWorkers
    BY <1>2, <2>1 DEF Announce, Publish, FeedTypeOK, Up, Workers
  <2>3. conn' \in Conns
        /\ conn'.worker = conn.worker
    BY <1>2, ConnTypes, TypeFacts DEF Announce, Publish
  <2>4. FeedTypeOK'
    BY <1>2, <2>2, <2>3 DEF Announce, FeedTypeOK, Conns, shownVars
  <2>5. StoredFirst' /\ OneUp' /\ StreamStarted'
    BY <1>2, <2>3 DEF Announce, StoredFirst, OneUp, Up, StreamStarted
  <2> QED
    BY <2>4, <2>5
<1>3. ASSUME NEW h \in handlers, DropHandler(h)
      PROVE  Base'
  <2>1. FeedTypeOK'
    BY <1>3 DEF DropHandler, FeedTypeOK, streamVars, shownVars
  <2>2. StoredFirst' /\ OneUp' /\ StreamStarted'
    BY <1>3 DEF DropHandler, StoredFirst, OneUp, Up, StreamStarted, streamVars
  <2> QED
    BY <2>1, <2>2
<1>4. ASSUME NEW w \in Workers, Shutdown(w) \/ Leave(w) \/ Kill(w)
      PROVE  Base'
  <2>1. /\ worker' \in [Workers -> {"unused", "up", "closed", "gone"}]
        /\ worker'[w] \in {"closed", "gone"}
        /\ \A v \in Workers \ {w} : worker'[v] = worker[v]
    BY <1>4 DEF Shutdown, Leave, Kill, FeedTypeOK
  <2>2. handlers' \subseteq handlers
    BY <1>4 DEF Shutdown, Leave, Kill
  <2>3. conn' \in Conns
        /\ conn'.worker = conn.worker
    <3>1. [conn EXCEPT !.at = "lost"].worker = conn.worker
      BY TypeFacts DEF Conns
    <3> QED
      BY <1>4, <3>1, ConnTypes, TypeFacts DEF Shutdown, Leave, Kill, streamVars
  <2>4. UNCHANGED <<stored, announced, announcer, timers, page, refreshes, posts, shownVars, happened>>
    BY <1>4 DEF Shutdown, Leave, Kill, streamVars
  <2>5. FeedTypeOK'
    BY <2>1, <2>2, <2>3, <2>4 DEF FeedTypeOK, Conns, shownVars
  <2>6. StoredFirst'
    BY <2>2, <2>4 DEF StoredFirst
  <2>7. OneUp'
    BY <2>1 DEF OneUp, Up
  <2>8. StreamStarted'
    <3>1. conn.worker # 0 => conn.worker \in Workers
      BY TypeFacts DEF Conns, Workers
    <3> QED
      BY <2>1, <2>3, <3>1 DEF StreamStarted
  <2> QED
    BY <2>5, <2>6, <2>7, <2>8
<1>5. ASSUME NEW w \in Workers, StartWorker(w)
      PROVE  Base'
  <2>1. \A v \in Workers : ~ Up(v)
    BY <1>5, ListenerFacts DEF StartWorker
  <2>2. FeedTypeOK'
    BY <1>5 DEF StartWorker, FeedTypeOK, streamVars, shownVars
  <2>3. StoredFirst'
    BY <1>5 DEF StartWorker, StoredFirst
  <2>4. OneUp' /\ StreamStarted'
    BY <1>5, <2>1 DEF StartWorker, OneUp, Up, StreamStarted, streamVars, FeedTypeOK, Workers
  <2> QED
    BY <2>2, <2>3, <2>4
<1> QED
  BY <1>1, <1>2, <1>3, <1>4, <1>5

\* The steps of the stream.
LEMMA BaseStream ==
  ASSUME FeedAssumption, Base, Stream
  PROVE  Base'
<1> USE FeedAssumption DEF Base
<1>1. UNCHANGED <<serverVars, page, refreshes, posts, metrics, outcome>>
  BY DEF Stream, TakeSnapshot, Subscribe, Opened, Lost, Refused, DeliverInitial, DeliverEvent, streamVars, shownVars
<1>2. /\ conn' \in Conns
      /\ conn'.worker = conn.worker \/ conn'.worker = 0 \/ (conn'.worker = Listener /\ Listener # 0)
  <2>1. conn \in Conns /\ stored \in 0..MaxItems /\ Listener \in 0..MaxWorkers
    BY TypeFacts, ListenerFacts DEF FeedTypeOK
  <2>2. CASE TakeSnapshot
    <3>1. conn' \in Conns
      <4>1. /\ [conn EXCEPT !.at = "snapped", !.worker = Listener] \in Conns
            /\ [conn EXCEPT !.at = "snapped", !.worker = Listener, !.snap = stored] \in Conns
        BY <2>1, ConnTypes
      <4> QED
        BY <2>2, <4>1 DEF TakeSnapshot
    <3>2. conn'.worker = Listener /\ Listener # 0
      BY <2>1, <2>2 DEF TakeSnapshot, Conns
    <3> QED
      BY <3>1, <3>2
  <2>3. CASE Subscribe \/ Opened \/ DeliverInitial \/ DeliverEvent
    <3>1. conn' \in Conns
      BY <2>1, <2>3, ConnTypes DEF Subscribe, Opened, DeliverInitial, DeliverEvent
    <3>2. conn'.worker = conn.worker
      BY <2>1, <2>3 DEF Subscribe, Opened, DeliverInitial, DeliverEvent, Conns
    <3> QED
      BY <3>1, <3>2
  <2>4. CASE Lost \/ Refused
    BY <2>1, <2>4, ConnTypes DEF Lost, Refused, streamVars
  <2> QED
    BY <2>2, <2>3, <2>4 DEF Stream
<1>4. /\ timers' \subseteq {page.effect}
      /\ connected' \in BOOLEAN
      /\ happened' \in 0..MaxEvents
      /\ feed' \subseteq 1..MaxItems
  <2>1. conn.snap # NotRead => Newest(conn.snap, SnapLimit) \subseteq 1..MaxItems
    BY TypeFacts DEF Newest, Conns
  <2>2. CASE TakeSnapshot \/ Subscribe \/ Opened
    <3>1. happened \in 0..MaxEvents /\ (Happen => happened' \in 0..MaxEvents)
      BY DEF FeedTypeOK, Happen
    <3> QED
      BY <2>2, <3>1 DEF TakeSnapshot, Subscribe, Opened, FeedTypeOK, shownVars
  <2>3. CASE DeliverInitial
    BY <2>1, <2>3 DEF DeliverInitial, ScheduleFirst, Schedule, FeedTypeOK
  <2>4. CASE DeliverEvent
    BY <2>4 DEF DeliverEvent, Schedule, FeedTypeOK, shownVars
  <2>5. CASE Lost \/ Refused
    BY <2>5 DEF Lost, Refused, OnError, FeedTypeOK, streamVars
  <2> QED
    BY <2>2, <2>3, <2>4, <2>5 DEF Stream
<1>5. FeedTypeOK'
  BY <1>1, <1>2, <1>4 DEF FeedTypeOK, Conns, serverVars
<1>6. StoredFirst' /\ OneUp'
  BY <1>1 DEF StoredFirst, OneUp, Up, serverVars
<1>7. StreamStarted'
  BY <1>1, <1>2, ListenerFacts DEF StreamStarted, Up, serverVars
<1> QED
  BY <1>5, <1>6, <1>7

\* The steps of refreshAll, of the timers and of the effects.
LEMMA BaseRefresh ==
  ASSUME FeedAssumption, Base,
         \/ Firing \/ Refreshing \/ RunEffect
         \/ \E i \in 1..MaxRefreshes : Refuse(i)
         \/ \E p \in posts : PostAnswered(p)
  PROVE  Base'
<1> USE FeedAssumption DEF Base
<1>1. refreshes \in Seq(Calls) /\ (\A i \in DOMAIN refreshes : refreshes[i] \in Calls)
  BY TypeFacts
\* A call is added at the end.
<1>2. ASSUME NEW window \in Window, NEW from \in {"effect", "timer", "post"}, Begin(window, from)
      PROVE  /\ refreshes' \in Seq(Calls) /\ Len(refreshes') <= MaxRefreshes
             /\ UNCHANGED <<handlers, stored>> /\ posts' \subseteq posts => StoredFirst'
  <2>1. Call(window, from) \in Calls /\ Call(window, from).read = NotRead
    BY CallType DEF Call
  <2>2. /\ refreshes' \in Seq(Calls) /\ Len(refreshes') = Len(refreshes) + 1
        /\ Len(refreshes) \in Nat /\ DOMAIN refreshes = 1..Len(refreshes)
        /\ DOMAIN refreshes' = 1..Len(refreshes')
    BY <1>1, <1>2, <2>1, TypeFacts, LenProperties DEF Begin
  <2>3. \A i \in DOMAIN refreshes' :
          refreshes'[i].read = NotRead \/ (i \in DOMAIN refreshes /\ refreshes'[i] = refreshes[i])
    BY <1>1, <1>2, <2>1, <2>2 DEF Begin
  <2>4. Len(refreshes') <= MaxRefreshes
    BY <1>2, <2>2 DEF Begin
  <2> QED
    BY <2>2, <2>3, <2>4 DEF StoredFirst
\* A call ends.
<1>3. ASSUME NEW i \in DOMAIN refreshes, refreshes' = Without(i)
      PROVE  /\ refreshes' \in Seq(Calls) /\ Len(refreshes') <= MaxRefreshes
             /\ UNCHANGED <<handlers, stored>> /\ posts' \subseteq posts => StoredFirst'
  <2>1. refreshes' \in Seq(Calls) /\ Len(refreshes') = Len(refreshes) - 1
    BY <1>1, <1>3, WithoutType
  <2>2. Len(refreshes) \in Nat /\ Len(refreshes) <= MaxRefreshes
    BY TypeFacts DEF FeedTypeOK
  <2>3. \A j \in DOMAIN refreshes' : \E k \in DOMAIN refreshes : refreshes'[j].read = refreshes[k].read
    BY <1>1, <1>3, WithoutBack
  <2> QED
    BY <2>1, <2>2, <2>3 DEF StoredFirst
<1>4. ASSUME NEW w \in Window, TimerFires(w)
      PROVE  Base'
  <2>1. refreshes' \in Seq(Calls) /\ Len(refreshes') <= MaxRefreshes /\ StoredFirst'
    BY <1>2, <1>4 DEF TimerFires, serverVars
  <2>2. FeedTypeOK'
    BY <1>4, <2>1 DEF TimerFires, FeedTypeOK, Calls, serverVars, shownVars
  <2> QED
    BY <1>4, <2>1, <2>2 DEF TimerFires, OneUp, Up, StreamStarted, serverVars
<1>5. ASSUME NEW i \in 1..MaxRefreshes, Read(i)
      PROVE  Base'
  <2> DEFINE r == [window |-> refreshes[i].window, from |-> refreshes[i].from,
                   worker |-> 0, read |-> stored, late |-> refreshes[i].late]
  <2>1. i \in DOMAIN refreshes /\ refreshes' = [refreshes EXCEPT ![i] = r]
    BY <1>5 DEF Read
  <2>2. r \in Calls /\ r.read = stored
    <3>1. refreshes[i] \in Calls /\ stored \in 0..MaxItems /\ 0 \in 0..MaxWorkers
      BY <1>1, <2>1 DEF FeedTypeOK
    <3> QED
      BY <3>1 DEF Calls
  <2>3. /\ refreshes' \in Seq(Calls) /\ Len(refreshes') = Len(refreshes)
        /\ \A j \in DOMAIN refreshes' :
             j \in DOMAIN refreshes /\ refreshes'[j] = IF j = i THEN r ELSE refreshes[j]
    <3> HIDE DEF r
    <3>1. i \in 1..Len(refreshes) /\ DOMAIN refreshes = 1..Len(refreshes)
      BY <2>1, TypeFacts
    <3>2. DOMAIN refreshes' = DOMAIN refreshes
      BY <2>1
    <3> QED
      BY <1>1, <2>1, <2>2, <3>1, <3>2, ExceptSeq
  <2>4. stored' = stored /\ handlers' = handlers /\ posts' = posts
    BY <1>5 DEF Read, serverVars
  <2>5. StoredFirst'
    BY <2>2, <2>3, <2>4, TypeFacts DEF StoredFirst
  <2>6. FeedTypeOK'
    BY <1>5, <2>3 DEF Read, FeedTypeOK, Calls, serverVars, streamVars, shownVars
  <2>7. OneUp' /\ StreamStarted'
    BY <1>5 DEF Read, OneUp, Up, StreamStarted, serverVars, streamVars
  <2> QED
    BY <2>5, <2>6, <2>7
<1>6. ASSUME NEW i \in 1..MaxRefreshes, Apply(i)
      PROVE  Base'
  <2>1. i \in DOMAIN refreshes /\ refreshes' = Without(i) /\ stored' = stored /\ handlers' = handlers /\ posts' = posts
    BY <1>6 DEF Apply, serverVars
  <2>2. refreshes' \in Seq(Calls) /\ Len(refreshes') <= MaxRefreshes /\ StoredFirst'
    BY <1>3, <2>1
  <2>3. /\ feed' \subseteq 1..MaxItems
        /\ metrics' \in Window \cup {NoWindow} /\ connected' \in BOOLEAN
        /\ outcome' \in {"none", "own", "post", "late", "error"}
    <3>1. refreshes[i].read \in 0..MaxItems /\ refreshes[i].window \in Window
      BY <1>1, <1>6, <2>1 DEF Apply, Calls
    <3>2. Newest(refreshes[i].read, PageLimit) \subseteq 1..MaxItems
      BY <3>1 DEF Newest
    <3> QED
      BY <1>6, <3>1, <3>2 DEF Apply, ShowLive, Fashion
  <2>4. FeedTypeOK'
    BY <1>6, <2>2, <2>3 DEF Apply, FeedTypeOK, Calls, serverVars, streamVars
  <2> QED
    BY <1>6, <2>2, <2>4 DEF Apply, OneUp, Up, StreamStarted, serverVars, streamVars
<1>7. ASSUME NEW i \in 1..MaxRefreshes, Unanswered(i) \/ Refuse(i)
      PROVE  Base'
  <2>1. /\ i \in DOMAIN refreshes /\ refreshes' = Without(i)
        /\ connected' = (connected /\ refreshes[i].from # "effect")
        /\ UNCHANGED <<serverVars, streamVars, page, posts, feed, metrics>>
    BY <1>7 DEF Unanswered, Refuse, Fail
  <2>2. refreshes' \in Seq(Calls) /\ Len(refreshes') <= MaxRefreshes /\ StoredFirst'
    BY <1>3, <2>1 DEF serverVars
  <2>3. connected' \in BOOLEAN
    BY <2>1
  <2>4. happened' \in 0..MaxEvents
    BY <1>7 DEF Unanswered, Refuse, Happen, FeedTypeOK
  <2>5. outcome' \in {"none", "own", "post", "late", "error"}
    BY <1>7 DEF Unanswered, Refuse, FeedTypeOK
  <2>6. FeedTypeOK'
    BY <2>1, <2>2, <2>3, <2>4, <2>5 DEF FeedTypeOK, Calls, serverVars, streamVars
  <2> QED
    BY <2>1, <2>2, <2>6 DEF OneUp, Up, StreamStarted, serverVars, streamVars
<1>8. CASE RunEffect
  <2>1. page.chosen \in Window
    BY DEF FeedTypeOK
  <2>2. refreshes' \in Seq(Calls) /\ Len(refreshes') <= MaxRefreshes /\ StoredFirst'
    BY <1>2, <1>8, <2>1 DEF RunEffect, serverVars
  <2>3. conn' \in Conns /\ conn'.worker = 0
    BY <1>8, ConnTypes, TypeFacts DEF RunEffect
  <2>4. timers' \subseteq {page'.effect} /\ page' \in [chosen : Window, effect : Window]
    BY <1>8 DEF RunEffect, Cleanup, FeedTypeOK
  <2>5. FeedTypeOK'
    BY <1>8, <2>2, <2>3, <2>4 DEF RunEffect, FeedTypeOK, Calls, Conns, serverVars, shownVars
  <2> QED
    BY <1>8, <2>2, <2>3, <2>5 DEF RunEffect, OneUp, Up, StreamStarted, serverVars
<1>9. ASSUME NEW p \in posts, PostAnswered(p)
      PROVE  Base'
  <2>1. p.window \in Window
    BY DEF FeedTypeOK
  <2>2. refreshes' \in Seq(Calls) /\ Len(refreshes') <= MaxRefreshes /\ StoredFirst'
    BY <1>2, <1>9, <2>1 DEF PostAnswered, serverVars
  <2>3. FeedTypeOK'
    BY <1>9, <2>2 DEF PostAnswered, FeedTypeOK, Calls, serverVars, streamVars, shownVars
  <2> QED
    BY <1>9, <2>2, <2>3 DEF PostAnswered, OneUp, Up, StreamStarted, serverVars, streamVars
<1> QED
  BY <1>4, <1>5, <1>6, <1>7, <1>8, <1>9 DEF Firing, Refreshing

\* The clicks and the POSTs.
LEMMA BaseClicks ==
  ASSUME FeedAssumption, Base,
         \/ ChangeWindow \/ Click
         \/ \E p \in posts : PostStores(p) \/ PostPublishes(p) \/ PostSettings(p) \/ PostFails(p)
  PROVE  Base'
<1> USE FeedAssumption DEF Base
<1>1. Happen => happened' \in 0..MaxEvents
  BY DEF Happen, FeedTypeOK
<1>2. CASE ChangeWindow
  <2>1. page' \in [chosen : Window, effect : Window] /\ page'.effect = page.effect
    BY <1>2 DEF ChangeWindow, FeedTypeOK
  <2>2. FeedTypeOK'
    BY <1>1, <1>2, <2>1 DEF ChangeWindow, FeedTypeOK, serverVars, streamVars, shownVars
  <2> QED
    BY <1>2, <2>2 DEF ChangeWindow, StoredFirst, OneUp, Up, StreamStarted, serverVars, streamVars
<1>0. posts \subseteq Posts
  BY DEF FeedTypeOK, Posts
<1>3. CASE Click
  <2>1. PICK window \in Window, kind \in {"queue", "memory", "settings"} :
          posts' = posts \cup {[window |-> window, worker |-> Listener, at |-> kind, item |-> 0]}
    BY <1>3 DEF Click, FeedTypeOK
  <2>2. [window |-> window, worker |-> Listener, at |-> kind, item |-> 0] \in Posts
    BY ListenerFacts, FeedAssumption DEF Posts
  <2>3. posts' \subseteq Posts /\ \A q \in posts' : q \in posts \/ q.item = 0
    BY <1>0, <2>1, <2>2
  <2>4. FeedTypeOK'
    BY <1>1, <1>3, <2>3 DEF Click, FeedTypeOK, Posts, serverVars, streamVars, shownVars
  <2>5. StoredFirst'
    BY <1>3, <2>3, TypeFacts DEF Click, StoredFirst, serverVars
  <2> QED
    BY <1>3, <2>4, <2>5 DEF Click, OneUp, Up, StreamStarted, serverVars, streamVars
<1>4. ASSUME NEW p \in posts
      PROVE  Answer(p) \subseteq Posts /\ \A q \in Answer(p) : q \in posts \/ q.item = 0
  <2>1. p.window \in Window /\ 0 \in 0..MaxWorkers /\ 0 \in 0..MaxItems
    BY <1>0, FeedAssumption DEF Posts
  <2>2. [window |-> p.window, worker |-> 0, at |-> "answered", item |-> 0] \in Posts
    BY <2>1 DEF Posts
  <2> QED
    BY <1>0, <2>2 DEF Answer
<1>5. ASSUME NEW p \in posts, PostStores(p)
      PROVE  Base'
  <2>0. /\ stored < MaxItems /\ stored' = stored + 1
        /\ UNCHANGED <<worker, handlers, announced, announcer, conn, timers, page, refreshes,
                       feed, metrics, connected, outcome, happened>>
    BY <1>5 DEF PostStores, streamVars, shownVars
  <2>1. /\ stored \in 0..MaxItems /\ stored' \in 0..MaxItems /\ announced \in 0..stored'
        /\ p \in Posts
    BY <1>0, <2>0 DEF FeedTypeOK
  <2>2. PICK r \in Posts : posts' = (posts \ {p}) \cup {r} /\ r.item = stored'
    <3> DEFINE r == [p EXCEPT !.at = IF @ = "memory" THEN "stored" ELSE "queue", !.item = stored + 1]
    <3>1. r \in Posts /\ r.item = stored'
      BY <2>0, <2>1 DEF Posts
    <3> QED
      BY <1>5, <3>1 DEF PostStores
  <2>3. posts' \subseteq Posts
    BY <1>0, <2>2
  <2>4. FeedTypeOK'
    BY <2>0, <2>1, <2>3 DEF FeedTypeOK, Posts
  <2>5. StoredFirst'
    <3>1. /\ \A h \in handlers : h.item \in Nat /\ h.item <= stored
          /\ \A q \in posts : q.item \in Nat /\ q.item <= stored
      BY DEF FeedTypeOK, StoredFirst
    <3>2. \A i \in DOMAIN refreshes :
            refreshes[i].read # NotRead => refreshes[i].read \in Nat /\ refreshes[i].read <= stored
      BY TypeFacts DEF StoredFirst, Calls
    <3> QED
      BY <2>0, <2>1, <2>2, <3>1, <3>2 DEF StoredFirst
  <2> QED
    BY <2>0, <2>4, <2>5 DEF OneUp, Up, StreamStarted
<1>7. ASSUME NEW p \in posts, PostPublishes(p)
      PROVE  Base'
  <2>1. p.item \in 0..MaxItems /\ p.item <= stored
    BY <1>0 DEF StoredFirst, Posts
  <2>2. announced' \in 0..stored /\ announcer' \in 0..MaxWorkers
    BY <1>7, <2>1 DEF PostPublishes, Publish, FeedTypeOK, Up, Workers
  <2>3. conn' \in Conns /\ conn'.worker = conn.worker
    BY <1>7, ConnTypes, TypeFacts DEF PostPublishes, Publish
  <2>4. posts' \subseteq Posts /\ \A q \in posts' : q \in posts \/ q.item = 0
    BY <1>4, <1>7 DEF PostPublishes
  <2>5. FeedTypeOK'
    BY <1>7, <2>2, <2>3, <2>4 DEF PostPublishes, FeedTypeOK, Posts, Conns, shownVars
  <2>6. StoredFirst' /\ OneUp' /\ StreamStarted'
    BY <1>7, <2>3, <2>4, TypeFacts DEF PostPublishes, StoredFirst, OneUp, Up, StreamStarted
  <2> QED
    BY <2>5, <2>6
<1>6. ASSUME NEW p \in posts, PostSettings(p) \/ PostFails(p)
      PROVE  Base'
  <2>1. posts' \subseteq Posts /\ \A q \in posts' : q \in posts \/ q.item = 0
    BY <1>0, <1>4, <1>6 DEF PostSettings, PostFails
  <2>2. happened' \in 0..MaxEvents
    BY <1>1, <1>6 DEF PostSettings, PostFails, FeedTypeOK
  <2>3. FeedTypeOK'
    BY <1>6, <2>1, <2>2 DEF PostSettings, PostFails, FeedTypeOK, Posts, serverVars, streamVars, shownVars
  <2>4. StoredFirst'
    BY <1>6, <2>1, TypeFacts DEF PostSettings, PostFails, StoredFirst, serverVars
  <2> QED
    BY <1>6, <2>3, <2>4 DEF PostSettings, PostFails, OneUp, Up, StreamStarted, serverVars, streamVars
<1> QED
  BY <1>2, <1>3, <1>5, <1>6, <1>7

\* Every step keeps the types and the single listener.
LEMMA BaseStep ==
  ASSUME FeedAssumption, Base, [Next]_vars
  PROVE  Base'
<1>1. CASE Next
  BY <1>1, BaseServer, BaseStream, BaseRefresh, BaseClicks DEF Next
<1>2. CASE UNCHANGED vars
  BY <1>2 DEF vars, serverVars, streamVars, shownVars, Base, FeedTypeOK, StoredFirst, OneUp, Up, StreamStarted
<1> QED
  BY <1>1, <1>2

\* Every variable of the page and its stream stays in its domain, and only the effect
\* that runs has a timer (dashboard.tsx:184-290).
THEOREM FeedTypes == Spec => []FeedTypeOK
<1>1. Init => Base
  BY FeedAssumption, BaseInit
<1>2. Base /\ [Next]_vars => Base'
  BY FeedAssumption, BaseStep
<1>3. Base => FeedTypeOK
  BY DEF Base
<1> QED
  BY <1>1, <1>2, <1>3, PTL DEF Spec

-----------------------------------------------------------------------------
\* A step after which the page is fed only if it was before, and that leaves
\* alone what the page shows and has under way, keeps the promise.
LEMMA PromiseKept ==
  ASSUME FeedAssumption, Base, Promise,
         Fed' => /\ Fed
                 /\ UNCHANGED <<refreshes, feed, metrics, connected, outcome>>
                 /\ page'.effect = page.effect /\ conn'.worker = conn.worker
                 /\ stored' \in Nat /\ stored <= stored',
         Heard' => Heard /\ announced' = announced
  PROVE  Promise'
<1>1. WindowSoon' /\ WindowOvertaken'
  BY DEF Promise, WindowSoon, WindowOvertaken, InWindow, Sure
<1>2. PillSoon' /\ PillOvertaken'
  BY DEF Promise, PillSoon, PillOvertaken, Sure
<1>3. Heard => announced..stored \subseteq announced..stored' \/ ~ Fed'
  BY TypeFacts DEF Base
<1>4. FeedSoon' /\ FeedOvertaken'
  BY <1>3 DEF Promise, FeedSoon, FeedOvertaken, Fresh, Heard
<1> QED
  BY <1>1, <1>2, <1>4 DEF Promise

\* A call that is added while its worker is the one the page follows, for the
\* effect's window, keeps the promise to come: whatever is under way began before it.
LEMMA PromiseByTimer ==
  ASSUME FeedAssumption, Base, NEW w \in Window, TimerFires(w)
  PROVE  Promise'
<1> DEFINE n == Len(refreshes) + 1
           r == refreshes'[n]
<1>1. /\ w = page.effect
      /\ UNCHANGED <<worker, announced, conn, page>>
      /\ Listener' = Listener
  BY DEF TimerFires, Base, FeedTypeOK, serverVars, Listener, Up
<1>2. /\ n \in DOMAIN refreshes' /\ r = Call(w, "timer")
      /\ \A j \in DOMAIN refreshes' : j <= n /\ (j = n \/ j < n)
  <2>1. Call(w, "timer") \in Calls /\ refreshes \in Seq(Calls)
    BY CallType, TypeFacts DEF Base
  <2>2. /\ refreshes' = Append(refreshes, Call(w, "timer")) /\ Len(refreshes) \in Nat
        /\ refreshes' \in Seq(Calls) /\ Len(refreshes') = n
    BY <2>1, TypeFacts DEF TimerFires, Begin, Base
  <2>3. DOMAIN refreshes' = 1..n
    BY <2>2, LenProperties
  <2> QED
    BY <2>1, <2>2, <2>3
<1>3. /\ r.window = w /\ r.from = "timer" /\ r.worker = Listener
      /\ r.read = NotRead /\ r.late = FALSE
  BY <1>2 DEF Call
<1>4. Fed' => /\ r.window = page'.effect /\ r.read = NotRead
              /\ r.worker = conn'.worker /\ r.from = "timer" /\ ~ r.late
  BY <1>1, <1>3, ListenerFacts DEF Fed, Up, Base
<1> HIDE DEF n
<1>5. WindowSoon' /\ WindowOvertaken'
  BY <1>2, <1>4 DEF WindowSoon, WindowOvertaken, InWindow, Sure
<1>6. FeedSoon' /\ FeedOvertaken'
  BY <1>2, <1>4 DEF FeedSoon, FeedOvertaken, Fresh, Heard
<1>7. PillSoon' /\ PillOvertaken'
  BY <1>2, <1>4 DEF PillSoon, PillOvertaken, Sure
<1> QED
  BY <1>5, <1>6, <1>7 DEF Promise

\* The same for a call that is added after the answer to a POST.
LEMMA PromiseByPost ==
  ASSUME FeedAssumption, Base, Promise, NEW p \in posts, PostAnswered(p)
  PROVE  Promise'
<1> DEFINE n == Len(refreshes) + 1
<1>1. UNCHANGED <<worker, stored, announced, conn, timers, page, feed, metrics, connected, outcome>>
  BY DEF PostAnswered, serverVars, streamVars, shownVars
<1>2. /\ n \in DOMAIN refreshes' /\ refreshes'[n] = Call(p.window, "post")
      /\ \A j \in DOMAIN refreshes : j \in DOMAIN refreshes' /\ refreshes'[j] = refreshes[j]
      /\ \A j \in DOMAIN refreshes' : j = n \/ j \in DOMAIN refreshes
  <2>1. Call(p.window, "post") \in Calls /\ refreshes \in Seq(Calls)
    BY CallType, TypeFacts DEF Base, FeedTypeOK
  <2>2. /\ refreshes' = Append(refreshes, Call(p.window, "post")) /\ Len(refreshes) \in Nat
        /\ refreshes' \in Seq(Calls) /\ Len(refreshes') = n
    BY <2>1, TypeFacts DEF PostAnswered, Begin, Base
  <2>3. DOMAIN refreshes' = 1..n /\ DOMAIN refreshes = 1..Len(refreshes)
    BY <2>1, <2>2, LenProperties
  <2> QED
    BY <2>1, <2>2, <2>3
<1>3. refreshes'[n].from = "post" /\ refreshes'[n].read = NotRead
  BY <1>2 DEF Call
<1> HIDE DEF n
<1>4. WindowSoon' /\ WindowOvertaken'
  BY <1>1, <1>2, <1>3 DEF Promise, WindowSoon, WindowOvertaken, InWindow, Sure, Fed, Up
<1>5. FeedSoon' /\ FeedOvertaken'
  BY <1>1, <1>2, <1>3 DEF Promise, FeedSoon, FeedOvertaken, Fresh, Heard, Fed, Up
<1>6. PillSoon' /\ PillOvertaken'
  BY <1>1, <1>2, <1>3 DEF Promise, PillSoon, PillOvertaken, Sure, Fed, Up
<1> QED
  BY <1>4, <1>5, <1>6 DEF Promise

\* A call whose memories are read is answered: what was promised of it holds.
LEMMA PromiseByRead ==
  ASSUME FeedAssumption, Base, Promise, NEW i \in 1..MaxRefreshes, Read(i)
  PROVE  Promise'
<1>1. UNCHANGED <<worker, stored, announced, conn, timers, page, feed, metrics, connected, outcome>>
  BY DEF Read, serverVars, streamVars, shownVars
<1>2. /\ i \in DOMAIN refreshes /\ DOMAIN refreshes' = DOMAIN refreshes
      /\ \A j \in DOMAIN refreshes : j # i => refreshes'[j] = refreshes[j]
      /\ refreshes'[i].window = refreshes[i].window /\ refreshes'[i].from = refreshes[i].from
      /\ refreshes'[i].read = stored /\ refreshes'[i].late = refreshes[i].late
  BY DEF Read
<1>3. stored # NotRead /\ announced <= stored /\ ~ (stored < announced)
  BY FeedAssumption, TypeFacts DEF Base
<1>4. \A j \in DOMAIN refreshes :
        /\ InWindow(refreshes[j]) => InWindow(refreshes[j])'
        /\ Fresh(refreshes[j]) => Fresh(refreshes[j])'
        /\ Sure(refreshes[j]) => Sure(refreshes[j])'
  BY <1>1, <1>2, <1>3 DEF InWindow, Fresh, Sure
<1>5. WindowSoon' /\ WindowOvertaken'
  BY <1>1, <1>2, <1>4 DEF Promise, WindowSoon, WindowOvertaken, Fed, Up
<1>6. FeedSoon' /\ FeedOvertaken'
  BY <1>1, <1>2, <1>3, <1>4 DEF Promise, FeedSoon, FeedOvertaken, Heard, Fed, Up
<1>7. PillSoon' /\ PillOvertaken'
  BY <1>1, <1>2, <1>3, <1>4 DEF Promise, PillSoon, PillOvertaken, Sure, Fed, Up
<1> QED
  BY <1>5, <1>6, <1>7 DEF Promise

\* A call ends: those that are not late now began after it, and whatever
\* overtook them is there still.
LEMMA OvertakenKept ==
  ASSUME FeedAssumption, Base, Promise,
         NEW i \in DOMAIN refreshes, refreshes' = Without(i),
         UNCHANGED <<serverVars, streamVars, page>>
  PROVE  /\ WindowOvertaken' /\ FeedOvertaken' /\ PillOvertaken'
         /\ \A k \in DOMAIN refreshes \ {i} : \E m \in DOMAIN refreshes' :
              /\ InWindow(refreshes[k]) => InWindow(refreshes'[m])
              /\ Fresh(refreshes[k]) => Fresh(refreshes'[m])
              /\ Sure(refreshes[k]) => Sure(refreshes'[m])
<1>1. UNCHANGED <<worker, stored, announced, conn, timers, page>>
  BY DEF serverVars, streamVars
<1>2. DOMAIN refreshes \subseteq Int
  BY TypeFacts DEF Base
<1>3. \A k \in DOMAIN refreshes \ {i} : \E m \in DOMAIN refreshes' :
        /\ k > i => m = k - 1
        /\ refreshes'[m].window = refreshes[k].window
        /\ refreshes'[m].read = refreshes[k].read
        /\ refreshes'[m].worker = refreshes[k].worker
  BY TypeFacts, WithoutKept DEF Base
<1>4. \A j \in DOMAIN refreshes' : ~ refreshes'[j].late =>
        j \in Int /\ j >= i /\ j + 1 \in DOMAIN refreshes /\ refreshes'[j] = refreshes[j + 1]
  <2>1. DOMAIN refreshes' \subseteq Int
    <3>1. refreshes \in Seq(Calls)
      BY TypeFacts DEF Base
    <3>2. DOMAIN Without(i) = 1..(Len(refreshes) - 1)
      BY <3>1, WithoutType
    <3> QED
      BY <3>2
  <2>2. \A j \in DOMAIN Without(i) : ~ Without(i)[j].late =>
          j >= i /\ j + 1 \in DOMAIN refreshes /\ Without(i)[j] = refreshes[j + 1]
    BY TypeFacts, WithoutBack DEF Base
  <2> QED
    BY <2>1, <2>2
<1>5. \A k \in DOMAIN refreshes \ {i} : \E m \in DOMAIN refreshes' :
        /\ k > i => m = k - 1
        /\ InWindow(refreshes[k]) => InWindow(refreshes'[m])
        /\ Fresh(refreshes[k]) => Fresh(refreshes'[m])
        /\ Sure(refreshes[k]) => Sure(refreshes'[m])
  BY <1>3 DEF InWindow, Fresh, Sure
<1>6. \A j, k \in DOMAIN refreshes : j > i /\ k > j =>
        \E m \in DOMAIN refreshes' :
          /\ m > j - 1
          /\ InWindow(refreshes[k]) => InWindow(refreshes'[m])
          /\ Fresh(refreshes[k]) => Fresh(refreshes'[m])
          /\ Sure(refreshes[k]) => Sure(refreshes'[m])
  BY <1>2, <1>5
<1>7. WindowOvertaken'
  <2> SUFFICES ASSUME Fed', NEW j \in DOMAIN refreshes',
                      ~ refreshes'[j].late, refreshes'[j].from # "post", refreshes'[j].window # page.effect
               PROVE  \E m \in DOMAIN refreshes' : m > j /\ InWindow(refreshes'[m])
    BY <1>1 DEF WindowOvertaken, InWindow, Sure
  <2>1. j + 1 \in DOMAIN refreshes /\ refreshes'[j] = refreshes[j + 1] /\ j + 1 > i /\ (j + 1) - 1 = j
    BY <1>2, <1>4
  <2>2. PICK k \in DOMAIN refreshes : k > j + 1 /\ InWindow(refreshes[k])
    BY <1>1, <2>1 DEF Promise, WindowOvertaken, Fed, Up
  <2> QED
    BY <1>6, <2>1, <2>2
<1>8. FeedOvertaken'
  <2> SUFFICES ASSUME Heard', NEW j \in DOMAIN refreshes',
                      ~ refreshes'[j].late, refreshes'[j].read # NotRead, refreshes'[j].read < announced
               PROVE  \E m \in DOMAIN refreshes' : m > j /\ Fresh(refreshes'[m])
    BY <1>1 DEF FeedOvertaken, Fresh
  <2>1. j + 1 \in DOMAIN refreshes /\ refreshes'[j] = refreshes[j + 1] /\ j + 1 > i /\ (j + 1) - 1 = j
    BY <1>2, <1>4
  <2>2. PICK k \in DOMAIN refreshes : k > j + 1 /\ Fresh(refreshes[k])
    BY <1>1, <2>1 DEF Promise, FeedOvertaken, Heard, Fed, Up
  <2> QED
    BY <1>6, <2>1, <2>2
<1>9. PillOvertaken'
  <2> SUFFICES ASSUME Fed', NEW j \in DOMAIN refreshes',
                      ~ refreshes'[j].late, refreshes'[j].from = "effect", ~ Sure(refreshes'[j])
               PROVE  \E m \in DOMAIN refreshes' : m > j /\ Sure(refreshes'[m])
    BY <1>1 DEF PillOvertaken, Sure
  <2>1. j + 1 \in DOMAIN refreshes /\ refreshes'[j] = refreshes[j + 1] /\ j + 1 > i /\ (j + 1) - 1 = j
    BY <1>2, <1>4
  <2>2. PICK k \in DOMAIN refreshes : k > j + 1 /\ Sure(refreshes[k])
    BY <1>1, <2>1 DEF Promise, PillOvertaken, Fed, Up
  <2> QED
    BY <1>6, <2>1, <2>2
<1> QED
  BY <1>5, <1>7, <1>8, <1>9

\* The answers of a call are shown: if they are not what was promised, the call
\* is late, or a later one is under way that will bring it.
LEMMA PromiseByApply ==
  ASSUME FeedAssumption, Base, Promise, NEW i \in 1..MaxRefreshes, Apply(i)
  PROVE  Promise'
<1>1. /\ i \in DOMAIN refreshes /\ refreshes' = Without(i)
      /\ UNCHANGED <<serverVars, streamVars, page>>
      /\ UNCHANGED <<worker, stored, announced, conn, timers, page>>
  BY DEF Apply, serverVars, streamVars
<1>2. /\ refreshes[i].read # NotRead
      /\ feed' = Newest(refreshes[i].read, PageLimit)
      /\ metrics' = refreshes[i].window /\ connected' = TRUE
      /\ outcome' = Fashion(refreshes[i])
  BY DEF Apply, ShowLive
<1>3. WindowOvertaken' /\ FeedOvertaken' /\ PillOvertaken'
  BY <1>1, OvertakenKept
<1>4. \A k \in DOMAIN refreshes : k > i => \E m \in DOMAIN refreshes' :
        /\ InWindow(refreshes[k]) => InWindow(refreshes'[m])
        /\ Fresh(refreshes[k]) => Fresh(refreshes'[m])
  <2>1. i \in Int
    OBVIOUS
  <2> QED
    BY <1>1, <2>1, OvertakenKept
<1>5. WindowSoon'
  <2>1. CASE refreshes[i].late \/ refreshes[i].from = "post" \/ refreshes[i].window = page.effect
    BY <1>1, <1>2, <2>1 DEF WindowSoon, Fashion
  <2>2. CASE ~ refreshes[i].late /\ refreshes[i].from # "post" /\ refreshes[i].window # page.effect
    BY <1>1, <1>4, <2>2 DEF Promise, WindowSoon, WindowOvertaken, Fed, Up, InWindow, Sure
  <2> QED
    BY <2>1, <2>2
<1>6. FeedSoon'
  <2>1. refreshes[i].read \in Nat /\ refreshes[i].read <= stored /\ announced \in Nat /\ stored \in Nat
    BY <1>1, <1>2, TypeFacts DEF Base, StoredFirst, Calls
  <2>2. CASE refreshes[i].late
    BY <1>2, <2>2 DEF FeedSoon, Fashion
  <2>3. CASE announced <= refreshes[i].read
    BY <1>1, <1>2, <2>1, <2>3 DEF FeedSoon
  <2>4. CASE ~ refreshes[i].late /\ refreshes[i].read < announced
    BY <1>1, <1>2, <1>4, <2>4 DEF Promise, FeedSoon, FeedOvertaken, Heard, Fed, Up, Fresh
  <2> QED
    BY <2>1, <2>2, <2>3, <2>4
<1>7. PillSoon'
  BY <1>2 DEF PillSoon
<1> QED
  BY <1>3, <1>5, <1>6, <1>7 DEF Promise

\* A call fails: it is none of those that something was promised of, unless one
\* of its answers is an error.
LEMMA PromiseByFailure ==
  ASSUME FeedAssumption, Base, Promise, NEW i \in 1..MaxRefreshes, Unanswered(i) \/ Refuse(i)
  PROVE  Promise'
<1>1. /\ i \in DOMAIN refreshes /\ refreshes' = Without(i) /\ refreshes[i].read = NotRead
      /\ UNCHANGED <<serverVars, streamVars, page, feed, metrics>>
      /\ UNCHANGED <<worker, stored, announced, conn, timers, page>>
      /\ connected' = (connected /\ refreshes[i].from # "effect")
  BY DEF Unanswered, Refuse, Fail, serverVars, streamVars
<1>2. WindowOvertaken' /\ FeedOvertaken' /\ PillOvertaken'
  BY <1>1, OvertakenKept
<1>3. \A k \in DOMAIN refreshes \ {i} : \E m \in DOMAIN refreshes' :
        /\ InWindow(refreshes[k]) => InWindow(refreshes'[m])
        /\ Fresh(refreshes[k]) => Fresh(refreshes'[m])
        /\ Sure(refreshes[k]) => Sure(refreshes'[m])
  BY <1>1, OvertakenKept
<1>4. CASE Refuse(i)
  BY <1>2, <1>4 DEF Refuse, Promise, WindowSoon, FeedSoon, PillSoon
<1>5. CASE Unanswered(i)
  <2>1. ~ Up(refreshes[i].worker) /\ (outcome' = outcome \/ outcome' = "late")
    BY <1>5 DEF Unanswered
  <2>2. Fed => ~ Sure(refreshes[i]) /\ ~ InWindow(refreshes[i]) /\ ~ Fresh(refreshes[i])
    BY <1>1, <2>1 DEF Fed, Sure, InWindow, Fresh
  <2>3. (Fed' <=> Fed) /\ (Heard' <=> Heard)
    BY <1>1 DEF Fed, Heard, Up
  <2>4. WindowSoon'
    BY <1>1, <1>3, <2>1, <2>2, <2>3 DEF Promise, WindowSoon, InWindow, Sure
  <2>5. FeedSoon'
    BY <1>1, <1>3, <2>1, <2>2, <2>3 DEF Promise, FeedSoon, Fresh, Heard
  <2>6. PillSoon'
    <3>1. CASE refreshes[i].from = "effect" /\ refreshes[i].late
      BY <1>5, <3>1 DEF Unanswered, PillSoon
    <3>2. CASE refreshes[i].from = "effect" /\ ~ refreshes[i].late
      <4> SUFFICES ASSUME Fed'
                   PROVE  \E m \in DOMAIN refreshes' : Sure(refreshes'[m])
        BY <1>1 DEF PillSoon, Sure
      <4>1. PICK k \in DOMAIN refreshes : k > i /\ Sure(refreshes[k])
        BY <1>1, <2>2, <2>3, <3>2 DEF Promise, PillOvertaken
      <4> QED
        BY <1>3, <4>1
    <3>3. CASE refreshes[i].from # "effect"
      BY <1>1, <1>3, <2>1, <2>2, <2>3, <3>3 DEF Promise, PillSoon, Sure
    <3> QED
      BY <3>1, <3>2, <3>3
  <2> QED
    BY <1>2, <2>4, <2>5, <2>6 DEF Promise
<1> QED
  BY <1>4, <1>5

-----------------------------------------------------------------------------
\* Nothing is promised before the stream opens.
LEMMA FeedInvInit ==
  ASSUME FeedAssumption, Init
  PROVE  FeedInv
<1>1. conn.at = "connecting"
  BY DEF Init, Requested
<1> QED
  BY <1>1, BaseInit DEF FeedInv, Promise, WindowSoon, WindowOvertaken, FeedSoon, FeedOvertaken,
     PillSoon, PillOvertaken, Heard, Fed

\* A message that is pushed is still to be heard.
LEMMA PublishUnheard ==
  ASSUME FeedAssumption, Base, Fed', UNCHANGED <<worker, timers>>,
         NEW w, NEW item, Publish(w, item), conn'.live = 0, ~ conn'.lagged
  PROVE  conn' = conn /\ announced' = announced
<1>1. conn \in Conns /\ ChannelCap \in Nat \ {0}
  BY FeedAssumption, TypeFacts DEF Base
<1>2. CASE Subscribed(w)
  <2>1. conn' = Pushed(conn)
    BY <1>2 DEF Publish
  <2>2. Pushed(conn).live # 0 \/ Pushed(conn).lagged
    BY <1>1 DEF Pushed, Conns
  <2> QED
    BY <2>1, <2>2
<1>3. CASE ~ Subscribed(w)
  <2>1. conn' = conn
    BY <1>3 DEF Publish
  <2>2. ~ Up(w)
    BY <1>3, <2>1 DEF Fed, Subscribed, Up, OneUp, Base
  <2> QED
    BY <2>1, <2>2 DEF Publish
<1> QED
  BY <1>2, <1>3

\* The worker's steps and the page's POSTs leave alone what the page shows and
\* has under way.
LEMMA PromiseByOthers ==
  ASSUME FeedAssumption, Base, Base', Promise,
         \/ StoreItem
         \/ \E h \in handlers : Announce(h) \/ DropHandler(h)
         \/ \E w \in Workers : Shutdown(w) \/ Leave(w) \/ Kill(w) \/ StartWorker(w)
         \/ ChangeWindow \/ Click
         \/ \E p \in posts : PostStores(p) \/ PostPublishes(p) \/ PostSettings(p) \/ PostFails(p)
  PROVE  Promise'
<1>1. stored \in Nat /\ stored' \in Nat /\ conn \in Conns
  BY TypeFacts DEF Base, FeedTypeOK
<1>2. CASE StoreItem
  <2>1. Fed' => Fed /\ (Heard' => Heard) /\ stored <= stored'
    BY <1>1, <1>2 DEF StoreItem, Fed, Heard, Up, streamVars
  <2> QED
    BY <1>1, <1>2, <2>1, PromiseKept DEF StoreItem, Heard, streamVars, shownVars
<1>3. ASSUME NEW h \in handlers, Announce(h)
      PROVE  Promise'
  <2>1. conn'.at = conn.at /\ conn'.first = conn.first /\ conn'.worker = conn.worker
    BY <1>1, <1>3 DEF Announce, Publish, Pushed, Conns
  <2>2. Fed' => Fed
    BY <1>3, <2>1 DEF Announce, Fed, Up
  <2>3. Heard' => Heard /\ announced' = announced
    BY <1>3, <2>2, PublishUnheard DEF Announce, Heard
  <2> QED
    BY <1>1, <1>3, <2>1, <2>2, <2>3, PromiseKept DEF Announce, shownVars
<1>4. ASSUME NEW p \in posts, PostPublishes(p)
      PROVE  Promise'
  <2>1. conn'.at = conn.at /\ conn'.first = conn.first /\ conn'.worker = conn.worker
    BY <1>1, <1>4 DEF PostPublishes, Publish, Pushed, Conns
  <2>2. Fed' => Fed
    BY <1>4, <2>1 DEF PostPublishes, Fed, Up
  <2>3. Heard' => Heard /\ announced' = announced
    BY <1>4, <2>2, PublishUnheard DEF PostPublishes, Heard
  <2> QED
    BY <1>1, <1>4, <2>1, <2>2, <2>3, PromiseKept DEF PostPublishes, shownVars
<1>7. ASSUME NEW p \in posts, PostStores(p)
      PROVE  Promise'
  <2>1. /\ stored' = stored + 1
        /\ UNCHANGED <<worker, announced, conn, timers, page, refreshes, feed, metrics, connected, outcome>>
    BY <1>7 DEF PostStores, streamVars, shownVars
  <2>2. (Fed' => Fed) /\ (Heard' => Heard) /\ stored <= stored'
    BY <1>1, <2>1 DEF Fed, Heard, Up
  <2> QED
    BY <1>1, <2>1, <2>2, PromiseKept
<1>5. ASSUME NEW w \in Workers, Shutdown(w) \/ Leave(w) \/ Kill(w) \/ StartWorker(w)
      PROVE  Promise'
  <2>1. UNCHANGED <<stored, announced, timers, page, refreshes, shownVars>>
    BY <1>5 DEF Shutdown, Leave, Kill, StartWorker, streamVars
  <2>2. \A v : Up(v)' => Up(v) \/ worker[v] = "unused"
    BY <1>5 DEF Shutdown, Leave, Kill, StartWorker, Up, Base, FeedTypeOK
  <2>3. conn' = conn \/ conn' = [conn EXCEPT !.at = "lost"]
    BY <1>5 DEF Shutdown, Leave, Kill, StartWorker, streamVars
  <2>4. conn'.at = "open" => conn' = conn
    BY <1>1, <2>3 DEF Conns
  <2>5. Fed' => Fed /\ conn' = conn
    BY <2>1, <2>2, <2>4 DEF Fed, Up, StreamStarted, Base, Workers
  <2> QED
    BY <1>1, <2>1, <2>5, PromiseKept DEF Heard, shownVars
<1>6. CASE \/ \E h \in handlers : DropHandler(h)
           \/ ChangeWindow \/ Click
           \/ \E p \in posts : PostSettings(p) \/ PostFails(p)
  <2>1. UNCHANGED <<worker, stored, announced, conn, timers, refreshes, shownVars>>
    BY <1>6 DEF DropHandler, ChangeWindow, Click, PostSettings, PostFails, serverVars, streamVars
  <2>2. page'.effect = page.effect
    BY <1>6 DEF DropHandler, ChangeWindow, Click, PostSettings, PostFails
  <2> QED
    BY <1>1, <2>1, <2>2, PromiseKept DEF Fed, Heard, Up, shownVars
<1> QED
  BY <1>2, <1>3, <1>4, <1>5, <1>6, <1>7

\* After a step of the stream, or of an effect, the page is fed only if nothing but
\* the pill has changed.
LEMMA PromiseByStream ==
  ASSUME FeedAssumption, Base, Base', Promise, Stream \/ RunEffect
  PROVE  Promise'
<1>1. stored \in Nat /\ conn \in Conns
  BY TypeFacts DEF Base
<1>2. CASE Subscribe \/ Opened \/ DeliverInitial \/ DeliverEvent \/ TakeSnapshot
  <2>1. ~ Fed'
    BY <1>1, <1>2 DEF Subscribe, Opened, DeliverInitial, DeliverEvent, TakeSnapshot, ScheduleFirst, Schedule, Fed, Conns
  <2> QED
    BY <2>1, PromiseKept DEF Heard
<1>3. CASE Lost \/ Refused \/ RunEffect
  <2>1. ~ Fed'
    BY <1>1, <1>3 DEF Lost, Refused, RunEffect, Requested, Fed, streamVars
  <2> QED
    BY <2>1, PromiseKept DEF Heard
<1> QED
  BY <1>2, <1>3 DEF Stream

\* Every step keeps the inductive invariant.
LEMMA FeedInvStep ==
  ASSUME FeedAssumption, FeedInv, [Next]_vars
  PROVE  FeedInv'
<1>1. Base /\ Promise /\ Base'
  BY BaseStep DEF FeedInv
<1>2. CASE Next
  <2>1. CASE Firing
    BY <1>1, <2>1, PromiseByTimer DEF Firing, FeedInv
  <2>2. CASE Refreshing \/ \E i \in 1..MaxRefreshes : Refuse(i)
    BY <1>1, <2>2, PromiseByRead, PromiseByApply, PromiseByFailure DEF Refreshing, FeedInv
  <2>3. CASE Stream \/ RunEffect
    BY <1>1, <2>3, PromiseByStream DEF FeedInv
  <2>4. CASE \E p \in posts : PostAnswered(p)
    BY <1>1, <2>4, PromiseByPost DEF FeedInv
  <2> QED
    BY <1>1, <1>2, <2>1, <2>2, <2>3, <2>4, PromiseByOthers DEF Next, FeedInv
<1>3. CASE UNCHANGED vars
  BY <1>1, <1>3, PromiseKept, TypeFacts
     DEF vars, serverVars, streamVars, shownVars, FeedInv, Base, Fed, Heard, Up
<1> QED
  BY <1>2, <1>3

-----------------------------------------------------------------------------
\* The inductive invariant of the page and its stream (dashboard.tsx:226-290,
\* http/routes/mod.rs:202-222): the types, one listener, and for a page that is fed
\* the promise that what is under way will set it right.
THEOREM FeedInvariant == Spec => []FeedInv
<1>1. Init => FeedInv
  BY FeedAssumption, FeedInvInit
<1>2. FeedInv /\ [Next]_vars => FeedInv'
  BY FeedAssumption, FeedInvStep
<1> QED
  BY <1>1, <1>2, PTL DEF Spec

\* A page at rest is fed and has nothing under way.
LEMMA QuietIsHeard ==
  ASSUME FeedInv, Quiet
  PROVE  Heard /\ Fed /\ DOMAIN refreshes = {}
<1>1. Heard /\ Fed
  BY DEF Quiet, PageQuiet, Heard, Fed
<1>2. DOMAIN refreshes = {}
  BY DEF Quiet, PageQuiet
<1> QED
  BY <1>1, <1>2

\* A page at rest shows every announced memory (dashboard.tsx:245-290), unless a
\* request was answered by an error or a call ended after a later one.
THEOREM RestingPageCurrent == Spec => []FeedCurrent
<1>1. FeedInv => FeedCurrent
  BY QuietIsHeard DEF FeedInv, Promise, FeedSoon, FeedCurrent, IsCurrent, Shown
<1> QED
  BY <1>1, FeedInvariant, PTL

\* A page at rest shows the figures of the window chosen (dashboard.tsx:233 and 290).
THEOREM RestingPageWindow == Spec => []WindowShown
<1>1. FeedInv => WindowShown
  <2> SUFFICES ASSUME FeedInv, Quiet, outcome \notin {"late", "error", "post"}
               PROVE  WindowLabel = page.chosen
    BY DEF WindowShown
  <2>1. metrics = page.effect /\ page.effect = page.chosen
    BY QuietIsHeard DEF FeedInv, Promise, WindowSoon, Quiet, PageQuiet
  <2>2. page.chosen \in Window
    BY DEF FeedInv, Base, FeedTypeOK
  <2> QED
    BY <2>1, <2>2, FeedAssumption DEF WindowLabel
<1> QED
  BY <1>1, FeedInvariant, PTL

\* A page at rest whose worker serves it says "live" (dashboard.tsx:257-264).
THEOREM RestingPagePill == Spec => []PillTruthful
<1>1. FeedInv => PillTruthful
  BY QuietIsHeard DEF FeedInv, Promise, PillSoon, PillTruthful, Pill
<1> QED
  BY <1>1, FeedInvariant, PTL
=============================================================================
