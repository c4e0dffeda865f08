-------------------------- MODULE KnowledgeCorpora --------------------------
(***************************************************************************)
(* The knowledge corpora of crates/claude-mem-worker/src/knowledge and the *)
(* routes under /api/corpus: files that hold the observations some search  *)
(* has found, and the claude session that was primed with them.            *)
(*                                                                         *)
(* The handlers share nothing but the files.  Only a build holds the mutex *)
(* of the database, from its search to the end of its write; the others    *)
(* keep the corpus they have read while the claude CLI runs, and write it  *)
(* back afterwards.  fs::write empties a file before it fills it, and two  *)
(* handlers may do so at once.                                             *)
(*                                                                         *)
(* What a search finds is the number of observations stored so far: it     *)
(* tells an earlier search from a later one.  Names are validated ones.    *)
(***************************************************************************)
EXTENDS Naturals

CONSTANTS Name,        \* names of corpora
          Handler,     \* request handlers
          SessionId,   \* session ids the claude CLI hands out, each once
          MaxStored,   \* bound: observations stored
          MaxRequests, \* bound: requests made
          MaxCrashes,  \* bound: deaths of the worker
          NULL

ASSUME CorporaAssumption ==
  /\ MaxStored \in Nat /\ MaxRequests \in Nat /\ MaxCrashes \in Nat
  /\ NULL \notin Nat /\ NULL \notin SessionId /\ NULL \notin Name /\ NULL \notin Handler

VARIABLES found,    \* how many observations a search finds
          file,     \* what each corpus file holds
          request,  \* what each handler is at
          mutex,    \* the handler that holds the mutex of the database
          knows,    \* the observations each claude session was sent to prime it
          latest,   \* history: what the last build or deletion left of each corpus
          disturbed, \* history: corpora that two requests, or a death, came upon together
          requests, \* history: requests made so far
          crashes   \* history: deaths so far

vars == <<found, file, request, mutex, knows, latest, disturbed, requests, crashes>>
history == <<latest, disturbed>>
bounds == <<requests, crashes>>

Corpus == [observations : 0..MaxStored, session : SessionId \cup {NULL}]

\* Not a corpus: no such file, nothing in it yet, or the bytes of two writes.
NoFile == [observations |-> NULL, session |-> "no file"]
Empty == [observations |-> NULL, session |-> "empty"]
Mixed == [observations |-> NULL, session |-> "mixed"]
Readable(n) == file[n] \in Corpus

Idle == [at |-> "idle",      \* lock, write, fill: of a build or a write; prime, ask: claude runs
         route |-> "none",   \* requery: a query that had to prime
         name |-> NULL,
         corpus |-> NoFile,  \* the corpus it has read or made
         linked |-> TRUE,    \* the file it is writing still has its name
         alone |-> TRUE]     \* history: no other request for this name met it

Init ==
  /\ found = 0
  /\ file = [n \in Name |-> NoFile]
  /\ request = [h \in Handler |-> Idle]
  /\ mutex = NULL
  /\ knows = [s \in SessionId |-> NULL]
  /\ latest = [n \in Name |-> NULL]
  /\ disturbed = {}
  /\ requests = 0 /\ crashes = 0

\* Where handler h goes next, with which corpus in its hands.
Goto(h, at, route, corpus) ==
  request' = [request EXCEPT ![h] =
               [at |-> at, route |-> route, name |-> request[h].name, corpus |-> corpus,
                linked |-> TRUE, alone |-> request[h].alone]]

Busy(n) == {h \in Handler : request[h].name = n}

-----------------------------------------------------------------------------
(* The routes.                                                             *)

\* Other handlers store observations.
StoreObservation ==
  /\ mutex = NULL /\ found < MaxStored
  /\ found' = found + 1
  /\ UNCHANGED <<file, request, mutex, knows, history, bounds>>

\* Every other request for corpus n has met another one.
Met(n) == [h \in Handler |-> [request[h] EXCEPT !.alone = request[h].alone /\ request[h].name # n]]

Arrive(h, route, n, at) ==
  /\ request[h] = Idle /\ requests < MaxRequests
  /\ requests' = requests + 1
  /\ request' = [Met(n) EXCEPT ![h] =
                   [at |-> at, route |-> route, name |-> n, corpus |-> file[n],
                    linked |-> TRUE, alone |-> Busy(n) = {}]]
  /\ UNCHANGED <<found, file, mutex, knows, history, crashes>>

\* corpus_build, and corpus_rebuild, which wants to read the filter of the old
\* corpus.  A corpus that is missing or cannot be read is an error, here and below.
ArriveBuild(h, n) == Arrive(h, "build", n, "lock")
ArriveRebuild(h, n) == Readable(n) /\ Arrive(h, "build", n, "lock")

\* Fault: what was read is not looked at.
ArrivePrime_Unchecked(h, n) == Arrive(h, "prime", n, "prime")

\* corpus_prime and corpus_reprime: the session the corpus had is not used.
ArrivePrime(h, n) == Readable(n) /\ Arrive(h, "prime", n, "prime")

\* corpus_query; NotPrimed is an error.
ArriveQuery(h, n) ==
  Readable(n) /\ file[n].session # NULL /\ Arrive(h, "query", n, "ask")

\* What the history makes of a write or a deletion of corpus n.
Recorded(n, isAlone, isLast, content) ==
  /\ latest' = IF isLast THEN [latest EXCEPT ![n] = content] ELSE latest
  /\ disturbed' = IF ~ isAlone THEN disturbed \cup {n}
                  ELSE IF isLast THEN disturbed \ {n} ELSE disturbed

\* corpus_delete: a handler that is writing goes on in a file nobody can open.
Delete(n) ==
  /\ file[n] # NoFile /\ requests < MaxRequests
  /\ requests' = requests + 1
  /\ file' = [file EXCEPT ![n] = NoFile]
  /\ request' = [h \in Handler |->
                   [Met(n)[h] EXCEPT !.linked = request[h].linked /\ request[h].name # n]]
  /\ Recorded(n, Busy(n) = {}, TRUE, NULL)
  /\ UNCHANGED <<found, mutex, knows, crashes>>

-----------------------------------------------------------------------------
(* CorpusBuilder::build and CorpusStore::write.                            *)

\* Fault: a rebuild keeps the session of the old corpus.
NewCorpus_KeepsSession(old) ==
  [observations |-> found, session |-> IF old \in Corpus THEN old.session ELSE NULL]

\* Fault: a rebuild keeps the observations of the old corpus.
NewCorpus_KeepsOld(old) ==
  [observations |-> IF old \in Corpus THEN old.observations ELSE found, session |-> NULL]

\* What a build makes of the search, whatever the old corpus was.
NewCorpus(old) == [observations |-> found, session |-> NULL]

Build(h) ==
  /\ request[h].at = "lock" /\ mutex = NULL
  /\ mutex' = h
  /\ Goto(h, "write", "build", NewCorpus(request[h].corpus))
  /\ UNCHANGED <<found, file, knows, history, bounds>>

\* The file is opened, and truncated.
Open(h) ==
  /\ request[h].at = "write"
  /\ file' = [file EXCEPT ![request[h].name] = Empty]
  /\ Goto(h, "fill", request[h].route, request[h].corpus)
  /\ UNCHANGED <<found, mutex, knows, history, bounds>>

\* What a file holds after a write to its start.
FilledWith(n, corpus) == IF file[n] = Empty THEN {corpus} ELSE {corpus, Mixed}

\* Fault: the database stays locked after the build.
Unlocked_Never(h) == mutex

\* The mutex after handler h has written.
Unlocked(h) == IF mutex = h THEN NULL ELSE mutex

\* The file is filled; a query that has primed anew puts its question again.
Fill(h) ==
  LET n == request[h].name
      corpus == request[h].corpus
  IN  /\ request[h].at = "fill"
      /\ IF request[h].linked
         THEN \E content \in FilledWith(n, corpus) : file' = [file EXCEPT ![n] = content]
         ELSE UNCHANGED file
      /\ mutex' = Unlocked(h)
      /\ Recorded(n, request[h].alone, request[h].route = "build", found)
      /\ IF request[h].route = "requery" THEN Goto(h, "ask", "requery", corpus)
         ELSE request' = [request EXCEPT ![h] = Idle]
      /\ UNCHANGED <<found, knows, bounds>>

-----------------------------------------------------------------------------
(* KnowledgeAgent.  The claude CLI runs to its end.                        *)

Fresh(s) == knows[s] = NULL

\* The corpus with the session id the CLI has named.
Renamed(corpus, s) == [observations |-> corpus.observations, session |-> s]

\* The CLI is sent the corpus that was read, and names a session.  How it ends is not
\* looked at: it may exit with an error after that, and the session counts as primed.
Primed(h) ==
  /\ request[h].at = "prime"
  /\ \E s \in SessionId :
       /\ Fresh(s)
       /\ knows' = [knows EXCEPT ![s] = request[h].corpus.observations]
       /\ Goto(h, "write", request[h].route, Renamed(request[h].corpus, s))
  /\ UNCHANGED <<found, file, mutex, history, bounds>>

\* It cannot be started, prints what is no JSON, or ends without naming a session; or the
\* client hangs up and the handler is dropped.
PrimeFails(h) ==
  /\ request[h].at = "prime"
  /\ request' = [request EXCEPT ![h] = Idle]
  /\ UNCHANGED <<found, file, mutex, knows, history, bounds>>

\* The session answers under its own id.
Answered(h) ==
  /\ request[h].at = "ask"
  /\ request' = [request EXCEPT ![h] = Idle]
  /\ UNCHANGED <<found, file, mutex, knows, history, bounds>>

\* It answers under another id, which the corpus is to remember: a resumed
\* session goes on as a new one that knows the same.
AnsweredElsewhere(h) ==
  /\ request[h].at = "ask"
  /\ \E s \in SessionId :
       /\ Fresh(s)
       /\ knows' = [knows EXCEPT ![s] = knows[request[h].corpus.session]]
       /\ Goto(h, "write", "query", Renamed(request[h].corpus, s))
  /\ UNCHANGED <<found, file, mutex, history, bounds>>

\* The session cannot be resumed: prime, and ask once more.
Expired(h) ==
  /\ request[h].at = "ask" /\ request[h].route = "query"
  /\ Goto(h, "prime", "requery", request[h].corpus)
  /\ UNCHANGED <<found, file, mutex, knows, history, bounds>>

\* Any other error, any error the second time, or the client hangs up.
AskFails(h) ==
  /\ request[h].at = "ask"
  /\ request' = [request EXCEPT ![h] = Idle]
  /\ UNCHANGED <<found, file, mutex, knows, history, bounds>>

-----------------------------------------------------------------------------
\* The worker dies: a file that was opened stays as it is.
Crash ==
  /\ crashes < MaxCrashes
  /\ crashes' = crashes + 1
  /\ request' = [h \in Handler |-> Idle]
  /\ mutex' = NULL
  /\ disturbed' = disturbed \cup {n \in Name : Busy(n) # {}}
  /\ UNCHANGED <<found, file, knows, latest, requests>>

-----------------------------------------------------------------------------
Request ==
  \/ \E h \in Handler, n \in Name :
       ArriveBuild(h, n) \/ ArriveRebuild(h, n) \/ ArrivePrime(h, n) \/ ArriveQuery(h, n)
  \/ \E n \in Name : Delete(n)

Work(h) ==
  \/ Build(h) \/ Open(h) \/ Fill(h)
  \/ Primed(h) \/ PrimeFails(h)
  \/ Answered(h) \/ AnsweredElsewhere(h) \/ Expired(h) \/ AskFails(h)

Next ==
  \/ StoreObservation
  \/ Request
  \/ \E h \in Handler : Work(h)
  \/ Crash

\* A handler goes on, and the claude CLI ends.
Spec ==
  /\ Init /\ [][Next]_vars
  /\ \A h \in Handler : WF_vars(Work(h))
=============================================================================
