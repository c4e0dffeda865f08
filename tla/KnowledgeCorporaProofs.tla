----------------------- MODULE KnowledgeCorporaProofs -----------------------
(***************************************************************************)
(* What is proved of the corpora, for any number of names, handlers and    *)
(* sessions: the types, that every recorded session knows the observations *)
(* recorded with it, and that requests which do not overlap leave exactly  *)
(* what the last of them has found.                                        *)
(***************************************************************************)
EXTENDS KnowledgeCorporaProps, TLAPS

Requests ==
  [at : {"idle", "lock", "write", "fill", "prime", "ask"},
   route : {"none", "build", "prime", "query", "requery"},
   name : Name \cup {NULL},
   corpus : Corpus \cup {NoFile, Empty, Mixed},
   linked : BOOLEAN, alone : BOOLEAN]

\* What a handler holds fits its step: only a corpus is written, primed or asked,
\* and a question goes to a session, so that a query that primes names one.
Fits(r) ==
  /\ r.at \in {"write", "fill", "prime", "ask"} => r.corpus \in Corpus /\ r.name \in Name
  /\ r.at = "lock" => r.name \in Name
  /\ r.at = "ask" => r.corpus.session # NULL
  /\ r.at \in {"write", "fill"} /\ r.route = "requery" => r.corpus.session # NULL

HoldsCorpus == \A h \in Handler : Fits(request[h])

\* Every corpus in a file or in the hands of a handler has a session that knows it.
AllMatch ==
  /\ \A n \in Name : Matches(file[n])
  /\ \A h \in Handler : Matches(request[h].corpus)

CorporaInv == CorporaTypeOK /\ HoldsCorpus /\ AllMatch

-----------------------------------------------------------------------------
(* Lemmas.                                                                 *)

\* The marks of a file that is no corpus are none.
LEMMA NoCorpus == NoFile \notin Corpus /\ Empty \notin Corpus /\ Mixed \notin Corpus
<1>1. \A c \in Corpus : c.observations # NULL
  BY CorporaAssumption DEF Corpus
<1>2. NoFile.observations = NULL /\ Empty.observations = NULL /\ Mixed.observations = NULL
  BY DEF NoFile, Empty, Mixed
<1>3. QED
  BY <1>1, <1>2

Knows(k, c) == c \in Corpus /\ c.session # NULL => k[c.session] = c.observations

\* What the invariant says, ready to be used.
LEMMA Taken ==
  ASSUME CorporaInv
  PROVE  /\ found \in 0..MaxStored
         /\ file \in [Name -> Corpus \cup {NoFile, Empty, Mixed}]
         /\ \A n \in Name : Knows(knows, file[n])
         /\ request \in [Handler -> Requests]
         /\ \A g \in Handler : Fits(request[g]) /\ Knows(knows, request[g].corpus)
         /\ mutex \in Handler \cup {NULL}
         /\ knows \in [SessionId -> 0..MaxStored \cup {NULL}]
         /\ latest \in [Name -> 0..MaxStored \cup {NULL}]
         /\ disturbed \subseteq Name
         /\ requests \in 0..MaxRequests /\ crashes \in 0..MaxCrashes
BY DEF CorporaInv, CorporaTypeOK, HoldsCorpus, AllMatch, Matches, Knows, Requests

\* A session that is opened or goes on leaves what the others know.
LEMMA KnowsGrows ==
  ASSUME CorporaInv, NEW s \in SessionId, Fresh(s), NEW x, NEW c, Knows(knows, c)
  PROVE  Knows([knows EXCEPT ![s] = x], c)
<1> SUFFICES ASSUME c \in Corpus, c.session # NULL
             PROVE  [knows EXCEPT ![s] = x][c.session] = c.observations
  BY DEF Knows
<1>1. c.session \in SessionId /\ c.observations \in 0..MaxStored
  BY DEF Corpus
<1>2. knows[c.session] = c.observations
  BY DEF Knows
<1>3. c.session # s
  BY <1>1, <1>2, CorporaAssumption DEF Fresh
<1>4. QED
  BY <1>1, <1>2, <1>3, Taken

\* The parts of a state after a step, put together.
LEMMA Composed ==
  ASSUME NEW k \in [SessionId -> 0..MaxStored \cup {NULL}], knows' = k,
         request' \in [Handler -> Requests],
         \A g \in Handler : Fits(request'[g]) /\ Knows(k, request'[g].corpus),
         file' \in [Name -> Corpus \cup {NoFile, Empty, Mixed}],
         \A n \in Name : Knows(k, file'[n]),
         found' \in 0..MaxStored, mutex' \in Handler \cup {NULL},
         latest' \in [Name -> 0..MaxStored \cup {NULL}], disturbed' \subseteq Name,
         requests' \in 0..MaxRequests, crashes' \in 0..MaxCrashes
  PROVE  CorporaInv'
<1>1. CorporaTypeOK'
  BY DEF CorporaTypeOK, Requests
<1>2. HoldsCorpus'
  BY DEF HoldsCorpus, Fits
<1>3. AllMatch'
  BY DEF AllMatch, Matches, Knows
<1>4. QED
  BY <1>1, <1>2, <1>3 DEF CorporaInv

\* One handler goes on with a corpus that fits its step.
LEMMA HandlerMoves ==
  ASSUME CorporaInv, NEW h \in Handler, NEW r \in Requests, Fits(r),
         request' = [request EXCEPT ![h] = r],
         NEW k, Knows(k, r.corpus),
         \A g \in Handler : Knows(k, request[g].corpus)
  PROVE  /\ request' \in [Handler -> Requests]
         /\ \A g \in Handler : Fits(request'[g]) /\ Knows(k, request'[g].corpus)
<1>1. request \in [Handler -> Requests]
  BY Taken
<1>2. \A g \in Handler : request'[g] = IF g = h THEN r ELSE request[g]
  BY <1>1
<1>3. request' \in [Handler -> Requests]
  BY <1>1
<1>4. \A g \in Handler : Fits(request'[g]) /\ Knows(k, request'[g].corpus)
  BY <1>2, Taken
<1>5. QED
  BY <1>3, <1>4

\* A step of one handler that opens no session and touches no file.
LEMMA QuietInv ==
  ASSUME CorporaInv, NEW h \in Handler, NEW r \in Requests, Fits(r),
         request' = [request EXCEPT ![h] = r],
         Knows(knows, r.corpus),
         UNCHANGED <<found, file, knows, latest, disturbed, requests, crashes>>,
         mutex' \in Handler \cup {NULL}
  PROVE  CorporaInv'
<1>1. /\ request' \in [Handler -> Requests]
      /\ \A g \in Handler : Fits(request'[g]) /\ Knows(knows, request'[g].corpus)
  BY HandlerMoves, Taken
<1>2. QED
  BY <1>1, Composed, Taken

\* A handler without a request holds nothing.
LEMMA IdleFits ==
  Idle \in Requests /\ Fits(Idle) /\ \A k : Knows(k, Idle.corpus)
BY NoCorpus DEF Idle, Requests, Knows, Fits

-----------------------------------------------------------------------------
\* No corpus exists at first.
LEMMA InitInv == Init => CorporaInv
<1> SUFFICES ASSUME Init PROVE CorporaInv
  OBVIOUS
<1>1. CorporaTypeOK
  BY IdleFits, CorporaAssumption DEF Init, CorporaTypeOK, Requests
<1>2. HoldsCorpus
  BY IdleFits DEF Init, HoldsCorpus
<1>3. AllMatch
  BY IdleFits, NoCorpus DEF Init, AllMatch, Matches, Knows
<1>4. QED
  BY <1>1, <1>2, <1>3 DEF CorporaInv

\* A step of a handler that ends it, or that waits for claude.
LEMMA EndInv ==
  ASSUME CorporaInv, NEW h \in Handler,
         PrimeFails(h) \/ Answered(h) \/ AskFails(h) \/ Expired(h)
  PROVE  CorporaInv'
<1>1. UNCHANGED <<found, file, mutex, knows, latest, disturbed, requests, crashes>>
  BY DEF PrimeFails, Answered, AskFails, Expired, history, bounds
<1>2. mutex' \in Handler \cup {NULL}
  BY <1>1, Taken
<1>3. CASE request' = [request EXCEPT ![h] = Idle]
  BY <1>1, <1>2, <1>3, IdleFits, QuietInv
<1>4. CASE Expired(h)
  <2> DEFINE r == [at |-> "prime", route |-> "requery", name |-> request[h].name,
                   corpus |-> request[h].corpus, linked |-> TRUE, alone |-> request[h].alone]
  <2>1. request' = [request EXCEPT ![h] = r]
    BY <1>4 DEF Expired, Goto
  <2>2. request[h] \in Requests /\ request[h].at = "ask"
    BY <1>4, Taken DEF Expired
  <2>3. r \in Requests
    BY <2>2 DEF Requests
  <2>4. Fits(r) /\ Knows(knows, r.corpus)
    BY <2>2, Taken DEF Fits
  <2> HIDE DEF r
  <2>5. QED
    BY <1>1, <1>2, <2>1, <2>3, <2>4, QuietInv
<1>5. QED
  BY <1>3, <1>4 DEF PrimeFails, Answered, AskFails

\* A build makes a corpus without a session.
LEMMA BuildInv ==
  ASSUME CorporaInv, NEW h \in Handler, Build(h)
  PROVE  CorporaInv'
<1> DEFINE r == [at |-> "write", route |-> "build", name |-> request[h].name,
                 corpus |-> NewCorpus(request[h].corpus), linked |-> TRUE,
                 alone |-> request[h].alone]
<1>1. request' = [request EXCEPT ![h] = r]
  BY DEF Build, Goto
<1>2. UNCHANGED <<found, file, knows, latest, disturbed, requests, crashes>> /\ mutex' = h
  BY DEF Build, history, bounds
<1>3. request[h] \in Requests /\ request[h].name \in Name
  BY Taken DEF Build, Fits
<1>4. r.corpus \in Corpus /\ r.corpus.session = NULL
  BY Taken DEF NewCorpus, Corpus
<1>5. r \in Requests
  BY <1>3, <1>4 DEF Requests
<1>6. Fits(r) /\ Knows(knows, r.corpus)
  BY <1>3, <1>4 DEF Knows, Fits
<1> HIDE DEF r
<1>7. QED
  BY <1>1, <1>2, <1>4, <1>5, <1>6, QuietInv

\* A file that is opened holds no corpus.
LEMMA OpenInv ==
  ASSUME CorporaInv, NEW h \in Handler, Open(h)
  PROVE  CorporaInv'
<1> DEFINE r == [at |-> "fill", route |-> request[h].route, name |-> request[h].name,
                 corpus |-> request[h].corpus, linked |-> TRUE, alone |-> request[h].alone]
<1>1. request' = [request EXCEPT ![h] = r]
  BY DEF Open, Goto
<1>2. UNCHANGED <<found, mutex, knows, latest, disturbed, requests, crashes>>
  BY DEF Open, history, bounds
<1>3. request[h] \in Requests /\ request[h].at = "write"
  BY Taken DEF Open
<1>4. r \in Requests /\ Fits(r) /\ Knows(knows, r.corpus)
  BY <1>3, Taken DEF Requests, Fits
<1> HIDE DEF r
<1>5. /\ request' \in [Handler -> Requests]
      /\ \A g \in Handler : Fits(request'[g]) /\ Knows(knows, request'[g].corpus)
  BY <1>1, <1>4, HandlerMoves, Taken
<1>6. file' = [file EXCEPT ![request[h].name] = Empty]
  BY DEF Open
<1>7. file' \in [Name -> Corpus \cup {NoFile, Empty, Mixed}]
  BY <1>6, Taken
<1>8. \A n \in Name : Knows(knows, file'[n])
  BY <1>6, NoCorpus, Taken DEF Knows
<1>9. QED
  BY <1>2, <1>5, <1>7, <1>8, Composed, Taken

\* What a write leaves in a file has a session that knows it.
LEMMA FilledFits ==
  ASSUME CorporaInv, NEW h \in Handler, Fill(h)
  PROVE  /\ file' \in [Name -> Corpus \cup {NoFile, Empty, Mixed}]
         /\ \A n \in Name : Knows(knows, file'[n])
<1>1. CASE request[h].linked
  <2>1. PICK content \in FilledWith(request[h].name, request[h].corpus) :
               file' = [file EXCEPT ![request[h].name] = content]
    BY <1>1 DEF Fill
  <2>2. content = request[h].corpus \/ content = Mixed
    BY <2>1 DEF FilledWith
  <2>3. request[h].corpus \in Corpus /\ Knows(knows, request[h].corpus)
    BY Taken DEF Fill, Fits
  <2>4. content \in Corpus \cup {Mixed} /\ Knows(knows, content)
    BY <2>2, <2>3, NoCorpus DEF Knows
  <2>5. QED
    BY <2>1, <2>4, Taken
<1>2. CASE ~ request[h].linked
  BY <1>2, Taken DEF Fill
<1>3. QED
  BY <1>1, <1>2

\* A write ends, and the handler with it unless it has a question left.
LEMMA FillInv ==
  ASSUME CorporaInv, NEW h \in Handler, Fill(h)
  PROVE  CorporaInv'
<1> DEFINE r == [at |-> "ask", route |-> "requery", name |-> request[h].name,
                 corpus |-> request[h].corpus, linked |-> TRUE, alone |-> request[h].alone]
<1>1. request[h] \in Requests /\ request[h].at = "fill" /\ request[h].name \in Name
  BY Taken DEF Fill, Fits
<1>2. UNCHANGED <<found, knows, requests, crashes>>
  BY DEF Fill, bounds
<1>3. mutex' \in Handler \cup {NULL}
  BY Taken DEF Fill, Unlocked
<1>4. latest' \in [Name -> 0..MaxStored \cup {NULL}] /\ disturbed' \subseteq Name
  BY <1>1, Taken DEF Fill, Recorded
<1>5. /\ request' \in [Handler -> Requests]
      /\ \A g \in Handler : Fits(request'[g]) /\ Knows(knows, request'[g].corpus)
  <2>1. CASE request[h].route = "requery"
    <3>1. request' = [request EXCEPT ![h] = r]
      BY <2>1 DEF Fill, Goto
    <3>2. r \in Requests /\ Fits(r) /\ Knows(knows, r.corpus)
      BY <1>1, <2>1, Taken DEF Requests, Fits
    <3> HIDE DEF r
    <3>3. QED
      BY <3>1, <3>2, HandlerMoves, Taken
  <2>2. CASE request[h].route # "requery"
    <3>1. request' = [request EXCEPT ![h] = Idle]
      BY <2>2 DEF Fill
    <3>2. QED
      BY <3>1, IdleFits, HandlerMoves, Taken
  <2>3. QED
    BY <2>1, <2>2
<1>6. QED
  BY <1>2, <1>3, <1>4, <1>5, FilledFits, Composed, Taken

-----------------------------------------------------------------------------
(* The claude sessions.                                                    *)

\* A handler writes its corpus under a fresh session that knows its observations.
LEMMA RenamedInv ==
  ASSUME CorporaInv, NEW h \in Handler, NEW s \in SessionId, Fresh(s),
         request[h].at \in {"prime", "ask"},
         NEW route \in {"none", "build", "prime", "query", "requery"},
         knows' = [knows EXCEPT ![s] = request[h].corpus.observations],
         Goto(h, "write", route, Renamed(request[h].corpus, s)),
         UNCHANGED <<found, file, mutex, latest, disturbed, requests, crashes>>
  PROVE  CorporaInv'
<1> DEFINE r == [at |-> "write", route |-> route, name |-> request[h].name,
                 corpus |-> Renamed(request[h].corpus, s), linked |-> TRUE,
                 alone |-> request[h].alone]
           k == [knows EXCEPT ![s] = request[h].corpus.observations]
<1>1. request' = [request EXCEPT ![h] = r]
  BY DEF Goto
<1>2. /\ request[h] \in Requests
      /\ request[h].corpus \in Corpus /\ request[h].name \in Name
  BY Taken DEF Fits
<1>3. request[h].corpus.observations \in 0..MaxStored
  BY <1>2 DEF Corpus
<1>4. k \in [SessionId -> 0..MaxStored \cup {NULL}]
  BY <1>3, Taken
<1>5. r.corpus \in Corpus /\ r.corpus.session = s
  BY <1>3 DEF Renamed, Corpus
<1>6. r \in Requests
  BY <1>2, <1>5 DEF Requests
<1>7. s # NULL
  BY CorporaAssumption
<1>8. Fits(r)
  BY <1>2, <1>5, <1>7 DEF Fits
<1>9. Knows(k, r.corpus)
  BY <1>5, Taken DEF Knows, Renamed
<1>10. /\ \A g \in Handler : Knows(k, request[g].corpus)
       /\ \A n \in Name : Knows(k, file[n])
  BY KnowsGrows, Taken
<1>11. knows' = k
  OBVIOUS
<1> HIDE DEF r, k
<1>12. /\ request' \in [Handler -> Requests]
       /\ \A g \in Handler : Fits(request'[g]) /\ Knows(k, request'[g].corpus)
  BY <1>1, <1>6, <1>8, <1>9, <1>10, HandlerMoves
<1>13. QED
  BY <1>4, <1>10, <1>11, <1>12, Composed, Taken

\* The session is primed with what the corpus holds.
LEMMA PrimedInv ==
  ASSUME CorporaInv, NEW h \in Handler, Primed(h)
  PROVE  CorporaInv'
<1>1. PICK s \in SessionId :
        /\ Fresh(s)
        /\ knows' = [knows EXCEPT ![s] = request[h].corpus.observations]
        /\ Goto(h, "write", request[h].route, Renamed(request[h].corpus, s))
  BY DEF Primed
<1>2. request[h].at = "prime"
  BY DEF Primed
<1>3. UNCHANGED <<found, file, mutex, latest, disturbed, requests, crashes>>
  BY DEF Primed, history, bounds
<1>4. request[h].route \in {"none", "build", "prime", "query", "requery"}
  BY Taken DEF Requests
<1>5. QED
  BY <1>1, <1>2, <1>3, <1>4, RenamedInv

\* A session goes on as one that knows the same, which is what the corpus holds.
LEMMA AnsweredElsewhereInv ==
  ASSUME CorporaInv, NEW h \in Handler, AnsweredElsewhere(h)
  PROVE  CorporaInv'
<1>1. PICK s \in SessionId :
        /\ Fresh(s)
        /\ knows' = [knows EXCEPT ![s] = knows[request[h].corpus.session]]
        /\ Goto(h, "write", "query", Renamed(request[h].corpus, s))
  BY DEF AnsweredElsewhere
<1>2. request[h].at = "ask"
  BY DEF AnsweredElsewhere
<1>3. knows[request[h].corpus.session] = request[h].corpus.observations
  BY <1>2, Taken DEF Fits, Knows
<1>4. UNCHANGED <<found, file, mutex, latest, disturbed, requests, crashes>>
  BY DEF AnsweredElsewhere, history, bounds
<1>5. QED
  BY <1>1, <1>2, <1>3, <1>4, RenamedInv

-----------------------------------------------------------------------------
(* Requests, and the rest.                                                 *)

\* What a handler learns of another request leaves its corpus alone.
LEMMA MetFits ==
  ASSUME CorporaInv, NEW n \in Name
  PROVE  /\ Met(n) \in [Handler -> Requests]
         /\ \A g \in Handler : Fits(Met(n)[g]) /\ Knows(knows, Met(n)[g].corpus)
<1> SUFFICES ASSUME NEW g \in Handler
             PROVE  /\ Met(n)[g] \in Requests
                    /\ Fits(Met(n)[g]) /\ Knows(knows, Met(n)[g].corpus)
  BY DEF Met
<1>1. request[g] \in Requests /\ Fits(request[g]) /\ Knows(knows, request[g].corpus)
  BY Taken
<1>2. Met(n)[g] = [request[g] EXCEPT !.alone = request[g].alone /\ request[g].name # n]
  BY DEF Met
<1>3. Met(n)[g] \in Requests
  BY <1>1, <1>2 DEF Requests
<1>4. /\ Met(n)[g].at = request[g].at /\ Met(n)[g].route = request[g].route
      /\ Met(n)[g].name = request[g].name /\ Met(n)[g].corpus = request[g].corpus
  BY <1>1, <1>2 DEF Requests
<1>5. QED
  BY <1>1, <1>3, <1>4 DEF Fits

\* A request that arrives takes what is in the file, and the others only learn of it.
LEMMA ArriveInv ==
  ASSUME CorporaInv, NEW h \in Handler, NEW n \in Name,
         NEW route \in {"build", "prime", "query"}, NEW at \in {"lock", "prime", "ask"},
         Arrive(h, route, n, at),
         at \in {"prime", "ask"} => Readable(n),
         at = "ask" => file[n].session # NULL
  PROVE  CorporaInv'
<1> DEFINE r == [at |-> at, route |-> route, name |-> n, corpus |-> file[n],
                 linked |-> TRUE, alone |-> Busy(n) = {}]
<1>1. /\ requests' = requests + 1 /\ requests < MaxRequests
      /\ request' = [Met(n) EXCEPT ![h] = r]
      /\ UNCHANGED <<found, file, mutex, knows, latest, disturbed, crashes>>
  BY DEF Arrive, history
<1>2. requests' \in 0..MaxRequests
  BY <1>1, CorporaAssumption, Taken
<1>3. r \in Requests
  BY Taken DEF Requests
<1>4. Fits(r) /\ Knows(knows, r.corpus)
  BY Taken DEF Fits, Readable
<1> HIDE DEF r
<1>5. /\ Met(n) \in [Handler -> Requests]
      /\ \A g \in Handler : Fits(Met(n)[g]) /\ Knows(knows, Met(n)[g].corpus)
  BY MetFits, Taken
<1>6. \A g \in Handler : request'[g] = IF g = h THEN r ELSE Met(n)[g]
  BY <1>1, <1>5
<1>7. request' \in [Handler -> Requests]
  BY <1>1, <1>3, <1>5
<1>8. \A g \in Handler : Fits(request'[g]) /\ Knows(knows, request'[g].corpus)
  BY <1>4, <1>5, <1>6
<1>9. QED
  BY <1>1, <1>2, <1>7, <1>8, Composed, Taken

\* A corpus that is deleted leaves a file nobody can read, and the handlers what they hold.
LEMMA DeleteInv ==
  ASSUME CorporaInv, NEW n \in Name, Delete(n)
  PROVE  CorporaInv'
<1>1. /\ requests' = requests + 1 /\ requests < MaxRequests
      /\ file' = [file EXCEPT ![n] = NoFile]
      /\ UNCHANGED <<found, mutex, knows, crashes>>
  BY DEF Delete
<1>2. requests' \in 0..MaxRequests
  BY <1>1, CorporaAssumption, Taken
<1>3. latest' \in [Name -> 0..MaxStored \cup {NULL}] /\ disturbed' \subseteq Name
  BY Taken DEF Delete, Recorded
<1>4. file' \in [Name -> Corpus \cup {NoFile, Empty, Mixed}]
  BY <1>1, Taken
<1>5. \A m \in Name : Knows(knows, file'[m])
  BY <1>1, NoCorpus, Taken DEF Knows
<1>6. /\ Met(n) \in [Handler -> Requests]
      /\ \A g \in Handler : Fits(Met(n)[g]) /\ Knows(knows, Met(n)[g].corpus)
  BY MetFits
<1>7. \A g \in Handler : Met(n)[g] \in Requests
  BY <1>6
<1>8. request' = [g \in Handler |->
                    [Met(n)[g] EXCEPT !.linked = request[g].linked /\ request[g].name # n]]
  BY DEF Delete
<1>9. \A g \in Handler : request[g].linked \in BOOLEAN
  BY Taken DEF Requests
<1>10. \A g \in Handler :
         /\ request'[g] \in Requests
         /\ Fits(request'[g]) /\ Knows(knows, request'[g].corpus)
  <2> SUFFICES ASSUME NEW g \in Handler
               PROVE  /\ request'[g] \in Requests
                      /\ Fits(request'[g]) /\ Knows(knows, request'[g].corpus)
    OBVIOUS
  <2>1. request'[g] = [Met(n)[g] EXCEPT !.linked = request[g].linked /\ request[g].name # n]
    BY <1>8
  <2>2. request'[g] \in Requests
    BY <2>1, <1>7, <1>9 DEF Requests
  <2>3. /\ request'[g].at = Met(n)[g].at /\ request'[g].route = Met(n)[g].route
        /\ request'[g].name = Met(n)[g].name /\ request'[g].corpus = Met(n)[g].corpus
    BY <2>1, <1>7 DEF Requests
  <2>4. QED
    BY <2>2, <2>3, <1>6 DEF Fits
<1>11. request' \in [Handler -> Requests]
  BY <1>8, <1>10
<1>12. QED
  BY <1>1, <1>2, <1>3, <1>4, <1>5, <1>10, <1>11, Composed, Taken

\* More observations to find change no corpus.
LEMMA StoreObservationInv ==
  ASSUME CorporaInv, StoreObservation
  PROVE  CorporaInv'
<1>1. found' = found + 1 /\ found < MaxStored
  BY DEF StoreObservation
<1>2. found' \in 0..MaxStored
  BY <1>1, CorporaAssumption, Taken
<1>3. UNCHANGED <<file, request, mutex, knows, latest, disturbed, requests, crashes>>
  BY DEF StoreObservation, history, bounds
<1>4. QED
  BY <1>2, <1>3, Composed, Taken

\* A death ends every request; the files stay.
LEMMA CrashInv ==
  ASSUME CorporaInv, Crash
  PROVE  CorporaInv'
<1>1. crashes' = crashes + 1 /\ crashes < MaxCrashes
  BY DEF Crash
<1>2. crashes' \in 0..MaxCrashes
  BY <1>1, CorporaAssumption, Taken
<1>3. request' = [h \in Handler |-> Idle]
  BY DEF Crash
<1>4. disturbed' \subseteq Name
  BY Taken DEF Crash
<1>5. mutex' = NULL /\ UNCHANGED <<found, file, knows, latest, requests>>
  BY DEF Crash
<1>6. QED
  BY <1>2, <1>3, <1>4, <1>5, IdleFits, Composed, Taken

\* Nothing changes.
LEMMA StutterInv ==
  ASSUME CorporaInv, UNCHANGED vars
  PROVE  CorporaInv'
BY Composed, Taken DEF vars

-----------------------------------------------------------------------------
\* Every step of a handler.
LEMMA WorkInv ==
  ASSUME CorporaInv, NEW h \in Handler, Work(h)
  PROVE  CorporaInv'
BY BuildInv, OpenInv, FillInv, PrimedInv, EndInv, AnsweredElsewhereInv DEF Work

\* Every request.
LEMMA RequestInv ==
  ASSUME CorporaInv, Request
  PROVE  CorporaInv'
<1>1. CASE \E n \in Name : Delete(n)
  BY <1>1, DeleteInv
<1>2. ASSUME NEW h \in Handler, NEW n \in Name,
             ArriveBuild(h, n) \/ ArriveRebuild(h, n)
      PROVE  CorporaInv'
  <2>1. Arrive(h, "build", n, "lock")
    BY <1>2 DEF ArriveBuild, ArriveRebuild
  <2>2. QED
    BY <2>1, ArriveInv
<1>3. ASSUME NEW h \in Handler, NEW n \in Name, ArrivePrime(h, n)
      PROVE  CorporaInv'
  <2>1. Arrive(h, "prime", n, "prime") /\ Readable(n)
    BY <1>3 DEF ArrivePrime
  <2>2. QED
    BY <2>1, ArriveInv
<1>4. ASSUME NEW h \in Handler, NEW n \in Name, ArriveQuery(h, n)
      PROVE  CorporaInv'
  <2>1. Arrive(h, "query", n, "ask") /\ Readable(n) /\ file[n].session # NULL
    BY <1>4 DEF ArriveQuery
  <2>2. QED
    BY <2>1, ArriveInv
<1>5. QED
  BY <1>1, <1>2, <1>3, <1>4 DEF Request

\* The invariant is inductive.
LEMMA NextInv ==
  ASSUME CorporaInv, [Next]_vars
  PROVE  CorporaInv'
BY StoreObservationInv, RequestInv, WorkInv, CrashInv, StutterInv DEF Next

\* The invariant that holds the others together.
THEOREM CorporaInvariant == Spec => []CorporaInv
<1>1. Init => CorporaInv
  BY InitInv
<1>2. CorporaInv /\ [Next]_vars => CorporaInv'
  BY NextInv
<1>3. QED
  BY <1>1, <1>2, PTL DEF Spec

\* Every variable stays in its domain, whatever the handlers do.
THEOREM CorporaTypes == Spec => []CorporaTypeOK
<1>1. CorporaInv => CorporaTypeOK
  BY DEF CorporaInv
<1>2. QED
  BY <1>1, CorporaInvariant, PTL

\* A session a file or a question names knows the observations it is recorded
\* with, for any number of handlers that overlap in any way (prime and query,
\* knowledge/agent.rs:271-333).
THEOREM SessionsKnow == Spec => []SessionKnowsCorpus
<1>1. CorporaInv => SessionKnowsCorpus
  BY DEF CorporaInv, AllMatch, SessionKnowsCorpus
<1>2. QED
  BY <1>1, CorporaInvariant, PTL

-----------------------------------------------------------------------------
(* Requests that do not overlap.                                           *)

\* The file has what the last build or deletion left.
Good(n) ==
  IF latest[n] = NULL THEN file[n] = NoFile
  ELSE Readable(n) /\ file[n].observations = latest[n]

\* A request that has met no other is the only one for its corpus.
AloneIsAlone ==
  \A h, g \in Handler :
    request[h].alone /\ request[h].name \in Name /\ request[g].name = request[h].name => g = h

\* A build keeps the database locked while it writes what it has found; the file of a
\* request that has met no other is as that one left it; such a request holds what the
\* last build found, unless its corpus was disturbed.
Undisturbed(h) ==
  LET r == request[h]
  IN  /\ r.at \in {"prime", "ask"} => r.route # "build"
      /\ r.at \in {"write", "fill"} /\ r.route = "build" =>
           mutex = h /\ r.corpus.observations = found
      /\ r.alone /\ r.at = "fill" => r.linked /\ file[r.name] = Empty
      /\ r.alone /\ r.at \in {"prime", "ask", "write", "fill"} /\ r.route # "build"
           /\ r.name \notin disturbed => r.corpus.observations = latest[r.name]

\* A corpus that is not disturbed is as it should be, or is being written.
Exact(n) ==
  n \notin disturbed =>
    Good(n) \/ \E h \in Handler : request[h].name = n /\ request[h].at = "fill"

SerialInv ==
  /\ AloneIsAlone
  /\ \A h \in Handler : Undisturbed(h)
  /\ \A n \in Name : Exact(n)

LEMMA SerialInit == Init => SerialInv
BY CorporaAssumption DEF Init, Idle, SerialInv, AloneIsAlone, Undisturbed, Exact, Good

\* A handler ends, or goes on to claude or to a write, with what it has: the files stay.
LEMMA SerialQuiet ==
  ASSUME CorporaInv, SerialInv, NEW h \in Handler, NEW r, request' = [request EXCEPT ![h] = r],
         request[h].at # "fill",
         UNCHANGED <<found, file, latest, disturbed>>,
         \A g \in Handler : g # h /\ mutex = g => mutex' = g,
         \/ r = Idle
         \/ /\ r.name = request[h].name /\ r.alone = request[h].alone
            /\ r.at \in {"prime", "write"}
            /\ r.route # "build" => request[h].at \in {"prime", "ask"} /\ request[h].route # "build"
                                    /\ r.corpus.observations = request[h].corpus.observations
            /\ r.route = "build" => r.at = "write" /\ mutex' = h /\ r.corpus.observations = found
  PROVE  SerialInv'
<1>1. /\ request'[h] = r /\ \A g \in Handler : g # h => request'[g] = request[g]
      /\ NULL \notin Name /\ NULL \notin Handler
  BY Taken, CorporaAssumption
<1>2. AloneIsAlone'
  BY <1>1 DEF SerialInv, AloneIsAlone, Idle
<1>3. ASSUME NEW g \in Handler PROVE Undisturbed(g)'
  <2>1. CASE g # h
    BY <1>1, <2>1 DEF SerialInv, Undisturbed
  <2>2. CASE g = h
    BY <1>1, <2>2 DEF SerialInv, Undisturbed, Idle
  <2>3. QED
    BY <2>1, <2>2
<1>4. ASSUME NEW n \in Name PROVE Exact(n)'
  <2>1. Good(n)' <=> Good(n)
    BY DEF Good, Readable
  <2>2. \A g \in Handler : request[g].name = n /\ request[g].at = "fill" =>
                           request'[g].name = n /\ request'[g].at = "fill"
    BY <1>1
  <2>3. QED
    BY <2>1, <2>2 DEF SerialInv, Exact
<1>5. QED
  BY <1>2, <1>3, <1>4 DEF SerialInv

LEMMA SerialClaude ==
  ASSUME CorporaInv, SerialInv, NEW h \in Handler,
         \/ PrimeFails(h) \/ Answered(h) \/ AskFails(h)
         \/ Expired(h) \/ Primed(h) \/ AnsweredElsewhere(h)
  PROVE  SerialInv'
<1>1. /\ UNCHANGED <<found, file, mutex, latest, disturbed>>
      /\ request[h].at \in {"prime", "ask"} /\ request[h].route # "build"
  <2>1. /\ UNCHANGED <<found, file, mutex, latest, disturbed>> /\ request[h].at \in {"prime", "ask"}
    BY DEF PrimeFails, Answered, AskFails, Expired, Primed, AnsweredElsewhere, history
  <2>2. QED
    BY <2>1 DEF SerialInv, Undisturbed
<1>2. ASSUME NEW at \in {"prime", "write"}, NEW route \in {request[h].route, "query", "requery"},
             NEW corpus, Goto(h, at, route, corpus),
             corpus.observations = request[h].corpus.observations
      PROVE  SerialInv'
  <2> DEFINE r == [at |-> at, route |-> route, name |-> request[h].name, corpus |-> corpus,
                   linked |-> TRUE, alone |-> request[h].alone]
  <2>1. request' = [request EXCEPT ![h] = r]
    BY <1>2 DEF Goto
  <2>2. /\ r.name = request[h].name /\ r.alone = request[h].alone /\ r.at \in {"prime", "write"}
        /\ r.route # "build" /\ r.corpus.observations = request[h].corpus.observations
    BY <1>1, <1>2
  <2> HIDE DEF r
  <2>3. QED
    BY <1>1, <2>1, <2>2, SerialQuiet
<1>3. CASE request' = [request EXCEPT ![h] = Idle]
  BY <1>1, <1>3, SerialQuiet
<1>4. CASE Expired(h)
  BY <1>2, <1>4 DEF Expired
<1>5. \A sid : Renamed(request[h].corpus, sid).observations = request[h].corpus.observations
  BY DEF Renamed
<1>6. CASE Primed(h)
  <2>1. PICK sid : Goto(h, "write", request[h].route, Renamed(request[h].corpus, sid))
    BY <1>6 DEF Primed
  <2>2. QED
    BY <1>2, <1>5, <2>1
<1>7. CASE AnsweredElsewhere(h)
  <2>1. PICK sid : Goto(h, "write", "query", Renamed(request[h].corpus, sid))
    BY <1>7 DEF AnsweredElsewhere
  <2>2. QED
    BY <1>2, <1>5, <2>1
<1>8. QED
  BY <1>3, <1>4, <1>6, <1>7 DEF PrimeFails, Answered, AskFails

LEMMA SerialBuild ==
  ASSUME CorporaInv, SerialInv, NEW h \in Handler, Build(h)
  PROVE  SerialInv'
<1> DEFINE r == [at |-> "write", route |-> "build", name |-> request[h].name,
                 corpus |-> NewCorpus(request[h].corpus), linked |-> TRUE,
                 alone |-> request[h].alone]
<1>1. request' = [request EXCEPT ![h] = r] /\ request[h].at # "fill"
  BY DEF Build, Goto
<1>2. UNCHANGED <<found, file, latest, disturbed>> /\ mutex = NULL /\ mutex' = h
  BY DEF Build, history
<1>3. /\ r.name = request[h].name /\ r.alone = request[h].alone /\ r.at = "write"
      /\ r.route = "build" /\ r.corpus.observations = found
  BY DEF NewCorpus
<1>4. NULL \notin Handler
  BY CorporaAssumption
<1> HIDE DEF r
<1>5. QED
  BY <1>1, <1>2, <1>3, <1>4, SerialQuiet

\* A write to corpus n leaves the others alone, and whoever has met nobody.
LEMMA OthersExact ==
  ASSUME CorporaInv, SerialInv, NEW h \in Handler, NEW n \in Name, request[h].name = n, NEW r,
         request' = [request EXCEPT ![h] = r],
         found' = found, \A g \in Handler : g # h /\ mutex = g => mutex' = g,
         r.name # NULL => r.name = n /\ r.alone = request[h].alone,
         \A m \in Name \ {n} : /\ file'[m] = file[m] /\ latest'[m] = latest[m]
                               /\ m \in disturbed' <=> m \in disturbed
  PROVE  /\ AloneIsAlone'
         /\ \A g \in Handler \ {h} : Undisturbed(g)'
         /\ \A m \in Name \ {n} : Exact(m)'
<1>1. /\ request'[h] = r /\ \A g \in Handler : g # h => request'[g] = request[g]
      /\ NULL \notin Name
  BY Taken, CorporaAssumption
<1>2. AloneIsAlone'
  BY <1>1 DEF SerialInv, AloneIsAlone
<1>3. ASSUME NEW g \in Handler \ {h} PROVE Undisturbed(g)'
  <2>1. request[g].at \in {"write", "fill", "prime", "ask"} => request[g].name \in Name
    BY Taken DEF Fits
  <2>2. request[g].alone => request[g].name # n
    BY DEF SerialInv, AloneIsAlone
  <2>3. Undisturbed(g) /\ request'[g] = request[g]
    BY <1>1 DEF SerialInv
  <2>4. QED
    BY <2>1, <2>2, <2>3 DEF Undisturbed
<1>4. ASSUME NEW m \in Name \ {n} PROVE Exact(m)'
  <2>1. Good(m)' <=> Good(m)
    BY DEF Good, Readable
  <2>2. \A g \in Handler : request[g].name = m => request'[g] = request[g]
    BY <1>1
  <2>3. QED
    BY <2>1, <2>2 DEF SerialInv, Exact
<1>5. QED
  BY <1>2, <1>3, <1>4

LEMMA SerialOpen ==
  ASSUME CorporaInv, SerialInv, NEW h \in Handler, Open(h)
  PROVE  SerialInv'
<1> PICK n \in Name : n = request[h].name
  BY Taken DEF Open, Fits
<1> DEFINE r == [at |-> "fill", route |-> request[h].route, name |-> n,
                 corpus |-> request[h].corpus, linked |-> TRUE, alone |-> request[h].alone]
<1>1. /\ request' = [request EXCEPT ![h] = r] /\ file' = [file EXCEPT ![n] = Empty]
      /\ UNCHANGED <<found, mutex, latest, disturbed>> /\ request[h].at = "write"
  BY DEF Open, Goto, history
<1>2. request'[h] = r /\ file'[n] = Empty /\ \A m \in Name \ {n} : file'[m] = file[m]
  BY <1>1, Taken
<1>3. r.name = n /\ r.alone = request[h].alone /\ r.at = "fill"
  OBVIOUS
<1>4. Undisturbed(h)'
  BY <1>1, <1>2 DEF SerialInv, Undisturbed
<1> HIDE DEF r
<1>5. /\ AloneIsAlone'
      /\ \A g \in Handler \ {h} : Undisturbed(g)'
      /\ \A m \in Name \ {n} : Exact(m)'
  BY <1>1, <1>2, <1>3, OthersExact
<1>6. Exact(n)'
  BY <1>2, <1>3 DEF Exact
<1>7. \A g \in Handler : Undisturbed(g)'
  BY <1>4, <1>5
<1>8. \A m \in Name : Exact(m)'
  BY <1>5, <1>6
<1>9. QED
  BY <1>5, <1>7, <1>8 DEF SerialInv

LEMMA SerialFill ==
  ASSUME CorporaInv, SerialInv, NEW h \in Handler, Fill(h)
  PROVE  SerialInv'
<1> PICK n \in Name : n = request[h].name
  BY Taken DEF Fill, Fits
<1> PICK corpus \in Corpus : corpus = request[h].corpus
  BY Taken DEF Fill, Fits
<1> DEFINE build == request[h].route = "build"
           r == [at |-> "ask", route |-> "requery", name |-> n, corpus |-> corpus,
                 linked |-> TRUE, alone |-> request[h].alone]
<1>1. /\ request[h].at = "fill"
      /\ file \in [Name -> Corpus \cup {NoFile, Empty, Mixed}]
      /\ latest \in [Name -> 0..MaxStored \cup {NULL}] /\ Undisturbed(h) /\ found \in 0..MaxStored
      /\ request[h].alone \in BOOLEAN
  BY Taken DEF Fill, Fits, SerialInv, Requests
<1>2. /\ found' = found /\ mutex' = Unlocked(h)
      /\ Recorded(n, request[h].alone, build, found)
      /\ IF request[h].linked
         THEN \E content \in FilledWith(n, corpus) : file' = [file EXCEPT ![n] = content]
         ELSE file' = file
      /\ \/ request[h].route = "requery" /\ request' = [request EXCEPT ![h] = r]
         \/ request' = [request EXCEPT ![h] = Idle]
  BY DEF Fill, Goto
<1>3. \A m \in Name \ {n} : /\ file'[m] = file[m] /\ latest'[m] = latest[m]
                            /\ m \in disturbed' <=> m \in disturbed
  BY <1>1, <1>2 DEF Recorded
<1>4. \A g \in Handler : g # h /\ mutex = g => mutex' = g
  BY <1>2 DEF Unlocked
<1>5. /\ AloneIsAlone'
      /\ \A g \in Handler \ {h} : Undisturbed(g)'
      /\ \A m \in Name \ {n} : Exact(m)'
  <2>1. CASE request' = [request EXCEPT ![h] = r]
    BY <1>1, <1>2, <1>3, <1>4, <2>1, OthersExact
  <2>2. CASE request' = [request EXCEPT ![h] = Idle]
    <3>1. Idle.name = NULL
      BY DEF Idle
    <3>2. QED
      BY <1>1, <1>2, <1>3, <1>4, <2>2, <3>1, OthersExact
  <2>3. QED
    BY <1>2, <2>1, <2>2
<1>6. Undisturbed(h)'
  <2>1. CASE request[h].route = "requery" /\ request' = [request EXCEPT ![h] = r]
    <3>1. request'[h] = r
      BY <2>1, Taken
    <3>2. request[h].alone => latest' = latest /\ disturbed' = disturbed
      BY <1>2, <2>1 DEF Recorded
    <3>3. QED
      BY <1>1, <2>1, <3>1, <3>2 DEF Undisturbed
  <2>2. CASE request' = [request EXCEPT ![h] = Idle]
    <3>1. request'[h] = Idle
      BY <2>2, Taken
    <3>2. QED
      BY <3>1 DEF Undisturbed, Idle
  <2>3. QED
    BY <1>2, <2>1, <2>2
<1>7. Exact(n)'
  <2>1. CASE ~ request[h].alone
    BY <1>2, <2>1 DEF Recorded, Exact
  <2>2. CASE request[h].alone
    <3>1. file' = [file EXCEPT ![n] = corpus]
      BY <1>1, <1>2, <2>2 DEF Undisturbed, FilledWith
    <3>2. file'[n] = corpus /\ corpus.observations \in Nat /\ corpus.observations # NULL
      BY <1>1, <3>1, CorporaAssumption DEF Corpus
    <3>3. n \notin disturbed' => latest'[n] = corpus.observations
      <4>1. CASE build
        BY <1>1, <1>2, <2>2, <4>1 DEF Recorded, Undisturbed
      <4>2. CASE ~ build
        <5>1. latest' = latest /\ disturbed' = disturbed
          BY <1>2, <2>2, <4>2 DEF Recorded
        <5>2. QED
          BY <1>1, <2>2, <4>2, <5>1 DEF Undisturbed
      <4>3. QED
        BY <4>1, <4>2
    <3>4. QED
      BY <1>1, <3>2, <3>3 DEF Exact, Good, Readable
  <2>3. QED
    BY <1>1, <2>1, <2>2
<1>8. \A g \in Handler : Undisturbed(g)'
  BY <1>5, <1>6
<1>9. \A m \in Name : Exact(m)'
  BY <1>5, <1>7
<1>10. QED
  BY <1>5, <1>8, <1>9 DEF SerialInv

\* What a request learns of another for corpus n, and what becomes of that corpus,
\* leaves it undisturbed: if the corpus is its own, it is no longer alone.
LEMMA SerialMet ==
  ASSUME CorporaInv, SerialInv, NEW n \in Name, NEW g \in Handler,
         request'[g].at = request[g].at, request'[g].route = request[g].route,
         request'[g].name = request[g].name, request'[g].corpus = request[g].corpus,
         request'[g].alone <=> request[g].alone /\ request[g].name # n,
         request[g].name # n => request'[g].linked = request[g].linked,
         UNCHANGED <<found, mutex>>,
         \A m \in Name \ {n} : /\ file'[m] = file[m] /\ latest'[m] = latest[m]
                               /\ m \in disturbed' <=> m \in disturbed
  PROVE  Undisturbed(g)'
<1>1. request[g].at \in {"write", "fill", "prime", "ask"} => request[g].name \in Name
  BY Taken DEF Fits
<1>2. Undisturbed(g)
  BY DEF SerialInv
<1>3. QED
  BY <1>1, <1>2 DEF Undisturbed

\* Every other request learns of one that arrives or deletes, and no more.
LEMMA MetFields ==
  ASSUME CorporaInv, NEW n \in Name, NEW g \in Handler
  PROVE  /\ Met(n)[g].at = request[g].at /\ Met(n)[g].route = request[g].route
         /\ Met(n)[g].name = request[g].name /\ Met(n)[g].corpus = request[g].corpus
         /\ Met(n)[g].linked = request[g].linked
         /\ Met(n)[g].alone <=> request[g].alone /\ request[g].name # n
<1>1. request[g] \in Requests
  BY Taken
<1>2. Met(n)[g] = [request[g] EXCEPT !.alone = request[g].alone /\ request[g].name # n]
  BY DEF Met
<1>3. QED
  BY <1>1, <1>2 DEF Requests

LEMMA SerialArrive ==
  ASSUME CorporaInv, SerialInv, NEW h \in Handler, NEW n \in Name,
         NEW route \in {"build", "prime", "query"}, NEW at \in {"lock", "prime", "ask"},
         Arrive(h, route, n, at),
         at \in {"prime", "ask"} => Readable(n) /\ route # "build"
  PROVE  SerialInv'
<1> DEFINE r == [at |-> at, route |-> route, name |-> n, corpus |-> file[n],
                 linked |-> TRUE, alone |-> Busy(n) = {}]
<1>1. /\ request[h] = Idle /\ request' = [Met(n) EXCEPT ![h] = r]
      /\ UNCHANGED <<found, file, mutex, latest, disturbed>>
  BY DEF Arrive, history
<1>2. request'[h] = r /\ \A g \in Handler \ {h} : request'[g] = Met(n)[g]
  BY <1>1, MetFits
<1>3. /\ r.at = at /\ r.route = route /\ r.name = n /\ r.corpus = file[n]
      /\ (r.alone <=> Busy(n) = {})
  OBVIOUS
<1> HIDE DEF r
<1>4. request[h].name = NULL /\ request[h].at = "idle" /\ NULL \notin Name
  BY <1>1, CorporaAssumption DEF Idle
<1>5. Busy(n) = {} => \A g \in Handler : request[g].name # n
  BY DEF Busy
<1>6. AloneIsAlone'
  <2> SUFFICES ASSUME NEW a \in Handler, NEW b \in Handler, request'[a].alone,
                      request'[a].name \in Name, request'[b].name = request'[a].name
               PROVE  b = a
    BY DEF AloneIsAlone
  <2>1. \A g \in Handler \ {h} : /\ request'[g].name = request[g].name
                                 /\ request'[g].alone => request[g].alone /\ request[g].name # n
    BY <1>2, MetFields
  <2>2. CASE a = h
    BY <1>2, <1>3, <1>5, <2>1, <2>2
  <2>3. CASE a # h
    BY <1>2, <1>3, <2>1, <2>3 DEF SerialInv, AloneIsAlone
  <2>4. QED
    BY <2>2, <2>3
<1>7. ASSUME NEW g \in Handler \ {h} PROVE Undisturbed(g)'
  <2>1. /\ request'[g].at = request[g].at /\ request'[g].route = request[g].route
        /\ request'[g].name = request[g].name /\ request'[g].corpus = request[g].corpus
        /\ request'[g].linked = request[g].linked
        /\ request'[g].alone <=> request[g].alone /\ request[g].name # n
    BY <1>2, MetFields
  <2>2. QED
    BY <1>1, <2>1, SerialMet
<1>8. Undisturbed(h)'
  <2>1. Busy(n) = {} /\ n \notin disturbed => Good(n)
    BY <1>5 DEF SerialInv, Exact
  <2>2. Busy(n) = {} /\ n \notin disturbed /\ Readable(n) => file[n].observations = latest[n]
    BY <2>1, NoCorpus DEF Good, Readable
  <2>3. QED
    BY <1>1, <1>2, <1>3, <2>2 DEF Undisturbed
<1>9. ASSUME NEW m \in Name PROVE Exact(m)'
  <2>1. Good(m)' <=> Good(m)
    BY <1>1 DEF Good, Readable
  <2>2. \A g \in Handler : request[g].name = m /\ request[g].at = "fill" =>
                           request'[g].name = m /\ request'[g].at = "fill"
    BY <1>2, <1>4, MetFields
  <2>3. QED
    BY <1>1, <2>1, <2>2 DEF SerialInv, Exact
<1>10. \A g \in Handler : Undisturbed(g)'
  BY <1>7, <1>8
<1>11. QED
  BY <1>6, <1>9, <1>10 DEF SerialInv

LEMMA SerialDelete ==
  ASSUME CorporaInv, SerialInv, NEW n \in Name, Delete(n)
  PROVE  SerialInv'
<1>1. /\ file' = [file EXCEPT ![n] = NoFile] /\ UNCHANGED <<found, mutex>>
      /\ Recorded(n, Busy(n) = {}, TRUE, NULL)
      /\ request' = [g \in Handler |->
                       [Met(n)[g] EXCEPT !.linked = request[g].linked /\ request[g].name # n]]
  BY DEF Delete
<1>2. ASSUME NEW g \in Handler
      PROVE  /\ request'[g].at = request[g].at /\ request'[g].route = request[g].route
             /\ request'[g].name = request[g].name /\ request'[g].corpus = request[g].corpus
             /\ request'[g].alone <=> request[g].alone /\ request[g].name # n
             /\ request[g].name # n => request'[g].linked = request[g].linked
  <2>1. request'[g] = [Met(n)[g] EXCEPT !.linked = request[g].linked /\ request[g].name # n]
    BY <1>1
  <2>2. Met(n)[g] \in Requests /\ request[g] \in Requests
    BY MetFits, Taken
  <2>3. /\ request'[g].at = Met(n)[g].at /\ request'[g].route = Met(n)[g].route
        /\ request'[g].name = Met(n)[g].name /\ request'[g].corpus = Met(n)[g].corpus
        /\ request'[g].alone = Met(n)[g].alone
        /\ request[g].name # n => request'[g].linked = request[g].linked
    BY <2>1, <2>2 DEF Requests
  <2>4. QED
    BY <2>3, MetFields
<1>3. /\ file'[n] = NoFile /\ latest'[n] = NULL
      /\ \A m \in Name \ {n} : /\ file'[m] = file[m] /\ latest'[m] = latest[m]
                               /\ m \in disturbed' <=> m \in disturbed
  BY <1>1, Taken DEF Recorded
<1>4. AloneIsAlone'
  BY <1>2 DEF SerialInv, AloneIsAlone
<1>5. \A g \in Handler : Undisturbed(g)'
  BY <1>1, <1>2, <1>3, SerialMet
<1>6. Exact(n)'
  BY <1>3 DEF Exact, Good
<1>7. ASSUME NEW m \in Name \ {n} PROVE Exact(m)'
  <2>1. Good(m)' <=> Good(m)
    BY <1>3 DEF Good, Readable
  <2>2. \A g \in Handler : request[g].name = m /\ request[g].at = "fill" =>
                           request'[g].name = m /\ request'[g].at = "fill"
    BY <1>2
  <2>3. QED
    BY <1>3, <2>1, <2>2 DEF SerialInv, Exact
<1>8. \A m \in Name : Exact(m)'
  BY <1>6, <1>7
<1>9. QED
  BY <1>4, <1>5, <1>8 DEF SerialInv

\* Nothing is found anew while a build writes: it holds the database.
LEMMA SerialStore ==
  ASSUME CorporaInv, SerialInv, StoreObservation
  PROVE  SerialInv'
<1>1. /\ UNCHANGED <<file, request, mutex, latest, disturbed>> /\ mutex = NULL /\ NULL \notin Handler
  BY CorporaAssumption DEF StoreObservation, history
<1>2. AloneIsAlone'
  BY <1>1 DEF SerialInv, AloneIsAlone
<1>3. \A g \in Handler : Undisturbed(g)'
  BY <1>1 DEF SerialInv, Undisturbed
<1>4. \A m \in Name : Exact(m)'
  BY <1>1 DEF SerialInv, Exact, Good, Readable
<1>5. QED
  BY <1>2, <1>3, <1>4 DEF SerialInv

\* A death disturbs the corpora it comes upon a request for; nobody is left.
LEMMA SerialCrash ==
  ASSUME CorporaInv, SerialInv, Crash
  PROVE  SerialInv'
<1>1. /\ UNCHANGED <<file, latest>> /\ disturbed' = disturbed \cup {n \in Name : Busy(n) # {}}
      /\ \A h \in Handler : request'[h] = Idle
  BY DEF Crash
<1>2. AloneIsAlone' /\ \A h \in Handler : Undisturbed(h)'
  BY <1>1, CorporaAssumption DEF AloneIsAlone, Undisturbed, Idle
<1>3. ASSUME NEW n \in Name PROVE Exact(n)'
  <2>1. n \notin disturbed' => n \notin disturbed /\ \A h \in Handler : request[h].name # n
    BY <1>1 DEF Busy
  <2>2. n \notin disturbed' => Good(n)
    BY <2>1 DEF SerialInv, Exact
  <2>3. Good(n)' <=> Good(n)
    BY <1>1 DEF Good, Readable
  <2>4. QED
    BY <2>2, <2>3 DEF Exact
<1>4. QED
  BY <1>2, <1>3 DEF SerialInv

LEMMA SerialStep ==
  ASSUME CorporaInv, SerialInv, [Next]_vars
  PROVE  SerialInv'
<1>1. CASE UNCHANGED vars
  BY <1>1 DEF vars, history, SerialInv, AloneIsAlone, Undisturbed, Exact, Good, Readable
<1>2. ASSUME NEW h \in Handler, Work(h) PROVE SerialInv'
  BY <1>2, SerialClaude, SerialBuild, SerialOpen, SerialFill DEF Work
<1>3. ASSUME NEW h \in Handler, NEW n \in Name,
             \/ ArriveBuild(h, n) \/ ArriveRebuild(h, n) \/ ArrivePrime(h, n) \/ ArriveQuery(h, n)
      PROVE  SerialInv'
  <2> DEFINE lock == "lock"  prime == "prime"  ask == "ask"  build == "build"  query == "query"
  <2>1. /\ build \in {"build", "prime", "query"} /\ prime \in {"build", "prime", "query"}
        /\ query \in {"build", "prime", "query"} /\ lock \in {"lock", "prime", "ask"}
        /\ prime \in {"lock", "prime", "ask"} /\ ask \in {"lock", "prime", "ask"}
        /\ lock \notin {"prime", "ask"} /\ prime # "build" /\ query # "build"
    OBVIOUS
  <2>2. \/ Arrive(h, build, n, lock)
        \/ Arrive(h, prime, n, prime) /\ Readable(n)
        \/ Arrive(h, query, n, ask) /\ Readable(n)
    BY <1>3 DEF ArriveBuild, ArriveRebuild, ArrivePrime, ArriveQuery
  <2> HIDE DEF lock, prime, ask, build, query
  <2>3. QED
    BY <2>1, <2>2, SerialArrive
<1>4. QED
  BY <1>1, <1>2, <1>3, SerialDelete, SerialStore, SerialCrash DEF Next, Request

\* Requests that do not overlap leave what the last of them left, for any number of
\* names and handlers, and one build that meets nobody repairs an overlap or a death
\* (corpus_build, corpus_rebuild and corpus_delete, routes/mod.rs:3274-3389).
THEOREM SerialRequests == Spec => []SerialRequestsExact
<1>1. Init => SerialInv
  BY SerialInit
<1>2. CorporaInv /\ SerialInv /\ [Next]_vars => SerialInv'
  BY SerialStep
<1>3. SerialInv => SerialRequestsExact
  <2> SUFFICES ASSUME SerialInv, NEW n \in Name, n \notin disturbed, Busy(n) = {}
               PROVE  Good(n)
    BY DEF SerialRequestsExact, Good
  <2>1. QED
    BY DEF SerialInv, Exact, Busy
<1>4. QED
  BY <1>1, <1>2, <1>3, CorporaInvariant, PTL DEF Spec
=============================================================================
