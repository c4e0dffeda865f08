------------------------ MODULE KnowledgeCorporaProps ------------------------
(* What the corpora guarantee to those who build and question them.        *)
EXTENDS KnowledgeCorpora

\* Every variable stays in its domain.
CorporaTypeOK ==
  /\ found \in 0..MaxStored
  /\ file \in [Name -> Corpus \cup {NoFile, Empty, Mixed}]
  /\ request \in [Handler -> [at : {"idle", "lock", "write", "fill", "prime", "ask"},
                              route : {"none", "build", "prime", "query", "requery"},
                              name : Name \cup {NULL},
                              corpus : Corpus \cup {NoFile, Empty, Mixed},
                              linked : BOOLEAN, alone : BOOLEAN]]
  /\ mutex \in Handler \cup {NULL}
  /\ knows \in [SessionId -> 0..MaxStored \cup {NULL}]
  /\ latest \in [Name -> 0..MaxStored \cup {NULL}]
  /\ disturbed \subseteq Name
  /\ requests \in 0..MaxRequests /\ crashes \in 0..MaxCrashes

Matches(corpus) ==
  corpus \in Corpus /\ corpus.session # NULL => knows[corpus.session] = corpus.observations

\* The session a corpus file names was sent the observations of that very file, and so
\* was every session a question is put to, however builds, primes and queries overlap
\* (prime and query, knowledge/agent.rs:271-333): a write replaces the observations and
\* the session together.  Whether the session took them in is not known to the code.
SessionKnowsCorpus ==
  /\ \A n \in Name : Matches(file[n])
  /\ \A h \in Handler : request[h].at \in {"ask", "fill"} => Matches(request[h].corpus)

\* Requests for a corpus that do not overlap leave exactly what the last build
\* has found or the last deletion left, and one build that meets no other
\* request repairs what an overlap or a death has left (corpus_build,
\* corpus_rebuild and corpus_delete, routes/mod.rs:3274-3389).
SerialRequestsExact ==
  \A n \in Name :
    n \notin disturbed /\ Busy(n) = {} =>
      IF latest[n] = NULL THEN file[n] = NoFile
      ELSE Readable(n) /\ file[n].observations = latest[n]

\* Every request returns, provided that the claude CLI ends, for which the code sets no
\* time (agent.rs:211): a query primes at most once, and no handler keeps the database to
\* itself (query, agent.rs:295-333; build, builder.rs:52-114).
RequestsReturn == \A h \in Handler : request[h].at # "idle" ~> request[h].at = "idle"
=============================================================================
