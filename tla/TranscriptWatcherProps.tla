----------------------- MODULE TranscriptWatcherProps -----------------------
(* What the transcript watcher guarantees about the lines it follows.      *)
EXTENDS TranscriptWatcher

\* The line is written to its end.
Whole(f, i) == i < Len(file[f]) \/ f \notin torn

\* The lines of a file the watcher is working on right now.
InHand(f) ==
  IF pass.at = "lines" /\ CurrentFile = f THEN {pass.lines[i].id : i \in DOMAIN pass.lines} ELSE {}

\* No complete line is left behind an offset unhandled, in memory or in the state
\* file, unless start_at_end passed over it, the offset was once put inside of it
\* or its file was truncated (process_file, watcher.rs:128-150): what is
\* appended between the stat, the read and the next pass gets its turn.
NothingLeftBehind ==
  \A f \in File \ shortened : \A i \in DOMAIN file[f] :
    LET l == file[f][i].id
    IN  2 * i <= saved[f] \/ 2 * i <= offsets[f] =>
          l \in ever \cup cut \cup skipped \cup InHand(f)

\* One life of the watcher handles a line at most twice: the lines that came
\* between the stat and the read are handled again by the next pass, and by
\* no later one (watcher.rs:149).
AtMostTwice == \A l \in LineId : counts[l] <= 2

\* The first time a life handles a line, it has handled no later line of that
\* file: reading the tail of a file again never reorders it (watcher.rs:153-167).
\* Of a file that is truncated between the stat and the read this cannot be said:
\* the read begins in the middle of what is new, and the next pass at its start.
FirstInOrder ==
  [][\A f \in File \ shortened : \A i, j \in DOMAIN file[f] :
       i < j /\ counts[file[f][i].id] = 0 /\ counts'[file[f][i].id] > 0
         => counts[file[f][j].id] = 0]_vars

\* The call whose result is line j of file f is the one line i has begun.
Pairs(f, i, j) ==
  /\ i < j
  /\ file[f][i].act = "use" /\ file[f][j].act = "result" /\ file[f][i].tool = file[f][j].tool
  /\ \A k \in (i + 1)..(j - 1) :
       file[f][k].act # "end" /\ file[f][k].tool # file[f][j].tool

\* A call whose two lines were handled in one life is reported, and twice only
\* if both lines were handled twice: handling the tail of a file again neither
\* loses a call nor reports one whose first line lies before the tail
\* (handle_tool_use and handle_tool_result, processor.rs:299-386).  In a file that
\* was truncated a result may be handled before its call, as in FirstInOrder.
CallsReported ==
  \A f \in File \ shortened : \A i, j \in DOMAIN file[f] :
    LET use == file[f][i].id
        result == file[f][j].id
    IN  Pairs(f, i, j) /\ counts[use] > 0 /\ counts[result] > 0 =>
          reported[result] \in 1..counts[use]

\* Every complete line of a file that is not truncated is handled in the end,
\* whatever the deaths of the watcher, with the exceptions of NothingLeftBehind,
\* as long as no read fails.
EveryLineHandled ==
  \A f \in File, l \in LineId :
    (\E i \in DOMAIN file[f] : file[f][i].id = l /\ Whole(f, i)) ~>
      l \in ever \cup cut \cup skipped \/ f \in shortened
=============================================================================
