-------------------------- MODULE TranscriptWatcher --------------------------
(***************************************************************************)
(* The transcript watcher of crates/claude-mem-supervisor/src/transcripts: *)
(* a process that follows JSONL files other programs append to, remembers  *)
(* in a state file how far it has read each of them, and reports tool      *)
(* calls to the worker.                                                    *)
(*                                                                         *)
(* Lengths and offsets count halves of lines: line i of a file lies        *)
(* between 2*(i-1) and 2*i, so an odd number falls inside a line.  A part  *)
(* of a line is not JSON and is passed over; where it also ends in the     *)
(* middle of a character ("char") it is not text, and the read fails.      *)
(* The session of a file is the one named in its path.  Requests to the    *)
(* worker count as made: one that is refused or lost looks the same here.  *)
(***************************************************************************)
EXTENDS Naturals, Sequences, SequencesExt

CONSTANTS File,       \* the files the watches resolve to, in the order they are visited
          WatchStart, \* the numbers at which the files of each watch begin
          FromEnd,    \* the files of watches with start_at_end
          Tool,       \* ids of tool calls
          Tear,       \* where a writer may pause inside a line: "ascii", "char"
          MaxLines,   \* bound: lines ever written
          MaxFaults   \* bound: deaths of the watcher and truncations

ASSUME WatcherAssumption ==
  /\ File \subseteq Nat /\ WatchStart \subseteq Nat
  /\ FromEnd \subseteq File
  /\ Tear \subseteq {"ascii", "char"}
  /\ MaxLines \in Nat
  /\ MaxFaults \in Nat

VARIABLES file,      \* the lines of each file, the half-written last one included
          torn,      \* the files whose last line is half written
          made,      \* the files that exist
          nextLine,  \* every line ever written has a number of its own
          saved,     \* the offsets of the state file
          offsets,   \* TranscriptWatchState.offsets; no entry is read as 0
          known,     \* known_files
          open,      \* pending_tools of the session of each file
          pass,      \* where process_once stands
          counts,    \* history: how often this life of the watcher handled a line
          reported,  \* history: how often this life reported the call a line ends
          ever,      \* history: the lines ever handled
          cut,       \* history: the lines an offset was put inside of
          skipped,   \* history: the lines start_at_end passed over
          shortened, \* history: the files that were truncated
          faults     \* history: deaths and truncations so far

disk == <<file, torn, made, nextLine>>
memory == <<offsets, known, open>>
history == <<counts, reported, ever, cut, skipped, shortened>>
vars == <<disk, saved, memory, pass, history, faults>>

LineId == 1..MaxLines
\* What a line makes the processor do: tool_use, tool_result, session_end.
Line == [id : LineId, act : {"use", "result", "end"}, tool : Tool \cup {"none"}, tear : Tear \cup {"none"}]
NoOffsets == [f \in File |-> 0]
Sleeping == [at |-> "sleep", todo |-> {}, from |-> 0, len |-> 0, lines |-> <<>>]
Down == [Sleeping EXCEPT !.at = "down"]

Init ==
  /\ file = [f \in File |-> <<>>] /\ torn = {} /\ made = {} /\ nextLine = 1
  /\ saved = NoOffsets
  /\ offsets = NoOffsets /\ known = {} /\ open = [f \in File |-> {}]
  /\ pass = Sleeping
  /\ counts = [l \in LineId |-> 0] /\ reported = [l \in LineId |-> 0]
  /\ ever = {} /\ cut = {} /\ skipped = {} /\ shortened = {}
  /\ faults = 0

-----------------------------------------------------------------------------
(* The programs that write the files.                                      *)

Length(f) == 2 * Len(file[f]) - (IF f \in torn THEN 1 ELSE 0)

\* Ids of calls are unique, and a result follows its call.
MayWrite(f, act, tool) ==
  CASE act = "use" -> tool \in Tool /\ \A g \in File : \A i \in DOMAIN file[g] : file[g][i].tool # tool
    [] act = "result" -> \E i \in DOMAIN file[f] : file[f][i].act = "use" /\ file[f][i].tool = tool
    [] act = "end" -> tool = "none"

\* A line is begun; it is complete at once, or half of it is there for a while.
WriteLine(f, act, tool, tear) ==
  /\ f \notin torn /\ nextLine \in LineId
  /\ MayWrite(f, act, tool)
  /\ file' = [file EXCEPT ![f] = Append(@, [id |-> nextLine, act |-> act, tool |-> tool, tear |-> tear])]
  /\ torn' = IF tear = "none" THEN torn ELSE torn \cup {f}
  /\ made' = made \cup {f}
  /\ nextLine' = nextLine + 1
  /\ UNCHANGED <<saved, memory, pass, history, faults>>

CompleteLine(f) ==
  /\ f \in torn
  /\ torn' = torn \ {f}
  /\ UNCHANGED <<file, made, nextLine, saved, memory, pass, history, faults>>

\* The file is emptied, to be written anew.
Truncate(f) ==
  /\ file[f] # <<>> /\ faults < MaxFaults
  /\ file' = [file EXCEPT ![f] = <<>>]
  /\ torn' = torn \ {f}
  /\ shortened' = shortened \cup {f}
  /\ faults' = faults + 1
  /\ UNCHANGED <<made, nextLine, saved, memory, pass, counts, reported, ever, cut, skipped>>

-----------------------------------------------------------------------------
(* A pass over the files.                                                  *)

CurrentFile == CHOOSE f \in pass.todo : \A g \in pass.todo : f <= g

SameWatch(f, g) == \A w \in WatchStart : w <= f <=> w <= g

\* The files that remain to be visited: what was resolved for this watch, and after the
\* last of them what exists by now for the next ones.
Remaining ==
  LET rest == pass.todo \ {CurrentFile}
  IN  IF \E f \in rest : SameWatch(CurrentFile, f) THEN rest
      ELSE {f \in made : f > CurrentFile /\ ~ SameWatch(CurrentFile, f)}

\* Whatever remains of the pass when it is done with the current file.
NextFile ==
  LET rest == Remaining
  IN  [Sleeping EXCEPT !.at = IF rest = {} THEN "save" ELSE "stat", !.todo = rest]

\* resolve_watch_files; with nothing to visit the state is saved all the same.  A watch is
\* resolved anew when the pass comes to it (NextFile).
StartPass ==
  /\ pass.at = "sleep"
  /\ pass' = [Sleeping EXCEPT !.at = IF made = {} THEN "save" ELSE "stat", !.todo = made]
  /\ UNCHANGED <<disk, saved, memory, history, faults>>

LinesOf(f) == {file[f][i].id : i \in DOMAIN file[f]}

\* start_at_end: the first sight of a file without an offset.
StatSkip ==
  LET f == CurrentFile
  IN  /\ pass.at = "stat"
      /\ offsets[f] = 0 /\ f \in FromEnd /\ f \notin known
      /\ known' = known \cup {f}
      /\ offsets' = [offsets EXCEPT ![f] = Length(f)]
      /\ skipped' = skipped \cup LinesOf(f)
      /\ pass' = NextFile
      /\ UNCHANGED <<disk, saved, open, counts, reported, ever, cut, shortened, faults>>

\* Fault: an unchanged file is taken for one that became shorter.
StartOf_Unchanged(f) == IF offsets[f] >= Length(f) THEN 0 ELSE offsets[f]

\* A file that became shorter is read from its start again.
StartOf(f) == IF offsets[f] > Length(f) THEN 0 ELSE offsets[f]

\* metadata: the length the pass will take the file to have.
Stat ==
  LET f == CurrentFile
  IN  /\ pass.at = "stat"
      /\ ~ (offsets[f] = 0 /\ f \in FromEnd /\ f \notin known)
      /\ known' = known \cup {f}
      /\ pass' = IF StartOf(f) = Length(f) THEN NextFile
                 ELSE [pass EXCEPT !.at = "read", !.from = StartOf(f), !.len = Length(f)]
      /\ UNCHANGED <<disk, saved, offsets, open, history, faults>>

\* The line an odd offset lies in.
LineAt(f, offset) == file[f][(offset + 1) \div 2]
CutsALine(f, offset) == offset % 2 = 1 /\ offset < 2 * Len(file[f])

\* The last of the data is half a line, or the first is, and ends inside a character.
IsNoText(f, from) ==
  \/ f \in torn /\ from < Length(f) /\ LineAt(f, Length(f)).tear = "char"
  \/ CutsALine(f, from) /\ LineAt(f, from).tear = "char"

\* consumed: the length of the stat, though the read goes to the end of the file.
Consumed == pass.len

\* Fault: the last line is held back, though the offset passes it.
WholeLines_DropsLast(f, from) ==
  SubSeq(file[f], (from + 1) \div 2 + 1, Len(file[f]) - 1)

\* The complete lines that begin at or after an offset.
WholeLines(f, from) ==
  LET first == (from + 1) \div 2 + 1
      last == Len(file[f]) - (IF f \in torn THEN 1 ELSE 0)
  IN  SubSeq(file[f], first, last)

\* read_to_string, and the new offset.
Read ==
  LET f == CurrentFile
  IN  /\ pass.at = "read"
      /\ ~ IsNoText(f, pass.from)
      /\ pass' = [pass EXCEPT !.at = "lines", !.lines = WholeLines(f, pass.from)]
      /\ offsets' = [offsets EXCEPT ![f] = Consumed]
      /\ cut' = IF CutsALine(f, Consumed) THEN cut \cup {LineAt(f, Consumed).id} ELSE cut
      /\ UNCHANGED <<disk, saved, known, open, counts, reported, ever, skipped, shortened, faults>>

\* Fault: a result leaves its call pending.
OpenAfter_Kept(tools, l) ==
  CASE l.act = "use" -> tools \cup {l.tool} [] l.act = "result" -> tools [] l.act = "end" -> {}

\* pending_tools after a line; session_end removes the session with its tools.
OpenAfter(tools, l) ==
  CASE l.act = "use" -> tools \cup {l.tool}
    [] l.act = "result" -> tools \ {l.tool}
    [] l.act = "end" -> {}

\* Fault: the lines are taken from the end of the list.
HandleLine_Last ==
  LET f == CurrentFile
      l == Last(pass.lines)
  IN  /\ pass.at = "lines" /\ pass.lines # <<>>
      /\ open' = [open EXCEPT ![f] = OpenAfter(@, l)]
      /\ reported' = IF l.act = "result" /\ l.tool \in open[f]
                     THEN [reported EXCEPT ![l.id] = @ + 1] ELSE reported
      /\ counts' = [counts EXCEPT ![l.id] = @ + 1]
      /\ ever' = ever \cup {l.id}
      /\ pass' = [pass EXCEPT !.lines = Front(@)]
      /\ UNCHANGED <<disk, saved, offsets, known, cut, skipped, shortened, faults>>

\* handle_event on the next line.  A result is reported when its call is pending,
\* since a result carries no tool name of its own.
HandleLine ==
  LET f == CurrentFile
      l == Head(pass.lines)
  IN  /\ pass.at = "lines" /\ pass.lines # <<>>
      /\ open' = [open EXCEPT ![f] = OpenAfter(@, l)]
      /\ reported' = IF l.act = "result" /\ l.tool \in open[f]
                     THEN [reported EXCEPT ![l.id] = @ + 1] ELSE reported
      /\ counts' = [counts EXCEPT ![l.id] = @ + 1]
      /\ ever' = ever \cup {l.id}
      /\ pass' = [pass EXCEPT !.lines = Tail(@)]
      /\ UNCHANGED <<disk, saved, offsets, known, cut, skipped, shortened, faults>>

FileDone ==
  /\ pass.at = "lines" /\ pass.lines = <<>>
  /\ pass' = NextFile
  /\ UNCHANGED <<disk, saved, memory, history, faults>>

\* save_state, and the sleep that follows it in watch_forever.
Save ==
  /\ pass.at = "save"
  /\ saved' = offsets
  /\ pass' = Sleeping
  /\ UNCHANGED <<disk, memory, history, faults>>

-----------------------------------------------------------------------------
(* The end of a life, and the next one.                                    *)

\* The memory is gone, and a life's counts end with it.
Die ==
  /\ pass' = Down
  /\ offsets' = NoOffsets
  /\ known' = {}
  /\ open' = [f \in File |-> {}]
  /\ counts' = [l \in LineId |-> 0]
  /\ reported' = [l \in LineId |-> 0]
  /\ UNCHANGED <<disk, ever, cut, skipped, shortened>>

\* Fault: the offsets are saved on the way out.
Killed_Saves ==
  /\ pass.at # "down" /\ faults < MaxFaults
  /\ Die
  /\ faults' = faults + 1
  /\ saved' = offsets

\* Killed, or ended by an error of the pass: its offsets are not saved.
Killed ==
  /\ pass.at # "down" /\ faults < MaxFaults
  /\ Die
  /\ faults' = faults + 1
  /\ UNCHANGED saved

\* fs::write empties the state file first; load_state takes what is no JSON for no state.
KilledInSave ==
  /\ pass.at = "save" /\ faults < MaxFaults
  /\ Die
  /\ saved' = NoOffsets
  /\ faults' = faults + 1

\* The data is no UTF-8: process_once fails, and with it watch_forever.
ReadFails ==
  /\ pass.at = "read"
  /\ IsNoText(CurrentFile, pass.from)
  /\ Die
  /\ UNCHANGED <<saved, faults>>

\* TranscriptWatcher::new, by the service manager.
Restart ==
  /\ pass.at = "down"
  /\ pass' = Sleeping
  /\ offsets' = saved
  /\ UNCHANGED <<disk, saved, known, open, history, faults>>

-----------------------------------------------------------------------------
Write ==
  \E f \in File :
    \/ \E act \in {"use", "result", "end"}, tool \in Tool \cup {"none"}, tear \in Tear \cup {"none"} :
         WriteLine(f, act, tool, tear)
    \/ CompleteLine(f)
    \/ Truncate(f)

Watch ==
  \/ StartPass \/ StatSkip \/ Stat \/ Read \/ HandleLine \/ FileDone \/ Save
  \/ ReadFails \/ Restart

Next == Write \/ Watch \/ Killed \/ KilledInSave

\* The watcher's loop goes on and its service is restarted (Restart=on-failure);
\* a writer that has begun a line finishes it.
Spec ==
  /\ Init /\ [][Next]_vars
  /\ WF_vars(Watch)
  /\ \A f \in File : WF_vars(CompleteLine(f))
=============================================================================
