----------------------- MODULE TranscriptWatcherProofs -----------------------
(***************************************************************************)
(* What is proved of the transcript watcher, for any files, lines, tool    *)
(* calls, deaths and truncations: its types; that a life handles a line at *)
(* most twice; that no complete line is left behind an offset; that a file *)
(* is handled in its order; and that every call is reported.               *)
(***************************************************************************)
EXTENDS TranscriptWatcherProps, SequenceTheorems, WellFoundedInduction, TLAPS

-----------------------------------------------------------------------------
(* The inductive invariant, in four parts.                                 *)

PassRecord ==
  [at : {"sleep", "stat", "read", "lines", "save", "down"}, todo : SUBSET File,
   from : Nat, len : Nat, lines : Seq(Line)]

WatcherTypeOK ==
  /\ file \in [File -> Seq(Line)] /\ torn \subseteq File /\ made \subseteq File
  /\ nextLine \in 1..(MaxLines + 1)
  /\ saved \in [File -> Nat] /\ offsets \in [File -> Nat] /\ known \subseteq File
  /\ open \in [File -> SUBSET (Tool \cup {"none"})]
  /\ pass \in PassRecord
  /\ counts \in [LineId -> Nat] /\ reported \in [LineId -> Nat]
  /\ ever \subseteq LineId /\ cut \subseteq LineId /\ skipped \subseteq LineId
  /\ shortened \subseteq File /\ faults \in 0..MaxFaults

\* A pass that looks at a file has one; only then does it hold lines; a life that has
\* not begun has handled none.
PassOK ==
  /\ pass.at \in {"stat", "read", "lines"} => pass.todo # {}
  /\ pass.at # "lines" => pass.lines = <<>>
  /\ pass.at = "down" => \A l \in LineId : counts[l] = 0

\* Line l waits to be handled.
Among(lines, l) == \E k \in DOMAIN lines : lines[k].id = l
Held(l) == Among(pass.lines, l)

\* A line is known by its number, whoever holds it and even when its file is gone;
\* a half-written line is the last one, and has not been handled.
Numbered ==
  /\ \A f \in File : \A i \in DOMAIN file[f] : file[f][i].id < nextLine
  /\ \A f, g \in File : \A i \in DOMAIN file[f] : \A j \in DOMAIN file[g] :
       file[f][i].id = file[g][j].id => f = g /\ i = j
  /\ \A k \in DOMAIN pass.lines : pass.lines[k].id < nextLine
  /\ \A k, m \in DOMAIN pass.lines : pass.lines[k].id = pass.lines[m].id => k = m
  /\ \A g \in File : \A i \in DOMAIN file[g] : Held(file[g][i].id) => g = CurrentFile
  /\ \A l \in LineId : l >= nextLine => counts[l] = 0 /\ reported[l] = 0
  /\ \A f \in torn : /\ file[f] # <<>>
                     /\ counts[file[f][Len(file[f])].id] = 0
                     /\ ~ Held(file[f][Len(file[f])].id)

BasicInv == WatcherTypeOK /\ PassOK /\ Numbered

-----------------------------------------------------------------------------
\* Line l is handled n times at most, what is in hand included.
AtMost(l, n) == counts[l] <= n /\ (Held(l) => counts[l] < n)

\* The next read of file f will begin before line i.
Again(f, i) == offsets[f] <= 2 * (i - 1) \/ offsets[f] > Length(f)

Reading(f) == pass.at = "read" /\ CurrentFile = f

\* A line is handled at most twice, and at most once if it will be read again; one that
\* came between the stat and the read has not been handled.
LoadIn(f, i) ==
  LET l == file[f][i].id
  IN  /\ Again(f, i) => AtMost(l, 1)
      /\ Reading(f) /\ pass.from <= 2 * (i - 1) => AtMost(l, 1)
      /\ Reading(f) /\ (pass.len <= 2 * (i - 1) \/ pass.len > Length(f)) => counts[l] = 0

LoadInv ==
  /\ \A l \in LineId : AtMost(l, 2)
  /\ \A f \in File : \A i \in DOMAIN file[f] : LoadIn(f, i)

-----------------------------------------------------------------------------
Covered(l) == l \in ever \cup cut \cup skipped

\* Offsets stay within a file that is never truncated, and every line that begins
\* before one is accounted for.
KeptIn(f) ==
  /\ saved[f] <= Length(f) /\ offsets[f] <= Length(f)
  /\ Reading(f) => /\ pass.from = offsets[f]
                   /\ pass.from <= pass.len /\ pass.len <= Length(f)
  /\ \A i \in DOMAIN file[f] :
       LET l == file[f][i].id
       IN  /\ 2 * i - 1 <= saved[f] => Covered(l)
           /\ 2 * i - 1 <= offsets[f] => Covered(l) \/ Held(l)

KeptInv == \A f \in File \ shortened : KeptIn(f)

-----------------------------------------------------------------------------
Handled(f, i) == counts[file[f][i].id] > 0

\* Line i of file f is still to be handled, or to be read.
Due(f, i) == Held(file[f][i].id) \/ offsets[f] <= 2 * (i - 1)

\* What is in hand is a stretch of the file that begins with line a: what lies
\* before it is done with, what lies behind it is untouched.
Stretch(f, a) ==
  /\ a + Len(pass.lines) <= Len(file[f]) + 1
  /\ \A k \in DOMAIN pass.lines : pass.lines[k] = file[f][a + k - 1]
  /\ \A i \in DOMAIN file[f] :
       /\ i < a /\ offsets[f] <= 2 * (i - 1) => Handled(f, i)
       /\ a + Len(pass.lines) <= i => ~ Handled(f, i)

Inorder(f) ==
  /\ pass.at = "lines" /\ CurrentFile = f => \E a \in 1..(Len(file[f]) + 1) : Stretch(f, a)
  /\ \A i, j \in DOMAIN file[f] : i < j /\ Due(f, i) /\ ~ Handled(f, i) => ~ Handled(f, j)

OrderInv == \A f \in File \ shortened : Inorder(f)

-----------------------------------------------------------------------------
\* Line j ends the call that line i has begun.
Answers(f, i, j) ==
  file[f][i].act = "use" /\ file[f][j].act = "result" /\ file[f][i].tool = file[f][j].tool

Ends(f, i, k) == file[f][k].act = "end" \/ Answers(f, i, k)

\* A call is begun by one line.
UsedOnce ==
  \A f, g \in File : \A i \in DOMAIN file[f] : \A j \in DOMAIN file[g] :
    file[f][i].act = "use" /\ file[g][j].act = "use" /\ file[f][i].tool = file[g][j].tool
      => f = g /\ i = j

\* A call that is pending has been begun in this life.
Begun(f) ==
  \A tool \in open[f] : \E i \in DOMAIN file[f] :
    file[f][i].act = "use" /\ file[f][i].tool = tool /\ Handled(f, i)

\* A call is reported as often as it was begun at most, less once while it is pending.
Balanced(f) ==
  \A i, j \in DOMAIN file[f] : Answers(f, i, j) =>
    reported[file[f][j].id] + (IF file[f][i].tool \in open[f] THEN 1 ELSE 0)
      <= counts[file[f][i].id]

\* A call that was begun, is not about to be begun again and has not been ended since
\* is pending.
StillOpen(f) ==
  \A i \in DOMAIN file[f] :
    /\ file[f][i].act = "use" /\ Handled(f, i) /\ ~ Held(file[f][i].id)
    /\ \A k \in DOMAIN file[f] : i < k /\ Ends(f, i, k) => ~ Handled(f, k)
    => file[f][i].tool \in open[f]

\* A call that was begun and ended has been reported.
Told(f) ==
  \A i, j \in DOMAIN file[f] :
    Pairs(f, i, j) /\ Handled(f, i) /\ Handled(f, j) => reported[file[f][j].id] > 0

CallsIn(f) == Begun(f) /\ Balanced(f) /\ StillOpen(f) /\ Told(f)

CallsInv == UsedOnce /\ \A f \in File \ shortened : CallsIn(f)

-----------------------------------------------------------------------------
(* Lemmas.                                                                 *)

\* The pass looks at a file it has yet to visit.
LEMMA CurrentIsVisited ==
  ASSUME pass.todo \subseteq File, pass.todo # {}
  PROVE  CurrentFile \in pass.todo /\ CurrentFile \in File
<1>1. PICK R : R = {ss \in Nat \X Nat : ss[1] < ss[2]} /\ IsWellFoundedOn(R, Nat)
  BY NatLessThanWellFounded DEF OpToRel
<1>2. PICK f \in pass.todo : \A g \in pass.todo : <<g, f>> \notin R
  <2>1. pass.todo \subseteq Nat
    BY WatcherAssumption
  <2>2. QED
    BY <1>1, <2>1, WFMin
<1>3. ASSUME NEW g \in pass.todo PROVE f <= g
  <2>1. f \in Nat /\ g \in Nat
    BY WatcherAssumption
  <2>2. ~ (g < f)
    BY <1>1, <1>2, <2>1
  <2>3. QED
    BY <2>1, <2>2
<1>4. QED
  BY <1>3 DEF CurrentFile

\* What a line has.
LEMMA LineFields ==
  /\ \A l \in Line : /\ l.id \in LineId /\ l.act \in {"use", "result", "end"}
                     /\ l.tool \in Tool \cup {"none"} /\ l.tear \in Tear \cup {"none"}
  /\ LineId \subseteq Nat
BY WatcherAssumption DEF Line, LineId

\* The lines of a file, and its length.
LEMMA Lines ==
  ASSUME BasicInv, NEW f \in File
  PROVE  /\ file[f] \in Seq(Line) /\ Len(file[f]) \in Nat
         /\ DOMAIN file[f] = 1..Len(file[f])
         /\ \A i \in 1..Len(file[f]) : /\ file[f][i] \in Line /\ file[f][i].id \in LineId
                                       /\ counts[file[f][i].id] \in Nat
                                       /\ reported[file[f][i].id] \in Nat
         /\ Length(f) \in Nat
         /\ f \in torn => Length(f) = 2 * Len(file[f]) - 1 /\ Len(file[f]) > 0
         /\ f \notin torn => Length(f) = 2 * Len(file[f])
<1>1. f \in torn => file[f] # <<>>
  BY DEF BasicInv, Numbered
<1>2. /\ Len(file[f]) \in Nat /\ DOMAIN file[f] = 1..Len(file[f])
      /\ file[f] # <<>> => Len(file[f]) > 0
  BY <1>1, LenProperties, EmptySeq DEF BasicInv, WatcherTypeOK
<1>3. file[f] \in Seq(Line)
  BY DEF BasicInv, WatcherTypeOK
<1>4. \A i \in 1..Len(file[f]) : file[f][i] \in Line
  BY <1>3, ElementOfSeq
<1>5. \A l \in LineId : counts[l] \in Nat /\ reported[l] \in Nat
  BY DEF BasicInv, WatcherTypeOK
<1>6. \A i \in 1..Len(file[f]) : file[f][i].id \in LineId
  BY <1>4, LineFields
<1>7. Length(f) = IF f \in torn THEN 2 * Len(file[f]) - 1 ELSE 2 * Len(file[f])
  BY <1>2 DEF Length
<1>8. QED
  BY <1>1, <1>2, <1>3, <1>4, <1>5, <1>6, <1>7

\* The same after a step.
LEMMA LinesNext ==
  ASSUME BasicInv', NEW f \in File
  PROVE  /\ file'[f] \in Seq(Line) /\ Len(file'[f]) \in Nat
         /\ DOMAIN file'[f] = 1..Len(file'[f])
         /\ \A i \in 1..Len(file'[f]) : /\ file'[f][i] \in Line /\ file'[f][i].id \in LineId
                                        /\ counts'[file'[f][i].id] \in Nat
                                        /\ reported'[file'[f][i].id] \in Nat
         /\ Length(f)' \in Nat
         /\ f \in torn' => Length(f)' = 2 * Len(file'[f]) - 1 /\ Len(file'[f]) > 0
         /\ f \notin torn' => Length(f)' = 2 * Len(file'[f])
<1>1. f \in torn' => file'[f] # <<>>
  BY DEF BasicInv, Numbered
<1>2. file'[f] \in Seq(Line)
  BY DEF BasicInv, WatcherTypeOK
<1>3. /\ Len(file'[f]) \in Nat /\ DOMAIN file'[f] = 1..Len(file'[f])
      /\ file'[f] # <<>> => Len(file'[f]) > 0
  BY <1>2, LenProperties, EmptySeq
<1>4. \A i \in 1..Len(file'[f]) : file'[f][i] \in Line
  BY <1>2, ElementOfSeq
<1>5. \A l \in LineId : counts'[l] \in Nat /\ reported'[l] \in Nat
  BY DEF BasicInv, WatcherTypeOK
<1>6. \A i \in 1..Len(file'[f]) : file'[f][i].id \in LineId
  BY <1>4, LineFields
<1>7. Length(f)' = IF f \in torn' THEN 2 * Len(file'[f]) - 1 ELSE 2 * Len(file'[f])
  BY <1>3 DEF Length
<1>8. QED
  BY <1>1, <1>2, <1>3, <1>4, <1>5, <1>6, <1>7

LEMMA Offsets ==
  ASSUME BasicInv, NEW f \in File
  PROVE  offsets[f] \in Nat /\ saved[f] \in Nat
BY DEF BasicInv, WatcherTypeOK

\* Every line begins before the end of its file.
LEMMA LineWithin ==
  ASSUME BasicInv, NEW f \in File, NEW i \in DOMAIN file[f]
  PROVE  /\ i \in Nat /\ 1 <= i /\ i <= Len(file[f]) /\ Length(f) \in Nat
         /\ 2 * (i - 1) < Length(f) /\ 2 * i - 1 <= Length(f)
<1>1. /\ i \in 1..Len(file[f]) /\ Len(file[f]) \in Nat /\ Length(f) \in Nat
      /\ Length(f) = 2 * Len(file[f]) \/ Length(f) = 2 * Len(file[f]) - 1
  BY Lines
<1>2. QED
  BY <1>1

\* What the pass has in hand.
LEMMA Hand ==
  ASSUME BasicInv
  PROVE  /\ pass \in PassRecord
         /\ pass.at \in {"sleep", "stat", "read", "lines", "save", "down"}
         /\ pass.todo \subseteq File /\ pass.from \in Nat /\ pass.len \in Nat
         /\ pass.lines \in Seq(Line) /\ Len(pass.lines) \in Nat
         /\ DOMAIN pass.lines = 1..Len(pass.lines)
         /\ \A k \in 1..Len(pass.lines) : pass.lines[k] \in Line /\ pass.lines[k].id \in LineId
         /\ pass.at \in {"stat", "read", "lines"} =>
              CurrentFile \in pass.todo /\ CurrentFile \in File
         /\ pass.at # "lines" => pass.lines = <<>> /\ \A l : ~ Held(l)
<1>1. /\ pass \in PassRecord /\ pass.todo \subseteq File /\ pass.lines \in Seq(Line)
      /\ pass.from \in Nat /\ pass.len \in Nat
      /\ pass.at \in {"sleep", "stat", "read", "lines", "save", "down"}
  BY DEF BasicInv, WatcherTypeOK, PassRecord
<1>2. Len(pass.lines) \in Nat /\ DOMAIN pass.lines = 1..Len(pass.lines)
  BY <1>1, LenProperties
<1>3. \A k \in 1..Len(pass.lines) : pass.lines[k] \in Line /\ pass.lines[k].id \in LineId
  BY <1>1, <1>2, ElementOfSeq, LineFields
<1>4. pass.at \in {"stat", "read", "lines"} => CurrentFile \in pass.todo /\ CurrentFile \in File
  BY <1>1, CurrentIsVisited DEF BasicInv, PassOK
<1>5. pass.at # "lines" => pass.lines = <<>> /\ \A l : ~ Held(l)
  BY <1>2, EmptySeq DEF BasicInv, PassOK, Held, Among
<1>6. QED
  BY <1>1, <1>2, <1>3, <1>4, <1>5

-----------------------------------------------------------------------------
(* The first part: types, the pass and the numbers.                        *)

LEMMA BasicInit == Init => BasicInv
<1> SUFFICES ASSUME Init PROVE BasicInv
  OBVIOUS
<1>1. /\ pass = Sleeping /\ <<>> \in Seq(Line) /\ Len(<<>>) = 0 /\ DOMAIN <<>> = {}
  BY EmptySeq DEF Init
<1>2. WatcherTypeOK
  BY <1>1, WatcherAssumption DEF Init, WatcherTypeOK, PassRecord, Sleeping, NoOffsets
<1>3. PassOK
  BY <1>1 DEF PassOK, Sleeping
<1>4. Numbered
  <2>1. \A f \in File : DOMAIN file[f] = {}
    BY <1>1 DEF Init
  <2>2. DOMAIN pass.lines = {} /\ torn = {}
    BY <1>1 DEF Sleeping, Init
  <2>3. \A l \in LineId : counts[l] = 0 /\ reported[l] = 0
    BY DEF Init
  <2>4. QED
    BY <2>1, <2>2, <2>3 DEF Numbered
<1>5. QED
  BY <1>2, <1>3, <1>4 DEF BasicInv

\* A line is begun at the end of its file.
LEMMA LineWritten ==
  ASSUME BasicInv, NEW f \in File, NEW e,
         file' = [file EXCEPT ![f] = Append(@, e)], e \in Line
  PROVE  /\ file' \in [File -> Seq(Line)]
         /\ Len(file'[f]) = Len(file[f]) + 1 /\ DOMAIN file'[f] = 1..(Len(file[f]) + 1)
         /\ \A i \in 1..Len(file[f]) : file'[f][i] = file[f][i]
         /\ file'[f][Len(file[f]) + 1] = e
         /\ \A g \in File \ {f} : file'[g] = file[g]
<1>1. file \in [File -> Seq(Line)]
  BY DEF BasicInv, WatcherTypeOK
<1>2. file'[f] = Append(file[f], e) /\ \A g \in File \ {f} : file'[g] = file[g]
  BY <1>1
<1>3. file[f] \in Seq(Line)
  BY <1>1
<1>4. /\ Append(file[f], e) \in Seq(Line) /\ Len(Append(file[f], e)) = Len(file[f]) + 1
      /\ \A i \in 1..Len(file[f]) : Append(file[f], e)[i] = file[f][i]
      /\ Append(file[f], e)[Len(file[f]) + 1] = e
  BY <1>3, AppendProperties, LenProperties
<1>5. QED
  BY <1>1, <1>2, <1>4, LenProperties

\* The file a line is written to.
LEMMA WriteFacts ==
  ASSUME BasicInv, NEW f \in File, NEW act \in {"use", "result", "end"},
         NEW tool \in Tool \cup {"none"}, NEW tear \in Tear \cup {"none"},
         WriteLine(f, act, tool, tear)
  PROVE  /\ f \notin torn /\ nextLine \in LineId /\ nextLine' = nextLine + 1
         /\ MayWrite(f, act, tool)
         /\ torn' = torn \/ torn' = torn \cup {f}
         /\ file' \in [File -> Seq(Line)]
         /\ Len(file'[f]) = Len(file[f]) + 1 /\ DOMAIN file'[f] = 1..(Len(file[f]) + 1)
         /\ \A i \in 1..Len(file[f]) : file'[f][i] = file[f][i]
         /\ LET l == file'[f][Len(file[f]) + 1]
            IN  l.id = nextLine /\ l.act = act /\ l.tool = tool
         /\ \A g \in File \ {f} : file'[g] = file[g]
         /\ UNCHANGED <<saved, offsets, known, open, pass, counts, reported>>
         /\ UNCHANGED <<ever, cut, skipped, shortened, faults>>
<1> DEFINE e == [id |-> nextLine, act |-> act, tool |-> tool, tear |-> tear]
<1>1. /\ f \notin torn /\ nextLine \in LineId /\ nextLine' = nextLine + 1
      /\ MayWrite(f, act, tool)
      /\ torn' = torn \/ torn' = torn \cup {f}
      /\ file' = [file EXCEPT ![f] = Append(@, e)]
      /\ UNCHANGED <<saved, offsets, known, open, pass, counts, reported>>
      /\ UNCHANGED <<ever, cut, skipped, shortened, faults>>
  BY DEF WriteLine, memory, history
<1>2. e \in Line /\ e.id = nextLine /\ e.act = act /\ e.tool = tool
  BY <1>1 DEF Line
<1> HIDE DEF e
<1>3. /\ file' \in [File -> Seq(Line)]
      /\ Len(file'[f]) = Len(file[f]) + 1 /\ DOMAIN file'[f] = 1..(Len(file[f]) + 1)
      /\ \A i \in 1..Len(file[f]) : file'[f][i] = file[f][i]
      /\ file'[f][Len(file[f]) + 1] = e
      /\ \A g \in File \ {f} : file'[g] = file[g]
  BY <1>1, <1>2, LineWritten
<1>4. QED
  BY <1>1, <1>2, <1>3

LEMMA WriteBasic ==
  ASSUME BasicInv, NEW f \in File, NEW act \in {"use", "result", "end"},
         NEW tool \in Tool \cup {"none"}, NEW tear \in Tear \cup {"none"},
         WriteLine(f, act, tool, tear)
  PROVE  BasicInv'
<1> DEFINE n == Len(file[f])
<1>1. /\ f \notin torn /\ nextLine \in LineId /\ nextLine' = nextLine + 1
      /\ torn' = torn \/ torn' = torn \cup {f}
      /\ UNCHANGED <<saved, offsets, known, open, pass, counts, reported>>
      /\ UNCHANGED <<ever, cut, skipped, shortened, faults>>
  BY WriteFacts
<1>2. /\ file' \in [File -> Seq(Line)]
      /\ Len(file'[f]) = n + 1 /\ DOMAIN file'[f] = 1..(n + 1)
      /\ \A i \in 1..n : file'[f][i] = file[f][i]
      /\ file'[f][n + 1].id = nextLine
      /\ \A g \in File \ {f} : file'[g] = file[g]
  BY WriteFacts
<1>3. n \in Nat /\ DOMAIN file[f] = 1..n /\ nextLine \in Nat /\ nextLine \in 1..MaxLines
  BY <1>1, Lines, LineFields DEF LineId
<1>4. CurrentFile' = CurrentFile
  BY <1>1 DEF CurrentFile
<1>5. WatcherTypeOK'
  <2>1. made' \subseteq File
    BY DEF WriteLine, BasicInv, WatcherTypeOK
  <2>2. nextLine' \in 1..(MaxLines + 1)
    BY <1>1, <1>3, WatcherAssumption
  <2>3. QED
    BY <1>1, <1>2, <2>1, <2>2 DEF BasicInv, WatcherTypeOK
<1>6. PassOK'
  BY <1>1 DEF BasicInv, PassOK
<1>7. Numbered'
  <2>1. \A g \in File : \A i \in DOMAIN file'[g] :
          \/ g = f /\ i = n + 1 /\ file'[g][i].id = nextLine
          \/ i \in DOMAIN file[g] /\ file'[g][i] = file[g][i]
    BY <1>2, <1>3
  <2>2. \A g \in File : \A i \in DOMAIN file[g] :
          file[g][i].id < nextLine /\ file[g][i].id \in Nat
    <3>1. \A g \in File : \A i \in DOMAIN file[g] : file[g][i].id \in LineId
      BY Lines
    <3>2. QED
      BY <3>1, LineFields DEF BasicInv, Numbered
  <2>3. \A g \in File : \A i \in DOMAIN file'[g] : file'[g][i].id < nextLine'
    BY <1>1, <1>3, <2>1, <2>2
  <2>4. \A g, c \in File : \A i \in DOMAIN file'[g] : \A j \in DOMAIN file'[c] :
          file'[g][i].id = file'[c][j].id => g = c /\ i = j
    <3>1. \A g, c \in File : \A i \in DOMAIN file[g] : \A j \in DOMAIN file[c] :
            file[g][i].id = file[c][j].id => g = c /\ i = j
      BY DEF BasicInv, Numbered
    <3>2. \A g \in File : \A i \in DOMAIN file[g] : file[g][i].id # nextLine
      BY <1>3, <2>2
    <3>3. QED
      BY <2>1, <3>1, <3>2
  <2>5. \A k \in DOMAIN pass.lines : pass.lines[k].id < nextLine /\ pass.lines[k].id \in Nat
    BY Hand, LineFields DEF BasicInv, Numbered
  <2>6. \A k \in DOMAIN pass'.lines : pass'.lines[k].id < nextLine'
    BY <1>1, <1>3, <2>5
  <2>7. \A g \in File : \A i \in DOMAIN file'[g] :
          Among(pass.lines, file'[g][i].id) => g = CurrentFile'
    <3>1. ~ Among(pass.lines, nextLine)
      BY <1>3, <2>5 DEF Among
    <3>2. \A g \in File : \A i \in DOMAIN file[g] :
            Among(pass.lines, file[g][i].id) => g = CurrentFile
      BY DEF BasicInv, Numbered, Held
    <3>3. QED
      BY <1>4, <2>1, <3>1, <3>2
  <2>8. \A l \in LineId : l >= nextLine' => counts'[l] = 0 /\ reported'[l] = 0
    BY <1>1, <1>3, LineFields DEF BasicInv, Numbered
  <2>9. \A g \in torn' : /\ file'[g] # <<>>
                         /\ counts'[file'[g][Len(file'[g])].id] = 0
                         /\ ~ Among(pass.lines, file'[g][Len(file'[g])].id)
    <3>1. counts[nextLine] = 0 /\ ~ Among(pass.lines, nextLine)
      BY <1>1, <1>3, <2>5 DEF BasicInv, Numbered, Among
    <3>2. file'[f] # <<>>
      BY <1>2, <1>3, EmptySeq
    <3>3. \A g \in torn : g # f /\ g \in File
      BY <1>1 DEF BasicInv, WatcherTypeOK
    <3>4. \A g \in torn : /\ file[g] # <<>>
                          /\ counts[file[g][Len(file[g])].id] = 0
                          /\ ~ Among(pass.lines, file[g][Len(file[g])].id)
      BY DEF BasicInv, Numbered, Held
    <3>5. \A g \in torn' : g \in torn \/ g = f
      BY <1>1
    <3>6. QED
      BY <1>1, <1>2, <3>1, <3>2, <3>3, <3>4, <3>5
  <2>10. \A k, m \in DOMAIN pass'.lines : pass'.lines[k].id = pass'.lines[m].id => k = m
    BY <1>1 DEF BasicInv, Numbered
  <2>11. QED
    BY <1>1, <2>3, <2>4, <2>6, <2>7, <2>8, <2>9, <2>10 DEF Numbered, Held
<1>8. QED
  BY <1>5, <1>6, <1>7 DEF BasicInv

LEMMA CompleteBasic ==
  ASSUME BasicInv, NEW f \in File, CompleteLine(f)
  PROVE  BasicInv'
<1>1. /\ torn' = torn \ {f}
      /\ UNCHANGED <<file, made, nextLine, saved, offsets, known, open, pass, counts, reported>>
      /\ UNCHANGED <<ever, cut, skipped, shortened, faults>>
  BY DEF CompleteLine, memory, history
<1>2. CurrentFile' = CurrentFile
  BY <1>1 DEF CurrentFile
<1>3. WatcherTypeOK' /\ PassOK'
  BY <1>1 DEF BasicInv, WatcherTypeOK, PassOK
<1>4. Numbered'
  BY <1>1, <1>2 DEF BasicInv, Numbered, Held
<1>5. QED
  BY <1>3, <1>4 DEF BasicInv

LEMMA TruncateFacts ==
  ASSUME BasicInv, NEW f \in File, Truncate(f)
  PROVE  /\ file' \in [File -> Seq(Line)] /\ file'[f] = <<>> /\ DOMAIN file'[f] = {}
         /\ \A g \in File \ {f} : file'[g] = file[g]
         /\ torn' = torn \ {f} /\ shortened' = shortened \cup {f}
         /\ faults' = faults + 1 /\ faults < MaxFaults
         /\ UNCHANGED <<made, nextLine, saved, offsets, known, open, pass, counts, reported>>
         /\ UNCHANGED <<ever, cut, skipped>>
<1>1. file \in [File -> Seq(Line)] /\ <<>> \in Seq(Line) /\ DOMAIN <<>> = {}
  BY EmptySeq DEF BasicInv, WatcherTypeOK
<1>2. file' = [file EXCEPT ![f] = <<>>]
  BY DEF Truncate
<1>3. /\ file' \in [File -> Seq(Line)] /\ file'[f] = <<>>
      /\ \A g \in File \ {f} : file'[g] = file[g]
  BY <1>1, <1>2
<1>4. QED
  BY <1>1, <1>3 DEF Truncate, memory

LEMMA TruncateBasic ==
  ASSUME BasicInv, NEW f \in File, Truncate(f)
  PROVE  BasicInv'
<1>1. /\ file' \in [File -> Seq(Line)] /\ DOMAIN file'[f] = {}
      /\ \A g \in File \ {f} : file'[g] = file[g]
      /\ torn' = torn \ {f} /\ shortened' = shortened \cup {f}
      /\ faults' = faults + 1 /\ faults < MaxFaults
      /\ UNCHANGED <<made, nextLine, saved, offsets, known, open, pass, counts, reported>>
      /\ UNCHANGED <<ever, cut, skipped>>
  BY TruncateFacts
<1>2. CurrentFile' = CurrentFile
  BY <1>1 DEF CurrentFile
<1>3. WatcherTypeOK' /\ PassOK'
  BY <1>1, WatcherAssumption DEF BasicInv, WatcherTypeOK, PassOK
<1>4. Numbered'
  <2>1. \A g \in File : \A i \in DOMAIN file'[g] :
          g # f /\ i \in DOMAIN file[g] /\ file'[g][i] = file[g][i]
    BY <1>1
  <2>2. \A g \in torn' : g \in torn /\ file'[g] = file[g]
    BY <1>1 DEF BasicInv, WatcherTypeOK
  <2>3. Numbered
    BY DEF BasicInv
  <2>4. \A g \in File : \A i \in DOMAIN file'[g] :
          file'[g][i].id < nextLine' /\ (Among(pass'.lines, file'[g][i].id) => g = CurrentFile')
    BY <1>1, <1>2, <2>1, <2>3 DEF Numbered, Held
  <2>5. \A g, c \in File : \A i \in DOMAIN file'[g] : \A j \in DOMAIN file'[c] :
          file'[g][i].id = file'[c][j].id => g = c /\ i = j
    BY <2>1, <2>3 DEF Numbered
  <2>6. \A g \in torn' : /\ file'[g] # <<>>
                         /\ counts'[file'[g][Len(file'[g])].id] = 0
                         /\ ~ Among(pass'.lines, file'[g][Len(file'[g])].id)
    BY <1>1, <2>2, <2>3 DEF Numbered, Held
  <2>7. /\ \A k \in DOMAIN pass'.lines : pass'.lines[k].id < nextLine'
        /\ \A k, m \in DOMAIN pass'.lines : pass'.lines[k].id = pass'.lines[m].id => k = m
        /\ \A l \in LineId : l >= nextLine' => counts'[l] = 0 /\ reported'[l] = 0
    BY <1>1, <2>3 DEF Numbered
  <2>8. QED
    BY <2>4, <2>5, <2>6, <2>7 DEF Numbered, Held
<1>5. QED
  BY <1>3, <1>4 DEF BasicInv

\* A step that leaves the files alone and nothing in hand.
LEMMA QuietNumbered ==
  ASSUME BasicInv, UNCHANGED <<file, torn, nextLine>>, pass'.lines = <<>>,
         \/ UNCHANGED <<counts, reported>>
         \/ \A l \in LineId : counts'[l] = 0 /\ reported'[l] = 0
  PROVE  Numbered'
<1>1. DOMAIN pass'.lines = {}
  BY EmptySeq
<1>2. \A l : ~ Among(pass'.lines, l)
  BY <1>1 DEF Among
<1>3. ASSUME NEW f \in torn
      PROVE  file[f] # <<>> /\ counts[file[f][Len(file[f])].id] = 0
             /\ file[f][Len(file[f])].id \in LineId
  <2>1. f \in File /\ file[f] # <<>>
    BY DEF BasicInv, WatcherTypeOK, Numbered
  <2>2. file[f][Len(file[f])].id \in LineId
    BY <2>1, Lines
  <2>3. QED
    BY <2>1, <2>2 DEF BasicInv, Numbered
<1>4. ASSUME NEW f \in torn PROVE counts'[file[f][Len(file[f])].id] = 0
  BY <1>3
<1>5. Numbered
  BY DEF BasicInv
<1>6. /\ \A l \in LineId : l >= nextLine' => counts'[l] = 0 /\ reported'[l] = 0
      /\ \A k \in DOMAIN pass'.lines : pass'.lines[k].id < nextLine'
      /\ \A k, m \in DOMAIN pass'.lines : pass'.lines[k].id = pass'.lines[m].id => k = m
  BY <1>1, <1>5 DEF Numbered
<1>7. /\ \A g \in File : \A i \in DOMAIN file'[g] :
           file'[g][i].id < nextLine' /\ ~ Among(pass'.lines, file'[g][i].id)
      /\ \A g, c \in File : \A i \in DOMAIN file'[g] : \A j \in DOMAIN file'[c] :
           file'[g][i].id = file'[c][j].id => g = c /\ i = j
  BY <1>2, <1>5 DEF Numbered
<1>8. \A g \in torn' : /\ file'[g] # <<>>
                       /\ counts'[file'[g][Len(file'[g])].id] = 0
                       /\ ~ Among(pass'.lines, file'[g][Len(file'[g])].id)
  BY <1>2, <1>3, <1>4
<1>9. QED
  BY <1>6, <1>7, <1>8 DEF Numbered, Held

\* A pass that is not at a read is the sleeping one, elsewhere.
LEMMA SleepingAt ==
  ASSUME NEW at, NEW todo
  PROVE  /\ [Sleeping EXCEPT !.at = at, !.todo = todo]
              = [at |-> at, todo |-> todo, from |-> 0, len |-> 0, lines |-> <<>>]
         /\ [Sleeping EXCEPT !.at = at]
              = [at |-> at, todo |-> {}, from |-> 0, len |-> 0, lines |-> <<>>]
<1> DEFINE s == <<>>
           r == [Sleeping EXCEPT !.at = at]
<1> HIDE DEF s
<1>1. Sleeping = [at |-> "sleep", todo |-> {}, from |-> 0, len |-> 0, lines |-> s]
  BY DEF Sleeping, s
<1>2. r = [at |-> at, todo |-> {}, from |-> 0, len |-> 0, lines |-> s]
  BY <1>1
<1> HIDE DEF r
<1>3. [r EXCEPT !.todo = todo] = [at |-> at, todo |-> todo, from |-> 0, len |-> 0, lines |-> s]
  BY <1>2
<1>4. QED
  BY <1>2, <1>3 DEF r, s

\* What the pass does when it is done with a file.
LEMMA NextFileIs ==
  ASSUME BasicInv
  PROVE  /\ NextFile \in PassRecord
         /\ NextFile.lines = <<>> /\ NextFile.at \in {"save", "stat"}
         /\ NextFile.at = "stat" => NextFile.todo # {}
<1> DEFINE rest == Remaining
<1>1. NextFile = [at |-> IF rest = {} THEN "save" ELSE "stat", todo |-> rest,
                  from |-> 0, len |-> 0, lines |-> <<>>]
  BY SleepingAt DEF NextFile
<1>2. rest \subseteq File /\ <<>> \in Seq(Line)
  BY Hand, EmptySeq DEF Remaining, BasicInv, WatcherTypeOK
<1> HIDE DEF rest
<1>3. QED
  BY <1>1, <1>2 DEF PassRecord

\* A step of the pass that touches no file and leaves nothing in hand.
LEMMA QuietBasic ==
  ASSUME BasicInv, UNCHANGED <<file, torn, made, nextLine, shortened>>,
         pass' \in PassRecord, pass'.lines = <<>>,
         pass'.at \in {"stat", "read"} => pass'.todo # {}, pass'.at # "lines",
         pass'.at = "down" => counts' = [l \in LineId |-> 0],
         saved' \in [File -> Nat], offsets' \in [File -> Nat], known' \subseteq File,
         open' \in [File -> SUBSET (Tool \cup {"none"})],
         ever' \subseteq LineId, cut' \subseteq LineId, skipped' \subseteq LineId,
         faults' \in 0..MaxFaults,
         \/ UNCHANGED <<counts, reported>>
         \/ /\ counts' = [l \in LineId |-> 0] /\ reported' = [l \in LineId |-> 0]
  PROVE  BasicInv'
<1>1. counts' \in [LineId -> Nat] /\ reported' \in [LineId -> Nat]
  BY DEF BasicInv, WatcherTypeOK
<1>2. WatcherTypeOK'
  BY <1>1 DEF BasicInv, WatcherTypeOK
<1>3. PassOK'
  BY DEF PassOK
<1>4. Numbered'
  BY QuietNumbered
<1>5. QED
  BY <1>2, <1>3, <1>4 DEF BasicInv

LEMMA StartBasic ==
  ASSUME BasicInv, StartPass
  PROVE  BasicInv'
<1>1. pass' = [at |-> IF made = {} THEN "save" ELSE "stat", todo |-> made, from |-> 0,
               len |-> 0, lines |-> <<>>]
  BY SleepingAt DEF StartPass
<1>2. /\ pass' \in PassRecord /\ pass'.lines = <<>> /\ pass'.at \in {"save", "stat"}
      /\ pass'.at = "stat" => pass'.todo # {}
  <2>1. made \subseteq File /\ <<>> \in Seq(Line)
    BY EmptySeq DEF BasicInv, WatcherTypeOK
  <2>2. QED
    BY <1>1, <2>1 DEF PassRecord
<1>3. UNCHANGED <<file, torn, made, nextLine, saved, offsets, known, open, counts, reported,
                  ever, cut, skipped, shortened, faults>>
  BY DEF StartPass, disk, memory, history
<1>4. QED
  BY <1>2, <1>3, QuietBasic DEF BasicInv, WatcherTypeOK

LEMMA FileDoneBasic ==
  ASSUME BasicInv, FileDone
  PROVE  BasicInv'
<1>1. /\ pass' = NextFile
      /\ UNCHANGED <<file, torn, made, nextLine, saved, offsets, known, open, counts, reported,
                     ever, cut, skipped, shortened, faults>>
  BY DEF FileDone, disk, memory, history
<1>2. QED
  BY <1>1, NextFileIs, QuietBasic DEF BasicInv, WatcherTypeOK

LEMMA SaveBasic ==
  ASSUME BasicInv, Save
  PROVE  BasicInv'
<1>1. /\ pass' = Sleeping /\ saved' = offsets
      /\ UNCHANGED <<file, torn, made, nextLine, offsets, known, open, counts, reported,
                     ever, cut, skipped, shortened, faults>>
  BY DEF Save, disk, memory, history
<1>2. pass' \in PassRecord /\ pass'.lines = <<>> /\ pass'.at = "sleep"
  BY <1>1, EmptySeq DEF PassRecord, Sleeping
<1>3. QED
  BY <1>1, <1>2, QuietBasic DEF BasicInv, WatcherTypeOK

LEMMA RestartBasic ==
  ASSUME BasicInv, Restart
  PROVE  BasicInv'
<1>1. /\ pass' = Sleeping /\ offsets' = saved
      /\ UNCHANGED <<file, torn, made, nextLine, saved, known, open, counts, reported,
                     ever, cut, skipped, shortened, faults>>
  BY DEF Restart, disk, history
<1>2. pass' \in PassRecord /\ pass'.lines = <<>> /\ pass'.at = "sleep"
  BY <1>1, EmptySeq DEF PassRecord, Sleeping
<1>3. QED
  BY <1>1, <1>2, QuietBasic DEF BasicInv, WatcherTypeOK

\* Every end of a life.
Dies == Killed \/ KilledInSave \/ ReadFails

LEMMA DieFacts ==
  ASSUME BasicInv, Dies
  PROVE  /\ pass' \in PassRecord /\ pass'.at = "down" /\ pass'.lines = <<>>
         /\ offsets' = [f \in File |-> 0] /\ known' = {} /\ open' = [f \in File |-> {}]
         /\ counts' = [l \in LineId |-> 0] /\ reported' = [l \in LineId |-> 0]
         /\ UNCHANGED <<file, torn, made, nextLine, ever, cut, skipped, shortened>>
         /\ faults' \in 0..MaxFaults
         /\ saved' = saved \/ saved' = [f \in File |-> 0]
<1>1. Die
  BY DEF Dies, Killed, KilledInSave, ReadFails
<1>2. pass' = [at |-> "down", todo |-> {}, from |-> 0, len |-> 0, lines |-> <<>>]
  BY <1>1, SleepingAt DEF Die, Down
<1>3. pass' \in PassRecord /\ pass'.at = "down" /\ pass'.lines = <<>>
  BY <1>2, EmptySeq DEF PassRecord
<1>4. faults \in 0..MaxFaults
  BY DEF BasicInv, WatcherTypeOK
<1>5. faults' \in 0..MaxFaults
  BY <1>4, WatcherAssumption DEF Dies, Killed, KilledInSave, ReadFails
<1>6. saved' = saved \/ saved' = [f \in File |-> 0]
  BY DEF Dies, Killed, KilledInSave, ReadFails, NoOffsets
<1>7. QED
  BY <1>1, <1>3, <1>5, <1>6 DEF Die, disk, NoOffsets

LEMMA DieBasic ==
  ASSUME BasicInv, Dies
  PROVE  BasicInv'
<1>1. /\ saved' \in [File -> Nat] /\ offsets' \in [File -> Nat]
      /\ open' \in [File -> SUBSET (Tool \cup {"none"})] /\ known' \subseteq File
  BY DieFacts DEF BasicInv, WatcherTypeOK
<1>2. ever \subseteq LineId /\ cut \subseteq LineId /\ skipped \subseteq LineId
  BY DEF BasicInv, WatcherTypeOK
<1>3. QED
  BY <1>1, <1>2, DieFacts, QuietBasic

\* What a stat makes of the pass.
LEMMA StatFacts ==
  ASSUME BasicInv, NEW f \in File, f = CurrentFile, Stat
  PROVE  /\ pass.at = "stat"
         /\ UNCHANGED <<file, torn, made, nextLine, saved, offsets, open, counts, reported>>
         /\ UNCHANGED <<ever, cut, skipped, shortened, faults>>
         /\ known' = known \cup {f}
         /\ pass' \in PassRecord /\ pass'.lines = <<>>
         /\ \/ pass' = NextFile
            \/ /\ pass'.at = "read" /\ pass'.todo = pass.todo
               /\ pass'.from = StartOf(f) /\ pass'.len = Length(f)
<1>1. /\ pass.at = "stat" /\ known' = known \cup {f}
      /\ UNCHANGED <<file, torn, made, nextLine, saved, offsets, open, counts, reported>>
      /\ UNCHANGED <<ever, cut, skipped, shortened, faults>>
  BY DEF Stat, disk, history
<1>2. pass.lines = <<>> /\ pass \in PassRecord
  BY <1>1, Hand
<1>3. CASE pass' = NextFile
  BY <1>1, <1>3, NextFileIs
<1>4. CASE pass' # NextFile
  <2>1. pass' = [pass EXCEPT !.at = "read", !.from = StartOf(f), !.len = Length(f)]
    BY <1>4 DEF Stat
  <2>2. StartOf(f) \in Nat /\ Length(f) \in Nat
    BY Lines DEF StartOf, BasicInv, WatcherTypeOK
  <2>3. pass' \in PassRecord
    BY <1>2, <2>1, <2>2 DEF PassRecord
  <2>4. /\ pass'.at = "read" /\ pass'.todo = pass.todo /\ pass'.lines = pass.lines
        /\ pass'.from = StartOf(f) /\ pass'.len = Length(f)
    BY <1>2, <2>1 DEF PassRecord
  <2>5. QED
    BY <1>1, <1>2, <2>3, <2>4
<1>5. QED
  BY <1>3, <1>4

LEMMA StatBasic ==
  ASSUME BasicInv, Stat
  PROVE  BasicInv'
<1> PICK f \in File : f = CurrentFile /\ f \in pass.todo
  BY Hand DEF Stat
<1>1. /\ UNCHANGED <<file, torn, made, nextLine, saved, offsets, open, counts, reported>>
      /\ UNCHANGED <<ever, cut, skipped, shortened, faults>>
      /\ known' = known \cup {f}
      /\ pass' \in PassRecord /\ pass'.lines = <<>>
      /\ \/ pass' = NextFile
         \/ pass'.at = "read" /\ pass'.todo = pass.todo
  BY StatFacts
<1>2. /\ pass'.at # "lines" /\ pass'.at # "down"
      /\ pass'.at \in {"stat", "read"} => pass'.todo # {}
  BY <1>1, NextFileIs
<1>3. QED
  BY <1>1, <1>2, QuietBasic DEF BasicInv, WatcherTypeOK

\* What is passed over at the first sight of a file.
LEMMA StatSkipFacts ==
  ASSUME BasicInv, NEW f \in File, f = CurrentFile, StatSkip
  PROVE  /\ pass.at = "stat" /\ pass' = NextFile
         /\ UNCHANGED <<file, torn, made, nextLine, saved, open, counts, reported>>
         /\ UNCHANGED <<ever, cut, shortened, faults>>
         /\ known' = known \cup {f} /\ skipped' = skipped \cup LinesOf(f)
         /\ offsets' \in [File -> Nat] /\ offsets'[f] = Length(f)
         /\ \A g \in File \ {f} : offsets'[g] = offsets[g]
<1>1. /\ offsets' = [offsets EXCEPT ![f] = Length(f)]
      /\ pass.at = "stat" /\ pass' = NextFile
      /\ UNCHANGED <<file, torn, made, nextLine, saved, open, counts, reported>>
      /\ UNCHANGED <<ever, cut, shortened, faults>>
      /\ known' = known \cup {f} /\ skipped' = skipped \cup LinesOf(f)
  BY DEF StatSkip, disk
<1>2. offsets \in [File -> Nat] /\ Length(f) \in Nat
  BY Lines DEF BasicInv, WatcherTypeOK
<1>3. QED
  BY <1>1, <1>2

LEMMA StatSkipBasic ==
  ASSUME BasicInv, StatSkip
  PROVE  BasicInv'
<1> PICK f \in File : f = CurrentFile
  BY Hand DEF StatSkip
<1>1. LinesOf(f) \subseteq LineId
  BY Lines DEF LinesOf
<1>2. /\ UNCHANGED <<file, torn, made, nextLine, saved, open, counts, reported>>
      /\ UNCHANGED <<ever, cut, shortened, faults>>
      /\ known' = known \cup {f} /\ skipped' = skipped \cup LinesOf(f)
      /\ offsets' \in [File -> Nat] /\ pass' = NextFile
  BY StatSkipFacts
<1>3. /\ pass' \in PassRecord /\ pass'.lines = <<>> /\ pass'.at # "lines" /\ pass'.at # "down"
      /\ pass'.at \in {"stat", "read"} => pass'.todo # {}
  BY <1>2, NextFileIs
<1>4. QED
  BY <1>1, <1>2, <1>3, QuietBasic DEF BasicInv, WatcherTypeOK

\* The first line that begins at or after an offset, and the last whole one.
FirstFrom(from) == (from + 1) \div 2 + 1
LastWhole(f) == IF f \in torn THEN Len(file[f]) - 1 ELSE Len(file[f])

LEMMA FirstFromIs ==
  ASSUME NEW from \in Nat
  PROVE  /\ FirstFrom(from) \in Nat /\ FirstFrom(from) >= 1
         /\ from <= 2 * (FirstFrom(from) - 1) /\ 2 * (FirstFrom(from) - 1) <= from + 1
BY DEF FirstFrom

LEMMA WholeLinesAre ==
  ASSUME BasicInv, NEW f \in File, NEW from \in Nat
  PROVE  LET lines == WholeLines(f, from)
         IN  /\ lines \in Seq(Line) /\ Len(lines) \in Nat /\ DOMAIN lines = 1..Len(lines)
             /\ Len(lines) = IF FirstFrom(from) <= LastWhole(f)
                             THEN LastWhole(f) - FirstFrom(from) + 1 ELSE 0
             /\ \A k \in 1..Len(lines) : lines[k] = file[f][FirstFrom(from) + k - 1]
<1> DEFINE first == FirstFrom(from)
           last == LastWhole(f)
<1>1. first \in Nat /\ first >= 1
  BY FirstFromIs
<1>2. last \in Int /\ last <= Len(file[f]) /\ Len(file[f]) \in Nat
  BY Lines DEF LastWhole
<1>3. WholeLines(f, from) = SubSeq(file[f], first, last)
  <2>1. Len(file[f]) - (IF f \in torn THEN 1 ELSE 0) = last
    BY Lines DEF LastWhole
  <2>2. QED
    BY <2>1 DEF WholeLines, FirstFrom
<1> HIDE DEF first, last
<1>4. \A i \in first..last : file[f][i] \in Line
  BY <1>1, <1>2, Lines
<1>5. /\ SubSeq(file[f], first, last) \in Seq(Line)
      /\ Len(SubSeq(file[f], first, last)) = IF first <= last THEN last - first + 1 ELSE 0
      /\ \A k \in 1..(last - first + 1) : SubSeq(file[f], first, last)[k] = file[f][first + k - 1]
  BY <1>1, <1>2, <1>4, SubSeqProperties
<1>6. QED
  BY <1>1, <1>2, <1>3, <1>5, LenProperties DEF first, last

\* What a read leaves.
LEMMA ReadFacts ==
  ASSUME BasicInv, NEW f \in File, f = CurrentFile, Read
  PROVE  /\ pass.at = "read" /\ pass'.at = "lines" /\ pass'.todo = pass.todo
         /\ pass'.lines = WholeLines(f, pass.from) /\ pass' \in PassRecord
         /\ CurrentFile' = f
         /\ offsets' \in [File -> Nat] /\ offsets'[f] = pass.len
         /\ \A g \in File \ {f} : offsets'[g] = offsets[g]
         /\ cut \subseteq cut'
         /\ CutsALine(f, pass.len) => LineAt(f, pass.len).id \in cut'
         /\ cut' \subseteq LineId
         /\ UNCHANGED <<file, torn, made, nextLine, saved, known, open, counts, reported>>
         /\ UNCHANGED <<ever, skipped, shortened, faults>>
<1>1. /\ pass.at = "read"
      /\ pass' = [pass EXCEPT !.at = "lines", !.lines = WholeLines(f, pass.from)]
      /\ offsets' = [offsets EXCEPT ![f] = pass.len]
      /\ cut' = IF CutsALine(f, pass.len) THEN cut \cup {LineAt(f, pass.len).id} ELSE cut
      /\ UNCHANGED <<file, torn, made, nextLine, saved, known, open, counts, reported>>
      /\ UNCHANGED <<ever, skipped, shortened, faults>>
  BY DEF Read, disk, Consumed
<1>2. pass \in PassRecord /\ WholeLines(f, pass.from) \in Seq(Line) /\ pass.len \in Nat
  BY Hand, WholeLinesAre
<1>3. /\ pass'.at = "lines" /\ pass'.todo = pass.todo /\ pass'.lines = WholeLines(f, pass.from)
      /\ pass' \in PassRecord
  BY <1>1, <1>2 DEF PassRecord
<1>4. CurrentFile' = f
  BY <1>3 DEF CurrentFile
<1>5. offsets \in [File -> Nat] /\ cut \subseteq LineId
  BY DEF BasicInv, WatcherTypeOK
<1>6. CutsALine(f, pass.len) => LineAt(f, pass.len).id \in LineId
  <2>1. CutsALine(f, pass.len) => (pass.len + 1) \div 2 \in 1..Len(file[f])
    BY <1>2, Lines DEF CutsALine
  <2>2. QED
    BY <2>1, Lines DEF LineAt
<1>7. QED
  BY <1>1, <1>2, <1>3, <1>4, <1>5, <1>6

LEMMA ReadBasic ==
  ASSUME BasicInv, Read
  PROVE  BasicInv'
<1> PICK f \in File : f = CurrentFile /\ f \in pass.todo
  BY Hand DEF Read
<1> DEFINE first == FirstFrom(pass.from)
           lines == pass'.lines
<1>1. /\ pass.at = "read" /\ pass'.at = "lines" /\ pass'.todo = pass.todo
      /\ pass' \in PassRecord /\ CurrentFile' = f
      /\ offsets' \in [File -> Nat] /\ cut' \subseteq LineId
      /\ UNCHANGED <<file, torn, made, nextLine, saved, known, open, counts, reported>>
      /\ UNCHANGED <<ever, skipped, shortened, faults>>
  BY ReadFacts
<1>2. WatcherTypeOK' /\ PassOK'
  BY <1>1 DEF BasicInv, WatcherTypeOK, PassOK
<1>3. /\ Len(lines) \in Nat /\ DOMAIN lines = 1..Len(lines)
      /\ Len(lines) = IF first <= LastWhole(f) THEN LastWhole(f) - first + 1 ELSE 0
      /\ \A k \in 1..Len(lines) : lines[k] = file[f][first + k - 1]
      /\ first \in Nat /\ first >= 1
  <2>1. lines = WholeLines(f, pass.from) /\ pass.from \in Nat
    BY ReadFacts, Hand
  <2> HIDE DEF lines
  <2>2. QED
    BY <2>1, WholeLinesAre, FirstFromIs
<1>4. \A k \in DOMAIN lines : /\ first + k - 1 \in 1..Len(file[f])
                              /\ f \in torn => first + k - 1 # Len(file[f])
  BY <1>3, Lines DEF LastWhole
<1> HIDE DEF first, lines
<1>5. Numbered
  BY DEF BasicInv
<1>6. \A i \in 1..Len(file[f]) : \A j \in 1..Len(file[f]) :
        file[f][i].id = file[f][j].id => i = j
  BY <1>5, Lines DEF Numbered
<1>7. \A k \in DOMAIN lines : lines[k].id < nextLine
  <2>1. \A i \in 1..Len(file[f]) : file[f][i].id < nextLine
    BY <1>5, Lines DEF Numbered
  <2>2. QED
    BY <1>3, <1>4, <2>1
<1>8. ASSUME NEW k \in DOMAIN lines, NEW m \in DOMAIN lines, lines[k].id = lines[m].id
      PROVE  k = m
  <2>1. first + k - 1 \in 1..Len(file[f]) /\ first + m - 1 \in 1..Len(file[f])
    BY <1>4
  <2>2. lines[k] = file[f][first + k - 1] /\ lines[m] = file[f][first + m - 1]
    BY <1>3
  <2>3. first + k - 1 = first + m - 1
    BY <1>6, <1>8, <2>1, <2>2
  <2>4. QED
    BY <1>3, <2>3
<1>9. \A g \in File : \A i \in DOMAIN file[g] : Among(lines, file[g][i].id) => g = f
  <2> SUFFICES ASSUME NEW g \in File, NEW i \in DOMAIN file[g], Among(lines, file[g][i].id)
               PROVE  g = f
    OBVIOUS
  <2>1. PICK k \in DOMAIN lines : lines[k].id = file[g][i].id
    BY DEF Among
  <2>2. PICK j \in DOMAIN file[f] : file[f][j].id = file[g][i].id
    BY <1>3, <1>4, <2>1, Lines
  <2>3. QED
    BY <1>5, <2>2 DEF Numbered
<1>10. \A g \in torn : ~ Among(lines, file[g][Len(file[g])].id)
  <2> SUFFICES ASSUME NEW g \in torn, Among(lines, file[g][Len(file[g])].id)
               PROVE  FALSE
    OBVIOUS
  <2>1. g \in File /\ Len(file[g]) \in DOMAIN file[g]
    BY Lines DEF BasicInv, WatcherTypeOK
  <2>2. g = f
    BY <1>9, <2>1
  <2>3. PICK k \in DOMAIN lines : lines[k].id = file[f][Len(file[f])].id
    BY <2>2 DEF Among
  <2>4. first + k - 1 \in 1..Len(file[f]) /\ first + k - 1 # Len(file[f])
    BY <1>4, <2>2
  <2>5. Len(file[f]) \in 1..Len(file[f])
    BY <2>1, <2>2, Lines
  <2>6. lines[k] = file[f][first + k - 1]
    BY <1>3
  <2>7. QED
    BY <1>6, <2>3, <2>4, <2>5, <2>6
<1>11. Numbered'
  BY <1>1, <1>5, <1>7, <1>8, <1>9, <1>10 DEF Numbered, Held, lines
<1>12. QED
  BY <1>2, <1>11 DEF BasicInv

\* The next line in hand.
LEMMA NextLine ==
  ASSUME BasicInv, pass.lines # <<>>
  PROVE  /\ Head(pass.lines) = pass.lines[1] /\ Head(pass.lines) \in Line
         /\ Head(pass.lines).id \in LineId
         /\ 1 \in DOMAIN pass.lines /\ Held(Head(pass.lines).id)
         /\ Tail(pass.lines) \in Seq(Line)
         /\ Len(Tail(pass.lines)) = Len(pass.lines) - 1 /\ Len(pass.lines) >= 1
         /\ DOMAIN Tail(pass.lines) = 1..(Len(pass.lines) - 1)
         /\ \A k \in 1..(Len(pass.lines) - 1) : Tail(pass.lines)[k] = pass.lines[k + 1]
         /\ \A m : Among(Tail(pass.lines), m) <=> Held(m) /\ m # Head(pass.lines).id
<1> DEFINE lines == pass.lines
           tail == Tail(pass.lines)
           n == Len(pass.lines)
<1>1. /\ lines \in Seq(Line) /\ n \in Nat /\ DOMAIN lines = 1..n
      /\ \A k \in 1..n : lines[k] \in Line /\ lines[k].id \in LineId
  BY Hand
<1>2. n >= 1
  BY <1>1, EmptySeq
<1>3. Head(pass.lines) = lines[1]
  OBVIOUS
<1>4. tail \in Seq(Line) /\ Len(tail) = n - 1 /\ \A k \in 1..Len(tail) : tail[k] = lines[k + 1]
  BY <1>1, HeadTailProperties
<1>5. DOMAIN tail = 1..(n - 1)
  BY <1>4, LenProperties
<1>6. \A k \in DOMAIN lines : \A m \in DOMAIN lines : lines[k].id = lines[m].id => k = m
  BY DEF BasicInv, Numbered
<1> HIDE DEF lines, tail, n
<1>7. ASSUME NEW m PROVE Among(tail, m) <=> Among(lines, m) /\ m # lines[1].id
  <2>1. ASSUME Among(tail, m) PROVE Among(lines, m) /\ m # lines[1].id
    <3>1. PICK k \in 1..(n - 1) : tail[k].id = m
      BY <1>5, <2>1 DEF Among
    <3>2. k + 1 \in 1..n /\ 1 \in 1..n /\ k + 1 # 1 /\ lines[k + 1].id = m
      BY <1>1, <1>2, <1>4, <3>1
    <3>3. QED
      BY <1>1, <1>6, <3>2 DEF Among
  <2>2. ASSUME Among(lines, m), m # lines[1].id PROVE Among(tail, m)
    <3>1. PICK k \in 1..n : lines[k].id = m
      BY <1>1, <2>2 DEF Among
    <3>2. k # 1
      BY <2>2, <3>1
    <3>3. k - 1 \in 1..(n - 1) /\ (k - 1) + 1 = k
      BY <1>1, <3>2
    <3>4. tail[k - 1] = lines[k]
      BY <1>4, <3>3
    <3>5. QED
      BY <1>5, <3>1, <3>3, <3>4 DEF Among
  <2>3. QED
    BY <2>1, <2>2
<1>8. 1 \in 1..n /\ Among(lines, lines[1].id)
  BY <1>1, <1>2 DEF Among
<1>9. QED
  BY <1>1, <1>2, <1>3, <1>4, <1>5, <1>7, <1>8 DEF lines, tail, n, Held

\* What handling a line does.
LEMMA HandleFacts ==
  ASSUME BasicInv, NEW f \in File, f = CurrentFile, NEW l, l = Head(pass.lines), HandleLine
  PROVE  /\ pass.at = "lines" /\ pass.lines # <<>> /\ l \in Line /\ l.id \in LineId
         /\ pass'.at = "lines" /\ pass'.todo = pass.todo /\ pass' \in PassRecord
         /\ pass'.lines = Tail(pass.lines) /\ CurrentFile' = f
         /\ counts' \in [LineId -> Nat] /\ reported' \in [LineId -> Nat]
         /\ counts'[l.id] = counts[l.id] + 1
         /\ \A m \in LineId \ {l.id} : counts'[m] = counts[m] /\ reported'[m] = reported[m]
         /\ reported'[l.id] = IF l.act = "result" /\ l.tool \in open[f]
                              THEN reported[l.id] + 1 ELSE reported[l.id]
         /\ open'[f] = OpenAfter(open[f], l) /\ \A g \in File \ {f} : open'[g] = open[g]
         /\ open' \in [File -> SUBSET (Tool \cup {"none"})]
         /\ ever' = ever \cup {l.id}
         /\ UNCHANGED <<file, torn, made, nextLine, saved, offsets, known>>
         /\ UNCHANGED <<cut, skipped, shortened, faults>>
<1>1. /\ pass.at = "lines" /\ pass.lines # <<>>
      /\ open' = [open EXCEPT ![f] = OpenAfter(open[f], l)]
      /\ reported' = IF l.act = "result" /\ l.tool \in open[f]
                     THEN [reported EXCEPT ![l.id] = reported[l.id] + 1] ELSE reported
      /\ counts' = [counts EXCEPT ![l.id] = counts[l.id] + 1]
      /\ ever' = ever \cup {l.id}
      /\ pass' = [pass EXCEPT !.lines = Tail(pass.lines)]
      /\ UNCHANGED <<file, torn, made, nextLine, saved, offsets, known>>
      /\ UNCHANGED <<cut, skipped, shortened, faults>>
  BY DEF HandleLine, disk
<1>2. l \in Line /\ l.id \in LineId /\ Tail(pass.lines) \in Seq(Line)
  BY <1>1, NextLine
<1>3. pass \in PassRecord
  BY Hand
<1>4. /\ pass' \in PassRecord /\ pass'.at = pass.at /\ pass'.todo = pass.todo
      /\ pass'.lines = Tail(pass.lines)
  BY <1>1, <1>2, <1>3 DEF PassRecord
<1>5. CurrentFile' = f
  BY <1>4 DEF CurrentFile
<1>6. /\ counts \in [LineId -> Nat] /\ reported \in [LineId -> Nat]
      /\ open \in [File -> SUBSET (Tool \cup {"none"})]
  BY DEF BasicInv, WatcherTypeOK
<1>7. OpenAfter(open[f], l) \in SUBSET (Tool \cup {"none"})
  <2>1. l.act \in {"use", "result", "end"} /\ l.tool \in Tool \cup {"none"}
    BY <1>2, LineFields
  <2>2. QED
    BY <1>6, <2>1 DEF OpenAfter
<1>8. open'[f] = OpenAfter(open[f], l) /\ \A g \in File \ {f} : open'[g] = open[g]
  BY <1>1, <1>6
<1>9. open' \in [File -> SUBSET (Tool \cup {"none"})]
  BY <1>1, <1>6, <1>7
<1>10. /\ counts' \in [LineId -> Nat] /\ counts'[l.id] = counts[l.id] + 1
       /\ \A m \in LineId \ {l.id} : counts'[m] = counts[m]
  BY <1>1, <1>2, <1>6
<1>11. /\ reported' \in [LineId -> Nat]
       /\ \A m \in LineId \ {l.id} : reported'[m] = reported[m]
       /\ reported'[l.id] = IF l.act = "result" /\ l.tool \in open[f]
                            THEN reported[l.id] + 1 ELSE reported[l.id]
  BY <1>1, <1>2, <1>6
<1>12. QED
  BY <1>1, <1>2, <1>4, <1>5, <1>8, <1>9, <1>10, <1>11

LEMMA HandleBasic ==
  ASSUME BasicInv, HandleLine
  PROVE  BasicInv'
<1> PICK f \in File : f = CurrentFile /\ f \in pass.todo
  BY Hand DEF HandleLine
<1> PICK l : l = Head(pass.lines)
  OBVIOUS
<1>1. /\ pass.lines # <<>> /\ l.id \in LineId
      /\ pass'.at = "lines" /\ pass'.todo = pass.todo /\ pass' \in PassRecord
      /\ pass'.lines = Tail(pass.lines) /\ CurrentFile' = f
      /\ counts' \in [LineId -> Nat] /\ reported' \in [LineId -> Nat]
      /\ \A m \in LineId \ {l.id} : counts'[m] = counts[m] /\ reported'[m] = reported[m]
      /\ open' \in [File -> SUBSET (Tool \cup {"none"})]
      /\ ever' = ever \cup {l.id}
      /\ UNCHANGED <<file, torn, made, nextLine, saved, offsets, known>>
      /\ UNCHANGED <<cut, skipped, shortened, faults>>
  BY HandleFacts
<1>2. WatcherTypeOK' /\ PassOK'
  BY <1>1 DEF BasicInv, WatcherTypeOK, PassOK
<1>3. /\ l = pass.lines[1] /\ 1 \in DOMAIN pass.lines /\ Held(l.id)
      /\ DOMAIN pass'.lines = 1..(Len(pass.lines) - 1)
      /\ \A k \in 1..(Len(pass.lines) - 1) : pass'.lines[k] = pass.lines[k + 1]
      /\ \A m : Among(pass'.lines, m) <=> Held(m) /\ m # l.id
      /\ DOMAIN pass.lines = 1..Len(pass.lines) /\ Len(pass.lines) \in Nat
  BY <1>1, NextLine, Hand
<1>4. Numbered /\ CurrentFile = f
  BY DEF BasicInv
<1>5. \A k \in DOMAIN pass'.lines : k + 1 \in DOMAIN pass.lines /\ k \in Nat
  BY <1>3
<1>6. \A k \in DOMAIN pass'.lines : pass'.lines[k].id < nextLine
  BY <1>3, <1>4, <1>5 DEF Numbered
<1>7. ASSUME NEW k \in DOMAIN pass'.lines, NEW m \in DOMAIN pass'.lines,
             pass'.lines[k].id = pass'.lines[m].id
      PROVE  k = m
  <2>1. k + 1 \in DOMAIN pass.lines /\ m + 1 \in DOMAIN pass.lines /\ k \in Nat /\ m \in Nat
    BY <1>5
  <2>2. pass.lines[k + 1].id = pass.lines[m + 1].id
    BY <1>3, <1>7
  <2>3. k + 1 = m + 1
    BY <1>4, <2>1, <2>2 DEF Numbered
  <2>4. QED
    BY <2>1, <2>3
<1>8. \A n \in LineId : n >= nextLine => counts'[n] = 0 /\ reported'[n] = 0
  <2>1. l.id < nextLine
    BY <1>3, <1>4 DEF Numbered
  <2>2. l.id \in Nat /\ nextLine \in Nat
    <3>1. l.id \in Nat
      BY <1>1, LineFields
    <3>2. nextLine \in 1..(MaxLines + 1)
      BY DEF BasicInv, WatcherTypeOK
    <3>3. QED
      BY <3>1, <3>2, WatcherAssumption
  <2>3. \A n \in LineId : n >= nextLine => n # l.id
    BY <2>1, <2>2, LineFields
  <2>4. QED
    BY <1>1, <1>4, <2>3 DEF Numbered
<1>9. \A g \in torn : /\ file[g] # <<>>
                      /\ counts'[file[g][Len(file[g])].id] = 0
                      /\ ~ Among(pass'.lines, file[g][Len(file[g])].id)
  <2> SUFFICES ASSUME NEW g \in torn
               PROVE  /\ file[g] # <<>>
                      /\ counts'[file[g][Len(file[g])].id] = 0
                      /\ ~ Among(pass'.lines, file[g][Len(file[g])].id)
    OBVIOUS
  <2>1. /\ file[g] # <<>> /\ counts[file[g][Len(file[g])].id] = 0
        /\ ~ Held(file[g][Len(file[g])].id)
    BY <1>4 DEF Numbered
  <2>2. file[g][Len(file[g])].id \in LineId
    <3>1. g \in File
      BY DEF BasicInv, WatcherTypeOK
    <3>2. QED
      BY <2>1, <3>1, Lines
  <2>3. file[g][Len(file[g])].id # l.id
    BY <1>3, <2>1
  <2>4. \A x : x \in LineId /\ x # l.id /\ counts[x] = 0 /\ ~ Held(x) =>
                counts'[x] = 0 /\ ~ Among(pass'.lines, x)
    BY <1>1, <1>3
  <2>5. QED
    BY <2>1, <2>2, <2>3, <2>4
<1>10. \A g \in File : \A i \in DOMAIN file[g] : Among(pass'.lines, file[g][i].id) => g = f
  BY <1>3, <1>4 DEF Numbered
<1>11. Numbered'
  BY <1>1, <1>4, <1>6, <1>7, <1>8, <1>9, <1>10 DEF Numbered, Held
<1>12. QED
  BY <1>2, <1>11 DEF BasicInv

\* The first part is inductive.
LEMMA BasicStep ==
  ASSUME BasicInv, [Next]_vars
  PROVE  BasicInv'
<1>1. CASE UNCHANGED vars
  <2>1. WatcherTypeOK' /\ PassOK'
    BY <1>1 DEF vars, disk, memory, history, BasicInv, WatcherTypeOK, PassOK
  <2>2. CurrentFile' = CurrentFile
    BY <1>1 DEF vars, CurrentFile
  <2>3. Numbered'
    BY <1>1, <2>2 DEF vars, disk, history, BasicInv, Numbered, Held
  <2>4. QED
    BY <2>1, <2>3 DEF BasicInv
<1>2. CASE Write
  BY <1>2, WriteBasic, CompleteBasic, TruncateBasic DEF Write
<1>3. CASE Watch
  BY <1>3, StartBasic, StatSkipBasic, StatBasic, ReadBasic, HandleBasic, FileDoneBasic,
     SaveBasic, DieBasic, RestartBasic DEF Watch, Dies
<1>4. CASE Killed \/ KilledInSave
  BY <1>4, DieBasic DEF Dies
<1>5. QED
  BY <1>1, <1>2, <1>3, <1>4 DEF Next

\* The first part is an invariant.
THEOREM WatcherInvariant == Spec => []BasicInv
<1>1. Init => BasicInv
  BY BasicInit
<1>2. BasicInv /\ [Next]_vars => BasicInv'
  BY BasicStep
<1>3. QED
  BY <1>1, <1>2, PTL DEF Spec

-----------------------------------------------------------------------------
(* Steps of the writers, for what follows.                                 *)

\* File f keeps its lines; one that is new lies behind all that was there.
Grown(f) ==
  /\ Len(file[f]) <= Len(file'[f]) /\ Length(f) <= Length(f)'
  /\ \A i \in 1..Len(file[f]) : file'[f][i] = file[f][i]
  /\ \A i \in (Len(file[f]) + 1)..Len(file'[f]) :
       file'[f][i].id = nextLine /\ Length(f) <= 2 * (i - 1)

Written ==
  /\ \A f \in File : Grown(f) \/ (DOMAIN file'[f] = {} /\ f \in shortened')
  /\ shortened \subseteq shortened'
  /\ UNCHANGED <<saved, offsets, open, pass, counts, reported, ever, cut, skipped>>

LEMMA SameGrown ==
  ASSUME BasicInv, NEW g \in File, file'[g] = file[g], g \in torn' => g \in torn
  PROVE  Grown(g)
<1>1. Length(g) <= Length(g)'
  BY Lines DEF Length
<1>2. QED
  BY <1>1, Lines DEF Grown

LEMMA WriteIs ==
  ASSUME BasicInv, BasicInv', Write
  PROVE  Written
<1>1. ASSUME NEW f \in File, NEW act \in {"use", "result", "end"},
             NEW tool \in Tool \cup {"none"}, NEW tear \in Tear \cup {"none"},
             WriteLine(f, act, tool, tear)
      PROVE  Written
  <2>1. /\ f \notin torn /\ (torn' = torn \/ torn' = torn \cup {f})
        /\ Len(file'[f]) = Len(file[f]) + 1
        /\ \A i \in 1..Len(file[f]) : file'[f][i] = file[f][i]
        /\ file'[f][Len(file[f]) + 1].id = nextLine
        /\ \A g \in File \ {f} : file'[g] = file[g]
        /\ UNCHANGED <<saved, offsets, open, pass, counts, reported>>
        /\ UNCHANGED <<ever, cut, skipped, shortened>>
    BY <1>1, WriteFacts
  <2>2. Grown(f)
    <3>1. Length(f) = 2 * Len(file[f]) /\ Len(file[f]) \in Nat
      BY <2>1, Lines
    <3>2. Length(f)' \in {2 * Len(file'[f]), 2 * Len(file'[f]) - 1}
      BY LinesNext
    <3>3. QED
      BY <2>1, <3>1, <3>2 DEF Grown
  <2>3. ASSUME NEW g \in File \ {f} PROVE Grown(g)
    BY <2>1, SameGrown
  <2>4. QED
    BY <2>1, <2>2, <2>3 DEF Written
<1>2. ASSUME NEW f \in File, CompleteLine(f) PROVE Written
  <2>1. /\ torn' = torn \ {f} /\ UNCHANGED <<saved, offsets, open, pass, counts, reported>>
        /\ UNCHANGED <<file, ever, cut, skipped, shortened>>
    BY <1>2 DEF CompleteLine, memory, history
  <2>2. \A g \in File : Grown(g)
    BY <2>1, SameGrown
  <2>3. QED
    BY <2>1, <2>2 DEF Written
<1>3. ASSUME NEW f \in File, Truncate(f) PROVE Written
  <2>1. /\ DOMAIN file'[f] = {} /\ shortened' = shortened \cup {f} /\ torn' = torn \ {f}
        /\ \A g \in File \ {f} : file'[g] = file[g]
        /\ UNCHANGED <<saved, offsets, open, pass, counts, reported, ever, cut, skipped>>
    BY <1>3, TruncateFacts
  <2>2. \A g \in File \ {f} : Grown(g)
    BY <2>1, SameGrown
  <2>3. QED
    BY <2>1, <2>2 DEF Written
<1>4. QED
  BY <1>1, <1>2, <1>3 DEF Write

\* A number nobody has used.
LEMMA FreshLine ==
  ASSUME BasicInv, nextLine \in LineId
  PROVE  counts[nextLine] = 0 /\ reported[nextLine] = 0 /\ ~ Held(nextLine)
<1>1. nextLine \in Nat
  BY LineFields
<1>2. counts[nextLine] = 0 /\ reported[nextLine] = 0
  BY <1>1 DEF BasicInv, Numbered
<1>3. \A k \in DOMAIN pass.lines : pass.lines[k].id < nextLine /\ pass.lines[k].id \in Nat
  BY Hand, LineFields DEF BasicInv, Numbered
<1>4. QED
  BY <1>1, <1>2, <1>3 DEF Held, Among

\* A line of a file that has grown is one that was there, or is fresh.
LEMMA GrownLine ==
  ASSUME BasicInv, BasicInv', NEW f \in File, Grown(f), NEW i \in DOMAIN file'[f]
  PROVE  \/ i \in DOMAIN file[f] /\ file'[f][i] = file[f][i]
         \/ /\ i \in Nat /\ Len(file[f]) < i /\ file'[f][i].id = nextLine /\ nextLine \in LineId
            /\ Length(f) <= 2 * (i - 1)
            /\ counts[nextLine] = 0 /\ reported[nextLine] = 0 /\ ~ Held(nextLine)
<1>1. i \in 1..Len(file'[f]) /\ Len(file'[f]) \in Nat /\ file'[f][i].id \in LineId
  BY LinesNext
<1>2. CASE i <= Len(file[f])
  BY <1>1, <1>2, Lines DEF Grown
<1>3. CASE ~ (i <= Len(file[f]))
  <2>1. i \in (Len(file[f]) + 1)..Len(file'[f]) /\ Len(file[f]) < i
    BY <1>1, <1>3, Lines
  <2>2. file'[f][i].id = nextLine /\ Length(f) <= 2 * (i - 1)
    BY <2>1 DEF Grown
  <2>3. QED
    BY <1>1, <2>1, <2>2, FreshLine
<1>4. QED
  BY <1>2, <1>3

-----------------------------------------------------------------------------
(* The second part: how often a line is handled.                           *)

LEMMA LoadInit == Init => LoadInv
<1> SUFFICES ASSUME Init PROVE LoadInv
  OBVIOUS
<1>1. DOMAIN pass.lines = {} /\ pass.at = "sleep"
  BY EmptySeq DEF Init, Sleeping
<1>2. \A f \in File : DOMAIN file[f] = {}
  BY EmptySeq DEF Init
<1>3. \A l \in LineId : AtMost(l, 2)
  BY <1>1 DEF Init, AtMost, Held, Among
<1>4. QED
  BY <1>2, <1>3 DEF LoadInv

\* What the writers add has not been handled.
LEMMA LoadWritten ==
  ASSUME BasicInv, BasicInv', LoadInv, Written
  PROVE  LoadInv'
<1>1. UNCHANGED <<offsets, pass, counts>>
  BY DEF Written
<1>2. \A l \in LineId : AtMost(l, 2)'
  BY <1>1 DEF LoadInv, AtMost, Held
<1>3. ASSUME NEW f \in File, NEW i \in DOMAIN file'[f]
      PROVE  LoadIn(f, i)'
  <2>1. Grown(f)
    BY DEF Written
  <2>2. Again(f, i)' => Again(f, i)
    <3>1. Length(f) \in Nat /\ Length(f)' \in Nat /\ offsets[f] \in Nat
      BY Lines, LinesNext DEF BasicInv, WatcherTypeOK
    <3>2. QED
      BY <1>1, <2>1, <3>1 DEF Again, Grown
  <2>3. Reading(f)' <=> Reading(f)
    BY <1>1 DEF Reading, CurrentFile
  <2>4. CASE i \in DOMAIN file[f] /\ file'[f][i] = file[f][i]
    <3>1. LoadIn(f, i)
      BY <2>4 DEF LoadInv
    <3>2. Length(f) \in Nat /\ Length(f)' \in Nat /\ pass.len \in Nat /\ Length(f) <= Length(f)'
      BY <2>1, Lines, LinesNext, Hand DEF Grown
    <3>3. pass.len > Length(f)' => pass.len > Length(f)
      BY <3>2
    <3>4. QED
      BY <1>1, <2>2, <2>3, <2>4, <3>1, <3>3 DEF LoadIn, AtMost, Held
  <2>5. CASE file'[f][i].id = nextLine /\ counts[nextLine] = 0 /\ ~ Held(nextLine)
    BY <1>1, <2>5 DEF LoadIn, AtMost, Held
  <2>6. QED
    BY <2>1, <2>4, <2>5, GrownLine
<1>4. QED
  BY <1>2, <1>3 DEF LoadInv

\* A step of the pass that leaves nothing in hand, and begins no read.
LEMMA LoadQuiet ==
  ASSUME BasicInv, BasicInv', LoadInv, UNCHANGED <<file, torn>>,
         pass'.at \notin {"read", "lines"}, UNCHANGED counts,
         \A f \in File : \A i \in DOMAIN file[f] : Again(f, i)' => Again(f, i)
  PROVE  LoadInv'
<1>1. \A l : ~ Held(l)'
  <2>1. DOMAIN pass'.lines = {}
    BY EmptySeq DEF BasicInv, PassOK
  <2>2. QED
    BY <2>1 DEF Held, Among
<1>2. \A l \in LineId : AtMost(l, 2)'
  BY <1>1 DEF LoadInv, AtMost, Held
<1>3. ASSUME NEW f \in File, NEW i \in DOMAIN file[f]
      PROVE  LoadIn(f, i)'
  <2>1. LoadIn(f, i) /\ (Again(f, i)' => Again(f, i)) /\ ~ Reading(f)'
    BY DEF LoadInv, Reading
  <2>2. QED
    BY <1>1, <2>1 DEF LoadIn, AtMost, Held
<1>4. QED
  BY <1>2, <1>3 DEF LoadInv

\* A life that begins has handled nothing.
LEMMA LoadNone ==
  ASSUME BasicInv', \A l \in LineId : counts'[l] = 0, pass'.at \notin {"read", "lines"}
  PROVE  LoadInv'
<1>1. \A l : ~ Held(l)'
  <2>1. DOMAIN pass'.lines = {}
    BY EmptySeq DEF BasicInv, PassOK
  <2>2. QED
    BY <2>1 DEF Held, Among
<1>2. \A l \in LineId : AtMost(l, 2)'
  BY <1>1 DEF AtMost, Held
<1>3. ASSUME NEW f \in File, NEW i \in DOMAIN file'[f]
      PROVE  LoadIn(f, i)'
  <2>1. file'[f][i].id \in LineId
    BY LinesNext
  <2>2. QED
    BY <1>1, <2>1 DEF LoadIn, AtMost, Held
<1>4. QED
  BY <1>2, <1>3 DEF LoadInv

LEMMA LoadStat ==
  ASSUME BasicInv, BasicInv', LoadInv, Stat
  PROVE  LoadInv'
<1> PICK f \in File : f = CurrentFile /\ f \in pass.todo
  BY Hand DEF Stat
<1>1. /\ UNCHANGED <<file, torn, made, nextLine, saved, offsets, open, counts, reported>>
      /\ pass'.lines = <<>>
      /\ \/ pass' = NextFile
         \/ /\ pass'.at = "read" /\ pass'.todo = pass.todo
            /\ pass'.from = StartOf(f) /\ pass'.len = Length(f)
  BY StatFacts
<1>2. \A g \in File : \A i \in DOMAIN file[g] : Again(g, i)' <=> Again(g, i)
  BY <1>1 DEF Again, Length
<1>3. CASE pass' = NextFile
  <2>1. pass'.at \notin {"read", "lines"}
    BY <1>3, NextFileIs
  <2>2. QED
    BY <1>1, <1>2, <2>1, LoadQuiet
<1>4. CASE pass'.at = "read"
  <2>1. /\ pass'.todo = pass.todo /\ pass'.from = StartOf(f) /\ pass'.len = Length(f)
    BY <1>1, <1>4, NextFileIs
  <2>2. CurrentFile' = f
    BY <2>1 DEF CurrentFile
  <2>3. \A l : ~ Held(l)'
    <3>1. DOMAIN pass'.lines = {}
      BY <1>1, EmptySeq
    <3>2. QED
      BY <3>1 DEF Held, Among
  <2>4. \A l \in LineId : AtMost(l, 2)'
    BY <1>1, <2>3 DEF LoadInv, AtMost, Held
  <2>5. ASSUME NEW g \in File, NEW i \in DOMAIN file[g] PROVE LoadIn(g, i)'
    <3>1. LoadIn(g, i)
      BY DEF LoadInv
    <3>2. Again(g, i)' => Again(g, i)
      BY <1>2
    <3>3. CASE g # f
      BY <1>1, <2>2, <2>3, <3>1, <3>2, <3>3 DEF LoadIn, AtMost, Held, Reading
    <3>4. CASE g = f
      <4>1. i \in Nat /\ Length(f) \in Nat /\ 2 * (i - 1) < Length(f) /\ offsets[f] \in Nat
        BY <3>4, LineWithin, Offsets
      <4>2. StartOf(f) <= 2 * (i - 1) => Again(f, i)
        BY <4>1 DEF StartOf, Again
      <4>3. ~ (pass'.len <= 2 * (i - 1) \/ pass'.len > Length(f))
        BY <2>1, <4>1
      <4>4. Length(f)' = Length(f)
        BY <1>1 DEF Length
      <4>5. QED
        BY <1>1, <2>1, <2>3, <3>1, <3>2, <3>4, <4>2, <4>3, <4>4 DEF LoadIn, AtMost, Held
    <3>5. QED
      BY <3>3, <3>4
  <2>6. QED
    BY <1>1, <2>4, <2>5 DEF LoadInv
<1>5. QED
  BY <1>1, <1>3, <1>4

\* What a read takes in hand was handled once at most; what will be read again, never.
LEMMA LoadRead ==
  ASSUME BasicInv, BasicInv', LoadInv, Read
  PROVE  LoadInv'
<1> PICK f \in File : f = CurrentFile /\ f \in pass.todo
  BY Hand DEF Read
<1> DEFINE first == FirstFrom(pass.from)
           lines == pass'.lines
<1>1. /\ pass.at = "read" /\ pass'.at = "lines" /\ CurrentFile' = f
      /\ lines = WholeLines(f, pass.from)
      /\ offsets'[f] = pass.len /\ \A g \in File \ {f} : offsets'[g] = offsets[g]
      /\ UNCHANGED <<file, torn, counts>>
  BY ReadFacts
<1>2. /\ pass.from \in Nat /\ pass.len \in Nat /\ \A l : ~ Held(l)
  BY <1>1, Hand
<1>3. first \in Nat /\ first >= 1 /\ pass.from <= 2 * (first - 1)
  BY <1>2, FirstFromIs
<1> HIDE DEF lines
<1>4. /\ Len(lines) \in Nat /\ DOMAIN lines = 1..Len(lines)
      /\ Len(lines) = IF first <= LastWhole(f) THEN LastWhole(f) - first + 1 ELSE 0
      /\ \A k \in 1..Len(lines) : lines[k] = file[f][first + k - 1]
  BY <1>1, <1>2, WholeLinesAre
<1> HIDE DEF first
<1>5. \A k \in DOMAIN lines : first + k - 1 \in 1..Len(file[f]) /\ first + k - 1 >= first
  BY <1>3, <1>4, Lines DEF LastWhole
<1>6. ASSUME NEW l, Among(lines, l)
      PROVE  \E i \in 1..Len(file[f]) : file[f][i].id = l /\ pass.from <= 2 * (i - 1)
  <2>1. PICK k \in DOMAIN lines : lines[k].id = l
    BY <1>6 DEF Among
  <2>2. first + k - 1 \in 1..Len(file[f]) /\ pass.from <= 2 * ((first + k - 1) - 1)
    BY <1>2, <1>3, <1>4, <1>5
  <2>3. QED
    BY <1>4, <2>1, <2>2
<1>7. Reading(f)
  BY <1>1 DEF Reading
<1>8. \A i \in 1..Len(file[f]) : LoadIn(f, i) /\ counts[file[f][i].id] \in Nat
  BY Lines DEF LoadInv
<1>9. ASSUME NEW l \in LineId, Among(lines, l) PROVE counts[l] <= 1
  <2>1. PICK i \in 1..Len(file[f]) : file[f][i].id = l /\ pass.from <= 2 * (i - 1)
    BY <1>9, <1>6
  <2>2. QED
    BY <1>7, <1>8, <2>1 DEF LoadIn, AtMost
<1>10. \A l \in LineId : AtMost(l, 2)'
  <2>1. \A l \in LineId : counts[l] <= 2 /\ counts[l] \in Nat
    BY DEF LoadInv, AtMost, BasicInv, WatcherTypeOK
  <2>2. \A l \in LineId : counts[l] <= 1 => counts[l] < 2
    BY <2>1
  <2>3. QED
    BY <1>1, <1>9, <2>1, <2>2 DEF AtMost, Held, lines
<1>11. ASSUME NEW g \in File, NEW i \in DOMAIN file[g] PROVE LoadIn(g, i)'
  <2>1. ~ Reading(g)'
    BY <1>1 DEF Reading
  <2>2. LoadIn(g, i)
    BY DEF LoadInv
  <2>3. CASE g # f
    <3>1. Again(g, i)' => Again(g, i)
      BY <1>1, <2>3 DEF Again, Length
    <3>2. ~ Among(lines, file[g][i].id)
      <4>1. Among(lines, file[g][i].id) => g = CurrentFile'
        BY <1>1 DEF BasicInv, Numbered, Held, lines
      <4>2. QED
        BY <1>1, <2>3, <4>1
    <3>3. QED
      BY <1>1, <2>1, <2>2, <3>1, <3>2 DEF LoadIn, AtMost, Held, lines
  <2>4. CASE g = f
    <3>1. Again(f, i)' => pass.len <= 2 * (i - 1) \/ pass.len > Length(f)
      BY <1>1 DEF Again, Length
    <3>2. Again(f, i)' => counts[file[f][i].id] = 0
      BY <1>7, <2>2, <2>4, <3>1 DEF LoadIn
    <3>3. Again(f, i)' => AtMost(file[f][i].id, 1)'
      BY <1>1, <3>2 DEF AtMost
    <3>4. QED
      BY <2>1, <2>4, <3>3 DEF LoadIn
  <2>5. QED
    BY <2>3, <2>4
<1>12. QED
  BY <1>1, <1>10, <1>11 DEF LoadInv

LEMMA LoadHandle ==
  ASSUME BasicInv, BasicInv', LoadInv, HandleLine
  PROVE  LoadInv'
<1> PICK f \in File : f = CurrentFile /\ f \in pass.todo
  BY Hand DEF HandleLine
<1> PICK l : l = Head(pass.lines)
  OBVIOUS
<1>1. /\ pass.lines # <<>> /\ l.id \in LineId
      /\ pass'.at = "lines" /\ pass'.lines = Tail(pass.lines)
      /\ counts'[l.id] = counts[l.id] + 1
      /\ \A m \in LineId \ {l.id} : counts'[m] = counts[m]
      /\ UNCHANGED <<file, torn, offsets>>
  BY HandleFacts
<1>2. Held(l.id) /\ \A m : Among(pass'.lines, m) <=> Held(m) /\ m # l.id
  BY <1>1, NextLine
<1>3. ASSUME NEW m \in LineId, NEW n \in {1, 2}, AtMost(m, n) PROVE AtMost(m, n)'
  <2>1. counts[m] \in Nat
    BY DEF BasicInv, WatcherTypeOK
  <2>2. Held(m)' <=> Among(pass'.lines, m)
    BY DEF Held
  <2>3. CASE m = l.id
    BY <1>1, <1>2, <1>3, <2>1, <2>2, <2>3 DEF AtMost
  <2>4. CASE m # l.id
    BY <1>1, <1>2, <1>3, <2>2, <2>4 DEF AtMost
  <2>5. QED
    BY <2>3, <2>4
<1>4. \A m \in LineId : AtMost(m, 2)'
  BY <1>3 DEF LoadInv
<1>5. ASSUME NEW g \in File, NEW i \in DOMAIN file[g] PROVE LoadIn(g, i)'
  <2>1. LoadIn(g, i) /\ ~ Reading(g)'
    BY <1>1 DEF LoadInv, Reading
  <2>2. Again(g, i)' => Again(g, i)
    BY <1>1 DEF Again, Length
  <2>3. PICK m \in LineId : m = file[g][i].id
    BY Lines
  <2>4. AtMost(m, 1) => AtMost(m, 1)'
    BY <1>3
  <2>5. file'[g][i].id = m
    BY <1>1, <2>3
  <2>6. Again(g, i)' => AtMost(m, 1)'
    BY <2>1, <2>2, <2>3, <2>4 DEF LoadIn
  <2>7. QED
    BY <1>1, <2>1, <2>3, <2>5, <2>6 DEF LoadIn, AtMost, Held
<1>6. QED
  BY <1>1, <1>4, <1>5 DEF LoadInv

\* The second part is inductive.
LEMMA LoadStep ==
  ASSUME BasicInv, BasicInv', LoadInv, [Next]_vars
  PROVE  LoadInv'
<1>1. CASE UNCHANGED vars
  BY <1>1 DEF vars, disk, memory, history, LoadInv, LoadIn, AtMost, Held, Again, Reading,
     CurrentFile, Length
<1>2. CASE Write
  BY <1>2, WriteIs, LoadWritten
<1>3. CASE StartPass \/ FileDone \/ Save
  <2>1. UNCHANGED <<file, torn, offsets, counts>>
    BY <1>3 DEF StartPass, FileDone, Save, disk, memory, history
  <2>2. pass'.at \notin {"read", "lines"}
    <3>1. CASE FileDone
      BY <3>1, NextFileIs DEF FileDone
    <3>2. CASE Save
      BY <3>2 DEF Save, Sleeping
    <3>3. CASE StartPass
      BY <3>3, SleepingAt DEF StartPass
    <3>4. QED
      BY <1>3, <3>1, <3>2, <3>3
  <2>3. \A f \in File : \A i \in DOMAIN file[f] : Again(f, i)' <=> Again(f, i)
    BY <2>1 DEF Again, Length
  <2>4. QED
    BY <2>1, <2>2, <2>3, LoadQuiet
<1>4. CASE StatSkip
  <2> PICK f \in File : f = CurrentFile /\ f \in pass.todo
    BY <1>4, Hand DEF StatSkip
  <2>1. /\ pass' = NextFile /\ UNCHANGED <<file, torn, counts>>
        /\ offsets'[f] = Length(f) /\ \A g \in File \ {f} : offsets'[g] = offsets[g]
    BY <1>4, StatSkipFacts
  <2>2. pass'.at \notin {"read", "lines"}
    BY <2>1, NextFileIs
  <2>3. ASSUME NEW g \in File, NEW i \in DOMAIN file[g] PROVE Again(g, i)' => Again(g, i)
    <3>1. CASE g # f
      BY <2>1, <3>1 DEF Again, Length
    <3>2. CASE g = f
      <4>1. Length(f)' = Length(f)
        BY <2>1 DEF Length
      <4>2. ~ Again(f, i)'
        BY <2>1, <3>2, <4>1, LineWithin DEF Again
      <4>3. QED
        BY <3>2, <4>2
    <3>3. QED
      BY <3>1, <3>2
  <2>4. QED
    BY <2>1, <2>2, <2>3, LoadQuiet
<1>5. CASE Stat
  BY <1>5, LoadStat
<1>6. CASE Read
  BY <1>6, LoadRead
<1>7. CASE HandleLine
  BY <1>7, LoadHandle
<1>8. CASE Dies
  BY <1>8, DieFacts, LoadNone
<1>9. CASE Restart
  <2>1. pass.at = "down" /\ pass'.at = "sleep" /\ counts' = counts
    BY <1>9 DEF Restart, history, Sleeping
  <2>2. QED
    BY <2>1, LoadNone DEF BasicInv, PassOK
<1>10. QED
  BY <1>1, <1>2, <1>3, <1>4, <1>5, <1>6, <1>7, <1>8, <1>9 DEF Next, Watch, Dies

\* One life of the watcher handles a line at most twice, whatever is appended or
\* truncated between its stats and its reads (process_file, watcher.rs:128-171).
THEOREM LinesAtMostTwice == Spec => []AtMostTwice
<1>1. Init => LoadInv
  BY LoadInit
<1>2. BasicInv /\ BasicInv' /\ LoadInv /\ [Next]_vars => LoadInv'
  BY LoadStep
<1>3. LoadInv => AtMostTwice
  BY DEF LoadInv, AtMost, AtMostTwice
<1>4. QED
  BY <1>1, <1>2, <1>3, WatcherInvariant, PTL DEF Spec

-----------------------------------------------------------------------------
(* The third part: what lies before an offset.                             *)

LEMMA KeptInit == Init => KeptInv
<1> SUFFICES ASSUME Init, NEW f \in File PROVE KeptIn(f)
  BY DEF KeptInv
<1>1. DOMAIN file[f] = {} /\ Length(f) = 0 /\ saved[f] = 0 /\ offsets[f] = 0
  BY EmptySeq DEF Init, Length, NoOffsets
<1>2. ~ Reading(f)
  BY DEF Init, Sleeping, Reading
<1>3. QED
  BY <1>1, <1>2 DEF KeptIn

LEMMA KeptWritten ==
  ASSUME BasicInv, BasicInv', KeptInv, Written
  PROVE  KeptInv'
<1> SUFFICES ASSUME NEW f \in File \ shortened' PROVE KeptIn(f)'
  BY DEF KeptInv
<1>1. /\ Grown(f) /\ KeptIn(f)
      /\ UNCHANGED <<saved, offsets, pass, ever, cut, skipped>>
  BY DEF Written, KeptInv
<1>2. /\ Length(f) \in Nat /\ Length(f)' \in Nat /\ Length(f) <= Length(f)'
      /\ saved[f] \in Nat /\ offsets[f] \in Nat /\ pass.len \in Nat
  BY <1>1, Lines, LinesNext, Offsets, Hand DEF Grown
<1>3. /\ saved[f] <= Length(f)' /\ offsets[f] <= Length(f)'
      /\ pass.len <= Length(f) => pass.len <= Length(f)'
  BY <1>1, <1>2 DEF KeptIn
<1>4. Reading(f)' <=> Reading(f)
  BY <1>1 DEF Reading, CurrentFile
<1>5. ASSUME NEW i \in DOMAIN file'[f]
      PROVE  LET l == file'[f][i].id
             IN  /\ 2 * i - 1 <= saved[f] => Covered(l)
                 /\ 2 * i - 1 <= offsets[f] => Covered(l) \/ Held(l)
  <2>1. CASE i \in DOMAIN file[f] /\ file'[f][i] = file[f][i]
    BY <1>1, <2>1 DEF KeptIn
  <2>2. CASE i \in Nat /\ Length(f) <= 2 * (i - 1)
    <3>1. ~ (2 * i - 1 <= saved[f]) /\ ~ (2 * i - 1 <= offsets[f])
      BY <1>1, <1>2, <2>2 DEF KeptIn
    <3>2. QED
      BY <3>1
  <2>3. QED
    BY <1>1, <2>1, <2>2, GrownLine
<1>6. QED
  BY <1>1, <1>3, <1>4, <1>5 DEF KeptIn, Covered, Held

\* The offsets a step may put for a file that stays: the old ones, none, those of the
\* state file, or the end of a file that is passed over.
LEMMA KeptQuiet ==
  ASSUME BasicInv, NEW f \in File, KeptIn(f), UNCHANGED <<file, torn>>,
         ever \subseteq ever', cut \subseteq cut', skipped \subseteq skipped',
         \/ saved'[f] = saved[f] \/ saved'[f] = 0
         \/ saved'[f] = offsets[f] /\ pass.at # "lines",
         \/ offsets'[f] = 0 \/ offsets'[f] = saved[f]
         \/ offsets'[f] = offsets[f] /\ \A i \in DOMAIN file[f] : ~ Held(file[f][i].id)
         \/ offsets'[f] = Length(f) /\ LinesOf(f) \subseteq skipped',
         Reading(f)' => /\ pass'.from = offsets'[f]
                        /\ pass'.from <= pass'.len /\ pass'.len <= Length(f)
  PROVE  KeptIn(f)'
<1>1. /\ Length(f) \in Nat /\ saved[f] \in Nat /\ offsets[f] \in Nat /\ Length(f)' = Length(f)
      /\ saved[f] <= Length(f) /\ offsets[f] <= Length(f)
  BY Lines, Offsets DEF KeptIn, Length
<1>2. saved'[f] <= Length(f) /\ offsets'[f] <= Length(f)
  BY <1>1
<1>3. ASSUME NEW i \in DOMAIN file[f]
      PROVE  LET l == file[f][i].id
                 covered == l \in ever' \cup cut' \cup skipped'
             IN  /\ 2 * i - 1 <= saved'[f] => covered
                 /\ 2 * i - 1 <= offsets'[f] => covered
  <2> DEFINE l == file[f][i].id
             covered == l \in ever' \cup cut' \cup skipped'
  <2>1. ~ (2 * i - 1 <= 0)
    BY LineWithin
  <2>2. /\ 2 * i - 1 <= saved[f] => Covered(l)
        /\ 2 * i - 1 <= offsets[f] => Covered(l) \/ Held(l)
    BY DEF KeptIn
  <2>3. Covered(l) => covered
    BY DEF Covered
  <2>4. LinesOf(f) \subseteq skipped' => covered
    BY DEF LinesOf
  <2>5. pass.at # "lines" => ~ Held(l)
    BY Hand
  <2> HIDE DEF l, covered
  <2>6. \A n : ~ Held(l) /\ n = offsets[f] /\ 2 * i - 1 <= n => covered
    BY <2>2, <2>3
  <2>7. 2 * i - 1 <= saved'[f] => covered
    BY <2>1, <2>2, <2>3, <2>5, <2>6
  <2>8. 2 * i - 1 <= offsets'[f] => covered
    BY <2>1, <2>2, <2>3, <2>4, <2>6 DEF l
  <2>9. QED
    BY <2>7, <2>8 DEF l, covered
<1>4. QED
  BY <1>1, <1>2, <1>3 DEF KeptIn, Covered

\* What a read puts before the offset it takes in hand, but for a line it cuts.
LEMMA KeptRead ==
  ASSUME BasicInv, BasicInv', NEW f \in File, KeptIn(f), f = CurrentFile, Read
  PROVE  KeptIn(f)'
<1> DEFINE first == FirstFrom(pass.from)
           lines == pass'.lines
<1>1. /\ pass.at = "read" /\ pass'.at = "lines"
      /\ lines = WholeLines(f, pass.from) /\ offsets'[f] = pass.len
      /\ cut \subseteq cut'
      /\ CutsALine(f, pass.len) => LineAt(f, pass.len).id \in cut'
      /\ UNCHANGED <<file, torn, saved, ever, skipped>>
  BY ReadFacts
<1>2. /\ pass.from \in Nat /\ pass.len \in Nat /\ \A l : ~ Held(l)
      /\ Length(f) \in Nat /\ Length(f)' = Length(f)
  BY <1>1, Hand, Lines DEF Length
<1>3. pass.from = offsets[f] /\ pass.from <= pass.len /\ pass.len <= Length(f)
  BY <1>1 DEF KeptIn, Reading
<1>4. /\ first \in Nat /\ first >= 1 /\ 2 * (first - 1) <= pass.from + 1
  BY <1>2, FirstFromIs
<1> HIDE DEF lines
<1>5. /\ Len(lines) \in Nat /\ DOMAIN lines = 1..Len(lines)
      /\ Len(lines) = IF first <= LastWhole(f) THEN LastWhole(f) - first + 1 ELSE 0
      /\ \A k \in 1..Len(lines) : lines[k] = file[f][first + k - 1]
  BY <1>1, <1>2, WholeLinesAre
<1> HIDE DEF first
<1>6. ASSUME NEW i \in DOMAIN file[f], 2 * i - 1 <= pass.len
      PROVE  file[f][i].id \in ever \cup cut' \cup skipped \/ Among(lines, file[f][i].id)
  <2>1. /\ i \in Nat /\ 1 <= i /\ i <= Len(file[f]) /\ Len(file[f]) \in Nat
    BY LineWithin, Lines
  <2>2. CASE 2 * i - 1 <= pass.from
    <3>1. Covered(file[f][i].id)
      BY <1>2, <1>3, <2>2 DEF KeptIn
    <3>2. QED
      BY <1>1, <3>1 DEF Covered
  <2>3. CASE pass.from < 2 * i - 1 /\ i <= LastWhole(f)
    <3>1. first <= i
      BY <1>2, <1>4, <2>1, <2>3
    <3>2. LastWhole(f) \in Int
      BY <2>1 DEF LastWhole
    <3>3. (i - first + 1) \in 1..Len(lines) /\ first + (i - first + 1) - 1 = i
      BY <1>4, <1>5, <2>1, <2>3, <3>1, <3>2
    <3>4. lines[i - first + 1] = file[f][i]
      BY <1>5, <3>3
    <3>5. QED
      BY <1>5, <3>3, <3>4 DEF Among
  <2>4. CASE ~ (i <= LastWhole(f))
    <3>1. f \in torn /\ i = Len(file[f]) /\ Length(f) = 2 * Len(file[f]) - 1
      BY <2>1, <2>4, Lines DEF LastWhole
    <3>2. pass.len = 2 * i - 1 /\ pass.len < 2 * Len(file[f])
      BY <1>2, <1>3, <1>6, <2>1, <3>1
    <3>3. pass.len % 2 = 1 /\ (pass.len + 1) \div 2 = i
      BY <2>1, <3>2
    <3>4. file[f][i].id \in cut'
      BY <1>1, <3>2, <3>3 DEF CutsALine, LineAt
    <3>5. QED
      BY <3>4
  <2>5. LastWhole(f) \in Int
    BY <2>1 DEF LastWhole
  <2>6. QED
    BY <1>2, <2>1, <2>2, <2>3, <2>4, <2>5
<1>7. ~ Reading(f)'
  BY <1>1 DEF Reading
<1>8. ASSUME NEW i \in DOMAIN file[f], 2 * i - 1 <= saved[f]
      PROVE  file[f][i].id \in ever \cup cut' \cup skipped
  BY <1>1, <1>8 DEF KeptIn, Covered
<1>9. saved[f] <= Length(f)
  BY DEF KeptIn
<1>10. QED
  BY <1>1, <1>2, <1>3, <1>6, <1>7, <1>8, <1>9 DEF KeptIn, Covered, Held, lines

\* A line leaves the hand when it has been handled.
LEMMA KeptHandle ==
  ASSUME BasicInv, BasicInv', NEW f \in File, KeptIn(f), HandleLine
  PROVE  KeptIn(f)'
<1> PICK l : l = Head(pass.lines)
  OBVIOUS
<1>1. /\ pass.lines # <<>> /\ pass'.at = "lines" /\ pass'.lines = Tail(pass.lines)
      /\ ever' = ever \cup {l.id}
      /\ UNCHANGED <<file, torn, saved, offsets, cut, skipped>>
  <2>1. CurrentFile \in File
    BY Hand DEF HandleLine
  <2>2. QED
    BY <2>1, HandleFacts
<1>2. \A m : Among(pass'.lines, m) <=> Held(m) /\ m # l.id
  BY <1>1, NextLine
<1>3. ~ Reading(f)' /\ Length(f)' = Length(f)
  BY <1>1 DEF Reading, Length
<1>4. ASSUME NEW m
      PROVE  /\ Covered(m) => m \in ever' \cup cut' \cup skipped'
             /\ Covered(m) \/ Held(m) => m \in ever' \cup cut' \cup skipped' \/ Among(pass'.lines, m)
  BY <1>1, <1>2 DEF Covered
<1>5. QED
  BY <1>1, <1>3, <1>4 DEF KeptIn, Covered, Held

\* A stat begins at the offset of a file that was never truncated.
LEMMA KeptStat ==
  ASSUME BasicInv, BasicInv', NEW f \in File, KeptIn(f), Stat
  PROVE  KeptIn(f)'
<1> PICK c \in File : c = CurrentFile /\ c \in pass.todo
  BY Hand DEF Stat
<1>1. /\ pass.at = "stat" /\ UNCHANGED <<file, torn, saved, offsets, ever, cut, skipped>>
      /\ \/ pass' = NextFile
         \/ /\ pass'.at = "read" /\ pass'.todo = pass.todo
            /\ pass'.from = StartOf(c) /\ pass'.len = Length(c)
  BY StatFacts
<1>2. \A i \in DOMAIN file[f] : ~ Held(file[f][i].id)
  BY <1>1, Hand
<1>3. Reading(f)' => /\ pass'.from = offsets'[f]
                     /\ pass'.from <= pass'.len /\ pass'.len <= Length(f)
  <2> SUFFICES ASSUME Reading(f)'
               PROVE  /\ pass'.from = offsets'[f]
                      /\ pass'.from <= pass'.len /\ pass'.len <= Length(f)
    OBVIOUS
  <2>1. pass'.at = "read" /\ CurrentFile' = f
    BY DEF Reading
  <2>2. /\ pass'.todo = pass.todo /\ pass'.from = StartOf(c) /\ pass'.len = Length(c)
    BY <1>1, <2>1, NextFileIs
  <2>3. CurrentFile' = CurrentFile
    BY <2>2 DEF CurrentFile
  <2>4. offsets[f] <= Length(f) /\ offsets[f] \in Nat /\ Length(f) \in Nat
    BY Lines, Offsets DEF KeptIn
  <2>5. StartOf(f) = offsets[f]
    BY <2>4 DEF StartOf
  <2>6. QED
    BY <1>1, <2>1, <2>2, <2>3, <2>4, <2>5
<1>4. QED
  BY <1>1, <1>2, <1>3, KeptQuiet

\* The third part is inductive.
LEMMA KeptStep ==
  ASSUME BasicInv, BasicInv', KeptInv, [Next]_vars
  PROVE  KeptInv'
<1>1. CASE UNCHANGED vars
  BY <1>1 DEF vars, disk, memory, history, KeptInv, KeptIn, Covered, Held, Reading,
     CurrentFile, Length
<1>2. CASE Write
  BY <1>2, WriteIs, KeptWritten
<1>3. ASSUME ~ Write, [Next]_vars, NEW f \in File \ shortened, vars' # vars
      PROVE  shortened' = shortened /\ KeptIn(f)'
  <2>1. KeptIn(f)
    BY DEF KeptInv
  <2>2. pass.lines = <<>> => \A i \in DOMAIN file[f] : ~ Held(file[f][i].id)
    <3>1. DOMAIN <<>> = {}
      BY EmptySeq
    <3>2. QED
      BY <3>1 DEF Held, Among
  <2>3. CASE StartPass \/ FileDone \/ Save
    <3>1. /\ UNCHANGED <<file, torn, offsets, ever, cut, skipped, shortened>>
          /\ pass.lines = <<>> /\ (saved' = saved \/ (saved' = offsets /\ pass.at = "save"))
      <4>1. CASE StartPass
        <5>1. pass.at = "sleep" /\ UNCHANGED <<disk, saved, memory, history>>
          BY <4>1 DEF StartPass
        <5>2. pass.lines = <<>>
          BY <5>1, Hand
        <5>3. QED
          BY <5>1, <5>2 DEF disk, memory, history
      <4>2. CASE FileDone
        <5>1. pass.lines = <<>> /\ UNCHANGED <<disk, saved, memory, history>>
          BY <4>2 DEF FileDone
        <5>2. QED
          BY <5>1 DEF disk, memory, history
      <4>3. CASE Save
        BY <4>3, Hand DEF Save, disk, memory, history
      <4>4. QED
        BY <2>3, <4>1, <4>2, <4>3
    <3>2. pass'.at # "read"
      <4>1. CASE FileDone
        BY <4>1, NextFileIs DEF FileDone
      <4>2. CASE Save
        BY <4>2 DEF Save, Sleeping
      <4>3. CASE StartPass
        BY <4>3, SleepingAt DEF StartPass
      <4>4. QED
        BY <2>3, <4>1, <4>2, <4>3
    <3>3. QED
      BY <2>1, <2>2, <3>1, <3>2, KeptQuiet DEF Reading
  <2>4. CASE StatSkip
    <3> PICK c \in File : c = CurrentFile /\ c \in pass.todo
      BY <2>4, Hand DEF StatSkip
    <3>1. /\ pass' = NextFile /\ UNCHANGED <<file, torn, saved, ever, cut, shortened>>
          /\ pass.at = "stat" /\ skipped' = skipped \cup LinesOf(c)
          /\ offsets'[c] = Length(c) /\ \A g \in File \ {c} : offsets'[g] = offsets[g]
      BY <2>4, StatSkipFacts
    <3>2. pass'.at # "read" /\ pass.lines = <<>>
      BY <3>1, NextFileIs, Hand
    <3>3. \/ offsets'[f] = offsets[f]
          \/ offsets'[f] = Length(f) /\ LinesOf(f) \subseteq skipped'
      BY <3>1
    <3>4. QED
      BY <2>1, <2>2, <3>1, <3>2, <3>3, KeptQuiet DEF Reading
  <2>5. CASE Stat
    <3>1. shortened' = shortened
      BY <2>5 DEF Stat, history
    <3>2. QED
      BY <2>1, <2>5, <3>1, KeptStat
  <2>6. CASE Read
    <3> PICK c \in File : c = CurrentFile /\ c \in pass.todo
      BY <2>6, Hand DEF Read
    <3>1. /\ pass.at = "read" /\ pass'.at = "lines" /\ cut \subseteq cut'
          /\ UNCHANGED <<file, torn, saved, ever, skipped, shortened>>
          /\ \A g \in File \ {c} : offsets'[g] = offsets[g]
      BY <2>6, ReadFacts
    <3>2. CASE f = c
      BY <2>1, <2>6, <3>1, <3>2, KeptRead
    <3>3. CASE f # c
      <4>1. pass.lines = <<>> /\ ~ Reading(f)' /\ offsets'[f] = offsets[f] /\ saved'[f] = saved[f]
        BY <3>1, <3>3, Hand DEF Reading
      <4>2. QED
        BY <2>1, <2>2, <3>1, <4>1, KeptQuiet
    <3>4. QED
      BY <3>2, <3>3
  <2>7. CASE HandleLine
    <3>1. shortened' = shortened
      BY <2>7 DEF HandleLine
    <3>2. QED
      BY <2>1, <2>7, <3>1, KeptHandle
  <2>8. CASE Dies
    <3>1. /\ pass'.at = "down" /\ offsets' = [g \in File |-> 0]
          /\ UNCHANGED <<file, torn, ever, cut, skipped, shortened>>
          /\ saved' = saved \/ saved' = [g \in File |-> 0]
      BY <2>8, DieFacts
    <3>2. QED
      BY <2>1, <3>1, KeptQuiet DEF Reading
  <2>9. CASE Restart
    <3>1. /\ pass'.at = "sleep" /\ offsets' = saved
          /\ UNCHANGED <<file, torn, saved, ever, cut, skipped, shortened>>
      BY <2>9 DEF Restart, disk, history, Sleeping
    <3>2. QED
      BY <2>1, <3>1, KeptQuiet DEF Reading
  <2>10. QED
    BY <1>3, <2>3, <2>4, <2>5, <2>6, <2>7, <2>8, <2>9 DEF Next, Watch, Dies
<1>4. CASE ~ Write /\ vars' # vars
  <2>1. shortened' = shortened
    BY <1>4 DEF Next, Watch, StartPass, StatSkip, Stat, Read, HandleLine, FileDone, Save,
       ReadFails, Restart, Killed, KilledInSave, Die, history
  <2>2. \A f \in File \ shortened : KeptIn(f)'
    BY <1>3, <1>4
  <2>3. QED
    BY <2>1, <2>2 DEF KeptInv
<1>5. QED
  BY <1>1, <1>2, <1>4

\* No complete line of a file that was never truncated is left behind an offset, in
\* memory or in the state file, unless it was handled, cut or passed over, however
\* stats, reads, writers and deaths alternate (process_file, watcher.rs:128-171).
THEOREM NoLineLeftBehind == Spec => []NothingLeftBehind
<1>1. Init => KeptInv
  BY KeptInit
<1>2. BasicInv /\ BasicInv' /\ KeptInv /\ [Next]_vars => KeptInv'
  BY KeptStep
<1>3. BasicInv /\ KeptInv => NothingLeftBehind
  <2> SUFFICES ASSUME BasicInv, KeptInv, NEW f \in File \ shortened, NEW i \in DOMAIN file[f],
                      2 * i <= saved[f] \/ 2 * i <= offsets[f]
               PROVE  file[f][i].id \in ever \cup cut \cup skipped \cup InHand(f)
    BY DEF NothingLeftBehind
  <2>1. i \in Nat /\ saved[f] \in Nat /\ offsets[f] \in Nat
    BY LineWithin, Offsets
  <2>2. 2 * i - 1 <= saved[f] \/ 2 * i - 1 <= offsets[f]
    BY <2>1
  <2>3. Covered(file[f][i].id) \/ Held(file[f][i].id)
    BY <2>2 DEF KeptInv, KeptIn
  <2>4. Held(file[f][i].id) => file[f][i].id \in InHand(f)
    <3>1. Held(file[f][i].id) => f = CurrentFile
      BY DEF BasicInv, Numbered
    <3>2. Held(file[f][i].id) => pass.at = "lines"
      BY Hand
    <3>3. QED
      BY <3>1, <3>2 DEF InHand, Held, Among
  <2>5. QED
    BY <2>3, <2>4 DEF Covered
<1>4. QED
  BY <1>1, <1>2, <1>3, WatcherInvariant, PTL DEF Spec

-----------------------------------------------------------------------------
(* The fourth part: the order in which a file is handled.                  *)

\* Two lines of a file with one number are one line.
LEMMA SameLine ==
  ASSUME BasicInv, NEW f \in File, NEW i \in DOMAIN file[f], NEW j \in DOMAIN file[f],
         file[f][i].id = file[f][j].id
  PROVE  i = j
BY DEF BasicInv, Numbered

\* What waits to be handled is what lies within the stretch.
LEMMA StretchHeld ==
  ASSUME BasicInv, NEW f \in File, NEW a \in 1..(Len(file[f]) + 1), Stretch(f, a),
         NEW i \in DOMAIN file[f]
  PROVE  Held(file[f][i].id) <=> a <= i /\ i < a + Len(pass.lines)
<1>1. /\ Len(pass.lines) \in Nat /\ DOMAIN pass.lines = 1..Len(pass.lines)
      /\ Len(file[f]) \in Nat /\ DOMAIN file[f] = 1..Len(file[f])
      /\ a \in Nat /\ i \in Nat
  BY Hand, Lines
<1>2. /\ a + Len(pass.lines) <= Len(file[f]) + 1
      /\ \A k \in DOMAIN pass.lines : pass.lines[k] = file[f][a + k - 1]
  BY DEF Stretch
<1>3. ASSUME Held(file[f][i].id) PROVE a <= i /\ i < a + Len(pass.lines)
  <2>1. PICK k \in DOMAIN pass.lines : pass.lines[k].id = file[f][i].id
    BY <1>3 DEF Held, Among
  <2>2. k \in 1..Len(pass.lines) /\ a + k - 1 \in DOMAIN file[f]
    BY <1>1, <1>2
  <2>3. file[f][a + k - 1].id = file[f][i].id
    BY <1>2, <2>1
  <2>4. a + k - 1 = i
    BY <2>2, <2>3, SameLine
  <2>5. QED
    BY <1>1, <2>2, <2>4
<1>4. ASSUME a <= i, i < a + Len(pass.lines) PROVE Held(file[f][i].id)
  <2>1. (i - a + 1) \in DOMAIN pass.lines /\ a + (i - a + 1) - 1 = i
    BY <1>1, <1>4
  <2>2. pass.lines[i - a + 1] = file[f][i]
    BY <1>2, <2>1
  <2>3. QED
    BY <2>1, <2>2 DEF Held, Among
<1>5. QED
  BY <1>3, <1>4

LEMMA OrderInit == Init => OrderInv
<1> SUFFICES ASSUME Init, NEW f \in File PROVE Inorder(f)
  BY DEF OrderInv
<1>1. DOMAIN file[f] = {} /\ pass.at # "lines"
  BY EmptySeq DEF Init, Sleeping
<1>2. QED
  BY <1>1 DEF Inorder

\* What is appended to a file comes after all of it, and has not been handled.
LEMMA OrderWritten ==
  ASSUME BasicInv, BasicInv', OrderInv, Written
  PROVE  OrderInv'
<1> SUFFICES ASSUME NEW f \in File \ shortened' PROVE Inorder(f)'
  BY DEF OrderInv
<1>1. Grown(f) /\ Inorder(f) /\ UNCHANGED <<offsets, pass, counts>>
  BY DEF Written, OrderInv
<1>2. /\ Len(file[f]) \in Nat /\ DOMAIN file[f] = 1..Len(file[f])
      /\ Len(file'[f]) \in Nat /\ DOMAIN file'[f] = 1..Len(file'[f])
      /\ Len(file[f]) <= Len(file'[f])
      /\ \A i \in 1..Len(file[f]) : file'[f][i] = file[f][i]
  BY <1>1, Lines, LinesNext DEF Grown
<1>3. ASSUME NEW i \in DOMAIN file'[f]
      PROVE  \/ i \in DOMAIN file[f] /\ file'[f][i] = file[f][i]
             \/ Len(file[f]) < i /\ counts[file'[f][i].id] = 0
  BY <1>1, GrownLine
<1>4. ASSUME pass.at = "lines", CurrentFile = f
      PROVE  \E a \in 1..(Len(file'[f]) + 1) : Stretch(f, a)'
  <2>1. PICK a \in 1..(Len(file[f]) + 1) : Stretch(f, a)
    BY <1>1, <1>4 DEF Inorder
  <2>2. /\ a \in 1..(Len(file'[f]) + 1)
        /\ Len(pass.lines) \in Nat /\ DOMAIN pass.lines = 1..Len(pass.lines)
    BY <1>2, Hand
  <2>3. /\ a + Len(pass.lines) <= Len(file[f]) + 1
        /\ \A k \in DOMAIN pass.lines : pass.lines[k] = file[f][a + k - 1]
    BY <2>1 DEF Stretch
  <2>4. a + Len(pass.lines) <= Len(file'[f]) + 1
    BY <1>2, <2>2, <2>3
  <2>5. ASSUME NEW k \in DOMAIN pass.lines PROVE pass.lines[k] = file'[f][a + k - 1]
    <3>1. a + k - 1 \in 1..Len(file[f])
      BY <1>2, <2>2, <2>3
    <3>2. QED
      BY <1>2, <2>3, <3>1
  <2>6. ASSUME NEW i \in DOMAIN file'[f]
        PROVE  /\ i < a /\ offsets[f] <= 2 * (i - 1) => counts[file'[f][i].id] > 0
               /\ a + Len(pass.lines) <= i => ~ (counts[file'[f][i].id] > 0)
    <3>1. CASE i \in DOMAIN file[f] /\ file'[f][i] = file[f][i]
      BY <2>1, <3>1 DEF Stretch, Handled
    <3>2. CASE Len(file[f]) < i /\ counts[file'[f][i].id] = 0
      <4>1. ~ (i < a)
        BY <1>2, <2>2, <3>2
      <4>2. QED
        BY <3>2, <4>1
    <3>3. QED
      BY <1>3, <3>1, <3>2
  <2>7. QED
    BY <1>1, <2>2, <2>4, <2>5, <2>6 DEF Stretch, Handled
<1>5. ASSUME NEW i \in DOMAIN file'[f], NEW j \in DOMAIN file'[f], i < j,
             Held(file'[f][i].id) \/ offsets[f] <= 2 * (i - 1), ~ (counts[file'[f][i].id] > 0)
      PROVE  ~ (counts[file'[f][j].id] > 0)
  <2>1. CASE j \in DOMAIN file[f] /\ file'[f][j] = file[f][j]
    <3>1. i \in DOMAIN file[f] /\ file'[f][i] = file[f][i]
      BY <1>2, <1>5, <2>1
    <3>2. QED
      BY <1>1, <1>5, <2>1, <3>1 DEF Inorder, Due, Handled
  <2>2. CASE counts[file'[f][j].id] = 0
    BY <2>2
  <2>3. QED
    BY <1>3, <2>1, <2>2
<1>6. CurrentFile' = CurrentFile
  BY <1>1 DEF CurrentFile
<1>7. QED
  BY <1>1, <1>4, <1>5, <1>6 DEF Inorder, Due, Handled, Held

\* A step that leaves a file alone, and none of its lines in hand.
LEMMA OrderQuiet ==
  ASSUME BasicInv, NEW f \in File, Inorder(f), file' = file,
         ~ (pass'.at = "lines" /\ CurrentFile' = f),
         \A i \in DOMAIN file[f] : ~ Among(pass'.lines, file[f][i].id),
         \/ \A i \in DOMAIN file[f] : counts'[file[f][i].id] = 0
         \/ /\ \A i \in DOMAIN file[f] : counts'[file[f][i].id] = counts[file[f][i].id]
            /\ offsets'[f] = offsets[f] \/ offsets'[f] = Length(f)
  PROVE  Inorder(f)'
<1> SUFFICES ASSUME NEW i \in DOMAIN file[f], NEW j \in DOMAIN file[f], i < j,
                    offsets'[f] <= 2 * (i - 1), ~ (counts'[file[f][i].id] > 0)
             PROVE  ~ (counts'[file[f][j].id] > 0)
  BY DEF Inorder, Due, Handled, Held
<1>1. CASE counts'[file[f][j].id] = 0
  BY <1>1
<1>2. CASE /\ \A k \in DOMAIN file[f] : counts'[file[f][k].id] = counts[file[f][k].id]
           /\ offsets'[f] = offsets[f] \/ offsets'[f] = Length(f)
  <2>1. offsets'[f] # Length(f)
    <3>1. 2 * (i - 1) < Length(f) /\ Length(f) \in Nat /\ i \in Nat
      BY LineWithin
    <3>2. QED
      BY <3>1
  <2>2. Due(f, i) /\ ~ Handled(f, i)
    BY <1>2, <2>1 DEF Due, Handled
  <2>3. ~ Handled(f, j)
    BY <2>2 DEF Inorder
  <2>4. QED
    BY <1>2, <2>3 DEF Handled
<1>3. QED
  BY <1>1, <1>2

\* A read takes a stretch in hand.
LEMMA OrderRead ==
  ASSUME BasicInv, NEW f \in File, KeptIn(f), Inorder(f), f = CurrentFile, Read
  PROVE  Inorder(f)'
<1> DEFINE a == FirstFrom(pass.from)
           n == Len(pass'.lines)
<1>1. /\ pass.at = "read" /\ pass'.lines = WholeLines(f, pass.from)
      /\ offsets'[f] = pass.len
      /\ UNCHANGED <<file, torn, counts>>
  BY ReadFacts
<1>2. /\ pass.from \in Nat /\ pass.len \in Nat
      /\ pass.from = offsets[f] /\ pass.from <= pass.len /\ pass.len <= Length(f)
  BY <1>1, Hand DEF KeptIn, Reading
<1>3. /\ a \in Nat /\ a >= 1
      /\ pass.from <= 2 * (a - 1) /\ 2 * (a - 1) <= pass.from + 1
  BY <1>2, FirstFromIs
<1>4. /\ n \in Nat /\ DOMAIN pass'.lines = 1..n
      /\ n = IF a <= LastWhole(f) THEN LastWhole(f) - a + 1 ELSE 0
      /\ \A k \in 1..n : pass'.lines[k] = file[f][a + k - 1]
  BY <1>1, <1>2, WholeLinesAre
<1> HIDE DEF a, n
<1>5. /\ Len(file[f]) \in Nat /\ DOMAIN file[f] = 1..Len(file[f])
      /\ Length(f) \in Nat /\ Length(f) <= 2 * Len(file[f])
      /\ LastWhole(f) = IF f \in torn THEN Len(file[f]) - 1 ELSE Len(file[f])
  BY Lines DEF LastWhole
<1>6. a \in 1..(Len(file[f]) + 1) /\ a + n <= Len(file[f]) + 1
  <2>1. LastWhole(f) \in Int /\ LastWhole(f) <= Len(file[f]) /\ n \in Nat /\ a \in Nat
    BY <1>3, <1>4, <1>5
  <2>2. 2 * (a - 1) <= 2 * Len(file[f]) + 1
    BY <1>2, <1>3, <1>5
  <2>3. a <= Len(file[f]) + 1
    BY <2>1, <2>2, <1>5
  <2>4. a + n <= Len(file[f]) + 1
    <3>1. CASE a <= LastWhole(f)
      BY <2>1, <3>1, <1>4, <1>5
    <3>2. CASE ~ a <= LastWhole(f)
      BY <2>1, <2>3, <3>2, <1>4, <1>5
    <3>3. QED
      BY <3>1, <3>2
  <2>5. QED
    BY <1>3, <1>5, <2>3, <2>4
<1>7. ASSUME NEW i \in DOMAIN file[f], a + n <= i PROVE counts[file[f][i].id] = 0
  <2>1. f \in torn /\ i = Len(file[f])
    <3>1. i \in 1..Len(file[f]) /\ LastWhole(f) \in Int
      BY <1>5
    <3>2. i > LastWhole(f)
      <4>1. CASE a <= LastWhole(f)
        BY <1>3, <1>4, <1>7, <3>1, <4>1
      <4>2. CASE ~ (a <= LastWhole(f))
        BY <1>3, <1>4, <1>7, <3>1, <4>2
      <4>3. QED
        BY <4>1, <4>2
    <3>3. QED
      BY <1>5, <3>1, <3>2
  <2>2. QED
    BY <2>1 DEF BasicInv, Numbered
<1>8. ASSUME NEW i \in DOMAIN file[f], i < a PROVE ~ (pass.len <= 2 * (i - 1))
  BY <1>2, <1>3, <1>5, <1>8
<1>9. \E b \in 1..(Len(file[f]) + 1) :
        /\ b + Len(pass'.lines) <= Len(file[f]) + 1
        /\ \A k \in DOMAIN pass'.lines : pass'.lines[k] = file[f][b + k - 1]
        /\ \A i \in DOMAIN file[f] :
             /\ i < b /\ pass.len <= 2 * (i - 1) => counts[file[f][i].id] > 0
             /\ b + Len(pass'.lines) <= i => ~ (counts[file[f][i].id] > 0)
  <2>1. \A i \in DOMAIN file[f] :
          /\ i < a /\ pass.len <= 2 * (i - 1) => counts[file[f][i].id] > 0
          /\ a + Len(pass'.lines) <= i => ~ (counts[file[f][i].id] > 0)
    BY <1>7, <1>8 DEF n
  <2>2. /\ a + Len(pass'.lines) <= Len(file[f]) + 1
        /\ \A k \in DOMAIN pass'.lines : pass'.lines[k] = file[f][a + k - 1]
    BY <1>4, <1>6 DEF n
  <2>3. QED
    BY <1>6, <2>1, <2>2
<1>10. ASSUME NEW i \in DOMAIN file[f], NEW j \in DOMAIN file[f], i < j,
              Among(pass'.lines, file[f][i].id) \/ pass.len <= 2 * (i - 1), ~ Handled(f, i)
       PROVE  ~ Handled(f, j)
  <2>1. CASE Among(pass'.lines, file[f][i].id)
    <3>1. PICK k \in 1..n : pass'.lines[k].id = file[f][i].id
      BY <1>4, <2>1 DEF Among
    <3>2. a + k - 1 \in DOMAIN file[f]
      BY <1>3, <1>4, <1>5, <1>6
    <3>3. a + k - 1 = i
      BY <1>4, <3>1, <3>2, SameLine
    <3>4. pass.from <= 2 * (i - 1)
      BY <1>2, <1>3, <3>3
    <3>5. QED
      BY <1>2, <1>10, <3>4 DEF Inorder, Due
  <2>2. CASE pass.len <= 2 * (i - 1)
    <3>1. offsets[f] <= 2 * (i - 1)
      BY <1>2, <1>5, <2>2
    <3>2. QED
      BY <1>10, <3>1 DEF Inorder, Due
  <2>3. QED
    BY <1>10, <2>1, <2>2
<1>11. QED
  BY <1>1, <1>9, <1>10 DEF Inorder, Stretch, Due, Handled, Held

\* Handling a line of a stretch is handling its first.
LEMMA HandleStretch ==
  ASSUME BasicInv, NEW f \in File, f = CurrentFile, NEW a \in 1..(Len(file[f]) + 1),
         Stretch(f, a), HandleLine
  PROVE  /\ a \in DOMAIN file[f] /\ Head(pass.lines) = file[f][a]
         /\ Len(pass'.lines) = Len(pass.lines) - 1 /\ Len(pass.lines) >= 1
         /\ counts'[file[f][a].id] = counts[file[f][a].id] + 1
         /\ \A i \in DOMAIN file[f] \ {a} : /\ file[f][i].id # file[f][a].id
                                            /\ counts'[file[f][i].id] = counts[file[f][i].id]
                                            /\ reported'[file[f][i].id] = reported[file[f][i].id]
<1> PICK l : l = Head(pass.lines)
  OBVIOUS
<1>1. /\ pass.lines # <<>> /\ pass'.lines = Tail(pass.lines)
      /\ counts'[l.id] = counts[l.id] + 1
      /\ \A m \in LineId \ {l.id} : counts'[m] = counts[m] /\ reported'[m] = reported[m]
  BY HandleFacts
<1>2. /\ l = pass.lines[1] /\ 1 \in DOMAIN pass.lines
      /\ Len(Tail(pass.lines)) = Len(pass.lines) - 1 /\ Len(pass.lines) >= 1
  BY <1>1, NextLine
<1>3. a \in Nat /\ Len(file[f]) \in Nat /\ Len(pass.lines) \in Nat
  BY Hand, Lines
<1>4. a \in DOMAIN file[f] /\ l = file[f][a]
  <2>1. a + Len(pass.lines) <= Len(file[f]) + 1 /\ pass.lines[1] = file[f][a + 1 - 1]
    BY <1>2 DEF Stretch
  <2>2. a <= Len(file[f]) /\ a + 1 - 1 = a
    BY <1>2, <1>3, <2>1
  <2>3. QED
    BY <1>2, <2>1, <2>2, Lines
<1>5. ASSUME NEW i \in DOMAIN file[f] \ {a}
      PROVE  file[f][i].id # l.id /\ file[f][i].id \in LineId
  <2>1. file[f][i].id # file[f][a].id
    BY <1>4, SameLine
  <2>2. QED
    BY <1>4, <2>1, Lines
<1>6. QED
  BY <1>1, <1>2, <1>4, <1>5

LEMMA OrderHandle ==
  ASSUME BasicInv, NEW f \in File, Inorder(f), f = CurrentFile, HandleLine
  PROVE  Inorder(f)'
<1>1. /\ pass.at = "lines" /\ pass'.at = "lines" /\ CurrentFile' = f
      /\ pass'.lines = Tail(pass.lines) /\ pass.lines # <<>>
      /\ UNCHANGED <<file, offsets>>
  <2> PICK l : l = Head(pass.lines)
    OBVIOUS
  <2>1. QED
    BY HandleFacts
<1>2. PICK a \in 1..(Len(file[f]) + 1) : Stretch(f, a)
  BY <1>1 DEF Inorder
<1> DEFINE n == Len(pass.lines)
<1>3. /\ a \in DOMAIN file[f] /\ Len(pass'.lines) = n - 1 /\ n >= 1
      /\ counts'[file[f][a].id] = counts[file[f][a].id] + 1
      /\ \A i \in DOMAIN file[f] \ {a} : counts'[file[f][i].id] = counts[file[f][i].id]
  BY <1>2, HandleStretch
<1>4. /\ n \in Nat /\ Len(file[f]) \in Nat /\ DOMAIN file[f] = 1..Len(file[f]) /\ a \in Nat
      /\ DOMAIN pass.lines = 1..n
      /\ \A i \in DOMAIN file[f] : counts[file[f][i].id] \in Nat
  <2>1. n \in Nat /\ DOMAIN pass.lines = 1..n
    BY Hand
  <2>2. /\ Len(file[f]) \in Nat /\ DOMAIN file[f] = 1..Len(file[f]) /\ a \in Nat
        /\ \A i \in DOMAIN file[f] : counts[file[f][i].id] \in Nat
    BY Lines
  <2>3. QED
    BY <2>1, <2>2
<1>5. /\ DOMAIN pass'.lines = 1..(n - 1)
      /\ \A k \in 1..(n - 1) : pass'.lines[k] = pass.lines[k + 1]
      /\ \A m : Among(pass'.lines, m) => Held(m)
  BY <1>1, NextLine
<1> HIDE DEF n
<1>6. /\ a + n <= Len(file[f]) + 1
      /\ \A k \in 1..n : pass.lines[k] = file[f][a + k - 1]
      /\ \A i \in DOMAIN file[f] : /\ i < a /\ offsets[f] <= 2 * (i - 1) => Handled(f, i)
                                   /\ a + n <= i => ~ Handled(f, i)
  BY <1>2, <1>4 DEF Stretch, n
<1>7. \E b \in 1..(Len(file[f]) + 1) :
        /\ b + Len(pass'.lines) <= Len(file[f]) + 1
        /\ \A k \in DOMAIN pass'.lines : pass'.lines[k] = file[f][b + k - 1]
        /\ \A i \in DOMAIN file[f] :
             /\ i < b /\ offsets[f] <= 2 * (i - 1) => counts'[file[f][i].id] > 0
             /\ b + Len(pass'.lines) <= i => ~ (counts'[file[f][i].id] > 0)
  <2>1. a + 1 \in 1..(Len(file[f]) + 1) /\ a + 1 + (n - 1) = a + n
    BY <1>3, <1>4
  <2>2. \A k \in 1..(n - 1) : pass'.lines[k] = file[f][a + 1 + k - 1]
    <3> SUFFICES ASSUME NEW k \in 1..(n - 1) PROVE pass'.lines[k] = file[f][a + 1 + k - 1]
      OBVIOUS
    <3>1. k + 1 \in 1..n /\ a + (k + 1) - 1 = a + 1 + k - 1
      BY <1>4
    <3>2. pass.lines[k + 1] = file[f][a + (k + 1) - 1]
      BY <1>6, <3>1
    <3>3. QED
      BY <1>5, <3>1, <3>2
  <2>3. ASSUME NEW i \in DOMAIN file[f]
        PROVE  /\ i < a + 1 /\ offsets[f] <= 2 * (i - 1) => counts'[file[f][i].id] > 0
               /\ a + n <= i => ~ (counts'[file[f][i].id] > 0)
    <3>1. CASE i = a
      <4>1. ~ (a + n <= a)
        BY <1>3, <1>4
      <4>2. counts'[file[f][a].id] > 0
        BY <1>3, <1>4
      <4>3. QED
        BY <3>1, <4>1, <4>2
    <3>2. CASE i # a
      <4>1. i < a + 1 => i < a
        BY <1>4, <3>2
      <4>2. QED
        BY <1>3, <1>6, <3>2, <4>1 DEF Handled
    <3>3. QED
      BY <3>1, <3>2
  <2>4. a + 1 + Len(pass'.lines) = a + n
    BY <1>3, <1>4
  <2>5. QED
    BY <1>5, <1>6, <2>1, <2>2, <2>3, <2>4
<1>8. ASSUME NEW i \in DOMAIN file[f], NEW j \in DOMAIN file[f], i < j,
             Among(pass'.lines, file[f][i].id) \/ offsets[f] <= 2 * (i - 1),
             ~ (counts'[file[f][i].id] > 0)
      PROVE  ~ (counts'[file[f][j].id] > 0)
  <2>1. i # a /\ Due(f, i) /\ ~ Handled(f, i)
    <3>1. i # a
      BY <1>3, <1>4, <1>8
    <3>2. QED
      BY <1>3, <1>5, <1>8, <3>1 DEF Due, Handled
  <2>2. ~ Handled(f, j)
    BY <1>8, <2>1 DEF Inorder
  <2>3. j # a
    <3> SUFFICES ASSUME j = a PROVE FALSE
      OBVIOUS
    <3>1. i < a /\ ~ (a <= i)
      BY <1>4, <1>8
    <3>2. ~ Held(file[f][i].id)
      BY <1>2, <3>1, StretchHeld
    <3>3. QED
      BY <1>6, <2>1, <3>1, <3>2 DEF Due
  <2>4. QED
    BY <1>3, <2>2, <2>3 DEF Handled
<1>9. QED
  BY <1>1, <1>7, <1>8 DEF Inorder, Stretch, Due, Handled, Held

\* A step after which the pass has nothing in hand.
LEMMA OrderEmpty ==
  ASSUME BasicInv, BasicInv', NEW f \in File, Inorder(f), file' = file, pass'.at # "lines",
         \/ counts' = [l \in LineId |-> 0]
         \/ counts' = counts /\ (offsets'[f] = offsets[f] \/ offsets'[f] = Length(f))
  PROVE  Inorder(f)'
<1>1. \A i \in DOMAIN file[f] : ~ Among(pass'.lines, file[f][i].id)
  <2>1. pass'.lines = <<>> /\ DOMAIN <<>> = {}
    BY EmptySeq DEF BasicInv, PassOK
  <2>2. QED
    BY <2>1 DEF Among
<1>2. CASE counts' = [l \in LineId |-> 0]
  <2>1. \A i \in DOMAIN file[f] : counts'[file[f][i].id] = 0
    BY <1>2, Lines
  <2>2. QED
    BY <1>1, <2>1, OrderQuiet
<1>3. CASE counts' = counts /\ (offsets'[f] = offsets[f] \/ offsets'[f] = Length(f))
  BY <1>1, <1>3, OrderQuiet
<1>4. QED
  BY <1>2, <1>3

\* A step on another file.
LEMMA OrderElsewhere ==
  ASSUME BasicInv, BasicInv', NEW f \in File, Inorder(f), NEW c \in File, c # f, c = CurrentFile',
         file' = file, offsets'[f] = offsets[f],
         \A i \in DOMAIN file[f] : counts'[file[f][i].id] = counts[file[f][i].id]
  PROVE  Inorder(f)'
<1>1. ASSUME NEW i \in DOMAIN file[f] PROVE ~ Among(pass'.lines, file[f][i].id)
  <2>1. Among(pass'.lines, file'[f][i].id) => f = CurrentFile'
    BY DEF BasicInv, Numbered, Held
  <2>2. QED
    BY <2>1
<1>2. QED
  BY <1>1, OrderQuiet

\* The fourth part is inductive.
LEMMA OrderStep ==
  ASSUME BasicInv, BasicInv', KeptInv, OrderInv, [Next]_vars
  PROVE  OrderInv'
<1>1. CASE UNCHANGED vars
  BY <1>1 DEF vars, disk, memory, history, OrderInv, Inorder, Stretch, Due, Handled, Held,
     CurrentFile
<1>2. CASE Write
  BY <1>2, WriteIs, OrderWritten
<1>3. ASSUME NEW f \in File \ shortened, Watch \/ Killed \/ KilledInSave
      PROVE  shortened' = shortened /\ Inorder(f)'
  <2>1. Inorder(f) /\ KeptIn(f)
    BY DEF OrderInv, KeptInv
  <2>2. CASE StartPass \/ FileDone \/ Save
    <3>1. UNCHANGED <<disk, memory, history>>
      BY <2>2 DEF StartPass, FileDone, Save
    <3>2. file' = file /\ offsets' = offsets /\ counts' = counts /\ shortened' = shortened
      BY <3>1 DEF disk, memory, history
    <3>3. pass'.at # "lines"
      <4>1. CASE FileDone
        BY <4>1, NextFileIs DEF FileDone
      <4>2. CASE Save
        BY <4>2 DEF Save, Sleeping
      <4>3. CASE StartPass
        BY <4>3, SleepingAt DEF StartPass
      <4>4. QED
        BY <2>2, <4>1, <4>2, <4>3
    <3>4. QED
      BY <2>1, <3>2, <3>3, OrderEmpty
  <2>3. CASE StatSkip
    <3> PICK c \in File : c = CurrentFile
      BY <2>3, Hand DEF StatSkip
    <3>1. /\ pass' = NextFile /\ file' = file /\ counts' = counts /\ shortened' = shortened
          /\ offsets'[c] = Length(c) /\ \A g \in File \ {c} : offsets'[g] = offsets[g]
      BY <2>3, StatSkipFacts
    <3>2. pass'.at # "lines" /\ (offsets'[f] = offsets[f] \/ offsets'[f] = Length(f))
      BY <3>1, NextFileIs
    <3>3. QED
      BY <2>1, <3>1, <3>2, OrderEmpty
  <2>4. CASE Stat
    <3> PICK c \in File : c = CurrentFile
      BY <2>4, Hand DEF Stat
    <3>1. /\ pass'.at = "read" \/ pass' = NextFile
          /\ file' = file /\ offsets' = offsets /\ counts' = counts /\ shortened' = shortened
      BY <2>4, StatFacts
    <3>2. pass'.at # "lines"
      BY <3>1, NextFileIs
    <3>3. QED
      BY <2>1, <3>1, <3>2, OrderEmpty
  <2>5. CASE Read
    <3> PICK c \in File : c = CurrentFile
      BY <2>5, Hand DEF Read
    <3>1. /\ CurrentFile' = c /\ file' = file /\ counts' = counts /\ shortened' = shortened
          /\ \A g \in File \ {c} : offsets'[g] = offsets[g]
      BY <2>5, ReadFacts
    <3>2. CASE f = c
      BY <2>1, <2>5, <3>1, <3>2, OrderRead
    <3>3. CASE f # c
      BY <2>1, <3>1, <3>3, OrderElsewhere
    <3>4. QED
      BY <3>1, <3>2, <3>3
  <2>6. CASE HandleLine
    <3> PICK c \in File : c = CurrentFile
      BY <2>6, Hand DEF HandleLine
    <3> PICK l : l = Head(pass.lines)
      OBVIOUS
    <3>1. /\ CurrentFile' = c /\ file' = file /\ offsets' = offsets /\ shortened' = shortened
          /\ pass.lines # <<>>
          /\ \A m \in LineId \ {l.id} : counts'[m] = counts[m]
      BY <2>6, HandleFacts
    <3>2. CASE f = c
      BY <2>1, <2>6, <3>1, <3>2, OrderHandle
    <3>3. CASE f # c
      <4>1. Held(l.id)
        BY <3>1, NextLine
      <4>2. \A i \in DOMAIN file[f] : file[f][i].id \in LineId \ {l.id}
        BY <3>3, <4>1, Lines DEF BasicInv, Numbered
      <4>3. QED
        BY <2>1, <3>1, <3>3, <4>2, OrderElsewhere
    <3>4. QED
      BY <3>1, <3>2, <3>3
  <2>7. CASE Dies
    <3>1. /\ pass'.at = "down" /\ file' = file /\ shortened' = shortened
          /\ counts' = [l \in LineId |-> 0]
      BY <2>7, DieFacts
    <3>2. QED
      BY <2>1, <3>1, OrderEmpty
  <2>8. CASE Restart
    <3>1. /\ pass.at = "down" /\ pass'.at = "sleep" /\ file' = file /\ shortened' = shortened
          /\ counts' = counts
      BY <2>8 DEF Restart, disk, history, Sleeping
    <3>2. counts = [l \in LineId |-> 0]
      BY <3>1 DEF BasicInv, PassOK, WatcherTypeOK
    <3>3. QED
      BY <2>1, <3>1, <3>2, OrderEmpty
  <2>9. QED
    BY <1>3, <2>2, <2>3, <2>4, <2>5, <2>6, <2>7, <2>8 DEF Watch, Dies
<1>4. CASE Watch \/ Killed \/ KilledInSave
  <2>1. shortened' = shortened
    BY <1>4 DEF Watch, StartPass, StatSkip, Stat, Read, HandleLine, FileDone, Save,
       ReadFails, Restart, Killed, KilledInSave, Die, history
  <2>2. \A f \in File \ shortened : Inorder(f)'
    BY <1>3, <1>4
  <2>3. QED
    BY <2>1, <2>2 DEF OrderInv
<1>5. QED
  BY <1>1, <1>2, <1>4 DEF Next

\* Only the handling of a line raises a count, and that line was in hand.
LEMMA CountRaised ==
  ASSUME BasicInv, BasicInv', [Next]_vars, NEW m \in LineId, counts[m] = 0, counts'[m] > 0
  PROVE  Held(m)
<1>1. CASE counts' = counts
  BY <1>1
<1>2. CASE counts' = [l \in LineId |-> 0]
  BY <1>2
<1>3. CASE HandleLine
  <2> PICK c \in File : c = CurrentFile
    BY <1>3, Hand DEF HandleLine
  <2> PICK l : l = Head(pass.lines)
    OBVIOUS
  <2>1. pass.lines # <<>> /\ \A k \in LineId \ {l.id} : counts'[k] = counts[k]
    BY <1>3, HandleFacts
  <2>2. m = l.id
    BY <2>1
  <2>3. QED
    BY <2>1, <2>2, NextLine
<1>4. Write => counts' = counts
  BY WriteIs DEF Written
<1>5. Dies => counts' = [l \in LineId |-> 0]
  BY DieFacts
<1>6. StartPass \/ StatSkip \/ Stat \/ Read \/ FileDone \/ Save \/ Restart => counts' = counts
  BY DEF StartPass, StatSkip, Stat, Read, FileDone, Save, Restart, history
<1>7. UNCHANGED vars => counts' = counts
  BY DEF vars, history
<1>8. QED
  BY <1>1, <1>2, <1>3, <1>4, <1>5, <1>6, <1>7 DEF Next, Watch, Dies

\* In every life the lines of a file that was never truncated are handled for the
\* first time in the order they were written, though its tail may be handled again
\* and offsets move while the lines are in hand (process_file, watcher.rs:128-171).
THEOREM FirstHandledInOrder == Spec => FirstInOrder
<1>1. Init => BasicInv /\ KeptInv /\ OrderInv
  BY BasicInit, KeptInit, OrderInit
<1>2. BasicInv /\ KeptInv /\ OrderInv /\ [Next]_vars => (BasicInv /\ KeptInv /\ OrderInv)'
  BY BasicStep, KeptStep, OrderStep
<1>3. ASSUME BasicInv, BasicInv', OrderInv, [Next]_vars
      PROVE  [\A f \in File \ shortened : \A i, j \in DOMAIN file[f] :
                i < j /\ counts[file[f][i].id] = 0 /\ counts'[file[f][i].id] > 0
                  => counts[file[f][j].id] = 0]_vars
  <2> SUFFICES ASSUME NEW f \in File \ shortened,
                      NEW i \in DOMAIN file[f], NEW j \in DOMAIN file[f], i < j,
                      counts[file[f][i].id] = 0, counts'[file[f][i].id] > 0
               PROVE  counts[file[f][j].id] = 0
    OBVIOUS
  <2>1. Held(file[f][i].id)
    BY <1>3, CountRaised, Lines
  <2>2. Due(f, i) /\ ~ Handled(f, i)
    BY <2>1 DEF Due, Handled
  <2>3. ~ Handled(f, j)
    BY <1>3, <2>2 DEF OrderInv, Inorder
  <2>4. counts[file[f][j].id] \in Nat
    BY <1>3, Lines
  <2>5. QED
    BY <2>3, <2>4 DEF Handled
<1>4. QED
  BY <1>1, <1>2, <1>3, PTL DEF Spec, FirstInOrder

-----------------------------------------------------------------------------
(* The fifth part: the calls.                                              *)

LEMMA CallsInit == Init => CallsInv
<1> SUFFICES ASSUME Init PROVE CallsInv
  OBVIOUS
<1>1. \A f \in File : DOMAIN file[f] = {} /\ open[f] = {}
  BY EmptySeq DEF Init
<1>2. UsedOnce
  BY <1>1 DEF UsedOnce
<1>3. \A f \in File : CallsIn(f)
  BY <1>1 DEF CallsIn, Begun, Balanced, StillOpen, Told
<1>4. QED
  BY <1>2, <1>3 DEF CallsInv

\* A line that a writer adds to a file begins no call that was ever begun.
LEMMA NewCall ==
  ASSUME BasicInv, BasicInv', Write, NEW f \in File, NEW i \in DOMAIN file'[f]
  PROVE  \/ i \in DOMAIN file[f] /\ file'[f][i] = file[f][i]
         \/ /\ file'[f][i].id = nextLine
            /\ file'[f][i].act = "use" =>
                 \A g \in File : \A j \in DOMAIN file[g] : file[g][j].tool # file'[f][i].tool
<1>1. ASSUME NEW c \in File, NEW act \in {"use", "result", "end"},
             NEW tool \in Tool \cup {"none"}, NEW tear \in Tear \cup {"none"},
             WriteLine(c, act, tool, tear), f = c
      PROVE  \/ i \in DOMAIN file[f] /\ file'[f][i] = file[f][i]
             \/ /\ file'[f][i].id = nextLine
                /\ file'[f][i].act = "use" =>
                     \A g \in File : \A j \in DOMAIN file[g] : file[g][j].tool # file'[f][i].tool
  <2> DEFINE n == Len(file[f]) + 1
  <2>1. /\ DOMAIN file'[f] = 1..n /\ MayWrite(f, act, tool)
        /\ \A k \in 1..Len(file[f]) : file'[f][k] = file[f][k]
        /\ file'[f][n].id = nextLine /\ file'[f][n].act = act /\ file'[f][n].tool = tool
    <3>1. WriteLine(f, act, tool, tear)
      BY <1>1
    <3>2. act \in {"use", "result", "end"} /\ tool \in Tool \cup {"none"} /\ tear \in Tear \cup {"none"}
      BY <1>1
    <3>3. /\ DOMAIN file'[f] = 1..(Len(file[f]) + 1) /\ MayWrite(f, act, tool)
          /\ \A k \in 1..Len(file[f]) : file'[f][k] = file[f][k]
      BY <3>1, <3>2, WriteFacts, SMTT(30)
    <3>4. LET l == file'[f][Len(file[f]) + 1]
          IN  l.id = nextLine /\ l.act = act /\ l.tool = tool
      BY <3>1, <3>2, WriteFacts, ZenonT(30)
    <3>5. QED
      BY <3>3, <3>4
  <2>2. Len(file[f]) \in Nat /\ DOMAIN file[f] = 1..Len(file[f])
    BY Lines
  <2>3. i \in 1..Len(file[f]) \/ i = n
    BY <2>1, <2>2
  <2>4. act = "use" => \A g \in File : \A j \in DOMAIN file[g] : file[g][j].tool # tool
    BY <2>1 DEF MayWrite
  <2> HIDE DEF n
  <2>5. QED
    BY <2>1, <2>2, <2>3, <2>4
<1>2. ASSUME file'[f] = file[f]
      PROVE  i \in DOMAIN file[f] /\ file'[f][i] = file[f][i]
  BY <1>2
<1>3. ASSUME NEW c \in File, NEW act \in {"use", "result", "end"},
             NEW tool \in Tool \cup {"none"}, NEW tear \in Tear \cup {"none"},
             WriteLine(c, act, tool, tear), f # c
      PROVE  file'[f] = file[f]
  BY <1>3, WriteFacts
<1>4. ASSUME NEW c \in File, CompleteLine(c) PROVE file'[f] = file[f]
  BY <1>4 DEF CompleteLine
<1>5. ASSUME NEW c \in File, Truncate(c) PROVE file'[f] = file[f]
  <2>1. DOMAIN file'[c] = {} /\ \A g \in File \ {c} : file'[g] = file[g]
    BY <1>5, TruncateFacts
  <2>2. QED
    BY <2>1
<1>6. QED
  BY <1>1, <1>2, <1>3, <1>4, <1>5 DEF Write

LEMMA CallsWritten ==
  ASSUME BasicInv, BasicInv', CallsInv, Write, Written
  PROVE  CallsInv'
<1>1. ASSUME NEW f \in File, NEW g \in File, NEW i \in DOMAIN file'[f], NEW j \in DOMAIN file'[g],
             file'[f][i].act = "use", file'[g][j].act = "use",
             file'[f][i].tool = file'[g][j].tool
      PROVE  f = g /\ i = j
  <2> DEFINE old(h, k) == k \in DOMAIN file[h] /\ file'[h][k] = file[h][k]
  <2>1. /\ old(f, i) \/ file'[f][i].id = nextLine
        /\ old(g, j) \/ file'[g][j].id = nextLine
    BY NewCall
  <2>2. CASE old(f, i) /\ old(g, j)
    BY <1>1, <2>2 DEF CallsInv, UsedOnce
  <2>3. CASE old(f, i) /\ ~ old(g, j)
    BY <1>1, <2>3, NewCall
  <2>4. CASE ~ old(f, i) /\ old(g, j)
    BY <1>1, <2>4, NewCall
  <2>5. CASE file'[f][i].id = nextLine /\ file'[g][j].id = nextLine
    BY <2>5 DEF BasicInv, Numbered
  <2>6. QED
    BY <2>1, <2>2, <2>3, <2>4, <2>5
<1>2. ASSUME NEW f \in File \ shortened' PROVE CallsIn(f)'
  <2>1. /\ Grown(f) /\ CallsIn(f)
        /\ UNCHANGED <<open, pass, counts, reported>>
    BY DEF Written, CallsInv
  <2>2. /\ DOMAIN file[f] = 1..Len(file[f]) /\ DOMAIN file'[f] = 1..Len(file'[f])
        /\ Len(file[f]) \in Nat /\ Len(file'[f]) \in Nat /\ Len(file[f]) <= Len(file'[f])
        /\ \A i \in 1..Len(file[f]) : file'[f][i] = file[f][i]
    BY <2>1, Lines, LinesNext DEF Grown
  <2>3. \A i \in DOMAIN file[f] : i \in DOMAIN file'[f] /\ file'[f][i] = file[f][i]
    BY <2>2
  <2> DEFINE old(i) == i \in DOMAIN file[f] /\ file'[f][i] = file[f][i]
             count(i) == counts[file'[f][i].id]
  <2>4. ASSUME NEW i \in DOMAIN file'[f]
        PROVE  \/ old(i)
               \/ ~ old(i) /\ count(i) = 0 /\ reported[file'[f][i].id] = 0
    <3>1. CASE i \in DOMAIN file[f]
      BY <2>3, <3>1
    <3>2. CASE ~ (i \in DOMAIN file[f])
      <4>1. /\ file'[f][i].id = nextLine
            /\ counts[nextLine] = 0 /\ reported[nextLine] = 0
        BY <2>1, <3>2, GrownLine
      <4>2. QED
        BY <3>2, <4>1
    <3>3. QED
      BY <3>1, <3>2
  <2>5. Begun(f)'
    <3> SUFFICES ASSUME NEW tool \in open[f]
                 PROVE  \E i \in DOMAIN file'[f] : /\ file'[f][i].act = "use"
                                                   /\ file'[f][i].tool = tool /\ count(i) > 0
      BY <2>1 DEF Begun, Handled
    <3>1. PICK i \in DOMAIN file[f] :
            file[f][i].act = "use" /\ file[f][i].tool = tool /\ Handled(f, i)
      BY <2>1 DEF CallsIn, Begun
    <3>2. QED
      BY <2>3, <3>1 DEF Handled
  <2>6. Balanced(f)'
    <3> SUFFICES ASSUME NEW i \in DOMAIN file'[f], NEW j \in DOMAIN file'[f], Answers(f, i, j)'
                 PROVE  reported[file'[f][j].id] + (IF file'[f][i].tool \in open[f] THEN 1 ELSE 0)
                          <= count(i)
      BY <2>1 DEF Balanced
    <3>1. /\ file'[f][i].act = "use" /\ file'[f][j].act = "result"
          /\ file'[f][i].tool = file'[f][j].tool
      BY DEF Answers
    <3>2. count(i) \in Nat
      BY <2>1, <2>2, LinesNext
    <3>3. CASE old(i) /\ old(j)
      BY <2>1, <3>1, <3>3 DEF CallsIn, Balanced, Answers
    <3>4. CASE old(i) /\ reported[file'[f][j].id] = 0
      <4>1. ASSUME file'[f][i].tool \in open[f] PROVE count(i) > 0
        <5>1. PICK k \in DOMAIN file[f] :
                file[f][k].act = "use" /\ file[f][k].tool = file'[f][i].tool /\ Handled(f, k)
          BY <2>1, <4>1 DEF CallsIn, Begun
        <5>2. k = i
          BY <3>1, <3>4, <5>1 DEF CallsInv, UsedOnce
        <5>3. QED
          BY <3>4, <5>1, <5>2 DEF Handled
      <4>2. QED
        BY <3>2, <3>4, <4>1
    <3>5. CASE ~ old(i)
      <4>1. \A k \in DOMAIN file[f] : file[f][k].tool # file'[f][i].tool
        BY <3>1, <3>5, NewCall
      <4>2. ~ old(j)
        BY <3>1, <4>1
      <4>3. file'[f][i].id = nextLine /\ file'[f][j].id = nextLine
        BY <3>5, <4>2, NewCall
      <4>4. i = j
        BY <4>3 DEF BasicInv, Numbered
      <4>5. QED
        BY <3>1, <4>4
    <3>6. QED
      BY <2>4, <3>3, <3>4, <3>5
  <2>7. StillOpen(f)'
    <3> SUFFICES ASSUME NEW i \in DOMAIN file'[f], file'[f][i].act = "use", count(i) > 0,
                        ~ Held(file'[f][i].id),
                        \A k \in DOMAIN file'[f] : i < k /\ Ends(f, i, k)' => ~ (count(k) > 0)
                 PROVE  file'[f][i].tool \in open[f]
      BY <2>1 DEF StillOpen, Handled, Held
    <3>1. old(i)
      BY <2>4
    <3>2. \A k \in DOMAIN file[f] : i < k /\ Ends(f, i, k) => ~ Handled(f, k)
      BY <2>3, <3>1 DEF Ends, Answers, Handled
    <3>3. QED
      BY <2>1, <3>1, <3>2 DEF CallsIn, StillOpen, Handled
  <2>8. Told(f)'
    <3> SUFFICES ASSUME NEW i \in DOMAIN file'[f], NEW j \in DOMAIN file'[f], Pairs(f, i, j)',
                        count(i) > 0, count(j) > 0
                 PROVE  reported[file'[f][j].id] > 0
      BY <2>1 DEF Told, Handled
    <3>1. old(i) /\ old(j)
      BY <2>4
    <3>2. \A k \in (i + 1)..(j - 1) : k \in DOMAIN file[f] /\ file'[f][k] = file[f][k]
      BY <2>2, <3>1
    <3>3. Pairs(f, i, j)
      BY <3>1, <3>2 DEF Pairs
    <3>4. QED
      BY <2>1, <3>1, <3>3 DEF CallsIn, Told, Handled
  <2>9. QED
    BY <2>5, <2>6, <2>7, <2>8 DEF CallsIn
<1>3. QED
  BY <1>1, <1>2 DEF CallsInv, UsedOnce

\* A step that leaves the files and the calls alone, and no line in hand before it.
LEMMA CallsQuiet ==
  ASSUME BasicInv, CallsInv, UNCHANGED <<file, open, counts, reported, shortened>>,
         pass.lines = <<>>
  PROVE  CallsInv'
<1>1. \A l : ~ Held(l)
  BY EmptySeq DEF Held, Among
<1>2. ASSUME NEW f \in File \ shortened PROVE CallsIn(f)'
  <2>1. CallsIn(f)
    BY DEF CallsInv
  <2>2. Begun(f)' /\ Balanced(f)' /\ Told(f)'
    BY <2>1 DEF CallsIn, Begun, Balanced, Told, Answers, Pairs, Handled
  <2>3. StillOpen(f)'
    BY <1>1, <2>1 DEF CallsIn, StillOpen, Ends, Answers, Handled
  <2>4. QED
    BY <2>2, <2>3 DEF CallsIn
<1>3. QED
  BY <1>2 DEF CallsInv, UsedOnce

\* A life that has ended has nothing to report.
LEMMA CallsDie ==
  ASSUME BasicInv, CallsInv, Dies
  PROVE  CallsInv'
<1>1. /\ UNCHANGED <<file, shortened>> /\ open' = [f \in File |-> {}]
      /\ counts' = [l \in LineId |-> 0] /\ reported' = [l \in LineId |-> 0]
  BY DieFacts
<1>2. ASSUME NEW f \in File \ shortened PROVE CallsIn(f)'
  <2>1. open'[f] = {}
    BY <1>1
  <2>2. \A i \in DOMAIN file[f] :
          counts'[file[f][i].id] = 0 /\ reported'[file[f][i].id] = 0
    BY <1>1, Lines
  <2>3. Begun(f)' /\ Balanced(f)'
    BY <1>1, <2>1, <2>2 DEF Begun, Balanced
  <2>4. StillOpen(f)' /\ Told(f)'
    BY <1>1, <2>2 DEF StillOpen, Told, Handled
  <2>5. QED
    BY <2>3, <2>4 DEF CallsIn
<1>3. QED
  BY <1>1, <1>2 DEF CallsInv, UsedOnce

\* The line of a stretch that is handled next is the first to be in hand: what lies
\* before it is not, and if it is handled for the first time so is what lies behind it.
LEMMA CallsHandle ==
  ASSUME BasicInv, BasicInv', UsedOnce, NEW f \in File, f = CurrentFile, Inorder(f), CallsIn(f),
         HandleLine
  PROVE  CallsIn(f)'
<1> PICK l : l = Head(pass.lines)
  OBVIOUS
<1>1. /\ pass.at = "lines" /\ pass.lines # <<>> /\ pass'.lines = Tail(pass.lines)
      /\ file' = file /\ open'[f] = OpenAfter(open[f], l)
      /\ reported'[l.id] = IF l.act = "result" /\ l.tool \in open[f]
                           THEN reported[l.id] + 1 ELSE reported[l.id]
  BY HandleFacts
<1>2. PICK a \in 1..(Len(file[f]) + 1) : Stretch(f, a)
  BY <1>1 DEF Inorder
<1> DEFINE line(i) == file[f][i]
           count(i) == counts[file[f][i].id]
           told(i) == reported[file[f][i].id]
<1>3. /\ a \in DOMAIN file[f] /\ l = line(a)
      /\ count(a)' = count(a) + 1
      /\ \A i \in DOMAIN file[f] \ {a} : count(i)' = count(i) /\ told(i)' = told(i)
  BY <1>1, <1>2, HandleStretch
<1>4. \A i \in DOMAIN file[f] : i \in Nat /\ count(i) \in Nat /\ told(i) \in Nat
  BY Lines
<1>5. \A i \in DOMAIN file[f] : Handled(f, i) => count(i)' > 0
  BY <1>3, <1>4 DEF Handled
<1>6. \A i \in DOMAIN file[f] : told(i) <= told(i)' /\ told(i)' \in Nat
  BY <1>1, <1>3, <1>4
<1>7. ASSUME NEW i \in DOMAIN file[f], i < a
      PROVE  ~ Held(line(i).id)
  <2>1. ~ (a <= i)
    BY <1>4, <1>7
  <2>2. QED
    BY <1>2, <2>1, StretchHeld
<1>8. Held(line(a).id) /\ \A m : Among(pass'.lines, m) <=> Held(m) /\ m # line(a).id
  BY <1>1, <1>3, NextLine
<1>9. \A i \in DOMAIN file[f] : line(i).id = line(a).id => i = a
  BY <1>3, SameLine
<1>10. line(a).act \in {"use", "result", "end"}
  BY <1>3, Lines, LineFields
<1>11. /\ line(a).act = "use" => open'[f] = open[f] \cup {line(a).tool}
       /\ line(a).act = "result" => open'[f] = open[f] \ {line(a).tool}
       /\ line(a).act = "end" => open'[f] = {}
  BY <1>1, <1>3 DEF OpenAfter
<1> HIDE DEF line, count, told
<1>12. Begun(f)'
  <2> SUFFICES ASSUME NEW tool \in open'[f]
               PROVE  \E i \in DOMAIN file[f] :
                        line(i).act = "use" /\ line(i).tool = tool /\ count(i)' > 0
    BY <1>1 DEF Begun, Handled, line, count
  <2>1. CASE tool \in open[f]
    BY <1>5, <2>1 DEF CallsIn, Begun, line
  <2>2. CASE tool \notin open[f]
    <3>1. line(a).act = "use" /\ tool = line(a).tool
      BY <1>10, <1>11, <2>2
    <3>2. QED
      BY <1>3, <1>4, <3>1
  <2>3. QED
    BY <2>1, <2>2
<1>13. Balanced(f)'
  <2> SUFFICES ASSUME NEW i \in DOMAIN file[f], NEW j \in DOMAIN file[f],
                      line(i).act = "use", line(j).act = "result", line(i).tool = line(j).tool
               PROVE  told(j)' + (IF line(i).tool \in open'[f] THEN 1 ELSE 0) <= count(i)'
    BY <1>1 DEF Balanced, Answers, line, count, told
  <2>1. /\ told(j) + (IF line(i).tool \in open[f] THEN 1 ELSE 0) <= count(i)
        /\ told(j) \in Nat /\ count(i) \in Nat
    BY <1>4 DEF CallsIn, Balanced, Answers, line, count, told
  <2>2. CASE a = i
    <3>1. told(j)' = told(j) /\ count(i)' = count(i) + 1
      BY <1>3, <2>2
    <3>2. told(j) <= count(i)
      BY <2>1
    <3>3. QED
      BY <2>1, <3>1, <3>2
  <2>3. CASE a = j
    <3>1. count(i)' = count(i) /\ line(i).tool \notin open'[f]
      BY <1>3, <1>11, <2>3
    <3>2. told(j)' = IF line(i).tool \in open[f] THEN told(j) + 1 ELSE told(j)
      BY <1>1, <1>3, <2>3 DEF told, line
    <3>3. QED
      BY <2>1, <3>1, <3>2
  <2>4. CASE a # i /\ a # j
    <3>1. told(j)' = told(j) /\ count(i)' = count(i)
      BY <1>3, <2>4
    <3>2. line(i).tool \in open'[f] => line(i).tool \in open[f]
      <4>1. ~ (line(a).act = "use" /\ line(a).tool = line(i).tool)
        BY <1>3, <2>4 DEF UsedOnce, line
      <4>2. QED
        BY <1>10, <1>11, <4>1
    <3>3. QED
      BY <2>1, <3>1, <3>2
  <2>5. QED
    BY <2>2, <2>3, <2>4
<1>14. StillOpen(f)'
  <2> SUFFICES ASSUME NEW i \in DOMAIN file[f], line(i).act = "use", count(i)' > 0,
                      ~ Among(pass'.lines, line(i).id),
                      \A k \in DOMAIN file[f] : i < k /\ Ends(f, i, k) => ~ (count(k)' > 0)
               PROVE  line(i).tool \in open'[f]
    BY <1>1 DEF StillOpen, Handled, Held, Ends, Answers, line, count
  <2>1. CASE a = i
    BY <1>11, <2>1
  <2>2. CASE a # i
    <3>1. Handled(f, i) /\ ~ Held(line(i).id)
      BY <1>3, <1>8, <1>9, <2>2 DEF Handled, count
    <3>2. \A k \in DOMAIN file[f] : i < k /\ Ends(f, i, k) => ~ Handled(f, k)
      BY <1>5
    <3>3. line(i).tool \in open[f]
      BY <3>1, <3>2 DEF CallsIn, StillOpen, line
    <3>4. ~ Ends(f, i, a)
      <4> SUFFICES ASSUME Ends(f, i, a) PROVE FALSE
        OBVIOUS
      <4>1. count(a)' > 0
        BY <1>3, <1>4
      <4>2. ~ (i < a)
        BY <1>3, <4>1
      <4>3. a <= i /\ Len(pass.lines) \in Nat
        BY <1>3, <1>4, <4>2, Hand
      <4>4. a + Len(pass.lines) <= i
        <5>1. ~ (i < a + Len(pass.lines))
          BY <1>2, <3>1, <4>3, StretchHeld DEF line
        <5>2. QED
          BY <1>3, <1>4, <4>3, <5>1
      <4>5. QED
        BY <1>2, <3>1, <4>4 DEF Stretch
    <3>5. QED
      BY <1>10, <1>11, <3>3, <3>4 DEF Ends, Answers, line
  <2>3. QED
    BY <2>1, <2>2
<1>15. Told(f)'
  <2> SUFFICES ASSUME NEW i \in DOMAIN file[f], NEW j \in DOMAIN file[f], Pairs(f, i, j),
                      count(i)' > 0, count(j)' > 0
               PROVE  told(j)' > 0
    BY <1>1 DEF Told, Handled, Pairs, count, told
  <2>1. /\ i < j /\ line(i).act = "use" /\ line(j).act = "result" /\ line(i).tool = line(j).tool
        /\ \A k \in (i + 1)..(j - 1) : line(k).act # "end" /\ line(k).tool # line(j).tool
    BY DEF Pairs, line
  <2>2. CASE Handled(f, i) /\ Handled(f, j)
    <3>1. told(j) > 0
      BY <2>2 DEF CallsIn, Told, told
    <3>2. QED
      BY <1>4, <1>6, <3>1
  <2>3. CASE ~ Handled(f, i)
    <3>1. a = i
      BY <1>3, <2>3 DEF Handled, count
    <3>2. ~ Handled(f, j)
      BY <1>8, <2>1, <2>3, <3>1 DEF Inorder, Due, line
    <3>3. j # a
      BY <1>4, <2>1, <3>1
    <3>4. QED
      BY <1>3, <3>2, <3>3 DEF Handled, count
  <2>4. CASE Handled(f, i) /\ ~ Handled(f, j)
    <3>1. a = j
      BY <1>3, <2>4 DEF Handled, count
    <3>2. ~ Held(line(i).id)
      BY <1>7, <2>1, <3>1
    <3>3. ASSUME NEW k \in DOMAIN file[f], i < k, Ends(f, i, k) PROVE ~ Handled(f, k)
      <4>1. CASE k < j
        <5>1. k \in (i + 1)..(j - 1)
          BY <1>4, <3>3, <4>1
        <5>2. QED
          BY <2>1, <3>3, <5>1 DEF Ends, Answers, line
      <4>2. CASE k = j
        BY <2>4, <4>2
      <4>3. CASE j < k
        BY <1>8, <2>4, <3>1, <4>3 DEF Inorder, Due, line
      <4>4. QED
        BY <1>4, <4>1, <4>2, <4>3
    <3>4. line(i).tool \in open[f]
      BY <2>1, <2>4, <3>2, <3>3 DEF CallsIn, StillOpen, line
    <3>5. told(j)' = told(j) + 1
      BY <1>1, <1>3, <2>1, <3>1, <3>4 DEF told, line
    <3>6. QED
      BY <1>4, <3>5
  <2>5. QED
    BY <2>2, <2>3, <2>4
<1>16. QED
  BY <1>12, <1>13, <1>14, <1>15 DEF CallsIn

\* A step on another file.
LEMMA CallsElsewhere ==
  ASSUME BasicInv, NEW f \in File, CallsIn(f), NEW c \in File, c # f, c = CurrentFile, HandleLine
  PROVE  CallsIn(f)'
<1> PICK l : l = Head(pass.lines)
  OBVIOUS
<1>1. /\ pass.lines # <<>> /\ pass'.lines = Tail(pass.lines)
      /\ file' = file /\ \A g \in File \ {c} : open'[g] = open[g]
      /\ \A m \in LineId \ {l.id} : counts'[m] = counts[m] /\ reported'[m] = reported[m]
  BY HandleFacts
<1>2. Held(l.id)
  BY <1>1, NextLine
<1>3. ASSUME NEW i \in DOMAIN file[f]
      PROVE  /\ counts'[file[f][i].id] = counts[file[f][i].id]
             /\ reported'[file[f][i].id] = reported[file[f][i].id]
             /\ ~ Held(file[f][i].id)
  <2>1. Held(file[f][i].id) => f = c
    BY DEF BasicInv, Numbered
  <2>2. file[f][i].id \in LineId \ {l.id}
    BY <1>2, <2>1, Lines
  <2>3. QED
    BY <1>1, <2>1, <2>2
<1>4. open'[f] = open[f]
  BY <1>1
<1>5. Begun(f)' /\ Balanced(f)' /\ Told(f)'
  BY <1>1, <1>3, <1>4 DEF CallsIn, Begun, Balanced, Told, Answers, Pairs, Handled
<1>6. StillOpen(f)'
  BY <1>1, <1>3, <1>4 DEF CallsIn, StillOpen, Ends, Answers, Handled
<1>7. QED
  BY <1>5, <1>6 DEF CallsIn

\* The fifth part is inductive.
LEMMA CallsStep ==
  ASSUME BasicInv, BasicInv', OrderInv, CallsInv, [Next]_vars
  PROVE  CallsInv'
<1>1. CASE UNCHANGED vars
  BY <1>1 DEF vars, disk, memory, history, CallsInv, UsedOnce, CallsIn, Begun, Balanced,
     StillOpen, Told, Ends, Answers, Pairs, Handled, Held
<1>2. CASE Write
  BY <1>2, WriteIs, CallsWritten
<1>3. CASE StartPass \/ FileDone \/ Save \/ StatSkip \/ Stat \/ Read \/ Restart
  <2>1. UNCHANGED <<file, open, counts, reported, shortened>>
    BY <1>3 DEF StartPass, FileDone, Save, StatSkip, Stat, Read, Restart, disk, memory, history
  <2>2. pass.lines = <<>>
    <3>1. FileDone \/ pass.at \in {"sleep", "save", "stat", "read", "down"}
      BY <1>3 DEF StartPass, Save, StatSkip, Stat, Read, Restart
    <3>2. FileDone => pass.lines = <<>>
      BY DEF FileDone
    <3>3. QED
      BY <3>1, <3>2, Hand
  <2>3. QED
    BY <2>1, <2>2, CallsQuiet
<1>4. CASE Dies
  BY <1>4, CallsDie
<1>5. CASE HandleLine
  <2> PICK c \in File : c = CurrentFile
    BY <1>5, Hand DEF HandleLine
  <2>1. file' = file /\ shortened' = shortened
    BY <1>5 DEF HandleLine, disk
  <2>2. ASSUME NEW f \in File \ shortened PROVE CallsIn(f)'
    <3>1. CallsIn(f) /\ UsedOnce /\ Inorder(f)
      BY DEF CallsInv, OrderInv
    <3>2. CASE f = c
      BY <1>5, <3>1, <3>2, CallsHandle
    <3>3. CASE f # c
      BY <1>5, <3>1, <3>3, CallsElsewhere
    <3>4. QED
      BY <3>2, <3>3
  <2>3. QED
    BY <2>1, <2>2 DEF CallsInv, UsedOnce
<1>6. QED
  BY <1>1, <1>2, <1>3, <1>4, <1>5 DEF Next, Watch, Dies

\* Whatever is handled again and whatever is appended meanwhile, a call whose two
\* lines a life has handled has been reported by it, and no more often than its first
\* line was handled (processor.rs:299-386).
THEOREM EveryCallReported == Spec => []CallsReported
<1>1. Init => BasicInv /\ KeptInv /\ OrderInv /\ CallsInv
  BY BasicInit, KeptInit, OrderInit, CallsInit
<1>2. BasicInv /\ KeptInv /\ OrderInv /\ CallsInv /\ [Next]_vars
        => (BasicInv /\ KeptInv /\ OrderInv /\ CallsInv)'
  BY BasicStep, KeptStep, OrderStep, CallsStep
<1>3. BasicInv /\ CallsInv => CallsReported
  <2> SUFFICES ASSUME BasicInv, CallsInv, NEW f \in File \ shortened,
                      NEW i \in DOMAIN file[f], NEW j \in DOMAIN file[f],
                      Pairs(f, i, j), counts[file[f][i].id] > 0, counts[file[f][j].id] > 0
               PROVE  reported[file[f][j].id] \in 1..counts[file[f][i].id]
    BY DEF CallsReported
  <2>1. reported[file[f][j].id] > 0
    BY DEF CallsInv, CallsIn, Told, Handled
  <2>2. Answers(f, i, j)
    BY DEF Pairs, Answers
  <2>3. reported[file[f][j].id] + (IF file[f][i].tool \in open[f] THEN 1 ELSE 0)
          <= counts[file[f][i].id]
    BY <2>2 DEF CallsInv, CallsIn, Balanced
  <2>4. reported[file[f][j].id] \in Nat /\ counts[file[f][i].id] \in Nat
    BY Lines
  <2>5. QED
    BY <2>1, <2>3, <2>4
<1>4. QED
  BY <1>1, <1>2, <1>3, PTL DEF Spec
=============================================================================
