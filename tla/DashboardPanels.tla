--------------------------- MODULE DashboardPanels ---------------------------
(***************************************************************************)
(* The dashboard's panels and its drawer (apps/dashboard/app/dashboard.tsx)*)
(* and the settings file behind them (settings_get and settings_post,      *)
(* http/routes/mod.rs).                                                    *)
(*                                                                         *)
(* Every button of a page begins a request at once; no request is          *)
(* cancelled and no button is disabled, so answers come in any order, to a *)
(* drawer that may have been closed or replaced meanwhile.  Pages share    *)
(* the settings file, which is read and written as a whole.                *)
(*                                                                         *)
(* A settings document is the set of changes made to the first one.  What  *)
(* panels, logs and exports say is left out: an answer is the number of    *)
(* the click it belongs to.                                                *)
(***************************************************************************)
EXTENDS Naturals, FiniteSets

CONSTANTS Page,        \* the browser tabs that show the dashboard
          Reading,     \* the panels with an answer of their own
          MaxClicks,   \* bound: clicks, on all pages
          MaxChanges,  \* bound: changes typed into the settings form
          MaxFaults    \* bound: deaths of the worker and errors

ASSUME PanelsAssumption ==
  /\ Reading \subseteq {"search", "timeline", "context", "admin"}
  /\ MaxClicks \in Nat /\ MaxChanges \in Nat /\ MaxFaults \in Nat

VARIABLES file,      \* the settings file
          saved,     \* history: the changes of every document written
          tidy,      \* history: every draft saved was fresh, no save met another or a fault
          output,    \* [Page -> [Reading -> the question and the answer the panel shows]]
          drawer,    \* [Page -> what the drawer holds and was asked for, its error, the draft]
          requests,  \* the requests under way
          clicks, changes, faults

vars == <<file, saved, tidy, output, drawer, requests, clicks, changes, faults>>
bounds == <<clicks, changes, faults>>

Documents == SUBSET (1..MaxChanges)

\* A settings file: whole, truncated and not written yet, or with the bytes of two
\* documents.
Whole(doc) == [is |-> "whole", doc |-> doc]
Empty == [is |-> "empty", doc |-> {}]
Mixed == [is |-> "mixed", doc |-> {}]

\* The requests that have to do with the drawer; a refresh follows a save.
Drawing == {"settings", "logs", "export", "memory", "save", "clear", "refresh"}

\* A page waits for something.
Busy(p, what) == \E r \in requests : r.page = p /\ r.what \in what

Init ==
  /\ file = Whole({}) /\ saved = {} /\ tidy = TRUE
  /\ output = [p \in Page |-> [n \in Reading |-> [asked |-> 0, answers |-> 0, failed |-> FALSE, calm |-> TRUE]]]
  /\ drawer = [p \in Page |-> [kind |-> "none", wants |-> "none", failed |-> FALSE, calm |-> TRUE,
                               error |-> FALSE, refused |-> FALSE, draft |-> {}, fresh |-> FALSE]]
  /\ requests = {}
  /\ clicks = 0 /\ changes = 0 /\ faults = 0

Fault == faults < MaxFaults /\ faults' = faults + 1

-----------------------------------------------------------------------------
(* Clicks.                                                                 *)

\* The click's number.
Click == clicks < MaxClicks /\ clicks' = clicks + 1

\* A request that a click begins, with the document of a save.
Request(p, what, doc) ==
  [page |-> p, what |-> what, no |-> clicks + 1, at |-> "sent", doc |-> doc, fresh |-> TRUE]

Sends(p, what) == requests' = requests \cup {Request(p, what, {})}

\* A panel is asked something new, maybe while it waits for an answer.
Asked(p, n, answers) ==
  output' = [output EXCEPT ![p][n] =
    [asked |-> clicks + 1, answers |-> answers,
     failed |-> FALSE, calm |-> output[p][n].calm /\ ~ Busy(p, {n})]]

\* The drawer is asked for something new, maybe while it waits; it holds kind till then.
Wanted(p, wants, kind, error) ==
  drawer' = [drawer EXCEPT ![p] =
    [kind |-> kind, wants |-> wants, failed |-> FALSE,
     calm |-> drawer[p].calm /\ ~ Busy(p, Drawing),
     error |-> drawer[p].error \/ error, refused |-> drawer[p].refused \/ error,
     draft |-> drawer[p].draft, fresh |-> drawer[p].fresh]]

Kept(p) == drawer[p].kind

\* runSearch, loadTimeline, loadContextPreview, loadDoctor and loadBranch; the last
\* two share a panel.
Ask(p, n) ==
  /\ Click /\ n \in Reading
  /\ Asked(p, n, output[p][n].answers)
  /\ Sends(p, n)
  /\ UNCHANGED <<file, saved, tidy, drawer, changes, faults>>

\* runSearch of a blank query: the hint, at once.
AskBlank(p) ==
  /\ Click /\ "search" \in Reading
  /\ Asked(p, "search", clicks + 1)
  /\ UNCHANGED <<file, saved, tidy, drawer, requests, changes, faults>>

\* openSettings, openLogs and openExport
Open(p, what) ==
  /\ Click /\ what \in {"settings", "logs", "export"}
  /\ Wanted(p, what, Kept(p), FALSE)
  /\ Sends(p, what)
  /\ UNCHANGED <<file, saved, tidy, output, changes, faults>>

\* The drawer is opened for a memory, or closed: its error stays.
SetDrawer(p, kind) ==
  /\ Click /\ kind \in {"memory", "none"} \ {Kept(p)}
  /\ Wanted(p, kind, kind, FALSE)
  /\ UNCHANGED <<file, saved, tidy, output, requests, changes, faults>>

\* A change is typed into the settings form.
Type(p) ==
  /\ Kept(p) = "settings" /\ changes < MaxChanges
  /\ changes' = changes + 1
  /\ drawer' = [drawer EXCEPT ![p].draft = drawer[p].draft \cup {changes + 1}]
  /\ UNCHANGED <<file, saved, tidy, output, requests, clicks, faults>>

\* saveManualMemory
SaveMemory(p) ==
  /\ Click /\ Kept(p) = "memory"
  /\ Wanted(p, "none", Kept(p), FALSE)
  /\ Sends(p, "memory")
  /\ UNCHANGED <<file, saved, tidy, output, changes, faults>>

Saves == {r \in requests : r.what = "save" /\ r.at \in {"sent", "opened"}}

\* saveSettings: what is typed is parsed...
SaveSettings(p) ==
  /\ Click /\ Kept(p) = "settings"
  /\ Wanted(p, "none", Kept(p), FALSE)
  /\ requests' = requests \cup {Request(p, "save", drawer[p].draft)}
  /\ tidy' = (tidy /\ drawer[p].fresh /\ Saves = {})
  /\ UNCHANGED <<file, saved, output, changes, faults>>

\* ... and not sent if it is no JSON.
SaveGarbled(p) ==
  /\ Click /\ Kept(p) = "settings"
  /\ Wanted(p, "settings", Kept(p), TRUE)
  /\ UNCHANGED <<file, saved, tidy, output, requests, changes, faults>>

\* clearLogs
ClearLogs(p) ==
  /\ Click /\ Kept(p) = "logs"
  /\ Wanted(p, "logs", Kept(p), FALSE)
  /\ Sends(p, "clear")
  /\ UNCHANGED <<file, saved, tidy, output, changes, faults>>

-----------------------------------------------------------------------------
(* The worker.                                                             *)

\* The request goes on.
Goes(r, at) == requests' = (requests \ {r}) \cup {[r EXCEPT !.at = at]}

\* Fault: a file that is no JSON is taken for a missing one.
ReadSettings_Default == [read |-> TRUE, doc |-> IF file.is = "whole" THEN file.doc ELSE {}]

\* Fault: the settings are read once, when the worker starts.
ReadSettings_Once == [read |-> file.is = "whole", doc |-> {}]

\* What read_json_file finds.
ReadSettings == [read |-> file.is = "whole", doc |-> file.doc]

\* settings_get: a file that is no JSON is an error.
GetSettings(r) ==
  /\ r.what = "settings" /\ r.at = "sent"
  /\ IF ReadSettings.read
     THEN requests' = (requests \ {r}) \cup {[r EXCEPT !.at = "answered", !.doc = ReadSettings.doc]}
     ELSE Goes(r, "failed")
  /\ UNCHANGED <<file, saved, tidy, output, drawer, bounds>>

\* settings_post: fs::write empties the file; what was read before is not fresh any more...
Truncate(r) ==
  /\ r.what = "save" /\ r.at = "sent"
  /\ file' = Empty
  /\ requests' = {IF q = r THEN [q EXCEPT !.at = "opened"]
                  ELSE IF q.at = "answered" THEN [q EXCEPT !.fresh = FALSE] ELSE q : q \in requests}
  /\ drawer' = [p \in Page |-> [drawer[p] EXCEPT !.fresh = FALSE]]
  /\ UNCHANGED <<saved, tidy, output, bounds>>

\* What a document leaves of the file: a longer one that another writer has put there
\* meanwhile sticks out at its end.
Written(r) == IF file = Empty THEN {Whole(r.doc)} ELSE {Whole(r.doc), Mixed}

\* ... and writes from its beginning; what is left is the answer.
Write(r) ==
  /\ r.what = "save" /\ r.at = "opened"
  /\ file' \in Written(r)
  /\ saved' = saved \cup r.doc
  /\ Goes(r, "answered")
  /\ UNCHANGED <<tidy, output, drawer, bounds>>

\* The request is answered: what every other request does to the worker is left out.
Ready(r) == r.at = IF r.what \in {"settings", "save"} THEN "answered" ELSE "sent"

\* A request is answered by an error: the file cannot be written, the index fails.
Refuse(r) ==
  /\ Fault
  /\ r.at \in {"sent", "opened"}
  /\ tidy' = (tidy /\ r.what # "save")
  /\ Goes(r, "failed")
  /\ UNCHANGED <<file, saved, output, drawer, clicks, changes>>

\* The worker dies, and is started again: every request that it is at fails, and so do
\* those with an answer that was not sent yet, although a save of them is written.
Die ==
  /\ Fault
  /\ tidy' = (tidy /\ Saves = {})
  /\ \E unsent \in SUBSET {r \in requests : r.at = "answered"} :
       requests' = {IF r.at \in {"sent", "opened"} \/ r \in unsent
                    THEN [r EXCEPT !.at = "failed"] ELSE r : r \in requests}
  /\ UNCHANGED <<file, saved, output, drawer, clicks, changes>>

-----------------------------------------------------------------------------
(* Answers.                                                                *)

\* The request is over.
Over(r) == requests' = requests \ {r}

\* A panel shows the answer to the request's click.
Answers(r) ==
  output' = [output EXCEPT ![r.page][r.what] = [@ EXCEPT !.answers = r.no, !.failed = FALSE]]

\* An answer of a panel.
ShowAnswer(r) ==
  /\ r.what \in Reading /\ Ready(r)
  /\ Over(r) /\ Answers(r)
  /\ UNCHANGED <<file, saved, tidy, drawer, bounds>>

\* The error of a search is shown in its place (onQueryKey); the text of an error
\* answer is taken for the context (no response.ok there).
Told(r) == r.what \in {"search", "context"}

\* A panel's request fails; an error that is nobody's leaves the panel as it is.
ShowError(r) ==
  /\ r.what \in Reading /\ r.at = "failed"
  /\ Over(r)
  /\ \/ Told(r) /\ Answers(r)
     \/ (~ Told(r) \/ r.what = "context")
        /\ output' = [output EXCEPT ![r.page][r.what].failed = TRUE]
  /\ UNCHANGED <<file, saved, tidy, drawer, bounds>>

\* Fault: the error of what the drawer held before is not cleared.
NewForm_KeepsError(d, r) ==
  [d EXCEPT !.kind = "settings", !.refused = FALSE, !.draft = r.doc, !.fresh = r.fresh]

\* The settings form of a drawer d, with the document that was read.
NewForm(d, r) ==
  [d EXCEPT !.kind = "settings", !.error = FALSE, !.refused = FALSE,
            !.draft = r.doc, !.fresh = r.fresh]

\* The answer of openSettings, openLogs or openExport opens the drawer; an export
\* leaves its error.
OpenDrawer(r) ==
  /\ Ready(r)
  /\ \/ /\ r.what = "settings"
        /\ drawer' = [drawer EXCEPT ![r.page] = NewForm(drawer[r.page], r)]
     \/ /\ r.what = "logs"
        /\ drawer' = [drawer EXCEPT ![r.page] = [@ EXCEPT !.kind = "logs", !.error = FALSE]]
     \/ /\ r.what = "export"
        /\ drawer' = [drawer EXCEPT ![r.page].kind = "export"]
  /\ Over(r)
  /\ UNCHANGED <<file, saved, tidy, output, bounds>>

\* Their errors, and that of saveManualMemory, are nobody's.
DrawerStays(r) ==
  /\ r.what \in {"settings", "logs", "export", "memory"} /\ r.at = "failed"
  /\ Over(r)
  /\ drawer' = [drawer EXCEPT ![r.page].failed = TRUE]
  /\ UNCHANGED <<file, saved, tidy, output, bounds>>

\* The memory is saved: the drawer is closed, whatever it holds by now.
CloseDrawer(r) ==
  /\ r.what = "memory" /\ Ready(r)
  /\ drawer' = [drawer EXCEPT ![r.page].kind = "none"]
  /\ Over(r)
  /\ UNCHANGED <<file, saved, tidy, output, bounds>>

\* Fault: the drawer stays open.
SettingsSaved_StaysOpen(d) == [d EXCEPT !.error = FALSE]

\* What a drawer d is after the settings were saved.
SettingsSaved(d) == [d EXCEPT !.kind = "none", !.error = FALSE]

\* The settings are saved: so is it then, and the page is refreshed.
CloseForm(r) ==
  /\ r.what = "save" /\ Ready(r)
  /\ drawer' = [drawer EXCEPT ![r.page] = SettingsSaved(drawer[r.page])]
  /\ requests' = (requests \ {r}) \cup
       {[r EXCEPT !.what = "refresh", !.at = "sent", !.doc = {}, !.fresh = TRUE]}
  /\ UNCHANGED <<file, saved, tidy, output, bounds>>

\* A drawer d with the error of the request r: of a save, refused or with its answer lost.
Erred(d, r) ==
  [d EXCEPT !.error = TRUE, !.failed = d.failed \/ r.what = "save",
            !.refused = d.refused \/ r.what = "save"]

\* The error of a save, of the refresh after it and of clearLogs goes to the drawer.
DrawerError(r) ==
  /\ r.what \in {"save", "refresh", "clear"} /\ r.at = "failed"
  /\ drawer' = [drawer EXCEPT ![r.page] = Erred(drawer[r.page], r)]
  /\ Over(r)
  /\ UNCHANGED <<file, saved, tidy, output, bounds>>

\* The logs are cleared and read again; the refresh after a save has ended.
DrawerDone(r) ==
  /\ r.what \in {"clear", "refresh"} /\ Ready(r)
  /\ drawer' = IF r.what = "clear" THEN [drawer EXCEPT ![r.page].error = FALSE] ELSE drawer
  /\ Over(r)
  /\ UNCHANGED <<file, saved, tidy, output, bounds>>

-----------------------------------------------------------------------------
Clicking(p) ==
  \/ \E n \in Reading : Ask(p, n)
  \/ AskBlank(p) \/ Type(p)
  \/ \E what \in {"settings", "logs", "export"} : Open(p, what)
  \/ \E kind \in {"memory", "none"} : SetDrawer(p, kind)
  \/ SaveMemory(p) \/ SaveSettings(p) \/ SaveGarbled(p) \/ ClearLogs(p)

Serving(r) == GetSettings(r) \/ Truncate(r) \/ Write(r) \/ Refuse(r)

Showing(r) ==
  \/ ShowAnswer(r) \/ ShowError(r)
  \/ OpenDrawer(r) \/ DrawerStays(r) \/ CloseDrawer(r)
  \/ CloseForm(r) \/ DrawerError(r) \/ DrawerDone(r)

Next ==
  \/ \E p \in Page : Clicking(p)
  \/ \E r \in requests : Serving(r) \/ Showing(r)
  \/ Die

Spec == Init /\ [][Next]_vars
=============================================================================
