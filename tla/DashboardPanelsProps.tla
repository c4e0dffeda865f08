------------------------ MODULE DashboardPanelsProps ------------------------
(* What the panels and the drawer show, and what becomes of the settings.  *)
EXTENDS DashboardPanels

\* A panel that was never asked while it waited shows the answer to the last question
\* (dashboard.tsx:327-426), and the drawer holds what was last asked for, although
\* every save closes it, unless that request failed; a search that failed shows why.
SerialAnswersExact ==
  \A p \in Page :
    /\ \A n \in Reading :
         output[p][n].calm /\ ~ Busy(p, {n}) =>
           \/ output[p][n].answers = output[p][n].asked
           \/ output[p][n].failed /\ n # "search"
    /\ drawer[p].calm /\ ~ Busy(p, Drawing) =>
         drawer[p].kind = drawer[p].wants \/ drawer[p].failed

\* A settings form says that there is an error exactly when its document was no JSON, or
\* its save was refused or never answered (dashboard.tsx:357-362 and 389-410), if its page
\* never asked anything of a drawer that waited.
ErrorTruthful ==
  \A p \in Page :
    drawer[p].calm /\ drawer[p].kind = "settings" => drawer[p].error = drawer[p].refused

\* No change of the settings is lost (dashboard.tsx:357-362 and 389-399) as long as
\* pages take turns: each reads the settings after the last save of the others and
\* none is cut short; a save that was written counts, even if its answer was lost.
SavesKept == tidy /\ Saves = {} => file = Whole(saved)

\* The settings are no JSON any more, because a save was cut short or met another, and
\* no page has them open, or is about to, or writes them.
Broken ==
  /\ file.is # "whole"
  /\ \A p \in Page : drawer[p].kind # "settings"
  /\ \A r \in requests :
       /\ r.what = "save" => r.at = "failed"
       /\ r.what = "settings" => r.at # "answered"

\* The dashboard cannot repair them (http/routes/mod.rs:2172-2179, dashboard.tsx:357-362):
\* whatever is clicked, no page opens them again.
BrokenStays == [][Broken => Broken']_vars
=============================================================================
