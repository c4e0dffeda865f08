----------------------- MODULE DashboardPanelsProofs -----------------------
(***************************************************************************)
(* Proofs about the panels, the drawer and the settings: for any number of *)
(* pages, clicks, changes and faults.                                      *)
(***************************************************************************)
EXTENDS DashboardPanelsProps, TLAPS

-----------------------------------------------------------------------------
(* The inductive invariant.                                                *)

RequestRecord == [page : Page, what : Reading \cup Drawing, no : Nat,
                  at : {"sent", "opened", "answered", "failed"},
                  doc : SUBSET Nat, fresh : BOOLEAN]
PanelRecord == [asked : Nat, answers : Nat, failed : BOOLEAN, calm : BOOLEAN]
Kinds == {"none", "settings", "logs", "export", "memory"}
DrawerRecord == [kind : Kinds, wants : Kinds, failed : BOOLEAN, calm : BOOLEAN,
                 error : BOOLEAN, refused : BOOLEAN, draft : SUBSET Nat, fresh : BOOLEAN]

PanelsTypes ==
  /\ file \in [is : {"whole", "empty", "mixed"}, doc : SUBSET Nat]
  /\ saved \in SUBSET Nat /\ tidy \in BOOLEAN
  /\ output \in [Page -> [Reading -> PanelRecord]]
  /\ drawer \in [Page -> DrawerRecord]
  /\ requests \subseteq RequestRecord
  /\ clicks \in Nat /\ changes \in Nat

\* A panel that was never asked while it waited waits for the answer to its last
\* question, or shows it.
PanelsRight ==
  \A p \in Page, n \in Reading : output[p][n].calm =>
    /\ \A r \in requests : r.page = p /\ r.what = n => r.no = output[p][n].asked
    /\ \/ Busy(p, {n})
       \/ output[p][n].answers = output[p][n].asked
       \/ output[p][n].failed /\ n # "search"

Drawn(r, p) == r.page = p /\ r.what \in Drawing

\* What a drawer that holds kind is to hold when the request r has ended.
Promised(r, kind, wants) ==
  /\ r.what \in {"settings", "logs", "export"} => wants = r.what
  /\ r.what \in {"memory", "save"} => wants = "none"
  /\ r.what = "clear" => kind = "logs" /\ wants = "logs"
  /\ r.what = "refresh" => kind = "none" /\ wants = "none"

\* A drawer that was never asked while it waited waits for one request, for the one it
\* was last asked for, and only a save can fail while a form is open.
DrawersRight ==
  \A p \in Page : drawer[p].calm =>
    /\ \A r, q \in requests : Drawn(r, p) /\ Drawn(q, p) => r = q
    /\ \A r \in requests : Drawn(r, p) => Promised(r, drawer[p].kind, drawer[p].wants)
    /\ \/ Busy(p, Drawing)
       \/ drawer[p].kind = drawer[p].wants
       \/ drawer[p].failed
    /\ drawer[p].kind = "settings" => drawer[p].error = drawer[p].refused

\* As long as pages take turns there is one save at a time; a draft that is fresh has
\* every change saved so far, and none is fresh while the file is being written.
SavesRight ==
  tidy =>
    /\ Saves = {} => file = Whole(saved)
    /\ \A r, q \in Saves : r = q
    /\ \A r \in Saves : saved \subseteq r.doc
    /\ \A r \in Saves : r.at = "sent" => file = Whole(saved)
    /\ \A r \in Saves : r.at = "opened" =>
         /\ file = Empty
         /\ \A p \in Page : ~ drawer[p].fresh
         /\ \A q \in requests : q.at = "answered" => ~ q.fresh
    /\ \A p \in Page : drawer[p].fresh => saved \subseteq drawer[p].draft
    /\ \A q \in requests : q.what = "settings" /\ q.at = "answered" /\ q.fresh => saved \subseteq q.doc

PanelsInv == PanelsTypes /\ PanelsRight /\ DrawersRight /\ SavesRight

-----------------------------------------------------------------------------
(* Types.                                                                  *)


\* What a request is, and what it is when it has gone on.
LEMMA RequestFacts ==
  ASSUME PanelsTypes, NEW r \in requests
  PROVE  /\ r \in RequestRecord /\ r.page \in Page /\ r.what \in Reading \cup Drawing
         /\ r.no \in Nat /\ r.doc \in SUBSET Nat /\ r.fresh \in BOOLEAN
         /\ r.at \in {"sent", "opened", "answered", "failed"}
         /\ \A at \in {"sent", "opened", "answered", "failed"} : [r EXCEPT !.at = at] \in RequestRecord
<1>1. r \in RequestRecord
  BY DEF PanelsTypes
<1>2. QED
  BY <1>1 DEF RequestRecord

LEMMA NewRequest ==
  ASSUME clicks \in Nat, NEW p \in Page, NEW what \in Reading \cup Drawing, NEW doc \in SUBSET Nat
  PROVE  /\ Request(p, what, doc) \in RequestRecord
         /\ Request(p, what, doc).page = p /\ Request(p, what, doc).what = what
         /\ Request(p, what, doc).no = clicks + 1 /\ Request(p, what, doc).at = "sent"
         /\ Request(p, what, doc).doc = doc
BY DEF Request, RequestRecord

LEMMA DrawerFacts ==
  ASSUME PanelsTypes, NEW p \in Page
  PROVE  /\ drawer[p] \in DrawerRecord /\ drawer[p].draft \in SUBSET Nat
         /\ drawer[p].kind \in Kinds /\ drawer[p].wants \in Kinds
         /\ drawer[p].error \in BOOLEAN /\ drawer[p].refused \in BOOLEAN
         /\ drawer[p].failed \in BOOLEAN /\ drawer[p].fresh \in BOOLEAN
         /\ drawer[p].calm \in BOOLEAN
<1>1. drawer[p] \in DrawerRecord
  BY DEF PanelsTypes
<1>2. QED
  BY <1>1 DEF DrawerRecord

LEMMA TypesInit == PanelsAssumption /\ Init => PanelsTypes
BY DEF Init, PanelsTypes, Whole, PanelRecord, DrawerRecord, Kinds, PanelsAssumption

\* A panel is asked something.
LEMMA AskedFacts ==
  ASSUME PanelsTypes, NEW p \in Page, NEW n \in Reading, NEW answers \in Nat, Asked(p, n, answers)
  PROVE  /\ output' \in [Page -> [Reading -> PanelRecord]]
         /\ output'[p][n].asked = clicks + 1 /\ output'[p][n].answers = answers
         /\ output'[p][n].calm = (output[p][n].calm /\ ~ Busy(p, {n}))
         /\ \A q \in Page, m \in Reading : q # p \/ m # n => output'[q][m] = output[q][m]
<1> DEFINE panel == [asked |-> clicks + 1, answers |-> answers, failed |-> FALSE,
                     calm |-> output[p][n].calm /\ ~ Busy(p, {n})]
<1>1. output[p][n] \in PanelRecord /\ output \in [Page -> [Reading -> PanelRecord]] /\ clicks \in Nat
  BY DEF PanelsTypes
<1>2. panel \in PanelRecord
  BY <1>1 DEF PanelRecord
<1>3. output' = [output EXCEPT ![p][n] = panel]
  BY DEF Asked
<1> HIDE DEF panel
<1>4. /\ output' \in [Page -> [Reading -> PanelRecord]] /\ output'[p][n] = panel
      /\ \A q \in Page, m \in Reading : q # p \/ m # n => output'[q][m] = output[q][m]
  BY <1>1, <1>2, <1>3
<1>5. QED
  BY <1>4 DEF panel

\* A drawer is asked for something.
LEMMA WantedFacts ==
  ASSUME PanelsTypes, NEW p \in Page, NEW wants \in Kinds, NEW kind \in Kinds, NEW error \in BOOLEAN,
         Wanted(p, wants, kind, error)
  PROVE  /\ drawer' \in [Page -> DrawerRecord]
         /\ drawer'[p].kind = kind /\ drawer'[p].wants = wants
         /\ drawer'[p].calm = (drawer[p].calm /\ ~ Busy(p, Drawing))
         /\ drawer'[p].error = (drawer[p].error \/ error)
         /\ drawer'[p].refused = (drawer[p].refused \/ error)
         /\ drawer'[p].draft = drawer[p].draft /\ drawer'[p].fresh = drawer[p].fresh
         /\ \A q \in Page : q # p => drawer'[q] = drawer[q]
<1> DEFINE d == [kind |-> kind, wants |-> wants, failed |-> FALSE,
                 calm |-> drawer[p].calm /\ ~ Busy(p, Drawing),
                 error |-> drawer[p].error \/ error, refused |-> drawer[p].refused \/ error,
                 draft |-> drawer[p].draft, fresh |-> drawer[p].fresh]
<1>1. d \in DrawerRecord
  BY DrawerFacts DEF DrawerRecord
<1>2. drawer' = [drawer EXCEPT ![p] = d] /\ drawer \in [Page -> DrawerRecord]
  BY DEF Wanted, PanelsTypes
<1> HIDE DEF d
<1>3. /\ drawer' \in [Page -> DrawerRecord] /\ drawer'[p] = d
      /\ \A q \in Page : q # p => drawer'[q] = drawer[q]
  BY <1>1, <1>2
<1>4. QED
  BY <1>3 DEF d

LEMMA TypesAsked ==
  ASSUME PanelsAssumption, PanelsTypes, NEW p \in Page, Clicking(p)
  PROVE  PanelsTypes'
<1> USE DEF Kept
<1>a. /\ clicks \in Nat /\ changes \in Nat /\ clicks + 1 \in Nat /\ drawer[p].kind \in Kinds
      /\ "search" \in Reading => \A n \in Reading : output[p][n].answers \in Nat
      /\ \A n \in Reading : output[p][n].answers \in Nat
  BY DrawerFacts DEF PanelsTypes, PanelRecord
<1>b. \A what \in Reading \cup Drawing : Request(p, what, {}) \in RequestRecord
  BY <1>a, NewRequest
<1>1. ASSUME NEW n \in Reading, Ask(p, n) PROVE PanelsTypes'
  <2>1. output' \in [Page -> [Reading -> PanelRecord]]
    BY <1>1, <1>a, AskedFacts DEF Ask
  <2>2. requests' \subseteq RequestRecord
    BY <1>1, <1>b DEF Ask, Sends, PanelsTypes
  <2>3. QED
    BY <1>1, <1>a, <2>1, <2>2 DEF Ask, Click, PanelsTypes
<1>2. CASE AskBlank(p)
  <2>1. output' \in [Page -> [Reading -> PanelRecord]]
    BY <1>2, <1>a, AskedFacts DEF AskBlank
  <2>2. QED
    BY <1>2, <1>a, <2>1 DEF AskBlank, Click, PanelsTypes
<1>3. CASE Type(p)
  <2>1. drawer[p].draft \cup {changes + 1} \in SUBSET Nat
    BY <1>a, DrawerFacts
  <2>2. [drawer[p] EXCEPT !.draft = drawer[p].draft \cup {changes + 1}] \in DrawerRecord
    BY <2>1, DrawerFacts DEF DrawerRecord
  <2>3. QED
    BY <1>3, <1>a, <2>2 DEF Type, PanelsTypes
<1>4. ASSUME NEW what \in {"settings", "logs", "export"}, Open(p, what) PROVE PanelsTypes'
  <2>1. drawer' \in [Page -> DrawerRecord]
    BY <1>4, <1>a, WantedFacts DEF Open, Kinds
  <2>2. requests' \subseteq RequestRecord
    BY <1>4, <1>b DEF Open, Sends, Drawing, PanelsTypes
  <2>3. QED
    BY <1>4, <1>a, <2>1, <2>2 DEF Open, Click, PanelsTypes
<1>5. ASSUME NEW kind \in {"memory", "none"}, SetDrawer(p, kind) PROVE PanelsTypes'
  <2>1. drawer' \in [Page -> DrawerRecord]
    BY <1>5, <1>a, WantedFacts DEF SetDrawer, Kinds
  <2>2. QED
    BY <1>5, <1>a, <2>1 DEF SetDrawer, Click, PanelsTypes
<1>6. CASE SaveMemory(p)
  <2>1. drawer' \in [Page -> DrawerRecord]
    BY <1>6, <1>a, WantedFacts DEF SaveMemory, Kinds
  <2>2. requests' \subseteq RequestRecord
    BY <1>6, <1>b DEF SaveMemory, Sends, Drawing, PanelsTypes
  <2>3. QED
    BY <1>6, <1>a, <2>1, <2>2 DEF SaveMemory, Click, PanelsTypes
<1>7. CASE SaveSettings(p)
  <2>1. drawer' \in [Page -> DrawerRecord]
    BY <1>7, <1>a, WantedFacts DEF SaveSettings, Kinds
  <2>2. Request(p, "save", drawer[p].draft) \in RequestRecord
    BY <1>a, DrawerFacts, NewRequest DEF Drawing
  <2>3. requests' \subseteq RequestRecord
    BY <1>7, <2>2 DEF SaveSettings, PanelsTypes
  <2>4. tidy' \in BOOLEAN
    BY <1>7, DrawerFacts DEF SaveSettings, PanelsTypes
  <2>5. QED
    BY <1>7, <1>a, <2>1, <2>3, <2>4 DEF SaveSettings, Click, PanelsTypes
<1>8. CASE SaveGarbled(p)
  <2>1. drawer' \in [Page -> DrawerRecord]
    BY <1>8, <1>a, WantedFacts DEF SaveGarbled, Kinds
  <2>2. QED
    BY <1>8, <1>a, <2>1 DEF SaveGarbled, Click, PanelsTypes
<1>9. CASE ClearLogs(p)
  <2>1. drawer' \in [Page -> DrawerRecord]
    BY <1>9, <1>a, WantedFacts DEF ClearLogs, Kinds
  <2>2. requests' \subseteq RequestRecord
    BY <1>9, <1>b DEF ClearLogs, Sends, Drawing, PanelsTypes
  <2>3. QED
    BY <1>9, <1>a, <2>1, <2>2 DEF ClearLogs, Click, PanelsTypes
<1>10. QED
  BY <1>1, <1>2, <1>3, <1>4, <1>5, <1>6, <1>7, <1>8, <1>9 DEF Clicking

\* The document a page reads.
LEMMA GotFacts ==
  ASSUME PanelsTypes, NEW r \in requests, NEW doc \in SUBSET Nat
  PROVE  [r EXCEPT !.at = "answered", !.doc = doc] \in RequestRecord
<1>1. r \in RequestRecord
  BY RequestFacts
<1>2. QED
  BY <1>1 DEF RequestRecord

LEMMA TypesServed ==
  ASSUME PanelsTypes, NEW r \in requests, Serving(r)
  PROVE  PanelsTypes'
<1>1. CASE GetSettings(r)
  <2>1. ReadSettings.doc \in SUBSET Nat
    BY DEF PanelsTypes, ReadSettings
  <2>2. [r EXCEPT !.at = "answered", !.doc = ReadSettings.doc] \in RequestRecord
    BY <2>1, GotFacts
  <2>3. [r EXCEPT !.at = "failed"] \in RequestRecord
    BY RequestFacts
  <2>4. requests' \subseteq RequestRecord
    BY <1>1, <2>2, <2>3 DEF GetSettings, Goes, PanelsTypes
  <2>5. QED
    BY <1>1, <2>4 DEF GetSettings, bounds, PanelsTypes
<1>2. CASE Truncate(r)
  <2>1. \A q \in RequestRecord : [q EXCEPT !.fresh = FALSE] \in RequestRecord
    BY DEF RequestRecord
  <2>2. requests' \subseteq RequestRecord
    <3>1. \A q \in requests : [q EXCEPT !.at = "opened"] \in RequestRecord /\ q \in RequestRecord
      BY RequestFacts
    <3>2. QED
      BY <1>2, <2>1, <3>1 DEF Truncate
  <2>3. \A p \in Page : [drawer[p] EXCEPT !.fresh = FALSE] \in DrawerRecord
    BY DrawerFacts DEF DrawerRecord
  <2>4. drawer' \in [Page -> DrawerRecord]
    BY <1>2, <2>3 DEF Truncate
  <2>5. QED
    BY <1>2, <2>2, <2>4 DEF Truncate, Empty, bounds, PanelsTypes
<1>3. CASE Write(r)
  <2>1. r.doc \in SUBSET Nat
    BY RequestFacts
  <2>2. file' \in [is : {"whole", "empty", "mixed"}, doc : SUBSET Nat]
    BY <1>3, <2>1 DEF Write, Written, Whole, Mixed
  <2>3. requests' \subseteq RequestRecord
    BY <1>3, RequestFacts DEF Write, Goes, PanelsTypes
  <2>4. saved' \in SUBSET Nat
    BY <1>3, <2>1 DEF Write, PanelsTypes
  <2>5. QED
    BY <1>3, <2>2, <2>3, <2>4 DEF Write, bounds, PanelsTypes
<1>4. CASE Refuse(r)
  <2>1. requests' \subseteq RequestRecord
    BY <1>4, RequestFacts DEF Refuse, Goes, PanelsTypes
  <2>2. tidy' \in BOOLEAN
    BY <1>4 DEF Refuse, PanelsTypes
  <2>3. QED
    BY <1>4, <2>1, <2>2 DEF Refuse, PanelsTypes
<1>5. QED
  BY <1>1, <1>2, <1>3, <1>4 DEF Serving

LEMMA TypesDie ==
  ASSUME PanelsTypes, Die
  PROVE  PanelsTypes'
<1>1. requests' \subseteq RequestRecord
  BY RequestFacts DEF Die, PanelsTypes
<1>2. tidy' \in BOOLEAN
  BY DEF Die, PanelsTypes
<1>3. QED
  BY <1>1, <1>2 DEF Die, PanelsTypes

\* An answer or an error is shown on a page.
LEMMA TypesShown ==
  ASSUME PanelsTypes, NEW r \in requests, Showing(r)
  PROVE  PanelsTypes'
<1>a. /\ r.page \in Page /\ r.no \in Nat /\ drawer \in [Page -> DrawerRecord]
      /\ drawer[r.page] \in DrawerRecord /\ r.doc \in SUBSET Nat /\ r.fresh \in BOOLEAN
  BY RequestFacts, DrawerFacts DEF PanelsTypes
<1>b. \A d : d \in DrawerRecord /\ drawer' = [drawer EXCEPT ![r.page] = d] =>
        drawer' \in [Page -> DrawerRecord]
  BY <1>a
<1>c. Over(r) => requests' \subseteq RequestRecord
  BY DEF Over, PanelsTypes
<1>1. CASE ShowAnswer(r)
  <2>1. [output[r.page][r.what] EXCEPT !.answers = r.no, !.failed = FALSE] \in PanelRecord
    <3>1. output[r.page][r.what] \in PanelRecord
      BY <1>1, <1>a DEF ShowAnswer, PanelsTypes
    <3>2. QED
      BY <3>1, <1>a DEF PanelRecord
  <2>2. output' \in [Page -> [Reading -> PanelRecord]]
    BY <1>1, <2>1, <1>a DEF ShowAnswer, Answers, PanelsTypes
  <2>3. QED
    BY <1>1, <1>c, <2>2 DEF ShowAnswer, bounds, PanelsTypes
<1>2. CASE ShowError(r)
  <2>1. /\ [output[r.page][r.what] EXCEPT !.answers = r.no, !.failed = FALSE] \in PanelRecord
        /\ [output[r.page][r.what] EXCEPT !.failed = TRUE] \in PanelRecord
    <3>1. output[r.page][r.what] \in PanelRecord
      BY <1>2, <1>a DEF ShowError, PanelsTypes
    <3>2. QED
      BY <3>1, <1>a DEF PanelRecord
  <2>2. output' \in [Page -> [Reading -> PanelRecord]]
    BY <1>2, <2>1, <1>a DEF ShowError, Answers, PanelsTypes
  <2>3. QED
    BY <1>2, <1>c, <2>2 DEF ShowError, bounds, PanelsTypes
<1>3. CASE OpenDrawer(r)
  <2>1. NewForm(drawer[r.page], r) \in DrawerRecord
    BY <1>a DEF NewForm, DrawerRecord, Kinds
  <2>2. [drawer[r.page] EXCEPT !.kind = "logs", !.error = FALSE] \in DrawerRecord
    BY <1>a DEF DrawerRecord, Kinds
  <2>3. [drawer[r.page] EXCEPT !.kind = "export"] \in DrawerRecord
    BY <1>a DEF DrawerRecord, Kinds
  <2>4. drawer' \in [Page -> DrawerRecord]
    BY <1>3, <1>b, <2>1, <2>2, <2>3 DEF OpenDrawer
  <2>5. QED
    BY <1>3, <1>c, <2>4 DEF OpenDrawer, bounds, PanelsTypes
<1>4. CASE DrawerStays(r)
  <2>1. [drawer[r.page] EXCEPT !.failed = TRUE] \in DrawerRecord
    BY <1>a DEF DrawerRecord
  <2>2. drawer' \in [Page -> DrawerRecord]
    BY <1>4, <1>b, <2>1 DEF DrawerStays
  <2>3. QED
    BY <1>4, <1>c, <2>2 DEF DrawerStays, bounds, PanelsTypes
<1>5. CASE CloseDrawer(r)
  <2>1. [drawer[r.page] EXCEPT !.kind = "none"] \in DrawerRecord
    BY <1>a DEF DrawerRecord, Kinds
  <2>2. drawer' \in [Page -> DrawerRecord]
    BY <1>5, <1>b, <2>1 DEF CloseDrawer
  <2>3. QED
    BY <1>5, <1>c, <2>2 DEF CloseDrawer, bounds, PanelsTypes
<1>6. CASE CloseForm(r)
  <2>1. SettingsSaved(drawer[r.page]) \in DrawerRecord
    BY <1>a DEF SettingsSaved, DrawerRecord, Kinds
  <2>2. drawer' \in [Page -> DrawerRecord]
    BY <1>6, <1>b, <2>1 DEF CloseForm
  <2>3. \A q \in RequestRecord :
          [q EXCEPT !.what = "refresh", !.at = "sent", !.doc = {}, !.fresh = TRUE] \in RequestRecord
    BY DEF RequestRecord, Drawing
  <2>4. requests' \subseteq RequestRecord
    BY <1>6, <2>3 DEF CloseForm, PanelsTypes
  <2>5. QED
    BY <1>6, <2>2, <2>4 DEF CloseForm, bounds, PanelsTypes
<1>7. CASE DrawerError(r)
  <2>1. Erred(drawer[r.page], r) \in DrawerRecord
    BY <1>a DEF Erred, DrawerRecord
  <2>2. drawer' \in [Page -> DrawerRecord]
    BY <1>7, <1>b, <2>1 DEF DrawerError
  <2>3. QED
    BY <1>7, <1>c, <2>2 DEF DrawerError, bounds, PanelsTypes
<1>8. CASE DrawerDone(r)
  <2>1. [drawer[r.page] EXCEPT !.error = FALSE] \in DrawerRecord
    BY <1>a DEF DrawerRecord
  <2>2. drawer' \in [Page -> DrawerRecord]
    BY <1>8, <1>a, <1>b, <2>1 DEF DrawerDone
  <2>3. QED
    BY <1>8, <1>c, <2>2 DEF DrawerDone, bounds, PanelsTypes
<1>9. QED
  BY <1>1, <1>2, <1>3, <1>4, <1>5, <1>6, <1>7, <1>8 DEF Showing

LEMMA TypesStep ==
  ASSUME PanelsAssumption, PanelsTypes, [Next]_vars
  PROVE  PanelsTypes'
<1>1. CASE UNCHANGED vars
  BY <1>1 DEF vars, PanelsTypes
<1>2. QED
  BY <1>1, TypesAsked, TypesServed, TypesDie, TypesShown DEF Next

-----------------------------------------------------------------------------
(* The panels.                                                             *)

\* A panel asks for nothing that has to do with the drawer.
LEMMA Apart == PanelsAssumption => \A n \in Reading : n \notin Drawing
BY DEF PanelsAssumption, Drawing

LEMMA PanelsKept ==
  ASSUME PanelsRight, output' = output,
         \A r \in requests' : r.what \in Reading =>
           \E q \in requests : q.page = r.page /\ q.what = r.what /\ q.no = r.no,
         \A q \in requests : q.what \in Reading =>
           \E r \in requests' : r.page = q.page /\ r.what = q.what
  PROVE  PanelsRight'
BY DEF PanelsRight, Busy

\* A panel is asked something: of a calm one nothing else is asked.
LEMMA PanelsOnceAsked ==
  ASSUME PanelsTypes, PanelsRight, NEW p \in Page, NEW n \in Reading, NEW answers \in Nat,
         Asked(p, n, answers), NEW x, x.page = p, x.what = n, x.no = clicks + 1,
         \/ requests' = requests /\ answers = clicks + 1
         \/ requests' = requests \cup {x}
  PROVE  PanelsRight'
<1>1. /\ output'[p][n].asked = clicks + 1 /\ output'[p][n].answers = answers
      /\ output'[p][n].calm = (output[p][n].calm /\ ~ Busy(p, {n}))
      /\ \A q \in Page, m \in Reading : q # p \/ m # n => output'[q][m] = output[q][m]
  BY AskedFacts
<1>2. output'[p][n].calm => \A r \in requests : ~ (r.page = p /\ r.what = n)
  <2>1. output[p][n].calm \in BOOLEAN
    BY DEF PanelsTypes, PanelRecord
  <2>2. QED
    BY <1>1, <2>1 DEF Busy
<1>3. ASSUME NEW q \in Page, NEW m \in Reading, output'[q][m].calm
      PROVE  /\ \A r \in requests' : r.page = q /\ r.what = m => r.no = output'[q][m].asked
             /\ \/ Busy(q, {m})'
                \/ output'[q][m].answers = output'[q][m].asked
                \/ output'[q][m].failed /\ m # "search"
  <2>1. CASE q = p /\ m = n
    BY <1>1, <1>2, <1>3, <2>1 DEF Busy
  <2>2. CASE q # p \/ m # n
    <3>1. output'[q][m] = output[q][m]
      BY <1>1, <2>2
    <3>2. \A r : r.page = q /\ r.what = m => (r \in requests' <=> r \in requests)
      BY <2>2
    <3>3. QED
      BY <1>3, <3>1, <3>2 DEF PanelsRight, Busy
  <2>3. QED
    BY <2>1, <2>2
<1>4. QED
  BY <1>3 DEF PanelsRight

LEMMA PanelsAsked ==
  ASSUME PanelsAssumption, PanelsTypes, PanelsRight, NEW p \in Page, Clicking(p)
  PROVE  PanelsRight'
<1>a. /\ clicks \in Nat /\ clicks + 1 \in Nat /\ drawer[p].draft \in SUBSET Nat
      /\ \A n \in Reading : output[p][n].answers \in Nat
  BY DrawerFacts DEF PanelsTypes, PanelRecord
<1>b. \A what \in Reading \cup Drawing, doc \in SUBSET Nat :
        /\ Request(p, what, doc).page = p /\ Request(p, what, doc).what = what
        /\ Request(p, what, doc).no = clicks + 1
  BY <1>a, NewRequest
<1>1. ASSUME NEW n \in Reading, Ask(p, n) PROVE PanelsRight'
  <2> DEFINE x == Request(p, n, {})
             answers == output[p][n].answers
  <2>1. Asked(p, n, answers) /\ answers \in Nat /\ requests' = requests \cup {x}
    BY <1>1, <1>a DEF Ask, Sends
  <2>2. x.page = p /\ x.what = n /\ x.no = clicks + 1
    BY <1>b
  <2> HIDE DEF x, answers
  <2>3. QED
    BY <2>1, <2>2, PanelsOnceAsked
<1>2. CASE AskBlank(p)
  <2> DEFINE n == "search"
             x == Request(p, n, {})
             answers == clicks + 1
  <2>1. n \in Reading /\ Asked(p, n, answers) /\ requests' = requests
    BY <1>2 DEF AskBlank
  <2>2. x.page = p /\ x.what = n /\ x.no = clicks + 1 /\ answers \in Nat /\ answers = clicks + 1
    BY <1>a, <1>b, <2>1
  <2> HIDE DEF n, x, answers
  <2>3. QED
    BY <2>1, <2>2, PanelsOnceAsked
<1>3. CASE Type(p) \/ (\E kind \in {"memory", "none"} : SetDrawer(p, kind)) \/ SaveGarbled(p)
  <2>1. output' = output /\ requests' = requests
    BY <1>3 DEF Type, SetDrawer, SaveGarbled
  <2>2. QED
    BY <2>1, PanelsKept
<1>4. CASE \/ \E what \in {"settings", "logs", "export"} : Open(p, what)
           \/ SaveMemory(p) \/ SaveSettings(p) \/ ClearLogs(p)
  <2>1. PICK what \in Drawing, doc \in SUBSET Nat :
          output' = output /\ requests' = requests \cup {Request(p, what, doc)}
    BY <1>4, <1>a DEF Open, SaveMemory, SaveSettings, ClearLogs, Sends, Drawing
  <2>2. Request(p, what, doc).what \notin Reading
    BY <1>b, Apart
  <2>3. QED
    BY <2>1, <2>2, PanelsKept
<1>5. QED
  BY <1>1, <1>2, <1>3, <1>4 DEF Clicking

\* What the worker does, and its death, leaves every request with its page, its question
\* and its number.
LEMMA ServedFacts ==
  ASSUME PanelsTypes, Die \/ \E r \in requests : Serving(r)
  PROVE  \E g : /\ requests' = {g[q] : q \in requests}
                /\ \A q \in requests : g[q].page = q.page /\ g[q].what = q.what /\ g[q].no = q.no
<1>a. \A q \in RequestRecord : \A at, doc :
        LET goes == [q EXCEPT !.at = at]
            got == [q EXCEPT !.at = at, !.doc = doc]
            old == [q EXCEPT !.fresh = FALSE]
        IN  /\ goes.page = q.page /\ goes.what = q.what /\ goes.no = q.no
            /\ got.page = q.page /\ got.what = q.what /\ got.no = q.no
            /\ old.page = q.page /\ old.what = q.what /\ old.no = q.no
  BY DEF RequestRecord
<1>b. requests \subseteq RequestRecord
  BY DEF PanelsTypes
<1>1. CASE Die
  <2>1. PICK unsent :
          requests' = {IF q.at \in {"sent", "opened"} \/ q \in unsent
                       THEN [q EXCEPT !.at = "failed"] ELSE q : q \in requests}
    BY <1>1 DEF Die
  <2> DEFINE g == [q \in requests |-> IF q.at \in {"sent", "opened"} \/ q \in unsent
                                      THEN [q EXCEPT !.at = "failed"] ELSE q]
  <2>2. requests' = {g[q] : q \in requests}
    BY <2>1
  <2>3. \A q \in requests : g[q].page = q.page /\ g[q].what = q.what /\ g[q].no = q.no
    BY <1>a, <1>b
  <2>4. QED
    BY <2>2, <2>3
<1>2. ASSUME NEW r \in requests, NEW x, requests' = (requests \ {r}) \cup {x},
             x.page = r.page, x.what = r.what, x.no = r.no
      PROVE  \E g : /\ requests' = {g[q] : q \in requests}
                    /\ \A q \in requests : g[q].page = q.page /\ g[q].what = q.what /\ g[q].no = q.no
  <2> DEFINE g == [q \in requests |-> IF q = r THEN x ELSE q]
  <2>1. requests' = {g[q] : q \in requests}
    BY <1>2
  <2>2. \A q \in requests : g[q].page = q.page /\ g[q].what = q.what /\ g[q].no = q.no
    BY <1>2
  <2>3. QED
    BY <2>1, <2>2
<1>3. ASSUME NEW r \in requests, GetSettings(r)
      PROVE  \E x : /\ requests' = (requests \ {r}) \cup {x}
                    /\ x.page = r.page /\ x.what = r.what /\ x.no = r.no
  <2> DEFINE got == [r EXCEPT !.at = "answered", !.doc = ReadSettings.doc]
             gone == [r EXCEPT !.at = "failed"]
  <2>1. /\ got.page = r.page /\ got.what = r.what /\ got.no = r.no
        /\ gone.page = r.page /\ gone.what = r.what /\ gone.no = r.no
    BY <1>b DEF RequestRecord
  <2>2. requests' = (requests \ {r}) \cup {got} \/ requests' = (requests \ {r}) \cup {gone}
    BY <1>3 DEF GetSettings, Goes
  <2> HIDE DEF got, gone
  <2>3. QED
    BY <2>1, <2>2
<1>4. ASSUME NEW r \in requests, Write(r) \/ Refuse(r)
      PROVE  \E x : /\ requests' = (requests \ {r}) \cup {x}
                    /\ x.page = r.page /\ x.what = r.what /\ x.no = r.no
  BY <1>4, <1>a, <1>b DEF Write, Refuse, Goes
<1>5. ASSUME NEW r \in requests, Truncate(r)
      PROVE  \E g : /\ requests' = {g[q] : q \in requests}
                    /\ \A q \in requests : g[q].page = q.page /\ g[q].what = q.what /\ g[q].no = q.no
  <2> DEFINE g == [q \in requests |-> IF q = r THEN [q EXCEPT !.at = "opened"]
                                      ELSE IF q.at = "answered" THEN [q EXCEPT !.fresh = FALSE] ELSE q]
  <2>1. requests' = {g[q] : q \in requests}
    BY <1>5 DEF Truncate
  <2>2. \A q \in requests : g[q].page = q.page /\ g[q].what = q.what /\ g[q].no = q.no
    BY <1>a, <1>b
  <2>3. QED
    BY <2>1, <2>2
<1>6. QED
  BY <1>1, <1>2, <1>3, <1>4, <1>5 DEF Serving

LEMMA PanelsServed ==
  ASSUME PanelsTypes, PanelsRight, Die \/ \E r \in requests : Serving(r)
  PROVE  PanelsRight'
<1>1. output' = output
  BY DEF Die, Serving, GetSettings, Truncate, Write, Refuse
<1>2. PICK g : /\ requests' = {g[q] : q \in requests}
               /\ \A q \in requests : g[q].page = q.page /\ g[q].what = q.what /\ g[q].no = q.no
  BY ServedFacts
<1>3. QED
  BY <1>1, <1>2, PanelsKept

LEMMA PanelsShown ==
  ASSUME PanelsAssumption, PanelsTypes, PanelsRight, NEW r \in requests, Showing(r)
  PROVE  PanelsRight'
<1>a. r.page \in Page /\ r.what \in Reading \cup Drawing
  BY RequestFacts
<1>1. CASE ShowAnswer(r) \/ ShowError(r)
  <2>1. r.what \in Reading /\ requests' = requests \ {r}
    BY <1>1 DEF ShowAnswer, ShowError, Over
  <2>2. output \in [Page -> [Reading -> PanelRecord]] /\ output[r.page][r.what] \in PanelRecord
    BY <1>a, <2>1 DEF PanelsTypes
  <2>3. PICK panel :
          /\ output' = [output EXCEPT ![r.page][r.what] = panel]
          /\ panel.calm = output[r.page][r.what].calm /\ panel.asked = output[r.page][r.what].asked
          /\ panel.answers = r.no \/ (panel.failed /\ r.what # "search")
    <3>1. LET panel == [output[r.page][r.what] EXCEPT !.answers = r.no, !.failed = FALSE]
          IN  /\ panel.calm = output[r.page][r.what].calm /\ panel.asked = output[r.page][r.what].asked
              /\ panel.answers = r.no
      BY <2>2 DEF PanelRecord
    <3>2. LET panel == [output[r.page][r.what] EXCEPT !.failed = TRUE]
          IN  /\ panel.calm = output[r.page][r.what].calm /\ panel.asked = output[r.page][r.what].asked
              /\ panel.failed
      BY <2>2 DEF PanelRecord
    <3>3. CASE ShowAnswer(r)
      BY <3>1, <3>3 DEF ShowAnswer, Answers
    <3>4. CASE ShowError(r)
      BY <3>1, <3>2, <3>4 DEF ShowError, Answers, Told
    <3>5. QED
      BY <1>1, <3>3, <3>4
  <2>4. /\ output'[r.page][r.what] = panel
        /\ \A q \in Page, m \in Reading : q # r.page \/ m # r.what => output'[q][m] = output[q][m]
    BY <1>a, <2>1, <2>2, <2>3
  <2>5. QED
    BY <1>a, <2>1, <2>3, <2>4 DEF PanelsRight, Busy
<1>2. CASE OpenDrawer(r) \/ DrawerStays(r) \/ CloseDrawer(r) \/ DrawerError(r) \/ DrawerDone(r)
  <2>1. output' = output /\ requests' = requests \ {r} /\ r.what \notin Reading
    BY <1>2, Apart DEF OpenDrawer, DrawerStays, CloseDrawer, DrawerError, DrawerDone, Over, Drawing
  <2>2. QED
    BY <2>1, PanelsKept
<1>3. CASE CloseForm(r)
  <2> DEFINE q == [r EXCEPT !.what = "refresh", !.at = "sent", !.doc = {}, !.fresh = TRUE]
  <2>1. output' = output /\ requests' = (requests \ {r}) \cup {q} /\ r.what = "save"
    BY <1>3 DEF CloseForm
  <2>2. q.what = "refresh"
    BY RequestFacts DEF RequestRecord
  <2>3. r.what \notin Reading /\ q.what \notin Reading
    BY <2>1, <2>2, Apart DEF Drawing
  <2> HIDE DEF q
  <2>4. QED
    BY <2>1, <2>3, PanelsKept
<1>4. QED
  BY <1>1, <1>2, <1>3 DEF Showing

-----------------------------------------------------------------------------
(* The drawer.                                                             *)
\* What a drawer shows and waits for is left alone.
SameDrawer(d, e) ==
  /\ d.calm = e.calm /\ d.kind = e.kind /\ d.wants = e.wants /\ d.failed = e.failed
  /\ d.error = e.error /\ d.refused = e.refused

LEMMA DrawersKept ==
  ASSUME DrawersRight, \A p \in Page : SameDrawer(drawer'[p], drawer[p]),
         \A r : r.what \in Drawing => (r \in requests' <=> r \in requests)
  PROVE  DrawersRight'
BY DEF DrawersRight, SameDrawer, Busy, Drawn, Promised

LEMMA DrawersMapped ==
  ASSUME DrawersRight, \A p \in Page : SameDrawer(drawer'[p], drawer[p]),
         NEW g, requests' = {g[q] : q \in requests},
         \A q \in requests : g[q].page = q.page /\ g[q].what = q.what /\ g[q].no = q.no
  PROVE  DrawersRight'
<1> SUFFICES ASSUME NEW p \in Page, drawer[p].calm
             PROVE  /\ \A x, y \in requests' : Drawn(x, p) /\ Drawn(y, p) => x = y
                    /\ \A x \in requests' : Drawn(x, p) => Promised(x, drawer'[p].kind, drawer'[p].wants)
                    /\ \/ Busy(p, Drawing)'
                       \/ drawer'[p].kind = drawer'[p].wants
                       \/ drawer'[p].failed
                    /\ drawer'[p].kind = "settings" => drawer'[p].error = drawer'[p].refused
  BY DEF DrawersRight, SameDrawer, Drawn, Promised
<1>1. \A q \in requests : Drawn(g[q], p) <=> Drawn(q, p)
  BY DEF Drawn
<1>2. \A q \in requests : Promised(q, drawer[p].kind, drawer[p].wants) =>
                           Promised(g[q], drawer'[p].kind, drawer'[p].wants)
  BY DEF Promised, SameDrawer
<1>3. Busy(p, Drawing) => Busy(p, Drawing)'
  BY DEF Busy
<1>4. QED
  BY <1>1, <1>2, <1>3 DEF DrawersRight, SameDrawer

\* A click asks something of the drawer: of a calm one nothing else is asked.
LEMMA DrawersWanted ==
  ASSUME PanelsTypes, DrawersRight, NEW p \in Page,
         NEW wants \in Kinds, NEW kind \in Kinds, NEW error \in BOOLEAN, Wanted(p, wants, kind, error),
         kind = "settings" => drawer[p].kind = "settings",
         NEW x, x.page = p, x.what \in Drawing,
         \/ requests' = requests /\ kind = wants
         \/ requests' = requests \cup {x} /\ Promised(x, kind, wants)
  PROVE  DrawersRight'
<1>1. /\ drawer'[p].kind = kind /\ drawer'[p].wants = wants
      /\ drawer'[p].calm => drawer[p].calm /\ ~ Busy(p, Drawing)
      /\ drawer'[p].error = (drawer[p].error \/ error)
      /\ drawer'[p].refused = (drawer[p].refused \/ error)
      /\ \A q \in Page : q # p => drawer'[q] = drawer[q]
  <2>1. /\ drawer'[p].kind = kind /\ drawer'[p].wants = wants
        /\ drawer'[p].calm = (drawer[p].calm /\ ~ Busy(p, Drawing))
        /\ drawer'[p].error = (drawer[p].error \/ error)
        /\ drawer'[p].refused = (drawer[p].refused \/ error)
        /\ \A q \in Page : q # p => drawer'[q] = drawer[q]
    BY WantedFacts
  <2>2. drawer[p].calm \in BOOLEAN
    BY DrawerFacts
  <2>3. QED
    BY <2>1, <2>2
<1>2. ASSUME NEW q \in Page, q # p, drawer'[q].calm
      PROVE  /\ \A r, s \in requests' : Drawn(r, q) /\ Drawn(s, q) => r = s
             /\ \A r \in requests' : Drawn(r, q) => Promised(r, drawer'[q].kind, drawer'[q].wants)
             /\ \/ Busy(q, Drawing)'
                \/ drawer'[q].kind = drawer'[q].wants
                \/ drawer'[q].failed
             /\ drawer'[q].kind = "settings" => drawer'[q].error = drawer'[q].refused
  <2>1. drawer'[q] = drawer[q]
    BY <1>1, <1>2
  <2>2. \A r : Drawn(r, q) => (r \in requests' <=> r \in requests)
    BY <1>2 DEF Drawn
  <2>3. QED
    BY <1>2, <2>1, <2>2 DEF DrawersRight, Busy, Drawn
<1>3. ASSUME drawer'[p].calm
      PROVE  /\ \A r, s \in requests' : Drawn(r, p) /\ Drawn(s, p) => r = s
             /\ \A r \in requests' : Drawn(r, p) => Promised(r, drawer'[p].kind, drawer'[p].wants)
             /\ \/ Busy(p, Drawing)'
                \/ drawer'[p].kind = drawer'[p].wants
                \/ drawer'[p].failed
             /\ drawer'[p].kind = "settings" => drawer'[p].error = drawer'[p].refused
  <2>1. drawer[p].calm /\ \A r \in requests : ~ Drawn(r, p)
    BY <1>1, <1>3 DEF Busy, Drawn
  <2>2. drawer'[p].kind = "settings" => drawer'[p].error = drawer'[p].refused
    BY <1>1, <2>1 DEF DrawersRight
  <2>3. CASE requests' = requests /\ kind = wants
    BY <1>1, <2>1, <2>2, <2>3
  <2>4. CASE requests' = requests \cup {x} /\ Promised(x, kind, wants)
    BY <1>1, <2>1, <2>2, <2>4 DEF Busy
  <2>5. QED
    BY <2>3, <2>4
<1>4. QED
  BY <1>2, <1>3 DEF DrawersRight, Drawn, Promised

\* A request of a page ends, or becomes the refresh after a save.
LEMMA DrawersEnded ==
  ASSUME DrawersRight, NEW r \in requests, r.page \in Page, r.what \in Drawing,
         \A q \in Page : q # r.page => drawer'[q] = drawer[q],
         drawer'[r.page].calm = drawer[r.page].calm,
         NEW x, x.page = r.page, x.what \in Drawing,
         requests' = requests \ {r} \/ requests' = (requests \ {r}) \cup {x},
         drawer[r.page].calm =>
           /\ requests' = (requests \ {r}) \cup {x} =>
                Promised(x, drawer'[r.page].kind, drawer'[r.page].wants)
           /\ drawer'[r.page].kind = drawer'[r.page].wants \/ drawer'[r.page].failed
           /\ drawer'[r.page].kind = "settings" => drawer'[r.page].error = drawer'[r.page].refused
  PROVE  DrawersRight'
<1> DEFINE p == r.page
<1>1. ASSUME NEW q \in Page, q # p, drawer'[q].calm
      PROVE  /\ \A s, t \in requests' : Drawn(s, q) /\ Drawn(t, q) => s = t
             /\ \A s \in requests' : Drawn(s, q) => Promised(s, drawer'[q].kind, drawer'[q].wants)
             /\ \/ Busy(q, Drawing)'
                \/ drawer'[q].kind = drawer'[q].wants
                \/ drawer'[q].failed
             /\ drawer'[q].kind = "settings" => drawer'[q].error = drawer'[q].refused
  <2>1. drawer'[q] = drawer[q]
    BY <1>1
  <2>2. \A s : Drawn(s, q) => (s \in requests' <=> s \in requests)
    BY <1>1 DEF Drawn
  <2>3. QED
    BY <1>1, <2>1, <2>2 DEF DrawersRight, Busy, Drawn
<1>2. ASSUME drawer'[p].calm
      PROVE  /\ \A s, t \in requests' : Drawn(s, p) /\ Drawn(t, p) => s = t
             /\ \A s \in requests' : Drawn(s, p) => Promised(s, drawer'[p].kind, drawer'[p].wants)
             /\ \/ Busy(p, Drawing)'
                \/ drawer'[p].kind = drawer'[p].wants
                \/ drawer'[p].failed
             /\ drawer'[p].kind = "settings" => drawer'[p].error = drawer'[p].refused
  <2>1. drawer[p].calm /\ \A s \in requests : Drawn(s, p) => s = r
    BY <1>2 DEF DrawersRight, Drawn
  <2>2. \A s \in requests' : Drawn(s, p) => s = x /\ requests' = (requests \ {r}) \cup {x}
    BY <2>1
  <2>3. QED
    BY <2>1, <2>2
<1>3. QED
  BY <1>1, <1>2 DEF DrawersRight, Drawn, Promised

LEMMA DrawersAsked ==
  ASSUME PanelsAssumption, PanelsTypes, DrawersRight, NEW p \in Page, Clicking(p)
  PROVE  DrawersRight'
<1>a. /\ clicks \in Nat /\ drawer[p].kind \in Kinds /\ drawer[p].draft \in SUBSET Nat
      /\ drawer \in [Page -> DrawerRecord]
      /\ TRUE \in BOOLEAN /\ FALSE \in BOOLEAN
  BY DrawerFacts DEF PanelsTypes
<1>b. \A what \in Reading \cup Drawing, doc \in SUBSET Nat :
        Request(p, what, doc).page = p /\ Request(p, what, doc).what = what
  BY <1>a, NewRequest
<1>1. CASE (\E n \in Reading : Ask(p, n)) \/ AskBlank(p)
  <2>1. /\ drawer' = drawer
        /\ requests' = requests \/ \E n \in Reading : requests' = requests \cup {Request(p, n, {})}
    BY <1>1 DEF Ask, AskBlank, Sends
  <2>2. \A r : r.what \in Drawing => (r \in requests' <=> r \in requests)
    BY <2>1, <1>b, Apart
  <2>3. QED
    BY <2>1, <2>2, DrawersKept DEF SameDrawer
<1>2. CASE Type(p)
  <2> DEFINE draft == drawer[p].draft \cup {changes + 1}
             d == [drawer[p] EXCEPT !.draft = draft]
  <2>1. requests' = requests /\ drawer' = [drawer EXCEPT ![p] = d]
    BY <1>2 DEF Type
  <2>2. drawer[p] \in DrawerRecord
    BY <1>a
  <2> HIDE DEF draft
  <2>3. SameDrawer(d, drawer[p])
    BY <2>2 DEF DrawerRecord, SameDrawer
  <2> HIDE DEF d
  <2>4. \A q \in Page : SameDrawer(drawer'[q], drawer[q])
    <3>1. drawer'[p] = d /\ \A q \in Page : q # p => drawer'[q] = drawer[q]
      BY <1>a, <2>1
    <3>2. QED
      BY <2>3, <3>1 DEF SameDrawer
  <2>5. QED
    BY <2>1, <2>4, DrawersKept
<1>3. ASSUME NEW what \in {"settings", "logs", "export"}, Open(p, what) PROVE DrawersRight'
  <2> DEFINE x == Request(p, what, {})
  <2>1. /\ what \in Kinds /\ Wanted(p, what, drawer[p].kind, FALSE)
        /\ requests' = requests \cup {x}
    BY <1>3 DEF Open, Kept, Sends, Kinds
  <2>2. x.page = p /\ x.what = what /\ x.what \in Drawing
    BY <1>b DEF Drawing
  <2>3. Promised(x, drawer[p].kind, what)
    BY <2>2 DEF Promised
  <2> HIDE DEF x
  <2>4. QED
    BY <1>a, <2>1, <2>2, <2>3, DrawersWanted
<1>4. ASSUME NEW kind \in {"memory", "none"}, SetDrawer(p, kind) PROVE DrawersRight'
  <2> DEFINE x == Request(p, "logs", {})
  <2>1. kind \in Kinds /\ kind # "settings" /\ Wanted(p, kind, kind, FALSE) /\ requests' = requests
    BY <1>4 DEF SetDrawer, Kinds
  <2>2. x.page = p /\ x.what \in Drawing
    BY <1>b DEF Drawing
  <2> HIDE DEF x
  <2>3. QED
    BY <1>a, <2>1, <2>2, DrawersWanted
<1>5. CASE SaveMemory(p)
  <2> DEFINE x == Request(p, "memory", {})
  <2>1. /\ "none" \in Kinds /\ Wanted(p, "none", drawer[p].kind, FALSE)
        /\ requests' = requests \cup {x}
    BY <1>5 DEF SaveMemory, Kept, Sends, Kinds
  <2>2. x.page = p /\ x.what = "memory" /\ x.what \in Drawing
    BY <1>b DEF Drawing
  <2>3. Promised(x, drawer[p].kind, "none")
    BY <2>2 DEF Promised
  <2> HIDE DEF x
  <2>4. QED
    BY <1>a, <2>1, <2>2, <2>3, DrawersWanted
<1>6. CASE SaveSettings(p)
  <2> DEFINE x == Request(p, "save", drawer[p].draft)
  <2>1. /\ "none" \in Kinds /\ Wanted(p, "none", drawer[p].kind, FALSE)
        /\ requests' = requests \cup {x}
    BY <1>6 DEF SaveSettings, Kept, Kinds
  <2>2. x.page = p /\ x.what = "save" /\ x.what \in Drawing
    BY <1>a, <1>b DEF Drawing
  <2>3. Promised(x, drawer[p].kind, "none")
    BY <2>2 DEF Promised
  <2> HIDE DEF x
  <2>4. QED
    BY <1>a, <2>1, <2>2, <2>3, DrawersWanted
<1>7. CASE SaveGarbled(p)
  <2> DEFINE x == Request(p, "logs", {})
  <2>1. /\ "settings" \in Kinds /\ drawer[p].kind = "settings"
        /\ Wanted(p, "settings", "settings", TRUE) /\ requests' = requests
    BY <1>7 DEF SaveGarbled, Kept, Kinds
  <2>2. x.page = p /\ x.what \in Drawing
    BY <1>b DEF Drawing
  <2> HIDE DEF x
  <2>3. QED
    BY <1>a, <2>1, <2>2, DrawersWanted
<1>8. CASE ClearLogs(p)
  <2> DEFINE x == Request(p, "clear", {})
  <2>1. /\ "logs" \in Kinds /\ Wanted(p, "logs", "logs", FALSE)
        /\ requests' = requests \cup {x}
    BY <1>8 DEF ClearLogs, Kept, Sends, Kinds
  <2>2. x.page = p /\ x.what = "clear" /\ x.what \in Drawing
    BY <1>b DEF Drawing
  <2>3. Promised(x, "logs", "logs")
    BY <2>2 DEF Promised
  <2> HIDE DEF x
  <2>4. QED
    BY <1>a, <2>1, <2>2, <2>3, DrawersWanted
<1>9. QED
  BY <1>1, <1>2, <1>3, <1>4, <1>5, <1>6, <1>7, <1>8 DEF Clicking

LEMMA DrawersServed ==
  ASSUME PanelsTypes, DrawersRight, Die \/ \E r \in requests : Serving(r)
  PROVE  DrawersRight'
<1>1. \A p \in Page : SameDrawer(drawer'[p], drawer[p])
  <2>1. CASE drawer' = drawer
    BY <2>1 DEF SameDrawer
  <2>2. CASE drawer' = [p \in Page |-> [drawer[p] EXCEPT !.fresh = FALSE]]
    <3>1. \A d \in DrawerRecord : SameDrawer([d EXCEPT !.fresh = FALSE], d)
      BY DEF DrawerRecord, SameDrawer
    <3>2. QED
      BY <2>2, <3>1 DEF PanelsTypes
  <2>3. QED
    BY <2>1, <2>2 DEF Die, Serving, GetSettings, Truncate, Write, Refuse
<1>2. PICK g : /\ requests' = {g[q] : q \in requests}
               /\ \A q \in requests : g[q].page = q.page /\ g[q].what = q.what /\ g[q].no = q.no
  BY ServedFacts
<1>3. QED
  BY <1>1, <1>2, DrawersMapped

LEMMA DrawersShown ==
  ASSUME PanelsAssumption, PanelsTypes, DrawersRight, NEW r \in requests, Showing(r)
  PROVE  DrawersRight'
<1> DEFINE d == drawer[r.page]
<1>a. r.page \in Page /\ d \in DrawerRecord /\ drawer \in [Page -> DrawerRecord]
  BY RequestFacts, DrawerFacts DEF PanelsTypes
<1>b. d.calm => /\ r.what \in Drawing => Promised(r, d.kind, d.wants)
                /\ d.kind = "settings" => d.error = d.refused
  BY <1>a DEF DrawersRight, Drawn
\* The request ends, and its drawer becomes e.
<1>c. ASSUME NEW e, drawer' = [drawer EXCEPT ![r.page] = e], requests' = requests \ {r},
             r.what \in Drawing, e.calm = d.calm,
             d.calm => /\ e.kind = e.wants \/ e.failed
                       /\ e.kind = "settings" => e.error = e.refused
      PROVE  DrawersRight'
  <2>1. drawer'[r.page] = e /\ \A q \in Page : q # r.page => drawer'[q] = drawer[q]
    BY <1>a, <1>c
  <2>2. requests' # (requests \ {r}) \cup {r}
    BY <1>c
  <2>3. QED
    BY <1>a, <1>c, <2>1, <2>2, DrawersEnded
<1> HIDE DEF d
<1>1. CASE ShowAnswer(r) \/ ShowError(r)
  <2>1. drawer' = drawer /\ requests' = requests \ {r} /\ r.what \in Reading
    BY <1>1 DEF ShowAnswer, ShowError, Over
  <2>2. QED
    BY <2>1, Apart, DrawersKept DEF SameDrawer
<1>2. CASE OpenDrawer(r)
  <2>1. /\ NewForm(d, r).calm = d.calm /\ NewForm(d, r).kind = "settings"
        /\ NewForm(d, r).wants = d.wants /\ NewForm(d, r).error = NewForm(d, r).refused
    BY <1>a DEF NewForm, DrawerRecord
  <2> DEFINE logs == [d EXCEPT !.kind = "logs", !.error = FALSE]
             export == [d EXCEPT !.kind = "export"]
  <2>2. logs.calm = d.calm /\ logs.kind = "logs" /\ logs.wants = d.wants
    BY <1>a DEF DrawerRecord
  <2>3. export.calm = d.calm /\ export.kind = "export" /\ export.wants = d.wants
    BY <1>a DEF DrawerRecord
  <2>4. /\ requests' = requests \ {r}
        /\ \/ r.what = "settings" /\ drawer' = [drawer EXCEPT ![r.page] = NewForm(d, r)]
           \/ r.what = "logs" /\ drawer' = [drawer EXCEPT ![r.page] = logs]
           \/ r.what = "export" /\ drawer' = [drawer EXCEPT ![r.page] = export]
    BY <1>2 DEF OpenDrawer, Over, d
  <2> HIDE DEF logs, export
  <2>5. d.calm => d.wants = r.what
    BY <1>b, <2>4 DEF Promised, Drawing
  <2>6. QED
    BY <1>c, <2>1, <2>2, <2>3, <2>4, <2>5 DEF Drawing
<1>3. CASE DrawerStays(r)
  <2> DEFINE e == [d EXCEPT !.failed = TRUE]
  <2>1. /\ e.calm = d.calm /\ e.kind = d.kind /\ e.wants = d.wants
        /\ e.error = d.error /\ e.refused = d.refused /\ e.failed
    BY <1>a DEF DrawerRecord
  <2>2. /\ requests' = requests \ {r} /\ r.what \in Drawing
        /\ drawer' = [drawer EXCEPT ![r.page] = e]
    BY <1>3 DEF DrawerStays, Over, Drawing, d
  <2> HIDE DEF e
  <2>3. QED
    BY <1>b, <1>c, <2>1, <2>2
<1>4. CASE CloseDrawer(r)
  <2> DEFINE e == [d EXCEPT !.kind = "none"]
  <2>1. e.calm = d.calm /\ e.kind = "none" /\ e.wants = d.wants
    BY <1>a DEF DrawerRecord
  <2>2. /\ requests' = requests \ {r} /\ r.what = "memory"
        /\ drawer' = [drawer EXCEPT ![r.page] = e]
    BY <1>4 DEF CloseDrawer, Over, d
  <2> HIDE DEF e
  <2>3. r.what \in Drawing /\ (d.calm => d.wants = "none")
    BY <1>b, <2>2 DEF Promised, Drawing
  <2>4. QED
    BY <1>c, <2>1, <2>2, <2>3
<1>5. CASE CloseForm(r)
  <2> DEFINE x == [r EXCEPT !.what = "refresh", !.at = "sent", !.doc = {}, !.fresh = TRUE]
             e == SettingsSaved(d)
  <2>1. e.calm = d.calm /\ e.kind = "none" /\ e.wants = d.wants
    BY <1>a DEF DrawerRecord, SettingsSaved
  <2>2. /\ requests' = (requests \ {r}) \cup {x} /\ r.what = "save"
        /\ drawer' = [drawer EXCEPT ![r.page] = e]
    BY <1>5 DEF CloseForm, d
  <2>3. x.page = r.page /\ x.what = "refresh"
    BY RequestFacts DEF RequestRecord
  <2> HIDE DEF x, e
  <2>4. r.what \in Drawing /\ x.what \in Drawing /\ (d.calm => d.wants = "none")
    BY <1>b, <2>2, <2>3 DEF Promised, Drawing
  <2>5. drawer'[r.page] = e /\ \A q \in Page : q # r.page => drawer'[q] = drawer[q]
    BY <1>a, <2>2
  <2>6. d.calm => Promised(x, e.kind, e.wants)
    BY <2>1, <2>3, <2>4 DEF Promised
  <2>7. drawer[r.page] = d /\ e.kind # "settings"
    BY <2>1 DEF d
  <2>8. QED
    BY <1>a, <2>1, <2>2, <2>3, <2>4, <2>5, <2>6, <2>7, DrawersEnded
<1>6. CASE DrawerError(r)
  <2> DEFINE e == Erred(d, r)
  <2>1. /\ e.calm = d.calm /\ e.kind = d.kind /\ e.wants = d.wants
        /\ r.what = "save" => e.failed /\ e.error = e.refused
    BY <1>a DEF Erred, DrawerRecord
  <2>2. /\ requests' = requests \ {r} /\ r.what \in {"save", "refresh", "clear"}
        /\ drawer' = [drawer EXCEPT ![r.page] = e]
    BY <1>6 DEF DrawerError, Over, d
  <2> HIDE DEF e
  <2>3. r.what \in Drawing
    BY <2>2 DEF Drawing
  <2>4. d.calm /\ r.what # "save" => d.kind = d.wants /\ d.kind # "settings"
    BY <1>b, <2>2, <2>3 DEF Promised
  <2>5. QED
    BY <1>c, <2>1, <2>2, <2>3, <2>4
<1>7. CASE DrawerDone(r)
  <2> DEFINE e == [d EXCEPT !.error = FALSE]
  <2>1. e.calm = d.calm /\ e.kind = d.kind /\ e.wants = d.wants
    BY <1>a DEF DrawerRecord
  <2>2. /\ requests' = requests \ {r} /\ r.what \in {"clear", "refresh"}
        /\ drawer' = [drawer EXCEPT ![r.page] = e] \/ drawer' = [drawer EXCEPT ![r.page] = d]
    BY <1>a, <1>7 DEF DrawerDone, Over, d
  <2> HIDE DEF e
  <2>3. r.what \in Drawing
    BY <2>2 DEF Drawing
  <2>4. d.calm => d.kind = d.wants /\ d.kind # "settings"
    BY <1>b, <2>2, <2>3 DEF Promised
  <2>5. QED
    BY <1>c, <2>1, <2>2, <2>3, <2>4
<1>8. QED
  BY <1>1, <1>2, <1>3, <1>4, <1>5, <1>6, <1>7 DEF Showing

-----------------------------------------------------------------------------
(* The settings.                                                           *)

\* Nothing is saved or read: drafts may grow, requests may begin, fail or end.
LEMMA SavesSame ==
  ASSUME SavesRight, file' = file, saved' = saved, tidy' => tidy,
         \A p \in Page : drawer'[p].fresh =>
           drawer[p].fresh /\ drawer[p].draft \subseteq drawer'[p].draft,
         \A r \in requests' :
           \/ r \in requests
           \/ r.at = "failed" \/ (r.at = "sent" /\ r.what # "save"),
         tidy' => \A r \in Saves : r \in requests'
  PROVE  SavesRight'
<1>1. tidy' => Saves' = Saves
  BY DEF Saves
<1>2. \A r \in requests' : r.at = "answered" => r \in requests
  OBVIOUS
<1>3. QED
  BY <1>1, <1>2 DEF SavesRight

\* What a page's question of its drawer leaves of its draft.
LEMMA DraftKept ==
  ASSUME PanelsTypes, NEW p \in Page, NEW wants \in Kinds, NEW kind \in Kinds, NEW error \in BOOLEAN,
         Wanted(p, wants, kind, error)
  PROVE  \A q \in Page : drawer'[q].fresh = drawer[q].fresh /\ drawer'[q].draft = drawer[q].draft
<1>1. /\ drawer'[p].draft = drawer[p].draft /\ drawer'[p].fresh = drawer[p].fresh
      /\ \A q \in Page : q # p => drawer'[q] = drawer[q]
  BY WantedFacts
<1>2. QED
  BY <1>1

LEMMA SavesAsked ==
  ASSUME PanelsAssumption, PanelsTypes, SavesRight, NEW p \in Page, Clicking(p)
  PROVE  SavesRight'
<1>a. /\ clicks \in Nat /\ drawer[p].kind \in Kinds /\ drawer[p].draft \in SUBSET Nat
      /\ drawer \in [Page -> DrawerRecord] /\ FALSE \in BOOLEAN /\ TRUE \in BOOLEAN
  BY DrawerFacts DEF PanelsTypes
<1>b. \A what \in Reading \cup Drawing, doc \in SUBSET Nat :
        LET x == Request(p, what, doc) IN x.what = what /\ x.at = "sent" /\ x.doc = doc
  BY <1>a, NewRequest
<1>1. ASSUME file' = file, saved' = saved, tidy' = tidy,
             \A q \in Page : drawer'[q].fresh =>
               drawer[q].fresh /\ drawer[q].draft \subseteq drawer'[q].draft,
             \/ requests' = requests
             \/ \E what \in (Reading \cup Drawing) \ {"save"} : Sends(p, what)
      PROVE  SavesRight'
  BY <1>1, <1>b, SavesSame DEF Sends, Saves
<1>2. CASE (\E n \in Reading : Ask(p, n)) \/ AskBlank(p)
  <2>1. /\ file' = file /\ saved' = saved /\ tidy' = tidy /\ drawer' = drawer
        /\ requests' = requests \/ \E n \in Reading : Sends(p, n)
    BY <1>2 DEF Ask, AskBlank
  <2>2. QED
    BY <1>1, <2>1, Apart DEF Drawing
<1>3. CASE Type(p)
  <2> DEFINE draft == drawer[p].draft \cup {changes + 1}
             d == [drawer[p] EXCEPT !.draft = draft]
  <2>1. /\ file' = file /\ saved' = saved /\ tidy' = tidy /\ requests' = requests
        /\ drawer' = [drawer EXCEPT ![p] = d]
    BY <1>3 DEF Type
  <2>2. drawer[p] \in DrawerRecord
    BY <1>a
  <2>3. d.fresh = drawer[p].fresh /\ d.draft = draft
    BY <2>2 DEF DrawerRecord
  <2>4. drawer[p].draft \subseteq draft
    OBVIOUS
  <2> HIDE DEF d, draft
  <2>5. drawer'[p] = d /\ \A q \in Page : q # p => drawer'[q] = drawer[q]
    BY <1>a, <2>1
  <2>6. QED
    BY <1>1, <2>1, <2>3, <2>4, <2>5
<1>4. CASE \/ \E what \in {"settings", "logs", "export"} : Open(p, what)
           \/ \E kind \in {"memory", "none"} : SetDrawer(p, kind)
           \/ SaveMemory(p) \/ SaveGarbled(p) \/ ClearLogs(p)
  <2>1. /\ file' = file /\ saved' = saved /\ tidy' = tidy
        /\ \/ requests' = requests
           \/ \E what \in (Reading \cup Drawing) \ {"save"} : Sends(p, what)
    BY <1>4 DEF Open, SetDrawer, SaveMemory, SaveGarbled, ClearLogs, Drawing
  <2>2. PICK wants \in Kinds, kind \in Kinds, error \in BOOLEAN : Wanted(p, wants, kind, error)
    BY <1>4, <1>a DEF Open, SetDrawer, SaveMemory, SaveGarbled, ClearLogs, Kept, Kinds
  <2>3. \A q \in Page : drawer'[q].fresh = drawer[q].fresh /\ drawer'[q].draft = drawer[q].draft
    BY <2>2, DraftKept
  <2>4. QED
    BY <1>1, <2>1, <2>3
<1>5. CASE SaveSettings(p)
  <2> DEFINE x == Request(p, "save", drawer[p].draft)
  <2>1. /\ file' = file /\ saved' = saved /\ requests' = requests \cup {x}
        /\ tidy' => tidy /\ drawer[p].fresh /\ Saves = {}
        /\ Wanted(p, "none", drawer[p].kind, FALSE) /\ "none" \in Kinds
    BY <1>5 DEF SaveSettings, Kept, Kinds
  <2>2. x.what = "save" /\ x.at = "sent" /\ x.doc = drawer[p].draft
    BY <1>a, <1>b DEF Drawing
  <2> HIDE DEF x
  <2>3. \A q \in Page : drawer'[q].fresh = drawer[q].fresh /\ drawer'[q].draft = drawer[q].draft
    BY <1>a, <2>1, DraftKept
  <2>4. Saves = {} => Saves' = {x}
    BY <2>1, <2>2 DEF Saves
  <2>5. \A q \in requests' : q.at = "answered" => q \in requests
    BY <2>1, <2>2
  <2>6. tidy' => file = Whole(saved) /\ saved \subseteq x.doc
    BY <2>1, <2>2 DEF SavesRight
  <2>7. QED
    BY <2>1, <2>2, <2>3, <2>4, <2>5, <2>6 DEF SavesRight
<1>6. QED
  BY <1>2, <1>3, <1>4, <1>5 DEF Clicking

\* A request has gone on, or was read before a save.
LEMMA GoneFacts ==
  ASSUME PanelsTypes, NEW r \in requests
  PROVE  /\ \A at : LET q == [r EXCEPT !.at = at]
                    IN  q.what = r.what /\ q.at = at /\ q.doc = r.doc /\ q.fresh = r.fresh
         /\ \A doc : LET q == [r EXCEPT !.at = "answered", !.doc = doc]
                     IN  q.what = r.what /\ q.at = "answered" /\ q.doc = doc
         /\ LET q == [r EXCEPT !.fresh = FALSE]
            IN  q.what = r.what /\ q.at = r.at /\ q.doc = r.doc /\ ~ q.fresh
<1>1. r \in RequestRecord
  BY RequestFacts
<1>2. QED
  BY <1>1 DEF RequestRecord

LEMMA SavesServed ==
  ASSUME PanelsTypes, SavesRight, NEW r \in requests, Serving(r)
  PROVE  SavesRight'
<1>1. CASE GetSettings(r)
  <2> DEFINE x == [r EXCEPT !.at = "answered", !.doc = ReadSettings.doc]
             y == [r EXCEPT !.at = "failed"]
  <2>1. /\ x.what = "settings" /\ x.at = "answered" /\ x.doc = ReadSettings.doc
        /\ y.what = "settings" /\ y.at = "failed"
    BY <1>1, GoneFacts DEF GetSettings
  <2>2. /\ file' = file /\ saved' = saved /\ tidy' = tidy /\ drawer' = drawer
        /\ r.what = "settings" /\ r.at = "sent"
        /\ \/ ReadSettings.read /\ requests' = (requests \ {r}) \cup {x}
           \/ requests' = (requests \ {r}) \cup {y}
    BY <1>1 DEF GetSettings, Goes
  <2>3. (ReadSettings.read <=> file.is = "whole") /\ ReadSettings.doc = file.doc
    BY DEF ReadSettings
  <2> HIDE DEF x, y
  <2>4. CASE requests' = (requests \ {r}) \cup {y}
    BY <2>1, <2>2, <2>4, SavesSame DEF Saves
  <2>5. CASE ReadSettings.read /\ requests' = (requests \ {r}) \cup {x}
    <3>1. Saves' = Saves
      BY <2>1, <2>2, <2>5 DEF Saves
    <3>2. tidy => file = Whole(saved) /\ \A q \in Saves : q.at # "opened"
      <4>0. file.is = "whole"
        BY <2>3, <2>5
      <4>1. file # Empty
        BY <4>0 DEF Empty
      <4>2. tidy => \A q \in Saves : q.at # "opened"
        BY <4>1 DEF SavesRight
      <4>3. \A q \in Saves : q.at = "sent" \/ q.at = "opened"
        BY DEF Saves
      <4>4. QED
        BY <4>2, <4>3 DEF SavesRight
    <3>3. tidy => x.doc = saved
      BY <2>1, <2>3, <3>2 DEF Whole
    <3>4. QED
      BY <2>1, <2>2, <2>5, <3>1, <3>2, <3>3 DEF SavesRight
  <2>6. QED
    BY <2>2, <2>4, <2>5
<1>2. CASE Truncate(r)
  <2> DEFINE x == [r EXCEPT !.at = "opened"]
             old(q) == [q EXCEPT !.fresh = FALSE]
  <2>1. x.what = "save" /\ x.at = "opened" /\ x.doc = r.doc
    BY <1>2, GoneFacts DEF Truncate
  <2>2. \A q \in requests : old(q).what = q.what /\ old(q).at = q.at /\ ~ old(q).fresh
    BY GoneFacts
  <2>3. /\ file' = Empty /\ saved' = saved /\ tidy' = tidy /\ r.what = "save" /\ r.at = "sent"
        /\ requests' = {IF q = r THEN x ELSE IF q.at = "answered" THEN old(q) ELSE q : q \in requests}
        /\ drawer' = [p \in Page |-> [drawer[p] EXCEPT !.fresh = FALSE]]
    BY <1>2 DEF Truncate
  <2>4. \A p \in Page : ~ drawer'[p].fresh
    <3>1. \A p \in Page : drawer[p] \in DrawerRecord
      BY DrawerFacts
    <3>2. QED
      BY <2>3, <3>1 DEF DrawerRecord
  <2> HIDE DEF x, old
  <2>5. /\ \A q \in requests' : q.at = "answered" => ~ q.fresh
        /\ \A q \in Saves' : q = x \/ q \in Saves \ {r}
        /\ x \in Saves'
    BY <2>1, <2>2, <2>3 DEF Saves
  <2>6. r \in Saves
    BY <2>3 DEF Saves
  <2>7. tidy => saved \subseteq x.doc /\ \A q \in Saves' : q = x
    BY <2>1, <2>5, <2>6 DEF SavesRight
  <2>8. QED
    BY <2>1, <2>3, <2>4, <2>5, <2>7 DEF SavesRight
<1>3. CASE Write(r)
  <2> DEFINE x == [r EXCEPT !.at = "answered"]
  <2>1. x.what = "save" /\ x.at = "answered" /\ x.fresh = r.fresh
    BY <1>3, GoneFacts DEF Write
  <2>2. /\ file' \in Written(r) /\ saved' = saved \cup r.doc /\ tidy' = tidy /\ drawer' = drawer
        /\ requests' = (requests \ {r}) \cup {x} /\ r.what = "save" /\ r.at = "opened"
    BY <1>3 DEF Write, Goes
  <2> HIDE DEF x
  <2>3. r \in Saves
    BY <2>2 DEF Saves
  <2>4. tidy => /\ file = Empty /\ saved' = r.doc
                /\ \A p \in Page : ~ drawer[p].fresh
                /\ \A q \in requests : q.at = "answered" => ~ q.fresh
    BY <2>2, <2>3 DEF SavesRight
  <2>5. tidy => file' = Whole(saved')
    BY <2>2, <2>4 DEF Written
  <2>6. tidy => Saves' = {}
    BY <2>1, <2>2, <2>3 DEF SavesRight, Saves
  <2>7. QED
    BY <2>1, <2>2, <2>4, <2>5, <2>6 DEF SavesRight
<1>4. CASE Refuse(r)
  <2> DEFINE y == [r EXCEPT !.at = "failed"]
  <2>1. y.at = "failed"
    BY GoneFacts
  <2>2. /\ file' = file /\ saved' = saved /\ drawer' = drawer
        /\ tidy' => tidy /\ r.what # "save"
        /\ requests' = (requests \ {r}) \cup {y}
    BY <1>4 DEF Refuse, Goes
  <2> HIDE DEF y
  <2>3. tidy' => \A q \in Saves : q \in requests'
    BY <2>2 DEF Saves
  <2>4. QED
    BY <2>1, <2>2, <2>3, SavesSame
<1>5. QED
  BY <1>1, <1>2, <1>3, <1>4 DEF Serving

LEMMA SavesDie ==
  ASSUME PanelsTypes, SavesRight, Die
  PROVE  SavesRight'
<1>1. \A r \in requests : [r EXCEPT !.at = "failed"].at = "failed"
  BY GoneFacts
<1>2. \A r \in requests' : r \in requests \/ r.at = "failed"
  BY <1>1 DEF Die
<1>3. file' = file /\ saved' = saved /\ drawer' = drawer /\ (tidy' => tidy /\ Saves = {})
  BY DEF Die
<1>4. QED
  BY <1>2, <1>3, SavesSame

LEMMA SavesShown ==
  ASSUME PanelsAssumption, PanelsTypes, SavesRight, NEW r \in requests, Showing(r)
  PROVE  SavesRight'
<1> DEFINE d == drawer[r.page]
<1>a. r.page \in Page /\ d \in DrawerRecord /\ drawer \in [Page -> DrawerRecord]
  BY RequestFacts, DrawerFacts DEF PanelsTypes
\* A request that ends is no save that has yet to be written.
<1>b. file' = file /\ saved' = saved /\ tidy' = tidy /\ r \notin Saves
  BY Apart DEF Showing, ShowAnswer, ShowError, OpenDrawer, DrawerStays, CloseDrawer, CloseForm,
               DrawerError, DrawerDone, Ready, Saves, Drawing
<1>c. ASSUME NEW e, drawer' = [drawer EXCEPT ![r.page] = e], e.draft = d.draft, e.fresh = d.fresh
      PROVE  \A p \in Page : drawer'[p].draft = drawer[p].draft /\ drawer'[p].fresh = drawer[p].fresh
  <2>1. drawer'[r.page] = e /\ \A q \in Page : q # r.page => drawer'[q] = drawer[q]
    BY <1>a, <1>c
  <2>2. QED
    BY <1>c, <2>1
<1> HIDE DEF d
<1>1. ASSUME requests' = requests \ {r}, drawer' = drawer \/
             \A p \in Page : drawer'[p].draft = drawer[p].draft /\ drawer'[p].fresh = drawer[p].fresh
      PROVE  SavesRight'
  BY <1>1, <1>b, SavesSame DEF Saves
<1>2. CASE ShowAnswer(r) \/ ShowError(r)
  BY <1>1, <1>2 DEF ShowAnswer, ShowError, Over
<1>3. CASE OpenDrawer(r) /\ r.what = "settings"
  <2> DEFINE e == NewForm(d, r)
  <2>1. e.draft = r.doc /\ e.fresh = r.fresh
    BY <1>a DEF NewForm, DrawerRecord
  <2>2. /\ requests' = requests \ {r} /\ r.at = "answered"
        /\ drawer' = [drawer EXCEPT ![r.page] = e]
    BY <1>3 DEF OpenDrawer, Over, Ready, d
  <2> HIDE DEF e
  <2>3. drawer'[r.page] = e /\ \A q \in Page : q # r.page => drawer'[q] = drawer[q]
    BY <1>a, <2>2
  <2>4. Saves' = Saves
    BY <1>b, <2>2 DEF Saves
  <2>5. QED
    BY <1>3, <1>b, <2>1, <2>2, <2>3, <2>4 DEF SavesRight
<1>4. CASE OpenDrawer(r) /\ r.what # "settings"
  <2> DEFINE logs == [d EXCEPT !.kind = "logs", !.error = FALSE]
             export == [d EXCEPT !.kind = "export"]
  <2>1. /\ logs.draft = d.draft /\ logs.fresh = d.fresh
        /\ export.draft = d.draft /\ export.fresh = d.fresh
    BY <1>a DEF DrawerRecord
  <2>2. /\ requests' = requests \ {r}
        /\ \/ drawer' = [drawer EXCEPT ![r.page] = logs]
           \/ drawer' = [drawer EXCEPT ![r.page] = export]
    BY <1>4 DEF OpenDrawer, Over, d
  <2> HIDE DEF logs, export
  <2>3. QED
    BY <1>1, <1>c, <2>1, <2>2
<1>5. CASE DrawerStays(r) \/ CloseDrawer(r) \/ DrawerError(r) \/ DrawerDone(r)
  <2> DEFINE stays == [d EXCEPT !.failed = TRUE]
             closed == [d EXCEPT !.kind = "none"]
             done == [d EXCEPT !.error = FALSE]
             erred == Erred(d, r)
  <2>1. /\ stays.draft = d.draft /\ stays.fresh = d.fresh
        /\ closed.draft = d.draft /\ closed.fresh = d.fresh
        /\ done.draft = d.draft /\ done.fresh = d.fresh
        /\ erred.draft = d.draft /\ erred.fresh = d.fresh
    BY <1>a DEF DrawerRecord, Erred
  <2>2. /\ requests' = requests \ {r}
        /\ \/ drawer' = drawer
           \/ drawer' = [drawer EXCEPT ![r.page] = stays]
           \/ drawer' = [drawer EXCEPT ![r.page] = closed]
           \/ drawer' = [drawer EXCEPT ![r.page] = done]
           \/ drawer' = [drawer EXCEPT ![r.page] = erred]
    BY <1>5 DEF DrawerStays, CloseDrawer, DrawerError, DrawerDone, Over, d
  <2> HIDE DEF stays, closed, done, erred
  <2>3. QED
    BY <1>1, <1>c, <2>1, <2>2
<1>6. CASE CloseForm(r)
  <2> DEFINE x == [r EXCEPT !.what = "refresh", !.at = "sent", !.doc = {}, !.fresh = TRUE]
             e == SettingsSaved(d)
  <2>1. e.draft = d.draft /\ e.fresh = d.fresh
    BY <1>a DEF DrawerRecord, SettingsSaved
  <2>2. x.what = "refresh" /\ x.at = "sent"
    BY RequestFacts DEF RequestRecord
  <2>3. requests' = (requests \ {r}) \cup {x} /\ drawer' = [drawer EXCEPT ![r.page] = e]
    BY <1>6 DEF CloseForm, d
  <2> HIDE DEF x, e
  <2>4. \A p \in Page : drawer'[p].draft = drawer[p].draft /\ drawer'[p].fresh = drawer[p].fresh
    BY <1>c, <2>1, <2>3
  <2>5. \A q \in Saves : q \in requests'
    BY <1>b, <2>3 DEF Saves
  <2>6. QED
    BY <1>b, <2>2, <2>3, <2>4, <2>5, SavesSame
<1>7. QED
  BY <1>2, <1>3, <1>4, <1>5, <1>6 DEF Showing

-----------------------------------------------------------------------------
(* The theorems.                                                           *)

LEMMA PanelsInit == PanelsAssumption /\ Init => PanelsInv
<1> SUFFICES ASSUME PanelsAssumption, Init PROVE PanelsInv
  OBVIOUS
<1>1. PanelsTypes
  BY TypesInit
<1>2. PanelsRight
  BY DEF Init, PanelsRight
<1>3. DrawersRight
  BY DEF Init, DrawersRight
<1>4. SavesRight
  BY DEF Init, SavesRight, Saves
<1>5. QED
  BY <1>1, <1>2, <1>3, <1>4 DEF PanelsInv

LEMMA PanelsStep == PanelsAssumption /\ PanelsInv /\ [Next]_vars => PanelsInv'
<1> SUFFICES ASSUME PanelsAssumption, PanelsInv, [Next]_vars PROVE PanelsInv'
  OBVIOUS
<1>a. PanelsTypes /\ PanelsRight /\ DrawersRight /\ SavesRight
  BY DEF PanelsInv
<1>1. ASSUME NEW p \in Page, Clicking(p) PROVE PanelsInv'
  BY <1>1, <1>a, TypesAsked, PanelsAsked, DrawersAsked, SavesAsked DEF PanelsInv
<1>2. ASSUME NEW r \in requests, Serving(r) PROVE PanelsInv'
  <2>1. Die \/ \E q \in requests : Serving(q)
    BY <1>2
  <2>2. QED
    BY <1>2, <2>1, <1>a, TypesServed, PanelsServed, DrawersServed, SavesServed DEF PanelsInv
<1>3. ASSUME NEW r \in requests, Showing(r) PROVE PanelsInv'
  BY <1>3, <1>a, TypesShown, PanelsShown, DrawersShown, SavesShown DEF PanelsInv
<1>4. CASE Die
  <2>1. Die \/ \E q \in requests : Serving(q)
    BY <1>4
  <2>2. QED
    BY <1>4, <2>1, <1>a, TypesDie, PanelsServed, DrawersServed, SavesDie DEF PanelsInv
<1>5. CASE UNCHANGED vars
  BY <1>5, <1>a DEF vars, PanelsInv, PanelsTypes, PanelsRight, DrawersRight, SavesRight, Busy, Saves
<1>6. QED
  BY <1>1, <1>2, <1>3, <1>4, <1>5 DEF Next

\* The invariant: a panel or a drawer that takes turns waits for its last question or
\* shows it, and a draft that is fresh has every change that was saved
\* (dashboard.tsx:327-426, http/routes/mod.rs:2161-2191).
THEOREM PanelsInvariant == Spec => []PanelsInv
<1>1. Init => PanelsInv
  BY PanelsAssumption, PanelsInit
<1>2. PanelsInv /\ [Next]_vars => PanelsInv'
  BY PanelsAssumption, PanelsStep
<1>3. QED
  BY <1>1, <1>2, PTL DEF Spec

\* A panel or a drawer that was never asked while it waited shows what was asked last, or
\* that request failed (dashboard.tsx:327-426).
THEOREM SerialAnswersExactHolds == Spec => []SerialAnswersExact
<1>1. PanelsInv => SerialAnswersExact
  BY DEF PanelsInv, PanelsRight, DrawersRight, SerialAnswersExact
<1>2. QED
  BY <1>1, PanelsInvariant, PTL

\* A settings form shows an error exactly when its document was refused, if its page takes
\* turns (dashboard.tsx:357-362 and 389-410).
THEOREM ErrorTruthfulHolds == Spec => []ErrorTruthful
<1>1. PanelsInv => ErrorTruthful
  BY DEF PanelsInv, DrawersRight, ErrorTruthful
<1>2. QED
  BY <1>1, PanelsInvariant, PTL

\* Pages that take turns lose no change of the settings (dashboard.tsx:357-362 and 389-399).
THEOREM SavesKeptHolds == Spec => []SavesKept
<1>1. PanelsInv => SavesKept
  BY DEF PanelsInv, SavesRight, SavesKept
<1>2. QED
  BY <1>1, PanelsInvariant, PTL

\* A page that asks its drawer for something else has no more of a form than before.
LEMMA KindAsked ==
  ASSUME PanelsTypes, Broken, NEW p \in Page, NEW wants, NEW kind, NEW error,
         Wanted(p, wants, kind, error), kind # "settings"
  PROVE  \A q \in Page : drawer'[q].kind # "settings"
<1>1. drawer \in [Page -> DrawerRecord]
  BY DEF PanelsTypes
<1>2. QED
  BY <1>1 DEF Wanted, Broken

\* Settings that are no JSON, and that no page has open, stay so (dashboard.tsx:357-362,
\* http/routes/mod.rs:2172-2179).
LEMMA BrokenStep ==
  ASSUME PanelsAssumption, PanelsTypes, Broken, [Next]_vars
  PROVE  Broken'
<1>a. drawer \in [Page -> DrawerRecord] /\ clicks \in Nat
  BY DEF PanelsTypes
<1>b. \A p \in Page : Kept(p) # "settings"
  BY DEF Broken, Kept
<1>c. \A p \in Page, what \in Reading \cup Drawing, doc \in SUBSET Nat :
        Request(p, what, doc).what = what /\ Request(p, what, doc).at = "sent"
  BY <1>a DEF Request
\* The file stays, no drawer opens a form, no request is a save or was read.
<1>d. ASSUME file' = file, \A p \in Page : drawer'[p].kind # "settings",
             \A r \in requests' : \/ r \in requests \/ r.at = "failed"
                                  \/ r.what # "save" /\ r.at = "sent"
      PROVE  Broken'
  BY <1>d DEF Broken
<1>1. ASSUME NEW p \in Page, Clicking(p) PROVE Broken'
  <2>1. file' = file /\ ~ SaveSettings(p)
    BY <1>1, <1>b DEF Clicking, Ask, AskBlank, Type, Open, SetDrawer, SaveMemory, SaveSettings,
                      SaveGarbled, ClearLogs
  <2>2. \/ requests' = requests
        \/ \E what \in (Reading \cup Drawing) \ {"save"} : Sends(p, what)
    BY <1>1, <2>1, Apart DEF Clicking, Ask, AskBlank, Type, Open, SetDrawer, SaveMemory,
                             SaveGarbled, ClearLogs, Drawing
  <2>3. \A r \in requests' : r \in requests \/ (r.what # "save" /\ r.at = "sent")
    BY <1>c, <2>2 DEF Sends
  <2>4. \A q \in Page : drawer'[q].kind # "settings"
    <3>1. CASE drawer' = drawer
      BY <3>1 DEF Broken
    <3>2. CASE \E wants, kind, error : Wanted(p, wants, kind, error) /\ kind # "settings"
      BY <3>2, KindAsked
    <3>3. QED
      BY <1>1, <1>b, <2>1, <3>1, <3>2 DEF Clicking, Ask, AskBlank, Type, Open, SetDrawer, SaveMemory,
                                          SaveGarbled, ClearLogs
  <2>5. QED
    BY <1>d, <2>1, <2>3, <2>4
<1>2. ASSUME NEW r \in requests, Serving(r) PROVE Broken'
  <2> DEFINE y == [r EXCEPT !.at = "failed"]
  <2>1. y.at = "failed"
    BY GoneFacts
  <2>2. /\ file' = file /\ drawer' = drawer
        /\ requests' = (requests \ {r}) \cup {y}
    BY <1>2 DEF Serving, GetSettings, Truncate, Write, Refuse, Goes, ReadSettings, Broken
  <2> HIDE DEF y
  <2>3. QED
    BY <1>d, <2>1, <2>2 DEF Broken
<1>3. ASSUME NEW r \in requests, Showing(r) PROVE Broken'
  <2>1. file' = file /\ requests' = requests \ {r}
    BY <1>3 DEF Showing, ShowAnswer, ShowError, OpenDrawer, DrawerStays, CloseDrawer, CloseForm,
                DrawerError, DrawerDone, Over, Ready, Broken
  <2>2. \A p \in Page : drawer'[p].kind # "settings"
    <3> DEFINE d == drawer[r.page]
    <3>1. r.page \in Page /\ d \in DrawerRecord /\ d.kind # "settings"
      BY RequestFacts, DrawerFacts DEF Broken
    <3>2. CASE drawer' = drawer
      BY <3>2 DEF Broken
    <3>3. ASSUME NEW e, drawer' = [drawer EXCEPT ![r.page] = e], e.kind # "settings"
          PROVE  \A p \in Page : drawer'[p].kind # "settings"
      BY <1>a, <3>1, <3>3 DEF Broken
    <3> DEFINE logs == [d EXCEPT !.kind = "logs", !.error = FALSE]
               export == [d EXCEPT !.kind = "export"]
               stays == [d EXCEPT !.failed = TRUE]
               closed == [d EXCEPT !.kind = "none"]
               done == [d EXCEPT !.error = FALSE]
               erred == Erred(d, r)
    <3>4. /\ logs.kind # "settings" /\ export.kind # "settings" /\ stays.kind # "settings"
          /\ closed.kind # "settings" /\ done.kind # "settings" /\ erred.kind # "settings"
      BY <3>1 DEF DrawerRecord, Erred
    <3>5. \/ drawer' = drawer
          \/ drawer' = [drawer EXCEPT ![r.page] = logs]
          \/ drawer' = [drawer EXCEPT ![r.page] = export]
          \/ drawer' = [drawer EXCEPT ![r.page] = stays]
          \/ drawer' = [drawer EXCEPT ![r.page] = closed]
          \/ drawer' = [drawer EXCEPT ![r.page] = done]
          \/ drawer' = [drawer EXCEPT ![r.page] = erred]
      BY <1>3 DEF Showing, ShowAnswer, ShowError, OpenDrawer, DrawerStays, CloseDrawer, CloseForm,
                  DrawerError, DrawerDone, Ready, Broken
    <3> HIDE DEF logs, export, stays, closed, done, erred
    <3>6. QED
      BY <3>2, <3>3, <3>4, <3>5
  <2>3. QED
    BY <1>d, <2>1, <2>2
<1>4. CASE Die
  <2>1. \A r \in requests : [r EXCEPT !.at = "failed"].at = "failed"
    BY GoneFacts
  <2>2. file' = file /\ drawer' = drawer /\ \A r \in requests' : r \in requests \/ r.at = "failed"
    BY <1>4, <2>1 DEF Die
  <2>3. QED
    BY <1>d, <2>2 DEF Broken
<1>5. CASE UNCHANGED vars
  BY <1>5 DEF vars, Broken
<1>6. QED
  BY <1>1, <1>2, <1>3, <1>4, <1>5 DEF Next

\* Whatever is clicked, the dashboard does not repair a settings file that is no JSON and
\* that no page has open (http/routes/mod.rs:2172-2179).
THEOREM BrokenStaysHolds == Spec => BrokenStays
<1>1. PanelsInv /\ [Next]_vars => [Broken => Broken']_vars
  <2> SUFFICES ASSUME PanelsInv, [Next]_vars, Broken PROVE Broken'
    OBVIOUS
  <2>1. QED
    BY PanelsAssumption, BrokenStep DEF PanelsInv
<1>2. QED
  BY <1>1, PanelsInvariant, PTL DEF Spec, BrokenStays
=============================================================================
